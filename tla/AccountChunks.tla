---------------------------- MODULE AccountChunks ----------------------------
(***************************************************************************)
(* How enqueueAccounts spreads the accounts it has read over a minute: the *)
(* ordered list is cut into one chunk for each second, and a chunk is      *)
(* locked and published when its second comes.                             *)
(***************************************************************************)
EXTENDS Integers

CONSTANT accountEnqueueSeconds

ASSUME AccountChunksAssumption == accountEnqueueSeconds \in Nat \ {0}

Seconds == 0..(accountEnqueueSeconds - 1)

Indices(n) == 0..(n - 1)

(* math.Ceil of the quotient.                                              *)
ChunkSize(n) == (n + accountEnqueueSeconds - 1) \div accountEnqueueSeconds

Capped(x, n) == IF x > n THEN n ELSE x

(* The chunk for second i of a list of n, a slice.                         *)
Chunk(n, i) ==
    Capped(i * ChunkSize(n), n)..(Capped((i + 1) * ChunkSize(n), n) - 1)

-----------------------------------------------------------------------------
(* Every account of a list is in the chunk of one second, and of one only: *)
(* none is left out by rounding at the end of the list, and none is        *)
(* locked for by two seconds, whatever the length.                         *)
InOneChunk(n) ==
    /\ UNION {Chunk(n, i) : i \in Seconds} = Indices(n)
    /\ \A i, j \in Seconds : i # j => Chunk(n, i) \cap Chunk(n, j) = {}
=============================================================================
