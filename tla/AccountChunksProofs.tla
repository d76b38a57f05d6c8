------------------------- MODULE AccountChunksProofs -------------------------
(***************************************************************************)
(* The chunks of enqueueAccounts partition the list, for every length and  *)
(* every number of seconds.                                                *)
(***************************************************************************)
EXTENDS AccountChunks, TLAPS

(* Division by a positive number, once for all.                            *)
LEMMA Division ==
    ASSUME NEW a \in Nat, NEW b \in Nat \ {0}
    PROVE  /\ a \div b \in Nat
           /\ (a \div b) * b <= a
           /\ a < (a \div b) * b + b
<1>1. a = b * (a \div b) + (a % b) /\ a % b \in 0..(b - 1) /\ a \div b \in Int
  BY SMT
<1>2. a \div b >= 0
  BY <1>1, SMT
<1> QED
  BY <1>1, <1>2, SMT

(* The rounded chunks are long enough.                                     *)
LEMMA SizeSuffices ==
    ASSUME NEW n \in Nat
    PROVE  ChunkSize(n) \in Nat /\ n <= ChunkSize(n) * accountEnqueueSeconds
<1> DEFINE s == accountEnqueueSeconds
           a == n + s - 1
<1>1. s \in Nat \ {0} /\ a \in Nat
  BY AccountChunksAssumption
<1>2. a \div s \in Nat /\ a < (a \div s) * s + s
  BY <1>1, Division
<1>3. ChunkSize(n) = a \div s
  BY DEF ChunkSize
<1> HIDE DEF s
<1>4. (a \div s) * s \in Nat
  BY <1>1, <1>2
<1>5. n <= (a \div s) * s
  BY <1>1, <1>2, <1>4
<1> QED
  BY <1>2, <1>3, <1>5 DEF s

(* What it is to be in a chunk, without the caps.                          *)
LEMMA Uncapped ==
    ASSUME NEW n \in Nat, NEW i \in Nat, NEW k \in Indices(n)
    PROVE  k \in Chunk(n, i) <=> /\ i * ChunkSize(n) <= k
                                 /\ k < (i + 1) * ChunkSize(n)
<1>1. ChunkSize(n) \in Nat
  BY SizeSuffices
<1>2. i * ChunkSize(n) \in Nat /\ (i + 1) * ChunkSize(n) \in Nat
  BY <1>1
<1> DEFINE l == i * ChunkSize(n)
           r == (i + 1) * ChunkSize(n)
<1>3. Chunk(n, i) = Capped(l, n)..(Capped(r, n) - 1)
  BY DEF Chunk
<1>4. k \in Nat /\ k < n
  BY DEF Indices
<1> HIDE DEF l, r
<1>5. l \in Nat /\ r \in Nat
  BY <1>2 DEF l, r
<1>6. (k \in Capped(l, n)..(Capped(r, n) - 1)) <=> (l <= k /\ k < r)
  BY <1>4, <1>5 DEF Capped
<1> QED
  BY <1>3, <1>6 DEF l, r

(* A chunk is a part of the list.                                          *)
LEMMA Within ==
    ASSUME NEW n \in Nat, NEW i \in Nat
    PROVE  Chunk(n, i) \subseteq Indices(n)
<1> DEFINE l == i * ChunkSize(n)
           r == (i + 1) * ChunkSize(n)
<1>1. l \in Nat /\ r \in Nat
  BY SizeSuffices
<1>2. Chunk(n, i) = Capped(l, n)..(Capped(r, n) - 1)
  BY DEF Chunk
<1> HIDE DEF l, r
<1> QED
  BY <1>1, <1>2 DEF Capped, Indices

(* The index k is in the chunk number k \div size.                         *)
LEMMA Covered ==
    ASSUME NEW n \in Nat, NEW k \in Indices(n)
    PROVE  \E i \in Seconds : k \in Chunk(n, i)
<1> DEFINE s == accountEnqueueSeconds
           z == ChunkSize(n)
           i == k \div z
<1>1. s \in Nat \ {0} /\ k \in Nat /\ k < n
  BY AccountChunksAssumption DEF Indices
<1>2. z \in Nat /\ n <= z * s
  BY SizeSuffices
<1> HIDE DEF s, z
<1>3. z # 0
  BY <1>1, <1>2
<1>4. i \in Nat /\ i * z <= k /\ k < i * z + z
  BY <1>1, <1>2, <1>3, Division
<1> HIDE DEF i
<1>5. i * z + z = (i + 1) * z
  BY <1>2, <1>4
<1>6. i < s
  <2> SUFFICES ASSUME i >= s PROVE FALSE
    BY <1>1, <1>4
  <2>1. PICK d \in Nat : i = s + d
    <3>1. i - s \in Nat /\ i = s + (i - s)
      BY <1>1, <1>4
    <3> QED
      BY <3>1
  <2>2. i * z = s * z + d * z /\ d * z \in Nat /\ s * z \in Nat
    BY <1>1, <1>2, <2>1
  <2>3. s * z = z * s
    BY <1>1, <1>2
  <2> QED
    BY <1>1, <1>2, <1>4, <2>2, <2>3
<1>7. i \in Seconds
  BY <1>1, <1>4, <1>6 DEF Seconds, s
<1>8. k \in Chunk(n, i)
  BY <1>4, <1>5, Uncapped DEF z
<1> QED
  BY <1>7, <1>8

(* An earlier chunk ends where a later one has not begun.                  *)
LEMMA Disjoint ==
    ASSUME NEW n \in Nat, NEW i \in Nat, NEW j \in Nat, i < j,
           NEW k \in Indices(n), k \in Chunk(n, i), k \in Chunk(n, j)
    PROVE  FALSE
<1> DEFINE z == ChunkSize(n)
<1>1. z \in Nat
  BY SizeSuffices
<1>2. k < (i + 1) * z /\ j * z <= k
  BY Uncapped
<1> HIDE DEF z
<1>3. PICK d \in Nat : j = (i + 1) + d
  <2>1. j - (i + 1) \in Nat /\ j = (i + 1) + (j - (i + 1))
    OBVIOUS
  <2> QED
    BY <2>1
<1>4. j * z = (i + 1) * z + d * z /\ d * z \in Nat /\ (i + 1) * z \in Nat
  BY <1>1, <1>3
<1>5. k \in Nat
  BY DEF Indices
<1> QED
  BY <1>1, <1>2, <1>4, <1>5

(* Every account of a list of any length is in one chunk and no other,     *)
(* for any number of seconds: enqueueAccounts asks for each account once   *)
(* in a run.                                                               *)
THEOREM ChunksPartition == \A n \in Nat : InOneChunk(n)
<1> TAKE n \in Nat
<1>1. UNION {Chunk(n, i) : i \in Seconds} = Indices(n)
  <2>1. \A i \in Seconds : Chunk(n, i) \subseteq Indices(n)
    BY Within DEF Seconds
  <2>2. \A k \in Indices(n) : \E i \in Seconds : k \in Chunk(n, i)
    BY Covered
  <2> QED
    BY <2>1, <2>2
<1>2. ASSUME NEW i \in Seconds, NEW j \in Seconds, i # j
      PROVE  Chunk(n, i) \cap Chunk(n, j) = {}
  <2>1. i \in Nat /\ j \in Nat /\ (i < j \/ j < i)
    BY <1>2, AccountChunksAssumption DEF Seconds
  <2>2. Chunk(n, i) \subseteq Indices(n)
    BY <2>1, Within
  <2> SUFFICES ASSUME NEW k \in Chunk(n, i), k \in Chunk(n, j) PROVE FALSE
    OBVIOUS
  <2>3. k \in Indices(n)
    BY <2>2
  <2> QED
    BY <2>1, <2>3, Disjoint
<1> QED
  BY <1>1, <1>2 DEF InOneChunk
=============================================================================
