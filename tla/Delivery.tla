------------------------------ MODULE Delivery ------------------------------
(***************************************************************************)
(* What the polling of an inbox promises to the devices of its account,    *)
(* without the queue, the jobs, their copies of the row and all who write  *)
(* it.  A message is taken off the inbox when it is newer than everything  *)
(* that was; then it is owed to each of the devices the account has at     *)
(* that moment, and pushed to them in its turn, or given up.  None is left *)
(* behind by the cursor.                                                   *)
(*                                                                         *)
(* The promise is off for messages that a write has put after the cursor   *)
(* again, and while two jobs may be at work: they can take the same        *)
(* messages, and hold them in turns, until both are gone.                  *)
(***************************************************************************)
EXTENDS Naturals

CONSTANTS Devices, MaxMessages

VARIABLES
    live,       \* the messages in the inbox
    base,       \* what came up to here is none of the account's business
    cursor,     \* the inbox is dealt with up to here
    assoc,      \* the devices of the account
    taken,      \* messages off the inbox that have no addressee yet
    owed,       \* messages each device is about to get
    sent,       \* messages each device got
    lost,       \* messages given up, for one device or for all
    again,      \* messages put after the cursor again
    overlap     \* can two jobs be at work?

vars == <<live, base, cursor, assoc, taken, owed, sent, lost, again, overlap>>

Messages == 1..MaxMessages
Nothing  == [d \in Devices |-> {}]

Init ==
    /\ base \in 0..MaxMessages /\ live = 1..base /\ cursor = base
    /\ assoc = Devices
    /\ taken = {} /\ owed = Nothing /\ sent = Nothing
    /\ lost = {} /\ again = {} /\ overlap = FALSE

-----------------------------------------------------------------------------
(* The inbox, and the devices.                                             *)
Arrive(m) ==
    /\ m > cursor /\ \A n \in live : n < m
    /\ live' = live \cup {m}
    /\ UNCHANGED <<base, cursor, assoc, taken, owed, sent, lost, again, overlap>>

Remove(m) ==
    /\ live' = live \ {m}
    /\ UNCHANGED <<base, cursor, assoc, taken, owed, sent, lost, again, overlap>>

Associate(d) ==
    /\ assoc' \in {assoc \cup {d}, assoc \ {d}}
    /\ UNCHANGED <<live, base, cursor, taken, owed, sent, lost, again, overlap>>

-----------------------------------------------------------------------------
Settled(m) == m \in taken \cup lost \/ \E d \in Devices : m \in owed[d] \cup sent[d]

(* The cursor is written: forward, it passes nothing that is not settled;  *)
(* back, it says what it has put after it again.                           *)
CursorMoves ==
    /\ cursor' \in 0..MaxMessages
    /\ lost \subseteq lost' /\ again \subseteq again'
    /\ \A m \in live : base < m /\ cursor < m /\ m <= cursor' => Settled(m)'
    /\ \A m \in live : cursor' < m /\ m <= cursor => m \in again'

(* What may be taken.                                                      *)
Newer(m) ==
    /\ \A n \in taken : n < m
    /\ \A d \in Devices : \A n \in owed[d] \cup sent[d] : n < m

Due(m) == m \in again \/ (base < m /\ (overlap \/ Newer(m)))

(* (The row may also be written by one who takes nothing.)                 *)
Take(S) ==
    /\ \A m \in S : Due(m)
    /\ taken' = taken \cup S
    /\ CursorMoves
    /\ UNCHANGED <<live, base, assoc, owed, sent, overlap>>

(* S leaves the hand of a job.  Another one may hold it as well.           *)
Less(all, S, left) ==
    /\ all \ S \subseteq left /\ left \subseteq all
    /\ overlap \/ left = all \ S

GiveUp(S) ==
    /\ Less(taken, S, taken')
    /\ S \subseteq lost'
    /\ CursorMoves
    /\ UNCHANGED <<live, base, assoc, owed, sent, overlap>>

(* No device the account has is left out, nor a message without any.       *)
Address(S) ==
    /\ assoc # {}
    /\ S \subseteq taken /\ (overlap \/ S = taken)
    /\ Less(taken, S, taken')
    /\ owed' = [d \in Devices |-> IF d \in assoc THEN owed[d] \cup S ELSE owed[d]]
    /\ UNCHANGED <<live, base, cursor, assoc, sent, lost, again, overlap>>

(* The oldest first.                                                       *)
Discharge(d, m) ==
    /\ m \in owed[d]
    /\ overlap \/ \A n \in owed[d] : m <= n
    /\ \A e \in Devices : Less(owed[e], {n \in {m} : e = d}, owed'[e])

Push(d, m) ==
    /\ Discharge(d, m)
    /\ sent' = [sent EXCEPT ![d] = @ \cup {m}]
    /\ UNCHANGED <<live, base, cursor, assoc, taken, lost, again, overlap>>

(* A device that is told to be gone is no device of the account any more.  *)
Reject(d, m) ==
    /\ Discharge(d, m)
    /\ lost' = lost \cup {m}
    /\ assoc' \in {assoc, assoc \ {d}}
    /\ UNCHANGED <<live, base, cursor, taken, sent, again, overlap>>

(* The lease of a job runs out under it, or the last such job is gone, and *)
(* with it all that was in hand.                                           *)
OverlapChanges ==
    overlap => overlap' \/ (taken' = {} /\ \A d \in Devices : owed'[d] = {})

Overlap ==
    /\ OverlapChanges
    /\ UNCHANGED <<live, base, cursor, assoc, taken, owed, sent, lost, again>>

(* A job dies, with all that it holds.                                     *)
Abandon(S) ==
    /\ Less(taken, S, taken')
    /\ \A d \in Devices : Less(owed[d], S, owed'[d])
    /\ lost' = lost \cup S
    /\ OverlapChanges
    /\ UNCHANGED <<live, base, cursor, assoc, sent, again>>

-----------------------------------------------------------------------------
Next ==
    \/ \E m \in Messages : Arrive(m) \/ Remove(m)
    \/ \E d \in Devices : Associate(d)
    \/ \E S \in SUBSET Messages : Take(S) \/ GiveUp(S) \/ Address(S) \/ Abandon(S)
    \/ \E d \in Devices, m \in Messages : Push(d, m) \/ Reject(d, m)
    \/ Overlap

Spec == Init /\ [][Next]_vars

-----------------------------------------------------------------------------
(* Every variable keeps its type.                                          *)
TypeOK ==
    /\ live \subseteq Messages /\ taken \subseteq Messages /\ assoc \subseteq Devices
    /\ base \in 0..MaxMessages /\ cursor \in 0..MaxMessages
    /\ \A d \in Devices : owed[d] \subseteq Messages
    /\ sent \in [Devices -> SUBSET Messages]

(* What is in hand is newer than all that went before it.                  *)
Ordered ==
    overlap \/ \A d \in Devices :
      /\ \A m \in taken \ again : \A n \in owed[d] \cup sent[d] : n < m
      /\ \A m \in owed[d] \ again : \A n \in sent[d] : n < m

(* What the promise is worth.  A message of the inbox that the cursor has  *)
(* passed is in hand, or was sent, or was given up.                        *)
NoneLeftBehind == \A m \in live : base < m /\ m <= cursor => Settled(m)

(* A device gets a message once and after all the older ones it gets,      *)
(* unless jobs overlap or the message was put after the cursor again.      *)
EachInTurn ==
    [][\A d \in Devices, m \in Messages :
         Push(d, m) /\ m \notin again /\ ~overlap => \A n \in sent[d] : n < m]_vars
=============================================================================
