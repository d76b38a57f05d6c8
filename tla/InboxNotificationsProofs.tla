---------------------- MODULE InboxNotificationsProofs ----------------------
(***************************************************************************)
(* Proofs about InboxNotifications, for any sets of devices, chunks and    *)
(* processes, any number of messages, removals and faults and any page     *)
(* sizes.  What the queue promises is carried over from LockedJobsProofs:  *)
(* every step is one of the queue or leaves it alone.                      *)
(***************************************************************************)
EXTENDS InboxNotifications, FiniteSetTheorems, WellFoundedInduction, TLAPS

Lock == INSTANCE LockedJobsProofs WITH Ids <- {Account}

-----------------------------------------------------------------------------
(* The newest and the oldest of some messages.                             *)

LEMMA Least ==
    ASSUME NEW T, T \subseteq Nat, T # {} PROVE \E x \in T : \A y \in T : x <= y
<1> DEFINE R == OpToRel(<, Nat)
<1>1. IsWellFoundedOn(R, Nat)
  BY NatLessThanWellFounded, Zenon
<1> HIDE DEF R
<1>2. PICK x \in T : \A y \in T : ~(<<y, x>> \in R)
  BY <1>1, WFMin, Zenon
<1>3. \A y \in T : ~(y < x)
  BY <1>2 DEF R, OpToRel
<1> QED
  BY <1>3

LEMMA MessageIs ==
    ASSUME NEW S, S \subseteq Messages
    PROVE  MaxMessages \in Nat /\ \A m \in S : m \in Nat /\ 1 <= m /\ m <= MaxMessages
<1>1. \A m \in Messages : m \in Nat /\ 1 <= m /\ m <= MaxMessages
  BY InboxAssumption DEF Messages
<1> QED
  BY <1>1, InboxAssumption

LEMMA Greatest ==
    ASSUME NEW T, T \subseteq Messages, T # {} PROVE \E x \in T : \A y \in T : y <= x
<1>0. MaxMessages \in Nat /\ \A m \in T : m \in Nat /\ 1 <= m /\ m <= MaxMessages
  BY MessageIs
<1> DEFINE U == {MaxMessages - y : y \in T}
<1>1. U \subseteq Nat /\ U # {}
  <2>1. \A y \in T : MaxMessages - y \in Nat
    BY <1>0
  <2> QED
    BY <2>1
<1>2. PICK u \in U : \A v \in U : u <= v
  BY <1>1, Least
<1>3. PICK x \in T : u = MaxMessages - x
  BY <1>2
<1>4. ASSUME NEW y \in T PROVE y <= x
  <2>1. MaxMessages - y \in U
    OBVIOUS
  <2>2. u <= MaxMessages - y
    BY <1>2, <2>1
  <2> QED
    BY <1>0, <1>3, <2>2
<1> QED
  BY <1>4

LEMMA MaxOfIs ==
    ASSUME NEW S, S \subseteq Messages
    PROVE  /\ MaxOf(S) \in S \cup {0} /\ MaxOf(S) \in 0..MaxMessages
           /\ \A n \in S : n <= MaxOf(S)
           /\ S # {} => MaxOf(S) \in S
<1>0. MaxMessages \in Nat /\ \A m \in S : m \in Nat /\ 1 <= m /\ m <= MaxMessages
  BY MessageIs
<1>1. \E m \in S \cup {0} : \A n \in S : n <= m
  <2>1. CASE S = {}
    BY <2>1
  <2>2. CASE S # {}
    BY <2>2, Greatest
  <2> QED
    BY <2>1, <2>2
<1>2. MaxOf(S) \in S \cup {0} /\ \A n \in S : n <= MaxOf(S)
  BY <1>1 DEF MaxOf
<1>3. ASSUME S # {} PROVE MaxOf(S) \in S
  <2>1. PICK x \in S : TRUE
    BY <1>3
  <2>2. 1 <= x /\ x <= MaxOf(S) /\ x \in Nat
    BY <1>0, <1>2
  <2> QED
    BY <1>2, <2>2
<1> QED
  BY <1>0, <1>2, <1>3

LEMMA MinOfIs ==
    ASSUME NEW S, S \subseteq Messages, S # {}
    PROVE  MinOf(S) \in S /\ \A n \in S : MinOf(S) <= n
<1>1. S \subseteq Nat
  BY DEF Messages
<1>2. \E m \in S : \A n \in S : m <= n
  BY <1>1, Least
<1> QED
  BY <1>2 DEF MinOf

LEMMA FiniteMessages ==
    ASSUME NEW S, S \subseteq Messages PROVE IsFiniteSet(S) /\ Cardinality(S) \in Nat
<1>0. MaxMessages \in Nat
  BY InboxAssumption
<1>1. IsFiniteSet(Messages)
  BY <1>0, FS_Interval DEF Messages
<1> QED
  BY <1>1, FS_Subset, FS_CardinalityType

(* With a message, the newest k contain all that are newer; the oldest k   *)
(* all that are older.                                                     *)
LEMMA NewestClosed ==
    ASSUME NEW S, S \subseteq Messages, NEW k \in Nat
    PROVE  /\ Newest(k, S) \subseteq S
           /\ \A m \in Newest(k, S), n \in S : m <= n => n \in Newest(k, S)
<1> SUFFICES ASSUME NEW m \in Newest(k, S), NEW n \in S, m <= n PROVE n \in Newest(k, S)
  BY DEF Newest
<1> DEFINE A == {q \in S : q > n}
           B == {q \in S : q > m}
<1>0. m \in S
  BY DEF Newest
<1>1. A \subseteq B
  BY <1>0, MessageIs
<1>2. Cardinality(B) < k /\ Cardinality(B) \in Nat /\ Cardinality(A) \in Nat /\ IsFiniteSet(B)
  BY FiniteMessages DEF Newest
<1>3. Cardinality(A) <= Cardinality(B)
  BY <1>1, <1>2, FS_Subset
<1> QED
  BY <1>2, <1>3 DEF Newest

LEMMA OldestClosed ==
    ASSUME NEW S, S \subseteq Messages, NEW k \in Nat
    PROVE  /\ Oldest(k, S) \subseteq S
           /\ \A m \in Oldest(k, S), n \in S : n <= m => n \in Oldest(k, S)
<1> SUFFICES ASSUME NEW m \in Oldest(k, S), NEW n \in S, n <= m PROVE n \in Oldest(k, S)
  BY DEF Oldest
<1> DEFINE A == {q \in S : q < n}
           B == {q \in S : q < m}
<1>0. m \in S
  BY DEF Oldest
<1>1. A \subseteq B
  BY <1>0, MessageIs
<1>2. Cardinality(B) < k /\ Cardinality(B) \in Nat /\ Cardinality(A) \in Nat /\ IsFiniteSet(B)
  BY FiniteMessages DEF Oldest
<1>3. Cardinality(A) <= Cardinality(B)
  BY <1>1, <1>2, FS_Subset
<1> QED
  BY <1>2, <1>3 DEF Oldest

-----------------------------------------------------------------------------
(* The queue.  Queue and Lock are one module, instantiated twice.          *)

LEMMA SameType ==
    /\ Queue!TypeOK <=> Lock!TypeOK
    /\ Queue!TypeOK' <=> Lock!TypeOK'
BY DEF Queue!TypeOK, Lock!TypeOK

LEMMA SameInit == Queue!Init <=> Lock!Init
BY DEF Queue!Init, Lock!Init

LEMMA SameLease ==
    /\ Queue!OneJobPerLease <=> Lock!OneJobPerLease
    /\ Queue!OneJobPerLease' <=> Lock!OneJobPerLease'
BY DEF Queue!OneJobPerLease, Queue!LeaseOf, Queue!Relying, Queue!Holds, Queue!Holding,
       Lock!OneJobPerLease, Lock!LeaseOf, Lock!Relying, Lock!Holds, Lock!Holding

LEMMA SameExclusion == Queue!ExclusiveWork <=> Lock!ExclusiveWork
BY DEF Queue!ExclusiveWork, Lock!ExclusiveWork

LEMMA SameNext == Queue!Next <=> Lock!Next
BY DEF Queue!Next, Queue!SchedulerNext, Queue!RedisNext, Queue!ConsumerNext,
       Queue!Claim, Queue!Publish, Queue!PublishFails, Queue!RestartScheduler,
       Queue!CleanOrphan, Queue!Expire, Queue!RestartRedis, Queue!Deliver,
       Queue!StartJob, Queue!SkipJob, Queue!FinishJob, Queue!FinishDelFails,
       Queue!Ack, Queue!Crash, Queue!CleanLive, Queue!Acquire, Queue!Drop,
       Queue!Fault, Queue!sched, Queue!queue, Queue!History, Queue!Outstanding,
       Queue!Relying, Queue!Holds, Queue!Holding,
       Lock!Next, Lock!SchedulerNext, Lock!RedisNext, Lock!ConsumerNext,
       Lock!Claim, Lock!Publish, Lock!PublishFails, Lock!RestartScheduler,
       Lock!CleanOrphan, Lock!Expire, Lock!RestartRedis, Lock!Deliver,
       Lock!StartJob, Lock!SkipJob, Lock!FinishJob, Lock!FinishDelFails,
       Lock!Ack, Lock!Crash, Lock!CleanLive, Lock!Acquire, Lock!Drop,
       Lock!Fault, Lock!sched, Lock!queue, Lock!History, Lock!Outstanding,
       Lock!Relying, Lock!Holds, Lock!Holding

QueueAlone == UNCHANGED queueVars /\ (Queue!Fault \/ UNCHANGED faults)

(* Every step is a step of the queue, or leaves it alone; a failed call    *)
(* counts.                                                                 *)
LEMMA StepOfQueue == ASSUME Next PROVE Queue!Next \/ QueueAlone
<1>1. CASE QueueStep
  BY <1>1 DEF QueueStep, Queue!Next, Queue!ConsumerNext
<1>2. CASE Arrive \/ Remove
  BY <1>2 DEF Arrive, Remove, Environment, QueueAlone
<1>3. ASSUME NEW c \in Consumers, ConsumerStep(c) \/ ConsumerFault(c)
      PROVE  Queue!Next \/ QueueAlone
  <2>1. CASE StartJob(c) \/ FinishJob(c) \/ Crash(c)
    BY <2>1 DEF StartJob, FinishJob, Crash, Queue!Next, Queue!ConsumerNext
  <2>2. CASE \/ LoadAccount(c) \/ RefreshTokens(c) \/ FetchInbox(c) \/ AdvanceCursor(c)
             \/ WarmUp(c) \/ GetDevices(c) \/ ListDevices(c) \/ DeleteAccount(c)
             \/ \E d \in Devices : Push(c, d) \/ PushRejected(c, d) \/ Disassociate(c, d)
    BY <2>2 DEF LoadAccount, RefreshTokens, FetchInbox, AdvanceCursor, WarmUp, GetDevices,
                ListDevices, DeleteAccount, Push, PushRejected, Disassociate, Calm,
                QueueAlone
  <2>3. CASE \/ CallFails(c) \/ AdvanceNotSaved(c) \/ WarmUpNotSaved(c)
             \/ GetDevicesFails(c) \/ GrantRevoked(c)
    BY <2>3 DEF CallFails, AdvanceNotSaved, WarmUpNotSaved, GetDevicesFails, GrantRevoked,
                Failing, QueueAlone
  <2> QED
    BY <1>3, <2>1, <2>2, <2>3 DEF ConsumerStep, ConsumerFault
<1>4. ASSUME NEW s \in Stuck, StuckStep(s) \/ StuckFails(s) PROVE QueueAlone
  BY <1>4 DEF StuckStep, StuckLoad, StuckCheckPrivate, StuckCheckComment, StuckRecheck,
              StuckRelist, StuckSave, StuckFails, Calm, Failing, QueueAlone
<1>5. ASSUME NEW f \in Refreshers, RefresherLoad(f) \/ RefresherSave(f) PROVE QueueAlone
  BY <1>5 DEF RefresherLoad, RefresherSave, Calm, QueueAlone
<1>6. ASSUME NEW r \in Registrars, RegistrarStep(r) PROVE QueueAlone
  BY <1>6 DEF RegistrarStep, RegistrarList, RegistrarUpsert, RegistrarAssociate, Calm,
              QueueAlone
<1> QED
  BY <1>1, <1>2, <1>3, <1>4, <1>5, <1>6 DEF Next

QueueInv == Queue!TypeOK /\ Queue!OneJobPerLease

LEMMA NextQueueInv == ASSUME QueueInv, Next PROVE QueueInv'
<1> USE DEF QueueInv
<1>0. NoJob \notin {Account} /\ MaxFaults \in Nat
  BY QueueAssumption
<1>1. CASE Queue!Next
  <2>1. Lock!TypeOK /\ Lock!OneJobPerLease /\ Lock!Next
    BY <1>1, SameType, SameNext, SameLease
  <2>2. Lock!TypeOK'
    BY <1>0, <2>1, Lock!NextTypeOK
  <2>3. Lock!OneJobPerLease'
    BY <1>0, <2>1, <2>2, Lock!NextLease
  <2> QED
    BY <2>2, <2>3, SameType, SameLease
<1>2. CASE QueueAlone
  <2>1. faults' \in 0..MaxFaults
    BY <1>0, <1>2 DEF QueueAlone, Queue!Fault, Queue!TypeOK
  <2>2. Queue!TypeOK'
    BY <1>2, <2>1 DEF QueueAlone, queueVars, Queue!TypeOK
  <2>3. Queue!OneJobPerLease'
    BY <1>2 DEF QueueAlone, queueVars, Queue!OneJobPerLease, Queue!LeaseOf,
                Queue!Relying, Queue!Holds
  <2> QED
    BY <2>2, <2>3
<1> QED
  BY <1>1, <1>2, StepOfQueue

LEMMA InitQueueInv == Queue!Init => QueueInv
<1>0. NoJob \notin {Account} /\ MaxFaults \in Nat
  BY QueueAssumption
<1> QED
  BY <1>0, SameInit, SameType, SameLease, Lock!InitTypeOK, Lock!InitLease DEF QueueInv

LEMMA StillQueueInv == ASSUME QueueInv, UNCHANGED <<queueVars, faults>> PROVE QueueInv'
BY DEF QueueInv, queueVars, Queue!TypeOK, Queue!OneJobPerLease, Queue!LeaseOf,
       Queue!Relying, Queue!Holds

(* A lease that was not outlived has one job at work.                      *)
LEMMA OneAtWork ==
    ASSUME QueueInv, Account \notin overrun, NEW c \in Consumers, NEW d \in Consumers,
           pc[c] = "working", pc[d] = "working"
    PROVE  c = d
<1>1. Queue!ExclusiveWork
  <2>0. NoJob \notin {Account} /\ MaxFaults \in Nat
    BY QueueAssumption
  <2> QED
    BY <2>0, SameLease, SameExclusion, Lock!LeaseExcludes DEF QueueInv
<1>2. job[c] = Account /\ job[d] = Account
  BY DEF QueueInv, Queue!TypeOK
<1> QED
  BY <1>1, <1>2 DEF Queue!ExclusiveWork

(* What the queue's own steps leave of a consumer at work.                 *)
LEMMA QueueStepQuiet ==
    ASSUME QueueInv, QueueStep, NEW c \in Consumers
    PROVE  pc'[c] = "working" <=> pc[c] = "working"
<1>0. pc \in [Consumers -> {"idle", "delivered", "working", "skipping", "acking"}]
  BY DEF QueueInv, Queue!TypeOK
<1>1. CASE Queue!SchedulerNext
  BY <1>1 DEF Queue!SchedulerNext, Queue!Claim, Queue!Publish, Queue!PublishFails,
              Queue!RestartScheduler, Queue!CleanOrphan, Queue!queue
<1>2. CASE Queue!RedisNext
  BY <1>2 DEF Queue!RedisNext, Queue!Expire, Queue!RestartRedis, Queue!queue
<1>3. ASSUME NEW d \in Consumers,
             Queue!Deliver(d, Account) \/ Queue!SkipJob(d) \/ Queue!Ack(d) \/ Queue!CleanLive(d)
      PROVE  pc'[c] = "working" <=> pc[c] = "working"
  BY <1>0, <1>3 DEF Queue!Deliver, Queue!SkipJob, Queue!Ack, Queue!Drop, Queue!CleanLive
<1> QED
  BY <1>1, <1>2, <1>3 DEF QueueStep

(* What StartJob, FinishJob and Crash do to the consumers' places.         *)
LEMMA JobQuiet ==
    ASSUME QueueInv, NEW c \in Consumers, StartJob(c) \/ FinishJob(c) \/ Crash(c)
    PROVE  /\ StartJob(c) => pc[c] = "delivered" /\ pc'[c] = "working"
           /\ FinishJob(c) \/ Crash(c) => pc'[c] # "working"
           /\ \A d \in Consumers \ {c} : pc'[d] = pc[d]
<1>1. pc \in [Consumers -> {"idle", "delivered", "working", "skipping", "acking"}]
  BY DEF QueueInv, Queue!TypeOK
<1> QED
  BY <1>1 DEF StartJob, FinishJob, Crash, Queue!StartJob, Queue!FinishJob,
              Queue!FinishDelFails, Queue!Crash, Queue!Drop

(* An outlived lease stays so while a job that holds it is at work.        *)
LEMMA HasHistory == ASSUME Queue!Next PROVE \E O, L : Queue!History(O, L)
BY DEF Queue!Next, Queue!SchedulerNext, Queue!RedisNext, Queue!ConsumerNext, Queue!Claim,
       Queue!Publish, Queue!PublishFails, Queue!RestartScheduler, Queue!CleanOrphan,
       Queue!Expire, Queue!RestartRedis, Queue!Deliver, Queue!StartJob, Queue!SkipJob,
       Queue!FinishJob, Queue!FinishDelFails, Queue!Ack, Queue!Crash, Queue!CleanLive

LEMMA OverrunStays ==
    ASSUME QueueInv, QueueInv', Next, NEW c \in Consumers, pc'[c] = "working",
           Account \notin overrun'
    PROVE  Account \notin overrun
<1>1. CASE Queue!Next
  <2>1. PICK O, L : Queue!History(O, L)
    BY <1>1, HasHistory
  <2>2. job'[c] = Account
    BY DEF QueueInv, Queue!TypeOK
  <2>3. Queue!Outstanding(Account)'
    BY <2>2 DEF Queue!Outstanding
  <2> QED
    BY <2>1, <2>3 DEF Queue!History
<1>2. CASE QueueAlone
  BY <1>2 DEF QueueAlone, queueVars
<1> QED
  BY <1>1, <1>2, StepOfQueue

-----------------------------------------------------------------------------
(* Type correctness.  Every role has places of its own.                    *)
Taking   == {"warm", "devices", "push"}
Advances == {"refresh", "fetch", "advance", "warm"}

ConsumerPlaces  == {"idle", "load", "done", "devs", "detach"} \cup Advances \cup Taking
StuckPlaces     == {"idle", "check", "recheck", "relist", "save"}
RefresherPlaces == {"idle", "refresh", "done"}
RegistrarPlaces == {"idle", "upsert", "associate", "done"}

Rows == [cursor : 0..MaxMessages, count : 0..1, deleted : BOOLEAN]

(* Messages that have arrived.                                             *)
Known == {m \in Messages : inbox[m] # "none"}

OwnType ==
    /\ inbox \in [Messages -> {"none", "live", "deleted", "gone"}]
    /\ base \in 0..1 /\ base <= MaxMessages
    /\ row \in Rows
    /\ assoc \subseteq Devices
    /\ work \in [Processes -> Copies]
    /\ \A c \in Consumers :
        /\ work[c].at \in ConsumerPlaces
        /\ work[c].at = "idle" <=> pc[c] # "working"
        /\ work[c].at = "push" => work[c].page # {}
        /\ work[c].at \in {"refresh", "fetch"} => work[c].page = {}
    /\ \A s \in Stuck : work[s].at \in StuckPlaces
    /\ \A f \in Refreshers : work[f].at \in RefresherPlaces
    /\ \A r \in Registrars : work[r].at \in RegistrarPlaces
    /\ sent \in [Devices -> SUBSET Messages]
    /\ skipped \subseteq Messages /\ swallowed \subseteq Messages
    /\ stale \subseteq Processes /\ again \subseteq Messages

LEMMA Bounds ==
    /\ MaxMessages \in Nat /\ PageLimit \in Nat \ {0} /\ StuckLimit \in Nat \ {0}
    /\ 0 \in 0..MaxMessages /\ 0 \in 0..1 /\ 1 \in 0..1
    /\ Messages \subseteq 0..MaxMessages /\ Messages \subseteq Nat
    /\ Consumers \subseteq Processes /\ Stuck \subseteq Processes
    /\ Refreshers \subseteq Processes /\ Registrars \subseteq Processes
    /\ \A c \in Consumers : c \notin Stuck /\ c \notin Refreshers /\ c \notin Registrars
    /\ \A s \in Stuck : s \notin Refreshers /\ s \notin Registrars
    /\ \A f \in Refreshers : f \notin Registrars
BY InboxAssumption, ProcessesAssumption DEF Messages, Processes

LEMMA IdleIs ==
    /\ Idle \in Copies /\ Done \in Copies
    /\ Idle.at = "idle" /\ Idle.cursor = 0 /\ Idle.page = {} /\ Idle.todo = {}
    /\ Done.at = "done" /\ Done.cursor = 0 /\ Done.page = {} /\ Done.todo = {}
BY Bounds DEF Idle, Done, Copies, Places

Fits(x, w) ==
    /\ x \in Consumers =>
        /\ w.at \in ConsumerPlaces
        /\ w.at = "idle" <=> pc'[x] # "working"
        /\ w.at = "push" => w.page # {}
        /\ w.at \in {"refresh", "fetch"} => w.page = {}
    /\ x \in Stuck => w.at \in StuckPlaces
    /\ x \in Refreshers => w.at \in RefresherPlaces
    /\ x \in Registrars => w.at \in RegistrarPlaces

(* A process's step.                                                       *)
LEMMA StepType ==
    ASSUME OwnType, NEW x \in Processes, NEW w \in Copies, Becomes(x, w), Fits(x, w),
           UNCHANGED <<inbox, base>>,
           \A c \in Consumers \ {x} : pc'[c] = "working" <=> pc[c] = "working",
           row' \in Rows, assoc' \subseteq Devices,
           sent' \in [Devices -> SUBSET Messages],
           skipped' \subseteq Messages, swallowed' \subseteq Messages,
           stale' \subseteq Processes, again' \subseteq Messages
    PROVE  OwnType' /\ work'[x] = w /\ \A y \in Processes \ {x} : work'[y] = work[y]
<1>1. /\ work' \in [Processes -> Copies] /\ work'[x] = w
      /\ \A y \in Processes \ {x} : work'[y] = work[y]
  BY DEF OwnType, Becomes
<1>2. ASSUME NEW c \in Consumers
      PROVE  /\ work'[c].at \in ConsumerPlaces
             /\ work'[c].at = "idle" <=> pc'[c] # "working"
             /\ work'[c].at = "push" => work'[c].page # {}
             /\ work'[c].at \in {"refresh", "fetch"} => work'[c].page = {}
  <2>1. CASE c = x
    BY <1>1, <2>1 DEF Fits
  <2>2. CASE c # x
    BY <1>1, <2>2, Bounds DEF OwnType
  <2> QED
    BY <2>1, <2>2
<1>3. /\ \A s \in Stuck : work'[s].at \in StuckPlaces
      /\ \A f \in Refreshers : work'[f].at \in RefresherPlaces
      /\ \A r \in Registrars : work'[r].at \in RegistrarPlaces
  BY <1>1, Bounds DEF OwnType, Fits
<1> QED
  BY <1>1, <1>2, <1>3 DEF OwnType

LEMMA WrittenType ==
    ASSUME OwnType, NEW x, Written(x) \/ NoUpdate
    PROVE  stale' \subseteq Processes /\ again' \subseteq Messages
BY DEF OwnType, Written, NoUpdate, Between

(* The copies a step leaves.                                               *)
LEMMA PlaceIs ==
    ASSUME NEW w \in Copies, NEW p \in Places
    PROVE  /\ [w EXCEPT !.at = p] \in Copies /\ [w EXCEPT !.at = p].at = p
           /\ [w EXCEPT !.at = p].cursor = w.cursor /\ [w EXCEPT !.at = p].count = w.count
           /\ [w EXCEPT !.at = p].page = w.page /\ [w EXCEPT !.at = p].devs = w.devs
           /\ [w EXCEPT !.at = p].todo = w.todo
BY DEF Copies

LEMMA CopyIs ==
    ASSUME NEW p \in Places, row \in Rows
    PROVE  /\ Copy(p) \in Copies /\ Copy(p).at = p /\ Copy(p).cursor = row.cursor
           /\ Copy(p).page = {} /\ Copy(p).todo = {}
<1>1. row.cursor \in 0..MaxMessages /\ row.count \in 0..1
  BY DEF Rows
<1>2. Idle \in Copies
  BY IdleIs
<1>3. Copy(p) \in Copies
  BY <1>1, <1>2 DEF Copy, Copies
<1> QED
  BY <1>3 DEF Copy, Idle

LEMMA ListingIs ==
    /\ Listing \subseteq Messages /\ Live \subseteq Listing /\ Listing \subseteq Known
    /\ Known \subseteq Messages
BY DEF Listing, Live, Known

LEMMA MessageInboxIs ==
    ASSUME NEW k \in 0..MaxMessages
    PROVE  /\ MessageInbox(k) \subseteq Listing
           /\ k # 0 => \A m \in MessageInbox(k) : m > k
           /\ \A p \in MessageInbox(k), m \in Listing :
                /\ k # 0 /\ k < m /\ m <= p => m \in MessageInbox(k)
                /\ k = 0 /\ p <= m => m \in MessageInbox(k)
<1> DEFINE after == {m \in Listing : m > k}
<1>1. /\ Newest(PageLimit, Listing) \subseteq Listing
      /\ \A p \in Newest(PageLimit, Listing), m \in Listing :
           p <= m => m \in Newest(PageLimit, Listing)
  BY ListingIs, NewestClosed, Bounds
<1>2. /\ Oldest(PageLimit, after) \subseteq after
      /\ \A p \in Oldest(PageLimit, after), m \in after :
           m <= p => m \in Oldest(PageLimit, after)
  BY ListingIs, OldestClosed, Bounds
<1>3. /\ k = 0 => MessageInbox(k) = Newest(PageLimit, Listing)
      /\ k # 0 => MessageInbox(k) \in {{}, Oldest(PageLimit, after)}
  BY DEF MessageInbox
<1> HIDE DEF after
<1>4. after \subseteq Listing /\ (\A m \in after : m > k)
      /\ \A m \in Listing : k < m => m \in after
  <2>1. \A m \in Listing : k < m => m > k
    BY ListingIs, Bounds
  <2> QED
    BY <2>1 DEF after
<1>5. CASE k = 0
  BY <1>1, <1>3, <1>5
<1>6. CASE k # 0
  BY <1>2, <1>3, <1>4, <1>6
<1> QED
  BY <1>5, <1>6

LEMMA MovedIs ==
    ASSUME NEW w \in Copies
    PROVE  /\ Moved(w) \in Copies /\ Moved(w).at \in {"warm", "devices"}
           /\ Moved(w).page = w.page /\ Moved(w).todo = w.todo
           /\ Moved(w).cursor = IF w.page = {} THEN w.cursor ELSE MaxOf(w.page)
<1> DEFINE p == IF w.count = 0 THEN "warm" ELSE "devices"
           k == IF w.page = {} THEN w.cursor ELSE MaxOf(w.page)
<1>1. k \in 0..MaxMessages /\ p \in Places /\ p \in {"warm", "devices"}
  <2>1. w.page \subseteq Messages /\ w.cursor \in 0..MaxMessages
    BY DEF Copies
  <2>2. MaxOf(w.page) \in 0..MaxMessages
    BY <2>1, MaxOfIs
  <2> QED
    BY <2>1, <2>2 DEF Places
<1>2. Moved(w) = [w EXCEPT !.at = p, !.cursor = k]
  BY DEF Moved, Copies
<1> HIDE DEF p, k
<1>3. /\ [w EXCEPT !.at = p, !.cursor = k] \in Copies
      /\ [w EXCEPT !.at = p, !.cursor = k].at = p
      /\ [w EXCEPT !.at = p, !.cursor = k].cursor = k
      /\ [w EXCEPT !.at = p, !.cursor = k].page = w.page
      /\ [w EXCEPT !.at = p, !.cursor = k].todo = w.todo
  BY <1>1 DEF Copies
<1> QED
  BY <1>1, <1>2, <1>3 DEF k

LEMMA AfterPushIs ==
    ASSUME NEW w \in Copies, w.at = "push", w.page # {}, NEW d \in w.todo
    PROVE  /\ AfterPush(w, d) \in Copies
           /\ NextMessage(w) \in w.page /\ \A m \in w.page : NextMessage(w) <= m
           /\ \/ /\ AfterPush(w, d) = Done /\ w.page = {NextMessage(w)}
                 /\ w.todo = {d}
              \/ /\ AfterPush(w, d).at = "push" /\ AfterPush(w, d).page = w.page
                 /\ AfterPush(w, d).todo = w.todo \ {d} /\ w.todo # {d}
                 /\ AfterPush(w, d).devs = w.devs
              \/ /\ AfterPush(w, d).at = "push" /\ AfterPush(w, d).page # {}
                 /\ AfterPush(w, d).page = w.page \ {NextMessage(w)}
                 /\ AfterPush(w, d).todo = w.devs /\ AfterPush(w, d).devs = w.devs
                 /\ w.todo = {d}
<1>1. w.page \subseteq Messages /\ w.devs \subseteq Devices /\ w.todo \subseteq Devices
  BY DEF Copies
<1>2. NextMessage(w) \in w.page /\ \A m \in w.page : NextMessage(w) <= m
  BY <1>1, MinOfIs DEF NextMessage
<1>3. CASE w.todo # {d}
  <2>1. AfterPush(w, d) = [w EXCEPT !.todo = w.todo \ {d}]
    BY <1>3 DEF AfterPush, Copies
  <2>2. /\ [w EXCEPT !.todo = w.todo \ {d}] \in Copies
        /\ [w EXCEPT !.todo = w.todo \ {d}].at = "push"
        /\ [w EXCEPT !.todo = w.todo \ {d}].page = w.page
        /\ [w EXCEPT !.todo = w.todo \ {d}].todo = w.todo \ {d}
        /\ [w EXCEPT !.todo = w.todo \ {d}].devs = w.devs
    BY DEF Copies
  <2> QED
    BY <1>2, <1>3, <2>1, <2>2
<1>4. CASE w.todo = {d} /\ Cardinality(w.page) = 1
  <2>1. w.page = {NextMessage(w)}
    BY <1>1, <1>2, <1>4, FiniteMessages, FS_Singleton
  <2>2. AfterPush(w, d) = Done
    BY <1>4 DEF AfterPush
  <2> QED
    BY <1>2, <1>4, <2>1, <2>2, IdleIs
<1>5. CASE w.todo = {d} /\ Cardinality(w.page) # 1
  <2> DEFINE rest == w.page \ {NextMessage(w)}
  <2>1. rest # {}
    <3>1. w.page # {NextMessage(w)}
      BY <1>1, <1>5, FiniteMessages, FS_Singleton
    <3> QED
      BY <1>2, <3>1
  <2>2. AfterPush(w, d) = [w EXCEPT !.page = rest, !.todo = w.devs]
    BY <1>5 DEF AfterPush, Copies
  <2> HIDE DEF rest
  <2>3. rest \subseteq Messages
    BY <1>1 DEF rest
  <2>4. /\ [w EXCEPT !.page = rest, !.todo = w.devs] \in Copies
        /\ [w EXCEPT !.page = rest, !.todo = w.devs].at = "push"
        /\ [w EXCEPT !.page = rest, !.todo = w.devs].page = rest
        /\ [w EXCEPT !.page = rest, !.todo = w.devs].todo = w.devs
        /\ [w EXCEPT !.page = rest, !.todo = w.devs].devs = w.devs
    BY <1>1, <2>3 DEF Copies
  <2> QED
    BY <1>2, <1>5, <2>1, <2>2, <2>4 DEF rest
<1> QED
  BY <1>3, <1>4, <1>5

LEMMA ResetIs ==
    ASSUME NEW w \in Copies
    PROVE  /\ Reset(w) \in Copies /\ Reset(w).at = "save" /\ Reset(w).page = w.page
           /\ Reset(w).cursor = MaxOf(StuckListing \cap Live)
           /\ Reset(w).cursor \in Live \cup {0}
           /\ Reset(w).cursor # 0 => \A m \in Live : m <= Reset(w).cursor
<1> DEFINE k == MaxOf(StuckListing \cap Live)
<1>1. /\ StuckListing \subseteq Listing
      /\ \A p \in StuckListing, m \in Listing : p <= m => m \in StuckListing
  BY ListingIs, NewestClosed, Bounds DEF StuckListing
<1>2. /\ k \in 0..MaxMessages /\ k \in (StuckListing \cap Live) \cup {0}
      /\ \A n \in StuckListing \cap Live : n <= k
  BY <1>1, ListingIs, MaxOfIs
<1>3. ASSUME k # 0, NEW m \in Live PROVE m <= k
  <2>1. m \in Listing /\ k \in StuckListing /\ m \in Nat /\ k \in Nat
    BY <1>2, <1>3, ListingIs, Bounds
  <2>2. CASE k <= m
    BY <1>1, <1>2, <2>1, <2>2
  <2> QED
    BY <2>1, <2>2
<1>4. Reset(w) = [w EXCEPT !.at = "save", !.cursor = k]
  BY DEF Reset
<1> HIDE DEF k
<1>5. /\ [w EXCEPT !.at = "save", !.cursor = k] \in Copies
      /\ [w EXCEPT !.at = "save", !.cursor = k].at = "save"
      /\ [w EXCEPT !.at = "save", !.cursor = k].page = w.page
      /\ [w EXCEPT !.at = "save", !.cursor = k].cursor = k
  BY <1>2 DEF Copies, Places
<1> QED
  BY <1>2, <1>3, <1>4, <1>5 DEF k

TypeInv == QueueInv /\ OwnType

(* A consumer's step, when it goes on with its job.                        *)
LEMMA GoesOnType ==
    ASSUME TypeInv, NEW c \in Consumers, NEW w \in Copies, Becomes(c, w),
           work[c].at # "idle",
           w.at \in ConsumerPlaces \ {"idle"}, w.at = "push" => w.page # {},
           w.at \in {"refresh", "fetch"} => w.page = {},
           Calm \/ Failing, row' \in Rows, assoc' \subseteq Devices,
           sent' \in [Devices -> SUBSET Messages],
           skipped' \subseteq Messages, swallowed' \subseteq Messages,
           stale' \subseteq Processes, again' \subseteq Messages
    PROVE  OwnType' /\ work'[c] = w /\ \A y \in Processes \ {c} : work'[y] = work[y]
<1>1. UNCHANGED <<inbox, base, pc>>
  BY DEF Calm, Failing, queueVars
<1>2. pc'[c] = "working"
  BY <1>1 DEF TypeInv, OwnType
<1>3. Fits(c, w)
  BY <1>2, Bounds DEF Fits
<1>4. c \in Processes /\ OwnType
  BY Bounds DEF TypeInv
<1>5. \A d \in Consumers \ {c} : pc'[d] = "working" <=> pc[d] = "working"
  BY <1>1
<1> QED
  BY <1>1, <1>3, <1>4, <1>5, StepType

LEMMA HistoryType ==
    ASSUME OwnType, NEW d \in Devices, NEW S, S \subseteq Messages
    PROVE  /\ sent \in [Devices -> SUBSET Messages]
           /\ [sent EXCEPT ![d] = @ \cup S] \in [Devices -> SUBSET Messages]
           /\ skipped \cup S \subseteq Messages /\ swallowed \cup S \subseteq Messages
BY DEF OwnType

LEMMA CopyType ==
    ASSUME OwnType, NEW x \in Processes
    PROVE  /\ work[x] \in Copies /\ work[x].at \in Places
           /\ work[x].cursor \in 0..MaxMessages /\ work[x].count \in 0..1
           /\ work[x].page \subseteq Messages /\ work[x].todo \subseteq Devices
BY DEF OwnType, Copies

LEMMA UpdateType ==
    ASSUME OwnType, NEW x, NEW w \in Copies, Update(x, w)
    PROVE  /\ row' \in Rows /\ row'.cursor = w.cursor /\ row'.deleted = row.deleted
           /\ stale' \subseteq Processes /\ again' \subseteq Messages
<1>1. w.cursor \in 0..MaxMessages /\ w.count \in 0..1 /\ row \in Rows
  BY DEF Copies, OwnType
<1>2. row' \in Rows /\ row'.cursor = w.cursor /\ row'.deleted = row.deleted
  BY <1>1 DEF Update, Rows
<1> QED
  BY <1>2, WrittenType DEF Update

LEMMA StartsType ==
    ASSUME TypeInv, NEW c \in Consumers, StartJob(c) \/ FinishJob(c) \/ Crash(c)
    PROVE  /\ OwnType' /\ \A y \in Processes \ {c} : work'[y] = work[y]
           /\ work'[c].cursor = 0 /\ work'[c].page = {}
           /\ work'[c].at \in {"idle", "load"}
<1>0. c \in Processes /\ OwnType /\ QueueInv
  BY Bounds DEF TypeInv
<1>1. /\ row' = row /\ assoc' = assoc /\ UNCHANGED <<inbox, base, sent, swallowed, again>>
      /\ skipped' \subseteq Messages /\ stale' \subseteq Processes
  BY <1>0, CopyType DEF StartJob, FinishJob, Crash, NoUpdate, history, Skip, OwnType
<1>2. \A d \in Consumers \ {c} : pc'[d] = "working" <=> pc[d] = "working"
  BY <1>0, JobQuiet
<1>3. CASE StartJob(c)
  <2> DEFINE w == [Idle EXCEPT !.at = "load"]
  <2>0. Idle \in Copies /\ "load" \in Places
    BY IdleIs DEF Places
  <2>1. w \in Copies /\ w.at = "load" /\ w.page = {} /\ w.cursor = 0
    BY <2>0, IdleIs DEF Copies
  <2>2. Becomes(c, w)
    BY <1>3 DEF StartJob
  <2> HIDE DEF w
  <2>3. Fits(c, w)
    BY <1>0, <1>3, <2>1, JobQuiet, Bounds DEF Fits, ConsumerPlaces
  <2> QED
    BY <1>0, <1>1, <1>2, <2>1, <2>2, <2>3, StepType DEF OwnType
<1>4. CASE FinishJob(c) \/ Crash(c)
  <2>1. Becomes(c, Idle)
    BY <1>4 DEF FinishJob, Crash
  <2>2. Fits(c, Idle)
    BY <1>0, <1>4, IdleIs, JobQuiet, Bounds DEF Fits, ConsumerPlaces
  <2> QED
    BY <1>0, <1>1, <1>2, <2>1, <2>2, IdleIs, StepType DEF OwnType
<1> QED
  BY <1>3, <1>4

(* What each step of a consumer's job leaves behind.                       *)
Only(x) == \A y \in Processes \ {x} : work'[y] = work[y]

LEMMA LoadIs ==
    ASSUME TypeInv, NEW c \in Consumers, LoadAccount(c)
    PROVE  /\ OwnType' /\ Only(c)
           /\ work'[c].page = {} /\ work'[c].at \in {"done", "refresh", "fetch"}
           /\ work'[c].cursor = IF work'[c].at = "done" THEN 0 ELSE row.cursor
<1>0. c \in Processes /\ OwnType /\ row \in Rows
  BY Bounds DEF TypeInv, OwnType
<1>1. /\ row' \in Rows /\ assoc' \subseteq Devices /\ sent' \in [Devices -> SUBSET Messages]
      /\ skipped' \subseteq Messages /\ swallowed' \subseteq Messages
      /\ stale' \subseteq Processes /\ again' \subseteq Messages /\ work[c].at # "idle"
      /\ Calm
  BY <1>0 DEF LoadAccount, OwnType, history
<1>2. \E w \in Copies :
        /\ Becomes(c, w) /\ w.page = {} /\ w.at \in {"done", "refresh", "fetch"}
        /\ w.cursor = IF w.at = "done" THEN 0 ELSE row.cursor
  <2>1. CASE row.deleted
    BY <2>1, IdleIs DEF LoadAccount
  <2>2. CASE ~row.deleted
    <3>1. PICK next \in {"refresh", "fetch"} : Becomes(c, Copy(next))
      BY <2>2 DEF LoadAccount
    <3>2. next \in Places /\ next # "done"
      BY DEF Places
    <3>3. Copy(next) \in Copies /\ Copy(next).at = next /\ Copy(next).cursor = row.cursor
          /\ Copy(next).page = {}
      BY <1>0, <3>2, CopyIs
    <3> QED
      BY <3>1, <3>2, <3>3
  <2> QED
    BY <2>1, <2>2
<1>3. PICK w \in Copies :
        /\ Becomes(c, w) /\ w.page = {} /\ w.at \in {"done", "refresh", "fetch"}
        /\ w.cursor = IF w.at = "done" THEN 0 ELSE row.cursor
  BY <1>2
<1>4. w.at \in ConsumerPlaces \ {"idle"} /\ w.at # "push"
  BY <1>3 DEF ConsumerPlaces, Advances
<1>5. OwnType' /\ work'[c] = w /\ Only(c)
  BY <1>1, <1>3, <1>4, GoesOnType DEF Only
<1> QED
  BY <1>3, <1>5

LEMMA RefreshIs ==
    ASSUME TypeInv, NEW c \in Consumers, RefreshTokens(c)
    PROVE  /\ OwnType' /\ Only(c)
           /\ work'[c].page = {} /\ work'[c].at = "fetch" /\ work'[c].cursor = work[c].cursor
           /\ row'.cursor = work[c].cursor
<1>0. c \in Processes /\ OwnType /\ work[c] \in Copies /\ work[c].at = "refresh"
      /\ work[c].page = {} /\ "fetch" \in Places
  BY Bounds DEF TypeInv, OwnType, RefreshTokens, Places
<1>1. row' \in Rows /\ stale' \subseteq Processes /\ again' \subseteq Messages
      /\ row'.cursor = work[c].cursor
  BY <1>0, UpdateType DEF RefreshTokens
<1>2. /\ assoc' \subseteq Devices /\ sent' \in [Devices -> SUBSET Messages]
      /\ skipped' \subseteq Messages /\ swallowed' \subseteq Messages /\ Calm
  BY <1>0 DEF RefreshTokens, OwnType, history
<1> DEFINE w == [work[c] EXCEPT !.at = "fetch"]
<1>3. w \in Copies /\ w.at = "fetch" /\ w.page = {} /\ w.cursor = work[c].cursor
  BY <1>0, PlaceIs
<1>4. Becomes(c, w)
  BY DEF RefreshTokens
<1> HIDE DEF w
<1>5. w.at \in ConsumerPlaces \ {"idle"} /\ w.at # "push" /\ work[c].at # "idle"
  BY <1>0, <1>3 DEF ConsumerPlaces, Advances
<1>6. OwnType' /\ work'[c] = w /\ Only(c)
  BY <1>1, <1>2, <1>3, <1>4, <1>5, GoesOnType DEF Only
<1> QED
  BY <1>1, <1>3, <1>6

LEMMA FetchIs ==
    ASSUME TypeInv, NEW c \in Consumers, FetchInbox(c)
    PROVE  /\ OwnType' /\ Only(c)
           /\ \/ work'[c] = Done
              \/ /\ work'[c].at = "advance" /\ work'[c].cursor = work[c].cursor
                 /\ work'[c].page = MessageInbox(work[c].cursor) \cap Live
<1>0. c \in Processes /\ OwnType /\ work[c] \in Copies /\ work[c].at = "fetch"
  BY Bounds DEF TypeInv, OwnType, FetchInbox
<1>1. /\ row' \in Rows /\ assoc' \subseteq Devices /\ sent' \in [Devices -> SUBSET Messages]
      /\ skipped' \subseteq Messages /\ swallowed' \subseteq Messages
      /\ stale' \subseteq Processes /\ again' \subseteq Messages /\ work[c].at # "idle"
      /\ Calm
  BY <1>0 DEF FetchInbox, OwnType, history, NoUpdate
<1> DEFINE page == MessageInbox(work[c].cursor) \cap Live
           v == [work[c] EXCEPT !.at = "advance", !.page = page]
<1>2. page \subseteq Messages /\ "advance" \in Places
  BY ListingIs DEF Places
<1>3. v \in Copies /\ v.at = "advance" /\ v.page = page /\ v.cursor = work[c].cursor
  <2> HIDE DEF page
  <2> QED
    BY <1>0, <1>2 DEF Copies
<1>4. Becomes(c, Done) \/ Becomes(c, v)
  BY DEF FetchInbox
<1> HIDE DEF v
<1>5. v.at \in ConsumerPlaces \ {"idle"} /\ v.at # "push" /\ v.at \notin {"refresh", "fetch"}
      /\ Done.at \in ConsumerPlaces \ {"idle"} /\ Done.at # "push"
  BY <1>3, IdleIs DEF ConsumerPlaces, Advances
<1>6. CASE Becomes(c, Done)
  BY <1>1, <1>5, <1>6, IdleIs, GoesOnType DEF Only
<1>7. CASE Becomes(c, v)
  <2>1. OwnType' /\ work'[c] = v /\ Only(c)
    BY <1>1, <1>3, <1>5, <1>7, GoesOnType DEF Only
  <2> QED
    BY <1>3, <2>1
<1> QED
  BY <1>4, <1>6, <1>7

(* The ways a job ends early.                                              *)
Ends(c) ==
    \/ CallFails(c) \/ WarmUp(c) \/ WarmUpNotSaved(c) \/ GetDevicesFails(c)
    \/ GetDevices(c) /\ (assoc = {} \/ work[c].page = {})
    \/ DeleteAccount(c)

LEMMA EndsIs ==
    ASSUME TypeInv, NEW c \in Consumers, Ends(c)
    PROVE  /\ OwnType' /\ Only(c) /\ work'[c] = Done
           /\ row'.cursor = IF WarmUp(c) THEN work[c].cursor ELSE row.cursor
<1>0. c \in Processes /\ OwnType /\ work[c] \in Copies /\ row \in Rows
  BY Bounds DEF TypeInv, OwnType
<1>1. work[c].page \subseteq Messages
  BY <1>0, CopyType
<1>2. Becomes(c, Done) /\ (Calm \/ Failing) /\ work[c].at # "idle" /\ assoc' = assoc
      /\ sent' = sent
  BY DEF Ends, CallFails, WarmUp, WarmUpNotSaved, GetDevicesFails, GetDevices,
         DeleteAccount, history
<1>3. skipped' \subseteq Messages /\ swallowed' \subseteq Messages
  BY <1>0, <1>1 DEF Ends, CallFails, WarmUp, WarmUpNotSaved, GetDevicesFails, GetDevices,
         DeleteAccount, history, Skip, OwnType
<1>4. /\ row' \in Rows /\ stale' \subseteq Processes /\ again' \subseteq Messages
      /\ row'.cursor = IF WarmUp(c) THEN work[c].cursor ELSE row.cursor
  <2>1. CASE WarmUp(c)
    <3> DEFINE w == [work[c] EXCEPT !.count = 1]
    <3>1. w \in Copies /\ w.cursor = work[c].cursor
      BY <1>0, Bounds DEF Copies
    <3>2. Update(c, w)
      BY <2>1 DEF WarmUp
    <3> HIDE DEF w
    <3> QED
      BY <1>0, <2>1, <3>1, <3>2, UpdateType
  <2>2. CASE DeleteAccount(c)
    <3>1. work[c].at = "detach" /\ ~WarmUp(c)
      BY <2>2 DEF DeleteAccount, WarmUp
    <3>2. row' \in Rows /\ row'.cursor = row.cursor
      BY <1>0, <2>2 DEF DeleteAccount, Rows
    <3> QED
      BY <1>0, <2>2, <3>1, <3>2 DEF DeleteAccount, OwnType
  <2>3. CASE ~WarmUp(c) /\ ~DeleteAccount(c)
    <3>1. NoUpdate
      BY <2>3 DEF Ends, CallFails, WarmUpNotSaved, GetDevicesFails, GetDevices
    <3> QED
      BY <1>0, <2>3, <3>1 DEF NoUpdate, OwnType
  <2> QED
    BY <2>1, <2>2, <2>3
<1>5. Done.at \in ConsumerPlaces \ {"idle"} /\ Done.at # "push"
  BY IdleIs DEF ConsumerPlaces
<1>6. assoc' \subseteq Devices /\ sent' \in [Devices -> SUBSET Messages]
  BY <1>0, <1>2 DEF OwnType
<1>7. OwnType' /\ work'[c] = Done /\ Only(c)
  BY <1>2, <1>3, <1>4, <1>5, <1>6, IdleIs, GoesOnType DEF Only
<1> QED
  BY <1>4, <1>7

LEMMA AdvanceIs ==
    ASSUME TypeInv, NEW c \in Consumers, AdvanceCursor(c) \/ AdvanceNotSaved(c)
    PROVE  /\ OwnType' /\ Only(c)
           /\ work'[c].page = work[c].page /\ work'[c].at \in {"warm", "devices"}
           /\ work'[c].cursor = IF work[c].page = {} THEN work[c].cursor
                                ELSE MaxOf(work[c].page)
           /\ row'.cursor = IF AdvanceCursor(c) THEN
                              IF work[c].page = {} THEN row.cursor ELSE MaxOf(work[c].page)
                            ELSE row.cursor
<1>0. c \in Processes /\ OwnType /\ work[c] \in Copies /\ row \in Rows
      /\ work[c].at = "advance"
  BY Bounds DEF TypeInv, OwnType, AdvanceCursor, AdvanceNotSaved
<1> DEFINE w == Moved(work[c])
<1>1. /\ w \in Copies /\ w.at \in {"warm", "devices"} /\ w.page = work[c].page
      /\ w.cursor = IF work[c].page = {} THEN work[c].cursor ELSE MaxOf(work[c].page)
  BY <1>0, MovedIs
<1>2. Becomes(c, w) /\ (Calm \/ Failing) /\ assoc' = assoc /\ sent' = sent
      /\ swallowed' = swallowed /\ Skip(Unlisted(work[c]))
  BY DEF AdvanceCursor, AdvanceNotSaved
<1>3. skipped' \subseteq Messages /\ swallowed' \subseteq Messages
      /\ assoc' \subseteq Devices /\ sent' \in [Devices -> SUBSET Messages]
  BY <1>0, <1>2, ListingIs DEF Skip, Unlisted, OwnType
<1>4. ASSUME AdvanceCursor(c)
      PROVE  /\ row' \in Rows /\ stale' \subseteq Processes /\ again' \subseteq Messages
             /\ row'.cursor = IF work[c].page = {} THEN row.cursor ELSE MaxOf(work[c].page)
  <2>1. CASE work[c].page = {}
    BY <1>0, <1>4, <2>1 DEF AdvanceCursor, NoUpdate, OwnType
  <2>2. CASE work[c].page # {}
    <3>1. Update(c, w)
      BY <1>4, <2>2 DEF AdvanceCursor
    <3> HIDE DEF w
    <3> QED
      BY <1>0, <1>1, <2>2, <3>1, UpdateType
  <2> QED
    BY <2>1, <2>2
<1>5. ASSUME ~AdvanceCursor(c)
      PROVE  /\ row' \in Rows /\ stale' \subseteq Processes /\ again' \subseteq Messages
             /\ row'.cursor = row.cursor
  BY <1>0, <1>5 DEF AdvanceNotSaved, OwnType, Between
<1> HIDE DEF w
<1>6. w.at \in ConsumerPlaces \ {"idle"} /\ w.at # "push" /\ w.at \notin {"refresh", "fetch"}
      /\ work[c].at # "idle"
  BY <1>0, <1>1 DEF ConsumerPlaces, Taking
<1>7. OwnType' /\ work'[c] = w /\ Only(c)
  BY <1>1, <1>2, <1>3, <1>4, <1>5, <1>6, GoesOnType DEF Only
<1> QED
  BY <1>1, <1>4, <1>5, <1>7

LEMMA DevicesIs ==
    ASSUME TypeInv, NEW c \in Consumers, GetDevices(c), assoc # {}, work[c].page # {}
    PROVE  /\ OwnType' /\ Only(c)
           /\ work'[c].page = work[c].page /\ work'[c].at = "push" /\ work'[c].cursor = 0
           /\ work'[c].todo = assoc /\ work'[c].devs = assoc
<1>0. c \in Processes /\ OwnType /\ work[c] \in Copies /\ row \in Rows
  BY Bounds DEF TypeInv, OwnType
<1>1. work[c].page \subseteq Messages /\ assoc \subseteq Devices /\ "push" \in Places
  BY <1>0, CopyType DEF OwnType, Places
<1> DEFINE w == [Idle EXCEPT !.at = "push", !.page = work[c].page, !.devs = assoc,
                             !.todo = assoc]
<1>2. w \in Copies /\ w.at = "push" /\ w.page = work[c].page /\ w.cursor = 0 /\ w.todo = assoc
      /\ w.devs = assoc
  BY <1>1, IdleIs DEF Copies
<1>3. Becomes(c, w) /\ Calm /\ NoUpdate /\ UNCHANGED <<assoc, history>> /\ work[c].at # "idle"
  BY DEF GetDevices, history
<1> HIDE DEF w
<1>4. /\ row' \in Rows /\ assoc' \subseteq Devices /\ sent' \in [Devices -> SUBSET Messages]
      /\ skipped' \subseteq Messages /\ swallowed' \subseteq Messages
      /\ stale' \subseteq Processes /\ again' \subseteq Messages
  BY <1>0, <1>3 DEF OwnType, history, NoUpdate
<1>5. w.at \in ConsumerPlaces \ {"idle"}
  BY <1>2 DEF ConsumerPlaces, Taking
<1>6. OwnType' /\ work'[c] = w /\ Only(c)
  BY <1>2, <1>3, <1>4, <1>5, GoesOnType DEF Only
<1> QED
  BY <1>2, <1>6

LEMMA PushIs ==
    ASSUME TypeInv, NEW c \in Consumers, NEW d \in Devices, Push(c, d) \/ PushRejected(c, d)
    PROVE  LET m == NextMessage(work[c]) IN
           /\ OwnType' /\ Only(c)
           /\ work[c].at = "push" /\ d \in work[c].todo
           /\ m \in work[c].page /\ \A n \in work[c].page : m <= n
           /\ \/ work'[c] = Done /\ work[c].page = {m} /\ work[c].todo = {d}
              \/ /\ work'[c].at = "push" /\ work'[c].page = work[c].page
                 /\ work'[c].todo = work[c].todo \ {d} /\ work'[c].page # {}
                 /\ work'[c].devs = work[c].devs /\ work[c].todo # {d}
              \/ /\ work'[c].at = "push" /\ work'[c].page # {}
                 /\ work'[c].page = work[c].page \ {m}
                 /\ work'[c].todo = work[c].devs /\ work'[c].devs = work[c].devs
                 /\ work[c].todo = {d}
<1>0. c \in Processes /\ OwnType /\ work[c] \in Copies /\ row \in Rows
      /\ work[c].at = "push" /\ work[c].page # {} /\ d \in work[c].todo
  BY Bounds DEF TypeInv, OwnType, Push, PushRejected
<1> DEFINE w == AfterPush(work[c], d)
           m == NextMessage(work[c])
<1>1. /\ w \in Copies
      /\ m \in work[c].page /\ \A n \in work[c].page : m <= n
      /\ \/ w = Done /\ work[c].page = {m} /\ work[c].todo = {d}
         \/ /\ w.at = "push" /\ w.page = work[c].page /\ w.todo = work[c].todo \ {d}
            /\ w.devs = work[c].devs /\ work[c].todo # {d}
         \/ /\ w.at = "push" /\ w.page # {} /\ w.page = work[c].page \ {m}
            /\ w.todo = work[c].devs /\ w.devs = work[c].devs
            /\ work[c].todo = {d}
  BY <1>0, AfterPushIs
<1>2. Becomes(c, w) /\ Calm /\ NoUpdate /\ work[c].at # "idle"
  BY <1>0 DEF Push, PushRejected
<1> HIDE DEF w, m
<1>3. work[c].page \subseteq Messages
  BY <1>0, CopyType
<1>4. /\ row' \in Rows /\ assoc' \subseteq Devices /\ sent' \in [Devices -> SUBSET Messages]
      /\ skipped' \subseteq Messages /\ swallowed' \subseteq Messages
      /\ stale' \subseteq Processes /\ again' \subseteq Messages
  <2>1. row' \in Rows /\ stale' \subseteq Processes /\ again' \subseteq Messages
        /\ swallowed' \subseteq Messages
    BY <1>0, <1>2 DEF NoUpdate, Push, PushRejected, OwnType
  <2>2. CASE Push(c, d)
    <3>1. sent' = [sent EXCEPT ![d] = @ \cup {m}] /\ assoc' = assoc /\ skipped' = skipped
      BY <2>2 DEF Push, m
    <3> QED
      BY <1>0, <1>1, <1>3, <2>1, <3>1 DEF OwnType
  <2>3. CASE PushRejected(c, d)
    <3>1. sent' = sent /\ assoc' \subseteq assoc /\ skipped' = skipped \cup {m}
      BY <2>3 DEF PushRejected, Skip, m
    <3> QED
      BY <1>0, <1>1, <1>3, <2>1, <3>1 DEF OwnType
  <2> QED
    BY <2>2, <2>3
<1>5. w.at \in ConsumerPlaces \ {"idle"} /\ (w.at = "push" => w.page # {})
      /\ w.at \notin {"refresh", "fetch"}
  BY <1>0, <1>1, IdleIs DEF ConsumerPlaces, Taking
<1>6. OwnType' /\ work'[c] = w /\ Only(c)
  BY <1>1, <1>2, <1>4, <1>5, GoesOnType DEF Only
<1> QED
  BY <1>0, <1>1, <1>6 DEF m

(* The grant was revoked.                                                  *)
Revoking(c) == \/ GrantRevoked(c) \/ ListDevices(c)
               \/ \E d \in Devices : Disassociate(c, d)

LEMMA RevokingIs ==
    ASSUME TypeInv, NEW c \in Consumers, Revoking(c)
    PROVE  /\ OwnType' /\ Only(c)
           /\ work'[c].page \subseteq work[c].page /\ work'[c].cursor \in {0, work[c].cursor}
           /\ work'[c].at \in {"devs", "detach"}
           /\ NoUpdate /\ UNCHANGED history
<1>0. c \in Processes /\ OwnType /\ work[c] \in Copies /\ assoc \subseteq Devices
      /\ Idle \in Copies /\ "devs" \in Places /\ "detach" \in Places
  BY Bounds, IdleIs DEF TypeInv, OwnType, Places
<1>1. NoUpdate /\ UNCHANGED history /\ (Calm \/ Failing) /\ work[c].at # "idle"
      /\ assoc' \subseteq Devices
  BY <1>0 DEF Revoking, GrantRevoked, ListDevices, Disassociate, history
<1>2. \E w \in Copies :
        /\ Becomes(c, w) /\ w.page \subseteq work[c].page /\ w.cursor \in {0, work[c].cursor}
        /\ w.at \in {"devs", "detach"}
  <2>1. CASE GrantRevoked(c)
    <3> DEFINE w == [Idle EXCEPT !.at = "devs"]
    <3>1. w \in Copies /\ w.page = {} /\ w.cursor = 0 /\ w.at = "devs"
      BY <1>0, IdleIs, PlaceIs
    <3>2. Becomes(c, w)
      BY <2>1 DEF GrantRevoked
    <3> HIDE DEF w
    <3> QED
      BY <3>1, <3>2
  <2>2. CASE ListDevices(c)
    <3> DEFINE w == [Idle EXCEPT !.at = "detach", !.todo = assoc]
    <3>1. w \in Copies /\ w.page = {} /\ w.cursor = 0 /\ w.at = "detach"
      BY <1>0, IdleIs DEF Copies
    <3>2. Becomes(c, w)
      BY <2>2 DEF ListDevices
    <3> HIDE DEF w
    <3> QED
      BY <3>1, <3>2
  <2>3. ASSUME NEW d \in Devices, Disassociate(c, d)
        PROVE  \E w \in Copies :
                 /\ Becomes(c, w) /\ w.page \subseteq work[c].page
                 /\ w.cursor \in {0, work[c].cursor} /\ w.at \in {"devs", "detach"}
    <3> DEFINE w == [work[c] EXCEPT !.todo = work[c].todo \ {d}]
    <3>1. work[c].at = "detach" /\ Becomes(c, [work[c] EXCEPT !.todo = @ \ {d}])
      BY <2>3 DEF Disassociate
    <3>2. w \in Copies /\ w.page = work[c].page /\ w.cursor = work[c].cursor /\ w.at = "detach"
      BY <1>0, <3>1 DEF Copies
    <3>3. Becomes(c, w)
      BY <1>0, <3>1 DEF Copies
    <3> HIDE DEF w
    <3> QED
      BY <3>2, <3>3
  <2> QED
    BY <2>1, <2>2, <2>3 DEF Revoking
<1>3. PICK w \in Copies :
        /\ Becomes(c, w) /\ w.page \subseteq work[c].page /\ w.cursor \in {0, work[c].cursor}
        /\ w.at \in {"devs", "detach"}
  BY <1>2
<1>4. w.at \in ConsumerPlaces \ {"idle"} /\ w.at # "push" /\ w.at \notin {"refresh", "fetch"}
  BY <1>3 DEF ConsumerPlaces
<1>5. /\ row' \in Rows /\ sent' \in [Devices -> SUBSET Messages]
      /\ skipped' \subseteq Messages /\ swallowed' \subseteq Messages
      /\ stale' \subseteq Processes /\ again' \subseteq Messages
  BY <1>0, <1>1 DEF NoUpdate, history, OwnType
<1>6. OwnType' /\ work'[c] = w /\ Only(c)
  BY <1>1, <1>3, <1>4, <1>5, GoesOnType DEF Only
<1> QED
  BY <1>1, <1>3, <1>6

(* A consumer's step is one of these.                                      *)
LEMMA ConsumerCases ==
    ASSUME TypeInv, NEW c \in Consumers, ConsumerStep(c) \/ ConsumerFault(c)
    PROVE  \/ StartJob(c) \/ FinishJob(c) \/ Crash(c)
           \/ LoadAccount(c) \/ RefreshTokens(c) \/ FetchInbox(c)
           \/ AdvanceCursor(c) \/ AdvanceNotSaved(c)
           \/ Ends(c) \/ (GetDevices(c) /\ assoc # {} /\ work[c].page # {})
           \/ (\E d \in Devices : Push(c, d) \/ PushRejected(c, d))
           \/ Revoking(c)
BY DEF ConsumerStep, ConsumerFault, Ends, Revoking

LEMMA ConsumerType ==
    ASSUME TypeInv, NEW c \in Consumers, ConsumerStep(c) \/ ConsumerFault(c)
    PROVE  OwnType'
BY ConsumerCases, StartsType, LoadIs, RefreshIs, FetchIs, AdvanceIs, EndsIs, DevicesIs,
   PushIs, RevokingIs

(* The steps of the others.                                                *)
LEMMA OtherType ==
    ASSUME TypeInv, NEW x \in Processes, x \notin Consumers, NEW w \in Copies,
           Becomes(x, w), Fits(x, w),
           Calm \/ Failing, row' \in Rows, assoc' \subseteq Devices, UNCHANGED <<sent, swallowed>>,
           skipped' \subseteq Messages, stale' \subseteq Processes, again' \subseteq Messages
    PROVE  OwnType' /\ work'[x] = w /\ Only(x)
<1>1. UNCHANGED <<inbox, base, pc>>
  BY DEF Calm, Failing, queueVars
<1>2. OwnType /\ sent' \in [Devices -> SUBSET Messages] /\ swallowed' \subseteq Messages
      /\ \A c \in Consumers \ {x} : pc'[c] = "working" <=> pc[c] = "working"
  BY <1>1 DEF TypeInv, OwnType
<1> QED
  BY <1>1, <1>2, StepType DEF Only

(* A cursor read off the top of the inbox leaves no live message after it. *)
Topmost(k) == k # 0 => \A m \in Live : m <= k

LEMMA StuckIs ==
    ASSUME TypeInv, NEW s \in Stuck, StuckStep(s) \/ StuckFails(s)
    PROVE  /\ OwnType' /\ Only(s) /\ UNCHANGED <<assoc, sent, swallowed>>
           /\ work'[s].page \subseteq work[s].page
           /\ work'[s].cursor \in {0, row.cursor, work[s].cursor} \cup Live
           /\ work'[s].at = "save" => Topmost(work'[s].cursor)
           /\ row'.cursor = IF StuckSave(s) THEN work[s].cursor ELSE row.cursor
<1>0. s \in Processes /\ OwnType /\ work[s] \in Copies /\ row \in Rows /\ s \notin Consumers
      /\ Idle \in Copies /\ "check" \in Places /\ "recheck" \in Places /\ "relist" \in Places
  BY Bounds, IdleIs DEF TypeInv, OwnType, Places
<1>1. /\ UNCHANGED <<assoc, sent, swallowed>> /\ (Calm \/ Failing)
      /\ skipped' \subseteq Messages
  BY <1>0 DEF StuckStep, StuckLoad, StuckCheckPrivate, StuckCheckComment, StuckRecheck,
              StuckRelist, StuckSave, StuckFails, history, Skip, Between, OwnType
<1>2. /\ row' \in Rows /\ stale' \subseteq Processes /\ again' \subseteq Messages
      /\ row'.cursor = IF StuckSave(s) THEN work[s].cursor ELSE row.cursor
  <2>1. CASE StuckSave(s)
    <3>1. Update(s, work[s])
      BY <2>1 DEF StuckSave
    <3> QED
      BY <1>0, <2>1, <3>1, UpdateType
  <2>2. CASE ~StuckSave(s)
    BY <1>0, <2>2 DEF StuckStep, StuckLoad, StuckCheckPrivate, StuckCheckComment,
              StuckRecheck, StuckRelist, StuckFails, NoUpdate, OwnType
  <2> QED
    BY <2>1, <2>2
<1>3. \E w \in Copies :
        /\ Becomes(s, w) /\ w.at \in StuckPlaces /\ w.page \subseteq work[s].page
        /\ w.cursor \in {0, row.cursor, work[s].cursor} \cup Live
        /\ w.at = "save" => Topmost(w.cursor)
  <2>1. CASE Becomes(s, Idle)
    BY <2>1, IdleIs DEF StuckPlaces
  <2>2. CASE Becomes(s, Copy("check"))
    BY <1>0, <2>2, CopyIs DEF StuckPlaces
  <2>3. CASE Becomes(s, Reset(work[s]))
    BY <1>0, <2>3, ResetIs DEF StuckPlaces, Topmost
  <2>4. ASSUME NEW p \in {"recheck", "relist"}, Becomes(s, [work[s] EXCEPT !.at = p])
        PROVE  \E w \in Copies :
                 /\ Becomes(s, w) /\ w.at \in StuckPlaces /\ w.page \subseteq work[s].page
                 /\ w.cursor \in {0, row.cursor, work[s].cursor} \cup Live
                 /\ w.at = "save" => Topmost(w.cursor)
    <3> DEFINE w == [work[s] EXCEPT !.at = p]
    <3>1. w \in Copies /\ w.at = p /\ w.page = work[s].page /\ w.cursor = work[s].cursor
      BY <1>0, PlaceIs
    <3> HIDE DEF w
    <3>2. Becomes(s, w)
      BY <2>4 DEF w
    <3> QED
      BY <3>1, <3>2 DEF StuckPlaces
  <2>5. \/ Becomes(s, Idle) \/ Becomes(s, Copy("check")) \/ Becomes(s, Reset(work[s]))
        \/ Becomes(s, [work[s] EXCEPT !.at = "recheck"])
        \/ Becomes(s, [work[s] EXCEPT !.at = "relist"])
    <3>1. CASE StuckCheckComment(s)
      <4>1. PICK found \in BOOLEAN :
              Becomes(s, [work[s] EXCEPT !.at = IF found THEN "recheck" ELSE "relist"])
        BY <3>1 DEF StuckCheckComment
      <4>2. CASE found
        BY <4>1, <4>2
      <4>3. CASE ~found
        BY <4>1, <4>3
      <4> QED
        BY <4>2, <4>3
    <3>2. CASE StuckRecheck(s)
      BY <3>2 DEF StuckRecheck
    <3>3. CASE StuckCheckPrivate(s)
      BY <3>3 DEF StuckCheckPrivate
    <3>4. CASE StuckLoad(s) \/ StuckRelist(s) \/ StuckSave(s) \/ StuckFails(s)
      BY <3>4 DEF StuckLoad, StuckRelist, StuckSave, StuckFails
    <3> QED
      BY <3>1, <3>2, <3>3, <3>4 DEF StuckStep
  <2> QED
    BY <2>1, <2>2, <2>3, <2>4, <2>5
<1>4. PICK w \in Copies :
        /\ Becomes(s, w) /\ w.at \in StuckPlaces /\ w.page \subseteq work[s].page
        /\ w.cursor \in {0, row.cursor, work[s].cursor} \cup Live
        /\ w.at = "save" => Topmost(w.cursor)
  BY <1>3
<1>5. Fits(s, w)
  BY <1>4, Bounds DEF Fits
<1>6. assoc' \subseteq Devices
  BY <1>0, <1>1 DEF OwnType
<1>7. OwnType' /\ work'[s] = w /\ Only(s)
  BY <1>0, <1>1, <1>2, <1>4, <1>5, <1>6, OtherType
<1> QED
  BY <1>1, <1>2, <1>4, <1>7

LEMMA RefresherIs ==
    ASSUME TypeInv, NEW f \in Refreshers, RefresherLoad(f) \/ RefresherSave(f)
    PROVE  /\ OwnType' /\ Only(f) /\ UNCHANGED <<assoc, history>>
           /\ work'[f].page = {}
           /\ work'[f].cursor = IF RefresherLoad(f) THEN row.cursor ELSE 0
           /\ work'[f].at = IF RefresherLoad(f) THEN "refresh" ELSE "done"
           /\ row'.cursor = IF RefresherLoad(f) THEN row.cursor ELSE work[f].cursor
<1>0. f \in Processes /\ OwnType /\ work[f] \in Copies /\ row \in Rows /\ f \notin Consumers
      /\ "refresh" \in Places /\ Done \in Copies
  BY Bounds, IdleIs DEF TypeInv, OwnType, Places
<1>1. /\ UNCHANGED <<assoc, sent, swallowed>> /\ Calm /\ UNCHANGED history
      /\ skipped' \subseteq Messages /\ assoc' \subseteq Devices
  BY <1>0 DEF RefresherLoad, RefresherSave, history, OwnType
<1>2. CASE RefresherLoad(f)
  <2>1. /\ Becomes(f, Copy("refresh"))
        /\ row' \in Rows /\ stale' \subseteq Processes /\ again' \subseteq Messages
        /\ row'.cursor = row.cursor
    BY <1>0, <1>2 DEF RefresherLoad, NoUpdate, OwnType
  <2>2. Copy("refresh") \in Copies /\ Copy("refresh").page = {}
        /\ Copy("refresh").at = "refresh" /\ Copy("refresh").cursor = row.cursor
    BY <1>0, CopyIs
  <2>3. Fits(f, Copy("refresh"))
    BY <2>2, Bounds DEF Fits, RefresherPlaces
  <2> QED
    BY <1>0, <1>1, <1>2, <2>1, <2>2, <2>3, OtherType
<1>3. CASE ~RefresherLoad(f)
  <2>1. Becomes(f, Done) /\ Update(f, work[f])
    BY <1>3 DEF RefresherSave
  <2>2. /\ row' \in Rows /\ stale' \subseteq Processes /\ again' \subseteq Messages
        /\ row'.cursor = work[f].cursor
    BY <1>0, <2>1, UpdateType
  <2>3. Fits(f, Done)
    BY IdleIs, Bounds DEF Fits, RefresherPlaces
  <2> QED
    BY <1>0, <1>1, <1>3, <2>1, <2>2, <2>3, IdleIs, OtherType
<1> QED
  BY <1>2, <1>3

LEMMA RegistrarIs ==
    ASSUME TypeInv, NEW r \in Registrars, RegistrarStep(r)
    PROVE  /\ OwnType' /\ Only(r) /\ UNCHANGED <<sent, swallowed>>
           /\ work'[r].page = {} /\ work'[r].at \in {"upsert", "associate", "done"}
           /\ work'[r].at = "upsert" => RegistrarList(r)
           /\ work'[r].cursor = IF RegistrarList(r) THEN MaxOf(Listing) ELSE 0
           /\ row'.cursor = IF RegistrarUpsert(r) THEN work[r].cursor ELSE row.cursor
<1>0. r \in Processes /\ OwnType /\ work[r] \in Copies /\ row \in Rows /\ r \notin Consumers
      /\ "upsert" \in Places /\ "associate" \in Places /\ Idle \in Copies /\ Done \in Copies
      /\ MaxOf(Listing) \in 0..MaxMessages /\ work[r].cursor \in 0..MaxMessages
  BY Bounds, IdleIs, ListingIs, MaxOfIs DEF TypeInv, OwnType, Places, Copies
<1>1. /\ UNCHANGED <<sent, swallowed>> /\ Calm /\ assoc' \subseteq Devices
      /\ skipped' \subseteq Messages
  BY <1>0 DEF RegistrarStep, RegistrarList, RegistrarUpsert, RegistrarAssociate,
              history, OwnType, Skip, Between
<1>2. CASE RegistrarList(r)
  <2> DEFINE w == [Idle EXCEPT !.at = "upsert", !.cursor = MaxOf(Listing)]
  <2>1. w \in Copies /\ w.at = "upsert" /\ w.page = {} /\ w.cursor = MaxOf(Listing)
    BY <1>0, IdleIs DEF Copies
  <2>2. /\ Becomes(r, w) /\ row' = row /\ work[r].at = "idle"
        /\ stale' \subseteq Processes /\ again' \subseteq Messages
    BY <1>0, <1>2 DEF RegistrarList, NoUpdate, OwnType
  <2> HIDE DEF w
  <2>3. Fits(r, w)
    BY <2>1, Bounds DEF Fits, RegistrarPlaces
  <2>4. OwnType' /\ work'[r] = w /\ Only(r)
    BY <1>0, <1>1, <2>1, <2>2, <2>3, OtherType
  <2>5. ~RegistrarUpsert(r)
    BY <2>2 DEF RegistrarUpsert
  <2> QED
    BY <1>1, <1>2, <2>1, <2>2, <2>4, <2>5
<1>3. CASE RegistrarUpsert(r)
  <2> DEFINE w == [Idle EXCEPT !.at = "associate"]
  <2>1. w \in Copies /\ w.at = "associate" /\ w.page = {} /\ w.cursor = 0
    BY <1>0, IdleIs, PlaceIs
  <2>2. /\ Becomes(r, w) /\ row' = [row EXCEPT !.cursor = work[r].cursor, !.deleted = FALSE]
        /\ stale' \subseteq Processes /\ again' \subseteq Messages /\ work[r].at = "upsert"
    BY <1>0, <1>3, WrittenType DEF RegistrarUpsert
  <2>3. row' \in Rows /\ row'.cursor = work[r].cursor
    BY <1>0, <2>2 DEF Rows
  <2> HIDE DEF w
  <2>4. Fits(r, w)
    BY <2>1, Bounds DEF Fits, RegistrarPlaces
  <2>5. OwnType' /\ work'[r] = w /\ Only(r)
    BY <1>0, <1>1, <2>1, <2>2, <2>3, <2>4, OtherType
  <2>6. ~RegistrarList(r)
    BY <2>2 DEF RegistrarList
  <2> QED
    BY <1>1, <1>3, <2>1, <2>3, <2>5, <2>6
<1>4. CASE RegistrarAssociate(r)
  <2>1. /\ Becomes(r, Done) /\ row' = row /\ work[r].at = "associate"
        /\ stale' \subseteq Processes /\ again' \subseteq Messages
    BY <1>0, <1>4 DEF RegistrarAssociate, NoUpdate, OwnType
  <2>2. Fits(r, Done)
    BY IdleIs, Bounds DEF Fits, RegistrarPlaces
  <2>3. OwnType' /\ work'[r] = Done /\ Only(r)
    BY <1>0, <1>1, <2>1, <2>2, OtherType
  <2>4. ~RegistrarList(r) /\ ~RegistrarUpsert(r)
    BY <2>1 DEF RegistrarList, RegistrarUpsert
  <2> QED
    BY <1>1, <2>1, <2>3, <2>4, IdleIs
<1> QED
  BY <1>2, <1>3, <1>4 DEF RegistrarStep

(* What is not a step of a process.                                        *)
LEMMA WorldIs ==
    ASSUME TypeInv, Arrive \/ Remove
    PROVE  /\ OwnType'
           /\ UNCHANGED <<base, row, assoc, work, sent, skipped, swallowed, stale, again>>
           /\ Known \subseteq Known' /\ Live' \subseteq Live \cup (Known' \ Known)
           /\ \A m \in Known' \ Known : \A n \in Messages : n < m => n \in Known
<1>0. OwnType /\ inbox \in [Messages -> {"none", "live", "deleted", "gone"}]
      /\ UNCHANGED <<base, row, assoc, work, sent, skipped, swallowed, stale, again, pc>>
  BY DEF TypeInv, OwnType, Arrive, Remove, Environment, queueVars, history
<1>1. CASE Arrive
  <2>1. PICK m \in Messages : /\ inbox[m] = "none" /\ \A n \in 1..(m - 1) : inbox[n] # "none"
                              /\ inbox' = [inbox EXCEPT ![m] = "live"]
    BY <1>1 DEF Arrive
  <2>2. inbox' \in [Messages -> {"none", "live", "deleted", "gone"}]
        /\ inbox'[m] = "live" /\ \A n \in Messages \ {m} : inbox'[n] = inbox[n]
    BY <1>0, <2>1
  <2>3. OwnType'
    BY <1>0, <2>2 DEF OwnType
  <2>4. Known' = Known \cup {m} /\ m \notin Known /\ Live' = Live \cup {m}
    BY <2>1, <2>2 DEF Known, Live
  <2>5. ASSUME NEW n \in Messages, n < m PROVE n \in Known
    <3>1. n \in Nat /\ m \in Nat /\ 1 <= n
      BY MessageIs
    <3>2. n \in 1..(m - 1)
      BY <2>5, <3>1
    <3> QED
      BY <2>1, <3>2 DEF Known
  <2> QED
    BY <1>0, <2>3, <2>4, <2>5
<1>2. CASE Remove
  <2>1. PICK m \in Listing, how \in {"deleted", "gone"} : inbox' = [inbox EXCEPT ![m] = how]
    BY <1>2 DEF Remove
  <2>2. m \in Messages /\ inbox[m] # "none"
    BY DEF Listing
  <2>3. inbox' \in [Messages -> {"none", "live", "deleted", "gone"}]
        /\ inbox'[m] = how /\ \A n \in Messages \ {m} : inbox'[n] = inbox[n]
    BY <1>0, <2>1, <2>2
  <2>4. OwnType'
    BY <1>0, <2>3 DEF OwnType
  <2>5. Known' = Known /\ Live' \subseteq Live
    BY <2>2, <2>3 DEF Known, Live
  <2> QED
    BY <1>0, <2>4, <2>5
<1> QED
  BY <1>1, <1>2

LEMMA QueueStepIs ==
    ASSUME TypeInv, QueueStep
    PROVE  /\ OwnType'
           /\ UNCHANGED <<inbox, base, row, assoc, work, sent, skipped, swallowed, stale, again>>
<1>1. UNCHANGED <<inbox, base, row, assoc, work, sent, skipped, swallowed, stale, again>>
  BY DEF QueueStep, history
<1>2. \A c \in Consumers : pc'[c] = "working" <=> pc[c] = "working"
  BY QueueStepQuiet DEF TypeInv
<1> QED
  BY <1>1, <1>2 DEF TypeInv, OwnType

LEMMA NextTypeInv == ASSUME TypeInv, Next PROVE TypeInv'
<1>1. QueueInv'
  BY NextQueueInv DEF TypeInv
<1>2. OwnType'
  <2>1. CASE QueueStep
    BY <2>1, QueueStepIs
  <2>2. CASE Arrive \/ Remove
    BY <2>2, WorldIs
  <2>3. ASSUME NEW c \in Consumers, ConsumerStep(c) \/ ConsumerFault(c) PROVE OwnType'
    BY <2>3, ConsumerType
  <2>4. ASSUME NEW s \in Stuck, StuckStep(s) \/ StuckFails(s) PROVE OwnType'
    BY <2>4, StuckIs
  <2>5. ASSUME NEW f \in Refreshers, RefresherLoad(f) \/ RefresherSave(f) PROVE OwnType'
    BY <2>5, RefresherIs
  <2>6. ASSUME NEW r \in Registrars, RegistrarStep(r) PROVE OwnType'
    BY <2>6, RegistrarIs
  <2> QED
    BY <2>1, <2>2, <2>3, <2>4, <2>5, <2>6 DEF Next
<1> QED
  BY <1>1, <1>2 DEF TypeInv

LEMMA StillTypeInv == ASSUME TypeInv, UNCHANGED vars PROVE TypeInv'
<1>1. QueueInv'
  BY StillQueueInv DEF TypeInv, vars
<1>2. OwnType'
  BY DEF TypeInv, OwnType, vars, history, queueVars
<1> QED
  BY <1>1, <1>2 DEF TypeInv

LEMMA InitTypeInv == Init => TypeInv
<1> SUFFICES ASSUME Init PROVE TypeInv
  OBVIOUS
<1>1. QueueInv
  BY InitQueueInv DEF Init
<1>2. base \in 0..1 /\ base <= MaxMessages /\ base \in 0..MaxMessages
  BY Bounds DEF Init
<1>3. row \in Rows /\ inbox \in [Messages -> {"none", "live", "deleted", "gone"}]
  BY <1>2, Bounds DEF Init, Rows
<1>4. work \in [Processes -> Copies] /\ \A x \in Processes : work[x] = Idle
  BY IdleIs DEF Init
<1>5. \A c \in Consumers : pc[c] # "working"
  BY DEF Init, Queue!Init
<1>6. OwnType
  BY <1>2, <1>3, <1>4, <1>5, IdleIs, Bounds
  DEF Init, OwnType, ConsumerPlaces, StuckPlaces, RefresherPlaces, RegistrarPlaces
<1> QED
  BY <1>1, <1>6 DEF TypeInv

LEMMA TypeInvIs == TypeInv => TypeOK
<1> SUFFICES ASSUME TypeInv PROVE TypeOK
  OBVIOUS
<1>1. base \in 0..MaxMessages
  BY Bounds DEF TypeInv, OwnType
<1>2. \A c \in Consumers : work[c].at = "idle" <=> pc[c] # "working"
  BY DEF TypeInv, OwnType
<1>3. \A x \in Processes : work[x] \in Copies
  BY DEF TypeInv, OwnType
<1> QED
  BY <1>1, <1>2, <1>3 DEF TypeOK, TypeInv, QueueInv, OwnType, Rows

(* Every variable holds what its declaration says, in every behaviour of   *)
(* the consumer and of whatever else writes the account's row.             *)
THEOREM TypeCorrect == Spec => []TypeOK
<1>1. TypeInv /\ [Next]_vars => TypeInv'
  BY NextTypeInv, StillTypeInv
<1> QED
  BY <1>1, InitTypeInv, TypeInvIs, PTL DEF Spec

-----------------------------------------------------------------------------
(* Messages arrive in order, and nothing refers to one that has not.       *)
Arrived ==
    /\ \A m \in Known, n \in Messages : n < m => n \in Known
    /\ row.cursor \in Known \cup {0}
    /\ \A x \in Processes : work[x].cursor \in Known \cup {0} /\ work[x].page \subseteq Known
    /\ \A d \in Devices : sent[d] \subseteq Known

(* A step of one process, and what it can do to the rest.                  *)
StepOf(x) ==
    \/ x \in Consumers /\ (ConsumerStep(x) \/ ConsumerFault(x))
    \/ x \in Stuck /\ (StuckStep(x) \/ StuckFails(x))
    \/ x \in Refreshers /\ (RefresherLoad(x) \/ RefresherSave(x))
    \/ x \in Registrars /\ RegistrarStep(x)

LEMMA NextIs ==
    ASSUME Next PROVE QueueStep \/ Arrive \/ Remove \/ \E x \in Processes : StepOf(x)
<1>1. ASSUME NEW c \in Consumers, ConsumerStep(c) \/ ConsumerFault(c)
      PROVE  \E x \in Processes : StepOf(x)
  BY <1>1, Bounds DEF StepOf
<1>2. ASSUME NEW s \in Stuck, StuckStep(s) \/ StuckFails(s) PROVE \E x \in Processes : StepOf(x)
  BY <1>2, Bounds DEF StepOf
<1>3. ASSUME NEW f \in Refreshers, RefresherLoad(f) \/ RefresherSave(f)
      PROVE  \E x \in Processes : StepOf(x)
  BY <1>3, Bounds DEF StepOf
<1>4. ASSUME NEW r \in Registrars, RegistrarStep(r) PROVE \E x \in Processes : StepOf(x)
  BY <1>4, Bounds DEF StepOf
<1> QED
  BY <1>1, <1>2, <1>3, <1>4 DEF Next

(* The inbox is Reddit's, and a history only grows.                        *)
LEMMA Grows ==
    ASSUME TypeInv, NEW x \in Processes, StepOf(x)
    PROVE  /\ UNCHANGED <<inbox, base>> /\ Known' = Known /\ Live' = Live /\ Listing' = Listing
           /\ skipped \subseteq skipped' /\ swallowed \subseteq swallowed'
           /\ again \subseteq again'
           /\ \A e \in Devices : sent[e] \subseteq sent'[e]
<1> USE DEF Calm, Failing, NoUpdate, Update, Written, Skip, history
<1>0. sent \in [Devices -> SUBSET Messages]
  BY DEF TypeInv, OwnType
<1>1. ASSUME x \in Consumers, ConsumerStep(x) \/ ConsumerFault(x)
      PROVE  /\ UNCHANGED <<inbox, base>> /\ skipped \subseteq skipped'
             /\ swallowed \subseteq swallowed' /\ again \subseteq again'
             /\ \A e \in Devices : sent[e] \subseteq sent'[e]
  <2>1. CASE StartJob(x) \/ FinishJob(x) \/ Crash(x)
    BY <2>1 DEF StartJob, FinishJob, Crash
  <2>2. CASE LoadAccount(x) \/ RefreshTokens(x) \/ FetchInbox(x)
    BY <2>2 DEF LoadAccount, RefreshTokens, FetchInbox
  <2>3. CASE AdvanceCursor(x) \/ AdvanceNotSaved(x)
    BY <2>3 DEF AdvanceCursor, AdvanceNotSaved
  <2>4. CASE Ends(x) \/ (GetDevices(x) /\ assoc # {} /\ work[x].page # {})
    BY <2>4 DEF Ends, CallFails, WarmUp, WarmUpNotSaved, GetDevicesFails, GetDevices,
                DeleteAccount
  <2>5. ASSUME NEW d \in Devices, Push(x, d) \/ PushRejected(x, d)
        PROVE  /\ UNCHANGED <<inbox, base>> /\ skipped \subseteq skipped'
               /\ swallowed \subseteq swallowed' /\ again \subseteq again'
               /\ \A e \in Devices : sent[e] \subseteq sent'[e]
    BY <1>0, <2>5 DEF Push, PushRejected
  <2>6. CASE Revoking(x)
    BY <2>6, RevokingIs DEF Revoking, GrantRevoked, ListDevices, Disassociate
  <2> QED
    BY <1>1, <2>1, <2>2, <2>3, <2>4, <2>5, <2>6, ConsumerCases
<1>2. ASSUME x \in Stuck, StuckStep(x) \/ StuckFails(x)
      PROVE  /\ UNCHANGED <<inbox, base>> /\ skipped \subseteq skipped'
             /\ swallowed \subseteq swallowed' /\ again \subseteq again' /\ sent' = sent
  BY <1>2 DEF StuckStep, StuckLoad, StuckCheckPrivate, StuckCheckComment, StuckRecheck,
              StuckRelist, StuckSave, StuckFails
<1>3. ASSUME x \in Refreshers, RefresherLoad(x) \/ RefresherSave(x)
      PROVE  /\ UNCHANGED <<inbox, base>> /\ skipped \subseteq skipped'
             /\ swallowed \subseteq swallowed' /\ again \subseteq again' /\ sent' = sent
  BY <1>3 DEF RefresherLoad, RefresherSave
<1>4. ASSUME x \in Registrars, RegistrarStep(x)
      PROVE  /\ UNCHANGED <<inbox, base>> /\ skipped \subseteq skipped'
             /\ swallowed \subseteq swallowed' /\ again \subseteq again' /\ sent' = sent
  BY <1>4 DEF RegistrarStep, RegistrarList, RegistrarUpsert, RegistrarAssociate
<1>5. inbox' = inbox => Known' = Known /\ Live' = Live /\ Listing' = Listing
  BY DEF Known, Live, Listing
<1> QED
  BY <1>1, <1>2, <1>3, <1>4, <1>5 DEF StepOf

(* What was pushed came from the page in hand.                             *)
LEMMA SentIs ==
    ASSUME TypeInv, NEW x \in Processes, StepOf(x)
    PROVE  \/ sent' = sent
           \/ \E d \in Devices : x \in Consumers /\ Push(x, d)
<1>1. ASSUME x \in Consumers, ConsumerStep(x) \/ ConsumerFault(x)
      PROVE  sent' = sent \/ \E d \in Devices : Push(x, d)
  <2>1. CASE StartJob(x) \/ FinishJob(x) \/ Crash(x)
    BY <2>1 DEF StartJob, FinishJob, Crash, history
  <2>2. CASE LoadAccount(x) \/ RefreshTokens(x) \/ FetchInbox(x)
    BY <2>2 DEF LoadAccount, RefreshTokens, FetchInbox, history
  <2>3. CASE AdvanceCursor(x) \/ AdvanceNotSaved(x)
    BY <2>3 DEF AdvanceCursor, AdvanceNotSaved
  <2>4. CASE Ends(x) \/ (GetDevices(x) /\ assoc # {} /\ work[x].page # {})
    BY <2>4 DEF Ends, CallFails, WarmUp, WarmUpNotSaved, GetDevicesFails, GetDevices,
                DeleteAccount, history
  <2>5. CASE \E d \in Devices : Push(x, d) \/ PushRejected(x, d)
    BY <2>5 DEF PushRejected
  <2>6. CASE Revoking(x)
    BY <2>6, <1>1, RevokingIs DEF history
  <2> QED
    BY <1>1, <2>1, <2>2, <2>3, <2>4, <2>5, <2>6, ConsumerCases
<1>2. ASSUME x \in Stuck, StuckStep(x) \/ StuckFails(x) PROVE sent' = sent
  BY <1>2, StuckIs
<1>3. ASSUME x \in Refreshers, RefresherLoad(x) \/ RefresherSave(x) PROVE sent' = sent
  BY <1>3, RefresherIs DEF history
<1>4. ASSUME x \in Registrars, RegistrarStep(x) PROVE sent' = sent
  BY <1>4, RegistrarIs
<1> QED
  BY <1>1, <1>2, <1>3, <1>4 DEF StepOf

LEMMA PushSends ==
    ASSUME TypeInv, NEW c \in Consumers, NEW d \in Devices, Push(c, d)
    PROVE  /\ sent'[d] = sent[d] \cup {NextMessage(work[c])}
           /\ \A e \in Devices \ {d} : sent'[e] = sent[e]
           /\ NextMessage(work[c]) \in work[c].page
<1>1. sent \in [Devices -> SUBSET Messages]
  BY DEF TypeInv, OwnType
<1>2. sent' = [sent EXCEPT ![d] = @ \cup {NextMessage(work[c])}]
  BY DEF Push
<1> QED
  BY <1>1, <1>2, PushIs

LEMMA ProcessIs ==
    ASSUME TypeInv, NEW x \in Processes, StepOf(x)
    PROVE  /\ Only(x)
           /\ work'[x].page \subseteq work[x].page \cup Listing
           /\ work'[x].cursor \in {0, row.cursor, work[x].cursor} \cup Listing \cup work[x].page
           /\ row'.cursor \in {row.cursor, work[x].cursor} \cup work[x].page
           /\ \A e \in Devices : sent'[e] \subseteq sent[e] \cup work[x].page
<1>0. /\ work[x].page \subseteq Messages
      /\ work[x].page # {} => MaxOf(work[x].page) \in work[x].page
      /\ MaxOf(Listing) \in Listing \cup {0} /\ Live \subseteq Listing
      /\ Done.page = {} /\ Done.cursor = 0
  BY CopyType, MaxOfIs, ListingIs, IdleIs DEF TypeInv
<1>1. \A e \in Devices : sent'[e] \subseteq sent[e] \cup work[x].page
  BY SentIs, PushSends
<1>2. ASSUME x \in Consumers, ConsumerStep(x) \/ ConsumerFault(x)
      PROVE  /\ Only(x)
             /\ work'[x].page \subseteq work[x].page \cup Listing
             /\ work'[x].cursor \in {0, row.cursor, work[x].cursor} \cup Listing
                                    \cup work[x].page
             /\ row'.cursor \in {row.cursor, work[x].cursor} \cup work[x].page
  <2>1. CASE StartJob(x) \/ FinishJob(x) \/ Crash(x)
    <3>1. row' = row
      BY <2>1 DEF StartJob, FinishJob, Crash, NoUpdate
    <3> QED
      BY <1>2, <2>1, <3>1, StartsType DEF Only
  <2>2. CASE LoadAccount(x)
    <3>1. row' = row
      BY <2>2 DEF LoadAccount
    <3> QED
      BY <1>2, <2>2, <3>1, LoadIs
  <2>3. CASE RefreshTokens(x)
    BY <1>2, <2>3, RefreshIs
  <2>4. CASE FetchInbox(x)
    <3>1. row' = row
      BY <2>4 DEF FetchInbox, NoUpdate
    <3> QED
      BY <1>0, <1>2, <2>4, <3>1, FetchIs
  <2>5. CASE AdvanceCursor(x) \/ AdvanceNotSaved(x)
    BY <1>0, <1>2, <2>5, AdvanceIs
  <2>6. CASE Ends(x)
    BY <1>0, <1>2, <2>6, EndsIs
  <2>7. CASE GetDevices(x) /\ assoc # {} /\ work[x].page # {}
    <3>1. row' = row
      BY <2>7 DEF GetDevices, NoUpdate
    <3> QED
      BY <1>2, <2>7, <3>1, DevicesIs
  <2>8. ASSUME NEW d \in Devices, Push(x, d) \/ PushRejected(x, d)
        PROVE  /\ Only(x) /\ work'[x].page \subseteq work[x].page /\ row' = row
               /\ work'[x].cursor \in {0, work[x].cursor}
    <3>1. row' = row
      BY <2>8 DEF Push, PushRejected, NoUpdate
    <3>2. work'[x].cursor \in {0, work[x].cursor}
      <4>1. work[x] \in Copies /\ work'[x] = AfterPush(work[x], d)
        BY <2>8 DEF TypeInv, OwnType, Push, PushRejected, Becomes
      <4>2. AfterPush(work[x], d).cursor \in {0, work[x].cursor}
        BY <4>1, IdleIs DEF AfterPush, Copies
      <4> QED
        BY <4>1, <4>2
    <3> QED
      BY <1>0, <1>2, <2>8, <3>1, <3>2, PushIs
  <2>9. CASE Revoking(x)
    BY <1>2, <2>9, RevokingIs DEF NoUpdate
  <2> QED
    BY <1>2, <2>1, <2>2, <2>3, <2>4, <2>5, <2>6, <2>7, <2>8, <2>9, ConsumerCases
<1>3. CASE x \in Stuck /\ (StuckStep(x) \/ StuckFails(x))
  BY <1>0, <1>1, <1>3, StuckIs
<1>4. CASE x \in Refreshers /\ (RefresherLoad(x) \/ RefresherSave(x))
  BY <1>1, <1>4, RefresherIs
<1>5. CASE x \in Registrars /\ RegistrarStep(x)
  BY <1>0, <1>1, <1>5, RegistrarIs
<1> QED
  BY <1>1, <1>2, <1>3, <1>4, <1>5 DEF StepOf

LEMMA NextArrived == ASSUME TypeInv, Arrived, Next PROVE Arrived'
<1>1. CASE QueueStep
  BY <1>1, QueueStepIs DEF Arrived, Known
<1>2. CASE Arrive \/ Remove
  BY <1>2, WorldIs DEF Arrived
<1>3. ASSUME NEW x \in Processes, StepOf(x) PROVE Arrived'
  <2>1. Known' = Known /\ Listing \subseteq Known
    BY <1>3, Grows, ListingIs
  <2>2. /\ work'[x].page \subseteq Known /\ work'[x].cursor \in Known \cup {0}
        /\ row'.cursor \in Known \cup {0} /\ \A e \in Devices : sent'[e] \subseteq Known
        /\ \A y \in Processes \ {x} : work'[y] = work[y]
    BY <1>3, <2>1, ProcessIs DEF Arrived, Only
  <2> QED
    BY <2>1, <2>2 DEF Arrived
<1> QED
  BY <1>1, <1>2, <1>3, NextIs

LEMMA InitArrived == Init => Arrived
<1> SUFFICES ASSUME Init PROVE Arrived
  OBVIOUS
<1>1. base \in 0..1 /\ base <= MaxMessages /\ row.cursor = base
      /\ \A x \in Processes : work[x] = Idle
  BY DEF Init
<1>2. Known = {m \in Messages : m <= base}
  BY DEF Init, Known
<1>3. base \in Known \cup {0}
  BY <1>1, <1>2, Bounds DEF Messages
<1>4. \A m \in Known, n \in Messages : n < m => n \in Known
  BY <1>1, <1>2, MessageIs
<1> QED
  BY <1>1, <1>3, <1>4, IdleIs DEF Arrived, Init

-----------------------------------------------------------------------------
(* What a cursor says of the messages the account began with.              *)
Spares(k) == base <= k \/ 1 \in again

Spared ==
    /\ Spares(row.cursor)
    /\ \A c \in Consumers :
        /\ work[c].at \in {"refresh", "fetch"} => Spares(work[c].cursor)
        /\ \A m \in work[c].page : m > base \/ m \in again
    /\ \A d \in Devices : \A m \in sent[d] : m > base \/ m \in again

(* A row is only written by way of Written.                                *)
LEMMA RowIs ==
    ASSUME TypeInv, NEW x \in Processes, StepOf(x)
    PROVE  row'.cursor = row.cursor \/ Written(x)
<1>1. ASSUME x \in Consumers, ConsumerStep(x) \/ ConsumerFault(x)
      PROVE  row'.cursor = row.cursor \/ Written(x)
  <2>1. CASE StartJob(x) \/ FinishJob(x) \/ Crash(x)
    BY <2>1 DEF StartJob, FinishJob, Crash, NoUpdate
  <2>2. CASE LoadAccount(x) \/ RefreshTokens(x) \/ FetchInbox(x)
    BY <2>2 DEF LoadAccount, RefreshTokens, FetchInbox, NoUpdate, Update
  <2>3. CASE AdvanceCursor(x) \/ AdvanceNotSaved(x)
    BY <2>3 DEF AdvanceCursor, AdvanceNotSaved, NoUpdate, Update
  <2>4. CASE Ends(x)
    BY <1>1, <2>4, EndsIs DEF WarmUp, Update
  <2>5. CASE GetDevices(x) /\ assoc # {} /\ work[x].page # {}
    BY <2>5 DEF GetDevices, NoUpdate
  <2>6. CASE \E d \in Devices : Push(x, d) \/ PushRejected(x, d)
    BY <2>6 DEF Push, PushRejected, NoUpdate
  <2>7. CASE Revoking(x)
    BY <1>1, <2>7, RevokingIs DEF NoUpdate
  <2> QED
    BY <1>1, <2>1, <2>2, <2>3, <2>4, <2>5, <2>6, <2>7, ConsumerCases
<1>2. CASE x \in Stuck /\ (StuckStep(x) \/ StuckFails(x))
  BY <1>2, StuckIs DEF StuckSave, Update
<1>3. CASE x \in Refreshers /\ (RefresherLoad(x) \/ RefresherSave(x))
  BY <1>3, RefresherIs DEF RefresherSave, Update
<1>4. CASE x \in Registrars /\ RegistrarStep(x)
  BY <1>4, RegistrarIs DEF RegistrarUpsert
<1> QED
  BY <1>1, <1>2, <1>3, <1>4 DEF StepOf

LEMMA NextSpared == ASSUME TypeInv, TypeInv', Spared, Next PROVE Spared'
<1>0. base \in 0..1 /\ row \in Rows /\ row' \in Rows /\ again \subseteq Messages
      /\ row.cursor \in 0..MaxMessages /\ row'.cursor \in 0..MaxMessages
  BY DEF TypeInv, OwnType, Rows
<1>1. CASE QueueStep
  BY <1>1, QueueStepIs DEF Spared, Spares
<1>2. CASE Arrive \/ Remove
  BY <1>2, WorldIs DEF Spared, Spares
<1>3. ASSUME NEW x \in Processes, StepOf(x) PROVE Spared'
  <2>1. base' = base /\ again \subseteq again'
    BY <1>3, Grows
  <2>2. (base <= row'.cursor) \/ 1 \in again'
    <3>1. CASE row'.cursor = row.cursor
      BY <2>1, <3>1 DEF Spared, Spares
    <3>2. CASE row'.cursor # 0
      BY <1>0, <3>2
    <3>3. CASE row'.cursor # row.cursor /\ row'.cursor = 0
      <4>1. again' = again \cup Between(0, row.cursor)
        BY <1>3, <3>3, RowIs DEF Written
      <4>2. 1 \in Between(0, row.cursor)
        BY <1>0, <3>3, Bounds DEF Between, Messages
      <4> QED
        BY <4>1, <4>2
    <3> QED
      BY <3>1, <3>2, <3>3
  <2>3. /\ \A y \in Processes \ {x} : work'[y] = work[y]
        /\ \A e \in Devices : sent'[e] \subseteq sent[e] \cup work[x].page
        /\ work[x].page \subseteq Messages /\ work'[x].page \subseteq work[x].page \cup Listing
    BY <1>3, ProcessIs, CopyType DEF Only, TypeInv
  <2>4. \A d \in Devices : \A m \in sent'[d] : m > base \/ m \in again'
    <3>1. CASE sent' = sent
      BY <2>1, <3>1 DEF Spared
    <3>2. CASE x \in Consumers
      BY <2>1, <2>3, <3>2 DEF Spared
    <3> QED
      BY <1>3, <3>1, <3>2, SentIs
  <2>5. ASSUME x \in Consumers, ConsumerStep(x) \/ ConsumerFault(x)
        PROVE  /\ work'[x].at \in {"refresh", "fetch"} =>
                    \/ work'[x].cursor = row.cursor
                    \/ work[x].at = "refresh" /\ work'[x].cursor = work[x].cursor
               /\ \/ work'[x].page \subseteq work[x].page
                  \/ /\ work[x].at = "fetch"
                     /\ work'[x].page \subseteq MessageInbox(work[x].cursor)
    <3>1. CASE StartJob(x) \/ FinishJob(x) \/ Crash(x)
      BY <2>5, <3>1, StartsType
    <3>2. CASE LoadAccount(x)
      BY <2>5, <3>2, LoadIs
    <3>3. CASE RefreshTokens(x)
      BY <2>5, <3>3, RefreshIs DEF RefreshTokens
    <3>4. CASE FetchInbox(x)
      BY <2>5, <3>4, FetchIs, IdleIs DEF FetchInbox
    <3>5. CASE AdvanceCursor(x) \/ AdvanceNotSaved(x)
      BY <2>5, <3>5, AdvanceIs
    <3>6. CASE Ends(x)
      BY <2>5, <3>6, EndsIs, IdleIs
    <3>7. CASE GetDevices(x) /\ assoc # {} /\ work[x].page # {}
      BY <2>5, <3>7, DevicesIs
    <3>8. CASE \E d \in Devices : Push(x, d) \/ PushRejected(x, d)
      BY <2>5, <3>8, PushIs, IdleIs
    <3>9. CASE Revoking(x)
      BY <2>5, <3>9, RevokingIs
    <3> QED
      BY <2>5, <3>1, <3>2, <3>3, <3>4, <3>5, <3>6, <3>7, <3>8, <3>9, ConsumerCases
  <2>6. ASSUME NEW c \in Consumers
        PROVE  /\ work'[c].at \in {"refresh", "fetch"} =>
                    base <= work'[c].cursor \/ 1 \in again'
               /\ \A m \in work'[c].page : m > base \/ m \in again'
    <3>1. CASE c # x
      BY <2>1, <2>3, <3>1, Bounds DEF Spared, Spares
    <3>2. CASE c = x
      <4>0. ConsumerStep(c) \/ ConsumerFault(c)
        BY <1>3, <3>2, Bounds DEF StepOf
      <4>1. work'[c].at \in {"refresh", "fetch"} => base <= work'[c].cursor \/ 1 \in again'
        BY <2>1, <2>5, <3>2, <4>0 DEF Spared, Spares
      <4>2. CASE work'[c].page \subseteq work[c].page
        BY <2>1, <4>1, <4>2 DEF Spared
      <4>3. ASSUME work[c].at = "fetch", NEW m \in MessageInbox(work[c].cursor)
            PROVE  m > base \/ m \in again'
        <5>0. work[c].cursor \in 0..MaxMessages
          BY <3>2, CopyType DEF TypeInv
        <5>1. m \in Messages /\ m \in Nat /\ 1 <= m
          BY <5>0, MessageInboxIs, ListingIs, MessageIs
        <5>2. CASE work[c].cursor # 0
          BY <1>0, <5>0, <5>1, <5>2, MessageInboxIs
        <5>3. CASE work[c].cursor = 0
          BY <1>0, <2>1, <4>3, <5>1, <5>3 DEF Spared, Spares
        <5> QED
          BY <5>2, <5>3
      <4> QED
        BY <2>5, <3>2, <4>0, <4>1, <4>2, <4>3
    <3> QED
      BY <3>1, <3>2
  <2> QED
    BY <2>1, <2>2, <2>4, <2>6 DEF Spared, Spares
<1> QED
  BY <1>1, <1>2, <1>3, NextIs

LEMMA InitSpared == Init => Spared
<1> SUFFICES ASSUME Init PROVE Spared
  OBVIOUS
<1>1. base \in 0..1 /\ row.cursor = base /\ \A c \in Consumers : work[c] = Idle
  BY Bounds DEF Init
<1> QED
  BY <1>1, IdleIs DEF Init, Spared, Spares

(* What was in the inbox before the account registered is never pushed,    *)
(* however often the row is overwritten, unless a stale write, or one of   *)
(* the empty string, put it after the cursor again.                        *)
THEOREM FloodCorrect == Spec => []NoFlood
<1>1. TypeInv /\ Spared /\ [Next]_vars => (TypeInv /\ Spared)'
  <2>1. ASSUME TypeInv, Spared, UNCHANGED vars PROVE Spared'
    BY <2>1 DEF Spared, Spares, vars, history
  <2> QED
    BY <2>1, NextTypeInv, StillTypeInv, NextSpared
<1>2. Spared => NoFlood
  BY DEF Spared, NoFlood
<1> QED
  BY <1>1, <1>2, InitTypeInv, InitSpared, PTL DEF Spec

-----------------------------------------------------------------------------
(* What became of the messages that a cursor has passed.                   *)
Held(m) == \E c \in Consumers : work[c].at \in Taking /\ m \in work[c].page

Told(m) ==
    \/ m \notin Live \/ m \in skipped \cup swallowed \/ Held(m)
    \/ \E d \in Devices : m \in sent[d]

Through(k) == \A m \in Between(base, k) : Told(m)

(* A page leaves out nothing between the cursor and its newest message,    *)
(* or what is older than the newest page.                                  *)
Whole(w) ==
    \A m \in Live, p \in w.page :
        w.cursor < m /\ m <= p => m \in w.page \/ (w.cursor = 0 /\ \A q \in w.page : m < q)

ToldInv ==
    /\ Through(row.cursor)
    /\ \A x \in Consumers \cup Refreshers :
         work[x].at \in Advances => Through(work[x].cursor)
    /\ \A c \in Consumers : work[c].at = "advance" => Whole(work[c])

LEMMA HeldOn ==
    ASSUME TypeInv, NEW c \in Consumers, ConsumerStep(c) \/ ConsumerFault(c),
           work[c].at \in Taking, NEW m \in work[c].page
    PROVE  \/ m \in skipped' \cup swallowed' \/ \E d \in Devices : m \in sent'[d]
           \/ work'[c].at \in Taking /\ m \in work'[c].page
<1> USE DEF Taking
<1>1. CASE StartJob(c) \/ FinishJob(c)
  <2>1. work[c].at = "idle" \/ work[c].at = "done"
    BY <1>1, JobQuiet DEF TypeInv, OwnType, FinishJob
  <2> QED
    BY <2>1
<1>2. CASE Crash(c)
  BY <1>2 DEF Crash, Skip
<1>3. CASE LoadAccount(c) \/ RefreshTokens(c) \/ FetchInbox(c) \/ Revoking(c)
  BY <1>3 DEF LoadAccount, RefreshTokens, FetchInbox, Revoking, GrantRevoked, ListDevices,
              Disassociate
<1>4. CASE AdvanceCursor(c) \/ AdvanceNotSaved(c)
  BY <1>4 DEF AdvanceCursor, AdvanceNotSaved
<1>5. CASE Ends(c)
  BY <1>5 DEF Ends, CallFails, WarmUp, WarmUpNotSaved, GetDevicesFails, GetDevices,
              DeleteAccount, Skip
<1>6. CASE GetDevices(c) /\ assoc # {} /\ work[c].page # {}
  BY <1>6, DevicesIs
<1>7. ASSUME NEW d \in Devices, Push(c, d)
      PROVE  m \in sent'[d] \/ (work'[c].at \in Taking /\ m \in work'[c].page)
  BY <1>7, PushIs, PushSends
<1>8. ASSUME NEW d \in Devices, PushRejected(c, d)
      PROVE  m \in skipped' \/ (work'[c].at \in Taking /\ m \in work'[c].page)
  <2>1. NextMessage(work[c]) \in skipped'
    BY <1>8 DEF PushRejected, Skip
  <2> QED
    BY <1>8, <2>1, PushIs
<1> QED
  BY <1>1, <1>2, <1>3, <1>4, <1>5, <1>6, <1>7, <1>8, ConsumerCases

LEMMA ToldOn ==
    ASSUME TypeInv, NEW x \in Processes, StepOf(x), NEW m \in Messages, Told(m)
    PROVE  Told(m)'
<1>1. /\ skipped \subseteq skipped' /\ swallowed \subseteq swallowed' /\ Live' = Live
      /\ \A e \in Devices : sent[e] \subseteq sent'[e]
      /\ \A y \in Processes \ {x} : work'[y] = work[y]
  BY Grows, ProcessIs DEF Only
<1>2. CASE ~Held(m)
  BY <1>1, <1>2 DEF Told
<1>3. ASSUME NEW c \in Consumers, work[c].at \in Taking, m \in work[c].page PROVE Told(m)'
  <2>1. CASE c = x
    <3>1. ConsumerStep(c) \/ ConsumerFault(c)
      BY <2>1, Bounds DEF StepOf
    <3> QED
      BY <1>3, <3>1, HeldOn DEF Told, Held
  <2>2. CASE c # x
    BY <1>1, <1>3, <2>2, Bounds DEF Told, Held
  <2> QED
    BY <2>1, <2>2
<1> QED
  BY <1>2, <1>3 DEF Held

LEMMA ThroughOn ==
    ASSUME TypeInv, NEW x \in Processes, StepOf(x), NEW k, Through(k)
    PROVE  \A m \in Between(base', k) : Told(m)'
<1>1. base' = base
  BY Grows
<1>2. ASSUME NEW m \in Between(base, k) PROVE Told(m)'
  BY <1>2, ToldOn DEF Through, Between
<1> QED
  BY <1>1, <1>2

(* The world takes messages away, or adds one that no cursor has passed.   *)
LEMMA ThroughAway ==
    ASSUME TypeInv, Arrive \/ Remove, Arrived, NEW k \in Known \cup {0}, Through(k)
    PROVE  \A m \in Between(base', k) : Told(m)'
<1>1. UNCHANGED <<base, skipped, swallowed, sent, work>>
      /\ Live' \subseteq Live \cup (Known' \ Known)
  BY WorldIs
<1>2. ASSUME NEW m \in Between(base, k) PROVE Told(m)'
  <2>1. m \in Messages /\ m <= k /\ base < m /\ base \in 0..1 /\ m \in Nat
    BY MessageIs DEF Between, TypeInv, OwnType
  <2>2. m \in Known
    <3>1. k \in Known
      BY <2>1
    <3>2. k \in Nat
      BY <3>1, ListingIs, MessageIs
    <3> QED
      BY <2>1, <3>1, <3>2 DEF Arrived
  <2>3. m \in Live' => m \in Live
    BY <1>1, <2>2
  <2>4. Told(m)
    BY DEF Through
  <2> QED
    BY <1>1, <2>3, <2>4 DEF Told, Held
<1> QED
  BY <1>1, <1>2

(* What a whole page passes it holds, or knows to be unlisted.             *)
LEMMA PageTells ==
    ASSUME TypeInv, ToldInv, NEW c \in Consumers, AdvanceCursor(c) \/ AdvanceNotSaved(c),
           work[c].page # {}
    PROVE  \A m \in Between(base', MaxOf(work[c].page)) : Told(m)'
<1>0. /\ c \in Processes /\ StepOf(c) /\ work[c].at = "advance" /\ work[c] \in Copies
      /\ Through(work[c].cursor) /\ Whole(work[c])
      /\ work[c].page \subseteq Messages /\ work[c].cursor \in 0..MaxMessages
  <2>1. work[c].at = "advance" /\ StepOf(c)
    BY DEF AdvanceCursor, AdvanceNotSaved, StepOf, ConsumerStep, ConsumerFault
  <2> QED
    BY <2>1, Bounds, CopyType DEF ToldInv, Advances, TypeInv, OwnType
<1>1. MaxOf(work[c].page) \in work[c].page /\ MaxOf(work[c].page) \in Nat
  BY <1>0, MaxOfIs, MessageIs
<1>2. /\ base' = base /\ Live' = Live /\ Skip(Unlisted(work[c]))
      /\ work'[c].page = work[c].page /\ work'[c].at \in Taking
  BY <1>0, Grows, AdvanceIs DEF AdvanceCursor, AdvanceNotSaved, Taking
<1>3. ASSUME NEW m \in Between(base, MaxOf(work[c].page)) PROVE Told(m)'
  <2>1. m \in Messages /\ base < m /\ m <= MaxOf(work[c].page) /\ m \in Nat
    BY MessageIs DEF Between
  <2>2. CASE m \notin Live
    BY <1>2, <2>2 DEF Told
  <2>3. CASE m <= work[c].cursor
    <3>1. m \in Between(base, work[c].cursor)
      BY <2>1, <2>3 DEF Between
    <3> QED
      BY <1>0, <3>1, ToldOn, <2>1 DEF Through
  <2>4. CASE m \in Live /\ work[c].cursor < m
    <3>1. m \in work[c].page \/ (work[c].cursor = 0 /\ \A q \in work[c].page : m < q)
      BY <1>0, <1>1, <2>1, <2>4 DEF Whole
    <3>2. CASE m \in work[c].page
      BY <1>2, <3>2 DEF Told, Held
    <3>3. CASE work[c].cursor = 0 /\ \A q \in work[c].page : m < q
      <4>1. MinOf(work[c].page) \in work[c].page
        BY <1>0, MinOfIs
      <4>2. m \in Unlisted(work[c])
        BY <2>4, <3>3, <4>1 DEF Unlisted
      <4> QED
        BY <1>2, <4>2 DEF Skip, Told
    <3> QED
      BY <3>1, <3>2, <3>3
  <2> QED
    BY <1>0, <2>1, <2>2, <2>3, <2>4
<1> QED
  BY <1>2, <1>3

(* A cursor moved past what lies in between, which is named.               *)
LEMMA SkipTells ==
    ASSUME TypeInv, ToldInv, NEW x \in Processes, StepOf(x), NEW k \in 0..MaxMessages,
           Skip(Between(row.cursor, k))
    PROVE  \A m \in Between(base', k) : Told(m)'
<1>1. base' = base /\ row.cursor \in 0..MaxMessages
  BY Grows DEF TypeInv, OwnType, Rows
<1>2. ASSUME NEW m \in Between(base, k) PROVE Told(m)'
  <2>1. m \in Messages /\ base < m /\ m <= k /\ m \in Nat
    BY MessageIs DEF Between
  <2>2. CASE m <= row.cursor
    BY <2>1, <2>2, ToldOn DEF ToldInv, Through, Between
  <2>3. CASE row.cursor < m
    BY <2>1, <2>3 DEF Between, Skip, Told
  <2> QED
    BY <1>1, <2>1, <2>2, <2>3
<1> QED
  BY <1>1, <1>2

(* The row's cursor.                                                       *)
LEMMA RowTold ==
    ASSUME TypeInv, ToldInv, NEW x \in Processes, StepOf(x)
    PROVE  Through(row.cursor)'
<1>0. /\ \A m \in Between(base', row.cursor) : Told(m)'
      /\ work[x].cursor \in 0..MaxMessages
  BY ThroughOn, CopyType DEF ToldInv, TypeInv
<1>1. CASE row'.cursor = row.cursor
  BY <1>0, <1>1 DEF Through
<1>2. ASSUME row'.cursor = work[x].cursor, work[x].at \in Advances,
             x \in Consumers \cup Refreshers
      PROVE  Through(row.cursor)'
  BY <1>2, ThroughOn DEF ToldInv, Through
<1>3. CASE x \in Consumers /\ (ConsumerStep(x) \/ ConsumerFault(x))
  <2>1. CASE StartJob(x) \/ FinishJob(x) \/ Crash(x) \/ LoadAccount(x) \/ FetchInbox(x)
             \/ Revoking(x) \/ (GetDevices(x) /\ assoc # {} /\ work[x].page # {})
             \/ \E d \in Devices : Push(x, d) \/ PushRejected(x, d)
    <3>1. row' = row
      BY <1>3, <2>1, RevokingIs DEF StartJob, FinishJob, Crash, LoadAccount, FetchInbox,
         NoUpdate, GetDevices, Push, PushRejected
    <3> QED
      BY <1>1, <3>1
  <2>2. CASE RefreshTokens(x)
    BY <1>2, <1>3, <2>2, RefreshIs DEF RefreshTokens, Advances
  <2>3. CASE AdvanceCursor(x) \/ AdvanceNotSaved(x)
    <3>1. row'.cursor = row.cursor
          \/ (work[x].page # {} /\ row'.cursor = MaxOf(work[x].page))
      BY <1>3, <2>3, AdvanceIs
    <3>2. CASE work[x].page # {} /\ row'.cursor = MaxOf(work[x].page)
      BY <1>3, <2>3, <3>2, PageTells DEF Through
    <3> QED
      BY <1>1, <3>1, <3>2
  <2>4. CASE Ends(x)
    <3>1. row'.cursor = row.cursor \/ (WarmUp(x) /\ row'.cursor = work[x].cursor)
      BY <1>3, <2>4, EndsIs
    <3>2. WarmUp(x) => work[x].at \in Advances
      BY DEF WarmUp, Advances
    <3> QED
      BY <1>1, <1>2, <1>3, <3>1, <3>2
  <2> QED
    BY <1>3, <2>1, <2>2, <2>3, <2>4, ConsumerCases
<1>4. CASE x \in Stuck /\ (StuckStep(x) \/ StuckFails(x))
  <2>1. CASE StuckSave(x)
    <3>1. row'.cursor = work[x].cursor /\ Skip(Between(row.cursor, work[x].cursor))
      BY <1>4, <2>1, StuckIs DEF StuckSave
    <3> QED
      BY <1>0, <3>1, SkipTells DEF Through
  <2>2. CASE ~StuckSave(x)
    BY <1>1, <1>4, <2>2, StuckIs
  <2> QED
    BY <2>1, <2>2
<1>5. CASE x \in Refreshers /\ (RefresherLoad(x) \/ RefresherSave(x))
  <2>1. CASE RefresherLoad(x)
    BY <1>1, <1>5, <2>1, RefresherIs
  <2>2. CASE ~RefresherLoad(x)
    <3>1. row'.cursor = work[x].cursor /\ work[x].at \in Advances
      BY <1>5, <2>2, RefresherIs DEF RefresherSave, Advances
    <3> QED
      BY <1>2, <1>5, <3>1
  <2> QED
    BY <2>1, <2>2
<1>6. CASE x \in Registrars /\ RegistrarStep(x)
  <2>1. CASE RegistrarUpsert(x)
    <3>1. row'.cursor = work[x].cursor /\ Skip(Between(row.cursor, work[x].cursor))
      BY <1>6, <2>1, RegistrarIs DEF RegistrarUpsert
    <3> QED
      BY <1>0, <3>1, SkipTells DEF Through
  <2>2. CASE ~RegistrarUpsert(x)
    BY <1>1, <1>6, <2>2, RegistrarIs
  <2> QED
    BY <2>1, <2>2
<1> QED
  BY <1>3, <1>4, <1>5, <1>6 DEF StepOf

(* The cursor in a copy that goes on to be saved.                          *)
LEMMA CopyTold ==
    ASSUME TypeInv, ToldInv, NEW x \in Consumers \cup Refreshers, StepOf(x),
           work'[x].at \in Advances
    PROVE  Through(work[x].cursor)'
<1>0. x \in Processes
  BY Bounds
<1>1. \A m \in Between(base', row.cursor) : Told(m)'
  BY <1>0, ThroughOn DEF ToldInv
<1>2. ASSUME work[x].at \in Advances, work'[x].cursor = work[x].cursor
      PROVE  Through(work[x].cursor)'
  BY <1>0, <1>2, ThroughOn DEF ToldInv, Through
<1>3. CASE x \in Consumers /\ (ConsumerStep(x) \/ ConsumerFault(x))
  <2>1. CASE StartJob(x) \/ FinishJob(x) \/ Crash(x)
    BY <1>3, <2>1, StartsType DEF Advances
  <2>2. CASE LoadAccount(x)
    <3>1. work'[x].cursor = row.cursor
      BY <1>3, <2>2, LoadIs DEF Advances
    <3> QED
      BY <1>1, <3>1 DEF Through
  <2>3. CASE RefreshTokens(x)
    BY <1>2, <1>3, <2>3, RefreshIs DEF RefreshTokens, Advances
  <2>4. CASE FetchInbox(x)
    BY <1>2, <1>3, <2>4, FetchIs, IdleIs DEF FetchInbox, Advances
  <2>5. CASE AdvanceCursor(x) \/ AdvanceNotSaved(x)
    <3>1. CASE work[x].page = {}
      BY <1>2, <1>3, <2>5, <3>1, AdvanceIs DEF AdvanceCursor, AdvanceNotSaved, Advances
    <3>2. CASE work[x].page # {}
      BY <1>3, <2>5, <3>2, AdvanceIs, PageTells DEF Through
    <3> QED
      BY <3>1, <3>2
  <2>6. CASE Ends(x)
    BY <1>3, <2>6, EndsIs, IdleIs DEF Advances
  <2>7. CASE GetDevices(x) /\ assoc # {} /\ work[x].page # {}
    BY <1>3, <2>7, DevicesIs DEF Advances
  <2>8. CASE \E d \in Devices : Push(x, d) \/ PushRejected(x, d)
    BY <1>3, <2>8, PushIs, IdleIs DEF Advances
  <2>9. CASE Revoking(x)
    BY <1>3, <2>9, RevokingIs DEF Advances
  <2> QED
    BY <1>3, <2>1, <2>2, <2>3, <2>4, <2>5, <2>6, <2>7, <2>8, <2>9, ConsumerCases
<1>4. CASE x \in Refreshers /\ (RefresherLoad(x) \/ RefresherSave(x))
  <2>1. work'[x].cursor = row.cursor
    BY <1>4, RefresherIs DEF Advances
  <2> QED
    BY <1>1, <2>1 DEF Through
<1> QED
  BY <1>3, <1>4, Bounds DEF StepOf

LEMMA PageWhole ==
    ASSUME TypeInv, NEW c \in Consumers, StepOf(c), work'[c].at = "advance"
    PROVE  Whole(work[c])'
<1>0. ConsumerStep(c) \/ ConsumerFault(c)
  BY Bounds DEF StepOf
<1>1. CASE FetchInbox(c)
  <2>1. /\ work'[c].cursor = work[c].cursor /\ Live' = Live
        /\ work'[c].page = MessageInbox(work[c].cursor) \cap Live
        /\ work[c].cursor \in 0..MaxMessages /\ Live \subseteq Listing /\ Live \subseteq Nat
    BY <1>1, FetchIs, IdleIs, Grows, CopyType, ListingIs, MessageIs, Bounds DEF TypeInv
  <2>2. ASSUME NEW m \in Live, NEW p \in MessageInbox(work[c].cursor) \cap Live,
               work[c].cursor < m, m <= p,
               ~(work[c].cursor = 0 /\ \A q \in work'[c].page : m < q)
        PROVE  m \in MessageInbox(work[c].cursor) \cap Live
    <3>1. CASE work[c].cursor # 0
      BY <2>1, <2>2, <3>1, MessageInboxIs
    <3>2. CASE work[c].cursor = 0
      <4>1. PICK q \in work'[c].page : ~(m < q)
        BY <2>2, <3>2
      <4>2. q \in MessageInbox(work[c].cursor) /\ q \in Nat /\ m \in Nat
        BY <2>1, <4>1
      <4>3. q <= m
        BY <4>1, <4>2
      <4> QED
        BY <2>1, <3>2, <4>2, <4>3, MessageInboxIs
    <3> QED
      BY <3>1, <3>2
  <2> QED
    BY <2>1, <2>2 DEF Whole
<1>2. CASE ~FetchInbox(c)
  <2>1. CASE StartJob(c) \/ FinishJob(c) \/ Crash(c)
    BY <2>1, StartsType
  <2>2. CASE LoadAccount(c) \/ RefreshTokens(c)
    BY <2>2, LoadIs, RefreshIs
  <2>3. CASE AdvanceCursor(c) \/ AdvanceNotSaved(c)
    BY <2>3, AdvanceIs
  <2>4. CASE Ends(c)
    BY <2>4, EndsIs, IdleIs
  <2>5. CASE GetDevices(c) /\ assoc # {} /\ work[c].page # {}
    BY <2>5, DevicesIs
  <2>6. CASE \E d \in Devices : Push(c, d) \/ PushRejected(c, d)
    BY <2>6, PushIs, IdleIs
  <2>7. CASE Revoking(c)
    BY <2>7, RevokingIs
  <2> QED
    BY <1>0, <1>2, <2>1, <2>2, <2>3, <2>4, <2>5, <2>6, <2>7, ConsumerCases
<1> QED
  BY <1>1, <1>2

LEMMA NextTold == ASSUME TypeInv, Arrived, ToldInv, Next PROVE ToldInv'
<1>1. CASE QueueStep
  <2>1. UNCHANGED <<inbox, base, row, work, sent, skipped, swallowed>>
    BY <1>1, QueueStepIs
  <2> QED
    BY <2>1 DEF ToldInv, Through, Told, Held, Live, Whole
<1>2. CASE Arrive \/ Remove
  <2>1. UNCHANGED <<row, work, base>> /\ Live' \subseteq Live \cup (Known' \ Known)
    BY <1>2, WorldIs
  <2>2. Through(row.cursor)'
    BY <1>2, <2>1, ThroughAway DEF Arrived, ToldInv, Through
  <2>3. ASSUME NEW x \in Consumers \cup Refreshers, work'[x].at \in Advances
        PROVE  Through(work[x].cursor)'
    <3>1. work[x].cursor \in Known \cup {0} /\ Through(work[x].cursor)
      BY <2>1, <2>3, Bounds DEF Arrived, ToldInv
    <3> QED
      BY <1>2, <2>1, <3>1, ThroughAway DEF Through
  <2>4. ASSUME NEW c \in Consumers, work'[c].at = "advance" PROVE Whole(work[c])'
    <3>1. Whole(work[c]) /\ work[c].page \subseteq Known
      BY <2>1, <2>4, Bounds DEF ToldInv, Arrived
    <3>2. ASSUME NEW m \in Live', NEW p \in work[c].page, m <= p PROVE m \in Live
      <4>1. m \in Messages /\ p \in Known /\ m \in Nat /\ p \in Nat
        BY <3>1, ListingIs, MessageIs, Bounds DEF Live
      <4>2. m \in Known
        BY <3>2, <4>1 DEF Arrived
      <4> QED
        BY <2>1, <4>2
    <3> QED
      BY <2>1, <3>1, <3>2 DEF Whole
  <2> QED
    BY <2>2, <2>3, <2>4 DEF ToldInv
<1>3. ASSUME NEW x \in Processes, StepOf(x) PROVE ToldInv'
  <2>1. Live' = Live /\ \A y \in Processes \ {x} : work'[y] = work[y]
    BY <1>3, Grows, ProcessIs DEF Only
  <2>2. ASSUME NEW y \in Consumers \cup Refreshers, work'[y].at \in Advances
        PROVE  Through(work[y].cursor)'
    <3>1. CASE y = x
      BY <1>3, <2>2, <3>1, CopyTold
    <3>2. CASE y # x
      <4>1. work'[y] = work[y] /\ Through(work[y].cursor)
        BY <2>1, <2>2, <3>2, Bounds DEF ToldInv
      <4> QED
        BY <1>3, <4>1, ThroughOn DEF Through
    <3> QED
      BY <3>1, <3>2
  <2>3. ASSUME NEW c \in Consumers, work'[c].at = "advance" PROVE Whole(work[c])'
    <3>1. CASE c = x
      BY <1>3, <2>3, <3>1, PageWhole
    <3>2. CASE c # x
      <4>1. work'[c] = work[c] /\ Whole(work[c])
        BY <2>1, <2>3, <3>2, Bounds DEF ToldInv
      <4> QED
        BY <2>1, <4>1 DEF Whole
    <3> QED
      BY <3>1, <3>2
  <2> QED
    BY <1>3, <2>2, <2>3, RowTold DEF ToldInv
<1> QED
  BY <1>1, <1>2, <1>3, NextIs

LEMMA InitTold == Init => ToldInv
<1> SUFFICES ASSUME Init PROVE ToldInv
  OBVIOUS
<1>1. base \in 0..1 /\ row.cursor = base /\ \A x \in Processes : work[x] = Idle
  BY DEF Init
<1>2. \A m \in Messages : ~(base < m /\ m <= base)
  BY <1>1, MessageIs
<1> QED
  BY <1>1, <1>2, IdleIs, Bounds DEF ToldInv, Through, Between, Advances

LEMMA StillTold == ASSUME Arrived, ToldInv, UNCHANGED vars PROVE Arrived' /\ ToldInv'
BY DEF Arrived, Known, ToldInv, Through, Told, Held, Live, Whole, vars, history

(* No message is lost in silence, whoever writes the row and in whatever   *)
(* order: what the cursor has passed was pushed, is in hand, or fell to a  *)
(* named cause.                                                            *)
THEOREM AccountedCorrect == Spec => []Accounted
<1>1. TypeInv /\ Arrived /\ ToldInv /\ [Next]_vars => (TypeInv /\ Arrived /\ ToldInv)'
  BY NextTypeInv, StillTypeInv, NextArrived, NextTold, StillTold
<1>2. ToldInv => Accounted
  BY DEF ToldInv, Through, Told, Held, Taking, Accounted, InHand
<1> QED
  BY <1>1, <1>2, InitTypeInv, InitArrived, InitTold, PTL DEF Spec

-----------------------------------------------------------------------------
(* What a write must not undo: where n was pushed, or is about to be, what *)
(* is older than n and after the cursor is there for a named cause.        *)
Behind(k, n) == \A m \in Live : k < m /\ m <= n => m \in again

Handled(n) == Held(n) \/ \E d \in Devices : n \in sent[d]

(* A copy that is not out of date is not behind the row, or would leave    *)
(* nothing live between its cursor and the row's.                          *)
Current(x) ==
    /\ work[x].at \in Advances => row.cursor <= work[x].cursor
    /\ work[x].at \in {"save", "upsert"} /\ work[x].cursor # 0 =>
         \A m \in Live : m > work[x].cursor => m > row.cursor

(* The job a lease belongs to pushes in order.                             *)
Before(c, m, d, n) ==
    n < m \/ (work[c].at = "push" /\ n = m /\ d \notin work[c].todo
                                 /\ \A q \in work[c].page : m <= q)

InOrder(c) ==
    /\ work[c].at \in {"refresh", "fetch"} =>
         \A d \in Devices : \A n \in sent[d] : Behind(work[c].cursor, n)
    /\ \A m \in work[c].page \ again, d \in Devices : \A n \in sent[d] : Before(c, m, d, n)

(* A page is taken from after the cursor, and kept until it is pushed.      *)
Paged(c) ==
    /\ work[c].page # {} => work[c].at \in Taking \cup {"advance"}
    /\ work[c].at = "advance" => \A p \in work[c].page : work[c].cursor < p

OrderInv ==
    /\ \A c \in Consumers : Paged(c)
    /\ \A n \in Messages : Handled(n) => Behind(row.cursor, n)
    /\ \A x \in Processes \ stale : Current(x)
    /\ Account \notin overrun => \A c \in Consumers : InOrder(c)

LEMMA NextPaged ==
    ASSUME TypeInv, NEW c \in Consumers, StepOf(c), Paged(c) PROVE Paged(c)'
<1> USE DEF Taking
<1>0. ConsumerStep(c) \/ ConsumerFault(c)
  BY Bounds DEF StepOf
<1>1. CASE StartJob(c) \/ FinishJob(c) \/ Crash(c) \/ LoadAccount(c) \/ RefreshTokens(c)
  BY <1>1, StartsType, LoadIs, RefreshIs DEF Paged
<1>2. CASE FetchInbox(c)
  <2>1. work[c].cursor \in 0..MaxMessages /\ MessageInbox(work[c].cursor) \subseteq Listing
    BY CopyType, Bounds, MessageInboxIs DEF TypeInv
  <2>2. ASSUME NEW p \in MessageInbox(work[c].cursor) PROVE work[c].cursor < p
    <3>1. p \in Nat /\ 1 <= p
      BY <2>1, ListingIs, MessageIs
    <3>2. work[c].cursor # 0 => p > work[c].cursor
      BY <2>1, MessageInboxIs
    <3> QED
      BY <2>1, <3>1, <3>2
  <2> QED
    BY <1>2, <2>2, FetchIs, IdleIs DEF Paged
<1>3. CASE AdvanceCursor(c) \/ AdvanceNotSaved(c)
  BY <1>3, AdvanceIs DEF Paged
<1>4. CASE Ends(c)
  BY <1>4, EndsIs, IdleIs DEF Paged
<1>5. CASE GetDevices(c) /\ assoc # {} /\ work[c].page # {}
  BY <1>5, DevicesIs DEF Paged
<1>6. CASE \E d \in Devices : Push(c, d) \/ PushRejected(c, d)
  BY <1>6, PushIs, IdleIs DEF Paged
<1>7. CASE Revoking(c)
  <2>1. work[c].at \in {"refresh", "fetch", "devs", "detach"}
    BY <1>7 DEF Revoking, GrantRevoked, ListDevices, Disassociate
  <2> QED
    BY <1>7, <2>1, RevokingIs DEF Paged
<1> QED
  BY <1>0, <1>1, <1>2, <1>3, <1>4, <1>5, <1>6, <1>7, ConsumerCases

(* The copy that a write saves.                                            *)
LEMMA WriteIs ==
    ASSUME TypeInv, NEW x \in Processes, StepOf(x), row'.cursor # row.cursor
    PROVE  \/ work[x].at \in Advances /\ row'.cursor = work[x].cursor
           \/ work[x].at \in {"save", "upsert"} /\ row'.cursor = work[x].cursor
           \/ /\ x \in Consumers /\ AdvanceCursor(x) /\ work[x].at = "advance"
              /\ work[x].page # {} /\ row'.cursor = MaxOf(work[x].page)
<1>1. CASE x \in Consumers /\ (ConsumerStep(x) \/ ConsumerFault(x))
  <2>1. CASE StartJob(x) \/ FinishJob(x) \/ Crash(x) \/ LoadAccount(x) \/ FetchInbox(x)
             \/ Revoking(x) \/ (GetDevices(x) /\ assoc # {} /\ work[x].page # {})
             \/ \E d \in Devices : Push(x, d) \/ PushRejected(x, d)
    <3>1. row' = row
      BY <1>1, <2>1, RevokingIs DEF StartJob, FinishJob, Crash, LoadAccount, FetchInbox,
         NoUpdate, GetDevices, Push, PushRejected
    <3> QED
      BY <3>1
  <2>2. CASE RefreshTokens(x)
    BY <1>1, <2>2, RefreshIs DEF RefreshTokens, Advances
  <2>3. CASE AdvanceCursor(x) \/ AdvanceNotSaved(x)
    BY <1>1, <2>3, AdvanceIs DEF AdvanceCursor
  <2>4. CASE Ends(x)
    BY <1>1, <2>4, EndsIs DEF WarmUp, Advances
  <2> QED
    BY <1>1, <2>1, <2>2, <2>3, <2>4, ConsumerCases
<1>2. CASE x \in Stuck /\ (StuckStep(x) \/ StuckFails(x))
  BY <1>2, StuckIs DEF StuckSave
<1>3. CASE x \in Refreshers /\ (RefresherLoad(x) \/ RefresherSave(x))
  BY <1>3, RefresherIs DEF RefresherSave, Advances
<1>4. CASE x \in Registrars /\ RegistrarStep(x)
  BY <1>4, RegistrarIs DEF RegistrarUpsert
<1> QED
  BY <1>1, <1>2, <1>3, <1>4 DEF StepOf

(* A write puts nothing live after the cursor again without saying so.     *)
LEMMA NoWayBack ==
    ASSUME TypeInv, TypeInv', OrderInv, NEW x \in Processes, StepOf(x),
           NEW m \in Live, row'.cursor < m, m <= row.cursor
    PROVE  m \in again'
<1>0. row.cursor \in Nat /\ row'.cursor \in Nat /\ m \in Messages /\ m \in Nat
      /\ work[x].cursor \in Nat
  BY CopyType, ListingIs, MessageIs DEF TypeInv, OwnType, Rows
<1>1. row'.cursor # row.cursor
  BY <1>0
<1>2. CASE x \in stale \/ row'.cursor = 0
  BY <1>0, <1>1, <1>2, RowIs DEF Written, Between
<1>3. CASE x \notin stale /\ row'.cursor # 0
  <2>1. Current(x)
    BY <1>3 DEF OrderInv
  <2>2. CASE work[x].at \in Advances /\ row'.cursor = work[x].cursor
    BY <1>0, <2>1, <2>2 DEF Current
  <2>3. CASE work[x].at \in {"save", "upsert"} /\ row'.cursor = work[x].cursor
    BY <1>0, <1>3, <2>1, <2>3 DEF Current
  <2>4. CASE /\ x \in Consumers /\ work[x].at = "advance"
             /\ work[x].page # {} /\ row'.cursor = MaxOf(work[x].page)
    <3>1. MaxOf(work[x].page) \in work[x].page
      BY <2>4, CopyType, MaxOfIs DEF TypeInv
    <3>2. work[x].cursor < row'.cursor
      BY <2>4, <3>1 DEF OrderInv, Paged
    <3>3. row.cursor <= work[x].cursor
      BY <2>1, <2>4 DEF Current, Advances
    <3> QED
      BY <1>0, <3>2, <3>3
  <2> QED
    BY <1>1, <2>2, <2>3, <2>4, WriteIs
<1> QED
  BY <1>2, <1>3

(* What is newly in hand came off an advanced page.                        *)
LEMMA HandledIs ==
    ASSUME TypeInv, NEW x \in Processes, StepOf(x), OrderInv, NEW n \in Messages, Handled(n)'
    PROVE  \/ Handled(n)
           \/ x \in Consumers /\ (AdvanceCursor(x) \/ AdvanceNotSaved(x)) /\ n \in work[x].page
<1>1. CASE \E d \in Devices : n \in sent'[d]
  <2>1. CASE sent' = sent
    BY <1>1, <2>1 DEF Handled
  <2>2. ASSUME NEW d \in Devices, x \in Consumers, Push(x, d) PROVE Handled(n)
    <3>1. work[x].at \in Taking
      BY <2>2 DEF Push, Taking
    <3>2. \A e \in Devices : sent'[e] \subseteq sent[e] \cup work[x].page
      BY <2>2, ProcessIs
    <3> QED
      BY <1>1, <2>2, <3>1, <3>2 DEF Handled, Held
  <2> QED
    BY <2>1, <2>2, SentIs
<1>2. ASSUME NEW c \in Consumers, work'[c].at \in Taking, n \in work'[c].page
      PROVE  \/ Handled(n)
             \/ x \in Consumers /\ (AdvanceCursor(x) \/ AdvanceNotSaved(x)) /\ n \in work[x].page
  <2>1. CASE c # x
    <3>1. work'[c] = work[c]
      BY <2>1, ProcessIs, Bounds DEF Only
    <3> QED
      BY <1>2, <3>1 DEF Handled, Held
  <2>2. CASE c = x
    <3>0. ConsumerStep(c) \/ ConsumerFault(c)
      BY <2>2, Bounds DEF StepOf
    <3>1. CASE StartJob(c) \/ FinishJob(c) \/ Crash(c) \/ LoadAccount(c) \/ RefreshTokens(c)
      BY <1>2, <3>1, StartsType, LoadIs, RefreshIs
    <3>2. CASE FetchInbox(c)
      BY <1>2, <3>2, FetchIs, IdleIs DEF Taking
    <3>3. CASE AdvanceCursor(c) \/ AdvanceNotSaved(c)
      BY <1>2, <2>2, <3>3, AdvanceIs
    <3>4. CASE Ends(c)
      BY <1>2, <3>4, EndsIs, IdleIs
    <3>5. CASE GetDevices(c) /\ assoc # {} /\ work[c].page # {}
      <4>1. work[c].at \in Taking
        BY <3>5 DEF GetDevices, Taking
      <4> QED
        BY <1>2, <3>5, <4>1, DevicesIs DEF Handled, Held
    <3>6. CASE \E d \in Devices : Push(c, d) \/ PushRejected(c, d)
      <4>1. work[c].at \in Taking /\ work'[c].page \subseteq work[c].page
        BY <3>6, PushIs, IdleIs DEF Taking
      <4> QED
        BY <1>2, <4>1 DEF Handled, Held
    <3>7. CASE Revoking(c)
      BY <1>2, <3>7, RevokingIs DEF Taking
    <3> QED
      BY <2>2, <3>0, <3>1, <3>2, <3>3, <3>4, <3>5, <3>6, <3>7, ConsumerCases
  <2> QED
    BY <2>1, <2>2
<1> QED
  BY <1>1, <1>2 DEF Handled, Held

LEMMA HandledBehind ==
    ASSUME TypeInv, TypeInv', OrderInv, NEW x \in Processes, StepOf(x),
           NEW n \in Messages, Handled(n)'
    PROVE  Behind(row.cursor, n)'
<1>0. /\ Live' = Live /\ again \subseteq again' /\ n \in Nat
      /\ row.cursor \in Nat /\ row'.cursor \in Nat /\ Live \subseteq Nat
  BY Grows, ListingIs, MessageIs, Bounds DEF TypeInv, OwnType, Rows
<1>1. CASE Handled(n)
  <2>1. ASSUME NEW m \in Live, row'.cursor < m, m <= n PROVE m \in again'
    <3>1. CASE m <= row.cursor
      BY <2>1, <3>1, NoWayBack
    <3>2. CASE row.cursor < m
      BY <1>0, <1>1, <2>1, <3>2 DEF OrderInv, Behind
    <3> QED
      BY <1>0, <3>1, <3>2
  <2> QED
    BY <1>0, <2>1 DEF Behind
<1>2. CASE x \in Consumers /\ (AdvanceCursor(x) \/ AdvanceNotSaved(x)) /\ n \in work[x].page
  <2>1. /\ n <= MaxOf(work[x].page) /\ MaxOf(work[x].page) \in Nat
    BY <1>2, CopyType, MaxOfIs DEF TypeInv
  <2>2. CASE AdvanceCursor(x)
    <3>1. row'.cursor = MaxOf(work[x].page)
      BY <1>2, <2>2, AdvanceIs
    <3> QED
      BY <1>0, <2>1, <3>1 DEF Behind
  <2>3. CASE AdvanceNotSaved(x)
    <3>1. row' = row /\ again' = again \cup Between(row.cursor, MaxOf(work[x].page))
      BY <2>3 DEF AdvanceNotSaved
    <3>2. ASSUME NEW m \in Live, row.cursor < m, m <= n PROVE m \in again'
      BY <1>0, <2>1, <3>1, <3>2, ListingIs DEF Between
    <3> QED
      BY <1>0, <3>1, <3>2 DEF Behind
  <2> QED
    BY <1>2, <2>2, <2>3
<1> QED
  BY <1>1, <1>2, HandledIs

(* Who holds a copy that is up to date after a step.                       *)
LEMMA StaleIs ==
    ASSUME TypeInv, OrderInv, NEW x \in Processes, StepOf(x)
    PROVE  \/ /\ Written(x) /\ work'[x].at \notin {"save", "upsert"}
              /\ work'[x].at \in Advances => work'[x].cursor = row'.cursor
           \/ /\ row'.cursor = row.cursor /\ stale \subseteq stale' \cup {x}
              /\ x \notin stale' => Current(x)'
<1> USE DEF Advances
<1>0. Live' = Live /\ row.cursor \in Nat /\ work[x].cursor \in Nat
  BY Grows, CopyType, Bounds DEF TypeInv, OwnType, Rows
<1>1. CASE x \in Consumers /\ (ConsumerStep(x) \/ ConsumerFault(x))
  <2>1. CASE StartJob(x) \/ FinishJob(x) \/ Crash(x)
    <3>1. row' = row /\ stale \subseteq stale' \cup {x}
      BY <2>1 DEF StartJob, FinishJob, Crash, NoUpdate
    <3> QED
      BY <1>1, <2>1, <3>1, StartsType DEF Current
  <2>2. CASE LoadAccount(x)
    <3>1. row' = row /\ stale \subseteq stale' \cup {x}
      BY <2>2 DEF LoadAccount
    <3> QED
      BY <1>0, <1>1, <2>2, <3>1, LoadIs DEF Current
  <2>3. CASE RefreshTokens(x)
    <3>1. Written(x)
      BY <2>3 DEF RefreshTokens, Update
    <3> QED
      BY <1>1, <2>3, <3>1, RefreshIs
  <2>4. CASE FetchInbox(x)
    <3>1. row' = row /\ stale' = stale /\ work[x].at = "fetch"
      BY <2>4 DEF FetchInbox, NoUpdate
    <3>2. x \notin stale => row.cursor <= work[x].cursor
      BY <3>1 DEF OrderInv, Current
    <3> QED
      BY <1>1, <2>4, <3>1, <3>2, FetchIs, IdleIs DEF Current
  <2>5. CASE AdvanceCursor(x) /\ work[x].page # {}
    <3>1. Written(x)
      BY <2>5 DEF AdvanceCursor, Update
    <3> QED
      BY <1>1, <2>5, <3>1, AdvanceIs
  <2>6. CASE AdvanceNotSaved(x) \/ (AdvanceCursor(x) /\ work[x].page = {})
    <3>1. row' = row /\ stale' = stale /\ work[x].at = "advance"
      BY <2>6 DEF AdvanceNotSaved, AdvanceCursor, NoUpdate
    <3>2. x \notin stale => row.cursor <= work[x].cursor
      BY <3>1 DEF OrderInv, Current
    <3>3. CASE work[x].page = {}
      BY <1>1, <2>6, <3>1, <3>2, <3>3, AdvanceIs DEF Current
    <3>4. CASE work[x].page # {}
      <4>1. MaxOf(work[x].page) \in work[x].page /\ MaxOf(work[x].page) \in Nat
        BY <3>4, CopyType, MaxOfIs, MessageIs DEF TypeInv
      <4>2. work[x].cursor < MaxOf(work[x].page)
        BY <1>1, <3>1, <4>1 DEF OrderInv, Paged
      <4>3. work'[x].cursor = MaxOf(work[x].page) /\ work'[x].at \in {"warm", "devices"}
        BY <1>1, <2>6, <3>4, AdvanceIs
      <4>4. x \notin stale => row.cursor <= MaxOf(work[x].page)
        BY <1>0, <3>2, <4>1, <4>2
      <4> QED
        BY <3>1, <4>3, <4>4 DEF Current
    <3> QED
      BY <3>3, <3>4
  <2>7. CASE Ends(x)
    <3>1. work'[x].at = "done"
      BY <1>1, <2>7, EndsIs, IdleIs
    <3>2. CASE WarmUp(x)
      BY <3>1, <3>2 DEF WarmUp, Update
    <3>3. CASE ~WarmUp(x)
      <4>1. row'.cursor = row.cursor
        BY <1>1, <2>7, <3>3, EndsIs
      <4>2. stale' = stale
        BY <2>7, <3>3 DEF Ends, CallFails, WarmUpNotSaved, GetDevicesFails, GetDevices,
                          DeleteAccount, NoUpdate
      <4> QED
        BY <3>1, <4>1, <4>2 DEF Current
    <3> QED
      BY <3>2, <3>3
  <2>8. CASE GetDevices(x) /\ assoc # {} /\ work[x].page # {}
    <3>1. row' = row /\ stale' = stale
      BY <2>8 DEF GetDevices, NoUpdate
    <3> QED
      BY <1>1, <2>8, <3>1, DevicesIs DEF Current
  <2>9. CASE \E d \in Devices : Push(x, d) \/ PushRejected(x, d)
    <3>1. row' = row /\ stale' = stale
      BY <2>9 DEF Push, PushRejected, NoUpdate
    <3> QED
      BY <1>1, <2>9, <3>1, PushIs, IdleIs DEF Current
  <2>10. CASE Revoking(x)
    BY <1>1, <2>10, RevokingIs DEF Current, NoUpdate
  <2> QED
    BY <1>1, <2>1, <2>2, <2>3, <2>4, <2>5, <2>6, <2>7, <2>8, <2>9, <2>10, ConsumerCases
<1>2. CASE x \in Stuck /\ (StuckStep(x) \/ StuckFails(x))
  <2>0. x \in Stuck /\ OwnType'
    BY <1>2, StuckIs
  <2>1. work'[x].at \notin Advances
    BY <2>0 DEF OwnType, StuckPlaces
  <2>2. CASE StuckSave(x)
    <3>1. Written(x) /\ Becomes(x, Idle)
      BY <2>2 DEF StuckSave, Update
    <3>2. work'[x].at = "idle"
      BY <3>1, IdleIs DEF Becomes, TypeInv, OwnType
    <3> QED
      BY <2>1, <3>1, <3>2
  <2>3. CASE ~StuckSave(x)
    <3>1. row' = row /\ stale \subseteq stale' \cup {x}
      BY <1>2, <2>3 DEF StuckStep, StuckLoad, StuckCheckPrivate, StuckCheckComment,
              StuckRecheck, StuckRelist, StuckFails, NoUpdate
    <3>2. work'[x].at = "save" => Topmost(work'[x].cursor)
      BY <1>2, StuckIs
    <3>3. work'[x].at # "upsert"
      BY <2>0 DEF OwnType, StuckPlaces
    <3>4. ASSUME work'[x].at = "save", work'[x].cursor # 0
          PROVE  \A m \in Live' : m > work'[x].cursor => m > row'.cursor
      <4>1. work'[x].cursor \in Nat /\ Live \subseteq Nat
        BY <2>0, ListingIs, Bounds DEF OwnType, Copies
      <4>2. \A m \in Live : m <= work'[x].cursor
        BY <3>2, <3>4 DEF Topmost
      <4> QED
        BY <1>0, <4>1, <4>2
    <3> QED
      BY <2>1, <3>1, <3>3, <3>4 DEF Current
  <2> QED
    BY <2>2, <2>3
<1>3. CASE x \in Refreshers /\ (RefresherLoad(x) \/ RefresherSave(x))
  <2>1. CASE RefresherLoad(x)
    <3>1. row' = row /\ stale' = stale
      BY <2>1 DEF RefresherLoad, NoUpdate
    <3> QED
      BY <1>0, <1>3, <2>1, <3>1, RefresherIs DEF Current
  <2>2. CASE ~RefresherLoad(x)
    <3>1. Written(x)
      BY <1>3, <2>2 DEF RefresherSave, Update
    <3> QED
      BY <1>3, <2>2, <3>1, RefresherIs
  <2> QED
    BY <2>1, <2>2
<1>4. CASE x \in Registrars /\ RegistrarStep(x)
  <2>1. CASE RegistrarUpsert(x)
    <3>1. Written(x) /\ work[x].at = "upsert"
      BY <2>1 DEF RegistrarUpsert
    <3>2. ~RegistrarList(x)
      BY <3>1 DEF RegistrarList
    <3> QED
      BY <1>4, <3>1, <3>2, RegistrarIs
  <2>2. CASE ~RegistrarUpsert(x)
    <3>1. row' = row /\ stale' = stale
      BY <1>4, <2>2 DEF RegistrarStep, RegistrarList, RegistrarAssociate, NoUpdate
    <3>2. \A m \in Listing : m <= MaxOf(Listing)
      BY ListingIs, MaxOfIs
    <3>3. ASSUME work'[x].at = "upsert", NEW m \in Live', m > work'[x].cursor PROVE FALSE
      <4>1. work'[x].cursor = MaxOf(Listing) /\ m \in Listing
        BY <1>0, <1>4, <3>3, RegistrarIs, ListingIs
      <4>2. MaxOf(Listing) \in Nat /\ m \in Nat
        BY <4>1, ListingIs, MaxOfIs, MessageIs, Bounds
      <4> QED
        BY <3>2, <3>3, <4>1, <4>2
    <3> QED
      BY <1>4, <3>1, <3>3, RegistrarIs DEF Current
  <2> QED
    BY <2>1, <2>2
<1> QED
  BY <1>1, <1>2, <1>3, <1>4 DEF StepOf

LEMMA NextCurrent ==
    ASSUME TypeInv, OrderInv, NEW x \in Processes, StepOf(x), NEW y \in Processes \ stale'
    PROVE  Current(y)'
<1>0. Live' = Live /\ \A z \in Processes \ {x} : work'[z] = work[z]
  BY Grows, ProcessIs DEF Only
<1>1. CASE y = x
  <2>1. CASE /\ work'[x].at \notin {"save", "upsert"}
             /\ work'[x].at \in Advances => work'[x].cursor = row'.cursor
    <3>1. work'[x].at \in Advances => row'.cursor <= work'[x].cursor
      <4>1. row'.cursor \in {row.cursor, work[x].cursor} \cup work[x].page
        BY ProcessIs
      <4>2. row'.cursor \in Nat
        BY <4>1, CopyType, MessageIs DEF TypeInv, OwnType, Rows
      <4> QED
        BY <2>1, <4>2
    <3> QED
      BY <1>1, <2>1, <3>1 DEF Current
  <2> QED
    BY <1>1, <2>1, StaleIs
<1>2. CASE y # x /\ row' = row /\ y \notin stale
  BY <1>0, <1>2 DEF OrderInv, Current
<1>3. CASE y # x /\ row'.cursor = row.cursor /\ y \notin stale
  BY <1>0, <1>3 DEF OrderInv, Current
<1>4. CASE y # x /\ y \in stale
  <2>1. Written(x) /\ row' # row
    BY <1>4, StaleIs DEF Written
  <2>2. ~Writes(y)
    BY <1>4, <2>1 DEF Written
  <2> QED
    BY <1>0, <1>4, <2>2 DEF Writes, Current, Advances
<1>5. CASE y # x /\ y \notin stale /\ row'.cursor # row.cursor
  <2>1. Written(x) /\ row' # row
    BY <1>5, RowIs
  <2>2. ~Writes(y)
    BY <1>5, <2>1 DEF Written
  <2> QED
    BY <1>0, <1>5, <2>2 DEF Writes, Current, Advances
<1> QED
  BY <1>1, <1>2, <1>3, <1>4, <1>5

(* A consumer with no job has nothing in hand, and a job at work has its   *)
(* lease, unless the lease was outlived.                                   *)
LEMMA IdleInOrder ==
    ASSUME TypeInv', NEW c \in Consumers, Paged(c)', work'[c].at = "idle" PROVE InOrder(c)'
BY DEF Paged, Taking, InOrder

LEMMA BusyInOrder ==
    ASSUME TypeInv, TypeInv', Next, OrderInv, NEW c \in Consumers, work'[c].at # "idle",
           Account \notin overrun'
    PROVE  Account \notin overrun /\ \A d \in Consumers : InOrder(d)
<1>1. pc'[c] = "working"
  BY DEF TypeInv, OwnType
<1>2. Account \notin overrun
  BY <1>1, OverrunStays DEF TypeInv
<1> QED
  BY <1>2 DEF OrderInv

LEMMA OrderQuiet ==
    ASSUME TypeInv, TypeInv', Arrived, Next, OrderInv, NEW c \in Consumers,
           work'[c] = work[c], UNCHANGED sent, again \subseteq again',
           Live' \subseteq Live \cup (Known' \ Known), Account \notin overrun'
    PROVE  InOrder(c)'
<1>1. CASE work'[c].at = "idle"
  <2>1. work[c].page = {}
    BY <1>1 DEF OrderInv, Paged, Taking
  <2> QED
    BY <1>1, <2>1 DEF InOrder
<1>2. CASE work'[c].at # "idle"
  <2>1. InOrder(c)
    BY <1>2, BusyInOrder
  <2>2. ASSUME NEW d \in Devices, NEW n \in sent[d], NEW m \in Live', m <= n PROVE m \in Live
    <3>1. n \in Known /\ n \in Nat /\ m \in Messages /\ m \in Nat
      BY ListingIs, MessageIs, Bounds DEF Arrived, Live
    <3>2. m \in Known
      BY <2>2, <3>1 DEF Arrived
    <3> QED
      BY <3>2
  <2>3. ASSUME work[c].at \in {"refresh", "fetch"}, NEW d \in Devices, NEW n \in sent[d]
        PROVE  Behind(work[c].cursor, n)'
    BY <2>1, <2>2, <2>3 DEF InOrder, Behind
  <2>4. ASSUME NEW m \in work[c].page \ again', NEW d \in Devices, NEW n \in sent[d]
        PROVE  Before(c, m, d, n)'
    BY <2>1 DEF InOrder, Before
  <2> QED
    BY <2>3, <2>4 DEF InOrder
<1> QED
  BY <1>1, <1>2

(* Only the job that is at work pushes.                                    *)
LEMMA OthersInOrder ==
    ASSUME TypeInv, TypeInv', Arrived, Next, OrderInv, NEW x \in Processes, StepOf(x),
           NEW c \in Consumers \ {x}, Account \notin overrun'
    PROVE  InOrder(c)'
<1>1. work'[c] = work[c] /\ again \subseteq again' /\ Live' = Live
  BY ProcessIs, Grows, Bounds DEF Only
<1>2. CASE sent' = sent
  BY <1>1, <1>2, OrderQuiet
<1>3. ASSUME NEW d \in Devices, x \in Consumers, Push(x, d) PROVE InOrder(c)'
  <2>1. CASE work'[c].at = "idle"
    <3>1. work[c].page = {}
      BY <1>1, <2>1 DEF OrderInv, Paged, Taking
    <3> QED
      BY <1>1, <2>1, <3>1 DEF InOrder
  <2>2. CASE work'[c].at # "idle"
    <3>1. Account \notin overrun
      BY <2>2, BusyInOrder
    <3>2. work[x].at = "push"
      BY <1>3 DEF Push
    <3>3. pc[x] = "working" /\ pc[c] = "working"
      BY <1>1, <1>3, <2>2, <3>2 DEF TypeInv, OwnType
    <3> QED
      BY <1>3, <3>1, <3>3, OneAtWork DEF TypeInv
  <2> QED
    BY <2>1, <2>2
<1> QED
  BY <1>2, <1>3, SentIs

LEMMA FetchInOrder ==
    ASSUME TypeInv, OrderInv, NEW c \in Consumers, FetchInbox(c), InOrder(c)
    PROVE  InOrder(c)'
<1>0. Live' = Live /\ again' = again /\ sent' = sent /\ work[c].at = "fetch"
      /\ work[c].cursor \in 0..MaxMessages /\ sent \in [Devices -> SUBSET Messages]
  <2>1. Live' = Live
    BY DEF FetchInbox, Calm, Live
  <2> QED
    BY <2>1, CopyType, Bounds DEF FetchInbox, NoUpdate, history, TypeInv, OwnType
<1>1. CASE work'[c] = Done
  BY <1>1, IdleIs DEF InOrder
<1>2. CASE /\ work'[c].at = "advance"
           /\ work'[c].page = MessageInbox(work[c].cursor) \cap Live
  <2>1. ASSUME NEW m \in MessageInbox(work[c].cursor) \cap Live, m \notin again,
               NEW d \in Devices, NEW n \in sent[d]
        PROVE  n < m
    <3>1. m \in Messages /\ m \in Nat /\ 1 <= m /\ n \in Nat
      BY <1>0, ListingIs, MessageIs, Bounds
    <3>2. work[c].cursor < m
      BY <1>0, <3>1, MessageInboxIs
    <3>3. Behind(work[c].cursor, n)
      BY <1>0 DEF InOrder
    <3> QED
      BY <2>1, <3>1, <3>2, <3>3 DEF Behind
  <2> QED
    BY <1>0, <1>2, <2>1 DEF InOrder, Before
<1> QED
  BY <1>1, <1>2, FetchIs

LEMMA PushInOrder ==
    ASSUME TypeInv, NEW c \in Consumers, NEW d \in Devices, Push(c, d) \/ PushRejected(c, d),
           InOrder(c)
    PROVE  InOrder(c)'
<1> DEFINE m0 == NextMessage(work[c])
<1>0. /\ work[c].page \subseteq Nat /\ again' = again
      /\ work[c].at = "push" /\ d \in work[c].todo
      /\ m0 \in work[c].page /\ \A q \in work[c].page : m0 <= q
      /\ \/ work'[c] = Done /\ work[c].page = {m0}
         \/ /\ work'[c].at = "push" /\ work'[c].page = work[c].page
            /\ work'[c].todo = work[c].todo \ {d}
         \/ /\ work'[c].at = "push" /\ work'[c].page = work[c].page \ {m0}
            /\ work[c].todo = {d}
      /\ \A e \in Devices : sent[e] \subseteq Messages
  BY PushIs, CopyType, Bounds DEF Push, PushRejected, NoUpdate, TypeInv, OwnType
<1>1. \A e \in Devices : \A n \in sent'[e] : n \in sent[e] \/ (e = d /\ n = m0)
  <2>1. CASE Push(c, d)
    BY <2>1, PushSends
  <2>2. CASE PushRejected(c, d)
    BY <2>2 DEF PushRejected
  <2> QED
    BY <2>1, <2>2
<1> HIDE DEF m0
<1>2. work'[c].at \notin {"refresh", "fetch"}
  BY <1>0, IdleIs
<1>3. ASSUME NEW m \in work'[c].page \ again', NEW e \in Devices, NEW n \in sent'[e]
      PROVE  Before(c, m, e, n)'
  <2>0. m \in work[c].page \ again /\ m \in Nat /\ work'[c] # Done /\ m0 <= m /\ m0 \in Nat
    BY <1>0, <1>3, IdleIs
  <2>1. CASE n \in sent[e]
    <3>1. Before(c, m, e, n)
      BY <2>0, <2>1 DEF InOrder
    <3>2. CASE n < m
      BY <3>2 DEF Before
    <3>3. CASE n = m /\ e \notin work[c].todo /\ \A q \in work[c].page : m <= q
      <4>1. m = m0
        BY <1>0, <2>0, <3>3
      <4>2. work'[c].at = "push" /\ work'[c].page = work[c].page
            /\ work'[c].todo = work[c].todo \ {d}
        BY <1>0, <1>3, <2>0, <4>1
      <4> QED
        BY <3>3, <4>2 DEF Before
    <3> QED
      BY <3>1, <3>2, <3>3 DEF Before
  <2>2. CASE e = d /\ n = m0
    <3>1. CASE m = m0
      <4>1. work'[c].at = "push" /\ work'[c].page = work[c].page
            /\ work'[c].todo = work[c].todo \ {d}
        BY <1>0, <1>3, <2>0, <3>1
      <4> QED
        BY <1>0, <2>2, <3>1, <4>1 DEF Before
    <3>2. CASE m # m0
      BY <2>0, <2>2, <3>2 DEF Before
    <3> QED
      BY <3>1, <3>2
  <2> QED
    BY <1>1, <2>1, <2>2
<1> QED
  BY <1>2, <1>3 DEF InOrder

LEMMA OwnInOrder ==
    ASSUME TypeInv, TypeInv', Next, OrderInv, NEW c \in Consumers, StepOf(c),
           Account \notin overrun'
    PROVE  InOrder(c)'
<1>0. ConsumerStep(c) \/ ConsumerFault(c)
  BY Bounds DEF StepOf
<1>1. CASE StartJob(c) \/ FinishJob(c) \/ Crash(c)
  BY <1>1, StartsType DEF InOrder
<1>2. CASE ~(StartJob(c) \/ FinishJob(c) \/ Crash(c))
  <2>0. c \in Processes /\ Live' = Live /\ again \subseteq again'
    BY Grows, Bounds
  <2>1. InOrder(c)
    <3>1. work'[c].at # "idle"
      <4>1. CASE LoadAccount(c) \/ RefreshTokens(c) \/ FetchInbox(c)
        BY <4>1, LoadIs, RefreshIs, FetchIs, IdleIs
      <4>2. CASE AdvanceCursor(c) \/ AdvanceNotSaved(c) \/ Ends(c)
        BY <4>2, AdvanceIs, EndsIs, IdleIs
      <4>3. CASE GetDevices(c) /\ assoc # {} /\ work[c].page # {}
        BY <4>3, DevicesIs
      <4>4. CASE \E d \in Devices : Push(c, d) \/ PushRejected(c, d)
        BY <4>4, PushIs, IdleIs
      <4>5. CASE Revoking(c)
        BY <4>5, RevokingIs
      <4> QED
        BY <1>0, <1>2, <4>1, <4>2, <4>3, <4>4, <4>5, ConsumerCases
    <3> QED
      BY <3>1, BusyInOrder
  <2>2. CASE LoadAccount(c)
    <3>1. sent' = sent /\ again' = again /\ sent \in [Devices -> SUBSET Messages]
      BY <2>2 DEF LoadAccount, history, TypeInv, OwnType
    <3>2. ASSUME work'[c].cursor = row.cursor, NEW d \in Devices, NEW n \in sent[d]
          PROVE  Behind(work[c].cursor, n)'
      <4>1. Handled(n) /\ n \in Messages
        BY <3>1 DEF Handled
      <4>2. Behind(row.cursor, n)
        BY <4>1 DEF OrderInv
      <4> QED
        BY <2>0, <3>1, <3>2, <4>2 DEF Behind
    <3>3. work'[c].page = {} /\ (work'[c].at = "done" \/ work'[c].cursor = row.cursor)
      BY <2>2, LoadIs
    <3> QED
      BY <3>1, <3>2, <3>3 DEF InOrder
  <2>3. CASE RefreshTokens(c)
    <3>1. sent' = sent /\ work[c].at = "refresh"
      BY <2>3 DEF RefreshTokens, history
    <3>2. work'[c].page = {} /\ work'[c].cursor = work[c].cursor
      BY <2>3, RefreshIs
    <3> QED
      BY <2>0, <2>1, <3>1, <3>2 DEF InOrder, Behind
  <2>4. CASE FetchInbox(c)
    BY <2>1, <2>4, FetchInOrder
  <2>5. CASE AdvanceCursor(c) \/ AdvanceNotSaved(c)
    <3>1. sent' = sent /\ work[c].at = "advance"
      BY <2>5 DEF AdvanceCursor, AdvanceNotSaved
    <3>2. work'[c].page = work[c].page /\ work'[c].at \in {"warm", "devices"}
      BY <2>5, AdvanceIs
    <3> QED
      BY <2>0, <2>1, <3>1, <3>2 DEF InOrder, Before
  <2>6. CASE Ends(c)
    BY <2>6, EndsIs, IdleIs DEF InOrder
  <2>7. CASE GetDevices(c) /\ assoc # {} /\ work[c].page # {}
    <3>1. sent' = sent /\ work[c].at = "devices" /\ again' = again
      BY <2>7 DEF GetDevices, NoUpdate
    <3>2. work'[c].page = work[c].page /\ work'[c].at = "push"
      BY <2>7, DevicesIs
    <3> QED
      BY <2>1, <3>1, <3>2 DEF InOrder, Before
  <2>8. CASE \E d \in Devices : Push(c, d) \/ PushRejected(c, d)
    BY <2>1, <2>8, PushInOrder
  <2>9. CASE Revoking(c)
    <3>1. work[c].at \in {"refresh", "fetch", "devs", "detach"}
      BY <2>9 DEF Revoking, GrantRevoked, ListDevices, Disassociate
    <3>2. work[c].page = {}
      BY <3>1 DEF OrderInv, Paged, Taking
    <3> QED
      BY <2>9, <3>2, RevokingIs DEF InOrder
  <2> QED
    BY <1>0, <1>2, <2>2, <2>3, <2>4, <2>5, <2>6, <2>7, <2>8, <2>9, ConsumerCases
<1> QED
  BY <1>1, <1>2

LEMMA NextOrder == ASSUME TypeInv, TypeInv', Arrived, OrderInv, Next PROVE OrderInv'
<1>1. CASE QueueStep \/ Arrive \/ Remove
  <2>1. /\ UNCHANGED <<row, work, sent, stale, again>>
        /\ Live' \subseteq Live \cup (Known' \ Known)
    <3>1. CASE QueueStep
      BY <3>1, QueueStepIs DEF Live
    <3>2. CASE Arrive \/ Remove
      BY <3>2, WorldIs
    <3> QED
      BY <1>1, <3>1, <3>2
  <2>2. \A c \in Consumers : Paged(c)'
    BY <2>1 DEF OrderInv, Paged
  <2>3. ASSUME NEW n \in Messages, Handled(n)' PROVE Behind(row.cursor, n)'
    <3>1. Handled(n)
      BY <2>1, <2>3 DEF Handled, Held
    <3>2. n \in Known /\ n \in Nat
      BY <3>1, ListingIs, MessageIs, Bounds DEF Handled, Held, Arrived
    <3>3. ASSUME NEW m \in Live', m <= n PROVE m \in Live
      <4>1. m \in Messages /\ m \in Nat
        BY MessageIs DEF Live
      <4>2. m \in Known
        BY <3>2, <3>3, <4>1 DEF Arrived
      <4> QED
        BY <2>1, <4>2
    <3> QED
      BY <2>1, <3>1, <3>3 DEF OrderInv, Behind
  <2>4. ASSUME NEW x \in Processes \ stale' PROVE Current(x)'
    <3>1. Current(x)
      BY <2>1 DEF OrderInv
    <3>2. ASSUME NEW m \in Live', m \notin Live PROVE m > row.cursor
      <4>1. m \in Messages /\ m \notin Known /\ m \in Nat /\ row.cursor \in Known \cup {0}
        BY <2>1, <3>2, MessageIs DEF Live, Arrived
      <4>2. row.cursor \in Nat /\ 1 <= m
        BY <4>1, MessageIs, Bounds DEF TypeInv, OwnType, Rows
      <4>3. row.cursor \in Known => ~(m < row.cursor)
        BY <4>1 DEF Arrived
      <4> QED
        BY <4>1, <4>2, <4>3
    <3> QED
      BY <2>1, <3>1, <3>2 DEF Current
  <2>5. ASSUME Account \notin overrun', NEW c \in Consumers PROVE InOrder(c)'
    BY <2>1, <2>5, OrderQuiet
  <2> QED
    BY <2>2, <2>3, <2>4, <2>5 DEF OrderInv
<1>2. ASSUME NEW x \in Processes, StepOf(x) PROVE OrderInv'
  <2>1. ASSUME NEW c \in Consumers PROVE Paged(c)'
    <3>1. CASE c = x
      BY <1>2, <3>1, NextPaged DEF OrderInv
    <3>2. CASE c # x
      <4>1. work'[c] = work[c]
        BY <1>2, <3>2, ProcessIs, Bounds DEF Only
      <4> QED
        BY <4>1 DEF OrderInv, Paged
    <3> QED
      BY <3>1, <3>2
  <2>2. ASSUME Account \notin overrun', NEW c \in Consumers PROVE InOrder(c)'
    <3>1. CASE c = x
      BY <1>2, <2>2, <3>1, OwnInOrder
    <3>2. CASE c # x
      BY <1>2, <2>2, <3>2, OthersInOrder
    <3> QED
      BY <3>1, <3>2
  <2>3. \A n \in Messages : Handled(n)' => Behind(row.cursor, n)'
    BY <1>2, HandledBehind
  <2>4. \A y \in Processes \ stale' : Current(y)'
    BY <1>2, NextCurrent
  <2> QED
    BY <2>1, <2>2, <2>3, <2>4 DEF OrderInv
<1> QED
  BY <1>1, <1>2, NextIs

LEMMA InitOrder == Init => OrderInv
<1> SUFFICES ASSUME Init PROVE OrderInv
  OBVIOUS
<1>1. (\A x \in Processes : work[x] = Idle) /\ \A d \in Devices : sent[d] = {}
  BY DEF Init
<1> QED
  BY <1>1, IdleIs, Bounds
  DEF OrderInv, Paged, Handled, Held, Taking, Current, Advances, InOrder

LEMMA StillOrder == ASSUME OrderInv, UNCHANGED vars PROVE OrderInv'
<1>1. UNCHANGED <<inbox, row, work, sent, stale, again, overrun>>
  BY DEF vars, history, queueVars
<1> QED
  BY <1>1 DEF OrderInv, Paged, Handled, Held, Behind, Current, InOrder, Before, Live

(* A device gets a message once and in order, in however many jobs and     *)
(* whatever else writes the row meanwhile, unless the lease was outlived   *)
(* or a stale or failed write put the message after the cursor again.      *)
THEOREM OrderCorrect == Spec => PushedOnceInOrder
<1> DEFINE I == TypeInv /\ Arrived /\ OrderInv
<1>1. I /\ [Next]_vars => I'
  <2>1. ASSUME Arrived, UNCHANGED vars PROVE Arrived'
    BY <2>1 DEF Arrived, Known, vars, history
  <2> QED
    BY <2>1, NextTypeInv, StillTypeInv, NextArrived, NextOrder, StillOrder
<1>2. ASSUME I, NEW c \in Consumers, NEW d \in Devices, Push(c, d),
             NextMessage(work[c]) \notin again, Account \notin overrun,
             NEW n \in sent[d]
      PROVE  n < NextMessage(work[c])
  <2>1. NextMessage(work[c]) \in work[c].page /\ d \in work[c].todo
    BY <1>2, PushIs
  <2>2. Before(c, NextMessage(work[c]), d, n)
    BY <1>2, <2>1 DEF OrderInv, InOrder
  <2> QED
    BY <2>1, <2>2 DEF Before
<1>3. I => [\A c \in Consumers, d \in Devices :
              LET m == NextMessage(work[c]) IN
              Push(c, d) /\ m \notin again /\ Account \notin overrun
              => \A n \in sent[d] : n < m]_vars
  BY <1>2
<1>4. Init => I
  BY InitTypeInv, InitArrived, InitOrder
<1> HIDE DEF I
<1> QED
  BY <1>1, <1>3, <1>4, PTL DEF Spec, PushedOnceInOrder
-----------------------------------------------------------------------------
(* The promise of Delivery.  A job that pushes owes its next message to    *)
(* someone, and the ones after it too.                                     *)
Owing == \A c \in Consumers : work[c].at = "push" => work[c].todo # {} /\ work[c].devs # {}

LEMMA NextOwing == ASSUME TypeInv, Owing, Next PROVE Owing'
<1>1. CASE QueueStep \/ Arrive \/ Remove
  BY <1>1, QueueStepIs, WorldIs DEF Owing
<1>2. ASSUME NEW x \in Processes, StepOf(x), NEW c \in Consumers, work'[c].at = "push"
      PROVE  work'[c].todo # {} /\ work'[c].devs # {}
  <2>1. CASE c # x
    BY <1>2, <2>1, ProcessIs, Bounds DEF Only, Owing
  <2>2. CASE c = x
    <3>0. ConsumerStep(c) \/ ConsumerFault(c)
      BY <1>2, <2>2, Bounds DEF StepOf
    <3>1. CASE StartJob(c) \/ FinishJob(c) \/ Crash(c) \/ LoadAccount(c) \/ RefreshTokens(c)
      BY <1>2, <3>1, StartsType, LoadIs, RefreshIs
    <3>2. CASE FetchInbox(c) \/ AdvanceCursor(c) \/ AdvanceNotSaved(c)
      BY <1>2, <3>2, FetchIs, AdvanceIs, IdleIs
    <3>3. CASE Ends(c) \/ Revoking(c)
      BY <1>2, <3>3, EndsIs, RevokingIs, IdleIs
    <3>4. CASE GetDevices(c) /\ assoc # {} /\ work[c].page # {}
      BY <3>4, DevicesIs
    <3>5. ASSUME NEW d \in Devices, Push(c, d) \/ PushRejected(c, d)
          PROVE  work'[c].todo # {} /\ work'[c].devs # {}
      <4>1. /\ work[c].at = "push" /\ d \in work[c].todo
            /\ \/ work'[c] = Done
               \/ /\ work'[c].todo = work[c].todo \ {d} /\ work[c].todo # {d}
                  /\ work'[c].devs = work[c].devs
               \/ work'[c].todo = work[c].devs /\ work'[c].devs = work[c].devs
        BY <3>5, PushIs
      <4> QED
        BY <1>2, <4>1, IdleIs DEF Owing
    <3> QED
      BY <3>0, <3>1, <3>2, <3>3, <3>4, <3>5, ConsumerCases
  <2> QED
    BY <2>1, <2>2
<1> QED
  BY <1>1, <1>2, NextIs DEF Owing

(* What is in hand: one job's part, and the others'.                       *)
TakenBy(w) == IF w.at \in {"warm", "devices"} THEN w.page ELSE {}

TakenByOthers(c) == {m \in Messages : \E e \in Consumers \ {c} : m \in TakenBy(work[e])}
OwedByOthers(c, d) == UNION {OwedBy(work[e], d) : e \in Consumers \ {c}}

LEMMA NoHand ==
    ASSUME NEW w, w.at \notin Taking
    PROVE  TakenBy(w) = {} /\ \A d \in Devices : OwedBy(w, d) = {}
BY DEF TakenBy, OwedBy, Taking

LEMMA HandIs ==
    ASSUME TypeInv, TypeInv', NEW c \in Consumers, Only(c)
    PROVE  /\ Taken = TakenBy(work[c]) \cup TakenByOthers(c)
           /\ Taken' = TakenBy(work'[c]) \cup TakenByOthers(c)
           /\ \A d \in Devices : Owed[d] = OwedBy(work[c], d) \cup OwedByOthers(c, d)
           /\ \A d \in Devices : Owed'[d] = OwedBy(work'[c], d) \cup OwedByOthers(c, d)
<1>1. /\ \A e \in Consumers : work[e].page \subseteq Messages /\ work'[e].page \subseteq Messages
      /\ \A e \in Consumers \ {c} : work'[e] = work[e]
  BY CopyType, Bounds DEF TypeInv, OwnType, Only, Copies
<1>2. Taken = TakenBy(work[c]) \cup TakenByOthers(c)
  BY <1>1 DEF Taken, TakenBy, TakenByOthers
<1>3. Taken' = TakenBy(work'[c]) \cup TakenByOthers(c)
  BY <1>1 DEF Taken, TakenBy, TakenByOthers
<1>4. ASSUME NEW d \in Devices PROVE Owed[d] = OwedBy(work[c], d) \cup OwedByOthers(c, d)
  <2>1. Owed[d] = UNION {OwedBy(work[e], d) : e \in Consumers}
    BY DEF Owed
  <2> QED
    BY <2>1 DEF OwedByOthers
<1>5. ASSUME NEW d \in Devices PROVE Owed'[d] = OwedBy(work'[c], d) \cup OwedByOthers(c, d)
  <2>1. Owed'[d] = UNION {OwedBy(work'[e], d) : e \in Consumers}
    BY DEF Owed, OwedBy, NextMessage, MinOf
  <2> QED
    BY <1>1, <2>1 DEF OwedByOthers
<1> QED
  BY <1>2, <1>3, <1>4, <1>5

LEMMA AloneIs ==
    ASSUME TypeInv, Account \notin overrun, NEW c \in Consumers, work[c].at # "idle"
    PROVE  TakenByOthers(c) = {} /\ \A d \in Devices : OwedByOthers(c, d) = {}
<1>1. ASSUME NEW e \in Consumers \ {c} PROVE work[e].at = "idle"
  <2>1. pc[c] = "working" /\ (work[e].at # "idle" => pc[e] = "working")
    BY DEF TypeInv, OwnType
  <2> QED
    BY <2>1, OneAtWork DEF TypeInv
<1>2. \A e \in Consumers \ {c} :
        TakenBy(work[e]) = {} /\ \A d \in Devices : OwedBy(work[e], d) = {}
  BY <1>1, NoHand DEF Taking
<1> QED
  BY <1>2 DEF TakenByOthers, OwedByOthers

LEMMA OwedIs == (\A d \in Devices : Owed'[d] = Owed[d]) => Owed' = Owed
<1>1. Owed = [d \in Devices |-> Owed[d]]
  BY DEF Owed
<1>2. Owed' = [d \in Devices |-> Owed'[d]]
  BY DEF Owed
<1> QED
  BY <1>1, <1>2

LEMMA KeepsHand ==
    ASSUME TypeInv, TypeInv', NEW x \in Processes, Only(x),
           x \in Consumers => work[x].at \notin Taking /\ work'[x].at \notin Taking
    PROVE  Taken' = Taken /\ Owed' = Owed
<1>1. CASE x \in Consumers
  <2>1. /\ TakenBy(work[x]) = {} /\ TakenBy(work'[x]) = {}
        /\ \A d \in Devices : OwedBy(work[x], d) = {} /\ OwedBy(work'[x], d) = {}
    BY <1>1, NoHand
  <2> QED
    BY <1>1, <2>1, HandIs, OwedIs
<1>2. CASE x \notin Consumers
  <2>1. \A c \in Consumers : work'[c] = work[c]
    BY <1>2, Bounds DEF Only
  <2>2. Taken' = Taken
    BY <2>1 DEF Taken
  <2>3. \A d \in Devices : Owed'[d] = Owed[d]
    BY <2>1 DEF Owed, OwedBy, NextMessage, MinOf
  <2> QED
    BY <2>2, <2>3, OwedIs
<1> QED
  BY <1>1, <1>2

(* What is told of a message settles it.                                   *)
LEMMA SettledIs ==
    ASSUME TypeInv', Owing', NEW m \in Live', Told(m)'
    PROVE  Promise!Settled(m)'
<1>1. CASE Held(m)'
  <2>1. PICK c \in Consumers : work'[c].at \in Taking /\ m \in work'[c].page
    BY <1>1 DEF Held
  <2>2. work'[c].todo \subseteq Devices /\ work'[c].devs \subseteq Devices /\ m \in Messages
    BY <2>1, Bounds DEF TypeInv, OwnType, Copies, Live
  <2>3. CASE work'[c].at \in {"warm", "devices"}
    BY <2>1, <2>2, <2>3 DEF Taken, Promise!Settled
  <2>4. CASE work'[c].at = "push"
    <3>1. PICK d \in Devices :
            d \in (IF m = NextMessage(work'[c]) THEN work'[c].todo ELSE work'[c].devs)
      BY <2>2, <2>4 DEF Owing
    <3>2. m \in OwedBy(work'[c], d)
      BY <2>1, <2>4, <3>1 DEF OwedBy
    <3>3. Owed'[d] = UNION {OwedBy(work'[e], d) : e \in Consumers}
      BY DEF Owed, OwedBy, NextMessage, MinOf
    <3> QED
      BY <3>2, <3>3 DEF Promise!Settled
  <2> QED
    BY <2>1, <2>3, <2>4 DEF Taking
<1>2. CASE ~Held(m)'
  BY <1>2 DEF Told, Promise!Settled
<1> QED
  BY <1>1, <1>2

LEMMA CursorIs ==
    ASSUME TypeInv, TypeInv', Owing', ToldInv', OrderInv, NEW x \in Processes, StepOf(x)
    PROVE  Promise!CursorMoves
<1>1. /\ skipped \cup swallowed \subseteq skipped' \cup swallowed' /\ again \subseteq again'
      /\ base' = base /\ Live' = Live
  BY Grows
<1>2. ASSUME NEW m \in Live, base < m, m <= row'.cursor PROVE Promise!Settled(m)'
  <2>1. m \in Between(base', row'.cursor)
    BY <1>1, <1>2 DEF Between, Live
  <2>2. Told(m)'
    BY <2>1 DEF ToldInv, Through
  <2> QED
    BY <1>1, <2>2, SettledIs
<1>3. \A m \in Live : row'.cursor < m /\ m <= row.cursor => m \in again'
  BY NoWayBack
<1>4. row'.cursor \in 0..MaxMessages
  BY DEF TypeInv, OwnType, Rows
<1> QED
  BY <1>1, <1>2, <1>3, <1>4 DEF Promise!CursorMoves

(* A step that leaves alone what is in hand may write the cursor; one that *)
(* does not may change the devices.                                        *)
PromiseInv == TypeInv /\ Arrived /\ Spared /\ ToldInv /\ OrderInv /\ Owing

LEMMA TakesNothing ==
    ASSUME PromiseInv, PromiseInv', NEW x \in Processes, StepOf(x),
           Taken' = Taken, Owed' = Owed, UNCHANGED <<sent, assoc, overrun>>
    PROVE  Promise!Next
<1>1. Promise!CursorMoves /\ Live' = Live /\ base' = base
  BY CursorIs, Grows DEF PromiseInv
<1>2. Promise!Take({})
  BY <1>1 DEF Promise!Take
<1> QED
  BY <1>2 DEF Promise!Next

LEMMA OthersPromise ==
    ASSUME PromiseInv, PromiseInv', NEW x \in Processes \ Consumers, StepOf(x)
    PROVE  Promise!Next
<1>1. /\ Taken' = Taken /\ Owed' = Owed /\ sent' = sent /\ Live' = Live /\ base' = base
  BY ProcessIs, KeepsHand, SentIs, Grows DEF PromiseInv
<1>2. \/ x \in Stuck /\ (StuckStep(x) \/ StuckFails(x))
      \/ x \in Refreshers /\ (RefresherLoad(x) \/ RefresherSave(x))
      \/ x \in Registrars /\ RegistrarStep(x)
  BY DEF StepOf
<1>3. overrun' = overrun
  BY <1>2 DEF StuckStep, StuckLoad, StuckCheckPrivate, StuckCheckComment, StuckRecheck,
              StuckRelist, StuckSave, StuckFails, RefresherLoad, RefresherSave,
              RegistrarStep, RegistrarList, RegistrarUpsert, RegistrarAssociate, Calm,
              Failing, queueVars
<1>4. assoc' = assoc \/ RegistrarAssociate(x)
  BY <1>2, StuckIs, RefresherIs DEF RegistrarStep, RegistrarList, RegistrarUpsert, PromiseInv
<1>5. CASE RegistrarAssociate(x)
  <2>1. PICK d \in Devices : assoc' = assoc \cup {d}
    BY <1>5 DEF RegistrarAssociate
  <2>2. UNCHANGED <<row, again, skipped, swallowed>>
    BY <1>5 DEF RegistrarAssociate, NoUpdate, history
  <2>3. Promise!Associate(d)
    BY <1>1, <1>3, <2>1, <2>2 DEF Promise!Associate
  <2> QED
    BY <2>3 DEF Promise!Next
<1> QED
  BY <1>1, <1>3, <1>4, <1>5, TakesNothing

(* A job that has nothing in hand, before or after.                        *)
LEMMA EmptyHanded ==
    ASSUME PromiseInv, PromiseInv', NEW c \in Consumers, StepOf(c),
           \/ LoadAccount(c) \/ RefreshTokens(c) \/ FetchInbox(c) \/ CallFails(c)
           \/ DeleteAccount(c) \/ Revoking(c)
    PROVE  Promise!Next
<1>0. c \in Processes /\ TypeInv /\ TypeInv'
  BY Bounds DEF PromiseInv
<1>1. work[c].at \notin Taking /\ sent' = sent /\ overrun' = overrun
  BY DEF LoadAccount, RefreshTokens, FetchInbox, CallFails, DeleteAccount, Revoking,
         GrantRevoked, ListDevices, Disassociate, Taking, Calm, Failing, queueVars, history
<1>2. work'[c].at \notin Taking
  BY <1>0, LoadIs, RefreshIs, FetchIs, EndsIs, RevokingIs, IdleIs DEF Ends, Taking
<1>3. Taken' = Taken /\ Owed' = Owed /\ Live' = Live /\ base' = base
  BY <1>0, <1>1, <1>2, ProcessIs, KeepsHand, Grows
<1>4. assoc' = assoc \/ \E d \in Devices : Disassociate(c, d)
  BY DEF LoadAccount, RefreshTokens, FetchInbox, CallFails, DeleteAccount, Revoking,
         GrantRevoked, ListDevices
<1>5. ASSUME NEW d \in Devices, Disassociate(c, d) PROVE Promise!Next
  <2>1. UNCHANGED <<row, again, skipped, swallowed>> /\ assoc' = assoc \ {d}
    BY <1>5 DEF Disassociate, NoUpdate, history
  <2>2. Promise!Associate(d)
    BY <1>1, <1>3, <2>1 DEF Promise!Associate
  <2> QED
    BY <2>2 DEF Promise!Next
<1> QED
  BY <1>0, <1>1, <1>3, <1>4, <1>5, TakesNothing

(* What is due: the page is newer than what was pushed, and nobody else    *)
(* has anything in hand.                                                   *)
LEMMA DueIs ==
    ASSUME PromiseInv, NEW c \in Consumers, work[c].at = "advance", NEW m \in work[c].page
    PROVE  Promise!Due(m)
<1>0. TypeInv /\ Spared /\ OrderInv
  BY DEF PromiseInv
<1>1. m > base \/ m \in again
  BY <1>0 DEF Spared
<1>2. ASSUME Account \notin overrun, m \notin again PROVE Promise!Newer(m)
  <2>1. /\ TakenByOthers(c) = {} /\ TakenBy(work[c]) = {}
        /\ \A d \in Devices : OwedByOthers(c, d) = {} /\ OwedBy(work[c], d) = {}
    BY <1>0, <1>2, AloneIs, NoHand DEF Taking
  <2>2. Taken = {} /\ \A d \in Devices : Owed[d] = {}
    <3>1. Taken = TakenBy(work[c]) \cup TakenByOthers(c)
      BY <1>0, CopyType, Bounds DEF TypeInv, Taken, TakenBy, TakenByOthers
    <3>2. \A d \in Devices : Owed[d] = OwedBy(work[c], d) \cup OwedByOthers(c, d)
      BY DEF Owed, OwedByOthers
    <3> QED
      BY <2>1, <3>1, <3>2
  <2>3. ASSUME NEW d \in Devices, NEW n \in sent[d] PROVE n < m
    <3>1. Before(c, m, d, n)
      BY <1>0, <1>2 DEF OrderInv, InOrder
    <3> QED
      BY <3>1 DEF Before
  <2> QED
    BY <2>2, <2>3 DEF Promise!Newer
<1> QED
  BY <1>1, <1>2 DEF Promise!Due

LEMMA AdvancePromise ==
    ASSUME PromiseInv, PromiseInv', NEW c \in Consumers, StepOf(c),
           AdvanceCursor(c) \/ AdvanceNotSaved(c)
    PROVE  Promise!Next
<1>0. c \in Processes /\ TypeInv /\ TypeInv' /\ Only(c) /\ work[c].page \subseteq Messages
  BY Bounds, ProcessIs, CopyType DEF PromiseInv, TypeInv
<1>1. /\ work[c].at = "advance" /\ UNCHANGED <<sent, assoc, overrun>>
      /\ Live' = Live /\ base' = base /\ Promise!CursorMoves
  BY <1>0, Grows, CursorIs DEF PromiseInv, AdvanceCursor, AdvanceNotSaved, Calm, Failing,
                               queueVars
<1>2. work'[c].page = work[c].page /\ work'[c].at \in {"warm", "devices"}
  BY <1>0, AdvanceIs
<1>3. /\ TakenBy(work[c]) = {} /\ TakenBy(work'[c]) = work[c].page
      /\ \A d \in Devices : OwedBy(work[c], d) = {} /\ OwedBy(work'[c], d) = {}
  BY <1>1, <1>2 DEF TakenBy, OwedBy
<1>4. Taken' = Taken \cup work[c].page /\ Owed' = Owed
  BY <1>0, <1>3, HandIs, OwedIs
<1>5. Promise!Take(work[c].page)
  BY <1>1, <1>4, DueIs DEF Promise!Take
<1> QED
  BY <1>0, <1>5 DEF Promise!Next, Promise!Messages, Messages

(* What one job lets go of, others may hold if the lease is overrun.       *)
LEMMA LessIs ==
    ASSUME NEW A, NEW B, NEW S, NEW O, B = A \ S, Account \notin overrun => O = {}
    PROVE  Promise!Less(A \cup O, S, B \cup O)
BY DEF Promise!Less

LEMMA GivesUp ==
    ASSUME PromiseInv, PromiseInv', NEW c \in Consumers, StepOf(c),
           \/ WarmUp(c) \/ WarmUpNotSaved(c) \/ GetDevicesFails(c)
           \/ GetDevices(c) /\ (assoc = {} \/ work[c].page = {})
    PROVE  Promise!Next
<1>0. c \in Processes /\ TypeInv /\ TypeInv' /\ Only(c) /\ work[c].page \subseteq Messages
  BY Bounds, ProcessIs, CopyType DEF PromiseInv, TypeInv
<1>1. /\ work[c].at \in {"warm", "devices"} /\ UNCHANGED <<sent, assoc, overrun>>
      /\ Live' = Live /\ base' = base /\ Promise!CursorMoves
      /\ work[c].page \subseteq skipped' \cup swallowed'
  BY <1>0, Grows, CursorIs DEF PromiseInv, WarmUp, WarmUpNotSaved, GetDevicesFails,
                               GetDevices, Calm, Failing, queueVars, Skip
<1>2. work'[c] = Done
  BY <1>0, EndsIs DEF Ends
<1>3. /\ TakenBy(work[c]) = work[c].page /\ TakenBy(work'[c]) = {}
      /\ \A d \in Devices : OwedBy(work[c], d) = {} /\ OwedBy(work'[c], d) = {}
  BY <1>1, <1>2, IdleIs DEF TakenBy, OwedBy
<1>4. /\ Taken = work[c].page \cup TakenByOthers(c) /\ Taken' = {} \cup TakenByOthers(c)
      /\ Owed' = Owed
  BY <1>0, <1>3, HandIs, OwedIs
<1>5. Account \notin overrun => TakenByOthers(c) = {}
  BY <1>0, <1>1, AloneIs
<1>6. Promise!Less(Taken, work[c].page, Taken')
  BY <1>4, <1>5, LessIs
<1>7. Promise!GiveUp(work[c].page)
  BY <1>1, <1>4, <1>6 DEF Promise!GiveUp
<1> QED
  BY <1>0, <1>7 DEF Promise!Next, Promise!Messages, Messages

LEMMA Addresses ==
    ASSUME PromiseInv, PromiseInv', NEW c \in Consumers, StepOf(c),
           GetDevices(c), assoc # {}, work[c].page # {}
    PROVE  Promise!Next
<1>0. c \in Processes /\ TypeInv /\ TypeInv' /\ Only(c) /\ work[c].page \subseteq Messages
  BY Bounds, ProcessIs, CopyType DEF PromiseInv, TypeInv
<1>1. /\ work[c].at = "devices" /\ UNCHANGED <<row, sent, assoc, overrun, again>>
      /\ UNCHANGED <<skipped, swallowed>> /\ Live' = Live /\ base' = base
  BY <1>0, Grows DEF GetDevices, Calm, queueVars, NoUpdate
<1>2. /\ work'[c].page = work[c].page /\ work'[c].at = "push"
      /\ work'[c].todo = assoc /\ work'[c].devs = assoc
  BY <1>0, DevicesIs
<1>3. /\ TakenBy(work[c]) = work[c].page /\ TakenBy(work'[c]) = {}
      /\ \A d \in Devices :
           /\ OwedBy(work[c], d) = {}
           /\ OwedBy(work'[c], d) = IF d \in assoc THEN work[c].page ELSE {}
  BY <1>1, <1>2 DEF TakenBy, OwedBy
<1>4. /\ Taken = work[c].page \cup TakenByOthers(c) /\ Taken' = {} \cup TakenByOthers(c)
      /\ \A d \in Devices :
           Owed'[d] = IF d \in assoc THEN Owed[d] \cup work[c].page ELSE Owed[d]
  <2>1. ASSUME NEW d \in Devices
        PROVE  Owed'[d] = IF d \in assoc THEN Owed[d] \cup work[c].page ELSE Owed[d]
    <3>1. /\ Owed[d] = OwedBy(work[c], d) \cup OwedByOthers(c, d)
          /\ Owed'[d] = OwedBy(work'[c], d) \cup OwedByOthers(c, d)
      BY <1>0, HandIs
    <3> QED
      BY <1>3, <3>1
  <2> QED
    BY <1>0, <1>3, <2>1, HandIs
<1>5. Account \notin overrun => TakenByOthers(c) = {}
  BY <1>0, <1>1, AloneIs
<1>6. Promise!Less(Taken, work[c].page, Taken')
  BY <1>4, <1>5, LessIs
<1>7. Owed' = [d \in Devices |-> IF d \in assoc THEN Owed[d] \cup work[c].page ELSE Owed[d]]
  <2>1. Owed' = [d \in Devices |-> Owed'[d]]
    BY DEF Owed
  <2> QED
    BY <1>4, <2>1
<1>8. Promise!Address(work[c].page)
  BY <1>1, <1>4, <1>5, <1>6, <1>7 DEF Promise!Address
<1> QED
  BY <1>0, <1>8 DEF Promise!Next, Promise!Messages, Messages

(* A message is no longer owed to the device it was for, and all else is.  *)
LEMMA PushOwes ==
    ASSUME TypeInv, NEW c \in Consumers, NEW d \in Devices, Push(c, d) \/ PushRejected(c, d)
    PROVE  LET m == NextMessage(work[c]) IN
           /\ m \in OwedBy(work[c], d) /\ \A n \in OwedBy(work[c], d) : m <= n
           /\ \A e \in Devices :
                OwedBy(work'[c], e) = OwedBy(work[c], e) \ {n \in {m} : e = d}
<1> DEFINE m == NextMessage(work[c])
<1>1. /\ work[c].at = "push" /\ d \in work[c].todo
      /\ m \in work[c].page /\ \A n \in work[c].page : m <= n
      /\ \/ work'[c] = Done /\ work[c].page = {m} /\ work[c].todo = {d}
         \/ /\ work'[c].at = "push" /\ work'[c].page = work[c].page
            /\ work'[c].todo = work[c].todo \ {d} /\ work'[c].devs = work[c].devs
         \/ /\ work'[c].at = "push" /\ work'[c].page # {}
            /\ work'[c].page = work[c].page \ {m}
            /\ work'[c].todo = work[c].devs /\ work'[c].devs = work[c].devs
            /\ work[c].todo = {d}
  BY PushIs
<1>2. ASSUME NEW e \in Devices
      PROVE  OwedBy(work[c], e) = {n \in work[c].page :
                                     e \in (IF n = m THEN work[c].todo ELSE work[c].devs)}
  BY <1>1 DEF OwedBy
<1>3. ASSUME NEW e \in Devices
      PROVE  OwedBy(work'[c], e) = OwedBy(work[c], e) \ {n \in {m} : e = d}
  <2>1. CASE work'[c] = Done /\ work[c].page = {m} /\ work[c].todo = {d}
    <3>1. OwedBy(work'[c], e) = {}
      BY <2>1, IdleIs, NoHand DEF Taking
    <3> HIDE DEF m
    <3> QED
      BY <1>2, <2>1, <3>1
  <2>2. CASE /\ work'[c].at = "push" /\ work'[c].page = work[c].page
             /\ work'[c].todo = work[c].todo \ {d} /\ work'[c].devs = work[c].devs
    <3>1. NextMessage(work'[c]) = m
      BY <2>2 DEF NextMessage
    <3> HIDE DEF m
    <3>2. OwedBy(work'[c], e) = {n \in work[c].page :
                                   e \in (IF n = m THEN work[c].todo \ {d} ELSE work[c].devs)}
      BY <2>2, <3>1 DEF OwedBy
    <3> QED
      BY <1>2, <3>2
  <2>3. CASE /\ work'[c].at = "push" /\ work'[c].page = work[c].page \ {m}
             /\ work'[c].todo = work[c].devs /\ work'[c].devs = work[c].devs
             /\ work[c].todo = {d}
    <3> HIDE DEF m
    <3>1. OwedBy(work'[c], e) = {n \in work[c].page \ {m} : e \in work[c].devs}
      BY <2>3 DEF OwedBy
    <3> QED
      BY <1>2, <2>3, <3>1
  <2> QED
    BY <1>1, <2>1, <2>2, <2>3
<1>4. m \in OwedBy(work[c], d) /\ \A n \in OwedBy(work[c], d) : m <= n
  BY <1>1 DEF OwedBy
<1> QED
  BY <1>3, <1>4

LEMMA PushPromise ==
    ASSUME PromiseInv, PromiseInv', NEW c \in Consumers, StepOf(c), NEW d \in Devices,
           Push(c, d) \/ PushRejected(c, d)
    PROVE  Promise!Next
<1> DEFINE m == NextMessage(work[c])
<1>0. c \in Processes /\ TypeInv /\ TypeInv' /\ Only(c)
  BY Bounds, ProcessIs DEF PromiseInv
<1>1. /\ work[c].at = "push" /\ UNCHANGED <<row, overrun, again, swallowed>>
      /\ Live' = Live /\ base' = base
  BY <1>0, Grows DEF Push, PushRejected, Calm, queueVars, NoUpdate
<1>2. /\ m \in work[c].page /\ work[c].page \subseteq Messages
      /\ m \in OwedBy(work[c], d) /\ \A n \in OwedBy(work[c], d) : m <= n
      /\ \A e \in Devices : OwedBy(work'[c], e) = OwedBy(work[c], e) \ {n \in {m} : e = d}
  BY <1>0, PushIs, PushOwes, CopyType DEF TypeInv
<1>3. work'[c].at \notin {"warm", "devices"}
  BY <1>0, PushIs, IdleIs
<1>4. Taken' = Taken
  BY <1>0, <1>1, <1>3, HandIs DEF TakenBy
<1>5. Account \notin overrun => \A e \in Devices : OwedByOthers(c, e) = {}
  BY <1>0, <1>1, AloneIs
<1>6. \A e \in Devices : /\ Owed[e] = OwedBy(work[c], e) \cup OwedByOthers(c, e)
                         /\ Owed'[e] = OwedBy(work'[c], e) \cup OwedByOthers(c, e)
  BY <1>0, HandIs
<1> HIDE DEF m
<1>7. Promise!Discharge(d, m)
  <2>1. ASSUME NEW e \in Devices PROVE Promise!Less(Owed[e], {n \in {m} : e = d}, Owed'[e])
    <3>1. OwedBy(work'[c], e) = OwedBy(work[c], e) \ {n \in {m} : e = d}
      BY <1>2
    <3> DEFINE S == {n \in {m} : e = d}
               A == OwedBy(work[c], e)
               B == OwedBy(work'[c], e)
    <3>2. B = A \ S
      BY <3>1
    <3>3. /\ Owed[e] = A \cup OwedByOthers(c, e) /\ Owed'[e] = B \cup OwedByOthers(c, e)
          /\ Account \notin overrun => OwedByOthers(c, e) = {}
      BY <1>5, <1>6
    <3> HIDE DEF S, A, B
    <3>4. Promise!Less(Owed[e], S, Owed'[e])
      BY <3>2, <3>3 DEF Promise!Less
    <3> QED
      BY <3>4 DEF S
  <2> QED
    BY <1>2, <1>5, <1>6, <2>1 DEF Promise!Discharge
<1>8. CASE Push(c, d)
  <2>1. /\ sent' = [sent EXCEPT ![d] = @ \cup {m}]
        /\ UNCHANGED <<assoc, skipped>>
    BY <1>8 DEF Push, m
  <2>2. Promise!Push(d, m)
    BY <1>1, <1>4, <1>7, <2>1 DEF Promise!Push
  <2> QED
    BY <1>2, <2>2 DEF Promise!Next, Promise!Messages, Messages
<1>9. CASE PushRejected(c, d)
  <2>1. /\ skipped' = skipped \cup {m} /\ sent' = sent
        /\ assoc' \in {assoc, assoc \ {d}}
    BY <1>9 DEF PushRejected, Skip, m
  <2>2. Promise!Reject(d, m)
    BY <1>1, <1>4, <1>7, <2>1 DEF Promise!Reject
  <2> QED
    BY <1>2, <2>2 DEF Promise!Next, Promise!Messages, Messages
<1> QED
  BY <1>8, <1>9

(* The overlap ends with the last job that is at work.                     *)
LEMMA OverlapIs ==
    ASSUME PromiseInv, PromiseInv', Next PROVE Promise!OverlapChanges
<1>1. ASSUME Account \in overrun, Account \notin overrun', NEW c \in Consumers
      PROVE  work'[c].at = "idle"
  <2>1. pc'[c] # "working"
    BY <1>1, OverrunStays DEF PromiseInv, TypeInv
  <2> QED
    BY <2>1 DEF PromiseInv, TypeInv, OwnType
<1>2. ASSUME Account \in overrun, Account \notin overrun'
      PROVE  Taken' = {} /\ \A d \in Devices : Owed'[d] = {}
  <2>1. Taken' = {}
    BY <1>1, <1>2 DEF Taken
  <2>2. ASSUME NEW d \in Devices PROVE Owed'[d] = {}
    <3>1. Owed'[d] = UNION {OwedBy(work'[e], d) : e \in Consumers}
      BY DEF Owed, OwedBy, NextMessage, MinOf
    <3>2. \A e \in Consumers : OwedBy(work'[e], d) = {}
      BY <1>1, <1>2, NoHand DEF Taking
    <3> QED
      BY <3>1, <3>2
  <2> QED
    BY <2>1, <2>2
<1> QED
  BY <1>2 DEF Promise!OverlapChanges

LEMMA JobPromise ==
    ASSUME PromiseInv, PromiseInv', Next, NEW c \in Consumers, StepOf(c),
           StartJob(c) \/ FinishJob(c) \/ Crash(c)
    PROVE  Promise!Next
<1> DEFINE S == IF work[c].at \in Taking THEN work[c].page ELSE {}
<1>0. c \in Processes /\ TypeInv /\ TypeInv' /\ Only(c) /\ work[c].page \subseteq Messages
      /\ Live' = Live /\ base' = base
  BY Bounds, ProcessIs, Grows, CopyType DEF PromiseInv, TypeInv
<1>1. /\ UNCHANGED <<row, assoc, sent, again, swallowed>>
      /\ skipped' = skipped \cup S
  <2>1. CASE StartJob(c) \/ FinishJob(c)
    <3>1. work[c].at \notin Taking
      <4>1. FinishJob(c) => work[c].at = "done"
        BY DEF FinishJob
      <4>2. StartJob(c) => work[c].at = "idle"
        BY <1>0, JobQuiet DEF TypeInv, OwnType
      <4> QED
        BY <2>1, <4>1, <4>2 DEF Taking
    <3> QED
      BY <2>1, <3>1 DEF StartJob, FinishJob, NoUpdate, history
  <2>2. CASE Crash(c)
    BY <2>2 DEF Crash, Skip, Taking
  <2> QED
    BY <2>1, <2>2
<1>2. /\ TakenBy(work'[c]) = {} /\ \A d \in Devices : OwedBy(work'[c], d) = {}
  BY <1>0, StartsType, NoHand DEF Taking
<1>3. /\ TakenBy(work[c]) \subseteq S /\ \A d \in Devices : OwedBy(work[c], d) \subseteq S
  BY DEF TakenBy, OwedBy, Taking
<1> HIDE DEF S
<1>4. ASSUME Account \notin overrun, S # {}
      PROVE  TakenByOthers(c) = {} /\ \A d \in Devices : OwedByOthers(c, d) = {}
  <2>1. work[c].at # "idle"
    BY <1>4 DEF S, Taking
  <2> QED
    BY <1>0, <1>4, <2>1, AloneIs
<1>5. Promise!Less(Taken, S, Taken')
  <2>1. Taken = TakenBy(work[c]) \cup TakenByOthers(c) /\ Taken' = TakenByOthers(c)
    BY <1>0, <1>2, HandIs
  <2>2. CASE S # {}
    BY <1>3, <1>4, <2>1, <2>2 DEF Promise!Less
  <2>3. CASE S = {}
    <3>1. Taken' = Taken
      BY <1>0, <1>2, <1>3, <2>3, HandIs
    <3> QED
      BY <2>3, <3>1 DEF Promise!Less
  <2> QED
    BY <2>2, <2>3
<1>6. ASSUME NEW d \in Devices PROVE Promise!Less(Owed[d], S, Owed'[d])
  <2>1. /\ Owed[d] = OwedBy(work[c], d) \cup OwedByOthers(c, d)
        /\ Owed'[d] = OwedByOthers(c, d)
    BY <1>0, <1>2, HandIs
  <2>2. CASE S # {}
    BY <1>3, <1>4, <2>1, <2>2 DEF Promise!Less
  <2>3. CASE S = {}
    <3>1. Owed'[d] = Owed[d]
      BY <1>3, <2>1, <2>3
    <3> QED
      BY <2>3, <3>1 DEF Promise!Less
  <2> QED
    BY <2>2, <2>3
<1>7. Promise!Abandon(S)
  BY <1>0, <1>1, <1>5, <1>6, OverlapIs DEF Promise!Abandon
<1>8. S \in SUBSET (1..MaxMessages)
  BY <1>0 DEF S, Messages
<1> QED
  BY <1>7, <1>8 DEF Promise!Next, Promise!Messages

LEMMA ConsumerPromise ==
    ASSUME PromiseInv, PromiseInv', Next, NEW c \in Consumers, StepOf(c)
    PROVE  Promise!Next
<1>1. TypeInv /\ (ConsumerStep(c) \/ ConsumerFault(c))
  BY Bounds DEF StepOf, PromiseInv
<1>2. ASSUME Ends(c) PROVE Promise!Next
  BY <1>2, EmptyHanded, GivesUp DEF Ends
<1> QED
  BY <1>1, <1>2, ConsumerCases, JobPromise, EmptyHanded, AdvancePromise, Addresses,
     PushPromise

(* The inbox, and the queue.                                               *)
LEMMA WorldPromise ==
    ASSUME PromiseInv, PromiseInv', Next, QueueStep \/ Arrive \/ Remove
    PROVE  Promise!Next
<1>1. UNCHANGED <<base, row, assoc, work, sent, skipped, swallowed, again>>
  BY QueueStepIs, WorldIs DEF PromiseInv
<1>2. Taken' = Taken /\ Owed' = Owed
  BY <1>1 DEF Taken, Owed, OwedBy, NextMessage, MinOf
<1>3. CASE QueueStep
  <2>1. Live' = Live
    BY <1>3, QueueStepIs DEF PromiseInv, Live
  <2>2. Promise!Overlap
    BY <1>1, <1>2, <2>1, OverlapIs DEF Promise!Overlap
  <2> QED
    BY <2>2 DEF Promise!Next
<1>4. CASE Arrive
  <2>1. PICK m \in Messages : /\ inbox[m] = "none" /\ \A n \in 1..(m - 1) : inbox[n] # "none"
                              /\ inbox' = [inbox EXCEPT ![m] = "live"]
    BY <1>4 DEF Arrive
  <2>2. Live' = Live \cup {m} /\ overrun' = overrun /\ m \notin Known
    BY <1>4, <2>1 DEF Live, Known, Arrive, Environment, queueVars, PromiseInv, TypeInv, OwnType
  <2>3. ASSUME NEW n \in Known PROVE n < m
    <3>1. n \in Nat /\ m \in Nat /\ n \in Messages
      BY MessageIs DEF Known
    <3>2. ~(m < n) /\ n # m
      BY <2>2 DEF PromiseInv, Arrived
    <3> QED
      BY <3>1, <3>2
  <2>4. m > row.cursor /\ \A n \in Live : n < m
    <3>1. row.cursor \in Known \cup {0} /\ Live \subseteq Known /\ m \in Nat /\ 1 <= m
      BY MessageIs DEF PromiseInv, Arrived, Live, Known
    <3>2. row.cursor \in Nat
      BY <3>1, MessageIs, Bounds DEF PromiseInv, TypeInv, OwnType, Rows
    <3> QED
      BY <2>3, <3>1, <3>2
  <2>5. Promise!Arrive(m)
    BY <1>1, <1>2, <2>2, <2>4 DEF Promise!Arrive
  <2> QED
    BY <2>5 DEF Promise!Next, Promise!Messages, Messages
<1>5. CASE Remove
  <2>1. PICK m \in Listing, how \in {"deleted", "gone"} : inbox' = [inbox EXCEPT ![m] = how]
    BY <1>5 DEF Remove
  <2>2. m \in Messages /\ overrun' = overrun
    BY <1>5 DEF Listing, Remove, Environment, queueVars
  <2>3. Live' = Live \ {m}
    BY <2>1, <2>2 DEF Live, PromiseInv, TypeInv, OwnType
  <2>4. Promise!Remove(m)
    BY <1>1, <1>2, <2>2, <2>3 DEF Promise!Remove
  <2> QED
    BY <2>2, <2>4 DEF Promise!Next, Promise!Messages, Messages
<1> QED
  BY <1>3, <1>4, <1>5

LEMMA InitPromise == Init => Promise!Init
<1> SUFFICES ASSUME Init PROVE Promise!Init
  OBVIOUS
<1>1. \A c \in Consumers : work[c] = Idle
  BY Bounds DEF Init
<1>2. Taken = {}
  BY <1>1, IdleIs DEF Taken
<1>3. Owed = [d \in Devices |-> {}]
  <2>1. \A c \in Consumers : \A d \in Devices : OwedBy(work[c], d) = {}
    BY <1>1, IdleIs, NoHand DEF Taking
  <2>2. \A d \in Devices : UNION {OwedBy(work[c], d) : c \in Consumers} = {}
    BY <2>1
  <2> QED
    BY <2>2 DEF Owed
<1>4. base \in 0..MaxMessages /\ Live = 1..base /\ row.cursor = base
  <2>1. base \in 0..1 /\ base <= MaxMessages /\ MaxMessages \in Nat
    BY Bounds DEF Init
  <2>2. inbox = [m \in Messages |-> IF m <= base THEN "live" ELSE "none"]
        /\ row = [cursor |-> base, count |-> 0, deleted |-> FALSE]
    BY DEF Init
  <2>3. Live = {m \in 1..MaxMessages : m <= base}
    BY <2>2 DEF Live, Messages
  <2> QED
    BY <2>1, <2>2, <2>3
<1>5. Account \notin overrun
  BY DEF Init, Queue!Init
<1> QED
  BY <1>2, <1>3, <1>4, <1>5 DEF Init, Promise!Init, Promise!Nothing

(* Polling keeps the promise of Delivery, whoever else writes the row and  *)
(* whatever fails: what a job takes off the inbox is owed to every device  *)
(* the account then has, and each gets it in its turn, once, or it is      *)
(* given up for that device; the cursor leaves nothing behind.             *)
THEOREM DeliveryCorrect == Spec => ImplementsDelivery
<1>1. PromiseInv /\ [Next]_vars => PromiseInv'
  <2>1. ASSUME Spared, Owing, UNCHANGED vars PROVE Spared' /\ Owing'
    BY <2>1 DEF Spared, Spares, Owing, vars, history
  <2> QED
    BY <2>1, NextTypeInv, StillTypeInv, NextArrived, NextSpared, NextTold, StillTold,
       NextOrder, StillOrder, NextOwing DEF PromiseInv
<1>2. Init => PromiseInv
  BY InitTypeInv, InitArrived, InitSpared, InitTold, InitOrder, IdleIs, Bounds
  DEF PromiseInv, Owing, Init
<1>3. PromiseInv /\ PromiseInv' /\ [Next]_vars => [Promise!Next]_(Promise!vars)
  <2>1. ASSUME UNCHANGED vars PROVE UNCHANGED Promise!vars
    BY <2>1 DEF vars, history, queueVars, Promise!vars, Live, Taken, Owed, OwedBy,
                NextMessage, MinOf
  <2>2. ASSUME PromiseInv, PromiseInv', Next PROVE Promise!Next
    BY <2>2, NextIs, WorldPromise, ConsumerPromise, OthersPromise
  <2> QED
    BY <2>1, <2>2
<1> QED
  BY <1>1, <1>2, <1>3, InitPromise, PTL DEF Spec, ImplementsDelivery, Promise!Spec
-----------------------------------------------------------------------------
(* What Delivery promises in the end, from its own actions alone.          *)
LEMMA DeliveryType ==
    ASSUME Promise!TypeOK, [Promise!Next]_(Promise!vars) PROVE Promise!TypeOK'
<1>0. Messages = Promise!Messages
  BY DEF Messages, Promise!Messages
<1>1. ASSUME NEW m \in Messages, Promise!Arrive(m) \/ Promise!Remove(m) PROVE Promise!TypeOK'
  BY <1>0, <1>1 DEF Promise!TypeOK, Promise!Arrive, Promise!Remove
<1>2. ASSUME NEW d \in Devices, Promise!Associate(d) PROVE Promise!TypeOK'
  BY <1>0, <1>2 DEF Promise!TypeOK, Promise!Associate
<1>3. ASSUME NEW S \in SUBSET Messages, Promise!Take(S) PROVE Promise!TypeOK'
  BY <1>0, <1>3 DEF Promise!TypeOK, Promise!Take, Promise!CursorMoves
<1>4. ASSUME NEW S \in SUBSET Messages, Promise!GiveUp(S) PROVE Promise!TypeOK'
  BY <1>0, <1>4 DEF Promise!TypeOK, Promise!GiveUp, Promise!CursorMoves, Promise!Less
<1>5. ASSUME NEW S \in SUBSET Messages, Promise!Address(S) PROVE Promise!TypeOK'
  <2>1. \A d \in Devices : Owed'[d] = IF d \in assoc THEN Owed[d] \cup S ELSE Owed[d]
    BY <1>5 DEF Promise!Address
  <2> QED
    BY <1>0, <1>5, <2>1 DEF Promise!TypeOK, Promise!Address, Promise!Less
<1>6. ASSUME NEW S \in SUBSET Messages, Promise!Abandon(S) PROVE Promise!TypeOK'
  BY <1>0, <1>6 DEF Promise!TypeOK, Promise!Abandon, Promise!Less
<1>7. ASSUME NEW d \in Devices, NEW m \in Messages, Promise!Push(d, m) \/ Promise!Reject(d, m)
      PROVE  Promise!TypeOK'
  <2>1. \A e \in Devices : Owed'[e] \subseteq Owed[e]
    BY <1>7 DEF Promise!Push, Promise!Reject, Promise!Discharge, Promise!Less
  <2>2. sent' \in [Devices -> SUBSET Messages] /\ assoc' \subseteq Devices
    BY <1>0, <1>7 DEF Promise!TypeOK, Promise!Push, Promise!Reject
  <2>3. Live' = Live /\ base' = base /\ row'.cursor = row.cursor /\ Taken' = Taken
    BY <1>7 DEF Promise!Push, Promise!Reject
  <2> QED
    BY <1>0, <2>1, <2>2, <2>3 DEF Promise!TypeOK
<1>8. CASE Promise!Overlap
  BY <1>0, <1>8 DEF Promise!TypeOK, Promise!Overlap
<1>9. CASE UNCHANGED Promise!vars
  BY <1>0, <1>9 DEF Promise!TypeOK, Promise!vars
<1> QED
  BY <1>0, <1>1, <1>2, <1>3, <1>4, <1>5, <1>6, <1>7, <1>8, <1>9 DEF Promise!Next

LEMMA NoneIsLeft ==
    ASSUME Promise!TypeOK, Promise!NoneLeftBehind, [Promise!Next]_(Promise!vars)
    PROVE  Promise!NoneLeftBehind'
<1>0. Messages = Promise!Messages /\ Messages \subseteq Nat /\ MaxMessages \in Nat
  BY Bounds DEF Messages, Promise!Messages
<1>1. ASSUME \A m \in Live' : base' < m /\ m <= row'.cursor =>
                m \in Live /\ base < m /\ m <= row.cursor,
             \A m : Promise!Settled(m) => Promise!Settled(m)'
      PROVE  Promise!NoneLeftBehind'
  BY <1>1 DEF Promise!NoneLeftBehind
<1>2. ASSUME NEW m \in Messages, Promise!Arrive(m) \/ Promise!Remove(m)
      PROVE  Promise!NoneLeftBehind'
  <2>1. /\ UNCHANGED <<base, row.cursor, Taken, Owed, sent, skipped \cup swallowed>>
        /\ \A n \in Live' : n \in Live \/ n > row.cursor
    BY <1>2 DEF Promise!Arrive, Promise!Remove
  <2>2. \A n \in Live' : n \in Messages
    BY <1>0, <1>2 DEF Promise!TypeOK, Promise!Arrive, Promise!Remove
  <2>3. \A n \in Live' : n <= row.cursor => n \in Live
    <3>1. row.cursor \in 0..MaxMessages
      BY DEF Promise!TypeOK
    <3>2. \A n \in Live' : n \in Nat
      BY <1>0, <2>2
    <3> QED
      BY <1>0, <2>1, <3>1, <3>2
  <2> QED
    BY <1>1, <2>1, <2>3 DEF Promise!Settled
<1>3. ASSUME NEW d \in Devices, Promise!Associate(d) PROVE Promise!NoneLeftBehind'
  BY <1>1, <1>3 DEF Promise!Associate, Promise!Settled
<1>4. ASSUME Promise!CursorMoves, UNCHANGED <<Live, base>>,
             \A m : Promise!Settled(m) => Promise!Settled(m)'
      PROVE  Promise!NoneLeftBehind'
  <2> SUFFICES ASSUME NEW m \in Live, base < m, m <= row'.cursor PROVE Promise!Settled(m)'
    BY <1>4 DEF Promise!NoneLeftBehind
  <2>1. m \in Nat /\ row.cursor \in Nat
    BY <1>0 DEF Promise!TypeOK
  <2>2. CASE row.cursor < m
    BY <1>4, <2>2 DEF Promise!CursorMoves
  <2>3. CASE m <= row.cursor
    BY <1>4, <2>3 DEF Promise!NoneLeftBehind
  <2> QED
    BY <2>1, <2>2, <2>3
<1>5. ASSUME NEW S \in SUBSET Messages, Promise!Take(S) \/ Promise!GiveUp(S)
      PROVE  Promise!NoneLeftBehind'
  <2>1. Promise!CursorMoves /\ UNCHANGED <<Live, base, Owed, sent>>
    BY <1>5 DEF Promise!Take, Promise!GiveUp
  <2>2. Taken \cup (skipped \cup swallowed) \subseteq Taken' \cup (skipped' \cup swallowed')
    BY <1>5 DEF Promise!Take, Promise!GiveUp, Promise!CursorMoves, Promise!Less
  <2> QED
    BY <1>4, <2>1, <2>2 DEF Promise!Settled
<1>6. ASSUME NEW S \in SUBSET Messages, Promise!Address(S) PROVE Promise!NoneLeftBehind'
  <2>1. PICK d \in Devices : d \in assoc
    BY <1>6 DEF Promise!Address, Promise!TypeOK
  <2>2. /\ Taken \ S \subseteq Taken' /\ S \subseteq Owed'[d]
        /\ \A e \in Devices : Owed[e] \subseteq Owed'[e]
    BY <1>6, <2>1 DEF Promise!Address, Promise!Less
  <2>3. UNCHANGED <<Live, base, row.cursor, sent, skipped \cup swallowed>>
    BY <1>6 DEF Promise!Address
  <2> QED
    BY <1>1, <2>2, <2>3 DEF Promise!Settled
<1>7. ASSUME NEW S \in SUBSET Messages, Promise!Abandon(S) PROVE Promise!NoneLeftBehind'
  <2>1. /\ Taken \ S \subseteq Taken' /\ S \subseteq skipped' \cup swallowed'
        /\ \A e \in Devices : Owed[e] \ S \subseteq Owed'[e]
        /\ skipped \cup swallowed \subseteq skipped' \cup swallowed'
    BY <1>7 DEF Promise!Abandon, Promise!Less
  <2>2. UNCHANGED <<Live, base, row.cursor, sent>>
    BY <1>7 DEF Promise!Abandon
  <2> QED
    BY <1>1, <2>1, <2>2 DEF Promise!Settled
<1>8. ASSUME NEW d \in Devices, NEW m \in Messages, Promise!Push(d, m) \/ Promise!Reject(d, m)
      PROVE  Promise!NoneLeftBehind'
  <2>1. \A e \in Devices : Owed[e] \ {n \in {m} : e = d} \subseteq Owed'[e]
    BY <1>8 DEF Promise!Push, Promise!Reject, Promise!Discharge, Promise!Less
  <2>2. /\ UNCHANGED <<Live, base, row.cursor, Taken>>
        /\ skipped \cup swallowed \subseteq skipped' \cup swallowed'
        /\ \A e \in Devices : sent[e] \subseteq sent'[e]
        /\ m \in skipped' \cup swallowed' \/ m \in sent'[d]
    BY <1>8 DEF Promise!Push, Promise!Reject, Promise!TypeOK
  <2> QED
    BY <1>1, <2>1, <2>2 DEF Promise!Settled
<1>9. CASE Promise!Overlap \/ UNCHANGED Promise!vars
  BY <1>1, <1>9 DEF Promise!Overlap, Promise!vars, Promise!Settled
<1> QED
  BY <1>0, <1>2, <1>3, <1>5, <1>6, <1>7, <1>8, <1>9 DEF Promise!Next

LEMMA KeepsOrdered ==
    ASSUME Promise!TypeOK, Promise!Ordered, [Promise!Next]_(Promise!vars)
    PROVE  Promise!Ordered'
<1>0. Messages = Promise!Messages /\ Messages \subseteq Nat
  BY Bounds DEF Messages, Promise!Messages
<1> SUFFICES ASSUME Account \notin overrun', NEW d \in Devices
             PROVE  /\ \A m \in Taken' \ again' : \A n \in Owed'[d] \cup sent'[d] : n < m
                    /\ \A m \in Owed'[d] \ again' : \A n \in sent'[d] : n < m
  BY DEF Promise!Ordered
<1> DEFINE Goal == /\ \A m \in Taken' \ again' : \A n \in Owed'[d] \cup sent'[d] : n < m
                   /\ \A m \in Owed'[d] \ again' : \A n \in sent'[d] : n < m
<1>1. Account \notin overrun =>
        /\ \A m \in Taken \ again : \A n \in Owed[d] \cup sent[d] : n < m
        /\ \A m \in Owed[d] \ again : \A n \in sent[d] : n < m
  BY DEF Promise!Ordered
<1>2. ASSUME Account \notin overrun, Taken' \subseteq Taken, Owed'[d] \subseteq Owed[d],
             sent' = sent, again \subseteq again'
      PROVE  Goal
  BY <1>1, <1>2
<1>3. ASSUME NEW m \in Messages, Promise!Arrive(m) \/ Promise!Remove(m) PROVE Goal
  BY <1>2, <1>3 DEF Promise!Arrive, Promise!Remove
<1>4. ASSUME NEW e \in Devices, Promise!Associate(e) PROVE Goal
  BY <1>2, <1>4 DEF Promise!Associate
<1>5. ASSUME NEW S \in SUBSET Messages, Promise!Take(S) PROVE Goal
  <2>1. /\ Taken' = Taken \cup S /\ Owed' = Owed /\ sent' = sent /\ again \subseteq again'
        /\ Account \notin overrun
    BY <1>5 DEF Promise!Take, Promise!CursorMoves
  <2>2. \A m \in S \ again : \A n \in Owed[d] \cup sent[d] : n < m
    BY <1>5, <2>1 DEF Promise!Take, Promise!Due, Promise!Newer
  <2> QED
    BY <1>1, <2>1, <2>2
<1>6. ASSUME NEW S \in SUBSET Messages, Promise!GiveUp(S) PROVE Goal
  BY <1>2, <1>6 DEF Promise!GiveUp, Promise!CursorMoves, Promise!Less
<1>7. ASSUME NEW S \in SUBSET Messages, Promise!Address(S) PROVE Goal
  <2>1. /\ Account \notin overrun /\ S = Taken /\ Taken' = {}
        /\ Owed'[d] \subseteq Owed[d] \cup Taken /\ sent' = sent /\ again' = again
    BY <1>7 DEF Promise!Address, Promise!Less
  <2> QED
    BY <1>1, <2>1
<1>8. ASSUME NEW S \in SUBSET Messages, Promise!Abandon(S) PROVE Goal
  <2>1. CASE Account \in overrun
    BY <1>8, <2>1 DEF Promise!Abandon, Promise!OverlapChanges
  <2>2. CASE Account \notin overrun
    BY <1>2, <1>8, <2>2 DEF Promise!Abandon, Promise!Less
  <2> QED
    BY <2>1, <2>2
<1>9. ASSUME NEW e \in Devices, NEW m \in Messages, Promise!Reject(e, m) PROVE Goal
  BY <1>2, <1>9 DEF Promise!Reject, Promise!Discharge, Promise!Less
<1>10. ASSUME NEW e \in Devices, NEW m \in Messages, Promise!Push(e, m) PROVE Goal
  <2>1. /\ Account \notin overrun /\ Taken' = Taken /\ again' = again
        /\ m \in Owed[e] /\ \A n \in Owed[e] : m <= n
        /\ Owed'[d] = Owed[d] \ {n \in {m} : d = e}
    BY <1>10 DEF Promise!Push, Promise!Discharge, Promise!Less
  <2>2. sent'[d] = IF d = e THEN sent[d] \cup {m} ELSE sent[d]
    BY <1>10 DEF Promise!Push, Promise!TypeOK
  <2>3. CASE d # e
    BY <1>1, <2>1, <2>2, <2>3
  <2>4. CASE d = e
    <3>1. \A n \in Owed'[d] : m < n
      <4>1. m \in Nat /\ \A n \in Owed[d] : n \in Nat
        BY <1>0 DEF Promise!TypeOK
      <4>2. Owed'[d] = Owed[d] \ {m} /\ \A n \in Owed[d] : m <= n
        BY <2>1, <2>4
      <4> QED
        BY <4>1, <4>2
    <3> QED
      BY <1>1, <2>1, <2>2, <2>4, <3>1
  <2> QED
    BY <2>3, <2>4
<1>11. CASE Promise!Overlap
  BY <1>2, <1>11 DEF Promise!Overlap, Promise!OverlapChanges
<1>12. CASE UNCHANGED Promise!vars
  BY <1>2, <1>12 DEF Promise!vars
<1> QED
  BY <1>0, <1>3, <1>4, <1>5, <1>6, <1>7, <1>8, <1>9, <1>10, <1>11, <1>12 DEF Promise!Next

LEMMA DeliveryStarts ==
    ASSUME Promise!Init PROVE Promise!TypeOK /\ Promise!NoneLeftBehind /\ Promise!Ordered
<1>1. /\ \A d \in Devices : Owed[d] = {} /\ sent[d] = {}
      /\ sent \in [Devices -> SUBSET Promise!Messages]
      /\ base \in 0..MaxMessages /\ row.cursor = base /\ assoc = Devices /\ Taken = {}
      /\ Live = 1..base
  BY DEF Promise!Init, Promise!Nothing
<1>2. Live \subseteq Promise!Messages /\ \A m \in Live : ~(base < m /\ m <= row.cursor)
  BY <1>1, Bounds DEF Promise!Messages
<1> QED
  BY <1>1, <1>2 DEF Promise!TypeOK, Promise!NoneLeftBehind, Promise!Ordered

(* What Delivery promises is worth this: whatever the cursor has passed    *)
(* was sent, was given up, or is in hand; and without overlap or a bad     *)
(* write each device gets what it gets once, the older messages first.     *)
THEOREM DeliveryWorth ==
    Promise!Spec => []Promise!NoneLeftBehind /\ Promise!EachInTurn
<1> DEFINE I == Promise!TypeOK /\ Promise!NoneLeftBehind /\ Promise!Ordered
           Turn == \A d \in Devices, m \in Promise!Messages :
                     Promise!Push(d, m) /\ m \notin again /\ ~(Account \in overrun)
                     => \A n \in sent[d] : n < m
<1>1. Promise!Init => I
  BY DeliveryStarts
<1>2. I /\ [Promise!Next]_(Promise!vars) => I'
  BY DeliveryType, NoneIsLeft, KeepsOrdered
<1>3. I => Promise!NoneLeftBehind /\ Turn
  BY DEF Promise!Ordered, Promise!Push, Promise!Discharge
<1> HIDE DEF I
<1> QED
  BY <1>1, <1>2, <1>3, PTL DEF Promise!Spec, Promise!EachInTurn

(* So none is left behind and each comes in turn in the polling itself.    *)
THEOREM DeliveryKept == Spec => []Promise!NoneLeftBehind /\ Promise!EachInTurn
BY DeliveryCorrect, DeliveryWorth DEF ImplementsDelivery
=============================================================================
