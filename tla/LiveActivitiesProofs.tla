------------------------ MODULE LiveActivitiesProofs ------------------------
(***************************************************************************)
(* Proofs about LiveActivities, for any sets of tokens, chunks and         *)
(* consumers, any number of faults and registrations and any durations.    *)
(* The queue's theorems are not proved again: every step is one of the     *)
(* queue or leaves it alone, and so they are carried over.                 *)
(***************************************************************************)
EXTENDS LiveActivities, TLAPS

Lock == INSTANCE LockedJobsProofs WITH Ids <- Tokens

-----------------------------------------------------------------------------
(* The queue.  Queue and Lock are one module, instantiated twice.          *)

LEMMA SameType ==
    /\ Queue!TypeOK <=> Lock!TypeOK
    /\ Queue!TypeOK' <=> Lock!TypeOK'
BY DEF Queue!TypeOK, Lock!TypeOK

LEMMA SameInit == Queue!Init <=> Lock!Init
BY DEF Queue!Init, Lock!Init

LEMMA SameLease ==
    /\ Queue!OneJobPerLease <=> Lock!OneJobPerLease
    /\ Queue!OneJobPerLease' <=> Lock!OneJobPerLease'
BY DEF Queue!OneJobPerLease, Queue!LeaseOf, Queue!Relying, Queue!Holds, Queue!Holding,
       Lock!OneJobPerLease, Lock!LeaseOf, Lock!Relying, Lock!Holds, Lock!Holding

LEMMA SameExclusion == Queue!ExclusiveWork <=> Lock!ExclusiveWork
BY DEF Queue!ExclusiveWork, Lock!ExclusiveWork

LEMMA SameNext == Queue!Next <=> Lock!Next
BY DEF Queue!Next, Queue!SchedulerNext, Queue!RedisNext, Queue!ConsumerNext,
       Queue!Claim, Queue!Publish, Queue!PublishFails, Queue!RestartScheduler,
       Queue!CleanOrphan, Queue!Expire, Queue!RestartRedis, Queue!Deliver,
       Queue!StartJob, Queue!SkipJob, Queue!FinishJob, Queue!FinishDelFails,
       Queue!Ack, Queue!Crash, Queue!CleanLive, Queue!Acquire, Queue!Drop,
       Queue!Fault, Queue!sched, Queue!queue, Queue!History, Queue!Outstanding,
       Queue!Relying, Queue!Holds, Queue!Holding,
       Lock!Next, Lock!SchedulerNext, Lock!RedisNext, Lock!ConsumerNext,
       Lock!Claim, Lock!Publish, Lock!PublishFails, Lock!RestartScheduler,
       Lock!CleanOrphan, Lock!Expire, Lock!RestartRedis, Lock!Deliver,
       Lock!StartJob, Lock!SkipJob, Lock!FinishJob, Lock!FinishDelFails,
       Lock!Ack, Lock!Crash, Lock!CleanLive, Lock!Acquire, Lock!Drop,
       Lock!Fault, Lock!sched, Lock!queue, Lock!History, Lock!Outstanding,
       Lock!Relying, Lock!Holds, Lock!Holding

(* Every step is a step of the queue, or leaves it alone; a failed call    *)
(* counts.                                                                 *)
QueueAlone == UNCHANGED queueVars /\ (Queue!Fault \/ UNCHANGED faults)

LEMMA ConsumerOfQueue ==
    ASSUME NEW c \in Consumers, ConsumerStep(c) \/ CallFails(c) \/ DeleteFails(c) \/ Crash(c)
    PROVE  Queue!Next \/ QueueAlone
<1>1. CASE StartJob(c) \/ FinishJob(c) \/ Crash(c)
  BY <1>1 DEF StartJob, FinishJob, Crash, Queue!Next, Queue!ConsumerNext
<1>2. CASE \/ Get(c) \/ GetAccount(c) \/ Poll(c) \/ Push(c) \/ PushFails(c) \/ Delete(c)
           \/ CallFails(c) \/ DeleteFails(c)
  BY <1>2 DEF Get, GetAccount, Poll, Push, PushFails, Delete, CallFails, DeleteFails,
              Calm, Failing, QueueAlone
<1> QED
  BY <1>1, <1>2 DEF ConsumerStep

LEMMA StepOfQueue == ASSUME TypeOK, Next PROVE Queue!Next \/ QueueAlone
<1>1. CASE \/ Tick \/ (\E t \in Tokens : Create(t)) \/ (\E g \in Chunks : Select(g))
           \/ Prune \/ TurnBarkOnly
  BY <1>1 DEF Tick, Create, Select, Prune, TurnBarkOnly, QueueAlone
<1>2. ASSUME NEW g \in Chunks, LockSelected(g) PROVE Queue!Next \/ QueueAlone
  <2>1. CASE Queue!Claim(g, selected[g])
    <3>1. selected[g] \in SUBSET Tokens
      BY DEF TypeOK
    <3> QED
      BY <2>1, <3>1 DEF Queue!Next, Queue!SchedulerNext
  <2>2. CASE UNCHANGED <<queueVars, faults>>
    BY <2>2 DEF QueueAlone
  <2> QED
    BY <1>2, <2>1, <2>2 DEF LockSelected
<1>3. CASE RestartScheduler
  BY <1>3 DEF RestartScheduler, Queue!Next, Queue!SchedulerNext
<1>4. CASE QueueStep
  BY <1>4 DEF QueueStep, Queue!Next, Queue!SchedulerNext, Queue!ConsumerNext
<1> QED
  BY <1>1, <1>2, <1>3, <1>4, ConsumerOfQueue DEF Next

LEMMA QueueType == ASSUME TypeOK, Next PROVE Queue!TypeOK'
<1>1. Queue!TypeOK
  BY DEF TypeOK
<1>2. CASE Queue!Next
  BY <1>1, <1>2, SameType, SameNext, Lock!NextTypeOK, QueueAssumption
<1>3. CASE QueueAlone
  <2>1. faults' \in 0..MaxFaults
    BY <1>1, <1>3, QueueAssumption DEF QueueAlone, Queue!Fault, Queue!TypeOK
  <2> QED
    BY <1>1, <1>3, <2>1 DEF QueueAlone, queueVars, Queue!TypeOK
<1> QED
  BY <1>2, <1>3, StepOfQueue

LEMMA QueueLease ==
    ASSUME TypeOK, Queue!TypeOK', Queue!OneJobPerLease, Next
    PROVE  Queue!OneJobPerLease'
<1>1. Queue!TypeOK
  BY DEF TypeOK
<1>2. CASE Queue!Next
  <2>1. Lock!TypeOK /\ Lock!TypeOK' /\ Lock!OneJobPerLease /\ Lock!Next
    BY <1>1, <1>2, SameType, SameNext, SameLease
  <2>2. Lock!OneJobPerLease'
    BY <2>1, Lock!NextLease, QueueAssumption
  <2> QED
    BY <2>2, SameLease
<1>3. CASE QueueAlone
  BY <1>3 DEF QueueAlone, queueVars, Queue!OneJobPerLease, Queue!LeaseOf,
              Queue!Relying, Queue!Holds
<1> QED
  BY <1>2, <1>3, StepOfQueue

-----------------------------------------------------------------------------
(* Type correctness.                                                       *)
Places == {"idle", "get", "account", "poll", "push", "done"} \cup Deleting

Works == [at : Places, clock : 0..MaxTime, reg : 0..MaxRegistrations,
          expires : 0..MaxTime]

(* A consumer that is at work holds a token.                               *)
LEMMA AtWork ==
    ASSUME TypeOK, NEW c \in Consumers, work[c].at # "idle"
    PROVE  pc[c] = "working" /\ job[c] \in Tokens
BY DEF TypeOK, Queue!TypeOK

(* What the queue's own steps leave of a consumer at work.                 *)
LEMMA QueueStepQuiet ==
    ASSUME TypeOK, QueueStep, NEW c \in Consumers
    PROVE  /\ pc'[c] = "working" <=> pc[c] = "working"
           /\ pc[c] = "working" => job'[c] = job[c]
<1>1. CASE \E g \in Chunks : Queue!Publish(g) \/ Queue!PublishFails(g)
  BY <1>1 DEF Queue!Publish, Queue!PublishFails, Queue!queue
<1>2. CASE \E t \in Tokens : Queue!CleanOrphan(t)
  BY <1>2 DEF Queue!CleanOrphan
<1>3. CASE Queue!RedisNext
  BY <1>3 DEF Queue!RedisNext, Queue!Expire, Queue!RestartRedis, Queue!queue
<1>4. ASSUME NEW d \in Consumers,
             \/ \E t \in Tokens : Queue!Deliver(d, t)
             \/ Queue!SkipJob(d) \/ Queue!Ack(d) \/ Queue!CleanLive(d)
      PROVE  /\ pc'[c] = "working" <=> pc[c] = "working"
             /\ pc[c] = "working" => job'[c] = job[c]
  <2>1. pc \in [Consumers -> {"idle", "delivered", "working", "skipping", "acking"}]
        /\ job \in [Consumers -> Tokens \cup {NoJob}]
    BY DEF TypeOK, Queue!TypeOK
  <2> QED
    BY <1>4, <2>1 DEF Queue!Deliver, Queue!SkipJob, Queue!Ack, Queue!Drop, Queue!CleanLive
<1> QED
  BY <1>1, <1>2, <1>3, <1>4 DEF QueueStep

(* What StartJob, FinishJob and Crash do to the consumers' places.         *)
LEMMA JobQuiet ==
    ASSUME TypeOK, NEW c \in Consumers, StartJob(c) \/ FinishJob(c) \/ Crash(c)
    PROVE  /\ StartJob(c) => pc[c] = "delivered" /\ pc'[c] = "working"
           /\ FinishJob(c) \/ Crash(c) => pc'[c] # "working"
           /\ \A d \in Consumers \ {c} : pc'[d] = pc[d] /\ job'[d] = job[d]
           /\ StartJob(c) => job'[c] = job[c]
<1>1. pc \in [Consumers -> {"idle", "delivered", "working", "skipping", "acking"}]
      /\ job \in [Consumers -> Tokens \cup {NoJob}]
  BY DEF TypeOK, Queue!TypeOK
<1> QED
  BY <1>1 DEF StartJob, FinishJob, Crash, Queue!StartJob, Queue!FinishJob,
              Queue!FinishDelFails, Queue!Crash, Queue!Drop

(* A consumer's step on its own.                                           *)
LEMMA GoesTo ==
    ASSUME TypeOK, NEW c \in Consumers, NEW p \in Places, Goes(c, p)
    PROVE  /\ work' \in [Consumers -> Works]
           /\ work'[c].at = p
           /\ p = "done" => /\ work'[c].reg = 0 /\ work'[c].clock = 0
                            /\ work'[c].expires = 0
           /\ p # "done" => /\ work'[c].reg = work[c].reg
                            /\ work'[c].clock = work[c].clock
                            /\ work'[c].expires = work[c].expires
           /\ \A d \in Consumers \ {c} : work'[d] = work[d]
BY ActivitiesAssumption DEF TypeOK, Goes, Becomes, Idle, Works, Places

LEMMA BecomesType ==
    ASSUME TypeOK, NEW c \in Consumers, NEW w \in Works, Becomes(c, w)
    PROVE  /\ work' \in [Consumers -> Works]
           /\ work'[c] = w
           /\ \A d \in Consumers \ {c} : work'[d] = work[d]
BY DEF TypeOK, Becomes, Works, Places

LEMMA IdleType == Idle \in Works
BY ActivitiesAssumption DEF Idle, Works, Places

(* TypeOK, without the queue's.                                            *)
OwnType ==
    /\ now \in 0..MaxTime
    /\ activity \in [Tokens -> {NoRow} \cup
                      [reg : Registrations, expires : 0..MaxTime]]
    /\ selected \in [Chunks -> SUBSET Tokens]
    /\ work \in [Consumers -> Works]
    /\ \A c \in Consumers : work[c].at = "idle" <=> pc[c] # "working"
    /\ apns \in BOOLEAN
    /\ regs \in 0..MaxRegistrations
    /\ ended \subseteq Registrations
    /\ undeleted \subseteq 0..MaxRegistrations

LEMMA Types ==
    /\ TypeOK <=> Queue!TypeOK /\ OwnType
    /\ TypeOK' <=> Queue!TypeOK' /\ OwnType'
BY DEF TypeOK, OwnType, Works, Places

(* A consumer at work goes on, and stays at work.                          *)
LEMMA GoesType ==
    ASSUME TypeOK, NEW c \in Consumers, NEW p \in Places \ {"idle"},
           work[c].at # "idle", Goes(c, p),
           UNCHANGED <<queueVars, now, selected, apns, regs>>,
           activity' \in [Tokens -> {NoRow} \cup
                            [reg : Registrations, expires : 0..MaxTime]],
           ended' \subseteq Registrations, undeleted' \subseteq 0..MaxRegistrations
    PROVE  OwnType'
<1>1. work' \in [Consumers -> Works] /\ work'[c].at = p
      /\ \A d \in Consumers \ {c} : work'[d] = work[d]
  BY GoesTo
<1>2. \A d \in Consumers : work'[d].at = "idle" <=> pc'[d] # "working"
  BY <1>1, Types DEF OwnType, queueVars
<1> QED
  BY <1>1, <1>2, Types DEF OwnType

(* A copy of a row is of a registration.                                   *)
HasRead(c) ==
    work[c].at \in {"account", "poll", "push", "rejected", "expired"} => work[c].reg # 0

LEMMA JobType ==
    ASSUME TypeOK, NEW c \in Consumers, HasRead(c),
           ConsumerStep(c) \/ CallFails(c) \/ DeleteFails(c) \/ Crash(c)
    PROVE  OwnType'
<1> USE DEF Calm, Failing
<1>0. OwnType
  BY Types
<1>1. CASE StartJob(c)
  <2>1. now \in 0..MaxTime
    BY <1>0 DEF OwnType
  <2>2. [Idle EXCEPT !.at = IF apns THEN "get" ELSE "drop", !.clock = now] \in Works
    BY <2>1, IdleType DEF Works, Places, Deleting
  <2> DEFINE w == [Idle EXCEPT !.at = IF apns THEN "get" ELSE "drop", !.clock = now]
  <2>5. w.at # "idle"
    BY DEF Idle
  <2>6. Becomes(c, w)
    BY <1>1 DEF StartJob
  <2> HIDE DEF w
  <2>3. /\ work' \in [Consumers -> Works]
        /\ work'[c].at # "idle"
        /\ \A d \in Consumers \ {c} : work'[d] = work[d]
    BY <2>2, <2>5, <2>6, BecomesType DEF w
  <2>4. \A d \in Consumers : work'[d].at = "idle" <=> pc'[d] # "working"
    BY <1>0, <1>1, <2>3, JobQuiet DEF OwnType
  <2> QED
    BY <1>0, <1>1, <2>3, <2>4 DEF StartJob, OwnType
<1>2. CASE Get(c)
  <2>1. work[c] \in Works /\ job[c] \in Tokens
    BY <1>0, <1>2, AtWork DEF Get, OwnType
  <2>2. activity[job[c]] \in {NoRow} \cup [reg : Registrations, expires : 0..MaxTime]
    BY <1>0, <2>1 DEF OwnType
  <2>3. PICK w \in Works : Becomes(c, w) /\ w.at # "idle"
    <3>1. CASE activity[job[c]] = NoRow
      <4>1. [Idle EXCEPT !.at = "done"] \in Works
        BY IdleType DEF Works, Places
      <4>2. [Idle EXCEPT !.at = "done"].at = "done"
        BY DEF Idle
      <4> QED
        BY <1>2, <3>1, <4>1, <4>2 DEF Get
    <3>2. CASE activity[job[c]] # NoRow
      <4> DEFINE row == activity[job[c]]
                 w == [work[c] EXCEPT !.at = "account", !.reg = row.reg, !.expires = row.expires]
      <4>0. row.reg \in 0..MaxRegistrations /\ row.expires \in 0..MaxTime
        BY <2>2, <3>2, ActivitiesAssumption DEF Registrations
      <4>1. w \in Works /\ w.at = "account"
        BY <2>1, <4>0 DEF Works, Places
      <4>2. Becomes(c, w)
        BY <1>2, <3>2 DEF Get
      <4> QED
        BY <4>1, <4>2
    <3> QED
      BY <3>1, <3>2
  <2>4. /\ work' \in [Consumers -> Works] /\ work'[c].at # "idle"
        /\ \A d \in Consumers \ {c} : work'[d] = work[d]
    BY <2>3, BecomesType
  <2>5. \A d \in Consumers : work'[d].at = "idle" <=> pc'[d] # "working"
    BY <1>0, <1>2, <2>4 DEF Get, OwnType, queueVars
  <2> QED
    BY <1>0, <1>2, <2>4, <2>5 DEF Get, OwnType
<1>3. CASE GetAccount(c)
  BY <1>0, <1>3, GoesType DEF GetAccount, OwnType, Places, Deleting
<1>4. CASE Poll(c)
  BY <1>0, <1>4, GoesType DEF Poll, OwnType, Places, Deleting
<1>5. CASE Push(c)
  <2>1. AfterPush(work[c]) \in Places \ {"idle"}
    BY DEF AfterPush, Places, Deleting
  <2>2. work[c].reg \in Registrations
    BY <1>0, <1>5, ActivitiesAssumption DEF Push, HasRead, OwnType, Works, Registrations
  <2>3. ended' \subseteq Registrations
    BY <1>0, <1>5, <2>2 DEF Push, OwnType
  <2>4. /\ work[c].at # "idle" /\ Goes(c, AfterPush(work[c]))
        /\ UNCHANGED <<queueVars, now, selected, apns, regs, activity, undeleted>>
    BY <1>5 DEF Push
  <2> QED
    BY <1>0, <2>1, <2>3, <2>4, GoesType DEF OwnType
<1>6. CASE PushFails(c)
  BY <1>0, <1>6, GoesType DEF PushFails, OwnType, Places, Deleting
<1>7. CASE Delete(c) \/ DeleteFails(c)
  <2>1. AfterDelete(work[c]) \in Places \ {"idle"}
    BY DEF AfterDelete, AfterPush, Places, Deleting
  <2>2. work[c].reg \in 0..MaxRegistrations
    BY <1>0 DEF OwnType, Works
  <2>3. work[c].at # "idle" /\ Goes(c, AfterDelete(work[c]))
    BY <1>7 DEF Delete, DeleteFails, Deleting
  <2>4. /\ activity' \in [Tokens -> {NoRow} \cup
                            [reg : Registrations, expires : 0..MaxTime]]
        /\ undeleted' \subseteq 0..MaxRegistrations
        /\ ended' \subseteq Registrations
        /\ UNCHANGED <<queueVars, now, selected, apns, regs>>
    BY <1>0, <1>7, <2>2 DEF Delete, DeleteFails, OwnType
  <2> QED
    BY <2>1, <2>3, <2>4, GoesType
<1>8. CASE CallFails(c)
  BY <1>0, <1>8, GoesType DEF CallFails, OwnType, Places, Deleting
<1>9. CASE FinishJob(c) \/ Crash(c)
  <2>1. /\ work' \in [Consumers -> Works] /\ work'[c] = Idle
        /\ \A d \in Consumers \ {c} : work'[d] = work[d]
    BY <1>9, BecomesType, IdleType DEF FinishJob, Crash
  <2>2. \A d \in Consumers : work'[d].at = "idle" <=> pc'[d] # "working"
    BY <1>0, <1>9, <2>1, JobQuiet DEF OwnType, Idle
  <2>3. work[c].reg \in 0..MaxRegistrations
    BY <1>0 DEF OwnType, Works
  <2> QED
    BY <1>0, <1>9, <2>1, <2>2, <2>3 DEF FinishJob, Crash, OwnType
<1> QED
  BY <1>1, <1>2, <1>3, <1>4, <1>5, <1>6, <1>7, <1>8, <1>9 DEF ConsumerStep

(* A step that leaves the consumers where they are.                        *)
LEMMA RestType ==
    ASSUME OwnType, now' \in 0..MaxTime, selected' \in [Chunks -> SUBSET Tokens],
           activity' \in [Tokens -> {NoRow} \cup
                            [reg : Registrations, expires : 0..MaxTime]],
           apns' \in BOOLEAN, UNCHANGED <<work, regs, ended, undeleted>>,
           \A c \in Consumers : pc'[c] = "working" <=> pc[c] = "working"
    PROVE  OwnType'
<1>1. \A c \in Consumers : work'[c].at = "idle" <=> pc'[c] # "working"
  BY DEF OwnType
<1> QED
  BY <1>1 DEF OwnType

LEMMA NextType ==
    ASSUME TypeOK, Next, \A c \in Consumers : HasRead(c) PROVE TypeOK'
<1> SUFFICES OwnType'
  BY QueueType, Types
<1> DEFINE Rows == {NoRow} \cup [reg : Registrations, expires : 0..MaxTime]
<1>0. OwnType
  BY Types
<1>a. /\ activity \in [Tokens -> Rows] /\ selected \in [Chunks -> SUBSET Tokens]
      /\ now \in 0..MaxTime /\ apns \in BOOLEAN
  BY <1>0 DEF OwnType
<1> DEFINE Calmly ==
      /\ UNCHANGED <<work, regs, ended, undeleted>>
      /\ \A c \in Consumers : pc'[c] = "working" <=> pc[c] = "working"
<1>b. ASSUME Calmly, now' \in 0..MaxTime, selected' \in [Chunks -> SUBSET Tokens],
             activity' \in [Tokens -> Rows], apns' \in BOOLEAN
      PROVE  OwnType'
  BY <1>0, <1>b, RestType
<1>1. ASSUME NEW t \in Tokens, Create(t) PROVE OwnType'
  <2>1. regs' \in Registrations /\ now + Duration \in 0..MaxTime
    BY <1>0, <1>1, ActivitiesAssumption DEF Create, OwnType, Registrations
  <2>2. activity' \in [Tokens -> Rows]
    BY <1>0, <1>1, <2>1 DEF Create, OwnType
  <2> QED
    BY <1>0, <1>1, <2>1, <2>2, ActivitiesAssumption
    DEF Create, OwnType, Registrations, queueVars
<1>2. CASE Tick
  <2>1. now' \in 0..MaxTime
    BY <1>a, <1>2, ActivitiesAssumption DEF Tick
  <2>2. Calmly /\ selected' = selected /\ activity' = activity /\ apns' = apns
    BY <1>2 DEF Tick, queueVars
  <2> QED
    BY <1>a, <1>b, <2>1, <2>2
<1>3. ASSUME NEW g \in Chunks, Select(g) PROVE OwnType'
  <2>1. selected' \in [Chunks -> SUBSET Tokens]
    BY <1>a, <1>3 DEF Select
  <2>2. Calmly /\ now' = now /\ activity' = activity /\ apns' = apns
    BY <1>3 DEF Select, queueVars
  <2> QED
    BY <1>a, <1>b, <2>1, <2>2
<1>4. CASE TurnBarkOnly
  <2>1. Calmly /\ now' = now /\ activity' = activity /\ selected' = selected
    BY <1>4 DEF TurnBarkOnly, queueVars
  <2>2. apns' \in BOOLEAN
    BY <1>4 DEF TurnBarkOnly
  <2> QED
    BY <1>a, <1>b, <2>1, <2>2
<1>5. CASE Prune
  <2>1. activity' \in [Tokens -> Rows]
    BY <1>a, <1>5 DEF Prune
  <2>2. Calmly /\ now' = now /\ selected' = selected /\ apns' = apns
    BY <1>5 DEF Prune, queueVars
  <2> QED
    BY <1>a, <1>b, <2>1, <2>2
<1>6. ASSUME NEW g \in Chunks, LockSelected(g) PROVE OwnType'
  <2>1. selected' \in [Chunks -> SUBSET Tokens]
    BY <1>a, <1>6 DEF LockSelected
  <2>2. Calmly /\ now' = now /\ activity' = activity /\ apns' = apns
    BY <1>6 DEF LockSelected, Queue!Claim, Queue!queue, queueVars
  <2> QED
    BY <1>a, <1>b, <2>1, <2>2
<1>7. CASE RestartScheduler
  <2>1. selected' \in [Chunks -> SUBSET Tokens]
    BY <1>7 DEF RestartScheduler
  <2>2. Calmly /\ now' = now /\ activity' = activity /\ apns' = apns
    BY <1>7 DEF RestartScheduler, Queue!RestartScheduler, Queue!queue
  <2> QED
    BY <1>a, <1>b, <2>1, <2>2
<1>8. CASE QueueStep
  <2>1. Calmly
    BY <1>8, QueueStepQuiet DEF QueueStep, Besides
  <2>2. now' = now /\ activity' = activity /\ selected' = selected /\ apns' = apns
    BY <1>8 DEF QueueStep, Besides
  <2> QED
    BY <1>a, <1>b, <2>1, <2>2
<1>9. ASSUME NEW c \in Consumers,
             ConsumerStep(c) \/ CallFails(c) \/ DeleteFails(c) \/ Crash(c)
      PROVE  OwnType'
  BY <1>9, JobType
<1> HIDE DEF Rows, Calmly
<1> QED
  BY <1>1, <1>2, <1>3, <1>4, <1>5, <1>6, <1>7, <1>8, <1>9 DEF Next

-----------------------------------------------------------------------------
(* What a job's copy of the row is worth: it names a registration of the   *)
(* job's own token, none later than the row there is; it has the expiry of *)
(* the row if it is of the same registration; and "expired" was decided by *)
(* a clock that is past.                                                   *)
InOrder(c) ==
    /\ HasRead(c)
    /\ work[c].at \in {"idle", "get", "done"} => work[c].reg = 0
    /\ work[c].clock <= now /\ work[c].reg <= regs
    /\ work[c].at = "expired" => Expired(work[c])
    /\ work[c].reg # 0 => \A t \in Tokens : HasRow(t) =>
         /\ activity[t].reg = work[c].reg
            => t = job[c] /\ activity[t].expires = work[c].expires
         /\ t = job[c] => work[c].reg <= activity[t].reg

RowsApart ==
    \A t \in Tokens : HasRow(t) =>
        /\ activity[t].reg <= regs
        /\ \A u \in Tokens : HasRow(u) /\ activity[u].reg = activity[t].reg => u = t

CopiesApart ==
    \A c, d \in Consumers :
        work[c].reg # 0 /\ work[c].reg = work[d].reg => job[c] = job[d]

(* A registration whose "end" went out, and no failure kept: its row is    *)
(* gone or about to go, and what other jobs still hold of it, they hold    *)
(* for a token that is overrun.                                            *)
Over(r) ==
    /\ r <= regs
    /\ \A t \in Tokens : HasRow(t) /\ activity[t].reg = r =>
         \E c \in Consumers :
            work[c].at = "expired" /\ work[c].reg = r /\ job[c] = t
    /\ \A d \in Consumers :
         work[d].reg = r /\ work[d].at # "expired" => job[d] \in overrun

EndsHold == \A r \in ended \ undeleted : Over(r)

IInv == (\A c \in Consumers : InOrder(c)) /\ RowsApart /\ CopiesApart /\ EndsHold

(* A token stays overrun while a job of it is at work.                     *)
LEMMA EveryStepKeepsHistory ==
    ASSUME Queue!Next PROVE \E O, L : Queue!History(O, L)
<1>1. CASE Queue!SchedulerNext
  BY <1>1 DEF Queue!SchedulerNext, Queue!Claim, Queue!Publish, Queue!PublishFails,
              Queue!RestartScheduler, Queue!CleanOrphan
<1>2. CASE Queue!RedisNext
  BY <1>2 DEF Queue!RedisNext, Queue!Expire, Queue!RestartRedis
<1>3. ASSUME NEW c \in Consumers, Queue!ConsumerNext(c)
      PROVE  \E O, L : Queue!History(O, L)
  BY <1>3 DEF Queue!ConsumerNext, Queue!Deliver, Queue!StartJob, Queue!SkipJob,
              Queue!FinishJob, Queue!FinishDelFails, Queue!Ack, Queue!Crash,
              Queue!CleanLive
<1> QED
  BY <1>1, <1>2, <1>3 DEF Queue!Next

LEMMA StaysOverrun ==
    ASSUME TypeOK, Next, NEW d \in Consumers, job[d] \in overrun, job'[d] = job[d]
    PROVE  job[d] \in overrun'
<1>1. CASE Queue!Next
  <2>1. PICK O, L : Queue!History(O, L)
    BY <1>1, EveryStepKeepsHistory
  <2>2. Queue!Outstanding(job[d])'
    BY DEF Queue!Outstanding
  <2> QED
    BY <2>1, <2>2 DEF Queue!History
<1>2. CASE QueueAlone
  BY <1>2 DEF QueueAlone, queueVars
<1> QED
  BY <1>1, <1>2, StepOfQueue

(* What a step may do to a consumer's copy without endangering IInv: drop  *)
(* it, or keep it with the job; and a job that pushed "end" stays where it *)
(* is until it has deleted the row, or recorded that it did not.           *)
Sound(d) ==
    /\ \/ work'[d].reg = 0
       \/ /\ work'[d].reg = work[d].reg
          /\ work'[d].expires = work[d].expires
          /\ job'[d] = job[d]
    /\ work'[d].clock <= now'
    /\ HasRead(d)'
    /\ work'[d].at \in {"idle", "get", "done"} => work'[d].reg = 0
    /\ work'[d].at = "expired" => Expired(work[d])'
    /\ work[d].at = "expired" =>
         \/ work'[d].at = "expired"
         \/ /\ work'[d].reg = 0
            /\ activity'[job[d]] = NoRow \/ work[d].reg \in undeleted'

LEMMA Unmoved ==
    ASSUME TypeOK, NEW d \in Consumers, InOrder(d), work'[d] = work[d], now <= now',
           now' \in Nat, work[d].at # "idle" => job'[d] = job[d]
    PROVE  Sound(d)
<1>1. now \in Nat /\ work[d].clock \in Nat
  BY Types, ActivitiesAssumption DEF OwnType, Works
<1>2. work'[d].clock <= now'
  BY <1>1 DEF InOrder
<1>3. HasRead(d)' /\ (work'[d].at = "expired" => Expired(work[d])')
  BY DEF InOrder, HasRead, Expired
<1>4. work'[d].at \in {"idle", "get", "done"} => work'[d].reg = 0
  BY DEF InOrder
<1>5. work[d].at = "idle" => work'[d].reg = 0
  BY <1>4
<1> QED
  BY <1>2, <1>3, <1>4, <1>5 DEF Sound

(* The steps that read and register nothing.                               *)
LEMMA Keeps ==
    ASSUME TypeOK, TypeOK', Next, IInv,
           regs' = regs, undeleted \subseteq undeleted',
           \A t \in Tokens : activity'[t] # NoRow => activity'[t] = activity[t],
           \A d \in Consumers : Sound(d),
           \A r \in (ended' \ undeleted') \ ended : Over(r)'
    PROVE  IInv'
<1>0. /\ OwnType /\ OwnType'
      /\ \A d \in Consumers : work[d].reg \in Nat /\ work'[d].reg \in Nat
  BY Types DEF OwnType, Works
<1>1. ASSUME NEW c \in Consumers PROVE InOrder(c)'
  <2>1. Sound(c) /\ InOrder(c)
    BY DEF IInv
  <2>2. work'[c].reg <= regs'
    BY <1>0, <2>1 DEF Sound, InOrder, OwnType
  <2>3. ASSUME work'[c].reg # 0, NEW t \in Tokens, HasRow(t)'
        PROVE  /\ activity'[t].reg = work'[c].reg
                  => t = job'[c] /\ activity'[t].expires = work'[c].expires
               /\ t = job'[c] => work'[c].reg <= activity'[t].reg
    <3>1. activity'[t] = activity[t] /\ HasRow(t)
      BY <2>3 DEF HasRow
    <3>2. work'[c].reg = work[c].reg /\ work'[c].expires = work[c].expires /\ job'[c] = job[c]
      BY <2>1, <2>3 DEF Sound
    <3> QED
      BY <2>1, <2>3, <3>1, <3>2 DEF InOrder
  <2> QED
    BY <2>1, <2>2, <2>3 DEF Sound, InOrder
<1>2. RowsApart'
  BY DEF IInv, RowsApart, HasRow
<1>3. CopiesApart'
  BY DEF IInv, CopiesApart, Sound
<1>4. ASSUME NEW r \in ended' \ undeleted', r \in ended PROVE Over(r)'
  <2>1. Over(r) /\ r # 0
    BY <1>0, <1>4 DEF IInv, EndsHold, OwnType, Registrations
  <2>2. ASSUME NEW t \in Tokens, HasRow(t)', activity'[t].reg = r
        PROVE  \E c \in Consumers :
                  work'[c].at = "expired" /\ work'[c].reg = r /\ job'[c] = t
    <3>1. activity'[t] = activity[t] /\ HasRow(t)
      BY <2>2 DEF HasRow
    <3>2. PICK c \in Consumers : work[c].at = "expired" /\ work[c].reg = r /\ job[c] = t
      BY <2>1, <2>2, <3>1 DEF Over
    <3>3. work'[c].at = "expired"
      BY <1>4, <2>2, <3>2 DEF Sound, HasRow
    <3>4. work'[c].reg # 0
      BY <3>3 DEF Sound, HasRead
    <3> QED
      BY <3>2, <3>3, <3>4 DEF Sound
  <2>3. ASSUME NEW d \in Consumers, work'[d].reg = r, work'[d].at # "expired"
        PROVE  job'[d] \in overrun'
    <3>1. work[d].reg = r /\ job'[d] = job[d] /\ work[d].at # "expired"
      BY <2>1, <2>3 DEF Sound
    <3>2. job[d] \in overrun
      BY <2>1, <3>1 DEF Over
    <3> QED
      BY <3>1, <3>2, StaysOverrun
  <2> QED
    BY <2>1, <2>2, <2>3 DEF Over
<1> QED
  BY <1>1, <1>2, <1>3, <1>4 DEF IInv, EndsHold

(* The steps of others leave every copy and its job alone.                 *)
LEMMA QuietKeeps ==
    ASSUME TypeOK, TypeOK', Next, IInv,
           \/ Tick \/ Prune \/ TurnBarkOnly \/ RestartScheduler \/ QueueStep
           \/ \E g \in Chunks : Select(g) \/ LockSelected(g)
    PROVE  IInv'
<1>1. UNCHANGED <<work, regs, ended, undeleted>>
  BY DEF Tick, Prune, TurnBarkOnly, RestartScheduler, QueueStep, Besides, Select,
         LockSelected
<1>2. now \in Nat /\ now' \in Nat /\ now <= now'
  BY Types, ActivitiesAssumption
  DEF OwnType, Tick, Prune, TurnBarkOnly, RestartScheduler, QueueStep, Besides,
      Select, LockSelected
<1>3. \A t \in Tokens : activity'[t] # NoRow => activity'[t] = activity[t]
  BY DEF Tick, Prune, TurnBarkOnly, RestartScheduler, QueueStep, Besides, Select,
         LockSelected
<1>4. ASSUME NEW d \in Consumers PROVE work[d].at # "idle" => job'[d] = job[d]
  <2>1. CASE QueueStep
    BY <2>1, AtWork, QueueStepQuiet
  <2>2. CASE ~QueueStep
    BY <2>2 DEF Tick, Prune, TurnBarkOnly, RestartScheduler, Select, LockSelected,
                Queue!RestartScheduler, Queue!Claim, Queue!queue, queueVars
  <2> QED
    BY <2>1, <2>2
<1>5. \A d \in Consumers : InOrder(d)
  BY DEF IInv
<1>6. \A d \in Consumers : Sound(d)
  BY <1>1, <1>2, <1>4, <1>5, Unmoved
<1> QED
  BY <1>1, <1>3, <1>6, Keeps

(* A new registration is of no one's copy.                                 *)
LEMMA CreateKeeps ==
    ASSUME TypeOK, TypeOK', IInv, NEW u \in Tokens, Create(u) PROVE IInv'
<1>0. /\ OwnType
      /\ \A d \in Consumers : work[d].reg \in Nat
      /\ regs \in Nat /\ now \in Nat
  BY Types DEF OwnType, Works
<1>1. /\ regs' = regs + 1 /\ UNCHANGED <<now, work, job, overrun, ended, undeleted>>
      /\ activity'[u] # NoRow /\ activity'[u].reg = regs + 1
      /\ \A t \in Tokens \ {u} : activity'[t] = activity[t]
  <2>1. [reg |-> regs', expires |-> now + Duration] # NoRow
    BY <1>0, ActivitiesAssumption DEF Create
  <2> QED
    BY <1>0, <2>1 DEF Create, queueVars, OwnType
<1>2. \A t \in Tokens : HasRow(t) => activity[t].reg <= regs /\ activity[t].reg \in Nat
  BY <1>0 DEF IInv, RowsApart, OwnType, HasRow, Registrations
<1>3. ASSUME NEW c \in Consumers PROVE InOrder(c)'
  <2>1. InOrder(c)
    BY DEF IInv
  <2>2. work[c].reg <= regs
    BY <2>1 DEF InOrder
  <2>3. HasRead(c)' /\ (work'[c].at = "expired" => Expired(work[c])')
    BY <1>1, <2>1 DEF InOrder, HasRead, Expired
  <2>4. ASSUME work'[c].reg # 0, NEW t \in Tokens, HasRow(t)'
        PROVE  /\ activity'[t].reg = work'[c].reg
                  => t = job'[c] /\ activity'[t].expires = work'[c].expires
               /\ t = job'[c] => work'[c].reg <= activity'[t].reg
    <3>1. CASE t = u
      BY <1>0, <1>1, <2>2, <3>1
    <3>2. CASE t # u
      BY <1>1, <2>1, <2>4, <3>2 DEF InOrder, HasRow
    <3> QED
      BY <3>1, <3>2
  <2> QED
    BY <1>0, <1>1, <2>1, <2>2, <2>3, <2>4 DEF InOrder
<1>4. RowsApart'
  BY <1>0, <1>1, <1>2 DEF IInv, RowsApart, HasRow
<1>5. CopiesApart'
  BY <1>1 DEF IInv, CopiesApart
<1>6. ASSUME NEW r \in ended' \ undeleted' PROVE Over(r)'
  <2>1. Over(r) /\ r \in Nat
    BY <1>0, <1>1, <1>6 DEF IInv, EndsHold, OwnType, Registrations
  <2>2. r <= regs
    BY <2>1 DEF Over
  <2>3. ASSUME NEW t \in Tokens, HasRow(t)', activity'[t].reg = r
        PROVE  HasRow(t) /\ activity[t].reg = r
    BY <1>0, <1>1, <2>1, <2>2, <2>3 DEF HasRow
  <2> QED
    BY <1>0, <1>1, <2>1, <2>2, <2>3 DEF Over
<1> QED
  BY <1>3, <1>4, <1>5, <1>6 DEF IInv, EndsHold

LEMMA OthersUnmoved ==
    ASSUME TypeOK, TypeOK', IInv, NEW c \in Consumers, now' = now,
           \A d \in Consumers \ {c} :
              work'[d] = work[d] /\ (work[d].at # "idle" => job'[d] = job[d])
    PROVE  \A d \in Consumers \ {c} : Sound(d)
<1>1. now \in Nat /\ now <= now' /\ now' \in Nat
  BY Types, ActivitiesAssumption DEF OwnType
<1> QED
  BY <1>1, Unmoved DEF IInv

(* Two jobs at work for one token: it is overrun.                          *)
LEMMA TwoAtWork ==
    ASSUME TypeOK, Queue!OneJobPerLease, NEW c \in Consumers, NEW d \in Consumers,
           c # d, work[c].at # "idle", work[d].at # "idle", job[c] = job[d]
    PROVE  job[c] \in overrun
<1>1. Queue!ExclusiveWork
  BY SameLease, SameExclusion, Lock!LeaseExcludes, QueueAssumption
<1>2. /\ pc[c] = "working" /\ pc[d] = "working" /\ job[c] \in Tokens
  BY AtWork
<1> QED
  BY <1>1, <1>2 DEF Queue!ExclusiveWork

(* A job's beginning and its end.                                          *)
LEMMA JobKeeps ==
    ASSUME TypeOK, TypeOK', Next, IInv, NEW c \in Consumers,
           StartJob(c) \/ FinishJob(c) \/ Crash(c)
    PROVE  IInv'
<1>0. OwnType /\ OwnType'
  BY Types
<1>1. /\ UNCHANGED <<now, activity, regs, ended>>
      /\ undeleted \subseteq undeleted'
      /\ \A d \in Consumers \ {c} : work'[d] = work[d] /\ job'[d] = job[d]
  BY <1>0, JobQuiet DEF StartJob, FinishJob, Crash, Becomes, OwnType
<1>2. /\ work'[c].reg = 0 /\ work'[c].clock \in {0, now}
      /\ work'[c].at \in {"idle", "get", "drop"}
  <2>1. CASE StartJob(c)
    <3>1. work'[c] = [Idle EXCEPT !.at = IF apns THEN "get" ELSE "drop", !.clock = now]
      BY <1>0, <2>1 DEF StartJob, Becomes, OwnType
    <3> QED
      BY <3>1 DEF Idle
  <2>2. CASE FinishJob(c) \/ Crash(c)
    <3>1. work'[c] = Idle
      BY <1>0, <2>2 DEF FinishJob, Crash, Becomes, OwnType
    <3> QED
      BY <3>1 DEF Idle
  <2> QED
    BY <2>1, <2>2
<1>3. work[c].at = "expired" => work[c].reg \in undeleted'
  <2>1. StartJob(c) => work[c].at = "idle"
    BY <1>0, JobQuiet DEF OwnType
  <2> QED
    BY <2>1 DEF FinishJob, Crash, Deleting
<1>4. work'[c].clock <= now'
  BY <1>0, <1>1, <1>2, ActivitiesAssumption DEF OwnType
<1>5. Sound(c)
  BY <1>2, <1>3, <1>4 DEF Sound, HasRead
<1>6. \A d \in Consumers \ {c} : Sound(d)
  BY <1>1, OthersUnmoved
<1> QED
  BY <1>1, <1>5, <1>6, Keeps

(* Its steps that read no row and push no "end".                           *)
LEMMA CallsKeep ==
    ASSUME TypeOK, TypeOK', Next, IInv, NEW c \in Consumers,
           \/ GetAccount(c) \/ Poll(c) \/ CallFails(c) \/ PushFails(c)
           \/ Delete(c) \/ DeleteFails(c)
    PROVE  IInv'
<1> USE DEF Calm, Failing
<1>0. OwnType /\ InOrder(c) /\ work[c].at # "idle"
  BY Types DEF IInv, GetAccount, Poll, CallFails, PushFails, Delete, DeleteFails, Deleting
<1>1. /\ UNCHANGED <<queueVars, now, regs, ended>>
      /\ undeleted \subseteq undeleted'
      /\ \A t \in Tokens : activity'[t] # NoRow => activity'[t] = activity[t]
  BY <1>0 DEF GetAccount, Poll, CallFails, PushFails, Delete, DeleteFails, OwnType
<1>2. job' = job
  BY <1>1 DEF queueVars
<1>3. PICK p \in {"poll", "push", "done", "drop", "rejected", "expired"} :
        /\ Goes(c, p)
        /\ p = "expired" => work[c].at = "rejected" /\ Expired(work[c])
        /\ p # "done" /\ p # "drop" => work[c].at \in {"account", "poll", "push", "rejected"}
        /\ work[c].at = "expired" => p = "done"
  BY DEF GetAccount, Poll, CallFails, PushFails, Delete, DeleteFails, Deleting,
         AfterDelete, AfterPush, InOrder, IInv
<1>4. /\ work'[c].at = p
      /\ p = "done" => work'[c].reg = 0 /\ work'[c].clock = 0
      /\ p # "done" => /\ work'[c].reg = work[c].reg
                       /\ work'[c].clock = work[c].clock
                       /\ work'[c].expires = work[c].expires
      /\ \A d \in Consumers \ {c} : work'[d] = work[d]
  BY <1>3, GoesTo DEF Places, Deleting
<1>5. work'[c].clock <= now'
  BY <1>0, <1>1, <1>4, ActivitiesAssumption DEF OwnType, InOrder
<1>6. HasRead(c)'
  <2>1. CASE p = "done" \/ p = "drop"
    BY <1>4, <2>1 DEF HasRead
  <2>2. CASE p # "done" /\ p # "drop"
    BY <1>0, <1>3, <1>4, <2>2 DEF InOrder, HasRead
  <2> QED
    BY <2>1, <2>2
<1>7. work[c].at = "expired" => activity'[job[c]] = NoRow \/ work[c].reg \in undeleted'
  <2>1. job[c] \in Tokens
    BY <1>0, AtWork
  <2> QED
    BY <1>0, <2>1 DEF GetAccount, Poll, CallFails, PushFails, Delete, DeleteFails, OwnType
<1>8. Sound(c)
  BY <1>2, <1>3, <1>4, <1>5, <1>6, <1>7 DEF Sound, Expired
<1>9. \A d \in Consumers \ {c} : Sound(d)
  BY <1>1, <1>2, <1>4, OthersUnmoved
<1> QED
  BY <1>1, <1>8, <1>9, Keeps

(* A push, the last of its activity included: whoever else holds a copy of *)
(* the registration holds it for the same token, and overlaps this job.    *)
LEMMA PushKeeps ==
    ASSUME TypeOK, TypeOK', Next, IInv, Queue!OneJobPerLease,
           NEW c \in Consumers, Push(c)
    PROVE  IInv'
<1>0. /\ OwnType /\ InOrder(c) /\ work[c].at = "push"
      /\ UNCHANGED <<queueVars, now, regs, activity, undeleted>>
  BY Types DEF IInv, Push, Calm
<1>1. job' = job /\ overrun' = overrun
  BY <1>0 DEF queueVars
<1>2. PICK p \in {"expired", "done"} : Goes(c, p) /\ (p = "expired" <=> Expired(work[c]))
  BY DEF Push, AfterPush
<1>3. /\ work'[c].at = p
      /\ p = "done" => work'[c].reg = 0 /\ work'[c].clock = 0
      /\ p # "done" => /\ work'[c].reg = work[c].reg
                       /\ work'[c].clock = work[c].clock
                       /\ work'[c].expires = work[c].expires
      /\ \A d \in Consumers \ {c} : work'[d] = work[d]
  BY <1>2, GoesTo DEF Places, Deleting
<1>4. work[c].reg # 0
  BY <1>0 DEF InOrder, HasRead
<1>5. work'[c].clock <= now'
  BY <1>0, <1>3, ActivitiesAssumption DEF OwnType, InOrder
<1>6. Sound(c)
  BY <1>0, <1>1, <1>2, <1>3, <1>4, <1>5 DEF Sound, HasRead, Expired
<1>7. \A d \in Consumers \ {c} : Sound(d)
  BY <1>0, <1>1, <1>3, OthersUnmoved
<1>8. ASSUME NEW r \in (ended' \ undeleted') \ ended PROVE Over(r)'
  <2>1. r = work[c].reg /\ work'[c].at = "expired" /\ work'[c].reg = r
    BY <1>2, <1>3, <1>8 DEF Push
  <2>2. r <= regs'
    BY <1>0, <2>1 DEF InOrder
  <2>3. ASSUME NEW t \in Tokens, HasRow(t)', activity'[t].reg = r PROVE job'[c] = t
    BY <1>0, <1>1, <1>4, <2>1, <2>3 DEF InOrder, HasRow
  <2>4. ASSUME NEW d \in Consumers, work'[d].reg = r, work'[d].at # "expired"
        PROVE  job'[d] \in overrun'
    <3>1. d # c /\ work[d].reg = r
      BY <1>3, <2>1, <2>4
    <3>2. job[d] = job[c]
      BY <1>4, <2>1, <3>1 DEF IInv, CopiesApart
    <3>3. work[d].at # "idle"
      BY <1>4, <2>1, <3>1 DEF IInv, InOrder
    <3> QED
      BY <1>0, <1>1, <3>1, <3>2, <3>3, TwoAtWork
  <2> QED
    BY <2>1, <2>2, <2>3, <2>4 DEF Over
<1> QED
  BY <1>0, <1>6, <1>7, <1>8, Keeps

(* Reading a row.  If its registration has ended, the job that pushed the  *)
(* "end" is about to delete it, and works for the same token.              *)
LEMMA GetKeeps ==
    ASSUME TypeOK, TypeOK', Next, IInv, Queue!OneJobPerLease,
           NEW c \in Consumers, Get(c)
    PROVE  IInv'
<1> DEFINE t == job[c]
           row == activity[t]
<1>0. /\ OwnType /\ InOrder(c) /\ work[c].at = "get" /\ t \in Tokens
      /\ UNCHANGED <<queueVars, now, regs, activity, undeleted, ended>>
  BY Types, AtWork DEF IInv, Get, Calm
<1>1. job' = job /\ overrun' = overrun
  BY <1>0 DEF queueVars
<1>2. \A d \in Consumers \ {c} : work'[d] = work[d]
  BY <1>0 DEF Get, Becomes, OwnType
<1>3. \A d \in Consumers \ {c} : Sound(d)
  BY <1>0, <1>1, <1>2, OthersUnmoved
<1>4. CASE row = NoRow
  <2>1. work'[c] = [Idle EXCEPT !.at = "done"]
    BY <1>0, <1>4 DEF Get, Becomes, OwnType
  <2>2. work'[c].at = "done" /\ work'[c].reg = 0 /\ work'[c].clock = 0
    BY <2>1 DEF Idle
  <2>3. Sound(c)
    BY <1>0, <2>2, ActivitiesAssumption DEF Sound, HasRead, OwnType
  <2> QED
    BY <1>0, <1>3, <2>3, Keeps
<1>5. CASE row # NoRow
  <2>1. work'[c] = [work[c] EXCEPT !.at = "account", !.reg = row.reg, !.expires = row.expires]
    BY <1>0, <1>5 DEF Get, Becomes, OwnType
  <2>2. /\ work'[c].at = "account" /\ work'[c].reg = row.reg
        /\ work'[c].expires = row.expires /\ work'[c].clock = work[c].clock
    BY <1>0, <2>1 DEF OwnType, Works
  <2>3. HasRow(t) /\ row.reg \in Nat \ {0} /\ row.reg <= regs
    BY <1>0, <1>5 DEF HasRow, OwnType, Registrations, IInv, RowsApart
  <2>4. \A u \in Tokens : HasRow(u) /\ activity[u].reg = row.reg => u = t
    BY <1>0, <2>3 DEF IInv, RowsApart
  <2>5. InOrder(c)'
    <3>1. work'[c].clock <= now' /\ work'[c].reg <= regs'
      BY <1>0, <2>2, <2>3 DEF InOrder
    <3> QED
      BY <1>0, <1>1, <2>2, <2>3, <2>4, <3>1 DEF InOrder, HasRead, HasRow
  <2>6. ASSUME NEW d \in Consumers \ {c} PROVE InOrder(d)'
    BY <1>0, <1>1, <1>2 DEF IInv, InOrder, HasRead, HasRow, Expired
  <2>7. RowsApart'
    BY <1>0 DEF IInv, RowsApart, HasRow
  <2>8. ASSUME NEW d \in Consumers \ {c}, work[d].reg = row.reg PROVE job[d] = t
    BY <1>0, <2>3, <2>8 DEF IInv, InOrder
  <2>9. CopiesApart'
    BY <1>1, <1>2, <2>2, <2>8 DEF IInv, CopiesApart
  <2>10. ASSUME NEW r \in ended' \ undeleted' PROVE Over(r)'
    <3>1. Over(r)
      BY <1>0, <2>10 DEF IInv, EndsHold
    <3>2. ASSUME NEW u \in Tokens, HasRow(u)', activity'[u].reg = r
          PROVE  \E d \in Consumers :
                    work'[d].at = "expired" /\ work'[d].reg = r /\ job'[d] = u
      <4>1. PICK d \in Consumers : work[d].at = "expired" /\ work[d].reg = r /\ job[d] = u
        BY <1>0, <3>1, <3>2 DEF Over, HasRow
      <4>2. d # c
        BY <1>0, <4>1
      <4> QED
        BY <1>1, <1>2, <4>1, <4>2
    <3>3. ASSUME NEW d \in Consumers, work'[d].reg = r, work'[d].at # "expired"
          PROVE  job'[d] \in overrun'
      <4>1. CASE d # c
        BY <1>1, <1>2, <3>1, <3>3, <4>1 DEF Over
      <4>2. CASE d = c
        <5>1. row.reg = r
          BY <2>2, <3>3, <4>2
        <5>2. PICK b \in Consumers :
                work[b].at = "expired" /\ work[b].reg = r /\ job[b] = t
          BY <1>0, <2>3, <3>1, <5>1 DEF Over
        <5> QED
          BY <1>0, <1>1, <4>2, <5>2, TwoAtWork
      <4> QED
        BY <4>1, <4>2
    <3> QED
      BY <1>0, <3>1, <3>2, <3>3 DEF Over
  <2> QED
    BY <2>5, <2>6, <2>7, <2>9, <2>10 DEF IInv, EndsHold
<1> QED
  BY <1>4, <1>5

-----------------------------------------------------------------------------
(* The inductive invariant.                                                *)
Inv == TypeOK /\ Queue!OneJobPerLease /\ IInv

LEMMA InitInv == Init => Inv
<1> SUFFICES ASSUME Init PROVE Inv
  OBVIOUS
<1>1. Queue!TypeOK
  BY SameInit, SameType, Lock!InitTypeOK, QueueAssumption DEF Init
<1>2. OwnType
  <2>1. work \in [Consumers -> Works]
    BY IdleType DEF Init
  <2>2. \A c \in Consumers : work[c].at = "idle" <=> pc[c] # "working"
    BY DEF Init, Queue!Init, Idle
  <2>3. now \in 0..MaxTime /\ regs \in 0..MaxRegistrations
    BY ActivitiesAssumption DEF Init
  <2> QED
    BY <2>1, <2>2, <2>3 DEF Init, OwnType
<1>3. Queue!OneJobPerLease
  BY SameInit, SameLease, Lock!InitLease, QueueAssumption DEF Init
<1>4. \A c \in Consumers : InOrder(c)
  BY DEF Init, InOrder, HasRead, Idle
<1>5. RowsApart /\ CopiesApart /\ EndsHold
  BY DEF Init, RowsApart, HasRow, CopiesApart, EndsHold, Idle
<1> QED
  BY <1>1, <1>2, <1>3, <1>4, <1>5, Types DEF Inv, IInv

LEMMA NextInv == Inv /\ [Next]_vars => Inv'
<1> SUFFICES ASSUME Inv, [Next]_vars PROVE Inv'
  OBVIOUS
<1>1. CASE Next
  <2>1. TypeOK /\ IInv /\ Queue!OneJobPerLease
    BY DEF Inv
  <2>2. TypeOK'
    BY <1>1, <2>1, NextType DEF IInv, InOrder
  <2>3. Queue!OneJobPerLease'
    BY <1>1, <2>1, <2>2, QueueLease, Types
  <2>4. IInv'
    <3>1. CASE \/ Tick \/ Prune \/ TurnBarkOnly \/ RestartScheduler \/ QueueStep
               \/ \E g \in Chunks : Select(g) \/ LockSelected(g)
      BY <1>1, <2>1, <2>2, <3>1, QuietKeeps
    <3>2. ASSUME NEW t \in Tokens, Create(t) PROVE IInv'
      BY <2>1, <2>2, <3>2, CreateKeeps
    <3>3. ASSUME NEW c \in Consumers,
                 ConsumerStep(c) \/ CallFails(c) \/ DeleteFails(c) \/ Crash(c)
          PROVE  IInv'
      <4>1. CASE StartJob(c) \/ FinishJob(c) \/ Crash(c)
        BY <1>1, <2>1, <2>2, <4>1, JobKeeps
      <4>2. CASE \/ GetAccount(c) \/ Poll(c) \/ CallFails(c) \/ PushFails(c)
                 \/ Delete(c) \/ DeleteFails(c)
        BY <1>1, <2>1, <2>2, <4>2, CallsKeep
      <4>3. CASE Push(c)
        BY <1>1, <2>1, <2>2, <4>3, PushKeeps
      <4>4. CASE Get(c)
        BY <1>1, <2>1, <2>2, <4>4, GetKeeps
      <4> QED
        BY <3>3, <4>1, <4>2, <4>3, <4>4 DEF ConsumerStep
    <3> QED
      BY <1>1, <3>1, <3>2, <3>3 DEF Next
  <2> QED
    BY <2>1, <2>2, <2>3, <2>4 DEF Inv
<1>2. CASE UNCHANGED vars
  <2>1. Queue!TypeOK' /\ Queue!OneJobPerLease'
    BY <1>2 DEF Inv, TypeOK, vars, queueVars, Queue!TypeOK, Queue!OneJobPerLease,
                Queue!LeaseOf, Queue!Relying, Queue!Holds
  <2>2. OwnType'
    BY <1>2, Types DEF Inv, OwnType, vars, queueVars
  <2>3. IInv'
    BY <1>2 DEF Inv, IInv, InOrder, HasRead, HasRow, Expired, RowsApart, CopiesApart,
                EndsHold, Over, vars, queueVars
  <2> QED
    BY <2>1, <2>2, <2>3, Types DEF Inv
<1> QED
  BY <1>1, <1>2

LEMMA InvAlways == Spec => []Inv
BY InitInv, NextInv, PTL DEF Spec

(* Every variable holds what its declaration says, the queue's included.   *)
THEOREM TypeCorrect == Spec => []TypeOK
<1>1. Inv => TypeOK
  BY DEF Inv
<1> QED
  BY <1>1, InvAlways, PTL

(* Live activities keep to the queue: what the API, the scheduler and the  *)
(* consumers do to keys and deliveries, LockedJobs allows.                 *)
THEOREM QueueCorrect == Spec => ImplementsQueue
<1>1. Init => Queue!Init
  BY DEF Init
<1>2. Inv /\ [Next]_vars => [Queue!Next]_queueVars
  BY StepOfQueue DEF Inv, QueueAlone, vars
<1> QED
  BY <1>1, <1>2, InvAlways, PTL DEF Spec, ImplementsQueue

(* Two jobs of one activity overlap only while it is overrun: proved of    *)
(* the queue, and so of what is built on it.                               *)
THEOREM ActivityExclusion == Spec => []Queue!ExclusiveWork
<1>1. Inv => Queue!ExclusiveWork
  BY SameLease, SameExclusion, Lock!LeaseExcludes, QueueAssumption DEF Inv
<1> QED
  BY <1>1, InvAlways, PTL

(* Nothing is pushed after the "end" but by an overrun job, or for a row a *)
(* failed Delete or a crash left behind.                                   *)
THEOREM NothingAfterEndCorrect == Spec => NothingAfterEnd
<1> DEFINE A == \A c \in Consumers :
                  Push(c) /\ work[c].reg \in ended
                  => job[c] \in overrun \/ work[c].reg \in undeleted
<1>1. Inv => A
  <2> SUFFICES ASSUME Inv, NEW c \in Consumers, Push(c),
                      work[c].reg \in ended \ undeleted
               PROVE  job[c] \in overrun
    OBVIOUS
  <2>1. Over(work[c].reg) /\ work[c].at = "push"
    BY DEF Inv, IInv, EndsHold, Push
  <2> QED
    BY <2>1 DEF Over
<1>2. Inv /\ [Next]_vars => [A]_vars
  BY <1>1
<1> QED
  BY <1>2, InvAlways, PTL DEF Spec, NothingAfterEnd

(* A row goes before its time only for a cause, or by a job that read an   *)
(* earlier registration of the token.                                      *)
THEOREM LivesItsTimeCorrect == Spec => LivesItsTime
<1> DEFINE Gone(t) == HasRow(t) /\ activity'[t] = NoRow /\ now <= activity[t].expires
           Cause(t, c) == /\ job[c] = t
                          /\ work[c].at \in Deleting
                          /\ work[c].at # "expired" \/ work[c].reg < activity[t].reg
           A == \A t \in Tokens : Gone(t) => \E c \in Consumers : Cause(t, c)
<1>1. ASSUME Inv, Next, NEW t \in Tokens, Gone(t)
      PROVE  \E c \in Consumers : Cause(t, c)
  <2>0. /\ OwnType /\ activity'[t] # activity[t]
        /\ activity[t] \in [reg : Registrations, expires : 0..MaxTime]
        /\ now \in Nat
    BY <1>1, Types, ActivitiesAssumption DEF Inv, OwnType, HasRow
  <2>1. ASSUME NEW u \in Tokens PROVE ~Create(u)
    <3> SUFFICES ASSUME Create(u) PROVE FALSE
      OBVIOUS
    <3>1. [reg |-> regs', expires |-> now + Duration] # NoRow
      BY <2>0, ActivitiesAssumption DEF Create, OwnType
    <3> QED
      BY <1>1, <2>0, <3>1 DEF Create, OwnType
  <2>2. ~Prune
    <3> SUFFICES ASSUME Prune PROVE FALSE
      OBVIOUS
    <3>1. activity[t].expires + Grace < now
      BY <2>0 DEF Prune
    <3> QED
      BY <1>1, <2>0, <3>1, ActivitiesAssumption
  <2>3. PICK c \in Consumers : Delete(c)
    BY <1>1, <2>0, <2>1, <2>2
    DEF Next, ConsumerStep, Tick, Select, LockSelected, RestartScheduler, TurnBarkOnly,
        QueueStep, Besides, StartJob, Get, GetAccount, Poll, Push, PushFails, FinishJob,
        CallFails, DeleteFails, Crash
  <2>4. job[c] = t /\ work[c].at \in Deleting
    BY <2>0, <2>3 DEF Delete, OwnType
  <2>5. ASSUME work[c].at = "expired" PROVE work[c].reg < activity[t].reg
    <3>1. InOrder(c) /\ work[c] \in Works
      BY <1>1, <2>0 DEF Inv, IInv, OwnType
    <3>2. work[c].reg # 0 /\ work[c].expires < work[c].clock /\ work[c].clock <= now
      BY <2>5, <3>1 DEF InOrder, HasRead, Expired
    <3>3. /\ work[c].reg <= activity[t].reg
          /\ activity[t].reg = work[c].reg => activity[t].expires = work[c].expires
      BY <1>1, <2>4, <3>1, <3>2 DEF InOrder
    <3>4. activity[t].reg # work[c].reg
      BY <1>1, <2>0, <3>1, <3>2, <3>3 DEF Works
    <3> QED
      BY <2>0, <3>1, <3>3, <3>4 DEF Works, Registrations
  <2> QED
    BY <2>4, <2>5
<1>2. Inv /\ [Next]_vars => [A]_vars
  BY <1>1
<1> QED
  BY <1>2, InvAlways, PTL DEF Spec, LivesItsTime
=============================================================================
