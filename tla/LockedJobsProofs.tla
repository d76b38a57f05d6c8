-------------------------- MODULE LockedJobsProofs --------------------------
(***************************************************************************)
(* Proofs about LockedJobs, for any sets of ids, chunks and consumers and  *)
(* any number of faults.  TypeOK is inductive; OneJobPerLease and          *)
(* NoSilentLeak are inductive given TypeOK; ExclusiveWork is a consequence *)
(* of OneJobPerLease.                                                      *)
(***************************************************************************)
EXTENDS LockedJobs, TLAPS

-----------------------------------------------------------------------------
(* Type correctness.                                                       *)

LEMMA InitTypeOK == Init => TypeOK
BY NoJobAssumption, FaultsAssumption DEF Init, TypeOK

LEMMA FaultBound == ASSUME TypeOK, Fault PROVE faults' \in 0..MaxFaults
BY FaultsAssumption DEF TypeOK, Fault

(* Histories stay within their types whatever is added to them.            *)
LEMMA HistoryType ==
    ASSUME TypeOK, NEW O \in SUBSET Ids, NEW L, History(O, L)
    PROVE  overrun' \subseteq Ids /\ leaked' \subseteq lock'
BY DEF History, TypeOK

LEMMA SchedulerType == ASSUME TypeOK, SchedulerNext PROVE TypeOK'
<1>1. ASSUME NEW g \in Chunks, NEW S \in SUBSET Ids, Claim(g, S) PROVE TypeOK'
  <2>1. overrun' \subseteq Ids /\ leaked' \subseteq lock'
    BY <1>1, HistoryType DEF Claim
  <2>2. QED  BY <1>1, <2>1 DEF Claim, Acquire, TypeOK, queue
<1>2. ASSUME NEW g \in Chunks, Publish(g) PROVE TypeOK'
  <2>1. overrun' \subseteq Ids /\ leaked' \subseteq lock'
    BY <1>2, HistoryType DEF Publish
  <2>2. ready' \in [Ids -> Nat]
    BY <1>2 DEF Publish, TypeOK
  <2>3. QED  BY <1>2, <2>1, <2>2 DEF Publish, TypeOK
<1>3. ASSUME NEW g \in Chunks, PublishFails(g) PROVE TypeOK'
  <2>1. overrun' \subseteq Ids /\ leaked' \subseteq lock'
    BY <1>3, HistoryType DEF PublishFails
  <2>2. QED  BY <1>3, <2>1, FaultBound DEF PublishFails, TypeOK, queue
<1>4. ASSUME RestartScheduler PROVE TypeOK'
  <2>1. overrun' \subseteq Ids /\ leaked' \subseteq lock'
    BY <1>4, HistoryType DEF RestartScheduler
  <2>2. faults' \in 0..MaxFaults
    BY <1>4, FaultBound DEF RestartScheduler, TypeOK
  <2>3. QED  BY <1>4, <2>1, <2>2 DEF RestartScheduler, TypeOK, queue
<1>5. ASSUME NEW a \in Ids, CleanOrphan(a) PROVE TypeOK'
  <2>1. overrun' \subseteq Ids /\ leaked' \subseteq lock'
    BY <1>5, HistoryType DEF CleanOrphan
  <2>2. orphans' \in [Ids -> Nat] /\ ready' \in [Ids -> Nat]
    BY <1>5 DEF CleanOrphan, TypeOK
  <2>3. QED  BY <1>5, <2>1, <2>2 DEF CleanOrphan, TypeOK, sched
<1>6. QED  BY <1>1, <1>2, <1>3, <1>4, <1>5 DEF SchedulerNext

LEMMA RedisType == ASSUME TypeOK, RedisNext PROVE TypeOK'
<1>1. ASSUME NEW a \in Ids, Expire(a) PROVE TypeOK'
  <2>1. overrun' \subseteq Ids /\ leaked' \subseteq lock'
    BY <1>1, HistoryType DEF Expire
  <2>2. faults' \in 0..MaxFaults
    BY <1>1, FaultBound DEF Expire, TypeOK
  <2>3. QED  BY <1>1, <2>1, <2>2 DEF Expire, TypeOK, sched, queue
<1>2. ASSUME NEW kept \in SUBSET Ids, RestartRedis(kept) PROVE TypeOK'
  <2>1. {a \in lock \ kept : Relying(a)} \in SUBSET Ids
    BY DEF TypeOK
  <2>2. overrun' \subseteq Ids /\ leaked' \subseteq lock'
    BY <1>2, <2>1, HistoryType DEF RestartRedis
  <2>3. QED  BY <1>2, <2>2, FaultBound DEF RestartRedis, TypeOK, queue
<1>3. QED  BY <1>1, <1>2 DEF RedisNext

LEMMA DropType ==
    ASSUME TypeOK, NEW c \in Consumers, Drop(c)
    PROVE  /\ pc' \in [Consumers -> {"idle", "delivered", "working", "skipping", "acking"}]
           /\ job' \in [Consumers -> Ids \cup {NoJob}]
           /\ \A d \in Consumers : pc'[d] = "idle" <=> job'[d] = NoJob
           /\ owns' \in [Consumers -> BOOLEAN]
           /\ \A d \in Consumers : owns'[d] => pc'[d] # "idle"
BY NoJobAssumption DEF Drop, TypeOK

(* A consumer that is not idle holds an id.                                *)
LEMMA BusyHasJob ==
    ASSUME TypeOK, NEW c \in Consumers, pc[c] # "idle"
    PROVE  job[c] \in Ids
BY DEF TypeOK

LEMMA ConsumerType ==
    ASSUME TypeOK, NEW c \in Consumers, ConsumerNext(c) PROVE TypeOK'
<1>1. ASSUME NEW a \in Ids, Deliver(c, a) PROVE TypeOK'
  <2>1. overrun' \subseteq Ids /\ leaked' \subseteq lock'
    BY <1>1, HistoryType DEF Deliver
  <2>2. ready' \in [Ids -> Nat]
    BY <1>1 DEF Deliver, TypeOK
  <2>3. QED  BY <1>1, <2>1, <2>2, NoJobAssumption DEF Deliver, TypeOK, sched
<1>2. ASSUME StartJob(c) \/ SkipJob(c) \/ FinishJob(c) \/ FinishDelFails(c)
      PROVE  TypeOK'
  <2>1. overrun' \subseteq Ids /\ leaked' \subseteq lock'
    BY <1>2, HistoryType DEF StartJob, SkipJob, FinishJob, FinishDelFails
  <2>2. faults' \in 0..MaxFaults
    BY <1>2, FaultBound DEF StartJob, SkipJob, FinishJob, FinishDelFails, TypeOK
  <2>3. lock' \subseteq Ids
    BY <1>2 DEF StartJob, SkipJob, FinishJob, FinishDelFails, TypeOK
  <2>4. QED  BY <1>2, <2>1, <2>2, <2>3
             DEF StartJob, SkipJob, FinishJob, FinishDelFails, TypeOK, sched
<1>3. ASSUME Ack(c) PROVE TypeOK'
  <2>1. overrun' \subseteq Ids /\ leaked' \subseteq lock'
    BY <1>3, HistoryType DEF Ack
  <2>2. QED  BY <1>3, <2>1, DropType DEF Ack, TypeOK, sched
<1>4. ASSUME Crash(c) PROVE TypeOK'
  <2>1. job[c] \in Ids
    BY <1>4, BusyHasJob DEF Crash
  <2>2. overrun' \subseteq Ids /\ leaked' \subseteq lock'
    BY <1>4, <2>1, HistoryType DEF Crash
  <2>3. orphans' \in [Ids -> Nat]
    BY <1>4, <2>1 DEF Crash, TypeOK
  <2>4. QED  BY <1>4, <2>2, <2>3, DropType, FaultBound DEF Crash, TypeOK, sched
<1>5. ASSUME CleanLive(c) PROVE TypeOK'
  <2>1. job[c] \in Ids
    BY <1>5, BusyHasJob DEF CleanLive, TypeOK
  <2>2. overrun' \subseteq Ids /\ leaked' \subseteq lock'
    BY <1>5, <2>1, HistoryType DEF CleanLive
  <2>3. ready' \in [Ids -> Nat]
    BY <1>5, <2>1 DEF CleanLive, TypeOK
  <2>4. QED  BY <1>5, <2>2, <2>3, FaultBound DEF CleanLive, TypeOK, sched
<1>6. QED  BY <1>1, <1>2, <1>3, <1>4, <1>5 DEF ConsumerNext

LEMMA NextTypeOK == TypeOK /\ [Next]_vars => TypeOK'
<1>1. ASSUME TypeOK, Next PROVE TypeOK'
  BY <1>1, SchedulerType, RedisType, ConsumerType DEF Next
<1>2. ASSUME TypeOK, UNCHANGED vars PROVE TypeOK'
  BY <1>2 DEF TypeOK, vars, sched, queue
<1>3. QED  BY <1>1, <1>2

(* Every reachable state is well typed: in particular a consumer holds a   *)
(* job exactly while it is busy, and the cleaner's copies are counted.     *)
THEOREM TypeCorrect == Spec => []TypeOK
BY InitTypeOK, NextTypeOK, PTL DEF Spec

-----------------------------------------------------------------------------
(* One job per lease.                                                      *)

(* Without any job, everything the lease asks of an id holds.              *)
LEMMA Idle ==
    ASSUME TypeOK, NEW a \in Ids, ~Relying(a) PROVE LeaseOf(a)
BY DEF TypeOK, Relying, LeaseOf

LEMMA Drained ==
    ASSUME TypeOK', NEW a \in Ids, ~Relying(a)' PROVE LeaseOf(a)'
BY DEF TypeOK, Relying, LeaseOf

(* An id that comes out of a step not overrun either has drained, or was   *)
(* not overrun before the step and is not overrun by it.                   *)
LEMMA NotOverrun ==
    ASSUME NEW O, NEW L, History(O, L), NEW a \in Ids \ overrun', Outstanding(a)'
    PROVE  a \notin overrun /\ a \notin O
BY DEF History

LEMMA InitLease == Init => OneJobPerLease
<1> SUFFICES ASSUME Init, NEW a \in Ids PROVE LeaseOf(a)
  BY DEF OneJobPerLease
<1>1. ~Relying(a)
  BY DEF Init, Relying, Holds, Holding
<1>2. QED  BY <1>1, InitTypeOK, Idle

(* What a step keeps: ids whose jobs and key it does not touch.            *)
LEMMA SameLease ==
    ASSUME NEW a \in Ids, LeaseOf(a),
           a \in lock => a \in lock',
           \A g \in Chunks : a \in batch'[g] => a \in batch[g],
           ready'[a] = ready[a], orphans'[a] = orphans[a],
           \A c \in Consumers : Holds(c, a)' => Holds(c, a)
    PROVE  LeaseOf(a)'
BY DEF LeaseOf, Relying

LEMMA SchedulerLease ==
    ASSUME TypeOK, TypeOK', OneJobPerLease, SchedulerNext PROVE OneJobPerLease'
<1> SUFFICES ASSUME NEW a \in Ids \ overrun' PROVE LeaseOf(a)'
  BY DEF OneJobPerLease
<1>0. CASE ~Outstanding(a)'
  BY <1>0, Drained DEF Outstanding
<1>1. ASSUME NEW g \in Chunks, NEW S \in SUBSET Ids, Claim(g, S), Outstanding(a)'
      PROVE  LeaseOf(a)'
  <2>1. LeaseOf(a)
    BY <1>1, NotOverrun DEF Claim, OneJobPerLease
  <2>2. UNCHANGED <<ready, orphans, job, pc>>
    BY <1>1 DEF Claim, queue
  <2>3. CASE a \in Acquire(S)
    <3>1. ~Relying(a)
      BY <2>1, <2>3 DEF LeaseOf, Acquire
    <3>2. a \in lock' /\ \A h \in Chunks : a \in batch'[h] => h = g
      BY <1>1, <2>3, <3>1 DEF Claim, Relying, TypeOK
    <3>3. QED  BY <2>2, <3>1, <3>2 DEF LeaseOf, Relying, Holds, TypeOK
  <2>4. CASE a \notin Acquire(S)
    <3>1. \A h \in Chunks : a \in batch'[h] => a \in batch[h]
      BY <1>1, <2>4 DEF Claim, TypeOK
    <3>2. QED  BY <1>1, <2>1, <2>2, <3>1, SameLease DEF Claim, Holds
  <2>5. QED  BY <2>3, <2>4
<1>2. ASSUME NEW g \in Chunks, Publish(g), Outstanding(a)' PROVE LeaseOf(a)'
  <2>1. LeaseOf(a)
    BY <1>2, NotOverrun DEF Publish, OneJobPerLease
  <2>2. UNCHANGED <<orphans, job, pc, lock>>
    BY <1>2 DEF Publish
  <2>3. CASE a \in batch[g]
    <3>1. a \in lock /\ ready[a] = 0 /\ orphans[a] = 0 /\ \A c \in Consumers : ~Holds(c, a)
      BY <2>1, <2>3 DEF LeaseOf, Relying
    <3>2. ready'[a] = 1 /\ \A h \in Chunks : a \notin batch'[h]
      BY <1>2, <2>1, <2>3, <3>1 DEF Publish, LeaseOf, TypeOK
    <3>3. QED  BY <2>2, <3>1, <3>2 DEF LeaseOf, Relying, Holds
  <2>4. CASE a \notin batch[g]
    <3>1. ready'[a] = ready[a] /\ \A h \in Chunks : a \in batch'[h] => a \in batch[h]
      BY <1>2, <2>4 DEF Publish, TypeOK
    <3>2. QED  BY <2>1, <2>2, <3>1, SameLease DEF Holds
  <2>5. QED  BY <2>3, <2>4
<1>3. ASSUME NEW g \in Chunks, PublishFails(g), Outstanding(a)' PROVE LeaseOf(a)'
  <2>1. LeaseOf(a)
    BY <1>3, NotOverrun DEF PublishFails, OneJobPerLease
  <2>2. \A h \in Chunks : a \in batch'[h] => a \in batch[h]
    BY <1>3 DEF PublishFails, TypeOK
  <2>3. QED  BY <1>3, <2>1, <2>2, SameLease DEF PublishFails, queue, Holds
<1>4. ASSUME RestartScheduler, Outstanding(a)' PROVE LeaseOf(a)'
  <2>1. LeaseOf(a)
    BY <1>4, NotOverrun DEF RestartScheduler, OneJobPerLease
  <2>2. QED  BY <1>4, <2>1, SameLease DEF RestartScheduler, queue, Holds
<1>5. ASSUME NEW b \in Ids, CleanOrphan(b), Outstanding(a)' PROVE LeaseOf(a)'
  <2>1. LeaseOf(a)
    BY <1>5, NotOverrun DEF CleanOrphan, OneJobPerLease
  <2>2. UNCHANGED <<batch, job, pc, lock>>
    BY <1>5 DEF CleanOrphan, sched
  <2>3. CASE a = b
    <3>1. /\ a \in lock /\ orphans[a] = 1 /\ ready[a] = 0
          /\ \A g \in Chunks : a \notin batch[g]
          /\ \A c \in Consumers : ~Holds(c, a)
      BY <1>5, <2>1, <2>3 DEF LeaseOf, Relying, CleanOrphan, TypeOK
    <3>2. orphans'[a] = 0 /\ ready'[a] = 1
      BY <1>5, <2>3, <3>1 DEF CleanOrphan, TypeOK
    <3>3. QED  BY <2>2, <3>1, <3>2 DEF LeaseOf, Relying, Holds
  <2>4. CASE a # b
    <3>1. orphans'[a] = orphans[a] /\ ready'[a] = ready[a]
      BY <1>5, <2>4 DEF CleanOrphan, TypeOK
    <3>2. QED  BY <2>1, <2>2, <3>1, SameLease DEF Holds
  <2>5. QED  BY <2>3, <2>4
<1>6. QED  BY <1>0, <1>1, <1>2, <1>3, <1>4, <1>5 DEF SchedulerNext

(* A key that goes away under a job marks its id; another key leaves the   *)
(* lease of a alone.                                                       *)
LEMMA RedisLease ==
    ASSUME TypeOK, TypeOK', OneJobPerLease, RedisNext PROVE OneJobPerLease'
<1> SUFFICES ASSUME NEW a \in Ids \ overrun' PROVE LeaseOf(a)'
  BY DEF OneJobPerLease
<1>0. CASE ~Outstanding(a)'
  BY <1>0, Drained DEF Outstanding
<1>1. ASSUME NEW b \in Ids, Expire(b), Outstanding(a)' PROVE LeaseOf(a)'
  <2>1. LeaseOf(a) /\ ~(a = b /\ Relying(a))
    BY <1>1, NotOverrun DEF Expire, OneJobPerLease
  <2>2. UNCHANGED <<batch, ready, orphans, job, pc>>
    BY <1>1 DEF Expire, sched, queue
  <2>3. CASE Relying(a)
    BY <1>1, <2>1, <2>2, <2>3, SameLease DEF Expire, Holds
  <2>4. CASE ~Relying(a)
    <3>1. ~Relying(a)'
      BY <2>2, <2>4 DEF Relying, Holds
    <3>2. QED  BY <3>1, Drained
  <2>5. QED  BY <2>3, <2>4
<1>2. ASSUME NEW kept \in SUBSET Ids, RestartRedis(kept), Outstanding(a)'
      PROVE  LeaseOf(a)'
  <2>1. LeaseOf(a) /\ ~(a \in lock \ kept /\ Relying(a))
    BY <1>2, NotOverrun DEF RestartRedis, OneJobPerLease
  <2>2. UNCHANGED <<batch, ready, orphans, job, pc>>
    BY <1>2 DEF RestartRedis, queue
  <2>3. CASE Relying(a)
    BY <1>2, <2>1, <2>2, <2>3, SameLease DEF RestartRedis, Holds
  <2>4. CASE ~Relying(a)
    <3>1. ~Relying(a)'
      BY <2>2, <2>4 DEF Relying, Holds
    <3>2. QED  BY <3>1, Drained
  <2>5. QED  BY <2>3, <2>4
<1>3. QED  BY <1>0, <1>1, <1>2 DEF RedisNext

(* The steps of a consumer that leave every Holds(d, b) with b # job[c].   *)
LEMMA OtherLease ==
    ASSUME NEW c \in Consumers, NEW a \in Ids, LeaseOf(a),
           job[c] # a, job'[c] # a,
           \A d \in Consumers \ {c} : job'[d] = job[d] /\ pc'[d] = pc[d],
           a \in lock => a \in lock', UNCHANGED batch,
           ready'[a] = ready[a], orphans'[a] = orphans[a]
    PROVE  LeaseOf(a)'
<1>1. \A d \in Consumers : Holds(d, a)' => Holds(d, a)
  BY DEF Holds
<1>2. QED  BY <1>1, SameLease

LEMMA ConsumerLease ==
    ASSUME TypeOK, TypeOK', OneJobPerLease, NEW c \in Consumers, ConsumerNext(c)
    PROVE  OneJobPerLease'
<1> SUFFICES ASSUME NEW a \in Ids \ overrun' PROVE LeaseOf(a)'
  BY DEF OneJobPerLease
<1>0. CASE ~Outstanding(a)'
  BY <1>0, Drained DEF Outstanding
<1>1. ASSUME NEW b \in Ids, Deliver(c, b), Outstanding(a)' PROVE LeaseOf(a)'
  <2>1. LeaseOf(a)
    BY <1>1, NotOverrun DEF Deliver, OneJobPerLease
  <2>2. UNCHANGED <<lock, batch, orphans>>
    BY <1>1 DEF Deliver, sched
  <2>3. /\ pc'[c] = "delivered" /\ job'[c] = b /\ job[c] = NoJob
        /\ \A d \in Consumers \ {c} : pc'[d] = pc[d] /\ job'[d] = job[d]
    BY <1>1 DEF Deliver, TypeOK
  <2>4. CASE a = b
    <3>1. /\ a \in lock /\ ready[a] = 1 /\ orphans[a] = 0
          /\ \A g \in Chunks : a \notin batch[g]
          /\ \A d \in Consumers : ~Holds(d, a)
      BY <1>1, <2>1, <2>4 DEF LeaseOf, Relying, Deliver, TypeOK
    <3>2. ready'[a] = 0
      BY <1>1, <2>4, <3>1 DEF Deliver, TypeOK
    <3>3. \A d \in Consumers : Holds(d, a)' => d = c
      BY <2>3, <3>1 DEF Holds
    <3>4. QED  BY <2>2, <3>1, <3>2, <3>3 DEF LeaseOf
  <2>5. CASE a # b
    <3>1. ready'[a] = ready[a]
      BY <1>1, <2>5 DEF Deliver, TypeOK
    <3>2. QED  BY <2>1, <2>2, <2>3, <2>5, <3>1, NoJobAssumption, OtherLease
  <2>6. QED  BY <2>4, <2>5
<1>2. ASSUME StartJob(c) \/ SkipJob(c) \/ FinishDelFails(c), Outstanding(a)'
      PROVE  LeaseOf(a)'
  <2>1. LeaseOf(a)
    BY <1>2, NotOverrun DEF StartJob, SkipJob, FinishDelFails, OneJobPerLease
  <2>2. \A d \in Consumers : Holds(d, a)' => Holds(d, a)
    BY <1>2 DEF StartJob, SkipJob, FinishDelFails, Holds, Holding, TypeOK
  <2>3. QED  BY <1>2, <2>1, <2>2, SameLease
             DEF StartJob, SkipJob, FinishDelFails, sched
<1>3. ASSUME FinishJob(c), Outstanding(a)' PROVE LeaseOf(a)'
  <2>1. LeaseOf(a)
    BY <1>3, NotOverrun DEF FinishJob, OneJobPerLease
  <2>2. UNCHANGED <<batch, ready, orphans, job>>
    BY <1>3 DEF FinishJob, sched
  <2>3. CASE job[c] = a
    <3>1. Holds(c, a)
      BY <1>3, <2>3 DEF FinishJob, Holds, Holding
    <3>2. /\ ready[a] = 0 /\ orphans[a] = 0
          /\ \A g \in Chunks : a \notin batch[g]
          /\ \A d \in Consumers : Holds(d, a) => d = c
      BY <2>1, <3>1 DEF LeaseOf, TypeOK
    <3>3. \A d \in Consumers : ~Holds(d, a)'
      BY <1>3, <3>2 DEF FinishJob, Holds, Holding, TypeOK
    <3>4. ~Relying(a)'
      BY <2>2, <3>2, <3>3 DEF Relying
    <3>5. QED  BY <3>4, Drained
  <2>4. CASE job[c] # a
    <3>1. \A d \in Consumers \ {c} : pc'[d] = pc[d]
      BY <1>3 DEF FinishJob, TypeOK
    <3>2. QED  BY <1>3, <2>1, <2>2, <2>4, <3>1, OtherLease DEF FinishJob
  <2>5. QED  BY <2>3, <2>4
<1>4. ASSUME Ack(c), Outstanding(a)' PROVE LeaseOf(a)'
  <2>1. LeaseOf(a)
    BY <1>4, NotOverrun DEF Ack, OneJobPerLease
  <2>2. \A d \in Consumers : Holds(d, a)' => Holds(d, a)
    BY <1>4 DEF Ack, Drop, Holds, Holding, TypeOK
  <2>3. QED  BY <1>4, <2>1, <2>2, SameLease DEF Ack, sched
<1>5. ASSUME Crash(c), Outstanding(a)' PROVE LeaseOf(a)'
  <2>1. LeaseOf(a) /\ ~(owns[c] /\ pc[c] = "acking" /\ job[c] = a)
    BY <1>5, NotOverrun DEF Crash, OneJobPerLease
  <2>2. UNCHANGED <<lock, batch, ready>>
    BY <1>5 DEF Crash, sched
  <2>3. \A d \in Consumers : Holds(d, a)' => Holds(d, a) /\ d # c
    BY <1>5 DEF Crash, Drop, Holds, Holding, TypeOK
  <2>4. CASE owns[c] /\ job[c] = a
    <3>1. Holds(c, a)
      BY <1>5, <2>1, <2>4 DEF Crash, Holds, Holding, TypeOK
    <3>2. /\ a \in lock /\ ready[a] = 0 /\ orphans[a] = 0
          /\ \A g \in Chunks : a \notin batch[g]
          /\ \A d \in Consumers : Holds(d, a) => d = c
      BY <2>1, <3>1 DEF LeaseOf, Relying, TypeOK
    <3>3. orphans'[a] = 1
      BY <1>5, <2>4, <3>2 DEF Crash, TypeOK
    <3>4. QED  BY <2>2, <2>3, <3>2, <3>3 DEF LeaseOf
  <2>5. CASE ~(owns[c] /\ job[c] = a)
    <3>1. orphans'[a] = orphans[a]
      BY <1>5, <2>5 DEF Crash, TypeOK
    <3>2. QED  BY <2>1, <2>2, <2>3, <3>1, SameLease
  <2>6. QED  BY <2>4, <2>5
<1>6. ASSUME CleanLive(c), Outstanding(a)' PROVE LeaseOf(a)'
  <2>1. LeaseOf(a) /\ a # job[c]
    BY <1>6, NotOverrun, BusyHasJob DEF CleanLive, OneJobPerLease, TypeOK
  <2>2. ready'[a] = ready[a]
    BY <1>6, <2>1 DEF CleanLive, TypeOK
  <2>3. QED  BY <1>6, <2>1, <2>2, SameLease DEF CleanLive, sched, Holds
<1>7. QED  BY <1>0, <1>1, <1>2, <1>3, <1>4, <1>5, <1>6 DEF ConsumerNext

LEMMA NextLease ==
    TypeOK /\ TypeOK' /\ OneJobPerLease /\ [Next]_vars => OneJobPerLease'
<1>1. ASSUME TypeOK, TypeOK', OneJobPerLease, Next PROVE OneJobPerLease'
  BY <1>1, SchedulerLease, RedisLease, ConsumerLease DEF Next
<1>2. ASSUME OneJobPerLease, UNCHANGED vars PROVE OneJobPerLease'
  BY <1>2 DEF OneJobPerLease, LeaseOf, Relying, Holds, vars, sched, queue
<1>3. QED  BY <1>1, <1>2

(* An id whose lease was not outlived has one job at most, and its key.    *)
THEOREM OneJobPerLeaseAlways == Spec => []OneJobPerLease
<1>1. Spec => []TypeOK
  BY TypeCorrect
<1>2. QED  BY <1>1, InitLease, NextLease, PTL DEF Spec

LEMMA LeaseExcludes == OneJobPerLease => ExclusiveWork
BY DEF OneJobPerLease, LeaseOf, ExclusiveWork, Holds, Holding

(* Two consumers never work for one id unless its lease was outlived.      *)
THEOREM Exclusion == Spec => []ExclusiveWork
BY OneJobPerLeaseAlways, LeaseExcludes, PTL

-----------------------------------------------------------------------------
(* No key without a job, unless a failure left it behind.                  *)

(* A key that is neither new nor recorded as left behind was there before. *)
LEMMA StillLocked ==
    ASSUME NEW O, NEW L, History(O, L), NEW a \in lock' \ leaked'
    PROVE  a \notin leaked /\ a \notin L
BY DEF History

LEMMA SchedulerLeak ==
    ASSUME TypeOK, NoSilentLeak, SchedulerNext, NEW a \in lock' \ leaked'
    PROVE  Relying(a)'
<1>1. ASSUME NEW g \in Chunks, NEW S \in SUBSET Ids, Claim(g, S) PROVE Relying(a)'
  <2>1. CASE a \in Acquire(S)
    <3>1. a \in batch'[g]
      BY <1>1, <2>1 DEF Claim, TypeOK
    <3>2. QED  BY <3>1 DEF Relying
  <2>2. CASE a \notin Acquire(S)
    <3>1. Relying(a)
      BY <1>1, <2>2, StillLocked DEF Claim, NoSilentLeak
    <3>2. \A h \in Chunks : a \in batch[h] => a \in batch'[h]
      BY <1>1 DEF Claim, TypeOK
    <3>3. QED  BY <1>1, <3>1, <3>2 DEF Claim, queue, Relying, Holds
  <2>3. QED  BY <2>1, <2>2
<1>2. ASSUME NEW g \in Chunks, Publish(g) PROVE Relying(a)'
  <2>1. Relying(a) /\ a \in Ids
    BY <1>2, StillLocked DEF Publish, NoSilentLeak, TypeOK
  <2>2. CASE a \in batch[g]
    <3>1. ready'[a] > 0
      BY <1>2, <2>1, <2>2 DEF Publish, TypeOK
    <3>2. QED  BY <3>1 DEF Relying
  <2>3. CASE a \notin batch[g]
    <3>1. ready'[a] = ready[a] /\ \A h \in Chunks : a \in batch[h] => a \in batch'[h]
      BY <1>2, <2>1, <2>3 DEF Publish, TypeOK
    <3>2. QED  BY <1>2, <2>1, <3>1 DEF Publish, Relying, Holds
  <2>4. QED  BY <2>2, <2>3
<1>3. ASSUME NEW g \in Chunks, PublishFails(g) PROVE Relying(a)'
  <2>1. Relying(a) /\ a \notin batch[g]
    BY <1>3, StillLocked DEF PublishFails, NoSilentLeak
  <2>2. \A h \in Chunks : a \in batch[h] => a \in batch'[h]
    BY <1>3, <2>1 DEF PublishFails, TypeOK
  <2>3. QED  BY <1>3, <2>1, <2>2 DEF PublishFails, queue, Relying, Holds
<1>4. ASSUME RestartScheduler PROVE Relying(a)'
  <2>1. Relying(a) /\ \A g \in Chunks : a \notin batch[g]
    BY <1>4, StillLocked DEF RestartScheduler, NoSilentLeak
  <2>2. QED  BY <1>4, <2>1 DEF RestartScheduler, queue, Relying, Holds
<1>5. ASSUME NEW b \in Ids, CleanOrphan(b) PROVE Relying(a)'
  <2>1. Relying(a) /\ a \in Ids
    BY <1>5, StillLocked DEF CleanOrphan, NoSilentLeak, TypeOK
  <2>2. a = b => ready'[a] > 0
    BY <1>5, <2>1 DEF CleanOrphan, TypeOK
  <2>3. a # b => ready'[a] = ready[a] /\ orphans'[a] = orphans[a]
    BY <1>5, <2>1 DEF CleanOrphan, TypeOK
  <2>4. QED  BY <1>5, <2>1, <2>2, <2>3 DEF CleanOrphan, sched, Relying, Holds
<1>6. QED  BY <1>1, <1>2, <1>3, <1>4, <1>5 DEF SchedulerNext

LEMMA RedisLeak ==
    ASSUME TypeOK, NoSilentLeak, RedisNext, NEW a \in lock' \ leaked'
    PROVE  Relying(a)'
<1>1. ASSUME NEW b \in Ids, Expire(b) PROVE Relying(a)'
  <2>1. Relying(a)
    BY <1>1, StillLocked DEF Expire, NoSilentLeak
  <2>2. QED  BY <1>1, <2>1 DEF Expire, sched, queue, Relying, Holds
<1>2. ASSUME NEW kept \in SUBSET Ids, RestartRedis(kept) PROVE Relying(a)'
  <2>1. Relying(a)
    BY <1>2, StillLocked DEF RestartRedis, NoSilentLeak
  <2>2. QED  BY <1>2, <2>1 DEF RestartRedis, queue, Relying, Holds
<1>3. QED  BY <1>1, <1>2 DEF RedisNext

LEMMA ConsumerLeak ==
    ASSUME TypeOK, NoSilentLeak, NEW c \in Consumers, ConsumerNext(c),
           NEW a \in lock' \ leaked'
    PROVE  Relying(a)'
<1>1. ASSUME NEW b \in Ids, Deliver(c, b) PROVE Relying(a)'
  <2>1. Relying(a) /\ a \in Ids
    BY <1>1, StillLocked DEF Deliver, NoSilentLeak, TypeOK
  <2>2. \A d \in Consumers : Holds(d, a) => Holds(d, a)'
    BY <1>1 DEF Deliver, Holds, Holding, TypeOK
  <2>3. CASE a = b
    <3>1. Holds(c, a)'
      BY <1>1, <2>3 DEF Deliver, Holds, Holding, TypeOK
    <3>2. QED  BY <3>1 DEF Relying
  <2>4. CASE a # b
    <3>1. ready'[a] = ready[a]
      BY <1>1, <2>1, <2>4 DEF Deliver, TypeOK
    <3>2. QED  BY <1>1, <2>1, <2>2, <3>1 DEF Deliver, sched, Relying
  <2>5. QED  BY <2>3, <2>4
<1>2. ASSUME StartJob(c) \/ SkipJob(c) \/ FinishDelFails(c) PROVE Relying(a)'
  <2>1. Relying(a)
    BY <1>2, StillLocked DEF StartJob, SkipJob, FinishDelFails, NoSilentLeak
  <2>2. \A d \in Consumers : Holds(d, a) => Holds(d, a)'
    BY <1>2 DEF StartJob, SkipJob, FinishDelFails, Holds, Holding, TypeOK
  <2>3. QED  BY <1>2, <2>1, <2>2
             DEF StartJob, SkipJob, FinishDelFails, sched, Relying
<1>3. ASSUME FinishJob(c) PROVE Relying(a)'
  <2>1. Relying(a) /\ a # job[c]
    BY <1>3, StillLocked DEF FinishJob, NoSilentLeak
  <2>2. \A d \in Consumers : Holds(d, a) => Holds(d, a)'
    BY <1>3, <2>1 DEF FinishJob, Holds, TypeOK
  <2>3. QED  BY <1>3, <2>1, <2>2 DEF FinishJob, sched, Relying
<1>4. ASSUME Ack(c) PROVE Relying(a)'
  <2>1. Relying(a) /\ ~(pc[c] = "skipping" /\ job[c] = a)
    BY <1>4, StillLocked DEF Ack, NoSilentLeak
  <2>2. \A d \in Consumers : Holds(d, a) => Holds(d, a)'
    BY <1>4, <2>1 DEF Ack, Drop, Holds, Holding, TypeOK
  <2>3. QED  BY <1>4, <2>1, <2>2 DEF Ack, sched, Relying
<1>5. ASSUME Crash(c) PROVE Relying(a)'
  <2>1. Relying(a) /\ (job[c] = a => owns[c]) /\ a \in Ids
    BY <1>5, StillLocked DEF Crash, NoSilentLeak, TypeOK
  <2>2. job[c] = a => orphans'[a] > 0
    BY <1>5, <2>1 DEF Crash, TypeOK
  <2>3. orphans[a] > 0 => orphans'[a] > 0
    BY <1>5, <2>1 DEF Crash, TypeOK
  <2>4. \A d \in Consumers : Holds(d, a) => Holds(d, a)' \/ job[c] = a
    BY <1>5 DEF Crash, Drop, Holds, TypeOK
  <2>5. QED  BY <1>5, <2>1, <2>2, <2>3, <2>4 DEF Crash, sched, Relying
<1>6. ASSUME CleanLive(c) PROVE Relying(a)'
  <2>1. Relying(a) /\ a \in Ids
    BY <1>6, StillLocked DEF CleanLive, NoSilentLeak, TypeOK
  <2>2. ready[a] > 0 => ready'[a] > 0
    BY <1>6, <2>1 DEF CleanLive, TypeOK
  <2>3. QED  BY <1>6, <2>1, <2>2 DEF CleanLive, sched, Relying, Holds
<1>7. QED  BY <1>1, <1>2, <1>3, <1>4, <1>5, <1>6 DEF ConsumerNext

LEMMA NextLeak == TypeOK /\ NoSilentLeak /\ [Next]_vars => NoSilentLeak'
<1>1. ASSUME TypeOK, NoSilentLeak, Next PROVE NoSilentLeak'
  BY <1>1, SchedulerLeak, RedisLeak, ConsumerLeak DEF Next, NoSilentLeak
<1>2. ASSUME NoSilentLeak, UNCHANGED vars PROVE NoSilentLeak'
  BY <1>2 DEF NoSilentLeak, Relying, Holds, vars, sched, queue
<1>3. QED  BY <1>1, <1>2

(* A key without a job on its way is always one of the named failures'.    *)
THEOREM NoSilentLeakAlways == Spec => []NoSilentLeak
<1>1. Init => NoSilentLeak
  BY DEF Init, NoSilentLeak
<1>2. QED  BY <1>1, TypeCorrect, NextLeak, PTL DEF Spec
=============================================================================
