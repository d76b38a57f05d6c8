----------------------------- MODULE LockedJobs -----------------------------
(***************************************************************************)
(* The life of a job on a locked queue: "notifications" (keyed by account) *)
(* and "live-activities" (keyed by APNs token) share it.                   *)
(*                                                                         *)
(* The scheduler takes one Redis key per id with SET NX EX, publishes the  *)
(* ids whose key it got, and a consumer deletes the key when its job is    *)
(* over.  The key is a lease and not a lock: it has no owner, it expires   *)
(* on its own, and a consumer goes on whether or not it is still there.    *)
(*                                                                         *)
(* The queue (rmq) gives a delivery to one consumer and keeps it in that   *)
(* connection's "unacked" list until it is acknowledged; when the          *)
(* connection's heartbeat stops, a cleaner puts the list back.             *)
(***************************************************************************)
EXTENDS Naturals

CONSTANTS
    Ids,        \* lock keys: reddit account ids, or live activity tokens
    NoJob,      \* what job[c] holds while c has no delivery
    Chunks,     \* scheduler goroutines that lock and publish a batch
    Consumers,  \* prefetched deliveries and the goroutines that run them
    MaxFaults   \* bound: crashes, lost leases and failed calls in a behaviour

ASSUME NoJobAssumption  == NoJob \notin Ids
ASSUME FaultsAssumption == MaxFaults \in Nat

VARIABLES
    lock,       \* ids whose Redis key exists
    script,     \* TRUE while redis-locks still knows the script's SHA
    batch,      \* ids a chunk has locked and not yet published
    ready,      \* deliveries of an id in the ready list
    pc,         \* where a consumer stands in Consume
    job,        \* the payload a consumer holds
    owns,       \* FALSE once the cleaner took c's delivery away from it
    orphans,    \* unacked deliveries of connections that are gone
    faults,     \* faults so far (bounds the model)
    overrun,    \* history: ids that outlived their lease, until they drain
    leaked      \* history: ids whose key was left behind by a failure

sched == <<script, batch>>
queue == <<ready, pc, job, owns, orphans>>
vars  == <<lock, sched, queue, faults, overrun, leaked>>

-----------------------------------------------------------------------------
(* A consumer still relies on the key until it has deleted it.             *)
Holding == {"delivered", "working", "skipping"}

Holds(c, a) == job[c] = a /\ pc[c] \in Holding

(* Somewhere between the lock and the Del there is a job for a.            *)
Relying(a) ==
    \/ \E g \in Chunks : a \in batch[g]
    \/ ready[a] > 0
    \/ orphans[a] > 0
    \/ \E c \in Consumers : Holds(c, a)

Outstanding(a) == Relying(a) \/ \E c \in Consumers : job[c] = a

(* History: the ids of O overran (an id is over it when it has drained),   *)
(* and the keys of L may now outlive their job.                            *)
History(O, L) ==
    /\ overrun' = {a \in overrun \cup O : Outstanding(a)'}
    /\ leaked'  = (leaked \cup L) \cap lock'

Fault == faults < MaxFaults /\ faults' = faults + 1

Drop(c) ==
    /\ pc'   = [pc EXCEPT ![c] = "idle"]
    /\ job'  = [job EXCEPT ![c] = NoJob]
    /\ owns' = [owns EXCEPT ![c] = FALSE]

-----------------------------------------------------------------------------
Init ==
    /\ lock    = {}
    /\ script  = TRUE
    /\ batch   = [g \in Chunks |-> {}]
    /\ ready   = [a \in Ids |-> 0]
    /\ pc      = [c \in Consumers |-> "idle"]
    /\ job     = [c \in Consumers |-> NoJob]
    /\ owns    = [c \in Consumers |-> FALSE]
    /\ orphans = [a \in Ids |-> 0]
    /\ faults  = 0
    /\ overrun = {}
    /\ leaked  = {}

(***************************************************************************)
(* The scheduler.                                                          *)
(***************************************************************************)
(* The script is one Redis command: the ids it returns are the ones whose  *)
(* key did not exist.                                                      *)
AcquireWithoutNX(S) == S
Acquire(S) == S \ lock

Claim(g, S) ==
    /\ script
    /\ batch[g] = {}
    /\ Acquire(S) # {}
    /\ batch' = [batch EXCEPT ![g] = Acquire(S)]
    /\ lock'  = lock \cup Acquire(S)
    /\ UNCHANGED <<script, queue, faults>>
    /\ History({}, {})

(* One LPUSH for the whole batch.                                          *)
Publish(g) ==
    /\ batch[g] # {}
    /\ ready' = [a \in Ids |-> ready[a] + (IF a \in batch[g] THEN 1 ELSE 0)]
    /\ batch' = [batch EXCEPT ![g] = {}]
    /\ UNCHANGED <<lock, script, pc, job, owns, orphans, faults>>
    /\ History({}, {})

(* Publish returns an error and the goroutine returns; or the scheduler    *)
(* dies before it gets there.  Nothing gives the keys back.                *)
PublishFails(g) ==
    /\ Fault
    /\ batch[g] # {}
    /\ batch' = [batch EXCEPT ![g] = {}]
    /\ UNCHANGED <<lock, script, queue>>
    /\ History({}, batch[g])

(* A scheduler that starts loads the script again.  (It is a fault of the  *)
(* bound unless it follows a restart of redis-locks, which was one.)       *)
RestartScheduler ==
    /\ IF script THEN Fault ELSE UNCHANGED faults
    /\ script' = TRUE
    /\ batch'  = [g \in Chunks |-> {}]
    /\ UNCHANGED <<lock, queue>>
    /\ History({}, UNION {batch[g] : g \in Chunks})

(***************************************************************************)
(* Redis.                                                                  *)
(***************************************************************************)
(* The key's five minutes are over.  For a key that has lost its job this  *)
(* always comes; with the job still around it is a fault of the bound.     *)
ExpireWithoutTTL(a) == a \in lock /\ FALSE /\ UNCHANGED vars
Expire(a) ==
    /\ a \in lock
    /\ IF Relying(a) THEN Fault ELSE UNCHANGED faults
    /\ lock' = lock \ {a}
    /\ UNCHANGED <<sched, queue>>
    /\ History(IF Relying(a) THEN {a} ELSE {}, {})

(* redis-locks restarts: the script cache is empty, and what it had not    *)
(* saved is gone.                                                          *)
RestartRedis(kept) ==
    /\ Fault
    /\ script' = FALSE
    /\ lock'   = lock \cap kept
    /\ UNCHANGED <<batch, queue>>
    /\ History({a \in lock \ kept : Relying(a)}, {})

(***************************************************************************)
(* rmq: delivery, and the cleaner the scheduler runs every five seconds.   *)
(***************************************************************************)
Deliver(c, a) ==
    /\ pc[c] = "idle"
    /\ ready[a] > 0
    /\ ready' = [ready EXCEPT ![a] = @ - 1]
    /\ pc'    = [pc EXCEPT ![c] = "delivered"]
    /\ job'   = [job EXCEPT ![c] = a]
    /\ owns'  = [owns EXCEPT ![c] = TRUE]
    /\ UNCHANGED <<lock, sched, orphans, faults>>
    /\ History({}, {})

(* The worker process dies; the one that replaces it is a new connection.  *)
(* A delivery it still owned is redelivered: with the key gone if it died  *)
(* between Del and Ack.                                                    *)
Crash(c) ==
    /\ Fault
    /\ pc[c] # "idle"
    /\ orphans' = IF owns[c] THEN [orphans EXCEPT ![job[c]] = @ + 1] ELSE orphans
    /\ Drop(c)
    /\ UNCHANGED <<lock, sched, ready>>
    /\ History(IF owns[c] /\ pc[c] = "acking" THEN {job[c]} ELSE {},
               IF owns[c] THEN {} ELSE {job[c]})

CleanOrphan(a) ==
    /\ orphans[a] > 0
    /\ orphans' = [orphans EXCEPT ![a] = @ - 1]
    /\ ready'   = [ready EXCEPT ![a] = @ + 1]
    /\ UNCHANGED <<lock, sched, pc, job, owns, faults>>
    /\ History({}, {})

(* The heartbeat stopped and the process did not: the delivery goes back   *)
(* to the queue while its consumer goes on.                                *)
CleanLive(c) ==
    /\ Fault
    /\ owns[c]
    /\ owns'  = [owns EXCEPT ![c] = FALSE]
    /\ ready' = [ready EXCEPT ![job[c]] = @ + 1]
    /\ UNCHANGED <<lock, sched, pc, job, orphans>>
    /\ History({job[c]}, {})

(***************************************************************************)
(* Consume, up to the job itself and after it.                             *)
(***************************************************************************)
(* PTTL answers -2 for a key that is gone, and the code skips on 0: the    *)
(* job runs whether or not its key is still there.                         *)
StartJob(c) ==
    /\ pc[c] = "delivered"
    /\ pc' = [pc EXCEPT ![c] = "working"]
    /\ UNCHANGED <<lock, sched, ready, job, owns, orphans, faults>>
    /\ History({}, {})

(* PTTL is 0 when the call itself fails: the job is dropped as too old.    *)
SkipJob(c) ==
    /\ Fault
    /\ pc[c] = "delivered"
    /\ pc' = [pc EXCEPT ![c] = "skipping"]
    /\ UNCHANGED <<lock, sched, ready, job, owns, orphans>>
    /\ History({}, {})

(* The deferred Del, on every way out of the job.                          *)
FinishWithoutDel(c) ==
    /\ pc[c] = "working"
    /\ pc' = [pc EXCEPT ![c] = "acking"]
    /\ UNCHANGED <<lock, sched, ready, job, owns, orphans, faults>>
    /\ History({}, {})

FinishJob(c) ==
    /\ pc[c] = "working"
    /\ pc'   = [pc EXCEPT ![c] = "acking"]
    /\ lock' = lock \ {job[c]}
    /\ UNCHANGED <<sched, ready, job, owns, orphans, faults>>
    /\ History({}, {})

(* Del fails: logged, and the key stays until it expires.                  *)
FinishDelFails(c) ==
    /\ Fault
    /\ pc[c] = "working"
    /\ pc' = [pc EXCEPT ![c] = "skipping"]
    /\ UNCHANGED <<lock, sched, ready, job, owns, orphans>>
    /\ History({}, {})

(* The deferred Ack runs last (deferred first).  If the cleaner has taken  *)
(* the delivery there is nothing left to acknowledge.                      *)
AckWithoutRelease(c) ==
    /\ pc[c] \in {"skipping", "acking"}
    /\ pc' = [pc EXCEPT ![c] = "idle"]
    /\ UNCHANGED <<lock, sched, ready, job, owns, orphans, faults>>
    /\ History({}, {})
Ack(c) ==
    /\ pc[c] \in {"skipping", "acking"}
    /\ Drop(c)
    /\ UNCHANGED <<lock, sched, ready, orphans, faults>>
    /\ History({}, IF pc[c] = "skipping" THEN {job[c]} ELSE {})

-----------------------------------------------------------------------------
ConsumerNext(c) ==
    \/ \E a \in Ids : Deliver(c, a)
    \/ StartJob(c) \/ SkipJob(c)
    \/ FinishJob(c) \/ FinishDelFails(c)
    \/ Ack(c)
    \/ Crash(c) \/ CleanLive(c)

SchedulerNext ==
    \/ \E g \in Chunks, S \in SUBSET Ids : Claim(g, S)
    \/ \E g \in Chunks : Publish(g) \/ PublishFails(g)
    \/ RestartScheduler
    \/ \E a \in Ids : CleanOrphan(a)

RedisNext ==
    \/ \E a \in Ids : Expire(a)
    \/ \E kept \in SUBSET Ids : RestartRedis(kept)

Next ==
    \/ \E c \in Consumers : ConsumerNext(c)
    \/ SchedulerNext
    \/ RedisNext

Spec == Init /\ [][Next]_vars

(***************************************************************************)
(* Fairness.  Every goroutine that can go on does, and the TTL runs out on *)
(* a key without a job.  The scheduler tries every account in each run and *)
(* the ready list is first in, first out: an id that is again and again    *)
(* free to be claimed, or ready when a consumer is free, has its turn.     *)
(***************************************************************************)
Fairness ==
    /\ \A g \in Chunks : WF_vars(Publish(g))
    /\ \A c \in Consumers : WF_vars(StartJob(c)) /\ WF_vars(FinishJob(c))
                                                 /\ WF_vars(Ack(c))
    /\ \A a \in Ids :
        /\ SF_vars(\E g \in Chunks, S \in SUBSET Ids : a \in S /\ Claim(g, S))
        /\ SF_vars(\E c \in Consumers : Deliver(c, a))
        /\ WF_vars(CleanOrphan(a))
        /\ WF_vars(~Relying(a) /\ Expire(a))

FairSpec == Spec /\ Fairness

-----------------------------------------------------------------------------
(* Every variable holds what its declaration says.                         *)
TypeOK ==
    /\ lock \subseteq Ids
    /\ script \in BOOLEAN
    /\ batch \in [Chunks -> SUBSET Ids]
    /\ ready \in [Ids -> Nat]
    /\ pc \in [Consumers -> {"idle", "delivered", "working", "skipping", "acking"}]
    /\ job \in [Consumers -> Ids \cup {NoJob}]
    /\ \A c \in Consumers : pc[c] = "idle" <=> job[c] = NoJob
    /\ owns \in [Consumers -> BOOLEAN]
    /\ \A c \in Consumers : owns[c] => pc[c] # "idle"
    /\ orphans \in [Ids -> Nat]
    /\ faults \in 0..MaxFaults
    /\ overrun \subseteq Ids
    /\ leaked \subseteq lock

(* What the lease is for: two consumers work for one id at the same time   *)
(* only while the id is overrun, that is, after its key expired (or was    *)
(* lost) under a job, or the queue redelivered a job that was still        *)
(* running or already unlocked.  It holds again once those jobs drained.   *)
ExclusiveWork ==
    \A a \in Ids \ overrun : \A c, d \in Consumers :
        /\ pc[c] = "working" /\ job[c] = a
        /\ pc[d] = "working" /\ job[d] = a
        => c = d

(* The invariant behind it.  An id that is not overrun has at most one job *)
(* between its lock and its Del, in one place (a batch, the ready list, a  *)
(* dead connection or a consumer), and while it has one its key exists: no *)
(* second job can be claimed, and no Del takes the key of another job.     *)
LeaseOf(a) ==
    /\ Relying(a) => a \in lock
    /\ \A g \in Chunks : a \in batch[g] =>
        /\ \A h \in Chunks : a \in batch[h] => h = g
        /\ ready[a] = 0 /\ orphans[a] = 0
        /\ \A c \in Consumers : ~Holds(c, a)
    /\ ready[a] > 0 =>
        /\ ready[a] = 1 /\ orphans[a] = 0
        /\ \A c \in Consumers : ~Holds(c, a)
    /\ orphans[a] > 0 =>
        /\ orphans[a] = 1
        /\ \A c \in Consumers : ~Holds(c, a)
    /\ \A c, d \in Consumers : Holds(c, a) /\ Holds(d, a) => c = d

OneJobPerLease == \A a \in Ids \ overrun : LeaseOf(a)

(* A key never blocks an id for nothing: an existing key belongs to a job  *)
(* on its way, unless a failed Publish, a scheduler restart, a failed PTTL *)
(* or Del, or a lost delivery left it behind (it then blocks the id for    *)
(* the rest of its five minutes).                                          *)
NoSilentLeak == \A a \in lock \ leaked : Relying(a)

(* Every id is worked on again and again, whatever failed before: keys and *)
(* deliveries that were left behind come back.  The one exception is a     *)
(* redis-locks that restarted under a scheduler that did not: EvalSha then *)
(* fails on every run and nothing is enqueued any more.                    *)
WorkedAgain ==
    \A a \in Ids :
        \/ []<>(\E c \in Consumers : pc[c] = "working" /\ job[c] = a)
        \/ <>[](~script)
=============================================================================
