--------------------------- MODULE LiveActivities ---------------------------
(***************************************************************************)
(* Live activities: the row the API writes, the scheduler's batches, the   *)
(* "live-activities" consumer and the pruning of stale rows.  Jobs reach   *)
(* the consumer through LockedJobs, keyed by the activity's APNs token.    *)
(*                                                                         *)
(* A row lives for Duration after its last registration.  The consumer     *)
(* reads the clock and the row once, and its last push, its choice between *)
(* "update" and "end", and the deletion after it all go by that copy.      *)
(***************************************************************************)
EXTENDS Naturals, FiniteSets

CONSTANTS
    Tokens,         \* APNs tokens: the rows' keys, and the lock's
    NoJob, Chunks, Consumers, MaxFaults,    \* see LockedJobs
    NoRow,          \* what activity[t] is when there is no row
    Duration,       \* LiveActivityDuration
    Grace,          \* how long pruneLiveActivities spares an expired row
    MaxTime,        \* bound: the clock stops there
    MaxRegistrations \* bound: registrations in a behaviour

ASSUME QueueAssumption == NoJob \notin Tokens /\ MaxFaults \in Nat
ASSUME ActivitiesAssumption ==
    /\ Duration \in Nat /\ Grace \in Nat /\ MaxTime \in Nat
    /\ MaxRegistrations \in Nat
    /\ NoRow \notin [reg : Nat, expires : Nat]

VARIABLES
    lock, script, batch, ready, pc, job, owns, orphans, faults,
    overrun, leaked,    \* the queue: see LockedJobs
    now,        \* the clock
    activity,   \* the row of each token: when it expires, and which
                \* registration it is (the code has the first only)
    selected,   \* tokens a scheduler run has read and not yet locked
    work,       \* where a consumer stands, its clock and its copy of the row
    apns,       \* FALSE once the worker runs without APNs (Bark-only)
    regs,       \* registrations so far
    ended,      \* history: registrations whose "end" has been pushed
    undeleted   \* history: registrations a failed Delete left behind

queueVars == <<lock, script, batch, ready, pc, job, owns, orphans, overrun, leaked>>
vars == <<queueVars, faults, now, activity, selected, work, apns, regs, ended, undeleted>>

Queue == INSTANCE LockedJobs WITH Ids <- Tokens

Calm    == UNCHANGED <<queueVars, faults, now, selected, apns, regs>>
Failing == Queue!Fault /\ UNCHANGED <<queueVars, now, selected, apns, regs>>

-----------------------------------------------------------------------------
(* Time, and the app.                                                      *)
Tick ==
    /\ now < MaxTime
    /\ now' = now + 1
    /\ UNCHANGED <<queueVars, faults, activity, selected, work, apns, regs, ended, undeleted>>

(* Create upserts on the token: registering again extends the row's life.  *)
(* (The last registration leaves the clock time to pass its expiry.)       *)
Create(t) ==
    /\ regs < MaxRegistrations
    /\ now + Duration < MaxTime
    /\ regs' = regs + 1
    /\ activity' = [activity EXCEPT ![t] = [reg |-> regs', expires |-> now + Duration]]
    /\ UNCHANGED <<queueVars, faults, now, selected, work, apns, ended, undeleted>>

-----------------------------------------------------------------------------
(* The scheduler: one UPDATE ... RETURNING, then the lock script, then the *)
(* queue.                                                                  *)
HasRow(t) == activity[t] # NoRow

Select(g) ==
    /\ selected[g] = {} /\ batch[g] = {}
    /\ \E S \in SUBSET {t \in Tokens : HasRow(t)} :
        selected' = [selected EXCEPT ![g] = S]
    /\ UNCHANGED <<queueVars, faults, now, activity, work, apns, regs, ended, undeleted>>

LockRegardless(g) ==
    /\ selected[g] # {}
    /\ selected' = [selected EXCEPT ![g] = {}]
    /\ batch' = [batch EXCEPT ![g] = selected[g]]
    /\ UNCHANGED <<lock, script, ready, pc, job, owns, orphans, overrun, leaked, faults>>
    /\ UNCHANGED <<now, activity, work, apns, regs, ended, undeleted>>
LockSelected(g) ==
    /\ selected[g] # {}
    /\ selected' = [selected EXCEPT ![g] = {}]
    /\ \/ Queue!Claim(g, selected[g])
       \/ /\ script => selected[g] \subseteq lock
          /\ UNCHANGED <<queueVars, faults>>
    /\ UNCHANGED <<now, activity, work, apns, regs, ended, undeleted>>

RestartScheduler ==
    /\ Queue!RestartScheduler
    /\ selected' = [g \in Chunks |-> {}]
    /\ UNCHANGED <<now, activity, work, apns, regs, ended, undeleted>>

(* The worker stops, which waits for its jobs, and starts in Bark-only     *)
(* mode.  (The API refuses registrations from its own restart on: before   *)
(* this step or after it.)                                                 *)
TurnBarkOnly ==
    /\ apns /\ apns' = FALSE
    /\ \A c \in Consumers : pc[c] = "idle"
    /\ UNCHANGED <<queueVars, faults, now, activity, selected, work, regs, ended, undeleted>>

(* RemoveStale: rows that expired more than Grace ago.                     *)
PruneWithoutGrace ==
    /\ \E t \in Tokens : HasRow(t) /\ activity[t].expires < now + Grace
    /\ activity' = [t \in Tokens |->
         IF HasRow(t) /\ activity[t].expires < now + Grace THEN NoRow ELSE activity[t]]
    /\ UNCHANGED <<queueVars, faults, now, selected, work, apns, regs, ended, undeleted>>
Prune ==
    /\ \E t \in Tokens : HasRow(t) /\ activity[t].expires + Grace < now
    /\ activity' = [t \in Tokens |->
         IF HasRow(t) /\ activity[t].expires + Grace < now THEN NoRow ELSE activity[t]]
    /\ UNCHANGED <<queueVars, faults, now, selected, work, apns, regs, ended, undeleted>>

-----------------------------------------------------------------------------
(* The consumer.                                                           *)
Idle == [at |-> "idle", clock |-> 0, reg |-> 0, expires |-> 0]

Becomes(c, w) == work' = [work EXCEPT ![c] = w]
Goes(c, p)    ==
    Becomes(c, [(IF p = "done" THEN Idle ELSE work[c]) EXCEPT !.at = p])

Expired(w) == w.expires < w.clock

(* Without APNs the job is to delete the row.                              *)
StartJob(c) ==
    /\ Queue!StartJob(c)
    /\ Becomes(c, [Idle EXCEPT !.at = IF apns THEN "get" ELSE "drop", !.clock = now])
    /\ UNCHANGED <<now, activity, selected, apns, regs, ended, undeleted>>

Get(c) ==
    /\ work[c].at = "get"
    /\ LET row == activity[job[c]] IN
         Becomes(c, IF row = NoRow THEN [Idle EXCEPT !.at = "done"]
                    ELSE [work[c] EXCEPT !.at = "account", !.reg = row.reg,
                                         !.expires = row.expires])
    /\ Calm /\ UNCHANGED <<activity, ended, undeleted>>

(* The account is not there, or cannot be read: the row goes.              *)
GetAccount(c) ==
    /\ work[c].at = "account"
    /\ \E p \in {"poll", "drop"} : Goes(c, p)
    /\ Calm /\ UNCHANGED <<activity, ended, undeleted>>

(* Comments to show, or a last push to make; nothing new; or a revoked     *)
(* grant, and the row goes.  (The token refresh before it is part of this  *)
(* step; what it does to the account's row is in InboxNotifications.)      *)
PollWithoutExpiry(c) ==
    /\ work[c].at = "poll"
    /\ \E p \in {"push", "done", "drop"} : Goes(c, p)
    /\ Calm /\ UNCHANGED <<activity, ended, undeleted>>
Poll(c) ==
    /\ work[c].at = "poll"
    /\ \E p \in {"push", "done", "drop"} :
        /\ p = "done" => work[c].expires > work[c].clock
        /\ Goes(c, p)
    /\ Calm /\ UNCHANGED <<activity, ended, undeleted>>

(* A query or a call to Reddit fails.                                      *)
CallFails(c) ==
    /\ work[c].at \in {"get", "poll"}
    /\ Goes(c, "done")
    /\ Failing /\ UNCHANGED <<activity, ended, undeleted>>

(* "update", or "end" once the copy has expired.                           *)
AfterPush(w) == IF Expired(w) THEN "expired" ELSE "done"

Push(c) ==
    /\ work[c].at = "push"
    /\ Goes(c, AfterPush(work[c]))
    /\ ended' = IF Expired(work[c]) THEN ended \cup {work[c].reg} ELSE ended
    /\ Calm /\ UNCHANGED <<activity, undeleted>>

(* An error of the call, or an answer other than 200.                      *)
PushFails(c) ==
    /\ work[c].at = "push"
    /\ Goes(c, "rejected")
    /\ Calm /\ UNCHANGED <<activity, ended, undeleted>>

Deleting == {"drop", "rejected", "expired"}

AfterDelete(w) == IF w.at = "rejected" THEN AfterPush(w) ELSE "done"

(* By token: whatever row is there now.                                    *)
SkipDelete(c) ==
    /\ work[c].at \in Deleting
    /\ Goes(c, AfterDelete(work[c]))
    /\ Calm /\ UNCHANGED <<activity, ended, undeleted>>
Delete(c) ==
    /\ work[c].at \in Deleting
    /\ activity' = [activity EXCEPT ![job[c]] = NoRow]
    /\ Goes(c, AfterDelete(work[c]))
    /\ Calm /\ UNCHANGED <<ended, undeleted>>

(* Its error is dropped.                                                   *)
DeleteFails(c) ==
    /\ work[c].at \in Deleting
    /\ undeleted' = undeleted \cup {work[c].reg}
    /\ Goes(c, AfterDelete(work[c]))
    /\ Failing /\ UNCHANGED <<activity, ended>>

FinishWithoutReset(c) ==
    /\ work[c].at = "done"
    /\ Queue!FinishJob(c)
    /\ UNCHANGED <<now, activity, selected, work, apns, regs, ended, undeleted>>
FinishJob(c) ==
    /\ work[c].at = "done"
    /\ Queue!FinishJob(c) \/ Queue!FinishDelFails(c)
    /\ Becomes(c, Idle)
    /\ UNCHANGED <<now, activity, selected, apns, regs, ended, undeleted>>

(* A crash between the "end" and the Delete leaves the row behind, too.    *)
Crash(c) ==
    /\ Queue!Crash(c)
    /\ Becomes(c, Idle)
    /\ undeleted' = IF work[c].at \in Deleting THEN undeleted \cup {work[c].reg}
                                               ELSE undeleted
    /\ UNCHANGED <<now, activity, selected, apns, regs, ended>>

ConsumerStep(c) ==
    \/ StartJob(c) \/ Get(c) \/ GetAccount(c) \/ Poll(c)
    \/ Push(c) \/ PushFails(c) \/ Delete(c) \/ FinishJob(c)

-----------------------------------------------------------------------------
(* The steps of LockedJobs this module adds nothing to.                    *)
Besides == UNCHANGED <<now, activity, selected, work, apns, regs, ended, undeleted>>

QueueStep ==
    /\ \/ \E g \in Chunks : Queue!Publish(g) \/ Queue!PublishFails(g)
       \/ \E t \in Tokens : Queue!CleanOrphan(t)
       \/ Queue!RedisNext
       \/ \E c \in Consumers :
            \/ \E t \in Tokens : Queue!Deliver(c, t)
            \/ Queue!SkipJob(c) \/ Queue!Ack(c) \/ Queue!CleanLive(c)
    /\ Besides

Init ==
    /\ Queue!Init
    /\ now = 0 /\ regs = 0 /\ apns = TRUE
    /\ activity = [t \in Tokens |-> NoRow]
    /\ selected = [g \in Chunks |-> {}]
    /\ work = [c \in Consumers |-> Idle]
    /\ ended = {} /\ undeleted = {}

Next ==
    \/ Tick
    \/ \E t \in Tokens : Create(t)
    \/ \E g \in Chunks : Select(g) \/ LockSelected(g)
    \/ RestartScheduler \/ Prune \/ TurnBarkOnly
    \/ QueueStep
    \/ \E c \in Consumers :
        ConsumerStep(c) \/ CallFails(c) \/ DeleteFails(c) \/ Crash(c)

Spec == Init /\ [][Next]_vars

(* As in LockedJobs, with the clock.  Every row comes due every            *)
(* LiveActivityCheckInterval, oldest first, so that one which stays is     *)
(* selected and locked again and again.  Prune has no fairness here: the   *)
(* consumers have to do without it.                                        *)
Fairness ==
    /\ WF_vars(Tick)
    /\ \A g \in Chunks :
        WF_vars(LockSelected(g) \/ (Queue!Publish(g) /\ Besides))
    /\ \A t \in Tokens :
        /\ SF_vars(\E g \in Chunks : Select(g) /\ t \in selected'[g])
        /\ SF_vars(\E g \in Chunks : LockSelected(g) /\ t \in batch'[g])
        /\ SF_vars((\E c \in Consumers : Queue!Deliver(c, t)) /\ Besides)
        /\ WF_vars((Queue!CleanOrphan(t) \/ (~Queue!Relying(t) /\ Queue!Expire(t)))
                   /\ Besides)
    /\ \A c \in Consumers : WF_vars(ConsumerStep(c) \/ (Queue!Ack(c) /\ Besides))

FairSpec == Spec /\ Fairness

-----------------------------------------------------------------------------
Registrations == 1..MaxRegistrations

(* Every variable holds what its declaration says.                         *)
TypeOK ==
    /\ Queue!TypeOK
    /\ now \in 0..MaxTime
    /\ activity \in [Tokens -> {NoRow} \cup
                      [reg : Registrations, expires : 0..MaxTime]]
    /\ selected \in [Chunks -> SUBSET Tokens]
    /\ work \in [Consumers ->
         [at : {"idle", "get", "account", "poll", "push", "done"} \cup Deleting,
          clock : 0..MaxTime, reg : 0..MaxRegistrations, expires : 0..MaxTime]]
    /\ \A c \in Consumers : work[c].at = "idle" <=> pc[c] # "working"
    /\ apns \in BOOLEAN
    /\ regs \in 0..MaxRegistrations
    /\ ended \subseteq Registrations
    /\ undeleted \subseteq 0..MaxRegistrations

(* Live activities keep to the queue they share with the accounts: every   *)
(* step, whatever it does to rows and clocks, does to keys and deliveries  *)
(* what LockedJobs allows, or nothing.  So what holds of the queue holds   *)
(* here: two jobs of one activity overlap only where ExclusiveWork says.   *)
(* (faults counts the failures of both, and is left out.)                  *)
ImplementsQueue == Queue!Init /\ [][Queue!Next]_queueVars

(* An activity whose "end" was pushed hears no more: neither an update by  *)
(* a job that read it earlier nor a second "end" by a later job.  It takes *)
(* two jobs that overlap because the lease ran out, or a row that a failed *)
(* Delete or a crash left behind, to break it.                             *)
NothingAfterEnd ==
    [][\A c \in Consumers :
         Push(c) /\ work[c].reg \in ended
         => job[c] \in overrun \/ work[c].reg \in undeleted]_vars

(* A row is removed before it has expired only by a job with a reason      *)
(* other than its age (no account, a revoked grant, a rejected push), or   *)
(* by one that read an earlier registration of the same token.             *)
LivesItsTime ==
    [][\A t \in Tokens :
         HasRow(t) /\ activity'[t] = NoRow /\ now <= activity[t].expires
         => \E c \in Consumers :
              /\ job[c] = t
              /\ work[c].at \in Deleting
              /\ work[c].at # "expired" \/ work[c].reg < activity[t].reg]_vars

(* The consumers alone, with no pruning, see every row off.                *)
EventuallyRemoved ==
    \/ \A t \in Tokens : HasRow(t) ~> ~HasRow(t)
    \/ <>[](~script)
=============================================================================
