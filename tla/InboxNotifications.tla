------------------------- MODULE InboxNotifications -------------------------
(***************************************************************************)
(* One account's inbox polling: the "notifications" consumer, from the row *)
(* it reads to the pushes it sends, together with everything that writes   *)
(* the same row without its lock: the "stuck-notifications" consumer, the  *)
(* token refresh of the "live-activities" consumer and the registration    *)
(* handler of the API.  Jobs reach the consumer through LockedJobs.        *)
(*                                                                         *)
(* accountRepo.Update writes every column of the row from the caller's     *)
(* copy, so any two of these processes can overwrite each other.  Tokens   *)
(* are left out of the row (Reddit's refresh token is stable): the columns *)
(* that matter are last_message_id and check_count.                        *)
(***************************************************************************)
EXTENDS Naturals, Sequences, FiniteSets

CONSTANTS
    Account,        \* the account's lock key
    NoJob, Chunks, Consumers, MaxFaults,    \* see LockedJobs
    Devices,        \* device rows the account can be associated with
    Stuck,          \* stuck-notifications consumers
    Refreshers,     \* live-activities consumers that refresh the token
    Registrars,     \* API requests that register the account
    MaxMessages,    \* bound: messages that ever arrive
    MaxRemovals,    \* bound: messages removed or deleted on Reddit
    PageLimit,      \* messages in a page of the consumer's inbox listing
    StuckLimit,     \* messages in the stuck consumer's listing (the default)
    PrivateMessages \* the messages that are t4, not t1

ASSUME InboxAssumption ==
    /\ MaxMessages \in Nat /\ MaxRemovals \in Nat
    /\ PageLimit \in Nat \ {0} /\ StuckLimit \in Nat \ {0}
    /\ PrivateMessages \subseteq 1..MaxMessages

(* A process has one part to play.                                         *)
ASSUME ProcessesAssumption ==
    /\ Consumers \cap (Stuck \cup Refreshers \cup Registrars) = {}
    /\ Stuck \cap (Refreshers \cup Registrars) = {}
    /\ Refreshers \cap Registrars = {}

(* What LockedJobs assumes of its constants.                               *)
ASSUME QueueAssumption == NoJob # Account /\ MaxFaults \in Nat

VARIABLES
    lock, script, batch, ready, pc, job, owns, orphans, faults,
    overrun, leaked,    \* the queue: see LockedJobs
    inbox,      \* Reddit: the state of each message, in order of arrival
    base,       \* messages that were there when the account registered
    row,        \* the account's row
    assoc,      \* devices associated with the account
    work,       \* what each process holds in memory, and where it stands
    sent,       \* history: messages pushed to each device
    skipped,    \* history: messages the cursor passed for a known reason
    swallowed,  \* history: messages the warm-up dropped
    stale,      \* history: processes whose copy of the row is out of date
    again       \* history: messages a bad write put after the cursor again

queueVars == <<lock, script, batch, ready, pc, job, owns, orphans, overrun, leaked>>
history   == <<sent, skipped, swallowed>>
vars == <<queueVars, faults, inbox, base, row, assoc, work, history, stale, again>>

Queue == INSTANCE LockedJobs WITH Ids <- {Account}

Messages  == 1..MaxMessages
Processes == Consumers \cup Stuck \cup Refreshers \cup Registrars

MaxOf(S) == CHOOSE m \in S \cup {0} : \A n \in S : n <= m
MinOf(S) == CHOOSE m \in S : \A n \in S : m <= n

-----------------------------------------------------------------------------
(* Reddit.  A message is live, has a "[deleted]" author, or is gone from   *)
(* the inbox.  Listings run from the newest to the oldest; a cursor of 0   *)
(* is the empty string.                                                    *)
Live    == {m \in Messages : inbox[m] = "live"}
Listing == {m \in Messages : inbox[m] \in {"live", "deleted"}}

(* The newest, and the oldest, k messages of S.                            *)
Newest(k, S) == {m \in S : Cardinality({n \in S : n > m}) < k}
Oldest(k, S) == {m \in S : Cardinality({n \in S : n < m}) < k}

(* GET /message/inbox?limit&before: the page next to the cursor.  Reddit   *)
(* answers nothing when the cursor is no longer in the listing.            *)
WithoutBefore(cursor) == Newest(PageLimit, Listing)
MessageInbox(cursor) ==
    IF cursor = 0 THEN Newest(PageLimit, Listing)
    ELSE IF cursor \notin Listing THEN {}
    ELSE Oldest(PageLimit, {m \in Listing : m > cursor})

Removals == Cardinality({m \in Messages : inbox[m] \in {"deleted", "gone"}})

(* The rest of the world leaves the program alone.                         *)
Environment == UNCHANGED <<queueVars, faults, base, row, assoc, work, history, stale, again>>

Arrive ==
    /\ \E m \in Messages :
        /\ inbox[m] = "none" /\ \A n \in 1..(m - 1) : inbox[n] # "none"
        /\ inbox' = [inbox EXCEPT ![m] = "live"]
    /\ Environment

Remove ==
    /\ \E m \in Listing : \E how \in {"deleted", "gone"} \ {inbox[m]} :
        /\ m \in Live => Removals < MaxRemovals
        /\ inbox' = [inbox EXCEPT ![m] = how]
    /\ Environment

-----------------------------------------------------------------------------
Idle == [at |-> "idle", cursor |-> 0, count |-> 0, page |-> {}, devs |-> {}, todo |-> {}]
Done == [Idle EXCEPT !.at = "done"]

(* A process reads the row.                                                *)
Copy(at) == [Idle EXCEPT !.at = at, !.cursor = row.cursor, !.count = row.count]

Becomes(x, w) == work' = [work EXCEPT ![x] = w]

(* A copy that its process may still write back.                           *)
Writes(x) == work[x].at \notin {"idle", "done", "load", "devices", "push",
                                "devs", "detach", "associate"}

Between(low, high) == {m \in Messages : low < m /\ m <= high}

(* A write that changes the cursor or the count makes every other copy     *)
(* stale.  One from a stale copy, or the empty string, puts messages that  *)
(* were handled after the cursor again.                                    *)
Written(x) ==
    /\ stale' = IF row' = row THEN stale \ {x}
                ELSE {y \in Processes \ {x} : Writes(y)}
    /\ again' = IF x \in stale \/ row'.cursor = 0
                THEN again \cup Between(row'.cursor, row.cursor) ELSE again

(* accountRepo.Update: the whole row from x's copy, whoever wrote it since *)
(* x read it.  is_deleted is not among the columns.                        *)
Update(x, w) ==
    /\ row' = [row EXCEPT !.cursor = w.cursor, !.count = w.count]
    /\ Written(x)

NoUpdate == UNCHANGED <<row, stale, again>>

Calm    == UNCHANGED <<queueVars, faults, inbox, base>>
Failing == Queue!Fault /\ UNCHANGED <<queueVars, inbox, base>>

Skip(S) == skipped' = skipped \cup S

-----------------------------------------------------------------------------
(* The notifications consumer.                                             *)

StartJob(c) ==
    /\ Queue!StartJob(c)
    /\ Becomes(c, [Idle EXCEPT !.at = "load"])
    /\ UNCHANGED <<inbox, base, assoc, history>> /\ NoUpdate

LoadAccount(c) ==
    /\ work[c].at = "load"
    /\ IF row.deleted
         THEN Becomes(c, Done)
         ELSE \E next \in {"refresh", "fetch"} : Becomes(c, Copy(next))
    /\ stale' = stale \ {c}
    /\ Calm /\ UNCHANGED <<row, assoc, history, again>>

(* The access token is about to expire: the new one is saved with the rest *)
(* of the copy.                                                            *)
RefreshTokens(c) ==
    /\ work[c].at = "refresh"
    /\ Update(c, work[c])
    /\ Becomes(c, [work[c] EXCEPT !.at = "fetch"])
    /\ Calm /\ UNCHANGED <<assoc, history>>

FetchInbox(c) ==
    /\ work[c].at = "fetch"
    /\ LET page == MessageInbox(work[c].cursor) IN
         Becomes(c, IF page = {} THEN Done
                    ELSE [work[c] EXCEPT !.at = "advance", !.page = page \cap Live])
    /\ NoUpdate /\ Calm /\ UNCHANGED <<assoc, history>>

(* A Reddit or database call fails before anything was decided.            *)
CallFails(c) ==
    /\ work[c].at \in {"load", "refresh", "fetch", "devs", "detach"}
    /\ Becomes(c, Done)
    /\ NoUpdate /\ Failing /\ UNCHANGED <<assoc, history>>

(* Where the newest message of the page that is not deleted leads: to the  *)
(* warm-up on the first check, else to the devices.                        *)
MovedToNewest(w) == [w EXCEPT !.at     = IF w.count = 0 THEN "warm" ELSE "devices",
                              !.cursor = IF w.page = {} THEN @ ELSE MaxOf(Live)]
Moved(w) == [w EXCEPT !.at     = IF w.count = 0 THEN "warm" ELSE "devices",
                      !.cursor = IF w.page = {} THEN @ ELSE MaxOf(w.page)]

(* Without a cursor only the newest page is seen, and never what is older. *)
Unlisted(w) ==
    {m \in Live : w.cursor = 0 /\ w.page # {} /\ m < MinOf(w.page)}

(* The cursor is saved before anything is pushed.                          *)
AdvanceWithoutUpdate(c) ==
    /\ work[c].at = "advance"
    /\ Becomes(c, Moved(work[c]))
    /\ NoUpdate
    /\ Calm /\ UNCHANGED <<assoc, history>>
AdvanceCursor(c) ==
    /\ work[c].at = "advance"
    /\ Becomes(c, Moved(work[c]))
    /\ IF work[c].page = {} THEN NoUpdate ELSE Update(c, Moved(work[c]))
    /\ Skip(Unlisted(work[c]))
    /\ Calm /\ UNCHANGED <<assoc, sent, swallowed>>

(* The error of that Update is dropped and the job goes on: what it pushes *)
(* is still after the cursor in the row.                                   *)
AdvanceNotSaved(c) ==
    /\ work[c].at = "advance"
    /\ work[c].page # {}
    /\ Becomes(c, Moved(work[c]))
    /\ again' = again \cup Between(row.cursor, MaxOf(work[c].page))
    /\ Skip(Unlisted(work[c]))
    /\ Failing /\ UNCHANGED <<row, stale, assoc, sent, swallowed>>

(* The first check only sets the mark: its whole page is dropped.          *)
WarmUp(c) ==
    /\ work[c].at = "warm"
    /\ Update(c, [work[c] EXCEPT !.count = 1])
    /\ swallowed' = swallowed \cup work[c].page
    /\ Becomes(c, Done)
    /\ Calm /\ UNCHANGED <<assoc, sent, skipped>>

(* Its Update fails: the next check is a warm-up again.                    *)
WarmUpNotSaved(c) ==
    /\ work[c].at = "warm"
    /\ swallowed' = swallowed \cup work[c].page
    /\ Becomes(c, Done)
    /\ NoUpdate /\ Failing /\ UNCHANGED <<assoc, sent, skipped>>

(* The devices are read once for the whole page.                           *)
GetDevices(c) ==
    /\ work[c].at = "devices"
    /\ IF assoc = {} \/ work[c].page = {}
         THEN Becomes(c, Done) /\ Skip(work[c].page)
         ELSE /\ Becomes(c, [Idle EXCEPT !.at = "push", !.page = work[c].page,
                                         !.devs = assoc, !.todo = assoc])
              /\ UNCHANGED skipped
    /\ NoUpdate /\ Calm /\ UNCHANGED <<assoc, sent, swallowed>>

(* The query for them fails, after the cursor has moved.                   *)
GetDevicesFails(c) ==
    /\ work[c].at = "devices"
    /\ Becomes(c, Done)
    /\ Skip(work[c].page)
    /\ NoUpdate /\ Failing /\ UNCHANGED <<assoc, sent, swallowed>>

(* From the oldest message of the page to the newest, to every device.     *)
NewestFirst(w) == MaxOf(w.page)
NextMessage(w) == MinOf(w.page)

AfterFirstPush(w, d) == Done
AfterPushToOne(w, d) ==
    IF Cardinality(w.page) = 1 THEN Done
    ELSE [w EXCEPT !.page = @ \ {NextMessage(w)}, !.todo = w.devs]
AfterPush(w, d) ==
    IF w.todo # {d} THEN [w EXCEPT !.todo = @ \ {d}]
    ELSE IF Cardinality(w.page) = 1 THEN Done
    ELSE [w EXCEPT !.page = @ \ {NextMessage(w)}, !.todo = w.devs]

Push(c, d) ==
    /\ work[c].at = "push"
    /\ d \in work[c].todo
    /\ Becomes(c, AfterPush(work[c], d))
    /\ sent' = [sent EXCEPT ![d] = @ \cup {NextMessage(work[c])}]
    /\ NoUpdate /\ Calm /\ UNCHANGED <<assoc, skipped, swallowed>>

(* An error or a rejection is logged and never tried again; one that says  *)
(* the device is gone deletes its row, and the job goes on with the        *)
(* devices it read.                                                        *)
PushRejected(c, d) ==
    /\ work[c].at = "push"
    /\ d \in work[c].todo
    /\ Becomes(c, AfterPush(work[c], d))
    /\ Skip({NextMessage(work[c])})
    /\ \E gone \in {{}, {d}} : assoc' = assoc \ gone
    /\ NoUpdate /\ Calm /\ UNCHANGED <<sent, swallowed>>

(* The grant was revoked: the account is detached from its devices, one by *)
(* one, and then marked deleted.                                           *)
GrantRevoked(c) ==
    /\ work[c].at \in {"refresh", "fetch"}
    /\ Becomes(c, [Idle EXCEPT !.at = "devs"])
    /\ NoUpdate /\ Failing /\ UNCHANGED <<assoc, history>>

ListDevices(c) ==
    /\ work[c].at = "devs"
    /\ Becomes(c, [Idle EXCEPT !.at = "detach", !.todo = assoc])
    /\ NoUpdate /\ Calm /\ UNCHANGED <<assoc, history>>

Disassociate(c, d) ==
    /\ work[c].at = "detach"
    /\ d \in work[c].todo
    /\ assoc' = assoc \ {d}
    /\ Becomes(c, [work[c] EXCEPT !.todo = @ \ {d}])
    /\ NoUpdate /\ Calm /\ UNCHANGED history

DeleteAccount(c) ==
    /\ work[c].at = "detach"
    /\ work[c].todo = {}
    /\ row' = [row EXCEPT !.deleted = TRUE]
    /\ Becomes(c, Done)
    /\ Calm /\ UNCHANGED <<stale, again, assoc, history>>

FinishWithoutReset(c) ==
    /\ work[c].at = "done"
    /\ Queue!FinishJob(c)
    /\ NoUpdate /\ UNCHANGED <<inbox, base, assoc, work, history>>
FinishJob(c) ==
    /\ work[c].at = "done"
    /\ Queue!FinishJob(c) \/ Queue!FinishDelFails(c)
    /\ Becomes(c, Idle)
    /\ NoUpdate /\ UNCHANGED <<inbox, base, assoc, history>>

(* What the job had taken off the inbox and not pushed yet is lost.        *)
Crash(c) ==
    /\ Queue!Crash(c)
    /\ Becomes(c, Idle)
    /\ IF work[c].at \in {"warm", "devices", "push"}
         THEN Skip(work[c].page) ELSE UNCHANGED skipped
    /\ stale' = stale \ {c}
    /\ UNCHANGED <<inbox, base, row, again, assoc, sent, swallowed>>

ConsumerStep(c) ==
    \/ StartJob(c) \/ LoadAccount(c) \/ RefreshTokens(c) \/ FetchInbox(c)
    \/ AdvanceCursor(c) \/ WarmUp(c) \/ GetDevices(c)
    \/ \E d \in Devices : Push(c, d) \/ PushRejected(c, d) \/ Disassociate(c, d)
    \/ ListDevices(c) \/ DeleteAccount(c)
    \/ FinishJob(c)

ConsumerFault(c) ==
    \/ CallFails(c) \/ AdvanceNotSaved(c) \/ WarmUpNotSaved(c)
    \/ GetDevicesFails(c) \/ GrantRevoked(c) \/ Crash(c)

-----------------------------------------------------------------------------
(* The stuck-notifications consumer: looks for the message of the cursor,  *)
(* and when it is gone moves the cursor to the newest one that is left.    *)

StuckLoad(s) ==
    /\ work[s].at = "idle"
    /\ ~row.deleted /\ row.cursor # 0
    /\ Becomes(s, Copy("check"))
    /\ stale' = stale \ {s}
    /\ Calm /\ UNCHANGED <<row, assoc, history, again>>

StuckListing == Newest(StuckLimit, Listing)

(* The copy with the cursor it is going to save.                           *)
Reset(w) == [w EXCEPT !.at = "save", !.cursor = MaxOf(StuckListing \cap Live)]

(* A private message is looked up in the inbox itself, and the same page   *)
(* gives the new cursor.                                                   *)
StuckCheckPrivate(s) ==
    /\ work[s].at = "check"
    /\ work[s].cursor \in PrivateMessages
    /\ Becomes(s, IF work[s].cursor \in StuckListing \cap Live THEN Idle
                  ELSE Reset(work[s]))
    /\ NoUpdate /\ Calm /\ UNCHANGED <<assoc, history>>

(* A comment is looked up by name.  One that has left the inbox may still  *)
(* exist.                                                                  *)
StuckCheckComment(s) ==
    /\ work[s].at = "check"
    /\ work[s].cursor \notin PrivateMessages
    /\ \E found \in BOOLEAN :
        /\ found => inbox[work[s].cursor] # "deleted"
        /\ work[s].cursor \in Live => found
        /\ Becomes(s, [work[s] EXCEPT !.at = IF found THEN "recheck" ELSE "relist"])
    /\ NoUpdate /\ Calm /\ UNCHANGED <<assoc, history>>

(* It exists: is it on the inbox?                                          *)
StuckTrusts(s) ==
    /\ work[s].at = "recheck"
    /\ Becomes(s, Idle)
    /\ NoUpdate /\ Calm /\ UNCHANGED <<assoc, history>>
StuckRecheck(s) ==
    /\ work[s].at = "recheck"
    /\ Becomes(s, IF work[s].cursor \in StuckListing THEN Idle
                  ELSE [work[s] EXCEPT !.at = "relist"])
    /\ NoUpdate /\ Calm /\ UNCHANGED <<assoc, history>>

StuckRelist(s) ==
    /\ work[s].at = "relist"
    /\ Becomes(s, Reset(work[s]))
    /\ NoUpdate /\ Calm /\ UNCHANGED <<assoc, history>>

(* Messages between the old cursor and the new one are passed unseen.      *)
StuckSave(s) ==
    /\ work[s].at = "save"
    /\ Update(s, work[s])
    /\ Skip(Between(row.cursor, work[s].cursor))
    /\ Becomes(s, Idle)
    /\ Calm /\ UNCHANGED <<assoc, sent, swallowed>>

(* A call fails, the last Update included: the job is over.                *)
StuckFails(s) ==
    /\ work[s].at # "idle"
    /\ Becomes(s, Idle)
    /\ stale' = stale \ {s}
    /\ Failing /\ UNCHANGED <<row, again, assoc, history>>

StuckStep(s) ==
    \/ StuckLoad(s) \/ StuckCheckPrivate(s) \/ StuckCheckComment(s)
    \/ StuckRecheck(s) \/ StuckRelist(s) \/ StuckSave(s)

-----------------------------------------------------------------------------
(* The live-activities consumer refreshes the account's token.  (One job   *)
(* each: an access token lasts an hour.)                                   *)

RefresherLoad(f) ==
    /\ work[f].at = "idle"
    /\ ~row.deleted
    /\ Becomes(f, Copy("refresh"))
    /\ NoUpdate /\ Calm /\ UNCHANGED <<assoc, history>>

RefresherSave(f) ==
    /\ work[f].at = "refresh"
    /\ Update(f, work[f])
    /\ Becomes(f, Done)
    /\ Calm /\ UNCHANGED <<assoc, history>>

-----------------------------------------------------------------------------
(* registerAccount: reads the newest message, deleted or not, saves it as  *)
(* the cursor, then ties the account to the device.  (One request each.)   *)

RegistrarList(r) ==
    /\ work[r].at = "idle"
    /\ Becomes(r, [Idle EXCEPT !.at = "upsert", !.cursor = MaxOf(Listing)])
    /\ NoUpdate /\ Calm /\ UNCHANGED <<assoc, history>>

(* CreateOrUpdate revives the row and leaves check_count as it is.         *)
RegistrarUpsert(r) ==
    /\ work[r].at = "upsert"
    /\ row' = [row EXCEPT !.cursor = work[r].cursor, !.deleted = FALSE]
    /\ Written(r)
    /\ Skip(Between(row.cursor, work[r].cursor))
    /\ Becomes(r, [Idle EXCEPT !.at = "associate"])
    /\ Calm /\ UNCHANGED <<assoc, sent, swallowed>>

RegistrarAssociate(r) ==
    /\ work[r].at = "associate"
    /\ \E d \in Devices : assoc' = assoc \cup {d}
    /\ Becomes(r, Done)
    /\ NoUpdate /\ Calm /\ UNCHANGED history

RegistrarStep(r) == RegistrarList(r) \/ RegistrarUpsert(r) \/ RegistrarAssociate(r)

-----------------------------------------------------------------------------
(* The steps of LockedJobs this module adds nothing to.  (An account may   *)
(* be claimed that is deleted or has no device any more: enqueueAccounts   *)
(* locks up to a minute after its SELECT.)                                 *)
QueueStep ==
    /\ \/ Queue!SchedulerNext
       \/ Queue!RedisNext
       \/ \E c \in Consumers :
            \/ Queue!Deliver(c, Account) \/ Queue!SkipJob(c)
            \/ Queue!Ack(c) \/ Queue!CleanLive(c)
    /\ UNCHANGED <<inbox, base, row, assoc, work, history, stale, again>>

(* The account has just been registered: the newest message, if there is   *)
(* one, is the cursor.  (Bound: an inbox of at most one message then.)     *)
Init ==
    /\ Queue!Init
    /\ base \in {n \in 0..1 : n <= MaxMessages}
    /\ inbox = [m \in Messages |-> IF m <= base THEN "live" ELSE "none"]
    /\ row   = [cursor |-> base, count |-> 0, deleted |-> FALSE]
    /\ assoc = Devices
    /\ work  = [x \in Processes |-> Idle]
    /\ sent  = [d \in Devices |-> {}]
    /\ skipped = {} /\ swallowed = {}
    /\ stale = {} /\ again = {}

Next ==
    \/ QueueStep
    \/ Arrive \/ Remove
    \/ \E c \in Consumers : ConsumerStep(c) \/ ConsumerFault(c)
    \/ \E s \in Stuck : StuckStep(s) \/ StuckFails(s)
    \/ \E f \in Refreshers : RefresherLoad(f) \/ RefresherSave(f)
    \/ \E r \in Registrars : RegistrarStep(r)

Spec == Init /\ [][Next]_vars

(* As in LockedJobs, and every job that has begun goes on.  A stuck job is *)
(* enqueued for every account, every StuckNotificationCheckInterval.       *)
QueueIdle == UNCHANGED <<inbox, base, row, assoc, work, history, stale, again>>

Fairness ==
    /\ \A g \in Chunks :
        /\ WF_vars(Queue!Publish(g) /\ QueueIdle)
        /\ SF_vars(Queue!Claim(g, {Account}) /\ QueueIdle)
    /\ SF_vars((\E c \in Consumers : Queue!Deliver(c, Account)) /\ QueueIdle)
    /\ WF_vars(Queue!CleanOrphan(Account) /\ QueueIdle)
    /\ WF_vars(~Queue!Relying(Account) /\ Queue!Expire(Account) /\ QueueIdle)
    /\ \A c \in Consumers :
        WF_vars(ConsumerStep(c)) /\ WF_vars(Queue!Ack(c) /\ QueueIdle)
    /\ \A s \in Stuck : WF_vars(StuckStep(s))

FairSpec == Spec /\ Fairness

-----------------------------------------------------------------------------
(* Every variable holds what its declaration says.                         *)
Places == {"idle", "load", "refresh", "fetch", "advance", "warm", "devices",
           "push", "done", "devs", "detach", "check", "recheck", "relist",
           "save", "upsert", "associate"}

Copies == [at : Places, cursor : 0..MaxMessages, count : 0..1,
           page : SUBSET Messages, devs : SUBSET Devices, todo : SUBSET Devices]

TypeOK ==
    /\ Queue!TypeOK
    /\ inbox \in [Messages -> {"none", "live", "deleted", "gone"}]
    /\ base \in 0..MaxMessages
    /\ row \in [cursor : 0..MaxMessages, count : 0..1, deleted : BOOLEAN]
    /\ assoc \subseteq Devices
    /\ \A x \in Processes : work[x] \in Copies
    /\ \A c \in Consumers : work[c].at = "idle" <=> pc[c] # "working"
    /\ sent \in [Devices -> SUBSET Messages]
    /\ skipped \subseteq Messages /\ swallowed \subseteq Messages
    /\ stale \subseteq Processes /\ again \subseteq Messages

(* A device gets a message once, and never after a newer one, in however   *)
(* many jobs the account is polled: unless two jobs overlap because the    *)
(* lease ran out, or a stale or failed write put the message after the     *)
(* cursor again.                                                           *)
PushedOnceInOrder ==
    [][\A c \in Consumers, d \in Devices :
         LET m == NextMessage(work[c]) IN
         Push(c, d) /\ m \notin again /\ Account \notin overrun
         => \A n \in sent[d] : n < m]_vars

(* No message is lost in silence: one the cursor has passed was pushed, is *)
(* about to be pushed by the job that passed it, or fell to a named cause: *)
(* the warm-up, a failure or crash after the cursor was saved, a rejected  *)
(* push, no device to push to, or a cursor moved by the stuck consumer or  *)
(* by a registration.                                                      *)
InHand(m) ==
    \E c \in Consumers :
        work[c].at \in {"warm", "devices", "push"} /\ m \in work[c].page

Accounted ==
    \A m \in Live \cap Between(base, row.cursor) :
        \/ \E d \in Devices : m \in sent[d]
        \/ m \in skipped \cup swallowed
        \/ InHand(m)

(* What was in the inbox before the account registered is never pushed,    *)
(* unless a stale write put it after the cursor again.                     *)
NoFlood == \A d \in Devices : \A m \in sent[d] \ again : m > base

(* Every message is reached: polling goes on until the cursor has passed   *)
(* it, whatever was removed around it, unless it is removed, the account   *)
(* is or has no device, or its deleted neighbours fill a page (then no     *)
(* poll moves the cursor).  Not so under a scheduler that outlived its     *)
(* redis-locks.                                                            *)
EventuallyPolled ==
    \/ \A m \in Messages :
         inbox[m] = "live" ~>
            \/ row.cursor >= m \/ inbox[m] # "live"
            \/ row.deleted \/ assoc = {}
            \/ Cardinality({n \in Messages : inbox[n] = "deleted"}) >= PageLimit
    \/ <>[](~script)

(* What the jobs have taken off the inbox, and owe to its devices.         *)
Taken ==
    {m \in Messages :
       \E c \in Consumers : work[c].at \in {"warm", "devices"} /\ m \in work[c].page}

OwedBy(w, d) ==
    {m \in w.page : w.at = "push" /\ d \in (IF m = NextMessage(w) THEN w.todo ELSE w.devs)}

Owed == [d \in Devices |-> UNION {OwedBy(work[c], d) : c \in Consumers}]

(* The jobs, whatever the queue, the other writers of the row and failures *)
(* do to them, keep the promise of Delivery: what is taken off the inbox   *)
(* is owed to every device the account then has, and each gets it in its   *)
(* turn unless it is given up for that device; the cursor leaves nothing   *)
(* behind.                                                                 *)
Promise == INSTANCE Delivery WITH
    live <- Live, cursor <- row.cursor, taken <- Taken, owed <- Owed,
    lost <- skipped \cup swallowed, overlap <- Account \in overrun

ImplementsDelivery == Promise!Spec

(* "last-writer-wins is benign" (live_activities.go:225): a token refresh  *)
(* that races a poll is not noticed, and no device gets a message twice.   *)
(* The code writes the whole row, and with it the cursor it had read.      *)
LastWriterIsBenign ==
    [][\A c \in Consumers, d \in Devices :
         Push(c, d) /\ Account \notin overrun => NextMessage(work[c]) \notin sent[d]]_vars
=============================================================================
