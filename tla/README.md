# A TLA+ model of apollo-backend

This directory models the notification backend in `src/`: what its scheduler,
its queue workers and its API do to the state they share, checked with TLC on
small instances and, as far as safety goes, proved with TLAPS for every instance.
`PROJECT.json` maps every definition to the lines it stands for, lists the
hazards of the code, the runs, the mutants that show each property can fail, and
the theorems.

    tlasany M.tla                       # parse
    tlc -config MCInbox.cfg MCInbox     # check one run
    tlapm LockedJobsProofs.tla          # check the proofs

## 1. The system

Three kinds of process share a Postgres database, a Redis for the queues (rmq),
a Redis for locks, and Reddit:

| Part | Code | State it keeps | Operations |
|---|---|---|---|
| Scheduler | `internal/cmd/scheduler.go` | `next_check_at` columns, lock keys, the SHA of the lock script | enqueue accounts, live activities, stuck accounts, subreddits, users; clean queues; prune |
| Lock queue | `scheduler.go`, `worker/notifications.go`, `worker/live_activities.go` | a Redis key per id, the ready list, unacked lists | claim (SET NX EX), publish, deliver, Del, Ack, give back |
| Inbox notifications | `worker/notifications.go` | `accounts` (cursor, check count, tokens, `is_deleted`) | poll, advance the cursor, warm up, push, detach |
| Stuck notifications | `worker/stuck_notifications.go` | the same row | look the cursor's message up, reset the cursor |
| Live activities | `worker/live_activities.go`, `api/live_activities.go`, `repository/postgres_live_activity.go` | `live_activities` | register, poll, push "update" or "end", delete, prune |
| Registration | `api/accounts.go`, `repository/postgres_account.go` | `accounts`, `devices_accounts` | register one, register many, disassociate, settings |
| Devices | `api/devices.go`, `repository/postgres_device.go` | `devices` | upsert, delete, test push |
| Watchers: subreddit, trending | `worker/subreddits.go`, `worker/trending.go`, `api/watcher.go`, `repository/postgres_watcher.go` | `watchers`, `subreddits`, a Redis key per device and post | create, edit, delete; list, match, check, mark, push |
| Watchers: users | `worker/users.go` | `watchers`, `users` | poll, match, push, remove |
| Reddit client | `internal/reddit` | rate-limit keys | requests, retries, error mapping |
| Push senders | `internal/push` | none | APNs or Bark, outcome of each answer |

How they interact. Every worker is fed by a queue the scheduler fills. Two
queues, `notifications` and `live-activities`, are guarded by a lock key per id;
four (`stuck-notifications`, `subreddits`, `trending`, `users`) are not. The
account row is written by four processes, each of which writes *all* columns
from a copy it read earlier (`accountRepo.Update`); only one of them holds the
account's lock. Nothing runs in a transaction.

What is hard here, and where each property aims:

- *Leases that are not locks.* The key has no owner, lasts five minutes, and a
  consumer goes on whether or not it is there.
- *Stale copies.* Rows are read, a request to Reddit is made, and the row is
  written back, deleted, or acted upon.
- *Order of effects.* The cursor is saved before the pushes; a watcher's key
  before its push; a live activity's row is deleted after its "end".
- *Dropped errors.* Most database and Redis errors of a job are logged at best,
  and the job goes on.
- *Redelivery.* rmq redelivers the deliveries of a connection that is gone, or
  only looks gone.
- *One answer, several causes.* 401 and 403 are both "revoked", whether the
  user took the grant back, the access token expired, the community is private
  or Reddit refuses the caller; accounts, activities and watchers are deleted
  for it.
- *Reddit's listings.* Messages are removed under the cursor; a `before` that is
  no longer listed answers an empty page.

What makes each part correct: a lock queue works an id one job at a time and
never forgets an id; a poll pushes each message once, in order, and loses none
in silence; a live activity hears nothing after its end, lives its whole time,
and is removed in the end; a device hears of a post once, and a key, or a time,
that silences a post stands for a push; and what a consumer deletes for an
answer of Reddit, it deletes for the cause the answer was taken to have.

## 2. The modules

`LockedJobs` is the lock queue. `InboxNotifications` and `LiveActivities` each
compose it (`Queue == INSTANCE LockedJobs WITH ...`): their consumers' steps
conjoin the queue's, their remaining steps leave it alone, and every step of the
queue is a step of theirs. `SubredditWatchers` stands alone, since its queues have
no lock; so does `UserWatchers`, for the same reason. `Registration` and
`RedditClient` take from the queue only that an account polled again and again
gets its job. `AccountChunks` is a pure part of the scheduler. `Delivery` is what
`InboxNotifications` promises, without the queue, the jobs and the other writers of
the row. Each `MC...` module
extends one of them for TLC, each `...Proofs` module one for TLAPS.

### LockedJobs

| Variable | Code |
|---|---|
| `lock` | the ids whose key exists in redis-locks |
| `script` | whether redis-locks still knows the script's SHA (loaded once, `evalScript`) |
| `batch[g]` | ids that a chunk's goroutine has locked and not yet published |
| `ready`, `orphans` | rmq's ready list; unacked deliveries of connections that are gone |
| `pc`, `job`, `owns` | where a consumer is in `Consume`, its payload, whether rmq still counts the delivery as its own |
| `overrun`, `leaked`, `faults` | history, and the bound |

`Claim` is the script (one Redis command), `Publish` the LPUSH, `FinishJob` the
deferred `Del`, `Ack` the deferred `Ack` after it. `StartJob` does not look at
the key: `PTTL` answers -2 for a missing key and the code skips on 0, which it
sees only when the call fails (`SkipJob`). `CleanLive` is the cleaner taking the
deliveries of a connection whose heartbeat stopped while its process lives.

`overrun` holds the ids whose lease has ended under a job (expiry, a lost key, a
redelivery of a job that runs or has unlocked), until those jobs have drained.
`leaked` holds the keys a failure left without a job.

### AccountChunks

How `enqueueAccounts` cuts the list it has read into a chunk for each of
`accountEnqueueSeconds` (60): the size of a chunk is the quotient rounded up, and
each slice is capped by the length (`ChunkSize`, `Chunk`). `InOneChunk(n)` says
that every index of a list of `n` is in the chunk of one second and of one only.
It has no behaviour and no run of its own: it is proved, and `MCLockedJobs` extends
it, whose `Chunks` are the goroutines of these slices.

### InboxNotifications

One account. `row` is its row (`last_message_id`, `check_count`, `is_deleted`);
`work[x]` is what process `x` holds in memory, its copy of the row included, and
`work[x].at` where it stands. Messages are numbers in order of arrival; Reddit's
inbox marks each live, `[deleted]` or gone; a cursor of 0 is the empty string.
The processes are the locked consumers; the stuck consumers; the refreshers
(live-activities consumers that refresh the token and write the whole row back);
and the registrars (`registerAccount`). Tokens are left out of the row, as
Reddit's refresh token is stable.

History: `sent`; `skipped` and `swallowed` (messages the cursor passed for a
known reason, or that the warm-up dropped); `stale` (processes whose copy another
write has overtaken); `again` (messages a stale or failed write put after the
cursor again).

The queue may hand out an account that has been deleted or lost its devices:
`enqueueAccounts` locks up to a minute after its SELECT.

The assumptions name what the proofs take: the four roles are different processes
(`ProcessesAssumption`; a process of two roles would have one place for both), and
the account's id is not what an idle consumer holds (`QueueAssumption`).

### Delivery

The abstract specification of polling. A message is taken off the inbox when it is
newer than everything that was (`Take`), then owed to every device the account has
at that moment (`Address`), then pushed to each in its turn (`Push`) or given up: for
one device (`Reject`), for all (`GiveUp`: the warm-up, the list of devices fails or is
empty), or with the job that dies (`Abandon`). The cursor passes nothing that is not
settled so (`CursorMoves`). `ImplementsDelivery` is the refinement:

| `Delivery` | `InboxNotifications` |
|---|---|
| `live`, `cursor`, `base`, `assoc`, `sent`, `again` | `Live`, the row's cursor, and the variables of these names |
| `taken` | the pages of jobs at the warm-up or before their query for devices |
| `owed[d]` | what is left of the page of a job that pushes: its next message if `d` has not had it, and the later ones if `d` is in the list |
| `lost` | `skipped` and `swallowed` |
| `overlap` | the account is `overrun` |

Two things are excused, both of them states of the code: while `overlap` holds two
jobs may take the same messages and hold them in turns, until both are gone with all
they hold; and a message that a write has put after the cursor `again` may be taken
again. `Accounted` is content when some device was pushed for a message;
`ImplementsDelivery` is about each device, so that a message pushed to the first and
forgotten for the second violates it and nothing else.

### LiveActivities

Rows by APNs token with their expiry, the scheduler's `selected` batches, and
consumers that read the clock once (`StartJob`) and the row once (`Get`), and
decide between "update" and "end", and on the deletion, by that copy. `apns` says
whether the worker has an APNs client: a worker restarted with Bark only
(`TurnBarkOnly`) takes each job to the deletion of its row at once (the place
"drop"). `ImplementsQueue` is the composition stated as a property, with
`LockedJobs` as the abstract specification: whatever happens to rows and clocks,
keys and deliveries go through steps of the queue only. A
registration has a number, which the code does not have: it is how the
properties tell a row from the one that replaced it.

### SubredditWatchers

The watchers of one subreddit, in each behaviour of one `kind`: the two kinds
have rows, keys and consumers of their own and never meet. The queue is folded
into `Start`: the scheduler publishes an id every two minutes whatever became of
the last job, so that a consumer may start at any time and jobs overlap. Posts
are numbers with a creation time; a listing shows a post once time has passed
since it was made, which is what separates the birth of a post from the birth
of its key. Whether a post meets a watcher's criteria, which posts are hot, and
which reach the median are free choices. `key` holds the expiry of the Redis key
`watcher:<device>:<post>`; `again` and `lost` are histories: pairs whose key
could not be relied on, and pushes that a failure took after their key was set.

### Registration

Devices by token and by the number of their row, accounts, and `assoc`, the table
between them. A handler of the API reads the device's row and then issues one
statement per step, by the number it has read (`Associate`, `Drop`) or by the
token (`Remove`); a job reads the account, may write its copy back (`Save`), and
goes on to `deleteAccount` (`Detach`, `Disassociate`, `DeleteAccount`) or to
pushes that APNs may reject (`Reject`). Of the tokens of an account only this is
kept: does Reddit still honour the grant, in the row (`good`) and in each copy
(`valid`)? `Revoke` ends it everywhere at once.

History: `wanted`, what was last asked for each device and account by a request,
or a job, that was `alone` with it; `doubt`, where the last to write was not alone
or failed; `granted`; `stale`. A hidden association (the account was deleted
while a request associated it) stays in doubt whatever the device asks, as its
requests do not see it, and comes back when another device registers the account:
TLC finds `AsAsked` violated without that exception.

### UserWatchers

The watchers of one Reddit user. As in `SubredditWatchers` the queue is folded
into `Start` (`enqueueUsers` publishes an id every minute), and jobs overlap; but
there is no Redis key: a job compares each post with `last_notified_at` as it read
it (`seen`), and `Count` (`IncrementHits`) sets the column to the present before
the push. Posts come newest first, and `Onward` skips the ones nobody is to hear
of. `Unwatch` and `Remove` are the two statements of a user who wants no followers,
after which the job goes on with the watchers it read. `Panic` is the dropped error
of the account's lookup: the client panics on empty credentials, in a goroutine
of rmq, and takes every job of the process with it. A user watcher cannot be
created in this version (section 6), so the rows are those of the past.

History: `sent`; `lost` (pushes a failure took, or jobs that ended before their
older posts); `raced` (posts made after the listing of the job that counted);
`unwanted` (posts the filter excluded when a count came); and `stale` in a job:
the watchers another job counted since it read them.

### RedditClient

What an answer of Reddit means. A call goes to the token endpoint (`token`), to an
inbox or one thing (`own`), or to a listing of the community (`comments`, `new`,
`hot`). What may stand against it (`Obstacles`) gives a status; the client
makes up to `Retries + 1` attempts (`Heard`, `Settled`), its error maps (`Error`)
turn the last status into an error; and each of the four consumers that delete
something for an error is reduced to the calls it makes, the tokens it makes them
with, what it writes back, and what it deletes. `why` is history: the truth
behind the answer the job acts on.

An account's devices are reduced to whether it has one (`attached`).
`deleteAccount` takes it off them (`Detach`) and then marks its row
(`DeleteAccount`); an error (`DeleteFails`) or the death of the worker (`Crash`)
may end the job before, between and after. `enqueueAccounts` finds accounts that
have a device and are not deleted (`Polled`). An account that lost its devices but
was not marked is therefore polled no more and never marked, and
`RevokedIsLeft` says of a revoked account only that polling it ends.

The clock counts minutes, and only what ends a minute is told apart: an attempt
takes 4 s at most (`http.Client.Timeout`) and the pauses 3.7 s together, so that
a call is over in 24 s, an inbox or activity job in one change of minute, a stuck
job (three calls) in two and a subreddit job (six) in three (`Span`, a guard of
`Tick`). The time of the program's own statements is neglected. A subreddit job
uses the tokens of all its watchers' accounts as it read them, and refreshes
none. `tended` is history: when a job last saw to the token in an account's row,
and 0 when a write of an older copy undid that, which the stuck consumer's
whole-row save can do: TLC shows a subreddit job that then deletes the watcher of
an account whose grant stands.

## 3. The runs

| Run | Bounds | Shows |
|---|---|---|
| `locked_jobs` | 2 ids, 1 chunk, 2 consumers, 2 faults | `ExclusiveWork`, `OneJobPerLease`, `NoSilentLeak`; every id is worked on again and again (`WorkedAgain`) |
| `inbox` | 2 overlapping consumers, 3 messages, pages of 2, 1 fault | each message once and in order, none lost without a cause, nothing from before the registration; implements `Delivery` |
| `inbox_shared` | 1 consumer, 1 refresher, 1 registrar, 2 devices, 2 messages, pages of 1, 1 fault | what other writers of the row cost; implements `Delivery`, for each device |
| `inbox_stuck` | 1 consumer, 1 stuck consumer, 2 messages, 1 removal, 1 fault | polling reaches every message that stays (liveness) |
| `live_activities` | 1 token registered twice, 2 consumers, 1 fault, 3 ticks, a Bark-only restart | implements the lock queue; nothing after the end; a row lives its time; every row is removed by its consumers (liveness) |
| `registration` | 2 devices, 1 account, 2 handlers, 4 requests, 1 job | each device is pushed for what it asked; an account is deleted for a cause |
| `registration_bulk` | 1 device with 2 rows in turn, 2 accounts, 2 requests, 1 job, 1 fault | the same for bulk requests that fail half way; a revoked account stops being polled (liveness) |
| `subreddit_watchers` | 2 watchers, 2 devices, 2 consumers, 1 post, 3 ticks, 1 fault | one push per device and post; a key stands for a push |
| `subreddit_gone` | 2 watchers, 1 consumer, 2 edits or settings, 1 fault | watchers of a missing subreddit go (liveness) |
| `user_watchers` | 1 watcher, 2 consumers, 2 posts, 1 edit, 1 fault | a post is passed over for a cause, a push is not repeated, no orphans; unwanted watchers go (liveness) |
| `reddit_client` | 1 account, 1 poller, 1 consumer of the other queues, 2 attempts a call, tokens of 5 minutes, 4 ticks, 1 change, 1 fault | what is deleted or detached, is so for its cause; polling a revoked account ends, though its deletion may stop part-way (liveness) |
| `inbox_benign` | smallest that shows it | the finding of section 6 |

Why these bounds. Two consumers are what an overlap takes, and a third could
only repeat it: the properties compare two jobs, or a job with a row. One fault
(two in the queue alone) is one more than the code plans for; each kind of fault
comes at each point of each job. Three messages over pages of two, and two over
pages of one, give a full page, a page that is not, and a message after both.
Two devices and two watchers give one device with two watchers and two devices
with one each. Two registrations are an activity and the one that replaces it.
Three ticks of a live activity, with a life of one and a grace of one, reach the
pruning of the first registration and the expiry of the second. Four requests
are what it takes for a hidden association to arise, to be overlooked by its
device and to come back by another. Three ticks of watchers, with
posts that are news for one, reach past the expiry of a key. One watcher of a user
and two posts, the newer made in another community, are enough for a job to pass
one over for the other; two watchers are more than TLC can finish. In
`reddit_client` a token's life (what Reddit's answer says, an hour or a day) and the
attempts of a call are scaled down, keeping what the argument rests on: a token with
less than five minutes left is refreshed, and a job ends within `Span`. The
theorems of section 5 hold for every number of each, so that what the small
instances leave out is covered there, for all safety properties. In
`subreddit_watchers` and `registration` consumers, handlers, watchers and devices
are interchangeable (`SYMMETRY`; they check safety only). The registration runs
stop when their requests are used up and no account is left to poll, and do not
check deadlock.

Every fault is counted in `faults`; `edits`, `begun`, `regs` and the numbers of messages,
removals, posts and ticks are the other bounds, named in each module, and so are the rows of a device.

## 4. Fairness

Safety runs use `Spec` and assume none. The liveness runs use `FairSpec`:

- a goroutine that can go on does (weak fairness of a job's steps, of `Publish`,
  of the cleaner every five seconds, and of the TTL for a key without a job);
- an id that is again and again free to be claimed is claimed, and a delivery
  that is again and again ready when a consumer is free is delivered (strong
  fairness): the scheduler tries every account in each run and orders live
  activities and subreddits by `next_check_at`; the ready list is first in,
  first out;
- the stuck consumer and the watchers' consumers start again and again, because
  their ids are enqueued every two minutes (users: every minute);
- a live activity that stays comes due every thirty seconds, oldest first, so that
  its token is selected, claimed and delivered again and again (strong fairness of
  each, per token); the clock goes on;
- in `Registration` and `RedditClient` an account that `enqueueAccounts` finds
  (not deleted, with a device) again and again while a consumer is free gets a job,
  which is `WorkedAgain` of the queue, and a poll goes on; the other consumers of
  `RedditClient` need no fairness;
- failures have no fairness, nor has pruning: `EventuallyRemoved` says that the
  consumers do without it.

Liveness excludes one state of the code, and says so in the property: after a
restart of redis-locks the script is unknown, and until the scheduler restarts
too every EvalSha fails and nothing that needs a lock is enqueued.

## 5. What is proved

Every safety property of the runs that expect to pass, for every value of the
constants that the assumptions of its module allow. Each `...Proofs` module goes the same way: type correctness, a
strengthening, one lemma for each action (or for each kind of step that does the same
to the variables in question), and the theorem by PTL.

| Module | Theorems | Properties |
|---|---|---|
| `LockedJobsProofs` | `TypeCorrect`, `OneJobPerLeaseAlways`, `Exclusion`, `NoSilentLeakAlways` | `TypeOK`, `OneJobPerLease`, `ExclusiveWork`, `NoSilentLeak` |
| `AccountChunksProofs` | `ChunksPartition` | `InOneChunk(n)` for every `n` and every number of seconds |
| `InboxNotificationsProofs` | `TypeCorrect`, `FloodCorrect`, `AccountedCorrect`, `OrderCorrect`, `DeliveryCorrect`, `DeliveryWorth` | `TypeOK`, `NoFlood`, `Accounted`, `PushedOnceInOrder`, `ImplementsDelivery`; the invariant and the order that `Delivery` itself implies |
| `LiveActivitiesProofs` | `TypeCorrect`, `QueueCorrect`, `ActivityExclusion`, `NothingAfterEndCorrect`, `LivesItsTimeCorrect` | `TypeOK`, `ImplementsQueue`, the queue's `ExclusiveWork`, `NothingAfterEnd`, `LivesItsTime` |
| `RegistrationProofs` | `TypeCorrect`, `AsAskedCorrect`, `CauseCorrect` | `TypeOK`, `AsAsked`, `DeletedForCause` |
| `SubredditWatchersProofs` | `TypeCorrect`, `MarkedCorrect`, `OnceCorrect` | `TypeOK`, `MarkedIsSent`, `NotifiedOnce` |
| `UserWatchersProofs` | `TypeCorrect`, `PassedOverCorrect`, `OnceCorrect`, `NoOrphansCorrect` | `TypeOK`, `PassedOverForCause`, `NotifiedOnce`, `NoOrphans` |
| `RedditClientProofs` | `TypeCorrect`, `AccountCorrect`, `ActivityCorrect`, `WatcherCorrect` | `TypeOK`, `AccountForCause`, `ActivityForCause`, `WatcherForCause` |

**The queue** (for all ids, chunks, consumers and faults; `NoJob` is no id).
`ExclusiveWork` (two consumers work for an id only while it is overrun) is not
inductive: that two consumers are not both at work says nothing of a second
delivery in the ready list. The inductive invariant is `TypeOK /\
OneJobPerLease`: an id that is not overrun has at most one job, in one place
(a batch, the ready list, a dead connection, or a consumer before its `Del`),
and while it has one its key exists. `Claim` preserves it because a claimed id
had no key and hence no job; `FinishJob` because no other job relies on the key
it deletes; and the steps that break it are the ones that put the id in
`overrun`, where it stays until the last of its jobs is gone (`Drained`), after
which the invariant holds of it for want of jobs. The proof goes by actions:
`SchedulerLease`, `RedisLease`, `ConsumerLease`, with `SameLease` and
`OtherLease` for the ids a step does not touch. `NoSilentLeak` is inductive
together with `TypeOK`.

**Live activities.** The queue is not proved about again. `Queue` in the module and
`Lock` in the proofs are two instances of one module; the `Same...` lemmas say that
they mean the same, and `StepOfQueue` that every step is a step of the queue or
leaves it alone, which is `QueueCorrect`, and carries `OneJobPerLease` and
`ExclusiveWork` over. `NothingAfterEnd` rests on them: a registration whose "end"
went out, and whose deletion did not fail, is `Over` (its row is gone or held by
the job about to delete it, and any other job that still holds a copy works for an
overrun token). What a copy is worth is `InOrder`; that a registration has one row
and its copies one token are `RowsApart` and `CopiesApart`. `LivesItsTime` follows
from `InOrder` alone: a consumer that finds its copy expired read a clock that is past.

**Inbox notifications**, in five layers over the same carried-over queue. They use
that the roles are disjoint (`ProcessesAssumption`).

1. `TypeCorrect`: what each process may hold at each place (`Fits`).
2. `FloodCorrect`: nothing refers to a message that has not arrived (`Arrived`);
   then every cursor, in the row or in a job about to ask for a page, is at the `base`
   of the registration or beyond, unless a write is on record that put the inbox
   after the cursor `again` (`Spared`).
3. `AccountedCorrect`: up to the row's cursor and that of every saved copy, each
   message is gone, skipped or swallowed for its cause, pushed, or in the hands of a
   job (`Through`, `Told`); a page about to be recorded leaves out nothing between its
   cursor and its newest message (`Whole`).
4. `OrderCorrect`: where a message was pushed or is about to be, nothing older is
   after the cursor without being in `again` (`Behind`, `Handled`); a copy that is
   not stale is not behind the row (`Current`); and the job whose lease is not overrun
   holds only messages newer than those pushed (`InOrder`). A second consumer at
   work would break it, and `ExclusiveWork` of the queue is what rules it out; a
   write of another process is harmless by `Current` (`NoWayBack`).
5. `DeliveryCorrect`: the steps of `Delivery`, from the layers below. `PromiseInv` is
   their invariants, with one fact more: a job that pushes has a message and a device
   left (`Owing`). The cursor passes only what is settled by `Through`, and goes back
   only over `again` by `NoWayBack` (`CursorIs`); what a poll takes is newer than what
   was taken by `InOrder` and, there being no other job unless overrun, by the queue's
   `ExclusiveWork` (`DueIs`). What is in hand is split in one job's part and that of
   the others (`HandIs`), who have none when the job is alone (`AloneIs`) and keep
   theirs when it moves (`KeepsHand`), so that a job's step becomes one action of
   `Delivery` on its own page; an overlap ends when no job is left, and so with
   nothing in hand (`OverlapIs`). `DeliveryWorth` is about `Delivery` alone: from its
   actions, what the cursor has passed is settled (`NoneLeftBehind`), and what is in
   hand is newer than what went before it (`Ordered`), so that a device gets its
   messages once and the older ones first (`EachInTurn`); `DeliveryKept` says so of
   the polling.

**Registration.** `AsAsked` speaks of the associations no request or job is about, so
it is not inductive: what a request does when it has read decides what is there when
it is gone. `AskedInv` is `TypeInv` and three facts about those at work.

1. `Apart`: whoever is `alone` with its associations shares none of them.
2. `Know`: what one that is alone has read is still so. A request's device has the row
   it read, and the associations to drop and the accounts to register that it has left
   make up every difference between what is there and what it aims at (`Sound`);
   a job that detaches has every association of its account in its list (`Detached`).
3. `Clear`: what is not in doubt and nobody is about is as it was asked, and a hidden
   association among the rest has someone about it who will leave it in doubt.

Most steps of a request do one of two things: it goes on, giving up some of what it
has left (`Moves`), or it answers. `MovesType`, `MovesKnow` and `MovesClear` are proved
of that form, and each action is shown to have it; the steps of a job are `Worked`.
`DeletedForCause` rests on `Grants`: unless the account is stale, a grant that was not
revoked is good in the row and in the copy of every job, and a job only goes on to
detach an account with a copy that is not.

**Subreddit and trending watchers.** For each device and post (`PushInv`): a key
stands for a push that is made, under way, or taken by a failure, and outlives the
time the post is news (`KeyOK`); and unless the key could not be relied on, at most
one job is between its look at the key and its push, and what is pushed or about to
be has a key, or is too old for any job to come to (`Once`).

**User watchers.** There is no key, so the invariant is about copies: what a job
has yet to push it has in its plan (`Sound`); what was pushed is hidden from later
jobs by `last_notified_at` (`SentIsHidden`); and a job whose copy of a watcher is fresh
neither plans what was pushed (`Fresh`) nor what another job is about to push
(`Apart`, over pairs of jobs). `NoOrphans` needs only that a job about to remove the user
has left no watcher of it.

**Reddit client.** A job's token outlives the job, or was late when the job began
(`Tended`: a refreshed token has five minutes, which is where `Life >= 5` comes from, and
a job ends within `Span`); the error it acts on is one its truth maps to (`Informed`), which still holds of
a poll that is between detaching an account and marking it; and the
row's token is as good as its last refresh unless an older copy was written over it.

Only model-checked: all liveness (fairness and ENABLED are beyond the prover).

## 6. Where code and comments disagree

- `inbox_benign`: "last-writer-wins is benign" (live_activities.go:225): the
  write that wins carries the cursor it had read, and a message is pushed twice.

Met while modelling and not a run:

- "job is too old, skipping" (notifications.go:159) is taken when `PTTL` fails and
  not when the key has expired; such a job runs, and its `Del` can remove the key of
  the next one.
- "app retries are harmless" (postgres_live_activity.go:63): a job that read the row
  as expired deletes the one registered since.
- "Load 500 newest posts" (subreddits.go:172), where `before` stays empty and all
  five pages are the first (`FetchNew`).
- Two spellings of a username make two rows of one account
  (postgres_account.go:110).
- The warm-up drops the whole first page where README.md:173 speaks of the first
  message (`swallowed`).
- An edited watcher keeps its creation time and is alerted to posts from before the
  edit (subreddits.go:331).
- 401 and 403 delete the watcher whose account made the call, though its access
  token may only have expired (`WatcherForCause` names the exception).
- `deleteAccount` takes an account off its devices before it marks it deleted.
  When the mark fails (notifications.go:346), or the worker dies before it, no poll
  comes back to the account (scheduler.go:476-482 joins the associations): its row
  stays undeleted, and enqueueStuckAccounts (scheduler.go:422-435), which asks for
  no device, goes on enqueueing it. `DeleteFails` and `Crash` of
  `RedditClient`, and `JobFails` of `Registration`, do this.
- `CreateOrUpdate` of users passes three arguments for two placeholders
  (postgres_user.go:93).

## 7. What is taken from outside, and what is left out

External, modelled from its use: Reddit's inbox (`before` answers the page next
to the cursor, and nothing when the cursor is no longer listed), its listings of a
community or a user, and what its statuses stand for; rmq (a delivery belongs to one
connection until it is acknowledged, rejected or given back by the cleaner);
redis-locks (no volume: a restart loses keys and the script cache); the clock.

Left out, and why:

- payloads and wording, metrics and logging, the parsing of things, start-up, HTTP
  routing and health checks: no state that a property tells apart; a payload that
  does not parse is rejected and never retried;
- the push senders: whether APNs or Bark takes a push, rejects it or names the
  device gone are free choices of the modules that push, so that the routing by
  transport adds no behaviour;
- the transport and sandbox flag of a device, and the settings of an association
  (muting is in `SubredditWatchers`): they multiply the states of `Registration`
  beyond what TLC can finish where two requests and a job meet, the case that matters;
- which comment an activity shows, which posts meet a watcher's criteria
  (`KeywordMatches`) and which reach the median: free choices, so that the
  properties hold whatever they choose;
- the creation of user watchers, whose statement pgx refuses in this version;
  `pruneAccounts`, which nothing schedules; the client's rate limit, which this version
  switches off; the spelling of usernames.

## 8. The plan

Done, in the order of consequence: the lock queue and its proofs; inbox
notifications with every writer of the account's row; live activities as an
implementation of the queue; registration; both kinds of watchers of a community;
user watchers; the meaning of Reddit's answers; the chunks of `enqueueAccounts`; the promise of
`Delivery`; and the proofs of the safety of all of these.

Left:

1. The promise of `Delivery` per device and post for `SubredditWatchers`: `Once` is
   most of the refinement mapping.
2. `Registration`: the watchers that cascade from a device.
3. `KeywordMatches`, the trending median and the routing of a push as pure operators,
   against reference definitions over all small inputs.

No module that is to be proved about declares a RECURSIVE operator.
