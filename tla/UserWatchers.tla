---------------------------- MODULE UserWatchers ----------------------------
(***************************************************************************)
(* The watchers of one Reddit user.  As for subreddits the queue has no    *)
(* lock, so that a job may start at any time and two may run side by side. *)
(* Unlike them it has no Redis key either: a job compares the posts with   *)
(* last_notified_at, as it read it, and sets the column to the present     *)
(* before each push.                                                       *)
(*                                                                         *)
(* In this version no watcher of a user can be created: CreateOrUpdate of  *)
(* users passes three arguments for two placeholders, pgx refuses, and     *)
(* createWatcherHandler answers 500.  The rows are those of the past.      *)
(***************************************************************************)
EXTENDS Naturals, FiniteSets

CONSTANTS
    Consumers,
    Watchers,   \* ids of rows of "watchers", each for a device of its own
    NoWatcher,  \* work[c].hit when there is none
    MaxPosts,   \* bound: posts in a behaviour, no more than a listing holds
    Private,    \* the posts made in private communities
    Elsewhere,  \* the posts made outside the community that filters name
    MaxTime,    \* bound: the clock stops there
    MaxEdits,   \* bound: what users change in a behaviour
    MaxFaults   \* bound: failed calls and crashes in a behaviour

Posts == 1..MaxPosts
Pairs == Watchers \X Posts

ASSUME UserWatchersAssumption ==
    /\ NoWatcher \notin Watchers
    /\ {MaxPosts, MaxTime, MaxEdits, MaxFaults} \subseteq Nat
    /\ MaxTime >= 2
    /\ Private \subseteq Posts /\ Elsewhere \subseteq Posts

VARIABLES
    now,        \* the clock
    follows,    \* TRUE while Reddit says that the user accepts followers
    posted,     \* when a post was made; 0 before
    exists,     \* TRUE while the user has its row
    alive,      \* watchers that have a row
    since,      \* created_at
    notified,   \* last_notified_at
    narrow,     \* watchers whose filter names a community
    muted,      \* watchers that the settings of their device silence
    bare,       \* watchers whose device has lost its row
    work,       \* where a consumer stands, and its copies
    edits, faults,  \* counters of the bounds
    sent,       \* watcher and post of every push that went out
    lost,       \* history: pushes that a failure took after they were counted
    raced,      \* history: posts made between a listing and a count
    unwanted    \* history: posts that the filter excluded when a count came

users   == <<follows, muted, bare>>
rows    == <<exists, alive, since, notified, narrow>>
history == <<sent, lost, raced, unwanted>>
vars    == <<now, posted, users, rows, work, edits, faults, history>>

Fault == faults < MaxFaults /\ faults' = faults + 1
Calm  == UNCHANGED faults

-----------------------------------------------------------------------------
(* /u/<user>/submitted shows a post once some time has passed.             *)
Listed == {p \in Posts : posted[p] # 0 /\ posted[p] < now}

(* A job's copy of the watchers, the time of its listing, the posts it has *)
(* yet to come to, the post it is at, the watchers it has yet to push for  *)
(* it and the one it has counted.                                          *)
Idle == [at |-> "idle", ws |-> {}, seen |-> [w \in Watchers |-> 0], narrow |-> {},
         listed |-> 0, posts |-> {}, post |-> 0, notifs |-> {}, hit |-> NoWatcher,
         stale |-> {}]

Becomes(c, j) == work' = [work EXCEPT ![c] = j]

(* The watchers of job j that are to hear of p.                            *)
Eligible(j, p) ==
    {w \in j.ws : /\ p \notin Private
                  /\ since[w] <= posted[p]
                  /\ j.seen[w] <= posted[p]
                  /\ w \in j.narrow => p \notin Elsewhere}

(* The next post, with the last one's watcher still in hand.               *)
OnwardStillHit(c, j) ==
    LET left == {p \in j.posts : Eligible(j, p) # {}} IN
    \/ left = {} /\ Becomes(c, Idle)
    \/ \E p \in left :
        /\ \A q \in left : q <= p
        /\ Becomes(c, [j EXCEPT !.at = "count", !.post = p,
                               !.posts = left \ {p}, !.notifs = Eligible(j, p)])

(* On to the newest post that somebody is to hear of, or to the end.       *)
Onward(c, j) ==
    LET left == {p \in j.posts : Eligible(j, p) # {}} IN
    \/ left = {} /\ Becomes(c, Idle)
    \/ \E p \in left :
        /\ \A q \in left : q <= p
        /\ Becomes(c, [j EXCEPT !.at = "count", !.post = p, !.hit = NoWatcher,
                               !.posts = left \ {p}, !.notifs = Eligible(j, p)])

(* What job j is still going to push.                                      *)
Plan(j) == {<<w, j.post>> : w \in j.notifs}
           \cup {wp \in Pairs : wp[2] \in j.posts /\ wp[1] \in Eligible(j, wp[2])}

(* ... and what no later job will push in its place.                       *)
Hidden(wp)  == notified[wp[1]] > posted[wp[2]]
Forsaken(j) == {wp \in Plan(j) : Hidden(wp)}

-----------------------------------------------------------------------------
Tick ==
    /\ now < MaxTime
    /\ now' = now + 1
    /\ UNCHANGED <<posted, users, rows, work, edits, faults, history>>

Post ==
    /\ \E p \in Posts :
        /\ posted[p] = 0
        /\ \A q \in 1..(p - 1) : posted[q] # 0
        /\ posted' = [posted EXCEPT ![p] = now]
    /\ UNCHANGED <<now, users, rows, work, edits, faults, history>>

(* What users do besides.                                                  *)
UserEdits ==
    /\ edits < MaxEdits /\ edits' = edits + 1
    /\ UNCHANGED <<now, posted, exists, since, notified, work, faults, history>>

TurnFollowers ==
    /\ UserEdits
    /\ follows' = ~follows
    /\ UNCHANGED <<muted, bare, alive, narrow>>

Toggled(w, S) == IF w \in S THEN S \ {w} ELSE S \cup {w}

(* editWatcherHandler takes the filter from the request; Update leaves the *)
(* times of the row alone.                                                 *)
Edit(w) ==
    /\ UserEdits
    /\ w \in alive
    /\ narrow' = Toggled(w, narrow)
    /\ UNCHANGED <<users, alive>>

DeleteByUser(w) ==
    /\ UserEdits
    /\ w \in alive
    /\ alive' = alive \ {w}
    /\ UNCHANGED <<users, narrow>>

(* A device that is deleted takes its watchers with it.                    *)
DeleteDevice(w) ==
    /\ UserEdits
    /\ w \notin bare
    /\ bare' = bare \cup {w}
    /\ alive' = alive \ {w}
    /\ UNCHANGED <<follows, muted, narrow>>

Settings(w) ==
    /\ UserEdits
    /\ muted' = Toggled(w, muted)
    /\ UNCHANGED <<follows, bare, alive, narrow>>

-----------------------------------------------------------------------------
(* A job's steps leave the clock, Reddit and the users' side alone.        *)
Inside == UNCHANGED <<now, posted, users, since, narrow, edits>>
Reads  == Inside /\ UNCHANGED <<exists, alive, notified, sent, raced, unwanted>>

Selected == alive \ muted

(* GetByID and GetByUserID; without a watcher the job is over.             *)
Start(c) ==
    /\ work[c].at = "idle"
    /\ exists /\ Selected # {}
    /\ Becomes(c, [Idle EXCEPT !.at = "about", !.ws = Selected, !.seen = notified,
                               !.narrow = narrow])
    /\ Reads /\ Calm /\ UNCHANGED lost

(* UserAbout, with the account of any of the watchers.                     *)
About(c) ==
    /\ work[c].at = "about"
    /\ Becomes(c, [work[c] EXCEPT !.at = IF follows THEN "posts" ELSE "unwatch"])
    /\ Reads /\ Calm /\ UNCHANGED lost

(* The account cannot be read: the error is dropped, and the client panics *)
(* for want of credentials.  Every job of the process is gone.             *)
Panic(c) ==
    /\ work[c].at = "about"
    /\ work' = [b \in Consumers |-> Idle]
    /\ lost' = lost \cup UNION {Forsaken(work[b]) : b \in Consumers}
    /\ Reads /\ Fault

(* The user's row before the watchers.                                     *)
UnwatchLast(c) ==
    /\ work[c].at = "unwatch"
    /\ exists' = FALSE
    /\ Becomes(c, [work[c] EXCEPT !.at = "remove"])
    /\ Inside /\ Calm /\ UNCHANGED <<alive, notified, history>>

(* No watcher is deleted.                                                  *)
UnwatchNothing(c) ==
    /\ work[c].at = "unwatch"
    /\ Becomes(c, [work[c] EXCEPT !.at = "posts"])
    /\ Inside /\ Calm /\ UNCHANGED <<exists, alive, notified, history>>

(* Users who disallow followers lose their watchers ...                    *)
Unwatch(c) ==
    /\ work[c].at = "unwatch"
    /\ alive' = {}
    /\ Becomes(c, [work[c] EXCEPT !.at = "remove"])
    /\ Inside /\ Calm /\ UNCHANGED <<exists, notified, history>>

(* ... and then their row; and the job goes on.                            *)
Remove(c) ==
    /\ work[c].at = "remove"
    /\ exists' = FALSE
    /\ Becomes(c, [work[c] EXCEPT !.at = "posts"])
    /\ Inside /\ Calm /\ UNCHANGED <<alive, notified, history>>

FetchPosts(c) ==
    /\ work[c].at = "posts"
    /\ Onward(c, [work[c] EXCEPT !.posts = Listed, !.listed = now])
    /\ Reads /\ Calm /\ UNCHANGED lost

(* UserAbout, either DELETE or UserPosts: the job is over.                 *)
CallFails(c) ==
    /\ work[c].at \in {"about", "unwatch", "remove", "posts"}
    /\ Becomes(c, Idle)
    /\ Reads /\ Fault /\ UNCHANGED lost

(* Without the time of the push.                                          *)
CountedNot(w) == notified

(* IncrementHits, a statement that does not mind if the row is gone.  What *)
(* it hides from later jobs is told by the job's listing and copy.         *)
Counted(w) == IF w \in alive THEN [notified EXCEPT ![w] = now] ELSE notified

Count(c, w) ==
    /\ work[c].at = "count" /\ w \in work[c].notifs
    /\ notified' = Counted(w)
    /\ work' = [b \in Consumers |->
                  IF b = c THEN [work[b] EXCEPT !.at = "send", !.hit = w]
                  ELSE [work[b] EXCEPT !.stale = @ \cup ({w} \cap work[b].ws)]]
    /\ LET newly == {p \in Posts : w \in alive /\ posted[p] \in notified[w]..(now - 1)} IN
         /\ raced' = raced \cup {<<w, p>> : p \in {q \in newly : posted[q] >= work[c].listed}}
         /\ unwanted' = unwanted \cup
              {<<w, p>> : p \in {q \in newly \cap Elsewhere : w \in work[c].narrow}}
    /\ Inside /\ Calm /\ UNCHANGED <<exists, alive, sent, lost>>

(* The job is over, for the other watchers and the older posts as well.    *)
CountFails(c) ==
    /\ work[c].at = "count"
    /\ lost' = lost \cup Forsaken(work[c])
    /\ Becomes(c, Idle)
    /\ Reads /\ Fault

(* A job that leaves its loop with the first post.                         *)
AfterSendThenStop(c, j) ==
    IF j.notifs = {j.hit} THEN Becomes(c, Idle)
    ELSE Becomes(c, [j EXCEPT !.at = "count", !.notifs = @ \ {j.hit}, !.hit = NoWatcher])

(* On to the next watcher of the post, or to the next post.                *)
AfterSend(c, j) ==
    IF j.notifs = {j.hit} THEN Onward(c, j)
    ELSE Becomes(c, [j EXCEPT !.at = "count", !.notifs = @ \ {j.hit}, !.hit = NoWatcher])

(* The device is read now; for one that is gone APNs gets no token.        *)
Send(c) ==
    LET wp == <<work[c].hit, work[c].post>> IN
    /\ work[c].at = "send"
    /\ IF work[c].hit \in bare
         THEN lost' = lost \cup {wp} /\ UNCHANGED sent
         ELSE sent' = sent \cup {wp} /\ UNCHANGED lost
    /\ AfterSend(c, work[c])
    /\ Inside /\ Calm /\ UNCHANGED <<exists, alive, notified, raced, unwanted>>

(* An error or a rejection is logged, no device is deleted for it, and the *)
(* job goes on.                                                            *)
SendFails(c) ==
    /\ work[c].at = "send"
    /\ lost' = lost \cup {<<work[c].hit, work[c].post>>}
    /\ AfterSend(c, work[c])
    /\ Reads /\ Fault

(* The worker dies; the delivery comes back as a job of its own.           *)
Crash ==
    /\ \E c \in Consumers : work[c].at # "idle"
    /\ work' = [b \in Consumers |-> Idle]
    /\ lost' = lost \cup UNION {Forsaken(work[b]) : b \in Consumers}
    /\ Reads /\ Fault

-----------------------------------------------------------------------------
(* Rows of the past: some posts are older than some watchers.              *)
Init ==
    /\ now = 2 /\ follows = TRUE /\ exists = TRUE
    /\ posted \in {f \in [Posts -> {0, 1}] : \A p, q \in Posts : p < q => f[p] >= f[q]}
    /\ alive = Watchers /\ muted = {} /\ bare = {}
    /\ since \in [Watchers -> {1, 2}]
    /\ notified = since
    /\ narrow \in SUBSET Watchers
    /\ work = [c \in Consumers |-> Idle]
    /\ edits = 0 /\ faults = 0
    /\ sent = {} /\ lost = {} /\ raced = {} /\ unwanted = {}

UserStep ==
    \/ TurnFollowers
    \/ \E w \in Watchers : Edit(w) \/ DeleteByUser(w) \/ DeleteDevice(w) \/ Settings(w)

JobStep(c) ==
    \/ Start(c) \/ About(c) \/ Unwatch(c) \/ Remove(c) \/ FetchPosts(c) \/ Send(c)
    \/ \E w \in Watchers : Count(c, w)

JobFault(c) ==
    Panic(c) \/ CallFails(c) \/ CountFails(c) \/ SendFails(c)

Next ==
    \/ Tick \/ Post
    \/ UserStep
    \/ \E c \in Consumers : JobStep(c) \/ JobFault(c)
    \/ Crash

Spec == Init /\ [][Next]_vars

(* enqueueUsers publishes the id again and again, and a job that has begun *)
(* goes on.                                                                *)
Fairness == \A c \in Consumers : WF_vars(JobStep(c))

FairSpec == Spec /\ Fairness

-----------------------------------------------------------------------------
(* Every variable holds what its declaration says; a consumer has a        *)
(* watcher in hand between its count and its push, and never otherwise.    *)
Jobs == [at : {"idle", "about", "unwatch", "remove", "posts", "count", "send"},
         ws : SUBSET Watchers, seen : [Watchers -> 0..MaxTime],
         narrow : SUBSET Watchers, listed : 0..MaxTime, posts : SUBSET Posts,
         post : 0..MaxPosts, notifs : SUBSET Watchers,
         hit : Watchers \cup {NoWatcher}, stale : SUBSET Watchers]

JobOK(j) ==
    /\ j \in Jobs
    /\ j.at = "send" <=> j.hit # NoWatcher
    /\ j.at = "send" => j.hit \in j.notifs
    /\ j.at = "count" => j.notifs # {}
    /\ j.at \in {"count", "send"} => j.post \in Posts /\ j.notifs \subseteq Eligible(j, j.post)
    /\ j.at \notin {"count", "send"} => j.posts = {} /\ j.notifs = {}
    /\ j.stale \subseteq j.ws

TypeOK ==
    /\ now \in 2..MaxTime /\ follows \in BOOLEAN /\ exists \in BOOLEAN
    /\ posted \in [Posts -> 0..MaxTime]
    /\ alive \subseteq Watchers /\ narrow \subseteq Watchers
    /\ muted \subseteq Watchers /\ bare \subseteq Watchers
    /\ since \in [Watchers -> 1..2] /\ notified \in [Watchers -> 1..MaxTime]
    /\ work \in [Consumers -> Jobs] /\ \A c \in Consumers : JobOK(work[c])
    /\ edits \in 0..MaxEdits /\ faults \in 0..MaxFaults
    /\ sent \subseteq Pairs /\ lost \subseteq Pairs
    /\ raced \subseteq Pairs /\ unwanted \subseteq Pairs

(* A post that a count of its watcher hides from every later job, because  *)
(* last_notified_at is now later, is not dropped in silence: it was pushed *)
(* or a job is about to, it was made after the listing of the job that     *)
(* counted, the filter had excluded it, or a failure took the push.        *)
PassedOverForCause ==
    \A w \in alive, p \in Posts \ Private :
        (posted[p] # 0 /\ since[w] <= posted[p] /\ Hidden(<<w, p>>))
        => <<w, p>> \in sent \cup lost \cup raced \cup unwanted
                         \cup UNION {Plan(work[c]) : c \in Consumers}

(* watchee_id has no foreign key: that no watcher outlives its user hangs  *)
(* on the order of two statements of a job, either of which may fail.      *)
NoOrphans == alive # {} => exists

(* A watcher hears of a post once, though nothing but a column of its row  *)
(* says so: a job that pushes again had read the row before another job    *)
(* counted the watcher.                                                    *)
NotifiedOnce ==
    [][\A c \in Consumers :
         Send(c) /\ <<work[c].hit, work[c].post>> \in sent
         => work[c].hit \in work[c].stale]_vars

(* Once a user has turned followers off for good, the watchers that are    *)
(* polled for that user go, whichever single call fails.                   *)
EventuallyUnwatched == (<>[]~follows) => <>[](Selected = {})
=============================================================================
