-------------------------- MODULE SubredditWatchers --------------------------
(***************************************************************************)
(* The watchers of one subreddit, of one kind: "subreddit" (new and hot    *)
(* posts that match) or "trending" (hot posts above the median).  The two  *)
(* kinds have consumers, rows and Redis keys of their own.                 *)
(*                                                                         *)
(* Their queues have no lock: the scheduler publishes a subreddit's id     *)
(* every SubredditCheckInterval, whatever became of the last job, so that  *)
(* a consumer may start one at any time and two may run side by side.      *)
(* What keeps a device from hearing of a post twice is a key per device    *)
(* and post, read, and then written, by the job.                           *)
(***************************************************************************)
EXTENDS Naturals, FiniteSets

CONSTANTS
    Consumers,
    Watchers,   \* ids of rows of "watchers", one create request for each
    Devices,
    Nobody,     \* owner[w] before w is created
    NoWatcher,  \* work[c].hit when there is none
    Pages,      \* times the newest posts are fetched in a job (5)
    PageLimit,  \* posts of one listing (100)
    Window,     \* how long a post is news (24 or 48 hours)
    MaxPosts,   \* bound: posts in a behaviour
    MaxTime,    \* bound: the clock stops there
    MaxEdits,   \* bound: edits, deletions and settings in a behaviour
    MaxFaults   \* bound: failed calls, crashes and restarts in a behaviour

ASSUME WatchersAssumption ==
    /\ Nobody \notin Devices /\ NoWatcher \notin Watchers
    /\ {Pages, PageLimit, Window} \subseteq Nat \ {0}
    /\ {MaxPosts, MaxEdits, MaxFaults} \subseteq Nat /\ MaxTime \in Nat \ {0}

VARIABLES
    kind,       \* the kind of this behaviour's watchers
    now,        \* the clock
    gone,       \* TRUE once Reddit answers 404 for the subreddit
    posted,     \* when a post was made; 0 before
    known,      \* TRUE once the subreddit has its row
    request,    \* where a create request stands
    alive,      \* watchers that have a row
    here,       \* watchers whose row names this subreddit
    owner,      \* the device of a watcher
    since,      \* when a watcher was created
    muted,      \* devices whose watchers the settings silence
    key,        \* when the key of a device and a post expires; 0: no key
    work,       \* where a consumer stands, and its copies
    edits, faults,  \* counters of the bounds
    sent,       \* device and post of every push that went out
    lost,       \* history: pushes that a failure took after their key was set
    again       \* history: device and post whose key could not be relied on

rows    == <<known, request, alive, here, owner, since>>
history == <<sent, lost, again>>
vars    == <<kind, now, gone, posted, rows, muted, key, work, edits, faults, history>>

Posts  == 1..MaxPosts
Pairs  == Devices \X Posts

Fault == faults < MaxFaults /\ faults' = faults + 1
Calm  == UNCHANGED faults

-----------------------------------------------------------------------------
(* Reddit.  A listing shows a post once some time has passed.              *)
Listed == {p \in Posts : posted[p] # 0 /\ posted[p] < now}

Newest(n, S) == {p \in S : Cardinality({q \in S : q > p}) < n}

(* post.CreatedAt.Before(threshold), for a threshold taken at t, is false. *)
FreshTooLong(p, t) == posted[p] + Window + 1 >= t
Fresh(p, t) == posted[p] + Window >= t

-----------------------------------------------------------------------------
(* A job's copy of the watchers, the posts it has gathered, the post it is *)
(* at, the watchers it has yet to check for it and the ones it will push.  *)
Idle == [at |-> "idle", ws |-> {}, page |-> 0, start |-> 0, posts |-> {},
         post |-> 0, todo |-> {}, hit |-> NoWatcher, notifs |-> {}]

Becomes(c, w) == work' = [work EXCEPT ![c] = w]

(* On to the next watcher, to the pushes, to the next post or to the end.  *)
NextPost(w) ==
    IF w.posts = {} THEN Idle
    ELSE [w EXCEPT !.at = "check", !.post = 0, !.todo = {}, !.notifs = {}]
Settle(w) ==
    IF w.todo # {} THEN [w EXCEPT !.at = "match"]
    ELSE IF w.notifs # {} THEN [w EXCEPT !.at = "send"]
    ELSE NextPost([w EXCEPT !.posts = @ \ {w.post}])

Pair(w, p)  == <<owner[w], p>>
Pending(c)  == {Pair(w, work[c].post) : w \in work[c].notifs}
HasKey(dp)  == key[dp] > now

(* What a key that lapses now might still be asked about.                  *)
Judges(c, p) ==
    \/ p \in work[c].posts
    \/ work[c].at \in {"new", "hot"} /\ work[c].start # 0 /\ Fresh(p, work[c].start)

-----------------------------------------------------------------------------
Tick ==
    /\ now < MaxTime
    /\ now' = now + 1
    /\ again' = again \cup
         {dp \in Pairs : key[dp] = now' /\ \E c \in Consumers : Judges(c, dp[2])}
    /\ UNCHANGED <<kind, gone, posted, rows, muted, key, work, edits, faults, sent, lost>>

Post ==
    /\ ~gone
    /\ \E p \in Posts :
        /\ posted[p] = 0
        /\ \A q \in 1..(p - 1) : posted[q] # 0
        /\ posted' = [posted EXCEPT ![p] = now]
    /\ UNCHANGED <<kind, now, gone, rows, muted, key, work, edits, faults, history>>

(* Banned or deleted, for good.                                            *)
Vanish ==
    /\ ~gone
    /\ gone' = TRUE
    /\ UNCHANGED <<kind, now, posted, rows, muted, key, work, edits, faults, history>>

-----------------------------------------------------------------------------
(* The API.                                                                *)
Besides == UNCHANGED <<kind, now, gone, posted, key, work, history>>

(* createWatcherHandler.  SubredditAbout must answer, and GetByName finds   *)
(* the subreddit's row ...                                                 *)
Insert(w, d) ==
    /\ request' = [request EXCEPT ![w] = "created"]
    /\ alive' = alive \cup {w} /\ here' = here \cup {w}
    /\ owner' = [owner EXCEPT ![w] = d]
    /\ since' = [since EXCEPT ![w] = now]

Refuse(w) ==
    /\ request' = [request EXCEPT ![w] = "refused"]
    /\ UNCHANGED <<alive, here, owner, since>>

Create(w, d) ==
    /\ request[w] = "none"
    /\ IF gone THEN Refuse(w) ELSE known /\ Insert(w, d)
    /\ Besides /\ Calm /\ UNCHANGED <<known, muted, edits>>

(* ... or does not.                                                        *)
Lookup(w) ==
    /\ request[w] = "none" /\ ~gone /\ ~known
    /\ request' = [request EXCEPT ![w] = "upsert"]
    /\ Besides /\ Calm /\ UNCHANGED <<known, alive, here, owner, since, muted, edits>>

(* INSERT ... ON CONFLICT DO NOTHING RETURNING id: if another request was  *)
(* faster there is no id, and Validate refuses a watcher without watchee.  *)
UpsertAndCreate(w, d) ==
    /\ request[w] = "upsert"
    /\ known' = TRUE
    /\ IF known THEN Refuse(w) ELSE Insert(w, d)
    /\ Besides /\ Calm /\ UNCHANGED <<muted, edits>>

UserEdits == edits < MaxEdits /\ edits' = edits + 1

(* editWatcherHandler names another subreddit, or this one again; a        *)
(* trending watcher keeps its own.  The row keeps its creation time.       *)
Edit(w) ==
    /\ UserEdits
    /\ w \in alive /\ kind = "subreddit"
    /\ \/ w \in here /\ here' = here \ {w}
       \/ w \notin here /\ ~gone /\ here' = here \cup {w}
    /\ Besides /\ Calm /\ UNCHANGED <<known, request, alive, owner, since, muted>>

DeleteByUser(w) ==
    /\ UserEdits
    /\ w \in alive
    /\ alive' = alive \ {w}
    /\ Besides /\ Calm /\ UNCHANGED <<known, request, here, owner, since, muted>>

(* watcher_notifiable and global_mute of the device and its account.       *)
Settings(d) ==
    /\ UserEdits
    /\ muted' = IF d \in muted THEN muted \ {d} ELSE muted \cup {d}
    /\ Besides /\ Calm /\ UNCHANGED rows

-----------------------------------------------------------------------------
(* A job's steps leave the clock, Reddit and the users' side alone.        *)
Inside == UNCHANGED <<kind, now, gone, posted, known, request, here, owner, since,
                      muted, edits>>
Reads  == Inside /\ UNCHANGED <<alive, key, history>>

Selected == {w \in alive \cap here : owner[w] \notin muted}

(* The queries: without a watcher the job is over.  The threshold is taken *)
(* here, or for trending in FetchHot.                                      *)
Start(c) ==
    /\ work[c].at = "idle"
    /\ Becomes(c, IF Selected = {} THEN Idle
                  ELSE IF kind = "trending" THEN [Idle EXCEPT !.at = "top", !.ws = Selected]
                  ELSE [Idle EXCEPT !.at = "new", !.ws = Selected, !.start = now])
    /\ Reads /\ Calm

(* The newest page, again and again: "before" stays empty.  A page that is *)
(* not full or holds an old post is the last one.                          *)
FetchNew(c) ==
    /\ work[c].at = "new" /\ ~gone
    /\ LET page  == Newest(PageLimit, Listed)
           news  == {p \in page : Fresh(p, work[c].start)}
           last  == \/ Cardinality(page) < PageLimit \/ news # page
                    \/ work[c].page + 1 = Pages
       IN  Becomes(c, [work[c] EXCEPT !.posts = @ \cup news,
                         !.page = IF last THEN 0 ELSE @ + 1,
                         !.at   = IF last THEN "hot" ELSE "new"])
    /\ Reads /\ Calm

(* 404: every watcher the job has read is deleted, one by one, by its id.  *)
NotFoundIgnored(c) ==
    /\ work[c].at = "new" /\ gone
    /\ Becomes(c, Idle)
    /\ Reads /\ Calm
NotFound(c) ==
    /\ work[c].at = "new" /\ gone
    /\ Becomes(c, [Idle EXCEPT !.at = "drop", !.ws = work[c].ws])
    /\ Reads /\ Calm

AfterDrop(c, w) ==
    IF work[c].ws = {w} THEN Idle ELSE [work[c] EXCEPT !.ws = @ \ {w}]

Drop(c, w) ==
    /\ work[c].at = "drop" /\ w \in work[c].ws
    /\ alive' = alive \ {w}
    /\ Becomes(c, AfterDrop(c, w))
    /\ Inside /\ Calm /\ UNCHANGED <<key, history>>

DropFails(c, w) ==
    /\ work[c].at = "drop" /\ w \in work[c].ws
    /\ Becomes(c, AfterDrop(c, w))
    /\ Reads /\ Fault

(* 401 or 403 for the watcher whose account made the call: it is deleted,  *)
(* and the job is over, or goes on without the hot posts.  (A trending job *)
(* deletes nothing.)                                                       *)
Unauthorized(c, w) ==
    /\ work[c].at \in {"new", "hot"} /\ kind = "subreddit"
    /\ w \in work[c].ws
    /\ alive' = alive \ {w}
    /\ Becomes(c, IF work[c].at = "new" THEN Idle ELSE NextPost(work[c]))
    /\ Inside /\ Fault /\ UNCHANGED <<key, history>>

(* The week's top posts; with fewer than 20 of them there is no median.    *)
FetchTop(c) ==
    /\ work[c].at = "top" /\ ~gone
    /\ \/ Becomes(c, Idle)
       \/ Becomes(c, [work[c] EXCEPT !.at = "hot"])
    /\ Reads /\ Calm

(* Hot posts up to the first old one, which may come anywhere; for         *)
(* trending, the ones whose score reaches the median.                      *)
FetchHot(c) ==
    /\ work[c].at = "hot" /\ ~gone
    /\ LET start == IF kind = "trending" THEN now ELSE work[c].start IN
         \E H \in SUBSET {p \in Listed : Fresh(p, start)} :
            Becomes(c, NextPost([work[c] EXCEPT !.start = start, !.posts = @ \cup H]))
    /\ Reads /\ Calm

(* Any other answer: the job is over, save that a subreddit job does       *)
(* without the hot posts.                                                  *)
WithoutListing(c) ==
    Becomes(c, IF work[c].at = "hot" /\ kind = "subreddit"
                 THEN NextPost(work[c]) ELSE Idle)

FetchRefused(c) ==
    /\ gone
    /\ work[c].at \in {"top", "hot"}
    /\ WithoutListing(c)
    /\ Reads /\ Calm

FetchFails(c) ==
    /\ work[c].at \in {"new", "top", "hot"}
    /\ WithoutListing(c)
    /\ Reads /\ Fault

(* The watchers that are older than the post and, for the subreddit kind,  *)
(* whose criteria it meets.  (Posts, watchers: in any order.)              *)
Match(c, p) ==
    /\ work[c].at = "check" /\ p \in work[c].posts
    /\ LET older == {w \in work[c].ws : since[w] <= posted[p]} IN
         \E M \in IF kind = "trending" THEN {older} ELSE SUBSET older :
            Becomes(c, Settle([work[c] EXCEPT !.post = p, !.todo = M]))
    /\ Reads /\ Calm

(* Get: the key of the watcher's device and the post.                      *)
CheckKey(c, w) ==
    /\ work[c].at = "match" /\ w \in work[c].todo
    /\ LET dp == Pair(w, work[c].post) IN
         IF HasKey(dp)
           THEN /\ Becomes(c, Settle([work[c] EXCEPT !.todo = @ \ {w}]))
                /\ UNCHANGED again
           ELSE /\ Becomes(c, [work[c] EXCEPT !.at = "hit", !.hit = w])
                /\ again' = again \cup
                     {q \in {dp} : \E b \in Consumers \ {c} :
                         work[b].at = "hit" /\ Pair(work[b].hit, work[b].post) = dp}
    /\ Inside /\ Calm /\ UNCHANGED <<alive, key, sent, lost>>

(* Its error is dropped and reads as "no key".                             *)
CheckKeyFails(c, w) ==
    /\ work[c].at = "match" /\ w \in work[c].todo
    /\ Becomes(c, [work[c] EXCEPT !.at = "hit", !.hit = w])
    /\ again' = again \cup {Pair(w, work[c].post)}
    /\ Inside /\ Fault /\ UNCHANGED <<alive, key, sent, lost>>

Hit(c) == Pair(work[c].hit, work[c].post)

(* A watcher that is to be pushed: at once for trending, and with the      *)
(* others of the post for a subreddit.                                     *)
AfterMarkStillHit(w) ==
    LET v == [w EXCEPT !.todo = @ \ {w.hit}, !.notifs = @ \cup {w.hit}]
    IN  IF kind = "trending" THEN [v EXCEPT !.at = "send"] ELSE Settle(v)
AfterMark(w) ==
    LET v == [w EXCEPT !.todo = @ \ {w.hit}, !.notifs = @ \cup {w.hit},
                       !.hit = NoWatcher]
    IN  IF kind = "trending" THEN [v EXCEPT !.at = "send"] ELSE Settle(v)

TTL == Window

(* IncrementHits and SetEX, in this order or, for trending, in the other.  *)
Mark(c) ==
    /\ work[c].at = "hit"
    /\ key' = [key EXCEPT ![Hit(c)] = now + TTL]
    /\ Becomes(c, AfterMark(work[c]))
    /\ Inside /\ Calm /\ UNCHANGED <<alive, history>>

(* The error of SetEX is dropped.                                          *)
MarkFails(c) ==
    /\ work[c].at = "hit"
    /\ Becomes(c, AfterMark(work[c]))
    /\ again' = again \cup {Hit(c)}
    /\ Inside /\ Fault /\ UNCHANGED <<alive, key, sent, lost>>

(* IncrementHits fails and the job is over: for trending with the key set, *)
(* for a subreddit before the pushes of the watchers it had marked.        *)
CountFails(c) ==
    /\ work[c].at = "hit"
    /\ key' = IF kind = "trending" THEN [key EXCEPT ![Hit(c)] = now + TTL] ELSE key
    /\ lost' = lost \cup (IF kind = "trending" THEN {Hit(c)} ELSE Pending(c))
    /\ Becomes(c, Idle)
    /\ Inside /\ Fault /\ UNCHANGED <<alive, sent, again>>

AfterFirstSend(c, w) == NextPost([work[c] EXCEPT !.posts = @ \ {work[c].post}])
AfterSend(c, w) == Settle([work[c] EXCEPT !.notifs = @ \ {w}])

Send(c, w) ==
    /\ work[c].at = "send" /\ w \in work[c].notifs
    /\ sent' = sent \cup {Pair(w, work[c].post)}
    /\ Becomes(c, AfterSend(c, w))
    /\ Inside /\ Calm /\ UNCHANGED <<alive, key, lost, again>>

(* An error or a rejection is logged and the job goes on.                  *)
SendFails(c, w) ==
    /\ work[c].at = "send" /\ w \in work[c].notifs
    /\ lost' = lost \cup {Pair(w, work[c].post)}
    /\ Becomes(c, AfterSend(c, w))
    /\ Inside /\ Fault /\ UNCHANGED <<alive, key, sent, again>>

(* The worker dies; the delivery comes back as a job of its own.           *)
Crash(c) ==
    /\ work[c].at # "idle"
    /\ lost' = lost \cup Pending(c)
    /\ Becomes(c, Idle)
    /\ Inside /\ Fault /\ UNCHANGED <<alive, key, sent, again>>

(* redis-locks restarts with the keys it had saved.                        *)
RestartRedis(kept) ==
    /\ key' = [dp \in Pairs |-> IF dp \in kept THEN key[dp] ELSE 0]
    /\ again' = again \cup {dp \in Pairs \ kept : HasKey(dp)}
    /\ Inside /\ Fault /\ UNCHANGED <<alive, work, sent, lost>>

-----------------------------------------------------------------------------
Init ==
    /\ kind \in {"subreddit", "trending"}
    /\ now = 1 /\ gone = FALSE /\ known = FALSE
    /\ posted  = [p \in Posts |-> 0]
    /\ request = [w \in Watchers |-> "none"]
    /\ alive = {} /\ here = {} /\ muted = {}
    /\ owner = [w \in Watchers |-> Nobody]
    /\ since = [w \in Watchers |-> 0]
    /\ key   = [dp \in Pairs |-> 0]
    /\ work  = [c \in Consumers |-> Idle]
    /\ edits = 0 /\ faults = 0
    /\ sent = {} /\ lost = {} /\ again = {}

UserStep ==
    \/ \E w \in Watchers :
        \/ \E d \in Devices : Create(w, d) \/ UpsertAndCreate(w, d)
        \/ Lookup(w) \/ Edit(w) \/ DeleteByUser(w)
    \/ \E d \in Devices : Settings(d)

JobStep(c) ==
    \/ Start(c) \/ FetchNew(c) \/ NotFound(c) \/ FetchTop(c) \/ FetchHot(c)
    \/ FetchRefused(c)
    \/ \E p \in Posts : Match(c, p)
    \/ Mark(c)
    \/ \E w \in Watchers : CheckKey(c, w) \/ Send(c, w) \/ Drop(c, w)

JobFault(c) ==
    \/ FetchFails(c) \/ MarkFails(c) \/ CountFails(c) \/ Crash(c)
    \/ \E w \in Watchers :
        \/ Unauthorized(c, w) \/ DropFails(c, w)
        \/ CheckKeyFails(c, w) \/ SendFails(c, w)

Next ==
    \/ Tick \/ Post \/ Vanish
    \/ UserStep
    \/ \E c \in Consumers : JobStep(c) \/ JobFault(c)
    \/ \E kept \in SUBSET Pairs : RestartRedis(kept)

Spec == Init /\ [][Next]_vars

(* The scheduler enqueues every subreddit again and again, and a job that  *)
(* has begun goes on.                                                      *)
Fairness == \A c \in Consumers : WF_vars(JobStep(c))

FairSpec == Spec /\ Fairness

-----------------------------------------------------------------------------
(* Every variable holds what its declaration says.                         *)
Jobs == [at : {"idle", "new", "drop", "top", "hot", "check", "match", "hit", "send"},
         ws : SUBSET Watchers, page : 0..(Pages - 1), start : 0..MaxTime,
         posts : SUBSET Posts, post : 0..MaxPosts, todo : SUBSET Watchers,
         hit : Watchers \cup {NoWatcher}, notifs : SUBSET Watchers]

TypeOK ==
    /\ kind \in {"subreddit", "trending"}
    /\ now \in 1..MaxTime /\ gone \in BOOLEAN /\ known \in BOOLEAN
    /\ posted \in [Posts -> 0..MaxTime]
    /\ request \in [Watchers -> {"none", "upsert", "created", "refused"}]
    /\ alive \subseteq Watchers /\ here \subseteq Watchers
    /\ owner \in [Watchers -> Devices \cup {Nobody}]
    /\ \A w \in Watchers : request[w] = "created" <=> owner[w] # Nobody
    /\ since \in [Watchers -> 0..MaxTime]
    /\ muted \subseteq Devices
    /\ key \in [Pairs -> 0..(MaxTime + Window)]
    /\ work \in [Consumers -> Jobs]
    /\ \A c \in Consumers :
        /\ work[c].at = "hit" <=> work[c].hit # NoWatcher
        /\ work[c].at = "send" => work[c].notifs # {}
    /\ edits \in 0..MaxEdits /\ faults \in 0..MaxFaults
    /\ sent \subseteq Pairs /\ lost \subseteq Pairs /\ again \subseteq Pairs

(* A device hears of a post once, however many of its watchers match it,   *)
(* listings show it and jobs see it: unless two jobs ask for its key       *)
(* before either has set it, Redis fails or forgets, or the key lapses     *)
(* under a job that began while the post was news.                         *)
NotifiedOnce ==
    [][\A c \in Consumers, w \in Watchers :
         Send(c, w) /\ Pair(w, work[c].post) \in sent
         => Pair(w, work[c].post) \in again]_vars

(* A key that keeps a device from a post stands for a push: one that went  *)
(* out, one that the job which set the key is about to make, or one that a *)
(* failure took after the key was set.                                     *)
MarkedIsSent ==
    \A dp \in Pairs : HasKey(dp) =>
        dp \in sent \cup lost \cup UNION {Pending(c) : c \in Consumers}

(* A subreddit that is gone for good loses the watchers that are polled    *)
(* for it.  (Those of the trending kind it keeps.)                         *)
EventuallyCleaned ==
    kind = "subreddit" =>
        \A w \in Watchers : (gone /\ w \in Selected) ~> (w \notin Selected)
=============================================================================
