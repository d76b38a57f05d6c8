----------------------- MODULE SubredditWatchersProofs -----------------------
(***************************************************************************)
(* Proofs about SubredditWatchers, for any sets of consumers, watchers and *)
(* devices, any number of posts, edits and faults and any window.          *)
(***************************************************************************)
EXTENDS SubredditWatchers, TLAPS

-----------------------------------------------------------------------------
(* Type correctness.  A job decides about a post while it is at one of     *)
(* these places, and only there it holds notifications.                    *)
Deciding == {"match", "hit", "send"}

Created == {w \in Watchers : owner[w] \in Devices}

JobOK(w) ==
    /\ w \in Jobs
    /\ w.at = "hit" <=> w.hit # NoWatcher
    /\ w.at = "send" => w.notifs # {}
    /\ w.ws \subseteq Created /\ w.todo \subseteq Created /\ w.notifs \subseteq Created
    /\ w.hit # NoWatcher => w.hit \in Created
    /\ w.posts \subseteq Listed
    /\ w.at \in Deciding => w.post \in w.posts
    /\ w.at \notin Deciding => w.notifs = {}
    /\ w.at = "top" => kind = "trending" /\ w.start = 0
    /\ w.at = "new" => w.start # 0
    /\ w.at = "hot" /\ kind = "subreddit" => w.start # 0
    /\ kind = "trending" => /\ w.at \in {"match", "hit"} => w.notifs = {}
                            /\ \A u, v \in w.notifs : u = v

(* TypeOK, without the jobs.                                               *)
RestType ==
    /\ kind \in {"subreddit", "trending"}
    /\ now \in 1..MaxTime /\ gone \in BOOLEAN /\ known \in BOOLEAN
    /\ posted \in [Posts -> 0..MaxTime]
    /\ request \in [Watchers -> {"none", "upsert", "created", "refused"}]
    /\ alive \subseteq Created /\ here \subseteq Watchers
    /\ owner \in [Watchers -> Devices \cup {Nobody}]
    /\ \A w \in Watchers : request[w] = "created" <=> owner[w] # Nobody
    /\ since \in [Watchers -> 0..MaxTime]
    /\ muted \subseteq Devices
    /\ key \in [Pairs -> 0..(MaxTime + Window)]
    /\ edits \in 0..MaxEdits /\ faults \in 0..MaxFaults
    /\ sent \subseteq Pairs /\ lost \subseteq Pairs /\ again \subseteq Pairs

TypeInv ==
    /\ RestType
    /\ work \in [Consumers -> Jobs]
    /\ \A c \in Consumers : JobOK(work[c])

LEMMA TypeInvTypeOK == TypeInv => TypeOK
BY DEF TypeInv, TypeOK, RestType, Created, JobOK

LEMMA Bounds ==
    /\ Pages \in Nat \ {0} /\ Window \in Nat \ {0} /\ MaxTime \in Nat \ {0}
    /\ MaxPosts \in Nat /\ MaxEdits \in Nat /\ MaxFaults \in Nat
    /\ Nobody \notin Devices /\ NoWatcher \notin Watchers
    /\ 0 \in 0..(Pages - 1) /\ 0 \in 0..MaxTime /\ 0 \in 0..MaxPosts
BY WatchersAssumption

LEMMA IdleOK == JobOK(Idle)
BY Bounds DEF JobOK, Idle, Jobs, Deciding

(* A job that has read the watchers and holds no notifications.            *)
LEMMA NextPostOK ==
    ASSUME NEW w, w \in Jobs, w.hit = NoWatcher, w.ws \subseteq Created,
           w.posts \subseteq Listed
    PROVE  /\ JobOK(NextPost(w))
           /\ NextPost(w).at \in {"idle", "check"} /\ NextPost(w).notifs = {}
           /\ NextPost(w).posts \subseteq w.posts
<1>1. CASE w.posts = {}
  <2>1. NextPost(w) = Idle
    BY <1>1 DEF NextPost
  <2> QED
    BY <2>1, IdleOK DEF Idle
<1>2. CASE w.posts # {}
  <2> DEFINE v == [w EXCEPT !.at = "check", !.post = 0, !.todo = {}, !.notifs = {}]
  <2>1. NextPost(w) = v
    BY <1>2 DEF NextPost
  <2>2. v \in Jobs
    BY Bounds DEF Jobs
  <2>3. /\ v.at = "check" /\ v.notifs = {} /\ v.todo = {} /\ v.hit = w.hit
        /\ v.ws = w.ws /\ v.posts = w.posts
    BY DEF Jobs
  <2> HIDE DEF v
  <2>4. JobOK(v)
    BY <2>2, <2>3 DEF JobOK, Deciding
  <2> QED
    BY <2>1, <2>3, <2>4
<1> QED
  BY <1>1, <1>2

LEMMA SettleOK ==
    ASSUME NEW w, w \in Jobs, w.hit = NoWatcher, w.ws \subseteq Created,
           w.todo \subseteq Created, w.notifs \subseteq Created,
           w.posts \subseteq Listed, w.post \in w.posts,
           kind = "trending" => w.notifs = {}
    PROVE  /\ JobOK(Settle(w))
           /\ Settle(w).at \in {"match", "send", "idle", "check"}
           /\ Settle(w).posts \subseteq w.posts
           /\ \/ Settle(w).at \in {"match", "send"} /\ Settle(w).notifs = w.notifs
                                                   /\ Settle(w).post = w.post
              \/ Settle(w).at \in {"idle", "check"} /\ Settle(w).notifs = {}
                                                   /\ w.notifs = {}
<1>1. CASE w.todo # {}
  <2> DEFINE v == [w EXCEPT !.at = "match"]
  <2>1. Settle(w) = v
    BY <1>1 DEF Settle
  <2>2. /\ v \in Jobs
        /\ v.at = "match" /\ v.notifs = w.notifs /\ v.todo = w.todo /\ v.hit = w.hit
        /\ v.ws = w.ws /\ v.posts = w.posts /\ v.post = w.post
    BY DEF Jobs
  <2> HIDE DEF v
  <2>3. JobOK(v)
    BY <2>2 DEF JobOK, Deciding
  <2> QED
    BY <2>1, <2>2, <2>3
<1>2. CASE w.todo = {} /\ w.notifs # {}
  <2> DEFINE v == [w EXCEPT !.at = "send"]
  <2>1. Settle(w) = v
    BY <1>2 DEF Settle
  <2>2. /\ v \in Jobs
        /\ v.at = "send" /\ v.notifs = w.notifs /\ v.todo = w.todo /\ v.hit = w.hit
        /\ v.ws = w.ws /\ v.posts = w.posts /\ v.post = w.post
    BY DEF Jobs
  <2> HIDE DEF v
  <2>3. JobOK(v)
    BY <1>2, <2>2 DEF JobOK, Deciding
  <2> QED
    BY <2>1, <2>2, <2>3
<1>3. CASE w.todo = {} /\ w.notifs = {}
  <2> DEFINE v == [w EXCEPT !.posts = @ \ {w.post}]
  <2>1. Settle(w) = NextPost(v)
    BY <1>3 DEF Settle
  <2>2. v \in Jobs /\ v.hit = NoWatcher /\ v.ws = w.ws /\ v.posts = w.posts \ {w.post}
    BY DEF Jobs
  <2> HIDE DEF v
  <2>3. v.posts \subseteq Listed /\ v.ws \subseteq Created
    BY <2>2
  <2> QED
    BY <1>3, <2>1, <2>2, <2>3, NextPostOK
<1> QED
  BY <1>1, <1>2, <1>3

(* A step of a job.                                                        *)
LEMMA JobStepType ==
    ASSUME TypeInv, NEW c \in Consumers, NEW w, JobOK(w), Becomes(c, w), Inside,
           alive' \subseteq alive, faults' \in 0..MaxFaults,
           key' \in [Pairs -> 0..(MaxTime + Window)],
           sent' \subseteq Pairs, lost' \subseteq Pairs, again' \subseteq Pairs
    PROVE  TypeInv'
<1>1. RestType'
  BY DEF TypeInv, RestType, Inside, Created
<1>2. w \in Jobs
  BY DEF JobOK
<1>3. /\ work' \in [Consumers -> Jobs] /\ work'[c] = w
      /\ \A d \in Consumers \ {c} : work'[d] = work[d]
  BY <1>2 DEF TypeInv, Becomes
<1>4. ASSUME NEW d \in Consumers PROVE JobOK(work[d])'
  <2>1. PICK v : v = work'[d] /\ JobOK(v)
    BY <1>3 DEF TypeInv
  <2> QED
    BY <2>1 DEF JobOK, Created, Listed, Inside
<1> QED
  BY <1>1, <1>3, <1>4 DEF TypeInv

(* Steps that write nothing else.                                          *)
LEMMA ReadType ==
    ASSUME TypeInv, NEW c \in Consumers, NEW w, JobOK(w), Becomes(c, w), Reads,
           Fault \/ Calm
    PROVE  TypeInv'
<1>1. faults' \in 0..MaxFaults
  BY Bounds DEF TypeInv, RestType, Fault, Calm
<1> QED
  BY <1>1, JobStepType DEF Reads, history, TypeInv, RestType

LEMMA StartType == ASSUME TypeInv, NEW c \in Consumers, Start(c) PROVE TypeInv'
<1> DEFINE w == IF Selected = {} THEN Idle
                ELSE IF kind = "trending" THEN [Idle EXCEPT !.at = "top", !.ws = Selected]
                ELSE [Idle EXCEPT !.at = "new", !.ws = Selected, !.start = now]
<1>1. /\ Selected \subseteq Created /\ Selected \subseteq Watchers
      /\ now \in 0..MaxTime /\ now # 0
  BY DEF Selected, TypeInv, RestType, Created
<1>2. JobOK(w)
  <2>1. CASE Selected = {}
    BY <2>1, IdleOK
  <2>2. CASE Selected # {} /\ kind = "trending"
    <3> DEFINE v == [Idle EXCEPT !.at = "top", !.ws = Selected]
    <3>1. v \in Jobs
      BY <1>1, IdleOK DEF JobOK, Jobs
    <3>2. v.at = "top" /\ v.ws = Selected /\ v.todo = {} /\ v.notifs = {}
          /\ v.hit = NoWatcher /\ v.posts = {} /\ v.start = 0
      BY DEF Idle
    <3> HIDE DEF v
    <3>3. JobOK(v)
      BY <1>1, <2>2, <3>1, <3>2 DEF JobOK, Deciding
    <3> QED
      BY <2>2, <3>3 DEF v
  <2>3. CASE Selected # {} /\ kind # "trending"
    <3> DEFINE v == [Idle EXCEPT !.at = "new", !.ws = Selected, !.start = now]
    <3>1. v \in Jobs
      BY <1>1, IdleOK, Bounds DEF JobOK, Jobs
    <3>2. v.at = "new" /\ v.ws = Selected /\ v.todo = {} /\ v.notifs = {}
          /\ v.hit = NoWatcher /\ v.posts = {} /\ v.start = now
      BY DEF Idle
    <3> HIDE DEF v
    <3>3. JobOK(v)
      BY <1>1, <3>1, <3>2 DEF JobOK, Deciding
    <3> QED
      BY <2>3, <3>3 DEF v
  <2> QED
    BY <2>1, <2>2, <2>3
<1>3. Becomes(c, w) /\ Reads /\ Calm
  BY DEF Start
<1> HIDE DEF w
<1> QED
  BY <1>2, <1>3, ReadType

(* The listings.                                                           *)
LEMMA FetchType ==
    ASSUME TypeInv, NEW c \in Consumers,
           FetchNew(c) \/ FetchTop(c) \/ FetchHot(c) \/ NotFound(c)
    PROVE  TypeInv'
<1>0. JobOK(work[c]) /\ work[c] \in Jobs /\ now \in 1..MaxTime
  BY DEF TypeInv, RestType
<1> SUFFICES \E w : JobOK(w) /\ Becomes(c, w) /\ Reads /\ Calm
  BY ReadType
<1>1. CASE FetchNew(c)
  <2> DEFINE page == Newest(PageLimit, Listed)
             news == {p \in page : Fresh(p, work[c].start)}
             last == \/ Cardinality(page) < PageLimit \/ news # page
                     \/ work[c].page + 1 = Pages
             w == [work[c] EXCEPT !.posts = @ \cup news,
                         !.page = IF last THEN 0 ELSE @ + 1,
                         !.at   = IF last THEN "hot" ELSE "new"]
  <2>1. news \subseteq Listed
    BY DEF Newest
  <2>2. ~last => work[c].page + 1 # Pages
    OBVIOUS
  <2>3. Becomes(c, w) /\ Reads /\ Calm /\ work[c].at = "new"
    BY <1>1 DEF FetchNew
  <2> HIDE DEF news, last
  <2>4. (IF last THEN 0 ELSE work[c].page + 1) \in 0..(Pages - 1)
    BY <1>0, <2>2, Bounds DEF Jobs
  <2>5. w \in Jobs /\ w.at \in {"new", "hot"} /\ w.posts = work[c].posts \cup news
        /\ w.ws = work[c].ws /\ w.todo = work[c].todo /\ w.notifs = work[c].notifs
        /\ w.hit = work[c].hit /\ w.start = work[c].start
    BY <1>0, <2>1, <2>4 DEF Jobs, Listed
  <2> HIDE DEF w
  <2>6. JobOK(w)
    BY <1>0, <2>1, <2>3, <2>5 DEF JobOK, Deciding
  <2> QED
    BY <2>3, <2>6
<1>2. CASE FetchTop(c)
  <2> DEFINE v == [work[c] EXCEPT !.at = "hot"]
  <2>1. v \in Jobs /\ v.at = "hot" /\ v.posts = work[c].posts
        /\ v.ws = work[c].ws /\ v.todo = work[c].todo /\ v.notifs = work[c].notifs
        /\ v.hit = work[c].hit /\ v.start = work[c].start
    BY <1>0 DEF Jobs
  <2> HIDE DEF v
  <2>2. work[c].at = "top" /\ kind = "trending" => JobOK(v)
    BY <1>0, <2>1 DEF JobOK, Deciding
  <2>3. kind = "trending"
    BY <1>0, <1>2 DEF FetchTop, JobOK
  <2>4. CASE Becomes(c, Idle)
    BY <1>2, <2>4, IdleOK DEF FetchTop
  <2>5. CASE Becomes(c, [work[c] EXCEPT !.at = "hot"])
    BY <1>2, <2>2, <2>3, <2>5 DEF FetchTop, v
  <2> QED
    BY <1>2, <2>4, <2>5 DEF FetchTop
<1>3. CASE FetchHot(c)
  <2> DEFINE start == IF kind = "trending" THEN now ELSE work[c].start
  <2>1. PICK H \in SUBSET {p \in Listed : Fresh(p, start)} :
          Becomes(c, NextPost([work[c] EXCEPT !.start = start, !.posts = @ \cup H]))
    BY <1>3 DEF FetchHot
  <2> DEFINE v == [work[c] EXCEPT !.start = start, !.posts = @ \cup H]
  <2>2. start \in 0..MaxTime /\ H \subseteq Listed /\ H \subseteq Posts
    BY <1>0 DEF Jobs, Listed
  <2>3. v \in Jobs /\ v.hit = work[c].hit /\ v.ws = work[c].ws
        /\ v.posts = work[c].posts \cup H
    BY <1>0, <2>2 DEF Jobs
  <2>4. JobOK(NextPost(v))
    <3>1. work[c].at = "hot"
      BY <1>3 DEF FetchHot
    <3> HIDE DEF v, start
    <3> QED
      BY <1>0, <2>2, <2>3, <3>1, NextPostOK DEF JobOK
  <2> QED
    BY <1>3, <2>1, <2>4 DEF FetchHot
<1>4. CASE NotFound(c)
  <2> DEFINE v == [Idle EXCEPT !.at = "drop", !.ws = work[c].ws]
  <2>1. v \in Jobs
    BY <1>0, IdleOK DEF JobOK, Jobs
  <2>2. v.at = "drop" /\ v.ws = work[c].ws /\ v.todo = {} /\ v.notifs = {}
        /\ v.hit = NoWatcher /\ v.posts = {}
    BY DEF Idle
  <2> HIDE DEF v
  <2>3. JobOK(v)
    BY <1>0, <2>1, <2>2 DEF JobOK, Deciding
  <2> QED
    BY <1>4, <2>3 DEF NotFound, v
<1> QED
  BY <1>1, <1>2, <1>3, <1>4

(* A listing that failed or was refused.                                   *)
LEMMA WithoutListingType ==
    ASSUME TypeInv, NEW c \in Consumers, FetchRefused(c) \/ FetchFails(c) PROVE TypeInv'
<1> DEFINE w == IF work[c].at = "hot" /\ kind = "subreddit" THEN NextPost(work[c]) ELSE Idle
<1>0. JobOK(work[c]) /\ work[c] \in Jobs /\ work[c].at \in {"new", "top", "hot"}
  BY DEF TypeInv, FetchRefused, FetchFails
<1>1. JobOK(NextPost(work[c]))
  BY <1>0, NextPostOK DEF JobOK
<1>2. JobOK(w)
  BY <1>1, IdleOK
<1>3. Becomes(c, w) /\ Reads /\ (Fault \/ Calm)
  BY DEF FetchRefused, FetchFails, WithoutListing
<1> HIDE DEF w
<1> QED
  BY <1>2, <1>3, ReadType

(* The watchers of a subreddit that is gone, or whose account is refused.  *)
LEMMA DropType ==
    ASSUME TypeInv, NEW c \in Consumers, NEW w \in Watchers,
           Drop(c, w) \/ DropFails(c, w) \/ Unauthorized(c, w)
    PROVE  TypeInv'
<1>0. JobOK(work[c]) /\ work[c] \in Jobs /\ RestType
  BY DEF TypeInv
<1>1. faults' \in 0..MaxFaults
  BY <1>0, Bounds DEF RestType, Drop, DropFails, Unauthorized, Fault, Calm
<1>2. CASE Drop(c, w) \/ DropFails(c, w)
  <2>1. work[c].at = "drop"
    BY <1>2 DEF Drop, DropFails
  <2> DEFINE v == [work[c] EXCEPT !.ws = @ \ {w}]
  <2>2. v \in Jobs
    BY <1>0 DEF Jobs
  <2>3. /\ v.at = "drop" /\ v.ws = work[c].ws \ {w} /\ v.todo = work[c].todo
        /\ v.notifs = work[c].notifs /\ v.hit = work[c].hit /\ v.posts = work[c].posts
    BY <1>0, <2>1 DEF Jobs
  <2> HIDE DEF v
  <2>4. JobOK(v)
    BY <1>0, <2>1, <2>2, <2>3 DEF JobOK, Deciding
  <2>5. JobOK(AfterDrop(c, w))
    BY <2>4, IdleOK DEF AfterDrop, v
  <2>6. Becomes(c, AfterDrop(c, w)) /\ Inside /\ alive' \subseteq alive
        /\ UNCHANGED <<key, sent, lost, again>>
    BY <1>2 DEF Drop, DropFails, Reads, history
  <2> QED
    BY <1>0, <1>1, <2>5, <2>6, JobStepType DEF RestType
<1>3. CASE Unauthorized(c, w)
  <2> DEFINE v == IF work[c].at = "new" THEN Idle ELSE NextPost(work[c])
  <2>1. JobOK(NextPost(work[c]))
    BY <1>0, <1>3, NextPostOK DEF JobOK, Unauthorized
  <2>2. JobOK(v)
    BY <2>1, IdleOK
  <2>3. Becomes(c, v) /\ Inside /\ alive' \subseteq alive /\ UNCHANGED <<key, sent, lost, again>>
    BY <1>3 DEF Unauthorized, history
  <2> HIDE DEF v
  <2> QED
    BY <1>0, <1>1, <2>2, <2>3, JobStepType DEF RestType
<1> QED
  BY <1>2, <1>3

(* From a post to its watchers.                                            *)
LEMMA MatchType ==
    ASSUME TypeInv, NEW c \in Consumers, NEW p \in Posts, Match(c, p)
    PROVE  /\ TypeInv'
           /\ work[c].at = "check" /\ work[c].notifs = {} /\ p \in work[c].posts
           /\ \E v : /\ Becomes(c, Settle(v)) /\ v \in Jobs /\ v.notifs = {}
                     /\ v.hit = NoWatcher /\ v.post = p /\ v.posts = work[c].posts
                     /\ v.ws \subseteq Created /\ v.todo \subseteq Created
<1>0. JobOK(work[c]) /\ work[c] \in Jobs /\ work[c].at = "check" /\ p \in work[c].posts
  BY DEF TypeInv, Match
<1>1. PICK M \in SUBSET work[c].ws :
        Becomes(c, Settle([work[c] EXCEPT !.post = p, !.todo = M]))
  BY DEF Match
<1> DEFINE v == [work[c] EXCEPT !.post = p, !.todo = M]
<1>2. v \in Jobs
  <2>1. M \in SUBSET Watchers /\ p \in 0..MaxPosts
    BY <1>0, Bounds DEF Jobs, Posts
  <2> QED
    BY <1>0, <2>1 DEF Jobs
<1>3. /\ v.post = p /\ v.todo = M /\ v.ws = work[c].ws /\ v.notifs = work[c].notifs
      /\ v.hit = work[c].hit /\ v.posts = work[c].posts
  BY <1>0 DEF Jobs
<1>4. Becomes(c, Settle(v))
  BY <1>1
<1> HIDE DEF v
<1>5. /\ v.notifs = {} /\ v.hit = NoWatcher /\ v.ws \subseteq Created
      /\ v.todo \subseteq Created /\ v.posts \subseteq Listed
  BY <1>0, <1>3 DEF JobOK, Deciding
<1>6. JobOK(Settle(v))
  BY <1>0, <1>2, <1>3, <1>5, SettleOK
<1>7. TypeInv'
  BY <1>4, <1>6, ReadType DEF Match
<1> QED
  BY <1>0, <1>2, <1>3, <1>4, <1>5, <1>7 DEF JobOK, Deciding

LEMMA PairType ==
    ASSUME NEW w \in Created, NEW p \in Posts PROVE Pair(w, p) \in Pairs
BY DEF Created, Pair, Pairs

(* The jobs that decide about a post.                                      *)
LEMMA DecidingOn ==
    ASSUME TypeInv, NEW c \in Consumers, work[c].at \in Deciding
    PROVE  /\ work[c].post \in work[c].posts /\ work[c].post \in Posts
           /\ work[c].post \in Listed
           /\ Pending(c) \subseteq Pairs
           /\ work[c].at = "hit" => work[c].hit \in Created /\ Hit(c) \in Pairs
<1>1. JobOK(work[c]) /\ work[c] \in Jobs
  BY DEF TypeInv
<1>2. work[c].post \in work[c].posts /\ work[c].post \in Posts /\ work[c].post \in Listed
  BY <1>1 DEF JobOK, Jobs, Listed
<1>3. Pending(c) \subseteq Pairs
  BY <1>1, <1>2, PairType DEF JobOK, Pending
<1>4. work[c].at = "hit" => work[c].hit \in Created /\ Hit(c) \in Pairs
  BY <1>1, <1>2, PairType DEF JobOK, Hit
<1> QED
  BY <1>2, <1>3, <1>4

(* The key is there, and the job goes on; or it is not, and the watcher is *)
(* to be pushed.                                                           *)
LEMMA CheckType ==
    ASSUME TypeInv, NEW c \in Consumers, NEW w \in Watchers,
           CheckKey(c, w) \/ CheckKeyFails(c, w)
    PROVE  /\ TypeInv'
           /\ work[c].at = "match" /\ w \in Created
           /\ work'[c].posts \subseteq work[c].posts
           /\ work'[c].at \in {"idle", "check", "match", "hit", "send"}
           /\ work'[c].notifs = work[c].notifs
           /\ work'[c].post = work[c].post \/ work'[c].notifs = {}
           /\ work'[c].at = "hit" => /\ work'[c].hit = w /\ work'[c].post = work[c].post
                                     /\ ~HasKey(Pair(w, work[c].post)) \/ CheckKeyFails(c, w)
<1>0. /\ JobOK(work[c]) /\ work[c] \in Jobs /\ work[c].at = "match" /\ w \in work[c].todo
      /\ RestType
  BY DEF TypeInv, CheckKey, CheckKeyFails
<1>1. w \in Created /\ work[c].post \in Posts /\ Pair(w, work[c].post) \in Pairs
  BY <1>0, DecidingOn, PairType DEF JobOK, Deciding
<1> DEFINE v == [work[c] EXCEPT !.todo = @ \ {w}]
           h == [work[c] EXCEPT !.at = "hit", !.hit = w]
<1>2. v \in Jobs /\ h \in Jobs
  BY <1>0 DEF Jobs
<1>3. /\ v.todo = work[c].todo \ {w} /\ v.at = work[c].at /\ v.ws = work[c].ws
      /\ v.notifs = work[c].notifs /\ v.hit = work[c].hit /\ v.posts = work[c].posts
      /\ v.post = work[c].post
  BY <1>0 DEF Jobs
<1>4. /\ h.todo = work[c].todo /\ h.at = "hit" /\ h.ws = work[c].ws
      /\ h.notifs = work[c].notifs /\ h.hit = w /\ h.posts = work[c].posts
      /\ h.post = work[c].post
  BY <1>0 DEF Jobs
<1>5. \/ Becomes(c, Settle(v))
      \/ Becomes(c, h) /\ (~HasKey(Pair(w, work[c].post)) \/ CheckKeyFails(c, w))
  BY DEF CheckKey, CheckKeyFails
<1>6. /\ Inside /\ alive' \subseteq alive /\ faults' \in 0..MaxFaults
      /\ UNCHANGED <<key, sent, lost>>
      /\ again' \subseteq Pairs
  BY <1>0, <1>1, Bounds DEF CheckKey, CheckKeyFails, Fault, Calm, RestType
<1> HIDE DEF v, h
<1>7. JobOK(h)
  BY <1>0, <1>1, <1>2, <1>4, Bounds DEF JobOK, Deciding, Created
<1>8. /\ JobOK(Settle(v))
      /\ Settle(v).at \in {"match", "send", "idle", "check"}
      /\ Settle(v).posts \subseteq v.posts /\ Settle(v).notifs = v.notifs
      /\ Settle(v).post = v.post \/ v.notifs = {}
  <2>1. /\ v.hit = NoWatcher /\ v.ws \subseteq Created /\ v.todo \subseteq Created
        /\ v.notifs \subseteq Created /\ v.posts \subseteq Listed /\ v.post \in v.posts
        /\ kind = "trending" => v.notifs = {}
    BY <1>0, <1>3 DEF JobOK, Deciding
  <2> QED
    BY <1>2, <2>1, SettleOK
<1>9. CASE Becomes(c, Settle(v))
  <2>1. TypeInv'
    BY <1>0, <1>6, <1>8, <1>9, JobStepType DEF RestType
  <2>2. work'[c] = Settle(v)
    BY <1>9 DEF Becomes, TypeInv
  <2> QED
    BY <1>0, <1>1, <1>3, <1>8, <2>1, <2>2
<1>10. CASE Becomes(c, h) /\ (~HasKey(Pair(w, work[c].post)) \/ CheckKeyFails(c, w))
  <2>1. TypeInv'
    BY <1>0, <1>6, <1>7, <1>10, JobStepType DEF RestType
  <2>2. work'[c] = h
    BY <1>10 DEF Becomes, TypeInv
  <2> QED
    BY <1>0, <1>1, <1>4, <1>10, <2>1, <2>2
<1> QED
  BY <1>5, <1>9, <1>10

(* The watcher joins the ones the job is about to push.                    *)
LEMMA MarkType ==
    ASSUME TypeInv, NEW c \in Consumers, Mark(c) \/ MarkFails(c)
    PROVE  /\ TypeInv'
           /\ work[c].at = "hit"
           /\ work'[c].posts \subseteq work[c].posts
           /\ work'[c].at \in {"match", "send"}
           /\ work'[c].notifs = work[c].notifs \cup {work[c].hit}
           /\ work'[c].post = work[c].post
<1>0. JobOK(work[c]) /\ work[c] \in Jobs /\ work[c].at = "hit" /\ RestType
  BY DEF TypeInv, Mark, MarkFails
<1>1. work[c].hit \in Created /\ Hit(c) \in Pairs
  BY <1>0, DecidingOn DEF Deciding
<1> DEFINE v == [work[c] EXCEPT !.todo = @ \ {work[c].hit},
                               !.notifs = @ \cup {work[c].hit}, !.hit = NoWatcher]
           u == [v EXCEPT !.at = "send"]
<1>2. v \in Jobs
  BY <1>0, <1>1 DEF Jobs, Created
<1>3. /\ v.todo = work[c].todo \ {work[c].hit} /\ v.ws = work[c].ws
      /\ v.notifs = work[c].notifs \cup {work[c].hit} /\ v.hit = NoWatcher
      /\ v.posts = work[c].posts /\ v.post = work[c].post
  BY <1>0 DEF Jobs
<1>4. AfterMark(work[c]) = IF kind = "trending" THEN u ELSE Settle(v)
  BY DEF AfterMark
<1> HIDE DEF v
<1>5. u \in Jobs
  BY <1>2 DEF Jobs
<1>6. /\ u.at = "send" /\ u.todo = v.todo /\ u.ws = v.ws /\ u.notifs = v.notifs
      /\ u.hit = v.hit /\ u.posts = v.posts /\ u.post = v.post
  BY <1>2 DEF Jobs
<1> HIDE DEF u
<1>7. /\ v.ws \subseteq Created /\ v.todo \subseteq Created
      /\ v.notifs \subseteq Created /\ v.posts \subseteq Listed /\ v.post \in v.posts
      /\ v.notifs # {}
  BY <1>0, <1>1, <1>3 DEF JobOK, Deciding
<1>8. kind = "trending" => JobOK(u)
  BY <1>0, <1>3, <1>5, <1>6, <1>7 DEF JobOK, Deciding
<1>9. kind # "trending" => /\ JobOK(Settle(v)) /\ Settle(v).at \in {"match", "send"}
                           /\ Settle(v).posts \subseteq v.posts
                           /\ Settle(v).notifs = v.notifs /\ Settle(v).post = v.post
  BY <1>2, <1>3, <1>7, SettleOK
<1>10. /\ JobOK(AfterMark(work[c])) /\ AfterMark(work[c]).at \in {"match", "send"}
       /\ AfterMark(work[c]).posts \subseteq v.posts
       /\ AfterMark(work[c]).notifs = v.notifs /\ AfterMark(work[c]).post = v.post
  BY <1>4, <1>6, <1>8, <1>9
<1>11. key' \in [Pairs -> 0..(MaxTime + Window)]
  BY <1>0, <1>1, Bounds DEF Mark, MarkFails, TTL, RestType
<1>12. /\ Inside /\ alive' \subseteq alive /\ Becomes(c, AfterMark(work[c]))
       /\ faults' \in 0..MaxFaults
       /\ sent' = sent /\ lost' = lost /\ again' \subseteq Pairs
  BY <1>0, <1>1, Bounds DEF Mark, MarkFails, history, Fault, Calm, RestType
<1>13. TypeInv'
  BY <1>0, <1>10, <1>11, <1>12, JobStepType DEF RestType
<1>14. work'[c] = AfterMark(work[c])
  BY <1>12 DEF Becomes, TypeInv
<1> QED
  BY <1>0, <1>3, <1>10, <1>13, <1>14

(* The pushes.                                                             *)
LEMMA SendType ==
    ASSUME TypeInv, NEW c \in Consumers, NEW w \in Watchers,
           Send(c, w) \/ SendFails(c, w)
    PROVE  /\ TypeInv'
           /\ work[c].at = "send" /\ w \in work[c].notifs
           /\ Pair(w, work[c].post) \in Pairs
           /\ work'[c].posts \subseteq work[c].posts
           /\ work'[c].at \in {"idle", "check", "match", "send"}
           /\ work'[c].notifs = work[c].notifs \ {w}
           /\ work'[c].post = work[c].post \/ work'[c].notifs = {}
<1>0. /\ JobOK(work[c]) /\ work[c] \in Jobs /\ work[c].at = "send" /\ w \in work[c].notifs
      /\ RestType
  BY DEF TypeInv, Send, SendFails
<1>1. w \in Created /\ work[c].post \in Posts /\ Pair(w, work[c].post) \in Pairs
  BY <1>0, DecidingOn, PairType DEF JobOK, Deciding
<1> DEFINE v == [work[c] EXCEPT !.notifs = @ \ {w}]
<1>2. v \in Jobs
  BY <1>0 DEF Jobs
<1>3. /\ v.todo = work[c].todo /\ v.ws = work[c].ws
      /\ v.notifs = work[c].notifs \ {w} /\ v.hit = work[c].hit /\ v.posts = work[c].posts
      /\ v.post = work[c].post
  BY <1>0 DEF Jobs
<1>4. Becomes(c, Settle(v))
  BY DEF Send, SendFails, AfterSend
<1> HIDE DEF v
<1>5. /\ JobOK(Settle(v))
      /\ Settle(v).at \in {"match", "send", "idle", "check"}
      /\ Settle(v).posts \subseteq v.posts /\ Settle(v).notifs = v.notifs
      /\ Settle(v).post = v.post \/ v.notifs = {}
  <2>1. /\ v.hit = NoWatcher /\ v.ws \subseteq Created /\ v.todo \subseteq Created
        /\ v.notifs \subseteq Created /\ v.posts \subseteq Listed /\ v.post \in v.posts
        /\ kind = "trending" => v.notifs = {}
    BY <1>0, <1>3 DEF JobOK, Deciding
  <2> QED
    BY <1>2, <2>1, SettleOK
<1>6. /\ Inside /\ alive' \subseteq alive /\ faults' \in 0..MaxFaults
      /\ UNCHANGED <<key, again>> /\ sent' \subseteq Pairs /\ lost' \subseteq Pairs
  BY <1>0, <1>1, Bounds DEF Send, SendFails, Fault, Calm, RestType
<1>7. TypeInv'
  BY <1>0, <1>4, <1>5, <1>6, JobStepType DEF RestType
<1>8. work'[c] = Settle(v)
  BY <1>4 DEF Becomes, TypeInv
<1> QED
  BY <1>0, <1>1, <1>3, <1>5, <1>7, <1>8

(* A job that ends before its time.                                        *)
LEMMA EndType ==
    ASSUME TypeInv, NEW c \in Consumers, CountFails(c) \/ Crash(c)
    PROVE  TypeInv' /\ work'[c] = Idle
<1>0. JobOK(work[c]) /\ work[c] \in Jobs /\ RestType
  BY DEF TypeInv
<1>1. Pending(c) \subseteq Pairs
  <2>1. CASE work[c].at \in Deciding
    BY <2>1, DecidingOn
  <2>2. CASE work[c].at \notin Deciding
    BY <1>0, <2>2 DEF JobOK, Pending
  <2> QED
    BY <2>1, <2>2
<1>2. work[c].at = "hit" => Hit(c) \in Pairs
  BY DecidingOn DEF Deciding
<1>3. key' \in [Pairs -> 0..(MaxTime + Window)]
  BY <1>0, <1>2, Bounds DEF CountFails, Crash, TTL, RestType
<1>4. /\ Inside /\ alive' \subseteq alive /\ Becomes(c, Idle)
      /\ faults' \in 0..MaxFaults
      /\ sent' = sent /\ again' = again /\ lost' \subseteq Pairs
  BY <1>0, <1>1, <1>2, Bounds DEF CountFails, Crash, Fault, RestType
<1>5. TypeInv'
  BY <1>0, <1>3, <1>4, IdleOK, JobStepType DEF RestType
<1> QED
  BY <1>4, <1>5 DEF Becomes, TypeInv

(* What leaves the jobs alone.                                             *)
LEMMA OutsideType ==
    ASSUME TypeInv, RestType', UNCHANGED <<kind, work>>, Created \subseteq Created',
           Listed \subseteq Listed'
    PROVE  TypeInv'
BY DEF TypeInv, JobOK

LEMMA WorldType ==
    ASSUME TypeInv, Tick \/ Post \/ Vanish \/ \E kept \in SUBSET Pairs : RestartRedis(kept)
    PROVE  TypeInv' /\ UNCHANGED <<kind, work, owner>> /\ Listed \subseteq Listed'
<1>0. RestType
  BY DEF TypeInv
<1>1. CASE Tick
  <2>1. now' \in 1..MaxTime /\ now' = now + 1 /\ now \in Nat
    BY <1>0, <1>1, Bounds DEF Tick, RestType
  <2>2. /\ UNCHANGED <<kind, gone, posted, known, request, alive, here, owner, since, muted,
                       key, work, edits, faults, sent, lost>>
        /\ again' \subseteq Pairs
    BY <1>0, <1>1 DEF Tick, rows, RestType
  <2>3. RestType'
    BY <1>0, <2>1, <2>2 DEF RestType, Created
  <2>4. Listed \subseteq Listed'
    BY <1>0, <2>1, <2>2, Bounds DEF Listed, RestType
  <2> QED
    BY <2>2, <2>3, <2>4, OutsideType DEF Created
<1>2. CASE Post
  <2>1. PICK p \in Posts : posted[p] = 0 /\ posted' = [posted EXCEPT ![p] = now]
    BY <1>2 DEF Post
  <2>2. UNCHANGED <<kind, now, gone, known, request, alive, here, owner, since, muted,
                    key, work, edits, faults, sent, lost, again>>
    BY <1>2 DEF Post, rows, history
  <2>3. posted' \in [Posts -> 0..MaxTime]
    BY <1>0, <2>1, Bounds DEF RestType
  <2>4. RestType'
    BY <1>0, <2>2, <2>3 DEF RestType, Created
  <2>5. Listed \subseteq Listed'
    BY <1>0, <2>1, <2>2 DEF Listed, RestType
  <2> QED
    BY <2>2, <2>4, <2>5, OutsideType DEF Created
<1>3. CASE Vanish
  <2>1. UNCHANGED <<kind, now, posted, known, request, alive, here, owner, since, muted,
                    key, work, edits, faults, sent, lost, again>>
    BY <1>3 DEF Vanish, rows, history
  <2>2. gone' \in BOOLEAN
    BY <1>3 DEF Vanish
  <2>3. RestType'
    BY <1>0, <2>1, <2>2 DEF RestType, Created
  <2> QED
    BY <2>1, <2>3, OutsideType DEF Created, Listed
<1>4. ASSUME NEW kept \in SUBSET Pairs, RestartRedis(kept)
      PROVE  TypeInv' /\ UNCHANGED <<kind, work, owner>> /\ Listed \subseteq Listed'
  <2>1. UNCHANGED <<kind, now, gone, posted, known, request, alive, here, owner, since,
                    muted, work, edits, sent, lost>>
    BY <1>4 DEF RestartRedis, Inside
  <2>2. key' \in [Pairs -> 0..(MaxTime + Window)]
    BY <1>0, <1>4, Bounds DEF RestartRedis, RestType
  <2>3. faults' \in 0..MaxFaults /\ again' \subseteq Pairs
    BY <1>0, <1>4, Bounds DEF RestartRedis, Fault, RestType
  <2>4. RestType'
    BY <1>0, <2>1, <2>2, <2>3 DEF RestType, Created
  <2> QED
    BY <2>1, <2>4, OutsideType DEF Created, Listed
<1> QED
  BY <1>1, <1>2, <1>3, <1>4

(* The users' side creates watchers and changes no owner.                  *)
LEMMA UserType ==
    ASSUME TypeInv, UserStep
    PROVE  /\ TypeInv'
           /\ UNCHANGED <<kind, now, posted, key, work, sent, lost, again>>
           /\ \A w \in Created : owner'[w] = owner[w]
<1>0. RestType
  BY DEF TypeInv
<1>1. UNCHANGED <<kind, now, gone, posted, key, work, sent, lost, again, faults>>
  BY DEF UserStep, Create, UpsertAndCreate, Lookup, Edit, DeleteByUser, Settings, Besides,
         Calm, history
<1>2. ASSUME NEW w \in Watchers, NEW d \in Devices, Create(w, d) \/ UpsertAndCreate(w, d)
      PROVE  RestType' /\ \A v \in Created : owner'[v] = owner[v]
  <2>1. owner[w] = Nobody
    BY <1>0, <1>2 DEF Create, UpsertAndCreate, RestType
  <2>2. w \notin Created
    BY <2>1, Bounds DEF Created
  <2>3. UNCHANGED <<muted, edits>> /\ known' \in BOOLEAN
    BY <1>0, <1>2 DEF Create, UpsertAndCreate, RestType
  <2>4. CASE Refuse(w)
    <3>1. request' \in [Watchers -> {"none", "upsert", "created", "refused"}]
          /\ \A v \in Watchers : request'[v] = "created" <=> owner[v] # Nobody
      BY <1>0, <2>1, <2>4 DEF Refuse, RestType
    <3> QED
      BY <1>0, <1>1, <2>3, <2>4, <3>1 DEF Refuse, RestType, Created
  <2>5. CASE Insert(w, d)
    <3>1. owner' \in [Watchers -> Devices \cup {Nobody}] /\ owner'[w] = d
          /\ \A v \in Watchers \ {w} : owner'[v] = owner[v]
      BY <1>0, <2>5 DEF Insert, RestType
    <3>2. Created' = Created \cup {w}
      BY <3>1 DEF Created
    <3>3. request' \in [Watchers -> {"none", "upsert", "created", "refused"}]
          /\ \A v \in Watchers : request'[v] = "created" <=> owner'[v] # Nobody
      BY <1>0, <2>5, <3>1, Bounds DEF Insert, RestType
    <3>4. since' \in [Watchers -> 0..MaxTime]
      BY <1>0, <2>5, Bounds DEF Insert, RestType
    <3>5. alive' \subseteq Created' /\ here' \subseteq Watchers
      BY <1>0, <2>5, <3>2 DEF Insert, RestType
    <3>6. RestType'
      BY <1>0, <1>1, <2>3, <3>1, <3>3, <3>4, <3>5 DEF RestType
    <3> QED
      BY <2>2, <3>1, <3>6 DEF Created
  <2> QED
    BY <1>2, <2>4, <2>5 DEF Create, UpsertAndCreate
<1>3. ASSUME NEW w \in Watchers, Lookup(w) PROVE RestType' /\ owner' = owner
  <2>1. request' \in [Watchers -> {"none", "upsert", "created", "refused"}]
        /\ \A v \in Watchers : request'[v] = "created" <=> owner[v] # Nobody
    BY <1>0, <1>3 DEF Lookup, RestType
  <2> QED
    BY <1>0, <1>1, <1>3, <2>1 DEF Lookup, RestType, Created
<1>4. ASSUME NEW w \in Watchers, Edit(w) \/ DeleteByUser(w) PROVE RestType' /\ owner' = owner
  <2>1. /\ edits' \in 0..MaxEdits /\ alive' \subseteq alive /\ here' \subseteq Watchers
        /\ UNCHANGED <<known, request, owner, since, muted>>
    BY <1>0, <1>4, Bounds DEF Edit, DeleteByUser, UserEdits, RestType
  <2> QED
    BY <1>0, <1>1, <2>1 DEF RestType, Created
<1>5. ASSUME NEW d \in Devices, Settings(d) PROVE RestType' /\ owner' = owner
  <2>1. /\ edits' \in 0..MaxEdits /\ muted' \subseteq Devices
        /\ UNCHANGED <<known, request, alive, here, owner, since>>
    BY <1>0, <1>5, Bounds DEF Settings, UserEdits, rows, RestType
  <2> QED
    BY <1>0, <1>1, <2>1 DEF RestType, Created
<1>6. RestType' /\ \A w \in Created : owner'[w] = owner[w]
  BY <1>2, <1>3, <1>4, <1>5 DEF UserStep
<1>7. Created \subseteq Created' /\ Listed \subseteq Listed'
  BY <1>1, <1>6 DEF Created, Listed
<1> QED
  BY <1>1, <1>6, <1>7, OutsideType

LEMMA NextTypeInv == ASSUME TypeInv, Next PROVE TypeInv'
<1>1. ASSUME NEW c \in Consumers, JobStep(c) PROVE TypeInv'
  BY <1>1, StartType, FetchType, WithoutListingType, MatchType, MarkType, CheckType,
     SendType, DropType
  DEF JobStep
<1>2. ASSUME NEW c \in Consumers, JobFault(c) PROVE TypeInv'
  BY <1>2, WithoutListingType, MarkType, EndType, DropType, CheckType, SendType
  DEF JobFault
<1> QED
  BY <1>1, <1>2, WorldType, UserType DEF Next

LEMMA InitTypeInv == Init => TypeInv
<1> SUFFICES ASSUME Init PROVE TypeInv
  OBVIOUS
<1>0. Created = {}
  BY Bounds DEF Init, Created
<1>a. key \in [Pairs -> 0..(MaxTime + Window)] /\ posted \in [Posts -> 0..MaxTime]
  BY Bounds DEF Init
<1>b. /\ request \in [Watchers -> {"none", "upsert", "created", "refused"}]
      /\ owner \in [Watchers -> Devices \cup {Nobody}]
      /\ \A w \in Watchers : request[w] = "created" <=> owner[w] # Nobody
      /\ since \in [Watchers -> 0..MaxTime]
  BY Bounds DEF Init
<1>1. RestType
  <2>1. now \in 1..MaxTime /\ edits \in 0..MaxEdits /\ faults \in 0..MaxFaults
    BY Bounds DEF Init
  <2> QED
    BY <1>0, <1>a, <1>b, <2>1 DEF Init, RestType
<1>2. work \in [Consumers -> Jobs] /\ \A c \in Consumers : JobOK(work[c])
  BY IdleOK DEF Init, JobOK
<1> QED
  BY <1>1, <1>2 DEF TypeInv

LEMMA TypeInvAlways == Spec => []TypeInv
<1>1. TypeInv /\ [Next]_vars => TypeInv'
  <2>1. TypeInv /\ UNCHANGED vars => TypeInv'
    BY DEF TypeInv, RestType, JobOK, Created, Listed, vars, rows, history
  <2> QED
    BY <2>1, NextTypeInv
<1> QED
  BY <1>1, InitTypeInv, PTL DEF Spec

(* Every variable holds what its declaration says.                         *)
THEOREM TypeCorrect == Spec => []TypeOK
BY TypeInvAlways, TypeInvTypeOK, PTL

-----------------------------------------------------------------------------
(* Keys and pushes.                                                        *)

(* Consumer c is about to push dp for w; it has found no key for dp.       *)
Aims(c, w, dp) == w \in work[c].notifs /\ Pair(w, work[c].post) = dp
Eyes(c, dp)    == work[c].at = "hit" /\ Pair(work[c].hit, work[c].post) = dp

Claimed(dp) == dp \in sent \/ \E c \in Consumers, w \in Watchers : Aims(c, w, dp)

(* The post is old, and no job that is under way will come to it.          *)
Past(dp) ==
    /\ posted[dp[2]] # 0 /\ posted[dp[2]] + Window < now
    /\ \A c \in Consumers : ~Judges(c, dp[2])

(* A key stands for a push, and outlives the post's time as news.          *)
KeyOK(dp) ==
    key[dp] # 0 =>
        /\ Claimed(dp) \/ dp \in lost
        /\ posted[dp[2]] # 0 /\ posted[dp[2]] + Window < key[dp]

(* One push at most, and only while the key, or the post's age, keeps      *)
(* others from it.                                                         *)
Once(dp) ==
    /\ Claimed(dp) => HasKey(dp) \/ Past(dp)
    /\ dp \in sent => \A c \in Consumers, w \in Watchers : ~Aims(c, w, dp)
    /\ \A c, d \in Consumers : \A v, w \in Watchers :
         Aims(c, v, dp) /\ Aims(d, w, dp) => c = d /\ v = w
    /\ \A c \in Consumers : Eyes(c, dp) =>
         /\ ~Claimed(dp)
         /\ \A d \in Consumers : Eyes(d, dp) => d = c

PushInv == \A dp \in Pairs : KeyOK(dp) /\ (dp \notin again => Once(dp))

LEMMA Aimed ==
    ASSUME TypeInv, NEW c \in Consumers, NEW w, NEW dp, Aims(c, w, dp) \/ Eyes(c, dp)
    PROVE  /\ dp \in Pairs /\ dp[2] = work[c].post
           /\ Judges(c, dp[2]) /\ posted[dp[2]] # 0 /\ posted[dp[2]] < now
           /\ Aims(c, w, dp) => w \in Created
<1>1. JobOK(work[c]) /\ work[c] \in Jobs
  BY DEF TypeInv
<1>2. work[c].at \in Deciding
  BY <1>1 DEF JobOK, Aims, Eyes, Deciding
<1>3. /\ work[c].post \in work[c].posts /\ work[c].post \in Posts
      /\ work[c].post \in Listed
  BY <1>2, DecidingOn
<1>4. PICK v \in Created : Pair(v, work[c].post) = dp /\ (Aims(c, w, dp) => v = w)
  <2>1. CASE Aims(c, w, dp)
    BY <1>1, <2>1 DEF Aims, JobOK
  <2>2. CASE Eyes(c, dp) /\ ~Aims(c, w, dp)
    BY <1>1, <2>2 DEF Eyes, JobOK
  <2> QED
    BY <2>1, <2>2
<1>5. dp \in Pairs /\ dp[2] = work[c].post
  BY <1>3, <1>4, PairType DEF Pair
<1> QED
  BY <1>3, <1>4, <1>5 DEF Judges, Listed

(* Who claims nothing new endangers nothing.                               *)
LEMMA Carry ==
    ASSUME NEW dp \in Pairs, Once(dp),
           dp \in sent' => dp \in sent,
           \A c \in Consumers, w \in Watchers : Aims(c, w, dp)' => Aims(c, w, dp),
           \A c \in Consumers : Eyes(c, dp)' => Eyes(c, dp),
           HasKey(dp) => HasKey(dp)' \/ Past(dp)',
           Past(dp) => HasKey(dp)' \/ Past(dp)'
    PROVE  Once(dp)'
BY DEF Once, Claimed

LEMMA PastStays ==
    ASSUME NEW dp, Past(dp), UNCHANGED <<posted, now>>,
           \A c \in Consumers : Judges(c, dp[2])' => Judges(c, dp[2])
    PROVE  Past(dp)'
BY DEF Past

(* A step of a job that has nothing to push.                               *)
QuietJob(c) ==
    /\ UNCHANGED <<now, posted, owner, key, sent, lost, again>>
    /\ \A d \in Consumers \ {c} : work'[d] = work[d]
    /\ work[c].notifs = {} /\ work'[c].notifs = {} /\ work'[c].at # "hit"
    /\ \A p \in Posts : Judges(c, p)' => Judges(c, p) \/ Fresh(p, now)

LEMMA QuietJobKeeps ==
    ASSUME TypeInv, PushInv, NEW c \in Consumers, QuietJob(c) PROVE PushInv'
<1>1. \A d \in Consumers, w \in Watchers, dp \in Pairs : Aims(d, w, dp)' <=> Aims(d, w, dp)
  BY DEF QuietJob, Aims, Pair
<1>2. \A d \in Consumers, dp \in Pairs : Eyes(d, dp)' => Eyes(d, dp)
  BY DEF QuietJob, Eyes, Pair
<1> SUFFICES ASSUME NEW dp \in Pairs PROVE KeyOK(dp)' /\ (dp \notin again' => Once(dp)')
  BY DEF PushInv
<1>3. KeyOK(dp) /\ (dp \notin again => Once(dp))
  BY DEF PushInv
<1>4. KeyOK(dp)'
  BY <1>1, <1>3 DEF QuietJob, KeyOK, Claimed
<1>5. Past(dp) => Past(dp)'
  <2> SUFFICES ASSUME Past(dp), NEW d \in Consumers, Judges(d, dp[2])' PROVE FALSE
    BY DEF Past, QuietJob
  <2>1. dp[2] \in Posts /\ posted[dp[2]] \in Nat /\ now \in Nat
    BY Bounds DEF TypeInv, RestType, Pairs
  <2>2. Judges(d, dp[2]) \/ Fresh(dp[2], now)
    BY <2>1 DEF QuietJob, Judges, Fresh
  <2>3. ~Fresh(dp[2], now)
    BY <2>1, Bounds DEF Past, Fresh
  <2> QED
    BY <2>2, <2>3 DEF Past
<1>6. HasKey(dp) => HasKey(dp)'
  BY DEF QuietJob, HasKey
<1>7. dp \notin again' => Once(dp)'
  BY <1>1, <1>2, <1>3, <1>5, <1>6, Carry DEF QuietJob
<1> QED
  BY <1>4, <1>7
(* The steps up to the posts' watchers.                                    *)
QuietStep(c) ==
    \/ Start(c) \/ FetchNew(c) \/ NotFound(c) \/ FetchTop(c) \/ FetchHot(c)
    \/ FetchRefused(c) \/ FetchFails(c)
    \/ \E w \in Watchers : Drop(c, w) \/ DropFails(c, w) \/ Unauthorized(c, w)
    \/ \E p \in Posts : Match(c, p)

LEMMA QuietStepQuiet ==
    ASSUME TypeInv, TypeInv', NEW c \in Consumers, QuietStep(c) PROVE QuietJob(c)
<1>0. JobOK(work[c]) /\ work[c] \in Jobs /\ work[c].at \notin Deciding
      /\ now \in 1..MaxTime /\ posted \in [Posts -> 0..MaxTime]
  BY DEF TypeInv, RestType, QuietStep, Start, FetchNew, NotFound, FetchTop, FetchHot,
         FetchRefused, FetchFails, Drop, DropFails, Unauthorized, Match, Deciding
<1>1. UNCHANGED <<now, posted, owner, key, sent, lost, again>>
  BY DEF QuietStep, Start, FetchNew, NotFound, FetchTop, FetchHot, FetchRefused,
         FetchFails, Drop, DropFails, Unauthorized, Match, Reads, Inside, history
<1>2. PICK w : Becomes(c, w)
  BY DEF QuietStep, Start, FetchNew, NotFound, FetchTop, FetchHot, FetchRefused,
         FetchFails, WithoutListing, Drop, DropFails, Unauthorized, Match
<1>3. work'[c] = w /\ \A d \in Consumers \ {c} : work'[d] = work[d]
  BY <1>2 DEF Becomes, TypeInv
<1>4. work[c].notifs = {}
  BY <1>0 DEF JobOK
<1>5. /\ work'[c].notifs = {} /\ work'[c].at # "hit"
      /\ \A p \in Posts : Judges(c, p)' => Judges(c, p) \/ Fresh(p, now)
  <2>0. ASSUME work'[c].at \notin Deciding, work'[c].posts \subseteq work[c].posts,
               work'[c].at \in {"new", "hot"} =>
                   \/ work'[c].start = 0 \/ work'[c].start = now
                   \/ work'[c].start = work[c].start /\ work[c].at \in {"new", "hot"}
        PROVE  /\ work'[c].notifs = {} /\ work'[c].at # "hit"
               /\ \A p \in Posts : Judges(c, p)' => Judges(c, p) \/ Fresh(p, now)
    <3>1. work'[c].notifs = {} /\ work'[c].at # "hit"
      BY <2>0 DEF TypeInv, JobOK, Deciding
    <3>2. ASSUME NEW p \in Posts, Judges(c, p)' PROVE Judges(c, p) \/ Fresh(p, now)
      BY <1>1, <2>0, <3>2 DEF Judges, Fresh
    <3> QED
      BY <3>1, <3>2
  <2>a. /\ Idle.at = "idle" /\ Idle.posts = {}
        /\ NextPost(work[c]).at \in {"idle", "check"}
        /\ NextPost(work[c]).posts \subseteq work[c].posts
    BY <1>0, NextPostOK DEF Idle, JobOK, Deciding
  <2>1. CASE Start(c)
    <3>1. /\ work'[c].at \in {"idle", "top", "new"} /\ work'[c].posts = {}
          /\ work'[c].at = "new" => work'[c].start = now
      BY <1>3, <2>1 DEF Start, Becomes, TypeInv, Idle
    <3> QED
      BY <2>0, <3>1 DEF Deciding
  <2>2. CASE FetchNew(c)
    <3> DEFINE news == {p \in Newest(PageLimit, Listed) : Fresh(p, work[c].start)}
    <3>1. /\ work'[c].at \in {"new", "hot"} /\ work'[c].posts = work[c].posts \cup news
          /\ work'[c].start = work[c].start /\ work[c].at = "new" /\ work[c].start # 0
      BY <1>0, <2>2 DEF FetchNew, Becomes, TypeInv, Jobs, JobOK
    <3>2. work'[c].notifs = {}
      BY <3>1 DEF TypeInv, JobOK, Deciding
    <3>3. ASSUME NEW p \in Posts, Judges(c, p)' PROVE Judges(c, p)
      BY <1>1, <3>1, <3>3 DEF Judges, Fresh
    <3> QED
      BY <3>1, <3>2, <3>3
  <2>3. CASE NotFound(c)
    <3>1. work'[c].at = "drop" /\ work'[c].posts = {}
      BY <2>3 DEF NotFound, Becomes, TypeInv, Idle
    <3> QED
      BY <2>0, <3>1 DEF Deciding
  <2>4. CASE FetchTop(c)
    <3>1. \/ work'[c] = Idle
          \/ /\ work'[c].at = "hot" /\ work'[c].posts = work[c].posts
             /\ work'[c].start = work[c].start
      BY <1>0, <2>4 DEF FetchTop, Becomes, TypeInv, Jobs
    <3>2. work[c].start = 0
      BY <1>0, <2>4 DEF FetchTop, JobOK
    <3> QED
      BY <2>a, <2>0, <3>1, <3>2 DEF Deciding
  <2>5. CASE FetchHot(c)
    <3> DEFINE start == IF kind = "trending" THEN now ELSE work[c].start
    <3>1. PICK H \in SUBSET {p \in Listed : Fresh(p, start)} :
            Becomes(c, NextPost([work[c] EXCEPT !.start = start, !.posts = @ \cup H]))
      BY <2>5 DEF FetchHot
    <3> DEFINE v == [work[c] EXCEPT !.start = start, !.posts = @ \cup H]
    <3>2. start \in 0..MaxTime /\ H \subseteq Listed /\ H \subseteq Posts
      BY <1>0 DEF Jobs, Listed
    <3>3. v \in Jobs /\ v.hit = work[c].hit /\ v.ws = work[c].ws
          /\ v.posts = work[c].posts \cup H
      BY <1>0, <3>2 DEF Jobs
    <3>4. work'[c] = NextPost(v)
      BY <1>3, <3>1 DEF Becomes, TypeInv
    <3>5. work[c].at = "hot" /\ (kind # "trending" => work[c].start # 0)
      BY <1>0, <2>5 DEF FetchHot, JobOK, TypeInv, RestType
    <3> HIDE DEF v
    <3>6. /\ NextPost(v).at \in {"idle", "check"} /\ NextPost(v).notifs = {}
          /\ NextPost(v).posts \subseteq work[c].posts \cup H
      BY <1>0, <3>2, <3>3, <3>5, NextPostOK DEF JobOK
    <3>7. ASSUME NEW p \in Posts, Judges(c, p)' PROVE Judges(c, p) \/ Fresh(p, now)
      BY <1>1, <3>4, <3>5, <3>6, <3>7 DEF Judges, Fresh
    <3> QED
      BY <3>4, <3>6, <3>7
  <2>6. CASE FetchRefused(c) \/ FetchFails(c)
    <3>1. work'[c] \in {Idle, NextPost(work[c])}
      BY <2>6 DEF FetchRefused, FetchFails, WithoutListing, Becomes, TypeInv
    <3> QED
      BY <2>a, <2>0, <3>1 DEF Deciding
  <2>7. CASE \E v \in Watchers : Drop(c, v) \/ DropFails(c, v)
    <3>1. PICK v \in Watchers : work[c].at = "drop" /\ work'[c] = AfterDrop(c, v)
      BY <2>7 DEF Drop, DropFails, Becomes, TypeInv
    <3>2. \/ work'[c] = Idle
          \/ work'[c].at = "drop" /\ work'[c].posts = work[c].posts
      BY <1>0, <3>1 DEF AfterDrop, Jobs
    <3> QED
      BY <2>a, <2>0, <3>2 DEF Deciding
  <2>8. CASE \E v \in Watchers : Unauthorized(c, v)
    <3>1. work'[c] \in {Idle, NextPost(work[c])}
      BY <2>8 DEF Unauthorized, Becomes, TypeInv
    <3> QED
      BY <2>a, <2>0, <3>1 DEF Deciding
  <2>9. CASE \E p \in Posts : Match(c, p)
    <3>1. PICK p \in Posts : Match(c, p)
      BY <2>9
    <3>2. PICK v : /\ Becomes(c, Settle(v)) /\ v \in Jobs /\ v.notifs = {}
                   /\ v.hit = NoWatcher /\ v.post = p /\ v.posts = work[c].posts
                   /\ v.ws \subseteq Created /\ v.todo \subseteq Created
      BY <3>1, MatchType
    <3>3. work'[c] = Settle(v)
      BY <3>2 DEF Becomes, TypeInv
    <3>4. p \in work[c].posts /\ work[c].posts \subseteq Listed
      BY <1>0, <3>1 DEF Match, JobOK
    <3>5. /\ Settle(v).at \in {"match", "send", "idle", "check"}
          /\ Settle(v).posts \subseteq work[c].posts /\ Settle(v).notifs = {}
      BY <3>2, <3>4, SettleOK
    <3>6. ASSUME NEW q \in Posts, Judges(c, q)' PROVE Judges(c, q)
      BY <3>3, <3>5, <3>6 DEF Judges
    <3> QED
      BY <3>3, <3>5, <3>6
  <2> QED
    BY <2>1, <2>2, <2>3, <2>4, <2>5, <2>6, <2>7, <2>8, <2>9 DEF QuietStep
<1> QED
  BY <1>1, <1>3, <1>4, <1>5 DEF QuietJob

-----------------------------------------------------------------------------
(* The steps that ask for keys, set them and push.  Such a step ends no    *)
(* one's past, and is nothing to the other jobs.                           *)
Decides(c) ==
    /\ UNCHANGED <<now, posted, owner>>
    /\ \A d \in Consumers \ {c} : work'[d] = work[d]
    /\ work'[c].posts \subseteq work[c].posts
    /\ work'[c].at \notin {"new", "hot"}

LEMMA DecidesPast ==
    ASSUME NEW c \in Consumers, Decides(c), NEW dp, Past(dp) PROVE Past(dp)'
<1>1. ASSUME NEW d \in Consumers, Judges(d, dp[2])' PROVE Judges(d, dp[2])
  <2>1. CASE d = c
    BY <1>1, <2>1 DEF Decides, Judges
  <2>2. CASE d # c
    BY <1>1, <2>2 DEF Decides, Judges, Fresh
  <2> QED
    BY <2>1, <2>2
<1> QED
  BY <1>1, PastStays DEF Decides

LEMMA DecidesOthers ==
    ASSUME NEW c \in Consumers, Decides(c), NEW d \in Consumers \ {c}, NEW w, NEW dp
    PROVE  (Aims(d, w, dp)' <=> Aims(d, w, dp)) /\ (Eyes(d, dp)' <=> Eyes(d, dp))
BY DEF Decides, Aims, Eyes, Pair

(* A key that was found missing.                                           *)
LEMMA CheckKeeps ==
    ASSUME TypeInv, PushInv, NEW c \in Consumers, NEW w \in Watchers,
           CheckKey(c, w) \/ CheckKeyFails(c, w)
    PROVE  PushInv'
<1>1. /\ work[c].at = "match" /\ w \in Created
      /\ work'[c].posts \subseteq work[c].posts
      /\ work'[c].at \in {"idle", "check", "match", "hit", "send"}
      /\ work'[c].notifs = work[c].notifs
      /\ work'[c].post = work[c].post \/ work'[c].notifs = {}
      /\ work'[c].at = "hit" => /\ work'[c].hit = w /\ work'[c].post = work[c].post
                                /\ ~HasKey(Pair(w, work[c].post)) \/ CheckKeyFails(c, w)
  BY CheckType
<1>2. UNCHANGED <<now, posted, owner, key, sent, lost>> /\ again \subseteq again'
  BY DEF CheckKey, CheckKeyFails, Inside
<1>3. PICK x : Becomes(c, x)
  BY DEF CheckKey, CheckKeyFails
<1>4. Decides(c)
  BY <1>1, <1>2, <1>3 DEF Decides, Becomes, TypeInv
<1>5. \A d \in Consumers, v \in Watchers, dp \in Pairs : Aims(d, v, dp)' <=> Aims(d, v, dp)
  <2> SUFFICES ASSUME NEW d \in Consumers, NEW v \in Watchers, NEW dp \in Pairs
               PROVE  Aims(d, v, dp)' <=> Aims(d, v, dp)
    OBVIOUS
  <2>1. CASE d = c
    BY <1>1, <1>2, <2>1 DEF Aims, Pair
  <2>2. CASE d # c
    BY <1>4, <2>2, DecidesOthers
  <2> QED
    BY <2>1, <2>2
<1> SUFFICES ASSUME NEW dp \in Pairs PROVE KeyOK(dp)' /\ (dp \notin again' => Once(dp)')
  BY DEF PushInv
<1>6. KeyOK(dp) /\ (dp \notin again => Once(dp))
  BY DEF PushInv
<1>7. KeyOK(dp)'
  BY <1>2, <1>5, <1>6 DEF KeyOK, Claimed
<1>8. (HasKey(dp) => HasKey(dp)') /\ (Past(dp) => Past(dp)') /\ (Claimed(dp)' <=> Claimed(dp))
  BY <1>2, <1>4, <1>5, DecidesPast DEF HasKey, Claimed
<1>9. ASSUME dp \notin again', Eyes(c, dp)'
      PROVE  ~Claimed(dp) /\ \A d \in Consumers : Eyes(d, dp)' => d = c
  <2>1. /\ work'[c].at = "hit" /\ dp = Pair(w, work[c].post) /\ dp[2] = work[c].post
    BY <1>1, <1>2, <1>9 DEF Eyes, Pair
  <2>2. dp \notin again /\ ~HasKey(dp) /\ CheckKey(c, w)
    BY <1>1, <1>2, <1>9, <2>1 DEF CheckKeyFails
  <2>3. Judges(c, dp[2])
    BY <1>1, <2>1, DecidingOn DEF Judges, Deciding
  <2>4. ~Claimed(dp)
    BY <1>6, <2>2, <2>3 DEF Once, Past
  <2>5. ASSUME NEW d \in Consumers \ {c}, Eyes(d, dp)' PROVE FALSE
    <3>1. Eyes(d, dp)
      BY <1>4, <2>5, DecidesOthers
    <3>2. dp \in again'
      BY <2>1, <2>2, <3>1 DEF CheckKey, Eyes
    <3> QED
      BY <1>9, <3>2
  <2> QED
    BY <2>4, <2>5
<1>10. ASSUME dp \notin again' PROVE Once(dp)'
  <2>1. Once(dp)
    BY <1>2, <1>6, <1>10
  <2>2. /\ Claimed(dp)' => HasKey(dp)' \/ Past(dp)'
        /\ dp \in sent' => \A d \in Consumers, v \in Watchers : ~Aims(d, v, dp)'
        /\ \A d, e \in Consumers : \A u, v \in Watchers :
             Aims(d, u, dp)' /\ Aims(e, v, dp)' => d = e /\ u = v
    BY <1>2, <1>5, <1>8, <2>1 DEF Once
  <2>3. ASSUME NEW d \in Consumers, Eyes(d, dp)'
        PROVE  ~Claimed(dp)' /\ \A e \in Consumers : Eyes(e, dp)' => e = d
    <3>1. CASE Eyes(c, dp)'
      BY <1>8, <1>9, <1>10, <2>3, <3>1
    <3>2. CASE ~Eyes(c, dp)'
      BY <1>4, <1>8, <2>1, <2>3, <3>2, DecidesOthers DEF Once
    <3> QED
      BY <3>1, <3>2
  <2> QED
    BY <2>2, <2>3 DEF Once
<1> QED
  BY <1>7, <1>10

(* The key, set or believed to be set.                                     *)
LEMMA MarkKeeps ==
    ASSUME TypeInv, PushInv, NEW c \in Consumers, Mark(c) \/ MarkFails(c) PROVE PushInv'
<1>1. /\ work[c].at = "hit"
      /\ work'[c].posts \subseteq work[c].posts
      /\ work'[c].at \in {"match", "send"}
      /\ work'[c].notifs = work[c].notifs \cup {work[c].hit}
      /\ work'[c].post = work[c].post
  BY MarkType
<1>2. UNCHANGED <<now, posted, owner, sent, lost>> /\ again \subseteq again'
  BY DEF Mark, MarkFails, Inside, history
<1>3. Becomes(c, AfterMark(work[c]))
  BY DEF Mark, MarkFails
<1>4. Decides(c)
  BY <1>1, <1>2, <1>3 DEF Decides, Becomes, TypeInv
<1>h. PICK h \in Watchers, hp \in Pairs : h = work[c].hit /\ hp = Hit(c)
  BY <1>1, DecidingOn DEF Deciding, Created
<1>5. Eyes(c, hp) /\ posted[hp[2]] # 0 /\ posted[hp[2]] < now
  <2>1. Eyes(c, hp)
    BY <1>1, <1>h DEF Eyes, Hit
  <2> QED
    BY <2>1, Aimed
<1>6. \A d \in Consumers, v \in Watchers, dp \in Pairs :
        Aims(d, v, dp)' <=> Aims(d, v, dp) \/ (d = c /\ v = h /\ dp = hp)
  <2> SUFFICES ASSUME NEW d \in Consumers, NEW v \in Watchers, NEW dp \in Pairs
               PROVE  Aims(d, v, dp)' <=>
                        Aims(d, v, dp) \/ (d = c /\ v = h /\ dp = hp)
    OBVIOUS
  <2>1. CASE d = c
    BY <1>1, <1>2, <1>h, <2>1 DEF Aims, Pair, Hit
  <2>2. CASE d # c
    BY <1>4, <2>2, DecidesOthers
  <2> QED
    BY <2>1, <2>2
<1>7. \A d \in Consumers, dp \in Pairs : Eyes(d, dp)' => Eyes(d, dp) /\ d # c
  <2> SUFFICES ASSUME NEW d \in Consumers, NEW dp \in Pairs, Eyes(d, dp)'
               PROVE  Eyes(d, dp) /\ d # c
    OBVIOUS
  <2>1. d # c
    BY <1>1 DEF Eyes
  <2> QED
    BY <1>4, <2>1, DecidesOthers
<1>8. \A dp \in Pairs : /\ key'[dp] = key[dp] \/ (dp = hp /\ key'[dp] = now + Window)
                        /\ Mark(c) => key'[hp] = now + Window
  <2>1. \/ key' = [key EXCEPT ![hp] = now + Window]
        \/ ~Mark(c) /\ key' = key
    BY <1>h DEF Mark, MarkFails, TTL
  <2>2. key \in [Pairs -> 0..(MaxTime + Window)]
    BY DEF TypeInv, RestType
  <2> QED
    BY <1>h, <2>1, <2>2
<1>9. now \in Nat /\ Window \in Nat \ {0} /\ posted \in [Posts -> Nat]
      /\ hp[2] \in Posts
  BY <1>h, Bounds DEF TypeInv, RestType, Pairs
<1> SUFFICES ASSUME NEW dp \in Pairs PROVE KeyOK(dp)' /\ (dp \notin again' => Once(dp)')
  BY DEF PushInv
<1>10. KeyOK(dp) /\ (dp \notin again => Once(dp))
  BY DEF PushInv
<1>11. CASE dp = hp
  <2>1. Aims(c, h, dp)'
    BY <1>6, <1>11
  <2>2. Claimed(dp)'
    BY <2>1 DEF Claimed
  <2>3. KeyOK(dp)'
    <3>1. CASE key'[dp] = key[dp]
      BY <1>2, <1>10, <2>2, <3>1 DEF KeyOK
    <3>2. CASE key'[dp] = now + Window
      BY <1>2, <1>5, <1>9, <1>11, <2>2, <3>2 DEF KeyOK
    <3> QED
      BY <1>8, <3>1, <3>2
  <2>4. ASSUME dp \notin again' PROVE Once(dp)'
    <3>1. Mark(c) /\ dp \notin again
      BY <1>2, <1>h, <1>11, <2>4 DEF MarkFails
    <3>2. HasKey(dp)'
      BY <1>2, <1>8, <1>9, <1>11, <3>1 DEF HasKey
    <3>3. Once(dp) /\ ~Claimed(dp) /\ \A d \in Consumers : Eyes(d, dp) => d = c
      BY <1>5, <1>10, <1>11, <3>1 DEF Once
    <3>4. \A d \in Consumers, v \in Watchers :
            Aims(d, v, dp)' => d = c /\ v = h
      BY <1>6, <3>3 DEF Claimed
    <3>5. dp \notin sent'
      BY <1>2, <3>3 DEF Claimed
    <3>6. \A d \in Consumers : ~Eyes(d, dp)'
      BY <1>7, <3>3
    <3> QED
      BY <3>2, <3>4, <3>5, <3>6 DEF Once
  <2> QED
    BY <2>3, <2>4
<1>12. CASE dp # hp
  <2>1. \A d \in Consumers, v \in Watchers : Aims(d, v, dp)' <=> Aims(d, v, dp)
    BY <1>6, <1>12
  <2>2. key'[dp] = key[dp] /\ (HasKey(dp) => HasKey(dp)')
    BY <1>2, <1>8, <1>12 DEF HasKey
  <2>3. KeyOK(dp)'
    BY <1>2, <1>10, <2>1, <2>2 DEF KeyOK, Claimed
  <2>4. dp \notin again' => Once(dp)'
    BY <1>2, <1>4, <1>7, <1>10, <2>1, <2>2, Carry, DecidesPast
  <2> QED
    BY <2>3, <2>4
<1> QED
  BY <1>11, <1>12

(* A push that went out, or did not.                                       *)
LEMMA SendKeeps ==
    ASSUME TypeInv, PushInv, NEW c \in Consumers, NEW w \in Watchers,
           Send(c, w) \/ SendFails(c, w)
    PROVE  PushInv'
<1> DEFINE sp == Pair(w, work[c].post)
<1>1. /\ work[c].at = "send" /\ w \in work[c].notifs
      /\ sp \in Pairs
      /\ work'[c].posts \subseteq work[c].posts
      /\ work'[c].at \in {"idle", "check", "match", "send"}
      /\ work'[c].notifs = work[c].notifs \ {w}
      /\ work'[c].post = work[c].post \/ work'[c].notifs = {}
  BY SendType
<1>2. /\ UNCHANGED <<now, posted, owner, key, again>>
      /\ \/ Send(c, w) /\ sent' = sent \cup {sp} /\ lost' = lost
         \/ sent' = sent /\ lost' = lost \cup {sp}
  BY DEF Send, SendFails, Inside
<1>3. Becomes(c, AfterSend(c, w))
  BY DEF Send, SendFails
<1>4. Decides(c)
  BY <1>1, <1>2, <1>3 DEF Decides, Becomes, TypeInv
<1>5. Aims(c, w, sp)
  BY <1>1 DEF Aims
<1>6. \A d \in Consumers, v \in Watchers, dp \in Pairs :
        Aims(d, v, dp)' <=> Aims(d, v, dp) /\ ~(d = c /\ v = w)
  <2> SUFFICES ASSUME NEW d \in Consumers, NEW v \in Watchers, NEW dp \in Pairs
               PROVE  Aims(d, v, dp)' <=> Aims(d, v, dp) /\ ~(d = c /\ v = w)
    OBVIOUS
  <2>1. CASE d = c
    BY <1>1, <1>2, <2>1 DEF Aims, Pair
  <2>2. CASE d # c
    BY <1>4, <2>2, DecidesOthers
  <2> QED
    BY <2>1, <2>2
<1>7. \A d \in Consumers, dp \in Pairs : Eyes(d, dp)' => Eyes(d, dp)
  <2> SUFFICES ASSUME NEW d \in Consumers, NEW dp \in Pairs, Eyes(d, dp)' PROVE Eyes(d, dp)
    OBVIOUS
  <2>1. d # c
    BY <1>1 DEF Eyes
  <2> QED
    BY <1>4, <2>1, DecidesOthers
<1> HIDE DEF sp
<1> SUFFICES ASSUME NEW dp \in Pairs PROVE KeyOK(dp)' /\ (dp \notin again' => Once(dp)')
  BY DEF PushInv
<1>8. KeyOK(dp) /\ (dp \notin again => Once(dp))
  BY DEF PushInv
<1>9. KeyOK(dp)'
  <2>1. Claimed(dp) => Claimed(dp)' \/ dp \in lost'
    BY <1>2, <1>5, <1>6 DEF Claimed, Aims, sp
  <2> QED
    BY <1>2, <1>8, <2>1 DEF KeyOK
<1>10. ASSUME dp \notin again' PROVE Once(dp)'
  <2>1. Once(dp)
    BY <1>2, <1>8, <1>10
  <2>2. CASE dp \in sent' /\ dp \notin sent
    <3>1. dp = sp
      BY <1>2, <2>2
    <3>2. Claimed(dp) /\ ~Past(dp)
      BY <1>5, <3>1, Aimed DEF Claimed, Past
    <3>3. HasKey(dp)'
      BY <1>2, <2>1, <3>2 DEF Once, HasKey
    <3>4. \A d \in Consumers, v \in Watchers : ~Aims(d, v, dp)'
      BY <1>5, <1>6, <2>1, <3>1 DEF Once
    <3>5. \A d \in Consumers : ~Eyes(d, dp)'
      BY <1>7, <2>1, <3>2 DEF Once
    <3> QED
      BY <3>3, <3>4, <3>5 DEF Once
  <2>3. CASE dp \in sent' => dp \in sent
    BY <1>2, <1>4, <1>6, <1>7, <2>1, <2>3, Carry, DecidesPast DEF HasKey
  <2> QED
    BY <2>2, <2>3
<1> QED
  BY <1>9, <1>10

(* A job that ends takes its pushes with it.                               *)
LEMMA EndKeeps ==
    ASSUME TypeInv, PushInv, NEW c \in Consumers, CountFails(c) \/ Crash(c) PROVE PushInv'
<1>1. /\ UNCHANGED <<now, posted, owner, sent, again>> /\ Becomes(c, Idle)
      /\ JobOK(work[c]) /\ work[c] \in Jobs
  BY DEF CountFails, Crash, Inside, TypeInv
<1>2. Decides(c) /\ work'[c] = Idle
  BY <1>1 DEF Decides, Becomes, TypeInv, Idle
<1>3. \A d \in Consumers, v \in Watchers, dp \in Pairs :
        /\ Aims(d, v, dp)' => Aims(d, v, dp)
        /\ Aims(d, v, dp) => Aims(d, v, dp)' \/ dp \in lost'
  <2> SUFFICES ASSUME NEW d \in Consumers, NEW v \in Watchers, NEW dp \in Pairs
               PROVE  /\ Aims(d, v, dp)' => Aims(d, v, dp)
                      /\ Aims(d, v, dp) => Aims(d, v, dp)' \/ dp \in lost'
    OBVIOUS
  <2>1. CASE d = c
    <3>1. ~Aims(d, v, dp)'
      BY <1>2, <2>1 DEF Aims, Idle
    <3>2. Aims(d, v, dp) => dp \in Pending(c)
      BY <2>1 DEF Aims, Pending
    <3>3. CASE Crash(c) \/ kind # "trending"
      BY <3>1, <3>2, <3>3 DEF Crash, CountFails
    <3>4. CASE CountFails(c) /\ kind = "trending"
      BY <1>1, <2>1, <3>1, <3>4 DEF CountFails, JobOK, Aims
    <3> QED
      BY <3>1, <3>3, <3>4
  <2>2. CASE d # c
    BY <1>2, <2>2, DecidesOthers
  <2> QED
    BY <2>1, <2>2
<1>4. \A d \in Consumers, dp \in Pairs : Eyes(d, dp)' => Eyes(d, dp)
  <2> SUFFICES ASSUME NEW d \in Consumers, NEW dp \in Pairs, Eyes(d, dp)' PROVE Eyes(d, dp)
    OBVIOUS
  <2>1. d # c
    BY <1>2 DEF Eyes, Idle
  <2> QED
    BY <1>2, <2>1, DecidesOthers
<1>5. lost \subseteq lost'
  BY DEF CountFails, Crash
<1> SUFFICES ASSUME NEW dp \in Pairs PROVE KeyOK(dp)' /\ (dp \notin again' => Once(dp)')
  BY DEF PushInv
<1>6. KeyOK(dp) /\ (dp \notin again => Once(dp))
  BY DEF PushInv
<1>7. now \in Nat /\ Window \in Nat \ {0} /\ posted \in [Posts -> Nat] /\ dp[2] \in Posts
      /\ key \in [Pairs -> 0..(MaxTime + Window)]
  BY Bounds DEF TypeInv, RestType, Pairs
<1>8. \/ key'[dp] = key[dp]
      \/ /\ key'[dp] = now + Window /\ dp \in lost'
         /\ posted[dp[2]] # 0 /\ posted[dp[2]] < now
  <2>1. CASE CountFails(c) /\ kind = "trending" /\ dp = Hit(c)
    <3>1. Eyes(c, dp)
      BY <2>1 DEF CountFails, Eyes, Hit
    <3>2. posted[dp[2]] # 0 /\ posted[dp[2]] < now
      BY <3>1, Aimed
    <3>3. key' = [key EXCEPT ![Hit(c)] = now + Window] /\ dp \in lost'
      BY <2>1 DEF CountFails, TTL
    <3> QED
      BY <1>7, <2>1, <3>2, <3>3
  <2>2. CASE ~(CountFails(c) /\ kind = "trending" /\ dp = Hit(c))
    <3>1. \/ key' = key
          \/ dp # Hit(c) /\ key' = [key EXCEPT ![Hit(c)] = now + Window]
      BY <2>2 DEF CountFails, Crash, TTL
    <3> QED
      BY <1>7, <3>1
  <2> QED
    BY <2>1, <2>2
<1>9. HasKey(dp) => HasKey(dp)'
  BY <1>1, <1>7, <1>8 DEF HasKey
<1>10. KeyOK(dp)'
  <2>1. Claimed(dp) \/ dp \in lost => Claimed(dp)' \/ dp \in lost'
    BY <1>1, <1>3, <1>5 DEF Claimed
  <2>2. CASE key'[dp] = key[dp]
    BY <1>1, <1>6, <2>1, <2>2 DEF KeyOK
  <2>3. CASE key'[dp] # key[dp]
    BY <1>1, <1>7, <1>8, <2>3 DEF KeyOK
  <2> QED
    BY <2>2, <2>3
<1>11. dp \notin again' => Once(dp)'
  BY <1>1, <1>2, <1>3, <1>4, <1>6, <1>9, Carry, DecidesPast
<1> QED
  BY <1>10, <1>11

(* The users' side.                                                        *)
LEMMA UserKeeps == ASSUME TypeInv, PushInv, UserStep PROVE PushInv'
<1>1. /\ UNCHANGED <<kind, now, posted, key, work, sent, lost, again>>
      /\ \A w \in Created : owner'[w] = owner[w]
  BY UserType
<1>2. \A c \in Consumers : JobOK(work[c])
  BY DEF TypeInv
<1>3. \A c \in Consumers, w \in Watchers, dp \in Pairs : Aims(c, w, dp)' <=> Aims(c, w, dp)
  BY <1>1, <1>2 DEF Aims, Pair, JobOK
<1>4. \A c \in Consumers, dp \in Pairs : Eyes(c, dp)' <=> Eyes(c, dp)
  <2> SUFFICES ASSUME NEW c \in Consumers, NEW dp \in Pairs PROVE Eyes(c, dp)' <=> Eyes(c, dp)
    OBVIOUS
  <2>1. CASE work[c].at = "hit"
    <3>1. work[c].hit \in Created
      BY <2>1, DecidingOn DEF Deciding
    <3> QED
      BY <1>1, <3>1 DEF Eyes, Pair
  <2>2. CASE work[c].at # "hit"
    BY <1>1, <2>2 DEF Eyes
  <2> QED
    BY <2>1, <2>2
<1> SUFFICES ASSUME NEW dp \in Pairs PROVE KeyOK(dp)' /\ (dp \notin again' => Once(dp)')
  BY DEF PushInv
<1>5. KeyOK(dp) /\ (dp \notin again => Once(dp))
  BY DEF PushInv
<1>6. (Claimed(dp)' <=> Claimed(dp)) /\ (HasKey(dp) => HasKey(dp)') /\ (Past(dp) => Past(dp)')
  BY <1>1, <1>3 DEF Claimed, HasKey, Past, Judges, Fresh
<1>7. KeyOK(dp)'
  BY <1>1, <1>5, <1>6 DEF KeyOK
<1>8. dp \notin again' => Once(dp)'
  BY <1>1, <1>3, <1>4, <1>5, <1>6, Carry
<1> QED
  BY <1>7, <1>8

(* The clock, Reddit and Redis.                                            *)
LEMMA WorldKeeps ==
    ASSUME TypeInv, PushInv,
           Tick \/ Post \/ Vanish \/ \E kept \in SUBSET Pairs : RestartRedis(kept)
    PROVE  PushInv'
<1>1. UNCHANGED <<kind, work, owner, sent, lost>> /\ again \subseteq again'
  BY WorldType DEF Tick, Post, Vanish, RestartRedis, Inside, history
<1>2. \A c \in Consumers, w \in Watchers, dp \in Pairs : Aims(c, w, dp)' <=> Aims(c, w, dp)
  BY <1>1 DEF Aims, Pair
<1>3. \A c \in Consumers, dp \in Pairs : Eyes(c, dp)' <=> Eyes(c, dp)
  BY <1>1 DEF Eyes, Pair
<1> SUFFICES ASSUME NEW dp \in Pairs PROVE KeyOK(dp)' /\ (dp \notin again' => Once(dp)')
  BY DEF PushInv
<1>4. KeyOK(dp) /\ (dp \notin again => Once(dp))
  BY DEF PushInv
<1>5. Claimed(dp)' <=> Claimed(dp)
  BY <1>1, <1>2 DEF Claimed
<1>6. /\ now \in 1..MaxTime /\ Window \in Nat \ {0} /\ posted[dp[2]] \in Nat
      /\ key[dp] \in Nat /\ dp[2] \in Posts /\ posted \in [Posts -> 0..MaxTime]
  BY Bounds DEF TypeInv, RestType, Pairs
<1>7. posted[dp[2]] # 0 => posted'[dp[2]] = posted[dp[2]]
  BY <1>6, WorldType DEF Tick, Post, Vanish, RestartRedis, Inside
<1>8. key'[dp] # 0 => key'[dp] = key[dp]
  BY <1>6 DEF Tick, Post, Vanish, RestartRedis
<1>9. KeyOK(dp)'
  BY <1>1, <1>4, <1>5, <1>7, <1>8 DEF KeyOK
<1>10. now' = now \/ now' = now + 1
  BY DEF Tick, Post, Vanish, RestartRedis, Inside
<1>11. ASSUME posted[dp[2]] # 0, NEW c \in Consumers PROVE Judges(c, dp[2])' <=> Judges(c, dp[2])
  BY <1>1, <1>7, <1>11 DEF Judges, Fresh
<1>12. Past(dp) => Past(dp)'
  BY <1>6, <1>7, <1>10, <1>11 DEF Past
<1>13. ASSUME HasKey(dp), dp \notin again' PROVE HasKey(dp)' \/ Past(dp)'
  <2>1. CASE Tick
    <3>1. now' = now + 1 /\ key' = key
      BY <2>1 DEF Tick
    <3>2. CASE key[dp] # now'
      BY <1>6, <1>13, <3>1, <3>2 DEF HasKey
    <3>3. CASE key[dp] = now'
      <4>1. \A c \in Consumers : ~Judges(c, dp[2])
        BY <1>13, <2>1, <3>3 DEF Tick
      <4>2. posted[dp[2]] # 0 /\ posted[dp[2]] + Window < now'
        BY <1>4, <1>6, <3>1, <3>3 DEF KeyOK
      <4> QED
        BY <1>7, <1>11, <4>1, <4>2 DEF Past
    <3> QED
      BY <3>2, <3>3
  <2>2. CASE Post \/ Vanish
    BY <1>13, <2>2 DEF Post, Vanish, HasKey
  <2>3. CASE \E kept \in SUBSET Pairs : RestartRedis(kept)
    <3>1. PICK kept \in SUBSET Pairs : RestartRedis(kept)
      BY <2>3
    <3>2. dp \in kept
      BY <1>13, <3>1 DEF RestartRedis
    <3>3. key'[dp] = key[dp] /\ now' = now
      BY <3>1, <3>2 DEF RestartRedis, Inside
    <3> QED
      BY <1>13, <3>3 DEF HasKey
  <2> QED
    BY <2>1, <2>2, <2>3
<1>14. dp \notin again' => Once(dp)'
  BY <1>1, <1>2, <1>3, <1>4, <1>12, <1>13, Carry
<1> QED
  BY <1>9, <1>14

LEMMA NextPushInv == ASSUME TypeInv, PushInv, Next PROVE PushInv'
<1>1. TypeInv'
  BY NextTypeInv
<1>2. ASSUME NEW c \in Consumers, QuietStep(c) PROVE PushInv'
  BY <1>1, <1>2, QuietStepQuiet, QuietJobKeeps
<1>3. ASSUME NEW c \in Consumers, JobStep(c) PROVE PushInv'
  BY <1>2, <1>3, MarkKeeps, CheckKeeps, SendKeeps DEF JobStep, QuietStep
<1>4. ASSUME NEW c \in Consumers, JobFault(c) PROVE PushInv'
  BY <1>2, <1>4, MarkKeeps, CheckKeeps, SendKeeps, EndKeeps DEF JobFault, QuietStep
<1> QED
  BY <1>3, <1>4, WorldKeeps, UserKeeps DEF Next

LEMMA InitPushInv == Init => PushInv
<1> SUFFICES ASSUME Init, NEW dp \in Pairs PROVE KeyOK(dp) /\ Once(dp)
  BY DEF PushInv
<1>1. \A c \in Consumers : \A w \in Watchers : ~Aims(c, w, dp) /\ ~Eyes(c, dp)
  BY DEF Init, Idle, Aims, Eyes
<1>2. \A c \in Consumers : ~Eyes(c, dp)
  BY DEF Init, Idle, Eyes
<1> QED
  BY <1>1, <1>2 DEF Init, KeyOK, Once, Claimed

LEMMA PushInvAlways == Spec => [](TypeInv /\ PushInv)
<1>1. TypeInv /\ PushInv /\ [Next]_vars => (TypeInv /\ PushInv)'
  <2>1. TypeInv /\ UNCHANGED vars => TypeInv'
    BY DEF TypeInv, RestType, JobOK, Created, Listed, vars, rows, history
  <2>2. PushInv /\ UNCHANGED vars => PushInv'
    BY DEF PushInv, KeyOK, Once, Claimed, Past, Judges, Fresh, HasKey, Aims, Eyes, Pair,
           vars, rows, history
  <2> QED
    BY <2>1, <2>2, NextTypeInv, NextPushInv
<1> QED
  BY <1>1, InitTypeInv, InitPushInv, PTL DEF Spec

(* A key that keeps a device from a post stands for a push: one that went  *)
(* out, one that is about to, or one that a failure took.                  *)
THEOREM MarkedCorrect == Spec => []MarkedIsSent
<1>1. TypeInv /\ PushInv => MarkedIsSent
  <2> SUFFICES ASSUME TypeInv, PushInv, NEW dp \in Pairs, HasKey(dp)
               PROVE  dp \in sent \cup lost \cup UNION {Pending(c) : c \in Consumers}
    BY DEF MarkedIsSent
  <2>1. key[dp] # 0
    BY Bounds DEF TypeInv, RestType, HasKey
  <2>2. Claimed(dp) \/ dp \in lost
    BY <2>1 DEF PushInv, KeyOK
  <2>3. ASSUME NEW c \in Consumers, NEW w \in Watchers, Aims(c, w, dp) PROVE dp \in Pending(c)
    BY <2>3 DEF Aims, Pending
  <2> QED
    BY <2>2, <2>3 DEF Claimed
<1> QED
  BY <1>1, PushInvAlways, PTL

(* A device hears of a post once, unless its key could not be relied on.   *)
THEOREM OnceCorrect == Spec => NotifiedOnce
<1> DEFINE OnePush == \A c \in Consumers, w \in Watchers :
                        Send(c, w) /\ Pair(w, work[c].post) \in sent
                        => Pair(w, work[c].post) \in again
<1>1. TypeInv /\ PushInv => OnePush
  <2> SUFFICES ASSUME TypeInv, PushInv, NEW c \in Consumers, NEW w \in Watchers,
                      Send(c, w), Pair(w, work[c].post) \in sent
               PROVE  Pair(w, work[c].post) \in again
    OBVIOUS
  <2>1. w \in work[c].notifs
    BY DEF Send
  <2>2. PICK dp : dp = Pair(w, work[c].post)
    OBVIOUS
  <2>3. Aims(c, w, dp) /\ dp \in Pairs
    BY <2>1, <2>2, Aimed DEF Aims
  <2> QED
    BY <2>2, <2>3 DEF PushInv, Once
<1>2. TypeInv /\ PushInv => [OnePush]_vars
  BY <1>1
<1> QED
  BY <1>2, PushInvAlways, PTL DEF NotifiedOnce
=============================================================================
