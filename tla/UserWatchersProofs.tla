-------------------------- MODULE UserWatchersProofs --------------------------
(***************************************************************************)
(* Proofs about UserWatchers, for all consumers, watchers and bounds.      *)
(***************************************************************************)
EXTENDS UserWatchers, TLAPS

(* A job with one field changed to a value of its type is a job.           *)
LEMMA FieldOK ==
  ASSUME NEW j \in Jobs
  PROVE  /\ \A x \in {"idle", "about", "unwatch", "remove", "posts", "count", "send"} :
              [j EXCEPT !.at = x] \in Jobs
         /\ \A x \in SUBSET Watchers : /\ [j EXCEPT !.ws = x] \in Jobs
                                       /\ [j EXCEPT !.narrow = x] \in Jobs
                                       /\ [j EXCEPT !.notifs = x] \in Jobs
                                       /\ [j EXCEPT !.stale = x] \in Jobs
         /\ \A x \in [Watchers -> 0..MaxTime] : [j EXCEPT !.seen = x] \in Jobs
         /\ \A x \in 0..MaxTime : [j EXCEPT !.listed = x] \in Jobs
         /\ \A x \in SUBSET Posts : [j EXCEPT !.posts = x] \in Jobs
         /\ \A x \in 0..MaxPosts : [j EXCEPT !.post = x] \in Jobs
         /\ \A x \in Watchers \cup {NoWatcher} : [j EXCEPT !.hit = x] \in Jobs
  BY DEF Jobs

LEMMA IdleOK == JobOK(Idle)
  BY UserWatchersAssumption DEF JobOK, Idle, Jobs

(* The jobs that the steps leave, field by field.  First the one of Onward *)
(* when there is a post to come to.                                        *)
Come(j, p, rest) ==
  [j EXCEPT !.at = "count", !.post = p, !.hit = NoWatcher,
            !.posts = rest, !.notifs = Eligible(j, p)]

LEMMA ComeOK ==
  ASSUME NEW j \in Jobs, NEW p \in Posts, NEW rest \in SUBSET Posts
  PROVE  /\ Come(j, p, rest) \in Jobs
         /\ Come(j, p, rest).at = "count"
         /\ Come(j, p, rest).ws = j.ws
         /\ Come(j, p, rest).seen = j.seen
         /\ Come(j, p, rest).narrow = j.narrow
         /\ Come(j, p, rest).listed = j.listed
         /\ Come(j, p, rest).posts = rest
         /\ Come(j, p, rest).post = p
         /\ Come(j, p, rest).notifs = Eligible(j, p)
         /\ Come(j, p, rest).hit = NoWatcher
         /\ Come(j, p, rest).stale = j.stale
         /\ \A q : Eligible(Come(j, p, rest), q) = Eligible(j, q)
  <1> DEFINE E  == Eligible(j, p)
             k1 == [j  EXCEPT !.at = "count"]
             k2 == [k1 EXCEPT !.post = p]
             k3 == [k2 EXCEPT !.hit = NoWatcher]
             k4 == [k3 EXCEPT !.posts = rest]
             k5 == [k4 EXCEPT !.notifs = E]
  <1>1. E \in SUBSET Watchers /\ p \in 0..MaxPosts
    BY UserWatchersAssumption DEF Eligible, Jobs, Posts
  <1>2. k1 \in Jobs BY FieldOK
  <1> HIDE DEF k1
  <1>3. k2 \in Jobs BY FieldOK, <1>2, <1>1
  <1> HIDE DEF k2
  <1>4. k3 \in Jobs BY FieldOK, <1>3
  <1> HIDE DEF k3
  <1>5. k4 \in Jobs BY FieldOK, <1>4
  <1> HIDE DEF k4, E
  <1>6. k5 \in Jobs BY FieldOK, <1>5, <1>1
  <1>7. Come(j, p, rest) = k5
    BY DEF Come, k1, k2, k3, k4, k5, E
  <1>8. /\ Come(j, p, rest).at = "count"
        /\ Come(j, p, rest).ws = j.ws
        /\ Come(j, p, rest).seen = j.seen
        /\ Come(j, p, rest).narrow = j.narrow
        /\ Come(j, p, rest).listed = j.listed
        /\ Come(j, p, rest).posts = rest
        /\ Come(j, p, rest).post = p
        /\ Come(j, p, rest).notifs = Eligible(j, p)
        /\ Come(j, p, rest).hit = NoWatcher
        /\ Come(j, p, rest).stale = j.stale
    BY DEF Jobs, Come
  <1>9. \A q : Eligible(Come(j, p, rest), q) = Eligible(j, q)
    BY <1>8 DEF Eligible
  <1>10. QED BY <1>6, <1>7, <1>8, <1>9

(* The job of Start.                                                       *)
Started == [Idle EXCEPT !.at = "about", !.ws = Selected, !.seen = notified,
                        !.narrow = narrow]

LEMMA StartedOK ==
  ASSUME TypeOK
  PROVE  /\ Started \in Jobs
         /\ Started.at = "about" /\ Started.ws = Selected /\ Started.seen = notified
         /\ Started.listed = 0 /\ Started.posts = {} /\ Started.notifs = {}
         /\ Started.hit = NoWatcher /\ Started.stale = {}
  <1> DEFINE k1 == [Idle EXCEPT !.at = "about"]
             k2 == [k1 EXCEPT !.ws = Selected]
             k3 == [k2 EXCEPT !.seen = notified]
             k4 == [k3 EXCEPT !.narrow = narrow]
  <1>1. Selected \in SUBSET Watchers /\ notified \in [Watchers -> 0..MaxTime]
        /\ narrow \in SUBSET Watchers
    BY UserWatchersAssumption DEF TypeOK, Selected
  <1>2. k1 \in Jobs BY FieldOK, IdleOK DEF JobOK
  <1> HIDE DEF k1
  <1>3. k2 \in Jobs BY FieldOK, <1>2, <1>1
  <1> HIDE DEF k2
  <1>4. k3 \in Jobs BY FieldOK, <1>3, <1>1
  <1> HIDE DEF k3
  <1>5. k4 \in Jobs BY FieldOK, <1>4, <1>1
  <1>6. Started = k4
    BY DEF Started, k1, k2, k3, k4
  <1>7. /\ Started.at = "about" /\ Started.ws = Selected /\ Started.seen = notified
        /\ Started.listed = 0 /\ Started.posts = {} /\ Started.notifs = {}
        /\ Started.hit = NoWatcher /\ Started.stale = {}
    BY DEF Started, Idle
  <1>8. QED BY <1>5, <1>6, <1>7

(* The job that has its listing, before Onward.                            *)
Fetched(j) == [j EXCEPT !.posts = Listed, !.listed = now]

LEMMA FetchedOK ==
  ASSUME TypeOK, NEW j \in Jobs
  PROVE  /\ Fetched(j) \in Jobs
         /\ Fetched(j).ws = j.ws /\ Fetched(j).seen = j.seen
         /\ Fetched(j).narrow = j.narrow /\ Fetched(j).stale = j.stale
         /\ Fetched(j).notifs = j.notifs
         /\ Fetched(j).listed = now /\ Fetched(j).posts = Listed
         /\ \A q : Eligible(Fetched(j), q) = Eligible(j, q)
  <1> DEFINE k1 == [j EXCEPT !.posts = Listed]
             k2 == [k1 EXCEPT !.listed = now]
  <1>1. Listed \in SUBSET Posts /\ now \in 0..MaxTime
    BY UserWatchersAssumption DEF TypeOK, Listed
  <1>2. k1 \in Jobs BY FieldOK, <1>1
  <1> HIDE DEF k1
  <1>3. k2 \in Jobs BY FieldOK, <1>2, <1>1
  <1>4. Fetched(j) = k2
    BY DEF Fetched, k1, k2
  <1>5. /\ Fetched(j).ws = j.ws /\ Fetched(j).seen = j.seen
        /\ Fetched(j).narrow = j.narrow /\ Fetched(j).stale = j.stale
        /\ Fetched(j).notifs = j.notifs
        /\ Fetched(j).listed = now /\ Fetched(j).posts = Listed
    BY DEF Fetched, Jobs
  <1>6. \A q : Eligible(Fetched(j), q) = Eligible(j, q)
    BY <1>5 DEF Eligible
  <1>7. QED BY <1>3, <1>4, <1>5, <1>6

(* The job that has a watcher in hand, and the job that is through with it.*)
InHand(j, w) == [j EXCEPT !.at = "send", !.hit = w]
Through(j)   == [j EXCEPT !.at = "count", !.notifs = @ \ {j.hit}, !.hit = NoWatcher]
Staled(j, S) == [j EXCEPT !.stale = @ \cup S]

LEMMA InHandOK ==
  ASSUME NEW j \in Jobs, NEW w \in Watchers
  PROVE  /\ InHand(j, w) \in Jobs
         /\ InHand(j, w).at = "send" /\ InHand(j, w).hit = w
         /\ InHand(j, w).ws = j.ws /\ InHand(j, w).seen = j.seen
         /\ InHand(j, w).narrow = j.narrow /\ InHand(j, w).listed = j.listed
         /\ InHand(j, w).posts = j.posts /\ InHand(j, w).post = j.post
         /\ InHand(j, w).notifs = j.notifs /\ InHand(j, w).stale = j.stale
         /\ \A q : Eligible(InHand(j, w), q) = Eligible(j, q)
  <1> DEFINE k1 == [j EXCEPT !.at = "send"]
             k2 == [k1 EXCEPT !.hit = w]
  <1>1. k1 \in Jobs BY FieldOK
  <1> HIDE DEF k1
  <1>2. k2 \in Jobs BY FieldOK, <1>1
  <1>3. InHand(j, w) = k2
    BY DEF InHand, k1, k2
  <1>4. /\ InHand(j, w).at = "send" /\ InHand(j, w).hit = w
        /\ InHand(j, w).ws = j.ws /\ InHand(j, w).seen = j.seen
        /\ InHand(j, w).narrow = j.narrow /\ InHand(j, w).listed = j.listed
        /\ InHand(j, w).posts = j.posts /\ InHand(j, w).post = j.post
        /\ InHand(j, w).notifs = j.notifs /\ InHand(j, w).stale = j.stale
    BY DEF InHand, Jobs
  <1>5. \A q : Eligible(InHand(j, w), q) = Eligible(j, q)
    BY <1>4 DEF Eligible
  <1>6. QED BY <1>2, <1>3, <1>4, <1>5

LEMMA ThroughOK ==
  ASSUME NEW j \in Jobs
  PROVE  /\ Through(j) \in Jobs
         /\ Through(j).at = "count" /\ Through(j).hit = NoWatcher
         /\ Through(j).ws = j.ws /\ Through(j).seen = j.seen
         /\ Through(j).narrow = j.narrow /\ Through(j).listed = j.listed
         /\ Through(j).posts = j.posts /\ Through(j).post = j.post
         /\ Through(j).notifs = j.notifs \ {j.hit} /\ Through(j).stale = j.stale
         /\ \A q : Eligible(Through(j), q) = Eligible(j, q)
  <1> DEFINE S  == j.notifs \ {j.hit}
             k1 == [j EXCEPT !.at = "count"]
             k2 == [k1 EXCEPT !.notifs = S]
             k3 == [k2 EXCEPT !.hit = NoWatcher]
  <1>0. S \in SUBSET Watchers BY DEF Jobs
  <1>1. k1 \in Jobs BY FieldOK
  <1> HIDE DEF k1, S
  <1>2. k2 \in Jobs BY FieldOK, <1>1, <1>0
  <1> HIDE DEF k2
  <1>3. k3 \in Jobs BY FieldOK, <1>2
  <1>4. /\ Through(j).at = "count" /\ Through(j).hit = NoWatcher
        /\ Through(j).ws = j.ws /\ Through(j).seen = j.seen
        /\ Through(j).narrow = j.narrow /\ Through(j).listed = j.listed
        /\ Through(j).posts = j.posts /\ Through(j).post = j.post
        /\ Through(j).notifs = j.notifs \ {j.hit} /\ Through(j).stale = j.stale
    BY DEF Through, Jobs
  <1>5. Through(j) = k3
    BY DEF Through, k1, k2, k3, S
  <1>6. \A q : Eligible(Through(j), q) = Eligible(j, q)
    BY <1>4 DEF Eligible
  <1>7. QED BY <1>3, <1>4, <1>5, <1>6

LEMMA StaledOK ==
  ASSUME NEW j \in Jobs, NEW S \in SUBSET Watchers
  PROVE  /\ Staled(j, S) \in Jobs
         /\ Staled(j, S).at = j.at /\ Staled(j, S).hit = j.hit
         /\ Staled(j, S).ws = j.ws /\ Staled(j, S).seen = j.seen
         /\ Staled(j, S).narrow = j.narrow /\ Staled(j, S).listed = j.listed
         /\ Staled(j, S).posts = j.posts /\ Staled(j, S).post = j.post
         /\ Staled(j, S).notifs = j.notifs /\ Staled(j, S).stale = j.stale \cup S
         /\ \A q : Eligible(Staled(j, S), q) = Eligible(j, q)
  <1>1. j.stale \cup S \in SUBSET Watchers BY DEF Jobs
  <1>2. Staled(j, S) \in Jobs BY FieldOK, <1>1 DEF Staled
  <1>3. /\ Staled(j, S).at = j.at /\ Staled(j, S).hit = j.hit
        /\ Staled(j, S).ws = j.ws /\ Staled(j, S).seen = j.seen
        /\ Staled(j, S).narrow = j.narrow /\ Staled(j, S).listed = j.listed
        /\ Staled(j, S).posts = j.posts /\ Staled(j, S).post = j.post
        /\ Staled(j, S).notifs = j.notifs /\ Staled(j, S).stale = j.stale \cup S
    BY DEF Staled, Jobs
  <1>4. \A q : Eligible(Staled(j, S), q) = Eligible(j, q)
    BY <1>3 DEF Eligible
  <1>5. QED BY <1>2, <1>3, <1>4

(* The job that goes from one step to the next before its listing.         *)
Moved(j, a) == [j EXCEPT !.at = a]

LEMMA MovedOK ==
  ASSUME NEW j \in Jobs, NEW a \in {"about", "unwatch", "remove", "posts"}
  PROVE  /\ Moved(j, a) \in Jobs
         /\ Moved(j, a).at = a /\ Moved(j, a).hit = j.hit
         /\ Moved(j, a).ws = j.ws /\ Moved(j, a).seen = j.seen
         /\ Moved(j, a).narrow = j.narrow /\ Moved(j, a).listed = j.listed
         /\ Moved(j, a).posts = j.posts /\ Moved(j, a).post = j.post
         /\ Moved(j, a).notifs = j.notifs /\ Moved(j, a).stale = j.stale
         /\ JobOK(j) /\ j.at \notin {"count", "send"} => JobOK(Moved(j, a))
  <1>1. Moved(j, a) \in Jobs
    BY FieldOK DEF Moved
  <1>2. /\ Moved(j, a).at = a /\ Moved(j, a).hit = j.hit
        /\ Moved(j, a).ws = j.ws /\ Moved(j, a).seen = j.seen
        /\ Moved(j, a).narrow = j.narrow /\ Moved(j, a).listed = j.listed
        /\ Moved(j, a).posts = j.posts /\ Moved(j, a).post = j.post
        /\ Moved(j, a).notifs = j.notifs /\ Moved(j, a).stale = j.stale
    BY DEF Moved, Jobs
  <1>3. JobOK(j) /\ j.at \notin {"count", "send"} => JobOK(Moved(j, a))
    BY <1>1, <1>2 DEF JobOK
  <1>4. QED BY <1>1, <1>2, <1>3

-----------------------------------------------------------------------------
(* Types.  Onward and AfterSend leave a well-formed job with the copies of *)
(* the one they were given.                                                *)
Copies(j, k) == k.ws = j.ws /\ k.seen = j.seen /\ k.narrow = j.narrow
                /\ k.listed = j.listed /\ k.stale = j.stale

(* What Onward makes of job j.                                             *)
Ahead(j) == {p \in j.posts : Eligible(j, p) # {}}

LEMMA OnwardIs ==
  ASSUME NEW c \in Consumers, NEW j \in Jobs, Onward(c, j)
  PROVE  \/ Ahead(j) = {} /\ Becomes(c, Idle)
         \/ \E p \in Ahead(j) : Becomes(c, Come(j, p, Ahead(j) \ {p}))
  BY Zenon DEF Onward, Ahead, Come

LEMMA ComeJobOK ==
  ASSUME NEW j \in Jobs, j.stale \subseteq j.ws, NEW p \in Ahead(j)
  PROVE  JobOK(Come(j, p, Ahead(j) \ {p})) /\ Copies(j, Come(j, p, Ahead(j) \ {p}))
  <1> DEFINE k == Come(j, p, Ahead(j) \ {p})
  <1>1. p \in Posts /\ Ahead(j) \ {p} \in SUBSET Posts /\ Eligible(j, p) # {}
    BY DEF Ahead, Jobs
  <1>2. /\ k \in Jobs /\ k.at = "count" /\ k.post = p /\ k.hit = NoWatcher
        /\ k.notifs = Eligible(j, p) /\ k.stale = j.stale /\ k.ws = j.ws
        /\ Eligible(k, p) = Eligible(j, p)
    BY <1>1, ComeOK
  <1>3. JobOK(k)
    BY <1>1, <1>2, UserWatchersAssumption DEF JobOK
  <1>4. QED BY <1>1, <1>3, ComeOK DEF Copies

LEMMA OnwardOK ==
  ASSUME TypeOK, NEW c \in Consumers, NEW j \in Jobs, j.stale \subseteq j.ws, Onward(c, j)
  PROVE  /\ work' \in [Consumers -> Jobs] /\ JobOK(work'[c])
         /\ \A b \in Consumers \ {c} : work'[b] = work[b]
  <1>1. CASE Becomes(c, Idle)
    BY <1>1, IdleOK DEF Becomes, JobOK, TypeOK
  <1>2. CASE \E p \in Ahead(j) : Becomes(c, Come(j, p, Ahead(j) \ {p}))
    <2>1. PICK p \in Ahead(j) : Becomes(c, Come(j, p, Ahead(j) \ {p}))
      BY <1>2
    <2>2. JobOK(Come(j, p, Ahead(j) \ {p}))
      BY ComeJobOK
    <2>3. QED BY <2>1, <2>2 DEF Becomes, JobOK, TypeOK
  <1>3. QED BY <1>1, <1>2, OnwardIs

LEMMA AfterSendOK ==
  ASSUME TypeOK, NEW c \in Consumers, work[c].at = "send", AfterSend(c, work[c])
  PROVE  /\ work' \in [Consumers -> Jobs] /\ JobOK(work'[c])
         /\ \A b \in Consumers \ {c} : work'[b] = work[b]
  <1> DEFINE j == work[c]
  <1>1. j \in Jobs /\ JobOK(j)
    BY DEF TypeOK
  <1>2. CASE j.notifs = {j.hit}
    BY <1>1, <1>2, OnwardOK DEF AfterSend, JobOK
  <1>3. CASE j.notifs # {j.hit}
    <2>1. Becomes(c, Through(j))
      BY <1>3, Zenon DEF AfterSend, Through
    <2>2. j.notifs \ {j.hit} # {}
      BY <1>1, <1>3 DEF JobOK
    <2>3. JobOK(Through(j))
      BY <1>1, <2>2, ThroughOK, UserWatchersAssumption DEF JobOK
    <2>4. QED BY <2>1, <2>3 DEF Becomes, JobOK, TypeOK
  <1>4. QED BY <1>2, <1>3

(* A post that is made leaves every job well formed.                       *)
LEMMA EligibleStays ==
  ASSUME TypeOK, NEW j \in Jobs, NEW q \in Posts,
         \A p \in Posts : posted'[p] = posted[p] \/ posted[p] = 0,
         posted' \in [Posts -> 0..MaxTime], since' = since
  PROVE  Eligible(j, q) \subseteq Eligible(j, q)'
  <1>1. \A w \in Watchers : since[w] > 0 /\ since[w] \in Nat
    BY DEF TypeOK
  <1>2. QED BY <1>1 DEF Eligible, Jobs, TypeOK

LEMMA JobStays ==
  ASSUME TypeOK, NEW j, JobOK(j),
         \A p \in Posts : posted'[p] = posted[p] \/ posted[p] = 0,
         posted' \in [Posts -> 0..MaxTime], since' = since
  PROVE  JobOK(j)'
  BY EligibleStays DEF JobOK

LEMMA PlanIs ==
  ASSUME NEW j \in Jobs, JobOK(j), NEW w, NEW p
  PROVE  /\ <<w, p>> \in Plan(j) <=> \/ p = j.post /\ w \in j.notifs
                                     \/ p \in j.posts /\ w \in Eligible(j, p)
         /\ <<w, p>> \in Plan(j) => w \in j.ws /\ w \in Watchers /\ p \in Posts
                                    /\ w \in Eligible(j, p)
  <1>1. \A q : Eligible(j, q) \subseteq j.ws
    BY DEF Eligible
  <1>2. j.ws \subseteq Watchers /\ j.posts \subseteq Posts
    BY DEF Jobs
  <1>3. j.notifs # {} => j.post \in Posts /\ j.notifs \subseteq Eligible(j, j.post)
    BY DEF JobOK
  <1>4. <<w, p>> \in Plan(j) <=> \/ p = j.post /\ w \in j.notifs
                                 \/ p \in j.posts /\ w \in Eligible(j, p)
    BY <1>1, <1>2 DEF Plan, Pairs
  <1>5. QED BY <1>1, <1>2, <1>3, <1>4

LEMMA ForsakenOK ==
  ASSUME NEW j \in Jobs, JobOK(j) PROVE Forsaken(j) \subseteq Pairs
  <1>1. \A q : Eligible(j, q) \subseteq Watchers
    BY DEF Eligible, Jobs
  <1>2. j.notifs # {} => j.post \in Posts /\ j.notifs \subseteq Watchers
    BY DEF JobOK, Jobs
  <1>3. QED BY <1>1, <1>2 DEF Forsaken, Plan, Pairs

LEMMA TypeInit == Init => TypeOK
  <1> SUFFICES ASSUME Init PROVE TypeOK
    OBVIOUS
  <1>1. work \in [Consumers -> Jobs] /\ \A c \in Consumers : JobOK(work[c])
    BY IdleOK DEF Init, JobOK
  <1>2. posted \in [Posts -> 0..MaxTime]
    BY UserWatchersAssumption DEF Init
  <1>3. since \in [Watchers -> 1..2] /\ notified \in [Watchers -> 1..MaxTime]
    BY UserWatchersAssumption DEF Init
  <1>4. QED BY <1>1, <1>2, <1>3, UserWatchersAssumption DEF Init, TypeOK

LEMMA TypeStep == TypeOK /\ [Next]_vars => TypeOK'
  <1> SUFFICES ASSUME TypeOK, [Next]_vars PROVE TypeOK'
    OBVIOUS
  <1> DEFINE Kept == work' = work /\ posted' = posted /\ since' = since
  <1>a. ASSUME work' \in [Consumers -> Jobs], posted' = posted, since' = since,
               NEW c \in Consumers, JobOK(work'[c]),
               \A b \in Consumers \ {c} : work'[b] = work[b]
        PROVE  \A b \in Consumers : JobOK(work[b])'
    <2>1. \A b \in Consumers : JobOK(work'[b])
      BY <1>a DEF TypeOK
    <2>2. QED BY <1>a, <2>1 DEF JobOK, Eligible
  <1>1. CASE UNCHANGED vars
    BY <1>1 DEF TypeOK, vars, users, rows, history, JobOK, Eligible
  <1>2. CASE Tick
    BY <1>2, UserWatchersAssumption DEF Tick, TypeOK, users, rows, history, JobOK, Eligible
  <1>3. CASE Post
    <2>1. PICK p \in Posts : posted[p] = 0 /\ posted' = [posted EXCEPT ![p] = now]
      BY <1>3 DEF Post
    <2>2. now \in 0..MaxTime
      BY UserWatchersAssumption DEF TypeOK
    <2>3. posted' \in [Posts -> 0..MaxTime]
          /\ \A q \in Posts : posted'[q] = posted[q] \/ posted[q] = 0
      BY <2>1, <2>2 DEF TypeOK
    <2>4. UNCHANGED <<now, follows, muted, bare, exists, alive, since, notified, narrow,
                      work, edits, faults, sent, lost, raced, unwanted>>
      BY <1>3 DEF Post, users, rows, history
    <2>5. \A c \in Consumers : JobOK(work[c])'
      BY <2>3, <2>4, JobStays DEF TypeOK
    <2>6. QED BY <2>3, <2>4, <2>5 DEF TypeOK
  <1>4. CASE UserStep
    <2>1. UserEdits
      BY <1>4 DEF UserStep, TurnFollowers, Edit, DeleteByUser, DeleteDevice, Settings
    <2>2. UNCHANGED <<now, posted, exists, since, notified, work, faults, sent, lost,
                      raced, unwanted>>
          /\ edits' \in 0..MaxEdits
      BY <2>1, UserWatchersAssumption DEF UserEdits, TypeOK, history
    <2>3. ASSUME NEW w \in Watchers, NEW S \in SUBSET Watchers
          PROVE  Toggled(w, S) \in SUBSET Watchers
      BY DEF Toggled
    <2>4. /\ follows' \in BOOLEAN /\ muted' \subseteq Watchers /\ bare' \subseteq Watchers
          /\ alive' \subseteq Watchers /\ narrow' \subseteq Watchers
      <3>1. CASE TurnFollowers
        BY <3>1 DEF TurnFollowers, TypeOK
      <3>2. ASSUME NEW w \in Watchers, Edit(w) \/ Settings(w)
            PROVE  /\ follows' \in BOOLEAN /\ muted' \subseteq Watchers
                   /\ bare' \subseteq Watchers /\ alive' \subseteq Watchers
                   /\ narrow' \subseteq Watchers
        BY <3>2, <2>3 DEF Edit, Settings, TypeOK, users
      <3>3. ASSUME NEW w \in Watchers, DeleteByUser(w) \/ DeleteDevice(w)
            PROVE  /\ follows' \in BOOLEAN /\ muted' \subseteq Watchers
                   /\ bare' \subseteq Watchers /\ alive' \subseteq Watchers
                   /\ narrow' \subseteq Watchers
        BY <3>3 DEF DeleteByUser, DeleteDevice, TypeOK, users
      <3>4. QED BY <1>4, <3>1, <3>2, <3>3 DEF UserStep
    <2>5. QED BY <2>2, <2>4 DEF TypeOK, JobOK, Eligible
  <1>5. ASSUME NEW c \in Consumers, JobStep(c) PROVE TypeOK'
    <2>0. work[c] \in Jobs /\ JobOK(work[c])
      BY DEF TypeOK
    <2>1. CASE Start(c)
      <3>1. Becomes(c, Started)
        BY <2>1, Zenon DEF Start, Started
      <3>2. JobOK(Started)
        BY StartedOK, UserWatchersAssumption DEF JobOK
      <3>3. /\ work' \in [Consumers -> Jobs] /\ JobOK(work'[c])
            /\ \A b \in Consumers \ {c} : work'[b] = work[b]
        BY <3>1, <3>2 DEF Becomes, JobOK, TypeOK
      <3>4. QED BY <2>1, <3>3, <1>a DEF Start, Reads, Inside, Calm, TypeOK, users
    <2>2. CASE About(c)
      <3>1. PICK a \in {"posts", "unwatch"} : Becomes(c, Moved(work[c], a))
        BY <2>2, Zenon DEF About, Moved
      <3>2. JobOK(Moved(work[c], a))
        BY <2>0, <2>2, MovedOK DEF About
      <3>3. /\ work' \in [Consumers -> Jobs] /\ JobOK(work'[c])
            /\ \A b \in Consumers \ {c} : work'[b] = work[b]
        BY <3>1, <3>2 DEF Becomes, JobOK, TypeOK
      <3>4. QED BY <2>2, <3>3, <1>a DEF About, Reads, Inside, Calm, TypeOK, users
    <2>3. CASE Unwatch(c) \/ Remove(c)
      <3>1. PICK a \in {"remove", "posts"} : Becomes(c, Moved(work[c], a))
        BY <2>3, Zenon DEF Unwatch, Remove, Moved
      <3>2. JobOK(Moved(work[c], a))
        BY <2>0, <2>3, MovedOK DEF Unwatch, Remove
      <3>3. /\ work' \in [Consumers -> Jobs] /\ JobOK(work'[c])
            /\ \A b \in Consumers \ {c} : work'[b] = work[b]
        BY <3>1, <3>2 DEF Becomes, JobOK, TypeOK
      <3>4. QED BY <2>3, <3>3, <1>a DEF Unwatch, Remove, Inside, Calm, TypeOK, users, history
    <2>4. CASE FetchPosts(c)
      <3>1. Onward(c, Fetched(work[c]))
        BY <2>4, Zenon DEF FetchPosts, Fetched
      <3>2. Fetched(work[c]) \in Jobs /\ Fetched(work[c]).stale \subseteq Fetched(work[c]).ws
        BY <2>0, FetchedOK DEF JobOK
      <3>3. /\ work' \in [Consumers -> Jobs] /\ JobOK(work'[c])
            /\ \A b \in Consumers \ {c} : work'[b] = work[b]
        BY <3>1, <3>2, OnwardOK
      <3>4. QED BY <2>4, <3>3, <1>a DEF FetchPosts, Reads, Inside, Calm, TypeOK, users
    <2>5. CASE Send(c)
      <3>1. /\ work' \in [Consumers -> Jobs] /\ JobOK(work'[c])
            /\ \A b \in Consumers \ {c} : work'[b] = work[b]
        BY <2>5, AfterSendOK DEF Send
      <3>2. <<work[c].hit, work[c].post>> \in Pairs
        BY <2>0, <2>5 DEF Send, JobOK, Jobs, Pairs
      <3>3. sent' \subseteq Pairs /\ lost' \subseteq Pairs
        BY <2>5, <3>2 DEF Send, TypeOK
      <3>4. QED BY <2>5, <3>1, <3>3, <1>a DEF Send, Inside, Calm, TypeOK, users
    <2>6. ASSUME NEW w \in Watchers, Count(c, w) PROVE TypeOK'
      <3>1. work' = [b \in Consumers |-> IF b = c THEN InHand(work[b], w)
                                         ELSE Staled(work[b], {w} \cap work[b].ws)]
        BY <2>6, Zenon DEF Count, InHand, Staled
      <3>2. work[c].at = "count" /\ w \in work[c].notifs
        BY <2>6 DEF Count
      <3>3. JobOK(InHand(work[c], w))
        BY <2>0, <3>2, InHandOK, UserWatchersAssumption DEF JobOK
      <3>4. ASSUME NEW b \in Consumers PROVE JobOK(Staled(work[b], {w} \cap work[b].ws))
        <4>1. work[b] \in Jobs /\ JobOK(work[b]) /\ {w} \cap work[b].ws \in SUBSET Watchers
          BY DEF TypeOK
        <4>2. QED BY <4>1, StaledOK DEF JobOK
      <3>5. /\ work' \in [Consumers -> Jobs]
            /\ \A b \in Consumers : JobOK(work'[b])
        BY <3>1, <3>3, <3>4, Zenon DEF JobOK
      <3>6. /\ UNCHANGED <<now, posted, follows, muted, bare, since, narrow, edits,
                           faults, exists, alive, sent, lost>>
            /\ notified' = Counted(w)
        BY <2>6 DEF Count, Inside, Calm, users
      <3>7. notified' \in [Watchers -> 1..MaxTime]
        BY <3>6, UserWatchersAssumption DEF Counted, TypeOK
      <3>8. raced' \subseteq Pairs /\ unwanted' \subseteq Pairs
        <4>1. \A p \in Posts : <<w, p>> \in Pairs
          BY DEF Pairs
        <4>2. PICK R \in SUBSET Posts, U \in SUBSET Posts :
                /\ raced' = raced \cup {<<w, p>> : p \in R}
                /\ unwanted' = unwanted \cup {<<w, p>> : p \in U}
          <5> DEFINE newly == {p \in Posts : w \in alive /\ posted[p] \in notified[w]..(now - 1)}
                     R == {q \in newly : posted[q] >= work[c].listed}
                     U == {q \in newly \cap Elsewhere : w \in work[c].narrow}
          <5>1. R \in SUBSET Posts /\ U \in SUBSET Posts
            OBVIOUS
          <5>2. /\ raced' = raced \cup {<<w, p>> : p \in R}
                /\ unwanted' = unwanted \cup {<<w, p>> : p \in U}
            BY <2>6, Zenon DEF Count
          <5> HIDE DEF R, U
          <5>3. QED BY <5>1, <5>2
        <4>3. QED BY <4>1, <4>2 DEF TypeOK
      <3>9. \A b \in Consumers : JobOK(work[b])'
        BY <3>5, <3>6 DEF JobOK, Eligible
      <3>10. QED BY <3>5, <3>6, <3>7, <3>8, <3>9 DEF TypeOK
    <2>7. QED BY <1>5, <2>1, <2>2, <2>3, <2>4, <2>5, <2>6 DEF JobStep
  <1>b. faults < MaxFaults /\ faults' = faults + 1 => faults' \in 0..MaxFaults
    BY UserWatchersAssumption DEF TypeOK
  <1>c. \A c \in Consumers : work[c] \in Jobs /\ JobOK(work[c]) /\ Forsaken(work[c]) \subseteq Pairs
    BY ForsakenOK DEF TypeOK
  <1>d. ASSUME work' = [b \in Consumers |-> Idle],
               lost' = lost \cup UNION {Forsaken(work[b]) : b \in Consumers}, Reads, Fault
        PROVE  TypeOK'
    <2>1. lost' \subseteq Pairs
      BY <1>d, <1>c DEF TypeOK
    <2>2. work' \in [Consumers -> Jobs] /\ \A b \in Consumers : JobOK(work'[b])
      BY <1>d, IdleOK DEF JobOK
    <2>3. \A b \in Consumers : JobOK(work[b])'
      BY <1>d, <2>2 DEF JobOK, Eligible, Reads, Inside
    <2>4. QED BY <1>d, <1>b, <2>1, <2>2, <2>3 DEF Fault, Reads, Inside, TypeOK, users
  <1>6. ASSUME NEW c \in Consumers, JobFault(c) PROVE TypeOK'
    <2>1. CASE Panic(c)
      BY <2>1, <1>d DEF Panic
    <2>2. CASE CallFails(c) \/ CountFails(c)
      <3>1. /\ work' \in [Consumers -> Jobs] /\ JobOK(work'[c])
            /\ \A b \in Consumers \ {c} : work'[b] = work[b]
        BY <2>2, IdleOK DEF CallFails, CountFails, Becomes, JobOK, TypeOK
      <3>2. lost' \subseteq Pairs
        BY <2>2, <1>c DEF CallFails, CountFails, TypeOK
      <3>3. QED BY <2>2, <3>1, <3>2, <1>a, <1>b
                DEF CallFails, CountFails, Reads, Fault, Inside, TypeOK, users
    <2>3. CASE SendFails(c)
      <3>1. /\ work' \in [Consumers -> Jobs] /\ JobOK(work'[c])
            /\ \A b \in Consumers \ {c} : work'[b] = work[b]
        BY <2>3, AfterSendOK DEF SendFails
      <3>2. <<work[c].hit, work[c].post>> \in Pairs
        BY <1>c, <2>3 DEF SendFails, JobOK, Jobs, Pairs
      <3>3. lost' \subseteq Pairs
        BY <2>3, <3>2 DEF SendFails, TypeOK
      <3>4. QED BY <2>3, <3>1, <3>3, <1>a, <1>b DEF SendFails, Reads, Fault, Inside, TypeOK, users
    <2>4. QED BY <1>6, <2>1, <2>2, <2>3 DEF JobFault
  <1>7. CASE Crash
    BY <1>7, <1>d DEF Crash
  <1>8. QED BY <1>1, <1>2, <1>3, <1>4, <1>5, <1>6, <1>7 DEF Next

(* The type invariant of UserWatchers, whatever the constants.             *)
THEOREM TypeCorrect == Spec => []TypeOK
  <1>1. QED BY TypeInit, TypeStep, PTL DEF Spec

-----------------------------------------------------------------------------
(* The steps by what they do to the clock, the rows and the jobs.          *)
Still == posted' = posted /\ since' = since /\ notified' = notified
         /\ raced' = raced /\ unwanted' = unwanted

Quiet ==
    /\ Still /\ now <= now' /\ alive' \subseteq alive
    /\ work' = work /\ sent' = sent /\ lost' = lost

Posting ==
    /\ \E p \in Posts : posted[p] = 0 /\ posted' = [posted EXCEPT ![p] = now]
    /\ UNCHANGED <<now, since, notified, alive, work, sent, lost, raced, unwanted>>

Starting(c) ==
    /\ Still /\ now' = now /\ alive' = alive /\ sent' = sent /\ lost' = lost
    /\ work[c].at = "idle" /\ work' = [work EXCEPT ![c] = Started]

Moving(c) ==
    /\ Still /\ now' = now /\ alive' \subseteq alive /\ sent' = sent /\ lost' = lost
    /\ work[c].at \in {"about", "unwatch", "remove"}
    /\ \E a \in {"about", "unwatch", "remove", "posts"} :
          work' = [work EXCEPT ![c] = Moved(work[c], a)]

Fetching(c) ==
    /\ Still /\ now' = now /\ alive' = alive /\ sent' = sent /\ lost' = lost
    /\ work[c].at = "posts" /\ Onward(c, Fetched(work[c]))

Ending(c) ==
    /\ Still /\ now' = now /\ alive' = alive /\ sent' = sent
    /\ work' = [work EXCEPT ![c] = Idle]
    /\ \/ work[c].at \notin {"count", "send"} /\ lost' = lost
       \/ lost' = lost \cup Forsaken(work[c])

Pushing(c) ==
    LET wp == <<work[c].hit, work[c].post>> IN
    /\ Still /\ now' = now /\ alive' = alive
    /\ work[c].at = "send" /\ AfterSend(c, work[c])
    /\ \/ sent' = sent \cup {wp} /\ lost' = lost
       \/ lost' = lost \cup {wp} /\ sent' = sent

Counting(c, w) == Count(c, w)

Wiping ==
    /\ Still /\ now' = now /\ alive' = alive /\ sent' = sent
    /\ work' = [b \in Consumers |-> Idle]
    /\ lost' = lost \cup UNION {Forsaken(work[b]) : b \in Consumers}

LEMMA Kinds ==
  ASSUME TypeOK, [Next]_vars
  PROVE  \/ Quiet \/ Posting \/ Wiping
         \/ \E c \in Consumers : \/ Starting(c) \/ Moving(c) \/ Fetching(c) \/ Ending(c)
                                 \/ Pushing(c) \/ \E w \in Watchers : Counting(c, w)
  <1>0. now \in Nat
    BY UserWatchersAssumption DEF TypeOK
  <1>1. CASE UNCHANGED vars
    BY <1>0, <1>1 DEF vars, users, rows, history, Quiet, Still
  <1>2. CASE Tick
    BY <1>0, <1>2 DEF Tick, users, rows, history, Quiet, Still
  <1>3. CASE Post
    BY <1>3 DEF Post, users, rows, history, Posting
  <1>4. CASE UserStep
    <2>1. UserEdits /\ alive' \subseteq alive
      BY <1>4 DEF UserStep, TurnFollowers, Edit, DeleteByUser, DeleteDevice, Settings
    <2>2. QED BY <1>0, <2>1 DEF UserEdits, history, Quiet, Still
  <1>5. ASSUME NEW c \in Consumers, JobStep(c)
        PROVE  \/ Starting(c) \/ Moving(c) \/ Fetching(c) \/ Pushing(c)
               \/ \E w \in Watchers : Counting(c, w)
    <2>1. CASE Start(c)
      <3>1. Becomes(c, Started)
        BY <2>1, Zenon DEF Start, Started
      <3>2. QED BY <2>1, <3>1 DEF Start, Starting, Becomes, Reads, Inside, Calm, Still
    <2>2. CASE About(c)
      <3>1. PICK a \in {"posts", "unwatch"} : Becomes(c, Moved(work[c], a))
        BY <2>2, Zenon DEF About, Moved
      <3>2. QED BY <2>2, <3>1 DEF About, Moving, Becomes, Reads, Inside, Calm, Still
    <2>3. CASE Unwatch(c) \/ Remove(c)
      <3>1. PICK a \in {"remove", "posts"} : Becomes(c, Moved(work[c], a))
        BY <2>3, Zenon DEF Unwatch, Remove, Moved
      <3>2. QED BY <2>3, <3>1 DEF Unwatch, Remove, Moving, Becomes, Inside, Calm, Still, history
    <2>4. CASE FetchPosts(c)
      <3>1. Onward(c, Fetched(work[c]))
        BY <2>4, Zenon DEF FetchPosts, Fetched
      <3>2. QED BY <2>4, <3>1 DEF FetchPosts, Fetching, Reads, Inside, Calm, Still
    <2>5. CASE Send(c)
      BY <2>5 DEF Send, Pushing, Inside, Calm, Still
    <2>6. CASE \E w \in Watchers : Count(c, w)
      BY <2>6 DEF Counting
    <2>7. QED BY <1>5, <2>1, <2>2, <2>3, <2>4, <2>5, <2>6 DEF JobStep
  <1>6. ASSUME NEW c \in Consumers, JobFault(c)
        PROVE  Wiping \/ Ending(c) \/ Pushing(c)
    <2>1. CASE Panic(c)
      BY <2>1 DEF Panic, Wiping, Reads, Inside, Still
    <2>2. CASE CallFails(c) \/ CountFails(c)
      BY <2>2 DEF CallFails, CountFails, Ending, Becomes, Reads, Inside, Still
    <2>3. CASE SendFails(c)
      BY <2>3 DEF SendFails, Pushing, Reads, Inside, Still
    <2>4. QED BY <1>6, <2>1, <2>2, <2>3 DEF JobFault
  <1>7. CASE Crash
    BY <1>7 DEF Crash, Wiping, Reads, Inside, Still
  <1>8. QED BY <1>1, <1>2, <1>3, <1>4, <1>5, <1>6, <1>7 DEF Next

-----------------------------------------------------------------------------
(* The strengthening.  The times of the rows and of the posts are past.    *)
Past == /\ \A w \in Watchers : notified[w] <= now
        /\ \A p \in Posts : posted[p] <= now

(* A job's listing and copies are past as well; it has in its plan all the *)
(* listing still holds for its watchers, but for what counts have hidden;  *)
(* and the watcher in hand has been counted.                               *)
Sound(j) ==
    /\ j.listed <= now
    /\ \A w \in j.ws : j.seen[w] <= notified[w]
    /\ j.at \in {"count", "send"} =>
        /\ j.post \notin j.posts
        /\ \A q \in j.posts \cup {j.post} : 0 < posted[q] /\ posted[q] < j.listed
        /\ \A w \in j.ws \cap alive, p \in Posts :
              0 < posted[p] /\ posted[p] < j.listed /\ w \in Eligible(j, p)
              /\ ~ Hidden(<<w, p>>) => <<w, p>> \in Plan(j)
    /\ j.at = "send" /\ j.hit \in alive => notified[j.hit] > posted[j.post]

(* A post that was pushed is hidden from later jobs.                       *)
SentIsHidden ==
    \A w \in Watchers, p \in Posts :
       <<w, p>> \in sent => posted[p] # 0 /\ (w \in alive => Hidden(<<w, p>>))

(* A job whose copy of a watcher is fresh does not push what was pushed,   *)
Fresh(j) ==
    \A w \in j.ws \ j.stale, p \in Posts :
       <<w, p>> \in sent =>
          IF j.at \in {"count", "send"} THEN <<w, p>> \notin Plan(j)
          ELSE j.at # "idle" => j.seen[w] > posted[p]

(* ... nor what another job is about to push.                              *)
Apart(i, j) ==
    (i.at = "send" /\ j.at # "idle" /\ i.hit \in j.ws \ j.stale)
    => j.seen[i.hit] > posted[i.post]

IInv ==
    /\ Past
    /\ \A c \in Consumers : Sound(work[c]) /\ Fresh(work[c])
    /\ SentIsHidden
    /\ \A b, c \in Consumers : b # c => Apart(work[b], work[c])


LEMMA PlanSame ==
  ASSUME NEW j, posted' = posted, since' = since
  PROVE  /\ \A p : Eligible(j, p)' = Eligible(j, p)
         /\ Plan(j)' = Plan(j)
         /\ Ahead(j)' = Ahead(j)
  <1>1. \A p : Eligible(j, p)' = Eligible(j, p)
    BY DEF Eligible
  <1>2. Ahead(j)' = Ahead(j)
    BY <1>1 DEF Ahead
  <1>3. Plan(j)' = Plan(j)
    BY DEF Plan, Eligible
  <1>4. QED BY <1>1, <1>2, <1>3

(* A job that stays as it is stays sound when rows go and times advance.   *)
LEMMA SoundStays ==
  ASSUME TypeOK, TypeOK', NEW j \in Jobs, JobOK(j), Sound(j),
         posted' = posted, since' = since, alive' \subseteq alive, now <= now',
         \A w \in Watchers : notified[w] <= notified'[w]
  PROVE  Sound(j)'
  <1>1. /\ now \in Nat /\ now' \in Nat /\ j.listed \in Nat /\ j.ws \subseteq Watchers
        /\ \A w \in Watchers : notified[w] \in Nat /\ notified'[w] \in Nat /\ j.seen[w] \in Nat
        /\ \A p \in Posts : posted[p] \in Nat
        /\ alive \subseteq Watchers
    BY UserWatchersAssumption DEF TypeOK, Jobs
  <1>2. j.listed <= now' /\ \A w \in j.ws : j.seen[w] <= notified'[w]
    BY <1>1 DEF Sound
  <1>3. \A w \in Watchers, p \in Posts : Hidden(<<w, p>>) => Hidden(<<w, p>>)'
    BY <1>1 DEF Hidden
  <1>4. /\ \A p : Eligible(j, p)' = Eligible(j, p)
        /\ Plan(j)' = Plan(j)
    BY PlanSame
  <1>5. ASSUME j.at \in {"count", "send"}
        PROVE  \A w \in j.ws \cap alive', p \in Posts :
                  0 < posted[p] /\ posted[p] < j.listed /\ w \in Eligible(j, p)
                  /\ ~ Hidden(<<w, p>>)' => <<w, p>> \in Plan(j)
    BY <1>1, <1>3, <1>5 DEF Sound
  <1>6. ASSUME j.at = "send", j.hit \in alive' PROVE notified'[j.hit] > posted[j.post]
    <2>1. j.hit \in Watchers /\ j.post \in Posts /\ notified[j.hit] > posted[j.post]
      BY <1>1, <1>6 DEF Sound, JobOK
    <2>2. QED BY <1>1, <2>1
  <1>7. QED BY <1>2, <1>4, <1>5, <1>6 DEF Sound

LEMMA IdleSound == ASSUME TypeOK PROVE Sound(Idle)
  BY UserWatchersAssumption DEF Sound, Idle, TypeOK

LEMMA StartedSound == ASSUME TypeOK PROVE Sound(Started)
  BY StartedOK, UserWatchersAssumption DEF Sound, TypeOK, Selected

LEMMA MovedSound ==
  ASSUME NEW j \in Jobs, Sound(j), NEW a \in {"about", "unwatch", "remove", "posts"}
  PROVE  Sound(Moved(j, a))
  BY MovedOK DEF Sound

(* Onward keeps in the plan what it had ahead.                             *)
LEMMA OnwardSound ==
  ASSUME TypeOK, NEW j \in Jobs, j.stale \subseteq j.ws,
         j.listed <= now, \A w \in j.ws : j.seen[w] <= notified[w],
         \A q \in j.posts : 0 < posted[q] /\ posted[q] < j.listed,
         \A w \in j.ws \cap alive, p \in Posts :
            0 < posted[p] /\ posted[p] < j.listed /\ w \in Eligible(j, p)
            /\ ~ Hidden(<<w, p>>) => p \in j.posts,
         NEW p \in Ahead(j)
  PROVE  Sound(Come(j, p, Ahead(j) \ {p}))
  <1> DEFINE k == Come(j, p, Ahead(j) \ {p})
  <1>1. p \in j.posts /\ p \in Posts /\ Ahead(j) \in SUBSET Posts /\ Ahead(j) \subseteq j.posts
    BY DEF Ahead, Jobs
  <1>2. /\ k \in Jobs /\ k.at = "count" /\ k.post = p /\ k.hit = NoWatcher
        /\ k.posts = Ahead(j) \ {p} /\ k.ws = j.ws /\ k.seen = j.seen /\ k.listed = j.listed
        /\ k.notifs = Eligible(j, p)
        /\ \A q : Eligible(k, q) = Eligible(j, q)
    BY <1>1, ComeOK
  <1>3. JobOK(k)
    BY ComeJobOK
  <1>4. ASSUME NEW w \in k.ws \cap alive, NEW q \in Posts,
               0 < posted[q], posted[q] < k.listed, w \in Eligible(k, q), ~ Hidden(<<w, q>>)
        PROVE  <<w, q>> \in Plan(k)
    <2>1. q \in j.posts /\ w \in Eligible(j, q)
      BY <1>2, <1>4
    <2>2. q \in Ahead(j)
      BY <2>1 DEF Ahead
    <2>3. (q = k.post /\ w \in k.notifs) \/ (q \in k.posts /\ w \in Eligible(k, q))
      BY <1>2, <2>1, <2>2
    <2>4. QED BY <1>2, <1>3, <2>3, PlanIs
  <1>5. QED BY <1>1, <1>2, <1>4 DEF Sound

LEMMA FetchedSound ==
  ASSUME TypeOK, NEW j \in Jobs, JobOK(j), Sound(j), NEW p \in Ahead(Fetched(j))
  PROVE  Sound(Come(Fetched(j), p, Ahead(Fetched(j)) \ {p}))
  <1> DEFINE k == Fetched(j)
  <1>1. /\ k \in Jobs /\ k.ws = j.ws /\ k.seen = j.seen /\ k.stale = j.stale
        /\ k.listed = now /\ k.posts = Listed
    BY FetchedOK
  <1>2. \A q \in Posts : posted[q] \in Nat
    BY UserWatchersAssumption DEF TypeOK
  <1>3. \A q \in k.posts : 0 < posted[q] /\ posted[q] < k.listed
    BY <1>1, <1>2 DEF Listed
  <1>4. \A q \in Posts : 0 < posted[q] /\ posted[q] < k.listed => q \in k.posts
    BY <1>1, <1>2 DEF Listed
  <1>5. k.stale \subseteq k.ws /\ k.listed <= now /\ \A w \in k.ws : k.seen[w] <= notified[w]
    BY <1>1, UserWatchersAssumption DEF JobOK, Sound, TypeOK
  <1> HIDE DEF k
  <1>6. \A q \in Ahead(k) : Sound(Come(k, q, Ahead(k) \ {q}))
    BY <1>1, <1>3, <1>4, <1>5, OnwardSound
  <1>7. QED BY <1>6 DEF k

(* AfterSend drops from the plan only the watcher in hand, for whom its    *)
(* count has hidden the post.                                              *)
LEMMA AfterSendSound ==
  ASSUME TypeOK, NEW j \in Jobs, JobOK(j), Sound(j), j.at = "send"
  PROVE  /\ Sound(Through(j))
         /\ j.notifs = {j.hit} => \A p \in Ahead(j) : Sound(Come(j, p, Ahead(j) \ {p}))
  <1>1. /\ j.hit \in Watchers /\ j.hit \in j.notifs /\ j.post \in Posts /\ j.post \notin j.posts
        /\ j.hit \in alive => Hidden(<<j.hit, j.post>>)
    BY DEF JobOK, Sound, Jobs, Hidden
  <1>2. ASSUME NEW w \in j.ws \cap alive, NEW q \in Posts,
               0 < posted[q], posted[q] < j.listed, w \in Eligible(j, q), ~ Hidden(<<w, q>>)
        PROVE  \/ q = j.post /\ w \in j.notifs \ {j.hit}
               \/ q \in j.posts
    <2>1. <<w, q>> \in Plan(j)
      BY <1>2 DEF Sound
    <2>2. (q = j.post /\ w \in j.notifs) \/ q \in j.posts
      BY <2>1, PlanIs
    <2>3. QED BY <1>1, <1>2, <2>2
  <1>3. Sound(Through(j))
    <2> DEFINE k == Through(j)
    <2>1. /\ k \in Jobs /\ k.at = "count" /\ k.hit = NoWatcher /\ k.ws = j.ws
          /\ k.seen = j.seen /\ k.listed = j.listed /\ k.posts = j.posts /\ k.post = j.post
          /\ k.notifs = j.notifs \ {j.hit}
          /\ \A q : Eligible(k, q) = Eligible(j, q)
      BY ThroughOK
    <2>2. ASSUME NEW w \in k.ws \cap alive, NEW q \in Posts,
                 0 < posted[q], posted[q] < k.listed, w \in Eligible(k, q), ~ Hidden(<<w, q>>)
          PROVE  <<w, q>> \in Plan(k)
      <3>1. (q = k.post /\ w \in k.notifs) \/ (q \in k.posts /\ w \in Eligible(k, q))
        BY <1>2, <2>1, <2>2
      <3>2. w \in Watchers
        BY <2>1 DEF Jobs
      <3>3. QED BY <3>1, <3>2 DEF Plan, Pairs
    <2>3. QED BY <2>1, <2>2 DEF Sound
  <1>4. ASSUME j.notifs = {j.hit}, NEW p \in Ahead(j)
        PROVE  Sound(Come(j, p, Ahead(j) \ {p}))
    <2>1. \A w \in j.ws \cap alive, q \in Posts :
            0 < posted[q] /\ posted[q] < j.listed /\ w \in Eligible(j, q)
            /\ ~ Hidden(<<w, q>>) => q \in j.posts
      BY <1>2, <1>4
    <2>2. /\ j.stale \subseteq j.ws /\ j.listed <= now
          /\ \A w \in j.ws : j.seen[w] <= notified[w]
          /\ \A q \in j.posts : 0 < posted[q] /\ posted[q] < j.listed
      BY DEF JobOK, Sound
    <2>3. QED BY <2>1, <2>2, OnwardSound
  <1>5. QED BY <1>3, <1>4


-----------------------------------------------------------------------------
(* The strengthening is inductive, conjunct by conjunct.                   *)
LEMMA CountIs ==
  ASSUME TypeOK, NEW c \in Consumers, NEW w \in Watchers, Counting(c, w)
  PROVE  /\ work' = [b \in Consumers |-> IF b = c THEN InHand(work[b], w)
                                         ELSE Staled(work[b], {w} \cap work[b].ws)]
         /\ work[c].at = "count" /\ w \in work[c].notifs
         /\ UNCHANGED <<now, posted, since, alive, sent, lost>>
         /\ notified' \in [Watchers -> 1..MaxTime]
         /\ \A x \in Watchers : notified'[x] = IF x = w /\ w \in alive THEN now ELSE notified[x]
  <1>1. work' = [b \in Consumers |-> IF b = c THEN InHand(work[b], w)
                                     ELSE Staled(work[b], {w} \cap work[b].ws)]
    BY Zenon DEF Counting, Count, InHand, Staled
  <1>2. UNCHANGED <<now, posted, since, alive, sent, lost>> /\ notified' = Counted(w)
        /\ work[c].at = "count" /\ w \in work[c].notifs
    BY DEF Counting, Count, Inside
  <1>3. QED BY <1>1, <1>2, UserWatchersAssumption DEF Counted, TypeOK

LEMMA PastStep ==
  ASSUME TypeOK, TypeOK', Past, [Next]_vars PROVE Past'
  <1>1. /\ now \in Nat /\ now' \in Nat
        /\ \A w \in Watchers : notified[w] \in Nat
        /\ \A p \in Posts : posted[p] \in Nat
    BY UserWatchersAssumption DEF TypeOK
  <1>2. CASE Quiet
    BY <1>1, <1>2 DEF Quiet, Still, Past
  <1>3. CASE Posting
    BY <1>1, <1>3 DEF Posting, Past, TypeOK
  <1>4. CASE Wiping
    BY <1>4 DEF Wiping, Still, Past
  <1>5. ASSUME NEW c \in Consumers, \/ Starting(c) \/ Moving(c) \/ Fetching(c)
                                    \/ Ending(c) \/ Pushing(c)
        PROVE  Past'
    BY <1>5 DEF Starting, Moving, Fetching, Ending, Pushing, Still, Past
  <1>6. ASSUME NEW c \in Consumers, NEW w \in Watchers, Counting(c, w) PROVE Past'
    BY <1>1, <1>6, CountIs DEF Past
  <1>7. QED BY <1>2, <1>3, <1>4, <1>5, <1>6, Kinds

(* The job that a step leaves to its consumer is one of those above.       *)
LEMMA Pushed ==
  ASSUME TypeOK, NEW c \in Consumers, work[c].at = "send", AfterSend(c, work[c])
  PROVE  LET j == work[c] IN
         \/ j.notifs # {j.hit} /\ work' = [work EXCEPT ![c] = Through(j)]
         \/ j.notifs = {j.hit} /\ Ahead(j) = {} /\ work' = [work EXCEPT ![c] = Idle]
         \/ /\ j.notifs = {j.hit}
            /\ \E p \in Ahead(j) : work' = [work EXCEPT ![c] = Come(j, p, Ahead(j) \ {p})]
  <1> DEFINE j == work[c]
  <1>0. j \in Jobs
    BY DEF TypeOK
  <1>1. CASE j.notifs # {j.hit}
    BY <1>1, Zenon DEF AfterSend, Through, Becomes
  <1>2. CASE j.notifs = {j.hit}
    BY <1>0, <1>2, OnwardIs DEF AfterSend, Becomes
  <1>3. QED BY <1>1, <1>2

(* ... with the rest of the plan, and with the copies unless it is over.   *)
LEMMA PlanComes ==
  ASSUME NEW j \in Jobs, j.stale \subseteq j.ws, NEW p \in Ahead(j), NEW w, NEW q
  PROVE  <<w, q>> \in Plan(Come(j, p, Ahead(j) \ {p}))
         <=> q \in j.posts /\ w \in Eligible(j, q)
  <1> DEFINE k == Come(j, p, Ahead(j) \ {p})
  <1>1. p \in j.posts /\ p \in Posts /\ Ahead(j) \in SUBSET Posts
    BY DEF Ahead, Jobs
  <1>2. /\ k \in Jobs /\ k.post = p /\ k.posts = Ahead(j) \ {p} /\ k.notifs = Eligible(j, p)
        /\ \A r : Eligible(k, r) = Eligible(j, r)
    BY <1>1, ComeOK
  <1>3. JobOK(k)
    BY ComeJobOK
  <1>4. <<w, q>> \in Plan(k) <=> \/ q = p /\ w \in Eligible(j, p)
                                 \/ q \in Ahead(j) \ {p} /\ w \in Eligible(j, q)
    BY <1>2, <1>3, PlanIs
  <1>5. QED BY <1>1, <1>4 DEF Ahead

LEMMA PlanOfIdle == \A w, q : <<w, q>> \notin Plan(Idle)
  BY DEF Plan, Idle

LEMMA PushedOK ==
  ASSUME TypeOK, NEW c \in Consumers, work[c].at = "send", Sound(work[c]),
         AfterSend(c, work[c])
  PROVE  \E k \in Jobs :
           /\ JobOK(k) /\ Sound(k) /\ work' = [work EXCEPT ![c] = k]
           /\ \/ k.at = "idle"
              \/ k.at = "count" /\ Copies(work[c], k)
           /\ \A w, q : <<w, q>> \in Plan(k) <=> /\ <<w, q>> \in Plan(work[c])
                                                 /\ ~ (w = work[c].hit /\ q = work[c].post)
  <1> DEFINE j == work[c]
  <1>1. j \in Jobs /\ JobOK(j) /\ Sound(j) /\ j.at = "send"
    BY DEF TypeOK
  <1>2. /\ j.stale \subseteq j.ws /\ j.hit \in j.notifs /\ j.post \notin j.posts
        /\ \A w, q : <<w, q>> \in Plan(j) <=> \/ q = j.post /\ w \in j.notifs
                                              \/ q \in j.posts /\ w \in Eligible(j, q)
    BY <1>1, PlanIs DEF JobOK, Sound
  <1>3. CASE j.notifs # {j.hit} /\ work' = [work EXCEPT ![c] = Through(j)]
    <2> DEFINE k == Through(j)
    <2>1. j.notifs \ {j.hit} # {}
      BY <1>2, <1>3
    <2>2. /\ k \in Jobs /\ k.at = "count" /\ Copies(j, k) /\ k.posts = j.posts
          /\ k.post = j.post /\ k.notifs = j.notifs \ {j.hit}
          /\ \A q : Eligible(k, q) = Eligible(j, q)
      BY <1>1, ThroughOK DEF Copies
    <2>3. JobOK(k)
      BY <1>1, <2>1, ThroughOK, UserWatchersAssumption DEF JobOK
    <2>4. Sound(k)
      BY <1>1, AfterSendSound
    <2>5. \A w, q : <<w, q>> \in Plan(k) <=> \/ q = j.post /\ w \in j.notifs \ {j.hit}
                                             \/ q \in j.posts /\ w \in Eligible(j, q)
      BY <2>2, <2>3, PlanIs
    <2>6. \A w, q : <<w, q>> \in Plan(k) <=> /\ <<w, q>> \in Plan(j)
                                             /\ ~ (w = j.hit /\ q = j.post)
      BY <1>2, <2>5
    <2> HIDE DEF k
    <2>7. QED BY <1>3, <2>2, <2>3, <2>4, <2>6 DEF k
  <1>4. CASE j.notifs = {j.hit} /\ Ahead(j) = {} /\ work' = [work EXCEPT ![c] = Idle]
    <2>1. \A w, q : ~ (q \in j.posts /\ w \in Eligible(j, q))
      BY <1>4 DEF Ahead
    <2>2. Idle \in Jobs /\ JobOK(Idle) /\ Sound(Idle) /\ Idle.at = "idle"
      BY IdleOK, IdleSound DEF JobOK, Idle
    <2>3. \A w : w \in j.notifs <=> w = j.hit
      BY <1>4
    <2>4. \A w, q : <<w, q>> \in Plan(Idle) <=> /\ <<w, q>> \in Plan(j)
                                                /\ ~ (w = j.hit /\ q = j.post)
      BY <1>2, <2>1, <2>3, PlanOfIdle, Zenon
    <2>5. QED BY <1>4, <2>2, <2>4
  <1>5. CASE /\ j.notifs = {j.hit}
             /\ \E p \in Ahead(j) : work' = [work EXCEPT ![c] = Come(j, p, Ahead(j) \ {p})]
    <2>1. PICK p \in Ahead(j) : work' = [work EXCEPT ![c] = Come(j, p, Ahead(j) \ {p})]
      BY <1>5
    <2> DEFINE k == Come(j, p, Ahead(j) \ {p})
    <2>2. JobOK(k) /\ k \in Jobs /\ Copies(j, k)
      BY <1>1, <1>2, ComeJobOK DEF JobOK
    <2>3. k.at = "count"
      BY <1>1, ComeOK DEF Ahead, Jobs
    <2>4. Sound(k)
      BY <1>1, <1>5, AfterSendSound
    <2>5. \A w, q : <<w, q>> \in Plan(k) <=> q \in j.posts /\ w \in Eligible(j, q)
      BY <1>1, <1>2, PlanComes
    <2>6. \A w, q : <<w, q>> \in Plan(k) <=> /\ <<w, q>> \in Plan(j)
                                             /\ ~ (w = j.hit /\ q = j.post)
      <3>1. \A w : w \in j.notifs <=> w = j.hit
        BY <1>5
      <3>2. QED BY <1>2, <2>5, <3>1, Zenon
    <2> HIDE DEF k
    <2>7. QED BY <2>1, <2>2, <2>3, <2>4, <2>6 DEF k
  <1>6. QED BY <1>3, <1>4, <1>5, Pushed

LEMMA FetchingOK ==
  ASSUME TypeOK, NEW c \in Consumers, Sound(work[c]), Onward(c, Fetched(work[c]))
  PROVE  \E k \in Jobs :
           /\ JobOK(k) /\ Sound(k) /\ work' = [work EXCEPT ![c] = k]
           /\ \/ k.at = "idle"
              \/ /\ k.at = "count"
                 /\ k.ws = work[c].ws /\ k.seen = work[c].seen /\ k.stale = work[c].stale
           /\ \A w, q : <<w, q>> \in Plan(k) => w \in Eligible(work[c], q)
  <1> DEFINE j == work[c]
             f == Fetched(j)
  <1>1. j \in Jobs /\ JobOK(j) /\ Sound(j)
    BY DEF TypeOK
  <1>2. /\ f \in Jobs /\ f.stale \subseteq f.ws /\ f.ws = j.ws /\ f.seen = j.seen
        /\ f.stale = j.stale /\ \A q : Eligible(f, q) = Eligible(j, q)
    BY <1>1, FetchedOK DEF JobOK
  <1>3. CASE work' = [work EXCEPT ![c] = Idle]
    <2>1. Idle \in Jobs /\ JobOK(Idle) /\ Sound(Idle) /\ Idle.at = "idle"
      BY IdleOK, IdleSound DEF JobOK, Idle
    <2>2. QED BY <1>3, <2>1, PlanOfIdle
  <1>4. CASE \E p \in Ahead(f) : work' = [work EXCEPT ![c] = Come(f, p, Ahead(f) \ {p})]
    <2>1. PICK p \in Ahead(f) : work' = [work EXCEPT ![c] = Come(f, p, Ahead(f) \ {p})]
      BY <1>4
    <2> DEFINE k == Come(f, p, Ahead(f) \ {p})
    <2>2. JobOK(k) /\ k \in Jobs /\ Copies(f, k)
      BY <1>2, ComeJobOK DEF JobOK
    <2>3. k.at = "count"
      BY <1>2, ComeOK DEF Ahead, Jobs
    <2>4. Sound(k)
      BY <1>1, FetchedSound
    <2>5. \A w, q : <<w, q>> \in Plan(k) => w \in Eligible(j, q)
      BY <1>2, PlanComes
    <2> HIDE DEF k, f
    <2>6. QED BY <1>2, <2>1, <2>2, <2>3, <2>4, <2>5 DEF k, Copies
  <1>5. QED BY <1>2, <1>3, <1>4, OnwardIs DEF Becomes

LEMMA SoundStep ==
  ASSUME TypeOK, TypeOK', IInv, [Next]_vars
  PROVE  \A c \in Consumers : Sound(work[c])'
  <1>1. /\ now \in Nat /\ now' \in Nat
        /\ \A w \in Watchers : notified[w] \in Nat
        /\ \A p \in Posts : posted[p] \in Nat
        /\ \A c \in Consumers : work[c] \in Jobs /\ JobOK(work[c]) /\ Sound(work[c])
    BY UserWatchersAssumption DEF TypeOK, IInv
  <1>2. ASSUME Still, now <= now', alive' \subseteq alive, NEW j \in Jobs, JobOK(j), Sound(j)
        PROVE  Sound(j)'
    BY <1>1, <1>2, SoundStays DEF Still
  <1>3. ASSUME Still, now' = now, alive' \subseteq alive, NEW c \in Consumers,
               NEW k \in Jobs, JobOK(k), Sound(k), work' = [work EXCEPT ![c] = k]
        PROVE  \A b \in Consumers : Sound(work[b])'
    <2>1. Sound(k)'
      BY <1>1, <1>2, <1>3
    <2>2. work'[c] = k /\ \A b \in Consumers \ {c} : work'[b] = work[b]
      BY <1>3 DEF TypeOK
    <2>3. Sound(work[c])'
      BY <2>1, <2>2 DEF Sound, Plan, Eligible
    <2>4. ASSUME NEW b \in Consumers \ {c} PROVE Sound(work[b])'
      <3>1. \A j \in Jobs : JobOK(j) /\ Sound(j) => Sound(j)'
        BY <1>1, <1>2, <1>3
      <3>2. QED BY <1>1, <2>2, <3>1 DEF Sound, Plan, Eligible
    <2>5. QED BY <2>3, <2>4
  <1>4. CASE Quiet
    <2>1. \A j \in Jobs : JobOK(j) /\ Sound(j) => Sound(j)'
      BY <1>2, <1>4 DEF Quiet
    <2>2. QED BY <1>1, <1>4, <2>1 DEF Quiet, Sound, Plan, Eligible
  <1>5. CASE Posting
    <2>1. PICK p \in Posts : posted[p] = 0 /\ posted' = [posted EXCEPT ![p] = now]
      BY <1>5 DEF Posting
    <2>2. UNCHANGED <<now, since, notified, alive, work>>
      BY <1>5 DEF Posting
    <2>3. posted'[p] = now /\ \A q \in Posts \ {p} : posted'[q] = posted[q]
      BY <2>1 DEF TypeOK
    <2>4. ASSUME NEW c \in Consumers PROVE Sound(work[c])'
      <3> DEFINE j == work[c]
      <3>1. /\ j \in Jobs /\ JobOK(j) /\ Sound(j) /\ j.listed \in Nat /\ j.posts \subseteq Posts
            /\ j.ws \subseteq Watchers
        BY <1>1, UserWatchersAssumption DEF Jobs
      <3>2. \A q \in Posts : posted[q] > 0 => /\ q # p /\ posted'[q] = posted[q]
                                             /\ Eligible(j, q)' = Eligible(j, q)
        BY <2>1, <2>2, <2>3, <1>1 DEF Eligible
      <3>3. \A w, q : <<w, q>> \in Plan(j) => <<w, q>> \in Plan(j)'
        <4>1. ASSUME NEW w, NEW q, <<w, q>> \in Plan(j)
              PROVE  \/ q = j.post /\ w \in j.notifs
                     \/ q \in j.posts /\ w \in Eligible(j, q)' /\ <<w, q>> \in Pairs
          <5>1. j.at \in {"count", "send"}
            BY <3>1, <4>1, PlanIs DEF JobOK
          <5>2. \A r \in j.posts : posted[r] > 0 /\ r \in Posts
            BY <3>1, <5>1 DEF Sound
          <5>3. QED BY <3>1, <3>2, <4>1, <5>2, PlanIs DEF Pairs
        <4>2. QED BY <2>2, <4>1 DEF Plan
      <3>4. ASSUME j.at \in {"count", "send"},
                   NEW w \in j.ws \cap alive, NEW q \in Posts,
                   0 < posted'[q], posted'[q] < j.listed, w \in Eligible(j, q)',
                   ~ Hidden(<<w, q>>)'
            PROVE  <<w, q>> \in Plan(j)'
        <4>1. q # p
          BY <2>3, <3>1, <3>4, <1>1 DEF Sound
        <4>2. posted'[q] = posted[q] /\ 0 < posted[q] /\ posted[q] < j.listed
              /\ w \in Eligible(j, q) /\ ~ Hidden(<<w, q>>)
          BY <2>2, <2>3, <3>2, <3>4, <4>1 DEF Hidden
        <4>3. <<w, q>> \in Plan(j)
          BY <3>1, <3>4, <4>2 DEF Sound
        <4>4. QED BY <3>3, <4>3
      <3>5. j.listed <= now /\ \A w \in j.ws : j.seen[w] <= notified[w]
        BY <3>1 DEF Sound
      <3>6. ASSUME j.at \in {"count", "send"}
            PROVE  /\ j.post \notin j.posts
                   /\ \A q \in j.posts \cup {j.post} : 0 < posted'[q] /\ posted'[q] < j.listed
        BY <3>1, <3>2, <3>6 DEF Sound, JobOK
      <3>7. ASSUME j.at = "send", j.hit \in alive PROVE notified[j.hit] > posted'[j.post]
        BY <3>1, <3>2, <3>7 DEF Sound, JobOK
      <3>8. QED BY <2>2, <3>4, <3>5, <3>6, <3>7 DEF Sound
    <2>5. QED BY <2>4
  <1>6. CASE Wiping
    <2>1. Sound(Idle)'
      BY <1>1, <1>2, <1>6, IdleOK, IdleSound DEF Wiping, JobOK
    <2>2. QED BY <1>6, <2>1 DEF Wiping, Sound, Plan, Eligible
  <1>7. ASSUME NEW c \in Consumers, Starting(c) PROVE \A b \in Consumers : Sound(work[b])'
    <2>1. Started \in Jobs /\ JobOK(Started) /\ Sound(Started)
      BY StartedOK, StartedSound, UserWatchersAssumption DEF JobOK
    <2>2. QED BY <1>3, <1>7, <2>1 DEF Starting
  <1>8. ASSUME NEW c \in Consumers, Moving(c) PROVE \A b \in Consumers : Sound(work[b])'
    <2>1. PICK a \in {"about", "unwatch", "remove", "posts"} :
             work' = [work EXCEPT ![c] = Moved(work[c], a)]
      BY <1>8 DEF Moving
    <2>2. work[c] \in Jobs /\ JobOK(work[c]) /\ Sound(work[c])
          /\ work[c].at \notin {"count", "send"}
      BY <1>1, <1>8 DEF Moving
    <2>3. Moved(work[c], a) \in Jobs /\ JobOK(Moved(work[c], a)) /\ Sound(Moved(work[c], a))
      BY <2>2, MovedOK, MovedSound
    <2>4. QED BY <1>1, <1>3, <1>8, <2>1, <2>3 DEF Moving
  <1>9. ASSUME NEW c \in Consumers, Fetching(c) PROVE \A b \in Consumers : Sound(work[b])'
    <2>1. PICK k \in Jobs : JobOK(k) /\ Sound(k) /\ work' = [work EXCEPT ![c] = k]
      BY <1>1, <1>9, FetchingOK DEF Fetching
    <2>2. QED BY <1>1, <1>3, <1>9, <2>1 DEF Fetching
  <1>10. ASSUME NEW c \in Consumers, Ending(c) PROVE \A b \in Consumers : Sound(work[b])'
    BY <1>1, <1>3, <1>10, IdleOK, IdleSound DEF Ending, JobOK
  <1>11. ASSUME NEW c \in Consumers, Pushing(c) PROVE \A b \in Consumers : Sound(work[b])'
    <2>1. PICK k \in Jobs : JobOK(k) /\ Sound(k) /\ work' = [work EXCEPT ![c] = k]
      BY <1>1, <1>11, PushedOK DEF Pushing
    <2>2. QED BY <1>1, <1>3, <1>11, <2>1 DEF Pushing
  <1>12. ASSUME NEW c \in Consumers, NEW w \in Watchers, Counting(c, w)
         PROVE  \A b \in Consumers : Sound(work[b])'
    <2>1. /\ work[c].at = "count" /\ w \in work[c].notifs
          /\ UNCHANGED <<now, posted, since, alive>>
          /\ \A x \in Watchers : notified'[x] = IF x = w /\ w \in alive THEN now ELSE notified[x]
      BY <1>12, CountIs
    <2>2. \A x \in Watchers : notified[x] <= notified'[x]
      BY <1>1, <2>1 DEF IInv, Past
    <2>3. ASSUME NEW j \in Jobs, JobOK(j), Sound(j) PROVE Sound(j)'
      BY <1>1, <2>1, <2>2, <2>3, SoundStays
    <2>4. Sound(work[c])'
      <3>1. PICK j \in Jobs : j = work[c] /\ JobOK(j) /\ Sound(j)
        BY <1>1
      <3> DEFINE k == InHand(j, w)
      <3>2. work'[c] = k
        BY <1>12, <3>1, CountIs
      <3>3. /\ k \in Jobs /\ k.at = "send" /\ k.hit = w /\ k.ws = j.ws /\ k.seen = j.seen
            /\ k.listed = j.listed /\ k.posts = j.posts /\ k.post = j.post
            /\ k.notifs = j.notifs /\ k.narrow = j.narrow
        BY InHandOK
      <3>4. j.post \in Posts /\ posted[j.post] < j.listed /\ j.listed <= now /\ j.listed \in Nat
        BY <2>1, <3>1, UserWatchersAssumption DEF JobOK, Sound, Jobs
      <3>5. w \in alive => notified'[w] > posted[j.post]
        BY <1>1, <2>1, <3>4
      <3>6. Sound(j)'
        BY <2>3, <3>1
      <3>7. j.at = "count"
        BY <2>1, <3>1
      <3> HIDE DEF k
      <3>8. Plan(k)' = Plan(j)' /\ \A q : Eligible(k, q)' = Eligible(j, q)'
        BY <3>3 DEF Plan, Eligible
      <3>9. Sound(k)'
        BY <2>1, <3>3, <3>5, <3>6, <3>7, <3>8 DEF Sound
      <3>10. QED BY <3>2, <3>9 DEF Sound, Plan, Eligible
    <2>5. ASSUME NEW b \in Consumers \ {c} PROVE Sound(work[b])'
      <3>1. PICK j \in Jobs : j = work[b] /\ JobOK(j) /\ Sound(j)
        BY <1>1
      <3> DEFINE k == Staled(j, {w} \cap j.ws)
      <3>2. work'[b] = k
        <4>1. work'[b] = Staled(work[b], {w} \cap work[b].ws)
          <5>1. work' = [a \in Consumers |-> IF a = c THEN InHand(work[a], w)
                                             ELSE Staled(work[a], {w} \cap work[a].ws)]
            BY <1>12, CountIs
          <5>2. QED BY <5>1, Zenon
        <4>2. QED BY <3>1, <4>1, Zenon
      <3>3. /\ k \in Jobs /\ k.at = j.at /\ k.hit = j.hit /\ k.ws = j.ws
            /\ k.seen = j.seen /\ k.listed = j.listed /\ k.posts = j.posts /\ k.post = j.post
            /\ k.notifs = j.notifs /\ k.narrow = j.narrow
        BY StaledOK
      <3>4. Sound(j)'
        BY <2>3, <3>1
      <3> HIDE DEF k
      <3>5. Plan(k)' = Plan(j)' /\ \A q : Eligible(k, q)' = Eligible(j, q)'
        BY <3>3 DEF Plan, Eligible
      <3>6. Sound(k)'
        BY <3>3, <3>4, <3>5 DEF Sound
      <3>7. QED BY <3>2, <3>6 DEF Sound, Plan, Eligible
    <2>6. QED BY <2>4, <2>5
  <1>13. QED BY <1>4, <1>5, <1>6, <1>7, <1>8, <1>9, <1>10, <1>11, <1>12, Kinds

LEMMA SentIsHiddenStep ==
  ASSUME TypeOK, TypeOK', IInv, [Next]_vars
  PROVE  SentIsHidden'
  <1>1. /\ now \in Nat
        /\ \A w \in Watchers : notified[w] \in Nat /\ notified[w] <= now
        /\ \A p \in Posts : posted[p] \in Nat
        /\ \A c \in Consumers : work[c] \in Jobs /\ JobOK(work[c]) /\ Sound(work[c])
        /\ SentIsHidden
    BY UserWatchersAssumption DEF TypeOK, IInv, Past
  <1>2. ASSUME Still, sent' = sent, alive' \subseteq alive PROVE SentIsHidden'
    BY <1>1, <1>2 DEF SentIsHidden, Hidden, Still
  <1>3. CASE Quiet \/ Wiping
    BY <1>2, <1>3 DEF Quiet, Wiping
  <1>4. CASE Posting
    <2>1. PICK p \in Posts : posted[p] = 0 /\ posted' = [posted EXCEPT ![p] = now]
      BY <1>4 DEF Posting
    <2>2. \A q \in Posts : posted[q] # 0 => posted'[q] = posted[q]
      BY <2>1 DEF TypeOK
    <2>3. QED BY <1>1, <1>4, <2>2 DEF SentIsHidden, Hidden, Posting
  <1>5. ASSUME NEW c \in Consumers, Starting(c) \/ Moving(c) \/ Fetching(c) \/ Ending(c)
        PROVE  SentIsHidden'
    BY <1>2, <1>5 DEF Starting, Moving, Fetching, Ending
  <1>6. ASSUME NEW c \in Consumers, Pushing(c) PROVE SentIsHidden'
    <2>1. /\ work[c].at = "send" /\ work[c].post \in Posts /\ posted[work[c].post] # 0
          /\ work[c].hit \in alive => Hidden(<<work[c].hit, work[c].post>>)
      BY <1>1, <1>6 DEF Pushing, JobOK, Sound, Hidden
    <2>2. CASE sent' = sent
      BY <1>2, <1>6, <2>2 DEF Pushing
    <2>3. CASE sent' = sent \cup {<<work[c].hit, work[c].post>>}
      BY <1>1, <1>6, <2>1, <2>3 DEF Pushing, Still, SentIsHidden, Hidden
    <2>4. QED BY <1>6, <2>2, <2>3 DEF Pushing
  <1>7. ASSUME NEW c \in Consumers, NEW w \in Watchers, Counting(c, w) PROVE SentIsHidden'
    <2>1. /\ UNCHANGED <<now, posted, alive, sent>>
          /\ \A x \in Watchers : notified'[x] = IF x = w /\ w \in alive THEN now ELSE notified[x]
      BY <1>7, CountIs
    <2>2. QED BY <1>1, <2>1 DEF SentIsHidden, Hidden
  <1>8. QED BY <1>3, <1>4, <1>5, <1>6, <1>7, Kinds

LEMMA FreshStays ==
  ASSUME NEW j, Fresh(j), posted' = posted, since' = since, sent' = sent
  PROVE  Fresh(j)'
  BY DEF Fresh, Plan, Eligible

LEMMA IdleFresh == Fresh(Idle)
  BY DEF Fresh, Idle

LEMMA FreshStep ==
  ASSUME TypeOK, TypeOK', IInv, [Next]_vars
  PROVE  \A c \in Consumers : Fresh(work[c])'
  <1>1. /\ \A w \in Watchers : notified[w] \in Nat
        /\ \A p \in Posts : posted[p] \in Nat
        /\ \A c \in Consumers : /\ work[c] \in Jobs /\ JobOK(work[c]) /\ Sound(work[c])
                                /\ Fresh(work[c])
        /\ SentIsHidden
    BY UserWatchersAssumption DEF TypeOK, IInv
  <1>2. ASSUME Still, sent' = sent, NEW c \in Consumers, NEW k, Fresh(k),
               work' = [work EXCEPT ![c] = k]
        PROVE  \A b \in Consumers : Fresh(work[b])'
    <2>1. \A b \in Consumers : Fresh(work'[b])
      BY <1>1, <1>2 DEF TypeOK
    <2>2. ASSUME NEW b \in Consumers PROVE Fresh(work[b])'
      BY <1>2, <2>1, <2>2 DEF Still, Fresh, Plan, Eligible
    <2>3. QED BY <2>2
  <1>3. CASE Quiet
    BY <1>1, <1>3 DEF Quiet, Still, Fresh, Plan, Eligible
  <1>4. CASE Wiping
    BY <1>4, IdleFresh DEF Wiping, Still, Fresh, Plan, Eligible
  <1>5. CASE Posting
    <2>1. PICK p \in Posts : posted[p] = 0 /\ posted' = [posted EXCEPT ![p] = now]
      BY <1>5 DEF Posting
    <2>2. \A q \in Posts : posted[q] # 0 => posted'[q] = posted[q]
      BY <2>1 DEF TypeOK
    <2>3. UNCHANGED <<since, sent, work>>
      BY <1>5 DEF Posting
    <2>4. ASSUME NEW c \in Consumers, NEW w \in work[c].ws \ work[c].stale, NEW q \in Posts,
                 <<w, q>> \in sent
          PROVE  IF work[c].at \in {"count", "send"} THEN <<w, q>> \notin Plan(work[c])'
                 ELSE work[c].at # "idle" => work[c].seen[w] > posted'[q]
      <3> DEFINE j == work[c]
      <3>1. w \in Watchers /\ posted[q] # 0 /\ posted'[q] = posted[q]
        BY <1>1, <2>2, <2>4 DEF Jobs, SentIsHidden
      <3>2. w \in Eligible(j, q)' <=> w \in Eligible(j, q)
        BY <2>3, <3>1 DEF Eligible
      <3>3. j.at \in {"count", "send"} => <<w, q>> \notin Plan(j)
        BY <1>1, <2>4 DEF Fresh
      <3>4. <<w, q>> \in Plan(j)' => \/ q = j.post /\ w \in j.notifs
                                     \/ q \in j.posts /\ w \in Eligible(j, q)
        BY <2>3, <3>2 DEF Plan
      <3>5. j.at \in {"count", "send"} => <<w, q>> \notin Plan(j)'
        BY <1>1, <3>3, <3>4, PlanIs
      <3>6. j.at \notin {"count", "send"} => (j.at # "idle" => j.seen[w] > posted'[q])
        BY <1>1, <2>4, <3>1 DEF Fresh
      <3>7. QED BY <3>5, <3>6
    <2>5. QED BY <2>3, <2>4 DEF Fresh
  <1>6. ASSUME NEW c \in Consumers, Starting(c) PROVE \A b \in Consumers : Fresh(work[b])'
    <2>1. \A w \in Selected, p \in Posts : <<w, p>> \in sent => notified[w] > posted[p]
      BY <1>1 DEF Selected, SentIsHidden, Hidden, TypeOK
    <2>2. Fresh(Started)
      BY <2>1, StartedOK DEF Fresh
    <2>3. QED BY <1>2, <1>6, <2>2 DEF Starting
  <1>7. ASSUME NEW c \in Consumers, Moving(c) PROVE \A b \in Consumers : Fresh(work[b])'
    <2>1. PICK a \in {"about", "unwatch", "remove", "posts"} :
             work' = [work EXCEPT ![c] = Moved(work[c], a)]
      BY <1>7 DEF Moving
    <2>2. Fresh(work[c]) /\ work[c] \in Jobs /\ work[c].at \in {"about", "unwatch", "remove"}
      BY <1>1, <1>7 DEF Moving
    <2>3. Fresh(Moved(work[c], a))
      BY <2>2, MovedOK DEF Fresh
    <2>4. QED BY <1>2, <1>7, <2>1, <2>3 DEF Moving
  <1>8. ASSUME NEW c \in Consumers, Fetching(c) PROVE \A b \in Consumers : Fresh(work[b])'
    <2>1. Sound(work[c]) /\ work[c] \in Jobs /\ Fresh(work[c]) /\ work[c].at = "posts"
      BY <1>1, <1>8 DEF Fetching
    <2>2. PICK k \in Jobs :
             /\ work' = [work EXCEPT ![c] = k]
             /\ \/ k.at = "idle"
                \/ /\ k.at = "count"
                   /\ k.ws = work[c].ws /\ k.seen = work[c].seen /\ k.stale = work[c].stale
             /\ \A w, q : <<w, q>> \in Plan(k) => w \in Eligible(work[c], q)
      BY <1>8, <2>1, FetchingOK DEF Fetching
    <2>3. ASSUME NEW w \in work[c].ws \ work[c].stale, NEW q \in Posts, <<w, q>> \in sent
          PROVE  w \notin Eligible(work[c], q)
      <3>1. work[c].seen[w] > posted[q] /\ w \in Watchers
        BY <2>1, <2>3 DEF Fresh, Jobs
      <3>2. work[c].seen[w] \in Nat /\ posted[q] \in Nat
        BY <1>1, <2>1, <3>1 DEF Jobs
      <3>3. QED BY <3>1, <3>2 DEF Eligible
    <2>4. Fresh(k)
      BY <2>2, <2>3 DEF Fresh
    <2>5. QED BY <1>2, <1>8, <2>2, <2>4 DEF Fetching
  <1>9. ASSUME NEW c \in Consumers, Ending(c) PROVE \A b \in Consumers : Fresh(work[b])'
    BY <1>2, <1>9, IdleFresh DEF Ending
  <1>10. ASSUME NEW c \in Consumers, Pushing(c) PROVE \A b \in Consumers : Fresh(work[b])'
    <2>1. PICK h, m : h = work[c].hit /\ m = work[c].post
      OBVIOUS
    <2>2. /\ Still
          /\ sent' = sent \/ sent' = sent \cup {<<h, m>>}
          /\ work[c].at = "send" /\ AfterSend(c, work[c])
      BY <1>10, <2>1 DEF Pushing
    <2>3. PICK k \in Jobs :
             /\ work' = [work EXCEPT ![c] = k]
             /\ \/ k.at = "idle"
                \/ k.at = "count" /\ Copies(work[c], k)
             /\ \A w, q : <<w, q>> \in Plan(k) <=> /\ <<w, q>> \in Plan(work[c])
                                                   /\ ~ (w = h /\ q = m)
      BY <1>1, <2>1, <2>2, PushedOK
    <2>4. /\ \A b \in Consumers \ {c} : work'[b] = work[b]
          /\ work'[c] = k
      BY <2>3 DEF TypeOK
    <2>5. ASSUME NEW w \in k.ws \ k.stale, NEW q \in Posts, <<w, q>> \in sent', k.at # "idle"
          PROVE  <<w, q>> \notin Plan(k)
      <3>1. w \in work[c].ws \ work[c].stale
        BY <2>3, <2>5 DEF Copies
      <3>2. CASE <<w, q>> \in sent
        BY <1>1, <2>2, <2>3, <3>1, <3>2 DEF Fresh
      <3>3. CASE <<w, q>> = <<h, m>>
        BY <2>3, <3>3
      <3>4. QED BY <2>2, <2>5, <3>2, <3>3
    <2>6. Fresh(work[c])'
      <3>1. \A w \in k.ws \ k.stale, q \in Posts :
               <<w, q>> \in sent' => (k.at # "idle" => k.at = "count" /\ <<w, q>> \notin Plan(k)')
        <4>1. Plan(k)' = Plan(k)
          BY <2>2, PlanSame DEF Still
        <4>2. QED BY <2>3, <2>5, <4>1
      <3>2. QED BY <2>3, <2>4, <3>1 DEF Fresh, Plan, Eligible
    <2>7. ASSUME NEW b \in Consumers \ {c} PROVE Fresh(work[b])'
      <3>1. PICK j \in Jobs : j = work[b] /\ JobOK(j) /\ Fresh(j) /\ Apart(work[c], j)
        BY <1>1 DEF IInv
      <3>2. h \in j.ws \ j.stale /\ j.at # "idle" => j.seen[h] > posted[m]
        BY <2>1, <2>2, <3>1 DEF Apart
      <3>3. h \in j.ws \ j.stale /\ j.at # "idle" => h \notin Eligible(j, m)
        <4>1. ASSUME h \in j.ws \ j.stale, j.at # "idle" PROVE h \notin Eligible(j, m)
          <5>1. h \in Watchers /\ m \in Posts
            BY <1>1, <2>1, <2>2, <4>1 DEF JobOK, Jobs
          <5>2. j.seen[h] \in Nat /\ posted[m] \in Nat
            BY <1>1, <5>1 DEF Jobs
          <5>3. QED BY <3>2, <4>1, <5>2 DEF Eligible
        <4>2. QED BY <4>1
      <3>4. h \in j.ws \ j.stale /\ j.at # "idle" => <<h, m>> \notin Plan(j)
        BY <3>1, <3>3, PlanIs
      <3>5. \A w \in j.ws \ j.stale, q \in Posts :
               <<w, q>> \in sent' =>
                  IF j.at \in {"count", "send"} THEN <<w, q>> \notin Plan(j)
                  ELSE j.at # "idle" => j.seen[w] > posted[q]
        BY <2>2, <3>1, <3>2, <3>4 DEF Fresh
      <3>6. Fresh(j)'
        <4>1. Plan(j)' = Plan(j) /\ posted' = posted
          BY <2>2, PlanSame DEF Still
        <4>2. QED BY <3>5, <4>1 DEF Fresh
      <3>7. QED BY <2>4, <3>1, <3>6 DEF Fresh, Plan, Eligible
    <2>8. QED BY <2>6, <2>7
  <1>11. ASSUME NEW c \in Consumers, NEW w \in Watchers, Counting(c, w)
         PROVE  \A b \in Consumers : Fresh(work[b])'
    <2>1. work[c].at = "count" /\ UNCHANGED <<posted, since, sent>>
      BY <1>11, CountIs
    <2>2. Fresh(work[c])'
      <3>1. PICK j \in Jobs : j = work[c] /\ Fresh(j)
        BY <1>1
      <3> DEFINE k == InHand(j, w)
      <3>2. work'[c] = k
        BY <1>11, <3>1, CountIs
      <3>3. /\ k.at = "send" /\ k.ws = j.ws /\ k.seen = j.seen /\ k.narrow = j.narrow
            /\ k.posts = j.posts /\ k.post = j.post /\ k.notifs = j.notifs /\ k.stale = j.stale
        BY InHandOK
      <3>4. j.at = "count"
        BY <2>1, <3>1
      <3> HIDE DEF k
      <3>5. Plan(k) = Plan(j)
        BY <3>3 DEF Plan, Eligible
      <3>6. Fresh(k)
        BY <3>1, <3>3, <3>4, <3>5 DEF Fresh
      <3>7. QED BY <2>1, <3>2, <3>6 DEF Fresh, Plan, Eligible
    <2>3. ASSUME NEW b \in Consumers \ {c} PROVE Fresh(work[b])'
      <3>1. PICK j \in Jobs : j = work[b] /\ Fresh(j)
        BY <1>1
      <3> DEFINE k == Staled(j, {w} \cap j.ws)
      <3>2. work'[b] = k
        <4>1. work' = [a \in Consumers |-> IF a = c THEN InHand(work[a], w)
                                           ELSE Staled(work[a], {w} \cap work[a].ws)]
          BY <1>11, CountIs
        <4>2. work'[b] = Staled(work[b], {w} \cap work[b].ws)
          BY <4>1, Zenon
        <4>3. QED BY <3>1, <4>2, Zenon
      <3>3. /\ k.at = j.at /\ k.ws = j.ws /\ k.seen = j.seen /\ k.narrow = j.narrow
            /\ k.posts = j.posts /\ k.post = j.post /\ k.notifs = j.notifs
            /\ k.stale = j.stale \cup ({w} \cap j.ws)
        BY StaledOK
      <3> HIDE DEF k
      <3>4. Plan(k) = Plan(j)
        BY <3>3 DEF Plan, Eligible
      <3>5. Fresh(k)
        BY <3>1, <3>3, <3>4 DEF Fresh
      <3>6. QED BY <2>1, <3>2, <3>5 DEF Fresh, Plan, Eligible
    <2>4. QED BY <2>2, <2>3
  <1>12. QED BY <1>3, <1>4, <1>5, <1>6, <1>7, <1>8, <1>9, <1>10, <1>11, Kinds

LEMMA ApartStep ==
  ASSUME TypeOK, TypeOK', IInv, [Next]_vars
  PROVE  \A b, c \in Consumers : b # c => Apart(work[b], work[c])'
  <1>1. /\ \A c \in Consumers : work[c] \in Jobs /\ JobOK(work[c]) /\ Sound(work[c])
        /\ \A b, c \in Consumers : b # c => Apart(work[b], work[c])
    BY DEF TypeOK, IInv
  <1>2. ASSUME posted' = posted, NEW c \in Consumers, NEW k, work' = [work EXCEPT ![c] = k],
               k.at # "send",
               \/ k.at = "idle"
               \/ /\ work[c].at # "idle"
                  /\ k.ws = work[c].ws /\ k.seen = work[c].seen /\ k.stale = work[c].stale
        PROVE  \A a, b \in Consumers : a # b => Apart(work[a], work[b])'
    <2>1. work'[c] = k /\ \A b \in Consumers \ {c} : work'[b] = work[b]
      BY <1>2 DEF TypeOK
    <2>2. QED BY <1>1, <1>2, <2>1 DEF Apart
  <1>3. CASE Quiet
    BY <1>1, <1>3 DEF Quiet, Still, Apart
  <1>4. CASE Wiping
    BY <1>4 DEF Wiping, Apart, Idle
  <1>5. CASE Posting
    <2>1. PICK p \in Posts : posted[p] = 0 /\ posted' = [posted EXCEPT ![p] = now]
      BY <1>5 DEF Posting
    <2>2. /\ \A q \in Posts : posted[q] > 0 => posted'[q] = posted[q]
          /\ work' = work
      BY <1>5, <2>1 DEF Posting, TypeOK
    <2>3. \A b \in Consumers : work[b].at = "send" => posted'[work[b].post] = posted[work[b].post]
      BY <1>1, <2>2 DEF Sound, JobOK
    <2>4. QED BY <1>1, <2>2, <2>3 DEF Apart
  <1>6. ASSUME NEW c \in Consumers, Starting(c)
        PROVE  \A a, b \in Consumers : a # b => Apart(work[a], work[b])'
    <2>1. /\ work'[c] = Started /\ \A b \in Consumers \ {c} : work'[b] = work[b]
          /\ posted' = posted
      BY <1>6 DEF Starting, Still, TypeOK
    <2>2. /\ Started.at = "about" /\ Started.ws = Selected /\ Started.seen = notified
          /\ Selected \subseteq alive
      BY StartedOK DEF Selected
    <2>3. \A a \in Consumers : work[a].at = "send" /\ work[a].hit \in Selected
                                 => notified[work[a].hit] > posted[work[a].post]
      BY <1>1, <2>2 DEF Sound
    <2>4. QED BY <1>1, <2>1, <2>2, <2>3 DEF Apart
  <1>7. ASSUME NEW c \in Consumers, Moving(c)
        PROVE  \A a, b \in Consumers : a # b => Apart(work[a], work[b])'
    <2>1. PICK a \in {"about", "unwatch", "remove", "posts"} :
             work' = [work EXCEPT ![c] = Moved(work[c], a)]
      BY <1>7 DEF Moving
    <2>2. posted' = posted /\ work[c] \in Jobs /\ work[c].at \in {"about", "unwatch", "remove"}
      BY <1>1, <1>7 DEF Moving, Still
    <2> DEFINE k == Moved(work[c], a)
    <2>3. k.at = a /\ k.ws = work[c].ws /\ k.seen = work[c].seen /\ k.stale = work[c].stale
      BY <2>2, MovedOK
    <2> HIDE DEF k
    <2>4. PICK m : m = k
      OBVIOUS
    <2>5. QED BY <1>2, <2>1, <2>2, <2>3, <2>4 DEF k
  <1>8. ASSUME NEW c \in Consumers, Fetching(c)
        PROVE  \A a, b \in Consumers : a # b => Apart(work[a], work[b])'
    <2>1. PICK k \in Jobs :
             /\ work' = [work EXCEPT ![c] = k]
             /\ \/ k.at = "idle"
                \/ /\ k.at = "count"
                   /\ k.ws = work[c].ws /\ k.seen = work[c].seen /\ k.stale = work[c].stale
      BY <1>1, <1>8, FetchingOK DEF Fetching
    <2>2. posted' = posted /\ work[c].at = "posts"
      BY <1>8 DEF Fetching, Still
    <2>3. QED BY <1>2, <2>1, <2>2
  <1>9. ASSUME NEW c \in Consumers, Ending(c)
        PROVE  \A a, b \in Consumers : a # b => Apart(work[a], work[b])'
    <2>1. Idle.at = "idle"
      BY DEF Idle
    <2>2. QED BY <1>2, <1>9, <2>1 DEF Ending, Still
  <1>10. ASSUME NEW c \in Consumers, Pushing(c)
         PROVE  \A a, b \in Consumers : a # b => Apart(work[a], work[b])'
    <2>1. PICK k \in Jobs :
             /\ work' = [work EXCEPT ![c] = k]
             /\ \/ k.at = "idle"
                \/ k.at = "count" /\ Copies(work[c], k)
      BY <1>1, <1>10, PushedOK DEF Pushing
    <2>2. posted' = posted /\ work[c].at = "send"
      BY <1>10 DEF Pushing, Still
    <2>3. QED BY <1>2, <2>1, <2>2 DEF Copies
  <1>11. ASSUME NEW c \in Consumers, NEW w \in Watchers, Counting(c, w)
         PROVE  \A a, b \in Consumers : a # b => Apart(work[a], work[b])'
    <2>1. posted' = posted /\ work[c].at = "count"
      BY <1>11, CountIs
    <2>2. /\ work'[c].at = "send" /\ work'[c].hit = w /\ work'[c].ws = work[c].ws
          /\ work'[c].seen = work[c].seen /\ work'[c].stale = work[c].stale
          /\ work'[c].post = work[c].post
      <3>1. work'[c] = InHand(work[c], w)
        BY <1>11, CountIs
      <3>2. QED BY <1>1, <3>1, InHandOK
    <2>3. ASSUME NEW b \in Consumers \ {c}
          PROVE  /\ work'[b].at = work[b].at /\ work'[b].hit = work[b].hit
                 /\ work'[b].ws = work[b].ws /\ work'[b].seen = work[b].seen
                 /\ work'[b].stale = work[b].stale \cup ({w} \cap work[b].ws)
                 /\ work'[b].post = work[b].post
      <3>1. PICK j \in Jobs, S \in SUBSET Watchers : j = work[b] /\ S = {w} \cap work[b].ws
        BY <1>1
      <3>2. work'[b] = Staled(j, S)
        <4>1. work' = [a \in Consumers |-> IF a = c THEN InHand(work[a], w)
                                           ELSE Staled(work[a], {w} \cap work[a].ws)]
          BY <1>11, CountIs
        <4>2. work'[b] = Staled(work[b], {w} \cap work[b].ws)
          BY <4>1, Zenon
        <4>3. QED BY <3>1, <4>2, Zenon
      <3>3. QED BY <3>1, <3>2, StaledOK
    <2>4. ASSUME NEW b \in Consumers \ {c} PROVE Apart(work[c], work[b])'
      BY <2>2, <2>3 DEF Apart
    <2>5. ASSUME NEW a \in Consumers \ {c}, NEW b \in Consumers, a # b
          PROVE  Apart(work[a], work[b])'
      <3>1. Apart(work[a], work[b])
        BY <1>1, <2>5
      <3>2. CASE b = c
        BY <2>1, <2>2, <2>3, <3>1, <3>2 DEF Apart
      <3>3. CASE b # c
        BY <2>1, <2>3, <3>1, <3>3 DEF Apart
      <3>4. QED BY <3>2, <3>3
    <2>6. QED BY <2>4, <2>5
  <1>12. QED BY <1>3, <1>4, <1>5, <1>6, <1>7, <1>8, <1>9, <1>10, <1>11, Kinds

LEMMA IInvInit == Init => TypeOK /\ IInv
  <1> SUFFICES ASSUME Init PROVE TypeOK /\ IInv
    OBVIOUS
  <1>1. TypeOK
    BY TypeInit
  <1>2. Sound(Idle) /\ Fresh(Idle)
    BY <1>1, IdleSound, IdleFresh
  <1>3. \A c \in Consumers : work[c] = Idle
    BY DEF Init
  <1>4. Past
    BY DEF Init, Past
  <1>5. SentIsHidden
    BY DEF Init, SentIsHidden
  <1>6. Apart(Idle, Idle)
    BY DEF Apart, Idle
  <1>7. QED BY <1>1, <1>2, <1>3, <1>4, <1>5, <1>6 DEF IInv

LEMMA IInvStep == TypeOK /\ IInv /\ [Next]_vars => TypeOK' /\ IInv'
  <1> SUFFICES ASSUME TypeOK, IInv, [Next]_vars PROVE TypeOK' /\ IInv'
    OBVIOUS
  <1>1. TypeOK'
    BY TypeStep
  <1>2. Past'
    BY <1>1, PastStep DEF IInv
  <1>3. /\ \A c \in Consumers : Sound(work[c])'
        /\ \A c \in Consumers : Fresh(work[c])'
        /\ SentIsHidden'
        /\ \A b, c \in Consumers : b # c => Apart(work[b], work[c])'
    BY <1>1, SoundStep, FreshStep, SentIsHiddenStep, ApartStep
  <1>4. QED BY <1>1, <1>2, <1>3 DEF IInv

LEMMA Strengthened == Spec => [](TypeOK /\ IInv)
  BY IInvInit, IInvStep, PTL DEF Spec

-----------------------------------------------------------------------------
(* A post that a job pushes again was pushed by a job that this one had    *)
(* missed: the watcher was counted after it had been read.                 *)
THEOREM OnceCorrect == Spec => NotifiedOnce
  <1>1. TypeOK /\ IInv /\ [Next]_vars
          => [\A c \in Consumers :
                Send(c) /\ <<work[c].hit, work[c].post>> \in sent
                => work[c].hit \in work[c].stale]_vars
    <2>1. ASSUME TypeOK, IInv, NEW c \in Consumers, Send(c),
                 <<work[c].hit, work[c].post>> \in sent
          PROVE  work[c].hit \in work[c].stale
      <3>1. work[c] \in Jobs /\ JobOK(work[c]) /\ Fresh(work[c]) /\ work[c].at = "send"
        BY <2>1 DEF TypeOK, IInv, Send
      <3>2. work[c].hit \in work[c].notifs /\ work[c].post \in Posts
        BY <3>1 DEF JobOK
      <3>3. /\ <<work[c].hit, work[c].post>> \in Plan(work[c])
            /\ work[c].hit \in work[c].ws
        BY <3>1, <3>2, PlanIs
      <3>4. QED BY <2>1, <3>1, <3>2, <3>3 DEF Fresh
    <2>2. QED BY <2>1
  <1>2. QED BY <1>1, Strengthened, PTL DEF Spec, NotifiedOnce

(* A pair that a push, a job or a cause accounts for.                      *)
Told(wp) == wp \in sent \cup lost \cup raced \cup unwanted
                     \cup UNION {Plan(work[c]) : c \in Consumers}

LEMMA PassedOverStep ==
  ASSUME TypeOK, TypeOK', IInv, PassedOverForCause, [Next]_vars
  PROVE  PassedOverForCause'
  <1>1. /\ now \in Nat
        /\ alive \subseteq Watchers
        /\ \A w \in Watchers : notified[w] \in Nat /\ notified[w] <= now /\ since[w] \in Nat
        /\ \A p \in Posts : posted[p] \in Nat
        /\ \A c \in Consumers : work[c] \in Jobs /\ JobOK(work[c]) /\ Sound(work[c])
        /\ \A w \in alive, p \in Posts \ Private :
             posted[p] # 0 /\ since[w] <= posted[p] /\ Hidden(<<w, p>>) => Told(<<w, p>>)
    BY UserWatchersAssumption DEF TypeOK, IInv, Past, PassedOverForCause, Told
  <1>2. ASSUME \A w \in alive', p \in Posts \ Private :
                 posted'[p] # 0 /\ since'[w] <= posted'[p] /\ Hidden(<<w, p>>)'
                 => Told(<<w, p>>)'
        PROVE  PassedOverForCause'
    BY <1>2 DEF PassedOverForCause, Told
  <1>3. ASSUME Still, alive' \subseteq alive, sent \subseteq sent', lost \subseteq lost',
               \A b \in Consumers, w \in alive, p \in Posts :
                  <<w, p>> \in Plan(work[b]) /\ Hidden(<<w, p>>) => Told(<<w, p>>)'
        PROVE  PassedOverForCause'
    <2>1. ASSUME NEW w \in alive', NEW p \in Posts \ Private,
                 posted'[p] # 0, since'[w] <= posted'[p], Hidden(<<w, p>>)'
          PROVE  Told(<<w, p>>)'
      <3>1. w \in alive /\ Hidden(<<w, p>>) /\ Told(<<w, p>>)
        BY <1>1, <1>3, <2>1 DEF Still, Hidden
      <3>2. CASE <<w, p>> \in sent \cup lost \cup raced \cup unwanted
        BY <1>3, <3>2 DEF Told, Still
      <3>3. CASE \E b \in Consumers : <<w, p>> \in Plan(work[b])
        BY <1>3, <3>1, <3>3
      <3>4. QED BY <3>1, <3>2, <3>3 DEF Told
    <2>2. QED BY <1>2, <2>1
  (* One job gives way to another, the rest stay.                          *)
  <1>4. ASSUME Still, alive' \subseteq alive, sent \subseteq sent', lost \subseteq lost',
               NEW c \in Consumers, NEW k, work' = [work EXCEPT ![c] = k],
               \A w \in alive, p \in Posts :
                  <<w, p>> \in Plan(work[c]) /\ Hidden(<<w, p>>)
                  => <<w, p>> \in sent' \cup lost' \cup Plan(k)
        PROVE  PassedOverForCause'
    <2>1. /\ \A b \in Consumers \ {c} : work'[b] = work[b]
          /\ work'[c] = k
      BY <1>4 DEF TypeOK
    <2>2. Plan(work[c])' = Plan(k)
      BY <1>4, <2>1 DEF Still, Plan, Eligible
    <2>3. ASSUME NEW b \in Consumers \ {c} PROVE Plan(work[b])' = Plan(work[b])
      BY <1>4, <2>1 DEF Still, Plan, Eligible
    <2>4. ASSUME NEW b \in Consumers, NEW w \in alive, NEW p \in Posts,
                 <<w, p>> \in Plan(work[b]), Hidden(<<w, p>>)
          PROVE  Told(<<w, p>>)'
      <3>1. CASE b = c
        BY <1>4, <2>2, <2>4, <3>1 DEF Told
      <3>2. CASE b # c
        BY <2>3, <2>4, <3>2 DEF Told
      <3>3. QED BY <3>1, <3>2
    <2>5. QED BY <1>3, <1>4, <2>4
  <1>5. CASE Quiet
    <2>1. \A b \in Consumers : Plan(work[b])' = Plan(work[b])
      BY <1>5 DEF Quiet, Still, Plan, Eligible
    <2>2. \A b \in Consumers, w \in alive, p \in Posts :
             <<w, p>> \in Plan(work[b]) => Told(<<w, p>>)'
      BY <2>1 DEF Told
    <2>3. QED BY <1>3, <1>5, <2>2 DEF Quiet
  <1>6. CASE Posting
    <2>1. PICK r \in Posts : posted[r] = 0 /\ posted' = [posted EXCEPT ![r] = now]
      BY <1>6 DEF Posting
    <2>2. /\ posted'[r] = now /\ \A q \in Posts \ {r} : posted'[q] = posted[q]
          /\ UNCHANGED <<now, since, notified, alive, work, sent, lost, raced, unwanted>>
      BY <1>6, <2>1 DEF Posting, TypeOK
    <2>3. ASSUME NEW w \in alive', NEW p \in Posts \ Private,
                 posted'[p] # 0, since'[w] <= posted'[p], Hidden(<<w, p>>)'
          PROVE  Told(<<w, p>>)'
      <3>1. p # r
        BY <1>1, <2>2, <2>3 DEF Hidden
      <3>2. w \in alive /\ w \in Watchers /\ posted'[p] = posted[p] /\ Told(<<w, p>>)
        BY <1>1, <2>2, <2>3, <3>1 DEF Hidden
      <3>3. ASSUME NEW b \in Consumers, <<w, p>> \in Plan(work[b])
            PROVE  <<w, p>> \in Plan(work[b])'
        <4>1. \/ p = work[b].post /\ w \in work[b].notifs
              \/ p \in work[b].posts /\ w \in Eligible(work[b], p)
          BY <1>1, <3>3, PlanIs
        <4>2. w \in Eligible(work[b], p) => w \in Eligible(work[b], p)'
          BY <2>2, <3>2 DEF Eligible
        <4>3. <<w, p>> \in Pairs
          BY <3>2 DEF Pairs
        <4>4. QED BY <2>2, <4>1, <4>2, <4>3 DEF Plan
      <3>4. QED BY <2>2, <3>2, <3>3 DEF Told
    <2>4. QED BY <1>2, <2>3
  <1>7. CASE Wiping
    <2>1. ASSUME NEW b \in Consumers, NEW w \in alive, NEW p \in Posts,
                 <<w, p>> \in Plan(work[b]), Hidden(<<w, p>>)
          PROVE  Told(<<w, p>>)'
      <3>1. <<w, p>> \in Forsaken(work[b])
        BY <2>1 DEF Forsaken
      <3>2. QED BY <1>7, <3>1 DEF Wiping, Told
    <2>2. QED BY <1>3, <1>7, <2>1 DEF Wiping
  <1>8. ASSUME NEW c \in Consumers, Starting(c) \/ Moving(c) \/ Fetching(c)
        PROVE  PassedOverForCause'
    <2>1. work[c].at \notin {"count", "send"}
      BY <1>8 DEF Starting, Moving, Fetching
    <2>2. \A w, p : <<w, p>> \notin Plan(work[c])
      BY <1>1, <2>1, PlanIs DEF JobOK
    <2>3. PICK k : work' = [work EXCEPT ![c] = k]
      <3>1. CASE Starting(c)
        BY <3>1 DEF Starting
      <3>2. CASE Moving(c)
        BY <3>2 DEF Moving
      <3>3. CASE Fetching(c)
        BY <1>1, <3>3, FetchingOK DEF Fetching
      <3>4. QED BY <1>8, <3>1, <3>2, <3>3
    <2>4. Still /\ alive' \subseteq alive /\ sent' = sent /\ lost' = lost
      BY <1>8 DEF Starting, Moving, Fetching
    <2>5. QED BY <1>4, <2>2, <2>3, <2>4
  <1>9. ASSUME NEW c \in Consumers, Ending(c) PROVE PassedOverForCause'
    <2>1. /\ Still /\ alive' = alive /\ sent' = sent /\ lost \subseteq lost'
          /\ work' = [work EXCEPT ![c] = Idle]
      BY <1>9 DEF Ending
    <2>2. ASSUME NEW w \in alive, NEW p \in Posts,
                 <<w, p>> \in Plan(work[c]), Hidden(<<w, p>>)
          PROVE  <<w, p>> \in sent' \cup lost' \cup Plan(Idle)
      <3>1. work[c].at \in {"count", "send"}
        BY <1>1, <2>2, PlanIs DEF JobOK
      <3>2. <<w, p>> \in Forsaken(work[c])
        BY <2>2 DEF Forsaken
      <3>3. QED BY <1>9, <3>1, <3>2 DEF Ending
    <2>3. QED BY <1>4, <2>1, <2>2
  <1>10. ASSUME NEW c \in Consumers, Pushing(c) PROVE PassedOverForCause'
    <2>1. PICK k \in Jobs :
             /\ work' = [work EXCEPT ![c] = k]
             /\ \A w, q : <<w, q>> \in Plan(k) <=> /\ <<w, q>> \in Plan(work[c])
                                                   /\ ~ (w = work[c].hit /\ q = work[c].post)
      BY <1>1, <1>10, PushedOK DEF Pushing
    <2>2. /\ Still /\ alive' = alive /\ sent \subseteq sent' /\ lost \subseteq lost'
          /\ <<work[c].hit, work[c].post>> \in sent' \cup lost'
      BY <1>10 DEF Pushing
    <2>3. \A w \in alive, p \in Posts :
             <<w, p>> \in Plan(work[c]) => <<w, p>> \in sent' \cup lost' \cup Plan(k)
      BY <2>1, <2>2
    <2>4. QED BY <1>4, <2>1, <2>2, <2>3
  (* A count hides what its job has in its plan, but for what was posted   *)
  (* since the listing or was not for the job's filter.                    *)
  <1>11. ASSUME NEW c \in Consumers, NEW x \in Watchers, Counting(c, x)
         PROVE  PassedOverForCause'
    <2>1. /\ UNCHANGED <<now, posted, since, alive, sent, lost>>
          /\ \A w \in Watchers : notified'[w] = IF w = x /\ x \in alive THEN now ELSE notified[w]
          /\ work[c].at = "count" /\ x \in work[c].notifs
      BY <1>11, CountIs
    <2>2. ASSUME NEW b \in Consumers PROVE Plan(work[b])' = Plan(work[b])
      <3>1. PICK j \in Jobs, S \in SUBSET Watchers : j = work[b] /\ S = {x} \cap work[b].ws
        BY <1>1
      <3>2. work'[b] = InHand(j, x) \/ work'[b] = Staled(j, S)
        <4>1. work' = [a \in Consumers |-> IF a = c THEN InHand(work[a], x)
                                           ELSE Staled(work[a], {x} \cap work[a].ws)]
          BY <1>11, CountIs
        <4>2. \/ work'[b] = InHand(work[b], x)
              \/ work'[b] = Staled(work[b], {x} \cap work[b].ws)
          BY <4>1, Zenon
        <4>3. QED BY <3>1, <4>2, Zenon
      <3>3. /\ work'[b].ws = j.ws /\ work'[b].seen = j.seen /\ work'[b].narrow = j.narrow
            /\ work'[b].posts = j.posts /\ work'[b].post = j.post /\ work'[b].notifs = j.notifs
        BY <3>2, InHandOK, StaledOK
      <3>4. QED BY <2>1, <3>1, <3>3 DEF Plan, Eligible
    <2>3. /\ raced \subseteq raced' /\ unwanted \subseteq unwanted'
          /\ \A p \in Posts : /\ x \in alive /\ posted[p] \in notified[x]..(now - 1)
                              => /\ posted[p] >= work[c].listed => <<x, p>> \in raced'
                                 /\ p \in Elsewhere /\ x \in work[c].narrow
                                      => <<x, p>> \in unwanted'
      BY <1>11 DEF Counting, Count
    <2>4. ASSUME NEW w \in alive', NEW p \in Posts \ Private,
                 posted'[p] # 0, since'[w] <= posted'[p], Hidden(<<w, p>>)'
          PROVE  Told(<<w, p>>)'
      <3>1. w \in alive /\ w \in Watchers /\ posted[p] # 0 /\ since[w] <= posted[p]
            /\ notified'[w] > posted[p]
        BY <1>1, <2>1, <2>4 DEF Hidden
      <3>2. CASE Hidden(<<w, p>>)
        <4>1. Told(<<w, p>>)
          BY <1>1, <3>1, <3>2
        <4>2. QED BY <2>1, <2>2, <2>3, <4>1 DEF Told
      <3>3. CASE ~ Hidden(<<w, p>>)
        <4>1. w = x /\ notified[x] <= posted[p] /\ posted[p] < now
          BY <1>1, <2>1, <3>1, <3>3 DEF Hidden
        <4>2. posted[p] \in notified[x]..(now - 1)
          BY <1>1, <3>1, <4>1
        <4>3. CASE posted[p] >= work[c].listed
          BY <2>3, <3>1, <4>1, <4>2, <4>3 DEF Told
        <4>4. CASE p \in Elsewhere /\ x \in work[c].narrow
          BY <2>3, <3>1, <4>1, <4>2, <4>4 DEF Told
        <4>5. CASE ~ (posted[p] >= work[c].listed) /\ ~ (p \in Elsewhere /\ x \in work[c].narrow)
          <5>1. x \in work[c].ws /\ work[c].listed \in Nat /\ work[c].seen[x] \in Nat
            BY <1>1, <2>1, UserWatchersAssumption DEF JobOK, Jobs, Eligible
          <5>2. work[c].seen[x] <= posted[p] /\ posted[p] < work[c].listed /\ 0 < posted[p]
            BY <1>1, <3>1, <4>1, <4>5, <5>1 DEF Sound
          <5>3. x \in Eligible(work[c], p)
            BY <3>1, <4>1, <4>5, <5>1, <5>2 DEF Eligible
          <5>4. <<x, p>> \in Plan(work[c])
            BY <1>1, <2>1, <3>1, <3>3, <4>1, <5>1, <5>2, <5>3 DEF Sound
          <5>5. QED BY <2>2, <4>1, <5>4 DEF Told
        <4>6. QED BY <4>3, <4>4, <4>5
      <3>4. QED BY <3>2, <3>3
    <2>5. QED BY <1>2, <2>4
  <1>12. QED BY <1>5, <1>6, <1>7, <1>8, <1>9, <1>10, <1>11, Kinds

(* No job's count hides a post that the job was not to push, but for the   *)
(* causes that the invariant names.                                        *)
THEOREM PassedOverCorrect == Spec => []PassedOverForCause
  <1>1. Init => PassedOverForCause
    <2>1. ASSUME Init PROVE PassedOverForCause
      <3>1. \A w \in Watchers, p \in Posts : ~ (since[w] <= posted[p] /\ notified[w] > posted[p])
        BY <2>1 DEF Init
      <3>2. QED BY <2>1, <3>1 DEF Init, PassedOverForCause, Hidden
    <2>2. QED BY <2>1
  <1>2. TypeOK /\ IInv /\ PassedOverForCause /\ TypeOK' /\ [Next]_vars => PassedOverForCause'
    BY PassedOverStep
  <1>3. QED BY <1>1, <1>2, Strengthened, PTL DEF Spec

-----------------------------------------------------------------------------
(* The user's row goes only when no watcher is left.                       *)
Emptied == \A c \in Consumers : work[c].at = "remove" => alive = {}

LEMMA OnwardAt ==
  ASSUME NEW c \in Consumers, NEW j \in Jobs, Onward(c, j)
  PROVE  \E k \in Jobs : k.at \in {"idle", "count"} /\ work' = [work EXCEPT ![c] = k]
  <1>1. CASE Becomes(c, Idle)
    <2>1. Idle \in Jobs /\ Idle.at = "idle"
      BY IdleOK DEF JobOK, Idle
    <2>2. QED BY <1>1, <2>1 DEF Becomes
  <1>2. CASE \E p \in Ahead(j) : Becomes(c, Come(j, p, Ahead(j) \ {p}))
    <2>1. PICK p \in Ahead(j) : Becomes(c, Come(j, p, Ahead(j) \ {p}))
      BY <1>2
    <2> DEFINE k == Come(j, p, Ahead(j) \ {p})
    <2>2. k \in Jobs /\ k.at = "count"
      BY ComeOK DEF Ahead, Jobs
    <2> HIDE DEF k
    <2>3. QED BY <2>1, <2>2 DEF Becomes, k
  <1>3. QED BY <1>1, <1>2, OnwardIs

LEMMA EmptiedStep ==
  ASSUME TypeOK, Emptied, NoOrphans, [Next]_vars
  PROVE  Emptied' /\ NoOrphans'
  <1> USE DEF Emptied, NoOrphans
  <1>1. CASE UNCHANGED vars \/ Tick \/ Post
    BY <1>1 DEF vars, Tick, Post, users, rows, history
  <1>2. CASE UserStep
    BY <1>2 DEF UserStep, TurnFollowers, Edit, DeleteByUser, DeleteDevice, Settings, UserEdits,
                users
  <1>3. ASSUME NEW c \in Consumers, JobStep(c) \/ JobFault(c) PROVE Emptied' /\ NoOrphans'
    <2>1. CASE Unwatch(c)
      BY <2>1 DEF Unwatch
    <2>2. CASE Remove(c)
      <3>1. alive = {} /\ alive' = {}
        BY <2>2 DEF Remove
      <3>2. QED BY <3>1
    <2>3. ASSUME alive' = alive, exists' = exists,
                 \A b \in Consumers : work'[b].at = "remove" => work[b].at = "remove"
          PROVE  Emptied' /\ NoOrphans'
      BY <2>3
    <2>4. ASSUME NEW k, k.at # "remove", work' = [work EXCEPT ![c] = k]
          PROVE  \A b \in Consumers : work'[b].at = "remove" => work[b].at = "remove"
      BY <2>4 DEF TypeOK
    <2>5. CASE Start(c)
      <3>1. work' = [work EXCEPT ![c] = Started]
        BY <2>5, Zenon DEF Start, Started, Becomes
      <3>2. QED BY <2>3, <2>4, <2>5, <3>1, StartedOK DEF Start, Reads
    <2>6. CASE About(c)
      <3>1. PICK a \in {"posts", "unwatch"} : work' = [work EXCEPT ![c] = Moved(work[c], a)]
        BY <2>6, Zenon DEF About, Moved, Becomes
      <3>2. Moved(work[c], a).at # "remove"
        BY MovedOK DEF TypeOK
      <3>3. QED BY <2>3, <2>4, <2>6, <3>1, <3>2 DEF About, Reads
    <2>7. CASE FetchPosts(c)
      <3>1. Onward(c, Fetched(work[c])) /\ Fetched(work[c]) \in Jobs
        BY <2>7, FetchedOK, Zenon DEF FetchPosts, Fetched, TypeOK
      <3>2. PICK k \in Jobs : k.at \in {"idle", "count"} /\ work' = [work EXCEPT ![c] = k]
        BY <3>1, OnwardAt
      <3>3. QED BY <2>3, <2>4, <2>7, <3>2 DEF FetchPosts, Reads
    <2>8. CASE Send(c) \/ SendFails(c)
      <3>1. work[c].at = "send" /\ AfterSend(c, work[c]) /\ work[c] \in Jobs
        BY <2>8 DEF Send, SendFails, TypeOK
      <3>2. PICK k \in Jobs : k.at \in {"idle", "count"} /\ work' = [work EXCEPT ![c] = k]
        <4>1. CASE AfterSend(c, work[c]) /\ work[c].notifs = {work[c].hit}
          BY <3>1, <4>1, OnwardAt DEF AfterSend
        <4>2. CASE work[c].notifs # {work[c].hit}
          <5>1. work' = [work EXCEPT ![c] = Through(work[c])]
            BY <3>1, <4>2, Zenon DEF AfterSend, Through, Becomes
          <5>2. Through(work[c]) \in Jobs /\ Through(work[c]).at = "count"
            BY <3>1, ThroughOK
          <5>3. QED BY <5>1, <5>2
        <4>3. QED BY <3>1, <4>1, <4>2
      <3>3. QED BY <2>3, <2>4, <2>8, <3>2 DEF Send, SendFails, Reads
    <2>9. ASSUME NEW w \in Watchers, Count(c, w) PROVE Emptied' /\ NoOrphans'
      <3>1. \A b \in Consumers : work'[b].at = IF b = c THEN "send" ELSE work[b].at
        <4>1. work' = [b \in Consumers |-> IF b = c THEN InHand(work[b], w)
                                           ELSE Staled(work[b], {w} \cap work[b].ws)]
          BY <2>9, CountIs DEF Counting
        <4>2. ASSUME NEW b \in Consumers, NEW S \in SUBSET Watchers
              PROVE  InHand(work[b], w).at = "send" /\ Staled(work[b], S).at = work[b].at
          BY InHandOK, StaledOK DEF TypeOK
        <4>3. \A b \in Consumers : {w} \cap work[b].ws \in SUBSET Watchers
          OBVIOUS
        <4>4. QED BY <4>1, <4>2, <4>3, Zenon
      <3>2. UNCHANGED <<exists, alive>>
        BY <2>9, Zenon DEF Count
      <3>3. \A b \in Consumers : work'[b].at = "remove" => work[b].at = "remove"
        <4>1. work[c].at = "count"
          BY <2>9, Zenon DEF Count
        <4>2. QED BY <3>1, <4>1
      <3>4. QED BY <2>3, <3>2, <3>3
    <2>10. CASE Panic(c) \/ CallFails(c) \/ CountFails(c)
      <3>1. Idle.at = "idle" /\ alive' = alive /\ exists' = exists
        BY <2>10 DEF Panic, CallFails, CountFails, Reads, Idle
      <3>2. CASE Panic(c)
        BY <2>3, <3>1, <3>2 DEF Panic
      <3>3. CASE CallFails(c) \/ CountFails(c)
        <4>1. work' = [work EXCEPT ![c] = Idle]
          BY <3>3 DEF CallFails, CountFails, Becomes
        <4>2. QED BY <2>3, <2>4, <3>1, <4>1
      <3>4. QED BY <2>10, <3>2, <3>3
    <2>11. QED BY <1>3, <2>1, <2>2, <2>5, <2>6, <2>7, <2>8, <2>9, <2>10 DEF JobStep, JobFault
  <1>4. CASE Crash
    BY <1>4 DEF Crash, Reads, Idle
  <1>5. QED BY <1>1, <1>2, <1>3, <1>4 DEF Next

(* A user that has no row has no watchers either.                          *)
THEOREM NoOrphansCorrect == Spec => []NoOrphans
  <1>1. Init => Emptied /\ NoOrphans
    BY DEF Init, Emptied, NoOrphans, Idle
  <1>2. TypeOK /\ Emptied /\ NoOrphans /\ [Next]_vars => Emptied' /\ NoOrphans'
    BY EmptiedStep
  <1>3. QED BY <1>1, <1>2, TypeCorrect, PTL DEF Spec
=============================================================================
