-------------------------- MODULE RedditClientProofs --------------------------
(***************************************************************************)
(* Proofs about RedditClient, for all consumers, accounts, numbers of      *)
(* retries and bounds, and for tokens that live five minutes or longer.    *)
(***************************************************************************)
EXTENDS RedditClient, TLAPS

(* A job with one field changed to a value of its type is a job.           *)
LEMMA FieldOK ==
  ASSUME NEW j \in Jobs
  PROVE  /\ \A x \in {"idle", "ask", "react", "detached"} : [j EXCEPT !.at = x] \in Jobs
         /\ \A x \in Kinds : [j EXCEPT !.kind = x] \in Jobs
         /\ \A x \in Accounts \cup {NoAccount} : [j EXCEPT !.account = x] \in Jobs
         /\ \A x \in 0..MaxTime : [j EXCEPT !.start = x] \in Jobs
         /\ \A x \in SUBSET Accounts : /\ [j EXCEPT !.listed = x] \in Jobs
                                       /\ [j EXCEPT !.late = x] \in Jobs
         /\ \A x \in [Accounts -> Nat] : [j EXCEPT !.copy = x] \in Jobs
         /\ \A x \in Calls : [j EXCEPT !.call = x] \in Jobs
         /\ \A x \in 0..Retries : [j EXCEPT !.tries = x] \in Jobs
         /\ \A x \in {"none", "revoked", "notFound", "other"} : [j EXCEPT !.error = x] \in Jobs
         /\ \A x \in Obstacles \cup {"fine", "trouble"} : [j EXCEPT !.why = x] \in Jobs
  BY DEF Jobs

LEMMA IdleOK == Idle \in Jobs /\ Idle.at = "idle"
  BY RedditClientAssumption DEF Idle, Jobs, Kinds, Calls

LEMMA AskOK ==
  ASSUME NEW j \in Jobs, NEW call \in Calls
  PROVE  /\ Ask(j, call) \in Jobs
         /\ Ask(j, call).at = "ask" /\ Ask(j, call).call = call
         /\ Ask(j, call).kind = j.kind /\ Ask(j, call).account = j.account
         /\ Ask(j, call).start = j.start /\ Ask(j, call).listed = j.listed
         /\ Ask(j, call).copy = j.copy /\ Ask(j, call).late = j.late
  <1> DEFINE k1 == [j  EXCEPT !.at = "ask"]
             k2 == [k1 EXCEPT !.call = call]
             k3 == [k2 EXCEPT !.tries = 0]
             k4 == [k3 EXCEPT !.error = "none"]
             k5 == [k4 EXCEPT !.why = "fine"]
  <1>1. k1 \in Jobs BY FieldOK
  <1> HIDE DEF k1
  <1>2. k2 \in Jobs BY FieldOK, <1>1
  <1> HIDE DEF k2
  <1>a. 0 \in 0..Retries BY RedditClientAssumption
  <1>3. k3 \in Jobs BY FieldOK, <1>2, <1>a
  <1> HIDE DEF k3
  <1>4. k4 \in Jobs BY FieldOK, <1>3
  <1> HIDE DEF k4
  <1>5. k5 \in Jobs BY FieldOK, <1>4
  <1>6. Ask(j, call) = k5
    BY DEF Ask, k1, k2, k3, k4, k5
  <1>7. /\ Ask(j, call).at = "ask" /\ Ask(j, call).call = call
        /\ Ask(j, call).kind = j.kind /\ Ask(j, call).account = j.account
        /\ Ask(j, call).start = j.start /\ Ask(j, call).listed = j.listed
        /\ Ask(j, call).copy = j.copy /\ Ask(j, call).late = j.late
    BY DEF Ask, Jobs
  <1>8. QED BY <1>5, <1>6, <1>7

(* What a job reads when it starts.                                        *)
Copied(listed) == [b \in Accounts |-> IF b \in listed THEN expires[b] ELSE 0]

LEMMA JobIs ==
  ASSUME TypeOK, NEW kind \in Kinds, NEW a \in Accounts, NEW listed \in SUBSET Accounts
  PROVE  /\ Job(kind, a, listed) \in Jobs
         /\ Job(kind, a, listed).kind = kind /\ Job(kind, a, listed).account = a
         /\ Job(kind, a, listed).start = now /\ Job(kind, a, listed).listed = listed
         /\ Job(kind, a, listed).copy = Copied(listed)
  <1> DEFINE k1 == [Idle EXCEPT !.kind = kind]
             k2 == [k1 EXCEPT !.account = a]
             k3 == [k2 EXCEPT !.start = now]
             k4 == [k3 EXCEPT !.listed = listed]
             k5 == [k4 EXCEPT !.copy = Copied(listed)]
  <1>1. k1 \in Jobs BY FieldOK, IdleOK
  <1> HIDE DEF k1
  <1>2. k2 \in Jobs BY FieldOK, <1>1
  <1> HIDE DEF k2
  <1>3. now \in 0..MaxTime /\ Copied(listed) \in [Accounts -> Nat]
    BY RedditClientAssumption DEF TypeOK, Copied
  <1>4. k3 \in Jobs BY FieldOK, <1>2, <1>3
  <1> HIDE DEF k3
  <1>5. k4 \in Jobs BY FieldOK, <1>4
  <1> HIDE DEF k4
  <1>6. k5 \in Jobs BY FieldOK, <1>5, <1>3
  <1>7. Job(kind, a, listed) = k5
    BY DEF Job, Copied, k1, k2, k3, k4, k5
  <1>8. /\ Job(kind, a, listed).kind = kind /\ Job(kind, a, listed).account = a
        /\ Job(kind, a, listed).start = now /\ Job(kind, a, listed).listed = listed
        /\ Job(kind, a, listed).copy = Copied(listed)
    BY DEF Job, Idle, Copied
  <1>9. QED BY <1>6, <1>7, <1>8

(* The end of a call.                                                      *)
LEMMA DoneOK ==
  ASSUME NEW j \in Jobs, NEW why \in Obstacles \cup {"fine", "trouble"},
         NEW error \in {"none", "revoked", "notFound", "other"}
  PROVE  /\ Done(j, why, error) \in Jobs
         /\ Done(j, why, error).at = "react"
         /\ Done(j, why, error).error = error /\ Done(j, why, error).why = why
         /\ Done(j, why, error).kind = j.kind /\ Done(j, why, error).account = j.account
         /\ Done(j, why, error).start = j.start /\ Done(j, why, error).listed = j.listed
         /\ Done(j, why, error).copy = j.copy /\ Done(j, why, error).late = j.late
         /\ Done(j, why, error).call = j.call
  <1> DEFINE k1 == [j  EXCEPT !.at = "react"]
             k0 == [k1 EXCEPT !.tries = 0]
             k2 == [k0 EXCEPT !.error = error]
             k3 == [k2 EXCEPT !.why = why]
  <1>1. k1 \in Jobs BY FieldOK
  <1> HIDE DEF k1
  <1>a. 0 \in 0..Retries BY RedditClientAssumption
  <1>0. k0 \in Jobs BY FieldOK, <1>1, <1>a
  <1> HIDE DEF k0
  <1>2. k2 \in Jobs BY FieldOK, <1>0
  <1> HIDE DEF k2
  <1>3. k3 \in Jobs BY FieldOK, <1>2
  <1>4. Done(j, why, error) = k3
    BY DEF Done, k0, k1, k2, k3
  <1>5. /\ Done(j, why, error).at = "react"
        /\ Done(j, why, error).error = error /\ Done(j, why, error).why = why
        /\ Done(j, why, error).kind = j.kind /\ Done(j, why, error).account = j.account
        /\ Done(j, why, error).start = j.start /\ Done(j, why, error).listed = j.listed
        /\ Done(j, why, error).copy = j.copy /\ Done(j, why, error).late = j.late
        /\ Done(j, why, error).call = j.call
    BY DEF Done, Jobs
  <1>6. QED BY <1>3, <1>4, <1>5

(* ... or of an attempt that is not the last.                              *)
Again(j) == [j EXCEPT !.tries = @ + 1]

LEMMA AgainOK ==
  ASSUME NEW j \in Jobs, j.tries # Retries
  PROVE  /\ Again(j) \in Jobs
         /\ Again(j).at = j.at /\ Again(j).error = j.error /\ Again(j).why = j.why
         /\ Again(j).kind = j.kind /\ Again(j).account = j.account
         /\ Again(j).start = j.start /\ Again(j).listed = j.listed
         /\ Again(j).copy = j.copy /\ Again(j).late = j.late /\ Again(j).call = j.call
  <1>1. j.tries + 1 \in 0..Retries
    BY RedditClientAssumption DEF Jobs
  <1>2. [j EXCEPT !.tries = j.tries + 1] \in Jobs
    BY <1>1, FieldOK
  <1>3. QED BY <1>2 DEF Again, Jobs

(* What is left of an attempt.                                             *)
LEMMA HeardIs ==
  ASSUME NEW j \in Jobs, NEW why \in Obstacles \cup {"fine", "trouble"},
         NEW error \in {"none", "revoked", "notFound", "other"}
  PROVE  \/ j.tries # Retries /\ Heard(j, why, error) = Again(j)
         \/ Heard(j, why, error) = Done(j, IF error = "other" THEN "trouble" ELSE why, error)
  BY DEF Heard, Settled, Again

-----------------------------------------------------------------------------
(* The calls of a kind of job.                                             *)
CallsOf(kind) == CASE kind = "inbox"     -> {"token", "own"}
                   [] kind = "live"      -> {"token", "comments"}
                   [] kind = "stuck"     -> {"own"}
                   [] kind = "subreddit" -> {"new", "hot"}

(* A job at its calls: in time, with a token that it saw to or that was    *)
(* seen to, ...                                                            *)
Tended(j) ==
    j.at # "idle" =>
      /\ j.account \in j.listed
      /\ j.call \in CallsOf(j.kind)
      /\ now <= j.start + Span(j.kind)
      /\ j.kind \in {"inbox", "live"} /\ j.call # "token"
           => j.copy[j.account] >= j.start + 5
      /\ j.kind = "subreddit" => \A a \in j.listed \ j.late : j.copy[a] > j.start + 3

(* ... and the truth behind an error, which deleteAccount still acts on    *)
(* when the devices are off the account.                                   *)
Informed(j) ==
    j.at \in {"react", "detached"} =>
      /\ j.at = "detached" => j.error = "revoked" /\ j.kind = "inbox"
      /\ j.error = "revoked" =>
           /\ j.why \in {"revoked", "expired", "private", "forbidden"}
           /\ j.why = "revoked" => j.account \notin granted
           /\ j.why = "expired" => j.copy[j.account] <= now
           /\ j.why = "private" => j.call \in OfPlace
           /\ j.call = "token" => j.why = "revoked"
      /\ j.error = "notFound" => j.why = "gone"

IInv ==
    /\ \A c \in Consumers : Tended(work[c]) /\ Informed(work[c])
    /\ \A a \in Accounts : tended[a] = 0 \/ expires[a] >= tended[a] + 5

(* The errors, and the truths they stand for.                              *)
LEMMA ErrorIs ==
  ASSUME NEW call \in Calls, NEW a, NEW token,
         NEW truth \in Truth(call, a, token)
  PROVE  /\ truth \in Obstacles \cup {"fine"}
         /\ Error(call, Status(call, truth)) \in {"none", "revoked", "notFound", "other"}
         /\ Error(call, Status(call, truth)) = "revoked" =>
              /\ truth \in {"revoked", "expired", "private", "forbidden"}
              /\ truth = "revoked" => a \notin granted
              /\ truth = "expired" => token <= now
              /\ truth = "private" => call \in OfPlace
              /\ call = "token" => truth = "revoked"
         /\ Error(call, Status(call, truth)) = "notFound" => truth = "gone"
  <1>1. \/ truth = "fine"
        \/ truth \in Obstacles /\ Holds(truth, call, a, token)
    BY DEF Truth
  <1>2. CASE truth = "fine"
    BY <1>2 DEF Status, Error
  <1>3. CASE truth = "revoked" /\ a \notin granted
    BY <1>3 DEF Status, Error, Obstacles
  <1>4. CASE truth = "expired" /\ call # "token" /\ token <= now
    BY <1>4 DEF Status, Error, Obstacles
  <1>5. CASE truth \in {"private", "gone"} /\ call \in OfPlace
    BY <1>5 DEF Status, Error, Obstacles, OfPlace
  <1>6. CASE truth = "forbidden"
    BY <1>6 DEF Status, Error, Obstacles
  <1>7. QED BY <1>1, <1>2, <1>3, <1>4, <1>5, <1>6 DEF Holds, Obstacles

-----------------------------------------------------------------------------
Good(j) ==
    /\ j \in Jobs /\ (j.at # "idle" => j.account \in Accounts)
    /\ Tended(j) /\ Informed(j)

Inv == TypeOK /\ IInv

LEMMA GoodNow == ASSUME Inv, NEW c \in Consumers PROVE Good(work[c])
  BY DEF Inv, IInv, TypeOK, Good

LEMMA GoodIdle == Good(Idle)
  BY IdleOK DEF Good, Tended, Informed

LEMMA GoodWork ==
  ASSUME Inv, NEW c \in Consumers, NEW k, Good(k), work' = [work EXCEPT ![c] = k],
         now' = now, granted' = granted
  PROVE  /\ work' \in [Consumers -> Jobs]
         /\ \A b \in Consumers : work'[b].at # "idle" => work'[b].account \in Accounts
         /\ \A b \in Consumers : (Tended(work[b]) /\ Informed(work[b]))'
  <1>1. \A b \in Consumers : work'[b] = k \/ work'[b] = work[b]
    BY DEF Inv, TypeOK
  <1>2. \A b \in Consumers : Good(work'[b])
    BY <1>1, GoodNow
  <1>3. work' \in [Consumers -> Jobs]
    BY DEF Inv, TypeOK, Good
  <1>4. QED BY <1>2, <1>3 DEF Good, Tended, Informed

(* A job that asks, from one that may.                                     *)
LEMMA GoodAsk ==
  ASSUME NEW j \in Jobs, NEW call \in Calls, j.account \in Accounts,
         j.account \in j.listed, call \in CallsOf(j.kind), now <= j.start + Span(j.kind),
         j.kind \in {"inbox", "live"} /\ call # "token" => j.copy[j.account] >= j.start + 5,
         j.kind = "subreddit" => \A a \in j.listed \ j.late : j.copy[a] > j.start + 3
  PROVE  Good(Ask(j, call))
  BY AskOK DEF Good, Tended, Informed

(* The calls are calls.                                                    *)
LEMMA CallsOfOK == \A kind \in Kinds : CallsOf(kind) \subseteq Calls
  BY DEF CallsOf, Kinds, Calls, OfPlace

LEMMA SpanOK == \A kind \in Kinds : Span(kind) \in 1..3
  BY DEF Span, Kinds

LEMMA CheckGood ==
  ASSUME Inv, NEW c \in Consumers, NEW a \in Accounts, NEW kind \in {"inbox", "live"},
         Check(c, kind, a)
  PROVE  /\ \E k : Good(k) /\ work' = [work EXCEPT ![c] = k]
         /\ tended' = tended \/ (tended' = [tended EXCEPT ![a] = now] /\ expires[a] >= now + 5)
  <1> DEFINE j == Job(kind, a, {a})
  <1>1. /\ j \in Jobs /\ j.kind = kind /\ j.account = a /\ j.start = now
        /\ j.listed = {a} /\ j.copy[a] = expires[a]
    <2>1. {a} \in SUBSET Accounts /\ kind \in Kinds
      BY DEF Kinds
    <2>2. j.copy = Copied({a}) /\ Copied({a})[a] = expires[a]
      BY <2>1, JobIs DEF Inv, Copied
    <2>3. QED BY <2>1, <2>2, JobIs DEF Inv
  <1> HIDE DEF j
  <1>2. now \in Nat /\ expires[a] \in Nat
    BY RedditClientAssumption DEF Inv, TypeOK
  <1>3. now <= j.start + Span(j.kind)
    BY <1>1, <1>2, SpanOK DEF Kinds
  <1>4. CASE Stale(expires[a])
    <2>1. Good(Ask(j, "token"))
      BY <1>1, <1>3, GoodAsk DEF Calls, CallsOf
    <2>2. QED BY <1>4, <2>1 DEF Check, Becomes, j
  <1>5. CASE ~Stale(expires[a])
    <2>1. expires[a] >= now + 5
      BY <1>2, <1>5 DEF Stale
    <2>2. Main(kind) \in CallsOf(kind) /\ Main(kind) \in Calls
      BY DEF Main, CallsOf, Calls, OfPlace
    <2>3. Good(Ask(j, Main(kind)))
      BY <1>1, <1>3, <2>1, <2>2, GoodAsk
    <2>4. QED BY <1>5, <2>1, <2>3 DEF Check, Becomes, j
  <1>6. QED BY <1>4, <1>5

LEMMA StuckGood ==
  ASSUME Inv, NEW c \in Consumers, NEW a \in Accounts, CheckStuck(c, a)
  PROVE  \E k : Good(k) /\ work' = [work EXCEPT ![c] = k]
  <1> DEFINE j == Job("stuck", a, {a})
  <1>1. j \in Jobs /\ j.kind = "stuck" /\ j.account = a /\ j.start = now /\ j.listed = {a}
    BY JobIs DEF Inv, Kinds
  <1> HIDE DEF j
  <1>2. now <= j.start + Span(j.kind)
    BY <1>1, SpanOK, RedditClientAssumption DEF Kinds, Inv, TypeOK
  <1>3. Good(Ask(j, "own"))
    BY <1>1, <1>2, GoodAsk DEF Calls, CallsOf
  <1>4. QED BY <1>3 DEF CheckStuck, Becomes, j

LEMMA SubredditGood ==
  ASSUME Inv, NEW c \in Consumers, NEW a \in Accounts, CheckSubreddit(c, a)
  PROVE  \E k : Good(k) /\ work' = [work EXCEPT ![c] = k]
  <1> DEFINE i == Job("subreddit", a, watching)
             late == {b \in watching : tended[b] + 1 < now}
             j == [i EXCEPT !.late = late]
  <1>1. /\ i \in Jobs /\ i.kind = "subreddit" /\ i.account = a /\ i.start = now
        /\ i.listed = watching /\ i.copy = Copied(watching) /\ watching \subseteq Accounts
    BY JobIs DEF Inv, Kinds, TypeOK
  <1>2. a \in watching /\ work' = [work EXCEPT ![c] = Ask(j, "new")]
    BY DEF CheckSubreddit, Becomes
  <1> HIDE DEF i
  <1>3. late \in SUBSET Accounts
    BY <1>1
  <1>4. ASSUME NEW b \in watching \ late PROVE Copied(watching)[b] > now + 3
    <2>1. b \in Accounts /\ tended[b] \in Nat /\ expires[b] \in Nat /\ now \in Nat /\ now >= 2
      BY <1>1, <1>4, RedditClientAssumption DEF Inv, TypeOK
    <2>2. tended[b] + 1 >= now
      BY <1>4, <2>1
    <2>3. expires[b] >= tended[b] + 5
      BY <2>1, <2>2 DEF Inv, IInv
    <2>4. QED BY <1>4, <2>1, <2>2, <2>3 DEF Copied
  <1> HIDE DEF late
  <1>5. j \in Jobs
    BY <1>1, <1>3, FieldOK
  <1>6. /\ j.kind = "subreddit" /\ j.account = a /\ j.start = now /\ j.listed = watching
        /\ j.copy = Copied(watching) /\ j.late = late
    BY <1>1 DEF Jobs
  <1> HIDE DEF j
  <1>7. now <= j.start + Span(j.kind)
    BY <1>6, SpanOK, RedditClientAssumption DEF Kinds, Inv, TypeOK
  <1>8. Good(Ask(j, "new"))
    BY <1>2, <1>4, <1>5, <1>6, <1>7, GoodAsk DEF Calls, CallsOf, OfPlace
  <1>9. QED BY <1>2, <1>8

(* What has been heard, when the error tells the truth.                    *)
Tells(j, why, error) ==
    /\ error = "revoked" =>
         /\ why \in {"revoked", "expired", "private", "forbidden"}
         /\ why = "revoked" => j.account \notin granted
         /\ why = "expired" => j.copy[j.account] <= now
         /\ why = "private" => j.call \in OfPlace
         /\ j.call = "token" => why = "revoked"
    /\ error = "notFound" => why = "gone"

LEMMA DoneGood ==
  ASSUME NEW j \in Jobs, Good(j), j.at = "ask",
         NEW why \in Obstacles \cup {"fine", "trouble"},
         NEW error \in {"none", "revoked", "notFound", "other"}, Tells(j, why, error)
  PROVE  Good(Done(j, why, error))
  <1> DEFINE k == Done(j, why, error)
  <1>1. /\ k \in Jobs /\ k.at = "react" /\ k.error = error /\ k.why = why
        /\ k.kind = j.kind /\ k.account = j.account /\ k.start = j.start
        /\ k.listed = j.listed /\ k.copy = j.copy /\ k.late = j.late /\ k.call = j.call
    BY DoneOK DEF Obstacles
  <1> HIDE DEF k
  <1>2. Tended(k) /\ k.account \in Accounts
    BY <1>1 DEF Good, Tended
  <1>3. Informed(k)
    BY <1>1 DEF Informed, Tells
  <1>4. QED BY <1>1, <1>2, <1>3 DEF Good, k

LEMMA HeardGood ==
  ASSUME NEW j \in Jobs, Good(j), j.at = "ask",
         NEW why \in Obstacles \cup {"fine", "trouble"},
         NEW error \in {"none", "revoked", "notFound", "other"}, Tells(j, why, error)
  PROVE  Good(Heard(j, why, error)) /\ Good(Done(j, why, error))
  <1>1. Good(Done(j, why, error))
    BY DoneGood
  <1>2. CASE j.tries # Retries /\ Heard(j, why, error) = Again(j)
    <2>1. Good(Again(j))
      BY <1>2, AgainOK DEF Good, Tended, Informed
    <2>2. QED BY <1>1, <1>2, <2>1
  <1>3. CASE Heard(j, why, error) = Done(j, IF error = "other" THEN "trouble" ELSE why, error)
    <2>1. error = "other" => Tells(j, "trouble", error)
      BY DEF Tells
    <2>2. error = "other" => Good(Done(j, "trouble", error))
      BY <2>1, DoneGood
    <2>3. QED BY <1>1, <1>3, <2>2
  <1>4. QED BY <1>2, <1>3, HeardIs

LEMMA AttemptGood ==
  ASSUME Inv, NEW c \in Consumers, Attempt(c) \/ AttemptFails(c) \/ Garbled(c)
  PROVE  \E k : Good(k) /\ work' = [work EXCEPT ![c] = k]
  <1> DEFINE j == work[c]
  <1>1. j \in Jobs /\ Good(j) /\ j.at = "ask" /\ j.call \in Calls
    BY GoodNow DEF Attempt, AttemptFails, Garbled, Good, Jobs
  <1>2. CASE Attempt(c)
    <2>1. PICK truth \in Truth(j.call, j.account, j.copy[j.account]) :
            work' = [work EXCEPT ![c] = Heard(j, truth, Error(j.call, Status(j.call, truth)))]
      BY <1>2 DEF Attempt, Becomes
    <2> HIDE DEF j
    <2>2. Good(Heard(j, truth, Error(j.call, Status(j.call, truth))))
      <3> DEFINE e == Error(j.call, Status(j.call, truth))
      <3>1. /\ truth \in Obstacles \cup {"fine", "trouble"}
            /\ e \in {"none", "revoked", "notFound", "other"} /\ Tells(j, truth, e)
        BY <1>1, <2>1, ErrorIs DEF Tells
      <3> HIDE DEF e
      <3>2. QED BY <1>1, <3>1, HeardGood DEF e
    <2>3. QED BY <2>1, <2>2
  <1>3. CASE AttemptFails(c)
    <2>1. PICK status \in {429, 500, 0} :
            work' = [work EXCEPT ![c] = Heard(j, "trouble", Error(j.call, status))]
      BY <1>3 DEF AttemptFails, Becomes
    <2> HIDE DEF j
    <2>2. Error(j.call, status) = "other"
      BY <2>1 DEF Error
    <2>3. Good(Heard(j, "trouble", "other"))
      BY <1>1, HeardGood DEF Tells
    <2>4. QED BY <2>1, <2>2, <2>3
  <1>4. CASE Garbled(c)
    <2>1. work' = [work EXCEPT ![c] = Done(j, "trouble", "other")]
      BY <1>4 DEF Garbled, Becomes
    <2> HIDE DEF j
    <2>2. Good(Done(j, "trouble", "other"))
      BY <1>1, HeardGood DEF Tells
    <2>3. QED BY <2>1, <2>2
  <1>5. QED BY <1>2, <1>3, <1>4

LEMMA RefreshedGood ==
  ASSUME Inv, NEW c \in Consumers, Refreshed(c)
  PROVE  /\ \E k : Good(k) /\ work' = [work EXCEPT ![c] = k]
         /\ \/ UNCHANGED <<expires, tended>>
            \/ \E a \in Accounts, s \in Nat :
                 /\ expires' = [expires EXCEPT ![a] = s + Life]
                 /\ tended' = [tended EXCEPT ![a] = s]
  <1> DEFINE j == work[c]
             until == [j.copy EXCEPT ![j.account] = j.start + Life]
             i == [j EXCEPT !.copy = until]
  <1>1. j \in Jobs /\ Good(j) /\ j.at = "react" /\ j.call = "token" /\ j.account \in Accounts
    BY GoodNow DEF Refreshed, Has, Good
  <1>2. work' = [work EXCEPT ![c] = Ask(i, Main(j.kind))]
    BY DEF Refreshed, Becomes
  <1>3. /\ j.start \in Nat /\ j.copy \in [Accounts -> Nat] /\ j.kind \in Kinds
        /\ j.start + Life \in Nat /\ j.start + Life >= j.start + 5
    BY <1>1, RedditClientAssumption DEF Jobs
  <1>4. \/ UNCHANGED <<expires, tended>>
        \/ /\ expires' = [expires EXCEPT ![j.account] = j.start + Life]
           /\ tended' = [tended EXCEPT ![j.account] = j.start]
    BY DEF Refreshed
  <1>5. j.kind \in {"inbox", "live"} /\ j.account \in j.listed
        /\ now <= j.start + Span(j.kind)
    BY <1>1, <1>3 DEF Good, Tended, CallsOf, Kinds
  <1> HIDE DEF j
  <1>6. until \in [Accounts -> Nat] /\ until[j.account] = j.start + Life
    BY <1>1, <1>3
  <1> HIDE DEF until
  <1>7. i \in Jobs
    BY <1>1, <1>6, FieldOK
  <1>8. /\ i.kind = j.kind /\ i.account = j.account /\ i.start = j.start
        /\ i.listed = j.listed /\ i.copy = until
    BY <1>1 DEF Jobs
  <1> HIDE DEF i
  <1>9. Main(j.kind) \in Calls /\ Main(j.kind) \in CallsOf(j.kind)
    BY <1>5 DEF Main, Calls, CallsOf, OfPlace
  <1>10. Good(Ask(i, Main(j.kind)))
    BY <1>1, <1>3, <1>5, <1>6, <1>7, <1>8, <1>9, GoodAsk
  <1>11. QED BY <1>1, <1>2, <1>3, <1>4, <1>10

LEMMA AgainGood ==
  ASSUME Inv, NEW c \in Consumers, NEW a \in Accounts, NextPage(c, a) \/ LookAgain(c)
  PROVE  \E k : Good(k) /\ work' = [work EXCEPT ![c] = k]
  <1> DEFINE j == work[c]
  <1>1. j \in Jobs /\ Good(j) /\ j.at = "react" /\ j.account \in Accounts /\ j.kind \in Kinds
    BY GoodNow DEF NextPage, LookAgain, Has, Good, Jobs
  <1>2. /\ j.account \in j.listed /\ j.call \in CallsOf(j.kind)
        /\ now <= j.start + Span(j.kind)
        /\ j.kind = "subreddit" => \A b \in j.listed \ j.late : j.copy[b] > j.start + 3
    BY <1>1 DEF Good, Tended
  <1>3. CASE LookAgain(c)
    <2>1. j.kind = "stuck" /\ work' = [work EXCEPT ![c] = Ask(j, "own")]
      BY <1>3 DEF LookAgain, Becomes
    <2> HIDE DEF j
    <2>2. Good(Ask(j, "own"))
      BY <1>1, <1>2, <2>1, GoodAsk DEF Calls, CallsOf
    <2>3. QED BY <2>1, <2>2
  <1>4. CASE NextPage(c, a)
    <2> DEFINE i == [j EXCEPT !.account = a]
    <2>1. PICK call \in {"new", "hot"} : work' = [work EXCEPT ![c] = Ask(i, call)]
      BY <1>4 DEF NextPage, Becomes
    <2>2. a \in j.listed /\ j.call = "new"
      BY <1>4 DEF NextPage
    <2> HIDE DEF j
    <2>3. j.kind = "subreddit"
      BY <1>1, <1>2, <2>2 DEF CallsOf, Kinds
    <2>4. i \in Jobs
      BY <1>1, FieldOK
    <2>5. /\ i.kind = j.kind /\ i.account = a /\ i.start = j.start /\ i.listed = j.listed
          /\ i.copy = j.copy /\ i.late = j.late
      BY <1>1 DEF Jobs
    <2> HIDE DEF i
    <2>6. call \in Calls /\ call \in CallsOf(i.kind)
      BY <2>3, <2>5 DEF Calls, CallsOf, OfPlace
    <2>7. Good(Ask(i, call))
      BY <1>2, <2>2, <2>3, <2>4, <2>5, <2>6, GoodAsk
    <2>8. QED BY <2>1, <2>7
  <1>5. QED BY <1>3, <1>4

(* A job that has taken the account off its devices.                       *)
LEMMA DetachGood ==
  ASSUME Inv, NEW c \in Consumers, Detach(c)
  PROVE  \E k : Good(k) /\ work' = [work EXCEPT ![c] = k]
  <1> DEFINE j == work[c]
             k == [j EXCEPT !.at = "detached"]
  <1>1. /\ j \in Jobs /\ Good(j) /\ j.at = "react" /\ j.error = "revoked"
        /\ j.kind = "inbox" /\ work' = [work EXCEPT ![c] = k]
    BY GoodNow DEF Detach, Has, Becomes, Good
  <1> HIDE DEF j
  <1>2. k \in Jobs
    BY <1>1, FieldOK
  <1>3. /\ k.at = "detached" /\ k.error = j.error /\ k.why = j.why /\ k.kind = j.kind
        /\ k.account = j.account /\ k.start = j.start /\ k.listed = j.listed
        /\ k.copy = j.copy /\ k.late = j.late /\ k.call = j.call
    BY <1>1 DEF Jobs
  <1> HIDE DEF k
  <1>4. Good(k)
    BY <1>1, <1>2, <1>3 DEF Good, Tended, Informed
  <1>5. QED BY <1>1, <1>4

(* A job that is over.                                                     *)
Ending(c) ==
    \/ WriteBack(c) \/ Listed(c) \/ DeleteAccount(c) \/ DeleteActivity(c)
    \/ DeleteWatcher(c) \/ DeleteWatchers(c) \/ GiveUp(c) \/ DeleteFails(c) \/ Crash(c)

LEMMA EndingGood ==
  ASSUME NEW c \in Consumers, Ending(c)
  PROVE  \E k : Good(k) /\ work' = [work EXCEPT ![c] = k]
  <1>1. work' = [work EXCEPT ![c] = Idle]
    BY DEF Ending, WriteBack, Listed, DeleteAccount, DeleteActivity, DeleteWatcher,
           DeleteWatchers, GiveUp, DeleteFails, Crash, Becomes
  <1>2. QED BY <1>1, GoodIdle

(* What the steps of a consumer do to the rows of tokens.                  *)
Saved ==
    \/ UNCHANGED <<expires, tended>>
    \/ /\ UNCHANGED expires
       /\ \E a \in Accounts : tended' = [tended EXCEPT ![a] = now] /\ expires[a] >= now + 5
    \/ \E a \in Accounts, s \in Nat :
         /\ expires' = [expires EXCEPT ![a] = s + Life]
         /\ tended' = [tended EXCEPT ![a] = s]
    \/ \E a \in Accounts, s \in Nat :
         /\ expires' = [expires EXCEPT ![a] = s]
         /\ tended' = IF expires'[a] < expires[a] THEN [tended EXCEPT ![a] = 0] ELSE tended

LEMMA SavedOK ==
  ASSUME Inv, Saved
  PROVE  /\ expires' \in [Accounts -> Nat] /\ tended' \in [Accounts -> Nat]
         /\ \A a \in Accounts : tended'[a] = 0 \/ expires'[a] >= tended'[a] + 5
  <1>1. /\ expires \in [Accounts -> Nat] /\ tended \in [Accounts -> Nat] /\ now \in Nat
        /\ \A a \in Accounts : tended[a] = 0 \/ expires[a] >= tended[a] + 5
        /\ Life \in Nat /\ Life >= 5
    BY RedditClientAssumption DEF Inv, TypeOK, IInv
  <1>2. CASE UNCHANGED <<expires, tended>>
    BY <1>1, <1>2
  <1>3. ASSUME NEW a \in Accounts, UNCHANGED expires, tended' = [tended EXCEPT ![a] = now],
               expires[a] >= now + 5
        PROVE  /\ expires' \in [Accounts -> Nat] /\ tended' \in [Accounts -> Nat]
               /\ \A b \in Accounts : tended'[b] = 0 \/ expires'[b] >= tended'[b] + 5
    BY <1>1, <1>3
  <1>4. ASSUME NEW a \in Accounts, NEW s \in Nat, expires' = [expires EXCEPT ![a] = s + Life],
               tended' = [tended EXCEPT ![a] = s]
        PROVE  /\ expires' \in [Accounts -> Nat] /\ tended' \in [Accounts -> Nat]
               /\ \A b \in Accounts : tended'[b] = 0 \/ expires'[b] >= tended'[b] + 5
    BY <1>1, <1>4
  <1>5. ASSUME NEW a \in Accounts, NEW s \in Nat, expires' = [expires EXCEPT ![a] = s],
               tended' = IF expires'[a] < expires[a] THEN [tended EXCEPT ![a] = 0] ELSE tended
        PROVE  /\ expires' \in [Accounts -> Nat] /\ tended' \in [Accounts -> Nat]
               /\ \A b \in Accounts : tended'[b] = 0 \/ expires'[b] >= tended'[b] + 5
    <2>1. CASE s < expires[a]
      BY <1>1, <1>5, <2>1
    <2>2. CASE ~(s < expires[a])
      BY <1>1, <1>5, <2>2
    <2>3. QED BY <2>1, <2>2
  <1>6. QED BY <1>2, <1>3, <1>4, <1>5 DEF Saved

LEMMA ConsumerSaves ==
  ASSUME Inv, NEW c \in Consumers, Begin(c) \/ JobStep(c) \/ JobFault(c)
  PROVE  /\ Saved
         /\ UNCHANGED work \/ \E k : Good(k) /\ work' = [work EXCEPT ![c] = k]
         /\ UNCHANGED <<now, reddit, changes>>
         /\ registered' \subseteq registered /\ attached' \subseteq attached
         /\ activities' \subseteq activities /\ watching' \subseteq watching
         /\ Calm \/ Fault
  <1>1. ASSUME NEW a \in Accounts, CheckInbox(c, a) \/ CheckActivity(c, a)
        PROVE  /\ Saved /\ \E k : Good(k) /\ work' = [work EXCEPT ![c] = k]
               /\ UNCHANGED <<now, reddit, changes, registered, attached, activities, watching>> /\ Calm
    <2>1. PICK kind \in {"inbox", "live"} : Check(c, kind, a)
      BY <1>1 DEF CheckInbox, CheckActivity
    <2>2. Reads /\ Calm
      BY <2>1 DEF Check
    <2>3. QED BY <2>1, <2>2, CheckGood DEF Saved, Reads, Inside, rows
  <1>2. ASSUME NEW a \in Accounts, NoAccountLeft(c, a)
        PROVE  /\ Saved /\ UNCHANGED work
               /\ UNCHANGED <<now, reddit, changes, registered, attached, watching>>
               /\ activities' \subseteq activities /\ (Calm \/ Fault)
    BY <1>2 DEF NoAccountLeft, Saved, Inside
  <1>3. ASSUME NEW a \in Accounts, CheckStuck(c, a) \/ CheckSubreddit(c, a)
        PROVE  /\ Saved /\ \E k : Good(k) /\ work' = [work EXCEPT ![c] = k]
               /\ UNCHANGED <<now, reddit, changes, registered, attached, activities, watching>> /\ Calm
    <2>1. Reads /\ Calm /\ UNCHANGED tended
      BY <1>3 DEF CheckStuck, CheckSubreddit
    <2>2. QED BY <1>3, <2>1, StuckGood, SubredditGood DEF Saved, Reads, Inside, rows
  <1>4. CASE Attempt(c) \/ AttemptFails(c) \/ Garbled(c)
    <2>1. Reads /\ UNCHANGED tended /\ (Calm \/ Fault)
      BY <1>4 DEF Attempt, AttemptFails, Garbled
    <2>2. UNCHANGED <<now, reddit, changes, expires, tended, registered, attached, activities,
                    watching>>
      BY <2>1 DEF Reads, Inside, rows
    <2>3. QED BY <1>4, <2>1, <2>2, AttemptGood DEF Saved
  <1>5. CASE Refreshed(c)
    <2>1. /\ Inside /\ UNCHANGED <<registered, attached, activities, watching>> /\ (Calm \/ Fault)
      BY <1>5 DEF Refreshed, Has
    <2>2. Saved
      BY <1>5, RefreshedGood DEF Saved
    <2>3. QED BY <1>5, <2>1, <2>2, RefreshedGood DEF Inside
  <1>6. ASSUME NEW a \in Accounts, NextPage(c, a)
        PROVE  /\ Saved /\ \E k : Good(k) /\ work' = [work EXCEPT ![c] = k]
               /\ UNCHANGED <<now, reddit, changes, registered, attached, activities, watching>> /\ Calm
    BY <1>6, AgainGood DEF NextPage, Has, Inside, rows, Saved
  <1>7. CASE LookAgain(c)
    <2>1. Inside /\ UNCHANGED <<rows, tended>> /\ Calm
      BY <1>7 DEF LookAgain, Has
    <2>2. \E k : Good(k) /\ work' = [work EXCEPT ![c] = k]
      <3>1. work[c].account \in Accounts
        BY <1>7, GoodNow DEF LookAgain, Has, Good
      <3>2. QED BY <1>7, <3>1, AgainGood
    <2>3. QED BY <2>1, <2>2 DEF Inside, rows, Saved
  <1>8. CASE Ending(c)
    <2>1. \E k : Good(k) /\ work' = [work EXCEPT ![c] = k]
      BY <1>8, EndingGood
    <2>2. CASE WriteBack(c)
      <3>1. work[c].account \in Accounts /\ work[c].copy \in [Accounts -> Nat]
        BY <2>2, GoodNow DEF WriteBack, Has, Good, Jobs
      <3>2. Saved
        BY <2>2, <3>1 DEF WriteBack, Saved
      <3>3. QED BY <2>1, <2>2, <3>2 DEF WriteBack, Has, Inside
    <2>3. CASE ~WriteBack(c)
      <3>1. /\ Inside /\ UNCHANGED <<expires, tended>> /\ (Calm \/ Fault)
            /\ registered' \subseteq registered /\ attached' \subseteq attached
            /\ activities' \subseteq activities /\ watching' \subseteq watching
        BY <1>8, <2>3 DEF Ending, Listed, DeleteAccount, DeleteActivity, DeleteWatcher,
           DeleteWatchers, GiveUp, DeleteFails, Crash, Reads, Has, rows
      <3>2. QED BY <2>1, <3>1 DEF Inside, Saved
    <2>4. QED BY <2>2, <2>3
  <1>d. CASE Detach(c)
    BY <1>d, DetachGood DEF Detach, Has, Inside, Saved
  <1>9. CASE Begin(c)
    BY <1>1, <1>2, <1>3, <1>9 DEF Begin
  <1>10. CASE JobStep(c)
    BY <1>4, <1>5, <1>6, <1>7, <1>8, <1>d, <1>10 DEF JobStep, Ending
  <1>11. CASE JobFault(c)
    BY <1>4, <1>8, <1>11 DEF JobFault, Ending
  <1>12. QED BY <1>9, <1>10, <1>11

LEMMA InvInit == Init => Inv
  <1> SUFFICES ASSUME Init PROVE Inv
    OBVIOUS
  <1>1. \A c \in Consumers : work[c] = Idle
    BY DEF Init
  <1>2. \A c \in Consumers : Good(work[c])
    BY <1>1, GoodIdle
  <1>3. work \in [Consumers -> Jobs]
    BY IdleOK DEF Init
  <1>4. tended \in [Accounts -> Nat] /\ \A a \in Accounts : tended[a] = 0
    BY DEF Init
  <1>5. expires \in [Accounts -> Nat]
    BY RedditClientAssumption DEF Init
  <1>a. \A c \in Consumers : work[c].at # "idle" => work[c].account \in Accounts
    BY <1>2 DEF Good
  <1>b. /\ now \in 2..MaxTime /\ changes \in 0..MaxChanges /\ faults \in 0..MaxFaults
    BY RedditClientAssumption DEF Init
  <1>c. /\ granted \subseteq Accounts /\ forbidden \in BOOLEAN
        /\ place \in {"public", "private", "gone"}
        /\ registered \subseteq Accounts /\ attached \subseteq Accounts
        /\ activities \subseteq Accounts /\ watching \subseteq Accounts
    BY DEF Init
  <1>6. TypeOK
    BY <1>3, <1>4, <1>5, <1>a, <1>b, <1>c DEF TypeOK
  <1>7. QED BY <1>2, <1>4, <1>6 DEF Inv, IInv, Good

LEMMA InvStep == Inv /\ [Next]_vars => Inv'
  <1> SUFFICES ASSUME Inv, [Next]_vars PROVE Inv'
    OBVIOUS
  <1> USE DEF Inv
  <1>1. CASE UNCHANGED vars
    BY <1>1 DEF vars, reddit, rows, TypeOK, IInv, Tended, Informed
  <1>2. CASE Tick
    <2>1. /\ now \in Nat /\ now < MaxTime /\ now' = now + 1 /\ now >= 2
          /\ UNCHANGED <<granted, place, forbidden, registered, attached, expires, activities,
                         watching, work, tended, changes, faults>>
          /\ \A c \in Consumers :
               work[c].at # "idle" => now < work[c].start + Span(work[c].kind)
      BY <1>2, RedditClientAssumption DEF Tick, reddit, rows, TypeOK
    <2>2. TypeOK'
      BY <2>1, RedditClientAssumption DEF TypeOK
    <2>3. ASSUME NEW c \in Consumers PROVE Tended(work[c])' /\ Informed(work[c])'
      <3>1. /\ work[c] \in Jobs /\ Tended(work[c]) /\ Informed(work[c])
            /\ work[c].at # "idle" => work[c].account \in Accounts
        BY DEF IInv, TypeOK
      <3>2. /\ work[c].start \in Nat /\ Span(work[c].kind) \in 1..3
            /\ work[c].copy \in [Accounts -> Nat]
        BY <3>1, SpanOK DEF Jobs
      <3>3. Tended(work[c])'
        BY <2>1, <3>1, <3>2 DEF Tended
      <3>4. Informed(work[c])'
        BY <2>1, <3>1, <3>2 DEF Informed
      <3>5. QED BY <3>3, <3>4
    <2>4. QED BY <2>1, <2>2, <2>3 DEF IInv
  <1>3. CASE Environment
    <2>a. Change
      BY <1>3 DEF Environment, Revoke, Move, Gate
    <2>b. /\ changes' \in 0..MaxChanges
          /\ UNCHANGED <<now, registered, attached, expires, activities, watching, work, tended,
                         faults>>
      BY <2>a, RedditClientAssumption DEF Change, rows, TypeOK
    <2>c. /\ granted' \subseteq granted /\ place' \in {"public", "private", "gone"}
          /\ forbidden' \in BOOLEAN
      <3>1. CASE \E a \in Accounts : Revoke(a)
        BY <3>1 DEF Revoke, TypeOK
      <3>2. CASE Move
        BY <3>2 DEF Move, TypeOK
      <3>3. CASE Gate
        BY <3>3 DEF Gate, TypeOK
      <3>4. QED BY <1>3, <3>1, <3>2, <3>3 DEF Environment
    <2>1. /\ granted' \subseteq granted /\ place' \in {"public", "private", "gone"}
          /\ forbidden' \in BOOLEAN /\ changes' \in 0..MaxChanges
          /\ UNCHANGED <<now, registered, attached, expires, activities, watching, work, tended,
                         faults>>
      BY <2>b, <2>c
    <2>2. TypeOK'
      BY <2>1 DEF TypeOK
    <2>3. IInv'
      BY <2>1 DEF IInv, Tended, Informed
    <2>4. QED BY <2>2, <2>3
  <1>4. ASSUME NEW c \in Consumers, Begin(c) \/ JobStep(c) \/ JobFault(c) PROVE Inv'
    <2>1. /\ Saved
          /\ UNCHANGED work \/ \E k : Good(k) /\ work' = [work EXCEPT ![c] = k]
          /\ UNCHANGED <<now, granted, place, forbidden, changes>>
          /\ registered' \subseteq registered /\ attached' \subseteq attached
          /\ activities' \subseteq activities /\ watching' \subseteq watching
          /\ faults' \in 0..MaxFaults
      BY <1>4, ConsumerSaves, RedditClientAssumption DEF reddit, Calm, Fault, TypeOK
    <2>2. /\ expires' \in [Accounts -> Nat] /\ tended' \in [Accounts -> Nat]
          /\ \A a \in Accounts : tended'[a] = 0 \/ expires'[a] >= tended'[a] + 5
      BY <2>1, SavedOK
    <2>3. /\ work' \in [Consumers -> Jobs]
          /\ \A b \in Consumers : work'[b].at # "idle" => work'[b].account \in Accounts
          /\ \A b \in Consumers : (Tended(work[b]) /\ Informed(work[b]))'
      <3>1. CASE UNCHANGED work
        BY <2>1, <3>1 DEF TypeOK, IInv, Tended, Informed
      <3>2. CASE \E k : Good(k) /\ work' = [work EXCEPT ![c] = k]
        BY <2>1, <3>2, GoodWork
      <3>3. QED BY <2>1, <3>1, <3>2
    <2>4. TypeOK'
      BY <2>1, <2>2, <2>3 DEF TypeOK
    <2>5. QED BY <2>2, <2>3, <2>4 DEF IInv
  <1>5. QED BY <1>1, <1>2, <1>3, <1>4 DEF Next

LEMMA InvAlways == Spec => []Inv
  BY InvInit, InvStep, PTL DEF Spec

(* The types hold for all constants.                                       *)
THEOREM TypeCorrect == Spec => []TypeOK
  <1>1. Inv => TypeOK
    BY DEF Inv
  <1>2. QED BY <1>1, InvAlways, PTL

-----------------------------------------------------------------------------
(* A job that was told "revoked" ...                                       *)
Told(j) ==
    \/ j.at = "react" /\ j.error = "revoked"
    \/ j.at = "detached"

(* ... by its kind.                                                        *)
LEMMA ToldRevoked ==
  ASSUME Inv, NEW c \in Consumers, Told(work[c])
  PROVE  /\ work[c].account \in Accounts
         /\ work[c].why \in {"revoked", "expired", "private", "forbidden"}
         /\ work[c].why = "revoked" => work[c].account \notin granted
         /\ work[c].kind \in {"inbox", "live"} => work[c].why # "expired"
         /\ work[c].kind = "inbox" /\ work[c].why \in {"private", "forbidden"}
              => work[c].why = "forbidden" /\ work[c].call = "own"
         /\ work[c].kind = "live" /\ work[c].why \in {"private", "forbidden"}
              => work[c].call = "comments"
         /\ work[c].kind = "subreddit" =>
              /\ work[c].account \in work[c].listed
              /\ work[c].why = "expired" => work[c].account \in work[c].late
  <1> DEFINE j == work[c]
  <1>1. /\ j \in Jobs /\ j.at \in {"react", "detached"} /\ j.error = "revoked"
        /\ j.account \in Accounts /\ Tended(j) /\ Informed(j) /\ now \in Nat
    BY GoodNow, RedditClientAssumption DEF Told, Good, Inv, TypeOK, Informed
  <1> HIDE DEF j
  <1>2. /\ j.start \in Nat /\ j.copy \in [Accounts -> Nat] /\ j.kind \in Kinds
    BY <1>1 DEF Jobs
  <1>3. /\ j.account \in j.listed /\ j.call \in CallsOf(j.kind)
        /\ now <= j.start + Span(j.kind)
        /\ j.kind \in {"inbox", "live"} /\ j.call # "token"
             => j.copy[j.account] >= j.start + 5
        /\ j.kind = "subreddit" => \A a \in j.listed \ j.late : j.copy[a] > j.start + 3
    BY <1>1 DEF Tended
  <1>4. /\ j.why \in {"revoked", "expired", "private", "forbidden"}
        /\ j.why = "revoked" => j.account \notin granted
        /\ j.why = "expired" => j.copy[j.account] <= now
        /\ j.why = "private" => j.call \in OfPlace
        /\ j.call = "token" => j.why = "revoked"
    BY <1>1 DEF Informed
  <1>5. j.kind \in {"inbox", "live"} => j.why # "expired"
    BY <1>1, <1>2, <1>3, <1>4 DEF Span
  <1>6. j.kind = "subreddit" /\ j.why = "expired" => j.account \in j.late
    BY <1>1, <1>2, <1>3, <1>4 DEF Span
  <1>7. j.kind = "inbox" /\ j.why \in {"private", "forbidden"}
          => j.why = "forbidden" /\ j.call = "own"
    BY <1>3, <1>4 DEF CallsOf, OfPlace
  <1>8. j.kind = "live" /\ j.why \in {"private", "forbidden"} => j.call = "comments"
    BY <1>3, <1>4 DEF CallsOf
  <1>9. QED BY <1>1, <1>3, <1>4, <1>5, <1>6, <1>7, <1>8 DEF j

(* The steps that delete.                                                  *)
LEMMA Deleting ==
  ASSUME [Next]_vars
  PROVE  /\ registered' = registered \/ \E c \in Consumers : DeleteAccount(c)
         /\ attached' = attached \/ \E c \in Consumers : Detach(c)
         /\ \/ activities' = activities
            \/ \E c \in Consumers : \/ DeleteActivity(c)
                                    \/ \E a \in Accounts : NoAccountLeft(c, a)
         /\ \/ watching' = watching
            \/ \E c \in Consumers : DeleteWatcher(c) \/ DeleteWatchers(c)
  <1>1. CASE UNCHANGED vars \/ Tick \/ Environment
    BY <1>1 DEF vars, rows, Tick, Environment, Revoke, Move, Gate, Change
  <1>2. ASSUME NEW c \in Consumers, Begin(c)
        PROVE  /\ registered' = registered /\ attached' = attached /\ watching' = watching
               /\ activities' = activities \/ \E a \in Accounts : NoAccountLeft(c, a)
    <2>1. ASSUME NEW a \in Accounts, \/ CheckInbox(c, a) \/ CheckActivity(c, a)
                                     \/ CheckStuck(c, a) \/ CheckSubreddit(c, a)
          PROVE  UNCHANGED rows
      BY <2>1 DEF CheckInbox, CheckActivity, Check, CheckStuck, CheckSubreddit, Reads
    <2>2. ASSUME NEW a \in Accounts, NoAccountLeft(c, a)
          PROVE  registered' = registered /\ attached' = attached /\ watching' = watching
      BY <2>2 DEF NoAccountLeft
    <2>3. QED BY <1>2, <2>1, <2>2 DEF Begin, rows
  <1>3. ASSUME NEW c \in Consumers, JobStep(c) \/ JobFault(c)
        PROVE  /\ registered' = registered \/ DeleteAccount(c)
               /\ attached' = attached \/ Detach(c)
               /\ activities' = activities \/ DeleteActivity(c)
               /\ watching' = watching \/ DeleteWatcher(c) \/ DeleteWatchers(c)
    <2>1. CASE \/ Attempt(c) \/ AttemptFails(c) \/ Garbled(c) \/ LookAgain(c)
               \/ Listed(c) \/ GiveUp(c) \/ DeleteFails(c) \/ Crash(c)
               \/ \E a \in Accounts : NextPage(c, a)
      BY <2>1 DEF Attempt, AttemptFails, Garbled, LookAgain, Listed, GiveUp, DeleteFails,
                  Crash, NextPage, Reads, rows
    <2>2. CASE Refreshed(c) \/ WriteBack(c)
      BY <2>2 DEF Refreshed, WriteBack
    <2>3. CASE \/ Detach(c) \/ DeleteAccount(c) \/ DeleteActivity(c)
               \/ DeleteWatcher(c) \/ DeleteWatchers(c)
      BY <2>3 DEF Detach, DeleteAccount, DeleteActivity, DeleteWatcher, DeleteWatchers
    <2>4. QED BY <1>3, <2>1, <2>2, <2>3 DEF JobStep, JobFault
  <1>4. QED BY <1>1, <1>2, <1>3 DEF Next

(* No account is taken off its devices, or deleted, for a token that       *)
(* expired, a community or trouble.                                        *)
THEOREM AccountCorrect == Spec => AccountForCause
  <1>1. ASSUME Inv, [Next]_vars, NEW a \in (registered \ registered') \cup (attached \ attached')
        PROVE  \E c \in Consumers :
                 /\ work[c].kind = "inbox" /\ work[c].account = a
                 /\ \/ work[c].why = "revoked" /\ a \notin granted
                    \/ work[c].why = "forbidden" /\ work[c].call = "own"
    <2>1. PICK c \in Consumers : /\ work[c].account = a
                                 /\ DeleteAccount(c) \/ Detach(c)
      <3>1. CASE a \in registered \ registered'
        BY <1>1, <3>1, Deleting DEF DeleteAccount
      <3>2. CASE a \in attached \ attached'
        BY <1>1, <3>2, Deleting DEF Detach
      <3>3. QED BY <1>1, <3>1, <3>2
    <2>2. Told(work[c])
      BY <2>1 DEF DeleteAccount, Detach, Has, Told
    <2>3. work[c].kind = "inbox"
      BY <1>1, <2>1, GoodNow DEF DeleteAccount, Detach, Good, Informed
    <2>4. /\ work[c].why \in {"revoked", "expired", "private", "forbidden"}
          /\ work[c].why = "revoked" => a \notin granted
          /\ work[c].why # "expired"
          /\ work[c].why \in {"private", "forbidden"}
               => work[c].why = "forbidden" /\ work[c].call = "own"
      BY <1>1, <2>1, <2>2, <2>3, ToldRevoked
    <2>5. QED BY <2>1, <2>3, <2>4
  <1>2. Inv /\ [Next]_vars =>
          [\A a \in (registered \ registered') \cup (attached \ attached') :
               \E c \in Consumers :
                 /\ work[c].kind = "inbox" /\ work[c].account = a
                 /\ \/ work[c].why = "revoked" /\ a \notin granted
                    \/ work[c].why = "forbidden" /\ work[c].call = "own"]_vars
    BY <1>1
  <1>3. QED BY <1>2, InvAlways, PTL DEF Spec, AccountForCause

(* Nor is a live activity, save for its private community.                 *)
THEOREM ActivityCorrect == Spec => ActivityForCause
  <1>1. ASSUME Inv, [Next]_vars, NEW a \in activities \ activities'
        PROVE  \/ a \notin registered \/ faults' # faults
               \/ \E c \in Consumers :
                    /\ work[c].kind = "live" /\ work[c].account = a
                    /\ \/ work[c].why = "revoked" /\ a \notin granted
                       \/ work[c].why \in {"private", "forbidden"} /\ work[c].call = "comments"
    <2>1. PICK c \in Consumers : DeleteActivity(c) \/ \E b \in Accounts : NoAccountLeft(c, b)
      BY <1>1, Deleting
    <2>2. CASE DeleteActivity(c)
      <3>1. work[c].account = a /\ work[c].kind = "live" /\ Told(work[c])
        BY <1>1, <2>2 DEF DeleteActivity, Has, Told
      <3>2. /\ work[c].why \in {"revoked", "expired", "private", "forbidden"}
            /\ work[c].why = "revoked" => a \notin granted
            /\ work[c].why # "expired"
            /\ work[c].why \in {"private", "forbidden"} => work[c].call = "comments"
        BY <1>1, <3>1, ToldRevoked
      <3>3. QED BY <3>1, <3>2
    <2>3. ASSUME NEW b \in Accounts, NoAccountLeft(c, b)
          PROVE  a \notin registered \/ faults' # faults
      <3>1. a = b /\ (a \notin registered \/ Fault)
        BY <1>1, <2>3 DEF NoAccountLeft
      <3>2. Fault => faults' # faults
        BY <1>1 DEF Fault, Inv, TypeOK
      <3>3. QED BY <3>1, <3>2
    <2>4. QED BY <2>1, <2>2, <2>3
  <1>2. Inv /\ [Next]_vars =>
          [\A a \in activities \ activities' :
               \/ a \notin registered \/ faults' # faults
               \/ \E c \in Consumers :
                    /\ work[c].kind = "live" /\ work[c].account = a
                    /\ \/ work[c].why = "revoked" /\ a \notin granted
                       \/ work[c].why \in {"private", "forbidden"} /\ work[c].call = "comments"]_vars
    BY <1>1
  <1>3. QED BY <1>2, InvAlways, PTL DEF Spec, ActivityForCause

(* No watcher is deleted for a token that was seen to when the job began   *)
(* or in the minute before.                                                *)
THEOREM WatcherCorrect == Spec => WatcherForCause
  <1>1. ASSUME Inv, [Next]_vars, NEW a \in watching \ watching'
        PROVE  \E c \in Consumers :
                 /\ work[c].kind = "subreddit" /\ a \in work[c].listed
                 /\ \/ work[c].why = "gone"
                    \/ /\ work[c].account = a
                       /\ \/ work[c].why \in {"private", "forbidden"}
                          \/ work[c].why = "revoked" /\ a \notin granted
                          \/ work[c].why = "expired" /\ a \in work[c].late
    <2>1. PICK c \in Consumers : DeleteWatcher(c) \/ DeleteWatchers(c)
      BY <1>1, Deleting
    <2>2. CASE DeleteWatcher(c)
      <3>1. work[c].account = a /\ work[c].kind = "subreddit" /\ Told(work[c])
        BY <1>1, <2>2 DEF DeleteWatcher, Has, Told
      <3>2. /\ work[c].why \in {"revoked", "expired", "private", "forbidden"}
            /\ work[c].why = "revoked" => a \notin granted
            /\ a \in work[c].listed
            /\ work[c].why = "expired" => a \in work[c].late
        BY <1>1, <3>1, ToldRevoked
      <3>3. QED BY <3>1, <3>2
    <2>3. CASE DeleteWatchers(c)
      <3>1. a \in work[c].listed /\ work[c].at = "react" /\ work[c].error = "notFound"
            /\ work[c].call = "new"
        BY <1>1, <2>3 DEF DeleteWatchers, Has
      <3>2. work[c].why = "gone" /\ work[c].call \in CallsOf(work[c].kind)
            /\ work[c].kind \in Kinds
        BY <1>1, <3>1, GoodNow DEF Good, Tended, Informed, Jobs
      <3>3. work[c].kind = "subreddit"
        BY <3>1, <3>2 DEF CallsOf, Kinds
      <3>4. QED BY <3>1, <3>2, <3>3
    <2>4. QED BY <2>1, <2>2, <2>3
  <1>2. Inv /\ [Next]_vars =>
          [\A a \in watching \ watching' :
               \E c \in Consumers :
                 /\ work[c].kind = "subreddit" /\ a \in work[c].listed
                 /\ \/ work[c].why = "gone"
                    \/ /\ work[c].account = a
                       /\ \/ work[c].why \in {"private", "forbidden"}
                          \/ work[c].why = "revoked" /\ a \notin granted
                          \/ work[c].why = "expired" /\ a \in work[c].late]_vars
    BY <1>1
  <1>3. QED BY <1>2, InvAlways, PTL DEF Spec, WatcherForCause
=============================================================================
