----------------------------- MODULE RedditClient -----------------------------
(***************************************************************************)
(* What an answer of Reddit means to the program.  A call is made up to    *)
(* five times, its last answer becomes an error by a map from status       *)
(* codes, and for some errors a consumer deletes an account, a live        *)
(* activity or watchers.  401 and 403 are the same error, "revoked",       *)
(* whether the user took the grant back, the access token expired, the     *)
(* community is private or Reddit refuses the caller: only what is asked,  *)
(* with which token and when, keeps these apart.                           *)
(*                                                                         *)
(* The clock counts minutes.  An attempt takes 4 s at most, the timeout of *)
(* the HTTP client, and a call with its pauses less than 24 s.             *)
(***************************************************************************)
EXTENDS Naturals, FiniteSets

CONSTANTS
    Consumers,
    Accounts,   \* each with a live activity and a watcher of the subreddit
    NoAccount,  \* work[c].account when there is none
    Serves,     \* the kinds of jobs that a consumer takes
    Retries,    \* attempts after the first; four in the code
    Life,       \* minutes that an access token lives
    Expiries,   \* when tokens of the past may expire
    MaxTime,    \* bound: the clock stops there
    MaxChanges, \* bound: what users and Reddit change in a behaviour
    MaxFaults   \* bound: attempts and statements that fail in a behaviour

ASSUME RedditClientAssumption ==
    /\ NoAccount \notin Accounts
    /\ Serves \in [Consumers -> SUBSET {"inbox", "live", "stuck", "subreddit"}]
    /\ {Retries, Life, MaxTime, MaxChanges, MaxFaults} \subseteq Nat
    /\ Life >= 5 /\ MaxTime >= 2 /\ Expiries \subseteq Nat

VARIABLES
    now,        \* the clock
    granted,    \* accounts whose grant stands
    place,      \* the subreddit: "public", "private" or "gone"
    forbidden,  \* TRUE while Reddit answers 403 to whatever it is asked
    registered, \* accounts that are not deleted
    attached,   \* accounts with a device
    expires,    \* token_expires_at in an account's row
    activities, \* accounts with a live activity
    watching,   \* accounts with a watcher
    work,       \* where a consumer stands, and its copies
    tended,     \* history: start of the last job that saw to the row's token,
                \* 0 when an older one was written over it
    changes, faults  \* counters of the bounds

reddit == <<granted, place, forbidden>>
rows   == <<registered, attached, expires, activities, watching>>
vars   == <<now, reddit, rows, work, tended, changes, faults>>

Fault == faults < MaxFaults /\ faults' = faults + 1
Calm  == UNCHANGED faults

-----------------------------------------------------------------------------
(* What is asked: the token endpoint, an inbox or one thing, a listing of  *)
(* the community.                                                          *)
OfPlace == {"comments", "new", "hot"}
Calls   == {"token", "own"} \cup OfPlace

(* What may stand against a call, and the status that tells of it.         *)
Obstacles == {"revoked", "expired", "private", "gone", "forbidden"}

Holds(obstacle, call, a, token) ==
    CASE obstacle = "revoked"   -> a \notin granted
      [] obstacle = "expired"   -> call # "token" /\ token <= now
      [] obstacle = "forbidden" -> forbidden
      [] OTHER                  -> call \in OfPlace /\ place = obstacle

Truth(call, a, token) ==
    LET held == {o \in Obstacles : Holds(o, call, a, token)}
    IN  IF held = {} THEN {"fine"} ELSE held

Status(call, truth) ==
    CASE truth = "fine"                      -> 200
      [] truth = "revoked" /\ call = "token" -> 400
      [] truth \in {"revoked", "expired"} /\ call # "token" -> 401
      [] truth = "gone"                      -> 404
      [] OTHER                               -> 403

(* One map for all calls, with the status of either.                       *)
ErrorOneMap(call, status) ==
    CASE status = 200               -> "none"
      [] status \in {400, 401, 403} -> "revoked"
      [] status = 404               -> "notFound"
      [] OTHER                      -> "other"

(* defaultErrorMap for all calls.                                          *)
ErrorDefaultMap(call, status) ==
    CASE status = 200                             -> "none"
      [] call # "token" /\ status \in {401, 403}  -> "revoked"
      [] call # "token" /\ status = 404           -> "notFound"
      [] OTHER                                    -> "other"

(* defaultErrorMap, and the map of RefreshTokens.                          *)
Error(call, status) ==
    CASE status = 200                             -> "none"
      [] call = "token" /\ status = 400           -> "revoked"
      [] call # "token" /\ status \in {401, 403}  -> "revoked"
      [] call # "token" /\ status = 404           -> "notFound"
      [] OTHER                                    -> "other"

-----------------------------------------------------------------------------
Kinds == {"inbox", "live", "stuck", "subreddit"}

Main(kind) == CASE kind \in {"inbox", "stuck"} -> "own"
                [] kind = "live"               -> "comments"
                [] kind = "subreddit"          -> "new"

(* How many minutes may end while a job makes its calls: six (five pages   *)
(* of new posts and one of hot ones), three, or two.                       *)
Span(kind) == CASE kind = "subreddit" -> 3 [] kind = "stuck" -> 2 [] OTHER -> 1

(* A job has copies of the rows it read: the listed accounts' tokens, by   *)
(* their expiry.  late is history: the tokens nobody had seen to when the  *)
(* job began, nor in the minute before.                                    *)
Idle == [at |-> "idle", kind |-> "inbox", account |-> NoAccount, start |-> 0,
         listed |-> {}, copy |-> [a \in Accounts |-> 0], late |-> {},
         call |-> "own", tries |-> 0, error |-> "none", why |-> "fine"]

Becomes(c, j) == work' = [work EXCEPT ![c] = j]

Ask(j, call) == [j EXCEPT !.at = "ask", !.call = call, !.tries = 0,
                          !.error = "none", !.why = "fine"]

Job(kind, a, listed) ==
    [Idle EXCEPT !.kind = kind, !.account = a, !.start = now, !.listed = listed,
                 !.copy = [b \in Accounts |-> IF b \in listed THEN expires[b] ELSE 0]]

(* A job that waits for the token to expire, and one with a small margin.  *)
StaleOnceExpired(token) == token < now
StaleByAMinute(token)   == token < now + 1

Stale(token) == token < now + 5

-----------------------------------------------------------------------------
(* A minute passes; nobody has been at its calls for too long.             *)
Tick ==
    /\ now < MaxTime
    /\ \A c \in Consumers :
         work[c].at # "idle" => now < work[c].start + Span(work[c].kind)
    /\ now' = now + 1
    /\ UNCHANGED <<reddit, rows, work, tended, changes, faults>>

Change ==
    /\ changes < MaxChanges /\ changes' = changes + 1
    /\ UNCHANGED <<now, rows, work, tended, faults>>

Revoke(a) ==
    /\ Change
    /\ a \in granted
    /\ granted' = granted \ {a}
    /\ UNCHANGED <<place, forbidden>>

(* What becomes of the community, and of the gate in front of Reddit.      *)
Move ==
    /\ Change
    /\ place' \in {"public", "private", "gone"} \ {place}
    /\ UNCHANGED <<granted, forbidden>>

Gate ==
    /\ Change
    /\ forbidden' = ~forbidden
    /\ UNCHANGED <<granted, place>>

-----------------------------------------------------------------------------
(* A job's steps leave the clock and Reddit alone.                         *)
Inside == UNCHANGED <<now, reddit, changes>>
Reads  == Inside /\ UNCHANGED rows

(* GetByRedditID, and the first call: for new tokens when the old ones are *)
(* about to expire.                                                        *)
Check(c, kind, a) ==
    /\ work[c].at = "idle"
    /\ a \in registered
    /\ IF Stale(expires[a])
         THEN Becomes(c, Ask(Job(kind, a, {a}), "token")) /\ UNCHANGED tended
         ELSE /\ Becomes(c, Ask(Job(kind, a, {a}), Main(kind)))
              /\ tended' = [tended EXCEPT ![a] = now]
    /\ Reads /\ Calm

CheckInbox(c, a)    == Check(c, "inbox", a)
CheckActivity(c, a) == a \in activities /\ Check(c, "live", a)

(* An activity whose account is gone, or cannot be read, is deleted.       *)
NoAccountLeft(c, a) ==
    /\ work[c].at = "idle"
    /\ a \in activities
    /\ (a \notin registered /\ Calm) \/ Fault
    /\ activities' = activities \ {a}
    /\ Inside /\ UNCHANGED <<registered, attached, expires, watching, work, tended>>

(* GetByID; the tokens are used as they are.                               *)
CheckStuck(c, a) ==
    /\ work[c].at = "idle"
    /\ a \in registered
    /\ Becomes(c, Ask(Job("stuck", a, {a}), "own"))
    /\ Reads /\ Calm /\ UNCHANGED tended

(* GetBySubredditID, with the tokens of the watchers' accounts, deleted    *)
(* ones as well; any of them is taken for the first page.                  *)
CheckSubreddit(c, a) ==
    /\ work[c].at = "idle"
    /\ a \in watching
    /\ Becomes(c, Ask([Job("subreddit", a, watching) EXCEPT
                         !.late = {b \in watching : tended[b] + 1 < now}], "new"))
    /\ Reads /\ Calm /\ UNCHANGED tended

-----------------------------------------------------------------------------
(* A call that is made until it succeeds.                                  *)
SettledBySuccess(tries, error) ==
    error = "none" \/ (tries = 0 /\ error = "revoked")

(* What ends the attempts of a call.                                       *)
Settled(tries, error) ==
    error = "none" \/ (tries = 0 /\ error = "revoked") \/ tries = Retries

(* The truth behind an answer is remembered while the job may act on it.   *)
Done(j, why, error) ==
    [j EXCEPT !.at = "react", !.tries = 0, !.error = error, !.why = why]

Heard(j, why, error) ==
    IF Settled(j.tries, error)
      THEN Done(j, IF error = "other" THEN "trouble" ELSE why, error)
      ELSE [j EXCEPT !.tries = @ + 1]

(* One attempt: Reddit tells how things stand, ...                         *)
Attempt(c) ==
    LET j == work[c] IN
    /\ j.at = "ask"
    /\ \E truth \in Truth(j.call, j.account, j.copy[j.account]) :
         Becomes(c, Heard(j, truth, Error(j.call, Status(j.call, truth))))
    /\ Reads /\ Calm /\ UNCHANGED tended

(* ... has had too many requests, fails or does not answer in time, ...    *)
AttemptFails(c) ==
    LET j == work[c] IN
    /\ j.at = "ask"
    /\ \E status \in {429, 500, 0} : Becomes(c, Heard(j, "trouble", Error(j.call, status)))
    /\ Reads /\ Fault /\ UNCHANGED tended

(* ... or sends what does not parse, and the job does not ask again.       *)
Garbled(c) ==
    LET j == work[c] IN
    /\ j.at = "ask"
    /\ Becomes(c, Done(j, "trouble", "other"))
    /\ Reads /\ Fault /\ UNCHANGED tended

-----------------------------------------------------------------------------
Has(c, error) == work[c].at = "react" /\ work[c].error = error /\ Inside

(* The new tokens are used, and saved unless the statement fails: that     *)
(* error is dropped.  They live as long as Reddit says from the job's      *)
(* start, which is on the safe side.                                       *)
Refreshed(c) ==
    LET j == work[c]
        until == [j.copy EXCEPT ![j.account] = j.start + Life] IN
    /\ Has(c, "none") /\ j.call = "token"
    /\ Becomes(c, Ask([j EXCEPT !.copy = until], Main(j.kind)))
    /\ \/ /\ expires' = [expires EXCEPT ![j.account] = j.start + Life]
          /\ tended' = [tended EXCEPT ![j.account] = j.start]
          /\ Calm
       \/ Fault /\ UNCHANGED <<expires, tended>>
    /\ UNCHANGED <<registered, attached, activities, watching>>

(* The stuck consumer asks up to three times.                              *)
LookAgain(c) ==
    /\ Has(c, "none") /\ work[c].kind = "stuck"
    /\ Becomes(c, Ask(work[c], "own"))
    /\ Calm /\ UNCHANGED <<rows, tended>>

(* A listing may move the cursor, and the whole row is written back with   *)
(* the tokens of the copy.                                                 *)
WriteBack(c) ==
    LET j == work[c] IN
    /\ Has(c, "none") /\ j.call = "own"
    /\ \/ /\ expires' = [expires EXCEPT ![j.account] = j.copy[j.account]]
          /\ tended' = IF expires'[j.account] < expires[j.account]
                         THEN [tended EXCEPT ![j.account] = 0] ELSE tended
       \/ UNCHANGED <<expires, tended>>
    /\ Becomes(c, Idle)
    /\ Calm /\ UNCHANGED <<registered, attached, activities, watching>>

(* After a page of new posts another one, or the hot ones, in the name of  *)
(* any watcher that was read.                                              *)
NextPage(c, a) ==
    /\ Has(c, "none") /\ work[c].call = "new"
    /\ a \in work[c].listed
    /\ \E call \in {"new", "hot"} : Becomes(c, Ask([work[c] EXCEPT !.account = a], call))
    /\ Calm /\ UNCHANGED <<rows, tended>>

(* The calls are over.                                                     *)
Listed(c) ==
    /\ Has(c, "none") /\ work[c].call \in {"comments", "hot"}
    /\ Becomes(c, Idle)
    /\ Calm /\ UNCHANGED <<rows, tended>>

(* deleteAccount takes the account off its devices, one by one, with the   *)
(* last of which it is not enqueued any more, ...                          *)
Detach(c) ==
    /\ Has(c, "revoked") /\ work[c].kind = "inbox"
    /\ attached' = attached \ {work[c].account}
    /\ Becomes(c, [work[c] EXCEPT !.at = "detached"])
    /\ Calm /\ UNCHANGED <<registered, expires, activities, watching, tended>>

(* ... and then marks its row.                                             *)
DeleteAccount(c) ==
    /\ work[c].at = "detached"
    /\ registered' = registered \ {work[c].account}
    /\ Becomes(c, Idle)
    /\ Inside /\ Calm /\ UNCHANGED <<attached, expires, activities, watching, tended>>

DeleteActivity(c) ==
    /\ Has(c, "revoked") /\ work[c].kind = "live"
    /\ activities' = activities \ {work[c].account}
    /\ Becomes(c, Idle)
    /\ Calm /\ UNCHANGED <<registered, attached, expires, watching, tended>>

(* The watcher in whose name the page was asked for.                       *)
DeleteWatcher(c) ==
    /\ Has(c, "revoked") /\ work[c].kind = "subreddit"
    /\ watching' = watching \ {work[c].account}
    /\ Becomes(c, Idle)
    /\ Calm /\ UNCHANGED <<registered, attached, expires, activities, tended>>

(* All that were read.                                                     *)
DeleteWatchers(c) ==
    /\ Has(c, "notFound") /\ work[c].call = "new"
    /\ watching' = watching \ work[c].listed
    /\ Becomes(c, Idle)
    /\ Calm /\ UNCHANGED <<registered, attached, expires, activities, tended>>

(* Any other error is logged.                                              *)
GiveUp(c) ==
    LET j == work[c] IN
    /\ \/ Has(c, "other")
       \/ Has(c, "revoked") /\ j.kind = "stuck"
       \/ Has(c, "notFound") /\ j.call # "new"
    /\ Becomes(c, Idle)
    /\ Calm /\ UNCHANGED <<rows, tended>>

(* So is that of a DELETE, where it is not dropped.  Before the last       *)
(* device is off an account the next poll deletes it again; when its row   *)
(* cannot be marked after that, no poll comes to it any more.              *)
DeleteFails(c) ==
    /\ Has(c, "revoked") \/ Has(c, "notFound") \/ (work[c].at = "detached" /\ Inside)
    /\ Becomes(c, Idle)
    /\ Fault /\ UNCHANGED <<rows, tended>>

(* The worker dies.                                                        *)
Crash(c) ==
    /\ work[c].at # "idle"
    /\ Becomes(c, Idle)
    /\ Reads /\ Fault /\ UNCHANGED tended

-----------------------------------------------------------------------------
Init ==
    /\ now = 2
    /\ granted = Accounts /\ place = "public" /\ forbidden = FALSE
    /\ registered = Accounts /\ attached = Accounts
    /\ activities = Accounts /\ watching = Accounts
    /\ expires \in [Accounts -> Expiries]
    /\ work = [c \in Consumers |-> Idle]
    /\ tended = [a \in Accounts |-> 0]
    /\ changes = 0 /\ faults = 0

Environment == (\E a \in Accounts : Revoke(a)) \/ Move \/ Gate

Begin(c) ==
    \E a \in Accounts :
        \/ "inbox" \in Serves[c] /\ CheckInbox(c, a)
        \/ "live" \in Serves[c] /\ (CheckActivity(c, a) \/ NoAccountLeft(c, a))
        \/ "stuck" \in Serves[c] /\ CheckStuck(c, a)
        \/ "subreddit" \in Serves[c] /\ CheckSubreddit(c, a)

JobStep(c) ==
    \/ Attempt(c)
    \/ Refreshed(c) \/ LookAgain(c) \/ WriteBack(c)
    \/ Listed(c) \/ \E a \in Accounts : NextPage(c, a)
    \/ Detach(c) \/ DeleteAccount(c)
    \/ DeleteActivity(c) \/ DeleteWatcher(c) \/ DeleteWatchers(c)
    \/ GiveUp(c)

JobFault(c) == AttemptFails(c) \/ Garbled(c) \/ DeleteFails(c) \/ Crash(c)

Next ==
    \/ Tick
    \/ Environment
    \/ \E c \in Consumers : Begin(c) \/ JobStep(c) \/ JobFault(c)

Spec == Init /\ [][Next]_vars

(* What enqueueAccounts finds: an account that has a device and is not     *)
(* deleted.  (What it found before may still be in the queue.)             *)
Polled(a) == a \in registered \cap attached

(* A poll that has begun goes on, and enqueueAccounts has every account it *)
(* finds polled again and again, by consumers that do nothing else.        *)
Fairness ==
    /\ \A c \in {c \in Consumers : "inbox" \in Serves[c]} : WF_vars(JobStep(c))
    /\ \A a \in Accounts : SF_vars(Polled(a) /\ \E c \in Consumers : CheckInbox(c, a))

FairSpec == Spec /\ Fairness

-----------------------------------------------------------------------------
(* Every variable holds what its declaration says.                         *)
Jobs == [at : {"idle", "ask", "react", "detached"}, kind : Kinds, account : Accounts \cup {NoAccount},
         start : 0..MaxTime, listed : SUBSET Accounts, copy : [Accounts -> Nat],
         late : SUBSET Accounts, call : Calls, tries : 0..Retries,
         error : {"none", "revoked", "notFound", "other"},
         why : Obstacles \cup {"fine", "trouble"}]

TypeOK ==
    /\ now \in 2..MaxTime
    /\ granted \subseteq Accounts /\ forbidden \in BOOLEAN
    /\ place \in {"public", "private", "gone"}
    /\ registered \subseteq Accounts /\ attached \subseteq Accounts
    /\ activities \subseteq Accounts /\ watching \subseteq Accounts
    /\ expires \in [Accounts -> Nat]
    /\ work \in [Consumers -> Jobs]
    /\ \A c \in Consumers : work[c].at # "idle" => work[c].account \in Accounts
    /\ tended \in [Accounts -> Nat]
    /\ changes \in 0..MaxChanges /\ faults \in 0..MaxFaults

(* An account is taken off its devices, or deleted, for a grant that is    *)
(* revoked, or because Reddit refused the listing of the inbox: never for  *)
(* a token that expired, a community, or trouble, though all of them can   *)
(* read as 401 or 403.                                                     *)
AccountForCause ==
    [][\A a \in (registered \ registered') \cup (attached \ attached') : \E c \in Consumers :
         /\ work[c].kind = "inbox" /\ work[c].account = a
         /\ \/ work[c].why = "revoked" /\ a \notin granted
            \/ work[c].why = "forbidden" /\ work[c].call = "own"]_vars

(* A live activity is deleted for that, for a private community or for an  *)
(* account that is not there.                                              *)
ActivityForCause ==
    [][\A a \in activities \ activities' :
         \/ a \notin registered \/ faults' # faults
         \/ \E c \in Consumers :
              /\ work[c].kind = "live" /\ work[c].account = a
              /\ \/ work[c].why = "revoked" /\ a \notin granted
                 \/ work[c].why \in {"private", "forbidden"} /\ work[c].call = "comments"]_vars

(* A watcher is deleted for a community that is gone, for one that is      *)
(* private, a grant that is revoked or Reddit's refusal when its own       *)
(* account asked, or for an expired token of its account: and that only    *)
(* when no job saw to the token in the minute before the subreddit's began.*)
WatcherForCause ==
    [][\A a \in watching \ watching' : \E c \in Consumers :
         /\ work[c].kind = "subreddit" /\ a \in work[c].listed
         /\ \/ work[c].why = "gone"
            \/ /\ work[c].account = a
               /\ \/ work[c].why \in {"private", "forbidden"}
                  \/ work[c].why = "revoked" /\ a \notin granted
                  \/ work[c].why = "expired" /\ a \in work[c].late]_vars

(* An account whose grant is revoked for good is polled no more in the     *)
(* end, whatever else fails, once Reddit tells what it knows.  (It need    *)
(* not be deleted: see DeleteFails.)                                       *)
RevokedIsLeft ==
    \A a \in Accounts : <>[](a \notin granted /\ ~forbidden) => <>[]~Polled(a)
=============================================================================
