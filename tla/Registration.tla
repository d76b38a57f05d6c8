---------------------------- MODULE Registration ----------------------------
(***************************************************************************)
(* Which accounts a device is pushed for.  The API's requests register,    *)
(* replace and remove them, one statement at a time and in no transaction; *)
(* the notifications jobs delete an account whose grant Reddit calls       *)
(* revoked, and a device that APNs rejects.  Both act on copies.           *)
(*                                                                         *)
(* A device is known by its token and has a new row number each time it is *)
(* registered anew; deleting the row deletes its associations (ON DELETE   *)
(* CASCADE).  An account's row is never deleted, only marked.              *)
(***************************************************************************)
EXTENDS Naturals

CONSTANTS
    Tokens,     \* APNs tokens of devices
    Accounts,   \* Reddit accounts; each has one row (and one spelling)
    Handlers,   \* goroutines of the API, each with a request to serve
    Workers,    \* notifications consumers
    NoOne,      \* no account, no token
    MaxRows,    \* bound: rows a token gets in a behaviour
    MaxRequests,    \* bound: requests in a behaviour
    MaxFaults   \* bound: failed statements and crashes in a behaviour

ASSUME RegistrationAssumption ==
    NoOne \notin Tokens \cup Accounts /\ {MaxRows, MaxRequests, MaxFaults} \subseteq Nat

VARIABLES
    device,     \* number of a token's row; 0: none
    rows,       \* rows a token has had
    known,      \* accounts that have a row
    deleted,    \* those whose row says is_deleted
    assoc,      \* devices_accounts, of the devices' present rows
    good,       \* accounts whose row holds a grant that Reddit honours
    req, job,   \* where a request and a job stand, and their copies
    begun, faults,  \* counters of the bounds
    granted,    \* history: accounts whose user has granted access since revoking it
    stale,      \* history: accounts registered while a job, or an older
                \*   registration, held an earlier grant
    wanted,     \* history: the associations last asked for
    doubt       \* history: associations about which nothing clear was asked

tables  == <<device, rows, known, deleted, assoc, good>>
history == <<granted, stale, wanted, doubt>>
vars    == <<tables, req, job, begun, faults, history>>

Pairs == Tokens \X Accounts

Of(t) == {t} \X Accounts
On(a) == Tokens \X {a}

Fault == faults < MaxFaults /\ faults' = faults + 1 /\ UNCHANGED begun
Calm  == UNCHANGED <<begun, faults>>

(* What GetByAPNSToken and the inbox jobs see: not the deleted accounts.   *)
Live   == {p \in assoc : p[2] \notin deleted}
Hidden == assoc \ Live

-----------------------------------------------------------------------------
(* A request: its device's row, the accounts it names and has yet to       *)
(* register, the one it is at and whether its grant holds, the ones it has *)
(* to drop, and whether it has been alone with what it is about.           *)
NoRequest == [at |-> "idle", kind |-> "none", token |-> NoOne, row |-> 0,
              named |-> {}, todo |-> {}, acct |-> NoOne, valid |-> FALSE,
              drop |-> {}, alone |-> TRUE]

(* A job: its account and whether its copy's grant holds; the devices it   *)
(* has read.  It writes associations from "detaching" on.                  *)
NoWork == [at |-> "idle", acct |-> NoOne, valid |-> FALSE, devs |-> {}, alone |-> TRUE]

Touches(q) ==
    CASE q.at = "idle"            -> {}
      [] q.kind \in {"register", "disassociate"} -> {q.token} \X q.named
      [] OTHER                    -> Of(q.token)

Detaches(j) == IF j.at = "detaching" THEN On(j.acct) ELSE {}

Meets(S) == \/ \E r \in Handlers : Touches(req[r]) \cap S # {}
            \/ \E k \in Workers : Detaches(job[k]) \cap S # {}

(* The others that are about S are not alone any more.                     *)
Disturbed(S) ==
    [r \in Handlers |-> IF Touches(req[r]) \cap S # {}
                          THEN [req[r] EXCEPT !.alone = FALSE] ELSE req[r]]
DisturbedJobs(S) ==
    [k \in Workers |-> IF Detaches(job[k]) \cap S # {}
                         THEN [job[k] EXCEPT !.alone = FALSE] ELSE job[k]]

-----------------------------------------------------------------------------
(* The user revokes the app's access: no copy of a grant holds.            *)
Revoke(a) ==
    /\ a \in known
    /\ good' = good \ {a}
    /\ granted' = granted \ {a}
    /\ req' = [r \in Handlers |-> IF req[r].acct = a
                                    THEN [req[r] EXCEPT !.valid = FALSE] ELSE req[r]]
    /\ job' = [k \in Workers |-> IF job[k].acct = a
                                   THEN [job[k] EXCEPT !.valid = FALSE] ELSE job[k]]
    /\ Calm /\ UNCHANGED <<device, rows, known, deleted, assoc, stale, wanted, doubt>>

(* upsertDeviceHandler: one statement.                                     *)
UpsertDevice(t) ==
    /\ device[t] = 0 /\ rows[t] < MaxRows
    /\ rows' = [rows EXCEPT ![t] = @ + 1]
    /\ device' = [device EXCEPT ![t] = rows[t] + 1]
    /\ Calm /\ UNCHANGED <<known, deleted, assoc, good, req, job, history>>

(* The row goes, and the associations with it.                             *)
DeleteRowOnly(t) ==
    /\ device' = [device EXCEPT ![t] = 0]
    /\ UNCHANGED assoc
DeleteDevice(t) ==
    /\ device' = [device EXCEPT ![t] = 0]
    /\ assoc' = assoc \ Of(t)

-----------------------------------------------------------------------------
(* Every request starts by reading the device's row, and is refused if     *)
(* there is none.                                                          *)
Begin(r, kind, t, S, at) ==
    /\ req[r].at = "idle" /\ device[t] # 0
    /\ LET q == [NoRequest EXCEPT !.at = at, !.kind = kind, !.token = t,
                   !.row = device[t], !.named = S,
                   !.todo = IF kind \in {"register", "bulk"} THEN S ELSE {}]
       IN  /\ req' = [Disturbed(Touches(q)) EXCEPT ![r] = [q EXCEPT !.alone = ~Meets(Touches(q))]]
           /\ job' = DisturbedJobs(Touches(q))
    /\ begun < MaxRequests /\ begun' = begun + 1
    /\ UNCHANGED <<tables, faults, history>>

Becomes(r, q) == req' = [req EXCEPT ![r] = q]
NoJobStep == UNCHANGED job

(* On to the next account, or to the ones to drop.                         *)
Onward(q) == [q EXCEPT !.acct = NoOne, !.valid = FALSE,
                !.at = IF q.todo # {} THEN "reddit"
                       ELSE IF q.drop # {} THEN "drop"
                       ELSE IF q.kind = "delete" THEN "remove" ELSE "answer"]

(* It goes on or answers 200: then what was asked is clear, if no other    *)
(* was about it meanwhile.                                                 *)
Asked(q) == IF q.kind \in {"register", "bulk"} THEN {q.token} \X q.named ELSE {}

Goes(r, q) ==
    IF q.at # "answer" THEN Becomes(r, q) /\ UNCHANGED <<wanted, doubt>>
    ELSE /\ Becomes(r, NoRequest)
         /\ IF q.alone
              THEN /\ wanted' = (wanted \ Touches(q)) \cup Asked(q)
                   /\ doubt' = doubt \ (Touches(q) \ Hidden')
              ELSE UNCHANGED wanted /\ doubt' = doubt \cup Touches(q)

(* accountRepo.GetByAPNSToken: the accounts of the device; a bulk          *)
(* registration will drop those it does not name.                          *)
DroppedAll(q) == {a \in Accounts : <<q.token, a>> \in Live}
Dropped(q) == {a \in Accounts \ q.named : <<q.token, a>> \in Live}

ReadAccounts(r) ==
    /\ req[r].at = "accounts"
    /\ UNCHANGED tables
    /\ Goes(r, Onward([req[r] EXCEPT !.drop = Dropped(req[r])]))
    /\ Calm /\ NoJobStep /\ UNCHANGED <<granted, stale>>

(* accountRepo.GetByRedditID, for a request to disassociate it.            *)
ReadAccount(r) ==
    /\ req[r].at = "account" /\ req[r].named \subseteq known \ deleted
    /\ Becomes(r, Onward([req[r] EXCEPT !.drop = req[r].named]))
    /\ Calm /\ NoJobStep /\ UNCHANGED <<tables, history>>

(* registerAccount: Reddit refreshes the tokens, names the user and shows  *)
(* the inbox.                                                              *)
Vouch(r) ==
    /\ req[r].at = "reddit"
    /\ \E a \in req[r].todo :
        Becomes(r, [req[r] EXCEPT !.at = "store", !.acct = a, !.valid = TRUE])
    /\ Calm /\ NoJobStep /\ UNCHANGED <<tables, history>>

(* accountRepo.CreateOrUpdate.  Associations that the account's deletion   *)
(* left behind come back.                                                  *)
StillDeleted(a) == deleted
Undeleted(a) == deleted \ {a}

StoredIfNew(a, S, v) == IF v /\ a \notin known THEN S \cup {a} ELSE S
Stored(a, S, v) == IF v THEN S \cup {a} ELSE S \ {a}

Store(r) ==
    LET a == req[r].acct
        v == req[r].valid
    IN  /\ req[r].at = "store"
        /\ known' = known \cup {a} /\ deleted' = Undeleted(a)
        /\ good' = Stored(a, good, v)
        /\ granted' = IF v THEN granted \cup {a} ELSE granted
        /\ stale' = IF \/ \E k \in Workers : job[k].acct = a
                       \/ ~v /\ a \in granted
                      THEN stale \cup {a} ELSE stale \ {a}
        /\ req' = [Disturbed(Hidden \cap On(a)) EXCEPT ![r] = [req[r] EXCEPT !.at = "associate"]]
        /\ Calm /\ NoJobStep /\ UNCHANGED <<device, rows, assoc, wanted, doubt>>

(* accountRepo.Associate.                                                  *)
Associate(r) ==
    LET q == req[r] IN
        /\ q.at = "associate" /\ device[q.token] = q.row
        /\ assoc' = assoc \cup {<<q.token, q.acct>>}
        /\ UNCHANGED <<device, rows, known, deleted, good, granted, stale>>
        /\ Goes(r, Onward([q EXCEPT !.todo = @ \ {q.acct}]))
        /\ Calm /\ NoJobStep

(* accountRepo.Disassociate, by the number of the device's row.            *)
Drop(r, a) ==
    LET q == req[r] IN
        /\ q.at = "drop" /\ a \in q.drop
        /\ assoc' = IF device[q.token] = q.row THEN assoc \ {<<q.token, a>>} ELSE assoc
        /\ UNCHANGED <<device, rows, known, deleted, good, granted, stale>>
        /\ Goes(r, Onward([q EXCEPT !.drop = @ \ {a}]))
        /\ Calm /\ NoJobStep

(* deviceRepo.Delete, by token.                                            *)
Remove(r) ==
    /\ req[r].at = "remove"
    /\ DeleteDevice(req[r].token)
    /\ UNCHANGED <<rows, known, deleted, good, granted, stale>>
    /\ Goes(r, [req[r] EXCEPT !.at = "answer"])
    /\ Calm /\ NoJobStep

(* Any other answer, or none.                                              *)
Fails(r) ==
    /\ doubt' = IF req[r].at \in {"account", "accounts"} THEN doubt
                ELSE doubt \cup Touches(req[r])
    /\ Becomes(r, NoRequest)
    /\ NoJobStep /\ UNCHANGED <<tables, granted, stale, wanted>>

(* The account to disassociate is not there; Reddit refuses; the device's  *)
(* row is gone and the foreign key fails.                                  *)
Refused(r) ==
    /\ \/ req[r].at = "account" /\ ~(req[r].named \subseteq known \ deleted)
       \/ req[r].at = "reddit"
       \/ req[r].at = "associate" /\ device[req[r].token] # req[r].row
    /\ Calm /\ Fails(r)

(* A statement fails, the client leaves, or the API dies.                  *)
RequestFails(r) ==
    /\ req[r].at # "idle"
    /\ Fault /\ Fails(r)

(* But the errors of a bulk registration's Disassociate, and those of a    *)
(* device's deletion, are dropped.                                         *)
DropFails(r) ==
    LET q == [req[r] EXCEPT !.alone = FALSE] IN
        /\ q.kind \in {"bulk", "delete"}
        /\ UNCHANGED <<tables, granted, stale>>
        /\ \/ q.at = "drop" /\ \E a \in q.drop : Goes(r, Onward([q EXCEPT !.drop = @ \ {a}]))
           \/ q.at = "remove" /\ Goes(r, [q EXCEPT !.at = "answer"])
        /\ Fault /\ NoJobStep

-----------------------------------------------------------------------------
Runs(k, j) == job' = [job EXCEPT ![k] = j]
NoRequestStep == UNCHANGED req

(* The devices of an account, by their rows' numbers.                      *)
Rows(a) == {<<p[1], device[p[1]]>> : p \in assoc \cap On(a)}

(* enqueueAccounts' condition.                                             *)
Polled(a) == \E t \in Tokens : <<t, a>> \in Live

(* The queue hands out an account that was polled a moment ago;            *)
(* accountRepo.GetByRedditID.                                              *)
StartJob(k, a) ==
    /\ job[k].at = "idle" /\ a \in known \ deleted
    /\ Runs(k, [NoWork EXCEPT !.at = "refresh", !.acct = a, !.valid = a \in good])
    /\ Calm /\ NoRequestStep /\ UNCHANGED <<tables, history>>

(* RefreshTokens, if the access token is about to expire, and the inbox:   *)
(* Reddit honours the grant of the job's copy or calls it revoked.         *)
Refresh(k) ==
    /\ job[k].at = "refresh"
    /\ \E at \in {"inbox"} \cup {x \in {"save"} : job[k].valid} :
        Runs(k, [job[k] EXCEPT !.at = at])
    /\ Calm /\ NoRequestStep /\ UNCHANGED <<tables, history>>

Inbox(k) ==
    /\ job[k].at = "inbox" /\ job[k].valid
    /\ \/ Runs(k, NoWork)
       \/ \E at \in {"mark", "devices"} : Runs(k, [job[k] EXCEPT !.at = at])
    /\ Calm /\ NoRequestStep /\ UNCHANGED <<tables, history>>

(* deleteAccount starts with deviceRepo.GetByAccountID.                    *)
DetachNothing(k) ==
    /\ job[k].at \in {"refresh", "inbox"} /\ ~job[k].valid
    /\ Runs(k, NoWork)
    /\ Calm /\ NoRequestStep /\ UNCHANGED <<tables, history>>
Detach(k) ==
    LET a == job[k].acct IN
        /\ job[k].at \in {"refresh", "inbox"} /\ ~job[k].valid
        /\ job' = [DisturbedJobs(On(a)) EXCEPT ![k] =
             [job[k] EXCEPT !.at = "detaching", !.alone = ~Meets(On(a)), !.devs = Rows(a)]]
        /\ req' = Disturbed(On(a))
        /\ Calm /\ UNCHANGED <<tables, history>>

(* accountRepo.Update writes the whole copy, for the new tokens and for    *)
(* the cursor; the first poll of an account ends there.                    *)
Save(k) ==
    /\ job[k].at \in {"save", "mark"}
    /\ good' = Stored(job[k].acct, good, job[k].valid)
    /\ \/ Runs(k, [job[k] EXCEPT !.at = IF job[k].at = "save" THEN "inbox" ELSE "devices"])
       \/ job[k].at = "mark" /\ Runs(k, NoWork)
    /\ Calm /\ NoRequestStep /\ UNCHANGED <<device, rows, known, deleted, assoc, history>>

(* deviceRepo.GetInboxNotifiableByAccountID.                               *)
ReadDevices(k) ==
    /\ job[k].at = "devices"
    /\ LET D == Rows(job[k].acct) IN
         Runs(k, IF D = {} THEN NoWork ELSE [job[k] EXCEPT !.at = "push", !.devs = D])
    /\ Calm /\ NoRequestStep /\ UNCHANGED <<tables, history>>

(* APNs rejects a device: it is deleted, by token.  (Every message is      *)
(* pushed to every device that was read.)                                  *)
Reject(k, d) ==
    /\ job[k].at = "push" /\ d \in job[k].devs
    /\ DeleteDevice(d[1])
    /\ wanted' = wanted \ Of(d[1])
    /\ doubt' = doubt \ Of(d[1])
    /\ req' = Disturbed(Of(d[1])) /\ job' = DisturbedJobs(Of(d[1]))
    /\ Calm /\ UNCHANGED <<rows, known, deleted, good, granted, stale>>

EndPushes(k) ==
    /\ job[k].at = "push"
    /\ Runs(k, NoWork)
    /\ Calm /\ NoRequestStep /\ UNCHANGED <<tables, history>>

(* deleteAccount: one Disassociate for each device ...                     *)
Disassociate(k, d) ==
    /\ job[k].at = "detaching" /\ d \in job[k].devs
    /\ assoc' = IF device[d[1]] = d[2] THEN assoc \ {<<d[1], job[k].acct>>} ELSE assoc
    /\ Runs(k, [job[k] EXCEPT !.devs = @ \ {d}])
    /\ Calm /\ NoRequestStep /\ UNCHANGED <<device, rows, known, deleted, good, history>>

(* ... and accountRepo.Delete.                                             *)
DeleteAccount(k) ==
    LET a == job[k].acct IN
        /\ job[k].at = "detaching" /\ job[k].devs = {}
        /\ deleted' = deleted \cup {a}
        /\ IF job[k].alone
             THEN wanted' = wanted \ On(a) /\ doubt' = doubt \ On(a)
             ELSE doubt' = doubt \cup On(a) /\ UNCHANGED wanted
        /\ Runs(k, NoWork)
        /\ Calm /\ NoRequestStep
        /\ UNCHANGED <<device, rows, known, assoc, good, granted, stale>>

(* Reddit does not answer, a statement fails, or the worker dies and the   *)
(* account is polled again later.                                          *)
JobFails(k) ==
    /\ job[k].at # "idle"
    /\ doubt' = doubt \cup Detaches(job[k])
    /\ Runs(k, NoWork)
    /\ Fault /\ NoRequestStep /\ UNCHANGED <<tables, granted, stale, wanted>>

-----------------------------------------------------------------------------
Init ==
    /\ device = [t \in Tokens |-> 0] /\ rows = [t \in Tokens |-> 0]
    /\ known = {} /\ deleted = {} /\ assoc = {} /\ good = {}
    /\ req = [r \in Handlers |-> NoRequest]
    /\ job = [k \in Workers |-> NoWork]
    /\ begun = 0 /\ faults = 0
    /\ granted = {} /\ stale = {} /\ wanted = {} /\ doubt = {}

NewRequest(r) ==
    \E t \in Tokens :
        \/ \E a \in Accounts :
            \/ Begin(r, "register", t, {a}, "reddit")
            \/ Begin(r, "disassociate", t, {a}, "account")
        \/ \E S \in SUBSET Accounts : Begin(r, "bulk", t, S, "accounts")
        \/ Begin(r, "delete", t, {}, "accounts")

RequestStep(r) ==
    \/ ReadAccounts(r) \/ ReadAccount(r) \/ Vouch(r) \/ Store(r) \/ Associate(r)
    \/ \E a \in Accounts : Drop(r, a)
    \/ Remove(r) \/ Refused(r)

JobStep(k) ==
    \/ Refresh(k) \/ Save(k) \/ Inbox(k) \/ ReadDevices(k) \/ EndPushes(k)
    \/ Detach(k) \/ DeleteAccount(k)
    \/ \E d \in job[k].devs : Reject(k, d) \/ Disassociate(k, d)

Next ==
    \/ \E t \in Tokens : UpsertDevice(t)
    \/ \E a \in Accounts : Revoke(a)
    \/ \E r \in Handlers : NewRequest(r) \/ RequestStep(r) \/ RequestFails(r) \/ DropFails(r)
    \/ \E k \in Workers :
        \/ \E a \in Accounts : StartJob(k, a)
        \/ JobStep(k) \/ JobFails(k)

Spec == Init /\ [][Next]_vars

(* A job that has begun goes on.  An account that is polled again and      *)
(* again gets its job (WorkedAgain, in LockedJobs).                        *)
Fairness ==
    \A k \in Workers :
        /\ WF_vars(JobStep(k))
        /\ \A a \in Accounts : SF_vars(Polled(a) /\ StartJob(k, a))

FairSpec == Spec /\ Fairness

-----------------------------------------------------------------------------
(* Every variable holds what its declaration says.                         *)
RequestRecords ==
    [at : {"idle", "account", "accounts", "reddit", "store", "associate", "drop",
           "remove"},
     kind : {"none", "register", "bulk", "disassociate", "delete"},
     token : Tokens \cup {NoOne}, row : 0..MaxRows,
     named : SUBSET Accounts, todo : SUBSET Accounts, acct : Accounts \cup {NoOne},
     valid : BOOLEAN, drop : SUBSET Accounts, alone : BOOLEAN]

WorkRecords ==
    [at : {"idle", "refresh", "save", "inbox", "mark", "devices", "push", "detaching"},
     acct : Accounts \cup {NoOne}, valid : BOOLEAN,
     devs : SUBSET (Tokens \X (1..MaxRows)), alone : BOOLEAN]

TypeOK ==
    /\ device \in [Tokens -> 0..MaxRows] /\ rows \in [Tokens -> 0..MaxRows]
    /\ \A t \in Tokens : device[t] \in {0, rows[t]}
    /\ known \subseteq Accounts /\ deleted \subseteq known /\ good \subseteq known
    /\ assoc \subseteq Pairs
    /\ \A p \in assoc : device[p[1]] # 0 /\ p[2] \in known
    /\ req \in [Handlers -> RequestRecords] /\ job \in [Workers -> WorkRecords]
    /\ \A r \in Handlers : req[r].at \in {"store", "associate"} <=> req[r].acct # NoOne
    /\ begun \in 0..MaxRequests /\ faults \in 0..MaxFaults
    /\ granted \subseteq known /\ stale \subseteq known
    /\ wanted \subseteq Pairs /\ doubt \subseteq Pairs

(* A device is pushed for the accounts its requests have last asked for,   *)
(* those excepted that Reddit, or APNs, has called dead since: whatever    *)
(* was undone, dropped, deleted or brought back on the way, by this device *)
(* or another.  It is known only for associations that no request or job   *)
(* is about to change, that were last changed by one that was alone and    *)
(* did not fail, and that no deletion of the account has left behind.      *)
AsAsked ==
    \A p \in Pairs \ doubt : ~Meets({p}) => (p \in Live <=> p \in wanted)

(* An account is deleted because its user has revoked access and not       *)
(* granted it again: or because a job, or a registration, worked with a    *)
(* grant that was revoked while another registration was under way.        *)
DeletedForCause ==
    [][\A k \in Workers :
         DeleteAccount(k) /\ job[k].acct \in granted => job[k].acct \in stale]_vars

(* An account whose grant is revoked is polled no more in the end, even if *)
(* its deletion stops half way: or it is registered again.                 *)
RevokedStops ==
    \A a \in Accounts : (Polled(a) /\ a \notin good) ~> (~Polled(a) \/ a \in good)
=============================================================================
