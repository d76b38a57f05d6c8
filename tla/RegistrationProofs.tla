------------------------- MODULE RegistrationProofs -------------------------
(***************************************************************************)
(* Proofs about Registration, for any sets of tokens, accounts, handlers   *)
(* and workers and any numbers of rows, requests and faults.               *)
(***************************************************************************)
EXTENDS Registration, TLAPS

-----------------------------------------------------------------------------
(* Pairs, and what a request or a job is about.                            *)
LEMMA PairIs ==
    ASSUME NEW p \in Pairs
    PROVE  /\ p[1] \in Tokens /\ p[2] \in Accounts /\ p = <<p[1], p[2]>>
           /\ \A t : p \in Of(t) <=> p[1] = t
           /\ \A a : p \in On(a) <=> p[2] = a
BY DEF Pairs, Of, On

LEMMA PairOf ==
    /\ \A t \in Tokens : Of(t) \subseteq Pairs
    /\ \A a \in Accounts : On(a) \subseteq Pairs
    /\ \A t \in Tokens, a \in Accounts : <<t, a>> \in Pairs /\ <<t, a>>[1] = t /\ <<t, a>>[2] = a
BY DEF Pairs, Of, On

LEMMA TouchesIs ==
    ASSUME NEW q, q.named \subseteq Accounts, q.at # "idle" => q.token \in Tokens,
           q.at = "idle" => q.kind = "none"
    PROVE  /\ Touches(q) \subseteq Pairs
           /\ q.at = "idle" => Touches(q) = {}
           /\ \A p \in Pairs : p \in Touches(q) <=>
                /\ q.at # "idle" /\ p[1] = q.token
                /\ q.kind \in {"register", "disassociate"} => p[2] \in q.named
<1>1. CASE q.at = "idle"
  <2>1. Touches(q) = {}
    BY <1>1 DEF Touches
  <2> QED
    BY <1>1, <2>1
<1>2. CASE q.at # "idle" /\ q.kind \in {"register", "disassociate"}
  <2>1. Touches(q) = {q.token} \X q.named
    BY <1>2 DEF Touches
  <2> QED
    BY <1>2, <2>1 DEF Pairs
<1>3. CASE q.at # "idle" /\ q.kind \notin {"register", "disassociate"}
  <2>1. Touches(q) = Of(q.token)
    BY <1>3 DEF Touches
  <2> QED
    BY <1>3, <2>1, PairIs, PairOf
<1> QED
  BY <1>1, <1>2, <1>3

LEMMA DetachesIs ==
    ASSUME NEW j
    PROVE  \A p \in Pairs : p \in Detaches(j) <=> j.at = "detaching" /\ p[2] = j.acct
BY PairIs DEF Detaches

-----------------------------------------------------------------------------
(* Records with one field changed.                                         *)
RequestPlaces ==
    {"idle", "account", "accounts", "reddit", "store", "associate", "drop", "remove"}

WorkPlaces ==
    {"idle", "refresh", "save", "inbox", "mark", "devices", "push", "detaching"}

LEMMA RequestField ==
    ASSUME NEW q \in RequestRecords
    PROVE  /\ \A x \in RequestPlaces : [q EXCEPT !.at = x] \in RequestRecords
           /\ \A x \in Accounts \cup {NoOne} : [q EXCEPT !.acct = x] \in RequestRecords
           /\ \A x \in BOOLEAN : /\ [q EXCEPT !.valid = x] \in RequestRecords
                                 /\ [q EXCEPT !.alone = x] \in RequestRecords
           /\ \A x \in SUBSET Accounts : /\ [q EXCEPT !.todo = x] \in RequestRecords
                                         /\ [q EXCEPT !.drop = x] \in RequestRecords
BY DEF RequestRecords, RequestPlaces

LEMMA WorkField ==
    ASSUME NEW j \in WorkRecords
    PROVE  /\ \A x \in WorkPlaces : [j EXCEPT !.at = x] \in WorkRecords
           /\ \A x \in BOOLEAN : /\ [j EXCEPT !.valid = x] \in WorkRecords
                                 /\ [j EXCEPT !.alone = x] \in WorkRecords
           /\ \A x \in SUBSET (Tokens \X (1..MaxRows)) : [j EXCEPT !.devs = x] \in WorkRecords
BY DEF WorkRecords, WorkPlaces

LEMMA Empty == NoRequest \in RequestRecords /\ NoWork \in WorkRecords
               /\ NoRequest.at = "idle" /\ NoRequest.acct = NoOne /\ NoRequest.alone
               /\ NoWork.at = "idle" /\ NoWork.acct = NoOne /\ NoWork.alone
BY RegistrationAssumption DEF NoRequest, RequestRecords, NoWork, WorkRecords

(* Requests that differ in whether they are valid, or alone, only.         *)
Alike(q, n) ==
    /\ n.at = q.at /\ n.kind = q.kind /\ n.token = q.token /\ n.row = q.row
    /\ n.named = q.named /\ n.todo = q.todo /\ n.acct = q.acct /\ n.drop = q.drop
    /\ n.alone => q.alone

AlikeJobs(j, n) ==
    /\ n.at = j.at /\ n.acct = j.acct /\ n.devs = j.devs
    /\ n.alone => j.alone

LEMMA DisturbedIs ==
    ASSUME req \in [Handlers -> RequestRecords], NEW S
    PROVE  /\ Disturbed(S) \in [Handlers -> RequestRecords]
           /\ \A s \in Handlers :
                /\ Alike(req[s], Disturbed(S)[s])
                /\ Disturbed(S)[s].alone => Touches(req[s]) \cap S = {}
                /\ Disturbed(S)[s].valid = req[s].valid
<1> SUFFICES ASSUME NEW s \in Handlers
             PROVE  /\ Disturbed(S)[s] \in RequestRecords
                    /\ Alike(req[s], Disturbed(S)[s])
                    /\ Disturbed(S)[s].alone => Touches(req[s]) \cap S = {}
                    /\ Disturbed(S)[s].valid = req[s].valid
  BY DEF Disturbed
<1> DEFINE q == req[s]
           n == [q EXCEPT !.alone = FALSE]
<1>1. q \in RequestRecords
  OBVIOUS
<1>2. Disturbed(S)[s] = IF Touches(q) \cap S # {} THEN n ELSE q
  BY DEF Disturbed
<1> HIDE DEF q
<1>3. n \in RequestRecords
  <2>1. FALSE \in BOOLEAN
    OBVIOUS
  <2> QED
    BY <1>1, <2>1, RequestField, Zenon
<1>6. ~n.alone /\ n.valid = q.valid
  BY <1>1 DEF RequestRecords
<1>5. n.at = q.at /\ n.kind = q.kind /\ n.token = q.token /\ n.row = q.row
     /\ n.named = q.named /\ n.todo = q.todo /\ n.acct = q.acct /\ n.drop = q.drop
  BY <1>1 DEF RequestRecords
<1> HIDE DEF n
<1>4. Alike(q, q) /\ Alike(q, n)
  BY <1>3, <1>5, <1>6 DEF Alike
<1> QED
  BY <1>1, <1>2, <1>3, <1>4, <1>6 DEF q

LEMMA DisturbedJobsIs ==
    ASSUME job \in [Workers -> WorkRecords], NEW S
    PROVE  /\ DisturbedJobs(S) \in [Workers -> WorkRecords]
           /\ \A k \in Workers :
                /\ AlikeJobs(job[k], DisturbedJobs(S)[k])
                /\ DisturbedJobs(S)[k].alone => Detaches(job[k]) \cap S = {}
                /\ DisturbedJobs(S)[k].valid = job[k].valid
<1> SUFFICES ASSUME NEW k \in Workers
             PROVE  /\ DisturbedJobs(S)[k] \in WorkRecords
                    /\ AlikeJobs(job[k], DisturbedJobs(S)[k])
                    /\ DisturbedJobs(S)[k].alone => Detaches(job[k]) \cap S = {}
                    /\ DisturbedJobs(S)[k].valid = job[k].valid
  BY DEF DisturbedJobs
<1> DEFINE j == job[k]
           n == [j EXCEPT !.alone = FALSE]
<1>1. j \in WorkRecords
  OBVIOUS
<1>2. DisturbedJobs(S)[k] = IF Detaches(j) \cap S # {} THEN n ELSE j
  BY DEF DisturbedJobs
<1> HIDE DEF j
<1>3. n \in WorkRecords
  <2>1. FALSE \in BOOLEAN
    OBVIOUS
  <2> QED
    BY <1>1, <2>1, WorkField, Zenon
<1>6. ~n.alone /\ n.valid = j.valid
  BY <1>1 DEF WorkRecords
<1>5. n.at = j.at /\ n.acct = j.acct /\ n.devs = j.devs
  BY <1>1 DEF WorkRecords
<1> HIDE DEF n
<1>4. AlikeJobs(j, j) /\ AlikeJobs(j, n)
  BY <1>3, <1>5, <1>6 DEF AlikeJobs
<1> QED
  BY <1>1, <1>2, <1>3, <1>4, <1>6 DEF j

LEMMA TouchesSame ==
    ASSUME NEW q, NEW n, n.at = q.at \/ (n.at # "idle" /\ q.at # "idle"),
           n.kind = q.kind, n.token = q.token, n.named = q.named
    PROVE  Touches(n) = Touches(q)
BY DEF Touches

(* A request with other accounts to register, or to drop, or not alone.    *)
Footing(q, n) ==
    n.kind = q.kind /\ n.token = q.token /\ n.row = q.row /\ n.named = q.named

LEMMA Refooted ==
    ASSUME NEW q \in RequestRecords
    PROVE  /\ \A S \in SUBSET Accounts :
                LET n == [q EXCEPT !.drop = S] IN
                  /\ n \in RequestRecords /\ Footing(q, n) /\ n.at = q.at
                  /\ n.todo = q.todo /\ n.drop = S /\ n.acct = q.acct /\ n.alone = q.alone
           /\ \A S \in SUBSET Accounts :
                LET n == [q EXCEPT !.todo = S] IN
                  /\ n \in RequestRecords /\ Footing(q, n) /\ n.at = q.at
                  /\ n.todo = S /\ n.drop = q.drop /\ n.acct = q.acct /\ n.alone = q.alone
           /\ \A x \in RequestPlaces :
                LET n == [q EXCEPT !.at = x] IN
                  /\ n \in RequestRecords /\ Footing(q, n) /\ n.at = x
                  /\ n.todo = q.todo /\ n.drop = q.drop /\ n.acct = q.acct /\ n.alone = q.alone
           /\ \A a \in Accounts \cup {NoOne} :
                LET n == [q EXCEPT !.acct = a] IN
                  /\ n \in RequestRecords /\ Footing(q, n) /\ n.at = q.at
                  /\ n.todo = q.todo /\ n.drop = q.drop /\ n.acct = a /\ n.alone = q.alone
<1> USE DEF Footing
<1>1. ASSUME NEW S \in SUBSET Accounts
     PROVE  LET n == [q EXCEPT !.drop = S] IN
              /\ n \in RequestRecords /\ Footing(q, n) /\ n.at = q.at
              /\ n.todo = q.todo /\ n.drop = S /\ n.acct = q.acct /\ n.alone = q.alone
  BY DEF RequestRecords
<1>2. ASSUME NEW S \in SUBSET Accounts
     PROVE  LET n == [q EXCEPT !.todo = S] IN
              /\ n \in RequestRecords /\ Footing(q, n) /\ n.at = q.at
              /\ n.todo = S /\ n.drop = q.drop /\ n.acct = q.acct /\ n.alone = q.alone
  BY DEF RequestRecords
<1>3. ASSUME NEW x \in RequestPlaces
     PROVE  LET n == [q EXCEPT !.at = x] IN
              /\ n \in RequestRecords /\ Footing(q, n) /\ n.at = x
              /\ n.todo = q.todo /\ n.drop = q.drop /\ n.acct = q.acct /\ n.alone = q.alone
  BY DEF RequestRecords, RequestPlaces
<1>4. ASSUME NEW a \in Accounts \cup {NoOne}
     PROVE  LET n == [q EXCEPT !.acct = a] IN
              /\ n \in RequestRecords /\ Footing(q, n) /\ n.at = q.at
              /\ n.todo = q.todo /\ n.drop = q.drop /\ n.acct = a /\ n.alone = q.alone
  BY DEF RequestRecords
<1> QED
  BY <1>1, <1>2, <1>3, <1>4

LEMMA Lonely ==
    ASSUME NEW q \in RequestRecords, NEW x \in BOOLEAN
    PROVE  /\ LET n == [q EXCEPT !.alone = x] IN
                /\ n \in RequestRecords /\ Footing(q, n) /\ n.at = q.at
                /\ n.todo = q.todo /\ n.drop = q.drop /\ n.acct = q.acct /\ n.alone = x
                /\ n.valid = q.valid
           /\ LET n == [q EXCEPT !.valid = x] IN
                /\ n \in RequestRecords /\ Footing(q, n) /\ n.at = q.at
                /\ n.todo = q.todo /\ n.drop = q.drop /\ n.acct = q.acct /\ n.alone = q.alone
                /\ n.valid = x
<1> USE DEF Footing
<1>1. /\ [q EXCEPT !.alone = x] \in RequestRecords
      /\ [q EXCEPT !.valid = x] \in RequestRecords
  BY RequestField, Zenon
<1> DEFINE n == [q EXCEPT !.alone = x]
           m == [q EXCEPT !.valid = x]
<1>2. /\ Footing(q, n) /\ n.at = q.at /\ n.todo = q.todo /\ n.drop = q.drop
      /\ n.acct = q.acct /\ n.valid = q.valid
  BY DEF RequestRecords
<1>3. n.alone = x /\ m.valid = x
  BY DEF RequestRecords
<1>4. /\ Footing(q, m) /\ m.at = q.at /\ m.todo = q.todo /\ m.drop = q.drop
      /\ m.acct = q.acct /\ m.alone = q.alone
  BY DEF RequestRecords
<1> QED
  BY <1>1, <1>2, <1>3, <1>4, Zenon

(* Where a request goes on to.                                             *)
Next4(q) == IF q.todo # {} THEN "reddit"
            ELSE IF q.drop # {} THEN "drop"
            ELSE IF q.kind = "delete" THEN "remove" ELSE "answer"

LEMMA OnwardIs ==
    ASSUME NEW q \in RequestRecords
    PROVE  LET n == Onward(q) IN
             /\ Footing(q, n) /\ n.at = Next4(q) /\ n.acct = NoOne
             /\ n.todo = q.todo /\ n.drop = q.drop /\ n.alone = q.alone
             /\ n.at # "answer" => n \in RequestRecords
<1> DEFINE k == [q EXCEPT !.acct = NoOne]
           l == [k EXCEPT !.valid = FALSE]
           n == [l EXCEPT !.at = Next4(q)]
<1>1. /\ k \in RequestRecords /\ Footing(q, k)
      /\ k.todo = q.todo /\ k.drop = q.drop /\ k.acct = NoOne /\ k.alone = q.alone
  BY Refooted
<1> HIDE DEF k
<1>2. FALSE \in BOOLEAN
  OBVIOUS
<1>3. /\ l \in RequestRecords /\ Footing(k, l)
      /\ l.todo = k.todo /\ l.drop = k.drop /\ l.acct = k.acct /\ l.alone = k.alone
  BY <1>1, <1>2, Lonely, Zenon
<1> HIDE DEF l
<1>4. /\ Footing(l, n) /\ n.at = Next4(q)
      /\ n.todo = l.todo /\ n.drop = l.drop /\ n.acct = l.acct /\ n.alone = l.alone
      /\ n.at # "answer" => n \in RequestRecords
  <2>1. Next4(q) # "answer" => Next4(q) \in RequestPlaces
    BY DEF Next4, RequestPlaces
  <2> HIDE DEF Next4
  <2>2. /\ n.kind = l.kind /\ n.token = l.token /\ n.row = l.row /\ n.named = l.named
        /\ n.todo = l.todo /\ n.drop = l.drop /\ n.acct = l.acct /\ n.alone = l.alone
        /\ n.at = Next4(q)
    BY <1>3 DEF RequestRecords
  <2>3. Next4(q) # "answer" => n \in RequestRecords
    BY <1>3, <2>1, Refooted
  <2> QED
    BY <2>2, <2>3 DEF Footing
<1>5. Onward(q) = n
  BY DEF Onward, Next4, k, l
<1> HIDE DEF n
<1> QED
  BY <1>1, <1>3, <1>4, <1>5 DEF Footing

-----------------------------------------------------------------------------
(* Type correctness.  What a request may have in hand at each place.       *)
Registering == {"register", "bulk"}

Aim(q) == IF q.kind \in Registering THEN q.named ELSE {}

RequestOK(q) ==
    /\ q.at = "idle" <=> q.kind = "none"
    /\ q.at # "idle" => q.token \in Tokens /\ q.row # 0
    /\ q.at \in {"store", "associate"} => q.acct \in q.todo
    /\ q.at \in {"reddit", "store", "associate"} => q.kind \in Registering
    /\ q.at = "account" => q.kind = "disassociate"
    /\ q.kind = "disassociate" => q.named # {}
    /\ q.kind = "delete" => q.named = {}
    /\ q.at = "accounts" => q.kind \in {"bulk", "delete"} /\ q.todo = Aim(q)
    /\ q.at = "remove" => q.kind = "delete"
    /\ q.at \in {"remove", "answer"} => q.todo = {} /\ q.drop = {}
    /\ q.todo \subseteq Aim(q) /\ q.drop \cap Aim(q) = {}
    /\ q.drop # {} => \/ q.kind \in {"bulk", "delete"}
                      \/ q.kind = "disassociate" /\ q.drop \subseteq q.named

Tables ==
    /\ device \in [Tokens -> 0..MaxRows] /\ rows \in [Tokens -> 0..MaxRows]
    /\ \A t \in Tokens : device[t] \in {0, rows[t]}
    /\ known \subseteq Accounts /\ deleted \subseteq known /\ good \subseteq known
    /\ assoc \subseteq Pairs
    /\ \A p \in assoc : device[p[1]] # 0 /\ p[2] \in known
    /\ granted \subseteq known /\ stale \subseteq known

Counters == begun \in 0..MaxRequests /\ faults \in 0..MaxFaults

Requests ==
    /\ req \in [Handlers -> RequestRecords]
    /\ \A r \in Handlers :
        /\ req[r].at \in {"store", "associate"} <=> req[r].acct # NoOne
        /\ RequestOK(req[r])
        /\ req[r].at = "associate" => req[r].acct \in known

Works ==
    /\ job \in [Workers -> WorkRecords]
    /\ \A k \in Workers : job[k].at # "idle" => job[k].acct \in known

Wishes == wanted \subseteq Pairs /\ doubt \subseteq Pairs

TypeInv == Tables /\ Counters /\ Requests /\ Works /\ Wishes

LEMMA TypeInvIs == TypeInv => TypeOK
BY DEF TypeInv, TypeOK, Tables, Counters, Requests, Works, Wishes

LEMMA RequestIs ==
    ASSUME Requests, NEW r \in Handlers
    PROVE  /\ req[r] \in RequestRecords /\ RequestOK(req[r])
           /\ req[r].named \subseteq Accounts /\ req[r].todo \subseteq Accounts
           /\ req[r].drop \subseteq Accounts /\ req[r].row \in 0..MaxRows
           /\ req[r].alone \in BOOLEAN /\ req[r].acct \in Accounts \cup {NoOne}
           /\ req[r].at \in {"store", "associate"} => req[r].acct \in Accounts
           /\ Touches(req[r]) \subseteq Pairs
           /\ req[r].at = "idle" => Touches(req[r]) = {}
           /\ \A p \in Pairs : p \in Touches(req[r]) <=>
                /\ req[r].at # "idle" /\ p[1] = req[r].token
                /\ req[r].kind \in {"register", "disassociate"} => p[2] \in req[r].named
<1>1. /\ req[r] \in RequestRecords /\ RequestOK(req[r])
      /\ req[r].at \in {"store", "associate"} <=> req[r].acct # NoOne
  BY DEF Requests
<1> DEFINE q == req[r]
<1> HIDE DEF q
<1>2. q \in RequestRecords /\ RequestOK(q)
  BY <1>1 DEF q
<1>3. /\ q.named \subseteq Accounts /\ q.todo \subseteq Accounts
      /\ q.drop \subseteq Accounts /\ q.row \in 0..MaxRows
      /\ q.alone \in BOOLEAN /\ q.acct \in Accounts \cup {NoOne}
  BY <1>2 DEF RequestRecords
<1>4. /\ q.at # "idle" => q.token \in Tokens
      /\ q.at = "idle" => q.kind = "none"
  BY <1>2 DEF RequestOK
<1>5. /\ Touches(q) \subseteq Pairs
      /\ q.at = "idle" => Touches(q) = {}
      /\ \A p \in Pairs : p \in Touches(q) <=>
           /\ q.at # "idle" /\ p[1] = q.token
           /\ q.kind \in {"register", "disassociate"} => p[2] \in q.named
  BY <1>3, <1>4, TouchesIs
<1> QED
  BY <1>1, <1>2, <1>3, <1>5 DEF q

(* A request that goes on, or answers.                                     *)
Passes(q, n) ==
    /\ Footing(q, n) /\ RequestOK(n)
    /\ n.alone => q.alone
    /\ n.at \in {"reddit", "drop", "remove", "answer"}
    /\ n.at # "answer" => n \in RequestRecords /\ n.acct = NoOne

LEMMA OnwardPasses ==
    ASSUME NEW q \in RequestRecords, RequestOK(q), q.at # "idle",
           NEW m \in RequestRecords, Footing(q, m), m.alone => q.alone,
           m.todo \subseteq Aim(q), m.drop \cap Aim(q) = {},
           m.drop # {} => \/ q.kind \in {"bulk", "delete"}
                          \/ q.kind = "disassociate" /\ m.drop \subseteq q.named
    PROVE  LET n == Onward(m) IN
             /\ Passes(q, n) /\ n.todo = m.todo /\ n.drop = m.drop /\ n.alone = m.alone
<1> DEFINE n == Onward(m)
<1>1. /\ Footing(m, n) /\ n.at = Next4(m) /\ n.acct = NoOne
      /\ n.todo = m.todo /\ n.drop = m.drop /\ n.alone = m.alone
      /\ n.at # "answer" => n \in RequestRecords
  BY OnwardIs
<1> HIDE DEF n
<1>2. Footing(q, n) /\ Aim(n) = Aim(q)
  BY <1>1 DEF Footing, Aim
<1>3. n.at \in {"reddit", "drop", "remove", "answer"}
  BY <1>1 DEF Next4
<1>4. q.kind # "none" /\ q.token \in Tokens /\ q.row # 0
  BY DEF RequestOK
<1>5. n.at = "reddit" => q.kind \in Registering
  <2>1. n.at = "reddit" => n.todo # {}
    BY <1>1 DEF Next4
  <2> QED
    BY <2>1, <1>1 DEF Aim
<1>6. /\ n.at \in {"remove", "answer"} => n.todo = {} /\ n.drop = {}
      /\ n.at = "remove" => q.kind = "delete"
  BY <1>1 DEF Next4, Footing
<1>7. RequestOK(n)
  BY <1>1, <1>2, <1>3, <1>4, <1>5, <1>6 DEF RequestOK, Footing
<1> QED
  BY <1>1, <1>2, <1>3, <1>7 DEF Passes, n

LEMMA GoesIs ==
    ASSUME Requests, NEW r \in Handlers, NEW n, Passes(req[r], n), Goes(r, n)
    PROVE  /\ req' \in [Handlers -> RequestRecords]
           /\ \A s \in Handlers \ {r} : req'[s] = req[s]
           /\ req'[r] = IF n.at # "answer" THEN n ELSE NoRequest
           /\ n.at # "answer" => UNCHANGED <<wanted, doubt>>
           /\ n.at = "answer" /\ n.alone =>
                /\ wanted' = (wanted \ Touches(n)) \cup Asked(n)
                /\ doubt' = doubt \ (Touches(n) \ Hidden')
           /\ n.at = "answer" /\ ~n.alone =>
                wanted' = wanted /\ doubt' = doubt \cup Touches(n)
<1>1. n.at # "answer" => n \in RequestRecords
  BY DEF Passes
<1>2. NoRequest \in RequestRecords
  BY Empty
<1>3. req' = [req EXCEPT ![r] = IF n.at # "answer" THEN n ELSE NoRequest]
  BY DEF Goes, Becomes
<1>4. req \in [Handlers -> RequestRecords]
  BY DEF Requests
<1> QED
  BY <1>1, <1>2, <1>3, <1>4 DEF Goes

(* What each of the steps that go on passes.                               *)
LEMMA AccountsIs ==
    ASSUME TypeInv, NEW r \in Handlers, ReadAccounts(r)
    PROVE  \E n : /\ Goes(r, n) /\ Passes(req[r], n) /\ n.alone = req[r].alone
                  /\ n.todo = req[r].todo /\ n.drop = Dropped(req[r])
                  /\ req[r].at = "accounts" /\ UNCHANGED <<tables, job, granted, stale>>
<1> DEFINE q == req[r]
           D == Dropped(q)
           m == [q EXCEPT !.drop = D]
<1>1. /\ q \in RequestRecords /\ RequestOK(q) /\ q.at = "accounts"
      /\ D \subseteq Accounts /\ D \cap q.named = {}
  BY RequestIs DEF TypeInv, ReadAccounts, Dropped
<1>2. /\ Goes(r, Onward(m)) /\ UNCHANGED <<tables, job, granted, stale>>
  BY DEF ReadAccounts, NoJobStep
<1> HIDE DEF D
<1> HIDE DEF q
<1>3. /\ m \in RequestRecords /\ Footing(q, m) /\ m.todo = q.todo /\ m.drop = D
      /\ m.alone = q.alone
  BY <1>1, Refooted
<1> HIDE DEF m
<1>4. /\ q.kind \in {"bulk", "delete"} /\ q.todo \subseteq Aim(q) /\ D \cap Aim(q) = {}
  BY <1>1 DEF RequestOK, Aim
<1>5. LET n == Onward(m) IN
        Passes(q, n) /\ n.todo = m.todo /\ n.drop = m.drop /\ n.alone = m.alone
  BY <1>1, <1>3, <1>4, OnwardPasses
<1> QED
  BY <1>1, <1>2, <1>3, <1>5 DEF q, D

LEMMA AssociateIs ==
    ASSUME TypeInv, NEW r \in Handlers, Associate(r)
    PROVE  \E n : /\ Goes(r, n) /\ Passes(req[r], n) /\ n.alone = req[r].alone
                  /\ n.todo = req[r].todo \ {req[r].acct} /\ n.drop = req[r].drop
                  /\ req[r].at = "associate" /\ device[req[r].token] = req[r].row
                  /\ assoc' = assoc \cup {<<req[r].token, req[r].acct>>}
                  /\ UNCHANGED <<device, rows, known, deleted, good, granted, stale, job>>
<1> DEFINE q == req[r]
           T == q.todo \ {q.acct}
           m == [q EXCEPT !.todo = T]
<1>1. /\ q \in RequestRecords /\ RequestOK(q) /\ q.at = "associate"
      /\ q.todo \subseteq Accounts
  BY RequestIs DEF TypeInv, Associate
<1>2. /\ Goes(r, Onward(m)) /\ device[q.token] = q.row
      /\ assoc' = assoc \cup {<<q.token, q.acct>>}
      /\ UNCHANGED <<device, rows, known, deleted, good, granted, stale, job>>
  BY DEF Associate, NoJobStep
<1> HIDE DEF q
<1>3. T \in SUBSET Accounts
  BY <1>1
<1> HIDE DEF T
<1>4. /\ m \in RequestRecords /\ Footing(q, m) /\ m.todo = T /\ m.drop = q.drop
      /\ m.alone = q.alone
  BY <1>1, <1>3, Refooted
<1> HIDE DEF m
<1>5. /\ T \subseteq Aim(q) /\ q.drop \cap Aim(q) = {}
      /\ q.drop # {} => \/ q.kind \in {"bulk", "delete"}
                        \/ q.kind = "disassociate" /\ q.drop \subseteq q.named
  BY <1>1 DEF RequestOK, T
<1>6. LET n == Onward(m) IN
        Passes(q, n) /\ n.todo = m.todo /\ n.drop = m.drop /\ n.alone = m.alone
  BY <1>1, <1>4, <1>5, OnwardPasses
<1> QED
  BY <1>1, <1>2, <1>4, <1>6 DEF q, T

LEMMA DropPasses ==
    ASSUME TypeInv, NEW r \in Handlers, req[r].at = "drop", NEW a \in req[r].drop,
           NEW x \in BOOLEAN, x => req[r].alone,
           NEW k \in RequestRecords, Footing(req[r], k), k.todo = req[r].todo,
           k.drop = req[r].drop, k.alone = x
    PROVE  LET n == Onward([k EXCEPT !.drop = @ \ {a}]) IN
             /\ Passes(req[r], n) /\ n.alone = x
             /\ n.todo = req[r].todo /\ n.drop = req[r].drop \ {a}
<1> DEFINE q == req[r]
           D == k.drop \ {a}
           m == [k EXCEPT !.drop = D]
<1>1. /\ q \in RequestRecords /\ RequestOK(q) /\ q.at = "drop"
      /\ q.drop \subseteq Accounts /\ D = q.drop \ {a}
  BY RequestIs DEF TypeInv
<1>2. Footing(q, k) /\ k.todo = q.todo /\ k.drop = q.drop /\ k.alone = x /\ (x => q.alone)
  OBVIOUS
<1>3. [k EXCEPT !.drop = @ \ {a}] = m
  OBVIOUS
<1> HIDE DEF q
<1>4. D \in SUBSET Accounts
  BY <1>1
<1> HIDE DEF D
<1>5. /\ m \in RequestRecords /\ Footing(k, m) /\ m.todo = k.todo /\ m.drop = D
      /\ m.alone = k.alone
  BY <1>4, Refooted
<1> HIDE DEF m
<1>6. Footing(q, m) /\ m.todo = q.todo /\ m.alone = x
  BY <1>2, <1>5 DEF Footing
<1>7. /\ m.todo \subseteq Aim(q) /\ D \cap Aim(q) = {}
      /\ D # {} => \/ q.kind \in {"bulk", "delete"}
                   \/ q.kind = "disassociate" /\ D \subseteq q.named
  BY <1>1, <1>6 DEF RequestOK
<1>8. LET n == Onward(m) IN
        Passes(q, n) /\ n.todo = m.todo /\ n.drop = m.drop /\ n.alone = m.alone
  BY <1>1, <1>2, <1>5, <1>6, <1>7, OnwardPasses
<1> QED
  BY <1>1, <1>3, <1>5, <1>6, <1>8 DEF q

LEMMA DropIs ==
    ASSUME TypeInv, NEW r \in Handlers, NEW a, Drop(r, a)
    PROVE  \E n : /\ Goes(r, n) /\ Passes(req[r], n) /\ n.alone = req[r].alone
                  /\ n.todo = req[r].todo /\ n.drop = req[r].drop \ {a}
                  /\ req[r].at = "drop" /\ a \in req[r].drop
                  /\ assoc' = IF device[req[r].token] = req[r].row
                                THEN assoc \ {<<req[r].token, a>>} ELSE assoc
                  /\ UNCHANGED <<device, rows, known, deleted, good, granted, stale, job>>
<1> DEFINE q == req[r]
           n == Onward([q EXCEPT !.drop = @ \ {a}])
<1>1. /\ Goes(r, n) /\ q.at = "drop" /\ a \in q.drop
      /\ assoc' = IF device[q.token] = q.row THEN assoc \ {<<q.token, a>>} ELSE assoc
      /\ UNCHANGED <<device, rows, known, deleted, good, granted, stale, job>>
  BY DEF Drop, NoJobStep
<1>2. q \in RequestRecords /\ q.alone \in BOOLEAN /\ Footing(q, q)
  BY RequestIs DEF TypeInv, Footing
<1>3. q = req[r]
  OBVIOUS
<1> HIDE DEF q
<1>4. /\ Passes(req[r], n) /\ n.alone = q.alone
      /\ n.todo = req[r].todo /\ n.drop = req[r].drop \ {a}
  BY <1>1, <1>2, <1>3, DropPasses, Zenon
<1> QED
  BY <1>1, <1>3, <1>4

LEMMA RemovePasses ==
    ASSUME TypeInv, NEW r \in Handlers, req[r].at = "remove",
           NEW x \in BOOLEAN, x => req[r].alone,
           NEW k \in RequestRecords, Footing(req[r], k), k.todo = req[r].todo,
           k.drop = req[r].drop, k.alone = x
    PROVE  LET n == [k EXCEPT !.at = "answer"] IN
             /\ Passes(req[r], n) /\ n.at = "answer" /\ n.alone = x
             /\ n.todo = {} /\ n.drop = {}
<1> DEFINE q == req[r]
           n == [k EXCEPT !.at = "answer"]
<1>1. RequestOK(q) /\ q.at = "remove"
  BY RequestIs DEF TypeInv
<1>2. /\ Footing(q, k) /\ k.todo = q.todo /\ k.drop = q.drop /\ k.alone = x /\ (x => q.alone)
  OBVIOUS
<1> HIDE DEF q
<1>3. /\ n.kind = k.kind /\ n.token = k.token /\ n.row = k.row /\ n.named = k.named
      /\ n.todo = k.todo /\ n.drop = k.drop /\ n.alone = k.alone /\ n.at = "answer"
  BY DEF RequestRecords
<1> HIDE DEF n
<1>4. /\ n.todo = {} /\ n.drop = {} /\ n.alone = x /\ Footing(q, n) /\ q.kind = "delete"
  BY <1>1, <1>2, <1>3 DEF Footing, RequestOK
<1>5. RequestOK(n)
  BY <1>1, <1>3, <1>4 DEF RequestOK, Footing
<1> QED
  BY <1>2, <1>3, <1>4, <1>5 DEF Passes, n, q

LEMMA RemoveIs ==
    ASSUME TypeInv, NEW r \in Handlers, Remove(r)
    PROVE  \E n : /\ Goes(r, n) /\ Passes(req[r], n) /\ n.alone = req[r].alone
                  /\ n.at = "answer" /\ n.todo = {} /\ n.drop = {}
                  /\ req[r].at = "remove"
                  /\ device' = [device EXCEPT ![req[r].token] = 0]
                  /\ assoc' = assoc \ Of(req[r].token)
                  /\ UNCHANGED <<rows, known, deleted, good, granted, stale, job>>
<1> DEFINE n == [req[r] EXCEPT !.at = "answer"]
<1>1. /\ Goes(r, n) /\ req[r].at = "remove"
      /\ device' = [device EXCEPT ![req[r].token] = 0]
      /\ assoc' = assoc \ Of(req[r].token)
      /\ UNCHANGED <<rows, known, deleted, good, granted, stale, job>>
  BY DEF Remove, NoJobStep, DeleteDevice
<1>2. req[r] \in RequestRecords /\ req[r].alone \in BOOLEAN /\ Footing(req[r], req[r])
  BY RequestIs DEF TypeInv, Footing
<1>3. /\ Passes(req[r], n) /\ n.alone = req[r].alone
      /\ n.at = "answer" /\ n.todo = {} /\ n.drop = {}
  BY <1>1, <1>2, RemovePasses, Zenon
<1> QED
  BY <1>1, <1>3

LEMMA DropFailsIs ==
    ASSUME TypeInv, NEW r \in Handlers, DropFails(r)
    PROVE  \E n : /\ Goes(r, n) /\ Passes(req[r], n) /\ ~n.alone
                  /\ req[r].at \in {"drop", "remove"}
                  /\ UNCHANGED <<tables, granted, stale, job>>
<1> DEFINE q == [req[r] EXCEPT !.alone = FALSE]
<1>1. FALSE \in BOOLEAN
  OBVIOUS
<1>2. req[r] \in RequestRecords
  BY RequestIs DEF TypeInv
<1>3. /\ q \in RequestRecords /\ Footing(req[r], q) /\ q.at = req[r].at
      /\ q.todo = req[r].todo /\ q.drop = req[r].drop /\ q.alone = FALSE
  BY <1>1, <1>2, Lonely, Zenon
<1>4. /\ \/ q.at = "drop" /\ \E a \in q.drop : Goes(r, Onward([q EXCEPT !.drop = @ \ {a}]))
         \/ q.at = "remove" /\ Goes(r, [q EXCEPT !.at = "answer"])
      /\ UNCHANGED <<tables, granted, stale, job>>
  BY DEF DropFails, NoJobStep
<1> HIDE DEF q
<1>5. CASE q.at = "drop"
  <2>1. PICK a \in q.drop : Goes(r, Onward([q EXCEPT !.drop = @ \ {a}]))
    BY <1>4, <1>5
  <2> DEFINE n == Onward([q EXCEPT !.drop = @ \ {a}])
  <2>2. Passes(req[r], n) /\ n.alone = FALSE
    BY <1>1, <1>3, <1>5, <2>1, DropPasses, Zenon
  <2> QED
    BY <1>3, <1>4, <1>5, <2>1, <2>2
<1>6. CASE q.at = "remove"
  <2> DEFINE n == [q EXCEPT !.at = "answer"]
  <2>1. Passes(req[r], n) /\ n.alone = FALSE
    BY <1>1, <1>3, <1>6, RemovePasses, Zenon
  <2>2. Goes(r, n)
    BY <1>4, <1>6
  <2> QED
    BY <1>3, <1>4, <1>6, <2>1, <2>2
<1> QED
  BY <1>4, <1>5, <1>6

LEMMA AccountIs ==
    ASSUME TypeInv, NEW r \in Handlers, ReadAccount(r)
    PROVE  LET q == req[r] IN
             \E n : /\ req' = [req EXCEPT ![r] = n]
                    /\ n \in RequestRecords /\ Footing(q, n) /\ n.at = "drop"
                    /\ n.todo = q.todo /\ n.drop = q.named /\ n.acct = NoOne
                    /\ n.alone = q.alone /\ RequestOK(n)
                    /\ q.at = "account" /\ UNCHANGED <<tables, history, job, begun, faults>>
<1> DEFINE q == req[r]
           m == [q EXCEPT !.drop = q.named]
           n == Onward(m)
<1>1. /\ q \in RequestRecords /\ RequestOK(q) /\ q.named \in SUBSET Accounts
      /\ q.at = "account"
  BY RequestIs DEF TypeInv, ReadAccount
<1>2. req' = [req EXCEPT ![r] = n] /\ UNCHANGED <<tables, history, job, begun, faults>>
  BY DEF ReadAccount, NoJobStep, Becomes, Calm
<1> HIDE DEF q
<1>3. /\ m \in RequestRecords /\ Footing(q, m) /\ m.todo = q.todo /\ m.drop = q.named
      /\ m.alone = q.alone
  BY <1>1, Refooted
<1> HIDE DEF m
<1>4. q.kind = "disassociate" /\ q.todo = {} /\ Aim(q) = {}
  BY <1>1 DEF RequestOK, Aim, Registering
<1>5. Passes(q, n) /\ n.todo = m.todo /\ n.drop = m.drop /\ n.alone = m.alone
  BY <1>1, <1>3, <1>4, OnwardPasses
<1>6. n.at = "drop"
  <2>1. n.at = Next4(m)
    BY <1>3, OnwardIs
  <2>2. m.todo = {} /\ m.drop # {}
    BY <1>1, <1>3, <1>4 DEF RequestOK
  <2> QED
    BY <2>1, <2>2 DEF Next4
<1> HIDE DEF n
<1>7. /\ n \in RequestRecords /\ Footing(q, n) /\ n.acct = NoOne /\ RequestOK(n)
  BY <1>5, <1>6 DEF Passes
<1> QED
  BY <1>1, <1>2, <1>3, <1>5, <1>6, <1>7 DEF q

LEMMA VouchIs ==
    ASSUME TypeInv, NEW r \in Handlers, Vouch(r)
    PROVE  \E n : /\ req' = [req EXCEPT ![r] = n]
                  /\ n \in RequestRecords /\ Footing(req[r], n) /\ n.at = "store"
                  /\ n.todo = req[r].todo /\ n.drop = req[r].drop /\ n.acct \in n.todo
                  /\ n.alone = req[r].alone /\ RequestOK(n)
                  /\ req[r].at = "reddit"
                  /\ UNCHANGED <<tables, history, job, begun, faults>>
<1>1. PICK a \in req[r].todo :
        req' = [req EXCEPT ![r] = [req[r] EXCEPT !.at = "store", !.acct = a, !.valid = TRUE]]
  BY DEF Vouch, Becomes
<1> DEFINE q == req[r]
           k == [q EXCEPT !.at = "store"]
           l == [k EXCEPT !.acct = a]
           n == [l EXCEPT !.valid = TRUE]
<1>2. /\ q \in RequestRecords /\ RequestOK(q) /\ q.at = "reddit" /\ a \in Accounts
      /\ UNCHANGED <<tables, history, job, begun, faults>>
  BY <1>1, RequestIs DEF TypeInv, Vouch, Calm, NoJobStep
<1>3. req' = [req EXCEPT ![r] = n]
  BY <1>1
<1>4. a \in q.todo
  BY <1>1
<1> HIDE DEF q
<1>5. "store" \in RequestPlaces /\ TRUE \in BOOLEAN
  BY DEF RequestPlaces
<1>6. /\ k \in RequestRecords /\ Footing(q, k) /\ k.at = "store" /\ k.todo = q.todo
      /\ k.drop = q.drop /\ k.alone = q.alone
  BY <1>2, <1>5, Refooted
<1> HIDE DEF k
<1>7. /\ l \in RequestRecords /\ Footing(k, l) /\ l.at = k.at /\ l.todo = k.todo
      /\ l.drop = k.drop /\ l.alone = k.alone /\ l.acct = a
  BY <1>2, <1>6, Refooted
<1> HIDE DEF l
<1>8. /\ n \in RequestRecords /\ Footing(l, n) /\ n.at = l.at /\ n.todo = l.todo
      /\ n.drop = l.drop /\ n.alone = l.alone /\ n.acct = l.acct
  BY <1>5, <1>7, Lonely, Zenon
<1> HIDE DEF n
<1>9. /\ Footing(q, n) /\ n.at = "store" /\ n.todo = q.todo /\ n.drop = q.drop
      /\ n.alone = q.alone /\ n.acct = a
  BY <1>6, <1>7, <1>8 DEF Footing
<1>10. RequestOK(n)
  BY <1>2, <1>4, <1>9 DEF RequestOK, Footing, Aim, Registering
<1> QED
  BY <1>2, <1>3, <1>4, <1>8, <1>9, <1>10 DEF q

LEMMA StoreIs ==
    ASSUME TypeInv, NEW r \in Handlers, Store(r)
    PROVE  LET q == req[r]
               a == req[r].acct IN
             \E n : /\ req' = [Disturbed(Hidden \cap On(a)) EXCEPT ![r] = n]
                    /\ n \in RequestRecords /\ Footing(q, n) /\ n.at = "associate"
                    /\ n.todo = q.todo /\ n.drop = q.drop /\ n.acct = a
                    /\ n.alone = q.alone /\ RequestOK(n)
                    /\ q.at = "store" /\ a \in Accounts
                    /\ known' = known \cup {a} /\ deleted' = deleted \ {a}
                    /\ good' = Stored(a, good, q.valid)
                    /\ granted' = (IF q.valid THEN granted \cup {a} ELSE granted)
                    /\ stale' = IF \/ \E k \in Workers : job[k].acct = a
                                   \/ ~q.valid /\ a \in granted
                                  THEN stale \cup {a} ELSE stale \ {a}
                    /\ UNCHANGED <<device, rows, assoc, wanted, doubt, job, begun, faults>>
<1> DEFINE q == req[r]
           a == q.acct
           n == [q EXCEPT !.at = "associate"]
<1>1. /\ req' = [Disturbed(Hidden \cap On(a)) EXCEPT ![r] = n]
      /\ known' = known \cup {a} /\ deleted' = deleted \ {a}
      /\ good' = Stored(a, good, q.valid)
      /\ granted' = (IF q.valid THEN granted \cup {a} ELSE granted)
      /\ stale' = IF \/ \E k \in Workers : job[k].acct = a
                     \/ ~q.valid /\ a \in granted
                    THEN stale \cup {a} ELSE stale \ {a}
      /\ UNCHANGED <<device, rows, assoc, wanted, doubt, job, begun, faults>>
  BY DEF Store, Undeleted, Calm, NoJobStep
<1>2. /\ q \in RequestRecords /\ RequestOK(q) /\ q.at = "store" /\ a \in Accounts
  BY RequestIs DEF TypeInv, Store
<1> HIDE DEF q
<1>3. "associate" \in RequestPlaces
  BY DEF RequestPlaces
<1>4. /\ n \in RequestRecords /\ Footing(q, n) /\ n.at = "associate" /\ n.todo = q.todo
      /\ n.drop = q.drop /\ n.alone = q.alone /\ n.acct = q.acct
  BY <1>2, <1>3, Refooted
<1> HIDE DEF n
<1>5. RequestOK(n)
  BY <1>2, <1>4 DEF RequestOK, Footing, Aim, Registering
<1> QED
  BY <1>1, <1>2, <1>4, <1>5 DEF q

LEMMA FailsIs ==
    ASSUME TypeInv, NEW r \in Handlers, Refused(r) \/ RequestFails(r)
    PROVE  /\ req' = [req EXCEPT ![r] = NoRequest] /\ req[r].at # "idle"
           /\ doubt' = IF req[r].at \in {"account", "accounts"} THEN doubt
                       ELSE doubt \cup Touches(req[r])
           /\ UNCHANGED <<tables, granted, stale, wanted, job, begun>>
           /\ faults' \in 0..MaxFaults
BY RegistrationAssumption
   DEF Refused, RequestFails, Fails, Becomes, NoJobStep, Calm, Fault, TypeInv, Counters

(* What a request is when it has begun.                                    *)
Opens(r, q) ==
    /\ q \in RequestRecords /\ RequestOK(q)
    /\ q.at \in {"reddit", "account", "accounts"}
    /\ q.drop = {} /\ q.acct = NoOne /\ q.todo = Aim(q)
    /\ q.at = "reddit" => q.kind = "register"
    /\ device[q.token] = q.row /\ q.token \in Tokens /\ q.row # 0
    /\ q.alone = ~Meets(Touches(q))
    /\ req' = [Disturbed(Touches(q)) EXCEPT ![r] = q]
    /\ job' = DisturbedJobs(Touches(q)) /\ req[r].at = "idle"
    /\ begun' \in 0..MaxRequests
    /\ UNCHANGED <<tables, history, faults>>

LEMMA BeginIs ==
    ASSUME TypeInv, NEW r \in Handlers, NEW t \in Tokens, NEW S \in SUBSET Accounts,
           NEW kind, NEW at, Begin(r, kind, t, S, at),
           \/ kind = "register" /\ at = "reddit"
           \/ kind = "disassociate" /\ at = "account" /\ S # {}
           \/ kind = "bulk" /\ at = "accounts"
           \/ kind = "delete" /\ at = "accounts" /\ S = {}
    PROVE  \E q : Opens(r, q)
<1> DEFINE T == IF kind \in {"register", "bulk"} THEN S ELSE {}
           q == [NoRequest EXCEPT !.at = at, !.kind = kind, !.token = t,
                   !.row = device[t], !.named = S, !.todo = T]
           n == [q EXCEPT !.alone = ~Meets(Touches(q))]
<1>1. /\ req' = [Disturbed(Touches(q)) EXCEPT ![r] = n]
      /\ job' = DisturbedJobs(Touches(q)) /\ req[r].at = "idle" /\ device[t] # 0
      /\ begun < MaxRequests /\ begun' = begun + 1 /\ UNCHANGED <<tables, history, faults>>
  BY DEF Begin
<1>2. begun' \in 0..MaxRequests
  BY <1>1, RegistrationAssumption DEF TypeInv, Counters
<1>3. device[t] \in 0..MaxRows
  BY DEF TypeInv, Tables
<1>4. T \in SUBSET Accounts
  OBVIOUS
<1> HIDE DEF T
<1>5. /\ q.at = at /\ q.kind = kind /\ q.token = t /\ q.row = device[t] /\ q.named = S
      /\ q.todo = T /\ q.acct = NoOne /\ q.drop = {}
  BY DEF NoRequest
<1>6. q \in RequestRecords
  BY <1>3, <1>4 DEF RequestRecords, NoRequest
<1> HIDE DEF q
<1> DEFINE x == ~Meets(Touches(q))
<1>8. x \in BOOLEAN
  <2>1. CASE Meets(Touches(q))
    <3>1. x = FALSE
      BY <2>1, Zenon
    <3> QED
      BY <3>1
  <2>2. CASE ~Meets(Touches(q))
    <3>1. x = TRUE
      BY <2>2, Zenon
    <3> QED
      BY <3>1
  <2> QED
    BY <2>1, <2>2
<1>9. /\ n \in RequestRecords /\ Footing(q, n) /\ n.at = q.at /\ n.todo = q.todo
      /\ n.drop = q.drop /\ n.acct = q.acct /\ n.alone = x
  <2> DEFINE l == [q EXCEPT !.alone = x]
  <2>1. l = n
    OBVIOUS
  <2> HIDE DEF x
  <2>2. /\ l \in RequestRecords /\ Footing(q, l) /\ l.at = q.at /\ l.todo = q.todo
        /\ l.drop = q.drop /\ l.acct = q.acct /\ l.alone = x
    <3>1. q \in RequestRecords /\ x \in BOOLEAN
      BY <1>6, <1>8
    <3>2. l \in RequestRecords
      BY <3>1, RequestField, Zenon
    <3>3. /\ Footing(q, l) /\ l.at = q.at /\ l.todo = q.todo
          /\ l.drop = q.drop /\ l.acct = q.acct
      BY <3>1 DEF RequestRecords, Footing
    <3>4. l.alone = x
      BY <3>1 DEF RequestRecords
    <3> QED
      BY <3>2, <3>3, <3>4
  <2> HIDE DEF l, n
  <2> QED
    BY <2>1, <2>2, Zenon
<1> HIDE DEF n
<1>10. /\ n.at = at /\ n.kind = kind /\ n.token = t /\ n.row = device[t] /\ n.named = S
       /\ n.todo = T /\ n.acct = NoOne /\ n.drop = {}
  BY <1>5, <1>9 DEF Footing
<1>11. Touches(n) = Touches(q)
  BY <1>9, TouchesSame DEF Footing
<1>12. T = Aim(n)
  BY <1>10 DEF Aim, Registering, T
<1>13. RequestOK(n)
  BY <1>1, <1>10, <1>12 DEF RequestOK, Aim, Registering
<1>14. n.at \in {"reddit", "account", "accounts"}
  BY <1>10
<1>15. n.alone = ~Meets(Touches(n)) /\ req' = [Disturbed(Touches(n)) EXCEPT ![r] = n]
       /\ job' = DisturbedJobs(Touches(n))
  BY <1>1, <1>9, <1>11, Zenon
<1>16. device[n.token] = n.row /\ n.token \in Tokens /\ n.row # 0
  BY <1>1, <1>10
<1>17. n.drop = {} /\ n.acct = NoOne /\ n.todo = Aim(n) /\ (n.at = "reddit" => n.kind = "register")
  BY <1>10, <1>12
<1>18. n \in RequestRecords /\ UNCHANGED <<tables, history, faults>> /\ req[r].at = "idle"
  BY <1>1, <1>9
<1>19. Opens(r, n)
  BY <1>2, <1>13, <1>14, <1>15, <1>16, <1>17, <1>18, Zenon DEF Opens
<1> QED
  BY <1>19

(* The steps of a job that write no association, and set out to write none. *)
Plain(k) == Refresh(k) \/ Inbox(k) \/ Save(k) \/ ReadDevices(k) \/ EndPushes(k)

LEMMA WorkIs ==
    ASSUME Works, NEW k \in Workers
    PROVE  /\ job[k] \in WorkRecords /\ job[k].alone \in BOOLEAN /\ job[k].valid \in BOOLEAN
           /\ job[k].devs \subseteq Tokens \X (1..MaxRows)
           /\ job[k].at # "idle" => job[k].acct \in known
           /\ \A p \in Pairs : p \in Detaches(job[k]) <=>
                job[k].at = "detaching" /\ p[2] = job[k].acct
<1>1. job[k] \in WorkRecords /\ (job[k].at # "idle" => job[k].acct \in known)
  BY DEF Works
<1>2. \A p \in Pairs : p \in Detaches(job[k]) <=>
                job[k].at = "detaching" /\ p[2] = job[k].acct
  BY DetachesIs
<1> QED
  BY <1>1, <1>2 DEF WorkRecords

LEMMA WorkAt ==
    ASSUME NEW j \in WorkRecords, NEW x \in WorkPlaces
    PROVE  LET n == [j EXCEPT !.at = x] IN
             n \in WorkRecords /\ n.at = x /\ n.acct = j.acct /\ n.valid = j.valid
             /\ n.devs = j.devs /\ n.alone = j.alone
BY DEF WorkRecords, WorkPlaces

LEMMA WorkDevs ==
    ASSUME NEW j \in WorkRecords, NEW D \in SUBSET (Tokens \X (1..MaxRows))
    PROVE  LET n == [j EXCEPT !.devs = D] IN
             n \in WorkRecords /\ n.at = j.at /\ n.acct = j.acct /\ n.valid = j.valid
             /\ n.devs = D /\ n.alone = j.alone
BY DEF WorkRecords

LEMMA RowsIs ==
    ASSUME Tables, NEW a \in Accounts
    PROVE  /\ Rows(a) \subseteq Tokens \X (1..MaxRows)
           /\ \A p \in assoc \cap On(a) : <<p[1], device[p[1]]>> \in Rows(a)
<1>1. ASSUME NEW p \in assoc \cap On(a) PROVE <<p[1], device[p[1]]>> \in Tokens \X (1..MaxRows)
  <2>1. p[1] \in Tokens /\ device[p[1]] \in 0..MaxRows /\ device[p[1]] # 0
    BY PairIs DEF Tables
  <2> QED
    BY <2>1, RegistrationAssumption
<1> QED
  BY <1>1 DEF Rows

LEMMA PlainIs ==
    ASSUME TypeInv, NEW k \in Workers, Plain(k)
    PROVE  \E n : /\ job' = [job EXCEPT ![k] = n] /\ n \in WorkRecords
                  /\ \/ n = NoWork
                     \/ n.acct = job[k].acct /\ n.valid = job[k].valid
                        /\ n.at \notin {"idle", "detaching"}
                  /\ job[k].at \notin {"idle", "detaching"}
                  /\ good' = good \/ good' = Stored(job[k].acct, good, job[k].valid)
                  /\ UNCHANGED <<device, rows, known, deleted, assoc, history, req, begun, faults>>
<1> DEFINE j == job[k]
           J(n) == /\ n \in WorkRecords
                   /\ \/ n = NoWork
                      \/ n.acct = j.acct /\ n.valid = j.valid
                         /\ n.at \notin {"idle", "detaching"}
           Here == {"inbox", "save", "mark", "devices"}
<1>1. /\ j.at \notin {"idle", "detaching"}
      /\ good' = good \/ good' = Stored(j.acct, good, j.valid)
      /\ UNCHANGED <<device, rows, known, deleted, assoc, history, req, begun, faults>>
  BY DEF Plain, Refresh, Inbox, Save, ReadDevices, EndPushes, Calm, NoRequestStep, tables
<1>2. j \in WorkRecords /\ (j.at # "idle" => j.acct \in Accounts)
  BY WorkIs DEF TypeInv, Tables
<1>3. J(NoWork)
  BY Empty
<1>4. \A x \in Here : J([j EXCEPT !.at = x])
  <2> HIDE DEF j
  <2>1. Here \subseteq WorkPlaces /\ Here \cap {"idle", "detaching"} = {}
    BY DEF WorkPlaces
  <2> HIDE DEF Here
  <2> QED
    BY <1>2, <2>1, WorkAt
<1>5. \A D \in SUBSET (Tokens \X (1..MaxRows)) : J([j EXCEPT !.at = "push", !.devs = D])
  <2> HIDE DEF j
  <2> TAKE D \in SUBSET (Tokens \X (1..MaxRows))
  <2> DEFINE i == [j EXCEPT !.at = "push"]
             n == [i EXCEPT !.devs = D]
  <2>1. "push" \in WorkPlaces
    BY DEF WorkPlaces
  <2>2. i \in WorkRecords /\ i.at = "push" /\ i.acct = j.acct /\ i.valid = j.valid
    BY <1>2, <2>1, WorkAt
  <2> HIDE DEF i
  <2>3. n \in WorkRecords /\ n.at = "push" /\ n.acct = j.acct /\ n.valid = j.valid
    BY <2>2, WorkDevs
  <2>4. n = [j EXCEPT !.at = "push", !.devs = D]
    BY DEF i
  <2> HIDE DEF n
  <2> QED
    BY <2>3, <2>4
<1>6. \E n : job' = [job EXCEPT ![k] = n] /\ J(n)
  <2> HIDE DEF J
  <2>1. CASE Refresh(k)
    BY <2>1, <1>4 DEF Refresh, Runs
  <2>2. CASE Inbox(k)
    BY <2>2, <1>3, <1>4 DEF Inbox, Runs
  <2>3. CASE Save(k)
    <3>1. \/ \E x \in Here : job' = [job EXCEPT ![k] = [j EXCEPT !.at = x]]
          \/ job' = [job EXCEPT ![k] = NoWork]
      BY <2>3 DEF Save, Runs
    <3> QED
      BY <3>1, <1>3, <1>4
  <2>4. CASE ReadDevices(k)
    <3>1. Rows(j.acct) \in SUBSET (Tokens \X (1..MaxRows))
      BY <1>1, <1>2, RowsIs DEF TypeInv
    <3>2. \/ job' = [job EXCEPT ![k] = NoWork]
          \/ job' = [job EXCEPT ![k] = [j EXCEPT !.at = "push", !.devs = Rows(j.acct)]]
      BY <2>4 DEF ReadDevices, Runs
    <3> QED
      BY <3>1, <3>2, <1>3, <1>5
  <2>5. CASE EndPushes(k)
    BY <2>5, <1>3 DEF EndPushes, Runs
  <2> QED
    BY <2>1, <2>2, <2>3, <2>4, <2>5 DEF Plain
<1> QED
  BY <1>1, <1>6

LEMMA StartIs ==
    ASSUME TypeInv, NEW k \in Workers, NEW a \in Accounts, StartJob(k, a)
    PROVE  \E n : /\ job' = [job EXCEPT ![k] = n] /\ n \in WorkRecords
                  /\ n.at = "refresh" /\ n.acct = a /\ n.valid = (a \in good)
                  /\ a \in known /\ job[k].at = "idle"
                  /\ UNCHANGED <<tables, history, req, begun, faults>>
<1> DEFINE x == a \in good
           n == [NoWork EXCEPT !.at = "refresh", !.acct = a, !.valid = x]
<1>1. /\ job' = [job EXCEPT ![k] = n] /\ a \in known /\ job[k].at = "idle"
      /\ UNCHANGED <<tables, history, req, begun, faults>>
  BY DEF StartJob, Runs, Calm, NoRequestStep
<1>2. x \in BOOLEAN
  <2>1. CASE a \in good
    <3>1. x = TRUE
      BY <2>1, Zenon
    <3> QED
      BY <3>1
  <2>2. CASE ~(a \in good)
    <3>1. x = FALSE
      BY <2>2
    <3> QED
      BY <3>1
  <2> QED
    BY <2>1, <2>2
<1> HIDE DEF x
<1>3. n \in WorkRecords /\ n.at = "refresh" /\ n.acct = a
  BY <1>2 DEF NoWork, WorkRecords
<1>4. n.valid = x
  BY <1>2 DEF NoWork, WorkRecords
<1> HIDE DEF n
<1> QED
  BY <1>1, <1>3, <1>4, Zenon DEF x

LEMMA DetachIs ==
    ASSUME TypeInv, NEW k \in Workers, Detach(k)
    PROVE  LET a == job[k].acct IN
             \E n : /\ job' = [DisturbedJobs(On(a)) EXCEPT ![k] = n] /\ n \in WorkRecords
                    /\ n.at = "detaching" /\ n.acct = a /\ n.valid = job[k].valid
                    /\ n.alone = ~Meets(On(a)) /\ n.devs = Rows(a) /\ a \in known
                    /\ ~job[k].valid /\ job[k].at \in {"refresh", "inbox"}
                    /\ req' = Disturbed(On(a))
                    /\ UNCHANGED <<tables, history, begun, faults>>
<1> DEFINE j == job[k]
           a == j.acct
           x == ~Meets(On(a))
           D == Rows(a)
           n == [j EXCEPT !.at = "detaching", !.alone = x, !.devs = D]
<1>1. /\ job' = [DisturbedJobs(On(a)) EXCEPT ![k] = n]
      /\ ~j.valid /\ j.at \in {"refresh", "inbox"}
      /\ req' = Disturbed(On(a)) /\ UNCHANGED <<tables, history, begun, faults>>
  BY DEF Detach, Calm
<1>2. j \in WorkRecords /\ a \in known /\ a \in Accounts
  BY <1>1, WorkIs DEF TypeInv, Tables
<1>3. D \in SUBSET (Tokens \X (1..MaxRows))
  BY <1>2, RowsIs DEF TypeInv
<1>4. x \in BOOLEAN
  <2>1. CASE Meets(On(a))
    <3>1. x = FALSE
      BY <2>1, Zenon
    <3> QED
      BY <3>1
  <2>2. CASE ~Meets(On(a))
    <3>1. x = TRUE
      BY <2>2, Zenon
    <3> QED
      BY <3>1
  <2> QED
    BY <2>1, <2>2
<1>5. /\ n \in WorkRecords /\ n.at = "detaching" /\ n.acct = a /\ n.valid = j.valid
      /\ n.devs = D /\ n.alone = x
  <2> HIDE DEF j, x, D
  <2>1. n \in WorkRecords /\ n.at = "detaching" /\ n.acct = j.acct /\ n.devs = D
    BY <1>2, <1>3, <1>4 DEF WorkRecords
  <2>2. n.valid = j.valid
    BY <1>2 DEF WorkRecords
  <2>3. n.alone = x
    BY <1>2, <1>4 DEF WorkRecords
  <2> QED
    BY <2>1, <2>2, <2>3
<1> HIDE DEF n
<1> QED
  BY <1>1, <1>2, <1>5, Zenon

LEMMA RejectIs ==
    ASSUME TypeInv, NEW k \in Workers, NEW d \in job[k].devs, Reject(k, d)
    PROVE  /\ d[1] \in Tokens
           /\ device' = [device EXCEPT ![d[1]] = 0] /\ assoc' = assoc \ Of(d[1])
           /\ wanted' = wanted \ Of(d[1]) /\ doubt' = doubt \ Of(d[1])
           /\ req' = Disturbed(Of(d[1])) /\ job' = DisturbedJobs(Of(d[1]))
           /\ UNCHANGED <<rows, known, deleted, good, granted, stale, begun, faults>>
<1>1. d[1] \in Tokens
  BY WorkIs DEF TypeInv
<1> QED
  BY <1>1 DEF Reject, DeleteDevice, Calm

LEMMA DisassociateIs ==
    ASSUME TypeInv, NEW k \in Workers, NEW d \in job[k].devs, Disassociate(k, d)
    PROVE  \E n : /\ job' = [job EXCEPT ![k] = n] /\ n \in WorkRecords
                  /\ n.at = "detaching" /\ n.acct = job[k].acct /\ n.valid = job[k].valid
                  /\ n.alone = job[k].alone /\ n.devs = job[k].devs \ {d}
                  /\ job[k].at = "detaching"
                  /\ assoc' = IF device[d[1]] = d[2]
                                THEN assoc \ {<<d[1], job[k].acct>>} ELSE assoc
                  /\ UNCHANGED <<device, rows, known, deleted, good, history, req, begun, faults>>
<1> DEFINE j == job[k]
           D == j.devs \ {d}
           n == [j EXCEPT !.devs = D]
<1>1. /\ job' = [job EXCEPT ![k] = n] /\ j.at = "detaching"
      /\ assoc' = (IF device[d[1]] = d[2] THEN assoc \ {<<d[1], j.acct>>} ELSE assoc)
      /\ UNCHANGED <<device, rows, known, deleted, good, history, req, begun, faults>>
  BY DEF Disassociate, Runs, Calm, NoRequestStep
<1>2. j \in WorkRecords /\ D \in SUBSET (Tokens \X (1..MaxRows))
  BY WorkIs DEF TypeInv
<1>3. /\ n \in WorkRecords /\ n.at = j.at /\ n.acct = j.acct /\ n.valid = j.valid
      /\ n.devs = D /\ n.alone = j.alone
  <2> HIDE DEF j, D
  <2> QED
    BY <1>2, WorkDevs
<1> HIDE DEF n
<1> QED
  BY <1>1, <1>3

LEMMA DeleteIs ==
    ASSUME TypeInv, NEW k \in Workers, DeleteAccount(k)
    PROVE  LET a == job[k].acct IN
             /\ job[k].at = "detaching" /\ job[k].devs = {} /\ a \in known
             /\ deleted' = deleted \cup {a}
             /\ job[k].alone => wanted' = wanted \ On(a) /\ doubt' = doubt \ On(a)
             /\ ~job[k].alone => wanted' = wanted /\ doubt' = doubt \cup On(a)
             /\ job' = [job EXCEPT ![k] = NoWork]
             /\ UNCHANGED <<device, rows, known, assoc, good, granted, stale, req, begun, faults>>
<1>1. job[k].at = "detaching"
  BY DEF DeleteAccount
<1>2. job[k].acct \in known
  BY <1>1, WorkIs DEF TypeInv
<1> QED
  BY <1>1, <1>2 DEF DeleteAccount, Runs, NoRequestStep, Calm

LEMMA JobFailsIs ==
    ASSUME TypeInv, NEW k \in Workers, JobFails(k)
    PROVE  /\ job' = [job EXCEPT ![k] = NoWork] /\ doubt' = doubt \cup Detaches(job[k])
           /\ UNCHANGED <<tables, granted, stale, wanted, req, begun>>
           /\ faults' \in 0..MaxFaults
BY RegistrationAssumption DEF JobFails, Runs, Fault, NoRequestStep, TypeInv, Counters

LEMMA NewIs ==
    ASSUME TypeInv, NEW r \in Handlers, NewRequest(r)
    PROVE  \E q : Opens(r, q)
<1>1. PICK t \in Tokens :
        \/ \E a \in Accounts : \/ Begin(r, "register", t, {a}, "reddit")
                               \/ Begin(r, "disassociate", t, {a}, "account")
        \/ \E S \in SUBSET Accounts : Begin(r, "bulk", t, S, "accounts")
        \/ Begin(r, "delete", t, {}, "accounts")
  BY DEF NewRequest
<1>2. {} \in SUBSET Accounts /\ \A a \in Accounts : {a} \in SUBSET Accounts /\ {a} # {}
  OBVIOUS
<1>3. ASSUME NEW a \in Accounts, Begin(r, "register", t, {a}, "reddit")
      PROVE  \E q : Opens(r, q)
  BY <1>2, <1>3, BeginIs DEF Opens
<1>4. ASSUME NEW a \in Accounts, Begin(r, "disassociate", t, {a}, "account")
      PROVE  \E q : Opens(r, q)
  BY <1>2, <1>4, BeginIs DEF Opens
<1>5. ASSUME NEW S \in SUBSET Accounts, Begin(r, "bulk", t, S, "accounts")
      PROVE  \E q : Opens(r, q)
  BY <1>5, BeginIs DEF Opens
<1>6. ASSUME Begin(r, "delete", t, {}, "accounts")
      PROVE  \E q : Opens(r, q)
  BY <1>2, <1>6, BeginIs DEF Opens
<1> QED
  BY <1>1, <1>3, <1>4, <1>5, <1>6

-----------------------------------------------------------------------------
(* Type correctness, step by step.                                         *)
LEMMA AlikeOK ==
    ASSUME NEW q, NEW n, RequestOK(q), Alike(q, n)
    PROVE  RequestOK(n)
BY DEF RequestOK, Alike, Aim

LEMMA NoRequestOK == RequestOK(NoRequest)
BY DEF RequestOK, NoRequest, Aim, Registering

LEMMA RequestsStep ==
    ASSUME Requests, NEW r \in Handlers, req' \in [Handlers -> RequestRecords],
           known \subseteq known',
           \A s \in Handlers \ {r} : Alike(req[s], req'[s]),
           RequestOK(req'[r]),
           req'[r].at \in {"store", "associate"} <=> req'[r].acct # NoOne,
           req'[r].at = "associate" => req'[r].acct \in known'
    PROVE  Requests'
<1> SUFFICES ASSUME NEW s \in Handlers
             PROVE  /\ req'[s].at \in {"store", "associate"} <=> req'[s].acct # NoOne
                    /\ RequestOK(req'[s])
                    /\ req'[s].at = "associate" => req'[s].acct \in known'
  BY DEF Requests, RequestOK, Aim
<1>1. CASE s = r
  BY <1>1
<1>2. CASE s # r
  <2>1. RequestOK(req[s]) /\ Alike(req[s], req'[s])
    BY <1>2 DEF Requests
  <2>2. RequestOK(req'[s])
    BY <2>1, AlikeOK
  <2> QED
    BY <2>1, <2>2 DEF Requests, Alike
<1> QED
  BY <1>1, <1>2

LEMMA RequestsAlike ==
    ASSUME Requests, req' \in [Handlers -> RequestRecords], known \subseteq known',
           \A s \in Handlers : Alike(req[s], req'[s])
    PROVE  Requests'
<1> SUFFICES ASSUME NEW s \in Handlers
             PROVE  /\ req'[s].at \in {"store", "associate"} <=> req'[s].acct # NoOne
                    /\ RequestOK(req'[s])
                    /\ req'[s].at = "associate" => req'[s].acct \in known'
  BY DEF Requests, RequestOK, Aim
<1>1. RequestOK(req[s]) /\ Alike(req[s], req'[s])
  BY DEF Requests
<1>2. RequestOK(req'[s])
  BY <1>1, AlikeOK
<1> QED
  BY <1>1, <1>2 DEF Requests, Alike

LEMMA AlikeSame == \A q : Alike(q, q)
BY DEF Alike

LEMMA OthersAlike ==
    ASSUME Requests, NEW r \in Handlers, NEW S, NEW n \in RequestRecords,
           req' = [Disturbed(S) EXCEPT ![r] = n]
    PROVE  /\ req' \in [Handlers -> RequestRecords] /\ req'[r] = n
           /\ \A s \in Handlers \ {r} :
                Alike(req[s], req'[s]) /\ (req'[s].alone => Touches(req[s]) \cap S = {})
<1>1. /\ Disturbed(S) \in [Handlers -> RequestRecords]
      /\ \A s \in Handlers : /\ Alike(req[s], Disturbed(S)[s])
                             /\ Disturbed(S)[s].alone => Touches(req[s]) \cap S = {}
  BY DisturbedIs DEF Requests
<1> DEFINE F == Disturbed(S)
<1> HIDE DEF F
<1>2. /\ F \in [Handlers -> RequestRecords] /\ req' = [F EXCEPT ![r] = n]
      /\ \A s \in Handlers : /\ Alike(req[s], F[s])
                             /\ F[s].alone => Touches(req[s]) \cap S = {}
  BY <1>1 DEF F
<1>3. req' \in [Handlers -> RequestRecords] /\ req'[r] = n
  BY <1>2
<1>4. \A s \in Handlers \ {r} : req'[s] = F[s]
  BY <1>2
<1> QED
  BY <1>2, <1>3, <1>4

-----------------------------------------------------------------------------
(* A request that goes on: what it does to itself, and to the others.  It  *)
(* writes once it has read.                                                *)
Writing(q) == q.at \notin {"idle", "account", "accounts"}

(* What a request knows as long as it is alone, of associations L that the *)
(* devices dv have with accounts not in D.                                 *)
SoundIn(q, L, D, dv) ==
    q.alone =>
      /\ q.at # "answer" => \A p \in Touches(q) : dv[q.token] = q.row
      /\ Writing(q) =>
           /\ \A p \in Touches(q) \cap L : p[2] \in Aim(q) \cup q.drop
           /\ \A a \in Aim(q) \ q.todo : <<q.token, a>> \in L
           /\ q.at = "associate" => q.acct \notin D

Sound(q) == SoundIn(q, Live, deleted, device)

(* What is not this request's stays, but for the associations that the     *)
(* return of an account brings back.                                       *)
Leaves(r) ==
    \A p \in Pairs \ Touches(req[r]) :
        /\ (p \in assoc' <=> p \in assoc) /\ device'[p[1]] = device[p[1]]
        /\ (p \in wanted' <=> p \in wanted) /\ (p \in doubt' <=> p \in doubt)
        /\ \/ p \in Live' <=> p \in Live
           \/ /\ p \in Hidden /\ p \notin Hidden'
              /\ \A s \in Handlers \ {r} : p \in Touches(req[s]) => ~req'[s].alone

Wished(n) ==
    /\ n.at # "answer" => wanted' = wanted /\ doubt' = doubt
    /\ n.at = "answer" /\ n.alone =>
         /\ wanted' = (wanted \ Touches(n)) \cup Asked(n)
         /\ doubt' = doubt \ (Touches(n) \ Hidden')
    /\ n.at = "answer" /\ ~n.alone => wanted' = wanted /\ doubt' = doubt \cup Touches(n)

Moves(r, n) ==
    /\ req[r].at # "idle" /\ Footing(req[r], n) /\ RequestOK(n) /\ Writing(n)
    /\ n.alone => req[r].alone
    /\ n.at # "answer" => n \in RequestRecords
    /\ n.at \in {"store", "associate"} <=> n.at # "answer" /\ n.acct # NoOne
    /\ n.at = "associate" => n.acct \in known'
    /\ req'[r] = IF n.at = "answer" THEN NoRequest ELSE n
    /\ \A s \in Handlers \ {r} : Alike(req[s], req'[s])
    /\ job' = job /\ deleted' \subseteq deleted
    /\ Leaves(r) /\ Wished(n)
    /\ Sound(req[r]) => /\ SoundIn(n, Live', deleted', device')
                        /\ n.alone => Hidden' \subseteq Hidden
    /\ \A p \in Hidden' \ Hidden : p \in Touches(req[r])

LEMMA PassesMoves ==
    ASSUME Requests, NEW r \in Handlers, NEW n, Passes(req[r], n), Goes(r, n),
           req[r].at # "idle", UNCHANGED job, deleted' \subseteq deleted,
           \A p \in Pairs \ Touches(req[r]) :
             /\ (p \in assoc' <=> p \in assoc) /\ device'[p[1]] = device[p[1]]
             /\ (p \in Live' <=> p \in Live),
           Sound(req[r]) => /\ SoundIn(n, Live', deleted', device')
                            /\ n.alone => Hidden' \subseteq Hidden,
           \A p \in Hidden' \ Hidden : p \in Touches(req[r])
    PROVE  Moves(r, n) /\ req' \in [Handlers -> RequestRecords]
<1>1. /\ req' \in [Handlers -> RequestRecords]
      /\ \A s \in Handlers \ {r} : req'[s] = req[s]
      /\ req'[r] = IF n.at # "answer" THEN n ELSE NoRequest
      /\ n.at # "answer" => UNCHANGED <<wanted, doubt>>
      /\ n.at = "answer" /\ n.alone =>
           /\ wanted' = (wanted \ Touches(n)) \cup Asked(n)
           /\ doubt' = doubt \ (Touches(n) \ Hidden')
      /\ n.at = "answer" /\ ~n.alone =>
           wanted' = wanted /\ doubt' = doubt \cup Touches(n)
  BY GoesIs
<1>2. /\ Footing(req[r], n) /\ RequestOK(n) /\ (n.alone => req[r].alone)
      /\ n.at \in {"reddit", "drop", "remove", "answer"}
      /\ n.at # "answer" => n \in RequestRecords /\ n.acct = NoOne
  BY DEF Passes
<1>3. Touches(n) = Touches(req[r])
  BY <1>2, TouchesSame DEF Footing
<1>4. Asked(n) \subseteq Touches(n)
  <2>1. n.named \subseteq Accounts /\ n.at # "idle"
    BY <1>2, RequestIs DEF Footing
  <2>2. CASE n.kind = "register"
    BY <2>1, <2>2 DEF Asked, Touches
  <2>3. CASE n.kind = "bulk"
    BY <2>1, <2>3 DEF Asked, Touches, Of
  <2>4. CASE n.kind \notin {"register", "bulk"}
    BY <2>4 DEF Asked
  <2> QED
    BY <2>2, <2>3, <2>4
<1>5. Wished(n)
  BY <1>1 DEF Wished
<1>6. \A s \in Handlers \ {r} : Alike(req[s], req'[s])
  BY <1>1, AlikeSame
<1>7. Leaves(r)
  BY <1>1, <1>3, <1>4 DEF Leaves
<1> QED
  BY <1>1, <1>2, <1>5, <1>6, <1>7 DEF Moves, Writing

LEMMA SameTables ==
    ASSUME UNCHANGED tables
    PROVE  Live' = Live /\ Hidden' = Hidden /\ deleted' = deleted /\ device' = device /\ assoc' = assoc
BY DEF tables, Live, Hidden

LEMMA AccountsMoves ==
    ASSUME TypeInv, NEW r \in Handlers, ReadAccounts(r)
    PROVE  \E n : Moves(r, n) /\ req' \in [Handlers -> RequestRecords]
<1>1. PICK n : /\ Goes(r, n) /\ Passes(req[r], n) /\ n.alone = req[r].alone
               /\ n.todo = req[r].todo /\ n.drop = Dropped(req[r])
               /\ req[r].at = "accounts" /\ UNCHANGED <<tables, job, granted, stale>>
  BY AccountsIs
<1>2. Requests
  BY DEF TypeInv
<1>3. /\ Live' = Live /\ Hidden' = Hidden /\ deleted' = deleted
      /\ device' = device /\ assoc' = assoc
  BY <1>1, SameTables
<1> DEFINE q == req[r]
<1>4. RequestOK(q) /\ Touches(q) \subseteq Of(q.token)
  BY <1>1, <1>2, RequestIs, PairIs
<1>5. Sound(q) => SoundIn(n, Live', deleted', device')
  <2> SUFFICES ASSUME SoundIn(q, Live, deleted, device), n.alone
               PROVE  SoundIn(n, Live, deleted, device)
    BY <1>3 DEF Sound, SoundIn
  <2>1. q.alone /\ q.at = "accounts" /\ Footing(q, n) /\ n.todo = q.todo /\ n.drop = Dropped(q)
        /\ n.at \in {"reddit", "drop", "remove", "answer"}
    BY <1>1 DEF Passes
  <2> HIDE DEF q
  <2>2. Touches(n) = Touches(q)
    BY <2>1, TouchesSame DEF Footing
  <2>3. Aim(n) = q.named /\ n.todo = Aim(n)
    BY <1>4, <2>1 DEF Aim, Footing, RequestOK, Registering
  <2>4. \A p \in Touches(q) : device[q.token] = q.row
    BY <2>1 DEF SoundIn
  <2>5. ASSUME NEW p \in Touches(q) \cap Live PROVE p[2] \in Aim(n) \cup n.drop
    <3>1. p \in Pairs /\ p[1] = q.token
      BY <1>4, PairIs, <2>1 DEF Live, TypeInv, Tables
    <3>2. p[2] \in Accounts /\ p = <<q.token, p[2]>>
      BY <3>1, PairIs
    <3> QED
      BY <2>1, <2>3, <3>2 DEF Dropped
  <2> QED
    BY <2>1, <2>2, <2>3, <2>4, <2>5 DEF SoundIn, Footing
<1> QED
  BY <1>1, <1>2, <1>3, <1>5, PassesMoves

LEMMA StillMoves ==
    ASSUME Requests, NEW r \in Handlers, NEW n \in RequestRecords,
           req' = [req EXCEPT ![r] = n], req[r].at # "idle",
           Footing(req[r], n), RequestOK(n), Writing(n), n.alone => req[r].alone,
           n.at \notin {"answer", "associate"}, n.at \in {"store", "associate"} <=> n.acct # NoOne,
           UNCHANGED <<tables, wanted, doubt, job>>,
           Sound(req[r]) => SoundIn(n, Live, deleted, device)
    PROVE  Moves(r, n) /\ req' \in [Handlers -> RequestRecords]
<1>1. req' \in [Handlers -> RequestRecords] /\ req'[r] = n
      /\ \A s \in Handlers \ {r} : req'[s] = req[s]
  BY DEF Requests
<1>2. /\ Live' = Live /\ Hidden' = Hidden /\ deleted' = deleted
      /\ device' = device /\ assoc' = assoc
  BY SameTables
<1>3. \A s \in Handlers \ {r} : Alike(req[s], req'[s])
  BY <1>1, AlikeSame
<1>4. Leaves(r) /\ Wished(n)
  BY <1>2 DEF Leaves, Wished
<1> QED
  BY <1>1, <1>2, <1>3, <1>4 DEF Moves

LEMMA AccountMoves ==
    ASSUME TypeInv, NEW r \in Handlers, ReadAccount(r)
    PROVE  \E n : Moves(r, n) /\ req' \in [Handlers -> RequestRecords]
<1> DEFINE q == req[r]
<1>1. PICK n : /\ req' = [req EXCEPT ![r] = n]
               /\ n \in RequestRecords /\ Footing(q, n) /\ n.at = "drop"
               /\ n.todo = q.todo /\ n.drop = q.named /\ n.acct = NoOne
               /\ n.alone = q.alone /\ RequestOK(n)
               /\ q.at = "account" /\ UNCHANGED <<tables, history, job, begun, faults>>
  BY AccountIs
<1>2. RequestOK(q) /\ Requests
      /\ \A p \in Pairs : p \in Touches(q) <=>
           q.at # "idle" /\ p[1] = q.token
           /\ (q.kind \in {"register", "disassociate"} => p[2] \in q.named)
  BY RequestIs DEF TypeInv
<1>3. Sound(q) => SoundIn(n, Live, deleted, device)
  <2> SUFFICES ASSUME SoundIn(q, Live, deleted, device), n.alone
               PROVE  SoundIn(n, Live, deleted, device)
    BY DEF Sound, SoundIn
  <2>0. Live \subseteq Pairs
    BY DEF Live, TypeInv, Tables
  <2> HIDE DEF q
  <2>1. q.kind = "disassociate" /\ Aim(n) = {}
    BY <1>1, <1>2 DEF RequestOK, Aim, Footing, Registering
  <2>2. Touches(n) = Touches(q)
    BY <1>1, TouchesSame DEF Footing
  <2>3. \A p \in Touches(q) : device[q.token] = q.row
    BY <1>1 DEF SoundIn
  <2>4. \A p \in Touches(q) \cap Live : p[2] \in n.drop
    BY <1>1, <1>2, <2>0, <2>1
  <2> QED
    BY <1>1, <2>1, <2>2, <2>3, <2>4 DEF SoundIn, Footing
<1>4. Writing(n)
  BY <1>1 DEF Writing
<1>5. UNCHANGED <<tables, wanted, doubt, job>>
  BY <1>1 DEF history
<1> QED
  BY <1>1, <1>2, <1>3, <1>4, <1>5, StillMoves

LEMMA VouchMoves ==
    ASSUME TypeInv, NEW r \in Handlers, Vouch(r)
    PROVE  \E n : Moves(r, n) /\ req' \in [Handlers -> RequestRecords]
<1> DEFINE q == req[r]
<1>1. PICK n : /\ req' = [req EXCEPT ![r] = n]
               /\ n \in RequestRecords /\ Footing(q, n) /\ n.at = "store"
               /\ n.todo = q.todo /\ n.drop = q.drop /\ n.acct \in n.todo
               /\ n.alone = q.alone /\ RequestOK(n)
               /\ q.at = "reddit"
               /\ UNCHANGED <<tables, history, job, begun, faults>>
  BY VouchIs
<1>2. Requests /\ n.acct # NoOne
  BY <1>1, RegistrationAssumption, RequestIs DEF TypeInv
<1>3. Sound(q) => SoundIn(n, Live, deleted, device)
  <2> SUFFICES ASSUME SoundIn(q, Live, deleted, device), n.alone
               PROVE  SoundIn(n, Live, deleted, device)
    BY DEF Sound, SoundIn
  <2> HIDE DEF q
  <2>1. Touches(n) = Touches(q) /\ Aim(n) = Aim(q)
    BY <1>1, TouchesSame DEF Footing, Aim
  <2>2. Writing(q)
    BY <1>1 DEF Writing
  <2> QED
    BY <1>1, <2>1, <2>2 DEF SoundIn, Footing
<1>4. Writing(n)
  BY <1>1 DEF Writing
<1>5. UNCHANGED <<tables, wanted, doubt, job>>
  BY <1>1 DEF history
<1> QED
  BY <1>1, <1>2, <1>3, <1>4, <1>5, StillMoves

LEMMA StoreMoves ==
    ASSUME TypeInv, NEW r \in Handlers, Store(r)
    PROVE  \E n : Moves(r, n) /\ req' \in [Handlers -> RequestRecords]
<1> DEFINE q == req[r]
           a == q.acct
           H == Hidden \cap On(a)
<1>1. PICK n : /\ req' = [Disturbed(H) EXCEPT ![r] = n]
               /\ n \in RequestRecords /\ Footing(q, n) /\ n.at = "associate"
               /\ n.todo = q.todo /\ n.drop = q.drop /\ n.acct = a
               /\ n.alone = q.alone /\ RequestOK(n)
               /\ q.at = "store" /\ a \in Accounts
               /\ known' = known \cup {a} /\ deleted' = deleted \ {a}
               /\ UNCHANGED <<device, rows, assoc, wanted, doubt, job, begun, faults>>
  BY StoreIs
<1>2. Requests /\ RequestOK(q) /\ Live \subseteq Pairs /\ assoc \subseteq Pairs
  BY RequestIs DEF TypeInv, Tables, Live
<1>3. /\ req' \in [Handlers -> RequestRecords] /\ req'[r] = n
      /\ \A s \in Handlers \ {r} :
           Alike(req[s], req'[s]) /\ (req'[s].alone => Touches(req[s]) \cap H = {})
  BY <1>1, <1>2, OthersAlike
<1>4. \A p \in Pairs : /\ p \in Live' <=> p \in Live \/ p \in H
                       /\ p \in Hidden' <=> p \in Hidden /\ p \notin H
                       /\ p \in H => p[2] = a
  <2> SUFFICES ASSUME NEW p \in Pairs
               PROVE  /\ p \in Live' <=> p \in Live \/ p \in H
                      /\ p \in Hidden' <=> p \in Hidden /\ p \notin H
                      /\ p \in H => p[2] = a
    OBVIOUS
  <2>1. p \in On(a) <=> p[2] = a
    BY PairIs
  <2>2. /\ p \in Live <=> p \in assoc /\ p[2] \notin deleted
        /\ p \in Hidden <=> p \in assoc /\ p[2] \in deleted
        /\ p \in Live' <=> p \in assoc /\ (p[2] \notin deleted \/ p[2] = a)
        /\ p \in Hidden' <=> p \in assoc /\ p[2] \in deleted /\ p[2] # a
    BY <1>1 DEF Live, Hidden
  <2> QED
    BY <2>1, <2>2
<1>5. Live' \subseteq Pairs /\ Hidden' \subseteq Hidden
  BY <1>1, <1>2 DEF Live, Hidden
<1>6. Leaves(r)
  BY <1>1, <1>3, <1>4 DEF Leaves
<1>7. SoundIn(q, Live, deleted, device) => SoundIn(n, Live', deleted', device')
  <2> SUFFICES ASSUME SoundIn(q, Live, deleted, device), n.alone
               PROVE  SoundIn(n, Live', deleted', device')
    BY DEF SoundIn
  <2> DEFINE L == Live'
  <2>1. /\ L \subseteq Pairs /\ a \notin deleted' /\ device' = device
        /\ \A p \in L : p \in Live \/ p[2] = a
        /\ \A p \in Live : p \in L
    BY <1>1, <1>2, <1>4, <1>5
  <2> HIDE DEF q, H, L
  <2>2. Touches(n) = Touches(q) /\ Aim(n) = Aim(q)
    BY <1>1, TouchesSame DEF Footing, Aim
  <2>3. Writing(q) /\ a \in Aim(q)
    BY <1>1, <1>2 DEF Writing, RequestOK
  <2>4. \A p \in Touches(n) \cap L : p[2] \in Aim(n) \cup n.drop
    BY <1>1, <2>1, <2>2, <2>3 DEF SoundIn
  <2>5. \A b \in Aim(n) \ n.todo : <<n.token, b>> \in L
    BY <1>1, <2>1, <2>2, <2>3 DEF SoundIn, Footing
  <2>6. \A p \in Touches(n) : device[n.token] = n.row
    BY <1>1, <2>2 DEF SoundIn, Footing
  <2>7. SoundIn(n, L, deleted', device)
    BY <1>1, <2>1, <2>4, <2>5, <2>6 DEF SoundIn
  <2> QED
    BY <2>1, <2>7 DEF L
<1>8. Sound(q) <=> SoundIn(q, Live, deleted, device)
  BY DEF Sound
<1>9. n.acct # NoOne /\ Writing(n) /\ Wished(n) /\ deleted' \subseteq deleted
  BY <1>1, RegistrationAssumption DEF Writing, Wished
<1> QED
  <2> HIDE DEF H
  <2> QED
    BY <1>1, <1>3, <1>5, <1>6, <1>7, <1>8, <1>9 DEF Moves

LEMMA AssociateMoves ==
    ASSUME TypeInv, NEW r \in Handlers, Associate(r)
    PROVE  \E n : Moves(r, n) /\ req' \in [Handlers -> RequestRecords]
<1> DEFINE q == req[r]
           new == <<q.token, q.acct>>
<1>1. PICK n : /\ Goes(r, n) /\ Passes(q, n) /\ n.alone = q.alone
               /\ n.todo = q.todo \ {q.acct} /\ n.drop = q.drop
               /\ q.at = "associate" /\ device[q.token] = q.row
               /\ assoc' = assoc \cup {new}
               /\ UNCHANGED <<device, rows, known, deleted, good, granted, stale, job>>
  BY AssociateIs
<1>2. /\ Requests /\ RequestOK(q) /\ Live \subseteq Pairs /\ assoc \subseteq Pairs
      /\ q.named \subseteq Accounts
      /\ \A p \in Pairs : p \in Touches(q) <=>
           q.at # "idle" /\ p[1] = q.token
           /\ (q.kind \in {"register", "disassociate"} => p[2] \in q.named)
  BY RequestIs DEF TypeInv, Tables, Live
<1>3. q.acct \in q.todo /\ q.acct \in Aim(q) /\ q.token \in Tokens /\ q.acct \in Accounts
      /\ q.acct \in q.named
  BY <1>1, <1>2 DEF RequestOK, Aim
<1>4. /\ new \in Pairs /\ new[1] = q.token /\ new[2] = q.acct /\ new \in Touches(q)
  <2> HIDE DEF q
  <2>1. new \in Pairs /\ new[1] = q.token /\ new[2] = q.acct
    BY <1>3, PairOf
  <2> HIDE DEF new
  <2> QED
    BY <1>1, <1>2, <1>3, <2>1
<1>5. \A p : /\ p \in Live' <=> p \in Live \/ (p = new /\ q.acct \notin deleted)
             /\ p \in Hidden' <=> p \in Hidden \/ (p = new /\ q.acct \in deleted)
  <2> HIDE DEF q, new
  <2> QED
    BY <1>1, <1>4 DEF Live, Hidden
<1>6. /\ \A p \in Hidden' \ Hidden : p \in Touches(q)
      /\ \A p \in Pairs \ Touches(q) :
             /\ (p \in assoc' <=> p \in assoc) /\ device'[p[1]] = device[p[1]]
             /\ (p \in Live' <=> p \in Live)
  <2> HIDE DEF q, new
  <2> QED
    BY <1>1, <1>4, <1>5
<1>7. Sound(q) => /\ SoundIn(n, Live', deleted', device')
                  /\ n.alone => Hidden' \subseteq Hidden
  <2> SUFFICES ASSUME SoundIn(q, Live, deleted, device), n.alone
               PROVE  SoundIn(n, Live', deleted', device') /\ Hidden' \subseteq Hidden
    BY DEF Sound, SoundIn
  <2> DEFINE L == Live'
  <2>1. deleted' = deleted /\ device' = device /\ Footing(q, n)
        /\ n.at \in {"reddit", "drop", "remove", "answer"}
    BY <1>1 DEF Passes
  <2>0. \A p : p \in L <=> p \in Live \/ (p = new /\ q.acct \notin deleted)
    BY <1>5
  <2> HIDE DEF q, L
  <2>2. Touches(n) = Touches(q) /\ Aim(n) = Aim(q)
    BY <1>1, <2>1, TouchesSame DEF Footing, Aim
  <2>3. Writing(q) /\ q.alone
    BY <1>1 DEF Writing
  <2>4. q.acct \notin deleted
    BY <1>1, <2>3 DEF SoundIn
  <2>5. Hidden' \subseteq Hidden
    BY <1>5, <2>4
  <2>6. \A p \in Touches(n) \cap L : p[2] \in Aim(n) \cup n.drop
    <3> HIDE DEF new
    <3> QED
      BY <1>1, <1>3, <1>4, <2>0, <2>2, <2>3 DEF SoundIn
  <2>7. \A b \in Aim(n) \ n.todo : <<n.token, b>> \in L
    BY <1>1, <2>0, <2>1, <2>2, <2>3, <2>4 DEF SoundIn, Footing
  <2>8. \A p \in Touches(n) : device[n.token] = n.row
    BY <1>1, <2>1, <2>2, <2>3 DEF SoundIn, Footing
  <2>9. SoundIn(n, L, deleted, device)
    BY <2>1, <2>6, <2>7, <2>8 DEF SoundIn
  <2> QED
    BY <2>1, <2>5, <2>9 DEF L
<1> QED
  BY <1>1, <1>2, <1>6, <1>7, PassesMoves

LEMMA DropMoves ==
    ASSUME TypeInv, NEW r \in Handlers, NEW a \in Accounts, Drop(r, a)
    PROVE  \E n : Moves(r, n) /\ req' \in [Handlers -> RequestRecords]
<1> DEFINE q == req[r]
           old == <<q.token, a>>
           held == device[q.token] = q.row
<1>1. PICK n : /\ Goes(r, n) /\ Passes(q, n) /\ n.alone = q.alone
               /\ n.todo = q.todo /\ n.drop = q.drop \ {a}
               /\ q.at = "drop" /\ a \in q.drop
               /\ assoc' = IF held THEN assoc \ {old} ELSE assoc
               /\ UNCHANGED <<device, rows, known, deleted, good, granted, stale, job>>
  BY DropIs
<1>2. /\ Requests /\ RequestOK(q) /\ Live \subseteq Pairs /\ assoc \subseteq Pairs
      /\ \A p \in Pairs : p \in Touches(q) <=>
           q.at # "idle" /\ p[1] = q.token
           /\ (q.kind \in {"register", "disassociate"} => p[2] \in q.named)
  BY RequestIs DEF TypeInv, Tables, Live
<1>3. /\ q.token \in Tokens /\ a \notin Aim(q)
      /\ q.kind # "register" /\ (q.kind = "disassociate" => a \in q.named)
  BY <1>1, <1>2 DEF RequestOK
<1>4. /\ old \in Pairs /\ old[1] = q.token /\ old[2] = a /\ old \in Touches(q)
  <2> HIDE DEF q
  <2>1. old \in Pairs /\ old[1] = q.token /\ old[2] = a
    BY <1>3, PairOf
  <2> HIDE DEF old
  <2> QED
    BY <1>1, <1>2, <1>3, <2>1
<1>5. \A p : /\ p \in Live' <=> p \in Live /\ ~(p = old /\ held)
             /\ p \in Hidden' => p \in Hidden
  <2> HIDE DEF q, old, held
  <2> QED
    BY <1>1, <1>4 DEF Live, Hidden
<1>6. /\ \A p \in Hidden' \ Hidden : p \in Touches(q)
      /\ \A p \in Pairs \ Touches(q) :
             /\ (p \in assoc' <=> p \in assoc) /\ device'[p[1]] = device[p[1]]
             /\ (p \in Live' <=> p \in Live)
  <2> HIDE DEF q, old, held
  <2> QED
    BY <1>1, <1>4, <1>5
<1>7. Sound(q) => /\ SoundIn(n, Live', deleted', device')
                  /\ n.alone => Hidden' \subseteq Hidden
  <2> SUFFICES ASSUME SoundIn(q, Live, deleted, device), n.alone
               PROVE  SoundIn(n, Live', deleted', device') /\ Hidden' \subseteq Hidden
    BY DEF Sound, SoundIn
  <2> DEFINE L == Live'
  <2>1. deleted' = deleted /\ device' = device /\ Footing(q, n)
        /\ n.at \in {"reddit", "drop", "remove", "answer"}
    BY <1>1 DEF Passes
  <2>2. held
    BY <1>1, <1>4 DEF SoundIn
  <2>3. \A p : p \in L <=> p \in Live /\ p # old
    BY <1>5, <2>2
  <2>4. Hidden' \subseteq Hidden
    BY <1>5
  <2> HIDE DEF q, L, held
  <2>5. Touches(n) = Touches(q) /\ Aim(n) = Aim(q)
    BY <1>1, <2>1, TouchesSame DEF Footing, Aim
  <2>6. Writing(q) /\ q.alone
    BY <1>1 DEF Writing
  <2>7. \A p \in Touches(n) \cap L : p[2] \in Aim(n) \cup n.drop
    <3> SUFFICES ASSUME NEW p \in Touches(n) \cap L, p[2] = a
                 PROVE  FALSE
      BY <1>1, <2>3, <2>5, <2>6 DEF SoundIn
    <3>1. p \in Pairs /\ p[1] = q.token
      BY <1>2, <2>3, <2>5
    <3>2. p = old
      BY <3>1, PairIs
    <3> QED
      BY <2>3, <3>2
  <2>8. \A b \in Aim(n) \ n.todo : <<n.token, b>> \in L
    <3> SUFFICES ASSUME NEW b \in Aim(n) \ n.todo
                 PROVE  <<q.token, b>> \in L
      BY <2>1 DEF Footing
    <3>1. <<q.token, b>> \in Live
      BY <1>1, <2>5, <2>6 DEF SoundIn
    <3>2. <<q.token, b>> # old
      BY <1>3, <2>5
    <3> QED
      BY <2>3, <3>1, <3>2
  <2>9. \A p \in Touches(n) : device[n.token] = n.row
    BY <1>1, <2>1, <2>5, <2>6 DEF SoundIn, Footing
  <2>10. SoundIn(n, L, deleted, device)
    BY <2>1, <2>7, <2>8, <2>9 DEF SoundIn
  <2> QED
    BY <2>1, <2>4, <2>10 DEF L
<1> QED
  BY <1>1, <1>2, <1>6, <1>7, PassesMoves

LEMMA DeviceGone ==
    ASSUME Tables, NEW t \in Tokens, device' = [device EXCEPT ![t] = 0],
           assoc' = assoc \ Of(t), deleted' = deleted
    PROVE  /\ \A p \in Pairs \ Of(t) : /\ p \in assoc' <=> p \in assoc
                                       /\ device'[p[1]] = device[p[1]]
                                       /\ p \in Live' <=> p \in Live
                                       /\ p \in Hidden' <=> p \in Hidden
           /\ Live' = Live \ Of(t) /\ Hidden' = Hidden \ Of(t)
<1>1. Live' = Live \ Of(t) /\ Hidden' = Hidden \ Of(t)
  BY DEF Live, Hidden
<1>2. ASSUME NEW p \in Pairs \ Of(t) PROVE device'[p[1]] = device[p[1]]
  <2>1. p[1] \in Tokens /\ p[1] # t
    BY PairIs
  <2> QED
    BY <2>1 DEF Tables
<1> QED
  BY <1>1, <1>2

LEMMA RemoveMoves ==
    ASSUME TypeInv, NEW r \in Handlers, Remove(r)
    PROVE  \E n : Moves(r, n) /\ req' \in [Handlers -> RequestRecords]
<1> DEFINE q == req[r]
<1>1. PICK n : /\ Goes(r, n) /\ Passes(q, n) /\ n.alone = q.alone
               /\ n.at = "answer" /\ n.todo = {} /\ n.drop = {}
               /\ q.at = "remove"
               /\ device' = [device EXCEPT ![q.token] = 0]
               /\ assoc' = assoc \ Of(q.token)
               /\ UNCHANGED <<rows, known, deleted, good, granted, stale, job>>
  BY RemoveIs
<1>2. /\ Requests /\ RequestOK(q) /\ Tables
  BY RequestIs DEF TypeInv
<1>3. q.kind = "delete" /\ q.token \in Tokens /\ Aim(q) = {}
  BY <1>1, <1>2 DEF RequestOK, Aim, Registering
<1>4. Touches(q) = Of(q.token)
  BY <1>1, <1>3 DEF Touches
<1>5. /\ \A p \in Pairs \ Touches(q) :
             /\ (p \in assoc' <=> p \in assoc) /\ device'[p[1]] = device[p[1]]
             /\ (p \in Live' <=> p \in Live)
      /\ Live' = Live \ Touches(q) /\ Hidden' = Hidden \ Touches(q)
  <2> HIDE DEF q
  <2> QED
    BY <1>1, <1>2, <1>3, <1>4, DeviceGone
<1>6. Sound(q) => /\ SoundIn(n, Live', deleted', device')
                  /\ n.alone => Hidden' \subseteq Hidden
  <2>1. Footing(q, n)
    BY <1>1 DEF Passes
  <2>2. Touches(n) = Touches(q) /\ Aim(n) = {}
    BY <1>1, <1>3, <2>1, TouchesSame DEF Footing, Aim
  <2>3. Touches(n) \cap Live' = {}
    BY <1>5, <2>2
  <2> QED
    BY <1>1, <1>5, <2>2, <2>3 DEF SoundIn
<1> QED
  BY <1>1, <1>2, <1>5, <1>6, PassesMoves

LEMMA DropFailsMoves ==
    ASSUME TypeInv, NEW r \in Handlers, DropFails(r)
    PROVE  \E n : Moves(r, n) /\ req' \in [Handlers -> RequestRecords]
<1>1. PICK n : /\ Goes(r, n) /\ Passes(req[r], n) /\ ~n.alone
               /\ req[r].at \in {"drop", "remove"}
               /\ UNCHANGED <<tables, granted, stale, job>>
  BY DropFailsIs
<1>2. /\ Live' = Live /\ Hidden' = Hidden /\ deleted' = deleted
      /\ device' = device /\ assoc' = assoc
  BY <1>1, SameTables
<1>3. Requests
  BY DEF TypeInv
<1>4. SoundIn(n, Live', deleted', device')
  BY <1>1 DEF SoundIn
<1> QED
  BY <1>1, <1>2, <1>3, <1>4, PassesMoves

(* The steps by which a request goes on, or answers.                       *)
GoesOn(r) ==
    \/ ReadAccounts(r) \/ ReadAccount(r) \/ Vouch(r) \/ Store(r) \/ Associate(r)
    \/ \E a \in Accounts : Drop(r, a)
    \/ Remove(r) \/ DropFails(r)

LEMMA GoesOnMoves ==
    ASSUME TypeInv, NEW r \in Handlers, GoesOn(r)
    PROVE  \E n : Moves(r, n) /\ req' \in [Handlers -> RequestRecords]
BY AccountsMoves, AccountMoves, VouchMoves, StoreMoves, AssociateMoves, DropMoves,
   RemoveMoves, DropFailsMoves DEF GoesOn

LEMMA TablesSame == Tables /\ UNCHANGED <<tables, granted, stale>> => Tables'
BY DEF Tables, tables

LEMMA StoreTables ==
    ASSUME TypeInv, NEW r \in Handlers, Store(r)
    PROVE  Tables' /\ known \subseteq known'
<1> DEFINE q == req[r]
           a == q.acct
<1>1. /\ a \in Accounts
      /\ known' = known \cup {a} /\ deleted' = deleted \ {a}
      /\ good' = Stored(a, good, q.valid)
      /\ granted' = (IF q.valid THEN granted \cup {a} ELSE granted)
      /\ \/ stale' = stale \cup {a}
         \/ stale' = stale \ {a}
      /\ UNCHANGED <<device, rows, assoc>>
  <2>1. stale' = IF \/ \E k \in Workers : job[k].acct = a
                    \/ ~q.valid /\ a \in granted
                 THEN stale \cup {a} ELSE stale \ {a}
    BY StoreIs
  <2> QED
    BY <2>1, StoreIs
<1> HIDE DEF q
<1>2. good' \subseteq good \cup {a} /\ granted' \subseteq granted \cup {a}
      /\ stale' \subseteq stale \cup {a}
  BY <1>1 DEF Stored
<1> QED
  BY <1>1, <1>2 DEF TypeInv, Tables

LEMMA GoneTables ==
    ASSUME Tables, NEW t \in Tokens, device' = [device EXCEPT ![t] = 0],
           assoc' = assoc \ Of(t), UNCHANGED <<rows, known, deleted, good, granted, stale>>
    PROVE  Tables'
<1>1. device' \in [Tokens -> 0..MaxRows] /\ \A u \in Tokens : device'[u] \in {0, rows[u]}
  BY RegistrationAssumption DEF Tables
<1>2. ASSUME NEW p \in assoc' PROVE device'[p[1]] # 0 /\ p[2] \in known
  <2>1. p \in assoc /\ p \in Pairs \ Of(t)
    BY DEF Tables
  <2>2. device'[p[1]] = device[p[1]]
    BY <2>1, DeviceGone
  <2> QED
    BY <2>1, <2>2 DEF Tables
<1> QED
  BY <1>1, <1>2 DEF Tables

LEMMA GoesOnTables ==
    ASSUME TypeInv, NEW r \in Handlers, GoesOn(r)
    PROVE  Tables' /\ known \subseteq known'
<1>1. CASE ReadAccounts(r) \/ ReadAccount(r) \/ Vouch(r) \/ DropFails(r)
  <2>1. UNCHANGED <<tables, granted, stale>>
    BY <1>1 DEF ReadAccounts, ReadAccount, Vouch, DropFails, history
  <2> QED
    BY <2>1, TablesSame DEF TypeInv, tables
<1>2. CASE Store(r)
  BY <1>2, StoreTables
<1>3. CASE Associate(r)
  <2> DEFINE q == req[r]
             new == <<q.token, q.acct>>
  <2>1. /\ q.at = "associate" /\ device[q.token] = q.row
        /\ assoc' = assoc \cup {new}
        /\ UNCHANGED <<device, rows, known, deleted, good, granted, stale>>
    BY <1>3, AssociateIs
  <2>2. q.token \in Tokens /\ q.row # 0 /\ q.acct \in known
    BY <2>1, RequestIs DEF TypeInv, Requests, RequestOK
  <2> HIDE DEF q
  <2>3. new \in Pairs /\ new[1] = q.token /\ new[2] = q.acct
    BY <2>2, PairOf DEF TypeInv, Tables
  <2> HIDE DEF new
  <2> QED
    BY <2>1, <2>2, <2>3 DEF TypeInv, Tables
<1>4. CASE \E a \in Accounts : Drop(r, a)
  <2>1. assoc' \subseteq assoc /\ UNCHANGED <<device, rows, known, deleted, good, granted, stale>>
    BY <1>4 DEF Drop
  <2> QED
    BY <2>1 DEF TypeInv, Tables
<1>5. CASE Remove(r)
  <2>1. /\ device' = [device EXCEPT ![req[r].token] = 0]
        /\ assoc' = assoc \ Of(req[r].token) /\ req[r].token \in Tokens
        /\ UNCHANGED <<rows, known, deleted, good, granted, stale>>
    BY <1>5, RemoveIs, RequestIs DEF TypeInv, RequestOK
  <2> QED
    BY <2>1, GoneTables DEF TypeInv
<1> QED
  BY <1>1, <1>2, <1>3, <1>4, <1>5 DEF GoesOn

LEMMA GoesOnCounts ==
    ASSUME TypeInv, NEW r \in Handlers, GoesOn(r)
    PROVE  Counters'
<1>1. begun' = begun /\ (faults' = faults \/ (faults < MaxFaults /\ faults' = faults + 1))
  BY DEF GoesOn, ReadAccounts, ReadAccount, Vouch, Store, Associate, Drop, Remove, DropFails,
         Calm, Fault
<1> QED
  BY <1>1, RegistrationAssumption DEF TypeInv, Counters

LEMMA MovesType ==
    ASSUME TypeInv, NEW r \in Handlers, NEW n, Moves(r, n),
           req' \in [Handlers -> RequestRecords], Tables', known \subseteq known', Counters'
    PROVE  TypeInv'
<1>1. Requests'
  <2>1. /\ RequestOK(req'[r])
        /\ req'[r].at \in {"store", "associate"} <=> req'[r].acct # NoOne
        /\ req'[r].at = "associate" => req'[r].acct \in known'
    BY NoRequestOK, Empty DEF Moves
  <2> QED
    BY <2>1, RequestsStep DEF Moves, TypeInv
<1>2. Works'
  BY DEF Moves, TypeInv, Works
<1>3. Wishes'
  <2>1. Touches(n) \subseteq Pairs
    <3>1. Touches(n) = Touches(req[r])
      BY TouchesSame DEF Moves, Footing, Writing
    <3> QED
      BY <3>1, RequestIs DEF TypeInv
  <2>2. Asked(n) \subseteq Pairs
    BY RequestIs DEF TypeInv, Asked, Moves, Footing, RequestOK, Pairs
  <2> QED
    BY <2>1, <2>2 DEF Moves, Wished, TypeInv, Wishes
<1> QED
  BY <1>1, <1>2, <1>3 DEF TypeInv

-----------------------------------------------------------------------------
(* The other steps.                                                        *)
LEMMA UpsertIs ==
    ASSUME TypeInv, NEW t \in Tokens, UpsertDevice(t)
    PROVE  /\ Tables' /\ device[t] = 0
           /\ \A u \in Tokens \ {t} : device'[u] = device[u]
           /\ UNCHANGED <<known, deleted, assoc, good, req, job, history, begun, faults>>
<1>1. /\ device[t] = 0 /\ rows[t] < MaxRows
      /\ rows' = [rows EXCEPT ![t] = rows[t] + 1]
      /\ device' = [device EXCEPT ![t] = rows[t] + 1]
      /\ UNCHANGED <<known, deleted, assoc, good, req, job, history, begun, faults>>
  BY DEF UpsertDevice, Calm
<1>2. Tables /\ MaxRows \in Nat
  BY RegistrationAssumption DEF TypeInv
<1>3. rows[t] \in 0..MaxRows /\ rows[t] + 1 \in 0..MaxRows /\ rows[t] + 1 # 0
  BY <1>1, <1>2 DEF Tables
<1>4. /\ device' \in [Tokens -> 0..MaxRows] /\ rows' \in [Tokens -> 0..MaxRows]
      /\ \A u \in Tokens : device'[u] \in {0, rows'[u]}
      /\ \A u \in Tokens : device'[u] # 0 \/ device[u] = 0
      /\ \A u \in Tokens \ {t} : device'[u] = device[u]
  BY <1>1, <1>2, <1>3 DEF Tables
<1>5. ASSUME NEW p \in assoc PROVE device'[p[1]] # 0
  BY <1>2, <1>4, <1>5, PairIs DEF Tables
<1>6. Tables'
  BY <1>1, <1>2, <1>4, <1>5 DEF Tables, history
<1> QED
  BY <1>1, <1>4, <1>6

LEMMA RevokeIs ==
    ASSUME TypeInv, NEW a \in Accounts, Revoke(a)
    PROVE  /\ req' \in [Handlers -> RequestRecords] /\ job' \in [Workers -> WorkRecords]
           /\ \A s \in Handlers : Alike(req[s], req'[s])
           /\ \A k \in Workers : /\ AlikeJobs(job[k], job'[k])
                                 /\ job'[k].valid <=> job[k].valid /\ job[k].acct # a
           /\ good' = good \ {a} /\ granted' = granted \ {a}
           /\ UNCHANGED <<device, rows, known, deleted, assoc, stale, wanted, doubt, begun, faults>>
<1>1. /\ good' = good \ {a} /\ granted' = granted \ {a}
      /\ req' = [s \in Handlers |-> IF req[s].acct = a
                                      THEN [req[s] EXCEPT !.valid = FALSE] ELSE req[s]]
      /\ job' = [k \in Workers |-> IF job[k].acct = a
                                     THEN [job[k] EXCEPT !.valid = FALSE] ELSE job[k]]
      /\ UNCHANGED <<device, rows, known, deleted, assoc, stale, wanted, doubt, begun, faults>>
  BY DEF Revoke, Calm
<1>2. FALSE \in BOOLEAN
  OBVIOUS
<1>3. ASSUME NEW s \in Handlers
      PROVE  req'[s] \in RequestRecords /\ Alike(req[s], req'[s])
  <2> DEFINE q == req[s]
             n == [q EXCEPT !.valid = FALSE]
  <2>1. q \in RequestRecords
    BY DEF TypeInv, Requests
  <2>2. req'[s] = n \/ req'[s] = q
    BY <1>1
  <2> HIDE DEF q
  <2>3. /\ n \in RequestRecords /\ Footing(q, n) /\ n.at = q.at
        /\ n.todo = q.todo /\ n.drop = q.drop /\ n.acct = q.acct /\ n.alone = q.alone
    BY <1>2, <2>1, Lonely, Zenon
  <2> HIDE DEF n
  <2>4. Alike(q, n) /\ Alike(q, q)
    BY <2>3 DEF Alike, Footing
  <2> QED
    BY <2>1, <2>2, <2>3, <2>4 DEF q
<1>4. ASSUME NEW k \in Workers
      PROVE  /\ job'[k] \in WorkRecords /\ AlikeJobs(job[k], job'[k])
             /\ job'[k].valid <=> job[k].valid /\ job[k].acct # a
  <2> DEFINE j == job[k]
             n == [j EXCEPT !.valid = FALSE]
  <2>1. j \in WorkRecords
    BY DEF TypeInv, Works
  <2>2. job'[k] = IF j.acct = a THEN n ELSE j
    BY <1>1
  <2> HIDE DEF j
  <2>3. n \in WorkRecords
    BY <1>2, <2>1, WorkField, Zenon
  <2>4. n.at = j.at /\ n.acct = j.acct /\ n.devs = j.devs
    BY <2>1 DEF WorkRecords
  <2>5. n.alone = j.alone
    BY <2>1 DEF WorkRecords
  <2>6. ~n.valid
    BY <2>1 DEF WorkRecords
  <2> HIDE DEF n
  <2>7. AlikeJobs(j, n) /\ AlikeJobs(j, j)
    BY <2>4, <2>5 DEF AlikeJobs
  <2>8. CASE j.acct = a
    BY <2>2, <2>3, <2>6, <2>7, <2>8 DEF j
  <2>9. CASE j.acct # a
    BY <2>1, <2>2, <2>7, <2>9 DEF j
  <2> QED
    BY <2>8, <2>9
<1>5. req' \in [Handlers -> RequestRecords]
  BY <1>1, <1>3
<1>6. job' \in [Workers -> WorkRecords]
  BY <1>1, <1>4
<1> QED
  BY <1>1, <1>3, <1>4, <1>5, <1>6

LEMMA OpensIs ==
    ASSUME TypeInv, NEW r \in Handlers, NEW q, Opens(r, q)
    PROVE  /\ req' \in [Handlers -> RequestRecords] /\ req'[r] = q
           /\ \A s \in Handlers \ {r} :
                /\ Alike(req[s], req'[s])
                /\ req'[s].alone => Touches(req[s]) \cap Touches(q) = {}
           /\ job' \in [Workers -> WorkRecords]
           /\ \A k \in Workers :
                /\ AlikeJobs(job[k], job'[k]) /\ job'[k].valid = job[k].valid
                /\ job'[k].alone => Detaches(job[k]) \cap Touches(q) = {}
<1> DEFINE T == Touches(q)
<1>1. /\ q \in RequestRecords /\ req' = [Disturbed(T) EXCEPT ![r] = q] /\ job' = DisturbedJobs(T)
  BY DEF Opens
<1>2. Requests /\ job \in [Workers -> WorkRecords]
  BY DEF TypeInv, Works
<1> HIDE DEF T
<1>3. /\ req' \in [Handlers -> RequestRecords] /\ req'[r] = q
      /\ \A s \in Handlers \ {r} :
           Alike(req[s], req'[s]) /\ (req'[s].alone => Touches(req[s]) \cap T = {})
  BY <1>1, <1>2, OthersAlike
<1>4. /\ job' \in [Workers -> WorkRecords]
      /\ \A k \in Workers :
           /\ AlikeJobs(job[k], job'[k]) /\ job'[k].valid = job[k].valid
           /\ job'[k].alone => Detaches(job[k]) \cap T = {}
  BY <1>1, <1>2, DisturbedJobsIs
<1> QED
  BY <1>3, <1>4 DEF T

LEMMA WorkDetachIs ==
    ASSUME TypeInv, NEW k \in Workers, Detach(k)
    PROVE  LET a == job[k].acct IN
             /\ a \in known /\ ~job[k].valid /\ job[k].at \in {"refresh", "inbox"}
             /\ job' \in [Workers -> WorkRecords]
             /\ job'[k].at = "detaching" /\ job'[k].acct = a /\ job'[k].valid = job[k].valid
             /\ job'[k].alone = ~Meets(On(a)) /\ job'[k].devs = Rows(a)
             /\ \A l \in Workers \ {k} :
                  /\ AlikeJobs(job[l], job'[l]) /\ job'[l].valid = job[l].valid
                  /\ job'[l].alone => Detaches(job[l]) \cap On(a) = {}
             /\ req' \in [Handlers -> RequestRecords]
             /\ \A s \in Handlers :
                  /\ Alike(req[s], req'[s])
                  /\ req'[s].alone => Touches(req[s]) \cap On(a) = {}
             /\ UNCHANGED <<tables, history, begun, faults>>
<1> DEFINE a == job[k].acct
           S == On(a)
           x == ~Meets(S)
           F == DisturbedJobs(S)
<1>1. PICK n : /\ job' = [F EXCEPT ![k] = n] /\ n \in WorkRecords
               /\ n.at = "detaching" /\ n.acct = a /\ n.valid = job[k].valid
               /\ n.alone = x /\ n.devs = Rows(a) /\ a \in known
               /\ ~job[k].valid /\ job[k].at \in {"refresh", "inbox"}
               /\ req' = Disturbed(S)
               /\ UNCHANGED <<tables, history, begun, faults>>
  BY DetachIs, Zenon
<1>2. req \in [Handlers -> RequestRecords] /\ job \in [Workers -> WorkRecords]
  BY DEF TypeInv, Requests, Works
<1>3. /\ F \in [Workers -> WorkRecords]
      /\ \A l \in Workers :
           /\ AlikeJobs(job[l], F[l]) /\ F[l].valid = job[l].valid
           /\ F[l].alone => Detaches(job[l]) \cap S = {}
  BY <1>2, DisturbedJobsIs
<1>4. /\ req' \in [Handlers -> RequestRecords]
      /\ \A s \in Handlers : /\ Alike(req[s], req'[s])
                             /\ req'[s].alone => Touches(req[s]) \cap S = {}
  BY <1>1, <1>2, DisturbedIs
<1> HIDE DEF F
<1>5. job' \in [Workers -> WorkRecords] /\ job'[k] = n /\ \A l \in Workers \ {k} : job'[l] = F[l]
  BY <1>1, <1>3
<1>6. \A l \in Workers \ {k} :
           /\ AlikeJobs(job[l], job'[l]) /\ job'[l].valid = job[l].valid
           /\ job'[l].alone => Detaches(job[l]) \cap S = {}
  BY <1>3, <1>5
<1>7. /\ a \in known /\ ~job[k].valid /\ job[k].at \in {"refresh", "inbox"}
      /\ UNCHANGED <<tables, history, begun, faults>>
  BY <1>1
<1>8. /\ job'[k].at = "detaching" /\ job'[k].acct = a /\ job'[k].valid = job[k].valid
      /\ job'[k].devs = Rows(a)
  BY <1>1, <1>5
<1>9. job'[k].alone = x
  BY <1>1, <1>5, Zenon
<1> QED
  BY <1>4, <1>5, <1>6, <1>7, <1>8, <1>9, Zenon

LEMMA WorkRejectIs ==
    ASSUME TypeInv, NEW k \in Workers, NEW d \in job[k].devs, Reject(k, d)
    PROVE  \E t \in Tokens :
             /\ device' = [device EXCEPT ![t] = 0] /\ assoc' = assoc \ Of(t)
             /\ wanted' = wanted \ Of(t) /\ doubt' = doubt \ Of(t)
             /\ req' \in [Handlers -> RequestRecords] /\ job' \in [Workers -> WorkRecords]
             /\ \A s \in Handlers :
                  /\ Alike(req[s], req'[s])
                  /\ req'[s].alone => Touches(req[s]) \cap Of(t) = {}
             /\ \A l \in Workers :
                  /\ AlikeJobs(job[l], job'[l]) /\ job'[l].valid = job[l].valid
                  /\ job'[l].alone => Detaches(job[l]) \cap Of(t) = {}
             /\ UNCHANGED <<rows, known, deleted, good, granted, stale, begun, faults>>
<1> DEFINE t == d[1]
<1>1. /\ t \in Tokens
      /\ device' = [device EXCEPT ![t] = 0] /\ assoc' = assoc \ Of(t)
      /\ wanted' = wanted \ Of(t) /\ doubt' = doubt \ Of(t)
      /\ req' = Disturbed(Of(t)) /\ job' = DisturbedJobs(Of(t))
      /\ UNCHANGED <<rows, known, deleted, good, granted, stale, begun, faults>>
  BY RejectIs
<1> HIDE DEF t
<1>2. req \in [Handlers -> RequestRecords] /\ job \in [Workers -> WorkRecords]
  BY DEF TypeInv, Requests, Works
<1>3. /\ req' \in [Handlers -> RequestRecords]
      /\ \A s \in Handlers :
                  /\ Alike(req[s], req'[s])
                  /\ req'[s].alone => Touches(req[s]) \cap Of(t) = {}
  BY <1>1, <1>2, DisturbedIs
<1>4. /\ job' \in [Workers -> WorkRecords]
      /\ \A l \in Workers :
                  /\ AlikeJobs(job[l], job'[l]) /\ job'[l].valid = job[l].valid
                  /\ job'[l].alone => Detaches(job[l]) \cap Of(t) = {}
  BY <1>1, <1>2, DisturbedJobsIs
<1> QED
  BY <1>1, <1>3, <1>4

LEMMA WorksStep ==
    ASSUME Works, NEW k \in Workers, job' \in [Workers -> WorkRecords], known' = known,
           \A l \in Workers \ {k} : AlikeJobs(job[l], job'[l]),
           job'[k].at # "idle" => job'[k].acct \in known
    PROVE  Works'
BY DEF Works, AlikeJobs

LEMMA WorksAlike ==
    ASSUME Works, job' \in [Workers -> WorkRecords], known' = known,
           \A l \in Workers : AlikeJobs(job[l], job'[l])
    PROVE  Works'
BY DEF Works, AlikeJobs

LEMMA RequestsSame == Requests /\ req' = req /\ known \subseteq known' => Requests'
BY DEF Requests, RequestOK, Aim

LEMMA OneJob ==
    ASSUME job \in [Workers -> WorkRecords], NEW k \in Workers, NEW n \in WorkRecords,
           job' = [job EXCEPT ![k] = n]
    PROVE  /\ job' \in [Workers -> WorkRecords] /\ job'[k] = n
           /\ \A l \in Workers \ {k} : job'[l] = job[l] /\ AlikeJobs(job[l], job'[l])
BY DEF AlikeJobs

LEMMA FailsType ==
    ASSUME TypeInv, NEW r \in Handlers, Refused(r) \/ RequestFails(r)
    PROVE  TypeInv'
<1>1. /\ req' = [req EXCEPT ![r] = NoRequest]
      /\ doubt' \subseteq doubt \cup Touches(req[r])
      /\ UNCHANGED <<tables, granted, stale, wanted, job, begun>>
      /\ faults' \in 0..MaxFaults
  BY FailsIs
<1>2. Tables' /\ Counters' /\ known' = known
  BY <1>1, TablesSame DEF TypeInv, Counters, tables
<1>3. Requests'
  <2>1. /\ req' \in [Handlers -> RequestRecords] /\ req'[r] = NoRequest
        /\ \A s \in Handlers \ {r} : Alike(req[s], req'[s])
    BY <1>1, Empty, AlikeSame DEF TypeInv, Requests
  <2> QED
    BY <2>1, <1>2, NoRequestOK, Empty, RequestsStep DEF TypeInv
<1>4. Works' /\ Wishes'
  BY <1>1, <1>2, RequestIs DEF TypeInv, Works, Wishes
<1> QED
  BY <1>2, <1>3, <1>4 DEF TypeInv

LEMMA OpensType ==
    ASSUME TypeInv, NEW r \in Handlers, NEW q, Opens(r, q)
    PROVE  TypeInv'
<1>1. UNCHANGED <<tables, history, faults>> /\ begun' \in 0..MaxRequests
      /\ RequestOK(q) /\ q.at \in {"reddit", "account", "accounts"} /\ q.acct = NoOne
  BY DEF Opens
<1>2. Tables' /\ Counters' /\ known' = known /\ Wishes'
  BY <1>1, TablesSame DEF TypeInv, Counters, Wishes, tables, history
<1>3. /\ req' \in [Handlers -> RequestRecords] /\ req'[r] = q
      /\ \A s \in Handlers \ {r} : Alike(req[s], req'[s])
      /\ job' \in [Workers -> WorkRecords]
      /\ \A k \in Workers : AlikeJobs(job[k], job'[k])
  BY OpensIs
<1>4. Requests'
  BY <1>1, <1>2, <1>3, RequestsStep DEF TypeInv
<1>5. Works'
  BY <1>2, <1>3, WorksAlike DEF TypeInv
<1> QED
  BY <1>2, <1>4, <1>5 DEF TypeInv

LEMMA RestType ==
    ASSUME TypeInv
    PROVE  /\ \A t \in Tokens : UpsertDevice(t) => TypeInv'
           /\ \A a \in Accounts : Revoke(a) => TypeInv'
<1>1. ASSUME NEW t \in Tokens, UpsertDevice(t) PROVE TypeInv'
  <2>1. Tables' /\ UNCHANGED <<known, req, job, history, begun, faults>>
    BY <1>1, UpsertIs
  <2>2. Requests'
    BY <2>1, RequestsSame DEF TypeInv
  <2> QED
    BY <2>1, <2>2 DEF TypeInv, Counters, Works, Wishes, history
<1>2. ASSUME NEW a \in Accounts, Revoke(a) PROVE TypeInv'
  <2>1. /\ req' \in [Handlers -> RequestRecords] /\ job' \in [Workers -> WorkRecords]
        /\ \A s \in Handlers : Alike(req[s], req'[s])
        /\ \A k \in Workers : AlikeJobs(job[k], job'[k])
        /\ good' = good \ {a} /\ granted' = granted \ {a}
        /\ UNCHANGED <<device, rows, known, deleted, assoc, stale, wanted, doubt, begun, faults>>
    BY <1>2, RevokeIs
  <2>2. Tables' /\ Counters' /\ Wishes'
    BY <2>1 DEF TypeInv, Tables, Counters, Wishes
  <2>3. Requests' /\ Works'
    BY <2>1, RequestsAlike, WorksAlike DEF TypeInv
  <2> QED
    BY <2>2, <2>3 DEF TypeInv
<1> QED
  BY <1>1, <1>2

(* The steps of a job.                                                     *)
Rejects(k) == \E d \in job[k].devs : Reject(k, d)

Worked(k) ==
    \/ \E a \in Accounts : StartJob(k, a)
    \/ Plain(k) \/ Detach(k) \/ Rejects(k) \/ DeleteAccount(k) \/ JobFails(k)
    \/ \E d \in job[k].devs : Disassociate(k, d)

LEMMA RejectsIs ==
    ASSUME TypeInv, NEW k \in Workers, Rejects(k)
    PROVE  \E t \in Tokens :
             /\ device' = [device EXCEPT ![t] = 0] /\ assoc' = assoc \ Of(t)
             /\ wanted' = wanted \ Of(t) /\ doubt' = doubt \ Of(t)
             /\ req' \in [Handlers -> RequestRecords] /\ job' \in [Workers -> WorkRecords]
             /\ \A s \in Handlers :
                  /\ Alike(req[s], req'[s])
                  /\ req'[s].alone => Touches(req[s]) \cap Of(t) = {}
             /\ \A l \in Workers :
                  /\ AlikeJobs(job[l], job'[l]) /\ job'[l].valid = job[l].valid
                  /\ job'[l].alone => Detaches(job[l]) \cap Of(t) = {}
             /\ UNCHANGED <<rows, known, deleted, good, granted, stale, begun, faults>>
<1>1. PICK d \in job[k].devs : Reject(k, d)
  BY DEF Rejects
<1> QED
  BY <1>1, WorkRejectIs

LEMMA WorkedType ==
    ASSUME TypeInv, NEW k \in Workers, Worked(k)
    PROVE  TypeInv'
<1>1. ASSUME NEW n \in WorkRecords, job' = [job EXCEPT ![k] = n], n.at # "idle" => n.acct \in known,
             known' = known
      PROVE  Works'
  BY <1>1, OneJob, WorksStep DEF TypeInv, Works
<1>2. CASE \E a \in Accounts : StartJob(k, a)
  <2>1. PICK n : /\ job' = [job EXCEPT ![k] = n] /\ n \in WorkRecords /\ n.acct \in known
                 /\ UNCHANGED <<tables, history, req, begun, faults>>
    BY <1>2, StartIs
  <2>2. Works'
    BY <1>1, <2>1 DEF tables
  <2>3. Requests' /\ Tables'
    BY <2>1, RequestsSame, TablesSame DEF TypeInv, tables, history
  <2> QED
    BY <2>1, <2>2, <2>3 DEF TypeInv, Counters, Wishes, history
<1>3. CASE Plain(k)
  <2>1. PICK n : /\ job' = [job EXCEPT ![k] = n] /\ n \in WorkRecords
                 /\ n = NoWork \/ n.acct = job[k].acct
                 /\ job[k].at # "idle"
                 /\ good' = good \/ good' = Stored(job[k].acct, good, job[k].valid)
                 /\ UNCHANGED <<device, rows, known, deleted, assoc, history, req, begun, faults>>
    BY <1>3, PlainIs
  <2>2. job[k].acct \in known
    BY <2>1, WorkIs DEF TypeInv
  <2>3. Works'
    BY <1>1, <2>1, <2>2, Empty
  <2>4. Tables'
    BY <2>1, <2>2 DEF TypeInv, Tables, Stored, history
  <2>5. Requests'
    BY <2>1, RequestsSame DEF TypeInv
  <2> QED
    BY <2>1, <2>3, <2>4, <2>5 DEF TypeInv, Counters, Wishes, history
<1>4. CASE Detach(k)
  <2>1. /\ job[k].acct \in known
        /\ job' \in [Workers -> WorkRecords] /\ job'[k].acct = job[k].acct
        /\ \A l \in Workers \ {k} : AlikeJobs(job[l], job'[l])
        /\ req' \in [Handlers -> RequestRecords]
        /\ \A s \in Handlers : Alike(req[s], req'[s])
        /\ UNCHANGED <<tables, history, begun, faults>>
    BY <1>4, WorkDetachIs
  <2>2. Works' /\ Requests' /\ Tables'
    BY <2>1, WorksStep, RequestsAlike, TablesSame DEF TypeInv, tables, history
  <2> QED
    BY <2>1, <2>2 DEF TypeInv, Counters, Wishes, history
<1>5. CASE Rejects(k)
  <2>1. PICK t \in Tokens :
             /\ device' = [device EXCEPT ![t] = 0] /\ assoc' = assoc \ Of(t)
             /\ wanted' = wanted \ Of(t) /\ doubt' = doubt \ Of(t)
             /\ req' \in [Handlers -> RequestRecords] /\ job' \in [Workers -> WorkRecords]
             /\ \A s \in Handlers : Alike(req[s], req'[s])
             /\ \A l \in Workers : AlikeJobs(job[l], job'[l])
             /\ UNCHANGED <<rows, known, deleted, good, granted, stale, begun, faults>>
    BY <1>5, RejectsIs
  <2>2. Tables'
    BY <2>1, GoneTables DEF TypeInv
  <2>3. Works' /\ Requests'
    BY <2>1, WorksAlike, RequestsAlike DEF TypeInv
  <2> QED
    BY <2>1, <2>2, <2>3 DEF TypeInv, Counters, Wishes
<1>6. CASE DeleteAccount(k)
  <2>1. LET a == job[k].acct IN
          /\ a \in known /\ deleted' = deleted \cup {a} /\ wanted' \subseteq wanted
          /\ doubt' \subseteq doubt \cup On(a)
          /\ job' = [job EXCEPT ![k] = NoWork]
          /\ UNCHANGED <<device, rows, known, assoc, good, granted, stale, req, begun, faults>>
    BY <1>6, DeleteIs
  <2>2. Works'
    BY <1>1, <2>1, Empty
  <2>3. Tables' /\ Requests'
    BY <2>1, RequestsSame DEF TypeInv, Tables
  <2>4. Wishes'
    BY <2>1, PairOf DEF TypeInv, Wishes, Tables
  <2> QED
    BY <2>1, <2>2, <2>3, <2>4 DEF TypeInv, Counters
<1>7. CASE JobFails(k)
  <2>1. /\ job' = [job EXCEPT ![k] = NoWork] /\ doubt' = doubt \cup Detaches(job[k])
        /\ UNCHANGED <<tables, granted, stale, wanted, req, begun>> /\ faults' \in 0..MaxFaults
    BY <1>7, JobFailsIs
  <2>2. Works'
    BY <1>1, <2>1, Empty DEF tables
  <2>3. Tables' /\ Requests'
    BY <2>1, TablesSame, RequestsSame DEF TypeInv, tables
  <2>4. Detaches(job[k]) \subseteq Pairs
    BY WorkIs, PairOf DEF TypeInv, Tables, Detaches
  <2> QED
    BY <2>1, <2>2, <2>3, <2>4 DEF TypeInv, Counters, Wishes
<1>8. CASE \E d \in job[k].devs : Disassociate(k, d)
  <2>1. PICK d \in job[k].devs : Disassociate(k, d)
    BY <1>8
  <2>2. PICK n : /\ job' = [job EXCEPT ![k] = n] /\ n \in WorkRecords
                 /\ n.acct = job[k].acct /\ job[k].at = "detaching"
                 /\ assoc' \subseteq assoc
                 /\ UNCHANGED <<device, rows, known, deleted, good, history, req, begun, faults>>
    BY <2>1, DisassociateIs
  <2>3. Works'
    BY <1>1, <2>2, WorkIs DEF TypeInv
  <2>4. Tables' /\ Requests'
    BY <2>2, RequestsSame DEF TypeInv, Tables, history
  <2> QED
    BY <2>2, <2>3, <2>4 DEF TypeInv, Counters, Wishes, history
<1> QED
  BY <1>2, <1>3, <1>4, <1>5, <1>6, <1>7, <1>8 DEF Worked

LEMMA Steps ==
    ASSUME [Next]_vars
    PROVE  \/ \E t \in Tokens : UpsertDevice(t)
           \/ \E a \in Accounts : Revoke(a)
           \/ \E r \in Handlers : NewRequest(r) \/ GoesOn(r) \/ Refused(r) \/ RequestFails(r)
           \/ \E k \in Workers : Worked(k)
           \/ UNCHANGED vars
BY DEF Next, RequestStep, JobStep, GoesOn, Worked, Plain, Rejects

LEMMA TypeInit == Init => TypeInv
<1> SUFFICES ASSUME Init PROVE TypeInv
  OBVIOUS
<1>1. Tables /\ Counters /\ Wishes
  BY RegistrationAssumption DEF Init, Tables, Counters, Wishes
<1>2. Requests
  BY Empty, NoRequestOK DEF Init, Requests
<1>3. Works
  BY Empty DEF Init, Works
<1> QED
  BY <1>1, <1>2, <1>3 DEF TypeInv

LEMMA TypeNext == TypeInv /\ [Next]_vars => TypeInv'
<1> SUFFICES ASSUME TypeInv, [Next]_vars PROVE TypeInv'
  OBVIOUS
<1>1. ASSUME NEW r \in Handlers, NewRequest(r) PROVE TypeInv'
  BY <1>1, NewIs, OpensType
<1>2. ASSUME NEW r \in Handlers, GoesOn(r) PROVE TypeInv'
  BY <1>2, GoesOnMoves, GoesOnTables, GoesOnCounts, MovesType
<1>3. ASSUME UNCHANGED vars PROVE TypeInv'
  <2>1. UNCHANGED <<tables, req, job, begun, faults, granted, stale, wanted, doubt>>
        /\ known' = known
    BY <1>3 DEF vars, tables, history
  <2>2. Requests' /\ Tables'
    BY <2>1, RequestsSame, TablesSame DEF TypeInv
  <2>3. Counters' /\ Works' /\ Wishes'
    BY <2>1 DEF TypeInv, Counters, Works, Wishes
  <2> QED
    BY <2>2, <2>3 DEF TypeInv
<1> QED
  BY <1>1, <1>2, <1>3, Steps, RestType, FailsType, WorkedType

(* Whatever requests, jobs and faults there are, every variable keeps to   *)
(* what its declaration says: a request at a place has the account, the    *)
(* device's row and the lists that its handler has read by then, and an    *)
(* association has a device's row and an account's.                        *)
THEOREM TypeCorrect == Spec => []TypeOK
<1>1. Init => TypeInv
  BY TypeInit
<1>2. TypeInv /\ [Next]_vars => TypeInv'
  BY TypeNext
<1>3. TypeInv => TypeOK
  BY TypeInvIs
<1> QED
  BY <1>1, <1>2, <1>3, PTL DEF Spec

-----------------------------------------------------------------------------
(* Grants.  Unless the account is stale, a grant that was not revoked is   *)
(* in the account's row and in every job's copy; a job detaches with a     *)
(* copy that is revoked.                                                   *)
Grants ==
    /\ \A a \in granted \ stale :
         a \in good /\ \A k \in Workers : job[k].acct = a => job[k].valid
    /\ \A k \in Workers : job[k].at = "detaching" => ~job[k].valid

LEMMA GrantsKept ==
    ASSUME TypeInv, Grants, UNCHANGED <<granted, stale, good>>,
           \A k \in Workers : \/ job'[k].at = job[k].at /\ job'[k].acct = job[k].acct
                                 /\ job'[k].valid = job[k].valid
                              \/ job'[k] = NoWork
    PROVE  Grants'
<1>1. ASSUME NEW a \in granted \ stale PROVE a # NoOne
  BY RegistrationAssumption DEF TypeInv, Tables
<1> QED
  BY <1>1, Empty DEF Grants

LEMMA GoesOnGrants ==
    ASSUME TypeInv, Grants, NEW r \in Handlers, GoesOn(r)
    PROVE  Grants'
<1>1. job' = job
  BY DEF GoesOn, ReadAccounts, ReadAccount, Vouch, Store, Associate, Drop, Remove, DropFails,
         NoJobStep
<1>2. CASE Store(r)
  <2> DEFINE q == req[r]
             a == q.acct
             met == \E k \in Workers : job[k].acct = a
  <2>1. /\ good' = Stored(a, good, q.valid)
        /\ granted' = (IF q.valid THEN granted \cup {a} ELSE granted)
        /\ stale' = IF met \/ (~q.valid /\ a \in granted) THEN stale \cup {a} ELSE stale \ {a}
    BY <1>2, StoreIs
  <2> HIDE DEF q
  <2>2. ASSUME NEW b \in granted' \ stale'
        PROVE  b \in good' /\ \A k \in Workers : job[k].acct = b => job[k].valid
    <3>1. CASE b # a
      <4>1. b \in granted \ stale
        BY <2>1, <2>2, <3>1
      <4> QED
        BY <2>1, <3>1, <4>1 DEF Grants, Stored
    <3>2. CASE b = a
      <4>1. ~met /\ q.valid
        BY <2>1, <2>2, <3>2
      <4> QED
        BY <2>1, <3>2, <4>1 DEF Stored
    <3> QED
      BY <3>1, <3>2
  <2>3. \A k \in Workers : job[k].at = "detaching" => ~job[k].valid
    BY DEF Grants
  <2> QED
    BY <1>1, <2>2, <2>3 DEF Grants
<1>3. CASE ~Store(r)
  <2>1. UNCHANGED <<granted, stale, good>>
    BY <1>3 DEF GoesOn, ReadAccounts, ReadAccount, Vouch, Associate, Drop, Remove, DropFails,
                tables, history
  <2> QED
    BY <1>1, <2>1, GrantsKept
<1> QED
  BY <1>2, <1>3

LEMMA WorkedGrants ==
    ASSUME TypeInv, Grants, NEW k \in Workers, Worked(k)
    PROVE  Grants'
<1>0. job \in [Workers -> WorkRecords]
  BY DEF TypeInv, Works
<1>1. ASSUME NEW n \in WorkRecords, job' = [job EXCEPT ![k] = n],
             UNCHANGED <<granted, stale, good>>,
             \/ n.at = job[k].at /\ n.acct = job[k].acct /\ n.valid = job[k].valid
             \/ n = NoWork
      PROVE  Grants'
  BY <1>0, <1>1, OneJob, GrantsKept
<1>2. CASE \E a \in Accounts : StartJob(k, a)
  <2>1. PICK a \in Accounts : StartJob(k, a)
    BY <1>2
  <2>2. PICK n : /\ job' = [job EXCEPT ![k] = n] /\ n \in WorkRecords
                 /\ n.at = "refresh" /\ n.acct = a /\ n.valid = (a \in good)
                 /\ UNCHANGED <<tables, history, req, begun, faults>>
    BY <2>1, StartIs
  <2>3. job'[k] = n /\ \A l \in Workers \ {k} : job'[l] = job[l]
    BY <1>0, <2>2
  <2>4. UNCHANGED <<granted, stale, good>>
    BY <2>2 DEF tables, history
  <2>5. n.acct \in granted \ stale => n.valid
    BY <2>2 DEF Grants
  <2> QED
    BY <2>2, <2>3, <2>4, <2>5 DEF Grants
<1>3. CASE Plain(k)
  <2> DEFINE a == job[k].acct
             v == job[k].valid
  <2>1. PICK n : /\ job' = [job EXCEPT ![k] = n] /\ n \in WorkRecords
                 /\ n = NoWork \/ (n.acct = a /\ n.valid = v /\ n.at # "detaching")
                 /\ good' = good \/ good' = Stored(a, good, v)
                 /\ UNCHANGED history
    BY <1>3, PlainIs
  <2>2. job'[k] = n /\ \A l \in Workers \ {k} : job'[l] = job[l]
    BY <1>0, <2>1
  <2>3. UNCHANGED <<granted, stale>>
    BY <2>1 DEF history
  <2>4. ASSUME NEW b \in granted \ stale
        PROVE  b \in good' /\ \A l \in Workers : job'[l].acct = b => job'[l].valid
    <3>1. b \in good /\ \A l \in Workers : job[l].acct = b => job[l].valid
      BY DEF Grants
    <3>2. b \in good'
      BY <2>1, <3>1 DEF Stored
    <3>3. b # NoOne
      BY RegistrationAssumption DEF TypeInv, Tables
    <3>4. job'[k].acct = b => job'[k].valid
      BY <2>1, <2>2, <3>1, <3>3, Empty
    <3> QED
      BY <2>2, <3>1, <3>2, <3>4
  <2>5. \A l \in Workers : job'[l].at = "detaching" => ~job'[l].valid
    BY <2>1, <2>2, Empty DEF Grants
  <2> QED
    BY <2>3, <2>4, <2>5 DEF Grants
<1>4. CASE Detach(k)
  <2>1. /\ ~job[k].valid /\ job'[k].acct = job[k].acct /\ job'[k].valid = job[k].valid
        /\ \A l \in Workers \ {k} : AlikeJobs(job[l], job'[l]) /\ job'[l].valid = job[l].valid
        /\ UNCHANGED <<tables, history>>
    BY <1>4, WorkDetachIs
  <2>2. UNCHANGED <<granted, stale, good>>
    BY <2>1 DEF tables, history
  <2> QED
    BY <2>1, <2>2 DEF Grants, AlikeJobs
<1>5. CASE Rejects(k)
  <2>1. /\ \A l \in Workers : AlikeJobs(job[l], job'[l]) /\ job'[l].valid = job[l].valid
        /\ UNCHANGED <<granted, stale, good>>
    BY <1>5, RejectsIs
  <2> QED
    BY <2>1, GrantsKept DEF AlikeJobs
<1>6. CASE DeleteAccount(k)
  <2>1. job' = [job EXCEPT ![k] = NoWork] /\ UNCHANGED <<granted, stale, good>>
    BY <1>6, DeleteIs
  <2> QED
    BY <1>1, <2>1, Empty
<1>7. CASE JobFails(k)
  <2>1. job' = [job EXCEPT ![k] = NoWork] /\ UNCHANGED <<granted, stale, good>>
    BY <1>7, JobFailsIs DEF tables
  <2> QED
    BY <1>1, <2>1, Empty
<1>8. CASE \E d \in job[k].devs : Disassociate(k, d)
  <2>1. PICK d \in job[k].devs : Disassociate(k, d)
    BY <1>8
  <2>2. PICK n : /\ job' = [job EXCEPT ![k] = n] /\ n \in WorkRecords
                 /\ n.at = job[k].at /\ n.acct = job[k].acct /\ n.valid = job[k].valid
                 /\ UNCHANGED <<good, history>>
    BY <2>1, DisassociateIs
  <2> QED
    BY <1>1, <2>2 DEF history
<1> QED
  BY <1>2, <1>3, <1>4, <1>5, <1>6, <1>7, <1>8 DEF Worked

LEMMA GrantsNext == TypeInv /\ Grants /\ [Next]_vars => Grants'
<1> SUFFICES ASSUME TypeInv, Grants, [Next]_vars PROVE Grants'
  OBVIOUS
<1>1. ASSUME NEW t \in Tokens, UpsertDevice(t) PROVE Grants'
  <2>1. UNCHANGED <<good, job, granted, stale>>
    BY <1>1, UpsertIs DEF history
  <2> QED
    BY <2>1, GrantsKept
<1>2. ASSUME NEW a \in Accounts, Revoke(a) PROVE Grants'
  BY <1>2, RevokeIs DEF Grants, AlikeJobs
<1>3. ASSUME NEW r \in Handlers, NewRequest(r) PROVE Grants'
  <2>1. PICK q : Opens(r, q)
    BY <1>3, NewIs
  <2>2. \A k \in Workers : AlikeJobs(job[k], job'[k]) /\ job'[k].valid = job[k].valid
    BY <2>1, OpensIs
  <2>3. UNCHANGED <<granted, stale, good>>
    BY <2>1 DEF Opens, tables, history
  <2> QED
    BY <2>2, <2>3, GrantsKept DEF AlikeJobs
<1>4. ASSUME NEW r \in Handlers, Refused(r) \/ RequestFails(r) PROVE Grants'
  <2>1. UNCHANGED <<tables, granted, stale, job>>
    BY <1>4, FailsIs
  <2> QED
    BY <2>1, GrantsKept DEF tables
<1>5. ASSUME UNCHANGED vars PROVE Grants'
  BY <1>5, GrantsKept DEF vars, tables, history
<1> QED
  BY <1>1, <1>2, <1>3, <1>4, <1>5, Steps, GoesOnGrants, WorkedGrants

(* A job that deletes an account detaches with a copy that is revoked: so  *)
(* the user has revoked access and not granted it again, or the account    *)
(* was registered while a job, or an older registration, held an earlier   *)
(* grant.  Whatever a job saves, it brings no revoked grant back, nor      *)
(* takes a new one away, unless the account is stale.                      *)
THEOREM CauseCorrect == Spec => DeletedForCause
<1> DEFINE Cause == \A k \in Workers :
                      DeleteAccount(k) /\ job[k].acct \in granted => job[k].acct \in stale
<1>1. Init => TypeInv /\ Grants
  <2>1. Init => Grants
    BY Empty DEF Init, Grants
  <2> QED
    BY <2>1, TypeInit
<1>2. TypeInv /\ Grants /\ [Next]_vars => (TypeInv /\ Grants)'
  BY TypeNext, GrantsNext
<1>3. TypeInv /\ Grants => Cause
  BY DEF DeleteAccount, Grants
<1>4. TypeInv /\ Grants /\ [Next]_vars => [Cause]_vars
  BY <1>3
<1> HIDE DEF Cause
<1>5. Spec => [][Cause]_vars
  BY <1>1, <1>2, <1>4, PTL DEF Spec
<1> QED
  BY <1>5 DEF DeletedForCause, Cause

-----------------------------------------------------------------------------
(* Who is alone with what it is about is: no other is about any of it.     *)
Apart ==
    /\ \A r, s \in Handlers : r # s /\ req[r].alone => Touches(req[r]) \cap Touches(req[s]) = {}
    /\ \A r \in Handlers, k \in Workers :
         req[r].alone \/ job[k].alone => Touches(req[r]) \cap Detaches(job[k]) = {}
    /\ \A k, l \in Workers : k # l /\ job[k].alone => Detaches(job[k]) \cap Detaches(job[l]) = {}

(* About no more than before, and no more alone.                           *)
CalmRequest(r) ==
    /\ Touches(req'[r]) \subseteq Touches(req[r])
    /\ req'[r].alone /\ Touches(req'[r]) # {} => req[r].alone

CalmJob(k) ==
    /\ Detaches(job'[k]) \subseteq Detaches(job[k])
    /\ job'[k].alone /\ Detaches(job'[k]) # {} => job[k].alone

LEMMA CalmApart ==
    ASSUME Apart, \A r \in Handlers : CalmRequest(r), \A k \in Workers : CalmJob(k)
    PROVE  Apart'
<1>1. ASSUME NEW r \in Handlers, NEW s \in Handlers, r # s, req'[r].alone
      PROVE  Touches(req'[r]) \cap Touches(req'[s]) = {}
  BY <1>1 DEF Apart, CalmRequest
<1>2. ASSUME NEW r \in Handlers, NEW k \in Workers, req'[r].alone \/ job'[k].alone
      PROVE  Touches(req'[r]) \cap Detaches(job'[k]) = {}
  BY <1>2 DEF Apart, CalmRequest, CalmJob
<1>3. ASSUME NEW k \in Workers, NEW l \in Workers, k # l, job'[k].alone
      PROVE  Detaches(job'[k]) \cap Detaches(job'[l]) = {}
  BY <1>3 DEF Apart, CalmJob
<1> QED
  BY <1>1, <1>2, <1>3 DEF Apart, Touches, Of, Detaches, On

LEMMA AlikeTouches ==
    ASSUME NEW q, NEW n, Alike(q, n)
    PROVE  Touches(n) = Touches(q) /\ Aim(n) = Aim(q) /\ (Writing(n) <=> Writing(q))
BY TouchesSame DEF Alike, Aim, Writing

LEMMA AlikeCalm ==
    /\ \A r \in Handlers : Alike(req[r], req'[r]) => CalmRequest(r)
    /\ \A k \in Workers : AlikeJobs(job[k], job'[k]) => CalmJob(k)
<1>1. ASSUME NEW r \in Handlers, Alike(req[r], req'[r]) PROVE CalmRequest(r)
  BY <1>1, AlikeTouches DEF CalmRequest, Alike
<1>2. ASSUME NEW k \in Workers, AlikeJobs(job[k], job'[k]) PROVE CalmJob(k)
  BY <1>2 DEF CalmJob, AlikeJobs, Detaches
<1> QED
  BY <1>1, <1>2

LEMMA QuietCalm ==
    /\ \A r \in Handlers : req'[r] = req[r] => CalmRequest(r)
    /\ \A k \in Workers : job'[k] = job[k] => CalmJob(k)
    /\ \A r \in Handlers : req'[r] = NoRequest => CalmRequest(r)
    /\ \A k \in Workers : job'[k].at # "detaching" => CalmJob(k)
<1>1. ASSUME NEW r \in Handlers, req'[r] = req[r] PROVE CalmRequest(r)
  BY <1>1 DEF CalmRequest
<1>2. ASSUME NEW k \in Workers, job'[k] = job[k] PROVE CalmJob(k)
  BY <1>2 DEF CalmJob
<1>3. ASSUME NEW r \in Handlers, req'[r] = NoRequest PROVE CalmRequest(r)
  <2>1. Touches(NoRequest) = {}
    BY DEF Touches, NoRequest
  <2> QED
    BY <1>3, <2>1 DEF CalmRequest
<1>4. ASSUME NEW k \in Workers, job'[k].at # "detaching" PROVE CalmJob(k)
  BY <1>4 DEF CalmJob, Detaches
<1> QED
  BY <1>1, <1>2, <1>3, <1>4

LEMMA MovesApart ==
    ASSUME Apart, NEW r \in Handlers, NEW n, Moves(r, n)
    PROVE  Apart'
<1>1. \A s \in Handlers \ {r} : CalmRequest(s)
  BY AlikeCalm DEF Moves
<1>2. CalmRequest(r)
  <2>1. Touches(n) = Touches(req[r])
    BY TouchesSame DEF Moves, Footing, Writing
  <2> QED
    BY <2>1, QuietCalm DEF Moves, CalmRequest
<1>3. \A k \in Workers : CalmJob(k)
  BY QuietCalm DEF Moves
<1> QED
  BY <1>1, <1>2, <1>3, CalmApart

LEMMA OpensApart ==
    ASSUME TypeInv, Apart, NEW r \in Handlers, NEW q, Opens(r, q)
    PROVE  Apart'
<1> DEFINE T == Touches(q)
<1>1. /\ req'[r] = q
      /\ \A s \in Handlers \ {r} :
           Alike(req[s], req'[s]) /\ (req'[s].alone => Touches(req[s]) \cap T = {})
      /\ \A k \in Workers :
           AlikeJobs(job[k], job'[k]) /\ (job'[k].alone => Detaches(job[k]) \cap T = {})
  BY OpensIs
<1>2. q.alone = ~Meets(T)
  BY DEF Opens
<1> HIDE DEF T
<1>3. /\ q.alone => \A s \in Handlers : Touches(req[s]) \cap T = {}
      /\ q.alone => \A k \in Workers : Detaches(job[k]) \cap T = {}
  BY <1>2 DEF Meets
<1>4. /\ \A s \in Handlers \ {r} : Touches(req'[s]) = Touches(req[s])
      /\ \A s \in Handlers \ {r} : req'[s].alone => req[s].alone
      /\ \A k \in Workers : Detaches(job'[k]) = Detaches(job[k]) /\ (job'[k].alone => job[k].alone)
  BY <1>1, AlikeTouches DEF Alike, AlikeJobs, Detaches
<1>5. Touches(req'[r]) = T /\ req'[r].alone = q.alone
  BY <1>1 DEF T
<1>6. ASSUME NEW s \in Handlers, NEW u \in Handlers, s # u, req'[s].alone
      PROVE  Touches(req'[s]) \cap Touches(req'[u]) = {}
  <2>1. CASE s = r
    BY <2>1, <1>3, <1>4, <1>5, <1>6
  <2>2. CASE u = r
    BY <2>2, <1>1, <1>4, <1>5, <1>6
  <2>3. CASE s # r /\ u # r
    BY <2>3, <1>4, <1>6 DEF Apart
  <2> QED
    BY <2>1, <2>2, <2>3
<1>7. ASSUME NEW s \in Handlers, NEW k \in Workers, req'[s].alone \/ job'[k].alone
      PROVE  Touches(req'[s]) \cap Detaches(job'[k]) = {}
  <2>1. CASE s = r
    BY <2>1, <1>1, <1>3, <1>4, <1>5, <1>7
  <2>2. CASE s # r
    BY <2>2, <1>4, <1>7 DEF Apart
  <2> QED
    BY <2>1, <2>2
<1>8. ASSUME NEW k \in Workers, NEW l \in Workers, k # l, job'[k].alone
      PROVE  Detaches(job'[k]) \cap Detaches(job'[l]) = {}
  BY <1>4, <1>8 DEF Apart
<1> QED
  BY <1>6, <1>7, <1>8 DEF Apart, Touches, Of, Detaches, On

LEMMA DetachApart ==
    ASSUME TypeInv, Apart, NEW k \in Workers, Detach(k)
    PROVE  Apart'
<1> DEFINE a == job[k].acct
           S == On(a)
<1>1. /\ job'[k].at = "detaching" /\ job'[k].acct = a
      /\ job'[k].alone = ~Meets(S)
      /\ \A l \in Workers \ {k} :
           AlikeJobs(job[l], job'[l]) /\ (job'[l].alone => Detaches(job[l]) \cap S = {})
      /\ \A s \in Handlers :
           Alike(req[s], req'[s]) /\ (req'[s].alone => Touches(req[s]) \cap S = {})
  BY WorkDetachIs
<1>2. Detaches(job'[k]) = S
  BY <1>1 DEF Detaches
<1> HIDE DEF S
<1>3. /\ job'[k].alone => \A s \in Handlers : Touches(req[s]) \cap S = {}
      /\ job'[k].alone => \A l \in Workers : Detaches(job[l]) \cap S = {}
  BY <1>1 DEF Meets
<1>4. /\ \A s \in Handlers : Touches(req'[s]) = Touches(req[s])
      /\ \A s \in Handlers : req'[s].alone => req[s].alone
      /\ \A l \in Workers \ {k} :
           Detaches(job'[l]) = Detaches(job[l]) /\ (job'[l].alone => job[l].alone)
  BY <1>1, AlikeTouches DEF Alike, AlikeJobs, Detaches
<1>5. ASSUME NEW s \in Handlers, NEW u \in Handlers, s # u, req'[s].alone
      PROVE  Touches(req'[s]) \cap Touches(req'[u]) = {}
  BY <1>4, <1>5 DEF Apart
<1>6. ASSUME NEW s \in Handlers, NEW l \in Workers, req'[s].alone \/ job'[l].alone
      PROVE  Touches(req'[s]) \cap Detaches(job'[l]) = {}
  <2>1. CASE l = k
    BY <2>1, <1>1, <1>2, <1>3, <1>4, <1>6
  <2>2. CASE l # k
    BY <2>2, <1>4, <1>6 DEF Apart
  <2> QED
    BY <2>1, <2>2
<1>7. ASSUME NEW l \in Workers, NEW m \in Workers, l # m, job'[l].alone
      PROVE  Detaches(job'[l]) \cap Detaches(job'[m]) = {}
  <2>1. CASE l = k
    BY <2>1, <1>2, <1>3, <1>4, <1>7
  <2>2. CASE m = k
    BY <2>2, <1>1, <1>2, <1>4, <1>7
  <2>3. CASE l # k /\ m # k
    BY <2>3, <1>4, <1>7 DEF Apart
  <2> QED
    BY <2>1, <2>2, <2>3
<1> QED
  BY <1>5, <1>6, <1>7 DEF Apart, Touches, Of, Detaches, On

(* A job's step leaves what other jobs are about.                          *)
LEMMA OneJobCalm ==
    ASSUME TypeInv, NEW k \in Workers, NEW n, job' = [job EXCEPT ![k] = n],
           CalmJob(k) \/ n.at # "detaching"
    PROVE  \A l \in Workers : CalmJob(l)
<1>1. job \in [Workers -> WorkRecords]
  BY DEF TypeInv, Works
<1>2. job'[k] = n /\ \A l \in Workers \ {k} : job'[l] = job[l]
  BY <1>1
<1> QED
  BY <1>2, QuietCalm

LEMMA WorkedApart ==
    ASSUME TypeInv, Apart, NEW k \in Workers, Worked(k)
    PROVE  Apart'
<1>1. CASE Detach(k)
  BY <1>1, DetachApart
<1>2. CASE Rejects(k)
  <2>1. /\ \A s \in Handlers : Alike(req[s], req'[s])
        /\ \A l \in Workers : AlikeJobs(job[l], job'[l])
    BY <1>2, RejectsIs
  <2> QED
    BY <2>1, AlikeCalm, CalmApart
<1>3. ASSUME req' = req, NEW n, job' = [job EXCEPT ![k] = n], n.at # "detaching" PROVE Apart'
  <2>1. \A l \in Workers : CalmJob(l)
    BY <1>3, OneJobCalm
  <2> QED
    BY <1>3, <2>1, QuietCalm, CalmApart
<1>4. CASE \E a \in Accounts : StartJob(k, a)
  <2>1. PICK n : job' = [job EXCEPT ![k] = n] /\ n.at = "refresh" /\ req' = req
    BY <1>4, StartIs
  <2> QED
    BY <1>3, <2>1
<1>5. CASE Plain(k)
  <2>1. PICK n : job' = [job EXCEPT ![k] = n] /\ n.at # "detaching" /\ req' = req
    <3>1. PICK n : /\ job' = [job EXCEPT ![k] = n] /\ req' = req
                   /\ n = NoWork \/ n.at # "detaching"
      BY <1>5, PlainIs
    <3> QED
      BY <3>1, Empty
  <2> QED
    BY <1>3, <2>1
<1>6. CASE DeleteAccount(k)
  BY <1>3, <1>6, DeleteIs, Empty
<1>7. CASE JobFails(k)
  BY <1>3, <1>7, JobFailsIs, Empty
<1>8. CASE \E d \in job[k].devs : Disassociate(k, d)
  <2>1. PICK d \in job[k].devs : Disassociate(k, d)
    BY <1>8
  <2>2. PICK n : /\ job' = [job EXCEPT ![k] = n] /\ req' = req
                 /\ n.at = "detaching" /\ n.acct = job[k].acct /\ n.alone = job[k].alone
                 /\ job[k].at = "detaching"
    BY <2>1, DisassociateIs
  <2>3. job'[k] = n
    BY <2>2 DEF TypeInv, Works
  <2>4. CalmJob(k)
    BY <2>2, <2>3 DEF CalmJob, Detaches
  <2>5. \A l \in Workers : CalmJob(l)
    BY <2>2, <2>4, OneJobCalm
  <2> QED
    BY <2>2, <2>5, QuietCalm, CalmApart
<1> QED
  BY <1>1, <1>2, <1>4, <1>5, <1>6, <1>7, <1>8 DEF Worked

LEMMA ApartNext == TypeInv /\ Apart /\ [Next]_vars => Apart'
<1> SUFFICES ASSUME TypeInv, Apart, [Next]_vars PROVE Apart'
  OBVIOUS
<1>1. ASSUME req' = req, job' = job PROVE Apart'
  BY <1>1, QuietCalm, CalmApart
<1>2. ASSUME NEW t \in Tokens, UpsertDevice(t) PROVE Apart'
  BY <1>1, <1>2, UpsertIs
<1>3. ASSUME NEW a \in Accounts, Revoke(a) PROVE Apart'
  <2>1. /\ \A s \in Handlers : Alike(req[s], req'[s])
        /\ \A l \in Workers : AlikeJobs(job[l], job'[l])
    BY <1>3, RevokeIs
  <2> QED
    BY <2>1, AlikeCalm, CalmApart
<1>4. ASSUME NEW r \in Handlers, NewRequest(r) PROVE Apart'
  BY <1>4, NewIs, OpensApart
<1>5. ASSUME NEW r \in Handlers, GoesOn(r) PROVE Apart'
  BY <1>5, GoesOnMoves, MovesApart
<1>6. ASSUME NEW r \in Handlers, Refused(r) \/ RequestFails(r) PROVE Apart'
  <2>1. req' = [req EXCEPT ![r] = NoRequest] /\ job' = job
    BY <1>6, FailsIs
  <2>2. \A s \in Handlers : req'[s] = req[s] \/ req'[s] = NoRequest
    BY <2>1 DEF TypeInv, Requests
  <2> QED
    BY <2>1, <2>2, QuietCalm, CalmApart
<1>7. ASSUME UNCHANGED vars PROVE Apart'
  BY <1>1, <1>7 DEF vars
<1> QED
  BY <1>2, <1>3, <1>4, <1>5, <1>6, <1>7, Steps, WorkedApart

-----------------------------------------------------------------------------
(* What a request, or a job that detaches, knows as long as it is alone.   *)
Sounds == \A r \in Handlers : Sound(req[r])

ListedIn(j, A, dv) ==
    j.alone /\ j.at = "detaching" =>
      \A p \in A : p[2] = j.acct => <<p[1], dv[p[1]]>> \in j.devs

Detached == \A k \in Workers : ListedIn(job[k], assoc, device)

LEMMA SoundsIs ==
    ASSUME \A r \in Handlers : SoundIn(req'[r], Live', deleted', device')
    PROVE  Sounds'
BY DEF Sounds, Sound, SoundIn, Touches, Of, Aim, Registering, Writing

LEMMA DetachedIs ==
    ASSUME \A k \in Workers : ListedIn(job'[k], assoc', device')
    PROVE  Detached'
BY DEF Detached, ListedIn

(* Nothing in it happens to an association.                                *)
Spared(p) ==
    /\ p \in Live' <=> p \in Live
    /\ device'[p[1]] = device[p[1]]
    /\ p[2] \in deleted' => p[2] \in deleted

LEMMA AimTouched ==
    ASSUME Requests, NEW r \in Handlers, req[r].at # "idle", NEW a \in Aim(req[r])
    PROVE  LET p == <<req[r].token, a>> IN
             p \in Pairs /\ p \in Touches(req[r]) /\ p[1] = req[r].token /\ p[2] = a
<1> DEFINE q == req[r]
           p == <<q.token, a>>
<1>1. /\ RequestOK(q) /\ q.named \subseteq Accounts
      /\ \A x \in Pairs : x \in Touches(q) <=>
           q.at # "idle" /\ x[1] = q.token
           /\ (q.kind \in {"register", "disassociate"} => x[2] \in q.named)
  BY RequestIs
<1>2. q.token \in Tokens /\ a \in q.named /\ a \in Accounts
  BY <1>1 DEF RequestOK, Aim
<1> HIDE DEF q
<1>3. p \in Pairs /\ p[1] = q.token /\ p[2] = a
  BY <1>2, PairOf
<1> QED
  BY <1>1, <1>2, <1>3 DEF q

LEMMA OthersSound ==
    ASSUME TypeInv, NEW s \in Handlers, Sound(req[s]), Alike(req[s], req'[s]),
           req'[s].alone => \A p \in Touches(req[s]) : Spared(p)
    PROVE  SoundIn(req'[s], Live', deleted', device')
<1> DEFINE q == req[s]
           n == req'[s]
           L == Live'
           D == deleted'
           dv == device'
<1>1. CASE ~n.alone
  BY <1>1 DEF SoundIn
<1>2. CASE n.alone
  <2>1. /\ \A p \in Touches(q) : /\ p \in L <=> p \in Live
                                 /\ dv[p[1]] = device[p[1]]
                                 /\ p[2] \in D => p[2] \in deleted
        /\ Alike(q, n) /\ q.alone /\ SoundIn(q, Live, deleted, device)
    BY <1>2 DEF Spared, Sound, Alike
  <2>2. /\ Touches(q) \subseteq Pairs /\ RequestOK(q)
        /\ \A p \in Touches(q) : p[1] = q.token
        /\ \A a \in Aim(q) : q.at # "idle" =>
             /\ <<q.token, a>> \in Touches(q)
             /\ <<q.token, a>>[2] = a
    BY RequestIs, AimTouched DEF TypeInv
  <2> HIDE DEF q, n, L, D, dv
  <2>3. Touches(n) = Touches(q) /\ Aim(n) = Aim(q) /\ (Writing(n) <=> Writing(q))
    BY <2>1, AlikeTouches
  <2>4. \A p \in Touches(n) : dv[n.token] = n.row \/ n.at = "answer"
    BY <2>1, <2>2, <2>3 DEF SoundIn, Alike
  <2>5. Writing(n) => \A p \in Touches(n) \cap L : p[2] \in Aim(n) \cup n.drop
    BY <2>1, <2>3 DEF SoundIn, Alike
  <2>6. Writing(n) => \A a \in Aim(n) \ n.todo : <<n.token, a>> \in L
    <3> SUFFICES ASSUME Writing(q), NEW a \in Aim(q) \ q.todo
                 PROVE  <<q.token, a>> \in L
      BY <2>1, <2>3 DEF Alike
    <3>1. <<q.token, a>> \in Live
      BY <2>1 DEF SoundIn
    <3>2. <<q.token, a>> \in Touches(q)
      BY <2>2 DEF Writing
    <3> QED
      BY <2>1, <3>1, <3>2
  <2>7. n.at = "associate" => n.acct \notin D
    <3> SUFFICES ASSUME q.at = "associate" PROVE q.acct \notin D
      BY <2>1 DEF Alike
    <3>1. q.acct \in Aim(q) /\ Writing(q)
      BY <2>2 DEF RequestOK, Writing
    <3>2. q.acct \notin deleted
      BY <2>1, <3>1 DEF SoundIn
    <3>3. <<q.token, q.acct>> \in Touches(q) /\ <<q.token, q.acct>>[2] = q.acct
      BY <2>2, <3>1
    <3> QED
      BY <2>1, <3>2, <3>3
  <2>8. SoundIn(n, L, D, dv)
    BY <2>4, <2>5, <2>6, <2>7 DEF SoundIn
  <2> QED
    BY <2>8 DEF n, L, D, dv
<1> QED
  BY <1>1, <1>2

LEMMA IdleSound == \A L, D, dv : SoundIn(NoRequest, L, D, dv)
<1>1. Touches(NoRequest) = {} /\ ~Writing(NoRequest)
  BY DEF Touches, NoRequest, Writing
<1> QED
  BY <1>1 DEF SoundIn

LEMMA OthersListed ==
    ASSUME NEW k \in Workers, ListedIn(job[k], assoc, device), AlikeJobs(job[k], job'[k]),
           job'[k].alone /\ job[k].at = "detaching" =>
             \A p \in assoc' : p[2] = job[k].acct => p \in assoc /\ device'[p[1]] = device[p[1]]
    PROVE  ListedIn(job'[k], assoc', device')
BY DEF ListedIn, AlikeJobs

LEMMA MovesSound ==
    ASSUME TypeInv, Apart, Sounds, Detached, NEW r \in Handlers, NEW n, Moves(r, n)
    PROVE  Sounds' /\ (assoc' \subseteq Pairs => Detached')
<1>1. ASSUME NEW s \in Handlers PROVE SoundIn(req'[s], Live', deleted', device')
  <2>1. CASE s = r
    <3>1. SoundIn(n, Live', deleted', device')
      BY DEF Moves, Sounds
    <3>2. req'[r] = n \/ req'[r] = NoRequest
      BY DEF Moves
    <3> QED
      BY <2>1, <3>1, <3>2, IdleSound
  <2>2. CASE s # r
    <3>1. Sound(req[s]) /\ Alike(req[s], req'[s])
      BY <2>2 DEF Sounds, Moves
    <3>2. ASSUME req'[s].alone, NEW p \in Touches(req[s]) PROVE Spared(p)
      <4>1. req[s].alone
        BY <3>1, <3>2 DEF Alike
      <4>2. p \in Pairs \ Touches(req[r])
        BY <2>2, <3>2, <4>1, RequestIs DEF Apart, TypeInv
      <4>3. /\ device'[p[1]] = device[p[1]]
            /\ \/ p \in Live' <=> p \in Live
               \/ \A u \in Handlers \ {r} : p \in Touches(req[u]) => ~req'[u].alone
            /\ deleted' \subseteq deleted
        BY <4>2 DEF Moves, Leaves
      <4> QED
        BY <2>2, <3>2, <4>3 DEF Spared
    <3> QED
      BY <3>1, <3>2, OthersSound
  <2> QED
    BY <2>1, <2>2
<1>2. ASSUME assoc' \subseteq Pairs, NEW k \in Workers
      PROVE  ListedIn(job'[k], assoc', device')
  <2>1. job'[k] = job[k] /\ AlikeJobs(job[k], job[k])
    BY DEF Moves, AlikeJobs
  <2>2. ASSUME job[k].alone, job[k].at = "detaching", NEW p \in assoc', p[2] = job[k].acct
        PROVE  p \in assoc /\ device'[p[1]] = device[p[1]]
    <3>1. p \in Pairs /\ p \in Detaches(job[k])
      BY <1>2, <2>2, DetachesIs
    <3>2. p \notin Touches(req[r])
      BY <2>2, <3>1 DEF Apart
    <3> QED
      BY <2>2, <3>1, <3>2 DEF Moves, Leaves
  <2> QED
    BY <2>1, <2>2, OthersListed DEF Detached
<1> QED
  BY <1>1, <1>2, SoundsIs, DetachedIs

Know == Sounds /\ Detached

(* A step that changes no association, no device and no deletion.          *)
LEMMA StillKnow ==
    ASSUME TypeInv, Know, UNCHANGED <<device, assoc, deleted>>,
           \A s \in Handlers : \/ Alike(req[s], req'[s])
                               \/ SoundIn(req'[s], Live, deleted, device),
           \A k \in Workers : \/ AlikeJobs(job[k], job'[k])
                              \/ ListedIn(job'[k], assoc, device)
    PROVE  Know'
<1>1. Live' = Live /\ deleted' = deleted /\ device' = device /\ assoc' = assoc
  BY DEF Live
<1>2. ASSUME NEW s \in Handlers PROVE SoundIn(req'[s], Live', deleted', device')
  <2>1. CASE SoundIn(req'[s], Live, deleted, device)
    BY <1>1, <2>1
  <2>2. CASE Alike(req[s], req'[s])
    <3>1. \A p : Spared(p)
      BY <1>1 DEF Spared
    <3> QED
      BY <2>2, <3>1, OthersSound DEF Know, Sounds
  <2> QED
    BY <2>1, <2>2
<1>3. ASSUME NEW k \in Workers PROVE ListedIn(job'[k], assoc', device')
  BY <1>1, OthersListed DEF Know, Detached
<1> QED
  BY <1>2, <1>3, SoundsIs, DetachedIs DEF Know

LEMMA OpensKnow ==
    ASSUME TypeInv, Know, NEW r \in Handlers, NEW q, Opens(r, q)
    PROVE  Know'
<1>1. /\ q.at \in {"reddit", "account", "accounts"} /\ q.todo = Aim(q)
      /\ q.at = "reddit" => q.kind = "register"
      /\ device[q.token] = q.row /\ UNCHANGED tables
  BY DEF Opens
<1>2. /\ req'[r] = q /\ \A s \in Handlers \ {r} : Alike(req[s], req'[s])
      /\ \A k \in Workers : AlikeJobs(job[k], job'[k])
  BY OpensIs
<1>3. SoundIn(q, Live, deleted, device)
  <2>1. ASSUME Writing(q) PROVE \A p \in Touches(q) : p[2] \in Aim(q)
    <3>1. q.at = "reddit" /\ q.kind = "register"
      BY <1>1, <2>1 DEF Writing
    <3>2. Touches(q) = {q.token} \X q.named /\ Aim(q) = q.named
      BY <3>1 DEF Touches, Aim, Registering
    <3> QED
      BY <3>2
  <2> QED
    BY <1>1, <2>1 DEF SoundIn
<1> QED
  BY <1>1, <1>2, <1>3, StillKnow DEF tables

LEMMA UpsertKnow ==
    ASSUME TypeInv, Know, NEW t \in Tokens, UpsertDevice(t)
    PROVE  Know'
<1>1. /\ device[t] = 0 /\ \A u \in Tokens \ {t} : device'[u] = device[u]
      /\ UNCHANGED <<deleted, assoc, req, job>>
  BY UpsertIs
<1>2. Live' = Live
  BY <1>1 DEF Live
<1>3. ASSUME NEW s \in Handlers PROVE SoundIn(req'[s], Live', deleted', device')
  <2>1. Sound(req[s]) /\ Alike(req[s], req'[s])
    BY <1>1, AlikeSame DEF Know, Sounds
  <2>2. ASSUME req'[s].alone, NEW p \in Touches(req[s]) PROVE Spared(p)
    <3>1. /\ p \in Pairs /\ p[1] = req[s].token /\ req[s].at # "idle" /\ req[s].row # 0
      BY <2>2, RequestIs DEF TypeInv, RequestOK
    <3>2. device[req[s].token] = req[s].row
      <4>1. req[s].alone /\ req[s].at # "answer"
        BY <1>1, <2>2, RequestIs DEF TypeInv, RequestRecords
      <4> QED
        BY <2>1, <2>2, <4>1 DEF Sound, SoundIn
    <3>3. p[1] \in Tokens \ {t}
      BY <1>1, <3>1, <3>2, PairIs
    <3> QED
      BY <1>1, <1>2, <3>3 DEF Spared
  <2> QED
    BY <2>1, <2>2, OthersSound
<1>4. ASSUME NEW k \in Workers PROVE ListedIn(job'[k], assoc', device')
  <2>1. ASSUME NEW p \in assoc PROVE device'[p[1]] = device[p[1]]
    <3>1. p[1] \in Tokens /\ device[p[1]] # 0
      BY PairIs DEF TypeInv, Tables
    <3> QED
      BY <1>1, <3>1
  <2> QED
    BY <1>1, <2>1, OthersListed DEF Know, Detached, AlikeJobs
<1> QED
  BY <1>3, <1>4, SoundsIs, DetachedIs DEF Know

LEMMA RejectsKnow ==
    ASSUME TypeInv, Know, NEW k \in Workers, Rejects(k)
    PROVE  Know'
<1>1. PICK t \in Tokens :
        /\ device' = [device EXCEPT ![t] = 0] /\ assoc' = assoc \ Of(t)
        /\ \A s \in Handlers :
             Alike(req[s], req'[s]) /\ (req'[s].alone => Touches(req[s]) \cap Of(t) = {})
        /\ \A l \in Workers : AlikeJobs(job[l], job'[l])
        /\ deleted' = deleted
  BY RejectsIs
<1>2. \A p \in Pairs \ Of(t) : /\ device'[p[1]] = device[p[1]]
                               /\ p \in Live' <=> p \in Live
  BY <1>1, DeviceGone DEF TypeInv
<1>3. ASSUME NEW s \in Handlers PROVE SoundIn(req'[s], Live', deleted', device')
  <2>1. ASSUME req'[s].alone, NEW p \in Touches(req[s]) PROVE Spared(p)
    <3>1. p \in Pairs \ Of(t)
      BY <1>1, <2>1, RequestIs DEF TypeInv
    <3> QED
      BY <1>1, <1>2, <3>1 DEF Spared
  <2> QED
    BY <1>1, <2>1, OthersSound DEF Know, Sounds
<1>4. ASSUME NEW l \in Workers PROVE ListedIn(job'[l], assoc', device')
  <2>1. \A p \in assoc' : p \in assoc /\ device'[p[1]] = device[p[1]]
    BY <1>1, <1>2 DEF TypeInv, Tables
  <2> QED
    BY <1>1, <2>1, OthersListed DEF Know, Detached
<1> QED
  BY <1>3, <1>4, SoundsIs, DetachedIs DEF Know

LEMMA DetachKnow ==
    ASSUME TypeInv, Know, NEW k \in Workers, Detach(k)
    PROVE  Know'
<1> DEFINE a == job[k].acct
<1>1. /\ a \in known /\ job'[k].acct = a /\ job'[k].devs = Rows(a)
      /\ \A l \in Workers \ {k} : AlikeJobs(job[l], job'[l])
      /\ \A s \in Handlers : Alike(req[s], req'[s])
      /\ UNCHANGED tables
  BY WorkDetachIs
<1>2. a \in Accounts /\ Tables
  BY <1>1 DEF TypeInv, Tables
<1>3. ListedIn(job'[k], assoc, device)
  <2>1. ASSUME NEW p \in assoc, p[2] = a PROVE <<p[1], device[p[1]]>> \in Rows(a)
    <3>1. p \in On(a)
      BY <2>1, PairIs DEF TypeInv, Tables
    <3> QED
      BY <1>2, <3>1, RowsIs
  <2> QED
    BY <1>1, <2>1 DEF ListedIn
<1> QED
  BY <1>1, <1>3, StillKnow DEF tables

LEMMA IdleListed == \A n, A, dv : n.at # "detaching" \/ n = NoWork => ListedIn(n, A, dv)
BY Empty DEF ListedIn

LEMMA DisassociateKnow ==
    ASSUME TypeInv, Apart, Know, NEW k \in Workers, NEW d \in job[k].devs, Disassociate(k, d)
    PROVE  Know'
<1> DEFINE a == job[k].acct
           old == <<d[1], a>>
           held == device[d[1]] = d[2]
<1>1. PICK n : /\ job' = [job EXCEPT ![k] = n] /\ n \in WorkRecords
               /\ n.at = "detaching" /\ n.acct = a /\ n.alone = job[k].alone
               /\ n.devs = job[k].devs \ {d} /\ job[k].at = "detaching"
               /\ assoc' = IF held THEN assoc \ {old} ELSE assoc
               /\ UNCHANGED <<device, deleted, req>>
  BY DisassociateIs
<1>2. /\ d[1] \in Tokens /\ d = <<d[1], d[2]>> /\ a \in Accounts
      /\ job \in [Workers -> WorkRecords]
  BY <1>1, WorkIs DEF TypeInv, Works, Tables
<1>3. old \in Pairs /\ old[1] = d[1] /\ old[2] = a /\ old \in Detaches(job[k])
  <2>1. old \in Pairs /\ old[1] = d[1] /\ old[2] = a
    BY <1>2, PairOf
  <2> QED
    BY <1>1, <2>1, DetachesIs
<1> HIDE DEF old
<1>4. \A p : p # old => (p \in Live' <=> p \in Live)
  BY <1>1 DEF Live
<1>5. ASSUME NEW s \in Handlers PROVE SoundIn(req'[s], Live', deleted', device')
  <2>1. ASSUME req[s].alone, NEW p \in Touches(req[s]) PROVE Spared(p)
    <3>1. p # old
      BY <1>3, <2>1 DEF Apart
    <3> QED
      BY <1>1, <1>4, <3>1 DEF Spared
  <2> QED
    BY <1>1, <2>1, OthersSound, AlikeSame DEF Know, Sounds
<1>6. job'[k] = n /\ \A l \in Workers \ {k} : job'[l] = job[l]
  BY <1>1, <1>2
<1>7. ASSUME NEW l \in Workers PROVE ListedIn(job'[l], assoc', device')
  <2>1. CASE l # k
    <3>1. assoc' \subseteq assoc /\ device' = device
      BY <1>1
    <3> QED
      BY <1>6, <2>1, <3>1, OthersListed DEF Know, Detached, AlikeJobs
  <2>2. CASE l = k
    <3> SUFFICES ASSUME n.alone, NEW p \in assoc', p[2] = a
                 PROVE  <<p[1], device[p[1]]>> \in n.devs
      BY <1>1, <1>6, <2>2 DEF ListedIn
    <3>1. p \in assoc /\ p \in Pairs
      BY <1>1 DEF TypeInv, Tables
    <3>2. <<p[1], device[p[1]]>> \in job[k].devs
      BY <1>1, <3>1 DEF Know, Detached, ListedIn
    <3>3. <<p[1], device[p[1]]>> # d
      <4> SUFFICES ASSUME <<p[1], device[p[1]]>> = d PROVE FALSE
        OBVIOUS
      <4>1. p[1] = d[1] /\ device[d[1]] = d[2]
        BY <1>2
      <4>2. p = old
        BY <3>1, <4>1, PairIs DEF old
      <4> QED
        BY <1>1, <4>1, <4>2
    <3> QED
      BY <1>1, <3>2, <3>3
  <2> QED
    BY <2>1, <2>2
<1> QED
  BY <1>5, <1>7, SoundsIs, DetachedIs DEF Know

LEMMA DeleteKnow ==
    ASSUME TypeInv, Apart, Know, NEW k \in Workers, DeleteAccount(k)
    PROVE  Know'
<1> DEFINE a == job[k].acct
<1>1. /\ job[k].at = "detaching" /\ deleted' = deleted \cup {a}
      /\ job' = [job EXCEPT ![k] = NoWork] /\ UNCHANGED <<device, assoc, req>>
  BY DeleteIs
<1>2. \A p : p[2] # a => (p \in Live' <=> p \in Live)
  BY <1>1 DEF Live
<1>3. ASSUME NEW s \in Handlers PROVE SoundIn(req'[s], Live', deleted', device')
  <2>1. ASSUME req[s].alone, NEW p \in Touches(req[s]) PROVE Spared(p)
    <3>1. p \in Pairs /\ p \notin Detaches(job[k])
      BY <2>1, RequestIs DEF Apart, TypeInv
    <3>2. p[2] # a
      BY <1>1, <3>1, DetachesIs
    <3> QED
      BY <1>1, <1>2, <3>2 DEF Spared
  <2> QED
    BY <1>1, <2>1, OthersSound, AlikeSame DEF Know, Sounds
<1>4. \A l \in Workers : job'[l] = job[l] \/ job'[l] = NoWork
  BY <1>1 DEF TypeInv, Works
<1>5. \A l \in Workers : ListedIn(job'[l], assoc', device')
  BY <1>1, <1>4, IdleListed DEF Know, Detached
<1> QED
  BY <1>3, <1>5, SoundsIs, DetachedIs DEF Know

LEMMA WorkedKnow ==
    ASSUME TypeInv, Apart, Know, NEW k \in Workers, Worked(k)
    PROVE  Know'
<1>1. ASSUME NEW n, job' = [job EXCEPT ![k] = n], n.at # "detaching" \/ n = NoWork,
             UNCHANGED <<device, assoc, deleted, req>>
      PROVE  Know'
  <2>1. \A l \in Workers : job'[l] = job[l] \/ job'[l] = n
    BY <1>1 DEF TypeInv, Works
  <2>2. \A l \in Workers : ListedIn(job'[l], assoc, device)
    BY <1>1, <2>1, IdleListed DEF Know, Detached
  <2> QED
    BY <1>1, <2>2, AlikeSame, StillKnow
<1>2. CASE \E a \in Accounts : StartJob(k, a)
  <2>1. PICK n : /\ job' = [job EXCEPT ![k] = n] /\ n.at = "refresh"
                 /\ UNCHANGED <<tables, req>>
    BY <1>2, StartIs
  <2> QED
    BY <1>1, <2>1 DEF tables
<1>3. CASE Plain(k)
  <2>1. PICK n : /\ job' = [job EXCEPT ![k] = n]
                 /\ n = NoWork \/ n.at # "detaching"
                 /\ UNCHANGED <<device, assoc, deleted, req>>
    BY <1>3, PlainIs
  <2> QED
    BY <1>1, <2>1
<1>4. CASE JobFails(k)
  <2>1. job' = [job EXCEPT ![k] = NoWork] /\ UNCHANGED <<tables, req>>
    BY <1>4, JobFailsIs
  <2> QED
    BY <1>1, <2>1 DEF tables
<1> QED
  BY <1>2, <1>3, <1>4, DetachKnow, RejectsKnow, DeleteKnow, DisassociateKnow DEF Worked

LEMMA KnowNext == TypeInv /\ Apart /\ Know /\ [Next]_vars => Know'
<1> SUFFICES ASSUME TypeInv, Apart, Know, [Next]_vars PROVE Know'
  OBVIOUS
<1>1. ASSUME NEW a \in Accounts, Revoke(a) PROVE Know'
  <2>1. /\ \A s \in Handlers : Alike(req[s], req'[s])
        /\ \A k \in Workers : AlikeJobs(job[k], job'[k])
        /\ UNCHANGED <<device, assoc, deleted>>
    BY <1>1, RevokeIs
  <2> QED
    BY <2>1, StillKnow
<1>2. ASSUME NEW r \in Handlers, GoesOn(r) PROVE Know'
  <2>1. PICK n : Moves(r, n)
    BY <1>2, GoesOnMoves
  <2>2. assoc' \subseteq Pairs
    BY TypeNext DEF TypeInv, Tables
  <2> QED
    BY <2>1, <2>2, MovesSound DEF Know
<1>3. ASSUME NEW r \in Handlers, Refused(r) \/ RequestFails(r) PROVE Know'
  <2>1. req' = [req EXCEPT ![r] = NoRequest] /\ UNCHANGED <<tables, job>>
    BY <1>3, FailsIs
  <2>2. \A s \in Handlers : req'[s] = req[s] \/ req'[s] = NoRequest
    BY <2>1 DEF TypeInv, Requests
  <2>3. \A s \in Handlers : SoundIn(req'[s], Live, deleted, device)
    BY <2>2, IdleSound DEF Know, Sounds, Sound
  <2>4. \A k \in Workers : AlikeJobs(job[k], job'[k])
    BY <2>1 DEF AlikeJobs
  <2> QED
    BY <2>1, <2>3, <2>4, StillKnow DEF tables
<1>4. ASSUME UNCHANGED vars PROVE Know'
  <2>1. UNCHANGED <<tables, req, job>>
    BY <1>4 DEF vars
  <2> QED
    BY <2>1, AlikeSame, StillKnow DEF tables, AlikeJobs
<1>5. ASSUME NEW r \in Handlers, NewRequest(r) PROVE Know'
  BY <1>5, NewIs, OpensKnow
<1> QED
  BY <1>1, <1>2, <1>3, <1>4, <1>5, Steps, UpsertKnow, WorkedKnow

-----------------------------------------------------------------------------
(* Where nothing is in doubt.  An association that a request or a job may  *)
(* still write is busy; one that a request that is not alone may still     *)
(* write is crowded.                                                       *)
Busy(p, Q, J) ==
    \/ \E r \in Handlers : Writing(Q[r]) /\ p \in Touches(Q[r])
    \/ \E k \in Workers : p \in Detaches(J[k])

Crowded(p, Q) ==
    \E r \in Handlers : Writing(Q[r]) /\ p \in Touches(Q[r]) /\ ~Q[r].alone

(* What a deletion has left behind waits for a request that will answer in *)
(* doubt; what is not busy is as it was asked.                             *)
Settled(p, L, H, W, Q, J) ==
    /\ p \in H => Crowded(p, Q)
    /\ ~Busy(p, Q, J) => (p \in L <=> p \in W)

Clear == \A p \in Pairs \ doubt : Settled(p, Live, Hidden, wanted, req, job)

LEMMA ClearIs ==
    ASSUME \A p \in Pairs \ doubt' : Settled(p, Live', Hidden', wanted', req', job')
    PROVE  Clear'
BY DEF Clear, Settled, Busy, Crowded, Touches, Of, Detaches, On, Writing

(* A request that is about p, and writes, goes on so.                      *)
Holds(p, q, n) ==
    Writing(q) /\ p \in Touches(q) =>
      Writing(n) /\ p \in Touches(n) /\ (~q.alone => ~n.alone)

LEMMA AlikeHolds == \A p, q, n : Alike(q, n) => Holds(p, q, n)
BY AlikeTouches DEF Holds, Alike

LEMMA StaysBusy ==
    ASSUME NEW p, \A s \in Handlers : Holds(p, req[s], req'[s]),
           \A k \in Workers : p \in Detaches(job[k]) => p \in Detaches(job'[k])
    PROVE  /\ Crowded(p, req) => Crowded(p, req')
           /\ Busy(p, req, job) => Busy(p, req', job')
BY DEF Holds, Crowded, Busy

LEMMA StaysSettled ==
    ASSUME Clear, NEW p \in Pairs, p \notin doubt,
           p \in Live' <=> p \in Live, p \in Hidden' => p \in Hidden,
           p \in wanted' <=> p \in wanted,
           \A s \in Handlers : Holds(p, req[s], req'[s]),
           \A k \in Workers : p \in Detaches(job[k]) => p \in Detaches(job'[k])
    PROVE  Settled(p, Live', Hidden', wanted', req', job')
<1>1. Settled(p, Live, Hidden, wanted, req, job)
  BY DEF Clear
<1> QED
  BY <1>1, StaysBusy DEF Settled

LEMMA MovesClear ==
    ASSUME TypeInv, Sounds, Clear, NEW r \in Handlers, NEW n, Moves(r, n)
    PROVE  Clear'
<1> DEFINE q == req[r]
<1> SUFFICES ASSUME NEW p \in Pairs, p \notin doubt'
             PROVE  Settled(p, Live', Hidden', wanted', req', job')
  BY ClearIs
<1>1. /\ Footing(q, n) /\ RequestOK(n) /\ Writing(n) /\ (n.alone => q.alone)
      /\ req'[r] = IF n.at = "answer" THEN NoRequest ELSE n
      /\ job' = job /\ Wished(n) /\ Leaves(r)
      /\ SoundIn(n, Live', deleted', device')
      /\ n.alone => Hidden' \subseteq Hidden
  BY DEF Moves, Sounds
<1>2. Touches(n) = Touches(q)
  BY <1>1, TouchesSame DEF Moves, Footing, Writing
<1>3. \A s \in Handlers \ {r} : Alike(req[s], req'[s]) /\ Holds(p, req[s], req'[s])
  BY AlikeHolds DEF Moves
<1>4. ASSUME Crowded(p, req), q.alone \/ p \notin Touches(q)
      PROVE  Crowded(p, req')
  BY <1>3, <1>4 DEF Crowded, Holds
<1>5. CASE p \notin Touches(q)
  <2>1. /\ p \notin doubt /\ (p \in wanted' <=> p \in wanted)
        /\ \/ p \in Live' <=> p \in Live
           \/ p \in Hidden /\ p \notin Hidden'
        /\ p \in Hidden' => p \in Hidden
    BY <1>5 DEF Moves, Leaves
  <2>2. \A s \in Handlers : Holds(p, req[s], req'[s])
    BY <1>3, <1>5 DEF Holds
  <2>3. CASE p \in Live' <=> p \in Live
    BY <1>1, <2>1, <2>2, <2>3, StaysSettled
  <2>4. CASE p \in Hidden /\ p \notin Hidden'
    <3>1. Crowded(p, req)
      BY <2>1, <2>4 DEF Clear, Settled
    <3>2. Crowded(p, req')
      BY <1>4, <1>5, <3>1
    <3>3. Busy(p, req', job')
      BY <3>2 DEF Crowded, Busy
    <3> QED
      BY <2>4, <3>3 DEF Settled
  <2> QED
    BY <2>1, <2>3, <2>4
<1>6. CASE p \in Touches(q) /\ n.at # "answer"
  <2>1. req'[r] = n /\ p \in Touches(n) /\ Writing(n) /\ p \notin doubt
    BY <1>1, <1>2, <1>6 DEF Wished
  <2>2. Busy(p, req', job')
    BY <2>1 DEF Busy
  <2>3. ASSUME p \in Hidden' PROVE Crowded(p, req')
    <3>1. CASE ~n.alone
      BY <2>1, <3>1 DEF Crowded
    <3>2. CASE n.alone
      <4>1. Crowded(p, req)
        BY <1>1, <2>1, <2>3, <3>2 DEF Clear, Settled
      <4> QED
        BY <1>1, <1>4, <3>2, <4>1
    <3> QED
      BY <3>1, <3>2
  <2> QED
    BY <2>2, <2>3 DEF Settled
<1>7. CASE p \in Touches(q) /\ n.at = "answer"
  <2>1. p \in Touches(n) /\ n.alone
    BY <1>1, <1>2, <1>7 DEF Wished
  <2>2. /\ wanted' = (wanted \ Touches(n)) \cup Asked(n)
        /\ doubt' = doubt \ (Touches(n) \ Hidden')
    BY <1>1, <1>7, <2>1 DEF Wished
  <2>3. ASSUME p \in Hidden' PROVE Crowded(p, req')
    <3>1. Crowded(p, req)
      BY <1>1, <2>1, <2>2, <2>3 DEF Clear, Settled
    <3> QED
      BY <1>1, <1>4, <2>1, <3>1
  <2>4. p \in Live' <=> p[2] \in Aim(n)
    <3>1. n.todo = {} /\ n.drop = {}
      BY <1>1, <1>7 DEF RequestOK
    <3>2. p = <<n.token, p[2]>>
      BY <1>1, <1>7, RequestIs, PairIs DEF TypeInv, Footing
    <3>3. p \in Live' => p[2] \in Aim(n)
      BY <1>1, <2>1, <3>1 DEF SoundIn
    <3>4. p[2] \in Aim(n) => <<n.token, p[2]>> \in Live'
      BY <1>1, <2>1, <3>1 DEF SoundIn
    <3> QED
      BY <3>2, <3>3, <3>4
  <2>5. p \in wanted' <=> p[2] \in Aim(n)
    <3>1. p = <<n.token, p[2]>>
      BY <1>1, <1>7, RequestIs, PairIs DEF TypeInv, Footing
    <3>2. p \in Asked(n) <=> p[2] \in Aim(n)
      <4> HIDE DEF q
      <4> QED
        BY <3>1 DEF Asked, Aim, Registering
    <3> QED
      BY <2>1, <2>2, <3>2
  <2> QED
    BY <2>3, <2>4, <2>5 DEF Settled
<1> QED
  BY <1>5, <1>6, <1>7

LEMMA WorkedClear ==
    ASSUME TypeInv, Know, Clear, NEW k \in Workers, Worked(k)
    PROVE  Clear'
<1> SUFFICES ASSUME NEW p \in Pairs, p \notin doubt'
             PROVE  Settled(p, Live', Hidden', wanted', req', job')
  BY ClearIs
<1>1. \A s \in Handlers : Holds(p, req[s], req[s])
  BY AlikeSame, AlikeHolds
<1>2. ASSUME NEW n, job' = [job EXCEPT ![k] = n], req' = req, UNCHANGED <<assoc, deleted, wanted>>,
             p \notin doubt, p \notin Detaches(job[k])
      PROVE  Settled(p, Live', Hidden', wanted', req', job')
  <2>1. Live' = Live /\ Hidden' = Hidden
    BY <1>2 DEF Live, Hidden
  <2>2. \A l \in Workers : p \in Detaches(job[l]) => p \in Detaches(job'[l])
    <3>1. \A l \in Workers \ {k} : job'[l] = job[l]
      BY <1>2 DEF TypeInv, Works
    <3> QED
      BY <1>2, <3>1
  <2> QED
    BY <1>1, <1>2, <2>1, <2>2, StaysSettled
<1>3. p \in Detaches(job[k]) => job[k].at = "detaching"
  BY DetachesIs
<1>4. CASE \E a \in Accounts : StartJob(k, a)
  <2>1. PICK n : /\ job' = [job EXCEPT ![k] = n] /\ job[k].at = "idle"
                 /\ UNCHANGED <<tables, history, req>>
    BY <1>4, StartIs
  <2> QED
    BY <1>2, <1>3, <2>1 DEF tables, history
<1>5. CASE Plain(k)
  <2>1. PICK n : /\ job' = [job EXCEPT ![k] = n] /\ job[k].at # "detaching"
                 /\ UNCHANGED <<assoc, deleted, history, req>>
    BY <1>5, PlainIs
  <2> QED
    BY <1>2, <1>3, <2>1 DEF history
<1>6. CASE JobFails(k)
  <2>1. /\ job' = [job EXCEPT ![k] = NoWork] /\ doubt' = doubt \cup Detaches(job[k])
        /\ UNCHANGED <<tables, wanted, req>>
    BY <1>6, JobFailsIs
  <2> QED
    BY <1>2, <2>1 DEF tables
<1>7. CASE Detach(k)
  <2>1. /\ \A l \in Workers \ {k} : AlikeJobs(job[l], job'[l])
        /\ \A s \in Handlers : Alike(req[s], req'[s])
        /\ job[k].at \in {"refresh", "inbox"} /\ UNCHANGED <<tables, history>>
    BY <1>7, WorkDetachIs
  <2>2. Live' = Live /\ Hidden' = Hidden /\ wanted' = wanted /\ doubt' = doubt
    BY <2>1, SameTables DEF history
  <2>3. \A l \in Workers : p \in Detaches(job[l]) => p \in Detaches(job'[l])
    BY <1>3, <2>1 DEF AlikeJobs, Detaches
  <2> QED
    BY <2>1, <2>2, <2>3, AlikeHolds, StaysSettled
<1>8. CASE Rejects(k)
  <2>1. PICK t \in Tokens :
             /\ device' = [device EXCEPT ![t] = 0] /\ assoc' = assoc \ Of(t)
             /\ wanted' = wanted \ Of(t) /\ doubt' = doubt \ Of(t)
             /\ \A s \in Handlers : Alike(req[s], req'[s])
             /\ \A l \in Workers : AlikeJobs(job[l], job'[l])
             /\ deleted' = deleted
    BY <1>8, RejectsIs
  <2>2. Live' = Live \ Of(t) /\ Hidden' = Hidden \ Of(t)
    BY <2>1 DEF Live, Hidden
  <2>3. CASE p \in Of(t)
    BY <2>1, <2>2, <2>3 DEF Settled
  <2>4. CASE p \notin Of(t)
    <3>1. \A l \in Workers : p \in Detaches(job[l]) => p \in Detaches(job'[l])
      BY <2>1 DEF AlikeJobs, Detaches
    <3> QED
      BY <2>1, <2>2, <2>4, <3>1, AlikeHolds, StaysSettled
  <2> QED
    BY <2>3, <2>4
<1>9. CASE DeleteAccount(k)
  <2> DEFINE a == job[k].acct
  <2>1. /\ job[k].at = "detaching" /\ job[k].devs = {} /\ a \in known
        /\ deleted' = deleted \cup {a}
        /\ job[k].alone => wanted' = wanted \ On(a) /\ doubt' = doubt \ On(a)
        /\ ~job[k].alone => wanted' = wanted /\ doubt' = doubt \cup On(a)
        /\ job' = [job EXCEPT ![k] = NoWork] /\ UNCHANGED <<assoc, req>>
    BY <1>9, DeleteIs
  <2>2. p \in On(a) <=> p[2] = a
    BY PairIs
  <2>3. CASE p[2] = a
    <3>1. job[k].alone
      BY <2>1, <2>2, <2>3
    <3>2. p \notin assoc
      BY <2>1, <2>3, <3>1 DEF Know, Detached, ListedIn
    <3> QED
      BY <2>1, <2>2, <2>3, <3>1, <3>2 DEF Settled, Live, Hidden
  <2>4. CASE p[2] # a
    <3>1. /\ p \in Live' <=> p \in Live
          /\ p \in Hidden' <=> p \in Hidden
      BY <2>1, <2>4 DEF Live, Hidden
    <3>2. p \notin doubt /\ (p \in wanted' <=> p \in wanted)
      BY <2>1, <2>2, <2>4
    <3>3. p \notin Detaches(job[k])
      BY <2>4, DetachesIs
    <3>4. \A l \in Workers : p \in Detaches(job[l]) => p \in Detaches(job'[l])
      <4>1. \A l \in Workers \ {k} : job'[l] = job[l]
        BY <2>1 DEF TypeInv, Works
      <4> QED
        BY <3>3, <4>1
    <3> QED
      BY <1>1, <2>1, <3>1, <3>2, <3>4, StaysSettled
  <2> QED
    BY <2>3, <2>4
<1>10. CASE \E d \in job[k].devs : Disassociate(k, d)
  <2> DEFINE a == job[k].acct
  <2>1. PICK d \in job[k].devs : Disassociate(k, d)
    BY <1>10
  <2>2. PICK n : /\ job' = [job EXCEPT ![k] = n]
                 /\ n.at = "detaching" /\ n.acct = a /\ job[k].at = "detaching"
                 /\ assoc' = IF device[d[1]] = d[2] THEN assoc \ {<<d[1], a>>} ELSE assoc
                 /\ UNCHANGED <<device, deleted, history, req>>
    BY <2>1, DisassociateIs
  <2>3. job'[k] = n /\ \A l \in Workers \ {k} : job'[l] = job[l]
    BY <2>2 DEF TypeInv, Works
  <2>4. \A l \in Workers : p \in Detaches(job[l]) => p \in Detaches(job'[l])
    BY <2>2, <2>3 DEF Detaches
  <2>5. p \notin doubt /\ wanted' = wanted
    BY <2>2 DEF history
  <2>6. p \in Hidden' => p \in Hidden
    BY <2>2 DEF Live, Hidden
  <2>7. CASE p[2] = a
    <3>1. p \in Detaches(job'[k])
      BY <2>2, <2>3, <2>7, DetachesIs
    <3>2. Busy(p, req', job')
      BY <3>1 DEF Busy
    <3>3. p \in Hidden' => Crowded(p, req')
      BY <2>2, <2>5, <2>6 DEF Clear, Settled
    <3> QED
      BY <3>2, <3>3 DEF Settled
  <2>8. CASE p[2] # a
    <3>1. p # <<d[1], a>>
      BY <2>8
    <3>2. p \in Live' <=> p \in Live
      BY <2>2, <3>1 DEF Live
    <3> QED
      BY <1>1, <2>2, <2>4, <2>5, <2>6, <3>2, StaysSettled
  <2> QED
    BY <2>7, <2>8
<1> QED
  BY <1>4, <1>5, <1>6, <1>7, <1>8, <1>9, <1>10 DEF Worked

LEMMA ClearNext == TypeInv /\ Know /\ Clear /\ [Next]_vars => Clear'
<1> SUFFICES ASSUME TypeInv, Know, Clear, [Next]_vars PROVE Clear'
  OBVIOUS
<1>1. ASSUME NEW p \in Pairs, p \notin doubt, UNCHANGED <<assoc, deleted, wanted>>,
             \A s \in Handlers : Holds(p, req[s], req'[s]),
             \A k \in Workers : AlikeJobs(job[k], job'[k])
      PROVE  Settled(p, Live', Hidden', wanted', req', job')
  <2>1. Live' = Live /\ Hidden' = Hidden
    BY <1>1 DEF Live, Hidden
  <2>2. \A l \in Workers : p \in Detaches(job[l]) => p \in Detaches(job'[l])
    BY <1>1 DEF AlikeJobs, Detaches
  <2> QED
    BY <1>1, <2>1, <2>2, StaysSettled
<1>2. ASSUME req' = req, job' = job, UNCHANGED <<assoc, deleted, wanted, doubt>>
      PROVE  Clear'
  BY <1>1, <1>2, AlikeSame, AlikeHolds, ClearIs DEF AlikeJobs
<1>3. ASSUME NEW t \in Tokens, UpsertDevice(t) PROVE Clear'
  <2>1. UNCHANGED <<deleted, assoc, req, job, history>>
    BY <1>3, UpsertIs
  <2> QED
    BY <1>2, <2>1 DEF history
<1>4. ASSUME NEW a \in Accounts, Revoke(a) PROVE Clear'
  BY <1>1, <1>4, RevokeIs, AlikeHolds, ClearIs
<1>5. ASSUME NEW r \in Handlers, NewRequest(r) PROVE Clear'
  <2>1. PICK q : Opens(r, q)
    BY <1>5, NewIs
  <2>2. /\ \A s \in Handlers \ {r} : Alike(req[s], req'[s])
        /\ \A k \in Workers : AlikeJobs(job[k], job'[k])
    BY <2>1, OpensIs
  <2>3. UNCHANGED <<assoc, deleted, wanted, doubt>> /\ req[r].at = "idle"
    BY <2>1 DEF Opens, tables, history
  <2>4. \A p : \A s \in Handlers : Holds(p, req[s], req'[s])
    BY <2>2, <2>3, AlikeHolds DEF Holds, Writing
  <2> QED
    BY <1>1, <2>2, <2>3, <2>4, ClearIs
<1>6. ASSUME NEW r \in Handlers, GoesOn(r) PROVE Clear'
  BY <1>6, GoesOnMoves, MovesClear DEF Know
<1>7. ASSUME NEW r \in Handlers, Refused(r) \/ RequestFails(r) PROVE Clear'
  <2>1. /\ req' = [req EXCEPT ![r] = NoRequest]
        /\ doubt' = IF req[r].at \in {"account", "accounts"} THEN doubt
                    ELSE doubt \cup Touches(req[r])
        /\ UNCHANGED <<tables, wanted, job>>
    BY <1>7, FailsIs
  <2>2. \A s \in Handlers \ {r} : req'[s] = req[s]
    BY <2>1 DEF TypeInv, Requests
  <2>3. ASSUME NEW p \in Pairs, p \notin doubt'
        PROVE  /\ p \notin doubt /\ \A s \in Handlers : Holds(p, req[s], req'[s])
    <3>1. p \notin doubt /\ Holds(p, req[r], req'[r])
      BY <2>1, <2>3 DEF Holds, Writing
    <3> QED
      BY <2>2, <3>1, AlikeSame, AlikeHolds
  <2> QED
    BY <1>1, <2>1, <2>3, ClearIs DEF tables, AlikeJobs
<1>8. ASSUME UNCHANGED vars PROVE Clear'
  BY <1>2, <1>8 DEF vars, tables, history
<1> QED
  BY <1>3, <1>4, <1>5, <1>6, <1>7, <1>8, Steps, WorkedClear

AskedInv == TypeInv /\ Apart /\ Know /\ Clear

LEMMA AskedInit == Init => AskedInv
<1> SUFFICES ASSUME Init PROVE AskedInv
  OBVIOUS
<1>1. /\ \A r \in Handlers : req[r] = NoRequest
      /\ \A k \in Workers : job[k] = NoWork
      /\ assoc = {} /\ wanted = {}
  BY DEF Init
<1>2. Touches(NoRequest) = {} /\ Detaches(NoWork) = {}
  BY Empty DEF Touches, NoRequest, Detaches
<1>3. Apart
  BY <1>1, <1>2 DEF Apart
<1>4. Know
  BY <1>1, IdleSound, IdleListed DEF Know, Sounds, Sound, Detached
<1>5. Clear
  BY <1>1 DEF Clear, Settled, Live, Hidden
<1> QED
  BY <1>3, <1>4, <1>5, TypeInit DEF AskedInv

(* Whatever requests and jobs write one another's associations over, and   *)
(* however they are cut short: an association that none of them is about,  *)
(* and that is not in doubt, is as it was last asked for.                  *)
THEOREM AsAskedCorrect == Spec => []AsAsked
<1>1. AskedInv /\ [Next]_vars => AskedInv'
  BY TypeNext, ApartNext, KnowNext, ClearNext DEF AskedInv
<1>2. AskedInv => AsAsked
  <2> SUFFICES ASSUME Clear, NEW p \in Pairs \ doubt, ~Meets({p})
               PROVE  p \in Live <=> p \in wanted
    BY DEF AskedInv, AsAsked
  <2>1. ~Busy(p, req, job)
    BY DEF Busy, Meets
  <2> QED
    BY <2>1 DEF Clear, Settled
<1> QED
  BY <1>1, <1>2, AskedInit, PTL DEF Spec
=============================================================================
