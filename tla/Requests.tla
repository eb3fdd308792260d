------------------------------ MODULE Requests ------------------------------
(***************************************************************************)
(* Private item requests: the watches and alert outbox kept in the         *)
(* collector's database (discord_bridge/request_store.py) and the senders  *)
(* that turn an alert into a direct message (request_delivery.py).         *)
(* Each store operation is one transaction, hence one action; a sender     *)
(* makes several and waits for Discord in between.                         *)
(*                                                                         *)
(* An observation's title and value are one "facet"; which facets a query  *)
(* wants is a constant.  Lease tokens are fresh in the code and name one   *)
(* claim; here the sender's name stands for the token of its latest claim, *)
(* which is as telling because a sender handles one alert at a time.       *)
(***************************************************************************)
EXTENDS Integers, FiniteSets

CONSTANTS
    Users, Items,
    Facets, NoFacet,    \* what an observation says of an item
    Queries,            \* keyword or exact matchers, with their minimum
    Wants,              \* query -> the <<item, facet>> pairs it matches
    MAX_WATCHES,        \* bound: watches ever added (AUTOINCREMENT ids)
    MAX_REQUESTS,       \* 10 watches per member
    MAX_REVISION,       \* bound: edits of one watch
    ALERT_LIFETIME,     \* ALERT_LIFETIME_SECONDS = 20 min
    LEASE,              \* LEASE_SECONDS = 60
    Delays,             \* bound: the retry delays chosen
    Workers, NoWorker,  \* running senders, also standing for their tokens
    TrialsEnabled,      \* the trial service owns the clean-up of watches
    MAX_TIME            \* bound: the clock stops here

Watches    == 1..MAX_WATCHES
Alerts     == Users \X Items
Live       == {"pending", "leased"}
(* "These states are definitely unsent" (match_requests)                   *)
Rearmable  == {"cancelled", "expired", "failed"}
AlertStates == {"absent", "sending", "sent", "review"} \union Live \union Rearmable
NoWatch    == <<>>

ASSUME RequestConstants ==
    /\ Wants \in [Queries -> SUBSET (Items \X Facets)]
    /\ NoFacet \notin Facets /\ NoWorker \notin Workers
    /\ MAX_WATCHES \in Nat /\ MAX_REVISION \in Nat /\ MAX_REQUESTS \in Nat
    /\ ALERT_LIFETIME \in Nat /\ LEASE \in Nat /\ Delays \subseteq Nat
    /\ TrialsEnabled \in BOOLEAN /\ MAX_TIME \in Nat

VARIABLES
    now,
    watches,    \* personal_requests
    nextId,
    dm,         \* personal_request_users.dm_status
    state, facet, observed, expires, nextAttempt, token, leaseUntil,
                \* columns of personal_request_alerts
    matches,    \* alert -> watch -> revision matched, 0 for no row
    pc, job,    \* sender -> its step, and the alert it claimed
    accepted,   \* ghost: alert -> messages Discord accepted
    latest      \* ghost: item -> facet last observed, NoFacet if not for sale

alertVars == <<state, facet, observed, expires, nextAttempt, token, leaseUntil, matches>>
workVars  == <<pc, job>>
vars == <<now, watches, nextId, dm, alertVars, workVars, accepted, latest>>

Watch == [user : Users, query : Queries, revision : 1..(MAX_REVISION + 1), updated : Nat]

(* Steps of one cycle of a sender.                                         *)
Unsent == {"limited", "unsent", "missing", "forbidden", "rejected"}
Early  == {"claimed", "checked", "verified", "rechecked", "ready", "doomed"}
Late   == {"sending", "acked", "unknown"} \union Unsent
Steps  == {"idle"} \union Early \union Late
NoAlert == <<>>

TypeInvariant ==
    /\ now \in Nat
    /\ watches \in [Watches -> Watch \union {NoWatch}] /\ nextId \in Nat
    /\ dm \in [Users -> {"needs_test", "ready", "blocked"}]
    /\ state \in [Alerts -> AlertStates]
    /\ facet \in [Alerts -> Facets \union {NoFacet}]
    /\ observed \in [Alerts -> Nat] /\ expires \in [Alerts -> Nat]
    /\ nextAttempt \in [Alerts -> Nat] /\ leaseUntil \in [Alerts -> Nat]
    /\ token \in [Alerts -> Workers \union {NoWorker}]
    /\ matches \in [Alerts -> [Watches -> 0..(MAX_REVISION + 1)]]
    /\ pc \in [Workers -> Steps]
    /\ job \in [Workers -> Alerts \union {NoAlert}]
    /\ accepted \in [Alerts -> Nat]
    /\ latest \in [Items -> Facets \union {NoFacet}]

Init ==
    /\ now = 0
    /\ watches = [id \in Watches |-> NoWatch] /\ nextId = 1
    /\ dm = [u \in Users |-> "needs_test"]
    /\ state = [a \in Alerts |-> "absent"]
    /\ facet = [a \in Alerts |-> NoFacet]
    /\ observed = [a \in Alerts |-> 0] /\ expires = [a \in Alerts |-> 0]
    /\ nextAttempt = [a \in Alerts |-> 0] /\ leaseUntil = [a \in Alerts |-> 0]
    /\ token = [a \in Alerts |-> NoWorker]
    /\ matches = [a \in Alerts |-> [id \in Watches |-> 0]]
    /\ pc = [w \in Workers |-> "idle"]
    /\ job = [w \in Workers |-> NoAlert]
    /\ accepted = [a \in Alerts |-> 0]
    /\ latest = [i \in Items |-> NoFacet]

-----------------------------------------------------------------------------
(* The member's watches                                                    *)

Owned(u) == {id \in Watches : watches[id] # NoWatch /\ watches[id].user = u}
Duplicate(u, q, ids) == \E id \in Owned(u) \cap ids : watches[id].query = q

(* Rows that _cancel_orphans keeps: some matched watch has its revision.   *)
Current(table, rows, a) == {id \in Watches : /\ table[id] # NoWatch
                                             /\ rows[a][id] = table[id].revision}
Orphans(table, rows) == {a \in Alerts : state[a] \in Live /\ Current(table, rows, a) = {}}

Cancel(set) == state' = [a \in Alerts |-> IF a \in set THEN "cancelled" ELSE state[a]]
ForgetMatches(id) == [a \in Alerts |-> [matches[a] EXCEPT ![id] = 0]]

storeRest == <<now, alertVars, workVars, accepted, latest>>
columns   == <<facet, observed, expires, nextAttempt, token, leaseUntil>>

AddWatch(u, q) ==
    /\ nextId \in Watches
    /\ ~Duplicate(u, q, Watches) /\ Cardinality(Owned(u)) < MAX_REQUESTS
    /\ watches' = [watches EXCEPT ![nextId] = [user |-> u, query |-> q, revision |-> 1,
                                               updated |-> now]]
    /\ nextId' = nextId + 1
    /\ UNCHANGED <<dm, storeRest>>

EditWatch(id, q) ==
    /\ watches[id] # NoWatch /\ watches[id].revision <= MAX_REVISION
    /\ ~Duplicate(watches[id].user, q, Watches \ {id})
    /\ watches' = [watches EXCEPT ![id] = [user |-> @.user, query |-> q,
                                           revision |-> @.revision + 1, updated |-> now]]
    /\ matches' = ForgetMatches(id)
    /\ Cancel(Orphans(watches', matches'))
    /\ UNCHANGED <<now, nextId, dm, columns, workVars, accepted, latest>>

DeleteWatch(id) ==
    /\ watches[id] # NoWatch
    /\ watches' = [watches EXCEPT ![id] = NoWatch]
    /\ matches' = ForgetMatches(id)
    /\ Cancel(Orphans(watches', matches'))
    /\ UNCHANGED <<now, nextId, dm, columns, workVars, accepted, latest>>

(* revoke_user: every watch, and the alerts not yet committed to a send.   *)
Revoked(u) ==
    /\ watches' = [id \in Watches |-> IF id \in Owned(u) THEN NoWatch ELSE watches[id]]
    /\ matches' = [a \in Alerts |-> [id \in Watches |->
                      IF id \in Owned(u) THEN 0 ELSE matches[a][id]]]
    /\ dm' = [dm EXCEPT ![u] = "needs_test"]
    /\ Cancel({a \in Alerts : a[1] = u /\ state[a] \in Live})
    /\ UNCHANGED <<now, nextId, columns, accepted, latest>>

(* The trial service and the membership sweep revoke on what they read     *)
(* from Discord a moment ago, so at any time.                              *)
Revoke(u) == Revoked(u) /\ UNCHANGED workVars

(* The test message of /request test-dm and of a first /request add.       *)
TestDm(u, status) == /\ dm' = [dm EXCEPT ![u] = status]
                     /\ UNCHANGED <<watches, nextId, storeRest>>

-----------------------------------------------------------------------------
(* Intake: match_requests inside the transaction of JobStore.record.       *)

Matching(u, i, f) == {id \in Owned(u) : /\ watches[id].updated <= now
                                        /\ <<i, f>> \in Wants[watches[id].query]}
Stale(a) == state[a] \in Live /\ expires[a] <= now
AfterExpiry(a) == IF Stale(a) THEN "expired" ELSE state[a]

(* Mutation: an uncertain send is tried again on the next observation.     *)
RearmsReview(s) == s \in Rearmable \union {"review"}
Rearms(s) == s \in Rearmable
Inserted(a, i, f) == /\ a[2] = i /\ Matching(a[1], i, f) # {}
                     /\ AfterExpiry(a) = "absent" \/ Rearms(AfterExpiry(a))
Refreshed(a, i) == a[2] = i /\ AfterExpiry(a) \in Live

(* A live observation of item i, for sale with facet f.                    *)
Observed(i, f) ==
    LET opens(a) == Inserted(a, i, f)
        seen(a)  == opens(a) \/ Refreshed(a, i)
    IN /\ state' = [a \in Alerts |-> IF opens(a) THEN "pending" ELSE AfterExpiry(a)]
       /\ facet' = [a \in Alerts |-> IF seen(a) THEN f ELSE facet[a]]
       /\ observed' = [a \in Alerts |-> IF seen(a) THEN now ELSE observed[a]]
       /\ expires' = [a \in Alerts |-> IF opens(a) THEN now + ALERT_LIFETIME ELSE expires[a]]
       /\ nextAttempt' = [a \in Alerts |-> IF opens(a) THEN now ELSE nextAttempt[a]]
       /\ token' = [a \in Alerts |-> IF opens(a) THEN NoWorker ELSE token[a]]
       /\ leaseUntil' = [a \in Alerts |-> IF opens(a) THEN 0 ELSE leaseUntil[a]]
       /\ matches' = [a \in Alerts |-> [id \in Watches |->
              IF seen(a) /\ id \in Matching(a[1], i, f) THEN watches[id].revision
              ELSE IF opens(a) THEN 0 ELSE matches[a][id]]]

(* An observation that is not for sale, or of a seed batch, only cancels.  *)
Withdrawn(i, f) ==
    /\ state' = [a \in Alerts |-> IF Refreshed(a, i) THEN "cancelled" ELSE AfterExpiry(a)]
    /\ facet' = [a \in Alerts |-> IF Refreshed(a, i) THEN f ELSE facet[a]]
    /\ observed' = [a \in Alerts |-> IF Refreshed(a, i) THEN now ELSE observed[a]]
    /\ UNCHANGED <<expires, nextAttempt, token, leaseUntil, matches>>

Observe(i, f, seed) ==
    /\ IF \E id \in Watches : watches[id] # NoWatch /\ watches[id].updated <= now
       THEN IF seed \/ f = NoFacet THEN Withdrawn(i, f) ELSE Observed(i, f)
       ELSE UNCHANGED alertVars
    /\ latest' = [latest EXCEPT ![i] = f]
    /\ UNCHANGED <<now, watches, nextId, dm, workVars, accepted>>

-----------------------------------------------------------------------------
(* The outbox                                                              *)

(* _hydrate of a leased row, for a given alert status and associations.    *)
(* Mutation: the associations are trusted, the watch is not matched again. *)
StillAssociated(a, table, rows) == Current(table, rows, a) # {}
StillWanted(a, table, rows) ==
    \E id \in Current(table, rows, a) :
        /\ table[id].user = a[1] /\ table[id].updated <= observed[a]
        /\ <<a[2], facet[a]>> \in Wants[table[id].query]
Deliverable(a) == /\ expires[a] > now
                  /\ dm[a[1]] = "ready"
                  /\ facet[a] # NoFacet
                  /\ StillWanted(a, watches, matches)
Valid(w) == LET a == job[w] IN
    state[a] = "leased" /\ token[a] = w /\ leaseUntil[a] > now /\ Deliverable(a)

(* Mutation: a send interrupted by a crash is not noticed.                 *)
InterruptedKept(a) == FALSE
Interrupted(a) == state[a] = "sending" /\ leaseUntil[a] <= now

(* _retire, then _cancel_orphans.                                          *)
Swept(a) == IF Interrupted(a) THEN "review"
            ELSE IF Stale(a) THEN "expired"
            ELSE IF a \in Orphans(watches, matches) THEN "cancelled" ELSE state[a]

Candidates == {a \in Alerts : /\ dm[a[1]] = "ready" /\ expires[a] > now
                              /\ nextAttempt[a] <= now
                              /\ \/ Swept(a) = "pending"
                                 \/ Swept(a) = "leased" /\ leaseUntil[a] <= now}

Goto(w, step) == pc' = [pc EXCEPT ![w] = step]
Idle(w) == Goto(w, "idle") /\ job' = [job EXCEPT ![w] = NoAlert]

(* The first deliverable candidate by next_attempt is leased; candidates   *)
(* before it that nobody wants any more are cancelled.                     *)
Claim(w) ==
    /\ pc[w] = "idle"
    /\ LET good == {a \in Candidates : Deliverable(a)}
           earlier(a) == {b \in Candidates \ good : nextAttempt[b] <= nextAttempt[a]}
       IN \/ /\ good = {}
             /\ state' = [a \in Alerts |-> IF a \in Candidates THEN "cancelled" ELSE Swept(a)]
             /\ UNCHANGED <<facet, observed, expires, nextAttempt, token, leaseUntil, workVars>>
          \/ \E a \in good, dropped \in SUBSET (Candidates \ good) :
               /\ \A b \in good : nextAttempt[a] <= nextAttempt[b]
               /\ {b \in earlier(a) : nextAttempt[b] < nextAttempt[a]} \subseteq dropped
               /\ dropped \subseteq earlier(a)
               /\ state' = [b \in Alerts |-> IF b = a THEN "leased"
                               ELSE IF b \in dropped THEN "cancelled" ELSE Swept(b)]
               /\ token' = [token EXCEPT ![a] = w]
               /\ leaseUntil' = [leaseUntil EXCEPT ![a] = now + LEASE]
               /\ Goto(w, "claimed") /\ job' = [job EXCEPT ![w] = a]
               /\ UNCHANGED <<facet, observed, expires, nextAttempt>>
    /\ UNCHANGED <<now, watches, nextId, dm, matches, accepted, latest>>

(* settle and retry change only a row this claim still holds.              *)
(* Mutation: a settlement does not look at the token.                      *)
HoldsAny(w) == state[job[w]] \in {"leased", "sending"}
Holds(w) == token[job[w]] = w /\ state[job[w]] \in {"leased", "sending"}

SettleAs(w, outcome) ==
    /\ state' = IF Holds(w) THEN [state EXCEPT ![job[w]] = outcome] ELSE state
    /\ Idle(w)
    /\ UNCHANGED <<now, watches, nextId, dm, columns, matches, accepted, latest>>

RetryLater(w) ==
    /\ IF Holds(w)
       THEN /\ state' = [state EXCEPT ![job[w]] = "pending"]
            /\ \E d \in Delays : nextAttempt' = [nextAttempt EXCEPT ![job[w]] = now + d]
            /\ token' = [token EXCEPT ![job[w]] = NoWorker]
            /\ leaseUntil' = [leaseUntil EXCEPT ![job[w]] = 0]
       ELSE UNCHANGED <<state, nextAttempt, token, leaseUntil>>
    /\ Idle(w)
    /\ UNCHANGED <<now, watches, nextId, dm, facet, observed, expires, matches, accepted,
                   latest>>

-----------------------------------------------------------------------------
(* One cycle of a sender (RequestWorker.tick) after its claim              *)

(* GET of the member, before anything else and again before the message:   *)
(* still entitled, no longer entitled, or not known.                       *)
CheckMember(w) ==
    /\ pc[w] \in {"claimed", "verified"}
    /\ \/ /\ Goto(w, IF pc[w] = "claimed" THEN "checked" ELSE "rechecked")
          /\ UNCHANGED <<now, watches, nextId, dm, alertVars, job, accepted, latest>>
       \/ /\ TrialsEnabled /\ SettleAs(w, "cancelled")
       \/ /\ ~TrialsEnabled /\ Revoked(job[w][1]) /\ Idle(w)
       \/ RetryLater(w)

Validate(w) ==
    /\ pc[w] \in {"checked", "rechecked"}
    /\ Goto(w, IF ~Valid(w) THEN "doomed"
               ELSE IF pc[w] = "checked" THEN "verified" ELSE "ready")
    /\ UNCHANGED <<now, watches, nextId, dm, alertVars, job, accepted, latest>>

Doom(w) == pc[w] = "doomed" /\ SettleAs(w, "cancelled")

(* begin_send: the alert is committed to a message built from this very    *)
(* row, or the cycle ends.                                                 *)
BeginSend(w) ==
    /\ pc[w] = "ready"
    /\ IF Valid(w) THEN /\ state' = [state EXCEPT ![job[w]] = "sending"]
                        /\ Goto(w, "sending") /\ UNCHANGED job
       ELSE UNCHANGED state /\ Idle(w)
    /\ UNCHANGED <<now, watches, nextId, dm, columns, matches, accepted, latest>>

(* POST of the message: delivered or not, and what the sender learns.      *)
Post(w) ==
    /\ pc[w] = "sending"
    /\ \/ /\ \E step \in {"acked", "unknown"} : Goto(w, step)
          /\ accepted' = [accepted EXCEPT ![job[w]] = @ + 1]
       \/ /\ \E step \in Unsent \union {"unknown"} : Goto(w, step)
          /\ UNCHANGED accepted
    /\ UNCHANGED <<now, watches, nextId, dm, alertVars, job, latest>>

SettleSent(w) == SettleAs(w, IF pc[w] = "acked" THEN "sent" ELSE "review")
Settle(w) ==
    \/ pc[w] \in {"acked", "unknown"} /\ SettleSent(w)
    \/ pc[w] \in {"limited", "unsent"} /\ RetryLater(w)
    \/ pc[w] = "rejected" /\ SettleAs(w, "failed")

(* A refused destination pauses the member first, in its own transaction.  *)
Pause(w) ==
    /\ pc[w] \in {"missing", "forbidden"}
    /\ dm' = [dm EXCEPT ![job[w][1]] = IF pc[w] = "missing" THEN "needs_test" ELSE "blocked"]
    /\ Goto(w, "rejected")
    /\ UNCHANGED <<now, watches, nextId, alertVars, job, accepted, latest>>

(* The process dies, or the database refuses this and the recovery write.  *)
Abandon(w) == /\ pc[w] # "idle" /\ Idle(w)
              /\ UNCHANGED <<now, watches, nextId, dm, alertVars, accepted, latest>>

Tick == /\ now < MAX_TIME /\ now' = now + 1
        /\ UNCHANGED <<watches, nextId, dm, alertVars, workVars, accepted, latest>>

SenderStep(w) == \/ Claim(w) \/ CheckMember(w) \/ Validate(w) \/ Doom(w) \/ BeginSend(w)
                 \/ Post(w) \/ Settle(w) \/ Pause(w)
MemberStep ==
    \/ \E u \in Users, q \in Queries : AddWatch(u, q)
    \/ \E id \in Watches, q \in Queries : EditWatch(id, q)
    \/ \E id \in Watches : DeleteWatch(id)
    \/ \E u \in Users, s \in {"ready", "blocked"} : TestDm(u, s)
    \/ \E u \in Users : Revoke(u)
(* Bound: nothing is observed so late that its alert outlives the clock.   *)
Intake == /\ now + ALERT_LIFETIME + LEASE <= MAX_TIME
          /\ \E i \in Items, f \in Facets \union {NoFacet}, seed \in BOOLEAN : Observe(i, f, seed)

Next == \/ Tick \/ MemberStep \/ Intake
        \/ \E w \in Workers : SenderStep(w) \/ Abandon(w)
Spec == Init /\ [][Next]_vars
(* A running sender keeps cycling and its calls return (they time out).    *)
FairSpec == Spec /\ WF_vars(Tick) /\ \A w \in Workers : WF_vars(SenderStep(w))

-----------------------------------------------------------------------------
(* Properties                                                              *)

Undelivered == {"absent"} \union Live \union Rearmable

(* "These states are definitely unsent ... sent, sending and review remain *)
(* protected permanently against an unknown duplicate DM" (match_requests):*)
(* whatever crashes, leases and late answers do, a state that may be sent  *)
(* (again) hides no delivered message, "sent" one, and no member gets two  *)
(* messages about one product.                                             *)
AlertsTellTheTruth ==
    \A a \in Alerts : /\ state[a] \in Undelivered => accepted[a] = 0
                      /\ state[a] = "sent" => accepted[a] = 1
                      /\ accepted[a] <= 1

(* A sender past begin_send is the only one that can settle its alert, and *)
(* it knows whether the message can still be, or has been, delivered; one  *)
(* before begin_send never holds an alert that may have been delivered.    *)
SenderKnows ==
    \A w \in Workers : LET a == job[w] IN
        /\ pc[w] # "idle" => a \in Alerts
        /\ pc[w] \in Early /\ token[a] = w => state[a] # "sending"
        /\ pc[w] \in Late => token[a] = w /\ state[a] \in {"sending", "review"}
        /\ pc[w] \in {"sending"} \union Unsent => accepted[a] = 0
        /\ pc[w] = "acked" => accepted[a] = 1

(* The inductive invariant of the proofs.                                  *)
AlertInvariant == TypeInvariant /\ AlertsTellTheTruth /\ SenderKnows

(* "Commit possible submission and return its exact validated snapshot"    *)
(* (begin_send): the message commits only while the member wants the       *)
(* product it describes, by a watch not changed since that observation.    *)
CommittedForCurrentWatch ==
    [][\A a \in Alerts : state[a] = "leased" /\ state'[a] = "sending" =>
          /\ dm[a[1]] = "ready"
          /\ \E id \in Owned(a[1]) : /\ <<a[2], facet[a]>> \in Wants[watches[id].query]
                                     /\ watches[id].updated <= observed[a]]_vars

(* "The latest observed value must still meet the minimum immediately      *)
(* before a queued alert is submitted" (discord_bridge/README.md): some    *)
(* watch wants the latest observation of the product when an alert commits.*)
LatestStillWanted ==
    [][\A a \in Alerts : state[a] = "leased" /\ state'[a] = "sending" =>
          \E id \in Owned(a[1]) : <<a[2], latest[a[2]]>> \in Wants[watches[id].query]]_vars

(* While a sender runs, no alert waits forever: it is sent, refused, held  *)
(* for review, cancelled or expired, even for a member whose messages are  *)
(* paused and across interrupted sends.                                    *)
EveryAlertSettles ==
    \A a \in Alerts : state[a] \in Live \union {"sending"} ~>
                         state[a] \notin Live \union {"sending"}
=============================================================================
