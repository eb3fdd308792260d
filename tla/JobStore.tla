------------------------------ MODULE JobStore ------------------------------
(***************************************************************************)
(* The durable delivery queue of the Discord bridge                        *)
(* (discord_bridge/core.py, class JobStore): the SQLite tables and the     *)
(* transactions on them.  Every operation runs under BEGIN IMMEDIATE and   *)
(* is one atomic action here; its clock reading is the model's clock `now'.*)
(* Delivery.tla composes these operations with the threads that call them. *)
(*                                                                         *)
(* A job is a pair <<item, route>> (UNIQUE(item_id, route) in the schema). *)
(* A dispatch envelope is identified by its set of members: the code's id  *)
(* hashes the ordered member ids, so two equal sets are at most fewer ids  *)
(* than the code has.  {} stands for a NULL batch_id.                      *)
(***************************************************************************)
EXTENDS Observations, Integers, FiniteSets

CONSTANTS
    Items,              \* catalogue items
    Routes,             \* the feeds this instance follows
    Tokens,             \* lease tokens (secrets.token_hex)
    NoToken, NoObs,
    JOB_LIFETIME,       \* JOB_LIFETIME_SECONDS: a paid job, from first intake
    FREE_DELAY,         \* FREE_DELAY_SECONDS: hold of a history snapshot
    FREE_LIFETIME,      \* FREE_JOB_LIFETIME_SECONDS: catch-up after the hold
    LEASE,              \* 60 s lease of a claim
    COHORT,             \* 60 s: jobs this close to expiry are batched apart
    PAID_SIZE,          \* 10 items in a paid envelope
    FREE_SIZE,          \* the 5 that caps a Free envelope, a claim for "any"
                        \* audience and the limit learned from a 413
    LegacyJobs,         \* attempted rows of an older schema, migrated
    LegacyObs           \* the payload those rows were stored with

Jobs       == Items \X Routes
Item(j)    == j[1]
Route(j)   == j[2]
Dispatches == SUBSET Jobs
Live       == {"pending", "leased"}
(* "unmatched" is 'skipped' with reason observation_no_longer_matches, the *)
(* only reason any transaction reads back.                                 *)
JobStates  == {"absent", "pending", "leased", "sent", "failed", "expired",
               "skipped", "unmatched"}
DispatchStates == {"none", "pending", "leased", "sent", "failed", "skipped",
                   "rejected_413"}

ASSUME StoreConstants ==
    /\ Routes \subseteq AllRoutes
    /\ IsFiniteSet(Items) /\ IsFiniteSet(Routes)
    /\ NoToken \notin Tokens
    /\ NoObs \notin Observation
    /\ JOB_LIFETIME \in Nat \ {0} /\ FREE_LIFETIME \in Nat \ {0}
    /\ FREE_DELAY \in Nat /\ LEASE \in Nat \ {0} /\ COHORT \in Nat
    /\ PAID_SIZE \in Nat \ {0} /\ FREE_SIZE \in Nat \ {0}
    /\ FREE_SIZE <= PAID_SIZE
    /\ LegacyJobs \subseteq Jobs /\ LegacyObs \in Observation

VARIABLES
    now,                                    \* wall clock
    obs, firstSeen, seeded,                 \* items, seeded_items
    state, born, nextAttempt, batch, token, leaseUntil, attempts,     \* jobs
    dstate, uncertain,                      \* dispatches
    maxItems,                               \* route_payload_limits
    gate, globalGate,                       \* delivery_gates
    waited      \* route_turns: <<r, s>> when r's last claim precedes s's

itemVars == <<obs, firstSeen, seeded>>
jobVars  == <<state, born, nextAttempt, batch, token, leaseUntil, attempts>>
gateVars == <<gate, globalGate>>
storeVars == <<itemVars, jobVars, dstate, uncertain, maxItems, gateVars, waited>>

TypeOK ==
    /\ now \in Nat
    /\ obs \in [Items -> Observation \union {NoObs}]
    /\ firstSeen \in [Items -> Nat]
    /\ seeded \subseteq Items
    /\ state \in [Jobs -> JobStates]
    /\ born \in [Jobs -> Nat]
    /\ nextAttempt \in [Jobs -> Nat]
    /\ batch \in [Jobs -> Dispatches]
    /\ token \in [Jobs -> Tokens \union {NoToken}]
    /\ leaseUntil \in [Jobs -> Nat]
    /\ attempts \in [Jobs -> Nat]
    /\ dstate \in [Dispatches -> DispatchStates]
    /\ uncertain \subseteq Dispatches
    /\ maxItems \in [Routes -> Nat]
    /\ gate \in [Routes -> Nat] /\ globalGate \in Nat
    /\ waited \subseteq Routes \X Routes

(* A new database, or one whose attempted single sends were migrated: such *)
(* a row is bound to its own id and has no envelope row yet.               *)
Init ==
    /\ now = 0
    /\ obs = [i \in Items |->
                IF \E j \in LegacyJobs : Item(j) = i THEN LegacyObs ELSE NoObs]
    /\ firstSeen = [i \in Items |-> 0]
    /\ seeded = {}
    /\ state = [j \in Jobs |-> IF j \in LegacyJobs THEN "pending" ELSE "absent"]
    /\ born = [j \in Jobs |-> 0]
    /\ nextAttempt = [j \in Jobs |-> 0]
    /\ batch = [j \in Jobs |-> IF j \in LegacyJobs THEN {j} ELSE {}]
    /\ token = [j \in Jobs |-> NoToken]
    /\ leaseUntil = [j \in Jobs |-> 0]
    /\ attempts = [j \in Jobs |-> IF j \in LegacyJobs THEN 1 ELSE 0]
    /\ dstate = [d \in Dispatches |-> "none"]
    /\ uncertain = {}
    /\ maxItems = [r \in Routes |-> PAID_SIZE]
    /\ gate = [r \in Routes |-> 0] /\ globalGate = 0
    /\ waited = {}

-----------------------------------------------------------------------------
(* Reading the tables                                                      *)

(* `due' and `expires': `born' is the first intake for a paid job, the     *)
(* capture of the frozen snapshot for a history job.                       *)
Due(j) == IF Route(j) = FreeRoute THEN born[j] + FREE_DELAY ELSE born[j]
Expires(j) == Due(j) + (IF Route(j) = FreeRoute THEN FREE_LIFETIME ELSE JOB_LIFETIME)

Stale(j)  == state[j] \in Live /\ Expires(j) <= now
Open(j)   == state[j] \in Live /\ Expires(j) > now
(* Mutation: the sweep forgets rows a lost worker left leased.             *)
SweptPending == [j \in Jobs |->
                    IF Stale(j) /\ state[j] = "pending" THEN "expired" ELSE state[j]]
Swept     == [j \in Jobs |-> IF Stale(j) THEN "expired" ELSE state[j]]

(* A paid job is routed by the item's latest payload, a history job by its *)
(* own snapshot, which always feeds the history channel.                   *)
Matches(j) == Route(j) = FreeRoute
                \/ (obs[Item(j)] # NoObs /\ Route(j) \in route_keys(obs[Item(j)]))
Eligible(j) == Open(j) /\ Matches(j) /\ Item(j) \notin seeded

Rows(d)   == {j \in Jobs : batch[j] = d}
InAudience(j, aud) == CASE aud = "paid" -> Route(j) # FreeRoute
                        [] aud = "free" -> Route(j) = FreeRoute
                        [] OTHER -> TRUE
(* Mutation: a claim ignores the leases of other envelopes.                *)
NeverBusy(r) == FALSE
(* Some unexpired lease occupies the route.                                *)
Busy(r)   == \E k \in Jobs : /\ Route(k) = r /\ Open(k)
                             /\ state[k] = "leased" /\ leaseUntil[k] > now
(* A pending member of the same envelope is still backing off.             *)
SiblingWaits(j) == batch[j] # {} /\ \E k \in Rows(batch[j]) :
                        Open(k) /\ state[k] = "pending" /\ nextAttempt[k] > now
Reclaimable(j) == state[j] = "pending" \/ leaseUntil[j] <= now

(* The selection of claim_batch, after its sweep of stale rows.            *)
Candidates(aud, excluded) ==
    IF globalGate > now THEN {}
    ELSE {j \in Jobs : /\ Open(j) /\ Reclaimable(j)
                       /\ Due(j) <= now /\ nextAttempt[j] <= now
                       /\ gate[Route(j)] <= now /\ ~Busy(Route(j))
                       /\ ~SiblingWaits(j)
                       /\ Route(j) \notin excluded /\ InAudience(j, aud)}

(* Jobs the ORDER BY may put first in C: history last; the fair slot takes *)
(* the route that has waited longest and its oldest job, a priority slot   *)
(* orders by observed value, which is any order here.                      *)
First(C, fair) ==
    LET paid == {j \in C : Route(j) # FreeRoute}
        pool == IF paid = {} THEN C ELSE paid
    IN  {j \in pool : fair => \A k \in pool :
            /\ <<Route(k), Route(j)>> \notin waited
            /\ <<Route(j), Route(k)>> \in waited \/ Due(j) <= Due(k)}

(* Untried ready jobs of the same route and expiry cohort.                 *)
Fillable(j) ==
    {k \in Jobs : /\ Route(k) = Route(j) /\ batch[k] = {} /\ attempts[k] = 0
                  /\ state[k] = "pending" /\ Open(k)
                  /\ Due(k) <= now /\ nextAttempt[k] <= now
                  /\ (Expires(k) <= now + COHORT) = (Expires(j) <= now + COHORT)}

SizeLimit(r, size) ==
    LET free == IF r = FreeRoute /\ size > FREE_SIZE THEN FREE_SIZE ELSE size
    IN  IF maxItems[r] < free THEN maxItems[r] ELSE free

(* Envelopes claim_batch may freeze for the unbound job j: value order and *)
(* the 10 KiB byte budget decide which of the ready jobs join it.          *)
NewEnvelopes(j, size) ==
    IF attempts[j] = 0
    THEN {{j} \union fill : fill \in
            {f \in SUBSET Fillable(j) :
                Cardinality({j} \union f) <= SizeLimit(Route(j), size)}}
    ELSE {{j}}

(* Mutation: a retried job is packed afresh.                               *)
EnvelopesAfresh(j, size) == NewEnvelopes(j, size) \union {{j}}
Envelopes(j, size) == IF batch[j] = {} THEN NewEnvelopes(j, size) \union {{j}}
                                       ELSE {batch[j]}

-----------------------------------------------------------------------------
(* Intake                                                                  *)

(* A job put aside only because its item stopped matching comes back.      *)
RearmedAnyhow(j) == state[j] \in {"skipped", "unmatched"} /\ Expires(j) > now   \* mutation: whatever put it aside
Rearmable(j) == state[j] = "unmatched" /\ batch[j] = {} /\ Expires(j) > now

(* Mutation: seeding overlooks the jobs a worker holds.                    *)
SilencePending(j) == state[j] = "pending"
Silenced(j) == state[j] \in Live

(* record: one item of a reported list.  The code records the list in one  *)
(* transaction; doing so item by item only adds intermediate states.       *)
Record(i, o, seed_only) ==
    LET first    == IF obs[i] = NoObs THEN now ELSE firstSeen[i]
        routed   == IF seed_only \/ i \in seeded THEN {}
                    ELSE {j \in Jobs : Item(j) = i /\ Route(j) \in route_keys(o)}
        inserted == {j \in routed : state[j] = "absent"}
        rearmed  == {j \in routed : Rearmable(j)}
        silenced == {j \in Jobs : seed_only /\ Item(j) = i /\ Silenced(j)}
        born2    == [j \in Jobs |->
                        IF j \notin inserted THEN born[j]
                        ELSE IF Route(j) = FreeRoute THEN now ELSE first]
    IN  /\ obs' = [obs EXCEPT ![i] = o]
        /\ firstSeen' = [firstSeen EXCEPT ![i] = first]
        /\ seeded' = IF seed_only THEN seeded \union {i} ELSE seeded
        /\ born' = born2
        /\ state' = [j \in Jobs |-> IF j \in silenced THEN "skipped"
                                    ELSE IF j \in inserted \union rearmed THEN "pending"
                                    ELSE state[j]]
        /\ nextAttempt' = [j \in Jobs |->
                IF j \notin inserted \union rearmed THEN nextAttempt[j]
                ELSE IF Route(j) = FreeRoute THEN born2[j] + FREE_DELAY ELSE born2[j]]
        /\ UNCHANGED <<now, batch, token, leaseUntil, attempts, dstate, uncertain,
                       maxItems, gateVars, waited>>

-----------------------------------------------------------------------------
(* Scheduling                                                              *)

(* has_due: retire stale rows, then look for a row worth a delivery pass.  *)
Sweep == /\ state' = Swept
         /\ UNCHANGED <<now, itemVars, born, nextAttempt, batch, token, leaseUntil,
                        attempts, dstate, uncertain, maxItems, gateVars, waited>>
HasDue == \E j \in Jobs : Open(j) /\ Reclaimable(j) /\ Due(j) <= now /\ nextAttempt[j] <= now

(* has_due_paid ignores back-off: a paid retry also holds history back.    *)
HasDuePaid == \E j \in Jobs : Open(j) /\ Due(j) <= now /\ Route(j) # FreeRoute

(* The wake-up next_due_in computes for a job, the latest of its times,    *)
(* has come: no lease on its route is running and the route is not gated.  *)
AwakeUngated(j) ==      \* mutation: without the cooldown of the route
    /\ Due(j) <= now /\ nextAttempt[j] <= now
    /\ \A k \in Jobs : Route(k) = Route(j) /\ state[k] = "leased" => leaseUntil[k] <= now
Awake(j) ==
    /\ Due(j) <= now /\ nextAttempt[j] <= now /\ gate[Route(j)] <= now
    /\ \A k \in Jobs : Route(k) = Route(j) /\ state[k] = "leased" => leaseUntil[k] <= now

(* next_due_in = 0: the delivery loop need not sleep.                      *)
DueNow(aud) == /\ globalGate <= now
               /\ \E j \in Jobs : Open(j) /\ InAudience(j, aud) /\ Awake(j)

(* Mutation: recovering a lease does not mark the envelope uncertain.      *)
RecoveredLegacy(d) == \E k \in d : batch[k] = d /\ dstate[d] = "none"
(* An envelope bound before: a legacy send, or one whose last holder lost  *)
(* its lease with the fate of its POST unknown.                            *)
Recovered(d) == \E k \in d : batch[k] = d /\ (dstate[d] = "none" \/ state[k] = "leased")

(* The members of d become leased under t; candidates in `gone' were found *)
(* invalid on the way and are retired in the same transaction.             *)
Reserve(d, t, gone) ==
    LET cancelled == {k \in Jobs : batch[k] # {} /\ Open(k)
                                    /\ \E j \in gone : batch[j] = batch[k]}
        unmatched == {k \in gone : batch[k] = {} /\ ~Matches(k)}
        claimed   == {Route(k) : k \in d}
    IN  /\ state' = [k \in Jobs |-> IF k \in d THEN "leased"
                                    ELSE IF k \in cancelled THEN "skipped"
                                    ELSE IF k \in unmatched THEN "unmatched"
                                    ELSE Swept[k]]
        /\ batch' = [k \in Jobs |-> IF k \in d THEN d ELSE batch[k]]
        /\ token' = [k \in Jobs |-> IF k \in d THEN t
                                    ELSE IF k \in cancelled THEN NoToken ELSE token[k]]
        /\ leaseUntil' = [k \in Jobs |-> IF k \in d THEN now + LEASE
                                         ELSE IF k \in cancelled THEN 0 ELSE leaseUntil[k]]
        /\ attempts' = [k \in Jobs |-> IF k \in d THEN attempts[k] + 1 ELSE attempts[k]]
        /\ dstate' = [e \in Dispatches |->
                IF e # {} /\ e = d THEN "leased"
                ELSE IF dstate[e] # "none" /\ \E j \in gone : batch[j] # {} /\ batch[j] = e
                THEN "skipped" ELSE dstate[e]]
        /\ uncertain' = IF Recovered(d) THEN uncertain \union {d} ELSE uncertain
        /\ waited' = {p \in waited : p[1] \notin claimed}
                        \union ((Routes \ claimed) \X claimed)
        /\ UNCHANGED <<now, itemVars, born, nextAttempt, maxItems, gateVars>>

(* claim_batch: d = {} when it returns None.                               *)
ClaimBatch(aud, size, fair, excluded, d, t) ==
    LET C   == Candidates(aud, excluded)
        bad == {j \in C : ~ \A k \in (IF batch[j] = {} THEN {j} ELSE batch[j]) : Eligible(k)}
    IN  \E gone \in SUBSET bad :
            /\ IF d = {} THEN C = bad /\ gone = bad
               ELSE \E j \in First(C \ gone, fair) :
                        /\ d \in Envelopes(j, size)
                        /\ \A k \in d : Eligible(k)
            /\ Reserve(d, t, gone)

-----------------------------------------------------------------------------
(* Settling a claim: d and t are the envelope and lease token a worker holds *)

Fenced(d, t) == \E j \in Rows(d) : state[j] = "leased" /\ token[j] # t
Owned(d, t)  == Rows(d) = d /\ \A j \in d : state[j] = "leased" /\ token[j] = t

Unlease(S) == /\ token' = [j \in Jobs |-> IF j \in S THEN NoToken ELSE token[j]]
              /\ leaseUntil' = [j \in Jobs |-> IF j \in S THEN 0 ELSE leaseUntil[j]]

SetDispatch(d, st) == dstate' = [dstate EXCEPT ![d] = IF @ = "none" THEN @ ELSE st]

(* _cancel_dispatch(token=t)                                               *)
CancelDispatch(d, t) ==
    LET hit == {j \in Rows(d) : state[j] \in Live /\ token[j] = t}
    IN  /\ state' = [j \in Jobs |-> IF j \in hit THEN "skipped" ELSE state[j]]
        /\ Unlease(hit)
        /\ SetDispatch(d, "skipped")
        /\ UNCHANGED <<now, itemVars, born, nextAttempt, batch, attempts, uncertain,
                       maxItems, gateVars, waited>>

(* _owned_batch: a foreign lease is left alone, a changed envelope is      *)
(* cancelled, and only the sole owner of every member gets Effect.         *)
IfOwned(d, t, Effect) ==
    \/ Fenced(d, t) /\ UNCHANGED <<now, storeVars>>
    \/ ~Fenced(d, t) /\ ~Owned(d, t) /\ CancelDispatch(d, t)
    \/ Owned(d, t) /\ Effect

(* validate_dispatch, returning ok.                                        *)
ValidateDispatch(d, t, ok) ==
    LET valid == Owned(d, t) /\ \A j \in d : Eligible(j)
    IN  /\ ok = valid
        /\ IF valid THEN UNCHANGED <<now, storeVars>>
                    ELSE IfOwned(d, t, CancelDispatch(d, t))

(* finish_batch                                                            *)
Finished(d, st) ==
    /\ state' = [j \in Jobs |-> IF j \in d THEN st ELSE state[j]]
    /\ Unlease(d)
    /\ SetDispatch(d, st)
    /\ UNCHANGED <<now, itemVars, born, nextAttempt, batch, attempts, uncertain,
                   maxItems, gateVars, waited>>
FinishBatch(d, t, st) == IfOwned(d, t, Finished(d, st))

(* retry_batch                                                             *)
Requeued(d, delay, count_attempt, ambiguous) ==
    /\ state' = [j \in Jobs |-> IF j \in d THEN "pending" ELSE state[j]]
    /\ nextAttempt' = [j \in Jobs |-> IF j \in d THEN now + delay ELSE nextAttempt[j]]
    /\ attempts' = [j \in Jobs |-> IF j \in d /\ ~count_attempt /\ attempts[j] > 0
                                   THEN attempts[j] - 1 ELSE attempts[j]]
    /\ Unlease(d)
    /\ SetDispatch(d, "pending")
    /\ uncertain' = IF ambiguous THEN uncertain \union {d} ELSE uncertain
    /\ UNCHANGED <<now, itemVars, born, batch, maxItems, gateVars, waited>>
RetryBatch(d, t, delay, count_attempt, ambiguous) ==
    IfOwned(d, t, Requeued(d, delay, count_attempt, ambiguous))

(* split_rejected_batch: after a definitive 413.                           *)
HoldForReview(d) ==
    /\ state' = [j \in Jobs |-> IF j \in d THEN "pending" ELSE state[j]]
    /\ nextAttempt' = [j \in Jobs |-> IF j \in d THEN Expires(j) ELSE nextAttempt[j]]
    /\ Unlease(d)
    /\ SetDispatch(d, "pending")
    /\ UNCHANGED <<now, itemVars, born, batch, attempts, uncertain, maxItems,
                   gateVars, waited>>

SplitLimit(n) == IF n \div 2 < FREE_SIZE THEN n \div 2 ELSE FREE_SIZE

Repack(d) ==
    /\ state' = [j \in Jobs |-> IF j \in d THEN "pending" ELSE state[j]]
    /\ batch' = [j \in Jobs |-> IF j \in d THEN {} ELSE batch[j]]
    /\ attempts' = [j \in Jobs |-> IF j \in d THEN 0 ELSE attempts[j]]
    /\ nextAttempt' = [j \in Jobs |-> IF j \in d THEN now ELSE nextAttempt[j]]
    /\ Unlease(d)
    /\ SetDispatch(d, "rejected_413")
    /\ maxItems' = [r \in Routes |->
            LET n == SplitLimit(Cardinality(d))
            IN  IF r \in {Route(j) : j \in d} /\ n < maxItems[r] THEN n ELSE maxItems[r]]
    /\ UNCHANGED <<now, itemVars, born, uncertain, gateVars, waited>>

(* Mutation: a definitive 413 always authorizes repacking.                 *)
NeverHold(d) == dstate[d] = "none"
MustHold(d) == d \in uncertain \/ dstate[d] = "none"

SplitRejected(d, t) ==
    IfOwned(d, t,
        IF ~ \A j \in d : Eligible(j) THEN CancelDispatch(d, t)
        ELSE IF MustHold(d) THEN HoldForReview(d)
        ELSE IF Cardinality(d) = 1 THEN Finished(d, "failed")
        ELSE Repack(d))

-----------------------------------------------------------------------------
(* Cooldowns: MAX upserts of delivery_gates                                *)

DeferGlobal(until) ==
    /\ globalGate' = IF until > globalGate THEN until ELSE globalGate
    /\ UNCHANGED <<now, itemVars, jobVars, dstate, uncertain, maxItems, gate, waited>>
DeferRoute(r, until) ==
    /\ gate' = [gate EXCEPT ![r] = IF until > @ THEN until ELSE @]
    /\ UNCHANGED <<now, itemVars, jobVars, dstate, uncertain, maxItems, globalGate, waited>>

=============================================================================
