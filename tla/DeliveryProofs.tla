--------------------------- MODULE DeliveryProofs ---------------------------
(***************************************************************************)
(* Machine-checked theorems about the delivery loop (Delivery.tla), for    *)
(* every set of items, feeds, services and tokens and every time bound:    *)
(* the nonce invariant first, and then what follows from it, that the      *)
(* delivery implements Feed and that the queue keeps its leases, its       *)
(* silence, its schedule and its nonces.                                   *)
(***************************************************************************)
EXTENDS Delivery, FiniteSetTheorems, TLAPS

-----------------------------------------------------------------------------
(* Types                                                                   *)

(* Due times are natural numbers.                                          *)
LEMMA DueType ==
    ASSUME TypeOK, NEW j \in Jobs
    PROVE  Due(j) \in Nat /\ Expires(j) \in Nat
BY StoreConstants DEF TypeOK, Due, Expires

(* The feed of a job is one of the feeds.                                  *)
LEMMA RouteType ==
    ASSUME NEW j \in Jobs
    PROVE  Route(j) \in Routes /\ Item(j) \in Items
BY DEF Jobs, Route, Item

(* A new or migrated database is well typed.                               *)
LEMMA InitType == Init => TypeOK
<1> SUFFICES ASSUME Init PROVE TypeOK OBVIOUS
<1>1. batch \in [Jobs -> Dispatches]
  BY DEF Init, Dispatches
<1>2. obs \in [Items -> Observation \union {NoObs}]
  BY StoreConstants DEF Init
<1>3. state \in [Jobs -> JobStates] /\ dstate \in [Dispatches -> DispatchStates]
  BY DEF Init, JobStates, DispatchStates
<1>4. maxItems \in [Routes -> Nat]
  BY StoreConstants DEF Init
<1> QED BY <1>1, <1>2, <1>3, <1>4 DEF Init, TypeOK

(* Recording an observation (record) keeps the types.                      *)
LEMMA RecordType ==
    ASSUME TypeOK, NEW i \in Items, NEW o \in Observation, NEW seed_only \in BOOLEAN,
           Record(i, o, seed_only)
    PROVE  TypeOK'
<1>1. born' \in [Jobs -> Nat]
  BY DEF Record, TypeOK
<1>2. nextAttempt' \in [Jobs -> Nat]
  BY <1>1, StoreConstants DEF Record, TypeOK
<1>3. state' \in [Jobs -> JobStates]
  BY DEF Record, TypeOK, JobStates
<1>4. obs' \in [Items -> Observation \union {NoObs}] /\ firstSeen' \in [Items -> Nat]
  BY DEF Record, TypeOK
<1> QED BY <1>1, <1>2, <1>3, <1>4 DEF Record, TypeOK, gateVars

(* Retiring stale rows keeps the types.                                    *)
LEMMA SweepType ==
    ASSUME TypeOK, Sweep PROVE TypeOK'
<1>1. state' \in [Jobs -> JobStates]
  BY DEF Sweep, Swept, TypeOK, JobStates
<1> QED BY <1>1 DEF Sweep, TypeOK, gateVars, itemVars

(* Reserving an envelope (end of claim_batch) keeps the types.             *)
LEMMA ReserveType ==
    ASSUME TypeOK, NEW d \in Dispatches, NEW t \in Tokens \union {NoToken},
           NEW gone \in SUBSET Jobs, Reserve(d, t, gone)
    PROVE  TypeOK'
<1>1. state' \in [Jobs -> JobStates]
  BY DEF Reserve, Swept, TypeOK, JobStates
<1>2. batch' \in [Jobs -> Dispatches] /\ token' \in [Jobs -> Tokens \union {NoToken}]
  BY DEF Reserve, TypeOK
<1>3. leaseUntil' \in [Jobs -> Nat] /\ attempts' \in [Jobs -> Nat]
  BY StoreConstants DEF Reserve, TypeOK
<1>4. dstate' \in [Dispatches -> DispatchStates]
  BY DEF Reserve, TypeOK, DispatchStates
<1>5. uncertain' \subseteq Dispatches
  BY DEF Reserve, TypeOK
<1>6. waited' \subseteq Routes \X Routes
  <2>1. \A k \in d : Route(k) \in Routes
    BY RouteType DEF Dispatches
  <2> QED BY <2>1 DEF Reserve, TypeOK
<1> QED BY <1>1, <1>2, <1>3, <1>4, <1>5, <1>6 DEF Reserve, TypeOK, gateVars, itemVars

(* Clearing leases keeps tokens and lease times typed.                     *)
LEMMA UnleaseType ==
    ASSUME TypeOK, NEW S, Unlease(S)
    PROVE  token' \in [Jobs -> Tokens \union {NoToken}] /\ leaseUntil' \in [Jobs -> Nat]
BY DEF Unlease, TypeOK

(* Updating an envelope row keeps the envelope table typed.                *)
LEMMA SetDispatchType ==
    ASSUME TypeOK, NEW d, NEW st \in DispatchStates, SetDispatch(d, st)
    PROVE  dstate' \in [Dispatches -> DispatchStates]
BY DEF SetDispatch, TypeOK

(* _cancel_dispatch keeps the types.                                       *)
LEMMA CancelType ==
    ASSUME TypeOK, NEW d \in Dispatches, NEW t, CancelDispatch(d, t)
    PROVE  TypeOK'
<1>1. state' \in [Jobs -> JobStates]
  BY DEF CancelDispatch, TypeOK, JobStates
<1>2. dstate' \in [Dispatches -> DispatchStates]
  BY SetDispatchType DEF CancelDispatch, DispatchStates
<1>3. token' \in [Jobs -> Tokens \union {NoToken}] /\ leaseUntil' \in [Jobs -> Nat]
  BY UnleaseType DEF CancelDispatch
<1> QED BY <1>1, <1>2, <1>3 DEF CancelDispatch, TypeOK, gateVars, itemVars

(* The update of finish_batch keeps the types.                             *)
LEMMA FinishedType ==
    ASSUME TypeOK, NEW d \in Dispatches,
           NEW st \in JobStates \intersect DispatchStates, Finished(d, st)
    PROVE  TypeOK'
<1>1. state' \in [Jobs -> JobStates]
  BY DEF Finished, TypeOK
<1>2. dstate' \in [Dispatches -> DispatchStates]
  BY SetDispatchType DEF Finished
<1>3. token' \in [Jobs -> Tokens \union {NoToken}] /\ leaseUntil' \in [Jobs -> Nat]
  BY UnleaseType DEF Finished
<1> QED BY <1>1, <1>2, <1>3 DEF Finished, TypeOK, gateVars, itemVars

(* The update of retry_batch keeps the types.                              *)
LEMMA RequeuedType ==
    ASSUME TypeOK, NEW d \in Dispatches, NEW delay \in Nat, NEW c, NEW a,
           Requeued(d, delay, c, a)
    PROVE  TypeOK'
<1>1. state' \in [Jobs -> JobStates]
  BY DEF Requeued, TypeOK, JobStates
<1>2. dstate' \in [Dispatches -> DispatchStates]
  BY SetDispatchType DEF Requeued, DispatchStates
<1>3. token' \in [Jobs -> Tokens \union {NoToken}] /\ leaseUntil' \in [Jobs -> Nat]
  BY UnleaseType DEF Requeued
<1>4. nextAttempt' \in [Jobs -> Nat] /\ attempts' \in [Jobs -> Nat]
  BY DEF Requeued, TypeOK
<1>5. uncertain' \subseteq Dispatches
  BY DEF Requeued, TypeOK
<1> QED BY <1>1, <1>2, <1>3, <1>4, <1>5 DEF Requeued, TypeOK, gateVars, itemVars

(* Holding an envelope after a 413 keeps the types.                        *)
LEMMA HoldType ==
    ASSUME TypeOK, NEW d \in Dispatches, HoldForReview(d)
    PROVE  TypeOK'
<1>1. state' \in [Jobs -> JobStates]
  BY DEF HoldForReview, TypeOK, JobStates
<1>2. dstate' \in [Dispatches -> DispatchStates]
  BY SetDispatchType DEF HoldForReview, DispatchStates
<1>3. token' \in [Jobs -> Tokens \union {NoToken}] /\ leaseUntil' \in [Jobs -> Nat]
  BY UnleaseType DEF HoldForReview
<1>4. nextAttempt' \in [Jobs -> Nat]
  BY DueType DEF HoldForReview, TypeOK
<1> QED BY <1>1, <1>2, <1>3, <1>4 DEF HoldForReview, TypeOK, gateVars, itemVars

(* Envelopes are finite: items and feeds are.                              *)
LEMMA FiniteDispatch ==
    ASSUME NEW d \in Dispatches
    PROVE  IsFiniteSet(d) /\ Cardinality(d) \in Nat
BY StoreConstants, FS_Product, FS_Subset, FS_CardinalityType DEF Dispatches, Jobs

(* The limit learned from a 413 is a number of items.                      *)
LEMMA SplitLimitType ==
    ASSUME NEW n \in Nat \ {0, 1}
    PROVE  SplitLimit(n) \in Nat \ {0} /\ SplitLimit(n) < n
<1>1. n \div 2 \in Nat \ {0} /\ n \div 2 < n
  OBVIOUS
<1> QED BY <1>1, StoreConstants DEF SplitLimit

(* Freeing a refused envelope keeps the types.                             *)
LEMMA RepackType ==
    ASSUME TypeOK, NEW d \in Dispatches, d # {}, Cardinality(d) # 1, Repack(d)
    PROVE  TypeOK'
<1>1. state' \in [Jobs -> JobStates] /\ batch' \in [Jobs -> Dispatches]
  BY DEF Repack, TypeOK, JobStates, Dispatches
<1>2. dstate' \in [Dispatches -> DispatchStates]
  BY SetDispatchType DEF Repack, DispatchStates
<1>3. token' \in [Jobs -> Tokens \union {NoToken}] /\ leaseUntil' \in [Jobs -> Nat]
  BY UnleaseType DEF Repack
<1>4. nextAttempt' \in [Jobs -> Nat] /\ attempts' \in [Jobs -> Nat]
  BY DEF Repack, TypeOK
<1>5. SplitLimit(Cardinality(d)) \in Nat
  BY FiniteDispatch, FS_EmptySet, SplitLimitType
<1>6. maxItems' \in [Routes -> Nat]
  BY <1>5 DEF Repack, TypeOK
<1> QED BY <1>1, <1>2, <1>3, <1>4, <1>6 DEF Repack, TypeOK, gateVars, itemVars

(* A transaction that changes nothing keeps the types.                     *)
LEMMA StoreUnchangedType ==
    ASSUME TypeOK, UNCHANGED <<now, storeVars>>
    PROVE  TypeOK'
BY DEF TypeOK, storeVars, itemVars, jobVars, gateVars

(* claim_batch keeps the types.                                            *)
LEMMA ClaimType ==
    ASSUME TypeOK, NEW aud, NEW size, NEW fair, NEW excluded, NEW d \in Dispatches,
           NEW t \in Tokens \union {NoToken}, ClaimBatch(aud, size, fair, excluded, d, t)
    PROVE  TypeOK'
<1>1. PICK gone \in SUBSET Jobs : Reserve(d, t, gone)
  BY DEF ClaimBatch, Candidates
<1> QED BY <1>1, ReserveType

(* validate_dispatch keeps the types.                                      *)
LEMMA ValidateType ==
    ASSUME TypeOK, NEW d \in Dispatches, NEW t, NEW ok, ValidateDispatch(d, t, ok)
    PROVE  TypeOK'
BY StoreUnchangedType, CancelType DEF ValidateDispatch, IfOwned

(* finish_batch keeps the types.                                           *)
LEMMA FinishType ==
    ASSUME TypeOK, NEW d \in Dispatches, NEW t, NEW st \in {"sent", "failed"},
           FinishBatch(d, t, st)
    PROVE  TypeOK'
<1>1. st \in JobStates \intersect DispatchStates
  BY DEF JobStates, DispatchStates
<1> QED BY <1>1, StoreUnchangedType, CancelType, FinishedType DEF FinishBatch, IfOwned

(* retry_batch keeps the types.                                            *)
LEMMA RetryType ==
    ASSUME TypeOK, NEW d \in Dispatches, NEW t, NEW delay \in Nat, NEW c, NEW a,
           RetryBatch(d, t, delay, c, a)
    PROVE  TypeOK'
BY StoreUnchangedType, CancelType, RequeuedType DEF RetryBatch, IfOwned

(* split_rejected_batch keeps the types.                                   *)
LEMMA SplitType ==
    ASSUME TypeOK, NEW d \in Dispatches, d # {}, NEW t, SplitRejected(d, t)
    PROVE  TypeOK'
<1>1. "failed" \in JobStates \intersect DispatchStates
  BY DEF JobStates, DispatchStates
<1> QED BY <1>1, StoreUnchangedType, CancelType, FinishedType, HoldType, RepackType
        DEF SplitRejected, IfOwned

(* Raising the global gate keeps the types.                                *)
LEMMA DeferGlobalType ==
    ASSUME TypeOK, NEW until \in Nat, DeferGlobal(until)
    PROVE  TypeOK'
BY DEF DeferGlobal, TypeOK, itemVars, jobVars

(* Raising a feed's gate keeps the types.                                  *)
LEMMA DeferRouteType ==
    ASSUME TypeOK, NEW until \in Nat, NEW r \in Routes, DeferRoute(r, until)
    PROVE  TypeOK'
BY DEF DeferRoute, TypeOK, itemVars, jobVars

-----------------------------------------------------------------------------
(* Types of the services and workers                                       *)

(* A step of the store alone keeps the workers typed.                      *)
LEMMA DeliveryUnchangedType ==
    ASSUME DeliveryTypeOK, UNCHANGED deliveryVars
    PROVE  DeliveryTypeOK'
BY DEF DeliveryTypeOK, deliveryVars, serviceVars, workerVars, ghostVars

(* A closed wave is a wave.                                                *)
LEMMA NoWaveType ==
    NoWave \in [step : WaveSteps, filled : 0..CONCURRENCY,
                capacity : 0..CONCURRENCY, routes : SUBSET Routes]
BY DeliveryConstants DEF NoWave, WaveSteps

(* A worker is its service and slot.                                       *)
LEMMA WorkerOf ==
    ASSUME NEW w \in Workers
    PROVE  Service(w) \in Services
BY DEF Workers, Service

(* A worker that ends its task keeps the types.                            *)
LEMMA FinishWorkerType ==
    ASSUME DeliveryTypeOK, NEW w \in Workers, Finish(w)
    PROVE  DeliveryTypeOK'
<1>1. {} \in Dispatches
  BY DEF Dispatches
<1> QED BY <1>1 DEF DeliveryTypeOK, Finish, serviceVars, ghostVars

(* A process that dies keeps the types.                                    *)
LEMMA DieType ==
    ASSUME DeliveryTypeOK, NEW s \in Services, stops' \in Nat, Die(s)
    PROVE  DeliveryTypeOK'
<1>1. {} \in Dispatches
  BY DEF Dispatches
<1>2. exposed' \subseteq Dispatches
  BY DEF Die, DeliveryTypeOK
<1>3. wave' \in [Services -> [step : WaveSteps, filled : 0..CONCURRENCY,
                              capacity : 0..CONCURRENCY, routes : SUBSET Routes]]
  BY NoWaveType DEF Die, DeliveryTypeOK
<1> QED BY <1>1, <1>2, <1>3 DEF Die, DeliveryTypeOK

(* Filling a slot of a wave keeps the types.                               *)
LEMMA ClaimSlotType ==
    ASSUME TypeInvariant, NEW s \in Services, NEW st, NEW aud, NEW size, NEW fair,
           NEW nxt \in [step : WaveSteps, filled : 0..CONCURRENCY,
                        capacity : 0..CONCURRENCY, routes : SUBSET Routes],
           wave[s].filled < wave[s].capacity,
           ClaimSlot(s, st, aud, size, fair, nxt)
    PROVE  TypeInvariant'
<1> DEFINE n == wave[s].filled + 1
           w == <<s, n>>
<1>1. TypeOK /\ DeliveryTypeOK
  BY DEF TypeInvariant
<1>2. CASE /\ ClaimBatch(aud, size, fair, wave[s].routes, {}, NoToken)
           /\ wave' = [wave EXCEPT ![s] = nxt]
           /\ UNCHANGED workerVars
  <2>1. TypeOK'
    BY <1>1, <1>2, ClaimType DEF Dispatches
  <2>2. DeliveryTypeOK'
    BY <1>1, <1>2 DEF ClaimSlot, DeliveryTypeOK, workerVars, ghostVars
  <2> QED BY <2>1, <2>2 DEF TypeInvariant
<1>3. ASSUME NEW d \in Dispatches \ {{}}, NEW t \in Tokens,
             ClaimBatch(aud, size, fair, wave[s].routes, d, t),
             wave' = [wave EXCEPT ![s] =
                    IF n = wave[s].capacity THEN NoWave
                    ELSE [step |-> "paid", filled |-> n, capacity |-> wave[s].capacity,
                          routes |-> wave[s].routes \union {Route(j) : j \in d}]],
             phase' = [phase EXCEPT ![w] = "claimed"],
             held' = [held EXCEPT ![w] = d],
             lease' = [lease EXCEPT ![w] = t],
             UNCHANGED <<up, ghostVars, stops, auditLimits>>
      PROVE  TypeInvariant'
  <2>1. TypeOK'
    BY <1>1, <1>3, ClaimType
  <2>2. n \in 1..CONCURRENCY /\ wave[s].capacity \in 0..CONCURRENCY
    BY <1>1, DeliveryConstants DEF DeliveryTypeOK
  <2>3. wave[s].routes \union {Route(j) : j \in d} \subseteq Routes
    BY <1>1, RouteType DEF DeliveryTypeOK, Dispatches
  <2>4. wave' \in [Services -> [step : WaveSteps, filled : 0..CONCURRENCY,
                              capacity : 0..CONCURRENCY, routes : SUBSET Routes]]
    BY <1>1, <1>3, <2>2, <2>3, NoWaveType DEF DeliveryTypeOK, WaveSteps
  <2>5. DeliveryTypeOK'
    BY <1>1, <1>3, <2>2, <2>4 DEF DeliveryTypeOK, ghostVars
  <2> QED BY <2>1, <2>5 DEF TypeInvariant
<1> QED BY <1>2, <1>3 DEF ClaimSlot

(* Every step of a service keeps the types.                                *)
LEMMA ServiceStepType ==
    ASSUME TypeInvariant, WaveHasRoom, NEW s \in Services, ServiceStep(s)
    PROVE  TypeInvariant'
<1> USE DEF TypeInvariant
<1>1. CASE Poll(s)
  BY <1>1, SweepType, DeliveryUnchangedType DEF Poll
<1>2. CASE BeginWave(s)
  <2>1. TypeOK'
    BY <1>2, SweepType DEF BeginWave
  <2>2. PICK c \in 1..CONCURRENCY : wave' = [wave EXCEPT ![s] =
                    [step |-> "paid", filled |-> 0, capacity |-> c, routes |-> {}]]
    BY <1>2 DEF BeginWave, Slots
  <2>3. [step |-> "paid", filled |-> 0, capacity |-> c, routes |-> {}]
            \in [step : WaveSteps, filled : 0..CONCURRENCY,
                 capacity : 0..CONCURRENCY, routes : SUBSET Routes]
    BY DeliveryConstants DEF WaveSteps
  <2>4. wave' \in [Services -> [step : WaveSteps, filled : 0..CONCURRENCY,
                              capacity : 0..CONCURRENCY, routes : SUBSET Routes]]
    BY <2>2, <2>3 DEF DeliveryTypeOK
  <2> QED BY <1>2, <2>1, <2>4 DEF BeginWave, Slots, DeliveryTypeOK, workerVars, ghostVars
<1>3. CASE AuditLimited(s)
  <2>1. now + COOLDOWN \in Nat
    BY DeliveryConstants DEF TypeOK
  <2> QED BY <1>3, <2>1, DeferGlobalType
          DEF AuditLimited, DeliveryTypeOK, serviceVars, workerVars, ghostVars
<1>4. CASE LearnedCooldown(s)
  <2>1. now + COOLDOWN \in Nat
    BY DeliveryConstants DEF TypeOK
  <2> QED BY <1>4, <2>1, DeferRouteType
          DEF LearnedCooldown, DeliveryTypeOK, serviceVars, workerVars, ghostVars
<1>5. CASE ClaimPaid(s)
  <2>1. wave[s].filled < wave[s].capacity
    BY <1>5 DEF ClaimPaid, ClaimSlot, WaveHasRoom
  <2>2. [wave[s] EXCEPT !.step = "recheck"]
            \in [step : WaveSteps, filled : 0..CONCURRENCY,
                 capacity : 0..CONCURRENCY, routes : SUBSET Routes]
    BY DEF DeliveryTypeOK, WaveSteps
  <2> QED BY <1>5, <2>1, <2>2, ClaimSlotType DEF ClaimPaid
<1>6. CASE StopFilling(s)
  <2>1. TypeOK'
    BY <1>6, StoreUnchangedType DEF StopFilling
  <2> QED BY <1>6, <2>1, NoWaveType DEF StopFilling, DeliveryTypeOK, workerVars, ghostVars
<1>7. CASE Recheck(s)
  <2>1. TypeOK'
    BY <1>7, StoreUnchangedType DEF Recheck
  <2>2. [wave[s] EXCEPT !.step = "any"]
            \in [step : WaveSteps, filled : 0..CONCURRENCY,
                 capacity : 0..CONCURRENCY, routes : SUBSET Routes]
    BY DEF DeliveryTypeOK, WaveSteps
  <2> QED BY <1>7, <2>1, <2>2, NoWaveType DEF Recheck, DeliveryTypeOK, workerVars, ghostVars
<1>8. CASE ClaimAny(s)
  <2>1. wave[s].filled < wave[s].capacity
    BY <1>8 DEF ClaimAny, ClaimSlot, WaveHasRoom
  <2> QED BY <1>8, <2>1, NoWaveType, ClaimSlotType DEF ClaimAny
<1> QED BY <1>1, <1>2, <1>3, <1>4, <1>5, <1>6, <1>7, <1>8 DEF ServiceStep

(* An answer of Discord keeps the types.                                   *)
LEMMA AnswerType ==
    ASSUME TypeInvariant, NEW w \in Workers, NEW a \in Answers, Answer(w, a)
    PROVE  TypeInvariant'
<1>1. now + COOLDOWN \in Nat /\ a \in Outcomes
  BY DeliveryConstants DEF TypeInvariant, TypeOK
<1>2. \A j \in held[w] : Route(j) \in Routes
  BY RouteType DEF TypeInvariant, DeliveryTypeOK, Dispatches
<1>3. TypeOK'
  BY <1>1, <1>2, StoreUnchangedType, DeferGlobalType, DeferRouteType
     DEF Answer, TypeInvariant
<1>4. DeliveryTypeOK'
  BY <1>1 DEF Answer, TypeInvariant, DeliveryTypeOK, serviceVars
<1> QED BY <1>3, <1>4 DEF TypeInvariant

(* Every step of a worker keeps the types.                                 *)
LEMMA WorkerStepType ==
    ASSUME TypeInvariant, NEW w \in Workers, Active(w) => held[w] # {}, WorkerStep(w)
    PROVE  TypeInvariant'
<1> USE DEF TypeInvariant
<1>0. held[w] \in Dispatches /\ RETRY_DELAY \in Nat /\ COOLDOWN \in Nat
  BY DeliveryConstants DEF DeliveryTypeOK
<1>1. CASE HandBack(w)
  BY <1>0, <1>1, RetryType, FinishWorkerType DEF HandBack
<1>2. CASE Validate(w)
  <2>1. TypeOK'
    BY <1>0, <1>2, ValidateType DEF Validate
  <2>2. DeliveryTypeOK'
    BY <1>2, FinishWorkerType DEF Validate, DeliveryTypeOK, serviceVars, ghostVars
  <2> QED BY <2>1, <2>2
<1>3. CASE NoDestination(w)
  BY <1>0, <1>3, FinishType, FinishWorkerType DEF NoDestination
<1>4. CASE Post(w)
  <2>1. TypeOK'
    BY <1>4, StoreUnchangedType DEF Post
  <2> QED BY <1>4, <2>1 DEF Post, DeliveryTypeOK, serviceVars, ghostVars
<1>5. ASSUME NEW a \in Answers, Answer(w, a) PROVE TypeInvariant'
  BY <1>5, AnswerType
<1>6. CASE Settle(w)
  <2>1. DeliveryTypeOK'
    BY <1>6, FinishWorkerType DEF Settle
  <2>2. phase[w] = "too_large" => held[w] # {}
    BY DEF Active
  <2>3. TypeOK'
    BY <1>0, <1>6, <2>2, FinishType, RetryType, SplitType DEF Settle, Confirmed
  <2> QED BY <2>1, <2>3
<1> QED BY <1>1, <1>2, <1>3, <1>4, <1>5, <1>6 DEF WorkerStep

(* The type invariant is preserved by every step.                          *)
LEMMA TypeStep ==
    ASSUME NonceInvariant, [Next]_vars
    PROVE  TypeInvariant'
<1> USE DEF TypeInvariant, NonceInvariant
<1>1. CASE Intake
  BY <1>1, RecordType, DeliveryUnchangedType, DeliveryConstants DEF Intake
<1>2. CASE Tick
  <2>1. TypeOK'
    BY <1>2 DEF Tick, TypeOK, storeVars, itemVars, jobVars, gateVars
  <2> QED BY <1>2, <2>1, DeliveryUnchangedType DEF Tick
<1>3. ASSUME NEW s \in Services, Stop(s) \/ Start(s) PROVE TypeInvariant'
  <2>1. TypeOK'
    BY <1>3, StoreUnchangedType DEF Stop, Start
  <2> QED BY <1>3, <2>1 DEF Stop, Start, DeliveryTypeOK, workerVars, ghostVars
<1>4. ASSUME NEW s \in Services, Crash(s) \/ Exit(s) PROVE TypeInvariant'
  <2>1. TypeOK'
    BY <1>4, StoreUnchangedType DEF Crash, Exit, Die
  <2>2. stops' \in Nat /\ Die(s)
    BY <1>4 DEF Crash, Exit, DeliveryTypeOK
  <2> QED BY <2>1, <2>2, DieType
<1>5. ASSUME NEW s \in Services, ServiceStep(s) PROVE TypeInvariant'
  BY <1>5, ServiceStepType
<1>6. ASSUME NEW w \in Workers, WorkerStep(w) PROVE TypeInvariant'
  BY <1>6, WorkerStepType DEF HeldIsBound, Bound
<1>7. ASSUME NEW w \in Workers, SettleFails(w) PROVE TypeInvariant'
  <2>1. TypeOK'
    BY <1>7, StoreUnchangedType DEF SettleFails
  <2>2. {} \in Dispatches
    BY DEF Dispatches
  <2> QED BY <1>7, <2>1, <2>2 DEF SettleFails, DeliveryTypeOK, serviceVars, ghostVars
<1>8. CASE UNCHANGED vars
  BY <1>8, StoreUnchangedType, DeliveryUnchangedType DEF vars
<1> QED BY <1>1, <1>2, <1>3, <1>4, <1>5, <1>6, <1>7, <1>8 DEF Next

-----------------------------------------------------------------------------
(* The nonce invariant.  Most steps only weaken what it speaks of: bound   *)
(* jobs keep state and token or leave the queue, workers keep what they    *)
(* hold or let it go, and a nonce is exposed by the worker that holds it.  *)

Weakens ==
    /\ batch' = batch
    /\ \A d \in Dispatches : MustHold(d) => MustHold(d)'
    /\ \A j \in Jobs : batch[j] # {} =>
            (state'[j] = state[j] /\ token'[j] = token[j]) \/ state'[j] \notin Live
    /\ \A j \in Jobs : state'[j] = "absent" => state[j] = "absent"

WorkersKeep ==
    \A w \in Workers : Active(w)' =>
        /\ Active(w) /\ held'[w] = held[w] /\ lease'[w] = lease[w]
        /\ phase[w] \in {"sent", "unknown"} => phase'[w] \in {"sent", "unknown"}

Exposing ==
    \A d \in exposed' : d \in exposed \/ \E w \in Workers :
        d = held[w] /\ Active(w) /\ (Active(w)' => phase'[w] \in {"sent", "unknown"})

(* A step that binds and frees nothing and clears no suspicion keeps the nonce invariant. *)
LEMMA QuietStep ==
    ASSUME NonceInvariant, Weakens, WorkersKeep, Exposing
    PROVE  EnvelopeWhole' /\ HeldIsBound' /\ LostLeaseIsUncertain' /\ ExposedIsKept'
<1> USE DEF NonceInvariant, TypeInvariant
<1>1. EnvelopeWhole'
  BY DEF EnvelopeWhole, Weakens
<1>2. \A d \in Dispatches : Bound(d) => Bound(d)'
  BY DEF Bound, Weakens
<1>3. \A w \in Workers : held[w] \in Dispatches
  BY DEF DeliveryTypeOK
<1>4. HeldIsBound'
  BY <1>2, <1>3 DEF HeldIsBound, WorkersKeep, Weakens
<1>5. LostLeaseIsUncertain'
  <2> SUFFICES ASSUME NEW w \in Workers, Active(w)', NEW j \in held'[w],
                      state'[j] = "pending" \/ (state'[j] = "leased" /\ token'[j] # lease'[w])
               PROVE  MustHold(held[w])'
    BY DEF LostLeaseIsUncertain
  <2>1. Active(w) /\ held'[w] = held[w] /\ lease'[w] = lease[w]
    BY DEF WorkersKeep
  <2>2. j \in Jobs /\ batch[j] # {}
    BY <1>3, <2>1 DEF HeldIsBound, Bound, Dispatches
  <2>3. state[j] = state'[j] /\ token[j] = token'[j]
    BY <2>2 DEF Weakens, Live
  <2> QED BY <1>3, <2>1, <2>3 DEF LostLeaseIsUncertain, Weakens
<1>6. ExposedIsKept'
  <2> SUFFICES ASSUME NEW d \in exposed'
               PROVE  /\ Bound(d)'
                      /\ \A j \in d :
                            \/ MustHold(d)'
                            \/ state'[j] \notin Live
                            \/ /\ state'[j] = "leased"
                               /\ \A w \in Workers : Active(w)' /\ lease'[w] = token'[j]
                                                => phase'[w] \in {"sent", "unknown"}
    BY DEF ExposedIsKept
  <2>1. CASE d \in exposed
    <3>1. d \in Dispatches /\ Bound(d)
      BY <2>1 DEF ExposedIsKept, DeliveryTypeOK
    <3>2. ASSUME NEW j \in d, ~MustHold(d)', state'[j] \in Live
          PROVE  /\ state'[j] = "leased"
                 /\ \A w \in Workers : Active(w)' /\ lease'[w] = token'[j]
                                         => phase'[w] \in {"sent", "unknown"}
      <4>1. j \in Jobs /\ batch[j] # {} /\ ~MustHold(d)
        BY <3>1, <3>2 DEF Bound, Dispatches, Weakens
      <4>2. state[j] = state'[j] /\ token[j] = token'[j]
        BY <3>2, <4>1 DEF Weakens
      <4> QED BY <2>1, <3>2, <4>1, <4>2 DEF ExposedIsKept, WorkersKeep
    <3> QED BY <1>2, <3>1, <3>2
  <2>2. CASE d \notin exposed
    <3>1. PICK w \in Workers : d = held[w] /\ Active(w)
                               /\ (Active(w)' => phase'[w] \in {"sent", "unknown"})
      BY <2>2 DEF Exposing
    <3>2. d \in Dispatches /\ Bound(d)
      BY <1>3, <3>1 DEF HeldIsBound
    <3>3. ASSUME NEW j \in d, ~MustHold(d)', state'[j] \in Live
          PROVE  /\ state'[j] = "leased"
                 /\ \A v \in Workers : Active(v)' /\ lease'[v] = token'[j]
                                         => phase'[v] \in {"sent", "unknown"}
      <4>1. j \in Jobs /\ batch[j] # {} /\ ~MustHold(d)
        BY <3>2, <3>3 DEF Bound, Dispatches, Weakens
      <4>2. state[j] = state'[j] /\ token[j] = token'[j]
        BY <3>3, <4>1 DEF Weakens
      <4>3. state[j] = "leased" /\ token[j] = lease[w]
        BY <3>1, <3>3, <4>1, <4>2 DEF LostLeaseIsUncertain, Live
      <4>4. ASSUME NEW v \in Workers, Active(v)', lease'[v] = token'[j]
            PROVE  phase'[v] \in {"sent", "unknown"}
        <5>1. Active(v) /\ lease[v] = lease[w]
          BY <4>2, <4>3, <4>4 DEF WorkersKeep
        <5>2. v = w
          BY <3>1, <5>1 DEF HeldIsBound
        <5> QED BY <3>1, <4>4, <5>2
      <4> QED BY <4>2, <4>3, <4>4
    <3> QED BY <1>2, <3>2, <3>3
  <2> QED BY <2>1, <2>2
<1> QED BY <1>1, <1>4, <1>5, <1>6

-----------------------------------------------------------------------------
(* Which transactions only weaken                                          *)

(* Updating an envelope row forgets no suspicion.                          *)
LEMMA SetDispatchHolds ==
    ASSUME TypeOK, NEW e, NEW st \in DispatchStates \ {"none"}, SetDispatch(e, st),
           uncertain \subseteq uncertain'
    PROVE  \A d \in Dispatches : MustHold(d) => MustHold(d)'
BY DEF SetDispatch, MustHold, TypeOK

(* _cancel_dispatch only weakens what jobs allow.                          *)
LEMMA CancelWeakens ==
    ASSUME TypeOK, NEW d \in Dispatches, NEW t, CancelDispatch(d, t)
    PROVE  Weakens
<1>1. \A e \in Dispatches : MustHold(e) => MustHold(e)'
  BY SetDispatchHolds DEF CancelDispatch, DispatchStates
<1>2. \A j \in Jobs : (state'[j] = state[j] /\ token'[j] = token[j]) \/ state'[j] = "skipped"
  BY DEF CancelDispatch, Unlease, TypeOK
<1> QED BY <1>1, <1>2 DEF CancelDispatch, Weakens, Live

(* A transaction that changes nothing weakens trivially.                   *)
LEMMA UnchangedWeakens ==
    ASSUME UNCHANGED <<now, storeVars>>
    PROVE  Weakens
BY DEF Weakens, storeVars, jobVars, MustHold

(* The update of finish_batch only weakens.                                *)
LEMMA FinishedWeakens ==
    ASSUME TypeOK, NEW d \in Dispatches, NEW st \in {"sent", "failed"}, Finished(d, st)
    PROVE  Weakens
<1>1. \A e \in Dispatches : MustHold(e) => MustHold(e)'
  BY SetDispatchHolds DEF Finished, DispatchStates
<1>2. \A j \in Jobs : (state'[j] = state[j] /\ token'[j] = token[j]) \/ state'[j] = st
  BY DEF Finished, Unlease, TypeOK
<1> QED BY <1>1, <1>2 DEF Finished, Weakens, Live

(* finish_batch only weakens.                                              *)
LEMMA FinishWeakens ==
    ASSUME TypeOK, NEW d \in Dispatches, NEW t, NEW st \in {"sent", "failed"},
           FinishBatch(d, t, st)
    PROVE  Weakens
BY UnchangedWeakens, CancelWeakens, FinishedWeakens DEF FinishBatch, IfOwned

(* validate_dispatch only weakens.                                         *)
LEMMA ValidateWeakens ==
    ASSUME TypeOK, NEW d \in Dispatches, NEW t, NEW ok, ValidateDispatch(d, t, ok)
    PROVE  Weakens
BY UnchangedWeakens, CancelWeakens DEF ValidateDispatch, IfOwned

(* Raising a gate only weakens.                                            *)
LEMMA DeferWeakens ==
    ASSUME NEW until, NEW r, DeferGlobal(until) \/ DeferRoute(r, until)
    PROVE  Weakens
BY DEF DeferGlobal, DeferRoute, Weakens, MustHold, jobVars

(* Retiring stale rows only weakens.                                       *)
LEMMA SweepWeakens ==
    ASSUME TypeOK, Sweep
    PROVE  Weakens
<1>1. \A j \in Jobs : state'[j] = state[j] \/ state'[j] = "expired"
  BY DEF Sweep, Swept, TypeOK
<1> QED BY <1>1 DEF Sweep, Weakens, Live, MustHold

(* Recording an observation only weakens.                                  *)
LEMMA RecordWeakens ==
    ASSUME TypeOK, HeldIsBound, NEW i \in Items, NEW o \in Observation,
           NEW seed_only \in BOOLEAN, Record(i, o, seed_only)
    PROVE  Weakens
<1>1. \A j \in Jobs : batch[j] # {} =>
            state'[j] = state[j] \/ state'[j] = "skipped"
  BY DEF Record, TypeOK, Rearmable, HeldIsBound
<1>2. \A j \in Jobs : state'[j] = "absent" => state[j] = "absent"
  BY DEF Record, TypeOK
<1> QED BY <1>1, <1>2 DEF Record, Weakens, Live, MustHold

(* A claim that returns nothing only weakens.                              *)
LEMMA ClaimNoneWeakens ==
    ASSUME TypeOK, NEW aud, NEW size, NEW fair, NEW excluded, NEW t,
           ClaimBatch(aud, size, fair, excluded, {}, t)
    PROVE  Weakens
<1>1. PICK gone \in SUBSET Jobs : Reserve({}, t, gone)
  BY DEF ClaimBatch, Candidates
<1>2. batch' = batch
  BY <1>1 DEF Reserve, TypeOK
<1>3. uncertain' = uncertain
  BY <1>1 DEF Reserve, Recovered
<1>4. \A e \in Dispatches : dstate[e] = "none" => dstate'[e] = "none"
  BY <1>1 DEF Reserve, TypeOK
<1>5. \A j \in Jobs : state'[j] = "absent" => state[j] = "absent"
  BY <1>1 DEF Reserve, Swept, TypeOK
<1>6. \A j \in Jobs : (state'[j] = state[j] /\ token'[j] = token[j]) \/ state'[j] \notin Live
  BY <1>1 DEF Reserve, Swept, TypeOK, Live
<1> QED BY <1>2, <1>3, <1>4, <1>5, <1>6 DEF Weakens, MustHold

-----------------------------------------------------------------------------
(* Putting an owned envelope back (retry_batch, and a held 413)            *)

Returns(w) ==       \* w lets its envelope go, everybody else stays
    /\ ~Active(w)'
    /\ \A v \in Workers : v # w => phase'[v] = phase[v] /\ held'[v] = held[v]
                                    /\ lease'[v] = lease[v]
    /\ exposed' = exposed

(* A worker that ends its task is no longer active.                        *)
LEMMA FinishReturns ==
    ASSUME TypeInvariant, NEW w \in Workers, Finish(w)
    PROVE  Returns(w)
BY DEF Finish, Returns, Active, TypeInvariant, DeliveryTypeOK, ghostVars

(* An owner that hands its envelope back keeps the nonce invariant.        *)
LEMMA RequeueStep ==
    ASSUME NonceInvariant, NEW w \in Workers, Active(w), Returns(w),
           Owned(held[w], lease[w]),
           batch' = batch,
           \A j \in Jobs : IF j \in held[w] THEN state'[j] = "pending"
                           ELSE state'[j] = state[j] /\ token'[j] = token[j],
           \A d \in Dispatches : MustHold(d) => MustHold(d)',
           phase[w] # "sent",
           \A d \in Dispatches : d = held[w] /\ phase[w] = "unknown" => MustHold(d)'
    PROVE  EnvelopeWhole' /\ HeldIsBound' /\ LostLeaseIsUncertain' /\ ExposedIsKept'
<1> USE DEF NonceInvariant, TypeInvariant
<1> DEFINE d == held[w]
<1>1. \A v \in Workers : held[v] \in Dispatches
  BY DEF DeliveryTypeOK
<1>2. EnvelopeWhole'
  BY DEF EnvelopeWhole
<1>3. \A e \in Dispatches : Bound(e) => Bound(e)'
  BY DEF Bound
<1>4. HeldIsBound'
  BY <1>1, <1>3 DEF HeldIsBound, Returns, Active
<1>5. \A v \in Workers : Active(v) /\ v # w /\ held[v] = d => MustHold(d)
  <2> SUFFICES ASSUME NEW v \in Workers, Active(v), v # w, held[v] = d PROVE MustHold(d)
    OBVIOUS
  <2>1. PICK j \in d : TRUE
    BY DEF HeldIsBound, Bound
  <2>2. state[j] = "leased" /\ token[j] # lease[v]
    BY <2>1 DEF Owned, HeldIsBound
  <2> QED BY <2>1, <2>2 DEF LostLeaseIsUncertain
<1>6. LostLeaseIsUncertain'
  <2> SUFFICES ASSUME NEW v \in Workers, Active(v)', NEW j \in held'[v],
                      state'[j] = "pending" \/ (state'[j] = "leased" /\ token'[j] # lease'[v])
               PROVE  MustHold(held[v])'
    BY DEF LostLeaseIsUncertain
  <2>1. v # w /\ Active(v) /\ held'[v] = held[v] /\ lease'[v] = lease[v]
    BY DEF Returns, Active
  <2>2. j \in Jobs /\ batch[j] = held[v]
    BY <1>1, <2>1 DEF HeldIsBound, Bound, Dispatches
  <2>3. CASE j \in d
    BY <1>1, <1>5, <2>1, <2>2, <2>3 DEF HeldIsBound, Bound
  <2>4. CASE j \notin d
    BY <1>1, <2>1, <2>2, <2>4 DEF LostLeaseIsUncertain
  <2> QED BY <2>3, <2>4
<1>7. ExposedIsKept'
  <2> SUFFICES ASSUME NEW e \in exposed
               PROVE  /\ Bound(e)'
                      /\ \A j \in e :
                            \/ MustHold(e)'
                            \/ state'[j] \notin Live
                            \/ /\ state'[j] = "leased"
                               /\ \A v \in Workers : Active(v)' /\ lease'[v] = token'[j]
                                                => phase'[v] \in {"sent", "unknown"}
    BY DEF ExposedIsKept, Returns
  <2>1. e \in Dispatches /\ Bound(e)
    BY DEF ExposedIsKept, DeliveryTypeOK
  <2>2. CASE e = d
    <3>1. PICK j \in d : TRUE
      BY DEF HeldIsBound, Bound
    <3>2. state[j] = "leased" /\ token[j] = lease[w]
      BY <3>1 DEF Owned
    <3>3. phase[w] # "unknown" => MustHold(e)
      BY <2>2, <3>1, <3>2 DEF ExposedIsKept, Live
    <3>4. MustHold(e)'
      BY <1>1, <2>1, <2>2, <3>3
    <3> QED BY <1>3, <2>1, <3>4
  <2>3. CASE e # d
    <3>1. \A j \in e : j \in Jobs /\ j \notin d
      BY <2>1, <2>3 DEF Bound, HeldIsBound, Dispatches
    <3>2. ASSUME NEW j \in e, ~MustHold(e)', state'[j] \in Live
          PROVE  /\ state'[j] = "leased"
                 /\ \A v \in Workers : Active(v)' /\ lease'[v] = token'[j]
                                         => phase'[v] \in {"sent", "unknown"}
      <4>1. state[j] = state'[j] /\ token[j] = token'[j] /\ ~MustHold(e)
        BY <2>1, <3>1, <3>2
      <4> QED BY <3>2, <4>1 DEF ExposedIsKept, Returns, Active
    <3> QED BY <1>3, <2>1, <3>2
  <2> QED BY <2>2, <2>3
<1> QED BY <1>2, <1>4, <1>6, <1>7

-----------------------------------------------------------------------------
(* Repacking after a definitive 413                                        *)

(* An owner may free an unsuspected envelope after a definitive 413.       *)
LEMMA RepackStep ==
    ASSUME NonceInvariant, NEW w \in Workers, phase[w] = "too_large", Returns(w),
           Owned(held[w], lease[w]), ~MustHold(held[w]), Repack(held[w])
    PROVE  EnvelopeWhole' /\ HeldIsBound' /\ LostLeaseIsUncertain' /\ ExposedIsKept'
<1> USE DEF NonceInvariant, TypeInvariant
<1> DEFINE d == held[w]
<1>1. \A v \in Workers : held[v] \in Dispatches
  BY DEF DeliveryTypeOK
<1>2. Active(w) /\ d # {} /\ d \in Dispatches
  BY <1>1 DEF Active, HeldIsBound, Bound
<1>3. \A j \in Jobs : IF j \in d THEN batch'[j] = {} /\ state'[j] = "pending"
                      ELSE /\ batch'[j] = batch[j] /\ state'[j] = state[j]
                           /\ token'[j] = token[j]
  BY DEF Repack, Unlease, TypeOK
<1>4. \A e \in Dispatches : MustHold(e) => MustHold(e)'
  BY SetDispatchHolds DEF Repack, DispatchStates
<1>5. \A e \in Dispatches : Bound(e) /\ e # d => Bound(e)' /\ \A j \in e : j \notin d
  BY <1>2, <1>3 DEF Bound, HeldIsBound, Dispatches
<1>6. PICK j0 \in d : state[j0] = "leased" /\ token[j0] = lease[w]
  BY <1>2 DEF Owned
<1>7. \A v \in Workers : Active(v) /\ v # w => held[v] # d
  BY <1>2, <1>6 DEF LostLeaseIsUncertain, HeldIsBound
<1>8. d \notin exposed
  BY <1>2, <1>6 DEF ExposedIsKept, Live
<1>9. EnvelopeWhole'
  <2> SUFFICES ASSUME NEW j \in Jobs, batch'[j] # {}
               PROVE  j \in batch'[j] /\ \A k \in batch'[j] :
                            batch'[k] = batch'[j] /\ Route(k) = Route(j)
    BY DEF EnvelopeWhole
  <2>1. batch'[j] = batch[j] /\ batch[j] # d /\ batch[j] \in Dispatches
    BY <1>3 DEF Owned, Rows, TypeOK
  <2>2. \A k \in batch[j] : k \in Jobs /\ k \notin d
    BY <1>3, <2>1 DEF EnvelopeWhole, Owned, Rows, Dispatches
  <2> QED BY <1>3, <2>1, <2>2 DEF EnvelopeWhole
<1>10. HeldIsBound'
  BY <1>1, <1>3, <1>5, <1>7 DEF HeldIsBound, Returns, Active
<1>11. LostLeaseIsUncertain'
  <2> SUFFICES ASSUME NEW v \in Workers, Active(v)', NEW j \in held'[v],
                      state'[j] = "pending" \/ (state'[j] = "leased" /\ token'[j] # lease'[v])
               PROVE  MustHold(held[v])'
    BY DEF LostLeaseIsUncertain
  <2>1. v # w /\ Active(v) /\ held'[v] = held[v] /\ lease'[v] = lease[v]
    BY DEF Returns, Active
  <2>2. j \in Jobs /\ j \notin d
    BY <1>1, <1>5, <1>7, <2>1 DEF HeldIsBound, Dispatches
  <2> QED BY <1>1, <1>3, <1>4, <2>1, <2>2 DEF LostLeaseIsUncertain
<1>12. ExposedIsKept'
  <2> SUFFICES ASSUME NEW e \in exposed
               PROVE  /\ Bound(e)'
                      /\ \A j \in e :
                            \/ MustHold(e)'
                            \/ state'[j] \notin Live
                            \/ /\ state'[j] = "leased"
                               /\ \A v \in Workers : Active(v)' /\ lease'[v] = token'[j]
                                                => phase'[v] \in {"sent", "unknown"}
    BY DEF ExposedIsKept, Returns
  <2>1. e \in Dispatches /\ Bound(e) /\ e # d
    BY <1>8 DEF ExposedIsKept, DeliveryTypeOK
  <2>2. Bound(e)' /\ \A j \in e : j \in Jobs /\ j \notin d
    BY <1>5, <2>1 DEF Dispatches
  <2>3. ASSUME NEW j \in e, ~MustHold(e)', state'[j] \in Live
        PROVE  /\ state'[j] = "leased"
               /\ \A v \in Workers : Active(v)' /\ lease'[v] = token'[j]
                                       => phase'[v] \in {"sent", "unknown"}
    <3>1. state[j] = state'[j] /\ token[j] = token'[j] /\ ~MustHold(e)
      BY <1>3, <1>4, <2>1, <2>2, <2>3
    <3> QED BY <2>3, <3>1 DEF ExposedIsKept, Returns, Active
  <2> QED BY <2>2, <2>3
<1> QED BY <1>9, <1>10, <1>11, <1>12

-----------------------------------------------------------------------------
(* Claiming                                                                *)

(* What a claim may choose: an envelope that is bound already, or unbound  *)
(* jobs of one feed; all of them open.                                     *)
LEMMA ClaimChoice ==
    ASSUME TypeOK, EnvelopeWhole, NEW aud, NEW size, NEW fair, NEW excluded,
           NEW d \in Dispatches \ {{}}, NEW t, ClaimBatch(aud, size, fair, excluded, d, t)
    PROVE  /\ \A k \in d : Eligible(k) /\ state[k] \in Live
           /\ Bound(d) \/ \A k \in d : batch[k] = {}
           /\ \A j, k \in d : Route(j) = Route(k)
           /\ \E gone \in SUBSET Jobs : Reserve(d, t, gone)
<1>1. PICK gone \in SUBSET Jobs, j \in Jobs :
            /\ d \in Envelopes(j, size)
            /\ \A k \in d : Eligible(k)
            /\ Reserve(d, t, gone)
  BY DEF ClaimBatch, Candidates, First
<1>2. \A k \in d : state[k] \in Live
  BY <1>1 DEF Eligible, Open
<1>3. CASE batch[j] # {}
  <2>1. d = batch[j]
    BY <1>1, <1>3 DEF Envelopes
  <2> QED BY <1>1, <1>2, <1>3, <2>1 DEF EnvelopeWhole, Bound
<1>4. CASE batch[j] = {}
  <2>1. d = {j} \/ \E f \in SUBSET Fillable(j) : d = {j} \union f
    BY <1>1, <1>4 DEF Envelopes, NewEnvelopes
  <2>2. \A k \in d : batch[k] = {} /\ Route(k) = Route(j)
    BY <1>4, <2>1 DEF Fillable
  <2> QED BY <1>1, <1>2, <2>2
<1> QED BY <1>3, <1>4

(* What a reservation changes in bindings and suspicion.                   *)
LEMMA ReserveEffect ==
    ASSUME TypeOK, NEW d \in Dispatches \ {{}}, NEW t, NEW gone \in SUBSET Jobs,
           Reserve(d, t, gone)
    PROVE  /\ \A j \in d : batch'[j] = d /\ state'[j] = "leased" /\ token'[j] = t
           /\ \A j \in Jobs \ d :
                /\ batch'[j] = batch[j]
                /\ (state'[j] = state[j] /\ token'[j] = token[j])
                     \/ state'[j] \in {"expired", "skipped", "unmatched"}
           /\ \A e \in Dispatches : e # d /\ MustHold(e) => MustHold(e)'
           /\ Bound(d) /\ (MustHold(d) \/ \E j \in d : state[j] = "leased") => MustHold(d)'
<1>1. \A j \in d : batch'[j] = d /\ state'[j] = "leased" /\ token'[j] = t
  BY DEF Reserve, Dispatches
<1>2. \A j \in Jobs \ d :
        /\ batch'[j] = batch[j]
        /\ (state'[j] = state[j] /\ token'[j] = token[j])
             \/ state'[j] \in {"expired", "skipped", "unmatched"}
  BY DEF Reserve, Swept
<1>3. \A e \in Dispatches : e # d /\ MustHold(e) => MustHold(e)'
  BY DEF Reserve, MustHold
<1>4. Bound(d) /\ (MustHold(d) \/ \E j \in d : state[j] = "leased") => MustHold(d)'
  BY DEF Reserve, MustHold, Recovered, Bound
<1> QED BY <1>1, <1>2, <1>3, <1>4

(* Claiming an envelope keeps the nonce invariant.                         *)
LEMMA ClaimStep ==
    ASSUME NonceInvariant, NEW w \in Workers, NEW d \in Dispatches \ {{}}, NEW t \in Tokens,
           NEW aud, NEW size, NEW fair, NEW excluded,
           ClaimBatch(aud, size, fair, excluded, d, t),
           \A j \in Jobs : token[j] # t,
           \A x \in Workers : lease[x] # t,
           phase' = [phase EXCEPT ![w] = "claimed"],
           held' = [held EXCEPT ![w] = d],
           lease' = [lease EXCEPT ![w] = t],
           exposed' = exposed
    PROVE  EnvelopeWhole' /\ HeldIsBound' /\ LostLeaseIsUncertain' /\ ExposedIsKept'
<1> USE DEF NonceInvariant, TypeInvariant
<1>1. PICK gone \in SUBSET Jobs : Reserve(d, t, gone)
  BY ClaimChoice
<1>2. /\ \A k \in d : k \in Jobs /\ state[k] \in Live
      /\ Bound(d) \/ \A k \in d : batch[k] = {}
      /\ \A j, k \in d : Route(j) = Route(k)
  BY ClaimChoice DEF Dispatches
<1>3. \A v \in Workers : held[v] \in Dispatches
  BY DEF DeliveryTypeOK
<1>4. /\ held'[w] = d /\ lease'[w] = t /\ phase'[w] = "claimed"
      /\ \A v \in Workers : v # w =>
            held'[v] = held[v] /\ lease'[v] = lease[v] /\ phase'[v] = phase[v]
  BY DEF DeliveryTypeOK
<1>5. \A e \in Dispatches : Bound(e) /\ e # d => \A j \in e : j \in Jobs \ d
  BY <1>2 DEF Bound, Dispatches
<1>6. \A e \in Dispatches : Bound(e) => Bound(e)'
  BY <1>1, <1>5, ReserveEffect DEF Bound
<1>7. Bound(d)'
  BY <1>1, ReserveEffect DEF Bound
<1>8. ASSUME NEW e \in Dispatches, Bound(e), e = d,
             MustHold(e) \/ \E j \in e : state[j] = "leased"
      PROVE  MustHold(e)'
  BY <1>1, <1>8, ReserveEffect
<1>9. EnvelopeWhole'
  <2> SUFFICES ASSUME NEW j \in Jobs, batch'[j] # {}
               PROVE  j \in batch'[j] /\ \A k \in batch'[j] :
                            batch'[k] = batch'[j] /\ Route(k) = Route(j)
    BY DEF EnvelopeWhole
  <2>1. CASE j \in d
    BY <1>1, <1>2, <2>1, ReserveEffect
  <2>2. CASE j \notin d
    <3>1. batch'[j] = batch[j] /\ batch[j] \in Dispatches
      BY <1>1, <2>2, ReserveEffect DEF TypeOK
    <3>2. Bound(batch[j]) /\ batch[j] # d
      BY <2>2, <3>1 DEF EnvelopeWhole, Bound
    <3> QED BY <1>1, <1>5, <3>1, <3>2, ReserveEffect DEF EnvelopeWhole
  <2> QED BY <2>1, <2>2
<1>10. HeldIsBound'
  <2>1. \A v \in Workers : Active(v)' => Bound(held[v])' /\ lease'[v] \in Tokens
    BY <1>3, <1>4, <1>6, <1>7 DEF HeldIsBound, Active, Bound
  <2>2. \A v, x \in Workers : Active(v)' /\ Active(x)' /\ lease'[v] = lease'[x] => v = x
    BY <1>4 DEF HeldIsBound, Active
  <2>3. \A j \in Jobs : state'[j] = "absent" => batch'[j] = {}
    BY <1>1, ReserveEffect DEF HeldIsBound
  <2> QED BY <2>1, <2>2, <2>3 DEF HeldIsBound
<1>11. LostLeaseIsUncertain'
  <2> SUFFICES ASSUME NEW v \in Workers, Active(v)', NEW j \in held'[v],
                      state'[j] = "pending" \/ (state'[j] = "leased" /\ token'[j] # lease'[v])
               PROVE  MustHold(held[v])'
    BY DEF LostLeaseIsUncertain
  <2>1. v # w
    BY <1>1, <1>4, ReserveEffect
  <2>2. held'[v] = held[v] /\ lease'[v] = lease[v] /\ Active(v)
    BY <1>4, <2>1 DEF Active
  <2>3. Bound(held[v]) /\ held[v] \in Dispatches
    BY <1>3, <2>2 DEF HeldIsBound
  <2> DEFINE e == held[v]
  <2>4. CASE e = d
    <3>1. MustHold(e) \/ \E k \in e : state[k] = "leased"
      BY <1>2, <2>2, <2>4 DEF LostLeaseIsUncertain, Live
    <3> QED BY <1>8, <2>2, <2>3, <2>4, <3>1
  <2>5. CASE e # d
    <3>1. j \in Jobs \ d
      BY <1>5, <2>2, <2>3, <2>5
    <3>2. state'[j] = state[j] /\ token'[j] = token[j]
      BY <1>1, <3>1, ReserveEffect
    <3> QED BY <1>1, <2>2, <2>3, <2>5, <3>2, ReserveEffect DEF LostLeaseIsUncertain
  <2> QED BY <2>4, <2>5
<1>12. ExposedIsKept'
  <2> SUFFICES ASSUME NEW e \in exposed
               PROVE  /\ Bound(e)'
                      /\ \A j \in e :
                            \/ MustHold(e)'
                            \/ state'[j] \notin Live
                            \/ /\ state'[j] = "leased"
                               /\ \A v \in Workers : Active(v)' /\ lease'[v] = token'[j]
                                                => phase'[v] \in {"sent", "unknown"}
    BY DEF ExposedIsKept
  <2>1. e \in Dispatches /\ Bound(e)
    BY DEF ExposedIsKept, DeliveryTypeOK
  <2>2. CASE e = d
    <3>1. MustHold(e) \/ \E k \in e : state[k] = "leased"
      BY <1>2, <2>1, <2>2 DEF ExposedIsKept, Bound
    <3> QED BY <1>6, <1>8, <2>1, <2>2, <3>1
  <2>3. CASE e # d
    <3>1. ASSUME NEW j \in e, ~MustHold(e)', state'[j] \in Live
          PROVE  /\ state'[j] = "leased"
                 /\ \A v \in Workers : Active(v)' /\ lease'[v] = token'[j]
                                         => phase'[v] \in {"sent", "unknown"}
      <4>1. j \in Jobs \ d /\ ~MustHold(e)
        BY <1>1, <1>5, <2>1, <2>3, <3>1, ReserveEffect
      <4>2. state[j] = state'[j] /\ token[j] = token'[j]
        BY <1>1, <3>1, <4>1, ReserveEffect DEF Live
      <4>3. \A v \in Workers : lease'[v] = token'[j] => v # w
        BY <1>4, <4>1, <4>2
      <4> QED BY <1>4, <3>1, <4>1, <4>2, <4>3 DEF ExposedIsKept, Active
    <3> QED BY <1>6, <2>1, <3>1
  <2> QED BY <2>2, <2>3
<1> QED BY <1>9, <1>10, <1>11, <1>12

-----------------------------------------------------------------------------
(* Every step keeps the nonce invariant                                    *)

Nonce == EnvelopeWhole /\ HeldIsBound /\ LostLeaseIsUncertain /\ ExposedIsKept

(* A worker may end its task after a transaction that only weakens.        *)
LEMMA QuietFinish ==
    ASSUME NonceInvariant, NEW w \in Workers, Weakens, Finish(w)
    PROVE  Nonce'
<1>1. WorkersKeep
  BY DEF WorkersKeep, Finish, Active, NonceInvariant, TypeInvariant, DeliveryTypeOK
<1>2. Exposing
  BY DEF Exposing, Finish, ghostVars
<1> QED BY <1>1, <1>2, QuietStep DEF Nonce

(* retry_batch keeps the nonce invariant.                                  *)
LEMMA RetryStep ==
    ASSUME NonceInvariant, NEW w \in Workers, Active(w), NEW delay \in Nat, NEW c, NEW a,
           RetryBatch(held[w], lease[w], delay, c, a), Finish(w),
           phase[w] # "sent", phase[w] = "unknown" => a = TRUE
    PROVE  Nonce'
<1> USE DEF NonceInvariant, TypeInvariant
<1>1. held[w] \in Dispatches
  BY DEF DeliveryTypeOK
<1>2. CASE UNCHANGED <<now, storeVars>> \/ CancelDispatch(held[w], lease[w])
  BY <1>1, <1>2, UnchangedWeakens, CancelWeakens, QuietFinish
<1>3. CASE Owned(held[w], lease[w]) /\ Requeued(held[w], delay, c, a)
  <2>1. \A j \in Jobs : IF j \in held[w] THEN state'[j] = "pending"
                        ELSE state'[j] = state[j] /\ token'[j] = token[j]
    BY <1>3 DEF Requeued, Unlease, TypeOK
  <2>2. \A d \in Dispatches : MustHold(d) => MustHold(d)'
    BY <1>3, SetDispatchHolds DEF Requeued, DispatchStates
  <2>3. \A d \in Dispatches : d = held[w] /\ phase[w] = "unknown" => MustHold(d)'
    BY <1>3 DEF Requeued, MustHold
  <2> QED BY <1>3, <2>1, <2>2, <2>3, FinishReturns, RequeueStep DEF Requeued, Nonce
<1> QED BY <1>2, <1>3 DEF RetryBatch, IfOwned

(* split_rejected_batch keeps the nonce invariant.                         *)
LEMMA SplitStep ==
    ASSUME NonceInvariant, NEW w \in Workers, phase[w] = "too_large",
           SplitRejected(held[w], lease[w]), Finish(w)
    PROVE  Nonce'
<1> USE DEF NonceInvariant, TypeInvariant
<1>1. held[w] \in Dispatches /\ Active(w)
  BY DEF DeliveryTypeOK, Active
<1>2. CASE \/ UNCHANGED <<now, storeVars>>
           \/ CancelDispatch(held[w], lease[w])
           \/ Finished(held[w], "failed")
  BY <1>1, <1>2, UnchangedWeakens, CancelWeakens, FinishedWeakens, QuietFinish
<1>3. CASE Owned(held[w], lease[w]) /\ HoldForReview(held[w])
  <2>1. \A j \in Jobs : IF j \in held[w] THEN state'[j] = "pending"
                        ELSE state'[j] = state[j] /\ token'[j] = token[j]
    BY <1>3 DEF HoldForReview, Unlease, TypeOK
  <2>2. \A d \in Dispatches : MustHold(d) => MustHold(d)'
    BY <1>3, SetDispatchHolds DEF HoldForReview, DispatchStates
  <2> QED BY <1>1, <1>3, <2>1, <2>2, FinishReturns, RequeueStep DEF HoldForReview, Nonce
<1>4. CASE Owned(held[w], lease[w]) /\ ~MustHold(held[w]) /\ Repack(held[w])
  BY <1>4, FinishReturns, RepackStep DEF Nonce
<1> QED BY <1>2, <1>3, <1>4 DEF SplitRejected, IfOwned

(* An answer of Discord keeps the nonce invariant.                         *)
LEMMA AnswerStep ==
    ASSUME NonceInvariant, NEW w \in Workers, NEW a \in Answers, Answer(w, a)
    PROVE  Nonce'
<1> USE DEF NonceInvariant, TypeInvariant
<1>1. Weakens
  BY UnchangedWeakens, DeferWeakens DEF Answer
<1>2. a # "idle" /\ phase' = [phase EXCEPT ![w] = a]
  BY DeliveryConstants DEF Answer, Outcomes
<1>3. WorkersKeep
  BY <1>2 DEF WorkersKeep, Answer, Active, DeliveryTypeOK
<1>4. Exposing
  BY <1>2 DEF Exposing, Answer, Active, DeliveryTypeOK
<1> QED BY <1>1, <1>3, <1>4, QuietStep DEF Nonce

(* Every step of a worker keeps the nonce invariant.                       *)
LEMMA WorkerNonce ==
    ASSUME NonceInvariant, NEW w \in Workers, WorkerStep(w)
    PROVE  Nonce'
<1> USE DEF NonceInvariant, TypeInvariant
<1>0. held[w] \in Dispatches /\ RETRY_DELAY \in Nat /\ COOLDOWN \in Nat
  BY DeliveryConstants DEF DeliveryTypeOK
<1>1. CASE HandBack(w)
  BY <1>0, <1>1, RetryStep DEF HandBack, Active
<1>2. CASE Validate(w)
  <2>1. Weakens
    BY <1>0, <1>2, ValidateWeakens DEF Validate
  <2>2. CASE Finish(w)
    BY <2>1, <2>2, QuietFinish
  <2>3. CASE phase' = [phase EXCEPT ![w] = "ready"]
             /\ UNCHANGED <<held, lease, serviceVars, ghostVars, stops, auditLimits>>
    <3>1. WorkersKeep
      BY <1>2, <2>3 DEF WorkersKeep, Validate, Active, DeliveryTypeOK
    <3>2. Exposing
      BY <2>3 DEF Exposing, ghostVars
    <3> QED BY <2>1, <3>1, <3>2, QuietStep DEF Nonce
  <2> QED BY <1>2, <2>2, <2>3 DEF Validate
<1>3. CASE NoDestination(w)
  BY <1>0, <1>3, FinishWeakens, QuietFinish DEF NoDestination
<1>4. CASE Post(w)
  <2>1. Weakens
    BY <1>4, UnchangedWeakens DEF Post
  <2>2. WorkersKeep
    BY <1>4 DEF WorkersKeep, Post, Active, DeliveryTypeOK
  <2>3. Exposing
    BY <1>4 DEF Exposing, Post, ghostVars
  <2> QED BY <2>1, <2>2, <2>3, QuietStep DEF Nonce
<1>5. ASSUME NEW a \in Answers, Answer(w, a) PROVE Nonce'
  BY <1>5, AnswerStep
<1>6. CASE Settle(w)
  <2>1. Finish(w)
    BY <1>6 DEF Settle
  <2>2. CASE \E st \in {"sent", "failed"} : FinishBatch(held[w], lease[w], st)
    BY <1>0, <2>1, <2>2, FinishWeakens, QuietFinish
  <2>3. CASE phase[w] = "too_large" /\ SplitRejected(held[w], lease[w])
    BY <2>1, <2>3, SplitStep
  <2>4. CASE phase[w] = "limited"
             /\ RetryBatch(held[w], lease[w], COOLDOWN, FALSE, FALSE)
    BY <1>0, <2>1, <2>4, RetryStep DEF Active
  <2>5. CASE phase[w] \in {"unknown", "unsent"}
             /\ RetryBatch(held[w], lease[w], RETRY_DELAY, TRUE, phase[w] = "unknown")
    BY <1>0, <2>1, <2>5, RetryStep DEF Active
  <2> QED BY <1>6, <2>2, <2>3, <2>4, <2>5 DEF Settle, Confirmed
<1> QED BY <1>1, <1>2, <1>3, <1>4, <1>5, <1>6 DEF WorkerStep

(* A store step that only weakens keeps the nonce invariant.               *)
LEMMA QuietWorkers ==
    ASSUME NonceInvariant, Weakens, UNCHANGED <<workerVars, ghostVars>>
    PROVE  Nonce'
<1>1. WorkersKeep
  BY DEF WorkersKeep, workerVars, Active
<1>2. Exposing
  BY DEF Exposing, ghostVars
<1> QED BY <1>1, <1>2, QuietStep DEF Nonce

(* Filling a slot of a wave keeps the nonce invariant.                     *)
LEMMA ClaimSlotNonce ==
    ASSUME NonceInvariant, NEW s \in Services, NEW st, NEW aud, NEW size, NEW fair, NEW nxt,
           wave[s].filled < wave[s].capacity, ClaimSlot(s, st, aud, size, fair, nxt)
    PROVE  Nonce'
<1> DEFINE w == <<s, wave[s].filled + 1>>
<1>1. CASE ClaimBatch(aud, size, fair, wave[s].routes, {}, NoToken) /\ UNCHANGED workerVars
  BY <1>1, ClaimNoneWeakens, QuietWorkers DEF ClaimSlot, NonceInvariant, TypeInvariant
<1>2. ASSUME NEW d \in Dispatches \ {{}}, NEW t \in Tokens,
             \A j \in Jobs : token[j] # t,
             \A x \in Workers : lease[x] # t,
             ClaimBatch(aud, size, fair, wave[s].routes, d, t),
             phase' = [phase EXCEPT ![w] = "claimed"],
             held' = [held EXCEPT ![w] = d],
             lease' = [lease EXCEPT ![w] = t]
      PROVE  Nonce'
  <2>1. wave[s].filled \in 0..CONCURRENCY /\ wave[s].capacity \in 0..CONCURRENCY
    BY DEF NonceInvariant, TypeInvariant, DeliveryTypeOK
  <2>2. w \in Workers
    BY <2>1, DeliveryConstants DEF Workers
  <2>3. exposed' = exposed
    BY DEF ClaimSlot, ghostVars
  <2> QED BY <1>2, <2>2, <2>3, ClaimStep DEF Nonce
<1> QED BY <1>1, <1>2 DEF ClaimSlot

(* Every step of a service keeps the nonce invariant.                      *)
LEMMA ServiceNonce ==
    ASSUME NonceInvariant, NEW s \in Services, ServiceStep(s)
    PROVE  Nonce'
<1> USE DEF NonceInvariant, TypeInvariant
<1>1. CASE Poll(s) \/ BeginWave(s)
  BY <1>1, SweepWeakens, QuietWorkers DEF Poll, BeginWave, deliveryVars
<1>2. CASE AuditLimited(s) \/ LearnedCooldown(s)
  BY <1>2, DeferWeakens, QuietWorkers DEF AuditLimited, LearnedCooldown
<1>3. CASE ClaimPaid(s) \/ ClaimAny(s)
  <2>1. wave[s].filled < wave[s].capacity
    BY <1>3 DEF ClaimPaid, ClaimAny, ClaimSlot, WaveHasRoom
  <2> QED BY <1>3, <2>1, ClaimSlotNonce DEF ClaimPaid, ClaimAny
<1>4. CASE StopFilling(s) \/ Recheck(s)
  BY <1>4, UnchangedWeakens, QuietWorkers DEF StopFilling, Recheck
<1> QED BY <1>1, <1>2, <1>3, <1>4 DEF ServiceStep

(* Every step keeps the nonce invariant.                                   *)
LEMMA NonceStep ==
    ASSUME NonceInvariant, [Next]_vars
    PROVE  Nonce'
<1> USE DEF NonceInvariant, TypeInvariant
<1>1. CASE Intake
  BY <1>1, RecordWeakens, QuietWorkers, DeliveryConstants DEF Intake, deliveryVars
<1>2. CASE Tick
  <2>1. Weakens
    BY <1>2 DEF Tick, Weakens, storeVars, jobVars, MustHold
  <2> QED BY <1>2, <2>1, QuietWorkers DEF Tick, deliveryVars
<1>3. ASSUME NEW s \in Services, Stop(s) \/ Start(s) PROVE Nonce'
  BY <1>3, UnchangedWeakens, QuietWorkers DEF Stop, Start
<1>4. ASSUME NEW s \in Services, Crash(s) \/ Exit(s) PROVE Nonce'
  <2>1. Weakens /\ Die(s)
    BY <1>4, UnchangedWeakens DEF Crash, Exit, Die
  <2>2. WorkersKeep
    BY <2>1 DEF Die, WorkersKeep, Active
  <2>3. Exposing
    BY <2>1 DEF Die, Exposing, Active
  <2> QED BY <2>1, <2>2, <2>3, QuietStep DEF Nonce
<1>5. ASSUME NEW s \in Services, ServiceStep(s) PROVE Nonce'
  BY <1>5, ServiceNonce
<1>6. ASSUME NEW w \in Workers, WorkerStep(w) PROVE Nonce'
  BY <1>6, WorkerNonce
<1>7. ASSUME NEW w \in Workers, SettleFails(w) PROVE Nonce'
  <2>1. Weakens
    BY <1>7, UnchangedWeakens DEF SettleFails
  <2>2. WorkersKeep
    BY <1>7 DEF SettleFails, WorkersKeep, Active, DeliveryTypeOK
  <2>3. Exposing
    BY <1>7 DEF SettleFails, Exposing, ghostVars
  <2> QED BY <2>1, <2>2, <2>3, QuietStep DEF Nonce
<1>8. CASE UNCHANGED vars
  BY <1>8, UnchangedWeakens, QuietWorkers DEF vars, deliveryVars
<1> QED BY <1>1, <1>2, <1>3, <1>4, <1>5, <1>6, <1>7, <1>8 DEF Next

(* A wave that is still filled keeps a free slot.                          *)
LEMMA RoomStep ==
    ASSUME NonceInvariant, [Next]_vars
    PROVE  WaveHasRoom'
<1> USE DEF NonceInvariant, TypeInvariant
<1>1. CASE UNCHANGED wave
  BY <1>1 DEF WaveHasRoom
<1>2. ASSUME NEW s \in Services, wave' = [wave EXCEPT ![s] = NoWave]
      PROVE  WaveHasRoom'
  BY <1>2 DEF WaveHasRoom, NoWave, DeliveryTypeOK
<1>3. ASSUME NEW s \in Services, BeginWave(s) PROVE WaveHasRoom'
  BY <1>3 DEF BeginWave, Slots, WaveHasRoom, DeliveryTypeOK
<1>4. ASSUME NEW s \in Services, ClaimPaid(s) \/ ClaimAny(s) PROVE WaveHasRoom'
  <2> DEFINE next_slot(d) == [step |-> "paid", filled |-> wave[s].filled + 1,
                              capacity |-> wave[s].capacity,
                              routes |-> wave[s].routes \union {Route(j) : j \in d}]
  <2>0. wave[s].step # "closed"
    BY <1>4 DEF ClaimPaid, ClaimAny, ClaimSlot
  <2>1. wave[s].filled < wave[s].capacity
        /\ wave[s].filled \in Nat /\ wave[s].capacity \in Nat
    <3>1. wave[s].filled \in 0..CONCURRENCY /\ wave[s].capacity \in 0..CONCURRENCY
      BY DEF DeliveryTypeOK
    <3> QED BY <2>0, <3>1 DEF WaveHasRoom
  <2>2. CASE wave' = [wave EXCEPT ![s] = [wave[s] EXCEPT !.step = "recheck"]]
    <3>1. wave'[s].filled = wave[s].filled /\ wave'[s].capacity = wave[s].capacity
      BY <2>2 DEF DeliveryTypeOK
    <3>2. \A x \in Services : x # s => wave'[x] = wave[x]
      BY <2>2 DEF DeliveryTypeOK
    <3> QED BY <2>1, <3>1, <3>2 DEF WaveHasRoom
  <2>3. ASSUME NEW d \in Dispatches, wave[s].filled + 1 # wave[s].capacity,
               wave' = [wave EXCEPT ![s] = next_slot(d)]
        PROVE  WaveHasRoom'
    <3>1. wave'[s].filled = wave[s].filled + 1 /\ wave'[s].capacity = wave[s].capacity
      BY <2>3 DEF DeliveryTypeOK
    <3>2. \A x \in Services : x # s => wave'[x] = wave[x]
      BY <2>3 DEF DeliveryTypeOK
    <3>3. wave'[s].filled < wave'[s].capacity
      BY <2>1, <2>3, <3>1
    <3> QED BY <3>2, <3>3 DEF WaveHasRoom
  <2>4. \/ wave' = [wave EXCEPT ![s] = [wave[s] EXCEPT !.step = "recheck"]]
        \/ wave' = [wave EXCEPT ![s] = NoWave]
        \/ \E d \in Dispatches : wave[s].filled + 1 # wave[s].capacity
                                   /\ wave' = [wave EXCEPT ![s] = next_slot(d)]
    BY <1>4 DEF ClaimPaid, ClaimAny, ClaimSlot
  <2> QED BY <1>2, <2>2, <2>3, <2>4
<1>5. ASSUME NEW s \in Services, Recheck(s) PROVE WaveHasRoom'
  <2>1. CASE wave' = [wave EXCEPT ![s] = [wave[s] EXCEPT !.step = "any"]]
    BY <1>5, <2>1 DEF Recheck, WaveHasRoom, DeliveryTypeOK
  <2> QED BY <1>2, <1>5, <2>1 DEF Recheck
<1>6. ASSUME NEW s \in Services, ServiceStep(s) PROVE WaveHasRoom'
  BY <1>1, <1>2, <1>3, <1>4, <1>5, <1>6
     DEF ServiceStep, Poll, AuditLimited, LearnedCooldown, StopFilling, deliveryVars, serviceVars
<1>7. ASSUME NEW w \in Workers, WorkerStep(w) PROVE WaveHasRoom'
  BY <1>1, <1>7 DEF WorkerStep, HandBack, Validate, NoDestination, Post, Answer, Settle,
                    Finish, serviceVars
<1> QED BY <1>1, <1>2, <1>6, <1>7
        DEF Next, Intake, Tick, Stop, Crash, Exit, Die, Start, SettleFails, vars,
            deliveryVars, serviceVars

(* The nonce invariant holds initially.                                    *)
LEMMA NonceInit == DeliveryInit => NonceInvariant
<1> SUFFICES ASSUME DeliveryInit PROVE NonceInvariant OBVIOUS
<1>1. TypeOK /\ Init
  BY InitType DEF DeliveryInit
<1>2. DeliveryTypeOK
  <2>1. {} \in Dispatches /\ {{j} : j \in LegacyJobs} \subseteq Dispatches
    BY StoreConstants DEF Dispatches
  <2> QED BY <2>1, NoWaveType DEF DeliveryInit, DeliveryTypeOK
<1>3. WaveHasRoom /\ HeldIsBound /\ LostLeaseIsUncertain
  BY <1>1 DEF DeliveryInit, Init, WaveHasRoom, NoWave, HeldIsBound, LostLeaseIsUncertain, Active
<1>4. EnvelopeWhole
  BY <1>1, StoreConstants DEF Init, EnvelopeWhole
<1>5. ExposedIsKept
  <2> SUFFICES ASSUME NEW j \in LegacyJobs PROVE Bound({j}) /\ MustHold({j})
    BY DEF ExposedIsKept, DeliveryInit
  <2>1. j \in Jobs /\ {j} \in Dispatches
    BY StoreConstants DEF Dispatches
  <2> QED BY <1>1, <2>1 DEF Init, Bound, MustHold
<1> QED BY <1>1, <1>2, <1>3, <1>4, <1>5 DEF NonceInvariant, TypeInvariant

(* The strengthened invariant holds in every reachable state of every      *)
(* instance: any number of services, workers, items, feeds and crashes.    *)
THEOREM NonceInvariantHolds == Spec => []NonceInvariant
<1>1. NonceInvariant /\ [Next]_vars => NonceInvariant'
  BY TypeStep, NonceStep, RoomStep DEF NonceInvariant, Nonce
<1> QED BY <1>1, NonceInit, PTL DEF Spec

(* Every column, worker and wave keeps its type.                           *)
THEOREM TypeCorrect == Spec => []TypeInvariant
<1>1. NonceInvariant => TypeInvariant
  BY DEF NonceInvariant
<1> QED BY <1>1, NonceInvariantHolds, PTL

(* No job is ever in two envelopes that Discord may both have accepted:    *)
(* split_rejected_batch repacks only what is known not to have been sent,  *)
(* whatever happens to the lease between the POST and its answer.          *)
THEOREM NonceCorrect == Spec => []OneNoncePerJob
<1>1. NonceInvariant => OneNoncePerJob
  <2> SUFFICES ASSUME NonceInvariant PROVE \A d \in MaybeSent : Bound(d)
    BY DEF OneNoncePerJob, Bound
  <2> QED BY DEF MaybeSent, NonceInvariant, ExposedIsKept, HeldIsBound, Active
<1> QED BY <1>1, NonceInvariantHolds, PTL

(* The members of an envelope are bound to it and released together.       *)
THEOREM EnvelopesWhole == Spec => []EnvelopeWhole
<1>1. NonceInvariant => EnvelopeWhole
  BY DEF NonceInvariant
<1> QED BY <1>1, NonceInvariantHolds, PTL

-----------------------------------------------------------------------------
(* The refinement of Feed.  Three kinds of steps are visible to a reader:  *)
(* jobs leave the queue, jobs enter it, an acknowledged envelope is shown. *)

Keeps(j) == Stage(j)' = Stage(j)
Leaves(j) == /\ Stage(j) = "waiting"
             /\ Stage(j)' = "dropped" \/ (Stage(j)' = "withdrawn" /\ batch[j] = {})
Enters(j) == /\ Stage(j)' = "waiting"
             /\ Stage(j) = "unlisted" \/ (Stage(j) = "withdrawn" /\ batch[j] = {})

OnlyLeaves == \A j \in Jobs : Keeps(j) \/ Leaves(j)
OnlyEnters == \A j \in Jobs : Keeps(j) \/ Enters(j)

(* What Discord may show is bound to its envelope.                         *)
LEMMA VisibleIsBound ==
    ASSUME NonceInvariant, NEW j \in Jobs, Promise!Visible(j)
    PROVE  batch[j] # {}
BY DEF Promise!Visible, NonceInvariant, ExposedIsKept, Bound

(* Jobs that leave the queue are dropped.                                  *)
LEMMA LeavesIsDrop ==
    ASSUME NonceInvariant, OnlyLeaves, UNCHANGED ghostVars
    PROVE  Promise!Drop
<1> DEFINE S == {j \in Jobs : ~Keeps(j)}
           T == {j \in S : Stage(j)' = "withdrawn"}
<1>1. S \in SUBSET {j \in Jobs : [k \in Jobs |-> Stage(k)][j] = "waiting"}
  BY DEF OnlyLeaves, Leaves
<1>2. T \in SUBSET {j \in S : ~Promise!Visible(j)}
  BY VisibleIsBound DEF OnlyLeaves, Leaves
<1>3. [j \in Jobs |-> Stage(j)]'
        = [j \in Jobs |-> IF j \in T THEN "withdrawn" ELSE Promise!Moved(S, "dropped")[j]]
  <2>1. \A j \in Jobs : Stage(j)' =
            IF j \in T THEN "withdrawn" ELSE IF j \in S THEN "dropped" ELSE Stage(j)
    BY DEF OnlyLeaves, Leaves, Keeps
  <2> QED BY <2>1 DEF Promise!Moved
<1> QED BY <1>1, <1>2, <1>3 DEF Promise!Drop, ghostVars

(* Jobs that enter the queue are offered.                                  *)
LEMMA EntersIsOffer ==
    ASSUME NonceInvariant, OnlyEnters, UNCHANGED ghostVars
    PROVE  Promise!Offer
<1> DEFINE S == {j \in Jobs : ~Keeps(j)}
<1>1. \A j \in S : Stage(j) = "unlisted" \/ (Stage(j) = "withdrawn" /\ ~Promise!Visible(j))
  BY VisibleIsBound DEF OnlyEnters, Enters
<1>2. [j \in Jobs |-> Stage(j)]' = Promise!Moved(S, "waiting")
  <2>1. \A j \in Jobs : Stage(j)' = IF j \in S THEN "waiting" ELSE Stage(j)
    BY DEF OnlyEnters, Enters, Keeps
  <2> QED BY <2>1 DEF Promise!Moved
<1>3. S \in SUBSET {j \in Jobs : [k \in Jobs |-> Stage(k)][j] = "unlisted" \/
              ([k \in Jobs |-> Stage(k)][j] = "withdrawn" /\ ~Promise!Visible(j))}
  BY <1>1
<1> QED BY <1>2, <1>3 DEF Promise!Offer, ghostVars

(* An envelope settled as sent after its acknowledgement is shown.         *)
LEMMA SettledIsShow ==
    ASSUME NonceInvariant, NEW p \in acked, UNCHANGED ghostVars,
           \A j \in Jobs : IF j \in p THEN Stage(j) = "waiting" /\ Stage(j)' = "shown"
                           ELSE Keeps(j)
    PROVE  Promise!Show
<1>1. p \subseteq Jobs
  BY DEF NonceInvariant, TypeInvariant, DeliveryTypeOK, Dispatches
<1>2. \A j \in p : [k \in Jobs |-> Stage(k)][j] = "waiting"
  BY <1>1
<1>3. [j \in Jobs |-> Stage(j)]' = Promise!Moved(p, "shown")
  BY DEF Promise!Moved, Keeps
<1> QED BY <1>2, <1>3 DEF Promise!Show, ghostVars

-----------------------------------------------------------------------------
(* Which transactions make jobs leave, enter or be shown                   *)

(* Transactions that change a job only from live to dropped are drops.     *)
LEMMA RetiringLeaves ==
    ASSUME \A j \in Jobs : \/ state'[j] = state[j]
                           \/ state[j] \in Live /\ state'[j] \in Live
                           \/ state[j] \in Live /\ state'[j] \in {"failed", "expired", "skipped"}
    PROVE  OnlyLeaves
<1> SUFFICES ASSUME NEW j \in Jobs PROVE Keeps(j) \/ Leaves(j)
  BY DEF OnlyLeaves
<1>1. CASE state'[j] = state[j]
  BY <1>1 DEF Keeps, Stage, Live
<1>2. CASE state[j] \in Live /\ state'[j] \in Live
  BY <1>2 DEF Keeps, Stage, Live
<1>3. CASE state[j] \in Live /\ state'[j] \in {"failed", "expired", "skipped"}
  BY <1>3 DEF Leaves, Stage, Live
<1> QED BY <1>1, <1>2, <1>3

(* A transaction that changes nothing drops nothing.                       *)
LEMMA UnchangedLeaves ==
    ASSUME UNCHANGED storeVars
    PROVE  OnlyLeaves
BY RetiringLeaves DEF storeVars, jobVars

(* Stale rows expire.                                                      *)
LEMMA SweepLeaves ==
    ASSUME TypeOK, Sweep
    PROVE  OnlyLeaves
BY RetiringLeaves DEF Sweep, Swept, Stale, TypeOK

(* _cancel_dispatch drops live jobs only.                                  *)
LEMMA CancelLeaves ==
    ASSUME TypeOK, NEW d \in Dispatches, NEW t, CancelDispatch(d, t)
    PROVE  OnlyLeaves
BY RetiringLeaves DEF CancelDispatch, Rows, TypeOK

(* finish_batch drops the jobs of an owned envelope that failed.           *)
LEMMA FailedLeaves ==
    ASSUME TypeOK, NEW d \in Dispatches, NEW t, Owned(d, t), Finished(d, "failed")
    PROVE  OnlyLeaves
BY RetiringLeaves DEF Finished, Owned, Live, TypeOK, Dispatches

(* retry_batch and split_rejected_batch put owned jobs back.               *)
LEMMA RequeuedLeaves ==
    ASSUME TypeOK, NEW d \in Dispatches, NEW t, Owned(d, t),
           \/ \E delay, c, a : Requeued(d, delay, c, a)
           \/ HoldForReview(d) \/ Repack(d)
    PROVE  OnlyLeaves
<1>1. \A j \in Jobs : state'[j] = IF j \in d THEN "pending" ELSE state[j]
  BY DEF Requeued, HoldForReview, Repack
<1>2. \A j \in d : state[j] = "leased"
  BY DEF Owned
<1> QED BY <1>1, <1>2, RetiringLeaves DEF Live

(* claim_batch leases live jobs and retires what it finds invalid.         *)
LEMMA ClaimLeaves ==
    ASSUME NonceInvariant, NEW aud, NEW size, NEW fair, NEW excluded,
           NEW d \in Dispatches, NEW t, ClaimBatch(aud, size, fair, excluded, d, t)
    PROVE  OnlyLeaves
<1>1. PICK gone \in SUBSET Candidates(aud, excluded) : Reserve(d, t, gone)
  BY DEF ClaimBatch
<1>2. \A j \in d : state[j] \in Live
  <2>1. CASE d = {}
    BY <2>1
  <2>2. CASE d # {}
    BY <2>2, ClaimChoice DEF NonceInvariant, TypeInvariant
  <2> QED BY <2>1, <2>2
<1>3. \A j \in gone : j \in Jobs /\ Open(j)
  BY DEF Candidates
<1> SUFFICES ASSUME NEW j \in Jobs PROVE Keeps(j) \/ Leaves(j)
  BY DEF OnlyLeaves
<1>4. CASE state'[j] = "leased" /\ j \in d
  BY <1>2, <1>4 DEF Keeps, Stage, Live
<1>5. CASE state'[j] = "skipped" /\ Open(j)
  BY <1>5 DEF Leaves, Stage, Live, Open
<1>6. CASE state'[j] = "unmatched" /\ batch[j] = {} /\ Open(j)
  BY <1>6 DEF Leaves, Stage, Live, Open
<1>7. CASE state'[j] = Swept[j]
  BY <1>7 DEF Leaves, Keeps, Stage, Live, Swept, Stale
<1> QED BY <1>1, <1>3, <1>4, <1>5, <1>6, <1>7 DEF Reserve

(* record either silences a seeded item or offers jobs of an item.         *)
LEMMA RecordMoves ==
    ASSUME TypeOK, HeldIsBound, NEW i \in Items, NEW o \in Observation,
           NEW seed_only \in BOOLEAN, Record(i, o, seed_only)
    PROVE  OnlyLeaves \/ OnlyEnters
<1>1. CASE seed_only
  <2>1. \A j \in Jobs : state'[j] = state[j] \/ (state[j] \in Live /\ state'[j] = "skipped")
    BY <1>1 DEF Record, Silenced, TypeOK
  <2> QED BY <2>1, RetiringLeaves
<1>2. CASE ~seed_only
  <2>1. \A j \in Jobs : \/ state'[j] = state[j]
                        \/ state[j] = "absent" /\ state'[j] = "pending"
                        \/ state[j] = "unmatched" /\ batch[j] = {} /\ state'[j] = "pending"
    BY <1>2 DEF Record, Rearmable, TypeOK
  <2>2. ASSUME NEW j \in Jobs PROVE Keeps(j) \/ Enters(j)
    <3>1. CASE state'[j] = state[j]
      BY <3>1 DEF Keeps, Stage, Live
    <3>2. CASE state[j] = "absent" /\ state'[j] = "pending"
      BY <3>2 DEF Enters, Stage, Live
    <3>3. CASE state[j] = "unmatched" /\ batch[j] = {} /\ state'[j] = "pending"
      BY <3>3 DEF Enters, Stage, Live
    <3> QED BY <2>1, <3>1, <3>2, <3>3
  <2> QED BY <2>2 DEF OnlyEnters
<1> QED BY <1>1, <1>2

(* finish_batch shows the jobs of an owned envelope that was sent.         *)
LEMMA SentShows ==
    ASSUME TypeOK, NEW d \in Dispatches, NEW t, Owned(d, t), Finished(d, "sent"), NEW j \in Jobs
    PROVE  IF j \in d THEN Stage(j) = "waiting" /\ Stage(j)' = "shown" ELSE Keeps(j)
<1>1. state'[j] = IF j \in d THEN "sent" ELSE state[j]
  BY DEF Finished
<1>2. CASE j \in d
  BY <1>1, <1>2 DEF Owned, Stage, Live
<1>3. CASE j \notin d
  BY <1>1, <1>3 DEF Keeps, Stage, Live
<1> QED BY <1>2, <1>3

-----------------------------------------------------------------------------
(* Every step is a step of Feed or is not seen                             *)

(* Only an answer tells a worker of an acknowledgement, and exposes it.    *)
LEMMA AckedStep ==
    ASSUME NonceInvariant, AckedIsExposed, [Next]_vars
    PROVE  AckedIsExposed'
<1> USE DEF NonceInvariant, TypeInvariant, DeliveryTypeOK, AckedIsExposed
<1>1. CASE UNCHANGED <<workerVars, ghostVars>>
  BY <1>1 DEF workerVars, ghostVars
<1>2. ASSUME NEW w \in Workers, UNCHANGED ghostVars, phase' = [phase EXCEPT ![w] = "idle"],
             held' = [held EXCEPT ![w] = {}]
      PROVE  AckedIsExposed'
  BY <1>2 DEF ghostVars
<1>3. ASSUME NEW w \in Workers, UNCHANGED <<ghostVars, held>>,
             NEW p \in {"ready", "posting"}, phase' = [phase EXCEPT ![w] = p]
      PROVE  AckedIsExposed'
  BY <1>3 DEF ghostVars
<1>4. ASSUME NEW s \in Services, ServiceStep(s) PROVE AckedIsExposed'
  <2>1. CASE ClaimPaid(s) \/ ClaimAny(s)
    <3>1. UNCHANGED workerVars \/ \E d \in Dispatches :
            /\ phase' = [phase EXCEPT ![<<s, wave[s].filled + 1>>] = "claimed"]
            /\ held' = [held EXCEPT ![<<s, wave[s].filled + 1>>] = d]
      BY <2>1 DEF ClaimPaid, ClaimAny, ClaimSlot
    <3>2. UNCHANGED ghostVars
      BY <2>1 DEF ClaimPaid, ClaimAny, ClaimSlot
    <3> QED BY <3>1, <3>2 DEF workerVars, ghostVars
  <2> QED BY <1>1, <1>4, <2>1 DEF ServiceStep, Poll, BeginWave, AuditLimited, LearnedCooldown,
                                  StopFilling, Recheck, deliveryVars
<1>5. ASSUME NEW w \in Workers, WorkerStep(w) PROVE AckedIsExposed'
  <2>1. ASSUME NEW a \in Answers, Answer(w, a) PROVE AckedIsExposed'
    BY <2>1 DEF Answer
  <2> QED BY <1>2, <1>3, <1>5, <2>1
          DEF WorkerStep, HandBack, Validate, NoDestination, Post, Settle, Finish, ghostVars
<1>6. ASSUME NEW s \in Services, Crash(s) \/ Exit(s) PROVE AckedIsExposed'
  BY <1>6 DEF Crash, Exit, Die
<1> QED BY <1>1, <1>2, <1>4, <1>5, <1>6
        DEF Next, Intake, Tick, Stop, Start, SettleFails, vars, deliveryVars, ghostVars

(* A POST that may have been accepted appears.                             *)
LEMMA ExposureAppears ==
    ASSUME NonceInvariant, NonceInvariant', AckedIsExposed', state' = state,
           exposed \subseteq exposed', acked \subseteq acked',
           \A p \in exposed' : p \in exposed \/ \E w \in Workers : Active(w) /\ p = held[w]
    PROVE  Promise!Appear
<1>1. \A p \in exposed' \ exposed : p \subseteq
          {j \in Jobs : [k \in Jobs |-> Stage(k)][j] # "unlisted"}
  <2> SUFFICES ASSUME NEW w \in Workers, Active(w), NEW j \in held[w]
               PROVE  j \in Jobs /\ Stage(j) # "unlisted"
    OBVIOUS
  <2>1. j \in Jobs /\ batch[j] # {}
    BY DEF NonceInvariant, TypeInvariant, DeliveryTypeOK, HeldIsBound, Bound, Dispatches
  <2>2. state[j] # "absent"
    BY <2>1 DEF NonceInvariant, HeldIsBound
  <2> QED BY <2>1, <2>2 DEF Stage
<1>2. \A p, q \in exposed' : p \intersect q # {} => p = q
  BY DEF NonceInvariant, ExposedIsKept, Bound
<1>3. UNCHANGED [j \in Jobs |-> Stage(j)]
  BY DEF Stage
<1> QED BY <1>1, <1>2, <1>3 DEF Promise!Appear, AckedIsExposed

(* Every step of a worker is one of the reader's.                          *)
LEMMA WorkerKeepsPromise ==
    ASSUME NonceInvariant, NonceInvariant', AckedIsExposed, AckedIsExposed',
           NEW w \in Workers, WorkerStep(w)
    PROVE  Promise!Next
<1> USE DEF NonceInvariant, TypeInvariant
<1>0. held[w] \in Dispatches
  BY DEF DeliveryTypeOK
<1>1. CASE UNCHANGED ghostVars /\ OnlyLeaves
  BY <1>1, LeavesIsDrop DEF Promise!Next
<1>2. ASSUME NEW a \in Answers, Answer(w, a) PROVE Promise!Next
  <2>1. state' = state
    BY <1>2 DEF Answer, DeferGlobal, DeferRoute, storeVars, jobVars
  <2>2. Active(w)
    BY <1>2 DEF Answer, Active
  <2> QED BY <1>2, <2>1, <2>2, ExposureAppears DEF Answer, Promise!Next
<1>3. CASE Settle(w) /\ phase[w] = "sent" /\ Owned(held[w], lease[w])
                     /\ Finished(held[w], "sent")
  <2>1. held[w] \in acked /\ UNCHANGED ghostVars
    BY <1>3 DEF AckedIsExposed, Settle, Finish
  <2>2. \A j \in Jobs : IF j \in held[w] THEN Stage(j) = "waiting" /\ Stage(j)' = "shown"
                        ELSE Keeps(j)
    BY <1>0, <1>3, SentShows
  <2> QED BY <2>1, <2>2, SettledIsShow DEF Promise!Next
<1>4. ASSUME NEW c \in BOOLEAN, NEW a \in BOOLEAN, NEW delay \in Nat,
             RetryBatch(held[w], lease[w], delay, c, a)
      PROVE  OnlyLeaves
  BY <1>0, <1>4, UnchangedLeaves, CancelLeaves, RequeuedLeaves DEF RetryBatch, IfOwned
<1>5. ASSUME FinishBatch(held[w], lease[w], "failed") PROVE OnlyLeaves
  BY <1>0, <1>5, UnchangedLeaves, CancelLeaves, FailedLeaves DEF FinishBatch, IfOwned
<1>6. ASSUME SplitRejected(held[w], lease[w]) PROVE OnlyLeaves
  BY <1>0, <1>6, UnchangedLeaves, CancelLeaves, FailedLeaves, RequeuedLeaves
     DEF SplitRejected, IfOwned
<1>7. ASSUME NEW ok \in BOOLEAN, ValidateDispatch(held[w], lease[w], ok) PROVE OnlyLeaves
  BY <1>0, <1>7, UnchangedLeaves, CancelLeaves DEF ValidateDispatch, IfOwned
<1>8. CASE Settle(w)
  <2>1. UNCHANGED ghostVars
    BY <1>8 DEF Settle, Finish
  <2>2. CASE phase[w] = "sent" /\ FinishBatch(held[w], lease[w], "sent")
    <3>1. CASE UNCHANGED <<now, storeVars>> \/ CancelDispatch(held[w], lease[w])
      BY <1>0, <1>1, <2>1, <3>1, UnchangedLeaves, CancelLeaves
    <3> QED BY <1>3, <1>8, <2>2, <3>1 DEF FinishBatch, IfOwned
  <2>3. phase[w] # "sent" => OnlyLeaves
    BY <1>4, <1>5, <1>6, <1>8, DeliveryConstants DEF Settle, Confirmed
  <2> QED BY <1>1, <1>8, <2>1, <2>2, <2>3 DEF Settle, Confirmed
<1>9. CASE HandBack(w) \/ Validate(w) \/ NoDestination(w) \/ Post(w)
  <2>1. UNCHANGED ghostVars
    BY <1>9 DEF HandBack, Validate, NoDestination, Post, Finish
  <2>2. OnlyLeaves
    BY <1>4, <1>5, <1>7, <1>9, UnchangedLeaves, DeliveryConstants
       DEF HandBack, Validate, NoDestination, Post
  <2> QED BY <1>1, <2>1, <2>2
<1> QED BY <1>2, <1>8, <1>9 DEF WorkerStep

(* Every step of a service is one of the reader's.                         *)
LEMMA ServiceKeepsPromise ==
    ASSUME NonceInvariant, NEW s \in Services, ServiceStep(s)
    PROVE  Promise!Next
<1>1. UNCHANGED ghostVars
  BY DEF ServiceStep, Poll, BeginWave, AuditLimited, LearnedCooldown, ClaimPaid, StopFilling,
         Recheck, ClaimAny, ClaimSlot, deliveryVars
<1>2. OnlyLeaves
  <2>1. CASE Poll(s) \/ BeginWave(s)
    BY <2>1, SweepLeaves DEF Poll, BeginWave, NonceInvariant, TypeInvariant
  <2>2. CASE AuditLimited(s) \/ LearnedCooldown(s)
    BY <2>2, RetiringLeaves DEF AuditLimited, LearnedCooldown, DeferGlobal, DeferRoute, jobVars
  <2>3. CASE StopFilling(s) \/ Recheck(s)
    BY <2>3, UnchangedLeaves DEF StopFilling, Recheck
  <2>4. CASE ClaimPaid(s) \/ ClaimAny(s)
    BY <2>4, ClaimLeaves DEF ClaimPaid, ClaimAny, ClaimSlot, Dispatches
  <2> QED BY <2>1, <2>2, <2>3, <2>4 DEF ServiceStep
<1> QED BY <1>1, <1>2, LeavesIsDrop DEF Promise!Next

(* Every step of the delivery is a step of Feed or leaves it unchanged.    *)
LEMMA StepKeepsPromise ==
    ASSUME NonceInvariant, NonceInvariant', AckedIsExposed, AckedIsExposed', [Next]_vars
    PROVE  [Promise!Next]_Promise!vars
<1> USE DEF NonceInvariant, TypeInvariant
<1>1. CASE Intake
  <2>1. PICK i \in Items, o \in Inputs, seed_only \in SeedInputs : Record(i, o, seed_only)
    BY <1>1 DEF Intake
  <2>2. OnlyLeaves \/ OnlyEnters
    BY <2>1, RecordMoves, DeliveryConstants
  <2> QED BY <1>1, <2>2, LeavesIsDrop, EntersIsOffer DEF Intake, deliveryVars, Promise!Next
<1>2. CASE UNCHANGED <<storeVars, ghostVars>>
  <2>1. UNCHANGED [j \in Jobs |-> Stage(j)]
    BY <1>2 DEF storeVars, jobVars, Stage
  <2> QED BY <1>2, <2>1 DEF Promise!vars, ghostVars
<1>3. ASSUME NEW s \in Services, Crash(s) \/ Exit(s) PROVE Promise!Next
  <2>1. Die(s) /\ state' = state
    BY <1>3 DEF Crash, Exit, Die, storeVars, jobVars
  <2> QED BY <2>1, ExposureAppears DEF Die, Active, Promise!Next
<1>4. ASSUME NEW s \in Services, ServiceStep(s) PROVE Promise!Next
  BY <1>4, ServiceKeepsPromise
<1>5. ASSUME NEW w \in Workers, WorkerStep(w) PROVE Promise!Next
  BY <1>5, WorkerKeepsPromise
<1> QED BY <1>1, <1>2, <1>3, <1>4, <1>5
        DEF Next, Tick, Stop, Start, SettleFails, vars, deliveryVars

(* The initial queue is an initial state of Feed.                          *)
LEMMA InitKeepsPromise ==
    ASSUME DeliveryInit PROVE Promise!Init
<1>1. \A j \in Jobs : Stage(j) = IF j \in LegacyJobs THEN "waiting" ELSE "unlisted"
  BY DEF DeliveryInit, Init, Stage, Live
<1> QED BY <1>1 DEF DeliveryInit, Promise!Init

(* The queue, its leases, waves, workers, crashes and clock implement what *)
(* Feed promises a reader: an item is in one post at most of each channel, *)
(* it is recorded as sent only after Discord acknowledged that post, and   *)
(* work that was dropped or possibly shown never comes back.               *)
THEOREM PromiseKept == Spec => KeepsThePromise
<1>1. DeliveryInit => AckedIsExposed
  BY DEF DeliveryInit, AckedIsExposed
<1>2. Spec => []AckedIsExposed
  BY <1>1, AckedStep, NonceInvariantHolds, PTL DEF Spec
<1>3. DeliveryInit => Promise!Init
  BY InitKeepsPromise
<1> QED BY <1>2, <1>3, NonceInvariantHolds, StepKeepsPromise, PTL
        DEF Spec, KeepsThePromise, Promise!Spec

-----------------------------------------------------------------------------
(* The queue.  Again most transactions only retire jobs or leave them as   *)
(* they are; the others requeue, free or lease one whole envelope.         *)

SameRow(j) == /\ state'[j] = state[j] /\ token'[j] = token[j]
              /\ leaseUntil'[j] = leaseUntil[j] /\ nextAttempt'[j] = nextAttempt[j]
Kept(j) == SameRow(j) \/ state'[j] \notin Live

SameFrame == /\ born' = born /\ seeded' = seeded /\ maxItems' = maxItems
             /\ now' \in Nat /\ now <= now'
SameEnvelopes == /\ batch' = batch
                 /\ \A d \in Dispatches : dstate'[d] # "none" => dstate[d] # "none"
                 /\ {} \in uncertain' => {} \in uncertain

(* The body of NoncesKeepTheirJobs.                                        *)
NoncesKept == \A d \in Dispatches :
                 /\ d \in uncertain /\ Rows(d) # {} => Rows(d)' = Rows(d)
                 /\ Retired(d) => Rows(d)' = {}

(* Updating an envelope row creates none.                                  *)
LEMMA SetDispatchOld ==
    ASSUME TypeOK, NEW e, NEW st, SetDispatch(e, st)
    PROVE  \A d \in Dispatches : dstate'[d] # "none" => dstate[d] # "none"
BY DEF SetDispatch, TypeOK

(* With the same envelopes and the same limits, refused ones stay too      *)
(* large and nonces keep their jobs.                                       *)
LEMMA SameRefused ==
    ASSUME RefusedIsTooLarge, NullIsNoEnvelope, SameEnvelopes, maxItems' = maxItems
    PROVE  RefusedIsTooLarge' /\ NullIsNoEnvelope' /\ NoncesKept
<1>1. {} \in Dispatches
  BY DEF Dispatches
<1>2. \A d \in Dispatches : (Retired(d)' => Retired(d)) /\ Rows(d)' = Rows(d)
  BY DEF SameEnvelopes, Retired, Rows
<1>3. NoncesKept
  BY <1>2 DEF NoncesKept, Retired
<1> QED BY <1>1, <1>2, <1>3 DEF RefusedIsTooLarge, NullIsNoEnvelope, SameEnvelopes

(* Time and retirement never lengthen a lease.                             *)
LEMMA OpenBefore ==
    ASSUME TypeOK, SameFrame, NEW j \in Jobs, Kept(j), Open(j)'
    PROVE  Open(j) /\ SameRow(j)
<1>1. Expires(j)' = Expires(j) /\ Expires(j) \in Nat
  BY DueType DEF SameFrame, Expires, Due
<1> QED BY <1>1 DEF Open, Kept, SameRow, SameFrame, TypeOK

(* A step that only retires jobs keeps the queue's invariant.              *)
LEMMA RetireQueue ==
    ASSUME TypeOK, QueueInvariant, SameFrame, SameEnvelopes, \A j \in Jobs : Kept(j)
    PROVE  QueueInvariant' /\ NoncesKept
<1>1. MovesTogether'
  <2>1. \A j \in Jobs : Expires(j)' = Expires(j)
    BY DEF SameFrame, Expires, Due
  <2> QED BY <2>1 DEF QueueInvariant, MovesTogether, Kept, SameRow, SameEnvelopes
<1>2. LeasedWasDue'
  <2> SUFFICES ASSUME NEW j \in Jobs, state'[j] = "leased"
               PROVE  batch'[j] # {} /\ nextAttempt'[j] <= now'
    BY DEF LeasedWasDue
  <2>1. SameRow(j) /\ nextAttempt[j] \in Nat /\ now \in Nat
    BY DEF Kept, Live, TypeOK
  <2>2. state[j] = "leased" /\ nextAttempt[j] <= now /\ batch[j] # {}
    BY <2>1 DEF SameRow, QueueInvariant, LeasedWasDue
  <2> QED BY <2>1, <2>2 DEF SameRow, SameFrame, SameEnvelopes
<1>3. RefusedIsTooLarge' /\ NullIsNoEnvelope' /\ NoncesKept
  BY SameRefused DEF QueueInvariant, SameFrame
<1>4. OneLeasePerRoute'
  <2> SUFFICES ASSUME NEW j \in Jobs, NEW k \in Jobs, Route(j) = Route(k),
                      state'[j] = "leased", state'[k] = "leased", Open(j)', Open(k)',
                      leaseUntil'[j] > now', leaseUntil'[k] > now'
               PROVE  batch'[j] = batch'[k] /\ token'[j] = token'[k]
    BY DEF OneLeasePerRoute
  <2>1. Open(j) /\ SameRow(j) /\ Open(k) /\ SameRow(k)
    BY OpenBefore
  <2>2. leaseUntil[j] > now /\ leaseUntil[k] > now
    BY <2>1 DEF SameRow, SameFrame, TypeOK
  <2> QED BY <2>1, <2>2 DEF SameRow, SameEnvelopes, QueueInvariant, OneLeasePerRoute
<1>5. SeededStaysSilent'
  BY DEF QueueInvariant, SeededStaysSilent, SameFrame, Kept, SameRow
<1> QED BY <1>1, <1>2, <1>3, <1>4, <1>5 DEF QueueInvariant

-----------------------------------------------------------------------------
(* Transactions that only retire                                           *)

OnlyRetires == SameFrame /\ SameEnvelopes /\ \A j \in Jobs : Kept(j)

(* A transaction that changes nothing retires nothing.                     *)
LEMMA UnchangedRetires ==
    ASSUME TypeOK, UNCHANGED <<now, storeVars>>
    PROVE  OnlyRetires
BY DEF OnlyRetires, SameFrame, SameEnvelopes, Kept, SameRow, storeVars, itemVars, jobVars, TypeOK

(* Neither does the clock.                                                 *)
LEMMA TickRetires ==
    ASSUME TypeOK, Tick
    PROVE  OnlyRetires
BY DEF Tick, OnlyRetires, SameFrame, SameEnvelopes, Kept, SameRow, storeVars, itemVars, jobVars,
       TypeOK

(* Raising a gate retires nothing.                                         *)
LEMMA DeferRetires ==
    ASSUME TypeOK, NEW until, NEW r, DeferGlobal(until) \/ DeferRoute(r, until)
    PROVE  OnlyRetires
BY DEF DeferGlobal, DeferRoute, OnlyRetires, SameFrame, SameEnvelopes, Kept, SameRow, itemVars,
       jobVars, TypeOK

(* The sweep retires stale rows.                                           *)
LEMMA SweepRetires ==
    ASSUME TypeOK, Sweep
    PROVE  OnlyRetires
<1>1. \A j \in Jobs : state'[j] = state[j] \/ state'[j] \notin Live
  BY DEF Sweep, Swept, Live, TypeOK
<1> QED BY <1>1 DEF Sweep, OnlyRetires, SameFrame, SameEnvelopes, Kept, SameRow, itemVars, TypeOK

(* _cancel_dispatch retires the members it cancels.                        *)
LEMMA CancelRetires ==
    ASSUME TypeOK, NEW d \in Dispatches, NEW t, CancelDispatch(d, t)
    PROVE  OnlyRetires
<1>1. \A j \in Jobs : Kept(j)
  BY DEF CancelDispatch, Unlease, Kept, SameRow, Live, TypeOK
<1>2. SameEnvelopes
  BY SetDispatchOld DEF CancelDispatch, SameEnvelopes
<1> QED BY <1>1, <1>2 DEF CancelDispatch, OnlyRetires, SameFrame, itemVars, TypeOK

(* finish_batch retires the envelope.                                      *)
LEMMA FinishedRetires ==
    ASSUME TypeOK, NEW d \in Dispatches, NEW st \in {"sent", "failed"}, Finished(d, st)
    PROVE  OnlyRetires
<1>1. \A j \in Jobs : Kept(j)
  BY DEF Finished, Unlease, Kept, SameRow, Live, TypeOK
<1>2. SameEnvelopes
  BY SetDispatchOld DEF Finished, SameEnvelopes
<1> QED BY <1>1, <1>2 DEF Finished, OnlyRetires, SameFrame, itemVars, TypeOK

(* A claim that returns nothing retires what it found invalid.             *)
LEMMA ClaimNoneRetires ==
    ASSUME TypeOK, NEW aud, NEW size, NEW fair, NEW excluded, NEW t,
           ClaimBatch(aud, size, fair, excluded, {}, t)
    PROVE  OnlyRetires
<1>1. PICK gone \in SUBSET Jobs : Reserve({}, t, gone)
  BY DEF ClaimBatch, Candidates
<1>2. \A j \in Jobs : Kept(j)
  BY <1>1 DEF Reserve, Swept, Kept, SameRow, Live, TypeOK
<1>3. SameEnvelopes
  BY <1>1 DEF Reserve, SameEnvelopes, Recovered, TypeOK
<1> QED BY <1>1, <1>2, <1>3 DEF Reserve, OnlyRetires, SameFrame, itemVars, TypeOK

-----------------------------------------------------------------------------
(* An owner puts its envelope back or frees it                             *)

(* Jobs that are not newly leased keep what the leases promise.            *)
LEMMA NotLeasing ==
    ASSUME TypeOK, QueueInvariant, born' = born, now' = now,
           \A j \in Jobs : (SameRow(j) /\ batch'[j] = batch[j]) \/ state'[j] # "leased"
    PROVE  LeasedWasDue' /\ OneLeasePerRoute'
<1>1. LeasedWasDue'
  BY DEF LeasedWasDue, QueueInvariant, SameRow
<1>2. \A j \in Jobs : Open(j)' => state'[j] \in Live /\ Expires(j) > now
  BY DEF Open, Expires, Due
<1>3. \A j \in Jobs : state'[j] = "leased" /\ Open(j)' => Open(j)
  BY <1>2 DEF Open, SameRow
<1>4. OneLeasePerRoute'
  BY <1>3 DEF OneLeasePerRoute, QueueInvariant, SameRow
<1> QED BY <1>1, <1>4

(* Jobs that do not become live keep the silence of seeded items.          *)
LEMMA NotReviving ==
    ASSUME QueueInvariant, seeded' = seeded,
           \A j \in Jobs : state'[j] \in Live => state[j] \in Live
    PROVE  SeededStaysSilent'
BY DEF QueueInvariant, SeededStaysSilent

(* The envelope becomes pending as a whole.                                *)
LEMMA RequeueQueue ==
    ASSUME TypeOK, QueueInvariant, SameFrame, now' = now, SameEnvelopes,
           NEW d \in Dispatches, NEW t, Owned(d, t), NEW n,
           \A j \in d : state'[j] = "pending",
           (\A j \in d : nextAttempt'[j] = n) \/ (\A j \in d : nextAttempt'[j] >= Expires(j)),
           \A j \in Jobs \ d : SameRow(j)
    PROVE  QueueInvariant' /\ NoncesKept
<1>0. d \subseteq Jobs /\ \A j \in d : state[j] = "leased"
  BY DEF Dispatches, Owned
<1>1. MovesTogether'
  <2> SUFFICES ASSUME NEW j \in Jobs, NEW k \in Jobs, batch[j] # {}, batch[j] = batch[k],
                      state'[j] \in Live, state'[k] \in Live
               PROVE  /\ state'[j] = state'[k]
                      /\ state'[j] = "pending" => nextAttempt'[j] = nextAttempt'[k]
                                                    \/ nextAttempt'[j] >= Expires(j)'
    BY DEF MovesTogether, SameEnvelopes
  <2>1. Expires(j)' = Expires(j)
    BY DEF SameFrame, Expires, Due
  <2>2. j \in d <=> k \in d
    BY DEF Owned, Rows
  <2>3. CASE j \in d /\ k \in d
    BY <2>1, <2>3
  <2>4. CASE j \notin d /\ k \notin d
    BY <2>1, <2>4 DEF SameRow, QueueInvariant, MovesTogether
  <2> QED BY <2>2, <2>3, <2>4
<1>2. LeasedWasDue' /\ OneLeasePerRoute'
  BY NotLeasing DEF SameFrame, SameEnvelopes
<1>3. RefusedIsTooLarge' /\ NullIsNoEnvelope' /\ NoncesKept
  BY SameRefused DEF QueueInvariant, SameFrame
<1>4. SeededStaysSilent'
  BY <1>0, NotReviving DEF SameFrame, SameRow, Live
<1> QED BY <1>1, <1>2, <1>3, <1>4 DEF QueueInvariant

(* A refused envelope is freed, and the limit shuts it out.                *)
LEMMA RepackQueue ==
    ASSUME TypeOK, EnvelopeWhole, QueueInvariant, NEW d \in Dispatches, d # {},
           Cardinality(d) # 1, NEW t, Owned(d, t), ~MustHold(d), Repack(d)
    PROVE  QueueInvariant' /\ NoncesKept
<1>0. d \subseteq Jobs /\ \A j \in d : state[j] = "leased" /\ batch[j] = d
  BY DEF Dispatches, Owned, Rows
<1>1. \A j \in Jobs : IF j \in d THEN state'[j] = "pending" /\ batch'[j] = {}
                      ELSE SameRow(j) /\ batch'[j] = batch[j]
  BY DEF Repack, Unlease, SameRow, TypeOK
<1>2. \A e \in Dispatches : e # {} /\ e # d => Rows(e)' = Rows(e)
  BY <1>0, <1>1 DEF Rows
<1>3. MovesTogether'
  <2>1. \A j \in Jobs : Expires(j)' = Expires(j)
    BY DEF Repack, Expires, Due
  <2> QED BY <1>1, <2>1 DEF QueueInvariant, MovesTogether, SameRow
<1>4. LeasedWasDue' /\ OneLeasePerRoute'
  BY <1>1, NotLeasing DEF Repack
<1>5. SeededStaysSilent'
  BY <1>0, <1>1, NotReviving DEF Repack, SameRow, Live, itemVars
<1>6. NullIsNoEnvelope'
  BY DEF Repack, SetDispatch, NullIsNoEnvelope, QueueInvariant, TypeOK, Dispatches
<1>7. NoncesKept
  <2> SUFFICES ASSUME NEW e \in Dispatches
               PROVE  /\ e \in uncertain /\ Rows(e) # {} => Rows(e)' = Rows(e)
                      /\ Retired(e) => Rows(e)' = {}
    BY DEF NoncesKept
  <2>1. CASE e = d
    BY <1>0, <2>1 DEF MustHold, Retired, Rows
  <2>2. CASE e = {}
    BY <2>2 DEF QueueInvariant, NullIsNoEnvelope, Retired
  <2>3. CASE e # {} /\ e # d
    BY <1>2, <2>3 DEF Retired
  <2> QED BY <2>1, <2>2, <2>3
<1>8. /\ SplitLimit(Cardinality(d)) \in Nat \ {0} /\ SplitLimit(Cardinality(d)) < Cardinality(d)
      /\ Cardinality(d) \in Nat
  BY FiniteDispatch, FS_EmptySet, SplitLimitType
<1>9. \A r \in Routes : maxItems'[r] <= maxItems[r] /\ maxItems'[r] >= 1
                        /\ (r \in {Route(j) : j \in d} => maxItems'[r] <= SplitLimit(Cardinality(d)))
  <2>1. \A r \in Routes : maxItems[r] \in Nat /\ maxItems[r] >= 1
    BY DEF TypeOK, QueueInvariant, RefusedIsTooLarge
  <2> DEFINE n == SplitLimit(Cardinality(d))
  <2>2. \A r \in Routes : maxItems'[r] =
            IF r \in {Route(j) : j \in d} /\ n < maxItems[r] THEN n ELSE maxItems[r]
    BY DEF Repack
  <2>3. n \in Nat /\ n >= 1
    BY <1>8
  <2> HIDE DEF n
  <2>4. \A r \in Routes : maxItems'[r] <= maxItems[r] /\ maxItems'[r] >= 1
                          /\ (r \in {Route(j) : j \in d} => maxItems'[r] <= n)
    BY <2>1, <2>2, <2>3
  <2> QED BY <2>4 DEF n
<1>10. RefusedIsTooLarge'
  <2> SUFFICES ASSUME NEW e \in Dispatches, Retired(e)', NEW j \in e
               PROVE  maxItems'[Route(j)] < Cardinality(e)
    BY <1>9 DEF RefusedIsTooLarge
  <2>1. j \in Jobs /\ Route(j) \in Routes /\ maxItems[Route(j)] \in Nat
        /\ maxItems'[Route(j)] \in Nat /\ Cardinality(e) \in Nat
    BY RouteType, RepackType, FiniteDispatch DEF Dispatches, TypeOK
  <2>2. CASE e = d
    BY <1>8, <1>9, <2>1, <2>2
  <2>3. CASE e # d
    <3>1. Retired(e)
      BY <1>2, <2>3 DEF Retired, Repack, SetDispatch, TypeOK
    <3>2. maxItems[Route(j)] < Cardinality(e)
      BY <3>1 DEF QueueInvariant, RefusedIsTooLarge
    <3> QED BY <1>9, <2>1, <3>2
  <2> QED BY <2>2, <2>3
<1> QED BY <1>3, <1>4, <1>5, <1>6, <1>7, <1>10 DEF QueueInvariant

-----------------------------------------------------------------------------
(* Claiming and recording                                                  *)

(* What a claim knows of the job it starts from and of the envelope.       *)
LEMMA ClaimRows ==
    ASSUME TypeOK, EnvelopeWhole, QueueInvariant, NEW aud, NEW size \in Nat, NEW fair,
           NEW excluded, NEW d \in Dispatches \ {{}}, NEW t,
           ClaimBatch(aud, size, fair, excluded, d, t)
    PROVE  /\ \A k \in d : Eligible(k) /\ nextAttempt[k] <= now /\ ~Busy(Route(k))
           /\ \/ Bound(d)
              \/ /\ \A k \in d : batch[k] = {}
                 /\ \/ \E k \in d : d = {k}
                    \/ \A k \in d : Cardinality(d) <= maxItems[Route(k)]
           /\ \E gone \in SUBSET Jobs : Reserve(d, t, gone)
<1>1. PICK gone \in SUBSET Jobs, j \in Candidates(aud, excluded) :
            /\ d \in Envelopes(j, size)
            /\ \A k \in d : Eligible(k)
            /\ Reserve(d, t, gone)
  BY DEF ClaimBatch, Candidates, First
<1>2. /\ j \in Jobs /\ nextAttempt[j] <= now /\ ~Busy(Route(j)) /\ ~SiblingWaits(j)
  BY DEF Candidates
<1>3. CASE batch[j] # {}
  <2>1. d = batch[j]
    BY <1>1, <1>3 DEF Envelopes
  <2>2. \A k \in d : k \in Jobs /\ batch[k] = d /\ Route(k) = Route(j)
    BY <1>2, <1>3, <2>1 DEF EnvelopeWhole, Dispatches
  <2>3. \A k \in d : nextAttempt[k] <= now
    <3> SUFFICES ASSUME NEW k \in d PROVE nextAttempt[k] <= now OBVIOUS
    <3>1. k \in Rows(batch[j]) /\ Open(k) /\ nextAttempt[k] \in Nat /\ now \in Nat
      BY <1>1, <2>1, <2>2 DEF Rows, Eligible, TypeOK
    <3>2. CASE state[k] = "leased"
      BY <2>2, <3>2 DEF QueueInvariant, LeasedWasDue
    <3>3. CASE state[k] = "pending"
      BY <1>2, <1>3, <3>1, <3>3 DEF SiblingWaits
    <3> QED BY <3>1, <3>2, <3>3 DEF Open, Live
  <2>4. Bound(d)
    BY <2>2 DEF Bound
  <2> QED BY <1>1, <1>2, <2>2, <2>3, <2>4
<1>4. CASE batch[j] = {}
  <2>1. d = {j} \/ \E f \in SUBSET Fillable(j) :
                        d = {j} \union f /\ Cardinality(d) <= SizeLimit(Route(j), size)
    BY <1>1, <1>4 DEF Envelopes, NewEnvelopes
  <2>2. \A k \in d : batch[k] = {} /\ Route(k) = Route(j) /\ nextAttempt[k] <= now
    BY <1>2, <1>4, <2>1 DEF Fillable
  <2>3. SizeLimit(Route(j), size) <= maxItems[Route(j)]
    <3>1. maxItems[Route(j)] \in Nat
      BY <1>2, RouteType DEF TypeOK
    <3>2. FREE_SIZE \in Nat
      BY StoreConstants
    <3> QED BY <3>1, <3>2 DEF SizeLimit
  <2>4. SizeLimit(Route(j), size) \in Nat /\ maxItems[Route(j)] \in Nat /\ Cardinality(d) \in Nat
    BY <1>2, RouteType, FiniteDispatch, StoreConstants DEF TypeOK, SizeLimit
  <2>5. d = {j} \/ \A k \in d : Cardinality(d) <= maxItems[Route(k)]
    BY <2>1, <2>2, <2>3, <2>4
  <2> QED BY <1>1, <1>2, <2>2, <2>5
<1> QED BY <1>3, <1>4

(* Leasing an envelope keeps the queue's invariant: nobody else has a      *)
(* lease on its feed, and an envelope that was refused is not formed again.*)
LEMMA ClaimQueue ==
    ASSUME TypeOK, EnvelopeWhole, EnvelopeWhole', QueueInvariant, NEW aud, NEW size \in Nat,
           NEW fair, NEW excluded, NEW d \in Dispatches \ {{}}, NEW t,
           ClaimBatch(aud, size, fair, excluded, d, t)
    PROVE  QueueInvariant' /\ NoncesKept
<1>1. PICK gone \in SUBSET Jobs : Reserve(d, t, gone)
  BY ClaimRows
<1>2. /\ \A k \in d : k \in Jobs /\ Eligible(k) /\ nextAttempt[k] <= now /\ ~Busy(Route(k))
      /\ \/ Bound(d)
         \/ /\ \A k \in d : batch[k] = {}
            /\ \/ \E k \in d : d = {k}
               \/ \A k \in d : Cardinality(d) <= maxItems[Route(k)]
  BY ClaimRows DEF Dispatches
<1>3. /\ \A j \in d : batch'[j] = d /\ state'[j] = "leased" /\ token'[j] = t
      /\ \A j \in Jobs \ d : batch'[j] = batch[j] /\ Kept(j)
      /\ nextAttempt' = nextAttempt
  <2>1. \A j \in Jobs \ d : SameRow(j) \/ state'[j] \in {"expired", "skipped", "unmatched"}
    BY <1>1 DEF Reserve, Swept, SameRow, TypeOK
  <2>2. \A j \in Jobs \ d : Kept(j)
    BY <2>1 DEF Kept, Live
  <2>3. nextAttempt' = nextAttempt
    BY <1>1 DEF Reserve
  <2> QED BY <1>1, <2>2, <2>3, ReserveEffect
<1>4. SameFrame /\ now' = now
  BY <1>1 DEF Reserve, SameFrame, itemVars, TypeOK
<1>5. \A j, k \in Jobs : batch'[j] # {} /\ batch'[j] = batch'[k] => (j \in d <=> k \in d)
  BY <1>3 DEF EnvelopeWhole
<1>6. MovesTogether'
  <2> SUFFICES ASSUME NEW j \in Jobs, NEW k \in Jobs, batch'[j] # {}, batch'[j] = batch'[k],
                      state'[j] \in Live, state'[k] \in Live
               PROVE  /\ state'[j] = state'[k]
                      /\ state'[j] = "pending" => nextAttempt'[j] = nextAttempt'[k]
                                                    \/ nextAttempt'[j] >= Expires(j)'
    BY DEF MovesTogether
  <2>1. CASE j \in d /\ k \in d
    BY <1>3, <2>1
  <2>2. CASE j \notin d /\ k \notin d
    <3>1. SameRow(j) /\ SameRow(k) /\ batch[j] = batch[k] /\ batch[j] # {}
      BY <1>3, <2>2 DEF Kept
    <3>2. Expires(j)' = Expires(j)
      BY <1>4 DEF SameFrame, Expires, Due
    <3> QED BY <3>1, <3>2 DEF SameRow, QueueInvariant, MovesTogether
  <2> QED BY <1>5, <2>1, <2>2
<1>7. LeasedWasDue'
  <2> SUFFICES ASSUME NEW j \in Jobs, state'[j] = "leased"
               PROVE  batch'[j] # {} /\ nextAttempt'[j] <= now'
    BY DEF LeasedWasDue
  <2>1. CASE j \in d
    BY <1>2, <1>3, <1>4, <2>1
  <2>2. CASE j \notin d
    BY <1>3, <1>4, <2>2 DEF Kept, SameRow, Live, QueueInvariant, LeasedWasDue
  <2> QED BY <2>1, <2>2
<1>8. OneLeasePerRoute'
  <2>1. ASSUME NEW j \in d, NEW k \in Jobs \ d, Route(j) = Route(k), state'[k] = "leased",
               Open(k)', leaseUntil'[k] > now'
        PROVE  FALSE
    <3>1. SameRow(k) /\ Open(k)
      BY <1>3, <1>4, <2>1, OpenBefore
    <3>2. state[k] = "leased" /\ leaseUntil[k] > now
      BY <1>4, <2>1, <3>1 DEF SameRow
    <3> QED BY <1>2, <2>1, <3>1, <3>2 DEF Busy
  <2> SUFFICES ASSUME NEW j \in Jobs, NEW k \in Jobs, Route(j) = Route(k),
                      state'[j] = "leased", state'[k] = "leased", Open(j)', Open(k)',
                      leaseUntil'[j] > now', leaseUntil'[k] > now'
               PROVE  batch'[j] = batch'[k] /\ token'[j] = token'[k]
    BY DEF OneLeasePerRoute
  <2>2. CASE j \in d /\ k \in d
    BY <1>3, <2>2
  <2>3. CASE j \notin d /\ k \notin d
    <3>1. Open(j) /\ SameRow(j) /\ Open(k) /\ SameRow(k)
      BY <1>3, <1>4, <2>3, OpenBefore
    <3> QED BY <1>3, <1>4, <2>3, <3>1 DEF SameRow, QueueInvariant, OneLeasePerRoute
  <2> QED BY <2>1, <2>2, <2>3
<1>9. SeededStaysSilent'
  <2>1. \A j \in Jobs : state'[j] \in Live => Item(j) \notin seeded
    BY <1>2, <1>3 DEF Kept, SameRow, Eligible, QueueInvariant, SeededStaysSilent
  <2> QED BY <1>4, <2>1 DEF SameFrame, SeededStaysSilent
<1>10. NullIsNoEnvelope'
  BY <1>1 DEF Reserve, NullIsNoEnvelope, QueueInvariant, Dispatches
<1>11. \A e \in Dispatches : e # {} /\ e # d => Rows(e)' = Rows(e)
  BY <1>2, <1>3 DEF Rows, Bound
<1>12. Rows(d)' # {} /\ (Bound(d) => Rows(d)' = Rows(d) /\ Rows(d) # {})
       /\ (~Bound(d) => Rows(d) = {})
  <2>1. Rows(d)' # {}
    BY <1>2, <1>3 DEF Rows
  <2>2. ASSUME Bound(d) PROVE Rows(d)' = Rows(d) /\ Rows(d) # {}
    BY <1>2, <1>3, <2>1, <2>2 DEF Rows, Bound
  <2>3. ASSUME ~Bound(d) PROVE Rows(d) = {}
    BY <1>2, <2>3 DEF Rows, Bound, EnvelopeWhole
  <2> QED BY <2>1, <2>2, <2>3
<1>13. NoncesKept
  <2> SUFFICES ASSUME NEW e \in Dispatches
               PROVE  /\ e \in uncertain /\ Rows(e) # {} => Rows(e)' = Rows(e)
                      /\ Retired(e) => Rows(e)' = {}
    BY DEF NoncesKept
  <2>1. CASE e = {}
    BY <2>1 DEF QueueInvariant, NullIsNoEnvelope, Retired
  <2>2. CASE e # {} /\ e # d
    BY <1>11, <2>2 DEF Retired
  <2>3. CASE e = d
    <3>1. ~Retired(d)
      <4> SUFFICES ASSUME Retired(d) PROVE FALSE OBVIOUS
      <4>1. Rows(d) = {}
        BY DEF Retired
      <4>2. ~Bound(d)
        BY <1>12, <4>1
      <4>3. \A k \in d : Route(k) \in Routes /\ maxItems[Route(k)] \in Nat
                         /\ maxItems[Route(k)] >= 1 /\ maxItems[Route(k)] < Cardinality(d)
        BY <1>2, RouteType DEF TypeOK, QueueInvariant, RefusedIsTooLarge
      <4>4. Cardinality(d) \in Nat
        BY FiniteDispatch
      <4>5. CASE \E k \in d : d = {k}
        <5>1. Cardinality(d) = 1
          BY <4>5, FS_Singleton
        <5> QED BY <4>3, <4>5, <5>1
      <4>6. CASE \A k \in d : Cardinality(d) <= maxItems[Route(k)]
        BY <4>3, <4>4, <4>6
      <4> QED BY <1>2, <4>2, <4>5, <4>6
    <3> QED BY <1>12, <2>3, <3>1
  <2> QED BY <2>1, <2>2, <2>3
<1>14. RefusedIsTooLarge'
  <2>1. \A e \in Dispatches : Retired(e)' => Retired(e)
    <3> SUFFICES ASSUME NEW e \in Dispatches, Retired(e)' PROVE Retired(e) OBVIOUS
    <3>1. e # d /\ e # {}
      BY <1>10, <1>12 DEF Retired, NullIsNoEnvelope
    <3>2. dstate[e] # "none"
      BY <1>1, <3>1 DEF Retired, Reserve
    <3> QED BY <1>11, <3>1, <3>2 DEF Retired
  <2> QED BY <1>4, <2>1 DEF SameFrame, QueueInvariant, RefusedIsTooLarge
<1> QED BY <1>6, <1>7, <1>8, <1>9, <1>10, <1>13, <1>14 DEF QueueInvariant

(* Intake adds unbound jobs of items that are not seeded.                  *)
LEMMA RecordQueue ==
    ASSUME TypeOK, HeldIsBound, QueueInvariant, NEW i \in Items, NEW o \in Observation,
           NEW seed_only \in BOOLEAN, Record(i, o, seed_only)
    PROVE  QueueInvariant' /\ NoncesKept
<1>1. \A j \in Jobs : batch[j] # {} => Kept(j) /\ born'[j] = born[j]
  BY DEF Record, Rearmable, HeldIsBound, Kept, SameRow, Live, TypeOK
<1>2. \A j \in Jobs : state'[j] = "leased" => SameRow(j) /\ born'[j] = born[j]
  BY DEF Record, SameRow, TypeOK
<1>3. SameEnvelopes /\ now' = now /\ maxItems' = maxItems
  BY DEF Record, SameEnvelopes
<1>4. MovesTogether'
  <2>1. \A j \in Jobs : batch[j] # {} => Expires(j)' = Expires(j)
    BY <1>1 DEF Expires, Due
  <2> QED BY <1>1, <1>3, <2>1 DEF QueueInvariant, MovesTogether, SameEnvelopes, Kept, SameRow
<1>5. LeasedWasDue'
  BY <1>2, <1>3 DEF QueueInvariant, LeasedWasDue, SameEnvelopes, SameRow
<1>6. OneLeasePerRoute'
  <2>1. \A j \in Jobs : state'[j] = "leased" /\ Open(j)' => Open(j)
    BY <1>2, <1>3 DEF Open, Expires, Due, SameRow
  <2> QED BY <1>2, <1>3, <2>1 DEF QueueInvariant, OneLeasePerRoute, SameEnvelopes, SameRow
<1>7. RefusedIsTooLarge' /\ NullIsNoEnvelope' /\ NoncesKept
  BY <1>3, SameRefused DEF QueueInvariant
<1>8. SeededStaysSilent'
  <2> SUFFICES ASSUME NEW j \in Jobs, Item(j) \in seeded', state'[j] \in Live PROVE FALSE
    BY DEF SeededStaysSilent
  <2>1. CASE seed_only /\ Item(j) = i
    BY <2>1 DEF Record, Silenced, Live
  <2>2. CASE ~seed_only \/ Item(j) # i
    <3>1. Item(j) \in seeded
      BY <2>2 DEF Record
    <3>2. state[j] \notin Live
      BY <3>1 DEF QueueInvariant, SeededStaysSilent
    <3>3. state'[j] \in {state[j], "skipped"}
      BY <2>2, <3>1 DEF Record
    <3> QED BY <3>2, <3>3 DEF Live
  <2> QED BY <2>1, <2>2
<1> QED BY <1>4, <1>5, <1>6, <1>7, <1>8 DEF QueueInvariant

-----------------------------------------------------------------------------
(* Every step keeps the queue's invariant and the nonces' jobs             *)

(* A step that only retires.                                               *)
LEMMA RetiresQueue ==
    ASSUME TypeOK, QueueInvariant, OnlyRetires
    PROVE  QueueInvariant' /\ NoncesKept
BY RetireQueue DEF OnlyRetires

(* retry_batch.                                                            *)
LEMMA RetryQueue ==
    ASSUME TypeOK, QueueInvariant, NEW d \in Dispatches, NEW t, NEW delay \in Nat,
           NEW c, NEW a, d # {}, RetryBatch(d, t, delay, c, a)
    PROVE  QueueInvariant' /\ NoncesKept
<1>1. CASE UNCHANGED <<now, storeVars>> \/ CancelDispatch(d, t)
  BY <1>1, UnchangedRetires, CancelRetires, RetiresQueue
<1>2. CASE Owned(d, t) /\ Requeued(d, delay, c, a)
  <2>1. SameFrame /\ now' = now
    BY <1>2 DEF Requeued, SameFrame, itemVars, TypeOK
  <2>2. SameEnvelopes
    BY <1>2, SetDispatchOld DEF Requeued, SameEnvelopes
  <2>3. \A j \in d : j \in Jobs /\ state'[j] = "pending" /\ nextAttempt'[j] = now + delay
    BY <1>2 DEF Requeued, Dispatches
  <2>4. \A j \in Jobs \ d : SameRow(j)
    BY <1>2 DEF Requeued, Unlease, SameRow, TypeOK
  <2> QED BY <1>2, <2>1, <2>2, <2>3, <2>4, RequeueQueue
<1> QED BY <1>1, <1>2 DEF RetryBatch, IfOwned

(* finish_batch.                                                           *)
LEMMA FinishQueue ==
    ASSUME TypeOK, QueueInvariant, NEW d \in Dispatches, NEW t, NEW st \in {"sent", "failed"},
           FinishBatch(d, t, st)
    PROVE  QueueInvariant' /\ NoncesKept
BY UnchangedRetires, CancelRetires, FinishedRetires, RetiresQueue DEF FinishBatch, IfOwned

(* split_rejected_batch.                                                   *)
LEMMA SplitQueue ==
    ASSUME TypeOK, EnvelopeWhole, QueueInvariant, NEW d \in Dispatches, d # {}, NEW t,
           SplitRejected(d, t)
    PROVE  QueueInvariant' /\ NoncesKept
<1>1. CASE \/ UNCHANGED <<now, storeVars>> \/ CancelDispatch(d, t) \/ Finished(d, "failed")
  BY <1>1, UnchangedRetires, CancelRetires, FinishedRetires, RetiresQueue
<1>2. CASE Owned(d, t) /\ HoldForReview(d)
  <2>1. SameFrame /\ now' = now
    BY <1>2 DEF HoldForReview, SameFrame, itemVars, TypeOK
  <2>2. SameEnvelopes
    BY <1>2, SetDispatchOld DEF HoldForReview, SameEnvelopes
  <2>3. \A j \in d : j \in Jobs /\ state'[j] = "pending" /\ nextAttempt'[j] = Expires(j)
    BY <1>2 DEF HoldForReview, Dispatches
  <2>4. \A j \in d : nextAttempt'[j] >= Expires(j)
    BY <2>3, DueType
  <2>5. \A j \in Jobs \ d : SameRow(j)
    BY <1>2 DEF HoldForReview, Unlease, SameRow, TypeOK
  <2> QED BY <1>2, <2>1, <2>2, <2>3, <2>4, <2>5, RequeueQueue
<1>3. CASE Owned(d, t) /\ ~MustHold(d) /\ Cardinality(d) # 1 /\ Repack(d)
  BY <1>3, RepackQueue
<1> QED BY <1>1, <1>2, <1>3 DEF SplitRejected, IfOwned

(* Every step of a worker.                                                 *)
LEMMA WorkerQueue ==
    ASSUME NonceInvariant, QueueInvariant, NEW w \in Workers, WorkerStep(w)
    PROVE  QueueInvariant' /\ NoncesKept
<1> USE DEF NonceInvariant, TypeInvariant
<1>0. /\ held[w] \in Dispatches /\ RETRY_DELAY \in Nat /\ COOLDOWN \in Nat
      /\ phase[w] # "idle" => held[w] # {}
  BY DeliveryConstants DEF DeliveryTypeOK, HeldIsBound, Active, Bound
<1>1. CASE HandBack(w)
  BY <1>0, <1>1, RetryQueue DEF HandBack
<1>2. CASE Validate(w)
  BY <1>0, <1>2, UnchangedRetires, CancelRetires, RetiresQueue
     DEF Validate, ValidateDispatch, IfOwned
<1>3. CASE NoDestination(w)
  BY <1>0, <1>3, FinishQueue DEF NoDestination
<1>4. CASE Post(w)
  BY <1>4, UnchangedRetires, RetiresQueue DEF Post
<1>5. ASSUME NEW a \in Answers, Answer(w, a) PROVE QueueInvariant' /\ NoncesKept
  BY <1>5, UnchangedRetires, DeferRetires, RetiresQueue DEF Answer
<1>6. CASE Settle(w)
  <2>1. phase[w] # "idle"
    BY <1>6 DEF Settle, Confirmed
  <2> QED BY <1>0, <1>6, <2>1, FinishQueue, SplitQueue, RetryQueue DEF Settle, Confirmed
<1> QED BY <1>1, <1>2, <1>3, <1>4, <1>5, <1>6 DEF WorkerStep

(* Every step of a service.                                                *)
LEMMA ServiceQueue ==
    ASSUME NonceInvariant, NonceInvariant', QueueInvariant, NEW s \in Services, ServiceStep(s)
    PROVE  QueueInvariant' /\ NoncesKept
<1> USE DEF NonceInvariant, TypeInvariant
<1>1. CASE Poll(s) \/ BeginWave(s)
  BY <1>1, SweepRetires, RetiresQueue DEF Poll, BeginWave
<1>2. CASE AuditLimited(s) \/ LearnedCooldown(s)
  BY <1>2, DeferRetires, RetiresQueue DEF AuditLimited, LearnedCooldown
<1>3. CASE StopFilling(s) \/ Recheck(s)
  BY <1>3, UnchangedRetires, RetiresQueue DEF StopFilling, Recheck
<1>4. ASSUME NEW st, NEW aud, NEW size \in Nat, NEW fair, NEW nxt,
             ClaimSlot(s, st, aud, size, fair, nxt)
      PROVE  QueueInvariant' /\ NoncesKept
  <2>1. CASE ClaimBatch(aud, size, fair, wave[s].routes, {}, NoToken)
    BY <2>1, ClaimNoneRetires, RetiresQueue
  <2>2. ASSUME NEW d \in Dispatches \ {{}}, NEW t \in Tokens,
               ClaimBatch(aud, size, fair, wave[s].routes, d, t)
        PROVE  QueueInvariant' /\ NoncesKept
    BY <2>2, ClaimQueue
  <2> QED BY <1>4, <2>1, <2>2 DEF ClaimSlot
<1>5. CASE ClaimPaid(s) \/ ClaimAny(s)
  BY <1>4, <1>5, StoreConstants DEF ClaimPaid, ClaimAny
<1> QED BY <1>1, <1>2, <1>3, <1>5 DEF ServiceStep

(* Every step.                                                             *)
LEMMA QueueStep ==
    ASSUME NonceInvariant, NonceInvariant', QueueInvariant, [Next]_vars
    PROVE  QueueInvariant' /\ NoncesKept
<1> USE DEF NonceInvariant, TypeInvariant
<1>1. CASE Intake
  BY <1>1, RecordQueue, DeliveryConstants DEF Intake
<1>2. CASE Tick
  BY <1>2, TickRetires, RetiresQueue
<1>3. CASE UNCHANGED <<now, storeVars>>
  BY <1>3, UnchangedRetires, RetiresQueue
<1>4. ASSUME NEW s \in Services, ServiceStep(s) PROVE QueueInvariant' /\ NoncesKept
  BY <1>4, ServiceQueue
<1>5. ASSUME NEW w \in Workers, WorkerStep(w) PROVE QueueInvariant' /\ NoncesKept
  BY <1>5, WorkerQueue
<1> QED BY <1>1, <1>2, <1>3, <1>4, <1>5
        DEF Next, Stop, Start, Crash, Exit, Die, SettleFails, vars

(* A new or migrated database.                                             *)
LEMMA QueueInit ==
    ASSUME DeliveryInit PROVE QueueInvariant
<1>1. MovesTogether /\ LeasedWasDue /\ OneLeasePerRoute /\ SeededStaysSilent
  BY DEF DeliveryInit, Init, MovesTogether, LeasedWasDue, OneLeasePerRoute, SeededStaysSilent,
         Live
<1>2. RefusedIsTooLarge /\ NullIsNoEnvelope
  BY StoreConstants DEF DeliveryInit, Init, RefusedIsTooLarge, NullIsNoEnvelope, Retired,
                        Dispatches
<1> QED BY <1>1, <1>2 DEF QueueInvariant

(* The queue's invariant holds in every reachable state.                   *)
THEOREM QueueInvariantHolds == Spec => []QueueInvariant
BY QueueInit, QueueStep, NonceInvariantHolds, PTL DEF Spec

(* Two services never work on one channel at once: claim_batch finds every *)
(* unexpired lease of the channel, whoever took it and whatever happened   *)
(* to its envelope since.                                                  *)
THEOREM OneLease == Spec => []OneLeasePerRoute
<1>1. QueueInvariant => OneLeasePerRoute
  BY DEF QueueInvariant
<1> QED BY <1>1, QueueInvariantHolds, PTL

(* Once an item is seeded no retry, repacking, recovery or observation     *)
(* makes one of its jobs live again.                                       *)
THEOREM SeededSilent == Spec => []SeededStaysSilent
<1>1. QueueInvariant => SeededStaysSilent
  BY DEF QueueInvariant
<1> QED BY <1>1, QueueInvariantHolds, PTL

(* next_due_in and claim_batch agree: no back-off, lease, sibling or 413   *)
(* makes the loop spin without work or sleep past it.                      *)
THEOREM SchedulersAgree == Spec => []SchedulerAgrees
<1>1. TypeInvariant /\ QueueInvariant => SchedulerAgrees
  <2> SUFFICES ASSUME TypeInvariant, QueueInvariant, NEW aud \in {"any", "paid", "free"},
                      \A j \in Jobs : ~Stale(j)
               PROVE  DueNow(aud) <=> Candidates(aud, {}) # {}
    BY DEF SchedulerAgrees
  <2> USE DEF TypeInvariant, TypeOK
  <2>1. ASSUME DueNow(aud) PROVE Candidates(aud, {}) # {}
    <3>1. PICK j \in Jobs : Open(j) /\ InAudience(j, aud) /\ Awake(j)
      BY <2>1 DEF DueNow
    <3>2. ~(globalGate > now)
      BY <2>1 DEF DueNow
    <3>3. Reclaimable(j)
      BY <3>1 DEF Awake, Reclaimable, Open, Live
    <3>4. ~Busy(Route(j))
      BY <3>1 DEF Awake, Busy
    <3>5. ~SiblingWaits(j)
      <4> SUFFICES ASSUME batch[j] # {}, NEW k \in Jobs, batch[k] = batch[j], Open(k),
                          state[k] = "pending", nextAttempt[k] > now
                   PROVE  FALSE
        BY DEF SiblingWaits, Rows
      <4>1. state[j] = "pending" /\ (nextAttempt[j] = nextAttempt[k]
                                       \/ nextAttempt[j] >= Expires(j))
        BY <3>1 DEF QueueInvariant, MovesTogether, Open
      <4>2. nextAttempt[j] <= now /\ Expires(j) > now /\ nextAttempt[j] \in Nat
            /\ Expires(j) \in Nat
        BY <3>1, DueType DEF Awake, Open
      <4> QED BY <4>1, <4>2
    <3>6. Route(j) \notin {} /\ Due(j) <= now /\ nextAttempt[j] <= now /\ gate[Route(j)] <= now
      BY <3>1 DEF Awake
    <3>7. j \in Candidates(aud, {})
      BY <3>1, <3>2, <3>3, <3>4, <3>5, <3>6 DEF Candidates
    <3> QED BY <3>7
  <2>2. ASSUME NEW j \in Candidates(aud, {}) PROVE DueNow(aud)
    <3>1. /\ j \in Jobs /\ Open(j) /\ Due(j) <= now /\ nextAttempt[j] <= now
          /\ gate[Route(j)] <= now /\ ~Busy(Route(j)) /\ InAudience(j, aud)
          /\ ~(globalGate > now)
      BY <2>2 DEF Candidates
    <3>2. ASSUME NEW k \in Jobs, Route(k) = Route(j), state[k] = "leased"
          PROVE  leaseUntil[k] <= now
      <4>1. Open(k)
        BY <3>2, DueType DEF Stale, Open, Live
      <4> QED BY <3>1, <3>2, <4>1 DEF Busy
    <3> QED BY <3>1, <3>2 DEF DueNow, Awake
  <2> QED BY <2>1, <2>2
<1> QED BY <1>1, QueueInvariantHolds, TypeCorrect, PTL

(* Both hold at once: a channel that is due is claimed, by one service.    *)
THEOREM ClaimsAgreed == Spec => []ClaimsAgree
<1>1. OneLeasePerRoute /\ SchedulerAgrees => ClaimsAgree BY DEF ClaimsAgree
<1> QED BY <1>1, OneLease, SchedulersAgree, PTL

(* An envelope of unknown fate keeps its jobs for good, and the nonce of   *)
(* one that was refused never carries a message again.                     *)
THEOREM NoncesStay == Spec => NoncesKeepTheirJobs
<1>1. NonceInvariant /\ NonceInvariant' /\ QueueInvariant /\ [Next]_vars => [NoncesKept]_vars
  BY QueueStep
<1> QED BY <1>1, NonceInvariantHolds, QueueInvariantHolds, PTL
        DEF Spec, NoncesKeepTheirJobs, NoncesKept

=============================================================================
