------------------------------ MODULE Delivery ------------------------------
(***************************************************************************)
(* The delivery loop of the Discord bridge: deliver_due of                 *)
(* discord_bridge/delivery.py and the thread of src/notifiers/discord.py   *)
(* that calls it, over the queue of JobStore.  A service fills a wave by   *)
(* claiming one envelope per worker; every worker validates its envelope,  *)
(* posts it and settles the answer in transactions of its own, so intake,  *)
(* other workers, other services, crashes and the clock come in between.   *)
(***************************************************************************)
EXTENDS JobStore

CONSTANTS
    Services,           \* processes running deliver_due on the same database
    CONCURRENCY,        \* 4 workers of a wave
    MAX_ATTEMPTS,       \* 10 counted attempts, then failed
    RETRY_DELAY,        \* stands for min(300, 2^attempts)
    COOLDOWN,           \* retry_after of a 429
    Unconfigured,       \* routes without a channel in the saved layout
    Answers,            \* the outcomes of a POST this instance lets happen
    Inputs,             \* the observations this instance records
    SeedInputs,         \* subset of BOOLEAN: values of seed_only
    MAX_TIME,           \* bound: the clock stops here
    INTAKE_UNTIL,       \* bound: no observation is recorded later
    MAX_STOPS,          \* bound: stops and crashes
    MAX_AUDIT_LIMITS    \* bound: 429 answers to the privacy audit

Workers == Services \X (1..CONCURRENCY)
Service(w) == w[1]
Slot(w)    == w[2]
(* What a worker knows of its POST: accepted; possibly accepted (timeout,  *)
(* 5xx, unreadable answer); 429; 413; 400/401/403/404; or a definitive     *)
(* failure worth retrying (other 4xx, closed client, connect error).       *)
Outcomes == {"sent", "unknown", "limited", "too_large", "rejected", "unsent"}

ASSUME DeliveryConstants ==
    /\ CONCURRENCY \in Nat \ {0} /\ MAX_ATTEMPTS \in Nat \ {0}
    /\ RETRY_DELAY \in Nat \ {0} /\ COOLDOWN \in Nat \ {0}
    /\ Unconfigured \subseteq Routes
    /\ Answers \subseteq Outcomes /\ Inputs \subseteq Observation
    /\ SeedInputs \subseteq BOOLEAN
    /\ MAX_TIME \in Nat /\ INTAKE_UNTIL \in Nat
    /\ MAX_STOPS \in Nat /\ MAX_AUDIT_LIMITS \in Nat

VARIABLES
    up,         \* service -> "down", "up", or "stopping" (stop event set)
    wave,       \* service -> the wave it fills
    phase,      \* worker -> "idle", "claimed", "ready", "posting" or an outcome
    held,       \* worker -> the envelope it was submitted with
    lease,      \* worker -> the lease token of that envelope
    exposed,    \* ghost: nonces Discord may have accepted
    acked,      \* ghost: nonces Discord answered with a message id
    stops, auditLimits      \* counters of the bounds

serviceVars == <<up, wave>>
workerVars  == <<phase, held, lease>>
ghostVars   == <<exposed, acked>>
deliveryVars == <<serviceVars, workerVars, ghostVars, stops, auditLimits>>
vars == <<now, storeVars, deliveryVars>>

WaveSteps == {"closed", "paid", "recheck", "any"}
NoWave == [step |-> "closed", filled |-> 0, capacity |-> 0, routes |-> {}]

DeliveryTypeOK ==
    /\ up \in [Services -> {"down", "up", "stopping"}]
    /\ wave \in [Services -> [step : WaveSteps, filled : 0..CONCURRENCY,
                              capacity : 0..CONCURRENCY, routes : SUBSET Routes]]
    /\ phase \in [Workers -> {"idle", "claimed", "ready", "posting"} \union Outcomes]
    /\ held \in [Workers -> Dispatches]
    /\ lease \in [Workers -> Tokens \union {NoToken}]
    /\ exposed \subseteq Dispatches /\ acked \subseteq Dispatches
    /\ stops \in Nat /\ auditLimits \in Nat
TypeInvariant == TypeOK /\ DeliveryTypeOK

DeliveryInit ==
    /\ Init
    /\ up = [s \in Services |-> "up"]
    /\ wave = [s \in Services |-> NoWave]
    /\ phase = [w \in Workers |-> "idle"]
    /\ held = [w \in Workers |-> {}]
    /\ lease = [w \in Workers |-> NoToken]
    /\ exposed = {{j} : j \in LegacyJobs}
    /\ acked = {}
    /\ stops = 0 /\ auditLimits = 0

-----------------------------------------------------------------------------
(* Environment: intake, the clock, stop events and crashes                 *)

Intake == /\ now <= INTAKE_UNTIL
          /\ \E i \in Items, o \in Inputs, seed_only \in SeedInputs : Record(i, o, seed_only)
          /\ UNCHANGED deliveryVars

Tick == /\ now < MAX_TIME
        /\ now' = now + 1
        /\ UNCHANGED <<storeVars, deliveryVars>>

Stop(s) == /\ up[s] = "up" /\ stops < MAX_STOPS
           /\ up' = [up EXCEPT ![s] = "stopping"]
           /\ stops' = stops + 1
           /\ UNCHANGED <<now, storeVars, wave, workerVars, ghostVars, auditLimits>>

(* The process dies, or a stopping one exits with its daemon threads; a    *)
(* request on the wire may still be accepted.                              *)
Die(s) == /\ wave' = [wave EXCEPT ![s] = NoWave]
          /\ up' = [up EXCEPT ![s] = "down"]
          /\ phase' = [w \in Workers |-> IF Service(w) = s THEN "idle" ELSE phase[w]]
          /\ held' = [w \in Workers |-> IF Service(w) = s THEN {} ELSE held[w]]
          /\ lease' = [w \in Workers |-> IF Service(w) = s THEN NoToken ELSE lease[w]]
          /\ exposed' = exposed \union
                {held[w] : w \in {x \in Workers : Service(x) = s /\ phase[x] = "posting"}}
          /\ UNCHANGED <<now, storeVars, acked, auditLimits>>
Crash(s) == up[s] = "up" /\ stops < MAX_STOPS /\ stops' = stops + 1 /\ Die(s)
Exit(s)  == up[s] = "stopping" /\ UNCHANGED stops /\ Die(s)

Start(s) == /\ up[s] = "down"
            /\ up' = [up EXCEPT ![s] = "up"]
            /\ UNCHANGED <<now, storeVars, wave, workerVars, ghostVars, stops, auditLimits>>

-----------------------------------------------------------------------------
(* The delivery pass of a service                                          *)

AllIdle(s) == \A w \in Workers : Service(w) = s => phase[w] = "idle"
PollAudience == IF HasDuePaid THEN "paid" ELSE "any"

(* deliver_due with nothing to send still retires stale rows.              *)
Poll(s) == /\ up[s] = "up" /\ wave[s].step = "closed" /\ AllIdle(s)
           /\ Sweep
           /\ UNCHANGED deliveryVars

Slots == 1..CONCURRENCY     \* min(concurrency, limit - submitted)

(* Due work, then a full privacy audit that answers ok, opens a wave.      *)
BeginWave(s) ==
    /\ up[s] = "up" /\ wave[s].step = "closed" /\ AllIdle(s)
    /\ HasDue /\ DueNow(PollAudience)
    /\ Sweep
    /\ \E c \in Slots :
        wave' = [wave EXCEPT ![s] =
                    [step |-> "paid", filled |-> 0, capacity |-> c, routes |-> {}]]
    /\ UNCHANGED <<up, workerVars, ghostVars, stops, auditLimits>>

AuditLimited(s) ==
    /\ up[s] = "up" /\ wave[s].step = "closed" /\ AllIdle(s)
    /\ auditLimits < MAX_AUDIT_LIMITS
    /\ HasDue /\ DueNow(PollAudience)
    /\ DeferGlobal(now + COOLDOWN)
    /\ auditLimits' = auditLimits + 1
    /\ UNCHANGED <<serviceVars, workerVars, ghostVars, stops>>

(* The client's own observed cooldown closes a route before an audit.      *)
LearnedCooldown(s) ==
    /\ up[s] = "up" /\ wave[s].step = "closed" /\ AllIdle(s)
    /\ auditLimits < MAX_AUDIT_LIMITS
    /\ \E r \in Routes : DeferRoute(r, now + COOLDOWN)
    /\ auditLimits' = auditLimits + 1
    /\ UNCHANGED <<serviceVars, workerVars, ghostVars, stops>>

WaveEnds(s) == wave' = [wave EXCEPT ![s] = NoWave]

(* A claim at step st of the wave, with a fresh token; None leads to nxt.  *)
ClaimSlot(s, st, aud, size, fair, nxt) ==
    LET n == wave[s].filled + 1
        w == <<s, n>>
        C == wave[s].routes
    IN  /\ wave[s].step = st
        /\ \/ /\ ClaimBatch(aud, size, fair, C, {}, NoToken)
              /\ wave' = [wave EXCEPT ![s] = nxt]
              /\ UNCHANGED workerVars
           \/ \E d \in Dispatches \ {{}}, t \in Tokens :
              /\ \A j \in Jobs : token[j] # t
              /\ \A x \in Workers : lease[x] # t
              /\ ClaimBatch(aud, size, fair, C, d, t)
              /\ wave' = [wave EXCEPT ![s] =
                    IF n = wave[s].capacity THEN NoWave
                    ELSE [step |-> "paid", filled |-> n, capacity |-> wave[s].capacity,
                          routes |-> C \union {Route(j) : j \in d}]]
              /\ phase' = [phase EXCEPT ![w] = "claimed"]
              /\ held' = [held EXCEPT ![w] = d]
              /\ lease' = [lease EXCEPT ![w] = t]
        /\ UNCHANGED <<up, ghostVars, stops, auditLimits>>

(* The stop event is checked before every slot.                            *)
ClaimPaid(s) == /\ up[s] = "up"
                /\ ClaimSlot(s, "paid", "paid", PAID_SIZE,
                             wave[s].filled = 1 \/ wave[s].capacity = 1,
                             [wave[s] EXCEPT !.step = "recheck"])
StopFilling(s) == /\ up[s] = "stopping" /\ wave[s].step = "paid"
                  /\ wave' = [wave EXCEPT ![s] = NoWave]
                  /\ UNCHANGED <<now, storeVars, up, workerVars, ghostVars, stops, auditLimits>>

(* No paid envelope: history may go only while no paid work is due.        *)
Recheck(s) == /\ wave[s].step = "recheck"
              /\ wave' = [wave EXCEPT ![s] =
                            IF HasDuePaid THEN NoWave ELSE [@ EXCEPT !.step = "any"]]
              /\ UNCHANGED <<now, storeVars, up, workerVars, ghostVars, stops, auditLimits>>
ClaimAny(s) == ClaimSlot(s, "any", "any", FREE_SIZE, FALSE, NoWave)

-----------------------------------------------------------------------------
(* A worker (send_batch)                                                   *)

Finish(w) == /\ phase' = [phase EXCEPT ![w] = "idle"]
             /\ held' = [held EXCEPT ![w] = {}]
             /\ lease' = [lease EXCEPT ![w] = NoToken]
             /\ UNCHANGED <<serviceVars, ghostVars, stops, auditLimits>>

(* Stopping before the envelope was submitted: hand it back untried.       *)
HandBack(w) == /\ phase[w] = "claimed" /\ up[Service(w)] = "stopping"
               /\ RetryBatch(held[w], lease[w], RETRY_DELAY, FALSE, FALSE)
               /\ Finish(w)

Validate(w) ==
    /\ phase[w] = "claimed" /\ up[Service(w)] = "up"
    /\ \/ /\ ValidateDispatch(held[w], lease[w], TRUE)
          /\ phase' = [phase EXCEPT ![w] = "ready"]
          /\ UNCHANGED <<held, lease, serviceVars, ghostVars, stops, auditLimits>>
       \/ ValidateDispatch(held[w], lease[w], FALSE) /\ Finish(w)

NoDestination(w) == /\ phase[w] = "ready"
                    /\ \E j \in held[w] : Route(j) \in Unconfigured
                    /\ FinishBatch(held[w], lease[w], "failed")
                    /\ Finish(w)

Post(w) == /\ phase[w] = "ready"
           /\ \A j \in held[w] : Route(j) \notin Unconfigured
           /\ phase' = [phase EXCEPT ![w] = "posting"]
           /\ UNCHANGED <<now, storeVars, serviceVars, held, lease, ghostVars, stops,
                          auditLimits>>

(* The answer reaches the worker; a 429 first raises its gate.             *)
Answer(w, a) ==
    /\ phase[w] = "posting"
    /\ phase' = [phase EXCEPT ![w] = a]
    /\ exposed' = IF a \in {"sent", "unknown"} THEN exposed \union {held[w]} ELSE exposed
    /\ acked' = IF a = "sent" THEN acked \union {held[w]} ELSE acked
    /\ IF a = "limited"
       THEN \/ DeferGlobal(now + COOLDOWN)
            \/ \E j \in held[w] : DeferRoute(Route(j), now + COOLDOWN)
       ELSE UNCHANGED <<now, storeVars>>
    /\ UNCHANGED <<held, lease, serviceVars, stops, auditLimits>>

Confirmed(a) == a = "sent"
Exhausted(w) == \E j \in held[w] : attempts[j] >= MAX_ATTEMPTS

(* The answer is settled in a later transaction.                           *)
Settle(w) ==
    /\ CASE Confirmed(phase[w])    -> FinishBatch(held[w], lease[w], "sent")
         [] phase[w] = "too_large" -> SplitRejected(held[w], lease[w])
         [] phase[w] = "rejected"  -> FinishBatch(held[w], lease[w], "failed")
         [] phase[w] = "limited"   ->
                RetryBatch(held[w], lease[w], COOLDOWN, FALSE, FALSE)
         [] phase[w] \in {"unknown", "unsent"} ->
                IF Exhausted(w) THEN FinishBatch(held[w], lease[w], "failed")
                ELSE RetryBatch(held[w], lease[w], RETRY_DELAY, TRUE, phase[w] = "unknown")
         [] OTHER -> FALSE
    /\ Finish(w)

(* The settling transaction fails (a locked or full database): the error   *)
(* leaves deliver_due and the lease stays for recovery.                    *)
SettleFails(w) ==
    /\ phase[w] \in Outcomes /\ stops < MAX_STOPS
    /\ stops' = stops + 1
    /\ phase' = [phase EXCEPT ![w] = "idle"]
    /\ held' = [held EXCEPT ![w] = {}]
    /\ lease' = [lease EXCEPT ![w] = NoToken]
    /\ UNCHANGED <<now, storeVars, serviceVars, ghostVars, auditLimits>>

ServiceStep(s) ==
    \/ Poll(s) \/ BeginWave(s) \/ AuditLimited(s) \/ LearnedCooldown(s)
    \/ ClaimPaid(s) \/ StopFilling(s) \/ Recheck(s) \/ ClaimAny(s)
WorkerStep(w) ==
    \/ HandBack(w) \/ Validate(w) \/ NoDestination(w) \/ Post(w)
    \/ \E a \in Answers : Answer(w, a)
    \/ Settle(w)

Next ==
    \/ Intake \/ Tick
    \/ \E s \in Services : Stop(s) \/ Crash(s) \/ Exit(s) \/ Start(s) \/ ServiceStep(s)
    \/ \E w \in Workers : WorkerStep(w) \/ SettleFails(w)

Spec == DeliveryInit /\ [][Next]_vars

-----------------------------------------------------------------------------
(* Properties                                                              *)

(* Nonces whose message may exist on Discord, now or from a request still  *)
(* on the wire.                                                            *)
MaybeSent == exposed \union {held[w] : w \in {x \in Workers : phase[x] = "posting"}}

(* "Retries keep that envelope ... rather than repackaging a possibly sent *)
(* message" (discord_bridge/README.md): a job is never in two envelopes    *)
(* that Discord may both have accepted, so Discord's nonce check, while it *)
(* remembers, shows each item once per feed.                               *)
OneNoncePerJob ==
    \A d, e \in MaybeSent : d \intersect e # {} => d = e

(* The members of an envelope are bound and freed together; otherwise the  *)
(* saved-envelope branch of claim_batch raises KeyError on a missing       *)
(* member, on every later pass.                                            *)
EnvelopeWhole ==
    \A j \in Jobs : batch[j] # {} =>
        /\ j \in batch[j]
        /\ \A k \in batch[j] : batch[k] = batch[j] /\ Route(k) = Route(j)

(* At most one envelope per channel is under an unexpired lease, across    *)
(* all services ("at most one active per route", claim_batch).             *)
OneLeasePerRoute ==
    \A j, k \in Jobs :
        /\ Route(j) = Route(k) /\ state[j] = "leased" /\ state[k] = "leased"
        /\ Open(j) /\ Open(k)
        /\ leaseUntil[j] > now /\ leaseUntil[k] > now
        => batch[j] = batch[k] /\ token[j] = token[k]

(* A seeded item has no job a worker could still claim or re-arm, whatever *)
(* claims, retries and re-observations surround the seeding.               *)
SeededStaysSilent ==
    \A j \in Jobs : Item(j) \in seeded => state[j] \notin Live

(* The wake-up computed by next_due_in and the selection of claim_batch    *)
(* agree: a pass that is due finds a candidate (else the loop would audit  *)
(* Discord every 10 ms), and a candidate never sleeps behind next_due_in.  *)
SchedulerAgrees ==
    \A aud \in {"any", "paid", "free"} :
        (\A j \in Jobs : ~Stale(j)) =>
            (DueNow(aud) <=> Candidates(aud, {}) # {})

(* What the claims of all services rest on: one lease per channel, and the *)
(* two queries that decide readiness agree.                                *)
ClaimsAgree == OneLeasePerRoute /\ SchedulerAgrees

(* A nonce stands for one set of jobs for good: an envelope of unknown     *)
(* fate is never split, and the nonce of one that Discord refused as too   *)
(* large is never bound again (repacked envelopes are strictly smaller).   *)
Retired(d) == dstate[d] # "none" /\ Rows(d) = {}
NoncesKeepTheirJobs ==
    [][\A d \in Dispatches :
          /\ d \in uncertain /\ Rows(d) # {} => Rows(d)' = Rows(d)
          /\ Retired(d) => Rows(d)' = {}]_vars

(* Under a running service every queued job is settled, one way or another.*)
Fairness ==
    /\ WF_vars(Tick)
    /\ \A s \in Services : WF_vars(Start(s)) /\ WF_vars(Exit(s)) /\ WF_vars(ServiceStep(s))
    /\ \A w \in Workers : WF_vars(WorkerStep(w))
FairSpec == Spec /\ Fairness
EveryJobSettles == \A j \in Jobs : (state[j] \in Live) ~> (state[j] \notin Live)

(* The queue, its leases, waves and workers keep the promise of Feed: every *)
(* step of the services, and every crash, is a step of that specification  *)
(* or is not seen by a reader.  A job's rows decide where it stands, what  *)
(* Discord may have accepted is what may be visible.                       *)
Stage(j) == CASE state[j] = "absent"    -> "unlisted"
              [] state[j] \in Live      -> "waiting"
              [] state[j] = "sent"      -> "shown"
              [] state[j] = "unmatched" -> "withdrawn"
              [] OTHER                  -> "dropped"
Promise == INSTANCE Feed WITH Carried <- LegacyJobs, stage <- [j \in Jobs |-> Stage(j)],
                              visible <- exposed, confirmed <- acked
KeepsThePromise == Promise!Spec

-----------------------------------------------------------------------------
(* The strengthening that makes OneNoncePerJob inductive: why a POST of    *)
(* unknown fate can never be repacked under another nonce.                 *)

Bound(d)  == d # {} /\ \A j \in d : batch[j] = d
Active(w) == phase[w] # "idle"

(* A wave that is still filled has a free slot.                            *)
WaveHasRoom ==
    \A s \in Services : wave[s].step # "closed" => wave[s].filled < wave[s].capacity

(* Every active worker's envelope is bound, and tokens tell workers apart. *)
HeldIsBound ==
    /\ \A w \in Workers : Active(w) => Bound(held[w]) /\ lease[w] \in Tokens
    /\ \A v, w \in Workers : Active(v) /\ Active(w) /\ lease[v] = lease[w] => v = w
    /\ \A j \in Jobs : state[j] = "absent" => batch[j] = {}

(* A worker whose lease was lost to another holder has an envelope that    *)
(* split_rejected_batch must hold.                                         *)
LostLeaseIsUncertain ==
    \A w \in Workers : Active(w) =>
        \A j \in held[w] :
            state[j] = "pending" \/ (state[j] = "leased" /\ token[j] # lease[w])
                => MustHold(held[w])

(* An exposed nonce is bound to its members, and only a worker that knows  *)
(* of the exposure can still own it without it being marked.               *)
ExposedIsKept ==
    \A d \in exposed :
        /\ Bound(d)
        /\ \A j \in d :
            \/ MustHold(d)
            \/ state[j] \notin Live
            \/ /\ state[j] = "leased"
               /\ \A w \in Workers : Active(w) /\ lease[w] = token[j]
                                        => phase[w] \in {"sent", "unknown"}

NonceInvariant ==
    /\ TypeInvariant
    /\ WaveHasRoom
    /\ EnvelopeWhole
    /\ HeldIsBound
    /\ LostLeaseIsUncertain
    /\ ExposedIsKept

-----------------------------------------------------------------------------
(* The strengthening behind the other properties of the queue.             *)

(* The live members of an envelope wait together or are leased together,   *)
(* and come back together unless a 413 put them off to their expiry.       *)
MovesTogether ==
    \A j, k \in Jobs :
        batch[j] # {} /\ batch[j] = batch[k] /\ state[j] \in Live /\ state[k] \in Live =>
            /\ state[j] = state[k]
            /\ state[j] = "pending" => nextAttempt[j] = nextAttempt[k]
                                          \/ nextAttempt[j] >= Expires(j)

LeasedWasDue ==
    \A j \in Jobs : state[j] = "leased" => batch[j] # {} /\ nextAttempt[j] <= now

(* The limit learned from a 413 shuts out the envelope that was refused.   *)
RefusedIsTooLarge ==
    /\ \A r \in Routes : maxItems[r] >= 1
    /\ \A d \in Dispatches : Retired(d) => \A j \in d : maxItems[Route(j)] < Cardinality(d)

NullIsNoEnvelope == dstate[{}] = "none" /\ {} \notin uncertain

QueueInvariant ==
    /\ MovesTogether
    /\ LeasedWasDue
    /\ RefusedIsTooLarge
    /\ NullIsNoEnvelope
    /\ OneLeasePerRoute
    /\ SeededStaysSilent

(* What Discord acknowledged it may have accepted, and a worker that was   *)
(* told so holds an acknowledged envelope.                                 *)
AckedIsExposed ==
    /\ acked \subseteq exposed
    /\ \A w \in Workers : phase[w] = "sent" => held[w] \in acked
=============================================================================
