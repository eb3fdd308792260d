---------------------------- MODULE RequestProofs ----------------------------
(***************************************************************************)
(* Machine-checked theorems about private item requests (Requests.tla):    *)
(* types, and that an alert is never sent twice, for every set of members, *)
(* products, watches and senders, every lifetime, lease and time bound.    *)
(***************************************************************************)
EXTENDS Requests, TLAPS

-----------------------------------------------------------------------------
(* What a step may do to the outbox                                        *)

(* An alert stays as it is, moves between states that were never sent, is  *)
(* given up for review, or is settled by the sender that committed it.     *)
AlertKept(a) == state'[a] = state[a] /\ token'[a] = token[a]
AlertUnsent(a) == /\ state[a] \in Undelivered /\ state'[a] \in Undelivered
                  /\ token'[a] \in {token[a], NoWorker}
AlertHeld(a) == state[a] = "sending" /\ state'[a] = "review" /\ token'[a] = token[a]
AlertSettled(a) ==
    \E w \in Workers :
        /\ pc[w] \in Late /\ job[w] = a /\ pc'[w] = "idle"
        /\ state[a] = "sending" /\ state'[a] \in {"sent", "review", "pending", "failed"}
        /\ state'[a] \in Undelivered => accepted[a] = 0
        /\ state'[a] = "sent" => accepted[a] = 1
        /\ token'[a] \in {token[a], NoWorker}
AlertStep(a) == AlertKept(a) \/ AlertUnsent(a) \/ AlertHeld(a) \/ AlertSettled(a)

(* A sender ends its cycle, or goes on with what it knows.                 *)
SenderStays(v) ==
    \/ pc'[v] = "idle"
    \/ /\ job'[v] = job[v]
       /\ \/ pc'[v] = pc[v]
          \/ pc[v] \in Early /\ pc'[v] \in Early
          \/ pc[v] \in Unsent /\ pc'[v] \in Unsent

(* Such steps keep the outbox truthful and the senders informed.           *)
LEMMA OutboxStep ==
    ASSUME AlertInvariant, UNCHANGED accepted,
           \A a \in Alerts : AlertStep(a),
           \A v \in Workers : SenderStays(v)
    PROVE  AlertsTellTheTruth' /\ SenderKnows'
<1>1. AlertsTellTheTruth'
  <2> SUFFICES ASSUME NEW a \in Alerts
               PROVE  /\ state'[a] \in Undelivered => accepted[a] = 0
                      /\ state'[a] = "sent" => accepted[a] = 1
                      /\ accepted[a] <= 1
    BY DEF AlertsTellTheTruth
  <2>1. AlertStep(a) OBVIOUS
  <2>2. /\ state[a] \in Undelivered => accepted[a] = 0
        /\ state[a] = "sent" => accepted[a] = 1
        /\ accepted[a] <= 1
    BY DEF AlertInvariant, AlertsTellTheTruth
  <2>3. CASE AlertKept(a) BY <2>2, <2>3 DEF AlertKept
  <2>4. CASE AlertUnsent(a)
    BY <2>2, <2>4 DEF AlertUnsent, Undelivered, Live, Rearmable
  <2>5. CASE AlertHeld(a)
    BY <2>2, <2>5 DEF AlertHeld, Undelivered, Live, Rearmable
  <2>6. CASE AlertSettled(a) BY <2>2, <2>6 DEF AlertSettled
  <2> QED BY <2>1, <2>3, <2>4, <2>5, <2>6 DEF AlertStep
<1>2. SenderKnows'
  <2> SUFFICES ASSUME NEW v \in Workers
               PROVE  LET a == job'[v] IN
                      /\ pc'[v] # "idle" => a \in Alerts
                      /\ pc'[v] \in Early /\ token'[a] = v => state'[a] # "sending"
                      /\ pc'[v] \in Late => token'[a] = v /\ state'[a] \in {"sending", "review"}
                      /\ pc'[v] \in {"sending"} \union Unsent => accepted[a] = 0
                      /\ pc'[v] = "acked" => accepted[a] = 1
    BY DEF SenderKnows
  <2>1. CASE pc'[v] = "idle"
    BY <2>1 DEF Early, Late, Unsent
  <2>2. CASE pc'[v] # "idle"
    <3> DEFINE a == job[v]
    <3>1. /\ job'[v] = a
          /\ \/ pc'[v] = pc[v]
             \/ pc[v] \in Early /\ pc'[v] \in Early
             \/ pc[v] \in Unsent /\ pc'[v] \in Unsent
      BY <2>2 DEF SenderStays
    <3>2. pc[v] # "idle" BY <2>2, <3>1 DEF Early, Unsent
    <3>3. /\ a \in Alerts
          /\ pc[v] \in Early /\ token[a] = v => state[a] # "sending"
          /\ pc[v] \in Late => token[a] = v /\ state[a] \in {"sending", "review"}
          /\ pc[v] \in {"sending"} \union Unsent => accepted[a] = 0
          /\ pc[v] = "acked" => accepted[a] = 1
      BY <3>2 DEF AlertInvariant, SenderKnows
    <3>4. /\ pc'[v] \in Early => pc[v] \in Early
          /\ pc'[v] \in Late => pc[v] \in Late
          /\ pc'[v] \in {"sending"} \union Unsent => pc[v] \in {"sending"} \union Unsent
          /\ pc'[v] = "acked" => pc[v] = "acked"
      BY <3>1 DEF Early, Late, Unsent
    <3>5. pc[v] \in Early => pc[v] \notin Late BY DEF Early, Late, Unsent
    <3>6. v # NoWorker BY RequestConstants
    <3>7. pc[v] \in Early /\ token'[a] = v => state'[a] # "sending"
      <4>1. CASE AlertKept(a) BY <3>3, <4>1 DEF AlertKept
      <4>2. CASE AlertUnsent(a)
        BY <4>2 DEF AlertUnsent, Undelivered, Live, Rearmable
      <4>3. CASE AlertHeld(a) BY <4>3 DEF AlertHeld
      <4>4. CASE AlertSettled(a) BY <4>4 DEF AlertSettled
      <4> QED BY <3>3, <4>1, <4>2, <4>3, <4>4 DEF AlertStep
    <3>8. pc[v] \in Late => token'[a] = v /\ state'[a] \in {"sending", "review"}
      <4> SUFFICES ASSUME pc[v] \in Late
                   PROVE  token'[a] = v /\ state'[a] \in {"sending", "review"}
        OBVIOUS
      <4>1. token[a] = v /\ state[a] \in {"sending", "review"} BY <3>3
      <4>2. ~AlertUnsent(a)
        BY <4>1 DEF AlertUnsent, Undelivered, Live, Rearmable
      <4>3. ~AlertSettled(a)
        <5> SUFFICES ASSUME NEW w \in Workers, pc[w] \in Late, job[w] = a, pc'[w] = "idle"
                     PROVE  FALSE
          BY DEF AlertSettled
        <5>1. token[a] = w BY DEF AlertInvariant, SenderKnows
        <5> QED BY <4>1, <5>1, <2>2
      <4>4. CASE AlertKept(a) BY <4>1, <4>4 DEF AlertKept
      <4>5. CASE AlertHeld(a) BY <4>1, <4>5 DEF AlertHeld
      <4> QED BY <3>3, <4>2, <4>3, <4>4, <4>5 DEF AlertStep
    <3> QED BY <3>1, <3>3, <3>4, <3>7, <3>8
  <2> QED BY <2>1, <2>2
<1> QED BY <1>1, <1>2

-----------------------------------------------------------------------------
(* The actions                                                             *)

(* An observation never touches an alert that is committed to a message.   *)
LEMMA ObserveStep ==
    ASSUME AlertInvariant, NEW i \in Items, NEW f \in Facets \union {NoFacet},
           NEW seed \in BOOLEAN, Observe(i, f, seed)
    PROVE  AlertsTellTheTruth' /\ SenderKnows'
<1>1. \A v \in Workers : SenderStays(v)
  BY DEF Observe, workVars, SenderStays
<1>2. ASSUME NEW a \in Alerts PROVE AlertStep(a)
  <2>1. state[a] \in AlertStates BY DEF AlertInvariant, TypeInvariant
  <2>2. AfterExpiry(a) = state[a] \/ (state[a] \in Live /\ AfterExpiry(a) = "expired")
    BY DEF AfterExpiry, Stale
  <2>3. CASE Observed(i, f)
    <3>1. CASE Inserted(a, i, f)
      <4>1. state'[a] = "pending" /\ token'[a] = NoWorker
        BY <2>3, <3>1 DEF Observed
      <4>2. state[a] \in Undelivered
        BY <2>1, <2>2, <3>1 DEF Inserted, Rearms, Undelivered, Live, Rearmable
      <4> QED BY <4>1, <4>2 DEF AlertStep, AlertUnsent, Undelivered, Live
    <3>2. CASE ~Inserted(a, i, f)
      <4>1. state'[a] = AfterExpiry(a) /\ token'[a] = token[a]
        BY <2>3, <3>2 DEF Observed
      <4> QED BY <2>2, <4>1
              DEF AlertStep, AlertKept, AlertUnsent, Undelivered, Live, Rearmable
    <3> QED BY <3>1, <3>2
  <2>4. CASE Withdrawn(i, f)
    <3>1. /\ state'[a] = IF Refreshed(a, i) THEN "cancelled" ELSE AfterExpiry(a)
          /\ token'[a] = token[a]
      BY <2>4 DEF Withdrawn
    <3>2. Refreshed(a, i) => state[a] \in Live
      BY <2>2 DEF Refreshed, Live
    <3> QED BY <2>2, <3>1, <3>2
            DEF AlertStep, AlertKept, AlertUnsent, Undelivered, Live, Rearmable
  <2>5. CASE UNCHANGED alertVars
    BY <2>5 DEF alertVars, AlertStep, AlertKept
  <2> QED BY <2>3, <2>4, <2>5 DEF Observe
<1> QED BY <1>1, <1>2, OutboxStep DEF Observe

(* Changing or withdrawing watches only cancels alerts not committed yet.  *)
LEMMA CancelStep ==
    ASSUME AlertInvariant, UNCHANGED <<accepted, token>>,
           NEW gone, gone \subseteq {a \in Alerts : state[a] \in Live}, Cancel(gone),
           \A v \in Workers : SenderStays(v)
    PROVE  AlertsTellTheTruth' /\ SenderKnows'
<1>1. ASSUME NEW a \in Alerts PROVE AlertStep(a)
  BY DEF Cancel, AlertStep, AlertKept, AlertUnsent, Undelivered, Live, Rearmable
<1> QED BY <1>1, OutboxStep

(* A settlement changes the sender's own alert, or nothing.                *)
LEMMA SettleAsStep ==
    ASSUME AlertInvariant, NEW w \in Workers, pc[w] # "idle",
           NEW outcome \in {"sent", "review", "failed", "cancelled"}, SettleAs(w, outcome),
           pc[w] \in Early => outcome = "cancelled",
           pc[w] \in Late => outcome # "cancelled",
           outcome = "sent" => pc[w] = "acked",
           outcome = "failed" => pc[w] \in Unsent
    PROVE  AlertsTellTheTruth' /\ SenderKnows'
<1>1. \A v \in Workers : SenderStays(v)
  BY DEF SettleAs, Idle, Goto, SenderStays, AlertInvariant, TypeInvariant
<1>2. pc[w] \in Early \/ pc[w] \in Late
  BY DEF AlertInvariant, TypeInvariant, Steps
<1>3. ASSUME NEW a \in Alerts PROVE AlertStep(a)
  <2>1. CASE state'[a] = state[a]
    BY <2>1 DEF SettleAs, columns, AlertStep, AlertKept
  <2>2. CASE state'[a] # state[a]
    <3>1. Holds(w) /\ job[w] = a /\ state'[a] = outcome /\ token' = token
      BY <2>2 DEF SettleAs, columns, AlertInvariant, TypeInvariant
    <3>2. pc'[w] = "idle"
      BY DEF SettleAs, Idle, Goto, AlertInvariant, TypeInvariant
    <3>3. CASE pc[w] \in Early
      <4>1. state[a] = "leased" BY <3>1, <3>3 DEF Holds, AlertInvariant, SenderKnows
      <4> QED BY <3>1, <3>3, <4>1 DEF AlertStep, AlertUnsent, Undelivered, Live, Rearmable
    <3>4. CASE pc[w] \in Late
      <4>1. /\ state[a] = "sending"
            /\ pc[w] \in Unsent => accepted[a] = 0
            /\ pc[w] = "acked" => accepted[a] = 1
        BY <3>1, <3>4 DEF Holds, AlertInvariant, SenderKnows
      <4>2. state'[a] \in Undelivered => accepted[a] = 0
        <5>1. outcome \in {"sent", "review", "failed"} BY <3>4
        <5>2. CASE outcome = "failed" BY <4>1, <5>2
        <5>3. CASE outcome # "failed"
          BY <3>1, <5>1, <5>3 DEF Undelivered, Live, Rearmable
        <5> QED BY <5>2, <5>3
      <4> QED BY <3>1, <3>2, <3>4, <4>1, <4>2 DEF AlertStep, AlertSettled
    <3> QED BY <1>2, <3>3, <3>4
  <2> QED BY <2>1, <2>2
<1> QED BY <1>1, <1>3, OutboxStep DEF SettleAs

(* A retry queues an alert only when its message was certainly not sent.   *)
LEMMA RetryStep ==
    ASSUME AlertInvariant, NEW w \in Workers, RetryLater(w),
           pc[w] \in Early \union Unsent
    PROVE  AlertsTellTheTruth' /\ SenderKnows'
<1>1. \A v \in Workers : SenderStays(v)
  BY DEF RetryLater, Idle, Goto, SenderStays, AlertInvariant, TypeInvariant
<1>2. ASSUME NEW a \in Alerts PROVE AlertStep(a)
  <2>1. CASE ~(Holds(w) /\ job[w] = a)
    BY <2>1 DEF RetryLater, AlertStep, AlertKept, AlertInvariant, TypeInvariant
  <2>2. CASE Holds(w) /\ job[w] = a
    <3>1. /\ state'[a] = "pending" /\ token'[a] = NoWorker /\ pc'[w] = "idle"
          /\ pc[w] # "idle"
      BY <2>2 DEF RetryLater, Idle, Goto, AlertInvariant, TypeInvariant, Early, Unsent
    <3>2. CASE pc[w] \in Early
      <4>1. state[a] = "leased" BY <2>2, <3>2 DEF Holds, AlertInvariant, SenderKnows
      <4> QED BY <3>1, <4>1 DEF AlertStep, AlertUnsent, Undelivered, Live
    <3>3. CASE pc[w] \in Unsent
      <4>1. pc[w] \in Late BY <3>3 DEF Late
      <4>2. state[a] = "sending" /\ accepted[a] = 0
        BY <2>2, <3>3, <4>1 DEF Holds, AlertInvariant, SenderKnows
      <4> QED BY <2>2, <3>1, <4>1, <4>2 DEF AlertStep, AlertSettled
    <3> QED BY <3>2, <3>3
  <2> QED BY <2>1, <2>2
<1> QED BY <1>1, <1>2, OutboxStep DEF RetryLater

(* What the sweep of a claim does to one alert.                            *)
LEMMA SweptIs ==
    ASSUME NEW a \in Alerts
    PROVE  \/ Swept(a) = state[a]
           \/ state[a] = "sending" /\ Swept(a) = "review"
           \/ state[a] \in Live /\ Swept(a) \in {"expired", "cancelled"}
BY DEF Swept, Interrupted, Stale, Orphans, Live

(* A claim leases an unsent alert, and holds interrupted ones for review.  *)
LEMMA ClaimStep ==
    ASSUME AlertInvariant, NEW w \in Workers, Claim(w)
    PROVE  AlertsTellTheTruth' /\ SenderKnows'
<1> USE DEF AlertInvariant
<1>1. \A b \in Candidates : Swept(b) \in Live /\ state[b] \in Live
  BY SweptIs DEF Candidates, Live
<1>2. ASSUME NEW b \in Alerts, state'[b] = IF b \in Candidates THEN "cancelled" ELSE Swept(b),
             token'[b] = token[b]
      PROVE  AlertStep(b)
  BY <1>1, <1>2, SweptIs
     DEF AlertStep, AlertKept, AlertUnsent, AlertHeld, Undelivered, Live, Rearmable
<1>3. CASE /\ state' = [b \in Alerts |-> IF b \in Candidates THEN "cancelled" ELSE Swept(b)]
           /\ UNCHANGED <<token, workVars>>
  <2>1. \A b \in Alerts : AlertStep(b) BY <1>2, <1>3
  <2>2. \A v \in Workers : SenderStays(v) BY <1>3 DEF workVars, SenderStays
  <2> QED BY <2>1, <2>2, OutboxStep DEF Claim
<1>4. ASSUME NEW a \in Candidates, NEW dropped \in SUBSET (Candidates \ {a}),
             state' = [b \in Alerts |-> IF b = a THEN "leased"
                                        ELSE IF b \in dropped THEN "cancelled" ELSE Swept(b)],
             token' = [token EXCEPT ![a] = w],
             Goto(w, "claimed"), job' = [job EXCEPT ![w] = a]
      PROVE  AlertsTellTheTruth' /\ SenderKnows'
  <2>1. a \in Alerts /\ state[a] \in Live BY <1>1 DEF Candidates
  <2>2. /\ state'[a] = "leased" /\ token'[a] = w /\ pc'[w] = "claimed" /\ job'[w] = a
        /\ UNCHANGED accepted
    BY <1>4, <2>1 DEF Goto, TypeInvariant, Claim
  <2>3. ASSUME NEW b \in Alerts, b # a
        PROVE  /\ token'[b] = token[b]
               /\ \/ state'[b] = state[b]
                  \/ state[b] = "sending" /\ state'[b] = "review"
                  \/ state[b] \in Live /\ state'[b] \in Rearmable
    BY <1>1, <1>4, <2>3, SweptIs DEF TypeInvariant, Rearmable
  <2>4. AlertsTellTheTruth'
    <3> SUFFICES ASSUME NEW b \in Alerts
                 PROVE  /\ state'[b] \in Undelivered => accepted[b] = 0
                        /\ state'[b] = "sent" => accepted[b] = 1
                        /\ accepted[b] <= 1
      BY <2>2 DEF AlertsTellTheTruth
    <3>1. CASE b = a
      BY <2>1, <2>2, <3>1 DEF AlertsTellTheTruth, Undelivered
    <3>2. CASE b # a
      BY <2>3, <3>2 DEF AlertsTellTheTruth, Undelivered, Live, Rearmable
    <3> QED BY <3>1, <3>2
  <2>5. SenderKnows'
    <3> SUFFICES ASSUME NEW v \in Workers
                 PROVE  LET b == job'[v] IN
                        /\ pc'[v] # "idle" => b \in Alerts
                        /\ pc'[v] \in Early /\ token'[b] = v => state'[b] # "sending"
                        /\ pc'[v] \in Late => token'[b] = v /\ state'[b] \in {"sending", "review"}
                        /\ pc'[v] \in {"sending"} \union Unsent => accepted[b] = 0
                        /\ pc'[v] = "acked" => accepted[b] = 1
      BY <2>2 DEF SenderKnows
    <3>1. CASE v = w
      BY <2>1, <2>2, <3>1 DEF Early, Late, Unsent
    <3>2. CASE v # w
      <4>1. pc'[v] = pc[v] /\ job'[v] = job[v]
        BY <1>4, <3>2 DEF Goto, TypeInvariant
      <4>2. CASE pc[v] = "idle" BY <4>1, <4>2 DEF Early, Late, Unsent
      <4>3. CASE pc[v] # "idle" /\ job[v] = a
        <5>1. pc[v] \notin Late BY <2>1, <4>3 DEF SenderKnows, Live
        <5>2. pc[v] \notin {"sending", "acked"} \union Unsent BY <5>1 DEF Late
        <5> QED BY <2>1, <2>2, <4>1, <4>3, <5>1, <5>2
      <4>4. CASE pc[v] # "idle" /\ job[v] # a
        <5>1. /\ job[v] \in Alerts
              /\ pc[v] \in Early /\ token[job[v]] = v => state[job[v]] # "sending"
              /\ pc[v] \in Late => token[job[v]] = v /\ state[job[v]] \in {"sending", "review"}
              /\ pc[v] \in {"sending"} \union Unsent => accepted[job[v]] = 0
              /\ pc[v] = "acked" => accepted[job[v]] = 1
          BY <4>4 DEF SenderKnows
        <5> QED BY <2>3, <4>1, <4>4, <5>1 DEF Live, Rearmable
      <4> QED BY <4>2, <4>3, <4>4
    <3> QED BY <3>1, <3>2
  <2> QED BY <2>4, <2>5
<1>5. \/ /\ state' = [b \in Alerts |-> IF b \in Candidates THEN "cancelled" ELSE Swept(b)]
         /\ UNCHANGED <<token, workVars>>
      \/ \E a \in Candidates : \E dropped \in SUBSET (Candidates \ {a}) :
            /\ state' = [b \in Alerts |-> IF b = a THEN "leased"
                                          ELSE IF b \in dropped THEN "cancelled" ELSE Swept(b)]
            /\ token' = [token EXCEPT ![a] = w]
            /\ Goto(w, "claimed") /\ job' = [job EXCEPT ![w] = a]
  BY DEF Claim
<1> QED BY <1>3, <1>4, <1>5

(* Steps that touch no alert and no count: senders go on or give up.       *)
LEMMA PassiveStep ==
    ASSUME AlertInvariant, UNCHANGED <<state, token, accepted>>,
           \A v \in Workers : SenderStays(v)
    PROVE  AlertsTellTheTruth' /\ SenderKnows'
<1>1. \A a \in Alerts : AlertStep(a) BY DEF AlertStep, AlertKept
<1> QED BY <1>1, OutboxStep

(* Only one sender can hold the token of an alert.                         *)
LEMMA OthersAlert ==
    ASSUME AlertInvariant, NEW w \in Workers, NEW v \in Workers, v # w,
           token[job[w]] = w, pc[v] \in Late
    PROVE  job[v] # job[w]
BY DEF AlertInvariant, SenderKnows

(* Committing to a message (begin_send).                                   *)
LEMMA BeginSendStep ==
    ASSUME AlertInvariant, NEW w \in Workers, BeginSend(w)
    PROVE  AlertsTellTheTruth' /\ SenderKnows'
<1> USE DEF AlertInvariant
<1>1. CASE ~Valid(w)
  <2>1. UNCHANGED <<state, token, accepted>> /\ \A v \in Workers : SenderStays(v)
    BY <1>1 DEF BeginSend, columns, Idle, Goto, SenderStays, TypeInvariant
  <2> QED BY <2>1, PassiveStep
<1>2. CASE Valid(w)
  <2> DEFINE a == job[w]
  <2>1. /\ state[a] = "leased" /\ token[a] = w /\ a \in Alerts
        /\ UNCHANGED <<token, accepted, job>>
        /\ state' = [state EXCEPT ![a] = "sending"] /\ Goto(w, "sending")
    BY <1>2 DEF BeginSend, Valid, columns, SenderKnows
  <2>2. accepted[a] = 0 BY <2>1 DEF AlertsTellTheTruth, Undelivered, Live
  <2>3. AlertsTellTheTruth'
    BY <2>1, <2>2 DEF AlertsTellTheTruth, TypeInvariant, Undelivered, Live, Rearmable
  <2>4. SenderKnows'
    <3> SUFFICES ASSUME NEW v \in Workers
                 PROVE  /\ pc'[v] # "idle" => job[v] \in Alerts
                        /\ pc'[v] \in Early /\ token[job[v]] = v => state'[job[v]] # "sending"
                        /\ pc'[v] \in Late => token[job[v]] = v
                                              /\ state'[job[v]] \in {"sending", "review"}
                        /\ pc'[v] \in {"sending"} \union Unsent => accepted[job[v]] = 0
                        /\ pc'[v] = "acked" => accepted[job[v]] = 1
      BY <2>1 DEF SenderKnows
    <3>1. CASE v = w
      <4>1. pc'[v] = "sending" /\ state'[a] = "sending"
        BY <2>1, <3>1 DEF Goto, TypeInvariant
      <4> QED BY <2>1, <2>2, <3>1, <4>1 DEF Early
    <3>2. CASE v # w
      <4>1. pc'[v] = pc[v] BY <2>1, <3>2 DEF Goto, TypeInvariant
      <4>2. token[job[v]] = v => job[v] # a BY <2>1, <3>2
      <4>3. job[v] # a => state'[job[v]] = state[job[v]]
        BY <2>1 DEF TypeInvariant
      <4> QED BY <4>1, <4>2, <4>3 DEF SenderKnows
    <3> QED BY <3>1, <3>2
  <2> QED BY <2>3, <2>4
<1> QED BY <1>1, <1>2

(* The request itself: the only step that delivers anything.               *)
LEMMA PostStep ==
    ASSUME AlertInvariant, NEW w \in Workers, Post(w)
    PROVE  AlertsTellTheTruth' /\ SenderKnows'
<1> USE DEF AlertInvariant
<1> DEFINE a == job[w]
<1>1. /\ pc[w] = "sending" /\ a \in Alerts /\ token[a] = w /\ accepted[a] = 0
      /\ state[a] \in {"sending", "review"}
  BY DEF Post, SenderKnows, Late
<1>2. UNCHANGED <<state, token, job>> BY DEF Post, alertVars
<1>3. /\ \A b \in Alerts : b # a => accepted'[b] = accepted[b]
      /\ accepted'[a] \in {0, 1}
      /\ \A v \in Workers : v # w => pc'[v] = pc[v]
      /\ pc'[w] \in {"acked", "unknown"} \union Unsent
      /\ pc'[w] = "acked" => accepted'[a] = 1
      /\ pc'[w] \in Unsent => accepted'[a] = 0
  <2>1. CASE /\ \E step \in {"acked", "unknown"} : Goto(w, step)
             /\ accepted' = [accepted EXCEPT ![a] = @ + 1]
    BY <1>1, <2>1 DEF TypeInvariant, Goto, Unsent
  <2>2. CASE /\ \E step \in Unsent \union {"unknown"} : Goto(w, step)
             /\ UNCHANGED accepted
    BY <1>1, <2>2 DEF TypeInvariant, Goto, Unsent
  <2> QED BY <2>1, <2>2 DEF Post
<1>4. AlertsTellTheTruth'
  BY <1>1, <1>2, <1>3 DEF AlertsTellTheTruth, Undelivered, Live, Rearmable
<1>5. SenderKnows'
  <2> SUFFICES ASSUME NEW v \in Workers
               PROVE  /\ pc'[v] # "idle" => job[v] \in Alerts
                      /\ pc'[v] \in Early /\ token[job[v]] = v => state[job[v]] # "sending"
                      /\ pc'[v] \in Late => token[job[v]] = v
                                            /\ state[job[v]] \in {"sending", "review"}
                      /\ pc'[v] \in {"sending"} \union Unsent => accepted'[job[v]] = 0
                      /\ pc'[v] = "acked" => accepted'[job[v]] = 1
    BY <1>2 DEF SenderKnows
  <2>1. CASE v = w
    BY <1>1, <1>3, <2>1 DEF Early, Unsent
  <2>2. CASE v # w
    <3>1. pc'[v] = pc[v] BY <1>3, <2>2
    <3>2. pc[v] \in Late => job[v] \in Alerts /\ accepted'[job[v]] = accepted[job[v]]
      BY <1>1, <1>3, <2>2, OthersAlert DEF SenderKnows, Late, Unsent
    <3> QED BY <3>1, <3>2 DEF SenderKnows, Late
  <2> QED BY <2>1, <2>2
<1> QED BY <1>4, <1>5

-----------------------------------------------------------------------------
(* Safety                                                                  *)

(* Every step keeps the outbox truthful and the senders informed.          *)
LEMMA NextStep ==
    ASSUME AlertInvariant, [Next]_vars
    PROVE  AlertsTellTheTruth' /\ SenderKnows'
<1>1. CASE UNCHANGED vars
  BY <1>1, PassiveStep DEF vars, alertVars, workVars, SenderStays
<1>2. CASE Tick
  BY <1>2, PassiveStep DEF Tick, alertVars, workVars, SenderStays
<1>3. CASE Intake BY <1>3, ObserveStep DEF Intake
<1>4. CASE MemberStep
  <2>1. ASSUME NEW u \in Users, NEW q \in Queries, AddWatch(u, q)
        PROVE  AlertsTellTheTruth' /\ SenderKnows'
    BY <2>1, PassiveStep DEF AddWatch, storeRest, alertVars, workVars, SenderStays
  <2>2. ASSUME NEW u \in Users, NEW s \in {"ready", "blocked"}, TestDm(u, s)
        PROVE  AlertsTellTheTruth' /\ SenderKnows'
    BY <2>2, PassiveStep DEF TestDm, storeRest, alertVars, workVars, SenderStays
  <2>3. Orphans(watches', matches') \subseteq {a \in Alerts : state[a] \in Live}
    BY DEF Orphans
  <2>4. ASSUME NEW id \in Watches, NEW q \in Queries, EditWatch(id, q)
        PROVE  AlertsTellTheTruth' /\ SenderKnows'
    BY <2>3, <2>4, CancelStep DEF EditWatch, columns, workVars, SenderStays
  <2>5. ASSUME NEW id \in Watches, DeleteWatch(id)
        PROVE  AlertsTellTheTruth' /\ SenderKnows'
    BY <2>3, <2>5, CancelStep DEF DeleteWatch, columns, workVars, SenderStays
  <2>6. ASSUME NEW u \in Users, Revoke(u)
        PROVE  AlertsTellTheTruth' /\ SenderKnows'
    <3>1. {a \in Alerts : a[1] = u /\ state[a] \in Live} \subseteq
            {a \in Alerts : state[a] \in Live}
      OBVIOUS
    <3> QED BY <2>6, <3>1, CancelStep DEF Revoke, Revoked, columns, workVars, SenderStays
  <2> QED BY <1>4, <2>1, <2>2, <2>4, <2>5, <2>6 DEF MemberStep
<1>5. ASSUME NEW w \in Workers, SenderStep(w) \/ Abandon(w)
      PROVE  AlertsTellTheTruth' /\ SenderKnows'
  <2> USE DEF AlertInvariant
  <2>1. CASE Abandon(w)
    BY <2>1, PassiveStep DEF Abandon, Idle, Goto, alertVars, SenderStays, TypeInvariant
  <2>2. CASE Claim(w) BY <2>2, ClaimStep
  <2>3. CASE CheckMember(w)
    <3>1. pc[w] \in Early /\ pc[w] \notin Late /\ pc[w] # "idle"
      BY <2>3 DEF CheckMember, Early, Late, Unsent
    <3>2. CASE /\ Goto(w, IF pc[w] = "claimed" THEN "checked" ELSE "rechecked")
               /\ UNCHANGED <<alertVars, job, accepted>>
      BY <3>1, <3>2, PassiveStep DEF Goto, alertVars, SenderStays, TypeInvariant, Early
    <3>3. CASE SettleAs(w, "cancelled") BY <3>1, <3>3, SettleAsStep
    <3>4. CASE Revoked(job[w][1]) /\ Idle(w)
      <4>1. {a \in Alerts : a[1] = job[w][1] /\ state[a] \in Live} \subseteq
              {a \in Alerts : state[a] \in Live}
        OBVIOUS
      <4>2. \A v \in Workers : SenderStays(v)
        BY <3>4 DEF Idle, Goto, SenderStays, TypeInvariant
      <4> QED BY <3>4, <4>1, <4>2, CancelStep DEF Revoked, columns
    <3>5. CASE RetryLater(w) BY <3>1, <3>5, RetryStep
    <3> QED BY <2>3, <3>2, <3>3, <3>4, <3>5 DEF CheckMember
  <2>4. CASE Validate(w)
    BY <2>4, PassiveStep DEF Validate, Goto, alertVars, SenderStays, TypeInvariant, Early
  <2>5. CASE Doom(w)
    BY <2>5, SettleAsStep DEF Doom, Early, Late, Unsent
  <2>6. CASE BeginSend(w) BY <2>6, BeginSendStep
  <2>7. CASE Post(w) BY <2>7, PostStep
  <2>8. CASE Settle(w)
    <3>1. CASE pc[w] \in {"acked", "unknown"} /\ SettleSent(w)
      BY <3>1, SettleAsStep DEF SettleSent, Early, Late
    <3>2. CASE pc[w] \in {"limited", "unsent"} /\ RetryLater(w)
      BY <3>2, RetryStep DEF Unsent
    <3>3. CASE pc[w] = "rejected" /\ SettleAs(w, "failed")
      BY <3>3, SettleAsStep DEF Early, Late, Unsent
    <3> QED BY <2>8, <3>1, <3>2, <3>3 DEF Settle
  <2>9. CASE Pause(w)
    BY <2>9, PassiveStep DEF Pause, Goto, alertVars, SenderStays, TypeInvariant, Unsent
  <2> QED BY <1>5, <2>1, <2>2, <2>3, <2>4, <2>5, <2>6, <2>7, <2>8, <2>9 DEF SenderStep
<1> QED BY <1>1, <1>2, <1>3, <1>4, <1>5 DEF Next

-----------------------------------------------------------------------------
(* Types                                                                   *)

(* An empty database is well typed.                                        *)
LEMMA InitType == Init => TypeInvariant
<1> SUFFICES ASSUME Init PROVE TypeInvariant OBVIOUS
<1>1. matches \in [Alerts -> [Watches -> 0..(MAX_REVISION + 1)]]
  BY RequestConstants DEF Init
<1>2. state \in [Alerts -> AlertStates] BY DEF Init, AlertStates
<1>3. pc \in [Workers -> Steps] BY DEF Init, Steps
<1> QED BY <1>1, <1>2, <1>3 DEF Init, TypeInvariant

(* Cancelling keeps states typed.                                          *)
LEMMA CancelType ==
    ASSUME TypeInvariant, NEW gone, Cancel(gone)
    PROVE  state' \in [Alerts -> AlertStates]
BY DEF Cancel, TypeInvariant, AlertStates, Rearmable

(* What an observation writes is typed.                                    *)
LEMMA ObserveType ==
    ASSUME TypeInvariant, NEW i \in Items, NEW f \in Facets \union {NoFacet},
           NEW seed \in BOOLEAN, Observe(i, f, seed)
    PROVE  TypeInvariant'
<1> USE DEF TypeInvariant
<1>1. ASSUME NEW a \in Alerts PROVE AfterExpiry(a) \in AlertStates
  BY <1>1 DEF AfterExpiry, AlertStates, Rearmable
<1>2. latest' \in [Items -> Facets \union {NoFacet}] BY DEF Observe
<1>3. CASE Observed(i, f)
  <2>1. state' \in [Alerts -> AlertStates]
    BY <1>1, <1>3 DEF Observed, AlertStates, Live
  <2>2. /\ facet' \in [Alerts -> Facets \union {NoFacet}]
        /\ observed' \in [Alerts -> Nat]
        /\ nextAttempt' \in [Alerts -> Nat] /\ leaseUntil' \in [Alerts -> Nat]
        /\ token' \in [Alerts -> Workers \union {NoWorker}]
    BY <1>3 DEF Observed
  <2>3. expires' \in [Alerts -> Nat]
    BY <1>3, RequestConstants DEF Observed
  <2>4. ASSUME NEW a \in Alerts, NEW id \in Matching(a[1], i, f)
        PROVE  id \in Watches /\ watches[id].revision \in 0..(MAX_REVISION + 1)
    BY <2>4, RequestConstants DEF Matching, Owned, Watch
  <2>5. matches' \in [Alerts -> [Watches -> 0..(MAX_REVISION + 1)]]
    <3> SUFFICES ASSUME NEW a \in Alerts, NEW id \in Watches
                 PROVE  (IF (Inserted(a, i, f) \/ Refreshed(a, i)) /\ id \in Matching(a[1], i, f)
                         THEN watches[id].revision
                         ELSE IF Inserted(a, i, f) THEN 0 ELSE matches[a][id])
                           \in 0..(MAX_REVISION + 1)
      BY <1>3 DEF Observed
    <3> QED BY <2>4, RequestConstants
  <2> QED BY <1>2, <2>1, <2>2, <2>3, <2>5 DEF Observe, workVars
<1>4. CASE Withdrawn(i, f)
  <2>1. state' \in [Alerts -> AlertStates]
    BY <1>1, <1>4 DEF Withdrawn, AlertStates, Rearmable
  <2> QED BY <1>2, <1>4, <2>1 DEF Observe, Withdrawn, workVars
<1>5. CASE UNCHANGED alertVars
  BY <1>2, <1>5 DEF Observe, alertVars, workVars
<1> QED BY <1>3, <1>4, <1>5 DEF Observe

(* Settling and retrying keep the types.                                   *)
LEMMA SettleType ==
    ASSUME TypeInvariant, NEW w \in Workers, NEW outcome \in AlertStates,
           SettleAs(w, outcome) \/ RetryLater(w)
    PROVE  TypeInvariant'
<1> USE DEF TypeInvariant
<1>1. pc' \in [Workers -> Steps] /\ job' \in [Workers -> Alerts \union {NoAlert}]
  BY DEF SettleAs, RetryLater, Idle, Goto, Steps
<1>2. CASE SettleAs(w, outcome)
  BY <1>1, <1>2 DEF SettleAs, columns
<1>3. CASE RetryLater(w)
  <2>1. state' \in [Alerts -> AlertStates]
    BY <1>3 DEF RetryLater, AlertStates, Live
  <2>2. nextAttempt' \in [Alerts -> Nat]
    BY <1>3, RequestConstants DEF RetryLater
  <2>3. token' \in [Alerts -> Workers \union {NoWorker}] /\ leaseUntil' \in [Alerts -> Nat]
    BY <1>3 DEF RetryLater
  <2> QED BY <1>1, <1>3, <2>1, <2>2, <2>3 DEF RetryLater
<1> QED BY <1>2, <1>3

(* What a claim does: it takes an alert and drops others, or all of them.   *)
LEMMA ClaimIs ==
    ASSUME NEW w \in Workers, Claim(w)
    PROVE  \/ /\ state' = [a \in Alerts |-> IF a \in Candidates THEN "cancelled" ELSE Swept(a)]
              /\ UNCHANGED <<facet, observed, expires, nextAttempt, token, leaseUntil, workVars>>
           \/ \E a \in Candidates : \E dropped \in SUBSET Candidates :
                 /\ state' = [b \in Alerts |-> IF b = a THEN "leased"
                                 ELSE IF b \in dropped THEN "cancelled" ELSE Swept(b)]
                 /\ token' = [token EXCEPT ![a] = w]
                 /\ leaseUntil' = [leaseUntil EXCEPT ![a] = now + LEASE]
                 /\ Goto(w, "claimed") /\ job' = [job EXCEPT ![w] = a]
                 /\ UNCHANGED <<facet, observed, expires, nextAttempt>>
BY DEF Claim

(* Claiming keeps the types.                                               *)
LEMMA ClaimType ==
    ASSUME TypeInvariant, NEW w \in Workers, Claim(w)
    PROVE  TypeInvariant'
<1>1. \A a \in Alerts : Swept(a) \in AlertStates
  BY SweptIs DEF TypeInvariant, AlertStates, Rearmable
<1>2. \A a \in Candidates : a \in Alerts BY DEF Candidates
<1>3. CASE /\ state' = [a \in Alerts |-> IF a \in Candidates THEN "cancelled" ELSE Swept(a)]
           /\ UNCHANGED <<facet, observed, expires, nextAttempt, token, leaseUntil, workVars>>
  <2>1. state' \in [Alerts -> AlertStates]
    BY <1>1, <1>3 DEF TypeInvariant, AlertStates, Rearmable
  <2> QED BY <1>3, <2>1 DEF Claim, TypeInvariant, workVars
<1>4. ASSUME NEW a \in Candidates, NEW dropped,
             /\ state' = [b \in Alerts |-> IF b = a THEN "leased"
                             ELSE IF b \in dropped THEN "cancelled" ELSE Swept(b)]
             /\ token' = [token EXCEPT ![a] = w]
             /\ leaseUntil' = [leaseUntil EXCEPT ![a] = now + LEASE]
             /\ Goto(w, "claimed") /\ job' = [job EXCEPT ![w] = a]
             /\ UNCHANGED <<facet, observed, expires, nextAttempt>>
      PROVE  TypeInvariant'
  <2>1. state' \in [Alerts -> AlertStates]
    BY <1>1, <1>4 DEF TypeInvariant, AlertStates, Rearmable, Live
  <2>2. leaseUntil' \in [Alerts -> Nat]
    <3>1. now + LEASE \in Nat BY RequestConstants DEF TypeInvariant
    <3>2. leaseUntil' = [leaseUntil EXCEPT ![a] = now + LEASE] BY <1>4
    <3> QED BY <3>1, <3>2 DEF TypeInvariant
  <2>3. pc' \in [Workers -> Steps] BY <1>4 DEF Goto, Steps, Early, TypeInvariant
  <2>4. job' \in [Workers -> Alerts \union {NoAlert}] BY <1>2, <1>4 DEF TypeInvariant
  <2> QED BY <1>4, <2>1, <2>2, <2>3, <2>4 DEF Claim, TypeInvariant
<1> QED BY <1>3, <1>4, ClaimIs

(* The member's commands keep the types.                                   *)
LEMMA MemberType ==
    ASSUME TypeInvariant, MemberStep
    PROVE  TypeInvariant'
<1> USE DEF TypeInvariant
<1>1. ASSUME NEW u \in Users, NEW q \in Queries, AddWatch(u, q) PROVE TypeInvariant'
  <2>1. [user |-> u, query |-> q, revision |-> 1, updated |-> now] \in Watch
    BY RequestConstants DEF Watch
  <2>2. watches' \in [Watches -> Watch \union {NoWatch}] BY <1>1, <2>1 DEF AddWatch
  <2> QED BY <1>1, <2>2 DEF AddWatch, storeRest, alertVars, workVars
<1>2. ASSUME NEW id \in Watches PROVE ForgetMatches(id) \in [Alerts -> [Watches -> 0..(MAX_REVISION + 1)]]
  BY <1>2, RequestConstants DEF ForgetMatches
<1>3. ASSUME NEW id \in Watches, NEW q \in Queries, EditWatch(id, q) PROVE TypeInvariant'
  <2>1. watches[id] \in Watch BY <1>3 DEF EditWatch
  <2>2. [user |-> watches[id].user, query |-> q, revision |-> watches[id].revision + 1,
         updated |-> now] \in Watch
    BY <1>3, <2>1, RequestConstants DEF Watch, EditWatch
  <2>3. watches' = [watches EXCEPT ![id] =
          [user |-> watches[id].user, query |-> q, revision |-> watches[id].revision + 1,
           updated |-> now]]
    BY <1>3 DEF EditWatch
  <2>4. watches' \in [Watches -> Watch \union {NoWatch}] BY <2>2, <2>3
  <2>5. state' \in [Alerts -> AlertStates] BY <1>3, CancelType DEF EditWatch
  <2> QED BY <1>2, <1>3, <2>4, <2>5 DEF EditWatch, columns, workVars
<1>4. ASSUME NEW id \in Watches, DeleteWatch(id) PROVE TypeInvariant'
  <2>1. state' \in [Alerts -> AlertStates] BY <1>4, CancelType DEF DeleteWatch
  <2> QED BY <1>2, <1>4, <2>1 DEF DeleteWatch, columns, workVars
<1>5. ASSUME NEW u \in Users, NEW s \in {"ready", "blocked"}, TestDm(u, s) PROVE TypeInvariant'
  BY <1>5 DEF TestDm, storeRest, alertVars, workVars
<1>6. ASSUME NEW u \in Users, Revoke(u) PROVE TypeInvariant'
  <2>1. state' \in [Alerts -> AlertStates] BY <1>6, CancelType DEF Revoke, Revoked
  <2>2. matches' \in [Alerts -> [Watches -> 0..(MAX_REVISION + 1)]]
    BY <1>6, RequestConstants DEF Revoke, Revoked
  <2> QED BY <1>6, <2>1, <2>2 DEF Revoke, Revoked, columns, workVars
<1> QED BY <1>1, <1>3, <1>4, <1>5, <1>6 DEF MemberStep

(* Every step keeps the types.                                             *)
LEMMA TypeStep ==
    ASSUME AlertInvariant, [Next]_vars
    PROVE  TypeInvariant'
<1> USE DEF AlertInvariant
<1>1. CASE UNCHANGED vars
  BY <1>1 DEF TypeInvariant, vars, alertVars, workVars
<1>2. CASE Tick BY <1>2 DEF Tick, TypeInvariant, alertVars, workVars
<1>3. CASE Intake BY <1>3, ObserveType DEF Intake
<1>4. CASE MemberStep BY <1>4, MemberType
<1>5. ASSUME NEW w \in Workers, SenderStep(w) \/ Abandon(w) PROVE TypeInvariant'
  <2>1. CASE Abandon(w)
    BY <2>1 DEF Abandon, Idle, Goto, alertVars, TypeInvariant, Steps
  <2>2. CASE Claim(w) BY <2>2, ClaimType
  <2>3. CASE CheckMember(w)
    <3>1. CASE /\ Goto(w, IF pc[w] = "claimed" THEN "checked" ELSE "rechecked")
               /\ UNCHANGED <<now, watches, nextId, dm, alertVars, job, accepted, latest>>
      BY <3>1 DEF Goto, alertVars, TypeInvariant, Steps, Early
    <3>2. CASE SettleAs(w, "cancelled") \/ RetryLater(w)
      BY <3>2, SettleType DEF AlertStates, Rearmable
    <3>3. CASE Revoked(job[w][1]) /\ Idle(w)
      <4>1. job[w] \in Alerts BY <2>3 DEF CheckMember, SenderKnows
      <4>2. job[w][1] \in Users BY <4>1 DEF Alerts
      <4>3. state' \in [Alerts -> AlertStates] BY <3>3, CancelType DEF Revoked
      <4>4. matches' \in [Alerts -> [Watches -> 0..(MAX_REVISION + 1)]]
        BY <3>3, RequestConstants DEF Revoked, TypeInvariant
      <4>5. watches' \in [Watches -> Watch \union {NoWatch}]
        BY <3>3 DEF Revoked, TypeInvariant
      <4>6. dm' \in [Users -> {"needs_test", "ready", "blocked"}]
        BY <3>3, <4>2 DEF Revoked, TypeInvariant
      <4>7. pc' \in [Workers -> Steps] /\ job' \in [Workers -> Alerts \union {NoAlert}]
        BY <3>3 DEF Idle, Goto, Steps, TypeInvariant
      <4> QED BY <3>3, <4>3, <4>4, <4>5, <4>6, <4>7 DEF Revoked, columns, TypeInvariant
    <3> QED BY <2>3, <3>1, <3>2, <3>3 DEF CheckMember
  <2>4. CASE Validate(w)
    BY <2>4 DEF Validate, Goto, alertVars, TypeInvariant, Steps, Early
  <2>5. CASE Doom(w) BY <2>5, SettleType DEF Doom, AlertStates, Rearmable
  <2>6. CASE BeginSend(w)
    <3>1. state' \in [Alerts -> AlertStates]
      BY <2>6 DEF BeginSend, TypeInvariant, AlertStates
    <3>2. pc' \in [Workers -> Steps] /\ job' \in [Workers -> Alerts \union {NoAlert}]
      BY <2>6 DEF BeginSend, Goto, Idle, TypeInvariant, Steps, Late
    <3> QED BY <2>6, <3>1, <3>2 DEF BeginSend, columns, TypeInvariant
  <2>7. CASE Post(w)
    <3>1. pc' \in [Workers -> Steps]
      BY <2>7 DEF Post, Goto, TypeInvariant, Steps, Late
    <3>2. accepted' \in [Alerts -> Nat]
      BY <2>7 DEF Post, TypeInvariant
    <3> QED BY <2>7, <3>1, <3>2 DEF Post, alertVars, TypeInvariant
  <2>8. CASE Settle(w)
    BY <2>8, SettleType DEF Settle, SettleSent, AlertStates, Rearmable
  <2>9. CASE Pause(w)
    <3>1. job[w] \in Alerts /\ job[w][1] \in Users
      BY <2>9 DEF Pause, SenderKnows, Alerts
    <3> QED BY <2>9, <3>1 DEF Pause, Goto, alertVars, TypeInvariant, Steps, Late, Unsent
  <2> QED BY <1>5, <2>1, <2>2, <2>3, <2>4, <2>5, <2>6, <2>7, <2>8, <2>9 DEF SenderStep
<1> QED BY <1>1, <1>2, <1>3, <1>4, <1>5 DEF Next

-----------------------------------------------------------------------------
(* Theorems                                                                *)

(* The strengthened invariant holds throughout.                            *)
THEOREM AlertInvariantHolds == Spec => []AlertInvariant
<1>1. Init => AlertInvariant
  <2> SUFFICES ASSUME Init PROVE AlertsTellTheTruth /\ SenderKnows
    BY InitType DEF AlertInvariant
  <2> QED BY DEF Init, AlertsTellTheTruth, SenderKnows, Early, Late, Unsent
<1>2. AlertInvariant /\ [Next]_vars => AlertInvariant'
  BY NextStep, TypeStep DEF AlertInvariant
<1> QED BY <1>1, <1>2, PTL DEF Spec

(* Member by member and product by product, at most one message is ever    *)
(* delivered, and no state from which a message can be sent hides one that *)
(* was (request_store.py, request_delivery.py).                            *)
THEOREM NeverSentTwice == Spec => []AlertsTellTheTruth
<1>1. AlertInvariant => AlertsTellTheTruth BY DEF AlertInvariant
<1> QED BY <1>1, AlertInvariantHolds, PTL

-----------------------------------------------------------------------------
(* Committing to a message                                                 *)

(* No transaction but begin_send commits an alert: the others move it      *)
(* between unsent states, settle it, or hold it for review.                *)
LEMMA OnlyBeginSendCommits ==
    ASSUME AlertInvariant, Next, NEW a \in Alerts, state[a] = "leased", state'[a] = "sending"
    PROVE  \E w \in Workers : BeginSend(w) /\ Valid(w) /\ job[w] = a
<1> USE DEF AlertInvariant
<1>1. ~(state' = state) OBVIOUS
<1>2. ~(\E gone : Cancel(gone)) BY DEF Cancel
<1>3. ~Tick BY <1>1 DEF Tick, alertVars
<1>4. ~Intake
  <2> SUFFICES ASSUME NEW i \in Items, NEW f \in Facets \union {NoFacet},
                      NEW seed \in BOOLEAN, Observe(i, f, seed)
               PROVE  FALSE
    BY DEF Intake
  <2>1. AfterExpiry(a) # "sending" BY DEF AfterExpiry
  <2>2. ~Observed(i, f) BY <2>1 DEF Observed
  <2>3. ~Withdrawn(i, f) BY <2>1 DEF Withdrawn
  <2> QED BY <1>1, <2>2, <2>3 DEF Observe, alertVars
<1>5. ~MemberStep
  <2>1. \A u \in Users, q \in Queries : ~AddWatch(u, q)
    BY <1>1 DEF AddWatch, storeRest, alertVars
  <2>2. \A id \in Watches, q \in Queries : ~EditWatch(id, q) BY <1>2 DEF EditWatch
  <2>3. \A id \in Watches : ~DeleteWatch(id) BY <1>2 DEF DeleteWatch
  <2>4. \A u \in Users, s \in {"ready", "blocked"} : ~TestDm(u, s)
    BY <1>1 DEF TestDm, storeRest, alertVars
  <2>5. \A u \in Users : ~Revoke(u) BY <1>2 DEF Revoke, Revoked
  <2> QED BY <2>1, <2>2, <2>3, <2>4, <2>5 DEF MemberStep
<1>6. ASSUME NEW w \in Workers, SenderStep(w) \/ Abandon(w)
      PROVE  BeginSend(w) /\ Valid(w) /\ job[w] = a
  <2>1. ASSUME NEW outcome, outcome # "sending" PROVE ~SettleAs(w, outcome)
    BY <2>1 DEF SettleAs, TypeInvariant
  <2>2. ~RetryLater(w) BY DEF RetryLater, TypeInvariant
  <2>3. ~Abandon(w) BY <1>1 DEF Abandon, alertVars
  <2>4. ~Claim(w)
    <3>1. Swept(a) # "sending" BY SweptIs DEF Live
    <3>2. ~(state' = [b \in Alerts |-> IF b \in Candidates THEN "cancelled" ELSE Swept(b)])
      BY <3>1
    <3>3. \A c, dropped : ~(state' = [b \in Alerts |->
              IF b = c THEN "leased" ELSE IF b \in dropped THEN "cancelled" ELSE Swept(b)])
      BY <3>1
    <3> QED BY <3>2, <3>3 DEF Claim
  <2>5. ~CheckMember(w)
    BY <1>1, <1>2, <2>1, <2>2 DEF CheckMember, Revoked, alertVars
  <2>6. ~Validate(w) BY <1>1 DEF Validate, alertVars
  <2>7. ~Doom(w) BY <2>1 DEF Doom
  <2>8. ~Post(w) BY <1>1 DEF Post, alertVars
  <2>9. ~Settle(w) BY <2>1, <2>2 DEF Settle, SettleSent
  <2>10. ~Pause(w) BY <1>1 DEF Pause, alertVars
  <2>11. BeginSend(w)
    BY <1>6, <2>3, <2>4, <2>5, <2>6, <2>7, <2>8, <2>9, <2>10 DEF SenderStep
  <2> QED BY <1>1, <2>11 DEF BeginSend, TypeInvariant
<1> QED BY <1>3, <1>4, <1>5, <1>6 DEF Next

(* "Commit possible submission and return its exact validated snapshot"    *)
(* (begin_send): whatever happened since the claim, a message commits only *)
(* while a watch of the member, not edited since the observation it was    *)
(* matched to, wants the very product and value it shows.                  *)
THEOREM CommitsAreWanted == Spec => CommittedForCurrentWatch
<1> DEFINE Wanted(a) ==
      /\ dm[a[1]] = "ready"
      /\ \E id \in Owned(a[1]) : /\ <<a[2], facet[a]>> \in Wants[watches[id].query]
                                 /\ watches[id].updated <= observed[a]
<1>1. ASSUME AlertInvariant, [Next]_vars, NEW a \in Alerts,
             state[a] = "leased", state'[a] = "sending"
      PROVE  Wanted(a)
  <2>1. Next BY <1>1 DEF vars, alertVars
  <2>2. PICK w \in Workers : Valid(w) /\ job[w] = a
    BY <1>1, <2>1, OnlyBeginSendCommits
  <2>3. dm[a[1]] = "ready" /\ StillWanted(a, watches, matches)
    BY <2>2 DEF Valid, Deliverable
  <2> QED BY <2>3 DEF StillWanted, Current, Owned
<1>2. AlertInvariant /\ [Next]_vars =>
        [\A a \in Alerts : state[a] = "leased" /\ state'[a] = "sending" => Wanted(a)]_vars
  BY <1>1
<1> QED BY <1>2, AlertInvariantHolds, PTL DEF Spec, CommittedForCurrentWatch
=============================================================================
