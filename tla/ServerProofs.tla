---------------------------- MODULE ServerProofs ----------------------------
(***************************************************************************)
(* Machine-checked theorems about what talks to the Discord server: its    *)
(* greetings (Greetings.tla), its setup (Provision.tla), and the HTTP      *)
(* client that every worker shares (DiscordClient.tla).                    *)
(***************************************************************************)
EXTENDS Greetings, Provision, DiscordClient, FiniteSetTheorems, WellFoundedInduction, TLAPS

-----------------------------------------------------------------------------
(***************************************************************************)
(* The greetings, for every set of members, every page and outbox size,    *)
(* every number of messages, role changes and days: nobody is pinged       *)
(* twice, the cursor passes no join message that was not read, and a       *)
(* celebration is earned.                                                  *)
(***************************************************************************)

-----------------------------------------------------------------------------
(* The outbox                                                              *)

(* How often a greeting went out is a number.                              *)
LEMMA PostedType == TypeInvariant => \A i \in Nat : Posted(i) \in Nat
BY DEF TypeInvariant, Posted

(* The greeting the worker holds is in the outbox, claimed.                *)
LEMMA CurrentIs ==
    ASSUME TypeInvariant, At("claimed") \/ At("answered")
    PROVE  Current \in rows /\ Current.id = worker.row /\ Current.state = "sending"
<1>1. \E r \in rows : r.id = worker.row /\ r.state = "sending" BY DEF TypeInvariant, At
<1>2. \E r \in rows : r.id = worker.row BY <1>1
<1>3. Current \in rows /\ Current.id = worker.row BY <1>2 DEF Current
<1> QED BY <1>1, <1>3 DEF TypeInvariant

(* A row in another state is the same greeting.                            *)
LEMMA InStateIs ==
    ASSUME NEW r \in Row, NEW s \in States
    PROVE  /\ InState(r, s) \in Row /\ InState(r, s).state = s
           /\ InState(r, s).id = r.id /\ InState(r, s).key = r.key
           /\ InState(r, s).created = r.created
BY DEF InState, Row

(* A step that forgets rows, or moves them to another state, greets nobody *)
(* anew.                                                                   *)
SameGreeting(g) == \A r \in rows : /\ g[r].id = r.id /\ g[r].key = r.key
                                   /\ g[r].created = r.created
Rewriting(new) == \E g \in [rows -> Row] : SameGreeting(g) /\ new \subseteq {g[r] : r \in rows}

(* One row moves to another state.                                         *)
LEMMA SettledRewrites ==
    ASSUME TypeInvariant, NEW r \in rows, NEW s \in States
    PROVE  Rewriting(Settled(r, s))
<1> DEFINE g == [x \in rows |-> IF x = r THEN InState(r, s) ELSE x]
<1>1. g \in [rows -> Row] /\ SameGreeting(g)
  BY InStateIs DEF TypeInvariant, SameGreeting
<1>2. Settled(r, s) \subseteq {g[x] : x \in rows} BY DEF Settled
<1> QED BY <1>1, <1>2 DEF Rewriting

(* Nothing moves.                                                          *)
LEMMA StillRewrites == TypeInvariant => Rewriting(rows)
<1> SUFFICES ASSUME TypeInvariant PROVE Rewriting(rows) OBVIOUS
<1> DEFINE g == [x \in rows |-> x]
<1>1. g \in [rows -> Row] /\ SameGreeting(g) BY DEF TypeInvariant, SameGreeting
<1> QED BY <1>1 DEF Rewriting

(* Stale greetings are skipped and settled ones forgotten.                 *)
LEMMA TickRewrites == TypeInvariant /\ Tick => Rewriting(rows')
<1> SUFFICES ASSUME TypeInvariant, Tick PROVE Rewriting(rows') OBVIOUS
<1> DEFINE g == [x \in rows |-> IF Expired(x) THEN InState(x, "skipped") ELSE x]
<1>1. g \in [rows -> Row] /\ SameGreeting(g)
  BY InStateIs DEF TypeInvariant, SameGreeting, States
<1>2. rows' \subseteq {g[x] : x \in rows} BY DEF Tick, Swept
<1> QED BY <1>1, <1>2 DEF Rewriting

(* The rows of one key, and how a rewriting counts them.                   *)
Of(set, k) == {r \in set : r.key = k}

LEMMA RewriteKeeps ==
    ASSUME TypeInvariant, NEW new, Rewriting(new)
    PROVE  /\ new \subseteq Row /\ IsFiniteSet(new)
           /\ \A r, s \in new : r.id = s.id => r = s
           /\ \A x \in new : \E r \in rows : /\ r.id = x.id /\ r.key = x.key
                                             /\ r.created = x.created
           /\ \A x, y \in new : x # y => \E r, s \in rows :
                 /\ r # s /\ r.key = x.key /\ s.key = y.key
                 /\ r.created = x.created /\ s.created = y.created
           /\ \A k : /\ IsFiniteSet(Of(rows, k)) /\ IsFiniteSet(Of(new, k))
                     /\ Cardinality(Of(new, k)) \in Nat /\ Cardinality(Of(rows, k)) \in Nat
                     /\ Cardinality(Of(new, k)) <= Cardinality(Of(rows, k))
<1>1. PICK g \in [rows -> Row] : SameGreeting(g) /\ new \subseteq {g[r] : r \in rows}
  BY DEF Rewriting
<1>2. IsFiniteSet(rows) BY DEF TypeInvariant
<1>3. new \subseteq Row BY <1>1
<1>4. \A x \in new : \E r \in rows : x = g[r] BY <1>1
<1>5. \A x \in new : \E r \in rows : r.id = x.id /\ r.key = x.key /\ r.created = x.created
  BY <1>1, <1>4 DEF SameGreeting
<1>6. \A r, s \in new : r.id = s.id => r = s
  BY <1>1, <1>4 DEF SameGreeting, TypeInvariant
<1>7. \A x, y \in new : x # y => \E r, s \in rows :
         /\ r # s /\ r.key = x.key /\ s.key = y.key
         /\ r.created = x.created /\ s.created = y.created
  <2> SUFFICES ASSUME NEW x \in new, NEW y \in new, x # y
               PROVE  \E r, s \in rows : /\ r # s /\ r.key = x.key /\ s.key = y.key
                                         /\ r.created = x.created /\ s.created = y.created
    OBVIOUS
  <2>1. PICK r \in rows : x = g[r] BY <1>4
  <2>2. PICK s \in rows : y = g[s] BY <1>4
  <2> QED BY <1>1, <2>1, <2>2 DEF SameGreeting
<1>8. ASSUME NEW S \in SUBSET rows, NEW T, \A x \in T : \E r \in S : x = g[r]
      PROVE  /\ IsFiniteSet(S) /\ IsFiniteSet(T)
             /\ Cardinality(T) \in Nat /\ Cardinality(S) \in Nat
             /\ Cardinality(T) <= Cardinality(S)
  <2> DEFINE U == {g[r] : r \in S}
             h == [r \in S |-> g[r]]
  <2>1. IsFiniteSet(S) BY <1>2, FS_Subset
  <2>2. h \in Surjection(S, U) BY DEF Surjection
  <2>3. IsFiniteSet(U) /\ Cardinality(U) <= Cardinality(S) BY <2>1, <2>2, FS_Surjection
  <2>4. T \in SUBSET U BY <1>8
  <2>5. IsFiniteSet(T) /\ Cardinality(T) <= Cardinality(U) BY <2>3, <2>4, FS_Subset
  <2>6. /\ Cardinality(T) \in Nat /\ Cardinality(S) \in Nat /\ Cardinality(U) \in Nat
    BY <2>1, <2>3, <2>5, FS_CardinalityType
  <2> QED BY <2>1, <2>3, <2>5, <2>6
<1>9. IsFiniteSet(new) BY <1>4, <1>8
<1>10. ASSUME NEW k
       PROVE  /\ IsFiniteSet(Of(rows, k)) /\ IsFiniteSet(Of(new, k))
              /\ Cardinality(Of(new, k)) \in Nat /\ Cardinality(Of(rows, k)) \in Nat
              /\ Cardinality(Of(new, k)) <= Cardinality(Of(rows, k))
  <2>1. Of(rows, k) \in SUBSET rows BY DEF Of
  <2>2. \A x \in Of(new, k) : \E r \in Of(rows, k) : x = g[r]
    BY <1>1, <1>4 DEF Of, SameGreeting
  <2> QED BY <1>8, <2>1, <2>2
<1> QED BY <1>3, <1>5, <1>6, <1>7, <1>9, <1>10

(* Such a step keeps everything but the states of the greetings.           *)
LEMMA RewriteStep ==
    ASSUME EarnedInvariant, Rewriting(rows'),
           UNCHANGED <<bounds, discord, walk, snap, read>>,
           cooldown' \in [Keys -> Nat],
           \A k \in Keys : cooldown'[k] = cooldown[k] \/ cooldown[k] <= day,
           DOMAIN posts' \subseteq Used, worker'.pc # "compare"
    PROVE  /\ UsedIsKnown' /\ WalkIsRead' /\ WalkIsAbove'
           /\ GreetingsAreEarned' /\ OwnedOnce' /\ ScanIsListed' /\ RestsADay'
<1> USE DEF EarnedInvariant, OutboxInvariant, LedgerInvariant, bounds, discord, walk, snap
<1>1. \A x \in rows' : \E r \in rows : r.id = x.id /\ r.key = x.key /\ r.created = x.created
  BY RewriteKeeps
<1>2. \A k : /\ Cardinality(Of(rows', k)) \in Nat /\ Cardinality(Of(rows, k)) \in Nat
             /\ Cardinality(Of(rows', k)) <= Cardinality(Of(rows, k))
  BY RewriteKeeps
<1>3. UsedIsKnown'
  <2>1. Used' \subseteq Used BY <1>1 DEF Used
  <2> QED BY <2>1 DEF UsedIsKnown
<1>4. WalkIsRead' /\ WalkIsAbove' BY DEF WalkIsRead, WalkIsAbove
<1>5. ASSUME NEW u \in Users, NEW t \in Tiers
      PROVE  /\ Count(u, t)' \in Nat /\ Count(u, t) \in Nat
             /\ Count(u, t)' <= Count(u, t)
             /\ gains'[<<u, t>>] = gains[<<u, t>>] /\ gains[<<u, t>>] \in Nat
  <2>1. <<u, t>> \in Keys BY DEF Keys
  <2>2. Count(u, t)' = Cardinality(Of(rows', <<u, t>>)) BY DEF Count, Of
  <2>3. Count(u, t) = Cardinality(Of(rows, <<u, t>>)) BY DEF Count, Of
  <2> QED BY <1>2, <2>1, <2>2, <2>3 DEF TypeInvariant
<1>6. OwnedOnce'
  <2> SUFFICES ASSUME kind = "membership", NEW u \in Users, NEW t \in Tiers
               PROVE  /\ Count(u, t)' <= gains'[<<u, t>>]
                      /\ \/ WasListed(u) /\ scan[u] # t /\ roles[u] = t
                         \/ baseline /\ members[u] # t /\ t \in {scan[u], roles[u]}
                         => Count(u, t)' + 1 <= gains'[<<u, t>>]
    BY DEF OwnedOnce, WasListed
  <2>1. /\ Count(u, t) <= gains[<<u, t>>]
        /\ \/ WasListed(u) /\ scan[u] # t /\ roles[u] = t
           \/ baseline /\ members[u] # t /\ t \in {scan[u], roles[u]}
           => Count(u, t) + 1 <= gains[<<u, t>>]
    BY DEF OwnedOnce
  <2> HIDE DEF EarnedInvariant
  <2>2. Count(u, t)' <= gains'[<<u, t>>] BY <1>5, <2>1
  <2>3. Count(u, t) + 1 <= gains[<<u, t>>] => Count(u, t)' + 1 <= gains'[<<u, t>>] BY <1>5
  <2> QED BY <2>1, <2>2, <2>3
<1>7. GreetingsAreEarned'
  <2>1. ASSUME kind = "membership", NEW u \in Users, NEW t \in Tiers
        PROVE  Cardinality({r \in rows' : r.key = <<u, t>>}) <= gains'[<<u, t>>]
    <3>1. Count(u, t)' <= gains'[<<u, t>>] BY <1>6, <2>1 DEF OwnedOnce
    <3> QED BY <3>1 DEF Count
  <2>2. ASSUME NEW x \in rows', NEW y \in rows', x.key = y.key, x.created <= y.created, x # y
        PROVE  y.created > x.created
    <3>1. PICK r, s \in rows : /\ r # s /\ r.key = x.key /\ s.key = y.key
                               /\ r.created = x.created /\ s.created = y.created
      BY <2>2, RewriteKeeps
    <3> QED BY <2>2, <3>1 DEF GreetingsAreEarned
  <2> QED BY <2>1, <2>2 DEF GreetingsAreEarned
<1>8. ScanIsListed' BY DEF ScanIsListed, WasListed, At
<1>9. RestsADay'
  <2> SUFFICES ASSUME NEW x \in rows'
               PROVE  /\ x.created <= day
                      /\ x.created < day \/ x.created < cooldown'[x.key]
    BY DEF RestsADay
  <2>1. PICK r \in rows : r.key = x.key /\ r.created = x.created BY <1>1
  <2>2. r.created \in Nat /\ r.key \in Keys /\ day \in Nat /\ cooldown[r.key] \in Nat
    BY DEF TypeInvariant, Row
  <2>3. r.created <= day /\ (r.created < day \/ r.created < cooldown[r.key]) BY DEF RestsADay
  <2>4. cooldown'[r.key] = cooldown[r.key] \/ cooldown[r.key] <= day BY <2>2
  <2> QED BY <2>1, <2>2, <2>3, <2>4
<1> QED BY <1>3, <1>4, <1>6, <1>7, <1>8, <1>9

(* ... and the types, if the worker and its claim are sound.               *)
LEMMA RewriteType ==
    ASSUME TypeInvariant, Rewriting(rows'), UNCHANGED <<bounds, discord, walk, snap, read>>,
           cooldown' \in [Keys -> Nat], worker' \in Worker,
           DOMAIN posts' \subseteq Nat, posts' \in [DOMAIN posts' -> Nat],
           worker'.pc \in {"claimed", "answered"} =>
              \E r \in rows' : r.id = worker'.row /\ r.state = "sending"
    PROVE  TypeInvariant'
<1>1. rows' \subseteq Row /\ IsFiniteSet(rows') /\ \A r, s \in rows' : r.id = s.id => r = s
  BY RewriteKeeps
<1> QED BY <1>1 DEF TypeInvariant, bounds, discord, walk, snap

(* What the ledger says stays true if a row moves only to what is known.   *)
LEMMA LedgerKept ==
    ASSUME LedgerIsTrue, UNCHANGED posts,
           \A x \in rows' : \E r \in rows :
              /\ r.id = x.id
              /\ \/ x.state = r.state
                 \/ x.state \in {"pending", "failed", "skipped"} /\ Posted(r.id) = 0
                 \/ x.state = "sent" /\ Posted(r.id) = 1
                 \/ x.state \in {"sending", "review"}
    PROVE  LedgerIsTrue'
<1>1. \A i : Posted(i)' = Posted(i) BY DEF Posted
<1> QED BY <1>1 DEF LedgerIsTrue

(* One row that moves so.                                                  *)
LEMMA SettledKept ==
    ASSUME TypeInvariant, LedgerIsTrue, UNCHANGED posts, NEW r \in rows, NEW s \in States,
           rows' = Settled(r, s),
           s \in {"pending", "failed", "skipped"} => Posted(r.id) = 0,
           s = "sent" => Posted(r.id) = 1
    PROVE  LedgerIsTrue' /\ InState(r, s) \in rows' /\ Rewriting(rows')
<1>1. r \in Row BY DEF TypeInvariant
<1>2. ASSUME NEW x \in rows'
      PROVE  \E y \in rows : /\ y.id = x.id
              /\ \/ x.state = y.state
                 \/ x.state \in {"pending", "failed", "skipped"} /\ Posted(y.id) = 0
                 \/ x.state = "sent" /\ Posted(y.id) = 1
                 \/ x.state \in {"sending", "review"}
  <2>1. CASE x \in rows BY <2>1
  <2>2. CASE x = InState(r, s)
    <3>1. x.id = r.id /\ x.state = s BY <1>1, <2>2, InStateIs
    <3> QED BY <3>1 DEF States
  <2> QED BY <2>1, <2>2 DEF Settled
<1>3. LedgerIsTrue' BY <1>2, LedgerKept
<1> QED BY <1>3, SettledRewrites DEF Settled

(* The worker without a greeting in its hands.                             *)
LEMMA IdleWorkers ==
    ASSUME TypeInvariant
    PROVE  /\ Idle \in Worker
           /\ \A w \in Worker : worker' = w /\ w.pc \notin {"claimed", "answered"} => WorkerKnows'
           /\ [Idle EXCEPT !.pc = "collect"] \in Worker /\ [Idle EXCEPT !.pc = "compare"] \in Worker
           /\ \A i \in Nat : Done(i) \in Worker /\ Done(i).pc = "send"
           /\ \A i \in Nat : Goes(Done(i)) => worker' \in Worker /\ worker'.pc \in {"idle", "send"}
<1>1. Idle \in Worker BY DEF Idle, Worker
<1>2. \A i \in Nat : Done(i) \in Worker /\ Done(i).pc = "send"
  BY DEF Done, Idle, Worker, TypeInvariant
<1>3. \A i \in Nat : Goes(Done(i)) => worker' \in Worker /\ worker'.pc \in {"idle", "send"}
  BY <1>1, <1>2 DEF Goes, Idle
<1> QED BY <1>1, <1>2, <1>3 DEF WorkerKnows, At, Idle, Worker

(* What every step of the outbox preserves.                                *)
LEMMA OutboxStep ==
    ASSUME EarnedInvariant, Rewriting(rows'),
           UNCHANGED <<bounds, discord, walk, snap, read>>,
           cooldown' \in [Keys -> Nat],
           \A k \in Keys : cooldown'[k] = cooldown[k] \/ cooldown[k] <= day,
           worker' \in Worker, worker'.pc # "compare",
           DOMAIN posts' \subseteq Used, posts' \in [DOMAIN posts' -> Nat],
           worker'.pc \in {"claimed", "answered"} =>
              \E r \in rows' : r.id = worker'.row /\ r.state = "sending",
           LedgerIsTrue', WorkerKnows'
    PROVE  EarnedInvariant'
<1> USE DEF EarnedInvariant, OutboxInvariant, LedgerInvariant
<1>1. Used \subseteq Nat BY DEF Used, TypeInvariant, Row
<1>2. TypeInvariant' BY <1>1, RewriteType
<1> QED BY <1>2, RewriteStep

(* The outbox, action by action.                                           *)
LEMMA TickStep == EarnedInvariant /\ Tick => EarnedInvariant'
<1> SUFFICES ASSUME EarnedInvariant, Tick PROVE EarnedInvariant' OBVIOUS
<1> USE DEF EarnedInvariant, OutboxInvariant, LedgerInvariant
<1>1. Rewriting(rows') BY TickRewrites
<1>2. cooldown' \in [Keys -> Nat]
      /\ \A k \in Keys : cooldown'[k] = cooldown[k] \/ cooldown[k] <= day
  BY DEF Tick, TypeInvariant
<1>3. worker' = [Idle EXCEPT !.pc = "collect"] /\ worker' \in Worker /\ worker'.pc = "collect"
  BY IdleWorkers DEF Tick, Idle
<1>4. LedgerIsTrue'
  <2>1. ASSUME NEW x \in rows'
        PROVE  \E r \in rows : /\ r.id = x.id
                 /\ \/ x.state = r.state
                    \/ x.state \in {"pending", "failed", "skipped"} /\ Posted(r.id) = 0
                    \/ x.state = "sent" /\ Posted(r.id) = 1
                    \/ x.state \in {"sending", "review"}
    <3>1. PICK r \in rows : x = IF Expired(r) THEN InState(r, "skipped") ELSE r
      BY DEF Tick, Swept
    <3>2. CASE Expired(r)
      <4>1. r \in Row BY DEF TypeInvariant
      <4>2. x.id = r.id /\ x.state = "skipped" BY <3>1, <3>2, <4>1, InStateIs DEF States
      <4>3. Posted(r.id) = 0 BY <3>2 DEF Expired, LedgerIsTrue
      <4> QED BY <4>2, <4>3
    <3>3. CASE ~Expired(r) BY <3>1, <3>3
    <3> QED BY <3>2, <3>3
  <2> QED BY <2>1, LedgerKept DEF Tick, ghosts
<1>5. WorkerKnows' BY <1>3, IdleWorkers
<1>6. DOMAIN posts' \subseteq Used /\ posts' \in [DOMAIN posts' -> Nat]
  BY DEF Tick, ghosts, Used, TypeInvariant
<1> QED BY <1>1, <1>2, <1>3, <1>4, <1>5, <1>6, OutboxStep DEF Tick, ghosts

(* A step of the outbox that moves one row.                                *)
LEMMA MoveStep ==
    ASSUME EarnedInvariant, NEW r \in rows, NEW s \in States, rows' = Settled(r, s),
           s \in {"pending", "failed", "skipped"} => Posted(r.id) = 0,
           s = "sent" => Posted(r.id) = 1,
           UNCHANGED <<bounds, discord, cooldown, walk, snap, ghosts>>,
           worker' \in Worker,
           \/ worker'.pc \in {"idle", "send"}
           \/ s = "sending" /\ worker'.pc = "claimed" /\ worker'.row = r.id /\ Posted(r.id) = 0
    PROVE  EarnedInvariant'
<1> USE DEF EarnedInvariant, OutboxInvariant, LedgerInvariant
<1>1. LedgerIsTrue' /\ InState(r, s) \in rows' /\ Rewriting(rows')
  BY SettledKept DEF ghosts
<1>2. r \in Row BY DEF TypeInvariant
<1>3. InState(r, s).id = r.id /\ InState(r, s).state = s BY <1>2, InStateIs
<1>4. WorkerKnows'
  <2>1. \A i : Posted(i)' = Posted(i) BY DEF Posted, ghosts
  <2> QED BY <2>1 DEF WorkerKnows, At
<1>5. worker'.pc \in {"claimed", "answered"} =>
        \E x \in rows' : x.id = worker'.row /\ x.state = "sending"
  BY <1>1, <1>3
<1>6. /\ DOMAIN posts' \subseteq Used /\ posts' \in [DOMAIN posts' -> Nat]
      /\ cooldown' \in [Keys -> Nat] /\ \A k \in Keys : cooldown'[k] = cooldown[k]
  BY DEF ghosts, Used, TypeInvariant
<1> QED BY <1>1, <1>4, <1>5, <1>6, OutboxStep DEF ghosts

LEMMA ReconcileStep ==
    ASSUME EarnedInvariant, NEW r \in rows, Reconcile(r)
    PROVE  EarnedInvariant'
<1> USE DEF EarnedInvariant, OutboxInvariant, LedgerInvariant
<1>1. r \in Row /\ r.id \in Nat BY DEF TypeInvariant, Row
<1>2. worker' \in Worker /\ worker'.pc \in {"idle", "send"}
  BY <1>1, IdleWorkers DEF Reconcile
<1>3. Posted(r.id) > 0 => Posted(r.id) = 1
  BY <1>1, PostedType DEF LedgerIsTrue, Posted
<1>4. \/ Posted(r.id) > 0 /\ rows' = Settled(r, "sent")
      \/ rows' = Settled(r, "review")
  BY DEF Reconcile, Unsent
<1> QED BY <1>2, <1>3, <1>4, MoveStep DEF Reconcile, States

LEMMA ClaimStep ==
    ASSUME EarnedInvariant, NEW r \in rows, Claim(r)
    PROVE  EarnedInvariant'
<1> USE DEF EarnedInvariant, OutboxInvariant, LedgerInvariant
<1>1. r.id \in Nat BY DEF TypeInvariant, Row
<1>2. Posted(r.id) = 0 BY DEF Claim, LedgerIsTrue
<1>3. worker' \in Worker /\ worker'.pc = "claimed" /\ worker'.row = r.id
  BY <1>1 DEF Claim, TypeInvariant, Worker
<1> QED BY <1>2, <1>3, MoveStep DEF Claim, States

LEMMA PutOffStep == EarnedInvariant /\ PutOff => EarnedInvariant'
<1> SUFFICES ASSUME EarnedInvariant, PutOff PROVE EarnedInvariant' OBVIOUS
<1> USE DEF EarnedInvariant, OutboxInvariant, LedgerInvariant
<1>1. Current \in rows /\ Posted(Current.id) = 0
  BY CurrentIs DEF PutOff, WorkerKnows
<1>2. worker' \in Worker /\ worker'.pc = "idle" BY IdleWorkers DEF PutOff, Ends, Idle
<1> QED BY <1>1, <1>2, MoveStep DEF PutOff, States

LEMMA SettleStep == EarnedInvariant /\ Settle => EarnedInvariant'
<1> SUFFICES ASSUME EarnedInvariant, Settle PROVE EarnedInvariant' OBVIOUS
<1> USE DEF EarnedInvariant, OutboxInvariant, LedgerInvariant
<1>1. Current \in rows /\ Current.id = worker.row BY CurrentIs DEF Settle
<1>2. /\ worker.answer = "ok" => Posted(Current.id) = 1
      /\ worker.answer \in {"limited", "rejected"} => Posted(Current.id) = 0
  BY <1>1 DEF Settle, WorkerKnows
<1>3. worker.row \in Nat /\ worker.answer \in Answers
  BY DEF Settle, WorkerKnows, TypeInvariant, Worker
<1>4. worker' \in Worker /\ worker'.pc \in {"idle", "send"}
  BY <1>3, IdleWorkers DEF Settle, Ends, Idle
<1>5. CASE worker.answer = "ok"
  BY <1>1, <1>2, <1>4, <1>5, MoveStep DEF Settle, States
<1>6. CASE worker.answer = "limited"
  BY <1>1, <1>2, <1>4, <1>6, MoveStep DEF Settle, States
<1>7. CASE worker.answer = "rejected"
  BY <1>1, <1>2, <1>4, <1>7, MoveStep DEF Settle, States
<1>8. CASE rows' = rows
  <2>1. Rewriting(rows') BY <1>8, StillRewrites
  <2>2. LedgerIsTrue' BY <1>8, LedgerKept DEF Settle, ghosts
  <2>3. WorkerKnows' BY <1>4, IdleWorkers
  <2>4. /\ DOMAIN posts' \subseteq Used /\ posts' \in [DOMAIN posts' -> Nat]
        /\ cooldown' \in [Keys -> Nat] /\ \A k \in Keys : cooldown'[k] = cooldown[k]
    BY DEF Settle, ghosts, Used, TypeInvariant
  <2> QED BY <1>4, <2>1, <2>2, <2>3, <2>4, OutboxStep DEF Settle, ghosts
<1>9. worker.answer = "lost" => rows' = rows BY DEF Settle, AfterLoss
<1> QED BY <1>3, <1>5, <1>6, <1>7, <1>8, <1>9 DEF Answers

LEMMA PostStep == EarnedInvariant /\ Post => EarnedInvariant'
<1> SUFFICES ASSUME EarnedInvariant, Post PROVE EarnedInvariant' OBVIOUS
<1> USE DEF EarnedInvariant, OutboxInvariant, LedgerInvariant
<1>0. PICK i \in Nat : i = worker.row BY DEF TypeInvariant, Worker
<1>1. PICK answer \in Answers, arrives \in BOOLEAN :
        /\ answer = "ok" => arrives
        /\ answer \in {"limited", "rejected"} => ~arrives
        /\ worker' = [worker EXCEPT !.pc = "answered", !.answer = answer]
        /\ posts' = IF arrives THEN [j \in DOMAIN posts \union {i} |->
                         Posted(j) + (IF j = i THEN 1 ELSE 0)] ELSE posts
  BY <1>0 DEF Post
<1>2. PICK r \in rows : r.id = i /\ r.state = "sending"
  BY <1>0, CurrentIs DEF Post
<1>3. UNCHANGED <<bounds, discord, walk, snap, read, rows, cooldown>>
  BY DEF Post, ledger
<1>4. /\ worker' \in Worker /\ worker'.pc = "answered" /\ worker'.row = i
      /\ worker'.answer = answer /\ i \in Nat
  BY <1>0, <1>1 DEF TypeInvariant, Worker
<1>5. Posted(i) = 0 BY <1>0 DEF Post, WorkerKnows
<1>6. /\ DOMAIN posts' = IF arrives THEN DOMAIN posts \union {i} ELSE DOMAIN posts
      /\ DOMAIN posts' \subseteq Used
  BY <1>1, <1>2 DEF Used
<1>7. DOMAIN posts' \subseteq Nat BY <1>4, <1>6 DEF TypeInvariant
<1>8. /\ \A j : j # i => Posted(j)' = Posted(j)
      /\ Posted(i)' = IF arrives THEN 1 ELSE 0
  <2>1. CASE ~arrives BY <1>1, <1>5, <2>1 DEF Posted
  <2>2. CASE arrives
    <3>1. posts' = [j \in DOMAIN posts \union {i} |-> Posted(j) + (IF j = i THEN 1 ELSE 0)]
      BY <1>1, <2>2
    <3>2. posts'[i] = 1 BY <1>5, <3>1
    <3>3. ASSUME NEW j, j # i PROVE Posted(j)' = Posted(j)
      <4>1. CASE j \in DOMAIN posts
        <5>1. posts'[j] = Posted(j) + 0 /\ Posted(j) = posts[j] /\ posts[j] \in Nat
          BY <3>1, <3>3, <4>1 DEF Posted, TypeInvariant
        <5> QED BY <1>6, <2>2, <4>1, <5>1 DEF Posted
      <4>2. CASE j \notin DOMAIN posts BY <1>6, <2>2, <3>3, <4>2 DEF Posted
      <4> QED BY <4>1, <4>2
    <3> QED BY <1>6, <2>2, <3>2, <3>3 DEF Posted
  <2> QED BY <2>1, <2>2
<1>9. posts' \in [DOMAIN posts' -> Nat]
  <2>1. ASSUME NEW j \in DOMAIN posts' PROVE posts'[j] \in Nat
    <3>1. posts'[j] = Posted(j)' BY DEF Posted
    <3>2. j # i => Posted(j)' = Posted(j) /\ Posted(j) \in Nat BY <1>7, <1>8, PostedType
    <3>3. Posted(j)' \in Nat BY <1>8, <3>2
    <3> QED BY <3>1, <3>3
  <2>2. posts' = [j \in DOMAIN posts' |-> posts'[j]] BY <1>1 DEF TypeInvariant
  <2> QED BY <2>1, <2>2
<1>10. LedgerIsTrue'
  <2>1. ASSUME NEW j \in DOMAIN posts' PROVE posts'[j] <= 1
    <3>1. posts'[j] = Posted(j)' BY DEF Posted
    <3>2. j # i => Posted(j) <= 1 BY DEF Posted, LedgerIsTrue
    <3> QED BY <1>8, <3>1, <3>2
  <2>2. ASSUME NEW x \in rows
        PROVE  /\ x.state \in {"pending", "failed", "skipped"} => Posted(x.id)' = 0
               /\ x.state = "sent" => Posted(x.id)' = 1
    <3>1. CASE x.id = i
      <4>1. x = r BY <1>2, <3>1 DEF TypeInvariant
      <4> QED BY <1>2, <4>1
    <3>2. CASE x.id # i BY <1>8, <3>2 DEF LedgerIsTrue
    <3> QED BY <3>1, <3>2
  <2> QED BY <1>3, <2>1, <2>2 DEF LedgerIsTrue
<1>11. WorkerKnows' BY <1>1, <1>4, <1>8 DEF WorkerKnows, At
<1>12. Rewriting(rows') BY <1>3, StillRewrites
<1>13. cooldown' \in [Keys -> Nat] /\ \A k \in Keys : cooldown'[k] = cooldown[k]
  BY <1>3 DEF TypeInvariant
<1> QED BY <1>2, <1>3, <1>4, <1>6, <1>9, <1>10, <1>11, <1>12, <1>13, OutboxStep

LEMMA StopStep == EarnedInvariant /\ Stop => EarnedInvariant'
<1> SUFFICES ASSUME EarnedInvariant, Stop PROVE EarnedInvariant' OBVIOUS
<1> USE DEF EarnedInvariant, OutboxInvariant, LedgerInvariant
<1>1. UNCHANGED <<bounds, discord, walk, snap, read, rows, cooldown, posts>>
  BY DEF Stop, ledger, ghosts
<1>2. worker' \in Worker /\ worker'.pc = "idle" BY IdleWorkers DEF Stop, Ends, Idle
<1>3. Rewriting(rows') BY <1>1, StillRewrites
<1>4. LedgerIsTrue' BY <1>1, LedgerKept
<1>5. WorkerKnows' BY <1>2, IdleWorkers
<1>6. /\ DOMAIN posts' \subseteq Used /\ posts' \in [DOMAIN posts' -> Nat]
      /\ cooldown' \in [Keys -> Nat] /\ \A k \in Keys : cooldown'[k] = cooldown[k]
  BY <1>1 DEF Used, TypeInvariant
<1> QED BY <1>1, <1>2, <1>3, <1>4, <1>5, <1>6, OutboxStep

-----------------------------------------------------------------------------
(* New greetings                                                           *)

SpacedOut(set) == \A r, s \in set : r.key = s.key /\ r.created <= s.created
                                       => r = s \/ s.created > r.created

(* Greetings with fresh ids, whose keys are cooled down and differ.        *)
LEMMA NewRows ==
    ASSUME EarnedInvariant, NEW new \in SUBSET Row, IsFiniteSet(new),
           rows' = rows \union new, UNCHANGED <<day, posts>>,
           cooldown' \in [Keys -> Nat],
           \A k \in Keys : cooldown'[k] = cooldown[k] \/ cooldown'[k] = day + 1,
           \A x \in new : /\ x.state = "pending" /\ x.created = day /\ x.id \notin Used
                          /\ cooldown[x.key] <= day /\ cooldown'[x.key] = day + 1,
           \A x, y \in new : x.id = y.id \/ x.key = y.key => x = y
    PROVE  /\ rows' \subseteq Row /\ IsFiniteSet(rows')
           /\ \A r, s \in rows' : r.id = s.id => r = s
           /\ LedgerIsTrue' /\ RestsADay' /\ SpacedOut(rows')
           /\ \A k : /\ Cardinality(Of(rows, k)) \in Nat /\ Cardinality(Of(rows', k)) \in Nat
                     /\ Cardinality(Of(rows', k)) <= Cardinality(Of(rows, k)) + 1
                     /\ (\A x \in new : x.key # k) => Of(rows', k) = Of(rows, k)
<1> USE DEF EarnedInvariant, OutboxInvariant, LedgerInvariant
<1>1. rows \subseteq Row /\ IsFiniteSet(rows) /\ day \in Nat BY DEF TypeInvariant
<1>2. rows' \subseteq Row BY <1>1
<1>3. IsFiniteSet(rows') BY <1>1, FS_Union
<1>4. \A r, s \in rows' : r.id = s.id => r = s
  <2>1. \A r \in rows : r.id \in Used BY DEF Used
  <2> QED BY <2>1 DEF TypeInvariant
<1>5. LedgerIsTrue'
  <2>1. \A i : Posted(i)' = Posted(i) BY DEF Posted
  <2>2. \A x \in new : Posted(x.id) = 0 BY DEF Posted, Used
  <2> QED BY <2>1, <2>2 DEF LedgerIsTrue
<1>6. RestsADay'
  <2> SUFFICES ASSUME NEW x \in rows'
               PROVE  /\ x.created <= day
                      /\ x.created < day \/ x.created < cooldown'[x.key]
    BY DEF RestsADay
  <2>1. x.created \in Nat /\ x.key \in Keys BY <1>2 DEF Row
  <2>2. CASE x \in new BY <1>1, <2>2
  <2>3. CASE x \in rows
    <3>1. x.created <= day /\ (x.created < day \/ x.created < cooldown[x.key])
      BY <2>3 DEF RestsADay
    <3>2. cooldown'[x.key] = cooldown[x.key] \/ cooldown'[x.key] = day + 1 BY <2>1
    <3> QED BY <1>1, <2>1, <3>1, <3>2
  <2> QED BY <2>2, <2>3
<1>7. \A x \in new, y \in rows : x.key = y.key => y.created < x.created
  <2> SUFFICES ASSUME NEW x \in new, NEW y \in rows, x.key = y.key
               PROVE  y.created < x.created
    OBVIOUS
  <2>1. y.created \in Nat /\ y.key \in Keys /\ cooldown[y.key] \in Nat
    BY <1>1 DEF Row, TypeInvariant
  <2>2. y.created < day \/ y.created < cooldown[y.key] BY DEF RestsADay
  <2>3. cooldown[y.key] <= day /\ x.created = day BY Zenon
  <2> QED BY <1>1, <2>1, <2>2, <2>3
<1>8. SpacedOut(rows')
  <2> SUFFICES ASSUME NEW r \in rows', NEW s \in rows', r.key = s.key, r.created <= s.created
               PROVE  r = s \/ s.created > r.created
    BY DEF SpacedOut
  <2>1. r.created \in Nat /\ s.created \in Nat BY <1>2 DEF Row
  <2>2. CASE r \in rows /\ s \in rows BY <2>2 DEF GreetingsAreEarned
  <2>3. CASE r \in new /\ s \in new BY <2>3
  <2>4. CASE r \in new /\ s \in rows
    <3>1. s.created < r.created BY <1>7, <2>4
    <3> QED BY <2>1, <3>1
  <2>5. CASE r \in rows /\ s \in new
    <3>1. r.created < s.created BY <1>7, <2>5
    <3> QED BY <2>1, <3>1
  <2> QED BY <2>2, <2>3, <2>4, <2>5
<1>9. ASSUME NEW k
      PROVE  /\ Cardinality(Of(rows, k)) \in Nat /\ Cardinality(Of(rows', k)) \in Nat
             /\ Cardinality(Of(rows', k)) <= Cardinality(Of(rows, k)) + 1
             /\ (\A x \in new : x.key # k) => Of(rows', k) = Of(rows, k)
  <2>1. Of(rows, k) \in SUBSET rows /\ Of(rows', k) \in SUBSET rows' BY DEF Of
  <2>2. /\ IsFiniteSet(Of(rows, k)) /\ IsFiniteSet(Of(rows', k))
        /\ Cardinality(Of(rows, k)) \in Nat /\ Cardinality(Of(rows', k)) \in Nat
    BY <1>1, <1>3, <2>1, FS_Subset, FS_CardinalityType
  <2>3. CASE \A x \in new : x.key # k
    <3>1. Of(rows', k) = Of(rows, k) BY <2>3 DEF Of
    <3> QED BY <2>2, <3>1
  <2>4. ASSUME NEW x \in new, x.key = k
        PROVE  Cardinality(Of(rows', k)) <= Cardinality(Of(rows, k)) + 1
    <3>1. Of(rows', k) = Of(rows, k) \union {x} BY <2>4 DEF Of
    <3>2. PICK S : S = Of(rows, k) OBVIOUS
    <3>3. IsFiniteSet(S) BY <2>2, <3>2
    <3>4. Cardinality(S \union {x}) = IF x \in S THEN Cardinality(S) ELSE Cardinality(S) + 1
      BY <3>3, FS_AddElement
    <3>5. Of(rows', k) = S \union {x} BY <3>1, <3>2
    <3>6. \/ Cardinality(Of(rows', k)) = Cardinality(Of(rows, k))
          \/ Cardinality(Of(rows', k)) = Cardinality(Of(rows, k)) + 1
      BY <3>2, <3>4, <3>5
    <3> QED BY <2>2, <3>6
  <2> QED BY <2>2, <2>3, <2>4
<1> QED BY <1>2, <1>3, <1>4, <1>5, <1>6, <1>8, <1>9

(* What is sent in this cycle comes from the outbox.                       *)
LEMMA SendsIs ==
    ASSUME NEW outbox \in SUBSET Row, Sends(outbox)
    PROVE  worker' \in Worker /\ worker'.pc = "send"
<1>1. PICK b \in SUBSET outbox : worker' = ToSend(b) BY DEF Sends, Oldest
<1>2. {r.id : r \in b} \subseteq Nat BY DEF Row
<1> QED BY <1>1, <1>2 DEF ToSend, Idle, Worker

-----------------------------------------------------------------------------
(* Welcomes                                                                *)

(* The largest of three.                                                   *)
LEMMA MaxOfThree ==
    ASSUME NEW a \in Nat, NEW b \in Nat, NEW c \in Nat
    PROVE  /\ Max({a, b, c}) \in {a, b, c}
           /\ Max({a, b, c}) >= a /\ Max({a, b, c}) >= b /\ Max({a, b, c}) >= c
<1>1. \E x \in {a, b, c} : \A y \in {a, b, c} : x >= y OBVIOUS
<1> QED BY <1>1 DEF Max

(* A page is a run of messages below the walk.                             *)
LEMMA PageIs ==
    ASSUME TypeInvariant
    PROVE  /\ Len(history) \in Nat
           /\ Top \in Nat /\ Top <= Len(history) /\ Bottom \in Nat \ {0} /\ Bottom <= Top + 1
           /\ before # 0 => Top = before - 1
           /\ before = 0 => Top = Len(history)
           /\ Page \subseteq 1..Len(history) /\ IsFiniteSet(Page)
           /\ Cardinality(Page) < PAGE => Bottom = 1
           /\ Cardinality(Page) = 0 => Page = {}
           /\ New # Page => \E i \in Page : i <= cursor
<1>1. Len(history) \in Nat /\ PAGE \in Nat \ {0} BY GreetingsConstants DEF TypeInvariant
<1>2. /\ Top \in Nat /\ Top <= Len(history) /\ Bottom \in Nat \ {0} /\ Bottom <= Top + 1
      /\ before # 0 => Top = before - 1
      /\ before = 0 => Top = Len(history)
  <2>1. before \in Nat /\ before <= Len(history) BY <1>1 DEF TypeInvariant
  <2>2. /\ Top \in Nat /\ Top <= Len(history)
        /\ before # 0 => Top = before - 1
        /\ before = 0 => Top = Len(history)
    BY <1>1, <2>1 DEF Top
  <2>3. Bottom \in Nat \ {0} /\ Bottom <= Top + 1 BY <1>1, <2>2 DEF Bottom
  <2> QED BY <2>2, <2>3
<1>3. Page \subseteq 1..Len(history) BY <1>1, <1>2 DEF Page
<1>4. IsFiniteSet(Page) /\ Cardinality(Page) = IF Bottom > Top THEN 0 ELSE Top - Bottom + 1
  <2>1. Top \in Int /\ Bottom \in Int BY <1>2
  <2> QED BY <2>1, FS_Interval DEF Page
<1>5. Cardinality(Page) < PAGE => Bottom = 1 BY <1>1, <1>2, <1>4 DEF Bottom
<1>6. New # Page => \E i \in Page : i <= cursor
  BY <1>1, <1>3 DEF New, TypeInvariant
<1> QED BY <1>1, <1>2, <1>3, <1>4, <1>5, <1>6, FS_EmptySet

(* The walk, a page further, or back at the top with the cursor moved.     *)
LEMMA WalkStep ==
    ASSUME TypeInvariant, WalkIsRead, WalkIsAbove, read' = read \union Page,
           IF Reached THEN cursor' = Highest /\ head' = 0 /\ before' = 0
           ELSE cursor' = cursor /\ head' = Highest /\ before' = Bottom
    PROVE  /\ WalkIsRead' /\ WalkIsAbove'
           /\ {cursor', head', before'} \subseteq 0..Len(history)
<1>1. /\ cursor \in Nat /\ head \in Nat /\ before \in Nat /\ Len(history) \in Nat
      /\ cursor <= Len(history) /\ head <= Len(history) /\ before <= Len(history)
  BY PageIs DEF TypeInvariant
<1>2. /\ Top \in Nat /\ Top <= Len(history) /\ Bottom \in Nat \ {0} /\ Bottom <= Top + 1
      /\ before # 0 => Top = before - 1
      /\ before = 0 => Top = Len(history)
  BY PageIs
<1>3. /\ Highest \in {cursor, head, Top} /\ Highest \in Nat
      /\ Highest >= cursor /\ Highest >= head /\ Highest >= Top
  BY <1>1, <1>2, MaxOfThree DEF Highest
<1>4. before # 0 => Highest = head BY <1>1, <1>2, <1>3 DEF WalkIsAbove
<1>5. before = 0 => Highest = Top BY <1>1, <1>2, <1>3 DEF WalkIsAbove
<1>6. read' = 1..cursor \union (IF before = 0 THEN {} ELSE before..head) \union Bottom..Top
  BY DEF WalkIsRead, Page
<1>7. CASE Reached
  <2>1. Bottom = 1 \/ Bottom <= cursor
    <3>1. CASE Cardinality(Page) < PAGE BY <3>1, PageIs
    <3>2. CASE New # Page
      <4>1. PICK i \in Page : i <= cursor BY <3>2, PageIs
      <4> QED BY <1>1, <1>2, <4>1 DEF Page
    <3> QED BY <1>7, <3>1, <3>2 DEF Reached
  <2>2. read' = 1..Highest
    <3>1. CASE before = 0
      BY <1>1, <1>2, <1>3, <1>5, <1>6, <2>1, <3>1
    <3>2. CASE before # 0
      BY <1>1, <1>2, <1>3, <1>4, <1>6, <2>1, <3>2 DEF WalkIsAbove
    <3> QED BY <3>1, <3>2
  <2>3. cursor' = Highest /\ head' = 0 /\ before' = 0 BY <1>7
  <2> QED BY <1>1, <1>2, <1>3, <2>2, <2>3 DEF WalkIsRead, WalkIsAbove
<1>8. CASE ~Reached
  <2>1. Cardinality(Page) >= PAGE /\ New = Page
    <3>1. Cardinality(Page) \in Nat BY PageIs, FS_CardinalityType
    <3> QED BY <1>8, <3>1, GreetingsConstants DEF Reached
  <2>2. Bottom <= Top /\ Bottom > cursor
    <3>1. Page # {} BY <2>1, FS_EmptySet, GreetingsConstants
    <3>2. Bottom <= Top BY <1>2, <3>1 DEF Page
    <3>3. Bottom \in New BY <1>2, <2>1, <3>2 DEF Page
    <3> QED BY <3>2, <3>3 DEF New
  <2>3. cursor' = cursor /\ head' = Highest /\ before' = Bottom BY <1>8
  <2>4. read' = 1..cursor \union Bottom..Highest
    <3>1. CASE before = 0 BY <1>1, <1>2, <1>3, <1>5, <1>6, <2>2, <3>1
    <3>2. CASE before # 0
      BY <1>1, <1>2, <1>3, <1>4, <1>6, <2>2, <3>2 DEF WalkIsAbove
    <3> QED BY <3>1, <3>2
  <2> QED BY <1>1, <1>2, <1>3, <2>2, <2>3, <2>4 DEF WalkIsRead, WalkIsAbove
<1> QED BY <1>7, <1>8

(* Those who joined on the page are new to the ledger.                     *)
LEMMA JoinsAreNew ==
    ASSUME EarnedInvariant, kind = "welcome", NEW i \in Greeted
    PROVE  /\ i \in Page /\ i \in Nat /\ i \notin Used /\ history[i] \in Users
           /\ cooldown[<<history[i], "join">>] <= day
<1> USE DEF EarnedInvariant, OutboxInvariant, LedgerInvariant
<1>1. i \in New /\ i \in Page /\ i > cursor /\ history[i] # 0
      /\ cooldown[<<history[i], "join">>] <= day
  BY DEF Greeted, Joins, New
<1>2. i \in 1..Len(history) /\ Len(history) \in Nat BY <1>1, PageIs
<1>3. history[i] \in Users BY <1>1, <1>2 DEF TypeInvariant
<1>4. i \notin read
  <2>1. before \in Nat /\ cursor \in Nat /\ head \in Nat BY <1>2 DEF TypeInvariant
  <2>2. before # 0 => i < before
    <3>1. before # 0 => Top = before - 1 BY PageIs
    <3>2. i <= Top /\ Top \in Nat BY <1>1, PageIs DEF Page
    <3> QED BY <1>2, <2>1, <3>1, <3>2
  <2> QED BY <1>1, <1>2, <2>1, <2>2 DEF WalkIsRead
<1>5. i \notin Used BY <1>4 DEF UsedIsKnown
<1> QED BY <1>1, <1>2, <1>3, <1>5

LEMMA IngestStep == EarnedInvariant /\ Ingest => EarnedInvariant'
<1> SUFFICES ASSUME EarnedInvariant, Ingest PROVE EarnedInvariant' OBVIOUS
<1> USE DEF EarnedInvariant, OutboxInvariant, LedgerInvariant
<1>1. kind = "welcome" /\ UNCHANGED <<bounds, discord, snap, posts>>
      /\ day' = day /\ kind' = kind
  BY DEF Ingest, bounds
<1>2. CASE ~Fits(Cardinality(New))
  <2>1. UNCHANGED <<rows, cooldown, walk, read>> BY <1>2 DEF Ingest
  <2>2. worker' \in Worker /\ worker'.pc = "send" BY <2>1, SendsIs DEF Ingest, TypeInvariant
  <2>3. Rewriting(rows') BY <2>1, StillRewrites
  <2>4. LedgerIsTrue' BY <1>1, <2>1, LedgerKept
  <2>5. WorkerKnows' BY <2>2, IdleWorkers
  <2>6. /\ DOMAIN posts' \subseteq Used /\ posts' \in [DOMAIN posts' -> Nat]
        /\ cooldown' \in [Keys -> Nat] /\ \A k \in Keys : cooldown'[k] = cooldown[k]
    BY <1>1, <2>1 DEF Used, TypeInvariant
  <2> QED BY <1>1, <2>1, <2>2, <2>3, <2>4, <2>5, <2>6, OutboxStep
<1>3. CASE Fits(Cardinality(New))
  <2> DEFINE row(i) == [id |-> i, key |-> <<history[i], "join">>, state |-> "pending",
                        created |-> day]
             new == {row(i) : i \in Greeted}
  <2>1. /\ rows' = rows \union new
        /\ cooldown' = [k \in Keys |-> IF \E i \in Greeted : k = <<history[i], "join">>
                                       THEN day + 1 ELSE cooldown[k]]
        /\ IF Reached THEN cursor' = Highest /\ head' = 0 /\ before' = 0
           ELSE cursor' = cursor /\ head' = Highest /\ before' = Bottom
        /\ read' = read \union Page
    BY <1>3 DEF Ingest
  <2>2. day \in Nat BY DEF TypeInvariant
  <2>3. \A i \in Greeted : <<history[i], "join">> \in Keys BY <1>1, JoinsAreNew DEF Keys
  <2>4. new \in SUBSET Row BY <1>1, <2>2, <2>3, JoinsAreNew DEF Row, States
  <2>5. IsFiniteSet(new)
    <3> DEFINE f == [i \in Greeted |-> row(i)]
    <3>1. Greeted \in SUBSET Page BY DEF Greeted, Joins, New
    <3>2. IsFiniteSet(Greeted) BY <3>1, PageIs, FS_Subset
    <3>3. f \in Surjection(Greeted, new) BY DEF Surjection
    <3> QED BY <3>2, <3>3, FS_Surjection
  <2>6. cooldown' \in [Keys -> Nat]
        /\ \A k \in Keys : cooldown'[k] = cooldown[k] \/ cooldown'[k] = day + 1
    BY <2>1, <2>2 DEF TypeInvariant
  <2>7. \A x \in new : /\ x.state = "pending" /\ x.created = day /\ x.id \notin Used
                       /\ cooldown[x.key] <= day /\ cooldown'[x.key] = day + 1
    <3> SUFFICES ASSUME NEW i \in Greeted
                 PROVE  /\ row(i).state = "pending" /\ row(i).created = day
                        /\ row(i).id \notin Used
                        /\ cooldown[row(i).key] <= day /\ cooldown'[row(i).key] = day + 1
      OBVIOUS
    <3>1. i \notin Used /\ cooldown[<<history[i], "join">>] <= day BY <1>1, JoinsAreNew
    <3>2. cooldown'[<<history[i], "join">>] = day + 1 BY <2>1, <2>3
    <3> QED BY <3>1, <3>2
  <2>8. \A x, y \in new : x.id = y.id \/ x.key = y.key => x = y
    <3> SUFFICES ASSUME NEW i \in Greeted, NEW j \in Greeted,
                        row(i).id = row(j).id \/ row(i).key = row(j).key
                 PROVE  i = j
      OBVIOUS
    <3>1. i \in Nat /\ j \in Nat BY <1>1, JoinsAreNew
    <3>2. history[i] = history[j] => i <= j /\ j <= i BY DEF Greeted
    <3>3. i = j \/ history[i] = history[j] OBVIOUS
    <3> QED BY <3>1, <3>2, <3>3
  <2> HIDE DEF new
  <2>9. /\ rows' \subseteq Row /\ IsFiniteSet(rows')
        /\ \A r, s \in rows' : r.id = s.id => r = s
        /\ LedgerIsTrue' /\ RestsADay' /\ SpacedOut(rows')
    BY <1>1, <2>1, <2>4, <2>5, <2>6, <2>7, <2>8, NewRows
  <2>10. /\ WalkIsRead' /\ WalkIsAbove' /\ {cursor', head', before'} \subseteq 0..Len(history)
    BY <2>1, WalkStep
  <2>11. worker' \in Worker /\ worker'.pc = "send" BY <2>9, SendsIs DEF Ingest
  <2>12. WorkerKnows' BY <2>11, IdleWorkers
  <2>13. TypeInvariant'
    <3>1. read' \subseteq Nat
      <4>1. Page \subseteq Nat BY PageIs
      <4> QED BY <2>1, <4>1 DEF TypeInvariant
    <3>2. history' = history BY <1>1 DEF discord
    <3>3. DOMAIN posts' \subseteq Nat /\ posts' \in [DOMAIN posts' -> Nat]
      BY <1>1 DEF TypeInvariant
    <3> QED BY <1>1, <2>6, <2>9, <2>10, <2>11, <3>1, <3>2, <3>3
            DEF TypeInvariant, bounds, discord, snap
  <2>14. UsedIsKnown'
    <3>1. Used' \subseteq Used \union Greeted BY <1>1, <2>1 DEF Used, new
    <3>2. Greeted \subseteq Page BY DEF Greeted, Joins, New
    <3> QED BY <1>1, <2>1, <3>1, <3>2 DEF UsedIsKnown
  <2>15. GreetingsAreEarned' BY <1>1, <2>9 DEF GreetingsAreEarned, SpacedOut
  <2>16. OwnedOnce' BY <1>1 DEF OwnedOnce
  <2>17. ScanIsListed' BY <1>1, <2>11 DEF ScanIsListed, WasListed, At, snap
  <2> QED BY <2>9, <2>10, <2>12, <2>13, <2>14, <2>15, <2>16, <2>17
<1> QED BY <1>2, <1>3

-----------------------------------------------------------------------------
(* Celebrations                                                            *)

(* A page of members: those above the cursor up to the page's end.         *)
LEMMA ListedIs ==
    ASSUME TypeInvariant
    PROVE  /\ IsFiniteSet(Listed) /\ Cardinality(Listed) \in Nat
           /\ \A u \in Listed : u \in Users /\ u > after
           /\ \A m \in Listed, u \in Users :
                 (\A v \in Listed : v <= m) => (u <= m <=> u <= after \/ u \in Listed)
           /\ LastPage => \A u \in Users : u > after => u \in Listed
<1>1. /\ Users \subseteq Nat /\ IsFiniteSet(Users) /\ PAGE \in Nat /\ after \in Nat
  BY GreetingsConstants DEF TypeInvariant
<1> DEFINE Below(u) == {v \in Users : v > after /\ v < u}
<1>2. \A u : IsFiniteSet(Below(u)) /\ Cardinality(Below(u)) \in Nat
  <2>1. \A u : Below(u) \in SUBSET Users OBVIOUS
  <2> QED BY <1>1, <2>1, FS_Subset, FS_CardinalityType
<1>3. IsFiniteSet(Listed) /\ Cardinality(Listed) \in Nat
  <2>1. Listed \in SUBSET Users BY DEF Listed
  <2> QED BY <1>1, <2>1, FS_Subset, FS_CardinalityType
<1>4. \A u \in Listed : u \in Users /\ u > after BY DEF Listed
<1>5. \A u \in Users : u \in Listed <=> u > after /\ Cardinality(Below(u)) < PAGE BY DEF Listed
<1>6. ASSUME NEW m \in Listed, NEW u \in Users, \A v \in Listed : v <= m
      PROVE  u <= m <=> u <= after \/ u \in Listed
  <2>1. m \in Users /\ m > after /\ Cardinality(Below(m)) < PAGE BY <1>4, <1>5
  <2>2. ASSUME u <= m, u > after PROVE u \in Listed
    <3>0. \A v \in Users : v < u => v < m
      <4>1. m \in Nat /\ u \in Nat /\ \A v \in Users : v \in Nat BY <1>1, <2>1
      <4> QED BY <2>2, <4>1
    <3>1. Below(u) \in SUBSET Below(m) BY <3>0
    <3>2. Cardinality(Below(u)) <= Cardinality(Below(m)) BY <1>2, <3>1, FS_Subset
    <3>3. Cardinality(Below(u)) < PAGE
      <4> HIDE DEF Below
      <4> QED BY <1>1, <1>2, <2>1, <3>2
    <3> QED BY <1>5, <2>2, <3>3
  <2> QED BY <1>1, <1>6, <2>1, <2>2
<1>7. ASSUME LastPage, NEW u \in Users, u > after PROVE u \in Listed
  <2> DEFINE T == {v \in Users : v > after /\ v \notin Listed}
  <2> SUFFICES ASSUME u \notin Listed PROVE FALSE OBVIOUS
  <2>1. T \subseteq Nat /\ T # {} BY <1>1, <1>7
  <2>2. \E x \in T : \A y \in T : ~(<<y, x>> \in OpToRel(<, Nat))
    BY <2>1, NatLessThanWellFounded, WFMin
  <2>3. PICK x \in T : \A y \in T : ~(y < x) BY <2>1, <2>2 DEF OpToRel
  <2>4. Below(x) \in SUBSET Listed BY <1>1, <2>3
  <2>5. Cardinality(Below(x)) <= Cardinality(Listed) BY <1>3, <2>4, FS_Subset
  <2>6. Cardinality(Below(x)) < PAGE
    <3> HIDE DEF Below
    <3> QED BY <1>1, <1>2, <1>3, <1>7, <2>5 DEF LastPage
  <2> QED BY <1>5, <2>3, <2>6
<1> QED BY <1>3, <1>4, <1>6, <1>7

LEMMA ListStep == EarnedInvariant /\ List => EarnedInvariant'
<1> SUFFICES ASSUME EarnedInvariant, List PROVE EarnedInvariant' OBVIOUS
<1> USE DEF EarnedInvariant, OutboxInvariant, LedgerInvariant
<1>1. UNCHANGED <<bounds, discord, rows, cooldown, walk, members, baseline, issued, ghosts>>
  BY DEF List
<1>2. /\ kind' = kind /\ day' = day /\ posts' = posts /\ read' = read /\ roles' = roles
      /\ gains' = gains /\ rows' = rows /\ cooldown' = cooldown /\ issued' = issued
      /\ members' = members /\ baseline' = baseline
  BY <1>1 DEF bounds, discord, ghosts
<1>3. /\ scan' = scan \/ scan' = [u \in Users |-> IF u \in Listed /\ roles[u] # "none"
                                                  THEN roles[u] ELSE scan[u]]
      /\ worker' \in Worker /\ worker'.pc \in {"send", "compare"}
  <2>1. [Idle EXCEPT !.pc = "compare"] \in Worker /\ [Idle EXCEPT !.pc = "compare"].pc = "compare"
    BY IdleWorkers DEF Idle
  <2>2. Sends(rows) => worker' \in Worker /\ worker'.pc = "send" BY SendsIs DEF TypeInvariant
  <2> QED BY <2>1, <2>2 DEF List
<1>4. /\ complete' \in BOOLEAN /\ after' \in Nat
      /\ \A u \in Users : WasListed(u)' <=> WasListed(u) \/ (~complete /\ u \in Listed)
      /\ complete => scan' = scan
      /\ ~complete => scan' = [u \in Users |-> IF u \in Listed /\ roles[u] # "none"
                                               THEN roles[u] ELSE scan[u]]
      /\ worker'.pc = "compare" => complete'
  <2>0. /\ complete \in BOOLEAN /\ after \in Nat /\ Users \subseteq Nat
    BY GreetingsConstants DEF TypeInvariant
  <2>1. CASE complete
    <3>1. UNCHANGED <<scan, after, complete>> BY <2>1 DEF List
    <3> QED BY <2>0, <2>1, <3>1 DEF WasListed
  <2>2. CASE ~complete /\ LastPage
    <3>1. after' = after /\ complete' = TRUE
          /\ scan' = [u \in Users |-> IF u \in Listed /\ roles[u] # "none"
                                      THEN roles[u] ELSE scan[u]]
      BY <2>2 DEF List
    <3>2. \A u \in Users : u <= after \/ u \in Listed BY <2>0, <2>2, ListedIs
    <3> QED BY <2>0, <2>2, <3>1, <3>2 DEF WasListed
  <2>3. CASE ~complete /\ ~LastPage
    <3>1. /\ after' \in Listed /\ \A v \in Listed : v <= after'
          /\ complete' = complete /\ Sends(rows)
          /\ scan' = [u \in Users |-> IF u \in Listed /\ roles[u] # "none"
                                      THEN roles[u] ELSE scan[u]]
      BY <2>3 DEF List
    <3>2. \A u \in Users : u <= after' <=> u <= after \/ u \in Listed BY <3>1, ListedIs
    <3>3. worker'.pc = "send" BY <3>1, SendsIs DEF TypeInvariant
    <3>4. after' \in Nat BY <2>0, <3>1, ListedIs
    <3> QED BY <2>0, <2>3, <3>1, <3>2, <3>3, <3>4 DEF WasListed
  <2> QED BY <2>0, <2>1, <2>2, <2>3
<1>5. WorkerKnows' BY <1>3, IdleWorkers
<1>6. TypeInvariant'
  <2>1. scan' \in [Users -> Tiers \union {"none"}] BY <1>3 DEF TypeInvariant
  <2> QED BY <1>1, <1>2, <1>3, <1>4, <2>1 DEF TypeInvariant, bounds, discord, walk, ghosts
<1>7. LedgerIsTrue' BY <1>2 DEF LedgerIsTrue, Posted
<1>8. UsedIsKnown' BY <1>2 DEF UsedIsKnown, Used
<1>9. WalkIsRead' /\ WalkIsAbove' BY <1>1, <1>2 DEF WalkIsRead, WalkIsAbove, walk
<1>10. GreetingsAreEarned' /\ RestsADay' BY <1>2 DEF GreetingsAreEarned, RestsADay
<1>11. ScanIsListed'
  <2>1. \A u \in Users : scan'[u] # "none" => WasListed(u)'
    <3> SUFFICES ASSUME NEW u \in Users, scan'[u] # "none" PROVE WasListed(u)' OBVIOUS
    <3>1. scan[u] # "none" \/ (~complete /\ u \in Listed) BY <1>4
    <3> QED BY <1>4, <3>1 DEF ScanIsListed
  <2> QED BY <1>4, <2>1 DEF ScanIsListed, At
<1>12. OwnedOnce'
  <2> SUFFICES ASSUME kind = "membership", NEW u \in Users, NEW t \in Tiers
               PROVE  /\ Count(u, t)' <= gains[<<u, t>>]
                      /\ \/ WasListed(u)' /\ scan'[u] # t /\ roles[u] = t
                         \/ baseline /\ members[u] # t /\ t \in {scan'[u], roles[u]}
                         => Count(u, t)' + 1 <= gains[<<u, t>>]
    BY <1>2 DEF OwnedOnce
  <2>1. Count(u, t)' = Count(u, t) BY <1>2 DEF Count
  <2>2. /\ Count(u, t) <= gains[<<u, t>>]
        /\ \/ WasListed(u) /\ scan[u] # t /\ roles[u] = t
           \/ baseline /\ members[u] # t /\ t \in {scan[u], roles[u]}
           => Count(u, t) + 1 <= gains[<<u, t>>]
    BY DEF OwnedOnce
  <2>3. t # "none" BY DEF Tiers
  <2>4. scan'[u] = IF ~complete /\ u \in Listed /\ roles[u] # "none" THEN roles[u] ELSE scan[u]
    BY <1>4
  <2>5. WasListed(u)' <=> WasListed(u) \/ (~complete /\ u \in Listed) BY <1>4
  <2> HIDE DEF EarnedInvariant
  <2> QED BY <2>1, <2>2, <2>3, <2>4, <2>5
<1> QED BY <1>5, <1>6, <1>7, <1>8, <1>9, <1>10, <1>11, <1>12

(* The ids of new celebrations follow those that were used.                *)
LEMMA FreshIs ==
    ASSUME TypeInvariant
    PROVE  /\ IsFiniteSet(Celebrated) /\ Cardinality(Celebrated) \in Nat
           /\ \A u \in Celebrated : Fresh(u) \in (issued + 1)..(issued + Cardinality(Celebrated))
           /\ \A u, w \in Celebrated : Fresh(u) = Fresh(w) => u = w
<1>1. /\ Users \subseteq Nat /\ IsFiniteSet(Users) /\ issued \in Nat
  BY GreetingsConstants DEF TypeInvariant
<1>2. Celebrated \in SUBSET Users BY DEF Celebrated, Scanned
<1>3. IsFiniteSet(Celebrated) /\ Cardinality(Celebrated) \in Nat
  BY <1>1, <1>2, FS_Subset, FS_CardinalityType
<1> DEFINE Upto(u) == {v \in Celebrated : v <= u}
<1>4. \A u : /\ Upto(u) \in SUBSET Celebrated /\ IsFiniteSet(Upto(u))
             /\ Cardinality(Upto(u)) \in Nat
             /\ Cardinality(Upto(u)) <= Cardinality(Celebrated)
  <2>1. \A u : Upto(u) \in SUBSET Celebrated OBVIOUS
  <2> QED BY <1>3, <2>1, FS_Subset, FS_CardinalityType
<1>5. \A u : Fresh(u) = issued + Cardinality(Upto(u)) BY DEF Fresh
<1>6. \A u \in Celebrated : u \in Nat BY <1>1, <1>2
<1>7. ASSUME NEW u \in Celebrated PROVE Cardinality(Upto(u)) # 0
  <2>1. u \in Upto(u) BY <1>6
  <2> QED BY <1>4, <2>1, FS_EmptySet
<1>8. ASSUME NEW u \in Celebrated, NEW w \in Celebrated, u < w
      PROVE  Cardinality(Upto(u)) # Cardinality(Upto(w))
  <2>1. w \in Upto(w) /\ w \notin Upto(u) BY <1>6, <1>8
  <2>2. Upto(u) \in SUBSET Upto(w)
    <3>1. \A v \in Celebrated : v <= u => v <= w BY <1>6, <1>8
    <3> QED BY <3>1
  <2>3. Upto(u) # Upto(w) BY <2>1
  <2> QED BY <1>4, <2>2, <2>3, FS_Subset
<1> HIDE DEF Upto
<1>9. \A u \in Celebrated : Fresh(u) \in (issued + 1)..(issued + Cardinality(Celebrated))
  BY <1>1, <1>3, <1>4, <1>5, <1>7
<1>10. ASSUME NEW u \in Celebrated, NEW w \in Celebrated, Fresh(u) = Fresh(w) PROVE u = w
  <2>1. Cardinality(Upto(u)) = Cardinality(Upto(w)) BY <1>1, <1>4, <1>5, <1>10
  <2>2. ~(u < w) /\ ~(w < u) BY <1>8, <2>1
  <2> QED BY <1>6, <2>2
<1> QED BY <1>3, <1>9, <1>10

(* What is celebrated of a snapshot was missing in the last one.           *)
LEMMA CelebratedIs ==
    ASSUME TypeInvariant, NEW u \in Celebrated
    PROVE  /\ u \in Scanned /\ u \notin Waiting /\ scan[u] \in Tiers /\ <<u, scan[u]>> \in Keys
           /\ baseline /\ members[u] # scan[u] /\ cooldown[<<u, scan[u]>>] <= day
<1>1. u \in Scanned /\ Wanted(u) BY DEF Celebrated
<1>2. u \in Users /\ scan[u] \in Tiers BY <1>1 DEF Scanned, TypeInvariant
<1> QED BY <1>1, <1>2 DEF Wanted, Upgraded, Waiting, Keys, Tiers

(* The comparison pays what it owes once.                                  *)
LEMMA CompareOwes ==
    ASSUME EarnedInvariant, Compare, NEW u \in Users, NEW t \in Tiers,
           Count(u, t) \in Nat, Count(u, t)' \in Nat,
           Count(u, t)' <= Count(u, t) + 1,
           (u \in Celebrated /\ scan[u] = t) \/ Count(u, t)' = Count(u, t)
    PROVE  /\ Count(u, t)' <= gains[<<u, t>>]
           /\ \/ WasListed(u)' /\ scan'[u] # t /\ roles[u] = t
              \/ baseline' /\ members'[u] # t /\ t \in {scan'[u], roles[u]}
              => Count(u, t)' + 1 <= gains[<<u, t>>]
<1>1. kind = "membership" /\ At("compare") BY DEF Compare
<1>2. TypeInvariant BY DEF EarnedInvariant, OutboxInvariant, LedgerInvariant
<1>3. /\ gains[<<u, t>>] \in Nat /\ u \in Nat \ {0} /\ t # "none"
  BY <1>2, GreetingsConstants DEF TypeInvariant, Keys, Tiers
<1>4. WasListed(u) BY <1>1 DEF EarnedInvariant, ScanIsListed, WasListed
<1>5. /\ Count(u, t) <= gains[<<u, t>>]
      /\ scan[u] # t /\ roles[u] = t => Count(u, t) + 1 <= gains[<<u, t>>]
      /\ baseline /\ members[u] # t /\ t \in {scan[u], roles[u]}
         => Count(u, t) + 1 <= gains[<<u, t>>]
  BY <1>1, <1>4 DEF EarnedInvariant, OwnedOnce
<1>6. /\ Waiting = {} => ~WasListed(u)' /\ scan'[u] = "none"
      /\ Waiting # {} => UNCHANGED <<baseline, scan, after, complete>>
  BY <1>3 DEF Compare, WasListed, NoTier
<1>7. members'[u] = IF u \in Removed THEN "none"
                    ELSE IF u \in Scanned \ Waiting THEN scan[u] ELSE members[u]
  BY DEF Compare
<1>8. CASE u \in Scanned \ Waiting
  <2>1. members'[u] = scan[u] BY <1>7, <1>8 DEF Removed
  <2>2. u \in Celebrated => baseline /\ members[u] # scan[u] BY <1>2, CelebratedIs
  <2>3. CASE t = scan[u]
    <3>1. Count(u, t)' <= gains[<<u, t>>] BY <1>3, <1>5, <2>2, <2>3
    <3> QED BY <1>6, <2>1, <2>3, <3>1
  <2>4. CASE t # scan[u]
    <3>1. Count(u, t)' = Count(u, t) BY <2>4
    <3>2. t = scan'[u] => FALSE BY <1>3, <1>6, <2>4
    <3> QED BY <1>5, <2>1, <2>4, <3>1, <3>2
  <2> QED BY <2>3, <2>4
<1>9. CASE u \notin Scanned \ Waiting
  <2>1. Count(u, t)' = Count(u, t) BY <1>2, <1>9, CelebratedIs
  <2>2. CASE Waiting # {}
    <3>1. members'[u] = members[u] BY <1>7, <1>9, <2>2 DEF Removed
    <3>2. UNCHANGED <<baseline, scan, after, complete>> BY <1>6, <2>2
    <3> QED BY <1>5, <2>1, <3>1, <3>2
  <2>3. CASE Waiting = {}
    <3>1. scan[u] = "none" /\ members'[u] = "none" BY <1>7, <1>9, <2>3 DEF Removed, Scanned
    <3> QED BY <1>3, <1>5, <1>6, <2>1, <2>3, <3>1
  <2> QED BY <2>2, <2>3
<1> QED BY <1>8, <1>9

LEMMA CompareStep == EarnedInvariant /\ Compare => EarnedInvariant'
<1> SUFFICES ASSUME EarnedInvariant, Compare PROVE EarnedInvariant' OBVIOUS
<1> USE DEF EarnedInvariant, OutboxInvariant, LedgerInvariant
<1>1. /\ kind = "membership" /\ At("compare") /\ UNCHANGED <<bounds, discord, walk, ghosts>>
      /\ kind' = kind /\ day' = day /\ posts' = posts /\ read' = read /\ roles' = roles
      /\ gains' = gains
  BY DEF Compare, bounds, discord, ghosts
<1> DEFINE row(u) == [id |-> Fresh(u), key |-> <<u, scan[u]>>, state |-> "pending",
                      created |-> day]
           new == {row(u) : u \in Celebrated}
<1>2. rows' = rows \union new BY DEF Compare
<1>3. cooldown' = [k \in Keys |-> IF \E u \in Scanned : k = <<u, scan[u]>> /\ (~baseline \/ u \in Celebrated)
                                  THEN day + 1 ELSE cooldown[k]]
  BY DEF Compare
<1>4. day \in Nat /\ issued \in Nat BY DEF TypeInvariant
<1>5. \A u \in Celebrated : Fresh(u) \in Nat /\ Fresh(u) \notin 1..issued
  BY <1>4, FreshIs
<1>6. new \in SUBSET Row
  <2>1. \A u \in Celebrated : <<u, scan[u]>> \in Keys BY CelebratedIs
  <2> QED BY <1>4, <1>5, <2>1 DEF Row, States
<1>7. IsFiniteSet(new)
  <2> DEFINE f == [u \in Celebrated |-> row(u)]
  <2>1. f \in Surjection(Celebrated, new) BY DEF Surjection
  <2> QED BY <2>1, FreshIs, FS_Surjection
<1>8. cooldown' \in [Keys -> Nat]
      /\ \A k \in Keys : cooldown'[k] = cooldown[k] \/ cooldown'[k] = day + 1
  BY <1>3, <1>4 DEF TypeInvariant
<1>9. \A x \in new : /\ x.state = "pending" /\ x.created = day /\ x.id \notin Used
                     /\ cooldown[x.key] <= day /\ cooldown'[x.key] = day + 1
  <2> SUFFICES ASSUME NEW u \in Celebrated
               PROVE  /\ row(u).state = "pending" /\ row(u).created = day
                      /\ row(u).id \notin Used
                      /\ cooldown[row(u).key] <= day /\ cooldown'[row(u).key] = day + 1
    OBVIOUS
  <2>1. Fresh(u) \notin Used BY <1>1, <1>5 DEF UsedIsKnown
  <2>2. <<u, scan[u]>> \in Keys /\ u \in Scanned /\ cooldown[<<u, scan[u]>>] <= day
    BY CelebratedIs
  <2>3. cooldown'[<<u, scan[u]>>] = day + 1 BY <1>3, <2>2
  <2> QED BY <2>1, <2>2, <2>3
<1>10. \A x, y \in new : x.id = y.id \/ x.key = y.key => x = y
  <2> SUFFICES ASSUME NEW u \in Celebrated, NEW w \in Celebrated,
                      row(u).id = row(w).id \/ row(u).key = row(w).key
               PROVE  u = w
    OBVIOUS
  <2>1. Fresh(u) = Fresh(w) \/ u = w OBVIOUS
  <2> QED BY <2>1, FreshIs
<1>11. /\ Used' \subseteq Used \union {Fresh(u) : u \in Celebrated}
  BY <1>1, <1>2 DEF Used
<1>12. \A k : (\A u \in Celebrated : <<u, scan[u]>> # k) => \A x \in new : x.key # k
  OBVIOUS
<1> HIDE DEF new
<1>13. /\ rows' \subseteq Row /\ IsFiniteSet(rows')
       /\ \A r, s \in rows' : r.id = s.id => r = s
       /\ LedgerIsTrue' /\ RestsADay' /\ SpacedOut(rows')
       /\ \A k : /\ Cardinality(Of(rows, k)) \in Nat /\ Cardinality(Of(rows', k)) \in Nat
                 /\ Cardinality(Of(rows', k)) <= Cardinality(Of(rows, k)) + 1
                 /\ (\A x \in new : x.key # k) => Of(rows', k) = Of(rows, k)
  BY <1>1, <1>2, <1>6, <1>7, <1>8, <1>9, <1>10, NewRows
<1>14. worker' \in Worker /\ worker'.pc = "send" BY <1>13, SendsIs DEF Compare
<1>15. WorkerKnows' BY <1>14, IdleWorkers
<1>16. TypeInvariant'
  <2>1. members' \in [Users -> Tiers \union {"none"}] BY DEF Compare, TypeInvariant
  <2>2. /\ scan' \in [Users -> Tiers \union {"none"}] /\ after' \in Nat
        /\ complete' \in BOOLEAN /\ baseline' \in BOOLEAN
    <3>1. /\ scan \in [Users -> Tiers \union {"none"}] /\ after \in Nat
          /\ complete \in BOOLEAN /\ baseline \in BOOLEAN
      BY DEF TypeInvariant
    <3>2. \/ UNCHANGED <<baseline, scan, after, complete>>
          \/ baseline' = TRUE /\ scan' = NoTier /\ after' = 0 /\ complete' = FALSE
      BY DEF Compare
    <3>3. NoTier \in [Users -> Tiers \union {"none"}] BY DEF NoTier
    <3>4. scan' \in [Users -> Tiers \union {"none"}] BY <3>1, <3>2, <3>3
    <3>5. after' \in Nat BY <3>1, <3>2
    <3>6. \/ complete' = complete /\ baseline' = baseline
          \/ complete' = FALSE /\ baseline' = TRUE
      BY <3>2
    <3>7. complete' \in BOOLEAN BY <3>1, <3>6
    <3>8. baseline' \in BOOLEAN BY <3>1, <3>6
    <3> QED BY <3>4, <3>5, <3>7, <3>8
  <2>3. issued' \in Nat BY <1>4, FreshIs DEF Compare
  <2> QED BY <1>1, <1>8, <1>13, <1>14, <2>1, <2>2, <2>3
          DEF TypeInvariant, bounds, discord, walk, ghosts
<1>17. UsedIsKnown'
  <2>1. issued' = issued + Cardinality(Celebrated) BY DEF Compare
  <2>2. Used \subseteq 1..issued BY <1>1 DEF UsedIsKnown
  <2>3. \A u \in Celebrated : Fresh(u) \in 1..issued' BY <1>4, <2>1, FreshIs
  <2>4. \A i \in 1..issued : i \in 1..issued' BY <1>4, <2>1, FreshIs
  <2>5. Used' \subseteq 1..issued' BY <1>11, <2>2, <2>3, <2>4
  <2> QED BY <1>1, <2>5 DEF UsedIsKnown
<1>18. WalkIsRead' /\ WalkIsAbove' BY <1>1 DEF WalkIsRead, WalkIsAbove, walk
<1>19. OwnedOnce'
  <2> SUFFICES ASSUME NEW u \in Users, NEW t \in Tiers
               PROVE  /\ Count(u, t)' <= gains[<<u, t>>]
                      /\ \/ WasListed(u)' /\ scan'[u] # t /\ roles[u] = t
                         \/ baseline' /\ members'[u] # t /\ t \in {scan'[u], roles[u]}
                         => Count(u, t)' + 1 <= gains[<<u, t>>]
    BY <1>1 DEF OwnedOnce
  <2>1. Count(u, t)' = Cardinality(Of(rows', <<u, t>>)) BY DEF Count, Of
  <2>2. Count(u, t) = Cardinality(Of(rows, <<u, t>>)) BY DEF Count, Of
  <2>3. ~(u \in Celebrated /\ scan[u] = t) => \A w \in Celebrated : <<w, scan[w]>> # <<u, t>>
    OBVIOUS
  <2>4. ~(u \in Celebrated /\ scan[u] = t) => Of(rows', <<u, t>>) = Of(rows, <<u, t>>)
    BY <1>12, <1>13, <2>3
  <2> HIDE DEF EarnedInvariant
  <2> QED BY <1>13, <2>1, <2>2, <2>4, CompareOwes
<1>20. GreetingsAreEarned'
  <2>1. \A u \in Users, t \in Tiers : Cardinality({r \in rows' : r.key = <<u, t>>}) <= gains'[<<u, t>>]
    BY <1>1, <1>19 DEF OwnedOnce, Count
  <2> QED BY <1>13, <2>1 DEF GreetingsAreEarned, SpacedOut
<1>21. ScanIsListed'
  <2>1. \A u \in Users : scan'[u] # "none" => scan'[u] = scan[u] /\ WasListed(u)' = WasListed(u)
    BY DEF Compare, NoTier, WasListed
  <2>2. ~At("compare")' BY <1>14 DEF At
  <2> QED BY <2>1, <2>2 DEF ScanIsListed
<1> QED BY <1>13, <1>15, <1>16, <1>17, <1>18, <1>19, <1>20, <1>21

-----------------------------------------------------------------------------
(* The server and the days                                                 *)

(* A step of the server leaves the ledger and the worker alone.            *)
LEMMA ServerStep ==
    ASSUME EarnedInvariant, UNCHANGED <<kind, day, ledger, worker, ghosts>>,
           TypeInvariant', OwnedOnce'
    PROVE  EarnedInvariant'
<1> USE DEF EarnedInvariant, OutboxInvariant, LedgerInvariant
<1>1. /\ kind' = kind /\ day' = day /\ posts' = posts /\ read' = read
      /\ rows' = rows /\ cooldown' = cooldown /\ worker' = worker
      /\ UNCHANGED <<walk, snap>>
  BY DEF ledger, ghosts
<1>2. LedgerIsTrue' BY <1>1 DEF LedgerIsTrue, Posted
<1>3. WorkerKnows' BY <1>1 DEF WorkerKnows, At, Posted
<1>4. UsedIsKnown' /\ WalkIsRead' /\ WalkIsAbove'
  BY <1>1 DEF UsedIsKnown, Used, WalkIsRead, WalkIsAbove, walk, snap
<1>5. ScanIsListed' /\ RestsADay' BY <1>1 DEF ScanIsListed, RestsADay, WasListed, At, snap
<1>6. GreetingsAreEarned' BY <1>1 DEF GreetingsAreEarned, OwnedOnce, Count
<1> QED BY <1>2, <1>3, <1>4, <1>5, <1>6

LEMMA MessageStep ==
    ASSUME EarnedInvariant, NEW u \in Users \union {0}, Message(u)
    PROVE  EarnedInvariant'
<1> USE DEF EarnedInvariant, OutboxInvariant, LedgerInvariant
<1>1. /\ UNCHANGED <<kind, day, ledger, worker, ghosts, roles, gains>> /\ kind = "welcome"
      /\ history' = Append(history, u) /\ events' = events + 1
  BY DEF Message, Happens
<1>2. TypeInvariant'
  <2>1. history \in Seq(Users \union {0}) /\ events \in Nat BY DEF TypeInvariant
  <2>2. history' \in Seq(Users \union {0}) /\ Len(history') = Len(history) + 1
        /\ Len(history) \in Nat
    BY <1>1, <2>1
  <2>3. {cursor', head', before'} \subseteq 0..Len(history')
    BY <1>1, <2>2 DEF TypeInvariant, ledger, walk
  <2> QED BY <1>1, <2>1, <2>2, <2>3 DEF TypeInvariant, ledger, walk, snap, ghosts
<1>3. OwnedOnce' BY <1>1 DEF OwnedOnce
<1> QED BY <1>1, <1>2, <1>3, ServerStep

(* A change of tier that is seen later was gained when it happened.        *)
LEMMA RoleStep ==
    ASSUME EarnedInvariant, NEW w \in Users, NEW s \in Tiers \union {"none"}, RoleChanges(w, s)
    PROVE  EarnedInvariant'
<1> USE DEF EarnedInvariant, OutboxInvariant, LedgerInvariant
<1>1. /\ UNCHANGED <<kind, day, ledger, worker, ghosts, history>> /\ kind = "membership"
      /\ s # roles[w] /\ roles' = [roles EXCEPT ![w] = s] /\ events' = events + 1
      /\ gains' = IF s = "none" THEN gains ELSE [gains EXCEPT ![<<w, s>>] = @ + 1]
  BY DEF RoleChanges, Happens
<1>2. /\ roles \in [Users -> Tiers \union {"none"}] /\ gains \in [Keys -> Nat] /\ events \in Nat
      /\ IsFiniteSet(rows)
  BY DEF TypeInvariant
<1>3. gains' \in [Keys -> Nat] /\ \A k \in Keys : gains'[k] >= gains[k]
  <2>1. CASE s = "none" BY <1>1, <1>2, <2>1
  <2>2. CASE s # "none"
    <3>1. <<w, s>> \in Keys BY <2>2 DEF Keys
    <3>2. gains' = [gains EXCEPT ![<<w, s>>] = gains[<<w, s>>] + 1] BY <1>1, <2>2
    <3> QED BY <1>2, <3>1, <3>2
  <2> QED BY <2>1, <2>2
<1>4. TypeInvariant'
  <2>1. /\ kind' = kind /\ day' = day /\ history' = history /\ rows' = rows /\ cooldown' = cooldown
        /\ cursor' = cursor /\ head' = head /\ before' = before /\ members' = members /\ scan' = scan
        /\ after' = after /\ complete' = complete /\ baseline' = baseline /\ issued' = issued
        /\ worker' = worker /\ posts' = posts /\ read' = read
    BY <1>1 DEF ledger, walk, snap, ghosts
  <2>2. events' \in Nat BY <1>1, <1>2
  <2>3. roles' \in [Users -> Tiers \union {"none"}] BY <1>1, <1>2
  <2> QED BY <1>3, <2>1, <2>2, <2>3 DEF TypeInvariant
<1>5. OwnedOnce'
  <2> SUFFICES ASSUME NEW u \in Users, NEW t \in Tiers
               PROVE  /\ Count(u, t)' <= gains'[<<u, t>>]
                      /\ \/ WasListed(u)' /\ scan'[u] # t /\ roles'[u] = t
                         \/ baseline' /\ members'[u] # t /\ t \in {scan'[u], roles'[u]}
                         => Count(u, t)' + 1 <= gains'[<<u, t>>]
    BY DEF OwnedOnce
  <2>1. /\ Count(u, t)' = Count(u, t) /\ WasListed(u)' = WasListed(u)
        /\ scan'[u] = scan[u] /\ members'[u] = members[u] /\ baseline' = baseline
    BY <1>1 DEF Count, WasListed, ledger, snap
  <2>2. Count(u, t) \in Nat
    <3>1. {r \in rows : r.key = <<u, t>>} \in SUBSET rows OBVIOUS
    <3> QED BY <1>2, <3>1, FS_Subset, FS_CardinalityType DEF Count
  <2>3. <<u, t>> \in Keys /\ t # "none" BY DEF Keys, Tiers
  <2>4. gains[<<u, t>>] \in Nat /\ gains'[<<u, t>>] \in Nat /\ gains'[<<u, t>>] >= gains[<<u, t>>]
    BY <1>2, <1>3, <2>3
  <2>5. /\ Count(u, t) <= gains[<<u, t>>]
        /\ \/ WasListed(u) /\ scan[u] # t /\ roles[u] = t
           \/ baseline /\ members[u] # t /\ t \in {scan[u], roles[u]}
           => Count(u, t) + 1 <= gains[<<u, t>>]
    BY <1>1 DEF OwnedOnce
  <2>6. CASE u = w /\ t = s
    <3>1. gains'[<<u, t>>] = gains[<<u, t>>] + 1 BY <1>1, <1>2, <2>3, <2>6
    <3>2. Count(u, t) <= gains[<<u, t>>] BY <2>5
    <3>3. Count(u, t)' <= gains'[<<u, t>>] /\ Count(u, t)' + 1 <= gains'[<<u, t>>]
      BY <2>1, <2>2, <2>4, <3>1, <3>2
    <3> QED BY <3>3
  <2>7. CASE ~(u = w /\ t = s)
    <3>1. roles'[u] = t => roles[u] = t BY <1>1, <1>2, <2>7
    <3>2. Count(u, t)' <= gains'[<<u, t>>] BY <2>1, <2>2, <2>4, <2>5
    <3>3. Count(u, t) + 1 <= gains[<<u, t>>] => Count(u, t)' + 1 <= gains'[<<u, t>>]
      BY <2>1, <2>2, <2>4
    <3> HIDE DEF EarnedInvariant
    <3> QED BY <2>1, <2>5, <3>1, <3>2, <3>3
  <2> QED BY <2>6, <2>7
<1> QED BY <1>1, <1>4, <1>5, ServerStep

LEMMA DayStep == EarnedInvariant /\ NextDay => EarnedInvariant'
<1> SUFFICES ASSUME EarnedInvariant, NextDay PROVE EarnedInvariant' OBVIOUS
<1> USE DEF EarnedInvariant, OutboxInvariant, LedgerInvariant
<1>1. /\ kind' = kind /\ events' = events /\ posts' = posts /\ read' = read
      /\ rows' = rows /\ cooldown' = cooldown /\ worker' = worker
      /\ roles' = roles /\ gains' = gains /\ history' = history
      /\ UNCHANGED <<walk, snap>> /\ day' = day + 1 /\ day \in Nat
  BY DEF NextDay, ledger, ghosts, discord, TypeInvariant
<1>2. TypeInvariant' BY <1>1 DEF TypeInvariant, walk, snap
<1>3. LedgerIsTrue' BY <1>1 DEF LedgerIsTrue, Posted
<1>4. WorkerKnows' BY <1>1 DEF WorkerKnows, At, Posted
<1>5. UsedIsKnown' /\ WalkIsRead' /\ WalkIsAbove'
  BY <1>1 DEF UsedIsKnown, Used, WalkIsRead, WalkIsAbove, walk, snap
<1>6. ScanIsListed' BY <1>1 DEF ScanIsListed, WasListed, At, snap
<1>7. RestsADay'
  <2>1. \A r \in rows : r.created \in Nat BY DEF TypeInvariant, Row
  <2>2. \A r \in rows : r.created < day' BY <1>1, <2>1 DEF RestsADay
  <2> QED BY <1>1, <2>1, <2>2 DEF RestsADay
<1>8. OwnedOnce' BY <1>1 DEF OwnedOnce, Count, WasListed, snap
<1>9. GreetingsAreEarned' BY <1>1 DEF GreetingsAreEarned
<1> QED BY <1>2, <1>3, <1>4, <1>5, <1>6, <1>7, <1>8, <1>9

-----------------------------------------------------------------------------
(* The theorems                                                            *)

LEMMA EarnedAtFirst == Init => EarnedInvariant
<1> SUFFICES ASSUME Init PROVE EarnedInvariant OBVIOUS
<1> USE DEF Init
<1>1. rows = {} /\ posts = [i \in {} |-> 0] /\ DOMAIN posts = {} OBVIOUS
<1>2. TypeInvariant
  <2>1. IsFiniteSet(rows) BY <1>1, FS_EmptySet
  <2>2. /\ history \in Seq(Users \union {0}) /\ Len(history) = 0
        /\ posts \in [DOMAIN posts -> Nat]
    BY <1>1
  <2>3. NoTier \in [Users -> Tiers \union {"none"}] BY DEF NoTier
  <2>4. roles \in [Users -> Tiers \union {"none"}] BY DEF Tiers
  <2>5. worker \in Worker /\ worker.pc = "idle" BY DEF Idle, Worker
  <2>6. rows \subseteq Row /\ \A r, s \in rows : r.id = s.id => r = s BY <1>1
  <2>7. cooldown \in [Keys -> Nat] /\ gains \in [Keys -> Nat] OBVIOUS
  <2>8. {members, scan} \subseteq [Users -> Tiers \union {"none"}]
        /\ {complete, baseline} \subseteq BOOLEAN
    BY <2>3
  <2>9. /\ cursor \in 0..Len(history) /\ head \in 0..Len(history) /\ before \in 0..Len(history)
        /\ after \in Nat /\ issued \in Nat /\ day \in Nat /\ events \in Nat
        /\ read \subseteq Nat /\ DOMAIN posts \subseteq Nat
    BY <1>1, <2>2
  <2>10. kind \in {"welcome", "membership"} OBVIOUS
  <2> HIDE DEF Init
  <2> QED BY <2>1, <2>2, <2>4, <2>5, <2>6, <2>7, <2>8, <2>9, <2>10 DEF TypeInvariant
<1>3. LedgerIsTrue BY <1>1 DEF LedgerIsTrue
<1>4. WorkerKnows BY DEF WorkerKnows, At, Idle
<1>5. UsedIsKnown BY <1>1 DEF UsedIsKnown, Used
<1>6. WalkIsRead /\ WalkIsAbove BY DEF WalkIsRead, WalkIsAbove
<1>7. ScanIsListed /\ RestsADay BY <1>1 DEF ScanIsListed, RestsADay, NoTier, At, Idle
<1>8. \A u \in Users, t \in Tiers : Count(u, t) = 0
  <2>1. \A u \in Users, t \in Tiers : {r \in rows : r.key = <<u, t>>} = {} BY <1>1
  <2> QED BY <2>1, FS_EmptySet DEF Count
<1>9. OwnedOnce
  <2> SUFFICES ASSUME NEW u \in Users, NEW t \in Tiers
               PROVE  /\ Count(u, t) <= gains[<<u, t>>]
                      /\ ~(WasListed(u) /\ scan[u] # t /\ roles[u] = t)
                      /\ ~baseline
    BY DEF OwnedOnce
  <2>1. gains[<<u, t>>] = 0 BY DEF Keys
  <2>2. ~WasListed(u) BY GreetingsConstants DEF WasListed
  <2> QED BY <1>8, <2>1, <2>2
<1>10. GreetingsAreEarned BY <1>1, <1>9 DEF GreetingsAreEarned, OwnedOnce, Count
<1> QED BY <1>2, <1>3, <1>4, <1>5, <1>6, <1>7, <1>9, <1>10
        DEF EarnedInvariant, OutboxInvariant, LedgerInvariant

LEMMA EarnedStep == EarnedInvariant /\ [Next]_vars => EarnedInvariant'
<1> SUFFICES ASSUME EarnedInvariant, [Next]_vars PROVE EarnedInvariant' OBVIOUS
<1>1. CASE Tick BY <1>1, TickStep
<1>2. CASE PutOff BY <1>2, PutOffStep
<1>3. CASE Post BY <1>3, PostStep
<1>4. CASE Settle BY <1>4, SettleStep
<1>5. CASE Ingest BY <1>5, IngestStep
<1>6. CASE List BY <1>6, ListStep
<1>7. CASE Compare BY <1>7, CompareStep
<1>8. CASE Stop BY <1>8, StopStep
<1>9. CASE NextDay BY <1>9, DayStep
<1>10. CASE \E r \in rows : Reconcile(r) \/ Claim(r) BY <1>10, ReconcileStep, ClaimStep
<1>11. CASE \E u \in Users \union {0} : Message(u) BY <1>11, MessageStep
<1>12. CASE \E u \in Users, t \in Tiers \union {"none"} : RoleChanges(u, t) BY <1>12, RoleStep
<1>13. CASE UNCHANGED vars
  <2>1. /\ UNCHANGED <<kind, day, ledger, worker, ghosts>>
        /\ UNCHANGED <<events, history, roles, gains>>
    BY <1>13 DEF vars, bounds, discord
  <2> USE DEF EarnedInvariant, OutboxInvariant, LedgerInvariant
  <2>2. TypeInvariant' BY <2>1 DEF TypeInvariant, ledger, walk, snap, ghosts
  <2>3. OwnedOnce' BY <2>1 DEF OwnedOnce, Count, WasListed, ledger, snap
  <2> QED BY <2>1, <2>2, <2>3, ServerStep
<1> QED BY <1>1, <1>2, <1>3, <1>4, <1>5, <1>6, <1>7, <1>8, <1>9, <1>10, <1>11, <1>12, <1>13
        DEF Next

(* The inductive invariant of the two workers: the ledger is true, the     *)
(* worker knows what it holds, the walk is where it has read, and an       *)
(* activation that can be celebrated was not celebrated yet.               *)
THEOREM EarnedInvariantHolds == Spec => []EarnedInvariant
<1>1. Init => EarnedInvariant BY EarnedAtFirst
<1>2. EarnedInvariant /\ [Next]_vars => EarnedInvariant' BY EarnedStep
<1> QED BY <1>1, <1>2, PTL DEF Spec

(* Nobody is pinged twice by one greeting, and a greeting that may be sent *)
(* never went out, whatever answers are lost and wherever a worker stops   *)
(* (the outboxes of welcome.py and membership.py).                         *)
THEOREM LedgerHolds == Spec => []LedgerInvariant
<1>1. EarnedInvariant => LedgerInvariant BY DEF EarnedInvariant, OutboxInvariant
<1> QED BY <1>1, EarnedInvariantHolds, PTL

(* The cursor passes no join message that was not read (_ingest).          *)
THEOREM CursorIsRead == Spec => []CursorPassesOnlyRead
<1>1. EarnedInvariant => CursorPassesOnlyRead
  BY DEF EarnedInvariant, OutboxInvariant, WalkIsRead, CursorPassesOnlyRead
<1> QED BY <1>1, EarnedInvariantHolds, PTL

(* The ledger of either worker, and what its walk skips, can be relied on. *)
THEOREM OutboxTrue == Spec => []OutboxIsTrue
<1>1. LedgerInvariant /\ CursorPassesOnlyRead => OutboxIsTrue BY DEF OutboxIsTrue
<1> QED BY <1>1, LedgerHolds, CursorIsRead, PTL

(* A tier is celebrated no more often than it was gained, and nobody is    *)
(* greeted again within a day (membership.py, welcome.py).                 *)
THEOREM GreetingsEarned == Spec => []GreetingsAreEarned
<1>1. EarnedInvariant => GreetingsAreEarned BY DEF EarnedInvariant
<1> QED BY <1>1, EarnedInvariantHolds, PTL

-----------------------------------------------------------------------------
(***************************************************************************)
(* The setup of the server, for every list of roles, categories and        *)
(* channels, every number of resources, changes by the owner and failures  *)
(* of setup.                                                               *)
(***************************************************************************)

-----------------------------------------------------------------------------
(* Keys, resources and states                                              *)

(* What is required, what is optional and the role for trials are apart.   *)
LEMMA KeysApart ==
    /\ Required \subseteq ServerKeys /\ Optional \subseteq ServerKeys
    /\ Required \cap (Optional \union {"trial"}) = {}
    /\ ServerKeys = Required \union Optional \union {"trial"}
    /\ {"starter", "pro"} \subseteq Required /\ "trial" \in ServerKeys
    /\ ServerKeys \cap {"member", "secure", "everyone", "other"} = {}
BY ProvisionConstants DEF Required, ServerKeys, RoleKeys, CategoryKeys, ChannelKeys

(* A place has a category, and a key names one kind of resource.           *)
LEMMA KeyKinds ==
    ASSUME NEW key \in ServerKeys
    PROVE  /\ KindOf(key) \in {"role", "category", "channel"}
           /\ KindOf(key) = "role" <=> key \in RoleKeys
           /\ key \notin RoleKeys => CategoryAt(key) \in CategoryKeys
BY ProvisionConstants DEF KindOf, CategoryAt, ServerKeys, ChannelKeys

(* Whoever reads a category holds one of three roles.                      *)
LEMMA ReaderKeysAre ==
    ASSUME NEW category
    PROVE  ReaderKeys(category) \subseteq {"starter", "pro", "trial"}
BY DEF ReaderKeys

(* What exists is a resource, and the kind tells.                          *)
LEMMA ExistsIs ==
    ASSUME ProvisionTypes, NEW i \in ServerIds
    PROVE  /\ server[i].kind = "none" <=> server[i] = Gone
           /\ server[i] # Gone => server[i] \in Resource
BY DEF ProvisionTypes, Resource, Gone

(* The ids are two and more: no resource has the id of everyone or the bot.*)
LEMMA Ids == Everyone \notin ServerIds /\ Bot \notin ServerIds /\ 0 \notin ServerIds
BY ProvisionConstants DEF Everyone, Bot, ServerIds

(* The readers of a category, in a state, are roles with an id.            *)
LEMMA ReadersAre ==
    ASSUME NEW s \in State, NEW category
    PROVE  Readers(s, category) \subseteq ServerIds
BY ReaderKeysAre, KeysApart DEF Readers, Tracks, State

(* A place that is made has the overwrites of its category.                *)
LEMMA CreationIs ==
    ASSUME NEW s \in State, NEW key \in ServerKeys
    PROVE  /\ Creation(s, key) \in Resource
           /\ Creation(s, key).kind = KindOf(key) /\ Creation(s, key).name = key
           /\ key \notin RoleKeys =>
                 /\ Creation(s, key).allow = Allowed(s, CategoryAt(key))
                 /\ Creation(s, key).deny = Denied(CategoryAt(key))
<1>1. CASE key \in RoleKeys
  BY <1>1, KeyKinds DEF Creation, Blank, Resource, KindOf
<1>2. CASE key \notin RoleKeys
  <2>1. Parent(s, key) \in ServerIds \union {0}
    <3>1. key \in CategoryKeys \/ CategoryOf[key] \in ServerKeys
      BY <1>2, ProvisionConstants DEF ServerKeys
    <3> QED BY <3>1 DEF Parent, State
  <2>2. Allowed(s, CategoryAt(key)) \subseteq ServerIds \union {Everyone, Bot}
    BY ReadersAre DEF Allowed
  <2>3. Denied(CategoryAt(key)) \subseteq {Everyone} BY DEF Denied
  <2> QED BY <1>2, <2>1, <2>2, <2>3, KeyKinds DEF Creation, Blank, Resource
<1> QED BY <1>1, <1>2

(* A process at rest knows nothing.                                        *)
LEMMA AtRestIs ==
    /\ AtRest \in Process /\ AtRest.step = "idle" /\ AtRest.todo = {}
    /\ NewState \in State /\ AtRest.state = NewState
    /\ \A k \in ServerKeys : NewState[k] = 0
BY DEF AtRest, NewState, State, Process

-----------------------------------------------------------------------------
(* What the audit and the overwrites mean                                  *)

(* Nobody is an administrator when the audit passes.                       *)
LEMMA AuditedRoles ==
    ASSUME AuditOk(file), NEW held \in SUBSET Are("role")
    PROVE  "admin" \notin atLarge \union UNION {server[i].base : i \in held}
<1>1. atLarge = {} /\ \A i \in Are("role") : "admin" \notin server[i].base
  BY DEF AuditOk, RoleFine
<1> QED BY <1>1

(* A place that the audit passed has the overwrites of a tracked key.      *)
LEMMA AuditedPlaces ==
    ASSUME ProvisionTypes, AuditOk(file), NEW place \in Places
    PROVE  \E key \in CategoryKeys \union ChannelKeys :
              /\ file[key] = place
              /\ server[place].allow = Allowed(file, CategoryAt(key))
              /\ server[place].deny = Denied(CategoryAt(key))
<1>1. PICK key \in CategoryKeys \union ChannelKeys : file[key] = place /\ place # 0
  BY DEF AuditOk, ResourcesFine, NoneUntracked, Tracks
<1>2. key \in CategoryKeys \union InOrder(Channels) \union Features(file)
  BY <1>1 DEF ChannelKeys, Features
<1>3. PlaceIs(file, key, TRUE) BY <1>2 DEF AuditOk, ResourcesFine
<1>4. server[place] # Gone BY DEF Places, Are, Gone
<1> QED BY <1>1, <1>3, <1>4 DEF PlaceIs

(* Who sees a place when nobody is an administrator.                       *)
LEMMA Sees ==
    ASSUME NEW held \in SUBSET Are("role"), NEW place,
           "admin" \notin atLarge \union UNION {server[i].base : i \in held},
           server[place].deny = {Everyone} \/ Everyone \in server[place].allow
    PROVE  CanView(held, place) <=>
              held \cap server[place].allow # {} \/ Everyone \in server[place].allow
BY DEF CanView

(* An audit without findings: each place is seen by its audience alone.    *)
LEMMA AuditedIsPrivate == ProvisionTypes => AuditIsPrivate
<1> SUFFICES ASSUME ProvisionTypes, AuditOk(file), NEW place \in Places
    PROVE  \E key \in CategoryKeys \union ChannelKeys :
              /\ file[key] = place
              /\ \A held \in SUBSET Are("role") :
                    CanView(held, place) <=>
                        Public(CategoryAt(key)) \/ held \cap Readers(file, CategoryAt(key)) # {}
  BY DEF AuditIsPrivate
<1>1. PICK key \in CategoryKeys \union ChannelKeys :
          /\ file[key] = place
          /\ server[place].allow = Allowed(file, CategoryAt(key))
          /\ server[place].deny = Denied(CategoryAt(key))
  BY AuditedPlaces
<1>2. Readers(file, CategoryAt(key)) \subseteq ServerIds
  BY ReadersAre DEF ProvisionTypes
<1>3. ASSUME NEW held \in SUBSET Are("role")
      PROVE  CanView(held, place) <=>
                 Public(CategoryAt(key)) \/ held \cap Readers(file, CategoryAt(key)) # {}
  <2>1. held \subseteq ServerIds BY DEF Are
  <2>2. CASE Public(CategoryAt(key))
    <3>1. Everyone \in server[place].allow BY <1>1, <2>2 DEF Allowed
    <3> QED BY <2>2, <3>1, Sees, AuditedRoles
  <2>3. CASE ~Public(CategoryAt(key))
    <3>1. /\ server[place].deny = {Everyone}
          /\ server[place].allow = Readers(file, CategoryAt(key)) \union {Bot}
      BY <1>1, <2>3 DEF Allowed, Denied
    <3>2. CanView(held, place) <=>
              held \cap server[place].allow # {} \/ Everyone \in server[place].allow
      BY <3>1, Sees, AuditedRoles
    <3>3. Everyone \notin server[place].allow BY <1>2, <3>1, Ids DEF Everyone, Bot
    <3>4. held \cap server[place].allow = held \cap Readers(file, CategoryAt(key))
      BY <2>1, <3>1, Ids
    <3> QED BY <2>3, <3>2, <3>3, <3>4
  <2> QED BY <2>2, <2>3
<1> QED BY <1>1, <1>3

(* What was made shut and is shut is seen by the roles made for it.        *)
LEMMA ShutIsPrivate == ProvisionTypes /\ BornShut => PrivateFromBirth
<1> SUFFICES ASSUME ProvisionTypes, BornShut, NEW m \in made, Shut(m),
                    NEW held \in SUBSET Are("role"), CanView(held, m[2]),
                    "admin" \notin atLarge \union UNION {server[i].base : i \in held}
    PROVE  held \cap MadeFor(ReaderKeys(CategoryAt(m[1]))) # {}
  BY DEF PrivateFromBirth, Shut
<1> DEFINE readers == MadeFor(ReaderKeys(CategoryAt(m[1])))
<1>1. server[m[2]].deny = {Everyone} /\ server[m[2]].allow \subseteq {Bot} \union readers
  BY DEF BornShut
<1>2. readers \subseteq ServerIds BY DEF MadeFor, ProvisionTypes
<1>3. held \subseteq ServerIds BY DEF Are
<1>4. Everyone \notin server[m[2]].allow BY <1>1, <1>2, Ids DEF Everyone, Bot
<1>5. held \cap server[m[2]].allow # {} BY <1>1, <1>4, Sees
<1> QED BY <1>1, <1>3, <1>5, Ids

(* The invariant is strong enough.                                         *)
LEMMA InvariantMeans == ProvisionInvariant => SetupInvariant
BY AuditedIsPrivate, ShutIsPrivate DEF ProvisionInvariant, SetupInvariant

-----------------------------------------------------------------------------
(* What the owner does                                                     *)

(* The policies stay of their types.                                       *)
Policies ==
    /\ atLarge' \subseteq Permissions /\ loose' \in BOOLEAN /\ preview' \in BOOLEAN
    /\ rights' \subseteq Rights /\ ranked' \in BOOLEAN /\ owned' \in Nat

(* The owner deletes, or alters: then a resource keeps its kind, and takes *)
(* no name of setup's; if it counts as untouched nobody is let in.         *)
Edited(i) ==
    \/ server'[i] = Gone
    \/ /\ server[i] # Gone /\ server'[i].kind = server[i].kind
       /\ server'[i].name \in {server[i].name, "other"}
       /\ i \in untouched' =>
             server'[i].deny = server[i].deny /\ server'[i].allow \subseteq server[i].allow
Edits ==
    /\ server' \in [ServerIds -> Resource \union {Gone}] /\ lastId' \in lastId..MAX_IDS
    /\ \A i \in ServerIds : /\ i <= lastId => Edited(i)
                            /\ i > lastId' => server'[i] = Gone
    /\ untouched' \subseteq untouched /\ UNCHANGED <<made, file, setup>> /\ Policies

(* After an edit nothing of setup's stands that did not stand before.      *)
LEMMA EditedStands ==
    ASSUME ProvisionTypes, KindsStay, Edits, NEW m \in made
    PROVE  /\ m[2] \in ServerIds /\ m[2] <= lastId /\ Edited(m[2])
           /\ Stands(m)' => Stands(m)
<1>1. m[1] \in ServerKeys /\ m[2] \in ServerIds BY DEF ProvisionTypes
<1>2. m[2] <= lastId /\ Edited(m[2]) BY <1>1 DEF KindsStay, Edits
<1> QED BY <1>1, <1>2, KeysApart DEF Edited, Stands

LEMMA EditsKeep == ProvisionInvariant /\ Edits => ProvisionInvariant'
<1> SUFFICES ASSUME ProvisionInvariant, Edits PROVE ProvisionInvariant' OBVIOUS
<1> USE DEF ProvisionInvariant
<1>1. ProvisionTypes'
  BY DEF ProvisionTypes, Edits, Policies, ServerIds
<1>2. SetupKnows' BY DEF Edits, SetupKnows
<1>3. TodoIsMissing' BY EditedStands DEF Edits, TodoIsMissing
<1>4. KindsStay'
  <2>1. ASSUME NEW m \in made
        PROVE  m[2] <= lastId' /\ server'[m[2]].kind \in {"none", KindOf(m[1])}
    <3>1. m[2] \in ServerIds /\ m[2] <= lastId /\ Edited(m[2]) BY EditedStands
    <3>2. m[2] <= lastId' BY <3>1 DEF Edits, ProvisionTypes, ServerIds
    <3> QED BY <3>1, <3>2 DEF Edited, Gone, KindsStay
  <2> QED BY <2>1 DEF Edits, KindsStay
<1>5. NoneAdopted' BY DEF Edits, NoneAdopted
<1>6. MadeOnce' BY EditedStands DEF Edits, MadeOnce
<1>7. TrialIsLast' BY DEF Edits, TrialIsLast, Complete
<1>8. BornShut'
  <2> SUFFICES ASSUME NEW m \in made, Shut(m)'
      PROVE  /\ server'[m[2]].deny = {Everyone}
             /\ server'[m[2]].allow \subseteq {Bot} \union MadeFor(ReaderKeys(CategoryAt(m[1])))
    BY DEF BornShut, Edits, MadeFor
  <2>1. m[2] \in ServerIds /\ Edited(m[2]) BY EditedStands
  <2>2. server'[m[2]] # Gone BY DEF Shut, Places, Are, Gone
  <2>3. Shut(m) BY <2>1, <2>2 DEF Shut, Edited, Edits, Places, Are
  <2> QED BY <2>1, <2>2, <2>3 DEF BornShut, Edited, Shut
<1> QED BY <1>1, <1>2, <1>3, <1>4, <1>5, <1>6, <1>7, <1>8

(* What each of the owner's actions is.                                    *)
LEMMA QuietIsEdit ==
    ASSUME ProvisionInvariant, UNCHANGED <<server, lastId, made, file, setup, untouched>>, Policies
    PROVE  Edits
BY DEF ProvisionInvariant, ProvisionTypes, KindsStay, Edits, Edited, ServerIds

LEMMA GrantIsEdit == ProvisionInvariant /\ (Grant \/ SetPolicy) => Edits
<1> SUFFICES ASSUME ProvisionInvariant, Grant \/ SetPolicy PROVE Edits OBVIOUS
<1>1. Policies
  <2>1. /\ atLarge \subseteq Permissions /\ loose \in BOOLEAN /\ preview \in BOOLEAN
        /\ rights \subseteq Rights /\ ranked \in BOOLEAN /\ owned \in Nat
    BY DEF ProvisionInvariant, ProvisionTypes
  <2>2. CASE Grant BY <2>1, <2>2 DEF Grant, Policies, Rights
  <2>3. CASE SetPolicy
    <3>1. owned' \in Nat BY <2>1, <2>3 DEF SetPolicy, Changes
    <3>2. atLarge' \subseteq Permissions BY <2>1, <2>3 DEF SetPolicy, Permissions
    <3>3. preview' \in BOOLEAN BY <2>1, <2>3, Zenon DEF SetPolicy
    <3>4. loose' \in BOOLEAN BY <2>1, <2>3, Zenon DEF SetPolicy
    <3> QED BY <2>1, <2>3, <3>1, <3>2, <3>3, <3>4 DEF SetPolicy, Policies
  <2> QED BY <2>2, <2>3
<1> QED BY <1>1, QuietIsEdit DEF Grant, SetPolicy, OwnerQuiet

LEMMA DeleteIsEdit ==
    ASSUME ProvisionInvariant, NEW i \in ServerIds, Delete(i)
    PROVE  Edits
<1> USE DEF ProvisionInvariant
<1>0. Changes /\ OwnerQuiet /\ UNCHANGED <<lastId, policyVars, made, untouched>> BY DEF Delete
<1>1. Policies
  BY <1>0 DEF ProvisionTypes, Changes, policyVars, Policies
<1>2. ASSUME NEW j \in ServerIds
      PROVE  /\ server'[j] \in Resource \union {Gone} /\ Edited(j)
             /\ server[j] = Gone => server'[j] = Gone
  <2>1. CASE j = i \/ server[j] = Gone BY <2>1 DEF Delete, Edited
  <2>2. CASE ~(j = i \/ server[j] = Gone)
    <3>1. server[j] \in Resource BY <2>2, ExistsIs
    <3>2. server'[j] = [server[j] EXCEPT !.allow = @ \ {i}, !.parent = IF @ = i THEN 0 ELSE @]
      BY <2>2 DEF Delete
    <3>3. server[j].allow \ {i} \in SUBSET (ServerIds \union {Everyone, Bot})
      BY <3>1 DEF Resource
    <3>4. (IF server[j].parent = i THEN 0 ELSE server[j].parent) \in ServerIds \union {0}
      BY <3>1 DEF Resource
    <3> QED BY <2>2, <3>1, <3>2, <3>3, <3>4 DEF Resource, Edited
  <2> QED BY <2>1, <2>2
<1>3. server' \in [ServerIds -> Resource \union {Gone}]
  BY <1>2 DEF Delete
<1>4. UNCHANGED <<lastId, untouched, made, file, setup>> /\ lastId' \in lastId..MAX_IDS
  BY <1>0 DEF OwnerQuiet, ProvisionTypes, ServerIds
<1> QED BY <1>1, <1>2, <1>3, <1>4 DEF Edits, KindsStay

LEMMA AltersIsEdit ==
    ASSUME ProvisionInvariant, NEW i \in ServerIds, Alters(i)
    PROVE  Edits
<1> USE DEF ProvisionInvariant
<1>1. Policies
  BY DEF ProvisionTypes, Alters, Changes, policyVars, Policies
<1>2. PICK new \in Altered(server[i]) : server' = [server EXCEPT ![i] = new]
  BY DEF Alters
<1>3. server[i] \in Resource BY ExistsIs DEF Alters
<1>4. new \in Resource /\ new.kind = server[i].kind /\ new.name \in {server[i].name, "other"}
  BY <1>3 DEF Altered, Resource, Permissions, Are
<1>5. server' \in [ServerIds -> Resource \union {Gone}]
  BY <1>2, <1>4 DEF ProvisionTypes
<1>6. i \notin untouched' /\ untouched' \subseteq untouched BY DEF Alters
<1>7. UNCHANGED <<lastId, made, file, setup>> /\ lastId' \in lastId..MAX_IDS
  BY DEF Alters, OwnerQuiet, ProvisionTypes
<1>8. ASSUME NEW j \in ServerIds
      PROVE  Edited(j) /\ (j > lastId => server'[j] = Gone)
  <2>1. CASE j = i
    <3>1. server[i] # Gone BY DEF Alters
    <3> QED BY <1>2, <1>4, <1>6, <2>1, <3>1 DEF Edited, ProvisionTypes, KindsStay
  <2>2. CASE j # i BY <1>2, <2>2 DEF Edited, ProvisionTypes, KindsStay
  <2> QED BY <2>1, <2>2
<1> QED BY <1>1, <1>5, <1>6, <1>7, <1>8 DEF Edits

(* What the owner adds comes after what is there.                          *)
Additions ==
    /\ server' \in [ServerIds -> Resource \union {Gone}] /\ lastId' \in lastId..MAX_IDS
    /\ \A j \in ServerIds : /\ j <= lastId => Edited(j)
                            /\ j > lastId' => server'[j] = server[j]
    /\ untouched' \subseteq untouched /\ UNCHANGED <<made, file, setup>> /\ Policies

LEMMA AdditionIsEdit == ProvisionInvariant /\ Additions => Edits
<1> SUFFICES ASSUME ProvisionInvariant, Additions PROVE Edits OBVIOUS
<1>1. \A j \in ServerIds : j > lastId' => server'[j] = Gone
  BY DEF ProvisionInvariant, Additions, KindsStay, ProvisionTypes, ServerIds
<1> QED BY <1>1 DEF Additions, Edits

LEMMA BlankIs ==
    ASSUME NEW k \in {"role", "category", "channel"}, NEW name \in ServerKeys \union {"other"}
    PROVE  Blank(k, name) \in Resource
BY DEF Blank, Resource

LEMMA NewIdIs ==
    ASSUME ProvisionInvariant, NEW count \in {1, 2}, Gives(count)
    PROVE  /\ NewId \in ServerIds /\ NewId > lastId /\ lastId \in Nat
           /\ count = 2 => NewId + 1 \in ServerIds
           /\ lastId' = lastId + count /\ lastId' \in lastId..MAX_IDS
BY ProvisionConstants DEF ProvisionInvariant, ProvisionTypes, Gives, NewId, ServerIds

LEMMA AddsIsEdit == ProvisionInvariant /\ Adds => Edits
<1> SUFFICES ASSUME ProvisionInvariant, Adds PROVE Edits OBVIOUS
<1> USE DEF ProvisionInvariant
<1>1. Policies
  BY DEF ProvisionTypes, Adds, Changes, policyVars, Policies
<1>2. PICK new \in {Blank("role", "pro"), [Blank("role", "other") EXCEPT !.base = {"view"}],
                   [Blank("role", "other") EXCEPT !.base = {"manage"}, !.managed = TRUE],
                   Creation(file, "item-requests")} : server' = [server EXCEPT ![NewId] = new]
  BY DEF Adds
<1>3. new \in Resource
  <2>1. Blank("role", "pro") \in Resource /\ Blank("role", "other") \in Resource
    BY BlankIs, KeysApart
  <2>2. Creation(file, "item-requests") \in Resource
    BY CreationIs, KeysApart DEF ProvisionTypes, Optional
  <2>3. [Blank("role", "other") EXCEPT !.base = {"view"}] \in Resource
    BY <2>1 DEF Resource, Permissions
  <2>4. [Blank("role", "other") EXCEPT !.base = {"manage"}, !.managed = TRUE] \in Resource
    BY <2>1 DEF Resource, Permissions
  <2> QED BY <1>2, <2>1, <2>2, <2>3, <2>4
<1>4. Gives(1) /\ UNCHANGED <<untouched, made, file, setup>> BY DEF Adds, OwnerQuiet
<1>5. /\ NewId \in ServerIds /\ NewId > lastId /\ lastId \in Nat
      /\ lastId' = lastId + 1 /\ lastId' \in lastId..MAX_IDS
  BY <1>4, NewIdIs
<1>6. server' \in [ServerIds -> Resource \union {Gone}] BY <1>2, <1>3, <1>5 DEF ProvisionTypes
<1>7. \A j \in ServerIds : j # NewId => server'[j] = server[j]
  BY <1>2, <1>5 DEF ProvisionTypes
<1>8. \A j \in ServerIds : /\ j <= lastId => Edited(j)
                           /\ j > lastId' => server'[j] = server[j]
  BY <1>5, <1>7 DEF NewId, Edited, ServerIds
<1>9. Additions BY <1>1, <1>4, <1>5, <1>6, <1>8 DEF Additions
<1> QED BY <1>9, AdditionIsEdit

LEMMA PrepareTrialIsEdit == ProvisionInvariant /\ PrepareTrial => Edits
<1> SUFFICES ASSUME ProvisionInvariant, PrepareTrial PROVE Edits OBVIOUS
<1> USE DEF ProvisionInvariant
<1> DEFINE candidate == [file EXCEPT !["trial"] = NewId]
           pro(i) == \E k \in CategoryKeys \union ChannelKeys :
                        file[k] = i /\ Audience[CategoryAt(k)] = "pro"
           opened == [i \in ServerIds |->
                IF pro(i) /\ server[i] # Gone THEN [server[i] EXCEPT !.allow = @ \union {NewId}]
                ELSE server[i]]
           prepared == [opened EXCEPT ![NewId] = Blank("role", "trial"),
                                      ![NewId + 1] = Creation(candidate, "trial-management")]
<1>1. Policies
  BY DEF ProvisionTypes, PrepareTrial, Changes, policyVars, Policies
<1>2. Gives(2) /\ UNCHANGED <<made, file, setup>> BY DEF PrepareTrial, OwnerQuiet
<1>3. /\ NewId \in ServerIds /\ NewId > lastId /\ lastId \in Nat /\ NewId + 1 \in ServerIds
      /\ NewId = lastId + 1 /\ lastId' = lastId + 2 /\ lastId' \in lastId..MAX_IDS
  BY <1>2, NewIdIs DEF NewId
<1>4. untouched' = {i \in untouched : server'[i] = server[i]} BY DEF PrepareTrial
<1>5. server' = [server EXCEPT ![NewId] = Blank("role", "trial")] \/ server' = prepared
  BY DEF PrepareTrial
<1>6. /\ Blank("role", "trial") \in Resource
      /\ Creation(candidate, "trial-management") \in Resource
  <2>1. candidate \in State BY <1>3 DEF ProvisionTypes, State
  <2> QED BY <2>1, BlankIs, CreationIs, KeysApart DEF Optional
<1>7. CASE server' = [server EXCEPT ![NewId] = Blank("role", "trial")]
  <2>1. server' \in [ServerIds -> Resource \union {Gone}]
    BY <1>3, <1>6, <1>7 DEF ProvisionTypes
  <2>2. \A j \in ServerIds : j # NewId => server'[j] = server[j]
    BY <1>3, <1>7 DEF ProvisionTypes
  <2>3. \A j \in ServerIds : /\ j <= lastId => Edited(j)
                             /\ j > lastId' => server'[j] = server[j]
    BY <1>3, <2>2 DEF Edited, ServerIds
  <2>4. untouched' \subseteq untouched BY <1>4
  <2> HIDE DEF candidate, pro, opened, prepared
  <2>8. Additions BY <1>1, <1>2, <1>3, <2>1, <2>3, <2>4 DEF Additions
  <2> QED BY <2>8, AdditionIsEdit
<1>8. CASE server' = prepared
  <2>1. ASSUME NEW j \in ServerIds, j # NewId, j # NewId + 1
        PROVE  \/ server'[j] = server[j]
               \/ /\ server[j] # Gone
                  /\ server'[j] = [server[j] EXCEPT !.allow = @ \union {NewId}]
    <3>1. server'[j] = opened[j]
      <4>1. DOMAIN opened = ServerIds OBVIOUS
      <4> HIDE DEF opened, candidate
      <4> QED BY <1>3, <1>8, <2>1, <4>1
    <3> QED BY <3>1
  <2>2. /\ server'[NewId] = Blank("role", "trial")
        /\ server'[NewId + 1] = Creation(candidate, "trial-management")
    <3>1. DOMAIN opened = ServerIds OBVIOUS
    <3>2. NewId + 1 # NewId BY <1>3
    <3> HIDE DEF opened, candidate
    <3> QED BY <1>3, <1>8, <3>1, <3>2
  <2>4. ASSUME NEW j \in ServerIds, j # NewId, j # NewId + 1
        PROVE  server'[j] \in Resource \union {Gone} /\ Edited(j)
    <3>1. CASE server'[j] = server[j] BY <3>1 DEF ProvisionTypes, Edited
    <3>2. CASE server'[j] # server[j]
      <4>1. /\ server[j] # Gone /\ server[j] \in Resource
            /\ server'[j] = [server[j] EXCEPT !.allow = @ \union {NewId}]
        BY <2>1, <2>4, <3>2, ExistsIs
      <4>2. j \notin untouched' BY <1>4, <3>2
      <4> QED BY <1>3, <4>1, <4>2 DEF Edited, Resource
    <3> QED BY <3>1, <3>2
  <2>5. server' \in [ServerIds -> Resource \union {Gone}]
    <3>1. \A j \in ServerIds : server'[j] \in Resource \union {Gone}
      BY <1>6, <2>2, <2>4
    <3> QED BY <1>8, <3>1
  <2>6. ASSUME NEW j \in ServerIds
        PROVE  /\ j <= lastId => Edited(j)
               /\ j > lastId' => server'[j] = server[j]
    <3>1. j <= lastId => j # NewId /\ j # NewId + 1 BY <1>3 DEF ServerIds
    <3>2. ASSUME j > lastId' PROVE server'[j] = server[j]
      <4>1. j # NewId /\ j # NewId + 1 /\ j > lastId BY <1>3, <3>2 DEF ServerIds
      <4>2. server[j] = Gone BY <4>1 DEF KindsStay
      <4> QED BY <2>1, <4>1, <4>2
    <3> QED BY <2>4, <3>1, <3>2
  <2>7. untouched' \subseteq untouched BY <1>4
  <2> HIDE DEF candidate, pro, opened, prepared
  <2>8. Additions BY <1>1, <1>2, <1>3, <2>5, <2>6, <2>7 DEF Additions
  <2> QED BY <2>8, AdditionIsEdit
<1> QED BY <1>5, <1>7, <1>8

-----------------------------------------------------------------------------
(* What setup does                                                         *)

(* A step that leaves the resources alone needs to answer for the file and *)
(* for the process only.                                                   *)
Still == UNCHANGED <<server, lastId, made, untouched>> /\ Policies
LEMMA StillKeeps ==
    ASSUME ProvisionInvariant, Still, file' \in State, setup' \in Process,
           SetupKnows', TodoIsMissing', NoneAdopted', TrialIsLast'
    PROVE  ProvisionInvariant'
<1> USE DEF ProvisionInvariant
<1>1. ProvisionTypes' BY DEF ProvisionTypes, Still, Policies
<1>2. KindsStay' BY DEF Still, KindsStay
<1>3. MadeOnce' BY DEF Still, MadeOnce, Stands
<1>4. BornShut' BY DEF Still, BornShut, Shut, Places, Are, MadeFor
<1> QED BY <1>1, <1>2, <1>3, <1>4

LEMMA QuietIsStill == ProvisionInvariant /\ ServerQuiet => Still
BY DEF ProvisionInvariant, ProvisionTypes, ServerQuiet, policyVars, Still, Policies

(* The process ends, and the file stays.                                   *)
LEMMA EndKeeps ==
    ASSUME ProvisionInvariant, Still, SetupEnds, file' = file
    PROVE  ProvisionInvariant'
<1> USE DEF ProvisionInvariant
<1>1. setup' = AtRest BY DEF SetupEnds
<1>2. file' \in State /\ setup' \in Process BY <1>1, AtRestIs DEF ProvisionTypes
<1>3. SetupKnows' BY <1>1, AtRestIs DEF SetupKnows
<1>4. TodoIsMissing' BY <1>1, AtRestIs DEF TodoIsMissing
<1>5. NoneAdopted' BY <1>1, AtRestIs DEF NoneAdopted, Still
<1>6. TrialIsLast' BY <1>1, AtRestIs DEF TrialIsLast, Complete
<1> QED BY <1>2, <1>3, <1>4, <1>5, <1>6, StillKeeps

(* The process starts.                                                     *)
LEMMA ProvisionKeeps == ProvisionInvariant /\ Provision => ProvisionInvariant'
<1> SUFFICES ASSUME ProvisionInvariant, Provision PROVE ProvisionInvariant' OBVIOUS
<1> USE DEF ProvisionInvariant
<1>1. setup' = [step |-> "check", state |-> file, todo |-> {}] /\ file' = file
  BY DEF Provision, Loaded
<1>2. Still BY QuietIsStill DEF Provision
<1>3. file' \in State /\ setup' \in Process BY <1>1 DEF ProvisionTypes, Process
<1>4. SetupKnows' BY <1>1 DEF SetupKnows
<1>5. TodoIsMissing' BY <1>1 DEF TodoIsMissing
<1>6. NoneAdopted' BY <1>1, <1>2 DEF NoneAdopted, Still
<1>7. TrialIsLast' BY <1>1 DEF TrialIsLast, Complete
<1> QED BY <1>2, <1>3, <1>4, <1>5, <1>6, <1>7, StillKeeps

(* What the check found missing, nobody has: a place that stands has the   *)
(* name of the key that the state gives it, and a role of the name of a    *)
(* key that is missing is a finding.                                       *)
LEMMA UntrackedIsMissing ==
    ASSUME ProvisionInvariant, ResourcesFine(setup.state, FALSE), NEW k \in Untracked,
           NEW m \in made, m[1] = k
    PROVE  ~Stands(m)
<1> USE DEF ProvisionInvariant
<1> SUFFICES ASSUME Stands(m) PROVE FALSE OBVIOUS
<1>1. /\ k \in Required /\ k \in ServerKeys /\ k # "trial" /\ setup.state[k] = 0
      /\ m[2] \in ServerIds
  BY KeysApart DEF Untracked, ProvisionTypes
<1>2. server[m[2]].kind = KindOf(k) /\ server[m[2]].name = k /\ server[m[2]] # Gone
  BY <1>1, ExistsIs DEF KindsStay, Stands
<1>3. CASE k \in RoleKeys
  <2>1. m[2] \in Are("role") BY <1>1, <1>2, <1>3, KeyKinds DEF Are
  <2>2. RoleIs(setup.state, k, FALSE) BY <1>1, <1>3 DEF ResourcesFine
  <2> QED BY <1>1, <1>2, <2>1, <2>2 DEF RoleIs
<1>4. CASE k \notin RoleKeys
  <2>1. m[2] \in Places
    <3>1. KindOf(k) \in {"category", "channel"} BY <1>1, <1>4, KeyKinds
    <3> QED BY <1>1, <1>2, <3>1 DEF Places, Are
  <2>2. PICK l \in CategoryKeys \union ChannelKeys : setup.state[l] = m[2] /\ m[2] # 0
    BY <2>1 DEF ResourcesFine, NoneUntracked, Tracks
  <2>3. l \in CategoryKeys \union InOrder(Channels) \union Features(setup.state)
    BY <2>2 DEF ChannelKeys, Features
  <2>4. PlaceIs(setup.state, l, FALSE) BY <2>3 DEF ResourcesFine
  <2>5. server[m[2]].name = l BY <1>2, <2>2, <2>4 DEF PlaceIs
  <2> QED BY <1>1, <1>2, <2>2, <2>5
<1> QED BY <1>3, <1>4

LEMMA CheckKeeps == ProvisionInvariant /\ Check => ProvisionInvariant'
<1> SUFFICES ASSUME ProvisionInvariant, Check PROVE ProvisionInvariant' OBVIOUS
<1> USE DEF ProvisionInvariant
<1>1. Still /\ file' = file BY QuietIsStill DEF Check
<1>2. CASE SetupEnds BY <1>1, <1>2, EndKeeps
<1>3. CASE ResourcesFine(setup.state, FALSE)
           /\ setup' = [setup EXCEPT !.step = "first", !.todo = Planned]
  <2>1. setup.step = "check" BY DEF Check
  <2>2. setup'.state = setup.state /\ setup'.step = "first" /\ setup'.todo = Planned
    BY <1>3 DEF ProvisionTypes, Process
  <2>3. Planned \cap ServerKeys = Untracked
    BY KeysApart DEF Planned, Is, Untracked
  <2>4. setup' \in Process /\ file' \in State
    <3>1. Planned \subseteq ServerKeys \union {"secure", "everyone"}
      BY <2>3, KeysApart DEF Planned, Is, Untracked
    <3> QED BY <1>1, <1>3, <3>1 DEF ProvisionTypes, Process
  <2>5. SetupKnows' BY <1>1, <2>1, <2>2 DEF SetupKnows
  <2>6. TodoIsMissing'
    <3>1. \A m \in made : Stands(m)' <=> Stands(m) BY <1>1 DEF Still, Stands
    <3> QED BY <1>1, <1>3, <2>2, <2>3, <3>1, UntrackedIsMissing DEF TodoIsMissing, Untracked, Still
  <2>7. NoneAdopted' BY <1>1, <2>2 DEF NoneAdopted, Still
  <2>8. TrialIsLast' BY <1>1, <2>1, <2>2 DEF TrialIsLast, Complete
  <2> QED BY <1>1, <2>4, <2>5, <2>6, <2>7, <2>8, StillKeeps
<1> QED BY <1>2, <1>3 DEF Check

(* The process goes on with what is left, or comes to rest.                *)
LEMMA RestIs ==
    ASSUME ProvisionTypes, NEW todo \in SUBSET setup.todo
    PROVE  /\ Rest(todo) \in Process
           /\ \/ Rest(todo) = AtRest
              \/ /\ Rest(todo).step = "make" /\ Rest(todo).state = setup.state
                 /\ Rest(todo).todo = todo
BY AtRestIs DEF ProvisionTypes, Process, Rest

(* The state reaches the file, or the setup fails.                         *)
LEMMA RecordKeeps ==
    ASSUME ProvisionInvariant, ServerQuiet, NEW next \in Process, Record(next),
           setup.step \in {"first", "note", "bind"},
           \/ next = AtRest
           \/ /\ setup.step \in {"first", "note"}
              /\ next.step = "make" /\ next.state = setup.state /\ next.todo = setup.todo
    PROVE  ProvisionInvariant'
<1> USE DEF ProvisionInvariant
<1>1. Still BY QuietIsStill
<1>2. CASE SetupEnds /\ file' = file BY <1>1, <1>2, EndKeeps
<1>3. CASE file' = setup.state /\ setup' = next
  <2>1. file' \in State /\ setup' \in Process BY <1>3 DEF ProvisionTypes, Process
  <2>2. SetupKnows' BY <1>3, AtRestIs DEF SetupKnows
  <2>3. TodoIsMissing'
    <3>1. \A m \in made : Stands(m)' <=> Stands(m) BY <1>1 DEF Still, Stands
    <3> QED BY <1>1, <1>3, <3>1, AtRestIs DEF TodoIsMissing, Still
  <2>4. NoneAdopted' BY <1>1, <1>3, AtRestIs DEF NoneAdopted, Still
  <2>5. TrialIsLast' BY <1>3, AtRestIs DEF TrialIsLast, Complete
  <2> QED BY <1>1, <2>1, <2>2, <2>3, <2>4, <2>5, StillKeeps
<1> QED BY <1>2, <1>3 DEF Record

LEMMA SavesKeep ==
    ProvisionInvariant /\ (FirstSave \/ Note \/ BindSave) => ProvisionInvariant'
<1> SUFFICES ASSUME ProvisionInvariant, FirstSave \/ Note \/ BindSave
    PROVE  ProvisionInvariant'
  OBVIOUS
<1>1. CASE FirstSave \/ Note
  <2>1. Rest(setup.todo) \in Process
    BY RestIs DEF ProvisionInvariant
  <2>2. \/ Rest(setup.todo) = AtRest
        \/ /\ Rest(setup.todo).step = "make" /\ Rest(setup.todo).state = setup.state
           /\ Rest(setup.todo).todo = setup.todo
    BY RestIs DEF ProvisionInvariant
  <2> QED BY <1>1, <2>1, <2>2, RecordKeeps DEF FirstSave, Note
<1>2. CASE BindSave BY <1>2, AtRestIs, RecordKeeps DEF BindSave
<1> QED BY <1>1, <1>2

(* A binding keeps what the file names, and adds only what the owner made. *)
LEMMA BindKeeps ==
    ASSUME ProvisionInvariant, NEW new \in Bindings, Bind(new)
    PROVE  ProvisionInvariant'
<1> USE DEF ProvisionInvariant
<1>1. /\ setup' = [step |-> "audit", state |-> Binds(new), todo |-> {}] /\ file' = file
      /\ Still
  BY QuietIsStill DEF Bind
<1>2. /\ DOMAIN new \subseteq Optional \union {"trial", "member"}
      /\ \A k \in DOMAIN new : new[k] \in ServerIds
  BY DEF Bindings, Optional, Are
<1>3. file \in State /\ Binds(new) \in State
  BY <1>2 DEF ProvisionTypes, State, Binds
<1>4. \A k \in ServerKeys : Binds(new)[k] = IF k \in DOMAIN new THEN new[k] ELSE file[k]
  BY <1>3 DEF Binds, State
<1>5. setup' \in Process BY <1>1, <1>3 DEF Process
<1>6. SetupKnows' BY <1>1, <1>4, KeysApart DEF SetupKnows, Bind, Bindable
<1>7. TodoIsMissing' BY <1>1 DEF TodoIsMissing
<1>8. NoneAdopted'
  <2>1. \A k \in ServerKeys \ (Optional \union {"trial"}) : Binds(new)[k] = file[k]
    BY <1>2, <1>4, KeysApart
  <2> QED BY <1>1, <2>1 DEF NoneAdopted, Still
<1>9. TrialIsLast' BY <1>1 DEF TrialIsLast, Complete
<1> QED BY <1>1, <1>3, <1>5, <1>6, <1>7, <1>8, <1>9, StillKeeps

(* What passes the audit names all that is required.                       *)
LEMMA AuditedIsComplete ==
    ASSUME NEW s, AuditOk(s)
    PROVE  Complete(s)
<1> SUFFICES ASSUME NEW k \in Required PROVE s[k] # 0 BY DEF Complete
<1>1. CASE k \in InOrder(Roles)
  <2>1. RoleIs(s, k, TRUE)
    BY <1>1, ProvisionConstants DEF AuditOk, ResourcesFine, RoleKeys
  <2> QED BY <2>1 DEF RoleIs
<1>2. CASE k \notin InOrder(Roles)
  <2>1. PlaceIs(s, k, TRUE) BY <1>2 DEF AuditOk, ResourcesFine, Required
  <2> QED BY <2>1 DEF PlaceIs
<1> QED BY <1>1, <1>2

LEMMA BindAuditKeeps == ProvisionInvariant /\ BindAudit => ProvisionInvariant'
<1> SUFFICES ASSUME ProvisionInvariant, BindAudit PROVE ProvisionInvariant' OBVIOUS
<1> USE DEF ProvisionInvariant
<1>1. Still /\ file' = file BY QuietIsStill DEF BindAudit
<1>2. CASE SetupEnds BY <1>1, <1>2, EndKeeps
<1>3. CASE AuditOk(setup.state) /\ setup' = [setup EXCEPT !.step = "bind"]
  <2>1. setup'.step = "bind" /\ setup'.state = setup.state /\ setup' \in Process
    BY <1>3 DEF ProvisionTypes, Process
  <2>2. file' \in State BY <1>1 DEF ProvisionTypes
  <2>3. SetupKnows' BY <1>1, <2>1 DEF SetupKnows, BindAudit
  <2>4. TodoIsMissing' BY <2>1 DEF TodoIsMissing
  <2>5. NoneAdopted' BY <1>1, <2>1 DEF NoneAdopted, Still
  <2>6. TrialIsLast' BY <1>1, <1>3, <2>1, AuditedIsComplete DEF TrialIsLast, Complete
  <2> QED BY <1>1, <2>1, <2>2, <2>3, <2>4, <2>5, <2>6, StillKeeps
<1> QED BY <1>2, <1>3 DEF BindAudit

(* A resource is made: it is new, nothing like it stands, and the roles    *)
(* that its overwrites let in were made for its audience.                  *)
LEMMA MakesKeeps ==
    ASSUME ProvisionInvariant, setup.step = "make", NEW key \in setup.todo, Makes(key),
           file' = file, owned' = owned,
           \/ setup' = AtRest
           \/ setup' = [setup EXCEPT !.step = "note", !.state[key] = NewId,
                                     !.todo = setup.todo \ {key}]
    PROVE  ProvisionInvariant'
<1> USE DEF ProvisionInvariant
<1> DEFINE new == Creation(setup.state, key)
<1>1. /\ key \in ServerKeys /\ key \in Required /\ key # "trial" /\ key \notin Optional
      /\ setup.state \in State /\ setup.state[key] = 0
      /\ \A m \in made : m[1] = key => ~Stands(m)
  BY KeysApart DEF Makes, TodoIsMissing, ProvisionTypes, Process
<1>2. /\ NewId \in ServerIds /\ lastId \in Nat /\ NewId = lastId + 1 /\ lastId' = NewId
      /\ lastId' \in 1..MAX_IDS
  BY ProvisionConstants DEF Makes, Gives, NewId, ProvisionTypes, ServerIds
<1>3. /\ server' = [server EXCEPT ![NewId] = new] /\ made' = made \union {<<key, NewId>>}
      /\ untouched' = untouched \union {NewId} /\ UNCHANGED policyVars
  BY DEF Makes
<1>4. /\ new \in Resource /\ new.kind = KindOf(key)
      /\ key \notin RoleKeys =>
            /\ new.allow = Allowed(setup.state, CategoryAt(key))
            /\ new.deny = Denied(CategoryAt(key))
  BY <1>1, CreationIs
<1> HIDE DEF new
<1>5. server'[NewId] = new /\ \A j \in ServerIds : j # NewId => server'[j] = server[j]
  BY <1>2, <1>3 DEF ProvisionTypes
<1>6. ASSUME NEW m \in made
      PROVE  /\ m[1] \in ServerKeys /\ m[2] \in ServerIds /\ m[2] # NewId /\ m[2] <= lastId'
             /\ server'[m[2]] = server[m[2]] /\ (Stands(m)' <=> Stands(m))
  <2>1. m[1] \in ServerKeys /\ m[2] \in ServerIds /\ m[2] <= lastId
    BY DEF ProvisionTypes, KindsStay
  <2>2. m[2] # NewId /\ m[2] <= lastId' BY <1>2, <2>1 DEF ServerIds
  <2> QED BY <1>5, <2>1, <2>2 DEF Stands
<1>7. \/ setup' = AtRest
      \/ /\ setup'.step = "note" /\ setup'.todo = setup.todo \ {key}
         /\ setup'.state = [setup.state EXCEPT ![key] = NewId]
  BY DEF ProvisionTypes, Process
<1>8. ProvisionTypes'
  <2>1. setup' \in Process
    <3>1. [setup.state EXCEPT ![key] = NewId] \in State BY <1>1, <1>2 DEF State
    <3>2. \/ setup' = AtRest
          \/ setup' = [setup EXCEPT !.step = "note", !.todo = setup.todo \ {key},
                                    !.state = [setup.state EXCEPT ![key] = NewId]]
      BY <1>1 DEF ProvisionTypes, Process
    <3>3. setup.todo \ {key} \in SUBSET (ServerKeys \union {"secure", "everyone"})
      BY DEF ProvisionTypes, Process
    <3> QED BY <3>1, <3>2, <3>3, AtRestIs DEF ProvisionTypes, Process
  <2>2. server' \in [ServerIds -> Resource \union {Gone}]
    BY <1>3, <1>4 DEF ProvisionTypes
  <2>3. made' \subseteq ServerKeys \X ServerIds /\ untouched' \subseteq ServerIds
    BY <1>1, <1>2, <1>3 DEF ProvisionTypes
  <2> QED BY <1>2, <1>3, <2>1, <2>2, <2>3 DEF ProvisionTypes, policyVars
<1>9. SetupKnows' BY <1>1, <1>7, AtRestIs DEF SetupKnows, State
<1>10. TodoIsMissing'
  <2>1. CASE setup' = AtRest BY <2>1, AtRestIs DEF TodoIsMissing
  <2>2. CASE setup' # AtRest
    <3>1. ASSUME NEW k \in (setup.todo \ {key}) \cap ServerKeys
          PROVE  /\ k \in Required /\ setup'.state[k] = 0
                 /\ \A m \in made' : m[1] = k => ~Stands(m)'
      <4>1. k \in Required /\ setup.state[k] = 0 /\ \A m \in made : m[1] = k => ~Stands(m)
        BY <3>1 DEF TodoIsMissing
      <4>2. setup'.state[k] = 0 BY <1>1, <1>7, <2>2, <3>1, <4>1 DEF State
      <4> QED BY <1>3, <1>6, <3>1, <4>1, <4>2
    <3> QED BY <1>7, <2>2, <3>1 DEF TodoIsMissing
  <2> QED BY <2>1, <2>2
<1>11. KindsStay'
  <2>1. \A m \in made : m[2] <= lastId' /\ server'[m[2]].kind \in {"none", KindOf(m[1])}
    BY <1>6 DEF KindsStay
  <2>2. NewId <= lastId' /\ server'[NewId].kind = KindOf(key) BY <1>2, <1>4, <1>5
  <2>3. \A j \in ServerIds : j > lastId' => server'[j] = Gone
    BY <1>2, <1>5 DEF KindsStay, ServerIds
  <2> QED BY <1>3, <2>1, <2>2, <2>3 DEF KindsStay
<1>12. NoneAdopted'
  <2>1. \A k \in ServerKeys \ (Optional \union {"trial"}) :
           file'[k] # 0 => <<k, file'[k]>> \in made'
    BY <1>3 DEF NoneAdopted
  <2>2. ASSUME NEW k \in ServerKeys \ (Optional \union {"trial"}), setup'.state[k] # 0
        PROVE  <<k, setup'.state[k]>> \in made'
    <3>1. setup' # AtRest BY <2>2, AtRestIs
    <3>2. CASE k = key BY <1>1, <1>3, <1>7, <3>1, <3>2 DEF State
    <3>3. CASE k # key
      <4>1. setup'.state[k] = setup.state[k] BY <1>1, <1>7, <2>2, <3>1, <3>3 DEF State
      <4> QED BY <1>3, <2>2, <4>1 DEF NoneAdopted
    <3> QED BY <3>2, <3>3
  <2> QED BY <2>1, <2>2 DEF NoneAdopted
<1>13. MadeOnce'
  <2> SUFFICES ASSUME NEW m \in made', NEW n \in made', m[1] = n[1], Stands(m)', Stands(n)'
      PROVE  m = n
    BY DEF MadeOnce
  <2>1. CASE m \in made /\ n \in made BY <1>6, <2>1 DEF MadeOnce
  <2>2. CASE m \notin made \/ n \notin made BY <1>1, <1>3, <1>6, <2>2
  <2> QED BY <2>1, <2>2
<1>14. setup.state["trial"] = 0
  BY <1>1 DEF TrialIsLast, Complete
<1>15. TrialIsLast'
  <2>1. setup'.state["trial"] = 0 BY <1>1, <1>7, <1>14, AtRestIs, KeysApart DEF State
  <2> QED BY <2>1 DEF TrialIsLast, Complete
<1>16. BornShut'
  <2> SUFFICES ASSUME NEW m \in made', Shut(m)'
      PROVE  /\ server'[m[2]].deny = {Everyone}
             /\ server'[m[2]].allow \subseteq
                    {Bot} \union MadeFor(ReaderKeys(CategoryAt(m[1])))'
    BY DEF BornShut
  <2>1. \A keys : MadeFor(keys) \subseteq MadeFor(keys)' BY <1>3 DEF MadeFor
  <2>2. CASE m \in made
    <3>1. Shut(m) BY <1>3, <1>6, <2>2 DEF Shut, Places, Are
    <3> QED BY <1>6, <2>1, <2>2, <3>1 DEF BornShut
  <2>3. CASE m = <<key, NewId>>
    <3>1. key \notin RoleKeys /\ ~Public(CategoryAt(key)) BY <2>3 DEF Shut
    <3>2. /\ new.deny = {Everyone}
          /\ new.allow = Readers(setup.state, CategoryAt(key)) \union {Bot}
      BY <1>4, <3>1 DEF Allowed, Denied
    <3>3. Readers(setup.state, CategoryAt(key)) \subseteq MadeFor(ReaderKeys(CategoryAt(key)))
      <4> SUFFICES ASSUME NEW k \in ReaderKeys(CategoryAt(key)), setup.state[k] # 0
          PROVE  setup.state[k] \in MadeFor(ReaderKeys(CategoryAt(key)))
        BY DEF Readers, Tracks
      <4>1. k \in ServerKeys \ (Optional \union {"trial"})
        BY <1>14, ReaderKeysAre, KeysApart
      <4>2. <<k, setup.state[k]>> \in made BY <4>1 DEF NoneAdopted
      <4> QED BY <4>2 DEF MadeFor
    <3> QED BY <1>5, <2>1, <2>3, <3>2, <3>3
  <2> QED BY <1>3, <2>2, <2>3
<1> QED BY <1>8, <1>9, <1>10, <1>11, <1>12, <1>13, <1>15, <1>16

(* A policy of the server is set right.                                    *)
LEMMA PolicyIsStill ==
    ASSUME ProvisionInvariant, NEW key, key \notin ServerKeys, Effect(key), owned' = owned
    PROVE  Still
<1>1. /\ key \in {"secure", "everyone"}
      /\ loose' = (loose /\ key # "secure")
      /\ atLarge' = IF key = "everyone" THEN {} ELSE atLarge
      /\ UNCHANGED <<server, lastId, made, untouched, preview, rights, ranked>>
  BY DEF Effect, Makes
<1>2. /\ atLarge \subseteq Permissions /\ loose \in BOOLEAN /\ preview \in BOOLEAN
      /\ rights \subseteq Rights /\ ranked \in BOOLEAN /\ owned \in Nat
  BY DEF ProvisionInvariant, ProvisionTypes
<1>3. loose' \in BOOLEAN BY <1>1, <1>2, Zenon
<1>4. atLarge' \subseteq Permissions BY <1>1, <1>2
<1> QED BY <1>1, <1>2, <1>3, <1>4 DEF Still, Policies

(* One request of setup, whatever comes of it.                             *)
LEMMA MakeKeeps ==
    ASSUME ProvisionInvariant, NEW key \in setup.todo, Make(key)
    PROVE  ProvisionInvariant'
<1> DEFINE left == setup.todo \ {key}
<1>1. setup.step = "make" /\ file' = file /\ owned' = owned BY DEF Make
<1>2. CASE /\ Effect(key)
           /\ setup' = IF key \in ServerKeys
                       THEN [setup EXCEPT !.step = "note", !.state[key] = NewId, !.todo = left]
                       ELSE Rest(left)
  <2>1. CASE key \in ServerKeys
    <3>1. Makes(key) BY <1>2, <2>1, KeysApart DEF Effect
    <3> QED BY <1>1, <1>2, <2>1, <3>1, MakesKeeps
  <2>2. CASE key \notin ServerKeys
    <3>1. Still BY <1>1, <1>2, <2>2, PolicyIsStill
    <3>2. /\ setup' \in Process
          /\ \/ setup' = AtRest
             \/ setup'.step = "make" /\ setup'.state = setup.state /\ setup'.todo = left
      BY <1>2, <2>2, RestIs DEF ProvisionInvariant
    <3>3. CASE setup' = AtRest BY <1>1, <3>1, <3>3, EndKeeps DEF SetupEnds
    <3>4. CASE setup'.step = "make" /\ setup'.state = setup.state /\ setup'.todo = left
      <4> USE DEF ProvisionInvariant
      <4>1. file' \in State BY <1>1 DEF ProvisionTypes
      <4>2. SetupKnows' BY <1>1, <3>4 DEF SetupKnows
      <4>3. TodoIsMissing'
        <5>1. \A m \in made : Stands(m)' <=> Stands(m) BY <3>1 DEF Still, Stands
        <5> QED BY <1>1, <3>1, <3>4, <5>1 DEF TodoIsMissing, Still
      <4>4. NoneAdopted' BY <1>1, <3>1, <3>4 DEF NoneAdopted, Still
      <4>5. TrialIsLast' BY <1>1, <3>4 DEF TrialIsLast, Complete
      <4> QED BY <3>1, <3>2, <4>1, <4>2, <4>3, <4>4, <4>5, StillKeeps
    <3> QED BY <3>2, <3>3, <3>4
  <2> QED BY <2>1, <2>2
<1>3. CASE SetupEnds /\ UNCHANGED <<server, lastId, made, untouched, policyVars>>
  <2>1. Still BY <1>1, <1>3, QuietIsStill DEF ServerQuiet
  <2> QED BY <1>1, <1>3, <2>1, EndKeeps
<1>4. CASE Effect(key) /\ SetupEnds
  <2>1. CASE key \in ServerKeys
    <3>1. Makes(key) BY <1>4, <2>1, KeysApart DEF Effect
    <3> QED BY <1>1, <1>4, <3>1, MakesKeeps DEF SetupEnds
  <2>2. CASE key \notin ServerKeys
    <3>1. Still BY <1>1, <1>4, <2>2, PolicyIsStill
    <3> QED BY <1>1, <1>4, <3>1, EndKeeps
  <2> QED BY <2>1, <2>2
<1> QED BY <1>2, <1>3, <1>4 DEF Make

LEMMA SetupDiesKeeps == ProvisionInvariant /\ SetupDies => ProvisionInvariant'
BY QuietIsStill, EndKeeps DEF SetupDies

(* The owner loses the file between two setups: nothing is named.          *)
LEMMA LoseFileKeeps == ProvisionInvariant /\ LoseFile => ProvisionInvariant'
<1> SUFFICES ASSUME ProvisionInvariant, LoseFile PROVE ProvisionInvariant' OBVIOUS
<1> USE DEF ProvisionInvariant
<1>1. /\ setup.step = "idle" /\ setup' = setup /\ file' = NewState
      /\ UNCHANGED <<server, lastId, policyVars, made, untouched>> /\ Changes
  BY DEF LoseFile
<1>2. Still BY <1>1 DEF Changes, ProvisionTypes, policyVars, Still, Policies
<1>3. file' \in State /\ setup' \in Process BY <1>1, AtRestIs DEF ProvisionTypes
<1>4. SetupKnows' BY <1>1 DEF SetupKnows
<1>5. TodoIsMissing' BY <1>1 DEF TodoIsMissing
<1>6. NoneAdopted' BY <1>1, <1>2, AtRestIs DEF NoneAdopted, Still
<1>7. TrialIsLast' BY <1>1, AtRestIs, KeysApart DEF TrialIsLast
<1> QED BY <1>2, <1>3, <1>4, <1>5, <1>6, <1>7, StillKeeps

-----------------------------------------------------------------------------
(* The theorems                                                            *)

LEMMA ProvisionStarts == ProvisionInit => ProvisionInvariant
<1> SUFFICES ASSUME ProvisionInit PROVE ProvisionInvariant OBVIOUS
<1>1. ProvisionTypes
  <2>1. server \in [ServerIds -> Resource \union {Gone}] BY DEF ProvisionInit
  <2>2. lastId \in 1..MAX_IDS /\ owned \in Nat BY ProvisionConstants DEF ProvisionInit
  <2>3. file \in State /\ setup \in Process BY AtRestIs DEF ProvisionInit
  <2>4. /\ atLarge \subseteq Permissions /\ loose \in BOOLEAN /\ preview \in BOOLEAN
        /\ rights \subseteq Rights /\ ranked \in BOOLEAN
    BY DEF ProvisionInit, Permissions
  <2>5. made \subseteq ServerKeys \X ServerIds /\ untouched \subseteq ServerIds
    BY DEF ProvisionInit
  <2> QED BY <2>1, <2>2, <2>3, <2>4, <2>5 DEF ProvisionTypes
<1>2. SetupKnows /\ TodoIsMissing /\ BornShut /\ MadeOnce
  BY AtRestIs DEF ProvisionInit, SetupKnows, TodoIsMissing, BornShut, MadeOnce
<1>3. KindsStay BY DEF ProvisionInit, KindsStay
<1>4. NoneAdopted BY AtRestIs DEF ProvisionInit, NoneAdopted
<1>5. TrialIsLast BY AtRestIs, KeysApart DEF ProvisionInit, TrialIsLast
<1> QED BY <1>1, <1>2, <1>3, <1>4, <1>5 DEF ProvisionInvariant

LEMMA StepKeeps == ProvisionInvariant /\ [ProvisionNext]_serverVars => ProvisionInvariant'
<1> SUFFICES ASSUME ProvisionInvariant, [ProvisionNext]_serverVars PROVE ProvisionInvariant'
  OBVIOUS
<1>1. CASE SetupStep
  BY <1>1, ProvisionKeeps, CheckKeeps, SavesKeep, SetupDiesKeeps, MakeKeeps, BindKeeps,
     BindAuditKeeps DEF SetupStep
<1>2. CASE OwnerStep
  <2>1. CASE LoseFile BY <2>1, LoseFileKeeps
  <2>2. CASE Grant \/ SetPolicy BY <2>2, GrantIsEdit, EditsKeep
  <2>3. CASE Adds BY <2>3, AddsIsEdit, EditsKeep
  <2>4. CASE PrepareTrial BY <2>4, PrepareTrialIsEdit, EditsKeep
  <2>5. CASE \E i \in ServerIds : Delete(i) \/ Alters(i)
    BY <2>5, DeleteIsEdit, AltersIsEdit, EditsKeep
  <2> QED BY <1>2, <2>1, <2>2, <2>3, <2>4, <2>5 DEF OwnerStep
<1>3. CASE UNCHANGED serverVars
  <2>1. Still /\ setup' = setup /\ file' = file
    BY <1>3 DEF serverVars, policyVars, Still, Policies, ProvisionInvariant, ProvisionTypes
  <2>2. Edits BY <2>1, QuietIsEdit DEF Still
  <2> QED BY <2>2, EditsKeep
<1> QED BY <1>1, <1>2, <1>3 DEF ProvisionNext

(* What setup did, knows and will do agree with the server in every state. *)
THEOREM ProvisionInvariantHolds == ProvisionSpec => []ProvisionInvariant
<1>1. ProvisionInit => ProvisionInvariant BY ProvisionStarts
<1>2. ProvisionInvariant /\ [ProvisionNext]_serverVars => ProvisionInvariant' BY StepKeeps
<1> QED BY <1>1, <1>2, PTL DEF ProvisionSpec

(* For every layout, and whatever the owner does in between: an audit      *)
(* without findings means that each place is seen by its audience alone;   *)
(* what setup made and nobody touched is never open to others; setup makes *)
(* no second copy and adopts nothing (provision.py: audit, provision).     *)
THEOREM SetupIsPrivate == ProvisionSpec => []SetupInvariant
<1>1. ProvisionInvariant => SetupInvariant BY InvariantMeans
<1> QED BY <1>1, ProvisionInvariantHolds, PTL

(* No step of setup, nor a binding, renames what the state file names.     *)
LEMMA NamesStay ==
    ASSUME ProvisionInvariant, [ProvisionNext]_serverVars
    PROVE  [owned' = owned => \A k \in ServerKeys : file[k] # 0 => file'[k] = file[k]]_serverVars
<1> SUFFICES ASSUME owned' = owned, NEW k \in ServerKeys, file[k] # 0 PROVE file'[k] = file[k]
  OBVIOUS
<1>1. CASE file' = file BY <1>1
<1>2. CASE setup.step # "idle" /\ file' = setup.state
  BY <1>2 DEF ProvisionInvariant, SetupKnows
<1>3. file' = file \/ (setup.step # "idle" /\ file' = setup.state)
  <2>1. CASE SetupStep
    BY <2>1 DEF SetupStep, Provision, Check, FirstSave, Note, SetupDies, Make, Bind, BindAudit,
                BindSave, Record
  <2>2. CASE OwnerStep
    <3>1. ~LoseFile BY DEF LoseFile, Changes, ProvisionInvariant, ProvisionTypes
    <3> QED BY <2>2, <3>1
        DEF OwnerStep, OwnerQuiet, Grant, SetPolicy, Adds, PrepareTrial, Delete, Alters
  <2>3. CASE UNCHANGED serverVars BY <2>3 DEF serverVars
  <2> QED BY <2>1, <2>2, <2>3 DEF ProvisionNext
<1> QED BY <1>1, <1>2, <1>3

(* For good, whatever fails: the ids in the file are never replaced.       *)
THEOREM FileNamesStay == ProvisionSpec => FileNamesForGood
<1>1. ProvisionInvariant /\ [ProvisionNext]_serverVars
      => [owned' = owned => \A k \in ServerKeys : file[k] # 0 => file'[k] = file[k]]_serverVars
  BY NamesStay
<1> QED BY <1>1, ProvisionInvariantHolds, PTL DEF ProvisionSpec, FileNamesForGood

-----------------------------------------------------------------------------
(***************************************************************************)
(* The HTTP client, for every set of callers, endpoints, channels and      *)
(* buckets, every budget, pool size, delay and time bound: what is         *)
(* reserved is accounted for and given back, and no request starts before  *)
(* a deadline Discord answered.                                            *)
(***************************************************************************)

BusyCallers == {c \in Callers : Busy(c)}

-----------------------------------------------------------------------------
(* The callers under way                                                   *)

(* Callers are finitely many, so those under way can be counted.           *)
LEMMA BusyFinite == IsFiniteSet(BusyCallers) /\ Cardinality(BusyCallers) \in Nat
<1>1. BusyCallers \in SUBSET Callers BY DEF BusyCallers
<1> QED BY <1>1, FS_Subset, FS_CardinalityType, ClientConstants

(* A caller under way holds a resource of its own.                         *)
LEMMA InFlightCall ==
    ASSUME ClientInvariant, NEW c \in Callers, Busy(c)
    PROVE  at[c] \in inflight /\ at[c] \in Resources
BY DEF ClientInvariant, ClientTypes, OneRequestPerMajor

(* A caller that stays under way changes no account.                       *)
LEMMA StaysBusy ==
    ASSUME ClientInvariant, NEW c \in Callers, Busy(c),
           NEW step \in {"submitted", "answered", "limited", "refused"}, Goto(c, step),
           UNCHANGED <<at, inflight, idle, connections, closed>>
    PROVE  OneRequestPerMajor' /\ NoConnectionLeaks'
<1>1. \A d \in Callers : Busy(d)' <=> Busy(d)
  BY DEF Busy, Goto, ClientInvariant, ClientTypes
<1>2. {d \in Callers : Busy(d)}' = {d \in Callers : Busy(d)} BY <1>1
<1>3. OneRequestPerMajor' BY <1>1, <1>2 DEF OneRequestPerMajor, ClientInvariant
<1>4. NoConnectionLeaks' BY <1>2 DEF NoConnectionLeaks, ClientInvariant
<1> QED BY <1>3, <1>4

(* A resource that may start is apart from every one under way.            *)
LEMMA StartsApart ==
    ASSUME ClientInvariant, NEW r \in Resources, MayStart(r), NEW s \in inflight
    PROVE  r # s /\ (s[2] # NoMajor => s[2] # r[2]) /\ (r[2] # NoMajor => r[2] # s[2])
BY DEF MayStart, SameResource

-----------------------------------------------------------------------------
(* The accounts                                                            *)

(* A reservation adds one entry and takes one connection.                  *)
LEMMA ReserveStep ==
    ASSUME ClientInvariant, NEW c \in Callers, NEW r \in Resources, Reserve(c, r)
    PROVE  ClientInvariant'
<1> USE DEF ClientInvariant
<1>1. /\ pc' = [pc EXCEPT ![c] = "reserved"] /\ at' = [at EXCEPT ![c] = r]
      /\ ~Busy(c)
  BY DEF Reserve, Goto, Busy
<1>2. \A d \in Callers : Busy(d)' <=> Busy(d) \/ d = c
  BY <1>1 DEF Busy, ClientTypes
<1>3. \A d \in Callers : at'[d] = IF d = c THEN r ELSE at[d] BY <1>1 DEF ClientTypes
<1>4. ClientTypes'
  <2>1. idle' \in Nat /\ connections' \in Nat BY DEF Reserve, ClientTypes
  <2>2. started' \in [0..MAX_TIME -> Nat] BY DEF Reserve, ClientTypes
  <2> QED BY <1>1, <2>1, <2>2 DEF Reserve, ClientTypes, ghostVars
<1>5. OneRequestPerMajor'
  <2>1. inflight' = {at'[d] : d \in {e \in Callers : Busy(e)'}}
    <3>1. inflight' = inflight \union {r} BY DEF Reserve
    <3>2. {at'[d] : d \in {e \in Callers : Busy(e)'}}
            = {at[d] : d \in {e \in Callers : Busy(e)}} \union {r}
      BY <1>1, <1>2, <1>3
    <3> QED BY <3>1, <3>2 DEF OneRequestPerMajor
  <2>2. ASSUME NEW d \in Callers, NEW e \in Callers, d # e, Busy(d)', Busy(e)'
        PROVE  at'[d] # at'[e] /\ (at'[d][2] # NoMajor => at'[d][2] # at'[e][2])
    <3>1. MayStart(r) BY DEF Reserve
    <3>2. CASE d # c /\ e # c BY <1>2, <1>3, <2>2, <3>2 DEF OneRequestPerMajor
    <3>3. CASE d = c
      <4>1. Busy(e) /\ at'[e] = at[e] /\ at'[d] = r BY <1>2, <1>3, <2>2, <3>3
      <4> QED BY <3>1, <4>1, InFlightCall, StartsApart
    <3>4. CASE e = c
      <4>1. Busy(d) /\ at'[d] = at[d] /\ at'[e] = r BY <1>2, <1>3, <2>2, <3>4
      <4> QED BY <3>1, <4>1, InFlightCall, StartsApart
    <3> QED BY <3>2, <3>3, <3>4
  <2> QED BY <2>1, <2>2 DEF OneRequestPerMajor
<1>6. NoConnectionLeaks'
  <2>1. {d \in Callers : Busy(d)'} = BusyCallers \union {c} BY <1>2 DEF BusyCallers
  <2>2. Cardinality({d \in Callers : Busy(d)'}) = Cardinality(BusyCallers) + 1
    BY <1>1, <2>1, BusyFinite, FS_AddElement DEF BusyCallers
  <2>3. /\ connections = idle + Cardinality(BusyCallers)
        /\ connections <= MAX_CONNECTIONS /\ (closed => idle = 0)
    BY DEF NoConnectionLeaks, BusyCallers
  <2>4. /\ idle > 0 \/ connections < MAX_CONNECTIONS
        /\ idle' = IF idle > 0 THEN idle - 1 ELSE idle
        /\ connections' = IF idle > 0 THEN connections ELSE connections + 1
        /\ ~closed /\ closed' = closed
    BY DEF Reserve, MayStart
  <2>5. /\ connections' = idle' + (Cardinality(BusyCallers) + 1)
        /\ connections' <= MAX_CONNECTIONS
    BY <2>3, <2>4, BusyFinite, ClientConstants DEF ClientTypes
  <2> QED BY <2>2, <2>4, <2>5 DEF NoConnectionLeaks
<1> QED BY <1>4, <1>5, <1>6

(* The finally block gives back the entry and the connection.              *)
LEMMA ReleaseStep ==
    ASSUME ClientInvariant, NEW c \in Callers, Busy(c), NEW reusable \in BOOLEAN,
           Release(c, reusable)
    PROVE  ClientInvariant'
<1> USE DEF ClientInvariant
<1>1. /\ pc' = [pc EXCEPT ![c] = "idle"] /\ at' = [at EXCEPT ![c] = NoResource]
      /\ inflight' = inflight \ {at[c]} /\ pendingLimits' = pendingLimits \ {at[c]}
      /\ closed' = closed
  BY DEF Release, Goto, PendingCleared
<1>2. \A d \in Callers : Busy(d)' <=> Busy(d) /\ d # c BY <1>1 DEF Busy, ClientTypes
<1>3. \A d \in Callers : d # c => at'[d] = at[d] BY <1>1 DEF ClientTypes
<1>4. Cardinality({d \in Callers : Busy(d)'}) = Cardinality(BusyCallers) - 1
  <2>1. {d \in Callers : Busy(d)'} = BusyCallers \ {c} BY <1>2 DEF BusyCallers
  <2>2. c \in BusyCallers BY DEF BusyCallers
  <2> QED BY <2>1, <2>2, BusyFinite, FS_RemoveElement
<1>5. /\ connections = idle + Cardinality(BusyCallers)
      /\ connections <= MAX_CONNECTIONS /\ (closed => idle = 0)
      /\ Cardinality(BusyCallers) >= 1
  <2>1. c \in BusyCallers BY DEF BusyCallers
  <2>2. Cardinality(BusyCallers) # 0 BY <2>1, BusyFinite, FS_EmptySet
  <2> QED BY <2>2, BusyFinite DEF NoConnectionLeaks, BusyCallers
<1>6. /\ idle' \in Nat /\ connections' \in Nat
      /\ connections' = idle' + (Cardinality(BusyCallers) - 1)
      /\ connections' <= MAX_CONNECTIONS /\ (closed' => idle' = 0)
  BY <1>5, BusyFinite, ClientConstants DEF Release, Returned, ClientTypes
<1>7. ClientTypes' BY <1>1, <1>6 DEF Release, ClientTypes, ghostVars
<1>8. OneRequestPerMajor'
  <2>1. inflight' = {at'[d] : d \in {e \in Callers : Busy(e)'}}
    <3>1. {at'[d] : d \in {e \in Callers : Busy(e)'}}
            = {at[d] : d \in {e \in Callers : Busy(e) /\ e # c}}
      BY <1>2, <1>3
    <3>2. \A d \in Callers : Busy(d) /\ d # c => at[d] # at[c] BY DEF OneRequestPerMajor
    <3> QED BY <1>1, <3>1, <3>2 DEF OneRequestPerMajor
  <2> QED BY <1>2, <1>3, <2>1 DEF OneRequestPerMajor
<1>9. NoConnectionLeaks' BY <1>4, <1>6 DEF NoConnectionLeaks
<1> QED BY <1>7, <1>8, <1>9

(* The tables only ever hold times.                                        *)
LEMMA LimitKeyType ==
    ASSUME NEW buckets \in [Endpoints -> Buckets \union {NoBucket}], NEW r \in Resources
    PROVE  LimitKeyIn(buckets, r) \in LimitKeys /\ RouteKey(r) \in LimitKeys
<1>1. r[1] \in Endpoints /\ r[2] \in Majors \union {NoMajor} /\ r = <<r[1], r[2]>>
  BY ClientConstants
<1>2. RouteKey(r) \in LimitKeys BY <1>1 DEF LimitKeys
<1>3. buckets[r[1]] # NoBucket => BucketKey(buckets[r[1]], r[2]) \in LimitKeys BY <1>1 DEF LimitKeys
<1> QED BY <1>2, <1>3 DEF LimitKeyIn

(* What a caller learns from headers keeps every wait.                     *)
LEMMA LearnedType ==
    ASSUME ClientTypes, NEW buckets \in [Endpoints -> Buckets \union {NoBucket}],
           NEW r \in Resources
    PROVE  /\ Learned(buckets, r) \in [LimitKeys -> Nat]
           /\ \A k \in LimitKeys : Learned(buckets, r)[k] >= blocked[k]
<1>1. /\ LimitKeyIn(buckets, r) \in LimitKeys /\ LimitKey(r) \in LimitKeys
  BY LimitKeyType DEF LimitKey, ClientTypes
<1> QED BY <1>1 DEF Learned, Later, ClientTypes

(* A block is at least as long as before and as it was asked to be.        *)
LEMMA BlockType ==
    ASSUME NEW table \in [LimitKeys -> Nat], NEW r \in Resources, NEW key \in LimitKeys,
           NEW until \in Nat
    PROVE  /\ BlockRoute(table, r, key, until) \in [LimitKeys -> Nat]
           /\ \A k \in LimitKeys : BlockRoute(table, r, key, until)[k] >= table[k]
           /\ BlockRoute(table, r, key, until)[RouteKey(r)] >= until
<1>1. RouteKey(r) \in LimitKeys
  <2>1. r = <<r[1], r[2]>> /\ r \in Endpoints \X (Majors \union {NoMajor}) BY ClientConstants
  <2> QED BY <2>1 DEF LimitKeys
<1> QED BY <1>1 DEF BlockRoute, Later

-----------------------------------------------------------------------------
(* Headers and 429 bodies                                                  *)

(* Headers change tables and what is known, never the accounts.            *)
LEMMA HeadersStep ==
    ASSUME ClientInvariant, NEW c \in Callers, Headers(c)
    PROVE  ClientInvariant' /\ \A k \in LimitKeys : blocked'[k] >= blocked[k]
<1> USE DEF ClientInvariant
<1> DEFINE r == at[c]
<1>1. pc[c] = "submitted" /\ Busy(c) /\ r \in Resources /\ r \in inflight
  BY InFlightCall DEF Headers, Busy
<1>2. r[1] \in Endpoints BY <1>1, ClientConstants
<1>3. PICK b \in Buckets \union {bucketOf[r[1]]} :
        LET buckets == [bucketOf EXCEPT ![r[1]] = b]
            learned == Learned(buckets, r)
        IN  /\ bucketOf' = buckets
            /\ \/ /\ Goto(c, "answered")
                  /\ \/ blocked' = learned /\ UNCHANGED told
                     \/ \E wait \in Delays :
                          /\ blocked' = BlockRoute(learned, r, LimitKeyIn(buckets, r), now + wait)
                          /\ told' = [told EXCEPT ![r] = Later(@, now + wait)]
                  /\ UNCHANGED <<pendingLimits, verdict, toldGlobal>>
               \/ /\ Goto(c, "limited")
                  /\ blocked' = learned
                  /\ pendingLimits' = pendingLimits \union {r}
                  /\ \E v \in [global : BOOLEAN, delay : Delays] :
                       /\ verdict' = [verdict EXCEPT ![c] = v]
                       /\ IF v.global
                          THEN toldGlobal' = Later(toldGlobal, now + v.delay) /\ UNCHANGED told
                          ELSE told' = [told EXCEPT ![r] = Later(@, now + v.delay)]
                                /\ UNCHANGED toldGlobal
  BY DEF Headers
<1> DEFINE buckets == [bucketOf EXCEPT ![r[1]] = b]
           learned == Learned(buckets, r)
<1>4. buckets \in [Endpoints -> Buckets \union {NoBucket}] BY <1>2, <1>3 DEF ClientTypes
<1>5. learned \in [LimitKeys -> Nat] /\ \A k \in LimitKeys : learned[k] >= blocked[k]
  BY <1>1, <1>4, LearnedType
<1>6. LimitKeyIn(buckets, r) \in LimitKeys BY <1>1, <1>4, LimitKeyType
<1>7. Delays \subseteq Nat /\ now \in Nat BY ClientConstants DEF ClientTypes
<1> HIDE DEF buckets, learned
<1>8. blocked' \in [LimitKeys -> Nat] /\ \A k \in LimitKeys : blocked'[k] >= blocked[k]
  <2>1. CASE blocked' = learned BY <1>5, <2>1
  <2>2. ASSUME NEW wait \in Delays,
               blocked' = BlockRoute(learned, r, LimitKeyIn(buckets, r), now + wait)
        PROVE  blocked' \in [LimitKeys -> Nat] /\ \A k \in LimitKeys : blocked'[k] >= blocked[k]
    <3>1. now + wait \in Nat BY <1>7
    <3>2. blocked' \in [LimitKeys -> Nat] /\ \A k \in LimitKeys : blocked'[k] >= learned[k]
      BY <1>1, <1>5, <1>6, <2>2, <3>1, BlockType
    <3> QED BY <1>5, <3>2 DEF ClientTypes
  <2> QED BY <1>3, <2>1, <2>2 DEF buckets, learned
<1>9. told' \in [Resources -> Nat] /\ toldGlobal' \in Nat
  <2>1. told \in [Resources -> Nat] /\ toldGlobal \in Nat BY DEF ClientTypes
  <2>2. ASSUME NEW wait \in Delays
        PROVE  /\ [told EXCEPT ![r] = Later(@, now + wait)] \in [Resources -> Nat]
               /\ Later(toldGlobal, now + wait) \in Nat
    <3>1. wait \in Nat BY <1>7
    <3>2. now + wait \in Nat BY <1>7, <3>1
    <3> QED BY <2>1, <3>2 DEF Later
  <2>3. ASSUME NEW v \in [global : BOOLEAN, delay : Delays] PROVE v.delay \in Delays
    OBVIOUS
  <2> QED BY <1>3, <2>1, <2>2, <2>3
<1>10. verdict' \in [Callers -> Verdict]
  <2>1. [global : BOOLEAN, delay : Delays] \subseteq Verdict BY DEF Verdict
  <2> QED BY <1>3, <2>1 DEF ClientTypes
<1>11. pendingLimits' \subseteq inflight BY <1>1, <1>3 DEF ClientTypes
<1>12. \E step \in {"answered", "limited"} : Goto(c, step) BY <1>3
<1>13. UNCHANGED <<now, closed, idle, connections, inflight, started, globalUntil, at>>
  BY DEF Headers
<1>14. bucketOf' \in [Endpoints -> Buckets \union {NoBucket}] BY <1>3, <1>4 DEF buckets
<1>15. ClientTypes'
  <2>1. pc' \in [Callers -> {"idle", "reserved", "submitted", "answered", "limited", "refused"}]
    BY <1>12 DEF Goto, ClientTypes
  <2> QED BY <1>8, <1>9, <1>10, <1>11, <1>13, <1>14, <2>1 DEF ClientTypes
<1>16. OneRequestPerMajor' /\ NoConnectionLeaks' BY <1>1, <1>12, <1>13, StaysBusy
<1> QED BY <1>8, <1>15, <1>16

(* A 429 that is applied lengthens the waits of its scope.                 *)
LEMMA ApplyLimitStep ==
    ASSUME ClientInvariant, NEW c \in Callers, ApplyLimit(c)
    PROVE  /\ ClientInvariant'
           /\ at[c] \in Resources /\ Owes(c) \in Nat
           /\ \A k \in LimitKeys : blocked'[k] >= blocked[k]
           /\ globalUntil' >= globalUntil
           /\ verdict[c].global => globalUntil' >= Owes(c)
           /\ ~verdict[c].global => blocked'[RouteKey(at[c])] >= Owes(c)
<1> USE DEF ClientInvariant
<1>1. pc[c] = "limited" /\ Busy(c) /\ at[c] \in Resources
  BY InFlightCall DEF ApplyLimit, Busy
<1>2. Owes(c) \in Nat
  <2>1. verdict[c] \in Verdict BY DEF ClientTypes
  <2>2. \A d \in Delays \union {0} : d \in Nat BY ClientConstants
  <2>3. verdict[c].delay \in Delays \union {0} BY <2>1 DEF Verdict
  <2>4. verdict[c].delay \in Nat BY <2>2, <2>3
  <2> QED BY <2>4 DEF Owes, ClientTypes
<1>3. LimitKey(at[c]) \in LimitKeys BY <1>1, LimitKeyType DEF LimitKey, ClientTypes
<1>4. /\ blocked' \in [LimitKeys -> Nat] /\ globalUntil' \in Nat
      /\ \A k \in LimitKeys : blocked'[k] >= blocked[k]
      /\ globalUntil' >= globalUntil
      /\ verdict[c].global => globalUntil' >= Owes(c)
      /\ ~verdict[c].global => blocked'[RouteKey(at[c])] >= Owes(c)
  <2>1. CASE verdict[c].global
    BY <1>2, <2>1 DEF ApplyLimit, ClientTypes, Later, Owes
  <2>2. CASE ~verdict[c].global
    <3>1. blocked' = BlockRoute(blocked, at[c], LimitKey(at[c]), Owes(c))
          /\ UNCHANGED globalUntil
      BY <2>2 DEF ApplyLimit, Owes
    <3>2. blocked \in [LimitKeys -> Nat] BY DEF ClientTypes
    <3> QED BY <1>1, <1>2, <1>3, <2>2, <3>1, <3>2, BlockType DEF ClientTypes
  <2> QED BY <2>1, <2>2
<1>5. ClientTypes'
  <2>1. NoVerdict \in Verdict BY DEF NoVerdict, Verdict
  <2>2. verdict' \in [Callers -> Verdict] BY <2>1 DEF ApplyLimit, ClientTypes
  <2> QED BY <1>4, <2>2 DEF ApplyLimit, Goto, ClientTypes, ghostVars
<1>6. OneRequestPerMajor' /\ NoConnectionLeaks' BY <1>1, StaysBusy DEF ApplyLimit
<1> QED BY <1>1, <1>2, <1>4, <1>5, <1>6

-----------------------------------------------------------------------------
(* Theorems                                                                *)

(* An unused client.                                                       *)
LEMMA InitClient == ClientInit => ClientInvariant
<1> SUFFICES ASSUME ClientInit PROVE ClientInvariant OBVIOUS
<1>1. ClientTypes
  <2>1. NoVerdict \in Verdict BY DEF NoVerdict, Verdict
  <2>2. MAX_TIME \in Nat BY ClientConstants
  <2>3. now \in 0..MAX_TIME /\ started \in [0..MAX_TIME -> Nat] BY <2>2 DEF ClientInit
  <2>4. pc \in [Callers -> {"idle", "reserved", "submitted", "answered", "limited", "refused"}]
    BY DEF ClientInit
  <2>5. verdict \in [Callers -> Verdict] BY <2>1 DEF ClientInit
  <2>6. /\ blocked \in [LimitKeys -> Nat] /\ told \in [Resources -> Nat]
        /\ bucketOf \in [Endpoints -> Buckets \union {NoBucket}]
        /\ at \in [Callers -> Resources \union {NoResource}]
    BY DEF ClientInit
  <2> QED BY <2>3, <2>4, <2>5, <2>6 DEF ClientInit, ClientTypes
<1>2. BusyCallers = {} BY DEF ClientInit, BusyCallers, Busy
<1>3. OneRequestPerMajor BY <1>2 DEF ClientInit, OneRequestPerMajor, BusyCallers, Busy
<1>4. NoConnectionLeaks
  <2>1. {c \in Callers : Busy(c)} = {} BY <1>2 DEF BusyCallers
  <2>2. Cardinality({c \in Callers : Busy(c)}) = 0 BY <2>1, FS_EmptySet
  <2> QED BY <2>2, ClientConstants DEF ClientInit, NoConnectionLeaks
<1> QED BY <1>1, <1>3, <1>4 DEF ClientInvariant

(* Every step keeps the accounts.                                          *)
LEMMA ClientStep == ClientInvariant /\ [ClientNext]_requestVars => ClientInvariant'
<1> SUFFICES ASSUME ClientInvariant, [ClientNext]_requestVars PROVE ClientInvariant' OBVIOUS
<1> USE DEF ClientInvariant
<1>1. CASE UNCHANGED <<closed, idle, connections, inflight, pc, at>> /\ ClientTypes'
  <2>1. \A d \in Callers : Busy(d)' <=> Busy(d) BY <1>1 DEF Busy
  <2>2. {d \in Callers : Busy(d)}' = {d \in Callers : Busy(d)} BY <2>1
  <2>3. OneRequestPerMajor' BY <1>1, <2>1, <2>2 DEF OneRequestPerMajor
  <2>4. NoConnectionLeaks' BY <1>1, <2>2 DEF NoConnectionLeaks
  <2> QED BY <1>1, <2>3, <2>4
<1>2. CASE UNCHANGED requestVars
  BY <1>1, <1>2 DEF requestVars, clientVars, callerVars, ghostVars, ClientTypes
<1>3. CASE ClientTick
  BY <1>1, <1>3, ClientConstants DEF ClientTick, callerVars, ghostVars, ClientTypes
<1>4. CASE Close
  <2>1. connections - idle = Cardinality({c \in Callers : Busy(c)})
        /\ Cardinality({c \in Callers : Busy(c)}) \in Nat
    BY BusyFinite DEF NoConnectionLeaks, BusyCallers, ClientTypes
  <2>2. ClientTypes'
    BY <1>4, <2>1 DEF Close, callerVars, ghostVars, ClientTypes
  <2>3. {c \in Callers : Busy(c)}' = {c \in Callers : Busy(c)}
    BY <1>4 DEF Close, callerVars, Busy
  <2>4. OneRequestPerMajor'
    BY <1>4, <2>3 DEF Close, callerVars, OneRequestPerMajor, Busy
  <2>5. connections' <= connections BY <1>4 DEF Close, ClientTypes
  <2>6. NoConnectionLeaks'
    <3>1. connections' = Cardinality({c \in Callers : Busy(c)}) /\ idle' = 0
      BY <1>4, <2>1 DEF Close
    <3>2. connections \in Nat /\ connections' \in Nat /\ connections <= MAX_CONNECTIONS
      BY <2>2 DEF NoConnectionLeaks, ClientTypes
    <3>3. connections' <= MAX_CONNECTIONS BY <2>5, <3>2, ClientConstants
    <3>4. connections' = idle' + Cardinality({c \in Callers : Busy(c)}')
      <4>1. Cardinality({c \in Callers : Busy(c)}') = Cardinality({c \in Callers : Busy(c)})
        BY <2>3
      <4>2. connections' = idle' + connections' BY <3>1, <3>2
      <4> QED BY <4>1, <4>2, <3>1
    <3> QED BY <3>1, <3>3, <3>4 DEF NoConnectionLeaks
  <2> QED BY <2>2, <2>4, <2>6
<1>5. ASSUME NEW c \in Callers, RequestStep(c) PROVE ClientInvariant'
  <2>1. ASSUME NEW r \in Resources, Reserve(c, r) PROVE ClientInvariant'
    BY <2>1, ReserveStep
  <2>2. CASE Submit(c)
    <3>1. Busy(c) BY <2>2 DEF Submit, Busy
    <3>2. ClientTypes'
      BY <2>2 DEF Submit, Goto, clientVars, ghostVars, ClientTypes
    <3> QED BY <2>2, <3>1, <3>2, StaysBusy DEF Submit, clientVars
  <2>3. CASE Headers(c) BY <2>3, HeadersStep
  <2>4. CASE ApplyLimit(c) BY <2>4, ApplyLimitStep
  <2>5. CASE Succeed(c) BY <2>5, ReleaseStep DEF Succeed, Busy
  <2>6. CASE Fail(c) BY <2>6, ReleaseStep DEF Fail, Busy
  <2> QED BY <1>5, <2>1, <2>2, <2>3, <2>4, <2>5, <2>6 DEF RequestStep
<1> QED BY <1>2, <1>3, <1>4, <1>5 DEF ClientNext

(* Requests under way never share a channel or guild; each owns exactly    *)
(* one entry and one connection, whatever fails and whenever the client    *)
(* closes; nothing is idle after that (api.py, _wait_until and request).   *)
THEOREM ClientInvariantHolds == ClientSpec => []ClientInvariant
BY InitClient, ClientStep, PTL DEF ClientSpec

-----------------------------------------------------------------------------
(* Deadlines                                                               *)

(* The deadlines that were answered, and what is held for one of them.     *)
HeldFor(r) == \/ told[r] <= blocked[RouteKey(r)]
              \/ \E c \in Callers : /\ Limited(c) /\ at[c] = r /\ ~verdict[c].global
                                    /\ told[r] <= Owes(c)
HeldForAll == \/ toldGlobal <= globalUntil
              \/ \E c \in Callers : Limited(c) /\ verdict[c].global /\ toldGlobal <= Owes(c)

(* Every resource has its row in the table of waits.                       *)
LEMMA RouteKeyIn ==
    ASSUME ClientTypes, NEW r \in Resources
    PROVE  /\ RouteKey(r) \in LimitKeys /\ blocked[RouteKey(r)] \in Nat /\ told[r] \in Nat
BY LimitKeyType DEF ClientTypes

(* What a 429 asks for, or nothing, is a length of time.                   *)
LEMMA DelaysAreNat == \A d \in Delays \union {0} : d \in Nat
BY ClientConstants

(* What a limited caller owes is a time.                                   *)
LEMMA OwesType ==
    ASSUME ClientTypes, NEW c \in Callers
    PROVE  Owes(c) \in Nat /\ verdict[c].delay \in Nat /\ verdict[c].global \in BOOLEAN
<1>1. \A d \in Delays \union {0} : d \in Nat BY DelaysAreNat
<1>2. verdict[c] \in Verdict BY DEF ClientTypes
<1>3. verdict[c].delay \in Delays \union {0} /\ verdict[c].global \in BOOLEAN
  BY <1>2 DEF Verdict
<1> QED BY <1>1, <1>3 DEF Owes, ClientTypes

(* A step that shortens no wait and no clock, and leaves limited callers   *)
(* as they are, keeps what is held for the deadlines already answered.     *)
LEMMA StaysHeld ==
    ASSUME ClientTypes, ClientTypes', now' >= now,
           \A k \in LimitKeys : blocked'[k] >= blocked[k], globalUntil' >= globalUntil,
           \A c \in Callers : Limited(c) =>
              Limited(c)' /\ at'[c] = at[c] /\ verdict'[c] = verdict[c]
    PROVE  /\ \A r \in Resources : HeldFor(r) /\ told'[r] = told[r] => HeldFor(r)'
           /\ HeldForAll /\ toldGlobal' = toldGlobal => HeldForAll'
<1>1. ASSUME NEW c \in Callers, Limited(c) PROVE Owes(c)' >= Owes(c)
  <2>1. verdict'[c].delay = verdict[c].delay BY <1>1
  <2>2. now \in Nat /\ now' \in Nat /\ verdict[c].delay \in Nat
    BY OwesType DEF ClientTypes
  <2> QED BY <2>1, <2>2 DEF Owes
<1>2. \A c \in Callers : Owes(c) \in Nat /\ Owes(c)' \in Nat
  <2>1. ASSUME NEW c \in Callers PROVE Owes(c)' \in Nat
    <3>1. verdict'[c] \in Verdict BY DEF ClientTypes
    <3>3. verdict'[c].delay \in Delays \union {0} BY <3>1 DEF Verdict
    <3>4. verdict'[c].delay \in Nat BY <3>3, DelaysAreNat
    <3>5. now' \in 0..MAX_TIME BY DEF ClientTypes
    <3>6. now' \in Nat BY ONLY <3>5, ClientConstants
    <3> QED BY ONLY <3>4, <3>6 DEF Owes
  <2> QED BY <2>1, OwesType
<1>3. ASSUME NEW r \in Resources, HeldFor(r), told'[r] = told[r] PROVE HeldFor(r)'
  <2>1. /\ told[r] \in Nat /\ blocked[RouteKey(r)] \in Nat
        /\ blocked'[RouteKey(r)] \in Nat /\ blocked'[RouteKey(r)] >= blocked[RouteKey(r)]
    BY RouteKeyIn DEF ClientTypes
  <2>2. CASE told[r] <= blocked[RouteKey(r)]
    <3>1. told'[r] <= blocked'[RouteKey(r)] BY <1>3, <2>1, <2>2
    <3> QED BY <3>1 DEF HeldFor, RouteKey
  <2>3. ASSUME NEW c \in Callers, Limited(c), at[c] = r, ~verdict[c].global, told[r] <= Owes(c)
        PROVE  HeldFor(r)'
    <3>1. told'[r] <= Owes(c)' BY <1>1, <1>2, <1>3, <2>1, <2>3
    <3>2. Limited(c)' /\ at'[c] = r /\ ~verdict'[c].global BY <2>3
    <3> QED BY <3>1, <3>2 DEF HeldFor
  <2> QED BY <1>3, <2>2, <2>3 DEF HeldFor
<1>4. ASSUME HeldForAll, toldGlobal' = toldGlobal PROVE HeldForAll'
  <2>1. toldGlobal \in Nat /\ globalUntil \in Nat /\ globalUntil' \in Nat
    BY DEF ClientTypes
  <2>2. CASE toldGlobal <= globalUntil
    <3>1. toldGlobal' <= globalUntil' BY <1>4, <2>1, <2>2
    <3> QED BY <3>1 DEF HeldForAll
  <2>3. ASSUME NEW c \in Callers, Limited(c), verdict[c].global, toldGlobal <= Owes(c)
        PROVE  HeldForAll'
    <3>1. toldGlobal' <= Owes(c)' BY <1>1, <1>2, <1>4, <2>1, <2>3
    <3>2. Limited(c)' /\ verdict'[c].global BY <2>3
    <3> QED BY <3>1, <3>2 DEF HeldForAll
  <2> QED BY <1>4, <2>2, <2>3 DEF HeldForAll
<1> QED BY <1>3, <1>4

(* Such a step keeps the deadlines held.                                   *)
LEMMA QuietStep ==
    ASSUME ClientInvariant, ClientInvariant', DeadlinesAreHeld, now' >= now,
           \A k \in LimitKeys : blocked'[k] >= blocked[k], globalUntil' >= globalUntil,
           \A c \in Callers : /\ Limited(c)' <=> Limited(c)
                              /\ Limited(c) => at'[c] = at[c] /\ verdict'[c] = verdict[c]
                                               /\ at[c] \in pendingLimits',
           UNCHANGED <<told, toldGlobal>>
    PROVE  DeadlinesAreHeld'
<1>1. /\ \A r \in Resources : HeldFor(r) => HeldFor(r)'
      /\ HeldForAll => HeldForAll'
  <2>1. \A c \in Callers : Limited(c) =>
              Limited(c)' /\ at'[c] = at[c] /\ verdict'[c] = verdict[c]
    BY DEF Limited
  <2> QED BY <2>1, StaysHeld DEF ClientInvariant
<1>2. (\A r \in Resources : HeldFor(r)) /\ HeldForAll
  BY DEF DeadlinesAreHeld, HeldFor, HeldForAll
<1>3. (\A r \in Resources : HeldFor(r)') /\ HeldForAll' BY <1>1, <1>2
<1>4. \A c \in Callers : Limited(c)' => at'[c] \in pendingLimits' BY DEF Limited
<1> QED BY <1>3, <1>4 DEF DeadlinesAreHeld, HeldFor, HeldForAll

(* A deadline is held from the moment it is answered.                      *)
LEMMA HeadersHold ==
    ASSUME ClientInvariant, ClientInvariant', DeadlinesAreHeld, NEW c \in Callers, Headers(c)
    PROVE  DeadlinesAreHeld'
<1> USE DEF ClientInvariant
<1> DEFINE r == at[c]
<1>1. pc[c] = "submitted" /\ Busy(c) /\ r \in Resources
  BY InFlightCall DEF Headers, Busy
<1>2. \A k \in LimitKeys : blocked'[k] >= blocked[k] BY HeadersStep
<1>3. UNCHANGED <<now, globalUntil, at>> /\ now \in Nat BY DEF Headers, ClientTypes
<1>4. \A d \in Callers : d # c => /\ pc'[d] = pc[d] /\ verdict'[d] = verdict[d]
                                  /\ Limited(d)' <=> Limited(d)
  BY DEF Headers, Goto, ClientTypes, Limited
<1>5. ~Limited(c) BY <1>1 DEF Limited
<1>6. pendingLimits \subseteq pendingLimits' BY DEF Headers
<1>7. now' >= now /\ globalUntil' >= globalUntil BY <1>3 DEF ClientTypes
<1>8. /\ \A s \in Resources : HeldFor(s) /\ told'[s] = told[s] => HeldFor(s)'
      /\ HeldForAll /\ toldGlobal' = toldGlobal => HeldForAll'
  <2>1. \A d \in Callers : Limited(d) =>
              Limited(d)' /\ at'[d] = at[d] /\ verdict'[d] = verdict[d]
    BY <1>3, <1>4, <1>5
  <2> QED BY <1>2, <1>7, <2>1, StaysHeld
<1>9. (\A s \in Resources : HeldFor(s)) /\ HeldForAll
  BY DEF DeadlinesAreHeld, HeldFor, HeldForAll
<1>10. CASE UNCHANGED <<told, toldGlobal>> /\ ~Limited(c)'
  BY <1>2, <1>3, <1>4, <1>5, <1>6, <1>7, <1>10, QuietStep DEF DeadlinesAreHeld
<1>11. ASSUME NEW wait \in Nat, told' = [told EXCEPT ![r] = Later(@, now + wait)],
              blocked'[RouteKey(r)] >= now + wait, UNCHANGED toldGlobal, ~Limited(c)'
       PROVE  DeadlinesAreHeld'
  <2>1. told'[r] <= blocked'[RouteKey(r)] \/ told'[r] = told[r]
    BY <1>1, <1>11 DEF Later, ClientTypes
  <2>2. \A s \in Resources : s # r => told'[s] = told[s] BY <1>11 DEF ClientTypes
  <2>3. \A s \in Resources : HeldFor(s)'
    BY <1>1, <1>8, <1>9, <2>1, <2>2 DEF HeldFor, RouteKey
  <2>4. HeldForAll' BY <1>8, <1>9, <1>11
  <2>5. \A d \in Callers : Limited(d)' => at'[d] \in pendingLimits'
    BY <1>3, <1>4, <1>6, <1>11 DEF DeadlinesAreHeld, Limited
  <2> QED BY <2>3, <2>4, <2>5 DEF DeadlinesAreHeld, HeldFor, HeldForAll
<1>12. ASSUME Goto(c, "limited"), pendingLimits' = pendingLimits \union {r},
              NEW v \in [global : BOOLEAN, delay : Delays],
              verdict' = [verdict EXCEPT ![c] = v],
              IF v.global
              THEN toldGlobal' = Later(toldGlobal, now + v.delay) /\ UNCHANGED told
              ELSE told' = [told EXCEPT ![r] = Later(@, now + v.delay)] /\ UNCHANGED toldGlobal
       PROVE  DeadlinesAreHeld'
  <2>1. Limited(c)' /\ verdict'[c] = v /\ Owes(c)' = now + v.delay
    BY <1>3, <1>12 DEF Limited, Goto, ClientTypes, Owes
  <2>2. \A d \in Callers : Limited(d)' => at'[d] \in pendingLimits'
    BY <1>3, <1>4, <1>12 DEF DeadlinesAreHeld, Limited
  <2>3. \A d \in Delays : now + d \in Nat
    <3>1. Delays \subseteq Nat BY ClientConstants
    <3> QED BY <1>3, <3>1
  <2>4. CASE v.global
    <3>1. toldGlobal' = toldGlobal \/ toldGlobal' <= Owes(c)'
      BY <1>12, <2>1, <2>3, <2>4 DEF Later, ClientTypes
    <3>2. HeldForAll' BY <1>8, <1>9, <2>1, <2>4, <3>1 DEF HeldForAll
    <3>3. \A s \in Resources : HeldFor(s)' BY <1>8, <1>9, <1>12, <2>4
    <3> QED BY <2>2, <3>2, <3>3 DEF DeadlinesAreHeld, HeldFor, HeldForAll
  <2>5. CASE ~v.global
    <3>1. told'[r] = told[r] \/ told'[r] <= Owes(c)'
      BY <1>1, <1>12, <2>1, <2>3, <2>5 DEF Later, ClientTypes
    <3>2. \A s \in Resources : s # r => told'[s] = told[s]
      BY <1>12, <2>5 DEF ClientTypes
    <3>3. ASSUME NEW s \in Resources PROVE HeldFor(s)'
      <4>1. CASE told'[s] = told[s] BY <1>8, <1>9, <4>1
      <4>2. CASE told'[s] # told[s]
        <5>1. s = r /\ told'[s] <= Owes(c)' BY <3>1, <3>2, <4>2
        <5> QED BY <1>3, <2>1, <2>5, <5>1 DEF HeldFor
      <4> QED BY <4>1, <4>2
    <3>4. \A s \in Resources : HeldFor(s)' BY <3>3
    <3>5. HeldForAll' BY <1>8, <1>9, <1>12, <2>5
    <3> QED BY <2>2, <3>4, <3>5 DEF DeadlinesAreHeld, HeldFor, HeldForAll
  <2> QED BY <2>4, <2>5
<1>13. PICK b \in Buckets \union {bucketOf[r[1]]} :
        LET buckets == [bucketOf EXCEPT ![r[1]] = b]
            learned == Learned(buckets, r)
        IN  \/ /\ Goto(c, "answered")
               /\ \/ blocked' = learned /\ UNCHANGED told
                  \/ \E wait \in Delays :
                       /\ blocked' = BlockRoute(learned, r, LimitKeyIn(buckets, r), now + wait)
                       /\ told' = [told EXCEPT ![r] = Later(@, now + wait)]
               /\ UNCHANGED <<pendingLimits, verdict, toldGlobal>>
            \/ /\ Goto(c, "limited")
               /\ pendingLimits' = pendingLimits \union {r}
               /\ \E v \in [global : BOOLEAN, delay : Delays] :
                    /\ verdict' = [verdict EXCEPT ![c] = v]
                    /\ IF v.global
                       THEN toldGlobal' = Later(toldGlobal, now + v.delay) /\ UNCHANGED told
                       ELSE told' = [told EXCEPT ![r] = Later(@, now + v.delay)]
                             /\ UNCHANGED toldGlobal
  BY DEF Headers
<1> DEFINE buckets == [bucketOf EXCEPT ![r[1]] = b]
           learned == Learned(buckets, r)
<1>14. /\ learned \in [LimitKeys -> Nat] /\ LimitKeyIn(buckets, r) \in LimitKeys
  <2>1. r[1] \in Endpoints BY <1>1, ClientConstants
  <2>2. buckets \in [Endpoints -> Buckets \union {NoBucket}]
    BY <1>13, <2>1 DEF ClientTypes
  <2> QED BY <1>1, <2>2, LearnedType, LimitKeyType
<1> HIDE DEF buckets, learned
<1>15. Goto(c, "answered") => ~Limited(c)' BY DEF Goto, Limited, ClientTypes
<1>16. ASSUME NEW wait \in Delays, Goto(c, "answered"), UNCHANGED toldGlobal,
              blocked' = BlockRoute(learned, r, LimitKeyIn(buckets, r), now + wait),
              told' = [told EXCEPT ![r] = Later(@, now + wait)]
       PROVE  DeadlinesAreHeld'
  <2>1. wait \in Nat BY ClientConstants
  <2>2. now + wait \in Nat BY <1>3, <2>1
  <2>3. blocked'[RouteKey(r)] >= now + wait BY <1>1, <1>14, <1>16, <2>2, BlockType
  <2> QED BY <1>11, <1>15, <1>16, <2>1, <2>3
<1> QED BY <1>10, <1>12, <1>13, <1>15, <1>16 DEF buckets, learned

(* Nobody starts while an answered 429 is still to be applied.             *)
LEMMA ReserveHolds ==
    ASSUME ClientInvariant, DeadlinesAreHeld, NEW c \in Callers, NEW r \in Resources,
           Reserve(c, r)
    PROVE  /\ \A d \in Callers : ~Limited(d) /\ ~Limited(d)'
           /\ told[r] <= now /\ toldGlobal <= now
<1> USE DEF ClientInvariant
<1>1. pendingLimits = {} /\ CooledDown(r) BY DEF Reserve, MayStart, ScopeKnown
<1>2. \A d \in Callers : ~Limited(d) BY <1>1 DEF DeadlinesAreHeld
<1>3. \A d \in Callers : ~Limited(d)'
  BY <1>2 DEF Reserve, Goto, Limited, ClientTypes
<1>4. told[r] <= blocked[RouteKey(r)] /\ toldGlobal <= globalUntil
  BY <1>2 DEF DeadlinesAreHeld
<1>5. blocked[RouteKey(r)] <= now /\ globalUntil <= now BY <1>1 DEF CooledDown
<1>6. /\ told[r] \in Nat /\ blocked[RouteKey(r)] \in Nat
      /\ toldGlobal \in Nat /\ globalUntil \in Nat /\ now \in Nat
  BY RouteKeyIn, ClientConstants DEF ClientTypes
<1> QED BY <1>2, <1>3, <1>4, <1>5, <1>6

(* A 429 that has been applied is held by the tables.                      *)
LEMMA ApplyLimitHolds ==
    ASSUME ClientInvariant, ClientInvariant', DeadlinesAreHeld, NEW c \in Callers,
           ApplyLimit(c)
    PROVE  DeadlinesAreHeld'
<1> USE DEF ClientInvariant
<1>1. /\ at[c] \in Resources /\ Owes(c) \in Nat
      /\ \A k \in LimitKeys : blocked'[k] >= blocked[k]
      /\ globalUntil' >= globalUntil
      /\ verdict[c].global => globalUntil' >= Owes(c)
      /\ ~verdict[c].global => blocked'[RouteKey(at[c])] >= Owes(c)
  BY ApplyLimitStep
<1>2. UNCHANGED <<now, at, pendingLimits, told, toldGlobal>> /\ now \in Nat
  BY DEF ApplyLimit, ghostVars, ClientTypes
<1>3. \A d \in Callers : /\ d # c => verdict'[d] = verdict[d]
                         /\ Limited(d)' <=> Limited(d) /\ d # c
  BY DEF ApplyLimit, Goto, ClientTypes, Limited
<1>4. \A d \in Callers : d # c => Owes(d)' = Owes(d) BY <1>2, <1>3 DEF Owes
<1>5. \A d \in Callers : Limited(d)' => at'[d] \in pendingLimits'
  BY <1>2, <1>3 DEF DeadlinesAreHeld
<1>6. ASSUME NEW r \in Resources PROVE HeldFor(r)'
  <2>1. /\ told[r] \in Nat /\ blocked[RouteKey(r)] \in Nat /\ blocked'[RouteKey(r)] \in Nat
        /\ blocked'[RouteKey(r)] >= blocked[RouteKey(r)]
    BY <1>1, RouteKeyIn DEF ClientTypes
  <2>2. HeldFor(r) BY DEF DeadlinesAreHeld, HeldFor
  <2>3. CASE \/ told[r] <= blocked[RouteKey(r)]
             \/ at[c] = r /\ ~verdict[c].global /\ told[r] <= Owes(c)
    <3>1. told'[r] <= blocked'[RouteKey(r)] BY <1>1, <1>2, <2>1, <2>3
    <3> QED BY <3>1 DEF HeldFor, RouteKey
  <2>4. ASSUME NEW d \in Callers, d # c, Limited(d), at[d] = r, ~verdict[d].global,
               told[r] <= Owes(d)
        PROVE  HeldFor(r)'
    <3>1. told'[r] <= Owes(d)' /\ Limited(d)' /\ at'[d] = r /\ ~verdict'[d].global
      BY <1>2, <1>3, <1>4, <2>4
    <3> QED BY <3>1 DEF HeldFor
  <2> QED BY <2>2, <2>3, <2>4 DEF HeldFor
<1>7. HeldForAll'
  <2>1. toldGlobal \in Nat /\ globalUntil \in Nat /\ globalUntil' \in Nat
    BY DEF ClientTypes
  <2>2. HeldForAll BY DEF DeadlinesAreHeld, HeldForAll
  <2>3. CASE \/ toldGlobal <= globalUntil
             \/ verdict[c].global /\ toldGlobal <= Owes(c)
    <3>1. globalUntil' >= globalUntil /\ Owes(c) \in Nat
          /\ (verdict[c].global => globalUntil' >= Owes(c))
      BY <1>1
    <3>2. toldGlobal <= globalUntil' BY <2>1, <2>3, <3>1
    <3>3. toldGlobal' <= globalUntil' BY <1>2, <3>2
    <3> QED BY <3>3 DEF HeldForAll
  <2>4. ASSUME NEW d \in Callers, d # c, Limited(d), verdict[d].global, toldGlobal <= Owes(d)
        PROVE  HeldForAll'
    <3>1. toldGlobal' <= Owes(d)' /\ Limited(d)' /\ verdict'[d].global
      BY <1>2, <1>3, <1>4, <2>4
    <3> QED BY <3>1 DEF HeldForAll
  <2>5. CASE toldGlobal <= globalUntil BY <2>3, <2>5
  <2>6. CASE \E d \in Callers : Limited(d) /\ verdict[d].global /\ toldGlobal <= Owes(d)
    <3>1. PICK d \in Callers : Limited(d) /\ verdict[d].global /\ toldGlobal <= Owes(d)
      BY <2>6
    <3>2. CASE d = c BY <2>3, <3>1, <3>2
    <3>3. CASE d # c BY <2>4, <3>1, <3>3
    <3> QED BY <3>2, <3>3
  <2> QED BY <2>2, <2>5, <2>6 DEF HeldForAll
<1> QED BY <1>5, <1>6, <1>7 DEF DeadlinesAreHeld, HeldFor, HeldForAll

(* Every step keeps every deadline held.                                   *)
LEMMA DeadlineStep ==
    ASSUME ClientInvariant, ClientInvariant', DeadlinesAreHeld, [ClientNext]_requestVars
    PROVE  DeadlinesAreHeld'
<1> USE DEF ClientInvariant
<1>1. now \in Nat /\ globalUntil \in Nat /\ blocked \in [LimitKeys -> Nat] BY DEF ClientTypes
<1>3. CASE UNCHANGED requestVars
  BY <1>1, <1>3, QuietStep
     DEF requestVars, clientVars, callerVars, ghostVars, Limited, DeadlinesAreHeld
<1>4. CASE ClientTick
  BY <1>1, <1>4, QuietStep DEF ClientTick, callerVars, ghostVars, Limited, DeadlinesAreHeld
<1>5. CASE Close
  BY <1>1, <1>5, QuietStep DEF Close, callerVars, ghostVars, Limited, DeadlinesAreHeld
<1>6. ASSUME NEW c \in Callers, RequestStep(c) PROVE DeadlinesAreHeld'
  <2>1. ASSUME NEW r \in Resources, Reserve(c, r) PROVE DeadlinesAreHeld'
    <3>1. \A d \in Callers : ~Limited(d) /\ ~Limited(d)' BY <2>1, ReserveHolds
    <3>2. UNCHANGED <<now, blocked, globalUntil, told, toldGlobal>>
      BY <2>1 DEF Reserve, ghostVars
    <3> QED BY <1>1, <3>1, <3>2, QuietStep DEF Limited
  <2>2. CASE Submit(c)
    <3>1. \A d \in Callers : Limited(d)' <=> Limited(d)
      BY <2>2 DEF Submit, Goto, ClientTypes, Limited
    <3>2. \A d \in Callers : Limited(d) => at[d] \in pendingLimits BY DEF DeadlinesAreHeld
    <3>3. UNCHANGED <<now, blocked, globalUntil, at, verdict, pendingLimits, told, toldGlobal>>
      BY <2>2 DEF Submit, clientVars, ghostVars
    <3>4. now' >= now /\ globalUntil' >= globalUntil /\ \A k \in LimitKeys : blocked'[k] >= blocked[k]
      BY <1>1, <3>3
    <3> QED BY <3>1, <3>2, <3>3, <3>4, QuietStep DEF Limited
  <2>3. CASE Headers(c) BY <2>3, HeadersHold
  <2>4. CASE ApplyLimit(c) BY <2>4, ApplyLimitHolds
  <2>5. ASSUME NEW reusable \in BOOLEAN, Busy(c), ~Limited(c), Release(c, reusable)
        PROVE  DeadlinesAreHeld'
    <3>1. \A d \in Callers : Limited(d) => d # c /\ at[d] # at[c]
      BY <2>5 DEF OneRequestPerMajor, Limited, Busy
    <3>2. \A d \in Callers : /\ Limited(d)' <=> Limited(d)
                             /\ d # c => at'[d] = at[d]
      BY <2>5 DEF Release, Goto, ClientTypes, Limited
    <3>3. \A d \in Callers : Limited(d) => at[d] \in pendingLimits'
      BY <2>5, <3>1 DEF Release, PendingCleared, DeadlinesAreHeld
    <3> QED BY <1>1, <2>5, <3>1, <3>2, <3>3, QuietStep DEF Release, ghostVars
  <2>6. CASE Succeed(c) BY <2>5, <2>6 DEF Succeed, Busy, Limited
  <2>7. CASE Fail(c) BY <2>5, <2>7 DEF Fail, Busy, Limited
  <2> QED BY <1>6, <2>1, <2>2, <2>3, <2>4, <2>6, <2>7 DEF RequestStep
<1> QED BY <1>3, <1>4, <1>5, <1>6 DEF ClientNext

(* Every deadline that Discord answered is in the tables the gates look    *)
(* at, or holds every start back until it is (_note_headers, request).     *)
THEOREM DeadlinesHeld == ClientSpec => []DeadlinesAreHeld
<1>1. ClientInit => DeadlinesAreHeld
  <2> SUFFICES ASSUME ClientInit PROVE DeadlinesAreHeld OBVIOUS
  <2>1. ClientTypes BY InitClient DEF ClientInvariant
  <2>2. \A r \in Resources : told[r] <= blocked[RouteKey(r)]
    BY <2>1, RouteKeyIn DEF ClientInit
  <2> QED BY <2>2 DEF ClientInit, DeadlinesAreHeld, Limited
<1>2. ClientInvariant /\ ClientInvariant' /\ DeadlinesAreHeld /\ [ClientNext]_requestVars
        => DeadlinesAreHeld'
  BY DeadlineStep
<1> QED BY <1>1, <1>2, ClientInvariantHolds, PTL DEF ClientSpec

(* "A bucket change must not shorten an observed wait" (_block_route): no  *)
(* request starts on an endpoint and channel before every deadline that    *)
(* was answered for it or for the whole bot, whichever threads read their  *)
(* answers in between.                                                     *)
THEOREM NoEarlyStart == ClientSpec => CooldownsAreKept
<1> DEFINE Kept(c) == told[at'[c]] <= now /\ toldGlobal <= now
<1>1. ASSUME ClientInvariant, DeadlinesAreHeld, [ClientNext]_requestVars, NEW c \in Callers,
             pc[c] = "idle", pc'[c] = "reserved"
      PROVE  Kept(c)
  <2> USE DEF ClientInvariant
  <2>1. ~UNCHANGED pc BY <1>1
  <2>2. PICK d \in Callers : RequestStep(d)
    BY <1>1, <2>1 DEF ClientNext, requestVars, ClientTick, Close, callerVars
  <2>3. ASSUME NEW step, step # "reserved" PROVE ~Goto(d, step)
    BY <1>1, <2>3 DEF Goto, ClientTypes
  <2>4. ~Submit(d) /\ ~Headers(d) /\ ~ApplyLimit(d) /\ ~Succeed(d) /\ ~Fail(d)
    BY <2>3 DEF Submit, Headers, ApplyLimit, Succeed, Fail, Release
  <2>5. PICK r \in Resources : Reserve(d, r) BY <2>2, <2>4 DEF RequestStep
  <2>6. d = c /\ at'[c] = r BY <1>1, <2>5 DEF Reserve, Goto, ClientTypes
  <2> QED BY <1>1, <2>5, <2>6, ReserveHolds
<1>2. ClientInvariant /\ DeadlinesAreHeld /\ [ClientNext]_requestVars =>
        [\A c \in Callers : pc[c] = "idle" /\ pc'[c] = "reserved" => Kept(c)]_requestVars
  BY <1>1
<1> QED BY <1>2, ClientInvariantHolds, DeadlinesHeld, PTL DEF ClientSpec, CooldownsAreKept
=============================================================================
