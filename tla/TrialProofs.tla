------------------------------ MODULE TrialProofs ------------------------------
(***************************************************************************)
(* Machine-checked theorems about complimentary access (Trials.tla), for   *)
(* every number of members and commands and any deliveries, failures and   *)
(* changes: trials are earned, and the service works on rows that exist.   *)
(***************************************************************************)
EXTENDS Trials, TLAPS

-----------------------------------------------------------------------------
(* Bounds, members and rows                                                *)

LEMMA Bounds ==
    /\ WELCOME \in Nat /\ MAX_DURATION \in Nat /\ ATTEMPTS \in Nat /\ MAX_DELIVERIES \in Nat
    /\ MAX_FAULTS \in Nat /\ MAX_CHANGES \in Nat /\ MAX_TIME \in Nat
    /\ Payload \in [Interactions -> [op : Changes \union Offers, user : Users, amount : Nat]]
BY TrialConstants

(* No row and nothing read are neither a row nor a member.                 *)
LEMMA Nothing == NoGrant \notin Grant /\ Unread \notin Member
BY DEF NoGrant, Unread, Grant, Member

LEMMA FaultIs ==
    ASSUME TypeInvariant, Fault
    PROVE  faults' \in 0..MAX_FAULTS /\ UNCHANGED <<delivered, changes>>
BY Bounds DEF TypeInvariant, Fault

(* Who is seen is a member.                                                *)
LEMMA SeenIs == ASSUME TypeInvariant, NEW u \in Users PROVE Seen(u) \in Member
BY DEF TypeInvariant, Seen, Member

(* What a step leaves that only ends its work, and what it keeps of rows.  *)
Ends ==
    /\ user' \in Users \union {NoUser} /\ view' = [u \in Users |-> Unread]
    /\ pc' \in {Idle, "next"} /\ (pc' = "next" => phase \in {"reconcile", "owners", "members"} /\ phase' = phase)
    /\ phase' \in {Idle, phase} /\ todo' \in {todo, {}}
    /\ want' \in BOOLEAN /\ attempt' \in 0..(ATTEMPTS + 1) /\ safe' \in BOOLEAN /\ command' = {}

LEMMA DoneEnds ==
    ASSUME TrialInvariant, Done, pc # Idle
    PROVE  Ends
<1> USE DEF TrialInvariant
<1>1. /\ user' = NoUser /\ view' = [u \in Users |-> Unread] /\ want' = FALSE /\ attempt' = 0 /\ command' = {}
      /\ todo' = todo /\ safe' = safe
  BY DEF Done, Forget
<1>2. phase \in {"command", "reconcile", "owners", "members"} BY DEF WorkIsFor, TypeInvariant
<1>3. phase' \in {Idle, phase} /\ pc' \in {Idle, "next"} /\ (pc' = "next" => phase \in {"reconcile", "owners", "members"})
      /\ (pc' = Idle => phase' = Idle) /\ (pc' = "next" => phase' = phase)
  BY <1>2 DEF Done, Idle
<1>4. 0 \in 0..(ATTEMPTS + 1) /\ safe \in BOOLEAN BY Bounds DEF TypeInvariant
<1> QED BY <1>1, <1>3, <1>4 DEF Ends

LEMMA ReleaseEnds == ASSUME Release PROVE Ends
<1>1. 0 \in 0..(ATTEMPTS + 1) BY Bounds
<1> QED BY <1>1 DEF Release, Forget, Ends, Idle

(* Rows stay, and the members and the offer as they are.                   *)
Frame ==
    /\ grants' \in [Users -> Grant \union {NoGrant}]
    /\ \A u \in Users : grants[u] # NoGrant => grants'[u] # NoGrant
    /\ UNCHANGED <<now, seen, applied, offer, inServer, joined, paid, newcomer>>
    /\ role' \in [Users -> BOOLEAN] /\ watch' \in [Users -> BOOLEAN]
    /\ delivered' \in [Interactions -> 0..MAX_DELIVERIES]
    /\ faults' \in 0..MAX_FAULTS /\ changes' \in 0..MAX_CHANGES

LEMMA EndKeeps ==
    ASSUME TrialInvariant, Ends, Frame
    PROVE  TrialInvariant'
<1> USE DEF TrialInvariant, Ends, Frame
<1>1. TypeInvariant'
  <2>1. view' \in [Users -> Member \union {Unread}] OBVIOUS
  <2> QED BY <2>1 DEF TypeInvariant, Idle
<1>2. WorkIsFor' BY DEF WorkIsFor, Syncing, Idle
<1>3. RowsStay'
  <2>1. \A i \in applied : Payload[i].user \in Users BY Bounds DEF TypeInvariant
  <2>2. \A u \in todo' : u \in Users /\ u \in todo BY DEF TypeInvariant
  <2>3. phase' \in {"reconcile", "members"} => phase' = phase BY DEF Idle
  <2> QED BY <2>1, <2>2, <2>3 DEF RowsStay, Idle
<1>4. OfferIsOpen' BY DEF OfferIsOpen
<1> QED BY <1>1, <1>2, <1>3, <1>4

(* The holder's work goes on for the same member.                          *)
LEMMA WorkKeeps ==
    ASSUME TrialInvariant, Frame, UNCHANGED <<phase, todo, user, safe, command>>,
           pc # Idle, pc' \in {"sync", "decide", "safety", "write", "reread", "confirm", "cleanup", "purge"},
           want' \in BOOLEAN, attempt' \in 0..(ATTEMPTS + 1),
           user \in Users, pc' \notin {"cleanup", "purge"} => grants'[user] # NoGrant,
           pc' \in {"safety", "write", "reread"} => attempt' <= ATTEMPTS,
           view' = view \/ (inServer[user] /\ Read)
    PROVE  TrialInvariant'
<1> USE DEF TrialInvariant, Frame
<1>1. view' \in [Users -> Member \union {Unread}]
      /\ \A u \in Users : view'[u] = view[u] \/ (inServer[u] /\ view'[u] = Seen(u))
  BY SeenIs DEF Read, TypeInvariant
<1>2. TypeInvariant' BY <1>1 DEF TypeInvariant
<1>3. WorkIsFor' BY DEF WorkIsFor, Syncing, Idle
<1>4. RowsStay'
  <2>1. \A i \in applied : Payload[i].user \in Users BY Bounds DEF TypeInvariant
  <2>2. \A u \in todo' : u \in Users /\ u \in todo BY DEF TypeInvariant
  <2> QED BY <2>1, <2>2 DEF RowsStay
<1>5. OfferIsOpen' BY <1>1 DEF OfferIsOpen, Seen
<1> QED BY <1>2, <1>3, <1>4, <1>5

-----------------------------------------------------------------------------
(* Every step keeps the invariant                                          *)

LEMMA InitKeeps == Init => TrialInvariant
<1> SUFFICES ASSUME Init PROVE TrialInvariant OBVIOUS
<1>1. now \in 0..MAX_TIME /\ delivered \in [Interactions -> 0..MAX_DELIVERIES]
      /\ faults \in 0..MAX_FAULTS /\ changes \in 0..MAX_CHANGES
  BY TrialConstants DEF Init
<1>2. TypeInvariant
  <2>1. grants \in [Users -> Grant \union {NoGrant}] /\ view \in [Users -> Member \union {Unread}]
        /\ offer \in [on : BOOLEAN, since : Nat] /\ attempt \in 0..(ATTEMPTS + 1)
    BY Bounds DEF Init
  <2>2. joined \in [Users -> Nat] /\ paid \in [Users -> BOOLEAN] /\ role \in [Users -> BOOLEAN]
        /\ watch \in [Users -> BOOLEAN] /\ newcomer \in [Users -> BOOLEAN] /\ inServer \in [Users -> BOOLEAN]
    BY DEF Init
  <2> QED BY <1>1, <2>1, <2>2 DEF Init, TypeInvariant, Idle
<1>3. WorkIsFor BY DEF Init, WorkIsFor, Syncing, Idle
<1>4. RowsStay /\ OfferIsOpen BY DEF Init, RowsStay, OfferIsOpen, Idle
<1> QED BY <1>2, <1>3, <1>4 DEF TrialInvariant

(* Where the ledger's rows stay, and the holder's program counter is the   *)
(* only program's.                                                         *)
LEMMA FrameStays ==
    ASSUME TrialInvariant, UNCHANGED <<now, ledger, inServer, joined, paid, newcomer>>,
           UNCHANGED spent \/ Fault,
           role' \in [Users -> BOOLEAN], watch' \in [Users -> BOOLEAN]
    PROVE  Frame
BY FaultIs DEF Frame, ledger, spent, TrialInvariant, TypeInvariant

LEMMA DeliverIs ==
    ASSUME TypeInvariant, NEW i \in Interactions, Deliver(i)
    PROVE  /\ pc = Idle /\ UNCHANGED <<faults, changes>>
           /\ delivered' \in [Interactions -> 0..MAX_DELIVERIES]
<1>1. delivered[i] + 1 \in 0..MAX_DELIVERIES BY Bounds DEF Deliver, TypeInvariant
<1> QED BY <1>1 DEF Deliver, TypeInvariant

LEMMA AdmitKeeps ==
    ASSUME TrialInvariant, NEW i \in Interactions, Admit(i)
    PROVE  TrialInvariant'
<1> USE DEF TrialInvariant
<1>1. /\ Payload[i].op \in Changes /\ Payload[i].user \in Users /\ pc = Idle
      /\ pc' = "admitted" /\ phase' = "command" /\ command' = {i} /\ user' = Payload[i].user
      /\ UNCHANGED <<now, grants, seen, applied, offer, inServer, joined, paid, role, newcomer, watch, todo, view,
                     want, attempt, safe, faults, changes>>
      /\ delivered' \in [Interactions -> 0..MAX_DELIVERIES]
  BY Bounds, DeliverIs DEF Admit, ledger, discord
<1>2. TypeInvariant' BY <1>1 DEF TypeInvariant
<1>3. WorkIsFor' BY <1>1 DEF WorkIsFor, Syncing, Idle
<1>4. RowsStay' BY <1>1 DEF RowsStay
<1>5. OfferIsOpen' BY <1>1 DEF OfferIsOpen
<1> QED BY <1>2, <1>3, <1>4, <1>5

(* The row an accepted command leaves is a row.                            *)
LEMMA GrantedIs ==
    ASSUME TypeInvariant, NEW i \in Interactions, Payload[i].op \in Changes,
           NEW g \in Grant \union {NoGrant}, Accepts(Payload[i], g)
    PROVE  Granted(Payload[i], g) \in Grant
<1>1. Payload[i].amount \in Nat /\ now \in Nat BY Bounds DEF TypeInvariant
<1>2. CASE Payload[i].op \in {"grant", "until"} BY <1>1, <1>2 DEF Granted, Owner, Grant
<1>3. CASE Payload[i].op \in {"extend", "revoke"}
  <2>1. g \in Grant BY <1>3 DEF Accepts
  <2>2. Later(g.expires, now) + Payload[i].amount \in Nat BY <1>1, <2>1 DEF Later, Grant
  <2> QED BY <1>3, <2>1, <2>2 DEF Granted, Grant
<1> QED BY <1>2, <1>3 DEF Changes

LEMMA ChangeKeeps ==
    ASSUME TrialInvariant, Change
    PROVE  TrialInvariant'
<1> USE DEF TrialInvariant
<1>1. /\ pc = "admitted" /\ user \in Users /\ command \subseteq Interactions
      /\ UNCHANGED <<now, seen, offer, inServer, joined, paid, role, newcomer, watch, delivered, faults, changes>>
  BY DEF Change, discord, spent, WorkIsFor, TypeInvariant
<1>a. CASE Done /\ UNCHANGED <<grants, applied>>
  <2>1. Ends BY <1>1, <1>a, DoneEnds DEF Idle
  <2>2. Frame BY <1>1, <1>a DEF Frame, TypeInvariant
  <2> QED BY <2>1, <2>2, EndKeeps
<1>b. ASSUME NEW i \in command, Legal(Payload[i]), Fresh(i) => Accepts(Payload[i], grants[user]),
             grants' = (IF Fresh(i) THEN [grants EXCEPT ![user] = Granted(Payload[i], @)] ELSE grants),
             applied' = applied \union {i}, pc' = "sync", UNCHANGED locals
      PROVE  TrialInvariant'
  <2>1. i \in Interactions /\ Payload[i].op \in Changes /\ Payload[i].user = user
    BY <1>1 DEF RowsStay
  <2>2. /\ grants' \in [Users -> Grant \union {NoGrant}] /\ grants'[user] # NoGrant
        /\ \A u \in Users : grants[u] # NoGrant => grants'[u] # NoGrant
    <3>1. CASE Fresh(i)
      <4>1. Granted(Payload[i], grants[user]) \in Grant BY <1>1, <1>b, <2>1, <3>1, GrantedIs DEF TypeInvariant
      <4> QED BY <1>1, <1>b, <3>1, <4>1, Nothing DEF TypeInvariant
    <3>2. CASE ~Fresh(i)
      <4>1. i \in applied BY <3>2 DEF Fresh
      <4> QED BY <1>b, <2>1, <3>2, <4>1 DEF RowsStay, TypeInvariant
    <3> QED BY <3>1, <3>2
  <2>3. UNCHANGED <<phase, todo, user, view, want, attempt, safe, command>> BY <1>b DEF locals
  <2>4. TypeInvariant' BY <1>1, <1>b, <2>1, <2>2, <2>3 DEF TypeInvariant
  <2>5. WorkIsFor' BY <1>1, <1>b, <2>2, <2>3 DEF WorkIsFor, Syncing, Idle
  <2>6. RowsStay'
    <3>1. \A j \in applied : Payload[j].user \in Users BY Bounds DEF TypeInvariant
    <3>2. todo \subseteq Users BY DEF TypeInvariant
    <3> QED BY <1>1, <1>b, <2>1, <2>2, <2>3, <3>1, <3>2 DEF RowsStay
  <2>7. OfferIsOpen' BY <1>1, <2>3 DEF OfferIsOpen
  <2> QED BY <2>4, <2>5, <2>6, <2>7
<1> QED BY <1>a, <1>b DEF Change

LEMMA ConfigureKeeps ==
    ASSUME TrialInvariant, NEW i \in Interactions, Configure(i)
    PROVE  TrialInvariant'
<1> USE DEF TrialInvariant
<1>1. /\ Payload[i].op \in Offers /\ pc = Idle /\ applied' = applied \union {i}
      /\ UNCHANGED <<now, grants, seen, inServer, joined, paid, role, newcomer, watch, pc, phase, todo, user, view,
                     want, attempt, safe, command, faults, changes>>
      /\ delivered' \in [Interactions -> 0..MAX_DELIVERIES]
      /\ \A u \in Users : inServer[u] => joined[u] < now
  BY DeliverIs DEF Configure, discord, locals
<1>2. /\ offer' \in [on : BOOLEAN, since : Nat]
      /\ offer'.on => (offer.on /\ offer'.since = offer.since) \/ offer'.since = now
  <2>1. offer' = offer \/ offer' = [on |-> TRUE, since |-> IF offer.on THEN offer.since ELSE now]
        \/ offer' = [on |-> FALSE, since |-> offer.since]
    BY DEF Configure, Configured
  <2>2. now \in Nat /\ offer.since \in Nat BY Bounds DEF TypeInvariant
  <2>3. CASE offer' = offer BY <2>3 DEF TypeInvariant
  <2>4. CASE offer' = [on |-> TRUE, since |-> IF offer.on THEN offer.since ELSE now] BY <2>2, <2>4
  <2>5. CASE offer' = [on |-> FALSE, since |-> offer.since] BY <2>2, <2>5
  <2> QED BY <2>1, <2>3, <2>4, <2>5
<1>3. TypeInvariant' BY <1>1, <1>2 DEF TypeInvariant
<1>4. WorkIsFor' BY <1>1 DEF WorkIsFor, Syncing
<1>5. RowsStay'
  <2>1. Payload[i].op \notin Changes BY <1>1 DEF Changes, Offers
  <2> QED BY <1>1, <2>1 DEF RowsStay
<1>6. OfferIsOpen'
  <2>1. \A u \in Users : view[u] = Unread BY <1>1 DEF WorkIsFor
  <2>2. \A u \in Users : inServer[u] => ~(joined[u] >= now) BY <1>1, Bounds DEF TypeInvariant
  <2> QED BY <1>1, <1>2, <2>1, <2>2 DEF OfferIsOpen
<1> QED BY <1>3, <1>4, <1>5, <1>6

(* A row is only marked.                                                   *)
LEMMA MarkIs ==
    ASSUME TrialInvariant, user \in Users, grants[user] # NoGrant, NEW m \in {"unknown", "on", "off"},
           grants' = [grants EXCEPT ![user].synced = m]
    PROVE  /\ grants' \in [Users -> Grant \union {NoGrant}]
           /\ \A u \in Users : grants[u] # NoGrant => grants'[u] # NoGrant
           /\ \A u \in Users : u # user => grants'[u] = grants[u]
           /\ grants'[user] = [expires |-> grants[user].expires, revoked |-> grants[user].revoked,
                               source |-> grants[user].source, synced |-> m]
<1> USE DEF TrialInvariant
<1>1. grants[user] \in Grant BY DEF TypeInvariant
<1>2. grants'[user] = [expires |-> grants[user].expires, revoked |-> grants[user].revoked,
                       source |-> grants[user].source, synced |-> m]
  BY <1>1 DEF TypeInvariant, Grant
<1>3. grants'[user] \in Grant BY <1>1, <1>2 DEF Grant
<1>4. \A u \in Users : u # user => grants'[u] = grants[u] BY DEF TypeInvariant
<1>5. grants' \in [Users -> Grant \union {NoGrant}] BY <1>3, <1>4 DEF TypeInvariant
<1> QED BY <1>2, <1>3, <1>4, <1>5, Nothing

LEMMA SyncReadKeeps ==
    ASSUME TrialInvariant, SyncRead
    PROVE  TrialInvariant'
<1> USE DEF TrialInvariant, rest, discord
<1>1. /\ pc = "sync" /\ user \in Users /\ grants[user] # NoGrant
      /\ UNCHANGED <<now, seen, applied, offer, watch, inServer, joined, paid, role, newcomer>>
  BY DEF SyncRead, WorkIsFor, Syncing
<1>a. CASE Fault /\ Done /\ UNCHANGED grants
  <2>1. Ends BY <1>1, <1>a, DoneEnds DEF Idle
  <2>2. Frame BY <1>1, <1>a, FrameStays DEF ledger, TypeInvariant
  <2> QED BY <2>1, <2>2, EndKeeps
<1>b. CASE /\ inServer[user] /\ Read /\ attempt' = 1 /\ pc' = "decide"
           /\ UNCHANGED <<grants, phase, todo, user, want, safe, command, spent>>
  <2>1. Frame BY <1>1, <1>b, FrameStays DEF ledger, TypeInvariant
  <2>2. attempt' \in 0..(ATTEMPTS + 1) /\ want' \in BOOLEAN BY <1>b, Bounds DEF TypeInvariant
  <2> QED BY <1>1, <1>b, <2>1, <2>2, WorkKeeps DEF Idle
<1>c. CASE grants' = [grants EXCEPT ![user].synced = "off"] /\ pc' = "purge" /\ UNCHANGED <<locals, spent>>
  <2>1. Frame BY <1>1, <1>c, MarkIs DEF Frame, spent, TypeInvariant
  <2>2. attempt' \in 0..(ATTEMPTS + 1) /\ want' \in BOOLEAN BY <1>c DEF locals, TypeInvariant
  <2> QED BY <1>1, <1>c, <2>1, <2>2, WorkKeeps DEF Idle, locals
<1> QED BY <1>a, <1>b, <1>c DEF SyncRead

LEMMA DecideKeeps ==
    ASSUME TrialInvariant, Decide
    PROVE  TrialInvariant'
<1> USE DEF TrialInvariant, rest, discord
<1>1. /\ pc = "decide" /\ user \in Users /\ grants[user] # NoGrant
      /\ UNCHANGED <<now, grants, seen, applied, offer, watch, inServer, joined, paid, role, newcomer,
                     phase, todo, user, view, attempt, safe, command, spent>>
  BY DEF Decide, WorkIsFor, Syncing
<1>2. Frame BY <1>1, FrameStays DEF ledger, TypeInvariant
<1>3. attempt' \in 0..(ATTEMPTS + 1) /\ want' \in BOOLEAN BY <1>1 DEF Decide, TypeInvariant
<1>4. pc' \in {"confirm", "safety", "write"} /\ (pc' # "confirm" => attempt <= ATTEMPTS)
  BY <1>1, Bounds DEF Decide, Decision, TypeInvariant
<1> QED BY <1>1, <1>2, <1>3, <1>4, WorkKeeps DEF Idle

LEMMA SafetyKeeps ==
    ASSUME TrialInvariant, Safety
    PROVE  TrialInvariant'
<1> USE DEF TrialInvariant, rest, discord
<1>1. /\ pc = "safety" /\ user \in Users /\ grants[user] # NoGrant /\ attempt <= ATTEMPTS
      /\ UNCHANGED <<now, grants, seen, applied, offer, watch, inServer, joined, paid, role, newcomer>>
  BY DEF Safety, WorkIsFor, Syncing
<1>2. Frame
  <2>1. UNCHANGED spent \/ Fault BY DEF Safety
  <2> QED BY <1>1, <2>1, FrameStays DEF ledger, TypeInvariant
<1>a. CASE Done BY <1>1, <1>2, <1>a, DoneEnds, EndKeeps DEF Idle
<1>b. CASE /\ IF Active(user) THEN pc' = "write" /\ want' = TRUE /\ UNCHANGED attempt
              ELSE pc' = "decide" /\ attempt' = attempt + 1 /\ UNCHANGED want
           /\ UNCHANGED <<phase, todo, user, view, safe, command, spent>>
  <2>1. attempt' \in {attempt, attempt + 1} /\ (pc' = "write" => attempt' = attempt) /\ pc' \in {"write", "decide"}
    BY <1>b
  <2>2. want' \in BOOLEAN BY <1>b DEF TypeInvariant
  <2>3. attempt' \in 0..(ATTEMPTS + 1) /\ (pc' = "write" => attempt' <= ATTEMPTS)
    BY <1>1, <2>1, Bounds DEF TypeInvariant
  <2> QED BY <1>1, <1>2, <1>b, <2>1, <2>2, <2>3, WorkKeeps DEF Idle
<1> QED BY <1>a, <1>b DEF Safety

LEMMA WriteKeeps ==
    ASSUME TrialInvariant, Write
    PROVE  TrialInvariant'
<1> USE DEF TrialInvariant, rest
<1>1. /\ pc = "write" /\ user \in Users /\ grants[user] # NoGrant /\ attempt <= ATTEMPTS
      /\ UNCHANGED <<now, grants, seen, applied, offer, watch, inServer, joined, paid, newcomer>>
  BY DEF Write, WorkIsFor, Syncing
<1>2. role' \in [Users -> BOOLEAN] BY DEF Write, TypeInvariant
<1>3. Frame
  <2>1. UNCHANGED spent \/ Fault BY DEF Write
  <2> QED BY <1>1, <1>2, <2>1, FrameStays DEF ledger, TypeInvariant
<1>a. CASE Done BY <1>1, <1>3, <1>a, DoneEnds, EndKeeps DEF Idle
<1>b. CASE pc' = "reread" /\ UNCHANGED <<locals, spent>>
  <2>1. attempt' \in 0..(ATTEMPTS + 1) /\ want' \in BOOLEAN BY <1>b DEF locals, TypeInvariant
  <2> QED BY <1>1, <1>3, <1>b, <2>1, WorkKeeps DEF Idle, locals
<1> QED BY <1>a, <1>b DEF Write

LEMMA RereadKeeps ==
    ASSUME TrialInvariant, Reread
    PROVE  TrialInvariant'
<1> USE DEF TrialInvariant, rest, discord
<1>1. /\ pc = "reread" /\ user \in Users /\ grants[user] # NoGrant /\ attempt <= ATTEMPTS
      /\ UNCHANGED <<now, grants, seen, applied, offer, watch, inServer, joined, paid, role, newcomer>>
  BY DEF Reread, WorkIsFor, Syncing
<1>2. Frame
  <2>1. UNCHANGED spent \/ Fault BY DEF Reread
  <2> QED BY <1>1, <2>1, FrameStays DEF ledger, TypeInvariant
<1>a. CASE Done BY <1>1, <1>2, <1>a, DoneEnds, EndKeeps DEF Idle
<1>b. CASE /\ inServer[user] /\ Read /\ attempt' = attempt + 1 /\ pc' = "decide"
           /\ UNCHANGED <<phase, todo, user, want, safe, command, spent>>
  <2>1. attempt' \in 0..(ATTEMPTS + 1) /\ want' \in BOOLEAN BY <1>1, <1>b, Bounds DEF TypeInvariant
  <2> QED BY <1>1, <1>2, <1>b, <2>1, WorkKeeps DEF Idle
<1> QED BY <1>a, <1>b DEF Reread

LEMMA ConfirmKeeps ==
    ASSUME TrialInvariant, Confirm
    PROVE  TrialInvariant'
<1> USE DEF TrialInvariant, rest, discord
<1>1. /\ pc = "confirm" /\ user \in Users /\ grants[user] # NoGrant
      /\ UNCHANGED <<now, seen, applied, offer, watch, inServer, joined, paid, role, newcomer, spent>>
      /\ \E m \in {"on", "off"} : grants' = [grants EXCEPT ![user].synced = m]
  BY DEF Confirm, Observed, WorkIsFor, Syncing
<1>2. Frame BY <1>1, MarkIs DEF Frame, spent, TypeInvariant
<1>a. CASE Done BY <1>1, <1>2, <1>a, DoneEnds, EndKeeps DEF Idle
<1>b. CASE pc' = "cleanup" /\ UNCHANGED locals
  <2>1. attempt' \in 0..(ATTEMPTS + 1) /\ want' \in BOOLEAN BY <1>b DEF locals, TypeInvariant
  <2> QED BY <1>1, <1>2, <1>b, <2>1, WorkKeeps DEF Idle, locals
<1> QED BY <1>a, <1>b DEF Confirm

LEMMA CleanupKeeps ==
    ASSUME TrialInvariant, Cleanup \/ Purge
    PROVE  TrialInvariant'
<1> USE DEF TrialInvariant, rest, discord, ledger
<1>1. /\ pc \in {"cleanup", "purge"} /\ user \in Users
      /\ UNCHANGED <<now, grants, seen, applied, offer, inServer, joined, paid, role, newcomer, spent>>
      /\ watch' \in [Users -> BOOLEAN]
  BY DEF Cleanup, Purge, WorkIsFor, TypeInvariant
<1>2. Frame BY <1>1, FrameStays DEF TypeInvariant
<1>a. CASE Done BY <1>1, <1>2, <1>a, DoneEnds, EndKeeps DEF Idle
<1>b. CASE pc' = "purge" /\ UNCHANGED locals
  <2>1. attempt' \in 0..(ATTEMPTS + 1) /\ want' \in BOOLEAN BY <1>b DEF locals, TypeInvariant
  <2> QED BY <1>1, <1>2, <1>b, <2>1, WorkKeeps DEF Idle, locals
<1> QED BY <1>a, <1>b DEF Cleanup, Purge

(* A crash, or the end of a step.                                          *)
LEMMA ReleaseKeeps ==
    ASSUME TrialInvariant, Release, UNCHANGED <<now, ledger, discord, watch>>, UNCHANGED spent \/ Fault
    PROVE  TrialInvariant'
<1>1. Frame BY FrameStays DEF discord, TrialInvariant, TypeInvariant
<1> QED BY <1>1, ReleaseEnds, EndKeeps

(* A step that begins or takes up its next work, on rows that exist.       *)
LEMMA BeginsKeeps ==
    ASSUME TrialInvariant, UNCHANGED <<now, ledger, discord, watch>>, UNCHANGED spent \/ Fault,
           UNCHANGED <<view, want, attempt, command>>, safe' \in BOOLEAN, user' \in Users \union {NoUser},
           phase' \in {"reconcile", "owners", "members"}, pc' \in {"next", "sync", "owner", "scan"},
           todo' \subseteq Users,
           phase' \in {"reconcile", "members"} => \A u \in todo' : grants[u] # NoGrant,
           pc' \in {"sync", "owner"} => user' \in Users, pc' = "sync" => grants[user'] # NoGrant
    PROVE  TrialInvariant'
<1> USE DEF TrialInvariant, ledger, discord
<1>1. delivered' \in [Interactions -> 0..MAX_DELIVERIES] /\ faults' \in 0..MAX_FAULTS /\ changes' \in 0..MAX_CHANGES
  BY FaultIs DEF spent, TypeInvariant
<1>2. TypeInvariant' BY <1>1 DEF TypeInvariant
<1>3. WorkIsFor' BY DEF WorkIsFor, Syncing, Idle
<1>4. RowsStay' BY DEF RowsStay
<1>5. OfferIsOpen' BY DEF OfferIsOpen
<1> QED BY <1>2, <1>3, <1>4, <1>5

LEMMA StartStepKeeps ==
    ASSUME TrialInvariant, StartStep
    PROVE  TrialInvariant'
<1>1. UNCHANGED spent \/ Fault BY DEF StartStep
<1>2. todo' = {u \in Users : Pending(u)} /\ \A u \in todo' : grants[u] # NoGrant BY DEF StartStep, Pending
<1>3. user \in Users \union {NoUser} /\ safe' \in BOOLEAN BY DEF StartStep, TrialInvariant, TypeInvariant
<1> QED BY <1>1, <1>2, <1>3, BeginsKeeps DEF StartStep

LEMMA NextUserKeeps ==
    ASSUME TrialInvariant, NextUser
    PROVE  TrialInvariant'
<1> USE DEF TrialInvariant
<1>1. phase \in {"reconcile", "owners", "members"} BY DEF NextUser, WorkIsFor, TypeInvariant, Idle
<1>2. PICK u \in todo : user' = u /\ todo' = todo \ {u} BY DEF NextUser
<1>3. u \in Users /\ todo' \subseteq Users BY <1>2 DEF TypeInvariant
<1>4. phase # "owners" => grants[u] # NoGrant /\ \A v \in todo' : grants[v] # NoGrant
  BY <1>1, <1>2 DEF RowsStay
<1>5. safe' \in BOOLEAN BY DEF NextUser, TypeInvariant
<1> QED BY <1>1, <1>2, <1>3, <1>4, <1>5, BeginsKeeps DEF NextUser

LEMMA NextPhaseKeeps ==
    ASSUME TrialInvariant, NextPhase
    PROVE  TrialInvariant'
<1> USE DEF TrialInvariant
<1>1. UNCHANGED <<now, ledger, discord, watch, spent>> /\ pc = "next" /\ todo = {} BY DEF NextPhase
<1>2. user \in Users \union {NoUser} /\ safe \in BOOLEAN BY DEF TypeInvariant
<1>a. CASE phase' = "owners" /\ todo' = Owners /\ UNCHANGED <<pc, user, view, want, attempt, safe, command>>
  BY <1>1, <1>2, <1>a, BeginsKeeps DEF Owners
<1>b. CASE phase' = "members" /\ pc' = "scan" /\ UNCHANGED <<todo, user, view, want, attempt, safe, command>>
  BY <1>1, <1>2, <1>b, BeginsKeeps
<1>c. CASE Release BY <1>1, <1>c, ReleaseKeeps
<1> QED BY <1>a, <1>b, <1>c DEF NextPhase

LEMMA OwnerReadKeeps ==
    ASSUME TrialInvariant, OwnerRead
    PROVE  TrialInvariant'
<1> USE DEF TrialInvariant, discord
<1>1. pc = "owner" /\ user \in Users /\ UNCHANGED <<now, ledger, discord, watch>>
  BY DEF OwnerRead, WorkIsFor
<1>2. Frame
  <2>1. UNCHANGED spent \/ Fault BY DEF OwnerRead
  <2> QED BY <1>1, <2>1, FrameStays DEF TypeInvariant
<1>3. attempt \in 0..(ATTEMPTS + 1) /\ want \in BOOLEAN BY DEF TypeInvariant
<1>a. CASE Done BY <1>1, <1>2, <1>a, DoneEnds, EndKeeps DEF Idle
<1>b. CASE inServer[user] /\ Read /\ pc' = "cleanup" /\ UNCHANGED <<phase, todo, user, want, attempt, safe, command, spent>>
  BY <1>1, <1>2, <1>3, <1>b, WorkKeeps DEF Idle
<1>c. CASE pc' = "purge" /\ UNCHANGED <<locals, spent>>
  BY <1>1, <1>2, <1>3, <1>c, WorkKeeps DEF Idle, locals
<1> QED BY <1>a, <1>b, <1>c DEF OwnerRead

LEMMA ScanKeeps ==
    ASSUME TrialInvariant, Scan
    PROVE  TrialInvariant'
<1> USE DEF TrialInvariant, ledger, discord, spent
<1>1. pc = "scan" /\ UNCHANGED <<now, ledger, discord, watch>> BY DEF Scan
<1>a. CASE Fault /\ Release BY <1>1, <1>a, ReleaseKeeps
<1>b. CASE /\ view' = [u \in Users |-> IF inServer[u] THEN Seen(u) ELSE Unread] /\ pc' = "page"
           /\ UNCHANGED <<phase, todo, user, want, attempt, safe, command, spent>>
  <2>1. view' \in [Users -> Member \union {Unread}]
        /\ \A u \in Users : view'[u] = Unread \/ (inServer[u] /\ view'[u].joined = joined[u])
    <3>1. \A u \in Users : Seen(u) \in Member /\ Seen(u).joined = joined[u] BY SeenIs DEF Seen
    <3> QED BY <1>b, <3>1
  <2>2. TypeInvariant' BY <1>1, <1>b, <2>1 DEF TypeInvariant
  <2>3. WorkIsFor' BY <1>1, <1>b DEF WorkIsFor, Syncing, Idle
  <2>4. RowsStay' BY <1>1, <1>b DEF RowsStay
  <2>5. OfferIsOpen' BY <1>1, <1>b, <2>1 DEF OfferIsOpen
  <2> QED BY <2>2, <2>3, <2>4, <2>5
<1> QED BY <1>a, <1>b DEF Scan

(* What a page of members does to a row.                                   *)
LEMMA ObserveIs ==
    ASSUME TrialInvariant, Observe, NEW u \in Users
    PROVE  /\ grants'[u] \in Grant \union {NoGrant}
           /\ grants[u] # NoGrant =>
                 /\ grants'[u] \in Grant
                 /\ grants'[u].expires = grants[u].expires /\ grants'[u].revoked = grants[u].revoked
                 /\ grants'[u].source = grants[u].source
                 /\ grants'[u] # grants[u] => grants'[u].synced # "unknown"
           /\ u \in Removals \union Welcomed => grants'[u] # NoGrant
           /\ grants'[u] # grants[u] /\ grants'[u] # NoGrant /\ grants'[u].synced = "unknown" =>
                 u \in Welcomed
<1> USE DEF TrialInvariant
<1> DEFINE w == WithWelcome[u]
<1>1. now \in Nat /\ WELCOME \in Nat /\ grants[u] \in Grant \union {NoGrant} /\ view[u] \in Member \union {Unread}
  BY Bounds DEF TypeInvariant
<1>2. u \in Welcomed => view[u] \in Member /\ grants[u] = NoGrant
  BY <1>1 DEF Welcomed, Noted, Listed
<1>3. u \in Welcomed => w = [expires |-> view[u].joined + WELCOME, revoked |-> FALSE,
                             source |-> "welcome", synced |-> "unknown"]
  BY DEF WithWelcome
<1>4. u \notin Welcomed => w = grants[u] BY DEF WithWelcome
<1> HIDE DEF w
<1>5. ASSUME u \in Welcomed PROVE w \in Grant /\ w # NoGrant
  <2>1. view[u].joined + WELCOME \in Nat BY <1>1, <1>2, <1>5 DEF Member
  <2>2. \E n \in Nat : w = [expires |-> n, revoked |-> FALSE, source |-> "welcome", synced |-> "unknown"]
    BY <1>3, <1>5, <2>1
  <2>3. w \in Grant BY <2>2 DEF Grant
  <2> QED BY <2>3, Nothing
<1>6. w \in Grant \union {NoGrant} BY <1>1, <1>4, <1>5
<1>7. grants'[u] = IF u \in Removals /\ w = NoGrant
                   THEN [expires |-> now, revoked |-> TRUE, source |-> "orphan", synced |-> "on"]
                   ELSE IF u \in Removals THEN [w EXCEPT !.synced = "on"]
                   ELSE IF u \in Restore THEN [w EXCEPT !.synced = "off"] ELSE w
  BY DEF Observe, w
<1>8. CASE u \in Removals /\ w = NoGrant
  <2>1. u \notin Welcomed /\ grants[u] = NoGrant BY <1>4, <1>5, <1>8
  <2>2. grants'[u] \in Grant /\ grants'[u].synced = "on" BY <1>1, <1>7, <1>8 DEF Grant
  <2> QED BY <2>1, <2>2, Nothing
<1>9. ASSUME w \in Grant, NEW m \in {"on", "off"}, grants'[u] = [w EXCEPT !.synced = m]
      PROVE  /\ grants'[u] \in Grant /\ grants'[u] # NoGrant /\ grants'[u].synced # "unknown"
             /\ grants[u] # NoGrant =>
                   /\ grants'[u].expires = grants[u].expires /\ grants'[u].revoked = grants[u].revoked
                   /\ grants'[u].source = grants[u].source
  <2>1. grants'[u] = [expires |-> w.expires, revoked |-> w.revoked, source |-> w.source, synced |-> m]
    BY <1>9 DEF Grant
  <2>2. grants'[u] \in Grant BY <1>9, <2>1 DEF Grant
  <2>3. grants[u] # NoGrant => w = grants[u] BY <1>2, <1>4
  <2> QED BY <2>1, <2>2, <2>3, Nothing
<1>10. CASE u \in Removals /\ w # NoGrant BY <1>6, <1>7, <1>9, <1>10
<1>11. CASE u \notin Removals /\ u \in Restore
  <2>1. grants[u] # NoGrant /\ w = grants[u] BY <1>2, <1>4, <1>11 DEF Restore, Active
  <2>2. w \in Grant /\ grants'[u] = [w EXCEPT !.synced = "off"] BY <1>1, <1>7, <1>11, <2>1
  <2> QED BY <1>9, <2>2
<1>12. CASE u \notin Removals /\ u \notin Restore
  <2>1. grants'[u] = w BY <1>7, <1>12
  <2> QED BY <1>1, <1>2, <1>4, <1>5, <1>6, <1>12, <2>1
<1> QED BY <1>8, <1>10, <1>11, <1>12

LEMMA ObserveKeeps ==
    ASSUME TrialInvariant, Observe
    PROVE  TrialInvariant'
<1> USE DEF TrialInvariant, discord, spent
<1>1. /\ pc = "page" /\ pc' = "next" /\ view' = [u \in Users |-> Unread] /\ todo' = Removals \union Welcomed
      /\ UNCHANGED <<now, applied, offer, discord, watch, phase, user, want, attempt, safe, command, spent>>
      /\ seen' = seen \union Noted
  BY DEF Observe
<1>2. grants' \in [Users -> Grant \union {NoGrant}] BY ObserveIs DEF Observe
<1>3. \A u \in Users : (grants[u] # NoGrant \/ u \in todo') => grants'[u] # NoGrant BY <1>1, ObserveIs, Nothing
<1>4. todo' \subseteq Users /\ seen' \subseteq Users
  BY <1>1 DEF Removals, Welcomed, Noted, Listed, TypeInvariant
<1>5. TypeInvariant' BY <1>1, <1>2, <1>4 DEF TypeInvariant
<1>6. WorkIsFor' BY <1>1 DEF WorkIsFor, Syncing, Idle
<1>7. RowsStay'
  <2>1. \A i \in applied : Payload[i].user \in Users BY Bounds DEF TypeInvariant
  <2> QED BY <1>1, <1>3, <1>4, <2>1 DEF RowsStay
<1>8. OfferIsOpen' BY <1>1 DEF OfferIsOpen
<1> QED BY <1>5, <1>6, <1>7, <1>8

(* Time passes; members come, pay, ask and go.                             *)
LEMMA TickKeeps ==
    ASSUME TrialInvariant, Tick
    PROVE  TrialInvariant'
<1> USE DEF TrialInvariant, ledger, discord, locals, spent
<1>1. now' \in 0..MAX_TIME BY Bounds DEF Tick, TypeInvariant
<1>2. TypeInvariant' BY <1>1 DEF Tick, TypeInvariant
<1>3. WorkIsFor' /\ RowsStay' /\ OfferIsOpen' BY DEF Tick, WorkIsFor, Syncing, RowsStay, OfferIsOpen
<1> QED BY <1>2, <1>3

LEMMA MembersKeep ==
    ASSUME TrialInvariant, NEW u \in Users, AddWatch(u) \/ Enter(u) \/ Leave(u) \/ Subscribe(u) \/ EditRole(u)
    PROVE  TrialInvariant'
<1> USE DEF TrialInvariant
<1>1. /\ UNCHANGED <<now, grants, seen, applied, offer, pc, phase, todo, user, view, want, attempt, safe, command,
                     delivered, faults>>
  BY DEF AddWatch, Enter, Leave, Subscribe, EditRole, Elsewhere, ledger, locals, spent
<1>2. changes' \in 0..MAX_CHANGES
  <2>1. changes' = changes \/ (changes < MAX_CHANGES /\ changes' = changes + 1)
    BY DEF AddWatch, Enter, Leave, Subscribe, EditRole, Elsewhere, spent
  <2> QED BY <2>1, Bounds DEF TypeInvariant
<1>3. /\ inServer' \in [Users -> BOOLEAN] /\ joined' \in [Users -> Nat] /\ paid' \in [Users -> BOOLEAN]
      /\ role' \in [Users -> BOOLEAN] /\ watch' \in [Users -> BOOLEAN] /\ newcomer' \in [Users -> BOOLEAN]
  <2>1. now \in Nat /\ offer.on \in BOOLEAN BY Bounds DEF TypeInvariant
  <2>2. CASE AddWatch(u) BY <2>2 DEF AddWatch, discord, TypeInvariant
  <2>3. CASE Enter(u) BY <2>1, <2>3 DEF Enter, Elsewhere, TypeInvariant
  <2>4. CASE Leave(u) \/ Subscribe(u) \/ EditRole(u)
    BY <2>4 DEF Leave, Subscribe, EditRole, Elsewhere, TypeInvariant
  <2> QED BY <2>2, <2>3, <2>4
<1>4. TypeInvariant' BY <1>1, <1>2, <1>3 DEF TypeInvariant
<1>5. WorkIsFor' /\ RowsStay' BY <1>1 DEF WorkIsFor, Syncing, RowsStay
<1>6. OfferIsOpen'
  <2>1. CASE AddWatch(u) \/ Leave(u) \/ Subscribe(u) \/ EditRole(u)
    <3>1. /\ joined' = joined /\ newcomer' = newcomer
          /\ \A v \in Users : inServer'[v] => inServer[v]
      BY <2>1 DEF AddWatch, Leave, Subscribe, EditRole, discord, TypeInvariant
    <3> QED BY <1>1, <3>1 DEF OfferIsOpen
  <2>2. CASE Enter(u)
    <3>1. \A v \in Users : IF v = u THEN newcomer'[v] = offer.on
                           ELSE /\ newcomer'[v] = newcomer[v] /\ joined'[v] = joined[v] /\ inServer'[v] = inServer[v]
      BY <2>2 DEF Enter, TypeInvariant
    <3> QED BY <1>1, <3>1 DEF OfferIsOpen
  <2> QED BY <2>1, <2>2
<1> QED BY <1>4, <1>5, <1>6

LEMMA NextKeeps ==
    ASSUME TrialInvariant, [Next]_vars
    PROVE  TrialInvariant'
<1>1. CASE ServiceStep
  BY <1>1, StartStepKeeps, NextUserKeeps, NextPhaseKeeps, ChangeKeeps, SyncReadKeeps, DecideKeeps, SafetyKeeps,
     WriteKeeps, RereadKeeps, ConfirmKeeps, CleanupKeeps, OwnerReadKeeps, ScanKeeps, ObserveKeeps DEF ServiceStep
<1>2. CASE Tick \/ Crash BY <1>2, TickKeeps, ReleaseKeeps DEF Crash
<1>3. CASE \E i \in Interactions : Admit(i) \/ Configure(i) BY <1>3, AdmitKeeps, ConfigureKeeps
<1>4. CASE \E u \in Users : AddWatch(u) \/ Enter(u) \/ Leave(u) \/ Subscribe(u) \/ EditRole(u) BY <1>4, MembersKeep
<1>5. CASE UNCHANGED vars
  BY <1>5 DEF vars, ledger, discord, locals, spent, TrialInvariant, TypeInvariant, WorkIsFor, Syncing, RowsStay,
     OfferIsOpen
<1> QED BY <1>1, <1>2, <1>3, <1>4, <1>5 DEF Next

-----------------------------------------------------------------------------
(* Theorems                                                                *)

(* In every reachable state the holder of the lock works for a member with *)
(* a row, accepted commands left rows, roles are tried ATTEMPTS times, and *)
(* who joined since the offer stands joined while it was open.             *)
THEOREM TrialInvariantHolds == Spec => []TrialInvariant
BY InitKeeps, NextKeeps, PTL DEF Spec

(* What the ledger, the members and the holder of the lock are.            *)
THEOREM TrialTypes == Spec => []TypeInvariant
BY TrialInvariantHolds, PTL DEF TrialInvariant

(* What a step may do to a row.                                            *)
Earned(u) ==
    /\ /\ grants'[u] # grants[u] /\ grants'[u] # NoGrant
       /\ grants'[u].source = "welcome" /\ grants'[u].synced = "unknown"
       /\ applied' = applied
       => newcomer[u] /\ u \notin seen /\ grants[u] = NoGrant
    /\ /\ grants[u] # NoGrant
       /\ \/ grants'[u].expires > grants[u].expires
          \/ grants[u].revoked /\ ~grants'[u].revoked
       => applied' # applied

(* A row that stays, or is only marked, is earned.                         *)
LEMMA StaysEarned ==
    ASSUME TypeInvariant, NEW u \in Users, grants'[u] = grants[u]
    PROVE  Earned(u)
BY DEF Earned, TypeInvariant, Grant

LEMMA MarkEarned ==
    ASSUME TrialInvariant, NEW u \in Users, user \in Users, grants[user] # NoGrant, NEW m \in {"on", "off"},
           grants' = [grants EXCEPT ![user].synced = m]
    PROVE  Earned(u)
<1>1. CASE u # user BY <1>1, MarkIs, StaysEarned DEF TrialInvariant
<1>2. CASE u = user
  <2>1. grants'[u] = [expires |-> grants[u].expires, revoked |-> grants[u].revoked,
                      source |-> grants[u].source, synced |-> m] /\ grants[u] \in Grant
    BY <1>2, MarkIs DEF TrialInvariant, TypeInvariant
  <2> QED BY <2>1 DEF Earned, Grant
<1> QED BY <1>1, <1>2

(* A command that changes a row is one not applied before.                 *)
LEMMA ChangeEarned ==
    ASSUME TrialInvariant, Change, NEW u \in Users
    PROVE  Earned(u)
<1>1. CASE grants' = grants BY <1>1, StaysEarned DEF TrialInvariant
<1>2. CASE grants' # grants
  <2>1. PICK i \in command : Fresh(i) /\ applied' = applied \union {i} BY <1>2 DEF Change
  <2>2. applied' # applied BY <2>1 DEF Fresh
  <2> QED BY <2>2 DEF Earned
<1> QED BY <1>1, <1>2

(* A welcome goes to a member not seen before, who joined during the offer.*)
LEMMA ObserveEarned ==
    ASSUME TrialInvariant, Observe, NEW u \in Users
    PROVE  Earned(u)
<1>1. /\ grants'[u] \in Grant \union {NoGrant}
      /\ grants[u] # NoGrant => grants'[u].expires = grants[u].expires /\ grants'[u].revoked = grants[u].revoked
      /\ grants'[u] # grants[u] /\ grants'[u] # NoGrant /\ grants'[u].synced = "unknown" => u \in Welcomed
  BY ObserveIs
<1>2. grants[u] \in Grant \union {NoGrant} BY DEF TrialInvariant, TypeInvariant
<1>3. u \in Welcomed => newcomer[u] /\ u \notin seen /\ grants[u] = NoGrant
  BY DEF TrialInvariant, OfferIsOpen, Welcomed, Noted, Listed, NewJoin
<1>4. grants[u] # NoGrant => ~(grants'[u].expires > grants[u].expires) /\ ~(grants[u].revoked /\ ~grants'[u].revoked)
  BY <1>1, <1>2 DEF Grant
<1> QED BY <1>1, <1>3, <1>4 DEF Earned

LEMMA NextEarned ==
    ASSUME TrialInvariant, [Next]_vars, NEW u \in Users
    PROVE  Earned(u)
<1> USE DEF TrialInvariant
<1>1. CASE Change BY <1>1, ChangeEarned
<1>2. CASE Observe BY <1>2, ObserveEarned
<1>3. CASE SyncRead
  <2>1. user \in Users /\ grants[user] # NoGrant BY <1>3 DEF SyncRead, WorkIsFor, Syncing
  <2>2. grants' = grants \/ grants' = [grants EXCEPT ![user].synced = "off"] BY <1>3 DEF SyncRead
  <2> QED BY <2>1, <2>2, StaysEarned, MarkEarned
<1>4. CASE Confirm
  <2>1. user \in Users /\ grants[user] # NoGrant BY <1>4 DEF Confirm, WorkIsFor, Syncing
  <2>2. \E m \in {"on", "off"} : grants' = [grants EXCEPT ![user].synced = m] BY <1>4 DEF Confirm, Observed
  <2> QED BY <2>1, <2>2, MarkEarned
<1>5. CASE grants' = grants BY <1>5, StaysEarned
<1>6. CASE StartStep \/ NextUser \/ NextPhase \/ Decide \/ Safety \/ Write \/ Reread \/ Cleanup \/ Purge
           \/ OwnerRead \/ Scan \/ Tick \/ Crash
  BY <1>5, <1>6 DEF StartStep, NextUser, NextPhase, Decide, Safety, Write, Reread, Cleanup, Purge, OwnerRead, Scan,
                    Tick, Crash, ledger, rest
<1>7. CASE \E i \in Interactions : Admit(i) \/ Configure(i) BY <1>5, <1>7 DEF Admit, Configure, ledger
<1>8. CASE \E v \in Users : AddWatch(v) \/ Enter(v) \/ Leave(v) \/ Subscribe(v) \/ EditRole(v)
  BY <1>5, <1>8 DEF AddWatch, Enter, Leave, Subscribe, EditRole, Elsewhere, ledger
<1>9. CASE UNCHANGED vars BY <1>5, <1>9 DEF vars, ledger
<1> QED BY <1>1, <1>2, <1>3, <1>4, <1>6, <1>7, <1>8, <1>9 DEF Next, ServiceStep

(* A welcome is given once, to a member not known before who joined while  *)
(* the offer was open; an interaction counts once however often Discord    *)
(* delivers it; and nothing else lengthens or revives a trial.             *)
THEOREM TrialsAreEarned == Spec => GrantsAreEarned
<1>1. TrialInvariant /\ [Next]_vars => [\A u \in Users : Earned(u)]_vars BY NextEarned
<1>2. TrialInvariant /\ [Next]_vars =>
        [\A u \in Users :
          /\ /\ grants'[u] # grants[u] /\ grants'[u] # NoGrant
             /\ grants'[u].source = "welcome" /\ grants'[u].synced = "unknown"
             /\ applied' = applied
             => newcomer[u] /\ u \notin seen /\ grants[u] = NoGrant
          /\ /\ grants[u] # NoGrant
             /\ \/ grants'[u].expires > grants[u].expires
                \/ grants[u].revoked /\ ~grants'[u].revoked
             => applied' # applied]_vars
  BY <1>1 DEF Earned
<1> QED BY <1>2, TrialInvariantHolds, PTL DEF Spec, GrantsAreEarned
=============================================================================
