-------------------------------- MODULE Trials --------------------------------
(***************************************************************************)
(* Complimentary access (discord_bridge/trials.py): a ledger of grants in  *)
(* a database of its own and a service that makes the Pro Trial role and   *)
(* the saved item requests of every member follow it.  One lock serializes *)
(* the owner's commands and the service's periodic step, so there is one   *)
(* program counter; time, Discord and the members move between any two of  *)
(* its steps, and a call to Discord may fail or the process die.           *)
(*                                                                         *)
(* Not modelled: the limits of 60 reconciled users, 50 owners and 1000     *)
(* members per step (fewer users here), hence the order within a batch and *)
(* trial_reconciliation, which only decides that order; bots.              *)
(***************************************************************************)
EXTENDS Integers, FiniteSets

CONSTANTS
    Users,
    Interactions,   \* Discord's identities of the owner's commands
    Payload,        \* interaction -> what it asks; the same at each delivery
    WELCOME,        \* the length of a welcome trial ("hours")
    MAX_DURATION,   \* _MAX_DURATION = 366 days
    ATTEMPTS,       \* the three attempts of _sync
    MAX_DELIVERIES, \* bound: deliveries of one interaction
    MAX_FAULTS,     \* bound: failed calls, failed role checks and crashes
    MAX_CHANGES,    \* bound: changes other people make in the Discord server
    MAX_TIME,       \* bound: the clock stops here
    Spent           \* what of these bounds a behaviour begins with as spent

Changes == {"grant", "until", "extend", "revoke"}
Offers  == {"open", "close"}
NoUser  == <<>>
NoGrant == <<>>
Unread  == <<>>

ASSUME TrialConstants ==
    /\ Payload \in [Interactions -> [op : Changes \union Offers, user : Users, amount : Nat]]
    /\ \A x \in {WELCOME, MAX_DURATION, ATTEMPTS, MAX_DELIVERIES, MAX_FAULTS, MAX_CHANGES,
                 MAX_TIME} : x \in Nat
    /\ Spent \subseteq [now : 0..MAX_TIME, delivered : [Interactions -> 0..MAX_DELIVERIES],
                       faults : 0..MAX_FAULTS, changes : 0..MAX_CHANGES]

VARIABLES
    now,
    grants,     \* trial_grants
    seen,       \* trial_seen
    applied,    \* trial_commands
    offer,      \* trial_settings: the welcome offer
    inServer, joined, paid, role,   \* the members, as Discord has them
    watch,      \* members with saved requests (personal_requests)
    phase, pc, todo, user, view, want, attempt, safe, command,
                \* the holder of the service's lock
    delivered, faults, changes,     \* spent bounds
    newcomer    \* ghost: the member joined while the offer was open

ledger  == <<grants, seen, applied, offer>>
discord == <<inServer, joined, paid, role, newcomer>>
locals  == <<phase, todo, user, view, want, attempt, safe, command>>
spent   == <<delivered, faults, changes>>
vars    == <<now, ledger, discord, watch, pc, locals, spent>>

Grant  == [expires : Nat, revoked : BOOLEAN, source : {"owner", "welcome", "orphan"},
           synced : {"unknown", "on", "off"}]
Member == [joined : Nat, paid : BOOLEAN, trial : BOOLEAN]
Idle   == "idle"

TypeInvariant ==
    /\ now \in 0..MAX_TIME
    /\ grants \in [Users -> Grant \union {NoGrant}] /\ seen \subseteq Users
    /\ applied \subseteq Interactions /\ offer \in [on : BOOLEAN, since : Nat]
    /\ inServer \in [Users -> BOOLEAN] /\ joined \in [Users -> Nat]
    /\ paid \in [Users -> BOOLEAN] /\ role \in [Users -> BOOLEAN]
    /\ watch \in [Users -> BOOLEAN] /\ newcomer \in [Users -> BOOLEAN]
    /\ phase \in {Idle, "command", "reconcile", "owners", "members"}
    /\ pc \in {Idle, "admitted", "sync", "decide", "safety", "write", "reread", "confirm",
               "cleanup", "purge", "next", "owner", "scan", "page"}
    /\ todo \subseteq Users /\ user \in Users \union {NoUser}
    /\ view \in [Users -> Member \union {Unread}]
    /\ want \in BOOLEAN /\ attempt \in 0..(ATTEMPTS + 1) /\ safe \in BOOLEAN
    /\ command \in SUBSET Interactions
    /\ delivered \in [Interactions -> 0..MAX_DELIVERIES]
    /\ faults \in 0..MAX_FAULTS /\ changes \in 0..MAX_CHANGES

Init ==
    /\ \E s \in Spent : now = s.now /\ delivered = s.delivered
                       /\ faults = s.faults /\ changes = s.changes
    /\ grants = [u \in Users |-> NoGrant] /\ seen = {} /\ applied = {}
    /\ offer = [on |-> FALSE, since |-> 0]
    /\ inServer \in [Users -> BOOLEAN] /\ joined = [u \in Users |-> 0]
    /\ paid = [u \in Users |-> FALSE] /\ role = [u \in Users |-> FALSE]
    /\ watch = [u \in Users |-> FALSE] /\ newcomer = [u \in Users |-> FALSE]
    /\ phase = Idle /\ pc = Idle /\ todo = {} /\ user = NoUser
    /\ view = [u \in Users |-> Unread]
    /\ want = FALSE /\ attempt = 0 /\ safe = TRUE /\ command = {}

Lapsed(g, t) == g.revoked \/ g.expires <= t
Active(u) == grants[u] # NoGrant /\ ~Lapsed(grants[u], now)

(* A call to Discord that fails.                                           *)
Fault == faults < MAX_FAULTS /\ faults' = faults + 1 /\ UNCHANGED <<delivered, changes>>

Forget == /\ user' = NoUser /\ view' = [u \in Users |-> Unread]
          /\ want' = FALSE /\ attempt' = 0 /\ command' = {}

(* The end of one _sync or _cleanup, by return or by exception; a command  *)
(* then releases the lock, a step goes on to its next user.                *)
Done == /\ Forget
        /\ IF phase = "command" THEN pc' = Idle /\ phase' = Idle ELSE pc' = "next" /\ UNCHANGED phase
        /\ UNCHANGED <<todo, safe>>
Release == /\ Forget /\ pc' = Idle /\ phase' = Idle /\ todo' = {} /\ safe' = TRUE

-----------------------------------------------------------------------------
(* The owner's commands                                                    *)

(* A first delivery, or one more of the same interaction.                  *)
Deliver(i) == /\ pc = Idle /\ delivered[i] < MAX_DELIVERIES
              /\ delivered' = [delivered EXCEPT ![i] = @ + 1] /\ UNCHANGED <<faults, changes>>

(* _change: except to revoke, the role is safe and the member is there.    *)
Admit(i) ==
    /\ Payload[i].op \in Changes
    /\ Payload[i].op = "revoke" \/ inServer[Payload[i].user]
    /\ Deliver(i)
    /\ pc' = "admitted" /\ phase' = "command" /\ command' = {i} /\ user' = Payload[i].user
    /\ UNCHANGED <<now, ledger, discord, watch, todo, view, want, attempt, safe>>

(* Mutation: a repeated interaction is not recognized.                     *)
AlwaysFresh(i) == TRUE
Fresh(i) == i \notin applied

Later(x, y) == IF x > y THEN x ELSE y
Owner(expiry) == [expires |-> expiry, revoked |-> FALSE, source |-> "owner", synced |-> "unknown"]

(* The row an accepted command leaves, and when it is accepted.            *)
Granted(p, g) ==
    CASE p.op = "grant"  -> Owner(now + p.amount)
      [] p.op = "until"  -> Owner(p.amount)
      [] p.op = "extend" -> [g EXCEPT !.expires = Later(g.expires, now) + p.amount,
                                      !.synced = "unknown"]
      [] OTHER           -> [g EXCEPT !.revoked = TRUE, !.synced = "unknown"]
InRange(x) == 0 < x /\ x <= MAX_DURATION
Legal(p) == /\ p.op = "until" => InRange(p.amount - now)
            /\ p.op \in {"grant", "extend"} => InRange(p.amount)
Accepts(p, g) ==
    /\ p.op \in {"grant", "until"} => ~Active(p.user)
    /\ p.op = "extend" => /\ g # NoGrant /\ ~g.revoked
                          /\ InRange(Later(g.expires, now) + p.amount - now)
    /\ p.op = "revoke" => g # NoGrant

(* TrialStore.change: one transaction, rolled back when it is refused.     *)
Change ==
    /\ pc = "admitted"
    /\ \E i \in command : LET p == Payload[i] IN
         IF Legal(p) /\ (Fresh(i) => Accepts(p, grants[user]))
         THEN /\ grants' = IF Fresh(i) THEN [grants EXCEPT ![user] = Granted(p, @)] ELSE grants
              /\ applied' = applied \union {i}
              /\ pc' = "sync" /\ UNCHANGED locals
         ELSE Done /\ UNCHANGED <<grants, applied>>
    /\ UNCHANGED <<now, seen, offer, discord, watch, spent>>

Configured(on) == [on |-> on, since |-> IF on /\ ~offer.on THEN now ELSE offer.since]

(* /trial welcome.  Bound: nobody joins at the very instant of a command.  *)
Configure(i) ==
    /\ Payload[i].op \in Offers /\ Deliver(i)
    /\ \A u \in Users : inServer[u] => joined[u] < now
    /\ IF Fresh(i) THEN offer' = Configured(Payload[i].op = "open") ELSE UNCHANGED offer
    /\ applied' = applied \union {i}
    /\ UNCHANGED <<now, grants, seen, discord, watch, pc, locals>>

-----------------------------------------------------------------------------
(* _sync: the role follows the ledger                                      *)

Seen(u) == [joined |-> joined[u], paid |-> paid[u], trial |-> role[u]]
Read    == view' = [view EXCEPT ![user] = Seen(user)]
held    == view[user].trial
rest    == <<now, seen, applied, offer, watch>>

SyncRead ==
    /\ pc = "sync"
    /\ \/ Fault /\ Done /\ UNCHANGED grants
       \/ /\ inServer[user]
          /\ Read /\ attempt' = 1 /\ pc' = "decide"
          /\ UNCHANGED <<grants, phase, todo, user, want, safe, command, spent>>
       \/ /\ ~inServer[user]
          /\ grants' = [grants EXCEPT ![user].synced = "off"]
          /\ pc' = "purge" /\ UNCHANGED <<locals, spent>>
    /\ UNCHANGED <<rest, discord>>

(* Mutation: a role that keeps changing is chased for ever.                *)
DecideForever == IF held = Active(user) THEN "confirm" ELSE IF Active(user) THEN "safety" ELSE "write"
Decision == IF attempt > ATTEMPTS \/ held = Active(user) THEN "confirm"
            ELSE IF Active(user) THEN "safety" ELSE "write"
Decide ==
    /\ pc = "decide"
    /\ pc' = Decision /\ want' = FALSE
    /\ UNCHANGED <<rest, grants, discord, phase, todo, user, view, attempt, safe, command, spent>>

(* The role inventory is read; the trial may have ended meanwhile.         *)
Safety ==
    /\ pc = "safety"
    /\ \/ ~safe /\ Done /\ UNCHANGED spent
       \/ safe /\ Fault /\ Done
       \/ /\ safe
          /\ IF Active(user) THEN pc' = "write" /\ want' = TRUE /\ UNCHANGED attempt
             ELSE pc' = "decide" /\ attempt' = attempt + 1 /\ UNCHANGED want
          /\ UNCHANGED <<phase, todo, user, view, safe, command, spent>>
    /\ UNCHANGED <<rest, grants, discord>>

(* PUT or DELETE: done and acknowledged, or failed whether done or not.    *)
Write ==
    /\ pc = "write"
    /\ \/ /\ inServer[user] /\ role' = [role EXCEPT ![user] = want]
          /\ pc' = "reread" /\ UNCHANGED <<locals, spent>>
       \/ /\ Fault /\ Done
          /\ role' \in {role, IF inServer[user] THEN [role EXCEPT ![user] = want] ELSE role}
       \/ ~inServer[user] /\ Done /\ UNCHANGED <<role, spent>>
    /\ UNCHANGED <<rest, grants, inServer, joined, paid, newcomer>>

Reread ==
    /\ pc = "reread"
    /\ \/ Fault /\ Done
       \/ ~inServer[user] /\ Done /\ UNCHANGED spent
       \/ /\ inServer[user]
          /\ Read /\ attempt' = attempt + 1 /\ pc' = "decide"
          /\ UNCHANGED <<phase, todo, user, want, safe, command, spent>>
    /\ UNCHANGED <<rest, grants, discord>>

Observed == IF held THEN "on" ELSE "off"
Confirm ==
    /\ pc = "confirm"
    /\ grants' = [grants EXCEPT ![user].synced = Observed]
    /\ IF Active(user) THEN Done ELSE pc' = "cleanup" /\ UNCHANGED locals
    /\ UNCHANGED <<rest, discord, spent>>

(* _cleanup: on the member as last read, and the ledger as it is now.      *)
Eligible == view[user].paid \/ (held /\ Active(user))
Cleanup ==
    /\ pc = "cleanup"
    /\ IF Eligible THEN Done ELSE pc' = "purge" /\ UNCHANGED locals
    /\ UNCHANGED <<rest, grants, discord, spent>>

(* RequestStore.revoke_user.                                               *)
Purge ==
    /\ pc = "purge"
    /\ watch' = [watch EXCEPT ![user] = FALSE] /\ Done
    /\ UNCHANGED <<now, ledger, discord, spent>>

-----------------------------------------------------------------------------
(* step: reconcile the ledger, the owners of requests, then the members    *)

Pending(u) == /\ grants[u] # NoGrant
              /\ \/ grants[u].synced = "unknown"
                 \/ grants[u].synced = "on" /\ ~Active(u)
                 \/ grants[u].synced = "off" /\ Active(u)

StartStep ==
    /\ pc = Idle
    /\ safe' \in {TRUE, FALSE}
    /\ IF safe' THEN UNCHANGED spent ELSE Fault
    /\ phase' = "reconcile" /\ pc' = "next" /\ todo' = {u \in Users : Pending(u)}
    /\ UNCHANGED <<now, ledger, discord, watch, user, view, want, attempt, command>>

NextUser ==
    /\ pc = "next" /\ todo # {}
    /\ \E u \in todo : user' = u /\ todo' = todo \ {u}
    /\ pc' = IF phase = "owners" THEN "owner" ELSE "sync"
    /\ UNCHANGED <<now, ledger, discord, watch, phase, view, want, attempt, safe, command, spent>>

(* Mutation: only members who were on trial are looked at.                 *)
OwnersOnTrial == {u \in Users : watch[u] /\ grants[u] # NoGrant}
Owners == {u \in Users : watch[u]}
NextPhase ==
    /\ pc = "next" /\ todo = {}
    /\ \/ /\ phase = "reconcile"
          /\ phase' = "owners" /\ todo' = Owners
          /\ UNCHANGED <<pc, user, view, want, attempt, safe, command>>
       \/ /\ phase = "owners" /\ phase' = "members" /\ pc' = "scan"
          /\ UNCHANGED <<todo, user, view, want, attempt, safe, command>>
       \/ phase = "members" /\ Release
    /\ UNCHANGED <<now, ledger, discord, watch, spent>>

(* _cleanup of an owner of requests, who is read first.                    *)
OwnerRead ==
    /\ pc = "owner"
    /\ \/ Fault /\ Done
       \/ /\ inServer[user] /\ Read /\ pc' = "cleanup"
          /\ UNCHANGED <<phase, todo, user, want, attempt, safe, command, spent>>
       \/ ~inServer[user] /\ pc' = "purge" /\ UNCHANGED <<locals, spent>>
    /\ UNCHANGED <<now, ledger, discord, watch>>

(* GET of the member list.                                                 *)
Scan ==
    /\ pc = "scan"
    /\ \/ Fault /\ Release
       \/ /\ view' = [u \in Users |-> IF inServer[u] THEN Seen(u) ELSE Unread]
          /\ pc' = "page"
          /\ UNCHANGED <<phase, todo, user, want, attempt, safe, command, spent>>
    /\ UNCHANGED <<now, ledger, discord, watch>>

(* observe_members, on the page as it was read.                            *)
Listed == {u \in Users : view[u] # Unread}
NewJoin(u) == offer.on /\ view[u].joined >= offer.since
Noted == {u \in Listed \ seen : safe \/ ~NewJoin(u) \/ view[u].paid}
Welcomed == {u \in Noted : /\ NewJoin(u) /\ ~view[u].paid
                           /\ view[u].joined + WELCOME > now
                           /\ grants[u] = NoGrant}
WithWelcome == [u \in Users |->
    IF u \in Welcomed THEN [expires |-> view[u].joined + WELCOME, revoked |-> FALSE,
                            source |-> "welcome", synced |-> "unknown"]
    ELSE grants[u]]
(* Mutation: the holder of a lapsed trial is not looked for in the list.   *)
RemovalsOrphans == {u \in Listed : view[u].trial /\ WithWelcome[u] = NoGrant}
Removals == {u \in Listed : /\ view[u].trial
                            /\ WithWelcome[u] = NoGrant \/ Lapsed(WithWelcome[u], now)}
Restore == {u \in Listed : ~view[u].trial /\ Active(u)}
Observe ==
    /\ pc = "page"
    /\ seen' = seen \union Noted
    /\ grants' = [u \in Users |->
         IF u \in Removals /\ WithWelcome[u] = NoGrant
         THEN [expires |-> now, revoked |-> TRUE, source |-> "orphan", synced |-> "on"]
         ELSE IF u \in Removals THEN [WithWelcome[u] EXCEPT !.synced = "on"]
         ELSE IF u \in Restore THEN [WithWelcome[u] EXCEPT !.synced = "off"]
         ELSE WithWelcome[u]]
    /\ todo' = Removals \union Welcomed
    /\ pc' = "next" /\ view' = [u \in Users |-> Unread]
    /\ UNCHANGED <<now, applied, offer, discord, watch, phase, user, want, attempt, safe,
                   command, spent>>

-----------------------------------------------------------------------------
(* Everyone else                                                           *)

Crash == /\ pc # Idle /\ Fault /\ Release
         /\ UNCHANGED <<now, ledger, discord, watch>>

Tick == /\ now < MAX_TIME /\ now' = now + 1
        /\ UNCHANGED <<ledger, discord, watch, pc, locals, spent>>

(* A member with paid or trial access saves a request.                     *)
AddWatch(u) == /\ inServer[u] /\ ~watch[u]
               /\ paid[u] \/ (role[u] /\ Active(u))
               /\ watch' = [watch EXCEPT ![u] = TRUE]
               /\ UNCHANGED <<now, ledger, discord, pc, locals, spent>>

Elsewhere == /\ changes < MAX_CHANGES /\ changes' = changes + 1
             /\ UNCHANGED <<now, ledger, watch, pc, locals, delivered, faults>>

Enter(u) == /\ ~inServer[u] /\ Elsewhere
            /\ inServer' = [inServer EXCEPT ![u] = TRUE]
            /\ joined' = [joined EXCEPT ![u] = now]
            /\ newcomer' = [newcomer EXCEPT ![u] = offer.on]
            /\ UNCHANGED <<paid, role>>
Leave(u) == /\ inServer[u] /\ Elsewhere
            /\ inServer' = [inServer EXCEPT ![u] = FALSE]
            /\ paid' = [paid EXCEPT ![u] = FALSE] /\ role' = [role EXCEPT ![u] = FALSE]
            /\ UNCHANGED <<joined, newcomer>>
Subscribe(u) == /\ inServer[u] /\ Elsewhere /\ paid' = [paid EXCEPT ![u] = ~@]
                /\ UNCHANGED <<inServer, joined, role, newcomer>>
EditRole(u) == /\ inServer[u] /\ Elsewhere /\ role' = [role EXCEPT ![u] = ~@]
               /\ UNCHANGED <<inServer, joined, paid, newcomer>>

ServiceStep == \/ StartStep \/ NextUser \/ NextPhase \/ Change
               \/ SyncRead \/ Decide \/ Safety \/ Write \/ Reread \/ Confirm \/ Cleanup \/ Purge
               \/ OwnerRead \/ Scan \/ Observe
Next == \/ ServiceStep \/ Tick \/ Crash
        \/ \E i \in Interactions : Admit(i) \/ Configure(i)
        \/ \E u \in Users : AddWatch(u) \/ Enter(u) \/ Leave(u) \/ Subscribe(u) \/ EditRole(u)
Spec == Init /\ [][Next]_vars
(* The service thread loops every 15 s and its calls time out.             *)
FairSpec == Spec /\ WF_vars(Tick) /\ WF_vars(ServiceStep)

-----------------------------------------------------------------------------
(* Properties                                                              *)

(* "a role is removed at expiry ... restart catches up overdue removals"   *)
(* (discord_bridge/README.md).  The role never outlives the trial for good,*)
(* whichever calls fail, even when a failed PUT took effect unnoticed; and *)
(* a recorded trial reaches its member: the role is granted, again after   *)
(* failures and after the member came back, unless the trial or the        *)
(* membership ends first.                                                  *)
RoleFollowsTrial ==
    \A u \in Users :
        /\ role[u] /\ ~Active(u) ~> ~role[u] \/ Active(u)
        /\ inServer[u] /\ Active(u) ~> role[u] \/ ~Active(u) \/ ~inServer[u]

(* "When neither entitlement remains, the service deletes saved requests": *)
(* the requests of a member who lost both go, or the member gets one back. *)
Entitled(u) == inServer[u] /\ (paid[u] \/ (role[u] /\ Active(u)))
LapsedRequestsGo == \A u \in Users : watch[u] /\ ~Entitled(u) ~> ~watch[u] \/ Entitled(u)

(* A trial is earned.  "applies only to future new members after enabling":*)
(* a welcome is given once, to a member not known before who joined while  *)
(* the offer was open; and an interaction counts once however often        *)
(* Discord delivers it: time is added to, and an ended trial revived by, a *)
(* first delivery only.                                                    *)
GrantsAreEarned ==
    [][\A u \in Users :
          /\ /\ grants'[u] # grants[u] /\ grants'[u] # NoGrant
             /\ grants'[u].source = "welcome" /\ grants'[u].synced = "unknown"
             /\ applied' = applied
             => newcomer[u] /\ u \notin seen /\ grants[u] = NoGrant
          /\ /\ grants[u] # NoGrant
             /\ \/ grants'[u].expires > grants[u].expires
                \/ grants[u].revoked /\ ~grants'[u].revoked
             => applied' # applied]_vars

-----------------------------------------------------------------------------
(* The inductive invariant                                                 *)

(* Who holds the lock works for a member; to follow the ledger, one of its *)
(* rows is there; a role is tried ATTEMPTS times; and nothing that was     *)
(* read outlives the lock.                                                 *)
Syncing == pc \in {"sync", "decide", "safety", "write", "reread", "confirm"}
WorkIsFor ==
    /\ Syncing \/ pc \in {"admitted", "cleanup", "purge", "owner"} => user \in Users
    /\ Syncing => grants[user] # NoGrant
    /\ pc \in {"safety", "write", "reread"} => attempt <= ATTEMPTS
    /\ pc = Idle => view = [u \in Users |-> Unread]
    /\ pc # Idle => phase # Idle
    /\ pc \in {"next", "scan", "page"} => phase # "command"
(* A command that was accepted left a row, and so has every member that a  *)
(* step still has to bring in line with the ledger.                        *)
RowsStay ==
    /\ \A i \in applied : Payload[i].op \in Changes => grants[Payload[i].user] # NoGrant
    /\ pc = "admitted" => \A i \in command : Payload[i].op \in Changes /\ Payload[i].user = user
    /\ phase \in {"reconcile", "members"} => \A u \in todo : grants[u] # NoGrant
(* Whoever joined since the offer stands, joined while it was open; and so *)
(* says what was read of them.                                             *)
OfferIsOpen ==
    offer.on => \A u \in Users :
        /\ inServer[u] /\ joined[u] >= offer.since => newcomer[u]
        /\ view[u] # Unread => (view[u].joined >= offer.since => newcomer[u])

TrialInvariant == TypeInvariant /\ WorkIsFor /\ RowsStay /\ OfferIsOpen
=============================================================================
