------------------------------ MODULE Referrals ------------------------------
(***************************************************************************)
(* Referral rewards of one member: the ledger of discounts owed            *)
(* (discord_bridge/referral_store.py) and the worker that polls the        *)
(* billing provider and applies them to the member's next invoices         *)
(* (referral_worker.py, whop_client.py).  A reward's discount is a coupon  *)
(* with a code of its own; applying it is a POST under an idempotency key  *)
(* made of the reward and its generation.                                  *)
(*                                                                         *)
(* The provider is external.  It is modelled without the coupon's stock of *)
(* one, so that only what the code does keeps a reward from paying twice.  *)
(* Not modelled: a rotated credential (handled like a key that is too old),*)
(* several memberships, friends' promotions and the log.                   *)
(***************************************************************************)
EXTENDS Integers, FiniteSets, Sequences

CONSTANTS
    Rewards,        \* the members' friends, one reward each
    Own,            \* those that may turn out to be the member's own purchase
    LEASE,          \* claim_reward's lease_seconds = 60
    REPLAY,         \* 86340 s: how long the same request is repeated
    MAX_GENERATION, \* bound: applications of one reward
    MAX_FAULTS,     \* bound: failed or uncertain calls and crashes
    MAX_CHANGES,    \* bound: cancellations, other promotions, reversals
    MAX_TIME        \* bound: the clock stops here

None  == "none"     \* no promotion on the membership
Other == "other"    \* a promotion that is not a reward

ASSUME ReferralConstants ==
    /\ IsFiniteSet(Rewards) /\ Own \subseteq Rewards
    /\ None \notin Rewards /\ Other \notin Rewards
    /\ LEASE \in Nat /\ REPLAY \in Nat /\ MAX_GENERATION \in Nat /\ MAX_FAULTS \in Nat
    /\ MAX_CHANGES \in Nat /\ MAX_TIME \in Nat \ {0}

VARIABLES
    now,
    state, reason, gen, lease, submitted,   \* referral_rewards; 0 for no time
    queue,          \* the rewards in the order they were credited
    bound,          \* the profile's whop_user_id is known
    purchase,       \* provider: the friend's first payment
    attached,       \* provider: the promotion on the membership
    standing,       \* provider: the membership renews, is to end, ended, or is none yet
    created,        \* provider: coupons that exist
    invoice,        \* provider: the member's payment with the coupon
    accepted,       \* provider: last accepted application of each reward
    flying,         \* provider: applications sent and not yet decided
    pc, todo, member, paid, invoiced, coupons,      \* the poll in progress
    own,            \* whose account proves to be the member's own; never changes
    faults, changes,
    discounts       \* ghost: invoices discounted by each reward

columns  == <<reason, gen, lease, submitted>>
ledger   == <<state, columns, queue, bound>>
provider == <<purchase, attached, standing, created, invoice, accepted, flying, discounts>>
poll     == <<pc, todo, member, paid, invoiced, coupons>>
spent    == <<own, faults, changes>>
vars     == <<now, ledger, provider, poll, spent>>

Active == {"applying", "applied", "exception"}
Standings == {"none", "renewing", "ending", "ended"}
Gone == standing \in {"none", "ended"}
Payments  == {"no", "paid", "reversed"}
Steps == {"idle", "payments", "credit", "reversals", "reconcile", "regain", "repost", "reacked",
          "claim", "promo", "mark", "check", "post", "acked", "rejected"}

TypeInvariant ==
    /\ now \in 1..MAX_TIME
    /\ state \in [Rewards -> {"absent", "pending", "used", "void"} \union Active]
    /\ reason \in [Rewards -> {"", "self", "reversed", "unresolved"}]
    /\ gen \in [Rewards -> 0..MAX_GENERATION]
    /\ lease \in [Rewards -> Nat] /\ submitted \in [Rewards -> Nat]
    /\ queue \in Seq(Rewards) /\ bound \in BOOLEAN
    /\ purchase \in [Rewards -> Payments] /\ invoice \in [Rewards -> Payments]
    /\ attached \in Rewards \union {None, Other} /\ standing \in Standings
    /\ created \subseteq Rewards
    /\ accepted \in [Rewards -> [gen : Nat, at : Nat]]
    /\ flying \subseteq Rewards \X Nat
    /\ pc \in Steps /\ todo \in Seq(Rewards)
    /\ member \in [attached : Rewards \union {None, Other}, standing : Standings]
    /\ paid \in [Rewards -> Payments] /\ invoiced \in [Rewards -> Payments]
    /\ coupons \subseteq Rewards
    /\ own \subseteq Own /\ faults \in 0..MAX_FAULTS /\ changes \in 0..MAX_CHANGES
    /\ discounts \in [Rewards -> Nat]
    /\ \A r \in Rewards : state[r] \in {"absent", "pending", "void"} =>
                             lease[r] = 0 /\ submitted[r] = 0

Nothing == [attached |-> None, standing |-> "none"]
Init ==
    /\ now = 1
    /\ state = [r \in Rewards |-> "absent"] /\ reason = [r \in Rewards |-> ""]
    /\ gen = [r \in Rewards |-> 0]
    /\ lease = [r \in Rewards |-> 0] /\ submitted = [r \in Rewards |-> 0]
    /\ queue = <<>> /\ bound = FALSE
    /\ purchase = [r \in Rewards |-> "no"] /\ invoice = [r \in Rewards |-> "no"]
    /\ attached = None /\ standing \in {"none", "renewing"} /\ created = {}
    /\ accepted = [r \in Rewards |-> [gen |-> 0, at |-> 0]] /\ flying = {}
    /\ pc = "idle" /\ todo = <<>> /\ member = Nothing
    /\ paid = purchase /\ invoiced = invoice /\ coupons = {}
    /\ own \in SUBSET Own /\ faults = 0 /\ changes = 0 /\ discounts = [r \in Rewards |-> 0]

Fault == faults < MAX_FAULTS /\ faults' = faults + 1 /\ UNCHANGED <<own, changes>>
(* The poll is over for this member, by return or by exception.            *)
Rest == /\ pc' = "idle" /\ todo' = <<>> /\ member' = Nothing
        /\ paid' = [r \in Rewards |-> "no"] /\ invoiced' = paid' /\ coupons' = {}
Goto(step) == pc' = step /\ UNCHANGED <<todo, member, paid, invoiced, coupons>>
Set(r, s, why) == /\ state' = [state EXCEPT ![r] = s]
                  /\ reason' = [reason EXCEPT ![r] = why]

-----------------------------------------------------------------------------
(* Reading the provider                                                    *)

(* list_memberships, and bind_whop_user on what it proves: a reward for    *)
(* the member's own purchase is an exception from then on.                 *)
Bind == /\ bound' = TRUE
        /\ LET exposed == {r \in own : state[r] \notin {"absent", "used", "void"}}
           IN /\ state' = [r \in Rewards |-> IF r \in exposed THEN "exception" ELSE state[r]]
              /\ reason' = [r \in Rewards |-> IF r \in exposed THEN "self" ELSE reason[r]]

ReadMember ==
    /\ pc = "idle"
    /\ \/ Fault /\ UNCHANGED <<ledger, poll>>
       \/ /\ IF standing = "none" THEN UNCHANGED <<state, reason, bound>> ELSE Bind
          /\ member' = [attached |-> attached, standing |-> standing]
          /\ pc' = "payments"
          /\ UNCHANGED <<gen, lease, submitted, queue, todo, paid, invoiced, coupons, spent>>
    /\ UNCHANGED <<now, provider>>

(* list_payments, then list_promos.                                        *)
ReadPayments ==
    /\ pc = "payments"
    /\ \/ Fault /\ Rest
       \/ /\ paid' = purchase /\ invoiced' = invoice /\ coupons' = created
          /\ pc' = "credit" /\ UNCHANGED <<todo, member, spent>>
    /\ UNCHANGED <<now, ledger, provider>>

-----------------------------------------------------------------------------
(* Crediting and reversing                                                 *)

Appended(seq, set) == IF set = {} THEN {seq}
    ELSE {seq \o s : s \in {t \in [1..Cardinality(set) -> set] : {t[i] : i \in DOMAIN t} = set}}

(* Every first payment made with the member's promotion, once; the         *)
(* member's own is not told apart before their account is known.           *)
Credit ==
    /\ pc = "credit"
    /\ LET new == {r \in Rewards : /\ paid[r] = "paid" /\ state[r] = "absent"
                                   /\ bound => r \notin own}
       IN /\ state' = [r \in Rewards |-> IF r \in new THEN "pending" ELSE state[r]]
          /\ queue' \in Appended(queue, new)
    /\ Goto("reversals")
    /\ UNCHANGED <<now, columns, bound, provider, spent>>

Reversals ==
    /\ pc = "reversals"
    /\ LET hit == {r \in Rewards : paid[r] = "reversed" /\ state[r] \notin {"absent", "void"}}
           After(r) == CASE state[r] = "pending" -> "void"
                         [] state[r] = "used" -> "used"
                         [] OTHER -> "exception"
       IN /\ state' = [r \in Rewards |-> IF r \in hit THEN After(r) ELSE state[r]]
          /\ reason' = [r \in Rewards |-> IF r \in hit THEN "reversed" ELSE reason[r]]
    /\ pc' = "reconcile" /\ todo' = queue
    /\ UNCHANGED <<now, gen, lease, submitted, queue, bound, provider, member, paid, invoiced,
                   coupons, spent>>

-----------------------------------------------------------------------------
(* Reconciling: what became of earlier applications                        *)

job == Head(todo)
NextReward == todo' = Tail(todo) /\ UNCHANGED <<pc, member, paid, invoiced, coupons>>

(* The membership as read for this poll, or read again when it did not     *)
(* qualify as the next bill to discount.                                   *)
Target == IF member.standing = "renewing" THEN member
          ELSE [attached |-> attached, standing |-> standing]
Matching(r) == invoiced[r] = "paid"
(* Mutation: an old application is repeated however old it is.             *)
AnyAge(r) == TRUE
Replayable(r) == now - submitted[r] < REPLAY

(* Mutation: an application that died before its request is not noticed.   *)
UnpreparedNever(r) == FALSE
Unprepared(r) == state[r] = "applying" /\ submitted[r] = 0 /\ lease[r] <= now
Released(r) == /\ Set(r, "pending", "")
               /\ lease' = [lease EXCEPT ![r] = 0] /\ submitted' = [submitted EXCEPT ![r] = 0]

Evidence(r) == r \in coupons /\ (Target.attached = r \/ Matching(r))

Reconcile ==
    /\ pc = "reconcile" /\ todo # <<>>
    /\ LET r == job IN
       \/ /\ state[r] \notin Active \/ reason[r] = "self"
          /\ NextReward /\ UNCHANGED <<state, columns>>
       \/ /\ state[r] \in Active /\ reason[r] # "self"
          /\ \/ Unprepared(r) /\ Released(r) /\ NextReward /\ UNCHANGED gen
             \/ /\ ~Unprepared(r) /\ Evidence(r) /\ Matching(r)
                /\ Set(r, "used", IF reason[r] = "reversed" THEN "reversed" ELSE "")
                /\ NextReward /\ lease' = [lease EXCEPT ![r] = 0] /\ UNCHANGED <<gen, submitted>>
             \/ /\ ~Unprepared(r) /\ Evidence(r) /\ ~Matching(r)
                /\ IF state[r] # "applied" /\ reason[r] # "reversed"
                   THEN Set(r, "applied", "") /\ lease' = [lease EXCEPT ![r] = 0]
                   ELSE UNCHANGED <<state, reason, lease>>
                /\ NextReward /\ UNCHANGED <<gen, submitted>>
             \/ /\ ~Unprepared(r) /\ ~Evidence(r)
                /\ IF r \in coupons /\ state[r] = "applying" /\ submitted[r] # 0
                   THEN IF ~Replayable(r)
                        THEN Set(r, "exception", "unresolved") /\ NextReward
                        ELSE /\ IF Target.attached = None /\ Target.standing \notin {"none", "ended"}
                                THEN Goto("regain") ELSE NextReward
                             /\ UNCHANGED <<state, reason>>
                   ELSE NextReward /\ UNCHANGED <<state, reason>>
                /\ UNCHANGED <<gen, lease, submitted>>
    /\ UNCHANGED <<now, queue, bound, provider, spent>>

Reconciled == /\ pc = "reconcile" /\ todo = <<>> /\ Goto("claim")
              /\ UNCHANGED <<now, ledger, provider, spent>>

-----------------------------------------------------------------------------
(* The application, the first time and again                               *)

Key(r) == <<r, gen[r]>>
Remembered(r) == accepted[r].gen = gen[r] /\ now - accepted[r].at <= REPLAY

(* apply_promo reads the membership first: a promotion on it, one that     *)
(* ended or a failed read is an error before anything was sent.            *)
CheckMembership(from, to) ==
    /\ pc = from
    /\ attached = None /\ ~Gone
    /\ Goto(to) /\ UNCHANGED spent

Lands(r) == IF Remembered(r) THEN UNCHANGED <<attached, accepted>>
            ELSE /\ attached = None /\ ~Gone
                 /\ attached' = r
                 /\ accepted' = [accepted EXCEPT ![r] = [gen |-> gen[r], at |-> now]]

(* POST: accepted, and acknowledged or not; refused; or left undecided.    *)
Post(r, ok, refused, unknown) ==
    /\ \/ Lands(r) /\ ok /\ UNCHANGED <<flying, spent>>
       \/ Lands(r) /\ Fault /\ unknown /\ UNCHANGED flying
       \/ Fault /\ unknown /\ flying' = flying \union {Key(r)} /\ UNCHANGED <<attached, accepted>>
       \/ Fault /\ unknown /\ UNCHANGED <<attached, accepted, flying>>
       \/ Fault /\ refused /\ UNCHANGED <<attached, accepted, flying>>
       \/ /\ ~Remembered(r) /\ (attached # None \/ Gone)
          /\ refused /\ UNCHANGED <<attached, accepted, flying, spent>>
    /\ UNCHANGED <<purchase, standing, created, invoice, discounts>>

Regain == /\ \/ CheckMembership("regain", "repost")
             \/ /\ pc = "regain" /\ Rest
                /\ \/ Fault
                   \/ (attached # None \/ Gone) /\ UNCHANGED spent
          /\ UNCHANGED <<now, ledger, provider>>
Repost == /\ pc = "repost"
          /\ Post(job, Goto("reacked"), Rest, Rest)
          /\ UNCHANGED <<now, ledger>>
(* Recorded unless the reward is no longer in a state to be.               *)
Reacked == /\ pc = "reacked"
           /\ IF reason[job] = "self" THEN Rest /\ UNCHANGED ledger
              ELSE /\ Set(job, "applied", "") /\ lease' = [lease EXCEPT ![job] = 0]
                   /\ pc' = "reconcile" /\ todo' = Tail(todo)
                   /\ UNCHANGED <<gen, submitted, queue, bound, member, paid, invoiced, coupons>>
           /\ UNCHANGED <<now, provider, spent>>

(* claim_reward: the oldest pending reward, one application at a time.     *)
Ready == {i \in DOMAIN queue : state[queue[i]] = "pending" /\ queue[i] \notin own}
(* Mutation: an unresolved exception does not hold the queue.              *)
BusyApplying == {r \in Rewards : state[r] \in {"applying", "applied"} /\ gen[r] > 0}
Busy  == {r \in Rewards : state[r] \in Active /\ gen[r] > 0}
(* Bound: time enough is left to resolve it.                               *)
Claim ==
    /\ pc = "claim"
    /\ IF /\ member.standing = "renewing" /\ member.attached = None
          /\ bound /\ Busy = {} /\ Ready # {}
       THEN LET r == queue[CHOOSE i \in Ready : \A j \in Ready : i <= j] IN
            /\ gen[r] < MAX_GENERATION /\ now + REPLAY <= MAX_TIME
            /\ Set(r, "applying", "")
            /\ gen' = [gen EXCEPT ![r] = @ + 1]
            /\ lease' = [lease EXCEPT ![r] = now + LEASE]
            /\ submitted' = [submitted EXCEPT ![r] = 0]
            /\ pc' = "promo" /\ todo' = <<r>> /\ UNCHANGED <<member, paid, invoiced, coupons>>
       ELSE Rest /\ UNCHANGED <<state, columns>>
    /\ UNCHANGED <<now, queue, bound, provider, spent>>

(* release_reward refuses when the row is no longer this application's.    *)
Release(r) == IF state[r] = "applying" THEN Released(r) /\ UNCHANGED gen
              ELSE UNCHANGED <<state, columns>>
GiveBack(r) == Release(r) /\ Rest /\ UNCHANGED <<queue, bound>>

(* The coupon is found, created, or found after a lost answer.             *)
EnsurePromo ==
    /\ pc = "promo"
    /\ \/ /\ created' = created \union {job} /\ Goto("mark") /\ UNCHANGED <<ledger, spent>>
       \/ /\ created' \in {created, created \union {job}} /\ Fault /\ GiveBack(job)
    /\ UNCHANGED <<now, purchase, attached, standing, invoice, accepted, flying, discounts>>

MarkSubmission ==
    /\ pc = "mark"
    /\ IF state[job] = "applying"
       THEN /\ submitted' = [submitted EXCEPT ![job] = now] /\ Goto("check")
            /\ UNCHANGED <<state, reason, gen, lease, queue, bound>>
       ELSE GiveBack(job)
    /\ UNCHANGED <<now, provider, spent>>

Check == /\ \/ CheckMembership("check", "post") /\ UNCHANGED ledger
            \/ /\ pc = "check" /\ GiveBack(job)
               /\ \/ Fault
                  \/ (attached # None \/ Gone) /\ UNCHANGED spent
         /\ UNCHANGED <<now, provider>>
Submit == /\ pc = "post"
          /\ Post(job, Goto("acked"), Goto("rejected"), Rest)
          /\ UNCHANGED <<now, ledger>>
MarkApplied ==
    /\ pc = "acked"
    /\ IF state[job] \in {"applying", "applied"}
       THEN Set(job, "applied", "") /\ lease' = [lease EXCEPT ![job] = 0]
       ELSE UNCHANGED <<state, reason, lease>>
    /\ Rest /\ UNCHANGED <<now, gen, submitted, queue, bound, provider, spent>>
Rejected == pc = "rejected" /\ GiveBack(job) /\ UNCHANGED <<now, provider, spent>>

Crash == pc # "idle" /\ Fault /\ Rest /\ UNCHANGED <<now, ledger, provider>>

-----------------------------------------------------------------------------
(* The rest of the world                                                   *)

(* A member opens the referral card: the same identity proof, at any time. *)
MemberView == standing # "none" /\ Bind /\ UNCHANGED <<now, gen, lease, submitted, queue, provider, poll, spent>>

Change == changes < MAX_CHANGES /\ changes' = changes + 1 /\ UNCHANGED <<own, faults>>
world == <<now, ledger, poll>>

Purchase(r) == /\ purchase[r] = "no" /\ purchase' = [purchase EXCEPT ![r] = "paid"]
               /\ UNCHANGED <<world, attached, standing, created, invoice, accepted, flying,
                              discounts, spent>>
Reverse(r) == /\ purchase[r] = "paid" /\ purchase' = [purchase EXCEPT ![r] = "reversed"]
              /\ Change
              /\ UNCHANGED <<world, attached, standing, created, invoice, accepted, flying,
                             discounts>>
(* The next invoice takes the promotion with it.                           *)
Bill == /\ standing = "renewing" /\ attached # None
        /\ attached' = None
        /\ IF attached \in Rewards
           THEN /\ invoice' = [invoice EXCEPT ![attached] = "paid"]
                /\ discounts' = [discounts EXCEPT ![attached] = @ + 1]
           ELSE UNCHANGED <<invoice, discounts>>
        /\ UNCHANGED <<world, purchase, standing, created, accepted, flying, spent>>
Refund(r) == /\ invoice[r] = "paid" /\ invoice' = [invoice EXCEPT ![r] = "reversed"]
             /\ Change
             /\ UNCHANGED <<world, purchase, attached, standing, created, accepted, flying,
                            discounts>>
SetStanding(s) == /\ standing # s /\ standing # "ended" /\ s # "none"
                  /\ standing = "none" => s = "renewing"
                  /\ standing' = s /\ Change
                  /\ UNCHANGED <<world, purchase, attached, created, invoice, accepted, flying,
                                 discounts>>
OtherPromo == /\ attached = None /\ ~Gone /\ attached' = Other /\ Change
              /\ UNCHANGED <<world, purchase, standing, created, invoice, accepted, flying,
                             discounts>>
(* A request left undecided arrives; it is gone once its key may not be    *)
(* repeated any more.                                                      *)
Arrive == \E r \in Rewards :
    /\ Key(r) \in flying /\ now - submitted[r] < REPLAY
    /\ flying' = flying \ {Key(r)}
    /\ Lands(r)
    /\ UNCHANGED <<world, purchase, standing, created, invoice, discounts, spent>>
Vanish == /\ flying # {} /\ flying' = {}
          /\ UNCHANGED <<world, purchase, attached, standing, created, invoice, accepted,
                         discounts, spent>>

(* The 60 s between the code's limit and the provider's are more than the  *)
(* two calls of a repeated application take.  Bound: an application is     *)
(* submitted while the clock leaves time to resolve it.                    *)
Tick == /\ now < MAX_TIME /\ pc \notin {"regain", "repost"} /\ now' = now + 1
        /\ pc \in {"promo", "mark"} => now' + REPLAY <= MAX_TIME
        /\ UNCHANGED <<ledger, provider, poll, spent>>

WorkerStep == \/ ReadMember \/ ReadPayments \/ Credit \/ Reversals \/ Reconcile \/ Reconciled
              \/ Regain \/ Repost \/ Reacked \/ Claim \/ EnsurePromo \/ MarkSubmission \/ Check
              \/ Submit \/ MarkApplied \/ Rejected
Next == \/ WorkerStep \/ Crash \/ MemberView \/ Bill \/ Arrive \/ Vanish \/ Tick
        \/ OtherPromo
        \/ \E r \in Rewards : Purchase(r) \/ Reverse(r) \/ Refund(r)
        \/ \E s \in Standings : SetStanding(s)
Spec == Init /\ [][Next]_vars
FairSpec == Spec /\ WF_vars(Tick) /\ WF_vars(WorkerStep)

-----------------------------------------------------------------------------
(* Properties                                                              *)

(* "Additional rewards queue future discounted months": one reward at a    *)
(* time is being applied or unresolved, and a coupon on the membership is  *)
(* that one's, never one for the member's own purchase.                    *)
OneAtATime ==
    LET unresolved == {r \in Rewards : state[r] \in Active /\ gen[r] > 0}
    IN /\ \A r, s \in unresolved : r = s
       /\ attached \in Rewards => attached \in unresolved \ own

(* What the ledger says of a reward is true, whatever answers are lost or  *)
(* late: "30% off one next payment" (discord_bridge/README.md); "Consume a *)
(* reward only after its successful discounted invoice"; and one that is   *)
(* owed or given up is not on the membership, on an invoice or on its way  *)
(* there ("never automatically retries a possibly submitted discount       *)
(* application", referral_store.py).                                       *)
RewardsTellTheTruth ==
    \A r \in Rewards :
        /\ discounts[r] <= 1
        /\ state[r] = "used" => discounts[r] = 1
        /\ state[r] \in {"absent", "pending", "void"} =>
              attached # r /\ discounts[r] = 0 /\ ~\E k \in flying : k[1] = r

RewardInvariant == TypeInvariant /\ RewardsTellTheTruth /\ OneAtATime

(* An interrupted application is resolved: applied, given back, or an      *)
(* exception an operator sees.                                             *)
ApplicationsResolve == \A r \in Rewards : state[r] = "applying" ~> state[r] # "applying"

(* What makes them so.  A reward that was never submitted, or only in a    *)
(* request not yet sent, is nowhere at the provider; one that took effect  *)
(* did so under the key of its present generation, after its submission.   *)
Clean(r) == attached # r /\ discounts[r] = 0 /\ ~\E k \in flying : k[1] = r
Unsent == {"promo", "mark", "check", "post", "rejected"}
AppliesOnce ==
    \A r \in Rewards :
        /\ gen[r] > 0 => r \notin own
        /\ state[r] = "applying" => gen[r] > 0 /\ (submitted[r] = 0 => Clean(r))
        /\ submitted[r] <= now
        /\ attached = r => discounts[r] = 0
        /\ attached = r \/ discounts[r] > 0 =>
              accepted[r].gen = gen[r] /\ submitted[r] <= accepted[r].at
        /\ invoice[r] # "no" \/ invoiced[r] # "no" => discounts[r] > 0
SentWasClaimed == \A k \in flying : gen[k[1]] > 0
(* The poll works on an application that is its own until it is settled.   *)
PollHolds ==
    /\ pc \in Unsent \union {"acked", "regain", "repost", "reacked"} =>
          todo # <<>> /\ state[job] = "applying"
    /\ pc \in Unsent => Clean(job)
    /\ pc \in {"check", "post", "regain", "repost"} => submitted[job] # 0
    /\ pc \in {"regain", "repost"} => now - submitted[job] < REPLAY

ApplicationInvariant ==
    /\ RewardInvariant /\ AppliesOnce /\ SentWasClaimed /\ PollHolds
=============================================================================
