--------------------------- MODULE ReferralProofs ---------------------------
(***************************************************************************)
(* Machine-checked theorems about referral rewards (Referrals.tla), for    *)
(* every set of friends, every lease, replay window and bound: whatever    *)
(* calls fail, answers are lost or requests arrive late, one reward at a   *)
(* time is being applied, each discounts one invoice at most, and the      *)
(* ledger tells the truth about all of them.                               *)
(***************************************************************************)
EXTENDS Referrals, FiniteSetTheorems, SequenceTheorems, WellFoundedInduction, TLAPS

-----------------------------------------------------------------------------
(* The invariant, one reward at a time                                     *)

Unresolved(r) == state[r] \in Active /\ gen[r] > 0
Fine(r) ==
    /\ discounts[r] <= 1
    /\ state[r] = "used" => discounts[r] = 1
    /\ state[r] \in {"absent", "pending", "void"} => Clean(r)
    /\ gen[r] > 0 => r \notin own
    /\ state[r] = "applying" => gen[r] > 0 /\ (submitted[r] = 0 => Clean(r))
    /\ submitted[r] <= now
    /\ attached = r => discounts[r] = 0 /\ Unresolved(r)
    /\ attached = r \/ discounts[r] > 0 =>
          accepted[r].gen = gen[r] /\ submitted[r] <= accepted[r].at
    /\ invoice[r] # "no" \/ invoiced[r] # "no" => discounts[r] > 0
OneUnresolved == \A r, s \in Rewards : Unresolved(r) /\ Unresolved(s) => r = s
Settled == (\A r \in Rewards : Fine(r)) /\ OneUnresolved /\ SentWasClaimed

LEMMA InvariantIs == ApplicationInvariant <=> TypeInvariant /\ Settled /\ PollHolds
<1>1. ASSUME ApplicationInvariant PROVE TypeInvariant /\ Settled /\ PollHolds
  <2>1. TypeInvariant /\ PollHolds /\ SentWasClaimed /\ RewardsTellTheTruth /\ OneAtATime /\ AppliesOnce
    BY <1>1 DEF ApplicationInvariant, RewardInvariant
  <2>2. OneUnresolved BY <2>1 DEF OneAtATime, OneUnresolved, Unresolved
  <2>3. ASSUME NEW r \in Rewards PROVE Fine(r)
    <3>1. /\ discounts[r] <= 1 /\ (state[r] = "used" => discounts[r] = 1)
          /\ state[r] \in {"absent", "pending", "void"} => Clean(r)
      BY <2>1 DEF RewardsTellTheTruth, Clean
    <3>2. attached = r => Unresolved(r) BY <2>1 DEF OneAtATime, Unresolved
    <3> QED BY <2>1, <3>1, <3>2 DEF AppliesOnce, Fine
  <2> QED BY <2>1, <2>2, <2>3 DEF Settled
<1>2. ASSUME TypeInvariant, Settled, PollHolds PROVE ApplicationInvariant
  <2>1. \A r \in Rewards : Fine(r) BY <1>2 DEF Settled
  <2>2. RewardsTellTheTruth BY <2>1 DEF Fine, RewardsTellTheTruth, Clean
  <2>3. AppliesOnce BY <2>1 DEF Fine, AppliesOnce
  <2>4. OneAtATime
    <3> DEFINE unresolved == {r \in Rewards : state[r] \in Active /\ gen[r] > 0}
    <3>1. \A r, s \in unresolved : r = s BY <1>2 DEF Settled, OneUnresolved, Unresolved
    <3>2. attached \in Rewards => attached \in unresolved \ own
      BY <2>1 DEF Fine, Unresolved
    <3> QED BY <3>1, <3>2 DEF OneAtATime
  <2> QED BY <1>2, <2>2, <2>3, <2>4 DEF ApplicationInvariant, RewardInvariant, Settled
<1> QED BY <1>1, <1>2

LEMMA Typed ==
    ASSUME TypeInvariant
    PROVE  /\ now \in 1..MAX_TIME /\ now \in Nat \ {0} /\ REPLAY \in Nat
           /\ \A r \in Rewards : /\ gen[r] \in Nat /\ submitted[r] \in Nat /\ discounts[r] \in Nat
                                 /\ accepted[r].at \in Nat /\ accepted[r].gen \in Nat
           /\ flying \subseteq Rewards \X Nat
<1>1. now \in 1..MAX_TIME /\ flying \subseteq Rewards \X Nat BY DEF TypeInvariant
<1>2. now \in Nat \ {0} /\ REPLAY \in Nat BY <1>1, ReferralConstants
<1>3. /\ gen \in [Rewards -> 0..MAX_GENERATION] /\ submitted \in [Rewards -> Nat]
      /\ discounts \in [Rewards -> Nat] /\ accepted \in [Rewards -> [gen : Nat, at : Nat]]
  BY DEF TypeInvariant
<1>4. \A r \in Rewards : accepted[r] \in [gen : Nat, at : Nat] BY <1>3
<1> QED BY <1>1, <1>2, <1>3, <1>4

(* What the billing provider knows of a reward.                            *)
LEMMA CleanStays ==
    ASSUME UNCHANGED <<attached, discounts, flying>>, NEW r
    PROVE  Clean(r)' = Clean(r)
BY DEF Clean

Copied == \A r \in Rewards : invoiced'[r] \in {"no", invoice[r], invoiced[r]}

LEMMA RestCopies ==
    ASSUME Rest
    PROVE  Copied /\ pc' = "idle" /\ PollHolds'
BY DEF Rest, Copied, PollHolds, Unsent

-----------------------------------------------------------------------------
(* Ways the ledger and the provider move                                   *)

(* Nothing moves but what the poll has read.                               *)
LEMMA LedgerStill ==
    ASSUME TypeInvariant, Settled, Copied,
           UNCHANGED <<now, state, gen, submitted, attached, discounts, flying, accepted, invoice, own>>
    PROVE  Settled'
<1>1. ASSUME NEW r \in Rewards PROVE Fine(r)'
  <2>1. Fine(r) BY DEF Settled
  <2>2. Clean(r)' = Clean(r) /\ Unresolved(r)' = Unresolved(r) BY CleanStays DEF Unresolved
  <2>3. invoiced'[r] # "no" => invoice[r] # "no" \/ invoiced[r] # "no" BY DEF Copied
  <2> QED BY <2>1, <2>2, <2>3 DEF Fine
<1>2. OneUnresolved' BY DEF Settled, OneUnresolved, Unresolved
<1>3. SentWasClaimed' BY DEF Settled, SentWasClaimed
<1> QED BY <1>1, <1>2, <1>3 DEF Settled

(* The row of one reward changes.                                          *)
LEMMA RowChanges ==
    ASSUME TypeInvariant, Settled, Copied, NEW q \in Rewards, Fine(q)',
           \A r \in Rewards \ {q} :
               state'[r] = state[r] /\ gen'[r] = gen[r] /\ submitted'[r] = submitted[r],
           UNCHANGED <<now, attached, discounts, flying, accepted, invoice, own>>,
           gen[q] > 0 => gen'[q] > 0,
           Unresolved(q)' => \A r \in Rewards \ {q} : ~Unresolved(r)
    PROVE  Settled'
<1>1. \A r \in Rewards \ {q} : Unresolved(r)' = Unresolved(r) BY DEF Unresolved
<1>2. ASSUME NEW r \in Rewards, r # q PROVE Fine(r)'
  <2>1. Fine(r) BY DEF Settled
  <2>2. Clean(r)' = Clean(r) BY CleanStays
  <2>3. invoiced'[r] # "no" => invoice[r] # "no" \/ invoiced[r] # "no" BY DEF Copied
  <2>4. state'[r] = state[r] /\ gen'[r] = gen[r] /\ submitted'[r] = submitted[r]
        /\ Unresolved(r)' = Unresolved(r)
    BY <1>1, <1>2
  <2> QED BY <2>1, <2>2, <2>3, <2>4 DEF Fine
<1>3. OneUnresolved'
  <2> SUFFICES ASSUME NEW r \in Rewards, NEW s \in Rewards, Unresolved(r)', Unresolved(s)'
               PROVE  r = s
    BY DEF OneUnresolved
  <2>1. CASE r # q /\ s # q BY <1>1, <2>1 DEF Settled, OneUnresolved
  <2>2. CASE r = q /\ s # q BY <1>1, <2>2
  <2>3. CASE r # q /\ s = q BY <1>1, <2>3
  <2> QED BY <2>1, <2>2, <2>3
<1>4. SentWasClaimed'
  <2> SUFFICES ASSUME NEW k \in flying PROVE gen'[k[1]] > 0 BY DEF SentWasClaimed
  <2>1. gen[k[1]] > 0 /\ k[1] \in Rewards BY Typed DEF Settled, SentWasClaimed
  <2> QED BY <2>1
<1> QED BY <1>2, <1>3, <1>4 DEF Settled

(* A submitted application reaches the provider, or is on its way there.   *)
LEMMA SendingKeeps ==
    ASSUME TypeInvariant, Settled, Copied, NEW q \in Rewards,
           Lands(q) \/ UNCHANGED <<attached, accepted>>,
           flying' \subseteq flying \union {Key(q)},
           gen[q] > 0, state[q] = "applying" => submitted[q] # 0,
           state[q] \in Active \/ (state[q] = "used" /\ discounts[q] > 0),
           discounts[q] > 0 => now - submitted[q] < REPLAY,
           UNCHANGED <<now, state, gen, submitted, discounts, invoice, own>>
    PROVE  Settled'
<1>1. now \in Nat /\ REPLAY \in Nat /\ submitted[q] \in Nat /\ accepted[q].at \in Nat
      /\ gen[q] \in Nat /\ discounts[q] \in Nat /\ Fine(q)
      /\ accepted \in [Rewards -> [gen : Nat, at : Nat]]
  BY Typed DEF TypeInvariant, Settled
<1>2. ASSUME NEW r \in Rewards PROVE Unresolved(r)' = Unresolved(r) BY DEF Unresolved
<1>3. \/ UNCHANGED <<attached, accepted>>
      \/ /\ ~Remembered(q) /\ attached = None /\ attached' = q
         /\ accepted' = [accepted EXCEPT ![q] = [gen |-> gen[q], at |-> now]]
  BY DEF Lands
<1>4. ASSUME discounts[q] > 0 PROVE UNCHANGED <<attached, accepted>>
  <2>1. accepted[q].gen = gen[q] /\ submitted[q] <= accepted[q].at BY <1>1, <1>4 DEF Fine
  <2>2. Remembered(q) BY <1>1, <1>4, <2>1 DEF Remembered
  <2> QED BY <1>3, <2>2
<1>5. ASSUME NEW r \in Rewards, r # q PROVE Fine(r)'
  <2>1. Fine(r) BY DEF Settled
  <2>2. Clean(r) => Clean(r)'
    <3> SUFFICES ASSUME Clean(r) PROVE Clean(r)' OBVIOUS
    <3>1. attached' # r BY <1>3, <1>5 DEF Clean
    <3>2. \A k \in flying' : k[1] # r BY <1>5 DEF Clean, Key
    <3> QED BY <3>1, <3>2 DEF Clean
  <2>3. attached' = r => attached = r BY <1>3, <1>5
  <2>4. accepted'[r] = accepted[r] BY <1>1, <1>3, <1>5
  <2>5. invoiced'[r] # "no" => invoice[r] # "no" \/ invoiced[r] # "no" BY DEF Copied
  <2> QED BY <1>2, <2>1, <2>2, <2>3, <2>4, <2>5 DEF Fine
<1>6. Fine(q)'
  <2>1. state[q] \notin {"absent", "pending", "void"} BY DEF Active
  <2>2. attached' = q => attached = q \/ (discounts[q] = 0 /\ state[q] \in Active)
    <3>1. CASE discounts[q] > 0 BY <1>4, <3>1
    <3>2. CASE ~(discounts[q] > 0) BY <1>1, <3>2
    <3> QED BY <3>1, <3>2
  <2>3. attached' = q => discounts[q] = 0 /\ Unresolved(q)'
    BY <1>1, <1>2, <2>2 DEF Fine, Unresolved
  <2>4. attached' = q \/ discounts[q] > 0 =>
           accepted'[q].gen = gen[q] /\ submitted[q] <= accepted'[q].at
    <3>1. CASE UNCHANGED <<attached, accepted>> BY <1>1, <3>1 DEF Fine
    <3>2. CASE accepted' = [accepted EXCEPT ![q] = [gen |-> gen[q], at |-> now]]
      BY <1>1, <3>2 DEF Fine
    <3> QED BY <1>3, <3>1, <3>2
  <2>5. invoiced'[q] # "no" => invoice[q] # "no" \/ invoiced[q] # "no" BY DEF Copied
  <2> QED BY <1>1, <2>1, <2>3, <2>4, <2>5 DEF Fine
<1>7. OneUnresolved' BY <1>2 DEF Settled, OneUnresolved
<1>8. SentWasClaimed'
  <2> SUFFICES ASSUME NEW k \in flying' PROVE gen'[k[1]] > 0 BY DEF SentWasClaimed
  <2>1. CASE k \in flying BY <2>1 DEF Settled, SentWasClaimed
  <2>2. CASE k = Key(q) BY <2>2 DEF Key
  <2> QED BY <2>1, <2>2
<1> QED BY <1>5, <1>6, <1>7, <1>8 DEF Settled

(* The member's own purchase comes to light: it was never applied.         *)
LEMMA BindKeeps ==
    ASSUME TypeInvariant, Settled, Copied, Bind,
           UNCHANGED <<now, gen, submitted, attached, discounts, flying, accepted, invoice, own>>
    PROVE  /\ Settled'
           /\ \A r \in Rewards : gen[r] > 0 => state'[r] = state[r] /\ reason'[r] = reason[r]
<1> DEFINE exposed == {r \in own : state[r] \notin {"absent", "used", "void"}}
<1>1. /\ state' = [r \in Rewards |-> IF r \in exposed THEN "exception" ELSE state[r]]
      /\ reason' = [r \in Rewards |-> IF r \in exposed THEN "self" ELSE reason[r]]
  BY DEF Bind
<1>2. \A r \in Rewards : gen[r] > 0 => r \notin exposed BY DEF Settled, Fine
<1>3. \A r \in Rewards : r \in exposed => state[r] \notin {"absent", "used", "void"} OBVIOUS
<1> HIDE DEF exposed
<1>4. \A r \in Rewards : Unresolved(r)' = Unresolved(r)
  BY <1>1, <1>2 DEF Unresolved
<1>5. ASSUME NEW r \in Rewards PROVE Fine(r)'
  <2>1. Fine(r) BY DEF Settled
  <2>2. Clean(r)' = Clean(r) /\ Unresolved(r)' = Unresolved(r) BY <1>4, CleanStays
  <2>3. invoiced'[r] # "no" => invoice[r] # "no" \/ invoiced[r] # "no" BY DEF Copied
  <2>4. CASE r \in exposed
    <3>1. state'[r] = "exception" BY <1>1, <2>4
    <3> QED BY <2>1, <2>2, <2>3, <3>1 DEF Fine
  <2>5. CASE r \notin exposed
    <3>1. state'[r] = state[r] BY <1>1, <2>5
    <3> QED BY <2>1, <2>2, <2>3, <3>1 DEF Fine
  <2> QED BY <2>4, <2>5
<1>6. OneUnresolved' BY <1>4 DEF Settled, OneUnresolved
<1>7. SentWasClaimed' BY DEF Settled, SentWasClaimed
<1> QED BY <1>1, <1>2, <1>5, <1>6, <1>7 DEF Settled

-----------------------------------------------------------------------------
(* Types                                                                   *)

Reasons == {"", "self", "reversed", "unresolved"}
LedgerOK ==
    /\ state \in [Rewards -> {"absent", "pending", "used", "void"} \union Active]
    /\ reason \in [Rewards -> Reasons]
    /\ gen \in [Rewards -> 0..MAX_GENERATION]
    /\ lease \in [Rewards -> Nat] /\ submitted \in [Rewards -> Nat]
    /\ queue \in Seq(Rewards) /\ bound \in BOOLEAN
    /\ \A r \in Rewards : state[r] \in {"absent", "pending", "void"} =>
                             lease[r] = 0 /\ submitted[r] = 0
ProviderOK ==
    /\ purchase \in [Rewards -> Payments] /\ invoice \in [Rewards -> Payments]
    /\ attached \in Rewards \union {None, Other} /\ standing \in Standings
    /\ created \subseteq Rewards
    /\ accepted \in [Rewards -> [gen : Nat, at : Nat]]
    /\ flying \subseteq Rewards \X Nat
    /\ discounts \in [Rewards -> Nat]
PollOK ==
    /\ pc \in Steps /\ todo \in Seq(Rewards)
    /\ member \in [attached : Rewards \union {None, Other}, standing : Standings]
    /\ paid \in [Rewards -> Payments] /\ invoiced \in [Rewards -> Payments]
    /\ coupons \subseteq Rewards
SpentOK == own \subseteq Own /\ faults \in 0..MAX_FAULTS /\ changes \in 0..MAX_CHANGES

LEMMA TypeParts ==
    /\ TypeInvariant <=> now \in 1..MAX_TIME /\ LedgerOK /\ ProviderOK /\ PollOK /\ SpentOK
    /\ TypeInvariant' <=> now' \in 1..MAX_TIME /\ LedgerOK' /\ ProviderOK' /\ PollOK' /\ SpentOK'
BY DEF TypeInvariant, LedgerOK, ProviderOK, PollOK, SpentOK, Reasons

LEMMA LedgerStays == LedgerOK /\ UNCHANGED ledger => LedgerOK'
BY DEF LedgerOK, ledger, columns

LEMMA ProviderStays == ProviderOK /\ UNCHANGED provider => ProviderOK'
BY DEF ProviderOK, provider

LEMMA SpentStays ==
    ASSUME SpentOK, Fault \/ Change \/ UNCHANGED spent
    PROVE  SpentOK' /\ own' = own
<1>1. CASE UNCHANGED spent BY <1>1 DEF SpentOK, spent
<1>2. CASE Fault
  <2>1. faults' \in 0..MAX_FAULTS BY <1>2, ReferralConstants DEF Fault, SpentOK
  <2> QED BY <1>2, <2>1 DEF Fault, SpentOK
<1>3. CASE Change
  <2>1. changes' \in 0..MAX_CHANGES BY <1>3, ReferralConstants DEF Change, SpentOK
  <2> QED BY <1>3, <2>1 DEF Change, SpentOK
<1> QED BY <1>1, <1>2, <1>3

LEMMA PollStays ==
    ASSUME PollOK
    PROVE  /\ UNCHANGED poll => PollOK' /\ invoiced' = invoiced
           /\ Rest => PollOK'
           /\ \A step \in Steps : Goto(step) => PollOK' /\ invoiced' = invoiced /\ pc' = step
                                                /\ todo' = todo
           /\ todo # <<>> => job \in Rewards
           /\ todo # <<>> /\ NextReward => PollOK' /\ invoiced' = invoiced /\ pc' = pc
<1>1. UNCHANGED poll => PollOK' /\ invoiced' = invoiced BY DEF PollOK, poll
<1>2. ASSUME Rest PROVE PollOK'
  <2>1. todo' \in Seq(Rewards) BY <1>2, EmptySeq DEF Rest
  <2>2. member' \in [attached : Rewards \union {None, Other}, standing : Standings]
    BY <1>2 DEF Rest, Nothing, Standings
  <2>3. paid' \in [Rewards -> Payments] /\ invoiced' \in [Rewards -> Payments]
        /\ coupons' \subseteq Rewards /\ pc' \in Steps
    BY <1>2 DEF Rest, Payments, Steps
  <2> QED BY <2>1, <2>2, <2>3 DEF PollOK
<1>3. \A step \in Steps : Goto(step) => PollOK' /\ invoiced' = invoiced /\ pc' = step
                                        /\ todo' = todo
  BY DEF PollOK, Goto
<1>4. todo # <<>> => job \in Rewards /\ Tail(todo) \in Seq(Rewards)
  BY HeadTailProperties DEF PollOK, job
<1>5. todo # <<>> /\ NextReward => PollOK' /\ invoiced' = invoiced /\ pc' = pc
  BY <1>4 DEF PollOK, NextReward
<1> QED BY <1>1, <1>2, <1>3, <1>4, <1>5

(* One row is set.                                                         *)
Sets(q, s, why, g, until, at) ==
    /\ state' = [state EXCEPT ![q] = s] /\ reason' = [reason EXCEPT ![q] = why]
    /\ gen' = [gen EXCEPT ![q] = g] /\ lease' = [lease EXCEPT ![q] = until]
    /\ submitted' = [submitted EXCEPT ![q] = at]

LEMMA SetTypes ==
    ASSUME LedgerOK, NEW q \in Rewards, UNCHANGED <<queue, bound>>,
           NEW s \in {"used"} \union Active, NEW why \in Reasons, NEW g \in 0..MAX_GENERATION,
           NEW until \in Nat, NEW at \in Nat, Sets(q, s, why, g, until, at)
    PROVE  /\ LedgerOK'
           /\ state'[q] = s /\ gen'[q] = g /\ submitted'[q] = at
           /\ \A r \in Rewards \ {q} :
                 state'[r] = state[r] /\ gen'[r] = gen[r] /\ submitted'[r] = submitted[r]
<1>1. s \notin {"absent", "pending", "void"} BY DEF Active
<1> QED BY <1>1 DEF Sets, LedgerOK

-----------------------------------------------------------------------------
(* Steps                                                                   *)

Inv == TypeInvariant /\ Settled /\ PollHolds

LEMMA NothingHeld ==
    ASSUME pc' \in {"idle", "payments", "credit", "reversals", "reconcile", "claim"}
    PROVE  PollHolds'
BY DEF PollHolds, Unsent

(* The poll stands still while the world moves.                            *)
LEMMA PollKept ==
    ASSUME PollOK, PollHolds, UNCHANGED <<pc, todo, submitted>>,
           now' = now \/ pc \notin {"regain", "repost"},
           \A r \in Rewards : /\ state[r] = "applying" => state'[r] = "applying"
                              /\ Clean(r) => Clean(r)'
    PROVE  PollHolds'
<1>1. job' = job BY DEF job
<1>2. todo # <<>> => job \in Rewards BY PollStays
<1>3. Clean(job) /\ todo # <<>> => Clean(job)'
  <2>1. CASE todo # <<>>
    <3>1. PICK q \in Rewards : q = job /\ q = job' BY <1>1, <1>2, <2>1
    <3>2. Clean(q) => Clean(q)' BY <3>1
    <3>3. Clean(job)' = Clean(q)' BY <3>1 DEF Clean
    <3> QED BY <3>1, <3>2, <3>3
  <2> QED BY <2>1
<1> QED BY <1>1, <1>2, <1>3 DEF PollHolds, Unsent

(* Reading the provider, and what a read proves of the member.             *)
LEMMA ReadKeeps ==
    ASSUME Inv, ReadMember \/ ReadPayments \/ MemberView
    PROVE  Inv'
<1>1. now \in 1..MAX_TIME /\ LedgerOK /\ ProviderOK /\ PollOK /\ SpentOK /\ Settled /\ PollHolds
      /\ TypeInvariant
  BY TypeParts DEF Inv
<1>2. UNCHANGED <<now, provider>> BY DEF ReadMember, ReadPayments, MemberView
<1>3. ProviderOK' /\ UNCHANGED <<attached, discounts, flying, accepted, invoice>>
  BY <1>1, <1>2, ProviderStays DEF provider
<1>4. ASSUME Bind PROVE state' \in [Rewards -> {"absent", "pending", "used", "void"} \union Active]
                        /\ reason' \in [Rewards -> Reasons]
                        /\ bound' \in BOOLEAN
                        /\ \A r \in Rewards : state'[r] \in {"absent", "pending", "void"} =>
                              state[r] \in {"absent", "pending", "void"}
  BY <1>1, <1>4 DEF Bind, LedgerOK, Active, Reasons
<1>5. ASSUME Bind, UNCHANGED <<gen, lease, submitted, queue>> PROVE LedgerOK'
  BY <1>1, <1>4, <1>5 DEF LedgerOK
<1>6. CASE ReadMember
  <2>1. CASE Fault /\ UNCHANGED <<ledger, poll>>
    <3>1. SpentOK' /\ own' = own BY <1>1, <2>1, SpentStays
    <3>2. LedgerOK' /\ PollOK' /\ Copied BY <1>1, <2>1, LedgerStays, PollStays DEF Copied
    <3>3. Settled' BY <1>1, <1>2, <1>3, <2>1, <3>1, <3>2, LedgerStill DEF ledger, columns
    <3>4. pc' = "idle" BY <1>6, <2>1 DEF ReadMember, poll
    <3>5. PollHolds' BY <3>4, NothingHeld
    <3> QED BY <1>1, <1>2, <1>3, <3>1, <3>2, <3>3, <3>5, TypeParts DEF Inv
  <2>2. CASE /\ IF standing = "none" THEN UNCHANGED <<state, reason, bound>> ELSE Bind
             /\ member' = [attached |-> attached, standing |-> standing]
             /\ pc' = "payments"
             /\ UNCHANGED <<gen, lease, submitted, queue, todo, paid, invoiced, coupons, spent>>
    <3>1. SpentOK' /\ own' = own BY <1>1, <2>2, SpentStays
    <3>2. PollOK' BY <1>1, <2>2 DEF PollOK, ProviderOK, Steps
    <3>3. Copied BY <2>2 DEF Copied
    <3>4. LedgerOK'
      <4>1. CASE UNCHANGED <<state, reason, bound>> BY <1>1, <2>2, <4>1 DEF LedgerOK
      <4> QED BY <1>5, <2>2, <4>1
    <3>5. Settled'
      <4>1. CASE UNCHANGED state BY <1>1, <1>2, <1>3, <2>2, <3>1, <3>3, <4>1, LedgerStill
      <4>2. CASE Bind BY <1>1, <1>2, <1>3, <2>2, <3>1, <3>3, <4>2, BindKeeps
      <4> QED BY <2>2, <4>1, <4>2
    <3>6. PollHolds' BY <2>2, NothingHeld
    <3> QED BY <1>1, <1>2, <1>3, <3>1, <3>2, <3>4, <3>5, <3>6, TypeParts DEF Inv
  <2> QED BY <1>6, <2>1, <2>2 DEF ReadMember
<1>7. CASE ReadPayments
  <2>1. SpentOK' /\ own' = own BY <1>1, <1>7, SpentStays DEF ReadPayments
  <2>2. LedgerOK' /\ UNCHANGED <<state, gen, submitted>>
    BY <1>1, <1>7, LedgerStays DEF ReadPayments, ledger, columns
  <2>3. PollOK' /\ Copied /\ pc' \in {"idle", "credit"}
    <3>1. CASE Rest BY <1>1, <3>1, PollStays, RestCopies
    <3>2. CASE /\ paid' = purchase /\ invoiced' = invoice /\ coupons' = created
               /\ pc' = "credit" /\ UNCHANGED <<todo, member, spent>>
      BY <1>1, <3>2 DEF PollOK, ProviderOK, Copied, Steps
    <3> QED BY <1>7, <3>1, <3>2 DEF ReadPayments
  <2>4. Settled' BY <1>1, <1>2, <1>3, <2>1, <2>2, <2>3, LedgerStill
  <2>5. PollHolds' BY <2>3, NothingHeld
  <2> QED BY <1>1, <1>2, <1>3, <2>1, <2>2, <2>3, <2>4, <2>5, TypeParts DEF Inv
<1>8. CASE MemberView
  <2>1. Bind /\ UNCHANGED <<gen, lease, submitted, queue, poll, spent>> BY <1>8 DEF MemberView
  <2>2. SpentOK' /\ own' = own BY <1>1, <2>1, SpentStays
  <2>3. LedgerOK' BY <1>5, <2>1
  <2>4. PollOK' /\ Copied BY <1>1, <2>1, PollStays DEF Copied
  <2>5. /\ Settled'
        /\ \A r \in Rewards : gen[r] > 0 => state'[r] = state[r]
    BY <1>1, <1>2, <1>3, <2>1, <2>2, <2>4, BindKeeps
  <2>6. \A r \in Rewards : /\ state[r] = "applying" => state'[r] = "applying"
                           /\ Clean(r)' = Clean(r)
    BY <1>1, <1>3, <2>5, CleanStays DEF Settled, Fine
  <2>7. PollHolds' BY <1>1, <1>2, <2>1, <2>6, PollKept DEF poll
  <2> QED BY <1>1, <1>2, <1>3, <2>2, <2>3, <2>4, <2>5, <2>7, TypeParts DEF Inv
<1> QED BY <1>6, <1>7, <1>8

(* A friend's payment is credited.                                         *)
LEMMA CreditKeeps ==
    ASSUME Inv, Credit
    PROVE  Inv'
<1>1. now \in 1..MAX_TIME /\ LedgerOK /\ ProviderOK /\ PollOK /\ SpentOK /\ Settled /\ PollHolds
      /\ TypeInvariant
  BY TypeParts DEF Inv
<1>2. UNCHANGED <<now, columns, bound, provider, spent>> /\ Goto("reversals") BY DEF Credit
<1>3. ProviderOK' /\ UNCHANGED <<attached, discounts, flying, accepted, invoice, gen, submitted, reason, lease>>
  BY <1>1, <1>2, ProviderStays DEF provider, columns
<1>4. SpentOK' /\ own' = own BY <1>1, <1>2, SpentStays
<1>5. PollOK' /\ Copied /\ pc' = "reversals"
  BY <1>1, <1>2, PollStays DEF Copied, Steps
<1>6. PICK new \in SUBSET Rewards :
         /\ \A r \in new : state[r] = "absent"
         /\ state' = [r \in Rewards |-> IF r \in new THEN "pending" ELSE state[r]]
         /\ queue' \in Appended(queue, new)
  BY DEF Credit
<1>7. queue' \in Seq(Rewards)
  <2>1. IsFiniteSet(new) /\ Cardinality(new) \in Nat
    BY ReferralConstants, FS_Subset, FS_CardinalityType
  <2>2. queue \in Seq(Rewards) BY <1>1 DEF LedgerOK
  <2>3. ASSUME NEW t \in [1..Cardinality(new) -> new] PROVE queue \o t \in Seq(Rewards)
    <3>1. t \in Seq(Rewards) BY <2>1, SeqDef
    <3> QED BY <2>2, <3>1, ConcatProperties
  <2> QED BY <1>6, <2>2, <2>3 DEF Appended
<1>8. /\ \A r \in Rewards : r \in new => state'[r] = "pending" /\ state[r] = "absent"
      /\ \A r \in Rewards : r \notin new => state'[r] = state[r]
  BY <1>6
<1>9. LedgerOK' BY <1>1, <1>2, <1>3, <1>6, <1>7, <1>8 DEF LedgerOK
<1>10. \A r \in Rewards : Unresolved(r)' = Unresolved(r)
  BY <1>3, <1>8 DEF Unresolved, Active
<1>11. ASSUME NEW r \in Rewards PROVE Fine(r)'
  <2>1. Fine(r) /\ Clean(r)' = Clean(r) /\ Unresolved(r)' = Unresolved(r)
    BY <1>1, <1>3, <1>10, CleanStays DEF Settled
  <2>2. invoiced'[r] # "no" => invoice[r] # "no" \/ invoiced[r] # "no" BY <1>5 DEF Copied
  <2> QED BY <1>2, <1>3, <1>4, <1>8, <2>1, <2>2 DEF Fine
<1>12. Settled'
  BY <1>1, <1>3, <1>10, <1>11 DEF Settled, OneUnresolved, SentWasClaimed
<1>13. PollHolds' BY <1>5, NothingHeld
<1> QED BY <1>1, <1>2, <1>3, <1>4, <1>5, <1>9, <1>12, <1>13, TypeParts DEF Inv

(* A friend's payment is reversed.                                         *)
LEMMA ReversalsKeep ==
    ASSUME Inv, Reversals
    PROVE  Inv'
<1>1. now \in 1..MAX_TIME /\ LedgerOK /\ ProviderOK /\ PollOK /\ SpentOK /\ Settled /\ PollHolds
      /\ TypeInvariant
  BY TypeParts DEF Inv
<1>2. /\ UNCHANGED <<now, gen, lease, submitted, queue, bound, provider, member, paid, invoiced,
                     coupons, spent>>
      /\ pc' = "reconcile" /\ todo' = queue
  BY DEF Reversals
<1>3. ProviderOK' /\ UNCHANGED <<attached, discounts, flying, accepted, invoice>>
  BY <1>1, <1>2, ProviderStays DEF provider
<1>4. SpentOK' /\ own' = own BY <1>1, <1>2, SpentStays
<1>5. PollOK' /\ Copied BY <1>1, <1>2 DEF Copied, PollOK, LedgerOK, Steps
<1>6. /\ state' \in [Rewards -> {"absent", "pending", "used", "void"} \union Active]
      /\ reason' \in [Rewards -> Reasons]
      /\ \A r \in Rewards : \/ state'[r] = state[r]
                            \/ state[r] = "pending" /\ state'[r] = "void"
                            \/ state[r] \in Active /\ state'[r] = "exception"
  <2> DEFINE hit == {r \in Rewards : paid[r] = "reversed" /\ state[r] \notin {"absent", "void"}}
             After(r) == CASE state[r] = "pending" -> "void"
                           [] state[r] = "used" -> "used"
                           [] OTHER -> "exception"
  <2>1. /\ state' = [r \in Rewards |-> IF r \in hit THEN After(r) ELSE state[r]]
        /\ reason' = [r \in Rewards |-> IF r \in hit THEN "reversed" ELSE reason[r]]
    BY DEF Reversals
  <2>2. \A r \in Rewards : state[r] \in {"absent", "pending", "used", "void"} \union Active
    BY <1>1 DEF LedgerOK
  <2>3. \A r \in hit : \/ After(r) = state[r]
                       \/ state[r] = "pending" /\ After(r) = "void"
                       \/ state[r] \in Active /\ After(r) = "exception"
    BY <2>2
  <2>4. \A r \in hit : After(r) \in {"absent", "pending", "used", "void"} \union Active
    BY <2>2 DEF Active
  <2> HIDE DEF After
  <2>5. reason' \in [Rewards -> Reasons]
    BY <1>1, <2>1 DEF LedgerOK, Reasons
  <2> QED BY <2>1, <2>2, <2>3, <2>4, <2>5
<1>7. LedgerOK' BY <1>1, <1>2, <1>6 DEF LedgerOK, Active
<1>8. \A r \in Rewards : Unresolved(r)' = Unresolved(r)
  <2> SUFFICES ASSUME NEW r \in Rewards PROVE Unresolved(r)' = Unresolved(r) OBVIOUS
  <2>1. state'[r] \in Active <=> state[r] \in Active BY <1>6 DEF Active
  <2> QED BY <1>2, <2>1 DEF Unresolved
<1>9. ASSUME NEW r \in Rewards PROVE Fine(r)'
  <2>1. Fine(r) /\ Clean(r)' = Clean(r) /\ Unresolved(r)' = Unresolved(r)
    BY <1>1, <1>3, <1>8, CleanStays DEF Settled
  <2>2. /\ state'[r] = "used" => state[r] = "used"
        /\ state'[r] \in {"absent", "pending", "void"} => state[r] \in {"absent", "pending", "void"}
        /\ state'[r] = "applying" => state[r] = "applying"
    BY <1>6
  <2> QED BY <1>2, <1>3, <1>4, <2>1, <2>2 DEF Fine
<1>10. Settled'
  BY <1>1, <1>2, <1>3, <1>8, <1>9 DEF Settled, OneUnresolved, SentWasClaimed
<1>11. PollHolds' BY <1>2, NothingHeld
<1> QED BY <1>1, <1>2, <1>3, <1>4, <1>5, <1>7, <1>10, <1>11, TypeParts DEF Inv

(* An application goes on under another name.                              *)
LEMMA StaysActive ==
    ASSUME TypeInvariant, Settled, Copied, NEW q \in Rewards,
           state[q] \in Active, state'[q] \in {"applied", "exception"},
           \A r \in Rewards \ {q} : state'[r] = state[r],
           UNCHANGED <<now, gen, submitted, attached, discounts, flying, accepted, invoice, own>>
    PROVE  Settled'
<1>1. Fine(q) /\ Clean(q)' = Clean(q) /\ Unresolved(q)' = Unresolved(q)
  BY CleanStays DEF Settled, Unresolved, Active
<1>2. invoiced'[q] # "no" => invoice[q] # "no" \/ invoiced[q] # "no" BY DEF Copied
<1>3. Fine(q)' BY <1>1, <1>2 DEF Fine
<1>4. Unresolved(q)' => \A r \in Rewards \ {q} : ~Unresolved(r)
  BY <1>1 DEF Settled, OneUnresolved
<1> QED BY <1>3, <1>4, RowChanges

(* An application that never reached the provider is given back.           *)
LEMMA ReleasedKeeps ==
    ASSUME TypeInvariant, Settled, Copied, NEW q \in Rewards, state[q] = "applying", Clean(q),
           Released(q), UNCHANGED <<gen, queue, bound>>,
           UNCHANGED <<now, attached, discounts, flying, accepted, invoice, own>>
    PROVE  LedgerOK' /\ Settled'
<1>1. LedgerOK BY TypeParts
<1>2. gen[q] \in 0..MAX_GENERATION /\ gen' = [gen EXCEPT ![q] = gen[q]] BY <1>1 DEF LedgerOK
<1>3. /\ state' = [state EXCEPT ![q] = "pending"] /\ reason' = [reason EXCEPT ![q] = ""]
      /\ lease' = [lease EXCEPT ![q] = 0] /\ submitted' = [submitted EXCEPT ![q] = 0]
  BY DEF Released, Set
<1>4. /\ LedgerOK'
      /\ state'[q] = "pending" /\ submitted'[q] = 0 /\ gen'[q] = gen[q]
      /\ \A r \in Rewards \ {q} :
            state'[r] = state[r] /\ gen'[r] = gen[r] /\ submitted'[r] = submitted[r]
  <2>1. /\ state' \in [Rewards -> {"absent", "pending", "used", "void"} \union Active]
        /\ lease' \in [Rewards -> Nat] /\ submitted' \in [Rewards -> Nat]
    BY <1>1, <1>3 DEF LedgerOK
  <2>2. reason' \in [Rewards -> Reasons] BY <1>1, <1>3 DEF LedgerOK, Reasons
  <2>3. \A r \in Rewards : state'[r] \in {"absent", "pending", "void"} =>
                             lease'[r] = 0 /\ submitted'[r] = 0
    BY <1>1, <1>3 DEF LedgerOK
  <2>4. LedgerOK' BY <1>1, <2>1, <2>2, <2>3 DEF LedgerOK
  <2> QED BY <1>1, <1>3, <2>4 DEF LedgerOK
<1>5. Fine(q) /\ Clean(q)' BY CleanStays DEF Settled
<1>6. invoiced'[q] # "no" => invoice[q] # "no" \/ invoiced[q] # "no" BY DEF Copied
<1>7. now \in Nat /\ discounts[q] = 0 /\ attached # q BY Typed DEF Clean
<1>8. ~Unresolved(q)' BY <1>4 DEF Unresolved, Active
<1>9. Fine(q)' BY <1>4, <1>5, <1>6, <1>7, <1>8 DEF Fine
<1>10. Settled' BY <1>4, <1>8, <1>9, RowChanges
<1> QED BY <1>4, <1>10

LEMMA GiveBackKeeps ==
    ASSUME Inv, todo # <<>>, Clean(job), GiveBack(job),
           UNCHANGED <<now, attached, discounts, flying, accepted, invoice, own>>
    PROVE  LedgerOK' /\ PollOK' /\ Settled' /\ PollHolds'
<1>1. LedgerOK /\ PollOK /\ Settled /\ TypeInvariant BY TypeParts DEF Inv
<1>2. PICK q \in Rewards : q = job BY <1>1, PollStays
<1>3. PollOK' /\ Copied /\ PollHolds' BY <1>1, PollStays, RestCopies DEF GiveBack
<1>4. CASE state[q] = "applying"
  <2>1. Released(q) /\ UNCHANGED <<gen, queue, bound>> BY <1>2, <1>4 DEF GiveBack, Release
  <2> QED BY <1>1, <1>2, <1>3, <1>4, <2>1, ReleasedKeeps
<1>5. CASE state[q] # "applying"
  <2>1. UNCHANGED <<state, columns, queue, bound>> BY <1>2, <1>5 DEF GiveBack, Release
  <2>2. LedgerOK' BY <1>1, <2>1, LedgerStays DEF ledger
  <2>3. Settled' BY <1>1, <1>3, <2>1, LedgerStill DEF columns
  <2> QED BY <1>3, <2>2, <2>3
<1> QED BY <1>3, <1>4, <1>5

(* What became of an earlier application.                                  *)
LEMMA ReconcileKeeps ==
    ASSUME Inv, Reconcile
    PROVE  Inv'
<1>1. now \in 1..MAX_TIME /\ LedgerOK /\ ProviderOK /\ PollOK /\ SpentOK /\ Settled /\ PollHolds
      /\ TypeInvariant
  BY TypeParts DEF Inv
<1>2. pc = "reconcile" /\ todo # <<>> /\ UNCHANGED <<now, queue, bound, provider, spent>>
  BY DEF Reconcile
<1>3. ProviderOK' /\ UNCHANGED <<attached, discounts, flying, accepted, invoice>>
  BY <1>1, <1>2, ProviderStays DEF provider
<1>4. SpentOK' /\ own' = own BY <1>1, <1>2, SpentStays
<1>5. PICK q \in Rewards : q = job BY <1>1, <1>2, PollStays
<1>6. /\ NextReward => PollOK' /\ invoiced' = invoiced /\ pc' = "reconcile"
      /\ Goto("regain") => PollOK' /\ invoiced' = invoiced /\ pc' = "regain" /\ todo' = todo
  BY <1>1, <1>2, PollStays DEF Steps
<1>7. ASSUME NextReward PROVE PollOK' /\ Copied /\ PollHolds'
  <2>1. pc' = "reconcile" /\ invoiced' = invoiced /\ PollOK' BY <1>6, <1>7
  <2> QED BY <2>1, NothingHeld DEF Copied
<1>8. Fine(q) /\ Clean(q)' = Clean(q) BY <1>1, <1>3, CleanStays DEF Settled
<1>9. ASSUME LedgerOK', PollOK', Settled', PollHolds' PROVE Inv'
  BY <1>1, <1>2, <1>3, <1>4, <1>9, TypeParts DEF Inv
<1>10. ASSUME UNCHANGED <<state, columns>> PROVE LedgerOK' /\ (Copied => Settled')
  <2>1. LedgerOK' BY <1>1, <1>2, <1>10, LedgerStays DEF ledger
  <2>2. Copied => Settled' BY <1>1, <1>2, <1>3, <1>4, <1>10, LedgerStill DEF columns
  <2> QED BY <2>1, <2>2
<1>11. state[q] \notin Active \/ reason[q] = "self" => NextReward /\ UNCHANGED <<state, columns>>
  BY <1>5 DEF Reconcile
<1>12. CASE state[q] \notin Active \/ reason[q] = "self"
  BY <1>7, <1>9, <1>10, <1>11, <1>12
<1>13. CASE state[q] \in Active /\ reason[q] # "self"
  <2>1. CASE Unprepared(q) /\ Released(q) /\ NextReward /\ UNCHANGED gen
    <3>1. state[q] = "applying" /\ Clean(q) BY <1>8, <2>1 DEF Unprepared, Fine
    <3>2. LedgerOK' /\ Settled'
      BY <1>1, <1>2, <1>3, <1>4, <1>7, <2>1, <3>1, ReleasedKeeps
    <3> QED BY <1>7, <1>9, <2>1, <3>2
  <2>2. CASE /\ ~Unprepared(q) /\ Evidence(q) /\ Matching(q)
             /\ Set(q, "used", IF reason[q] = "reversed" THEN "reversed" ELSE "")
             /\ NextReward /\ lease' = [lease EXCEPT ![q] = 0] /\ UNCHANGED <<gen, submitted>>
    <3>1. PICK why \in Reasons : Set(q, "used", why) BY <2>2 DEF Reasons
    <3>2. /\ state' = [state EXCEPT ![q] = "used"] /\ reason' = [reason EXCEPT ![q] = why]
          /\ gen' = [gen EXCEPT ![q] = gen[q]] /\ lease' = [lease EXCEPT ![q] = 0]
          /\ submitted' = [submitted EXCEPT ![q] = submitted[q]]
          /\ gen[q] \in 0..MAX_GENERATION /\ submitted[q] \in Nat
      BY <1>1, <2>2, <3>1 DEF Set, LedgerOK
    <3>3. /\ LedgerOK' /\ state'[q] = "used"
          /\ \A r \in Rewards \ {q} :
                state'[r] = state[r] /\ gen'[r] = gen[r] /\ submitted'[r] = submitted[r]
      <4>1. PICK g \in 0..MAX_GENERATION : g = gen[q] BY <3>2
      <4>2. PICK n \in Nat : n = submitted[q] BY <3>2
      <4>3. PICK u \in {"used"}, until \in Nat : until = 0 OBVIOUS
      <4>4. Sets(q, u, why, g, until, n) BY <3>2, <4>1, <4>2, <4>3 DEF Sets
      <4>5. LedgerOK /\ UNCHANGED <<queue, bound>> BY <1>1, <1>2
      <4>6. /\ LedgerOK' /\ state'[q] = u /\ gen'[q] = g /\ submitted'[q] = n
            /\ \A r \in Rewards \ {q} :
                  state'[r] = state[r] /\ gen'[r] = gen[r] /\ submitted'[r] = submitted[r]
        BY <4>4, <4>5, SetTypes
      <4> QED BY <4>1, <4>2, <4>6
    <3>4. discounts[q] = 1 /\ attached # q
      <4>1. discounts[q] > 0 BY <1>8, <2>2 DEF Matching, Fine
      <4>2. discounts[q] \in Nat /\ discounts[q] <= 1 BY <1>1, <1>8, Typed DEF Fine
      <4>3. discounts[q] = 1 BY <4>1, <4>2
      <4>4. attached = q => discounts[q] = 0 BY <1>8 DEF Fine
      <4> QED BY <4>3, <4>4
    <3>5. ~Unresolved(q)' BY <3>3 DEF Unresolved, Active
    <3>6. Fine(q)' BY <1>2, <1>3, <1>4, <1>6, <1>8, <2>2, <3>3, <3>4, <3>5 DEF Fine
    <3>7. Settled' BY <1>1, <1>2, <1>3, <1>4, <1>7, <2>2, <3>3, <3>5, <3>6, RowChanges
    <3> QED BY <1>7, <1>9, <2>2, <3>3, <3>7
  <2>3. CASE /\ NextReward /\ UNCHANGED <<gen, submitted>>
             /\ \/ Set(q, "applied", "") /\ lease' = [lease EXCEPT ![q] = 0]
                \/ Set(q, "exception", "unresolved") /\ UNCHANGED lease
    <3>1. PICK s \in {"applied", "exception"}, why \in Reasons, until \in Nat :
             Set(q, s, why) /\ lease' = [lease EXCEPT ![q] = until]
      <4>1. lease[q] \in Nat /\ lease = [lease EXCEPT ![q] = lease[q]] BY <1>1 DEF LedgerOK
      <4> QED BY <2>3, <4>1 DEF Reasons
    <3>2. /\ state' = [state EXCEPT ![q] = s] /\ reason' = [reason EXCEPT ![q] = why]
          /\ gen' = [gen EXCEPT ![q] = gen[q]]
          /\ submitted' = [submitted EXCEPT ![q] = submitted[q]]
          /\ gen[q] \in 0..MAX_GENERATION /\ submitted[q] \in Nat
      BY <1>1, <2>3, <3>1 DEF Set, LedgerOK
    <3>3. /\ LedgerOK' /\ state'[q] = s
          /\ \A r \in Rewards \ {q} : state'[r] = state[r]
      <4>1. PICK g \in 0..MAX_GENERATION : g = gen[q] BY <3>2
      <4>2. PICK n \in Nat : n = submitted[q] BY <3>2
      <4>3. Sets(q, s, why, g, until, n) BY <3>1, <3>2, <4>1, <4>2 DEF Sets
      <4>4. LedgerOK /\ UNCHANGED <<queue, bound>> /\ s \in {"used"} \union Active
        BY <1>1, <1>2, <3>1 DEF Active
      <4> QED BY <4>3, <4>4, SetTypes
    <3>4. Settled' BY <1>1, <1>2, <1>3, <1>4, <1>7, <1>13, <2>3, <3>3, StaysActive
    <3> QED BY <1>7, <1>9, <2>3, <3>3, <3>4
  <2>4. CASE NextReward /\ UNCHANGED <<state, columns>>
    BY <1>7, <1>9, <1>10, <2>4
  <2>5. CASE /\ state[q] = "applying" /\ submitted[q] # 0 /\ Replayable(q)
             /\ Goto("regain") /\ UNCHANGED <<state, columns>>
    <3>1. pc' = "regain" /\ todo' = todo /\ PollOK' /\ invoiced' = invoiced BY <1>6, <2>5
    <3>2. PollHolds'
      BY <1>2, <1>5, <2>5, <3>1 DEF PollHolds, Unsent, job, columns, Replayable
    <3> QED BY <1>9, <1>10, <2>5, <3>1, <3>2 DEF Copied
  <2>6. \/ Unprepared(q) /\ Released(q) /\ NextReward /\ UNCHANGED gen
        \/ /\ ~Unprepared(q) /\ Evidence(q) /\ Matching(q)
           /\ Set(q, "used", IF reason[q] = "reversed" THEN "reversed" ELSE "")
           /\ NextReward /\ lease' = [lease EXCEPT ![q] = 0] /\ UNCHANGED <<gen, submitted>>
        \/ /\ NextReward /\ UNCHANGED <<gen, submitted>>
           /\ \/ Set(q, "applied", "") /\ lease' = [lease EXCEPT ![q] = 0]
              \/ Set(q, "exception", "unresolved") /\ UNCHANGED lease
              \/ UNCHANGED <<state, reason, lease>>
        \/ /\ state[q] = "applying" /\ submitted[q] # 0 /\ Replayable(q)
           /\ Goto("regain") /\ UNCHANGED <<state, reason, gen, lease, submitted>>
    BY <1>5, <1>13 DEF Reconcile
  <2> QED BY <2>1, <2>2, <2>3, <2>4, <2>5, <2>6 DEF columns
<1> QED BY <1>12, <1>13

(* Steps of the poll that change no row.                                   *)
LEMMA PollOnly ==
    ASSUME Inv, Reconciled \/ Regain \/ Crash
    PROVE  Inv'
<1>1. now \in 1..MAX_TIME /\ LedgerOK /\ ProviderOK /\ PollOK /\ SpentOK /\ Settled /\ PollHolds
      /\ TypeInvariant
  BY TypeParts DEF Inv
<1>2. UNCHANGED <<now, ledger, provider>> BY DEF Reconciled, Regain, Crash
<1>3. ProviderOK' /\ LedgerOK' BY <1>1, <1>2, ProviderStays, LedgerStays
<1>4. UNCHANGED <<state, gen, submitted, attached, discounts, flying, accepted, invoice>>
  BY <1>2 DEF provider, ledger, columns
<1>5. Fault \/ UNCHANGED spent BY DEF Reconciled, Regain, Crash, CheckMembership
<1>6. SpentOK' /\ own' = own BY <1>1, <1>5, SpentStays
<1>7. PollOK' /\ Copied /\ PollHolds'
  <2>1. CASE Rest BY <1>1, <2>1, PollStays, RestCopies
  <2>2. CASE Goto("claim")
    <3>1. PollOK' /\ invoiced' = invoiced /\ pc' = "claim" BY <1>1, <2>2, PollStays DEF Steps
    <3> QED BY <3>1, NothingHeld DEF Copied
  <2>3. CASE pc = "regain" /\ Goto("repost")
    <3>1. PollOK' /\ invoiced' = invoiced /\ pc' = "repost" /\ todo' = todo
      BY <1>1, <2>3, PollStays DEF Steps
    <3>2. PollHolds' BY <1>1, <1>2, <1>4, <2>3, <3>1 DEF PollHolds, Unsent, job
    <3> QED BY <3>1, <3>2 DEF Copied
  <2> QED BY <2>1, <2>2, <2>3 DEF Reconciled, Regain, Crash, CheckMembership
<1>8. Settled' BY <1>1, <1>2, <1>4, <1>6, <1>7, LedgerStill
<1> QED BY <1>1, <1>2, <1>3, <1>6, <1>7, <1>8, TypeParts DEF Inv

(* The POST, the first time and again.                                     *)
LEMMA PostKeeps ==
    ASSUME Inv, Submit \/ Repost
    PROVE  Inv'
<1>1. now \in 1..MAX_TIME /\ LedgerOK /\ ProviderOK /\ PollOK /\ SpentOK /\ Settled /\ PollHolds
      /\ TypeInvariant
  BY TypeParts DEF Inv
<1>2. pc \in {"post", "repost"} /\ UNCHANGED <<now, ledger, purchase, standing, created, invoice, discounts>>
  BY DEF Submit, Repost, Post
<1>3. PICK q \in Rewards : q = job BY <1>1, <1>2, PollStays DEF PollHolds, Unsent
<1>4. /\ todo # <<>> /\ state[q] = "applying" /\ submitted[q] # 0
      /\ pc = "post" => Clean(q)
      /\ pc = "repost" => now - submitted[q] < REPLAY
  BY <1>1, <1>2, <1>3 DEF PollHolds, Unsent
<1>5. LedgerOK' /\ UNCHANGED <<state, gen, submitted>>
  BY <1>1, <1>2, LedgerStays DEF ledger, columns
<1>6. gen[q] > 0 /\ gen[q] \in Nat /\ now \in Nat BY <1>1, <1>4, Typed DEF Settled, Fine
<1>7. /\ Lands(q) \/ UNCHANGED <<attached, accepted>>
      /\ flying' = flying \/ flying' = flying \union {Key(q)}
      /\ Fault \/ UNCHANGED spent
  BY <1>3 DEF Submit, Repost, Post
<1>8. \/ Rest
      \/ pc = "post" /\ Goto("acked")
      \/ pc = "repost" /\ Goto("reacked")
      \/ pc = "post" /\ Goto("rejected") /\ UNCHANGED <<attached, flying>>
  BY DEF Submit, Repost, Post
<1>9. SpentOK' /\ own' = own BY <1>1, <1>7, SpentStays
<1>10. PollOK' /\ Copied
  <2>1. CASE Rest BY <1>1, <2>1, PollStays, RestCopies
  <2>2. CASE \E step \in {"acked", "reacked", "rejected"} : Goto(step)
    BY <1>1, <2>2, PollStays DEF Copied, Steps
  <2> QED BY <1>8, <2>1, <2>2
<1>11. PollHolds'
  <2>1. CASE Rest BY <2>1, RestCopies
  <2>2. CASE pc' \in {"acked", "reacked"} /\ todo' = todo
    BY <1>3, <1>4, <1>5, <2>2 DEF PollHolds, Unsent, job
  <2>3. CASE pc = "post" /\ pc' = "rejected" /\ todo' = todo /\ UNCHANGED <<attached, flying>>
    <3>1. UNCHANGED <<attached, discounts, flying>> BY <1>2, <2>3
    <3>2. Clean(q)' BY <1>4, <2>3, <3>1, CleanStays
    <3>3. job' = q BY <1>3, <2>3 DEF job
    <3>4. Clean(job)' BY <3>2, <3>3 DEF Clean
    <3> QED BY <1>3, <1>4, <1>5, <2>3, <3>3, <3>4 DEF PollHolds, Unsent
  <2> QED BY <1>8, <2>1, <2>2, <2>3 DEF Goto
<1>12. ProviderOK'
  <2>1. CASE UNCHANGED <<attached, accepted>> BY <1>1, <1>2, <1>6, <1>7, <2>1 DEF ProviderOK, Key
  <2>2. CASE attached' = q /\ accepted' = [accepted EXCEPT ![q] = [gen |-> gen[q], at |-> now]]
    BY <1>1, <1>2, <1>6, <1>7, <2>2 DEF ProviderOK, Key
  <2> QED BY <1>7, <2>1, <2>2 DEF Lands
<1>13. state[q] \in Active BY <1>4 DEF Active
<1>14. discounts[q] > 0 => now - submitted[q] < REPLAY
  <2>1. CASE pc = "post"
    <3>1. discounts[q] = 0 BY <1>4, <2>1 DEF Clean
    <3> QED BY <3>1
  <2>2. CASE pc = "repost" BY <1>4, <2>2
  <2> QED BY <1>2, <2>1, <2>2
<1>15. flying' \subseteq flying \union {Key(q)} BY <1>7
<1>16. Settled'
  BY <1>1, <1>2, <1>4, <1>5, <1>6, <1>7, <1>9, <1>10, <1>13, <1>14, <1>15, SendingKeeps
<1> QED BY <1>1, <1>2, <1>5, <1>9, <1>10, <1>11, <1>12, <1>16, TypeParts DEF Inv

(* An acknowledged application is recorded.                                *)
LEMMA AckedKeeps ==
    ASSUME Inv, Reacked \/ MarkApplied
    PROVE  Inv'
<1>1. now \in 1..MAX_TIME /\ LedgerOK /\ ProviderOK /\ PollOK /\ SpentOK /\ Settled /\ PollHolds
      /\ TypeInvariant
  BY TypeParts DEF Inv
<1>2. pc \in {"acked", "reacked"} /\ UNCHANGED <<now, provider, spent>> BY DEF Reacked, MarkApplied
<1>3. PICK q \in Rewards : q = job BY <1>1, <1>2, PollStays DEF PollHolds
<1>4. todo # <<>> /\ state[q] = "applying" BY <1>1, <1>2, <1>3 DEF PollHolds
<1>5. ProviderOK' /\ UNCHANGED <<attached, discounts, flying, accepted, invoice>>
  BY <1>1, <1>2, ProviderStays DEF provider
<1>6. SpentOK' /\ own' = own BY <1>1, <1>2, SpentStays
<1>7. PollOK' /\ Copied /\ PollHolds'
  <2>1. CASE Rest BY <1>1, <2>1, PollStays, RestCopies
  <2>2. CASE pc' = "reconcile" /\ todo' = Tail(todo) /\ UNCHANGED <<member, paid, invoiced, coupons>>
    <3>1. todo' \in Seq(Rewards) BY <1>1, <1>4, <2>2, HeadTailProperties DEF PollOK
    <3>2. PollOK' BY <1>1, <2>2, <3>1 DEF PollOK, Steps
    <3> QED BY <2>2, <3>2, NothingHeld DEF Copied
  <2> QED BY <2>1, <2>2 DEF Reacked, MarkApplied
<1>8. CASE UNCHANGED ledger
  <2>1. LedgerOK' BY <1>1, <1>8, LedgerStays
  <2>2. Settled' BY <1>1, <1>2, <1>5, <1>6, <1>7, <1>8, LedgerStill DEF ledger, columns
  <2> QED BY <1>1, <1>2, <1>5, <1>6, <1>7, <2>1, <2>2, TypeParts DEF Inv
<1>9. CASE /\ Set(q, "applied", "") /\ lease' = [lease EXCEPT ![q] = 0]
           /\ UNCHANGED <<gen, submitted, queue, bound>>
  <2>1. PICK why \in Reasons : /\ Set(q, "applied", why) /\ lease' = [lease EXCEPT ![q] = 0]
                               /\ UNCHANGED <<gen, submitted, queue, bound>>
    BY <1>9 DEF Reasons
  <2>2. /\ state' = [state EXCEPT ![q] = "applied"] /\ reason' = [reason EXCEPT ![q] = why]
        /\ gen' = [gen EXCEPT ![q] = gen[q]] /\ lease' = [lease EXCEPT ![q] = 0]
        /\ submitted' = [submitted EXCEPT ![q] = submitted[q]]
        /\ gen[q] \in 0..MAX_GENERATION /\ submitted[q] \in Nat
    BY <1>1, <2>1 DEF Set, LedgerOK
  <2>3. /\ LedgerOK' /\ state'[q] = "applied"
        /\ \A r \in Rewards \ {q} : state'[r] = state[r]
    <3>1. PICK g \in 0..MAX_GENERATION : g = gen[q] BY <2>2
    <3>2. PICK n \in Nat : n = submitted[q] BY <2>2
    <3>3. PICK s \in Active, until \in Nat : s = "applied" /\ until = 0 BY DEF Active
    <3>4. Sets(q, s, why, g, until, n) BY <2>2, <3>1, <3>2, <3>3 DEF Sets
    <3>5. LedgerOK /\ UNCHANGED <<queue, bound>> BY <1>1, <2>1
    <3>6. LedgerOK' /\ state'[q] = s /\ \A r \in Rewards \ {q} : state'[r] = state[r]
      BY <3>4, <3>5, SetTypes
    <3> QED BY <3>3, <3>6
  <2>4. state[q] \in Active BY <1>4 DEF Active
  <2>5. Settled' BY <1>1, <1>2, <1>5, <1>6, <1>7, <2>1, <2>3, <2>4, StaysActive
  <2> QED BY <1>1, <1>2, <1>5, <1>6, <1>7, <2>3, <2>5, TypeParts DEF Inv
<1>10. \/ UNCHANGED ledger
       \/ /\ Set(q, "applied", "") /\ lease' = [lease EXCEPT ![q] = 0]
          /\ UNCHANGED <<gen, submitted, queue, bound>>
  BY <1>3, <1>4 DEF Reacked, MarkApplied
<1> QED BY <1>8, <1>9, <1>10

(* The oldest pending reward is claimed when nothing is unresolved.        *)
LEMMA ClaimKeeps ==
    ASSUME Inv, Claim
    PROVE  Inv'
<1>1. now \in 1..MAX_TIME /\ LedgerOK /\ ProviderOK /\ PollOK /\ SpentOK /\ Settled /\ PollHolds
      /\ TypeInvariant
  BY TypeParts DEF Inv
<1>2. pc = "claim" /\ UNCHANGED <<now, queue, bound, provider, spent>> BY DEF Claim
<1>3. ProviderOK' /\ UNCHANGED <<attached, discounts, flying, accepted, invoice>>
  BY <1>1, <1>2, ProviderStays DEF provider
<1>4. SpentOK' /\ own' = own BY <1>1, <1>2, SpentStays
<1>5. CASE Rest /\ UNCHANGED <<state, columns>>
  <2>1. PollOK' /\ Copied /\ PollHolds' BY <1>1, <1>5, PollStays, RestCopies
  <2>2. LedgerOK' BY <1>1, <1>2, <1>5, LedgerStays DEF ledger
  <2>3. Settled' BY <1>1, <1>2, <1>3, <1>4, <1>5, <2>1, LedgerStill DEF columns
  <2> QED BY <1>1, <1>2, <1>3, <1>4, <2>1, <2>2, <2>3, TypeParts DEF Inv
<1>6. CASE ~(Rest /\ UNCHANGED <<state, columns>>)
  <2> DEFINE first == CHOOSE i \in Ready : \A j \in Ready : i <= j
  <2>1. /\ Busy = {} /\ Ready # {}
        /\ \E r : /\ r = queue[first] /\ gen[r] < MAX_GENERATION /\ now + REPLAY <= MAX_TIME
                  /\ Set(r, "applying", "")
                  /\ gen' = [gen EXCEPT ![r] = @ + 1]
                  /\ lease' = [lease EXCEPT ![r] = now + LEASE]
                  /\ submitted' = [submitted EXCEPT ![r] = 0]
                  /\ pc' = "promo" /\ todo' = <<r>> /\ UNCHANGED <<member, paid, invoiced, coupons>>
    BY <1>6 DEF Claim
  <2>2. first \in Ready
    <3>1. Ready \subseteq 1..Len(queue) /\ Len(queue) \in Nat
      BY <1>1, LenProperties DEF Ready, LedgerOK
    <3>2. \E i \in Ready : \A j \in Ready : i <= j
      <4>1. \A n \in Nat : \A T \in SUBSET (1..n) : T # {} => \E i \in T : \A j \in T : i <= j
        <5> SUFFICES ASSUME NEW n \in Nat, NEW T \in SUBSET (1..n), T # {}
                     PROVE  \E i \in T : \A j \in T : i <= j
          OBVIOUS
        <5>1. T \in SUBSET Nat OBVIOUS
        <5>2. \E i \in T : \A j \in T : ~(<<j, i>> \in OpToRel(<, Nat))
          BY <5>1, NatLessThanWellFounded, WFMin
        <5>3. PICK i \in T : \A j \in T : ~(j < i) BY <5>1, <5>2 DEF OpToRel
        <5>4. \A j \in T : i <= j BY <5>1, <5>3
        <5> QED BY <5>4
      <4> QED BY <2>1, <3>1, <4>1
    <3> QED BY <3>2
  <2>3. queue[first] \in Rewards /\ state[queue[first]] = "pending" /\ queue[first] \notin own
    BY <1>1, <2>2, ElementOfSeq, LenProperties DEF Ready, LedgerOK
  <2>4. PICK q \in Rewards :
           /\ gen[q] < MAX_GENERATION
           /\ \E why \in Reasons : Set(q, "applying", why)
           /\ gen' = [gen EXCEPT ![q] = gen[q] + 1]
           /\ lease' = [lease EXCEPT ![q] = now + LEASE]
           /\ submitted' = [submitted EXCEPT ![q] = 0]
           /\ pc' = "promo" /\ todo' = <<q>> /\ UNCHANGED <<member, paid, invoiced, coupons>>
           /\ state[q] = "pending" /\ q \notin own
    BY <2>1, <2>3 DEF Reasons
  <2> HIDE DEF first
  <2>5. PICK why \in Reasons : Set(q, "applying", why) BY <2>4
  <2>6. /\ gen[q] + 1 \in 0..MAX_GENERATION /\ now + LEASE \in Nat /\ now \in Nat
        /\ gen[q] \in Nat /\ gen[q] + 1 > 0
    <3>1. gen[q] \in Nat /\ now \in Nat /\ MAX_GENERATION \in Nat /\ LEASE \in Nat
      BY <1>1, Typed, ReferralConstants
    <3>2. gen[q] + 1 \in 0..MAX_GENERATION /\ now + LEASE \in Nat /\ gen[q] + 1 > 0
      BY <2>4, <3>1
    <3> QED BY <3>1, <3>2
  <2>7. state' = [state EXCEPT ![q] = "applying"] /\ reason' = [reason EXCEPT ![q] = why]
    BY <2>5 DEF Set
  <2>8. /\ LedgerOK' /\ state'[q] = "applying" /\ gen'[q] = gen[q] + 1 /\ submitted'[q] = 0
        /\ \A r \in Rewards \ {q} :
              state'[r] = state[r] /\ gen'[r] = gen[r] /\ submitted'[r] = submitted[r]
    <3>1. PICK g \in 0..MAX_GENERATION, until \in Nat, n \in Nat :
             g = gen[q] + 1 /\ until = now + LEASE /\ n = 0
      BY <2>6
    <3>2. PICK s : s = "applying" OBVIOUS
    <3>3. Sets(q, s, why, g, until, n) BY <2>4, <2>7, <3>1, <3>2 DEF Sets
    <3>4. s \in {"used"} \union Active BY <3>2 DEF Active
    <3>5. LedgerOK /\ UNCHANGED <<queue, bound>> BY <1>1, <1>2
    <3>6. /\ LedgerOK' /\ state'[q] = s /\ gen'[q] = g /\ submitted'[q] = n
          /\ \A r \in Rewards \ {q} :
                state'[r] = state[r] /\ gen'[r] = gen[r] /\ submitted'[r] = submitted[r]
      BY <3>3, <3>4, <3>5, SetTypes
    <3> QED BY <3>1, <3>2, <3>6
  <2>9. PollOK' /\ Copied /\ job' = q /\ todo' # <<>>
    <3>1. <<q>> \in Seq(Rewards) /\ Head(<<q>>) = q /\ <<q>> # <<>> OBVIOUS
    <3>2. PollOK' BY <1>1, <2>4, <3>1 DEF PollOK, Steps
    <3> QED BY <2>4, <3>1, <3>2 DEF Copied, job
  <2>10. Fine(q) /\ Clean(q) /\ Clean(q)' BY <1>1, <1>3, <2>4, CleanStays DEF Settled, Fine
  <2>11. discounts[q] = 0 /\ attached # q BY <2>10 DEF Clean
  <2>12. invoiced'[q] # "no" => invoice[q] # "no" \/ invoiced[q] # "no" BY <2>9 DEF Copied
  <2>13. Fine(q)'
    BY <1>2, <1>3, <1>4, <2>4, <2>6, <2>8, <2>10, <2>11, <2>12 DEF Fine
  <2>14. \A r \in Rewards : ~Unresolved(r) BY <2>1 DEF Busy, Unresolved
  <2>15. gen'[q] > 0 BY <2>6, <2>8
  <2>16. Settled' BY <1>1, <1>2, <1>3, <1>4, <2>8, <2>9, <2>13, <2>14, <2>15, RowChanges
  <2>17. PollHolds'
    <3>1. Clean(job)' BY <2>9, <2>10 DEF Clean
    <3> QED BY <2>4, <2>8, <2>9, <3>1 DEF PollHolds, Unsent
  <2> QED BY <1>1, <1>2, <1>3, <1>4, <2>8, <2>9, <2>16, <2>17, TypeParts DEF Inv
<1> QED BY <1>5, <1>6

(* An application on its way to the POST; giving it back is safe.          *)
LEMMA UnsentKeeps ==
    ASSUME Inv, EnsurePromo \/ MarkSubmission \/ Check \/ Rejected
    PROVE  Inv'
<1>1. now \in 1..MAX_TIME /\ LedgerOK /\ ProviderOK /\ PollOK /\ SpentOK /\ Settled /\ PollHolds
      /\ TypeInvariant
  BY TypeParts DEF Inv
<1>2. /\ pc \in {"promo", "mark", "check", "rejected"}
      /\ UNCHANGED <<now, purchase, attached, standing, invoice, accepted, flying, discounts>>
  BY DEF EnsurePromo, MarkSubmission, Check, CheckMembership, Rejected, provider
<1>3. PICK q \in Rewards : q = job BY <1>1, <1>2, PollStays DEF PollHolds, Unsent
<1>4. /\ todo # <<>> /\ state[q] = "applying" /\ Clean(q) /\ Clean(job)
      /\ (pc = "check" => submitted[q] # 0)
  BY <1>1, <1>2, <1>3 DEF PollHolds, Unsent
<1>5. created' \in {created, created \union {q}}
  BY <1>3 DEF EnsurePromo, MarkSubmission, Check, Rejected, provider
<1>6. ProviderOK' BY <1>1, <1>2, <1>5 DEF ProviderOK
<1>7. Fault \/ UNCHANGED spent
  BY DEF EnsurePromo, MarkSubmission, Check, CheckMembership, Rejected
<1>8. SpentOK' /\ own' = own BY <1>1, <1>7, SpentStays
<1>9. Clean(q)' BY <1>2, <1>4, CleanStays
<1>10. CASE GiveBack(job)
  <2>1. LedgerOK' /\ PollOK' /\ Settled' /\ PollHolds' BY <1>2, <1>4, <1>8, <1>10, GiveBackKeeps
  <2> QED BY <1>1, <1>2, <1>6, <1>8, <2>1, TypeParts DEF Inv
<1>11. CASE pc = "promo" /\ Goto("mark") /\ UNCHANGED ledger
  <2>1. PollOK' /\ invoiced' = invoiced /\ pc' = "mark" /\ todo' = todo
    BY <1>1, <1>11, PollStays DEF Steps
  <2>2. LedgerOK' /\ UNCHANGED <<state, gen, submitted>>
    BY <1>1, <1>11, LedgerStays DEF ledger, columns
  <2>3. job' = q BY <1>3, <2>1 DEF job
  <2>4. Clean(job)' BY <1>9, <2>3 DEF Clean
  <2>5. PollHolds' BY <1>4, <2>1, <2>2, <2>3, <2>4 DEF PollHolds, Unsent
  <2>6. Settled' BY <1>1, <1>2, <1>8, <2>1, <2>2, LedgerStill DEF Copied
  <2> QED BY <1>1, <1>2, <1>6, <1>8, <2>1, <2>2, <2>5, <2>6, TypeParts DEF Inv
<1>12. CASE pc = "check" /\ Goto("post") /\ UNCHANGED ledger
  <2>1. PollOK' /\ invoiced' = invoiced /\ pc' = "post" /\ todo' = todo
    BY <1>1, <1>12, PollStays DEF Steps
  <2>2. LedgerOK' /\ UNCHANGED <<state, gen, submitted>>
    BY <1>1, <1>12, LedgerStays DEF ledger, columns
  <2>3. job' = q BY <1>3, <2>1 DEF job
  <2>4. Clean(job)' BY <1>9, <2>3 DEF Clean
  <2>5. PollHolds' BY <1>4, <1>12, <2>1, <2>2, <2>3, <2>4 DEF PollHolds, Unsent
  <2>6. Settled' BY <1>1, <1>2, <1>8, <2>1, <2>2, LedgerStill DEF Copied
  <2> QED BY <1>1, <1>2, <1>6, <1>8, <2>1, <2>2, <2>5, <2>6, TypeParts DEF Inv
<1>13. CASE /\ submitted' = [submitted EXCEPT ![q] = now] /\ Goto("check")
            /\ UNCHANGED <<state, reason, gen, lease, queue, bound>>
  <2>1. PollOK' /\ invoiced' = invoiced /\ pc' = "check" /\ todo' = todo
    BY <1>1, <1>13, PollStays DEF Steps
  <2>2. now \in Nat \ {0} BY <1>1, Typed
  <2>3. /\ submitted'[q] = now /\ \A r \in Rewards \ {q} : submitted'[r] = submitted[r]
        /\ submitted' \in [Rewards -> Nat]
    BY <1>1, <1>13, <2>2 DEF LedgerOK
  <2>4. LedgerOK'
    <3>1. \A r \in Rewards : state'[r] \in {"absent", "pending", "void"} =>
             lease'[r] = 0 /\ submitted'[r] = 0
      BY <1>1, <1>4, <1>13, <2>3 DEF LedgerOK
    <3> QED BY <1>1, <1>13, <2>3, <3>1 DEF LedgerOK
  <2>5. job' = q BY <1>3, <2>1 DEF job
  <2>6. Clean(job)' BY <1>9, <2>5 DEF Clean
  <2>7. PollHolds' BY <1>4, <1>13, <2>1, <2>2, <2>3, <2>5, <2>6 DEF PollHolds, Unsent
  <2>8. discounts[q] = 0 /\ attached # q /\ Fine(q) BY <1>1, <1>4 DEF Clean, Settled
  <2>9. Unresolved(q)' = Unresolved(q) BY <1>13 DEF Unresolved
  <2>10. now <= now BY <2>2
  <2>11. Fine(q)' BY <1>2, <1>8, <1>9, <1>13, <2>1, <2>3, <2>8, <2>9, <2>10 DEF Fine
  <2>12. Unresolved(q)' => \A r \in Rewards \ {q} : ~Unresolved(r)
    BY <1>1, <2>9 DEF Settled, OneUnresolved
  <2>13. Settled' BY <1>1, <1>2, <1>8, <1>13, <2>1, <2>3, <2>11, <2>12, RowChanges DEF Copied
  <2> QED BY <1>1, <1>2, <1>6, <1>8, <2>1, <2>4, <2>7, <2>13, TypeParts DEF Inv
<1> QED BY <1>3, <1>10, <1>11, <1>12, <1>13
    DEF EnsurePromo, MarkSubmission, Check, CheckMembership, Rejected

(* Payments, invoices, cancellations, other promotions and time.           *)
LEMMA WorldKeeps ==
    ASSUME Inv,
           \/ Bill \/ Vanish \/ Tick \/ OtherPromo
           \/ \E r \in Rewards : Purchase(r) \/ Reverse(r) \/ Refund(r)
           \/ \E s \in Standings : SetStanding(s)
    PROVE  Inv'
<1>1. now \in 1..MAX_TIME /\ LedgerOK /\ ProviderOK /\ PollOK /\ SpentOK /\ Settled /\ PollHolds
      /\ TypeInvariant
  BY TypeParts DEF Inv
<1>2. /\ UNCHANGED <<ledger, poll, created, accepted>>
      /\ Change \/ UNCHANGED spent
      /\ now' = now \/ (now' = now + 1 /\ now < MAX_TIME /\ pc \notin {"regain", "repost"})
  BY DEF Bill, Vanish, Tick, OtherPromo, Purchase, Reverse, Refund, SetStanding, world, provider
<1>3. SpentOK' /\ own' = own BY <1>1, <1>2, SpentStays
<1>4. LedgerOK' /\ PollOK' /\ invoiced' = invoiced /\ UNCHANGED <<state, gen, submitted, pc, todo>>
  BY <1>1, <1>2, LedgerStays, PollStays DEF ledger, columns, poll
<1>5. now \in Nat /\ now' \in Nat /\ now <= now' /\ now' \in 1..MAX_TIME
  <2>1. MAX_TIME \in Nat /\ now \in 1..MAX_TIME BY <1>1, ReferralConstants
  <2> QED BY <1>2, <2>1
<1>6. \A r \in Rewards : Unresolved(r)' = Unresolved(r) BY <1>4 DEF Unresolved
<1>7. \A r \in Rewards : submitted[r] \in Nat /\ discounts[r] \in Nat BY <1>1, Typed
<1>8. CASE Bill /\ attached \in Rewards
  <2>1. /\ attached' = None /\ invoice' = [invoice EXCEPT ![attached] = "paid"]
        /\ discounts' = [discounts EXCEPT ![attached] = discounts[attached] + 1]
        /\ UNCHANGED <<now, purchase, standing, flying>>
    BY <1>8 DEF Bill, world
  <2>2. PICK q \in Rewards : q = attached BY <1>8
  <2>3. discounts[q] = 0 /\ Unresolved(q) /\ Fine(q) BY <1>1, <2>2 DEF Settled, Fine
  <2>4. /\ discounts' \in [Rewards -> Nat] /\ discounts'[q] = 1 /\ invoice'[q] = "paid"
        /\ \A r \in Rewards \ {q} : discounts'[r] = discounts[r] /\ invoice'[r] = invoice[r]
        /\ invoice' \in [Rewards -> Payments]
    BY <1>1, <1>7, <2>1, <2>2, <2>3 DEF ProviderOK, Payments
  <2>5. ProviderOK' BY <1>1, <1>2, <2>1, <2>4 DEF ProviderOK
  <2>6. None \notin Rewards BY ReferralConstants
  <2>7. \A r \in Rewards : Clean(r) => r # q BY <2>2 DEF Clean
  <2>8. \A r \in Rewards : Clean(r) => Clean(r)'
    BY <2>1, <2>4, <2>6, <2>7 DEF Clean
  <2>9. ASSUME NEW r \in Rewards, r # q PROVE Fine(r)'
    <3>1. Fine(r) /\ (Clean(r) => Clean(r)') BY <1>1, <2>8 DEF Settled
    <3>2. attached' # r /\ discounts'[r] = discounts[r] /\ invoice'[r] = invoice[r]
      BY <2>1, <2>4, <2>6, <2>9
    <3> QED BY <1>2, <1>3, <1>4, <2>1, <3>1, <3>2 DEF Fine
  <2>10. Fine(q)'
    <3>1. state[q] \notin {"absent", "pending", "void", "used"} BY <2>3 DEF Unresolved, Active
    <3>2. state[q] = "applying" => submitted[q] # 0 BY <2>2, <2>3 DEF Fine, Clean
    <3>3. attached' # q BY <2>1, <2>6
    <3>4. accepted[q].gen = gen[q] /\ submitted[q] <= accepted[q].at BY <2>2, <2>3 DEF Fine
    <3> QED BY <1>2, <1>3, <1>4, <2>1, <2>3, <2>4, <3>1, <3>2, <3>3, <3>4 DEF Fine
  <2>11. Settled'
    BY <1>1, <1>4, <1>6, <2>1, <2>9, <2>10 DEF Settled, OneUnresolved, SentWasClaimed
  <2>12. PollHolds' BY <1>1, <1>4, <2>1, <2>8, PollKept
  <2> QED BY <1>1, <1>3, <1>4, <1>5, <2>1, <2>5, <2>11, <2>12, TypeParts DEF Inv
<1>9. CASE ~(Bill /\ attached \in Rewards)
  <2>1. /\ discounts' = discounts /\ attached' \in {attached, None, Other}
        /\ flying' \in {flying, {}}
        /\ \A r \in Rewards : invoice'[r] # "no" => invoice[r] # "no"
    <3>1. CASE \E r \in Rewards : Refund(r) BY <1>1, <3>1 DEF Refund, ProviderOK
    <3>2. CASE ~\E r \in Rewards : Refund(r)
      BY <1>9, <3>2 DEF Bill, Vanish, Tick, OtherPromo, Purchase, Reverse, SetStanding, provider
    <3> QED BY <3>1, <3>2
  <2>2. ProviderOK'
    <3>1. purchase' \in [Rewards -> Payments] /\ invoice' \in [Rewards -> Payments]
          /\ standing' \in Standings
      BY <1>1, <1>9 DEF ProviderOK, Bill, Vanish, Tick, OtherPromo, Purchase, Reverse, Refund, SetStanding,
         provider, Payments
    <3> QED BY <1>1, <1>2, <2>1, <3>1 DEF ProviderOK
  <2>3. None \notin Rewards /\ Other \notin Rewards BY ReferralConstants
  <2>4. \A r \in Rewards : attached' = r => attached = r BY <2>1, <2>3
  <2>5. \A r \in Rewards : Clean(r) => Clean(r)' BY <2>1, <2>4 DEF Clean
  <2>6. ASSUME NEW r \in Rewards PROVE Fine(r)'
    <3>1. Fine(r) /\ (Clean(r) => Clean(r)') /\ Unresolved(r)' = Unresolved(r)
          /\ (attached' = r => attached = r) /\ (invoice'[r] # "no" => invoice[r] # "no")
      BY <1>1, <1>6, <2>1, <2>4, <2>5 DEF Settled
    <3>2. submitted[r] <= now' BY <1>5, <1>7, <3>1 DEF Fine
    <3> QED BY <1>2, <1>3, <1>4, <2>1, <3>1, <3>2 DEF Fine
  <2>7. Settled'
    <3>1. SentWasClaimed' BY <1>1, <1>4, <2>1 DEF Settled, SentWasClaimed
    <3> QED BY <1>1, <1>6, <2>6, <3>1 DEF Settled, OneUnresolved
  <2>8. PollHolds' BY <1>1, <1>2, <1>4, <2>5, PollKept
  <2> QED BY <1>1, <1>3, <1>4, <1>5, <2>2, <2>7, <2>8, TypeParts DEF Inv
<1> QED BY <1>8, <1>9

(* A late request: it finds its key remembered, or an application in doubt.*)
LEMMA ArriveKeeps ==
    ASSUME Inv, Arrive
    PROVE  Inv'
<1>1. now \in 1..MAX_TIME /\ LedgerOK /\ ProviderOK /\ PollOK /\ SpentOK /\ Settled /\ PollHolds
      /\ TypeInvariant
  BY TypeParts DEF Inv
<1>2. PICK q \in Rewards :
         /\ Key(q) \in flying /\ now - submitted[q] < REPLAY
         /\ flying' = flying \ {Key(q)} /\ Lands(q)
         /\ UNCHANGED <<world, purchase, standing, created, invoice, discounts, spent>>
  BY DEF Arrive
<1>3. SpentOK' /\ own' = own BY <1>1, <1>2, SpentStays
<1>4. LedgerOK' /\ PollOK' /\ UNCHANGED <<now, state, gen, submitted, pc, todo, invoiced>>
  BY <1>1, <1>2, LedgerStays, PollStays DEF world, ledger, columns, poll
<1>5. ~Clean(q) BY <1>2 DEF Clean, Key
<1>6. Fine(q) /\ state[q] \in {"absent", "pending", "used", "void"} \union Active
  BY <1>1 DEF Settled, LedgerOK
<1>7. gen[q] > 0 BY <1>1, <1>2 DEF Settled, SentWasClaimed, Key
<1>8. state[q] \in Active \/ (state[q] = "used" /\ discounts[q] > 0) BY <1>5, <1>6 DEF Fine
<1>9. state[q] = "applying" => submitted[q] # 0 BY <1>5, <1>6 DEF Fine
<1>10. now \in Nat /\ gen[q] \in Nat /\ q \in Rewards BY <1>1, Typed
<1>11. ProviderOK'
  <2>1. CASE UNCHANGED <<attached, accepted>> BY <1>1, <1>2, <2>1 DEF ProviderOK
  <2>2. CASE attached' = q /\ accepted' = [accepted EXCEPT ![q] = [gen |-> gen[q], at |-> now]]
    BY <1>1, <1>2, <1>10, <2>2 DEF ProviderOK
  <2> QED BY <1>2, <2>1, <2>2 DEF Lands
<1>12. flying' \subseteq flying \union {Key(q)} BY <1>2
<1>13. Copied BY <1>4 DEF Copied
<1>14. Settled'
  BY <1>1, <1>2, <1>3, <1>4, <1>7, <1>8, <1>9, <1>12, <1>13, SendingKeeps
<1>15. \A r \in Rewards : Clean(r) => Clean(r)'
  <2> SUFFICES ASSUME NEW r \in Rewards, Clean(r) PROVE Clean(r)' OBVIOUS
  <2>1. r # q BY <1>5
  <2>2. attached' # r BY <1>2, <2>1 DEF Clean, Lands
  <2> QED BY <1>2, <2>2 DEF Clean
<1>16. PollHolds' BY <1>1, <1>4, <1>15, PollKept
<1> QED BY <1>1, <1>3, <1>4, <1>11, <1>14, <1>16, TypeParts DEF Inv

-----------------------------------------------------------------------------
(* The theorems                                                            *)

LEMMA ReferralInits ==
    ASSUME Init
    PROVE  Inv
<1>1. /\ now = 1 /\ state = [r \in Rewards |-> "absent"] /\ gen = [r \in Rewards |-> 0]
      /\ lease = [r \in Rewards |-> 0] /\ submitted = [r \in Rewards |-> 0]
      /\ queue = <<>> /\ bound = FALSE
      /\ purchase = [r \in Rewards |-> "no"] /\ invoice = [r \in Rewards |-> "no"]
      /\ attached = None /\ standing \in {"none", "renewing"} /\ created = {}
      /\ accepted = [r \in Rewards |-> [gen |-> 0, at |-> 0]] /\ flying = {}
      /\ pc = "idle" /\ todo = <<>> /\ member = Nothing
      /\ paid = purchase /\ invoiced = invoice /\ coupons = {}
      /\ own \in SUBSET Own /\ faults = 0 /\ changes = 0 /\ discounts = [r \in Rewards |-> 0]
  BY DEF Init
<1>2. reason \in [Rewards -> Reasons] BY DEF Init, Reasons
<1>3. <<>> \in Seq(Rewards) /\ None \notin Rewards BY EmptySeq, ReferralConstants
<1>4. now \in 1..MAX_TIME BY <1>1, ReferralConstants
<1>5. LedgerOK
  <2>1. gen \in [Rewards -> 0..MAX_GENERATION] BY <1>1, ReferralConstants
  <2> QED BY <1>1, <1>2, <1>3, <2>1 DEF LedgerOK
<1>6. ProviderOK BY <1>1 DEF ProviderOK, Payments, Standings
<1>7. PollOK BY <1>1, <1>3 DEF PollOK, Steps, Payments, Standings, Nothing
<1>8. SpentOK BY <1>1, ReferralConstants DEF SpentOK
<1>9. \A r \in Rewards : Clean(r) /\ ~Unresolved(r)
  BY <1>1, <1>3 DEF Clean, Unresolved, Active
<1>10. ASSUME NEW r \in Rewards PROVE Fine(r)
  <2>1. /\ discounts[r] = 0 /\ state[r] = "absent" /\ gen[r] = 0 /\ submitted[r] = 0
        /\ invoice[r] = "no" /\ invoiced[r] = "no" /\ attached # r
    BY <1>1, <1>3
  <2> QED BY <1>1, <1>9, <2>1 DEF Fine
<1>11. Settled BY <1>1, <1>9, <1>10 DEF Settled, OneUnresolved, SentWasClaimed
<1>12. PollHolds BY <1>1 DEF PollHolds, Unsent
<1> QED BY <1>4, <1>5, <1>6, <1>7, <1>8, <1>11, <1>12, TypeParts DEF Inv

LEMMA ReferralSteps ==
    ASSUME Inv, [Next]_vars
    PROVE  Inv'
<1>1. CASE WorkerStep
  BY <1>1, ReadKeeps, CreditKeeps, ReversalsKeep, ReconcileKeeps, PollOnly, PostKeeps, AckedKeeps,
     ClaimKeeps, UnsentKeeps DEF WorkerStep
<1>2. CASE Crash BY <1>2, PollOnly
<1>3. CASE MemberView BY <1>3, ReadKeeps
<1>4. CASE Arrive BY <1>4, ArriveKeeps
<1>5. CASE \/ Bill \/ Vanish \/ Tick \/ OtherPromo
           \/ \E r \in Rewards : Purchase(r) \/ Reverse(r) \/ Refund(r)
           \/ \E s \in Standings : SetStanding(s)
  BY <1>5, WorldKeeps
<1>6. CASE UNCHANGED vars
  <2>1. now \in 1..MAX_TIME /\ LedgerOK /\ ProviderOK /\ PollOK /\ SpentOK /\ Settled /\ PollHolds
        /\ TypeInvariant
    BY TypeParts DEF Inv
  <2>2. UNCHANGED <<now, ledger, provider, poll, spent>> BY <1>6 DEF vars
  <2>3. UNCHANGED <<state, gen, submitted, attached, discounts, flying, accepted, invoice, invoiced,
                    own, pc, todo>>
    BY <2>2 DEF ledger, columns, provider, poll, spent
  <2>4. LedgerOK' /\ ProviderOK' /\ PollOK' /\ SpentOK'
    BY <2>1, <2>2, LedgerStays, ProviderStays, PollStays, SpentStays
  <2>5. Settled' BY <2>1, <2>2, <2>3, LedgerStill DEF Copied
  <2>6. \A r \in Rewards : Clean(r)' = Clean(r) BY <2>3, CleanStays
  <2>7. PollHolds' BY <2>1, <2>2, <2>3, <2>6, PollKept
  <2> QED BY <2>1, <2>2, <2>4, <2>5, <2>7, TypeParts DEF Inv
<1> QED BY <1>1, <1>2, <1>3, <1>4, <1>5, <1>6 DEF Next

(* What the ledger, the provider and the poll in progress know of each     *)
(* application, whatever fails, is lost or comes late.                     *)
THEOREM ApplicationInvariantHolds == Spec => []ApplicationInvariant
<1>1. Init => ApplicationInvariant BY ReferralInits, InvariantIs DEF Inv
<1>2. ApplicationInvariant /\ [Next]_vars => ApplicationInvariant'
  <2>1. ApplicationInvariant' <=> TypeInvariant' /\ Settled' /\ PollHolds' BY InvariantIs, PTL
  <2> QED BY <2>1, ReferralSteps, InvariantIs DEF Inv
<1> QED BY <1>1, <1>2, PTL DEF Spec

(* The ledger tells the truth: a used reward discounted one invoice, one   *)
(* owed or given up none, and none ever discounts a second; and one reward *)
(* at a time is applied or in doubt.                                       *)
THEOREM RewardsAreTrue == Spec => []RewardInvariant
<1>1. ApplicationInvariant => RewardInvariant BY DEF ApplicationInvariant
<1> QED BY <1>1, ApplicationInvariantHolds, PTL

(* One reward at a time is being applied or in doubt, and the coupon on    *)
(* the membership is that one's, never one for the member's own purchase.  *)
THEOREM OneApplication == Spec => []OneAtATime
<1>1. ApplicationInvariant => OneAtATime BY DEF ApplicationInvariant, RewardInvariant
<1> QED BY <1>1, ApplicationInvariantHolds, PTL
=============================================================================
