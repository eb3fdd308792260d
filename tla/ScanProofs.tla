----------------------------- MODULE ScanProofs -----------------------------
(***************************************************************************)
(* Machine-checked theorems about the auxiliary scans (AuxiliaryScans.tla),*)
(* for every set of lanes, tabs, targets, pages and ticks, every spacing   *)
(* and number of retries, and any number of failures, stops, closed tabs,  *)
(* bot checks and changes: a complete round has read everything, no lane   *)
(* takes every slot, and page loads keep their spacing.                    *)
(***************************************************************************)
EXTENDS AuxiliaryScans, FiniteSetTheorems, SequenceTheorems, WellFoundedInduction, TLAPS

-----------------------------------------------------------------------------
(* The inductive invariant: what is read is read                           *)

NoName == ""        \* no key, no lane

(* A checkpoint names only pages that reached the relay.                   *)
TrueReceipt(c) == c \in Checkpoint /\ (c.key \in Keys => c.visited \subseteq delivered[Dest[c.key]])

(* A target that is not a selection any more is bound to the page it is    *)
(* about; a complete one was read.                                         *)
TrueTarget(g) ==
    /\ g \in Target /\ TrueReceipt(g.chk)
    /\ ~g.sel => g.url = Dest[g.key]
    /\ g.cov = "complete" => Pages[Dest[g.key]] \subseteq delivered[Dest[g.key]]
    /\ g.cov = "duplicate" <=> g.duplicate

(* Another target stands for a duplicate.                                  *)
StandsFor(g, d) == ~g.duplicate /\ ~g.sel /\ g.url = Dest[d.key]

(* Targets before the cursor are done with, the others are not.            *)
TrueTargets(T, c) ==
    /\ T \in Seq(Target) /\ c \in 1..Len(T) + 1
    /\ \A i \in 1..Len(T) :
          /\ TrueTarget(T[i])
          /\ i < c => T[i].cov # "pending"
          /\ i >= c => T[i].cov \in {"pending", "unresolved"}
          /\ i > c => T[i].attempts <= Len(RETRIES)
          /\ T[i].duplicate => \E j \in 1..Len(T) : StandsFor(T[j], T[i])

KnownLane(L) ==
    /\ L \in Lane /\ TrueReceipt(L.chk) /\ TrueTargets(L.targets, L.cursor)
    /\ L.status = "complete" => ~HasTarget(L) /\ \A i \in DOMAIN L.targets : L.targets[i].cov # "unresolved"
    /\ L.status = "scanning" => HasTarget(L) /\ L.tab # NoTab
TrueLane(L) == KnownLane(L) /\ (HasTarget(L) => Current(L).attempts <= Len(RETRIES))

(* A document that was given a target knows it, and what it sent.          *)
Given == {"ready", "sent", "acked", "written", "found", "chosen"}
TrueDocument(d) ==
    /\ d \in Document
    /\ d.pc \in Given => d.key \in Keys
    /\ d.pc \in {"sent", "acked"} =>
          d.url = Dest[d.key] /\ d.page \in Pages[d.url] /\ d.page \in delivered[d.url]
    /\ d.pc = "chosen" => d.url = Dest[d.key]
    /\ d.pc = "found" => d.key \in Discovery

(* The generation tells what a lane's document is about.                   *)
Speaks(t, L) == L.tab = t =>
    /\ doc[t].gen <= L.gen
    /\ doc[t].gen = L.gen /\ doc[t].key \in Keys => HasTarget(L) /\ doc[t].key = Current(L).key

TickSteps == {"reserve", "created", "owned", "saveTab", "due", "start", "stamped", "checked", "navigate"}
Steps == TickSteps \union {"idle", "save", "saveOn", "saveBound", "unowned", "sweeping", "wiping"}

(* The task under the lock.                                                *)
TrueJob ==
    /\ job.pc \notin {"idle", "wiping"} => job.lane \in LaneSet
    /\ job.pc \in {"idle", "wiping", "unowned", "sweeping"} => draft = Absent
    /\ job.pc = "created" => draft.tab \in Tabs /\ \A l \in LaneSet : own[l] # draft.tab
    /\ job.pc = "start" => HasTarget(draft)
    /\ job.pc \in {"stamped", "checked", "navigate"} => draft.status = "scanning"
    /\ job.pc \in {"checked", "navigate"} => lanes[job.lane] = draft

(* The lanes are right, and so is the one in memory; no two have a tab in  *)
(* common.                                                                 *)
LanesRight ==
    /\ lanes \in [LaneSet -> Lane] /\ draft \in Lane
    /\ \A l \in LaneSet : TrueLane(lanes[l])
    /\ TrueLane(draft)
    /\ \A t \in Tabs : Speaks(t, draft) /\ \A l \in LaneSet : Speaks(t, lanes[l])
    /\ \A l, m \in LaneSet : lanes[l].tab = lanes[m].tab /\ lanes[l].tab # NoTab => l = m
    /\ \A m \in LaneSet : lanes[m].tab = draft.tab /\ draft.tab # NoTab => m = job.lane

DocsRight == doc \in [Tabs -> Document] /\ \A t \in Tabs : TrueDocument(doc[t])
SweepRight == sweep \in [Tabs -> Checkpoint] /\ \A t \in Tabs : TrueReceipt(sweep[t])
OwnRight ==
    /\ own \in [LaneSet -> Tabs \union {NoTab}] /\ closed \subseteq Tabs
    /\ \A l, m \in LaneSet : own[l] = own[m] /\ own[l] # NoTab => l = m

TaskRight ==
    /\ job \in [pc : Steps, lane : LaneSet \union {NoName}, old : Tabs \union {NoTab}]
    /\ todo \in [Ticks -> Seq(LaneSet)]
    /\ TrueJob

ScanTypes ==
    /\ lastLane \in LaneSet \union {NoName} /\ pace \in 0..SPACING /\ quiet \in 0..SPACING
    /\ enabled \in [LaneSet -> BOOLEAN] /\ paused \in BOOLEAN
    /\ wanted \in [LaneSet -> Seq(Keys)] /\ \A l \in LaneSet : wanted[l] \in Initial[l]
    /\ faults \in 0..MAX_FAULTS /\ delivered \in [Urls -> SUBSET UNION Range(Pages)]
    /\ passed \in [LaneSet -> Nat]

Reading == LanesRight /\ DocsRight /\ SweepRight /\ OwnRight /\ TaskRight

(* The spacing that is stored is never less than what is left of it.       *)
Spacing ==
    /\ quiet <= pace
    /\ job.pc \in {"stamped", "checked"} => pace = 0
    /\ job.pc = "navigate" => pace = SPACING /\ quiet = 0

(* The lanes' rotation: whoever comes later in it was passed less often;   *)
(* at a free slot, who had a turn in this tick was not passed since.       *)
Rotation ==
    /\ \A i \in 1..Len(Lanes) : passed[Order[i]] + i <= Len(Lanes)
    /\ job.pc = "navigate" => /\ lastLane = job.lane
                              /\ \A i \in 1..Len(Lanes) - 1 : passed[Order[i]] + i < Len(Lanes)
    /\ pace = 0 => \A k \in Ticks : todo[k] # <<>> =>
          /\ Len(todo[k]) <= Len(Lanes)
          /\ \A i \in 1..Len(todo[k]) : todo[k][i] = Order[Len(Lanes) - Len(todo[k]) + i]
          /\ \A i \in 1..Len(Lanes) - Len(todo[k]) : passed[Order[i]] = 0
    /\ pace = 0 /\ job.pc \in TickSteps \union {"saveOn"} => \E i \in 1..Len(Lanes) :
          Order[i] = job.lane /\ \A j \in 1..i : passed[Order[j]] = 0

ScanInvariant == ScanTypes /\ Reading /\ Spacing /\ Rotation

-----------------------------------------------------------------------------
(* Sequences                                                               *)

(* A function on 1..n is a sequence of length n.                           *)
LEMMA FunctionIsSeq ==
    ASSUME NEW S, NEW n \in Nat, NEW f \in [1..n -> S]
    PROVE  f \in Seq(S) /\ Len(f) = n /\ DOMAIN f = 1..n
<1>1. f \in Seq(S) BY SeqDef
<1>2. DOMAIN f = 1..Len(f) /\ Len(f) \in Nat BY <1>1, LenProperties
<1>3. DOMAIN f = 1..n OBVIOUS
<1>4. Len(f) = n BY <1>2, <1>3
<1> QED BY <1>1, <1>3, <1>4

(* A finite set of positions can be listed in its order.                   *)
Listing(at, I) == at \in [1..Cardinality(I) -> I] /\ \A i, j \in DOMAIN at : i < j => at[i] < at[j]

LEMMA PositionsListed ==
    ASSUME NEW I \in SUBSET Nat, IsFiniteSet(I)
    PROVE  \E at : Listing(at, I)
<1> DEFINE Unlisted == {n \in Nat : \E J \in SUBSET Nat :
               IsFiniteSet(J) /\ Cardinality(J) = n /\ ~\E at : Listing(at, J)}
<1>1. SUFFICES Unlisted = {}
  <2>1. Cardinality(I) \in Nat BY FS_CardinalityType
  <2> QED BY <1>1, <2>1
<1>2. SUFFICES ASSUME Unlisted # {} PROVE FALSE OBVIOUS
<1>3. PICK n \in Unlisted : \A m \in Unlisted : ~(m < n)
  <2>1. \E x \in Unlisted : \A y \in Unlisted : ~(<<y, x>> \in OpToRel(<, Nat))
    BY <1>2, NatLessThanWellFounded, WFMin
  <2> QED BY <2>1 DEF OpToRel
<1>4. PICK J \in SUBSET Nat : IsFiniteSet(J) /\ Cardinality(J) = n /\ ~\E at : Listing(at, J)
  BY <1>3
<1>5. n # 0
  <2>1. SUFFICES ASSUME n = 0 PROVE FALSE OBVIOUS
  <2>2. J = {} BY <1>4, <2>1, FS_EmptySet
  <2>3. Listing([i \in 1..0 |-> 0], J) BY <1>4, <2>1, <2>2 DEF Listing
  <2> QED BY <1>4, <2>3
<1>6. PICK m \in J : \A j \in J : ~(j < m)
  <2>1. J # {} BY <1>4, <1>5, FS_EmptySet
  <2>2. \E x \in J : \A y \in J : ~(<<y, x>> \in OpToRel(<, Nat))
    BY <2>1, NatLessThanWellFounded, WFMin
  <2> QED BY <2>2 DEF OpToRel
<1>7. IsFiniteSet(J \ {m}) /\ Cardinality(J \ {m}) = n - 1 BY <1>4, FS_RemoveElement
<1>8. PICK rest : Listing(rest, J \ {m})
  <2>1. n - 1 \in Nat /\ n - 1 < n BY <1>5
  <2>2. n - 1 \notin Unlisted BY <1>3, <2>1
  <2> QED BY <1>7, <2>1, <2>2
<1> DEFINE at == [i \in 1..n |-> IF i = 1 THEN m ELSE rest[i - 1]]
<1>9. rest \in [1..n - 1 -> J \ {m}] /\ \A i, j \in 1..n - 1 : i < j => rest[i] < rest[j]
  BY <1>7, <1>8 DEF Listing
<1>10. at \in [1..n -> J]
  <2>1. \A i \in 1..n : i # 1 => i - 1 \in 1..n - 1 OBVIOUS
  <2> QED BY <1>9, <2>1
<1>11. \A i, j \in 1..n : i < j => at[i] < at[j]
  <2>1. SUFFICES ASSUME NEW i \in 1..n, NEW j \in 1..n, i < j PROVE at[i] < at[j] OBVIOUS
  <2>2. j - 1 \in 1..n - 1 /\ at[j] = rest[j - 1] BY <2>1
  <2>3. rest[j - 1] \in J /\ rest[j - 1] # m BY <1>9, <2>2
  <2>4. CASE i = 1
    <3>1. at[i] = m BY <2>4
    <3>2. rest[j - 1] \in Nat /\ m \in Nat BY <2>3
    <3> QED BY <1>6, <2>2, <2>3, <3>1, <3>2
  <2>5. CASE i # 1
    <3>1. i - 1 \in 1..n - 1 /\ at[i] = rest[i - 1] /\ i - 1 < j - 1 BY <2>1, <2>5
    <3> QED BY <1>9, <2>2, <3>1
  <2> QED BY <2>4, <2>5
<1> HIDE DEF at
<1>12. DOMAIN at = 1..n BY <1>10
<1>13. Listing(at, J) BY <1>4, <1>10, <1>11, <1>12 DEF Listing
<1> QED BY <1>4, <1>13

(* What Only takes from a sequence.                                        *)
LEMMA OnlyTakes ==
    ASSUME NEW S, NEW s \in Seq(S), NEW I \in SUBSET (1..Len(s))
    PROVE  /\ Only(s, I) \in Seq(S)
           /\ \A n \in 1..Len(Only(s, I)) : \E i \in I : Only(s, I)[n] = s[i]
           /\ \A m, n \in 1..Len(Only(s, I)) : m < n =>
                 \E i, j \in I : i # j /\ Only(s, I)[m] = s[i] /\ Only(s, I)[n] = s[j]
           /\ I = {} => Only(s, I) = <<>>
<1>1. IsFiniteSet(I) /\ I \in SUBSET Nat /\ Cardinality(I) \in Nat
  <2>1. Len(s) \in Nat BY LenProperties
  <2>2. IsFiniteSet(1..Len(s)) BY <2>1, FS_Interval
  <2>3. IsFiniteSet(I) BY <2>2, FS_Subset
  <2>4. Cardinality(I) \in Nat BY <2>3, FS_CardinalityType
  <2>5. I \in SUBSET Nat BY <2>1
  <2> QED BY <2>3, <2>4, <2>5
<1> DEFINE at == CHOOSE at \in [1..Cardinality(I) -> I] : \A i, j \in DOMAIN at : i < j => at[i] < at[j]
<1>2. at \in [1..Cardinality(I) -> I] /\ \A i, j \in DOMAIN at : i < j => at[i] < at[j]
  <2>1. \E a \in [1..Cardinality(I) -> I] : \A i, j \in DOMAIN a : i < j => a[i] < a[j]
    BY <1>1, PositionsListed DEF Listing
  <2> QED BY <2>1
<1>3. Only(s, I) = [n \in DOMAIN at |-> s[at[n]]] BY DEF Only
<1> HIDE DEF at
<1>4. DOMAIN at = 1..Cardinality(I) /\ \A n \in 1..Cardinality(I) : at[n] \in I BY <1>2
<1>5. \A i \in I : s[i] \in S BY ElementOfSeq
<1>6. Only(s, I) \in [1..Cardinality(I) -> S] BY <1>3, <1>4, <1>5
<1>7. Only(s, I) \in Seq(S) /\ Len(Only(s, I)) = Cardinality(I) BY <1>1, <1>6, FunctionIsSeq
<1>8. \A n \in 1..Len(Only(s, I)) : at[n] \in I /\ Only(s, I)[n] = s[at[n]] BY <1>3, <1>4, <1>7
<1>9. \A m, n \in 1..Len(Only(s, I)) : m < n => at[m] # at[n]
  <2>1. SUFFICES ASSUME NEW m \in 1..Cardinality(I), NEW n \in 1..Cardinality(I), m < n
                 PROVE  at[m] # at[n]
    BY <1>7
  <2>2. at[m] < at[n] /\ at[m] \in Nat BY <1>1, <1>2, <1>4, <2>1
  <2> QED BY <2>2
<1>10. I = {} => Only(s, I) = <<>> BY <1>7, FS_EmptySet, EmptySeq
<1>11. \A m, n \in 1..Len(Only(s, I)) : m < n =>
          \E i, j \in I : i # j /\ Only(s, I)[m] = s[i] /\ Only(s, I)[n] = s[j]
  <2>1. SUFFICES ASSUME NEW m \in 1..Len(Only(s, I)), NEW n \in 1..Len(Only(s, I)), m < n
                 PROVE  \E i, j \in I : i # j /\ Only(s, I)[m] = s[i] /\ Only(s, I)[n] = s[j]
    OBVIOUS
  <2>2. /\ at[m] \in I /\ at[n] \in I /\ at[m] # at[n]
        /\ Only(s, I)[m] = s[at[m]] /\ Only(s, I)[n] = s[at[n]]
    BY <1>8, <1>9, <2>1
  <2> QED BY <2>2
<1>12. \A n \in 1..Len(Only(s, I)) : \E i \in I : Only(s, I)[n] = s[i] BY <1>8
<1> QED BY <1>7, <1>10, <1>11, <1>12


-----------------------------------------------------------------------------
(* Targets                                                                 *)

LEMMA LaneConstants ==
    /\ Lanes \in Seq(LaneSet) /\ NoName \notin LaneSet /\ NoTab \notin Tabs
    /\ Home \in Urls /\ NoName \notin Keys /\ \A k \in Keys : Dest[k] \in Urls
    /\ \A l \in LaneSet : Found[l] \in Seq(Keys) /\ Initial[l] \subseteq Seq(Keys)
    /\ SPACING \in Nat \ {0} /\ RESTART \in Nat /\ LATER \in Nat /\ RETRIES \in Seq(Nat \ {0})
    /\ Pages[Home] = {} /\ MAX_TARGETS \in Nat /\ MAX_FAULTS \in Nat /\ SPACING \in Nat
    /\ DOMAIN Pages = Urls /\ \A u \in Urls : Pages[u] \subseteq Nat
BY AuxiliaryConstants DEF NoName

LEMMA NothingIsTrue == None \in Checkpoint /\ TrueReceipt(None)
BY DEF None, Checkpoint, TrueReceipt

(* The empty name, spelled out.                                            *)
LEMMA Names ==
    /\ Checkpoint = [gen : Nat, key : Keys \union {NoName}, visited : SUBSET UNION Range(Pages)]
    /\ Document = [pc : {"none", "blank", "loaded", "idle", "ready", "sent", "acked", "written", "found", "chosen"},
                   gen : Nat, url : Urls, key : Keys \union {NoName}, page : Nat]
    /\ None = [gen |-> 0, key |-> NoName, visited |-> {}]
    /\ NoDocument = [pc |-> "none", gen |-> 0, url |-> Home, key |-> NoName, page |-> 0]
    /\ Idle = [pc |-> "idle", lane |-> NoName, old |-> NoTab]
BY DEF Checkpoint, Document, None, NoDocument, Idle, NoName

(* A new target is true to what it is about.                               *)
LEMMA NewIsTrue ==
    ASSUME NEW k \in Keys, NEW url \in Urls, NEW sel \in BOOLEAN, ~sel => url = Dest[k]
    PROVE  /\ TrueTarget(NewTarget(k, url, sel))
           /\ NewTarget(k, url, sel).cov = "pending" /\ NewTarget(k, url, sel).attempts = 0
           /\ NewTarget(k, url, sel).key = k /\ ~NewTarget(k, url, sel).duplicate
<1>1. Len(RETRIES) \in Nat BY LaneConstants, LenProperties
<1>2. NewTarget(k, url, sel) \in Target BY <1>1, NothingIsTrue DEF NewTarget, Target
<1> QED BY <1>2, NothingIsTrue DEF NewTarget, TrueTarget

(* One target of a list changes, and the cursor may pass it.               *)
LEMMA TargetChanges ==
    ASSUME NEW T, NEW c, TrueTargets(T, c), c <= Len(T), NEW g, TrueTarget(g), g.key = T[c].key,
           NEW d \in {c, c + 1},
           d = c => g.cov \in {"pending", "unresolved"},
           d = c + 1 => g.cov # "pending",
           ~T[c].sel => ~g.duplicate /\ ~g.sel /\ g.url = T[c].url,
           g.duplicate => \E j \in 1..Len(T) : j # c /\ StandsFor(T[j], g)
    PROVE  /\ TrueTargets([T EXCEPT ![c] = g], d)
           /\ Len([T EXCEPT ![c] = g]) = Len(T)
           /\ \A i \in 1..Len(T) : [T EXCEPT ![c] = g][i] = IF i = c THEN g ELSE T[i]
<1> DEFINE N == [T EXCEPT ![c] = g]
<1>1. T \in Seq(Target) /\ c \in 1..Len(T) /\ Len(T) \in Nat /\ g \in Target
  BY LenProperties DEF TrueTargets, TrueTarget
<1>2. N \in Seq(Target) /\ Len(N) = Len(T) /\ \A i \in 1..Len(T) : N[i] = IF i = c THEN g ELSE T[i]
  BY <1>1, ExceptSeq
<1> HIDE DEF N
<1>3. d \in 1..Len(T) + 1 BY <1>1
<1>4. ASSUME NEW i \in 1..Len(T)
      PROVE  /\ TrueTarget(N[i])
             /\ i < d => N[i].cov # "pending"
             /\ i >= d => N[i].cov \in {"pending", "unresolved"}
             /\ i > d => N[i].attempts <= Len(RETRIES)
  <2>1. CASE i = c BY <1>1, <1>2, <2>1
  <2>2. CASE i # c
    <3>1. N[i] = T[i] /\ (i < d => i < c) /\ (i >= d => i >= c) /\ (i > d => i > c)
      BY <1>1, <1>2, <2>2
    <3> QED BY <3>1 DEF TrueTargets
  <2> QED BY <2>1, <2>2
<1>5. ASSUME NEW i \in 1..Len(T), N[i].duplicate PROVE \E j \in 1..Len(T) : StandsFor(N[j], N[i])
  <2>1. CASE i = c
    <3>1. PICK j \in 1..Len(T) : j # c /\ StandsFor(T[j], g) BY <1>2, <1>5, <2>1
    <3>2. StandsFor(N[j], N[i]) BY <1>2, <2>1, <3>1
    <3> QED BY <3>2
  <2>2. CASE i # c
    <3>1. N[i] = T[i] BY <1>2, <2>2
    <3>2. PICK j \in 1..Len(T) : StandsFor(T[j], T[i]) BY <1>5, <3>1 DEF TrueTargets
    <3>3. CASE j = c
      <4>1. StandsFor(g, T[i]) BY <3>2, <3>3 DEF StandsFor
      <4>2. StandsFor(N[c], N[i]) BY <1>1, <1>2, <3>1, <4>1
      <4> QED BY <1>1, <4>2
    <3>4. CASE j # c
      <4>1. StandsFor(N[j], N[i]) BY <1>2, <3>1, <3>2, <3>4
      <4> QED BY <4>1
    <3> QED BY <3>3, <3>4
  <2> QED BY <2>1, <2>2
<1>6. TrueTargets(N, d) BY <1>2, <1>3, <1>4, <1>5 DEF TrueTargets
<1> QED BY <1>2, <1>6 DEF N

(* More targets are appended.                                              *)
LEMMA TargetsAppended ==
    ASSUME NEW T, NEW c, TrueTargets(T, c), NEW M \in Seq(Target),
           \A i \in 1..Len(M) : TrueTarget(M[i]) /\ M[i].cov = "pending" /\ M[i].attempts = 0
    PROVE  /\ TrueTargets(T \o M, c) /\ Len(T \o M) = Len(T) + Len(M)
           /\ \A i \in 1..Len(T) : (T \o M)[i] = T[i]
<1> DEFINE N == T \o M
<1>1. T \in Seq(Target) /\ c \in 1..Len(T) + 1 /\ Len(T) \in Nat /\ Len(M) \in Nat /\ Len(RETRIES) \in Nat
  BY LenProperties, LaneConstants DEF TrueTargets
<1>2. N \in Seq(Target) /\ Len(N) = Len(T) + Len(M)
      /\ \A i \in 1..Len(T) + Len(M) : N[i] = IF i <= Len(T) THEN T[i] ELSE M[i - Len(T)]
  BY <1>1, ConcatProperties
<1> HIDE DEF N
<1>3. ASSUME NEW i \in 1..Len(N)
      PROVE  \/ i \in 1..Len(T) /\ N[i] = T[i]
             \/ i > Len(T) /\ TrueTarget(N[i]) /\ N[i].cov = "pending" /\ N[i].attempts = 0 /\ ~N[i].duplicate
  <2>1. CASE i <= Len(T) BY <1>1, <1>2, <2>1
  <2>2. CASE i > Len(T)
    <3>1. i - Len(T) \in 1..Len(M) /\ N[i] = M[i - Len(T)] BY <1>1, <1>2, <2>2
    <3>2. TrueTarget(N[i]) /\ N[i].cov = "pending" /\ N[i].attempts = 0 BY <3>1
    <3>3. N[i].duplicate \in BOOLEAN BY <3>2 DEF TrueTarget, Target
    <3> QED BY <2>2, <3>2, <3>3 DEF TrueTarget
  <2> QED BY <1>1, <2>1, <2>2
<1>4. ASSUME NEW i \in 1..Len(N)
      PROVE  /\ TrueTarget(N[i])
             /\ i < c => N[i].cov # "pending"
             /\ i >= c => N[i].cov \in {"pending", "unresolved"}
             /\ i > c => N[i].attempts <= Len(RETRIES)
  <2>1. CASE i \in 1..Len(T) /\ N[i] = T[i] BY <2>1 DEF TrueTargets
  <2>2. CASE i > Len(T) /\ TrueTarget(N[i]) /\ N[i].cov = "pending" /\ N[i].attempts = 0 /\ ~N[i].duplicate
    BY <1>1, <2>2
  <2> QED BY <1>3, <2>1, <2>2
<1>5. ASSUME NEW i \in 1..Len(N), N[i].duplicate PROVE \E j \in 1..Len(N) : StandsFor(N[j], N[i])
  <2>1. i \in 1..Len(T) /\ N[i] = T[i] BY <1>3, <1>5
  <2>2. PICK j \in 1..Len(T) : StandsFor(T[j], T[i]) BY <1>5, <2>1 DEF TrueTargets
  <2>3. j \in 1..Len(N) /\ N[j] = T[j] BY <1>1, <1>2
  <2> QED BY <2>1, <2>2, <2>3
<1>6. c \in 1..Len(N) + 1 BY <1>1, <1>2
<1>7. TrueTargets(N, c)
  <2>1. N \in Seq(Target) BY <1>2
  <2>2. \A i \in 1..Len(N) :
           /\ TrueTarget(N[i])
           /\ i < c => N[i].cov # "pending"
           /\ i >= c => N[i].cov \in {"pending", "unresolved"}
           /\ i > c => N[i].attempts <= Len(RETRIES)
    BY <1>4
  <2>3. \A i \in 1..Len(N) : N[i].duplicate => \E j \in 1..Len(N) : StandsFor(N[j], N[i]) BY <1>5
  <2> QED BY <1>6, <2>1, <2>2, <2>3 DEF TrueTargets
<1>8. \A i \in 1..Len(T) : N[i] = T[i] BY <1>1, <1>2
<1> QED BY <1>2, <1>7, <1>8 DEF N


-----------------------------------------------------------------------------
(* Lanes                                                                   *)

(* A lane that differs in its checkpoints only.                            *)
SameTarget(g, h) == /\ g.key = h.key /\ g.url = h.url /\ g.sel = h.sel /\ g.duplicate = h.duplicate
                    /\ g.attempts = h.attempts /\ g.cov = h.cov /\ g.tried = h.tried
SameWork(R, L) ==
    /\ R.tab = L.tab /\ R.gen = L.gen /\ R.status = L.status /\ R.list = L.list
    /\ R.cursor = L.cursor /\ R.wait = L.wait /\ R.round = L.round /\ R.truncated = L.truncated
    /\ Len(R.targets) = Len(L.targets)
    /\ \A i \in 1..Len(L.targets) : SameTarget(R.targets[i], L.targets[i])

LEMMA LaneFields ==
    ASSUME NEW L, KnownLane(L)
    PROVE  /\ L.targets \in Seq(Target) /\ Len(L.targets) \in Nat /\ DOMAIN L.targets = 1..Len(L.targets)
           /\ L.cursor \in 1..Len(L.targets) + 1 /\ L.gen \in Nat /\ L.tab \in Tabs \union {NoTab}
           /\ TrueReceipt(L.chk) /\ HasTarget(L) \in BOOLEAN
           /\ HasTarget(L) => /\ L.cursor \in 1..Len(L.targets) /\ TrueTarget(Current(L))
                              /\ Current(L) = L.targets[L.cursor] /\ Current(L) \in Target
                              /\ Current(L).cov \in {"pending", "unresolved"} /\ ~Current(L).duplicate
<1>1. /\ L.targets \in Seq(Target) /\ L.cursor \in 1..Len(L.targets) + 1 /\ TrueReceipt(L.chk)
      /\ L.gen \in Nat /\ L.tab \in Tabs \union {NoTab} /\ L.cursor \in Nat
  BY DEF KnownLane, TrueTargets, Lane
<1>2. Len(L.targets) \in Nat /\ DOMAIN L.targets = 1..Len(L.targets) BY <1>1, LenProperties
<1>3. ASSUME HasTarget(L) PROVE L.cursor \in 1..Len(L.targets) BY <1>1, <1>2, <1>3 DEF HasTarget
<1>4. ASSUME HasTarget(L)
      PROVE  TrueTarget(Current(L)) /\ Current(L).cov \in {"pending", "unresolved"}
  BY <1>1, <1>2, <1>3, <1>4 DEF Current, KnownLane, TrueTargets
<1>5. ASSUME HasTarget(L) PROVE Current(L) \in Target /\ ~Current(L).duplicate
  BY <1>4, <1>5 DEF TrueTarget, Target
<1> QED BY <1>1, <1>2, <1>3, <1>4, <1>5 DEF Current, HasTarget

(* A bookmark is set in the lane's working copy, and in its target's.      *)
LEMMA Bookmarked ==
    ASSUME NEW L, KnownLane(L), NEW c, TrueReceipt(c)
    PROVE  /\ KnownLane([L EXCEPT !.chk = c]) /\ SameWork([L EXCEPT !.chk = c], L)
           /\ HasTarget(L) => /\ KnownLane([L EXCEPT !.chk = c, !.targets[L.cursor].chk = c])
                              /\ SameWork([L EXCEPT !.chk = c, !.targets[L.cursor].chk = c], L)
<1>1. L \in Lane /\ c \in Checkpoint BY DEF KnownLane, TrueReceipt
<1>2. [L EXCEPT !.chk = c] \in Lane BY <1>1 DEF Lane
<1>3. KnownLane([L EXCEPT !.chk = c])
  BY <1>1, <1>2 DEF KnownLane, HasTarget, Lane
<1>4. SameWork([L EXCEPT !.chk = c], L) BY <1>1 DEF SameWork, SameTarget, Lane
<1>5. ASSUME HasTarget(L)
      PROVE  /\ KnownLane([L EXCEPT !.chk = c, !.targets[L.cursor].chk = c])
             /\ SameWork([L EXCEPT !.chk = c, !.targets[L.cursor].chk = c], L)
  <2> DEFINE R == [L EXCEPT !.chk = c, !.targets[L.cursor].chk = c]
             g == [Current(L) EXCEPT !.chk = c]
             T == [L.targets EXCEPT ![L.cursor] = g]
  <2>1. /\ L.cursor \in 1..Len(L.targets) /\ TrueTarget(Current(L)) /\ Current(L) \in Target
        /\ Current(L).cov \in {"pending", "unresolved"} /\ ~Current(L).duplicate
        /\ Current(L) = L.targets[L.cursor]
        /\ L.targets \in Seq(Target)
    BY <1>5, LaneFields
  <2>2. g \in Target /\ SameTarget(g, Current(L)) /\ g.chk = c
    BY <1>1, <2>1 DEF Target, SameTarget
  <2>3. TrueTarget(g) BY <2>1, <2>2 DEF TrueTarget, SameTarget
  <2>4. R = [L EXCEPT !.chk = c, !.targets = T] BY <1>1, <2>1 DEF Current, Lane
  <2> HIDE DEF g
  <2>5. TrueTargets(L.targets, L.cursor) /\ L.cursor <= Len(L.targets)
    BY <1>5 DEF KnownLane, HasTarget
  <2>6. /\ TrueTargets(T, L.cursor) /\ Len(T) = Len(L.targets)
        /\ \A i \in 1..Len(L.targets) : T[i] = IF i = L.cursor THEN g ELSE L.targets[i]
    <3>1. g.key = L.targets[L.cursor].key BY <2>1, <2>2 DEF SameTarget
    <3>2. g.cov \in {"pending", "unresolved"} BY <2>1, <2>2 DEF SameTarget
    <3>3. ~g.duplicate BY <2>1, <2>2 DEF SameTarget
    <3>4. ~L.targets[L.cursor].sel => ~g.sel /\ g.url = L.targets[L.cursor].url
      BY <2>1, <2>2 DEF SameTarget
    <3> HIDE DEF T
    <3>5. L.cursor # L.cursor + 1 BY <2>1
    <3> QED BY <2>3, <2>5, <3>1, <3>2, <3>3, <3>4, <3>5, TargetChanges DEF T
  <2> HIDE DEF T
  <2>7. T \in Seq(Target) BY <2>6 DEF TrueTargets
  <2>8. R \in Lane BY <1>1, <2>4, <2>7 DEF Lane
  <2>9. R.chk = c /\ R.targets = T /\ R.cursor = L.cursor /\ R.status = L.status /\ R.tab = L.tab
        /\ R.gen = L.gen /\ R.list = L.list /\ R.wait = L.wait /\ R.round = L.round
        /\ R.truncated = L.truncated
    BY <1>1, <2>4 DEF Lane
  <2> HIDE DEF R
  <2>10. \A i \in 1..Len(L.targets) : SameTarget(T[i], L.targets[i])
    BY <2>1, <2>2, <2>6 DEF SameTarget
  <2>11. SameWork(R, L) BY <2>6, <2>9, <2>10 DEF SameWork
  <2>12. R.status = "complete" => FALSE BY <1>5, <2>9 DEF KnownLane
  <2>13. KnownLane(R) BY <1>5, <2>6, <2>8, <2>9, <2>12 DEF KnownLane, HasTarget
  <2> QED BY <2>11, <2>13 DEF R
<1> QED BY <1>3, <1>4, <1>5

(* Retain keeps a lane true and changes its checkpoints only.              *)
LEMMA RetainKnows ==
    ASSUME NEW L, KnownLane(L), \A t \in Tabs : TrueReceipt(sweep[t])
    PROVE  KnownLane(Retain(L)) /\ SameWork(Retain(L), L)
<1> DEFINE base == IF L.chk = None /\ HasTarget(L) /\ ~Current(L).sel /\ Belongs(Current(L).chk, L)
                   THEN Current(L).chk ELSE L.chk
           live == L.tab # NoTab /\ sweep[L.tab].gen = L.gen /\ Belongs(sweep[L.tab], L)
           kept == IF live THEN sweep[L.tab] ELSE base
<1>1. TrueReceipt(base) BY LaneFields DEF TrueTarget
<1> HIDE DEF base
<1>2. TrueReceipt(kept) BY <1>1, LaneFields
<1>3. Retain(L) = IF Belongs(kept, L) THEN [L EXCEPT !.chk = kept, !.targets[L.cursor].chk = kept]
                  ELSE [L EXCEPT !.chk = kept]
  BY DEF Retain, base
<1> HIDE DEF kept
<1>4. CASE Belongs(kept, L)
  <2>1. HasTarget(L) BY <1>4 DEF Belongs
  <2>2. Retain(L) = [L EXCEPT !.chk = kept, !.targets[L.cursor].chk = kept] BY <1>3, <1>4
  <2>3. /\ KnownLane([L EXCEPT !.chk = kept, !.targets[L.cursor].chk = kept])
        /\ SameWork([L EXCEPT !.chk = kept, !.targets[L.cursor].chk = kept], L)
    BY <1>2, <2>1, Bookmarked
  <2> QED BY ONLY <2>2, <2>3
<1>5. CASE ~Belongs(kept, L)
  <2>1. Retain(L) = [L EXCEPT !.chk = kept] BY <1>3, <1>5
  <2>2. KnownLane([L EXCEPT !.chk = kept]) /\ SameWork([L EXCEPT !.chk = kept], L)
    BY <1>2, Bookmarked
  <2> QED BY ONLY <2>1, <2>2
<1> QED BY <1>4, <1>5


LEMMA SameAttempts ==
    ASSUME NEW L, TrueLane(L), NEW R, KnownLane(R), SameWork(R, L)
    PROVE  TrueLane(R) /\ (HasTarget(R) <=> HasTarget(L))
           /\ (HasTarget(L) => SameTarget(Current(R), Current(L)))
<1>1. HasTarget(R) <=> HasTarget(L) BY DEF SameWork, HasTarget
<1>2. ASSUME HasTarget(L) PROVE SameTarget(Current(R), Current(L))
  <2>1. L.cursor \in 1..Len(L.targets) BY <1>2, LaneFields DEF TrueLane
  <2> QED BY <2>1 DEF SameWork, Current
<1> QED BY <1>1, <1>2 DEF TrueLane, SameTarget

LEMMA RetainIsTrue ==
    ASSUME NEW L, TrueLane(L), \A t \in Tabs : TrueReceipt(sweep[t])
    PROVE  TrueLane(Retain(L)) /\ SameWork(Retain(L), L)
BY RetainKnows, SameAttempts DEF TrueLane

(* Another tab, generation, deadline or status changes nothing in what the *)
(* lane knows, as long as it does not call itself complete or scanning.    *)
Moved(L, tab, gen, wait, status) ==
    [L EXCEPT !.tab = tab, !.gen = gen, !.wait = wait, !.status = status]

LEMMA Repositioned ==
    ASSUME NEW L, TrueLane(L), NEW tab \in Tabs \union {NoTab}, NEW gen \in Nat, NEW wait \in Nat,
           NEW status \in Statuses, status = "complete" => L.status = "complete",
           status = "scanning" => HasTarget(L) /\ tab # NoTab
    PROVE  /\ TrueLane(Moved(L, tab, gen, wait, status))
           /\ Moved(L, tab, gen, wait, status).tab = tab /\ Moved(L, tab, gen, wait, status).gen = gen
           /\ Moved(L, tab, gen, wait, status).status = status
           /\ Moved(L, tab, gen, wait, status).targets = L.targets
           /\ Moved(L, tab, gen, wait, status).cursor = L.cursor
<1> DEFINE R == Moved(L, tab, gen, wait, status)
<1>1. L \in Lane BY DEF TrueLane, KnownLane
<1>2. R \in Lane BY <1>1 DEF Lane, Moved
<1>3. /\ R.tab = tab /\ R.gen = gen /\ R.status = status
      /\ R.targets = L.targets /\ R.cursor = L.cursor /\ R.chk = L.chk
  BY <1>1 DEF Lane, Moved
<1> HIDE DEF R
<1>4. TrueLane(R) BY <1>2, <1>3 DEF TrueLane, KnownLane, HasTarget, Current
<1> QED BY <1>3, <1>4 DEF R

LEMMA MovedIsTrue ==
    ASSUME NEW L, TrueLane(L), NEW tab \in Tabs \union {NoTab}, NEW gen \in Nat, NEW wait \in Nat,
           NEW status \in Statuses, status = "complete" => L.status = "complete",
           status # "scanning", NEW M, M = Moved(L, tab, gen, wait, status)
    PROVE  /\ TrueLane(M) /\ M.tab = tab /\ M.gen = gen /\ M.status = status
           /\ M.targets = L.targets /\ M.cursor = L.cursor
BY Repositioned

LEMMA SuspendIsTrue ==
    ASSUME NEW L, TrueLane(L), \A t \in Tabs : TrueReceipt(sweep[t]), NEW wait \in Nat,
           NEW status \in Statuses, status # "scanning", status = "complete" => L.status = "complete"
    PROVE  /\ TrueLane(Suspend(L, status, wait)) /\ Suspend(L, status, wait).tab = L.tab
           /\ Suspend(L, status, wait).gen = L.gen + 1
<1>1. PICK R : R = Retain(L) OBVIOUS
<1>2. TrueLane(R) /\ SameWork(R, L) BY <1>1, RetainIsTrue
<1>3. R \in Lane /\ L.gen \in Nat /\ L.gen = R.gen /\ R.tab = L.tab /\ R.status = L.status
  BY <1>2, LaneFields DEF TrueLane, KnownLane, SameWork
<1>4. PICK tab \in Tabs \union {NoTab}, gen \in Nat : tab = R.tab /\ gen = R.gen + 1
  BY <1>2, LaneFields DEF TrueLane
<1>5. Suspend(L, status, wait) = Moved(R, tab, gen, wait, status)
  BY <1>1, <1>3, <1>4 DEF Suspend, Lane, Moved
<1>6. status = "complete" => R.status = "complete" BY <1>3
<1>7. /\ TrueLane(Moved(R, tab, gen, wait, status)) /\ Moved(R, tab, gen, wait, status).tab = tab
      /\ Moved(R, tab, gen, wait, status).gen = gen
  BY ONLY <1>2, <1>6, status # "scanning", wait \in Nat, status \in Statuses, Repositioned
<1> QED BY ONLY <1>3, <1>4, <1>5, <1>7

(* What a configuration names is new and true.                             *)
LEMMA InitialAreTrue ==
    ASSUME NEW list \in Seq(Keys)
    PROVE  /\ InitialTargets(list) \in Seq(Target) /\ Len(InitialTargets(list)) = Len(list)
           /\ \A i \in 1..Len(list) :
                 /\ TrueTarget(InitialTargets(list)[i]) /\ InitialTargets(list)[i].cov = "pending"
                 /\ InitialTargets(list)[i].attempts = 0 /\ InitialTargets(list)[i].key = list[i]
<1>1. DOMAIN list = 1..Len(list) /\ Len(list) \in Nat BY LenProperties
<1>2. \A i \in 1..Len(list) : list[i] \in Keys /\ Dest[list[i]] \in Urls
  BY ElementOfSeq, LaneConstants
<1>3. \A i \in 1..Len(list) :
         LET g == NewTarget(list[i], Dest[list[i]], FALSE)
         IN TrueTarget(g) /\ g.cov = "pending" /\ g.attempts = 0 /\ g.key = list[i]
  BY <1>2, NewIsTrue
<1>4. \A i \in 1..Len(list) : InitialTargets(list)[i] = NewTarget(list[i], Dest[list[i]], FALSE)
  BY <1>1 DEF InitialTargets
<1>5. InitialTargets(list) \in [1..Len(list) -> Target]
  BY <1>1, <1>3 DEF InitialTargets, TrueTarget
<1>6. InitialTargets(list) \in Seq(Target) /\ Len(InitialTargets(list)) = Len(list)
  BY <1>1, <1>5, FunctionIsSeq
<1> QED BY <1>3, <1>4, <1>6

(* A target is tried again.                                                *)
LEMMA AgainIsTrue ==
    ASSUME NEW g, TrueTarget(g)
    PROVE  LET h == [g EXCEPT !.attempts = 0, !.tried = FALSE]
           IN TrueTarget(h) /\ h.attempts = 0 /\ h.cov = g.cov /\ h.duplicate = g.duplicate /\ h.key = g.key
<1> DEFINE h == [g EXCEPT !.attempts = 0, !.tried = FALSE]
<1>1. g \in Target /\ Len(RETRIES) \in Nat BY LaneConstants, LenProperties DEF TrueTarget
<1>2. h \in Target
  <2>1. 0 \in 0..Len(RETRIES) + 1 BY <1>1
  <2> QED BY <1>1, <2>1 DEF Target
<1>3. /\ h.attempts = 0 /\ h.cov = g.cov /\ h.duplicate = g.duplicate /\ h.key = g.key
      /\ h.url = g.url /\ h.sel = g.sel /\ h.chk = g.chk
  BY <1>1 DEF Target
<1> HIDE DEF h
<1>4. TrueTarget(h) BY <1>2, <1>3 DEF TrueTarget
<1> QED BY <1>3, <1>4 DEF h

(* A new round starts with true targets, the carried ones among them.      *)
LEMMA FreshIsTrue ==
    ASSUME ScanTypes, NEW l \in LaneSet, NEW L, TrueLane(L)
    PROVE  /\ TrueLane(FreshLane(l, L)) /\ FreshLane(l, L).tab = L.tab
           /\ FreshLane(l, L).gen = L.gen + 1 /\ FreshLane(l, L).status = "ready"
<1> DEFINE kept    == IF L.list = wanted[l]
                      THEN {i \in DOMAIN L.targets : L.targets[i].cov = "unresolved" /\ ~L.targets[i].duplicate}
                      ELSE {}
           again   == [i \in DOMAIN L.targets |-> [L.targets[i] EXCEPT !.attempts = 0, !.tried = FALSE]]
           initial == InitialTargets(wanted[l])
           others  == {i \in DOMAIN initial : \A j \in kept : L.targets[j].key # initial[i].key}
           A == Only(again, kept)
           B == Only(initial, others)
<1>1. /\ L \in Lane /\ TrueTargets(L.targets, L.cursor) /\ DOMAIN L.targets = 1..Len(L.targets)
      /\ Len(L.targets) \in Nat /\ Len(RETRIES) \in Nat /\ L.targets \in Seq(Target)
  BY LaneFields, LaneConstants, LenProperties DEF TrueLane, KnownLane
<1>2. wanted[l] \in Seq(Keys) BY DEF ScanTypes
<1>3. ASSUME NEW i \in 1..Len(L.targets)
      PROVE  TrueTarget(again[i]) /\ again[i].attempts = 0 /\ again[i].cov = L.targets[i].cov
             /\ again[i].duplicate = L.targets[i].duplicate
  <2>1. TrueTarget(L.targets[i]) BY <1>1 DEF TrueTargets
  <2>2. again[i] = [L.targets[i] EXCEPT !.attempts = 0, !.tried = FALSE] BY <1>1
  <2> HIDE DEF again
  <2> QED BY <2>1, <2>2, AgainIsTrue
<1>4. again \in Seq(Target) /\ Len(again) = Len(L.targets)
  <2>1. again \in [1..Len(L.targets) -> Target] BY <1>1, <1>3 DEF TrueTarget
  <2> HIDE DEF again
  <2> QED BY <1>1, <2>1, FunctionIsSeq
<1>5. kept \in SUBSET (1..Len(again))
      /\ \A i \in kept : L.targets[i].cov = "unresolved" /\ ~L.targets[i].duplicate
  BY <1>1, <1>4
<1>6. /\ initial \in Seq(Target)
      /\ \A i \in 1..Len(initial) : TrueTarget(initial[i]) /\ initial[i].cov = "pending" /\ initial[i].attempts = 0
  BY <1>2, InitialAreTrue
<1>7. others \in SUBSET (1..Len(initial)) BY <1>6, LenProperties
<1> HIDE DEF kept, again, initial, others
<1>8. /\ A \in Seq(Target) /\ B \in Seq(Target) /\ Len(A) \in Nat /\ Len(B) \in Nat
      /\ \A n \in 1..Len(A) : \E i \in kept : A[n] = again[i]
      /\ \A n \in 1..Len(B) : \E i \in others : B[n] = initial[i]
  BY <1>4, <1>5, <1>6, <1>7, OnlyTakes, LenProperties
<1> HIDE DEF A, B
<1>9. \A n \in 1..Len(B) : TrueTarget(B[n]) /\ B[n].cov = "pending" /\ B[n].attempts = 0
  BY <1>6, <1>7, <1>8
<1>10. TrueTargets(A, 1)
  <2>1. \A n \in 1..Len(A) : /\ TrueTarget(A[n]) /\ A[n].attempts = 0
                             /\ A[n].cov = "unresolved" /\ ~A[n].duplicate
    <3>1. SUFFICES ASSUME NEW n \in 1..Len(A)
                   PROVE  /\ TrueTarget(A[n]) /\ A[n].attempts = 0
                          /\ A[n].cov = "unresolved" /\ ~A[n].duplicate
      OBVIOUS
    <3>2. PICK i \in kept : A[n] = again[i] BY <1>8
    <3>3. i \in 1..Len(L.targets) BY <1>4, <1>5
    <3> QED BY <1>3, <1>5, <3>2, <3>3
  <2> QED BY <1>1, <1>8, <2>1 DEF TrueTargets
<1>11. TrueTargets(A \o B, 1) BY <1>8, <1>9, <1>10, TargetsAppended
<1>12. FreshLane(l, L) = [status |-> "ready", tab |-> L.tab, gen |-> L.gen + 1, list |-> wanted[l],
          targets |-> A \o B, cursor |-> 1, wait |-> 0, chk |-> None, round |-> L.round + 1, truncated |-> FALSE]
  BY DEF FreshLane, A, B, again, kept, initial, others
<1>13. A \o B \in Seq(Target) BY <1>11 DEF TrueTargets
<1>14. FreshLane(l, L) \in Lane
  BY <1>1, <1>2, <1>12, <1>13, NothingIsTrue DEF Lane, Statuses, Finished
<1>15. KnownLane(FreshLane(l, L)) BY <1>11, <1>12, <1>14, NothingIsTrue DEF KnownLane
<1>16. HasTarget(FreshLane(l, L)) => Current(FreshLane(l, L)).attempts <= Len(RETRIES)
  <2>1. SUFFICES ASSUME Len(A \o B) >= 1 PROVE (A \o B)[1].attempts <= Len(RETRIES)
    BY <1>12 DEF HasTarget, Current
  <2>2. \/ Len(A) >= 1 /\ (A \o B)[1] = A[1]
        \/ Len(A) = 0 /\ Len(B) >= 1 /\ (A \o B)[1] = B[1]
    BY <1>8, <2>1, ConcatProperties
  <2>3. ASSUME Len(A) >= 1 PROVE A[1].attempts = 0
    <3>1. 1 \in 1..Len(A) BY <1>8, <2>3
    <3>2. PICK i \in kept : A[1] = again[i] BY <1>8, <3>1
    <3>3. i \in 1..Len(L.targets) BY <1>4, <1>5
    <3> QED BY <1>3, <3>2, <3>3
  <2>4. ASSUME Len(B) >= 1 PROVE B[1].attempts = 0 BY <1>8, <1>9, <2>4
  <2> QED BY <1>1, <2>2, <2>3, <2>4
<1> QED BY <1>12, <1>15, <1>16 DEF TrueLane

(* The current target becomes g, and with d = cursor + 1 the lane passes   *)
(* it.                                                                     *)
Worked(L, g, d, c, gen, wait, status) ==
    [L EXCEPT !.targets = [L.targets EXCEPT ![L.cursor] = g],
              !.cursor = d, !.chk = c, !.gen = gen, !.wait = wait, !.status = status]

LEMMA WorkIsKnown ==
    ASSUME NEW L, KnownLane(L), HasTarget(L), NEW g, TrueTarget(g), g.key = Current(L).key,
           NEW d \in {L.cursor, L.cursor + 1}, NEW c, TrueReceipt(c),
           NEW gen \in Nat, NEW wait \in Nat, NEW status \in Statuses,
           d = L.cursor => g.cov \in {"pending", "unresolved"},
           d = L.cursor + 1 => g.cov # "pending",
           ~Current(L).sel => ~g.duplicate /\ ~g.sel /\ g.url = Current(L).url,
           g.duplicate => \E j \in 1..Len(L.targets) : j # L.cursor /\ StandsFor(L.targets[j], g),
           status = "scanning" => d = L.cursor /\ L.tab # NoTab,
           status = "complete" => /\ d = L.cursor + 1 /\ d > Len(L.targets) /\ g.cov # "unresolved"
                                  /\ \A i \in 1..Len(L.targets) : i # L.cursor => L.targets[i].cov # "unresolved",
           NEW R, R = Worked(L, g, d, c, gen, wait, status)
    PROVE  /\ KnownLane(R) /\ R.tab = L.tab /\ R.gen = gen /\ R.status = status
           /\ R.cursor = d /\ R.chk = c /\ R.list = L.list
           /\ Len(R.targets) = Len(L.targets)
           /\ \A i \in 1..Len(L.targets) : R.targets[i] = IF i = L.cursor THEN g ELSE L.targets[i]
<1> DEFINE T == [L.targets EXCEPT ![L.cursor] = g]
<1>1. /\ L \in Lane /\ L.targets \in Seq(Target) /\ L.cursor \in 1..Len(L.targets)
      /\ Current(L) = L.targets[L.cursor] /\ Len(L.targets) \in Nat /\ g \in Target
      /\ TrueTargets(L.targets, L.cursor) /\ c \in Checkpoint
  <2>1. c \in Checkpoint BY ONLY TrueReceipt(c) DEF TrueReceipt
  <2>2. L \in Lane /\ TrueTargets(L.targets, L.cursor) BY DEF KnownLane
  <2>3. g \in Target BY DEF TrueTarget
  <2> QED BY <2>1, <2>2, <2>3, LaneFields
<1>2. /\ TrueTargets(T, d) /\ Len(T) = Len(L.targets)
      /\ \A i \in 1..Len(L.targets) : T[i] = IF i = L.cursor THEN g ELSE L.targets[i]
  <2>1. L.cursor <= Len(L.targets) BY <1>1
  <2>2. g.key = L.targets[L.cursor].key BY <1>1
  <2>3. ~L.targets[L.cursor].sel => ~g.duplicate /\ ~g.sel /\ g.url = L.targets[L.cursor].url BY <1>1
  <2> QED BY <1>1, <2>1, <2>2, <2>3, TargetChanges
<1> HIDE DEF T
<1>3. T \in Seq(Target) /\ d \in Nat \ {0} BY <1>1, <1>2 DEF TrueTargets
<1>4. R = [L EXCEPT !.targets = T, !.cursor = d, !.chk = c, !.gen = gen, !.wait = wait, !.status = status]
  BY DEF Worked, T
<1>5. R \in Lane
  <2>1. /\ L \in Lane /\ T \in Seq(Target) /\ d \in Nat \ {0} /\ c \in Checkpoint
        /\ gen \in Nat /\ wait \in Nat /\ status \in Statuses
    BY <1>1, <1>3
  <2> QED BY ONLY <2>1, <1>4 DEF Lane
<1>6. /\ R.targets = T /\ R.cursor = d /\ R.chk = c /\ R.gen = gen /\ R.status = status /\ R.tab = L.tab
      /\ R.list = L.list
  BY <1>1, <1>4 DEF Lane
<1>7. DOMAIN R.targets = 1..Len(L.targets) BY <1>2, <1>3, <1>6, LenProperties
<1>8. R.status = "complete" => ~HasTarget(R) /\ \A i \in DOMAIN R.targets : R.targets[i].cov # "unresolved"
  BY <1>1, <1>2, <1>6, <1>7 DEF HasTarget
<1>9. R.status = "scanning" => HasTarget(R) /\ R.tab # NoTab BY <1>1, <1>2, <1>6 DEF HasTarget
<1>10. KnownLane(R) BY <1>2, <1>5, <1>6, <1>8, <1>9 DEF KnownLane
<1> QED BY <1>2, <1>6, <1>10

LEMMA SettledTarget ==
    ASSUME NEW g, TrueTarget(g), NEW outcome \in {"complete", "unresolved", "duplicate"},
           NEW h, h = Settled(g, outcome)
    PROVE  /\ h \in Target /\ h.key = g.key /\ h.url = g.url /\ h.sel = g.sel
           /\ h.cov = outcome /\ (h.duplicate <=> outcome = "duplicate") /\ TrueReceipt(h.chk)
<1>1. PICK c : c = IF outcome = "unresolved" THEN g.chk ELSE None OBVIOUS
<1>2. PICK b \in BOOLEAN : b <=> outcome = "duplicate" OBVIOUS
<1>3. g \in Target /\ c \in Checkpoint /\ TrueReceipt(c) BY <1>1, NothingIsTrue DEF TrueTarget, TrueReceipt
<1>4. h = [g EXCEPT !.cov = outcome, !.duplicate = b, !.chk = c]
  BY <1>1, <1>2, <1>3 DEF Settled, Target
<1> QED BY <1>2, <1>3, <1>4 DEF Target

(* A target that is done with: the lane turns to the next one, or ends its *)
(* round.                                                                  *)
LEMMA AdvanceIsTrue ==
    ASSUME NEW L, KnownLane(L), HasTarget(L), \A t \in Tabs : TrueReceipt(sweep[t]),
           NEW outcome \in {"complete", "unresolved", "duplicate"},
           outcome = "complete" => /\ ~Current(L).sel
                                   /\ Pages[Dest[Current(L).key]] \subseteq delivered[Dest[Current(L).key]],
           outcome = "duplicate" => /\ Current(L).sel
                                    /\ \E j \in 1..Len(L.targets) : j # L.cursor /\ StandsFor(L.targets[j], Current(L))
    PROVE  /\ TrueLane(Advance(L, outcome)) /\ Advance(L, outcome).tab = L.tab
           /\ Advance(L, outcome).gen = L.gen + 1
<1>1. PICK R : R = IF outcome = "unresolved" THEN Retain(L) ELSE L OBVIOUS
<1>2. KnownLane(R) /\ SameWork(R, L)
  <2>1. CASE outcome = "unresolved" BY <1>1, <2>1, RetainKnows
  <2>2. CASE outcome # "unresolved" BY <1>1, <2>2 DEF SameWork, SameTarget
  <2> QED BY <2>1, <2>2
<1>3. /\ R.cursor = L.cursor /\ R.tab = L.tab /\ R.gen = L.gen /\ HasTarget(R)
      /\ Len(R.targets) = Len(L.targets) /\ SameTarget(Current(R), Current(L))
  BY <1>2, LaneFields DEF SameWork, HasTarget, Current
<1>4. /\ R \in Lane /\ R.cursor \in 1..Len(R.targets) /\ TrueTarget(Current(R)) /\ Current(R) \in Target
      /\ Current(R) = R.targets[R.cursor] /\ R.targets \in Seq(Target) /\ R.gen \in Nat /\ Len(R.targets) \in Nat
      /\ TrueTargets(R.targets, R.cursor) /\ DOMAIN R.targets = 1..Len(R.targets)
  BY <1>2, <1>3, LaneFields DEF KnownLane
<1> DEFINE g == Settled(Current(R), outcome)
<1>5. /\ g \in Target /\ g.key = Current(R).key /\ g.url = Current(R).url /\ g.sel = Current(R).sel
      /\ g.cov = outcome /\ (g.duplicate <=> outcome = "duplicate") /\ TrueReceipt(g.chk)
  BY <1>4, SettledTarget
<1> HIDE DEF g
<1>6. TrueTarget(g) BY <1>3, <1>4, <1>5 DEF TrueTarget, SameTarget
<1>7. outcome = "duplicate" => \E j \in 1..Len(R.targets) : j # R.cursor /\ StandsFor(R.targets[j], g)
  <2>1. SUFFICES ASSUME outcome = "duplicate"
                 PROVE  \E j \in 1..Len(R.targets) : j # R.cursor /\ StandsFor(R.targets[j], g)
    OBVIOUS
  <2>2. PICK j \in 1..Len(L.targets) : j # L.cursor /\ StandsFor(L.targets[j], Current(L)) BY <2>1
  <2>3. SameTarget(R.targets[j], L.targets[j]) /\ R = L BY <1>1, <1>2, <2>1 DEF SameWork
  <2>4. StandsFor(R.targets[j], g) BY <1>3, <1>5, <2>2, <2>3 DEF StandsFor, SameTarget
  <2> QED BY <1>3, <2>2, <2>4
<1> DEFINE D == [R EXCEPT !.targets = [R.targets EXCEPT ![R.cursor] = g], !.cursor = R.cursor + 1,
                          !.gen = R.gen + 1, !.chk = None]
           status == IF HasTarget(D) THEN "waiting"
                     ELSE IF L.truncated \/ Unresolved(D) THEN "partial" ELSE "complete"
           wait == IF HasTarget(D) THEN SPACING ELSE RestartAt(D)
<1>8. [R EXCEPT !.targets[L.cursor] = Settled(@, outcome), !.cursor = @ + 1, !.gen = @ + 1, !.chk = None] = D
  BY <1>3, <1>4 DEF g, D
<1>9. /\ D.targets = [R.targets EXCEPT ![R.cursor] = g] /\ D.cursor = R.cursor + 1
      /\ D = [R EXCEPT !.targets = [R.targets EXCEPT ![R.cursor] = g], !.cursor = R.cursor + 1,
                       !.gen = R.gen + 1, !.chk = None]
  BY <1>4 DEF Lane
<1> HIDE DEF D
<1>10. Advance(L, outcome) = [D EXCEPT !.status = status, !.wait = wait]
  BY <1>1, <1>8 DEF Advance
<1> HIDE DEF status, wait
<1>11. Advance(L, outcome) = Worked(R, g, R.cursor + 1, None, R.gen + 1, wait, status)
  BY <1>4, <1>9, <1>10 DEF Worked, Lane
<1>12. g.key = Current(R).key /\ g.cov # "pending"
       /\ (~Current(R).sel => ~g.duplicate /\ ~g.sel /\ g.url = Current(R).url)
  BY <1>3, <1>5 DEF SameTarget
<1>13. /\ status \in Statuses /\ wait \in Nat /\ status # "scanning"
       /\ R.gen + 1 \in Nat /\ R.cursor + 1 \in {R.cursor, R.cursor + 1} /\ R.cursor + 1 # R.cursor
  BY <1>4, LaneConstants DEF status, wait, RestartAt, Statuses, Finished
<1>14. status = "complete" => /\ R.cursor + 1 > Len(R.targets) /\ g.cov # "unresolved"
                              /\ \A i \in 1..Len(R.targets) : i # R.cursor => R.targets[i].cov # "unresolved"
  <2>1. SUFFICES ASSUME status = "complete"
                 PROVE  /\ R.cursor + 1 > Len(R.targets) /\ g.cov # "unresolved"
                        /\ \A i \in 1..Len(R.targets) : i # R.cursor => R.targets[i].cov # "unresolved"
    OBVIOUS
  <2>2. ~HasTarget(D) /\ ~Unresolved(D) BY <2>1 DEF status
  <2>3. /\ DOMAIN D.targets = 1..Len(R.targets) /\ Len(D.targets) = Len(R.targets)
        /\ \A i \in 1..Len(R.targets) : D.targets[i] = IF i = R.cursor THEN g ELSE R.targets[i]
    BY <1>4, <1>5, <1>9, ExceptSeq, LenProperties
  <2>4. R.cursor + 1 > Len(R.targets) BY <1>4, <1>9, <2>2, <2>3 DEF HasTarget
  <2>5. \A i \in 1..Len(R.targets) : D.targets[i].cov # "unresolved" BY <2>2, <2>3 DEF Unresolved
  <2> QED BY <1>4, <2>3, <2>4, <2>5
<1>15. g.duplicate => \E j \in 1..Len(R.targets) : j # R.cursor /\ StandsFor(R.targets[j], g) BY <1>5, <1>7
<1>16. PICK d \in {R.cursor, R.cursor + 1}, gen \in Nat, w \in Nat, st \in Statuses :
          d = R.cursor + 1 /\ gen = R.gen + 1 /\ w = wait /\ st = status
  BY <1>13
<1>17. PICK A : A = Worked(R, g, d, None, gen, w, st) OBVIOUS
<1>18. /\ KnownLane(A) /\ A.tab = R.tab /\ A.gen = R.gen + 1 /\ A.cursor = R.cursor + 1
       /\ Len(A.targets) = Len(R.targets)
       /\ \A i \in 1..Len(R.targets) : A.targets[i] = IF i = R.cursor THEN g ELSE R.targets[i]
  <2>1. /\ KnownLane(R) /\ HasTarget(R) /\ TrueTarget(g) /\ g.key = Current(R).key /\ TrueReceipt(None)
        /\ d # R.cursor /\ st # "scanning"
    BY <1>2, <1>3, <1>6, <1>12, <1>13, <1>16, NothingIsTrue
  <2>2. st = "complete" => /\ d = R.cursor + 1 /\ d > Len(R.targets) /\ g.cov # "unresolved"
                           /\ \A i \in 1..Len(R.targets) : i # R.cursor => R.targets[i].cov # "unresolved"
    BY <1>14, <1>16
  <2>3. A = Worked(R, g, d, None, gen, w, st) BY <1>17
  <2>4. /\ KnownLane(A) /\ A.tab = R.tab /\ A.gen = gen /\ A.cursor = d
        /\ Len(A.targets) = Len(R.targets)
        /\ \A i \in 1..Len(R.targets) : A.targets[i] = IF i = R.cursor THEN g ELSE R.targets[i]
    BY ONLY <1>12, <1>15, <2>1, <2>2, <2>3, WorkIsKnown, d \in {R.cursor, R.cursor + 1}, gen \in Nat,
            w \in Nat, st \in Statuses
  <2> QED BY <1>16, <2>4
<1>19. HasTarget(A) => Current(A).attempts <= Len(RETRIES)
  <2>1. SUFFICES ASSUME R.cursor + 1 <= Len(R.targets) PROVE R.targets[R.cursor + 1].attempts <= Len(RETRIES)
    BY <1>4, <1>18 DEF HasTarget, Current
  <2> QED BY <1>4, <2>1 DEF TrueTargets
<1> QED BY <1>3, <1>11, <1>16, <1>18, <1>19, <1>17 DEF TrueLane

(* The current target changes in place: what it is about stays.            *)
Changed(L, g, c, wait, status) ==
    [L EXCEPT !.targets = [L.targets EXCEPT ![L.cursor] = g], !.chk = c, !.wait = wait, !.status = status]

LEMMA ChangedInPlace ==
    ASSUME NEW L, KnownLane(L), HasTarget(L), NEW g, TrueTarget(g), g.key = Current(L).key,
           g.cov \in {"pending", "unresolved"}, ~g.duplicate,
           ~Current(L).sel => ~g.sel /\ g.url = Current(L).url,
           NEW c, TrueReceipt(c), NEW wait \in Nat, NEW status \in Statuses,
           status = "scanning" => L.tab # NoTab, status # "complete",
           NEW R, R = Changed(L, g, c, wait, status)
    PROVE  /\ KnownLane(R) /\ R.tab = L.tab /\ R.gen = L.gen /\ R.status = status /\ R.chk = c
           /\ HasTarget(R) /\ Current(R) = g
<1>1. /\ L \in Lane /\ L.cursor \in 1..Len(L.targets) /\ Current(L) = L.targets[L.cursor]
      /\ Len(L.targets) \in Nat /\ L.gen \in Nat
  BY LaneFields DEF KnownLane
<1>2. PICK d \in {L.cursor, L.cursor + 1}, gen \in Nat : d = L.cursor /\ gen = L.gen BY <1>1
<1>3. R = Worked(L, g, d, c, gen, wait, status) BY <1>1, <1>2 DEF Changed, Worked, Lane
<1>4. d # L.cursor + 1 BY <1>1, <1>2
<1>5. /\ KnownLane(R) /\ R.tab = L.tab /\ R.gen = gen /\ R.status = status
      /\ R.cursor = d /\ R.chk = c
      /\ Len(R.targets) = Len(L.targets)
      /\ \A i \in 1..Len(L.targets) : R.targets[i] = IF i = L.cursor THEN g ELSE L.targets[i]
  BY <1>2, <1>3, <1>4, WorkIsKnown
<1> QED BY <1>1, <1>2, <1>5 DEF HasTarget, Current

LEMMA FailedTarget ==
    ASSUME NEW g, TrueTarget(g), g.attempts <= Len(RETRIES), ~g.duplicate, NEW h, h = Failed(g)
    PROVE  /\ TrueTarget(h) /\ h.key = g.key /\ h.url = g.url /\ h.sel = g.sel
           /\ h.cov = "unresolved" /\ ~h.duplicate /\ h.attempts = g.attempts + 1
<1>1. g \in Target /\ Len(RETRIES) \in Nat BY LaneConstants, LenProperties DEF TrueTarget
<1>2. PICK n \in 0..Len(RETRIES) + 1 : n = g.attempts + 1 BY <1>1 DEF Target
<1>3. h = [g EXCEPT !.attempts = n, !.cov = "unresolved"] BY <1>2 DEF Failed
<1>4. /\ h \in Target /\ h.key = g.key /\ h.url = g.url /\ h.sel = g.sel /\ h.attempts = n
      /\ h.cov = "unresolved" /\ h.duplicate = g.duplicate /\ h.chk = g.chk
  BY <1>1, <1>3 DEF Target
<1> QED BY <1>2, <1>4 DEF TrueTarget

(* A failed attempt keeps what the lane knows.                             *)
LEMMA FailIsTrue ==
    ASSUME NEW L, TrueLane(L), HasTarget(L), \A t \in Tabs : TrueReceipt(sweep[t])
    PROVE  TrueLane(Fail(L)) /\ Fail(L).tab = L.tab /\ Fail(L).gen = L.gen + 1
<1>1. /\ KnownLane(L) /\ L \in Lane /\ L.cursor \in 1..Len(L.targets) /\ Current(L) = L.targets[L.cursor]
      /\ TrueTarget(Current(L)) /\ ~Current(L).duplicate /\ Current(L).attempts <= Len(RETRIES)
      /\ Current(L) \in Target /\ TrueReceipt(L.chk) /\ L.gen \in Nat /\ Len(RETRIES) \in Nat
  BY LaneFields, LaneConstants, LenProperties DEF TrueLane, KnownLane
<1>2. PICK g : g = Failed(Current(L)) OBVIOUS
<1>3. /\ TrueTarget(g) /\ g.key = Current(L).key /\ g.url = Current(L).url /\ g.sel = Current(L).sel
      /\ g.cov = "unresolved" /\ ~g.duplicate /\ g.attempts = Current(L).attempts + 1
  BY <1>1, <1>2, FailedTarget
<1>4. PICK A : A = [L EXCEPT !.targets[L.cursor] = Failed(@)] OBVIOUS
<1>5. /\ KnownLane(A) /\ A.tab = L.tab /\ A.gen = L.gen /\ HasTarget(A) /\ Current(A) = g
  <2>1. PICK wait \in Nat, status \in Statuses : wait = L.wait /\ status = L.status
    <3>1. L.wait \in Nat /\ L.status \in Statuses BY <1>1 DEF Lane
    <3> QED BY <3>1
  <2>2. PICK c : c = L.chk OBVIOUS
  <2>3. A = Changed(L, g, c, wait, status)
    BY <1>1, <1>2, <1>4, <2>1, <2>2 DEF Changed, Lane
  <2>4. (status = "scanning" => L.tab # NoTab) /\ status # "complete" /\ TrueReceipt(c)
    BY <1>1, <2>1, <2>2 DEF KnownLane
  <2>5. g.cov \in {"pending", "unresolved"} /\ (~Current(L).sel => ~g.sel /\ g.url = Current(L).url) BY <1>3
  <2> QED
    BY ONLY <1>1, <1>3, <2>3, <2>4, <2>5, HasTarget(L), wait \in Nat, status \in Statuses, ChangedInPlace
<1>6. CASE Spent(L)
  <2>1. Fail(L) = Advance(A, "unresolved") BY <1>4, <1>6 DEF Fail
  <2>2. TrueLane(Advance(A, "unresolved")) /\ Advance(A, "unresolved").tab = A.tab
        /\ Advance(A, "unresolved").gen = A.gen + 1
    <3>1. PICK outcome \in {"complete", "unresolved", "duplicate"} : outcome = "unresolved" OBVIOUS
    <3>2. outcome # "complete" /\ outcome # "duplicate" BY <3>1
    <3>3. TrueLane(Advance(A, outcome)) /\ Advance(A, outcome).tab = A.tab
          /\ Advance(A, outcome).gen = A.gen + 1
      BY <1>5, <3>2, AdvanceIsTrue
    <3> QED BY ONLY <3>1, <3>3
  <2> QED BY <1>5, <2>1, <2>2
<1>7. CASE ~Spent(L)
  <2>1. PICK R : R = IF Current(L).sel THEN [A EXCEPT !.chk = None] ELSE Retain(A) OBVIOUS
  <2>2. KnownLane(R) /\ SameWork(R, A)
    <3>1. KnownLane([A EXCEPT !.chk = None]) /\ SameWork([A EXCEPT !.chk = None], A)
      BY <1>5, NothingIsTrue, Bookmarked
    <3>2. KnownLane(Retain(A)) /\ SameWork(Retain(A), A) BY <1>5, RetainKnows
    <3>3. CASE Current(L).sel
      <4>1. R = [A EXCEPT !.chk = None] BY <2>1, <3>3
      <4> QED BY ONLY <3>1, <4>1
    <3>4. CASE ~Current(L).sel BY <2>1, <3>2, <3>4
    <3> QED BY <3>3, <3>4
  <2>3. Current(L).attempts + 1 \in 1..Len(RETRIES)
    BY <1>1, <1>7 DEF Spent, Target
  <2>4. TrueLane(A) BY <1>3, <1>5, <2>3 DEF TrueLane
  <2>5. TrueLane(R) BY <2>2, <2>4, SameAttempts
  <2>6. R \in Lane /\ R.tab = L.tab /\ R.gen = L.gen /\ R.tab \in Tabs \union {NoTab}
    BY <1>5, <2>2, LaneFields DEF KnownLane, SameWork
  <2>7. PICK tab \in Tabs \union {NoTab}, gen \in Nat, wait \in Nat, status \in Statuses :
           tab = R.tab /\ gen = R.gen + 1 /\ wait = RETRIES[Current(A).attempts] /\ status = "waiting"
    <3>1. RETRIES[Current(A).attempts] \in Nat BY <1>3, <1>5, <2>3, LaneConstants, ElementOfSeq
    <3>2. "waiting" \in Statuses BY DEF Statuses
    <3> QED BY <1>1, <2>6, <3>1, <3>2
  <2>8. Fail(L) = Moved(R, tab, gen, wait, status)
    BY <1>4, <1>7, <2>1, <2>6, <2>7 DEF Fail, Moved, Lane
  <2>9. status # "complete" /\ status # "scanning" BY <2>7
  <2>10. /\ TrueLane(Moved(R, tab, gen, wait, status)) /\ Moved(R, tab, gen, wait, status).tab = tab
         /\ Moved(R, tab, gen, wait, status).gen = gen
    BY <2>5, <2>9, Repositioned
  <2> QED BY ONLY <2>6, <2>7, <2>8, <2>10
<1> QED BY <1>6, <1>7

(* An attempt starts: its earlier receipts count for the new generation.   *)
LEMMA StampedIsTrue ==
    ASSUME NEW L, TrueLane(L), HasTarget(L), L.tab # NoTab
    PROVE  /\ TrueLane(Stamped(L)) /\ TrueReceipt(Stamped(L).chk)
           /\ Stamped(L).tab = L.tab /\ Stamped(L).gen = L.gen /\ Stamped(L).status = "scanning"
           /\ HasTarget(Stamped(L)) /\ Current(Stamped(L)).key = Current(L).key
<1>1. /\ KnownLane(L) /\ L \in Lane /\ L.cursor \in 1..Len(L.targets) /\ Current(L) = L.targets[L.cursor]
      /\ TrueTarget(Current(L)) /\ ~Current(L).duplicate /\ Current(L).attempts <= Len(RETRIES)
      /\ Current(L).cov \in {"pending", "unresolved"}
      /\ Current(L) \in Target /\ TrueReceipt(L.chk) /\ L.gen \in Nat
  BY LaneFields DEF TrueLane, KnownLane
<1>2. PICK chk : chk = IF L.chk = None THEN Current(L).chk ELSE L.chk OBVIOUS
<1>3. TrueReceipt(chk) /\ chk \in Checkpoint BY <1>1, <1>2 DEF TrueTarget, TrueReceipt
<1>4. PICK c : c = IF chk = None THEN None ELSE [chk EXCEPT !.gen = L.gen] OBVIOUS
<1>5. TrueReceipt(c)
  <2>1. PICK r : r = [chk EXCEPT !.gen = L.gen] OBVIOUS
  <2>2. r \in Checkpoint /\ r.key = chk.key /\ r.visited = chk.visited BY <1>1, <1>3, <2>1, Names
  <2>3. TrueReceipt(r) BY <1>3, <2>2 DEF TrueReceipt
  <2> QED BY <1>4, <2>1, <2>3, NothingIsTrue
<1>6. PICK g : g = [Current(L) EXCEPT !.tried = TRUE] OBVIOUS
<1>7. /\ g \in Target /\ g.key = Current(L).key /\ g.url = Current(L).url /\ g.sel = Current(L).sel
      /\ g.attempts = Current(L).attempts /\ g.cov = Current(L).cov /\ g.duplicate = Current(L).duplicate
      /\ g.chk = Current(L).chk
  BY <1>1, <1>6 DEF Target
<1>8. TrueTarget(g) BY <1>1, <1>7 DEF TrueTarget
<1>9. PICK wait \in Nat, status \in Statuses : wait = 0 /\ status = "scanning" BY DEF Statuses
<1>10. Stamped(L) = Changed(L, g, c, wait, status)
  BY <1>1, <1>2, <1>4, <1>6, <1>9 DEF Stamped, Changed, Lane
<1>11. PICK R : R = Changed(L, g, c, wait, status) OBVIOUS
<1>12. /\ KnownLane(R) /\ R.tab = L.tab /\ R.gen = L.gen /\ R.status = status /\ R.chk = c
       /\ HasTarget(R) /\ Current(R) = g
  <2>1. /\ g.cov \in {"pending", "unresolved"} /\ ~g.duplicate /\ status # "complete"
        /\ (~Current(L).sel => ~g.sel /\ g.url = Current(L).url)
    BY <1>1, <1>7, <1>9
  <2> QED BY <1>1, <1>5, <1>7, <1>8, <1>11, <2>1, ChangedInPlace
<1> QED BY <1>1, <1>5, <1>7, <1>9, <1>10, <1>11, <1>12 DEF TrueLane

(* What a restart finds begun stays unresolved.                            *)
LEMMA BegunIsTrue ==
    ASSUME NEW L, TrueLane(L), HasTarget(L), NEW R, R = [L EXCEPT !.targets[L.cursor].cov = "unresolved"]
    PROVE  TrueLane(R) /\ R.tab = L.tab /\ R.gen = L.gen
<1>1. /\ KnownLane(L) /\ L \in Lane /\ L.cursor \in 1..Len(L.targets) /\ Current(L) = L.targets[L.cursor]
      /\ TrueTarget(Current(L)) /\ ~Current(L).duplicate /\ Current(L).attempts <= Len(RETRIES)
      /\ Current(L) \in Target /\ TrueReceipt(L.chk) /\ L.gen \in Nat
  BY LaneFields DEF TrueLane, KnownLane
<1>2. PICK g : g = [Current(L) EXCEPT !.cov = "unresolved"] OBVIOUS
<1>3. /\ g \in Target /\ g.key = Current(L).key /\ g.url = Current(L).url /\ g.sel = Current(L).sel
      /\ g.attempts = Current(L).attempts /\ g.cov = "unresolved" /\ g.duplicate = Current(L).duplicate
      /\ g.chk = Current(L).chk
  BY <1>1, <1>2 DEF Target
<1>4. TrueTarget(g) BY <1>1, <1>3 DEF TrueTarget
<1>5. PICK wait \in Nat, status \in Statuses : wait = L.wait /\ status = L.status
  <2>1. L.wait \in Nat /\ L.status \in Statuses BY <1>1 DEF Lane
  <2> QED BY <2>1
<1>6. PICK c : c = L.chk OBVIOUS
<1>7. R = Changed(L, g, c, wait, status) BY <1>1, <1>2, <1>5, <1>6 DEF Changed, Lane
<1>8. KnownLane(R) /\ R.tab = L.tab /\ R.gen = L.gen /\ HasTarget(R) /\ Current(R) = g
  <2>1. /\ g.cov \in {"pending", "unresolved"} /\ ~g.duplicate /\ TrueReceipt(c)
        /\ (~Current(L).sel => ~g.sel /\ g.url = Current(L).url)
    BY <1>1, <1>3, <1>6
  <2>2. status # "complete" /\ (status = "scanning" => L.tab # NoTab) BY <1>1, <1>5 DEF KnownLane
  <2> QED
    BY ONLY <1>1, <1>3, <1>4, <1>7, <2>1, <2>2, HasTarget(L), wait \in Nat, status \in Statuses, ChangedInPlace
<1> QED BY <1>1, <1>3, <1>8 DEF TrueLane

(* A selection that arrived where its target is to be read.                *)
WithArrived(L, url) == [L EXCEPT !.targets[L.cursor] = Arrived(@, url), !.chk = None]

LEMMA ArrivedIsTrue ==
    ASSUME NEW L, TrueLane(L), HasTarget(L), NEW url, url = Dest[Current(L).key],
           NEW R, R = WithArrived(L, url),
           Current(L).sel
    PROVE  /\ TrueLane(R) /\ R.tab = L.tab /\ R.gen = L.gen
           /\ HasTarget(R) /\ Current(R).key = Current(L).key
<1>1. /\ KnownLane(L) /\ L \in Lane /\ L.cursor \in 1..Len(L.targets) /\ Current(L) = L.targets[L.cursor]
      /\ TrueTarget(Current(L)) /\ ~Current(L).duplicate /\ Current(L).attempts <= Len(RETRIES)
      /\ Current(L).cov \in {"pending", "unresolved"}
      /\ Current(L) \in Target /\ L.gen \in Nat
  BY LaneFields DEF TrueLane, KnownLane
<1>2. PICK g : g = Arrived(Current(L), url) OBVIOUS
<1>3. /\ g \in Target /\ g.key = Current(L).key /\ g.url = Dest[Current(L).key] /\ ~g.sel
      /\ g.attempts = Current(L).attempts /\ g.cov = Current(L).cov /\ g.duplicate = Current(L).duplicate
      /\ g.chk = Current(L).chk
  <2>1. url \in Urls
    <3>1. Current(L).key \in Keys BY <1>1 DEF Target
    <3> QED BY <3>1, LaneConstants
  <2> QED BY <1>1, <1>2, <2>1 DEF Target, Arrived
<1>4. TrueTarget(g) BY <1>1, <1>3 DEF TrueTarget
<1>5. PICK wait \in Nat, status \in Statuses : wait = L.wait /\ status = L.status
  <2>1. L.wait \in Nat /\ L.status \in Statuses BY <1>1 DEF Lane
  <2> QED BY <2>1
<1>6. PICK c : c = None OBVIOUS
<1>7. R = Changed(L, g, c, wait, status) BY <1>1, <1>2, <1>5, <1>6 DEF Changed, Lane, WithArrived
<1>8. KnownLane(R) /\ R.tab = L.tab /\ R.gen = L.gen /\ HasTarget(R) /\ Current(R) = g
  <2>1. g.cov \in {"pending", "unresolved"} /\ ~g.duplicate /\ TrueReceipt(c)
    BY <1>1, <1>3, <1>6, NothingIsTrue
  <2>2. status # "complete" /\ (status = "scanning" => L.tab # NoTab) BY <1>1, <1>5 DEF KnownLane
  <2>3. KnownLane(L) /\ HasTarget(L) /\ Current(L).sel /\ g.key = Current(L).key BY <1>1, <1>3
  <2> QED BY <1>4, <1>7, <2>1, <2>2, <2>3, ChangedInPlace
<1> QED BY <1>1, <1>3, <1>8 DEF TrueLane

(* More targets of a running round: the current one stays.                 *)
Longer(L, M, truncated, list) == [L EXCEPT !.targets = @ \o M, !.truncated = truncated, !.list = list]

LEMMA LongerIsTrue ==
    ASSUME NEW L, TrueLane(L), NEW M \in Seq(Target), NEW truncated \in BOOLEAN, NEW list \in Seq(Keys),
           \A i \in 1..Len(M) : TrueTarget(M[i]) /\ M[i].cov = "pending" /\ M[i].attempts = 0,
           NEW R, R = Longer(L, M, truncated, list)
    PROVE  /\ R \in Lane /\ R.tab = L.tab /\ R.gen = L.gen /\ R.status = L.status /\ R.chk = L.chk
           /\ TrueTargets(R.targets, R.cursor)
           /\ HasTarget(R) => Current(R).attempts <= Len(RETRIES)
           /\ HasTarget(L) => HasTarget(R) /\ Current(R) = Current(L)
           /\ L.status # "complete" \/ ~HasTarget(R) => TrueLane(R)
<1>1. /\ KnownLane(L) /\ L \in Lane /\ TrueTargets(L.targets, L.cursor) /\ L.targets \in Seq(Target)
      /\ L.cursor \in 1..Len(L.targets) + 1 /\ Len(L.targets) \in Nat /\ Len(M) \in Nat /\ Len(RETRIES) \in Nat
      /\ TrueReceipt(L.chk) /\ DOMAIN L.targets = 1..Len(L.targets)
  BY LaneFields, LenProperties, LaneConstants DEF TrueLane, KnownLane
<1> DEFINE T == L.targets \o M
<1>2. TrueTargets(T, L.cursor) /\ Len(T) = Len(L.targets) + Len(M) /\ \A i \in 1..Len(L.targets) : T[i] = L.targets[i]
  BY <1>1, TargetsAppended
<1>3. \A i \in 1..Len(T) : i > Len(L.targets) => T[i].attempts = 0
  <2>1. SUFFICES ASSUME NEW i \in 1..Len(T), i > Len(L.targets) PROVE T[i].attempts = 0 OBVIOUS
  <2>2. T[i] = M[i - Len(L.targets)] /\ i - Len(L.targets) \in 1..Len(M)
    BY <1>1, <1>2, <2>1, ConcatProperties
  <2> HIDE DEF T
  <2> QED BY <2>2
<1>4. R = [L EXCEPT !.targets = T, !.truncated = truncated, !.list = list] BY DEF Longer
<1> HIDE DEF T
<1>5. T \in Seq(Target) BY <1>2 DEF TrueTargets
<1>6. R \in Lane BY ONLY <1>1, <1>4, <1>5, truncated \in BOOLEAN, list \in Seq(Keys) DEF Lane
<1>7. /\ R.targets = T /\ R.cursor = L.cursor /\ R.tab = L.tab /\ R.gen = L.gen /\ R.status = L.status
      /\ R.chk = L.chk
  BY ONLY <1>1, <1>4 DEF Lane
<1>8. HasTarget(L) => HasTarget(R) /\ Current(R) = Current(L) BY <1>1, <1>2, <1>7 DEF HasTarget, Current
<1>9. HasTarget(R) => Current(R).attempts <= Len(RETRIES)
  <2>1. SUFFICES ASSUME HasTarget(R) PROVE T[L.cursor].attempts <= Len(RETRIES) BY <1>7 DEF Current
  <2>2. CASE HasTarget(L) BY <1>7, <1>8, <2>2 DEF TrueLane, Current
  <2>3. CASE ~HasTarget(L)
    <3>1. L.cursor \in 1..Len(T) /\ L.cursor > Len(L.targets) BY <1>1, <1>2, <1>7, <2>1, <2>3 DEF HasTarget
    <3> QED BY <1>1, <1>3, <3>1
  <2> QED BY <2>2, <2>3
<1>10. ASSUME L.status # "complete" \/ ~HasTarget(R) PROVE TrueLane(R)
  <2>1. R.status = "complete" => ~HasTarget(R) /\ \A i \in DOMAIN R.targets : R.targets[i].cov # "unresolved"
    <3>1. SUFFICES ASSUME L.status = "complete"
                   PROVE  ~HasTarget(R) /\ \A i \in DOMAIN R.targets : R.targets[i].cov # "unresolved"
      BY <1>7
    <3>2. ~HasTarget(R) /\ ~HasTarget(L) BY <1>1, <1>10, <3>1 DEF KnownLane
    <3>3. Len(T) = Len(L.targets) BY <1>1, <1>2, <1>7, <3>2 DEF HasTarget
    <3>4. DOMAIN R.targets = 1..Len(L.targets) BY <1>5, <1>7, <3>3, LenProperties
    <3> QED BY <1>1, <1>2, <1>7, <3>1, <3>2, <3>4 DEF KnownLane
  <2>2. R.status = "scanning" => HasTarget(R) /\ R.tab # NoTab BY <1>1, <1>7, <1>8 DEF KnownLane
  <2>3. KnownLane(R) BY <1>1, <1>2, <1>6, <1>7, <2>1, <2>2 DEF KnownLane
  <2> QED BY <1>9, <2>3 DEF TrueLane
<1> QED BY <1>2, <1>6, <1>7, <1>8, <1>9, <1>10

(* A longer list of keywords: a finished lane that gets a target waits.    *)
LEMMA AppendIsTrue ==
    ASSUME ScanTypes, NEW l \in LaneSet, NEW L, TrueLane(L), Extends(l, L), NEW A, A = AppendTargets(l, L)
    PROVE  /\ TrueLane(A) /\ A.tab = L.tab /\ A.gen = L.gen
           /\ HasTarget(L) => HasTarget(A) /\ Current(A) = Current(L)
<1>1. L \in Lane /\ L.list \in Seq(Keys) /\ wanted[l] \in Seq(Keys) /\ L.truncated \in BOOLEAN
  <2>1. L \in Lane BY DEF TrueLane, KnownLane
  <2> QED BY <2>1 DEF Lane, ScanTypes
<1> DEFINE known == {L.targets[i].key : i \in DOMAIN L.targets}
           rest  == SubSeq(wanted[l], Len(L.list) + 1, Len(wanted[l]))
           named == InitialTargets(rest)
           more  == Only(named, {i \in DOMAIN named : named[i].key \notin known})
<1>2. rest \in Seq(Keys)
  <2>1. Len(L.list) \in Nat /\ Len(wanted[l]) \in Nat /\ Len(wanted[l]) > Len(L.list)
    BY <1>1, LenProperties DEF Extends
  <2> QED BY <1>1, <2>1, SubSeqProperties
<1> HIDE DEF rest
<1>3. /\ named \in Seq(Target) /\ DOMAIN named = 1..Len(named)
      /\ \A i \in 1..Len(named) : TrueTarget(named[i]) /\ named[i].cov = "pending" /\ named[i].attempts = 0
  BY <1>2, InitialAreTrue, LenProperties
<1> HIDE DEF named
<1>4. PICK I \in SUBSET (1..Len(named)) : more = Only(named, I) BY <1>3
<1> HIDE DEF more
<1>5. more \in Seq(Target) /\ \A n \in 1..Len(more) : \E i \in I : more[n] = named[i]
  BY <1>3, <1>4, OnlyTakes
<1>6. \A i \in 1..Len(more) : TrueTarget(more[i]) /\ more[i].cov = "pending" /\ more[i].attempts = 0
  BY <1>3, <1>5
<1>7. PICK truncated \in BOOLEAN, list \in Seq(Keys) : truncated = L.truncated /\ list = wanted[l] BY <1>1
<1>8. PICK R : R = Longer(L, more, truncated, list) OBVIOUS
<1>9. [L EXCEPT !.targets = @ \o more, !.list = wanted[l]] = R
  BY <1>1, <1>7, <1>8 DEF Longer, Lane
<1>10. /\ R \in Lane /\ R.tab = L.tab /\ R.gen = L.gen /\ R.status = L.status /\ R.chk = L.chk
       /\ TrueTargets(R.targets, R.cursor)
       /\ HasTarget(R) => Current(R).attempts <= Len(RETRIES)
       /\ HasTarget(L) => HasTarget(R) /\ Current(R) = Current(L)
       /\ L.status # "complete" \/ ~HasTarget(R) => TrueLane(R)
  BY <1>5, <1>6, <1>8, LongerIsTrue
<1>11. A = IF L.status \in Finished /\ HasTarget(R) THEN [R EXCEPT !.status = "waiting", !.wait = SPACING] ELSE R
  BY <1>9 DEF AppendTargets, more, named, known, rest
<1>12. CASE L.status \in Finished /\ HasTarget(R)
  <2>1. A = [R EXCEPT !.status = "waiting", !.wait = SPACING] BY <1>11, <1>12
  <2>2. SPACING \in Nat /\ "waiting" \in Statuses BY LaneConstants DEF Statuses
  <2>3. /\ A \in Lane /\ A.tab = L.tab /\ A.gen = L.gen /\ A.targets = R.targets /\ A.cursor = R.cursor
        /\ A.chk = R.chk /\ A.status = "waiting"
    BY <1>10, <2>1, <2>2 DEF Lane
  <2>4. TrueReceipt(R.chk) BY <1>10, LaneFields DEF TrueLane
  <2>5. KnownLane(A) BY <1>10, <2>3, <2>4 DEF KnownLane
  <2> QED BY <1>10, <2>3, <2>5 DEF TrueLane, HasTarget, Current
<1>13. CASE ~(L.status \in Finished /\ HasTarget(R))
  <2>1. L.status # "complete" \/ ~HasTarget(R) BY <1>13 DEF Finished
  <2> QED BY <1>10, <1>11, <1>13, <2>1
<1> QED BY <1>12, <1>13

(* A discovery appends targets that are selections.                        *)
WithMore(L, fits, truncated) ==
    [L EXCEPT !.targets = @ \o [i \in DOMAIN fits |-> NewTarget(fits[i], Home, TRUE)], !.truncated = truncated]

LEMMA DiscoveredAreTrue ==
    ASSUME NEW L, TrueLane(L), NEW fits \in Seq(Keys), NEW truncated \in BOOLEAN, HasTarget(L),
           NEW R, R = WithMore(L, fits, truncated)
    PROVE  TrueLane(R) /\ R.tab = L.tab /\ R.gen = L.gen /\ HasTarget(R) /\ Current(R) = Current(L)
<1> DEFINE M == [i \in DOMAIN fits |-> NewTarget(fits[i], Home, TRUE)]
<1>1. DOMAIN fits = 1..Len(fits) /\ Len(fits) \in Nat /\ \A i \in 1..Len(fits) : fits[i] \in Keys
  BY LenProperties, ElementOfSeq
<1>2. \A i \in 1..Len(fits) :
         /\ TrueTarget(M[i]) /\ M[i].cov = "pending" /\ M[i].attempts = 0 /\ M[i] \in Target
  <2>1. SUFFICES ASSUME NEW i \in 1..Len(fits)
                 PROVE  /\ TrueTarget(NewTarget(fits[i], Home, TRUE)) /\ NewTarget(fits[i], Home, TRUE).cov = "pending"
                        /\ NewTarget(fits[i], Home, TRUE).attempts = 0
    BY <1>1 DEF TrueTarget
  <2>2. PICK k \in Keys, url \in Urls, sel \in BOOLEAN : k = fits[i] /\ url = Home /\ sel = TRUE
    BY <1>1, LaneConstants
  <2>3. /\ TrueTarget(NewTarget(k, url, sel)) /\ NewTarget(k, url, sel).cov = "pending"
        /\ NewTarget(k, url, sel).attempts = 0
    BY <2>2, NewIsTrue
  <2> QED BY ONLY <2>2, <2>3
<1>3. M \in Seq(Target) /\ Len(M) = Len(fits)
  <2>1. M \in [1..Len(fits) -> Target] BY <1>1, <1>2
  <2> HIDE DEF M
  <2> QED BY <1>1, <2>1, FunctionIsSeq
<1>4. L \in Lane /\ L.list \in Seq(Keys) /\ L.status # "complete"
  <2>1. L \in Lane /\ L.status # "complete" BY DEF TrueLane, KnownLane
  <2> QED BY <2>1 DEF Lane
<1>5. PICK list \in Seq(Keys) : list = L.list BY <1>4
<1>6. R = [L EXCEPT !.targets = @ \o M, !.truncated = truncated] BY DEF WithMore
<1> HIDE DEF M
<1>7. R = Longer(L, M, truncated, list) BY <1>4, <1>5, <1>6 DEF Longer, Lane
<1> QED BY <1>2, <1>3, <1>4, <1>7, LongerIsTrue

-----------------------------------------------------------------------------
(* Steps and what they leave right                                         *)

Grows == \A u \in Urls : delivered[u] \subseteq delivered'[u]

(* More pages delivered: what was true is true.                            *)
LEMMA ReceiptsStayTrue ==
    ASSUME Grows, NEW c, TrueReceipt(c)
    PROVE  TrueReceipt(c)'
BY LaneConstants DEF Grows, TrueReceipt

LEMMA TargetsStayTrue ==
    ASSUME Grows, NEW g, TrueTarget(g)
    PROVE  TrueTarget(g)'
<1>1. g.key \in Keys BY DEF TrueTarget, Target
<1>2. Dest[g.key] \in Urls BY <1>1, LaneConstants
<1>3. TrueReceipt(g.chk)' BY ReceiptsStayTrue DEF TrueTarget
<1> QED BY <1>2, <1>3 DEF Grows, TrueTarget

LEMMA LanesStayTrue ==
    ASSUME Grows, NEW L, TrueLane(L)
    PROVE  TrueLane(L)'
<1>1. TrueReceipt(L.chk)' BY ReceiptsStayTrue DEF TrueLane, KnownLane
<1>2. \A i \in 1..Len(L.targets) : TrueTarget(L.targets[i])'
  BY TargetsStayTrue DEF TrueLane, KnownLane, TrueTargets
<1>3. TrueTargets(L.targets, L.cursor)' BY <1>2 DEF TrueLane, KnownLane, TrueTargets
<1> QED BY <1>1, <1>3 DEF TrueLane, KnownLane

LEMMA DocumentsStayTrue ==
    ASSUME Grows, NEW d, TrueDocument(d)
    PROVE  TrueDocument(d)'
<1>1. d.url \in Urls BY Names DEF TrueDocument
<1> QED BY <1>1 DEF Grows, TrueDocument

(* A document keeps its role or loses it.                                  *)
Quieter(t) == \/ doc'[t].gen = doc[t].gen /\ doc'[t].key = doc[t].key
              \/ doc'[t].gen = 0 /\ doc'[t].key = NoName

(* A lane is given up, goes on with its target, or is of a new generation. *)
Follows(R, L) ==
    \/ R.tab = NoTab
    \/ R.tab = L.tab /\ R.gen > L.gen
    \/ R.tab = L.tab /\ R.gen = L.gen /\ (HasTarget(L) => HasTarget(R) /\ Current(R).key = Current(L).key)

LEMMA SpeaksOn ==
    ASSUME NEW t \in Tabs, doc[t].gen \in Nat, Quieter(t), NEW L, L.gen \in Nat, Speaks(t, L),
           NEW R, R.gen \in Nat, Follows(R, L)
    PROVE  Speaks(t, R)'
<1>1. NoTab # t /\ NoName \notin Keys BY LaneConstants
<1>2. CASE R.tab = NoTab BY <1>1, <1>2 DEF Speaks
<1>3. CASE R.tab = L.tab /\ R.gen > L.gen
  <2>1. SUFFICES ASSUME R.tab = t
                 PROVE  doc'[t].gen <= R.gen /\ (doc'[t].gen = R.gen /\ doc'[t].key \in Keys => FALSE)
    BY DEF Speaks
  <2>2. doc[t].gen <= L.gen BY <1>3, <2>1 DEF Speaks
  <2> QED BY <1>1, <1>3, <2>2 DEF Quieter
<1>4. CASE R.tab = L.tab /\ R.gen = L.gen /\ (HasTarget(L) => HasTarget(R) /\ Current(R).key = Current(L).key)
  <2>1. SUFFICES ASSUME R.tab = t
                 PROVE  /\ doc'[t].gen <= R.gen
                        /\ doc'[t].gen = R.gen /\ doc'[t].key \in Keys => HasTarget(R) /\ doc'[t].key = Current(R).key
    BY DEF Speaks, HasTarget, Current
  <2>2. /\ doc[t].gen <= L.gen
        /\ doc[t].gen = L.gen /\ doc[t].key \in Keys => HasTarget(L) /\ doc[t].key = Current(L).key
    BY <1>4, <2>1 DEF Speaks
  <2> QED BY <1>1, <1>4, <2>2 DEF Quieter
<1> QED BY <1>2, <1>3, <1>4 DEF Follows

(* Where a lane of this step comes from.                                   *)
Continues(R, m) == Follows(R, lanes[m]) \/ (m = job.lane /\ Follows(R, draft))

LEMMA LanesMove ==
    ASSUME LanesRight, DocsRight, Grows, \A t \in Tabs : Quieter(t),
           NEW N \in [LaneSet -> Lane], lanes' = N,
           \A m \in LaneSet : TrueLane(N[m]) /\ Continues(N[m], m),
           NEW D, draft' = D, TrueLane(D),
           D.tab = NoTab \/ (job'.lane \in LaneSet /\ Continues(D, job'.lane))
    PROVE  LanesRight'
<1>1. D \in Lane /\ D.gen \in Nat /\ \A m \in LaneSet : N[m].gen \in Nat
  BY LaneFields DEF TrueLane, KnownLane
<1>2. draft.gen \in Nat /\ \A m \in LaneSet : lanes[m].gen \in Nat
  BY LaneFields DEF TrueLane, LanesRight
<1>3. \A t \in Tabs : doc[t].gen \in Nat
  BY Names DEF DocsRight
<1>4. \A m \in LaneSet : TrueLane(N[m])'
  <2>1. SUFFICES ASSUME NEW m \in LaneSet PROVE TrueLane(N[m])' OBVIOUS
  <2> QED BY LanesStayTrue
<1>5. \A m \in LaneSet : TrueLane(lanes[m])' BY <1>4
<1>6. TrueLane(D)' BY LanesStayTrue
<1>7. TrueLane(draft)' BY <1>6
<1>8. ASSUME NEW t \in Tabs, NEW m \in LaneSet, NEW R, R.gen \in Nat, Continues(R, m) PROVE Speaks(t, R)'
  <2>1. Speaks(t, lanes[m]) /\ Speaks(t, draft) BY DEF LanesRight
  <2>2. CASE Follows(R, lanes[m])
    <3>1. PICK L : L = lanes[m] OBVIOUS
    <3> QED BY <1>2, <1>3, <1>8, <2>1, <2>2, <3>1, SpeaksOn
  <2>3. CASE Follows(R, draft)
    <3>1. PICK L : L = draft OBVIOUS
    <3> QED BY <1>2, <1>3, <1>8, <2>1, <2>3, <3>1, SpeaksOn
  <2> QED BY <1>8, <2>2, <2>3 DEF Continues
<1>9. \A t \in Tabs, m \in LaneSet : Speaks(t, N[m])'
  <2>1. SUFFICES ASSUME NEW t \in Tabs, NEW m \in LaneSet PROVE Speaks(t, N[m])' OBVIOUS
  <2> QED BY <1>1, <1>8
<1>10. \A t \in Tabs, m \in LaneSet : Speaks(t, lanes[m])' BY <1>9
<1>11. \A t \in Tabs : Speaks(t, D)'
  <2>1. SUFFICES ASSUME NEW t \in Tabs PROVE Speaks(t, D)' OBVIOUS
  <2>2. CASE D.tab = NoTab BY <2>2, LaneConstants DEF Speaks
  <2>3. CASE job'.lane \in LaneSet /\ Continues(D, job'.lane)
    <3>1. PICK m \in LaneSet : m = job'.lane BY <2>3
    <3> QED BY <1>1, <1>8, <2>3, <3>1
  <2> QED BY <2>2, <2>3
<1>12. \A t \in Tabs : Speaks(t, draft)' BY <1>11
<1>13. \A m \in LaneSet : N[m].tab = NoTab \/ N[m].tab = lanes[m].tab \/ (m = job.lane /\ N[m].tab = draft.tab)
  BY DEF Continues, Follows
<1>14. \A l, m \in LaneSet : N[l].tab = N[m].tab /\ N[l].tab # NoTab => l = m
  BY <1>13 DEF LanesRight
<1>15. D.tab = NoTab \/ D.tab = lanes[job'.lane].tab \/ (job'.lane = job.lane /\ D.tab = draft.tab)
  BY DEF Continues, Follows
<1>16. \A m \in LaneSet : N[m].tab = D.tab /\ D.tab # NoTab => m = job'.lane
  BY <1>13, <1>15 DEF LanesRight
<1> QED BY <1>1, <1>5, <1>7, <1>10, <1>12, <1>14, <1>16 DEF LanesRight

(* One lane changes.                                                       *)
LEMMA LaneMoves ==
    ASSUME LanesRight, DocsRight, Grows, \A t \in Tabs : Quieter(t),
           NEW l \in LaneSet, NEW L, TrueLane(L), lanes' = [lanes EXCEPT ![l] = L], Continues(L, l),
           NEW D, draft' = D, TrueLane(D),
           D.tab = NoTab \/ (job'.lane \in LaneSet /\ Continues(D, job'.lane))
    PROVE  LanesRight'
<1> DEFINE N == [lanes EXCEPT ![l] = L]
<1>1. L \in Lane /\ lanes \in [LaneSet -> Lane] BY DEF LanesRight, TrueLane, KnownLane
<1>2. N \in [LaneSet -> Lane] /\ \A m \in LaneSet : N[m] = IF m = l THEN L ELSE lanes[m] BY <1>1
<1> HIDE DEF N
<1>3. lanes' = N BY DEF N
<1>4. \A m \in LaneSet : TrueLane(N[m]) /\ Continues(N[m], m)
  <2>1. SUFFICES ASSUME NEW m \in LaneSet PROVE TrueLane(N[m]) /\ Continues(N[m], m) OBVIOUS
  <2>2. CASE m = l BY <1>2, <2>2
  <2>3. CASE m # l
    <3>1. N[m] = lanes[m] BY <1>2, <2>3
    <3>2. TrueLane(lanes[m]) BY DEF LanesRight
    <3>3. Follows(lanes[m], lanes[m]) BY DEF Follows
    <3> QED BY <3>1, <3>2, <3>3 DEF Continues
  <2> QED BY <2>2, <2>3
<1>5. PICK M \in [LaneSet -> Lane] : M = N BY <1>2
<1> QED BY <1>3, <1>4, <1>5, LanesMove

(* The stored lanes stay, the one in memory changes or is dropped.         *)
LEMMA LanesStay ==
    ASSUME LanesRight, DocsRight, Grows, \A t \in Tabs : Quieter(t), lanes' = lanes,
           NEW D, draft' = D, TrueLane(D),
           D.tab = NoTab \/ (job'.lane \in LaneSet /\ Continues(D, job'.lane))
    PROVE  LanesRight'
<1>1. \A m \in LaneSet : TrueLane(lanes[m]) /\ Continues(lanes[m], m)
  BY DEF LanesRight, Continues, Follows
<1>2. PICK M \in [LaneSet -> Lane] : M = lanes BY DEF LanesRight
<1> QED BY <1>1, <1>2, LanesMove

LEMMA AbsentIsTrue == TrueLane(Absent) /\ Absent.tab = NoTab
<1>1. Absent \in Lane BY NothingIsTrue DEF Absent, Lane, Statuses, Finished
<1>2. /\ Absent.targets = <<>> /\ Absent.cursor = 1 /\ Absent.chk = None /\ Absent.status = "none"
      /\ Absent.tab = NoTab
  BY DEF Absent
<1>3. TrueTargets(Absent.targets, Absent.cursor) BY <1>2 DEF TrueTargets
<1>4. ~HasTarget(Absent) BY <1>2 DEF HasTarget
<1> QED BY <1>1, <1>2, <1>3, <1>4, NothingIsTrue DEF TrueLane, KnownLane

-----------------------------------------------------------------------------
(* Documents, receipts and owners                                          *)

Idled(d) == [d EXCEPT !.pc = "idle", !.gen = 0, !.key = NoName]

LEMMA IdledIsTrue ==
    ASSUME NEW d, TrueDocument(d)
    PROVE  /\ TrueDocument(Idled(d)) /\ Idled(d).gen = 0 /\ Idled(d).key = NoName
           /\ Idled(d).pc = "idle"
<1>1. d \in Document BY DEF TrueDocument
<1>2. /\ Idled(d) \in Document /\ Idled(d).gen = 0 /\ Idled(d).key = NoName /\ Idled(d).pc = "idle"
  BY <1>1, Names DEF Idled
<1> QED BY <1>2 DEF TrueDocument, Given

LEMMA DocumentChanges ==
    ASSUME DocsRight, Grows, NEW t \in Tabs, NEW d, TrueDocument(d), doc' = [doc EXCEPT ![t] = d]
    PROVE  DocsRight' /\ doc'[t] = d /\ \A u \in Tabs : u # t => doc'[u] = doc[u]
<1>1. /\ doc \in [Tabs -> Document] /\ d \in Document /\ doc' \in [Tabs -> Document]
      /\ doc'[t] = d /\ \A u \in Tabs : u # t => doc'[u] = doc[u]
  BY DEF DocsRight, TrueDocument
<1>2. \A u \in Tabs : TrueDocument(doc[u])'
  <2>1. SUFFICES ASSUME NEW u \in Tabs PROVE TrueDocument(doc[u])' OBVIOUS
  <2>2. PICK e : e = doc'[u] OBVIOUS
  <2>3. TrueDocument(e) BY <1>1, <2>2 DEF DocsRight
  <2>4. TrueDocument(e)' BY <2>3, DocumentsStayTrue
  <2> QED BY <2>2, <2>4
<1> QED BY <1>1, <1>2 DEF DocsRight

LEMMA DocumentsStay ==
    ASSUME DocsRight, Grows, doc' = doc
    PROVE  DocsRight' /\ \A t \in Tabs : Quieter(t)
<1>1. \A u \in Tabs : TrueDocument(doc[u])'
  <2>1. SUFFICES ASSUME NEW u \in Tabs PROVE TrueDocument(doc[u])' OBVIOUS
  <2>2. PICK e : e = doc[u] OBVIOUS
  <2>3. TrueDocument(e)' BY <2>2, DocumentsStayTrue DEF DocsRight
  <2> QED BY <2>2, <2>3
<1> QED BY <1>1 DEF DocsRight, Quieter

(* A document that keeps its role, or one that never had one.              *)
LEMMA DocumentTurns ==
    ASSUME DocsRight, Grows, NEW t \in Tabs, NEW d, TrueDocument(d), doc' = [doc EXCEPT ![t] = d],
           (d.gen = doc[t].gen /\ d.key = doc[t].key) \/ (d.gen = 0 /\ d.key = NoName)
    PROVE  DocsRight' /\ \A u \in Tabs : Quieter(u)
<1>1. DocsRight' /\ doc'[t] = d /\ \A u \in Tabs : u # t => doc'[u] = doc[u] BY DocumentChanges
<1> QED BY <1>1 DEF Quieter

LEMMA StoodDocuments ==
    ASSUME DocsRight, Grows, NEW t \in Tabs, Stood(t)
    PROVE  DocsRight' /\ \A u \in Tabs : Quieter(u)
<1>1. doc \in [Tabs -> Document] /\ TrueDocument(doc[t]) BY DEF DocsRight
<1>2. doc' = [doc EXCEPT ![t] = Idled(doc[t])]
  <2>1. doc' = [doc EXCEPT ![t].pc = "idle", ![t].gen = 0, ![t].key = NoName] BY DEF Stood, NoName
  <2> QED BY <1>1, <2>1, Names DEF Idled
<1>3. PICK d : d = Idled(doc[t]) OBVIOUS
<1> QED BY <1>1, <1>2, <1>3, IdledIsTrue, DocumentTurns

LEMMA ToldDocuments ==
    ASSUME DocsRight, Grows, NEW L, doc' = Told(L)
    PROVE  DocsRight' /\ \A u \in Tabs : Quieter(u)
<1>1. CASE L.tab \in Tabs /\ doc[L.tab].pc \notin {"none", "blank"}
  <2>1. PICK t \in Tabs : t = L.tab BY <1>1
  <2>2. Stood(t) BY <1>1, <2>1 DEF Told, Stood
  <2> QED BY <2>2, StoodDocuments
<1>2. CASE ~(L.tab \in Tabs /\ doc[L.tab].pc \notin {"none", "blank"})
  <2>1. doc' = doc BY <1>2 DEF Told
  <2> QED BY <2>1, DocumentsStay
<1> QED BY <1>1, <1>2

LEMMA BlankIsTrue ==
    /\ TrueDocument(NoDocument) /\ NoDocument.gen = 0 /\ NoDocument.key = NoName
    /\ TrueDocument([NoDocument EXCEPT !.pc = "blank"])
    /\ [NoDocument EXCEPT !.pc = "blank"].gen = 0 /\ [NoDocument EXCEPT !.pc = "blank"].key = NoName
<1>1. /\ NoDocument \in Document /\ NoDocument.gen = 0 /\ NoDocument.key = NoName /\ NoDocument.pc = "none"
  BY Names, LaneConstants
<1>2. PICK d : d = [NoDocument EXCEPT !.pc = "blank"] OBVIOUS
<1>3. d \in Document /\ d.gen = 0 /\ d.key = NoName /\ d.pc = "blank" BY <1>1, <1>2, Names
<1> QED BY <1>1, <1>2, <1>3 DEF TrueDocument, Given

LEMMA ReceiptChanges ==
    ASSUME SweepRight, Grows, NEW t \in Tabs, NEW c, TrueReceipt(c), sweep' = [sweep EXCEPT ![t] = c]
    PROVE  SweepRight'
<1>1. c \in Checkpoint BY DEF TrueReceipt
<1>2. /\ sweep' \in [Tabs -> Checkpoint]
      /\ \A u \in Tabs : sweep'[u] = IF u = t THEN c ELSE sweep[u]
  BY <1>1 DEF SweepRight
<1>3. \A u \in Tabs : TrueReceipt(sweep[u])'
  <2>1. SUFFICES ASSUME NEW u \in Tabs PROVE TrueReceipt(sweep[u])' OBVIOUS
  <2>2. PICK e : e = sweep'[u] OBVIOUS
  <2>3. TrueReceipt(e) BY <1>2, <2>2 DEF SweepRight
  <2>4. TrueReceipt(e)' BY <2>3, ReceiptsStayTrue
  <2> QED BY <2>2, <2>4
<1> QED BY <1>2, <1>3 DEF SweepRight

LEMMA ReceiptsStay ==
    ASSUME SweepRight, Grows, sweep' = sweep
    PROVE  SweepRight'
<1>1. \A u \in Tabs : TrueReceipt(sweep[u])'
  <2>1. SUFFICES ASSUME NEW u \in Tabs PROVE TrueReceipt(sweep[u])' OBVIOUS
  <2>2. PICK e : e = sweep[u] OBVIOUS
  <2>3. TrueReceipt(e)' BY <2>2, ReceiptsStayTrue DEF SweepRight
  <2> QED BY <2>2, <2>3
<1> QED BY <1>1 DEF SweepRight

LEMMA ReceiptsGo ==
    ASSUME SweepRight, Grows, NEW t, Swept(t)
    PROVE  SweepRight'
<1>1. CASE t \in Tabs
  <2>1. PICK u \in Tabs : u = t BY <1>1
  <2>2. PICK c : c = None OBVIOUS
  <2>3. sweep' = [sweep EXCEPT ![u] = c] BY <2>1, <2>2 DEF Swept
  <2> QED BY <2>1, <2>2, <2>3, NothingIsTrue, ReceiptChanges
<1>2. CASE t \notin Tabs BY <1>2, ReceiptsStay DEF Swept
<1> QED BY <1>1, <1>2

LEMMA OwnersStay ==
    ASSUME OwnRight, own' = own, closed' = closed
    PROVE  OwnRight'
BY DEF OwnRight

(* The lock is released, or held for a step that asks nothing of the lane  *)
(* in memory.                                                              *)
LEMMA Released ==
    ASSUME Release, todo' \in [Ticks -> Seq(LaneSet)]
    PROVE  TaskRight' /\ draft' = Absent /\ job'.pc = "idle"
<1>1. /\ job' \in [pc : Steps, lane : LaneSet \union {NoName}, old : Tabs \union {NoTab}]
      /\ job'.pc = "idle" /\ draft' = Absent
  BY Names DEF Release, Steps
<1> QED BY <1>1 DEF TaskRight, TrueJob

Plain == {"reserve", "owned", "saveTab", "due", "save", "saveOn", "saveBound"}

LEMMA Held ==
    ASSUME NEW pc \in Plain, NEW l \in LaneSet, NEW old \in Tabs \union {NoTab},
           job' = [pc |-> pc, lane |-> l, old |-> old], todo' \in [Ticks -> Seq(LaneSet)]
    PROVE  TaskRight' /\ job'.lane = l
<1>1. pc \in Steps BY DEF Plain, Steps, TickSteps
<1>2. /\ job' \in [pc : Steps, lane : LaneSet \union {NoName}, old : Tabs \union {NoTab}]
      /\ job'.pc = pc /\ job'.lane = l
  BY <1>1
<1> QED BY <1>2 DEF TaskRight, TrueJob, Plain

LEMMA HeldTo ==
    ASSUME TaskRight, NEW pc \in Plain, NEW l \in LaneSet, NEW D, Hold(pc, l, D), todo' = todo
    PROVE  TaskRight' /\ job'.lane = l /\ draft' = D
<1>1. job.old \in Tabs \union {NoTab} /\ todo \in [Ticks -> Seq(LaneSet)] BY DEF TaskRight
<1>2. PICK old \in Tabs \union {NoTab} : old = job.old BY <1>1
<1>3. job' = [pc |-> pc, lane |-> l, old |-> old] /\ draft' = D BY <1>2 DEF Hold
<1> QED BY <1>1, <1>3, Held

LEMMA GoneTo ==
    ASSUME TaskRight, NEW pc \in Plain, Go(pc), job.pc \notin {"idle", "wiping"}, todo' = todo
    PROVE  TaskRight' /\ job'.lane = job.lane
<1>1. /\ job.old \in Tabs \union {NoTab} /\ job.lane \in LaneSet /\ todo \in [Ticks -> Seq(LaneSet)]
      /\ job = [pc |-> job.pc, lane |-> job.lane, old |-> job.old]
  BY DEF TaskRight, TrueJob
<1>2. PICK old \in Tabs \union {NoTab}, l \in LaneSet : old = job.old /\ l = job.lane BY <1>1
<1>3. job' = [pc |-> pc, lane |-> l, old |-> old] BY <1>1, <1>2 DEF Go
<1> QED BY <1>1, <1>2, <1>3, Held

(* The lane of a task, and the one in memory.                              *)
LEMMA LanesAreTrue ==
    ASSUME Reading
    PROVE  /\ \A l \in LaneSet : TrueLane(lanes[l]) /\ lanes[l] \in Lane /\ lanes[l].gen \in Nat
                                 /\ lanes[l].tab \in Tabs \union {NoTab}
           /\ TrueLane(draft) /\ draft \in Lane /\ draft.gen \in Nat /\ draft.tab \in Tabs \union {NoTab}
           /\ \A t \in Tabs : TrueReceipt(sweep[t])
           /\ job.pc \notin {"idle", "wiping"} => job.lane \in LaneSet
<1>1. \A l \in LaneSet : TrueLane(lanes[l]) /\ KnownLane(lanes[l]) /\ lanes[l] \in Lane
  BY DEF Reading, LanesRight, TrueLane
<1>2. TrueLane(draft) /\ KnownLane(draft) /\ draft \in Lane BY DEF Reading, LanesRight, TrueLane
<1> QED BY <1>1, <1>2, LaneFields DEF Reading, SweepRight, TaskRight, TrueJob

LEMMA NothingGrows == delivered' = delivered => Grows
BY DEF Grows

(* A lane that stays with its tab and takes a new generation.              *)
LEMMA NextGeneration ==
    ASSUME NEW R, NEW L, L.gen \in Nat, R.tab = L.tab, R.gen = L.gen + 1
    PROVE  Follows(R, L)
BY DEF Follows

(* Ends of a step: what is saved and what is held on to.                   *)
LEMMA SavedAndReleased ==
    ASSUME Reading, Grows, DocsRight', \A t \in Tabs : Quieter(t), SweepRight', OwnRight',
           NEW l \in LaneSet, NEW L, TrueLane(L), Save(l, L), Continues(L, l),
           Release, todo' \in [Ticks -> Seq(LaneSet)]
    PROVE  Reading'
<1>1. LanesRight /\ DocsRight /\ lanes' = [lanes EXCEPT ![l] = L] BY DEF Reading, Save
<1>2. TaskRight' /\ draft' = Absent BY Released
<1>3. PICK D : D = Absent OBVIOUS
<1>4. LanesRight' BY <1>1, <1>2, <1>3, AbsentIsTrue, LaneMoves
<1> QED BY <1>2, <1>4 DEF Reading

LEMMA JustReleased ==
    ASSUME Reading, Grows, DocsRight', \A t \in Tabs : Quieter(t), SweepRight', OwnRight',
           lanes' = lanes, Release, todo' \in [Ticks -> Seq(LaneSet)]
    PROVE  Reading'
<1>1. LanesRight /\ DocsRight BY DEF Reading
<1>2. TaskRight' /\ draft' = Absent BY Released
<1>3. PICK D : D = Absent OBVIOUS
<1>4. LanesRight' BY <1>1, <1>2, <1>3, AbsentIsTrue, LanesStay
<1> QED BY <1>2, <1>4 DEF Reading

LEMMA SavedAndHeld ==
    ASSUME Reading, Grows, DocsRight', \A t \in Tabs : Quieter(t), SweepRight', OwnRight',
           NEW l \in LaneSet, NEW L, TrueLane(L), Save(l, L), Continues(L, l),
           NEW D, TrueLane(D), Continues(D, l), draft' = D, TaskRight', job'.lane = l
    PROVE  Reading'
<1>1. LanesRight /\ DocsRight /\ lanes' = [lanes EXCEPT ![l] = L] BY DEF Reading, Save
<1>2. job'.lane \in LaneSet /\ Continues(D, job'.lane) OBVIOUS
<1>3. LanesRight' BY <1>1, <1>2, LaneMoves
<1> QED BY <1>3 DEF Reading

LEMMA JustHeld ==
    ASSUME Reading, Grows, DocsRight', \A t \in Tabs : Quieter(t), SweepRight', OwnRight',
           lanes' = lanes, NEW l \in LaneSet,
           NEW D, TrueLane(D), Continues(D, l), draft' = D, TaskRight', job'.lane = l
    PROVE  Reading'
<1>1. LanesRight /\ DocsRight BY DEF Reading
<1>2. job'.lane \in LaneSet /\ Continues(D, job'.lane) OBVIOUS
<1>3. LanesRight' BY <1>1, <1>2, LanesStay
<1> QED BY <1>3 DEF Reading

(* A step of the task under the lock, and what it leaves alone.            *)
LEMMA TaskFacts ==
    ASSUME Reading, delivered' = delivered
    PROVE  /\ Grows
           /\ todo' = todo => todo' \in [Ticks -> Seq(LaneSet)]
           /\ own' = own /\ closed' = closed => OwnRight'
           /\ sweep' = sweep => SweepRight'
           /\ doc' = doc => DocsRight' /\ \A t \in Tabs : Quieter(t)
           /\ \A t : Swept(t) => SweepRight'
           /\ \A L : doc' = Told(L) => DocsRight' /\ \A t \in Tabs : Quieter(t)
<1>1. Grows /\ DocsRight /\ SweepRight /\ OwnRight /\ TaskRight BY NothingGrows DEF Reading
<1>2. todo \in [Ticks -> Seq(LaneSet)] BY <1>1 DEF TaskRight
<1>3. sweep' = sweep => SweepRight' BY <1>1, ReceiptsStay
<1>4. own' = own /\ closed' = closed => OwnRight' BY <1>1, OwnersStay
<1>5. doc' = doc => DocsRight' /\ \A t \in Tabs : Quieter(t) BY <1>1, DocumentsStay
<1>6. ASSUME NEW t, Swept(t) PROVE SweepRight' BY <1>1, <1>6, ReceiptsGo
<1>7. ASSUME NEW L, doc' = Told(L) PROVE DocsRight' /\ \A t \in Tabs : Quieter(t)
  BY <1>1, <1>7, ToldDocuments
<1> QED BY <1>1, <1>2, <1>3, <1>4, <1>5, <1>6, <1>7

-----------------------------------------------------------------------------
(* The steps of a tick                                                     *)

LEMMA CommitReads ==
    ASSUME Reading, Commit
    PROVE  Reading'
<1>1. /\ delivered' = delivered /\ sweep' = sweep /\ own' = own /\ closed' = closed /\ todo' = todo
      /\ job.pc \in {"save", "saveOn", "saveBound"} /\ Save(job.lane, draft)
      /\ doc' = doc \/ doc' = Told(draft)
      /\ (Go("reserve") /\ draft' = draft) \/ Release
  BY DEF Commit, Unpaced, Unseen
<1>2. Grows /\ DocsRight' /\ (\A t \in Tabs : Quieter(t)) /\ SweepRight' /\ OwnRight'
      /\ todo' \in [Ticks -> Seq(LaneSet)]
  BY <1>1, TaskFacts
<1>3. job.lane \in LaneSet /\ TrueLane(draft) BY <1>1, LanesAreTrue
<1>4. PICK l \in LaneSet : l = job.lane BY <1>3
<1>5. PICK L : L = draft OBVIOUS
<1>6. Continues(L, l) BY <1>4, <1>5 DEF Continues, Follows
<1>7. CASE Go("reserve") /\ draft' = draft
  <2>1. TaskRight' /\ job'.lane = job.lane BY <1>1, <1>7, GoneTo DEF Plain, Reading
  <2> QED BY <1>1, <1>2, <1>3, <1>4, <1>5, <1>6, <1>7, <2>1, SavedAndHeld
<1>8. CASE Release BY <1>1, <1>2, <1>3, <1>4, <1>5, <1>6, <1>8, SavedAndReleased
<1> QED BY <1>1, <1>7, <1>8

(* The lanes in the order of their turns.                                  *)
PlaceAfter(last) == IF last = NoName THEN 0 ELSE CHOOSE i \in DOMAIN Lanes : Lanes[i] = last
OrderFrom(p) == SubSeq(Lanes, p + 1, Len(Lanes)) \o SubSeq(Lanes, 1, p)

LEMMA OrderTaken ==
    /\ Place = PlaceAfter(lastLane) /\ Order = OrderFrom(Place)
    /\ Place' = PlaceAfter(lastLane') /\ Order' = OrderFrom(Place')
BY DEF Place, Order, PlaceAfter, OrderFrom, NoName

Ordered(last, p, o) ==
    /\ p \in 0..Len(Lanes) /\ o \in Seq(LaneSet) /\ Len(o) = Len(Lanes)
    /\ last # NoName => p \in 1..Len(Lanes) /\ Lanes[p] = last
    /\ \A i \in 1..Len(Lanes) :
          o[i] = IF i <= Len(Lanes) - p THEN Lanes[p + i] ELSE Lanes[i - (Len(Lanes) - p)]

LEMMA Turning ==
    ASSUME NEW last \in LaneSet \union {NoName}, NEW P, P = PlaceAfter(last), NEW O, O = OrderFrom(P)
    PROVE  Ordered(last, P, O)
<1>1. Lanes \in Seq(LaneSet) /\ Len(Lanes) \in Nat /\ DOMAIN Lanes = 1..Len(Lanes)
  BY LaneConstants, LenProperties
<1>2. last = NoName => P = 0 BY DEF PlaceAfter
<1>3. ASSUME last # NoName PROVE P \in 1..Len(Lanes) /\ Lanes[P] = last
  <2>1. last \in LaneSet BY <1>3
  <2>2. \E i \in DOMAIN Lanes : Lanes[i] = last BY <2>1 DEF LaneSet, Range
  <2>3. P = CHOOSE i \in DOMAIN Lanes : Lanes[i] = last BY <1>3 DEF PlaceAfter
  <2> QED BY <1>1, <2>2, <2>3
<1>4. P \in 0..Len(Lanes) BY <1>1, <1>2, <1>3
<1> DEFINE A == SubSeq(Lanes, P + 1, Len(Lanes))
           B == SubSeq(Lanes, 1, P)
<1>5. /\ A \in Seq(LaneSet) /\ Len(A) = Len(Lanes) - P
      /\ \A i \in 1..Len(Lanes) - P : A[i] = Lanes[P + i]
  <2>1. P + 1 \in 1..Len(Lanes) + 1 BY <1>1, <1>4
  <2>2. /\ A \in Seq(LaneSet)
        /\ Len(A) = IF P + 1 <= Len(Lanes) THEN Len(Lanes) - (P + 1) + 1 ELSE 0
        /\ \A i \in 1..Len(Lanes) - (P + 1) + 1 : A[i] = Lanes[P + 1 + i - 1]
    BY <1>1, <2>1, SubSeqProperties
  <2> HIDE DEF A
  <2>3. P \in Int /\ Len(Lanes) \in Int BY <1>1, <1>4
  <2>4. Len(A) = Len(Lanes) - P BY <1>4, <2>2, <2>3
  <2>5. ASSUME NEW i \in 1..Len(Lanes) - P PROVE A[i] = Lanes[P + i]
    <3>1. i \in 1..Len(Lanes) - (P + 1) + 1 /\ P + 1 + i - 1 = P + i BY <2>3
    <3> QED BY <2>2, <3>1
  <2> QED BY <2>2, <2>4, <2>5
<1>6. B \in Seq(LaneSet) /\ Len(B) = P /\ \A i \in 1..P : B[i] = Lanes[i]
  <2>1. /\ B \in Seq(LaneSet) /\ Len(B) = IF 1 <= P THEN P - 1 + 1 ELSE 0
        /\ \A i \in 1..P - 1 + 1 : B[i] = Lanes[1 + i - 1]
    BY <1>1, <1>4, SubSeqProperties
  <2> HIDE DEF B
  <2> QED BY <1>1, <1>4, <2>1
<1>7. O = A \o B BY DEF OrderFrom
<1> HIDE DEF A, B
<1>8. O \in Seq(LaneSet) /\ Len(O) = Len(Lanes)
  <2>1. O \in Seq(LaneSet) /\ Len(O) = Len(A) + Len(B) BY <1>5, <1>6, <1>7, ConcatProperties
  <2> QED BY <1>1, <1>4, <1>5, <1>6, <2>1
<1>9. ASSUME NEW i \in 1..Len(Lanes)
      PROVE  O[i] = IF i <= Len(Lanes) - P THEN Lanes[P + i] ELSE Lanes[i - (Len(Lanes) - P)]
  <2>1. O[i] = IF i <= Len(A) THEN A[i] ELSE B[i - Len(A)]
    <3>1. i \in 1..Len(A) + Len(B) BY <1>1, <1>4, <1>5, <1>6
    <3>2. A \in Seq(LaneSet) /\ B \in Seq(LaneSet) BY <1>5, <1>6
    <3> QED BY ONLY <1>7, <3>1, <3>2, ConcatProperties
  <2> QED BY <1>1, <1>4, <1>5, <1>6, <2>1
<1> QED BY <1>1, <1>3, <1>4, <1>8, <1>9 DEF Ordered

LEMMA OrderNow == lastLane \in LaneSet \union {NoName} => Ordered(lastLane, Place, Order)
<1>1. SUFFICES ASSUME NEW last \in LaneSet \union {NoName}, last = lastLane
               PROVE  Ordered(lastLane, Place, Order)
  OBVIOUS
<1>2. PICK P : P = PlaceAfter(last) OBVIOUS
<1>3. PICK O : O = OrderFrom(P) OBVIOUS
<1>4. Place = P /\ Order = O BY <1>1, <1>2, <1>3, OrderTaken
<1>5. Ordered(last, P, O) BY <1>2, <1>3, Turning
<1> QED BY <1>1, <1>4, <1>5

LEMMA OrderNext == lastLane' \in LaneSet \union {NoName} => Ordered(lastLane', Place', Order')
<1>1. SUFFICES ASSUME NEW last \in LaneSet \union {NoName}, last = lastLane'
               PROVE  Ordered(lastLane', Place', Order')
  OBVIOUS
<1>2. PICK P : P = PlaceAfter(last) OBVIOUS
<1>3. PICK O : O = OrderFrom(P) OBVIOUS
<1>4. Place' = P /\ Order' = O BY <1>1, <1>2, <1>3, OrderTaken
<1>5. Ordered(last, P, O) BY <1>2, <1>3, Turning
<1> QED BY <1>1, <1>4, <1>5

LEMMA StartTickReads ==
    ASSUME ScanTypes, Reading, NEW k \in Ticks, StartTick(k)
    PROVE  Reading'
<1>1. /\ lanes' = lanes /\ sweep' = sweep /\ own' = own /\ doc' = doc /\ closed' = closed
      /\ job' = job /\ draft' = draft /\ delivered' = delivered
      /\ todo' = [todo EXCEPT ![k] = Order]
  BY DEF StartTick, storage, world, browser, ghosts
<1>2. Order \in Seq(LaneSet) BY OrderNow DEF ScanTypes, Ordered
<1>3. Grows /\ DocsRight' /\ (\A t \in Tabs : Quieter(t)) /\ SweepRight' /\ OwnRight'
  BY <1>1, TaskFacts
<1>4. TaskRight' BY <1>1, <1>2 DEF Reading, TaskRight, TrueJob
<1>5. LanesRight'
  <2>1. PICK D : D = draft OBVIOUS
  <2>2. D.tab = NoTab \/ (job'.lane \in LaneSet /\ Continues(D, job'.lane))
    <3>1. CASE job.pc \in {"idle", "wiping"} BY <2>1, <3>1, AbsentIsTrue DEF Reading, TaskRight, TrueJob
    <3>2. CASE job.pc \notin {"idle", "wiping"}
      BY <1>1, <2>1, <3>2 DEF Reading, TaskRight, TrueJob, Continues, Follows
    <3> QED BY <3>1, <3>2
  <2> QED BY <1>1, <1>3, <2>1, <2>2, LanesStay, LanesAreTrue DEF Reading
<1> QED BY <1>3, <1>4, <1>5 DEF Reading

(* Any call of the tick fails.                                             *)
LEMMA SuspendedFollows ==
    ASSUME Reading, NEW L, TrueLane(L), NEW status \in Statuses, NEW wait \in Nat,
           status # "scanning", status = "complete" => L.status = "complete"
    PROVE  TrueLane(Suspend(L, status, wait)) /\ Follows(Suspend(L, status, wait), L)
<1>1. L.gen \in Nat BY LaneFields DEF TrueLane
<1>2. /\ TrueLane(Suspend(L, status, wait)) /\ Suspend(L, status, wait).tab = L.tab
      /\ Suspend(L, status, wait).gen = L.gen + 1
  BY LanesAreTrue, SuspendIsTrue
<1> QED BY <1>1, <1>2, NextGeneration

LEMMA TickFailsReads ==
    ASSUME Reading, TickFails
    PROVE  Reading'
<1>1. /\ sweep' = sweep /\ own' = own /\ closed' = closed /\ delivered' = delivered /\ todo' = todo
      /\ Release /\ job.lane \in LaneSet
      /\ \/ Save(job.lane, Suspend(lanes[job.lane], "waiting", LATER)) /\ doc' = Told(lanes[job.lane])
         \/ lanes' = lanes /\ doc' = doc
  BY LanesAreTrue DEF TickFails, world
<1>2. Grows /\ DocsRight' /\ (\A t \in Tabs : Quieter(t)) /\ SweepRight' /\ OwnRight'
      /\ todo' \in [Ticks -> Seq(LaneSet)]
  BY <1>1, TaskFacts
<1>3. CASE Save(job.lane, Suspend(lanes[job.lane], "waiting", LATER))
  <2>1. PICK l \in LaneSet, status \in Statuses, wait \in Nat :
           l = job.lane /\ status = "waiting" /\ wait = LATER
    BY <1>1, LaneConstants DEF Statuses
  <2>2. PICK L : L = lanes[l] OBVIOUS
  <2>3. TrueLane(L) /\ status # "scanning" /\ status # "complete" BY <2>1, <2>2, LanesAreTrue
  <2>4. PICK S : S = Suspend(L, status, wait) OBVIOUS
  <2>5. TrueLane(S) /\ Follows(S, L) BY <2>3, <2>4, SuspendedFollows
  <2>6. Save(l, S) BY <1>3, <2>1, <2>4, <2>2
  <2>7. Continues(S, l) BY <2>5, <2>2 DEF Continues
  <2> QED BY <1>1, <1>2, <2>5, <2>6, <2>7, SavedAndReleased
<1>4. CASE lanes' = lanes BY <1>1, <1>2, <1>4, JustReleased
<1> QED BY <1>1, <1>3, <1>4

LEMMA SuspendedContinues ==
    ASSUME Reading, NEW l \in LaneSet, NEW L, L = lanes[l] \/ (l = job.lane /\ L = draft),
           NEW status \in Statuses, NEW wait \in Nat,
           status # "scanning", status = "complete" => L.status = "complete"
    PROVE  TrueLane(Suspend(L, status, wait)) /\ Continues(Suspend(L, status, wait), l)
<1>1. TrueLane(L) BY LanesAreTrue
<1>2. TrueLane(Suspend(L, status, wait)) /\ Follows(Suspend(L, status, wait), L)
  BY <1>1, SuspendedFollows
<1> QED BY <1>2 DEF Continues

LEMMA FreshContinues ==
    ASSUME ScanTypes, Reading, NEW l \in LaneSet, NEW L, TrueLane(L), Continues(L, l)
    PROVE  TrueLane(FreshLane(l, L)) /\ Continues(FreshLane(l, L), l)
<1>1. PICK F : F = FreshLane(l, L) OBVIOUS
<1>2. TrueLane(F) /\ F.tab = L.tab /\ F.gen = L.gen + 1 BY <1>1, FreshIsTrue
<1>3. L.gen \in Nat /\ lanes[l].gen \in Nat /\ draft.gen \in Nat BY LanesAreTrue, LaneFields DEF TrueLane
<1>4. Follows(F, lanes[l]) \/ (l = job.lane /\ Follows(F, draft)) BY <1>2, <1>3 DEF Continues, Follows
<1> QED BY <1>1, <1>2, <1>4 DEF Continues

(* A lane's turn begins.                                                   *)
LEMMA DelaysAreNat ==
    ASSUME NEW l
    PROVE  InitialDelay(l) \in Nat
<1>1. DOMAIN Lanes = 1..Len(Lanes) /\ Len(Lanes) \in Nat BY LaneConstants, LenProperties
<1>2. IsFiniteSet(DOMAIN Lanes) BY <1>1, FS_Interval
<1> DEFINE I == {i \in DOMAIN Lanes : enabled[Lanes[i]] /\ \E j \in DOMAIN Lanes : Lanes[j] = l /\ i < j}
<1>3. IsFiniteSet(I) BY <1>2, FS_Subset
<1>4. Cardinality(I) \in Nat BY <1>3, FS_CardinalityType
<1> HIDE DEF I
<1>5. SPACING * Cardinality(I) \in Nat BY <1>4, LaneConstants
<1> QED BY <1>5 DEF InitialDelay, I

LEMMA BegunTurnIsTrue ==
    ASSUME ScanTypes, Reading, NEW l \in LaneSet, NEW L, L = lanes[l],
           L.status = "none" \/ L.list = wanted[l] \/ Extends(l, L),
           NEW A, A = IF L.list # wanted[l] THEN AppendTargets(l, L) ELSE L,
           NEW F, F = FreshLane(l, L),
           NEW N, N = IF L.status = "none"
                      THEN IF InitialDelay(l) = 0 THEN F
                           ELSE [F EXCEPT !.status = "waiting", !.wait = InitialDelay(l)]
                      ELSE IF A.status = "disabled" /\ ~HasTarget(A) THEN FreshLane(l, A) ELSE A
    PROVE  TrueLane(N) /\ Continues(N, l)
<1>1. TrueLane(L) /\ Continues(L, l) BY LanesAreTrue DEF Continues, Follows
<1>2. TrueLane(F) /\ Continues(F, l) BY <1>1, FreshContinues
<1>3. CASE L.status = "none"
  <2>1. CASE InitialDelay(l) = 0 BY <1>2, <1>3, <2>1
  <2>2. CASE InitialDelay(l) # 0
    <3>1. F.tab \in Tabs \union {NoTab} /\ F.gen \in Nat /\ F \in Lane BY <1>2, LaneFields DEF TrueLane, KnownLane
    <3>2. PICK tab \in Tabs \union {NoTab}, gen \in Nat, wait \in Nat, status \in Statuses :
             tab = F.tab /\ gen = F.gen /\ wait = InitialDelay(l) /\ status = "waiting"
      BY <3>1, DelaysAreNat DEF Statuses
    <3>3. N = Moved(F, tab, gen, wait, status) BY <1>3, <2>2, <3>1, <3>2 DEF Moved, Lane
    <3>4. status # "complete" /\ status # "scanning" BY <3>2
    <3>5. PICK M : M = Moved(F, tab, gen, wait, status) OBVIOUS
    <3>6. TrueLane(M) /\ M.tab = tab /\ M.gen = gen /\ M.targets = F.targets /\ M.cursor = F.cursor
      <4>1. /\ TrueLane(Moved(F, tab, gen, wait, status)) /\ Moved(F, tab, gen, wait, status).tab = tab
            /\ Moved(F, tab, gen, wait, status).gen = gen
            /\ Moved(F, tab, gen, wait, status).targets = F.targets
            /\ Moved(F, tab, gen, wait, status).cursor = F.cursor
        BY ONLY <1>2, <3>4, tab \in Tabs \union {NoTab}, gen \in Nat, wait \in Nat, status \in Statuses,
                Repositioned
      <4> QED BY ONLY <3>5, <4>1
    <3>7. Follows(M, F) BY <3>2, <3>6 DEF Follows, HasTarget, Current
    <3>8. Continues(M, l)
      BY <1>2, <3>2, <3>6 DEF Continues, Follows, HasTarget, Current
    <3> QED BY <3>3, <3>5, <3>6, <3>8
  <2> QED BY <2>1, <2>2
<1>4. CASE L.status # "none"
  <2>1. TrueLane(A) /\ Continues(A, l)
    <3>1. CASE L.list = wanted[l] BY <1>1, <3>1
    <3>2. CASE L.list # wanted[l]
      <4>1. Extends(l, L) /\ A = AppendTargets(l, L) BY <1>4, <3>2
      <4>2. /\ TrueLane(A) /\ A.tab = L.tab /\ A.gen = L.gen
            /\ HasTarget(L) => HasTarget(A) /\ Current(A) = Current(L)
        BY <1>1, <4>1, AppendIsTrue
      <4> QED BY <4>2 DEF Continues, Follows
    <3> QED BY <3>1, <3>2
  <2>2. TrueLane(FreshLane(l, A)) /\ Continues(FreshLane(l, A), l) BY <2>1, FreshContinues
  <2> QED BY <1>4, <2>1, <2>2
<1> QED BY <1>3, <1>4

LEMMA BeginReads ==
    ASSUME ScanTypes, Reading, NEW k \in Ticks, Begin(k)
    PROVE  Reading'
<1> DEFINE l == Head(todo[k])
           L == lanes[l]
           F == FreshLane(l, L)
           A == IF L.list # wanted[l] THEN AppendTargets(l, L) ELSE L
           N == IF L.status = "none"
                THEN IF InitialDelay(l) = 0 THEN F ELSE [F EXCEPT !.status = "waiting", !.wait = InitialDelay(l)]
                ELSE IF A.status = "disabled" /\ ~HasTarget(A) THEN FreshLane(l, A) ELSE A
<1>1. /\ own' = own /\ closed' = closed /\ delivered' = delivered /\ todo[k] # <<>>
      /\ todo' = [todo EXCEPT ![k] = Tail(@)] /\ job.pc = "idle"
  BY DEF Begin, world, Free
<1>2. l \in LaneSet /\ todo' \in [Ticks -> Seq(LaneSet)]
  <2>1. todo \in [Ticks -> Seq(LaneSet)] /\ todo[k] \in Seq(LaneSet) BY DEF Reading, TaskRight
  <2>2. Head(todo[k]) \in LaneSet /\ Tail(todo[k]) \in Seq(LaneSet) BY <1>1, <2>1, HeadTailProperties
  <2> QED BY <1>1, <2>1, <2>2
<1>3. Grows /\ OwnRight' BY <1>1, TaskFacts
<1>4. \/ /\ Release /\ sweep' = sweep
         /\ \/ lanes' = lanes /\ doc' = doc
            \/ Save(l, Suspend(L, "disabled", L.wait)) /\ doc' = Told(L)
      \/ Swept(L.tab) /\ Hold("saveOn", l, F) /\ lanes' = lanes /\ doc' = doc
      \/ /\ L.status = "none" \/ L.list = wanted[l] \/ Extends(l, L)
         /\ Save(l, N) /\ Hold("reserve", l, N) /\ sweep' = sweep /\ doc' = doc
  BY DEF Begin
<1>5. job.old \in Tabs \union {NoTab} BY DEF Reading, TaskRight
<1>6. TrueLane(L) /\ Continues(L, l) /\ L.wait \in Nat
  <2>1. TrueLane(L) /\ L \in Lane BY <1>2, LanesAreTrue
  <2> QED BY <2>1 DEF Lane, Continues, Follows
<1>7. PICK lane \in LaneSet : lane = l BY <1>2
<1> HIDE DEF l
<1>8. CASE Release /\ sweep' = sweep /\ lanes' = lanes /\ doc' = doc
  BY <1>1, <1>2, <1>3, <1>8, TaskFacts, JustReleased
<1>9. CASE Release /\ sweep' = sweep /\ Save(l, Suspend(L, "disabled", L.wait)) /\ doc' = Told(L)
  <2>1. PICK S : S = Suspend(L, "disabled", L.wait) OBVIOUS
  <2>2. TrueLane(S) /\ Continues(S, lane)
    <3>1. PICK status \in Statuses, wait \in Nat : status = "disabled" /\ wait = L.wait BY <1>6 DEF Statuses
    <3>2. PICK M : M = L OBVIOUS
    <3>3. status # "scanning" /\ status # "complete" /\ M = lanes[lane] BY <1>7, <3>1, <3>2
    <3> QED BY <2>1, <3>1, <3>2, <3>3, SuspendedContinues
  <2>3. DocsRight' /\ (\A t \in Tabs : Quieter(t)) /\ SweepRight' BY <1>1, <1>9, TaskFacts
  <2>4. Save(lane, S) BY <1>7, <1>9, <2>1
  <2> QED BY <1>2, <1>3, <1>9, <2>2, <2>3, <2>4, SavedAndReleased
<1>10. CASE Swept(L.tab) /\ Hold("saveOn", l, F) /\ lanes' = lanes /\ doc' = doc
  <2>1. DocsRight' /\ (\A t \in Tabs : Quieter(t)) /\ SweepRight' BY <1>1, <1>10, TaskFacts
  <2>2. PICK D : D = F OBVIOUS
  <2>3. TrueLane(D) /\ Continues(D, lane)
    <3>1. PICK M : M = L OBVIOUS
    <3>2. D = FreshLane(lane, M) /\ TrueLane(M) /\ Continues(M, lane) BY <1>6, <1>7, <2>2, <3>1
    <3> QED BY <3>2, FreshContinues
  <2>4. TaskRight' /\ job'.lane = lane /\ draft' = D
    <3>1. PICK pc \in Plain, old \in Tabs \union {NoTab} : pc = "saveOn" /\ old = job.old BY <1>5 DEF Plain
    <3>2. job' = [pc |-> pc, lane |-> lane, old |-> old] /\ draft' = D BY <1>7, <1>10, <2>2, <3>1 DEF Hold
    <3> QED BY <1>2, <3>2, Held
  <2> QED BY <1>3, <1>10, <2>1, <2>3, <2>4, JustHeld
<1>11. CASE /\ L.status = "none" \/ L.list = wanted[l] \/ Extends(l, L)
            /\ Save(l, N) /\ Hold("reserve", l, N) /\ sweep' = sweep /\ doc' = doc
  <2>1. DocsRight' /\ (\A t \in Tabs : Quieter(t)) /\ SweepRight' BY <1>1, <1>11, TaskFacts
  <2>2. PICK D : D = N OBVIOUS
  <2>3. TrueLane(D) /\ Continues(D, lane)
    <3>1. PICK M, B, G : M = lanes[lane] /\ B = A /\ G = FreshLane(lane, M) OBVIOUS
    <3>2. M.status = "none" \/ M.list = wanted[lane] \/ Extends(lane, M) BY <1>7, <1>11, <3>1
    <3>3. B = IF M.list # wanted[lane] THEN AppendTargets(lane, M) ELSE M BY <1>7, <3>1
    <3>4. D = IF M.status = "none"
              THEN IF InitialDelay(lane) = 0 THEN G
                   ELSE [G EXCEPT !.status = "waiting", !.wait = InitialDelay(lane)]
              ELSE IF B.status = "disabled" /\ ~HasTarget(B) THEN FreshLane(lane, B) ELSE B
      BY <1>7, <2>2, <3>1
    <3> HIDE DEF A, N, F, L
    <3> QED BY ONLY ScanTypes, Reading, lane \in LaneSet, <3>1, <3>2, <3>3, <3>4, BegunTurnIsTrue
  <2>4. TaskRight' /\ job'.lane = lane /\ draft' = D
    <3>1. PICK pc \in Plain, old \in Tabs \union {NoTab} : pc = "reserve" /\ old = job.old BY <1>5 DEF Plain
    <3>2. job' = [pc |-> pc, lane |-> lane, old |-> old] /\ draft' = D BY <1>7, <1>11, <2>2, <3>1 DEF Hold
    <3> QED BY <1>2, <3>2, Held
  <2>5. Save(lane, D) BY <1>7, <1>11, <2>2
  <2> QED BY <1>3, <2>1, <2>3, <2>4, <2>5, SavedAndHeld
<1> QED BY <1>4, <1>8, <1>9, <1>10, <1>11

Housed(R, t) == [R EXCEPT !.tab = t, !.gen = @ + 1, !.status = IF @ = "scanning" THEN "waiting" ELSE @]

LEMMA HousedIsTrue ==
    ASSUME NEW R, TrueLane(R), NEW t \in Tabs, NEW D, D = Housed(R, t)
    PROVE  TrueLane(D) /\ D.tab = t /\ D.gen = R.gen + 1
<1>1. R \in Lane /\ R.gen \in Nat BY LaneFields DEF TrueLane, KnownLane
<1>2. R.wait \in Nat /\ R.status \in Statuses BY <1>1 DEF Lane
<1>3. PICK tab \in Tabs \union {NoTab}, gen \in Nat, wait \in Nat, status \in Statuses :
         tab = t /\ gen = R.gen + 1 /\ wait = R.wait /\ status = IF R.status = "scanning" THEN "waiting" ELSE R.status
  BY <1>1, <1>2 DEF Statuses
<1>4. D = Moved(R, tab, gen, wait, status) BY <1>1, <1>3 DEF Moved, Lane, Housed
<1>5. status # "scanning" /\ (status = "complete" => R.status = "complete") BY <1>3
<1>6. TrueLane(D) /\ D.tab = tab /\ D.gen = gen BY <1>4, <1>5, MovedIsTrue
<1> QED BY <1>3, <1>6

(* A tab is reserved for the lane, or it is suspended.                     *)
LEMMA TabsReserved ==
    ASSUME Reading, NEW t \in Tabs, delivered' = delivered, lanes' = lanes,
           \A m \in LaneSet : own[m] # t /\ lanes[m].tab # t,
           sweep' = [sweep EXCEPT ![t] = None], own' = own, closed' = closed, todo' = todo,
           doc' = [doc EXCEPT ![t] = [NoDocument EXCEPT !.pc = "blank"]],
           job.lane \in LaneSet, job' = [pc |-> "created", lane |-> job.lane, old |-> draft.tab],
           draft' = [Retain(draft) EXCEPT !.tab = t, !.gen = @ + 1,
                                          !.status = IF @ = "scanning" THEN "waiting" ELSE @]
    PROVE  Reading'
<1>1. LanesRight /\ DocsRight /\ SweepRight /\ OwnRight /\ TaskRight /\ Grows /\ OwnRight'
  BY TaskFacts DEF Reading
<1>2. DocsRight' /\ \A u \in Tabs : Quieter(u)
  <2>1. PICK d : d = [NoDocument EXCEPT !.pc = "blank"] OBVIOUS
  <2> QED BY <1>1, <2>1, BlankIsTrue, DocumentTurns
<1>3. doc'[t].gen = 0 /\ doc'[t].key = NoName
  <2>1. PICK d : d = [NoDocument EXCEPT !.pc = "blank"] OBVIOUS
  <2>2. doc'[t] = d BY <2>1, <1>1 DEF DocsRight
  <2> QED BY <2>1, <2>2, BlankIsTrue
<1>4. SweepRight'
  <2>1. PICK c : c = None OBVIOUS
  <2> QED BY <1>1, <2>1, NothingIsTrue, ReceiptChanges
<1>5. PICK R : R = Retain(draft) OBVIOUS
<1>6. /\ TrueLane(R) /\ R \in Lane /\ R.gen \in Nat
  <2>1. TrueLane(draft) /\ \A u \in Tabs : TrueReceipt(sweep[u]) BY LanesAreTrue
  <2>2. TrueLane(R) BY <1>5, <2>1, RetainIsTrue
  <2> QED BY <2>2, LaneFields DEF TrueLane, KnownLane
<1>7. PICK D : D = draft' OBVIOUS
<1>8. D = Housed(R, t) BY <1>5, <1>7 DEF Housed
<1>9. TrueLane(D) /\ D.tab = t /\ D.gen = R.gen + 1 BY ONLY <1>6, <1>8, t \in Tabs, HousedIsTrue
<1>10. D.gen \in Nat BY <1>6, <1>9
<1>11. \A u \in Tabs : Speaks(u, D)'
  <2>1. NoName \notin Keys BY LaneConstants
  <2> QED BY <1>3, <1>9, <1>10, <2>1 DEF Speaks
<1>12. PICK E : E = Absent OBVIOUS
<1>13. LanesRight'
  <2>1. \A m \in LaneSet : TrueLane(lanes[m])'
    <3>1. SUFFICES ASSUME NEW m \in LaneSet PROVE TrueLane(lanes[m])' OBVIOUS
    <3>2. PICK L : L = lanes[m] OBVIOUS
    <3>3. TrueLane(L)' BY <1>1, <3>2, LanesAreTrue, LanesStayTrue
    <3> QED BY <3>2, <3>3
  <2>2. TrueLane(draft)'
    <3>1. TrueLane(D)' BY <1>1, <1>9, LanesStayTrue
    <3> QED BY <1>7, <3>1
  <2>3. \A u \in Tabs : Speaks(u, draft)' BY <1>7, <1>11
  <2>4. \A u \in Tabs, m \in LaneSet : Speaks(u, lanes[m])'
    <3>1. SUFFICES ASSUME NEW u \in Tabs, NEW m \in LaneSet PROVE Speaks(u, lanes[m])' OBVIOUS
    <3>2. PICK L : L = lanes[m] OBVIOUS
    <3>3. L.gen \in Nat /\ doc[u].gen \in Nat /\ Speaks(u, L)
      BY <1>1, <3>2, LanesAreTrue, Names DEF DocsRight, LanesRight
    <3>4. Follows(L, L) BY DEF Follows
    <3>5. Speaks(u, L)' BY <1>2, <3>3, <3>4, SpeaksOn
    <3> QED BY <3>2, <3>5
  <2>5. lanes' \in [LaneSet -> Lane] /\ draft' \in Lane BY <1>1, <1>7, <1>9 DEF LanesRight, TrueLane, KnownLane
  <2>6. \A m \in LaneSet : lanes'[m].tab # draft'.tab BY <1>7, <1>9
  <2>7. \A l, m \in LaneSet : lanes'[l].tab = lanes'[m].tab /\ lanes'[l].tab # NoTab => l = m
    BY <1>1 DEF LanesRight
  <2> QED BY <2>1, <2>2, <2>3, <2>4, <2>5, <2>6, <2>7 DEF LanesRight
<1>14. TaskRight'
  <2>1. draft.tab \in Tabs \union {NoTab} /\ "created" \in Steps BY LanesAreTrue DEF Steps, TickSteps
  <2>2. /\ job' \in [pc : Steps, lane : LaneSet \union {NoName}, old : Tabs \union {NoTab}]
        /\ todo' \in [Ticks -> Seq(LaneSet)] /\ job'.pc = "created" /\ job'.lane = job.lane
    BY <1>1, <2>1 DEF TaskRight
  <2>3. draft'.tab = t BY <1>7, <1>9
  <2> QED BY <2>2, <2>3 DEF TaskRight, TrueJob
<1> QED BY <1>1, <1>2, <1>4, <1>13, <1>14 DEF Reading

LEMMA ReserveReads ==
    ASSUME Reading, Reserve
    PROVE  Reading'
<1>1. /\ own' = own /\ closed' = closed /\ delivered' = delivered /\ todo' = todo
      /\ job.pc = "reserve" /\ job.lane \in LaneSet
  BY LanesAreTrue DEF Reserve, At, world, Unseen
<1>2. Grows /\ OwnRight' /\ todo' \in [Ticks -> Seq(LaneSet)] /\ TaskRight BY <1>1, TaskFacts DEF Reading
<1>3. \/ Release /\ lanes' = lanes /\ doc' = doc /\ sweep' = sweep
      \/ Release /\ Save(job.lane, Suspend(draft, "paused", draft.wait)) /\ doc' = Told(draft) /\ sweep' = sweep
      \/ Go("due") /\ lanes' = lanes /\ doc' = doc /\ sweep' = sweep /\ draft' = draft
      \/ \E t \in Tabs :
            /\ \A m \in LaneSet : own[m] # t /\ lanes[m].tab # t
            /\ sweep' = [sweep EXCEPT ![t] = None] /\ lanes' = lanes
            /\ doc' = [doc EXCEPT ![t] = [NoDocument EXCEPT !.pc = "blank"]]
            /\ job' = [pc |-> "created", lane |-> job.lane, old |-> draft.tab]
            /\ draft' = [Retain(draft) EXCEPT !.tab = t, !.gen = @ + 1,
                                              !.status = IF @ = "scanning" THEN "waiting" ELSE @]
  BY DEF Reserve
<1>4. CASE Release /\ lanes' = lanes /\ doc' = doc /\ sweep' = sweep
  BY <1>1, <1>2, <1>4, TaskFacts, JustReleased
<1>5. CASE Release /\ Save(job.lane, Suspend(draft, "paused", draft.wait)) /\ doc' = Told(draft) /\ sweep' = sweep
  <2>1. draft.wait \in Nat BY LanesAreTrue DEF Lane
  <2>2. PICK l \in LaneSet, status \in Statuses, wait \in Nat :
           l = job.lane /\ status = "paused" /\ wait = draft.wait
    BY <1>1, <2>1 DEF Statuses
  <2>3. PICK S, L : S = Suspend(L, status, wait) /\ L = draft OBVIOUS
  <2>4. status # "scanning" /\ status # "complete" BY <2>2
  <2>5. TrueLane(S) /\ Continues(S, l) BY <2>2, <2>3, <2>4, SuspendedContinues
  <2>6. DocsRight' /\ (\A t \in Tabs : Quieter(t)) /\ SweepRight' BY <1>1, <1>5, TaskFacts
  <2>7. Save(l, S) BY <1>5, <2>2, <2>3
  <2> QED BY <1>2, <1>5, <2>5, <2>6, <2>7, SavedAndReleased
<1>6. CASE Go("due") /\ lanes' = lanes /\ doc' = doc /\ sweep' = sweep /\ draft' = draft
  <2>1. DocsRight' /\ (\A t \in Tabs : Quieter(t)) /\ SweepRight' BY <1>1, <1>6, TaskFacts
  <2>2. PICK l \in LaneSet : l = job.lane BY <1>1
  <2>3. PICK D : D = draft OBVIOUS
  <2>4. TrueLane(D) /\ Continues(D, l) BY <2>2, <2>3, LanesAreTrue DEF Continues, Follows
  <2>5. TaskRight' /\ job'.lane = l BY <1>1, <1>2, <1>6, <2>2, GoneTo DEF Plain
  <2> QED BY <1>2, <1>6, <2>1, <2>2, <2>4, <2>5, <2>3, JustHeld
<1>7. ASSUME NEW t \in Tabs,
             \A m \in LaneSet : own[m] # t /\ lanes[m].tab # t,
             sweep' = [sweep EXCEPT ![t] = None], lanes' = lanes,
             doc' = [doc EXCEPT ![t] = [NoDocument EXCEPT !.pc = "blank"]],
             job' = [pc |-> "created", lane |-> job.lane, old |-> draft.tab],
             draft' = [Retain(draft) EXCEPT !.tab = t, !.gen = @ + 1,
                                            !.status = IF @ = "scanning" THEN "waiting" ELSE @]
      PROVE  Reading'
  BY <1>1, <1>7, TabsReserved
<1> QED BY <1>3, <1>4, <1>5, <1>6, <1>7

(* A lane stays with its tab, its deadline or status changes.              *)
Turned(L, gen, wait, status) == [L EXCEPT !.gen = gen, !.wait = wait, !.status = status]

LEMMA TurnedIsTrue ==
    ASSUME NEW L, TrueLane(L), NEW gen \in Nat, gen >= L.gen, NEW wait \in Nat, NEW status \in Statuses,
           status = "complete" => L.status = "complete", status = "scanning" => L.status = "scanning",
           NEW M, M = Turned(L, gen, wait, status)
    PROVE  TrueLane(M) /\ Follows(M, L)
<1>1. L \in Lane /\ L.gen \in Nat /\ L.tab \in Tabs \union {NoTab} BY LaneFields DEF TrueLane, KnownLane
<1>2. PICK tab \in Tabs \union {NoTab} : tab = L.tab BY <1>1
<1>3. M = Moved(L, tab, gen, wait, status) BY <1>1, <1>2 DEF Turned, Moved, Lane
<1>4. status = "scanning" => HasTarget(L) /\ tab # NoTab BY <1>2 DEF TrueLane, KnownLane
<1>5. PICK N : N = Moved(L, tab, gen, wait, status) OBVIOUS
<1>6. TrueLane(N) /\ N.tab = tab /\ N.gen = gen /\ N.targets = L.targets /\ N.cursor = L.cursor
  <2>1. status = "complete" => L.status = "complete" OBVIOUS
  <2>2. /\ TrueLane(Moved(L, tab, gen, wait, status)) /\ Moved(L, tab, gen, wait, status).tab = tab
        /\ Moved(L, tab, gen, wait, status).gen = gen
        /\ Moved(L, tab, gen, wait, status).targets = L.targets
        /\ Moved(L, tab, gen, wait, status).cursor = L.cursor
    BY ONLY TrueLane(L), <1>4, <2>1, tab \in Tabs \union {NoTab}, gen \in Nat, wait \in Nat, status \in Statuses,
            Repositioned
  <2> QED BY ONLY <1>5, <2>2
<1>7. gen > L.gen \/ gen = L.gen BY <1>1
<1>8. Follows(N, L) BY <1>2, <1>6, <1>7 DEF Follows, HasTarget, Current
<1> QED BY <1>3, <1>5, <1>6, <1>8

LEMMA TurnedContinues ==
    ASSUME Reading, NEW l \in LaneSet, NEW L, L = lanes[l] \/ (l = job.lane /\ L = draft),
           NEW gen \in Nat, gen >= L.gen, NEW wait \in Nat, NEW status \in Statuses,
           status = "complete" => L.status = "complete", status = "scanning" => L.status = "scanning",
           NEW M, M = Turned(L, gen, wait, status)
    PROVE  TrueLane(M) /\ Continues(M, l)
<1>1. TrueLane(L) BY LanesAreTrue
<1>2. TrueLane(M) /\ Follows(M, L) BY <1>1, TurnedIsTrue
<1> QED BY <1>2 DEF Continues

(* The task goes on with the lane in memory.                               *)
LEMMA GoneOn ==
    ASSUME TaskRight, NEW pc \in Steps, Go(pc), job.pc \notin {"idle", "wiping"}, todo' = todo
    PROVE  /\ job' \in [pc : Steps, lane : LaneSet \union {NoName}, old : Tabs \union {NoTab}]
           /\ job'.pc = pc /\ job'.lane = job.lane /\ job'.old = job.old /\ job.lane \in LaneSet
           /\ todo' \in [Ticks -> Seq(LaneSet)]
<1>1. /\ job \in [pc : Steps, lane : LaneSet \union {NoName}, old : Tabs \union {NoTab}]
      /\ job.lane \in LaneSet /\ todo \in [Ticks -> Seq(LaneSet)]
  BY DEF TaskRight, TrueJob
<1> QED BY <1>1 DEF Go

LEMMA KeptOn ==
    ASSUME Reading, Grows, DocsRight', \A t \in Tabs : Quieter(t), SweepRight', OwnRight',
           job.lane \in LaneSet, lanes' = lanes \/ Save(job.lane, draft), draft' = draft,
           TaskRight', job'.lane = job.lane
    PROVE  Reading'
<1>1. PICK l \in LaneSet : l = job.lane OBVIOUS
<1>2. PICK D : D = draft OBVIOUS
<1>3. TrueLane(D) /\ Continues(D, l) BY <1>1, <1>2, LanesAreTrue DEF Continues, Follows
<1>4. CASE lanes' = lanes BY <1>1, <1>2, <1>3, <1>4, JustHeld
<1>5. CASE Save(job.lane, draft) BY <1>1, <1>2, <1>3, <1>5, SavedAndHeld
<1> QED BY <1>4, <1>5

LEMMA SaveOwnerReads ==
    ASSUME Reading, SaveOwner
    PROVE  Reading'
<1>1. /\ lanes' = lanes /\ sweep' = sweep /\ doc' = doc /\ closed' = closed /\ draft' = draft /\ todo' = todo
      /\ delivered' = delivered /\ job.pc = "created" /\ own' = [own EXCEPT ![job.lane] = draft.tab] /\ Go("owned")
  BY DEF SaveOwner, At, browser, Unseen
<1>2. /\ job.lane \in LaneSet /\ draft.tab \in Tabs /\ \A l \in LaneSet : own[l] # draft.tab
      /\ TaskRight /\ OwnRight
  BY <1>1 DEF Reading, TaskRight, TrueJob
<1>3. Grows /\ DocsRight' /\ (\A t \in Tabs : Quieter(t)) /\ SweepRight' BY <1>1, TaskFacts
<1>4. OwnRight' BY <1>1, <1>2 DEF OwnRight
<1>5. PICK pc \in Plain : pc = "owned" BY DEF Plain
<1>6. TaskRight' /\ job'.lane = job.lane BY <1>1, <1>2, <1>5, GoneTo
<1> QED BY <1>1, <1>2, <1>3, <1>4, <1>6, KeptOn

LEMMA DropOldReads ==
    ASSUME Reading, DropOld
    PROVE  Reading'
<1>1. /\ lanes' = lanes /\ own' = own /\ doc' = doc /\ closed' = closed /\ draft' = draft /\ todo' = todo
      /\ delivered' = delivered /\ job.pc = "owned" /\ Go("saveTab") /\ (Swept(job.old) \/ sweep' = sweep)
  BY DEF DropOld, At, browser, Unseen
<1>2. job.lane \in LaneSet /\ TaskRight BY <1>1 DEF Reading, TaskRight, TrueJob
<1>3. Grows /\ DocsRight' /\ (\A t \in Tabs : Quieter(t)) /\ SweepRight' /\ OwnRight' BY <1>1, TaskFacts
<1>4. PICK pc \in Plain : pc = "saveTab" BY DEF Plain
<1>5. TaskRight' /\ job'.lane = job.lane BY <1>1, <1>2, <1>4, GoneTo
<1> QED BY <1>1, <1>2, <1>3, <1>5, KeptOn

LEMMA SaveTabReads ==
    ASSUME Reading, SaveTab
    PROVE  Reading'
<1>1. /\ sweep' = sweep /\ own' = own /\ doc' = doc /\ closed' = closed /\ draft' = draft /\ todo' = todo
      /\ delivered' = delivered /\ job.pc = "saveTab" /\ Go("due") /\ Save(job.lane, draft)
  BY DEF SaveTab, At, browser, Unseen
<1>2. job.lane \in LaneSet /\ TaskRight BY <1>1 DEF Reading, TaskRight, TrueJob
<1>3. Grows /\ DocsRight' /\ (\A t \in Tabs : Quieter(t)) /\ SweepRight' /\ OwnRight' BY <1>1, TaskFacts
<1>4. PICK pc \in Plain : pc = "due" BY DEF Plain
<1>5. TaskRight' /\ job'.lane = job.lane BY <1>1, <1>2, <1>4, GoneTo
<1> QED BY <1>1, <1>2, <1>3, <1>5, KeptOn

(* The start of a target is on record before its page loads.               *)
LEMMA SaveStartReads ==
    ASSUME Reading, SaveStart
    PROVE  Reading'
<1>1. /\ sweep' = sweep /\ own' = own /\ doc' = doc /\ closed' = closed /\ draft' = draft /\ todo' = todo
      /\ delivered' = delivered /\ job.pc = "stamped" /\ Go("checked") /\ Save(job.lane, draft)
  BY DEF SaveStart, At, browser, Unseen
<1>2. job.lane \in LaneSet /\ TaskRight /\ draft.status = "scanning" /\ lanes \in [LaneSet -> Lane]
  BY <1>1 DEF Reading, TaskRight, TrueJob, LanesRight
<1>3. Grows /\ DocsRight' /\ (\A t \in Tabs : Quieter(t)) /\ SweepRight' /\ OwnRight' BY <1>1, TaskFacts
<1>4. PICK pc \in Steps : pc = "checked" BY DEF Steps, TickSteps
<1>5. /\ job' \in [pc : Steps, lane : LaneSet \union {NoName}, old : Tabs \union {NoTab}]
      /\ job'.pc = "checked" /\ job'.lane = job.lane /\ todo' \in [Ticks -> Seq(LaneSet)]
  BY <1>1, <1>2, <1>4, GoneOn
<1>6. lanes'[job.lane] = draft BY <1>1, <1>2 DEF Save
<1>7. TaskRight' BY <1>1, <1>2, <1>5, <1>6 DEF TaskRight, TrueJob
<1> QED BY <1>1, <1>2, <1>3, <1>5, <1>7, KeptOn

LEMMA CheckStartReads ==
    ASSUME Reading, CheckStart
    PROVE  Reading'
<1>1. /\ sweep' = sweep /\ own' = own /\ closed' = closed /\ todo' = todo /\ delivered' = delivered
      /\ job.pc = "checked"
      /\ \/ /\ Save(job.lane, [draft EXCEPT !.status = IF paused THEN "paused" ELSE "disabled", !.gen = @ + 1])
            /\ doc' = Told(draft) /\ Release
         \/ Save(job.lane, draft) /\ doc' = doc /\ draft' = draft /\ Go("navigate")
  BY DEF CheckStart, At, Unseen
<1>2. /\ job.lane \in LaneSet /\ TaskRight /\ draft.status = "scanning" /\ lanes \in [LaneSet -> Lane]
      /\ draft \in Lane /\ draft.gen \in Nat
  BY <1>1, LanesAreTrue DEF Reading, TaskRight, TrueJob, LanesRight
<1>3. Grows /\ SweepRight' /\ OwnRight' /\ todo' \in [Ticks -> Seq(LaneSet)] BY <1>1, TaskFacts
<1>4. CASE /\ Save(job.lane, [draft EXCEPT !.status = IF paused THEN "paused" ELSE "disabled", !.gen = @ + 1])
           /\ doc' = Told(draft) /\ Release
  <2>1. DocsRight' /\ \A t \in Tabs : Quieter(t) BY <1>1, <1>4, TaskFacts
  <2>2. PICK l \in LaneSet, gen \in Nat, wait \in Nat, status \in Statuses :
           /\ l = job.lane /\ gen = draft.gen + 1 /\ wait = draft.wait
           /\ status = IF paused THEN "paused" ELSE "disabled"
    <3>1. draft.wait \in Nat BY <1>2 DEF Lane
    <3>2. (IF paused THEN "paused" ELSE "disabled") \in Statuses BY DEF Statuses
    <3> QED BY ONLY <1>2, <3>1, <3>2
  <2>3. PICK L : L = draft OBVIOUS
  <2>4. PICK M : M = Turned(L, gen, wait, status) OBVIOUS
  <2>5. M = [draft EXCEPT !.status = IF paused THEN "paused" ELSE "disabled", !.gen = @ + 1]
    BY <1>2, <2>2, <2>3, <2>4 DEF Turned, Lane
  <2>6. gen >= L.gen /\ status # "complete" /\ status # "scanning" BY <1>2, <2>2, <2>3
  <2>7. TrueLane(M) /\ Continues(M, l) BY <2>2, <2>3, <2>4, <2>6, TurnedContinues
  <2>8. Save(l, M) BY <1>4, <2>2, <2>5
  <2> QED BY <1>3, <1>4, <2>1, <2>7, <2>8, SavedAndReleased
<1>5. CASE Save(job.lane, draft) /\ doc' = doc /\ draft' = draft /\ Go("navigate")
  <2>1. DocsRight' /\ \A t \in Tabs : Quieter(t) BY <1>1, <1>5, TaskFacts
  <2>2. PICK pc \in Steps : pc = "navigate" BY DEF Steps, TickSteps
  <2>3. /\ job' \in [pc : Steps, lane : LaneSet \union {NoName}, old : Tabs \union {NoTab}]
        /\ job'.pc = "navigate" /\ job'.lane = job.lane
    BY <1>1, <1>2, <1>5, <2>2, GoneOn
  <2>4. lanes'[job.lane] = draft BY <1>2, <1>5 DEF Save
  <2>5. TaskRight' BY <1>2, <1>3, <1>5, <2>3, <2>4 DEF TaskRight, TrueJob
  <2> QED BY <1>2, <1>3, <1>5, <2>1, <2>3, <2>5, KeptOn
<1> QED BY <1>1, <1>4, <1>5

(* The lanes and the task stay as they are.                                *)
LEMMA SameLanes ==
    ASSUME Reading, Grows, DocsRight', \A t \in Tabs : Quieter(t), SweepRight', OwnRight',
           lanes' = lanes, draft' = draft, job' = job, TaskRight'
    PROVE  Reading'
<1>1. PICK D : D = draft OBVIOUS
<1>2. D.tab = NoTab \/ (job'.lane \in LaneSet /\ Continues(D, job'.lane))
  <2>1. CASE job.pc \in {"idle", "wiping"} BY <1>1, <2>1, AbsentIsTrue DEF Reading, TaskRight, TrueJob
  <2>2. CASE job.pc \notin {"idle", "wiping"}
    BY <1>1, <2>2 DEF Reading, TaskRight, TrueJob, Continues, Follows
  <2> QED BY <2>1, <2>2
<1>3. LanesRight' BY <1>1, <1>2, LanesStay, LanesAreTrue DEF Reading
<1> QED BY <1>3 DEF Reading

LEMMA TaskStays ==
    ASSUME TaskRight, job' = job, draft' = draft, todo' = todo, (own' = own /\ lanes' = lanes) \/ Free
    PROVE  TaskRight'
BY DEF TaskRight, TrueJob, Free

(* A message changes a lane while no task runs.                            *)
LEMMA SavedFree ==
    ASSUME Reading, Free, Grows, DocsRight', \A t \in Tabs : Quieter(t), SweepRight', OwnRight',
           NEW l \in LaneSet, NEW L, TrueLane(L), Save(l, L), Continues(L, l),
           job' = job, draft' = draft, todo' = todo
    PROVE  Reading'
<1>1. LanesRight /\ DocsRight /\ TaskRight /\ lanes' = [lanes EXCEPT ![l] = L] BY DEF Reading, Save
<1>2. TaskRight' BY <1>1, TaskStays
<1>3. PICK D : D = Absent OBVIOUS
<1>4. draft' = D BY <1>1, <1>3 DEF TaskRight, TrueJob, Free
<1>5. LanesRight' BY <1>1, <1>3, <1>4, AbsentIsTrue, LaneMoves
<1> QED BY <1>2, <1>5 DEF Reading

LEMMA NavigateReads ==
    ASSUME Reading, Navigate
    PROVE  Reading'
<1>1. /\ sweep' = sweep /\ own' = own /\ closed' = closed /\ todo' = todo /\ delivered' = delivered
      /\ job.pc = "navigate" /\ Release
      /\ \/ lanes' = lanes /\ doc' = [doc EXCEPT ![draft.tab] = Loading(job.lane, draft.tab)]
         \/ doc' = doc /\ Save(job.lane, Suspend(lanes[job.lane], "waiting", LATER))
  BY DEF Navigate, At, Unseen
<1>2. /\ job.lane \in LaneSet /\ draft.status = "scanning" /\ lanes[job.lane] = draft /\ DocsRight
      /\ TrueLane(draft)
  BY <1>1, LanesAreTrue DEF Reading, TaskRight, TrueJob
<1>3. Grows /\ SweepRight' /\ OwnRight' /\ todo' \in [Ticks -> Seq(LaneSet)] BY <1>1, TaskFacts
<1>4. CASE lanes' = lanes /\ doc' = [doc EXCEPT ![draft.tab] = Loading(job.lane, draft.tab)]
  <2>1. KnownLane(draft) /\ HasTarget(draft) /\ draft.tab # NoTab BY <1>2 DEF TrueLane, KnownLane
  <2>2. draft.tab \in Tabs /\ Current(draft) \in Target BY <2>1, LaneFields
  <2>3. PICK t \in Tabs, url \in Urls : t = draft.tab /\ url = Current(draft).url BY <2>2 DEF Target
  <2>4. PICK d : d = [NoDocument EXCEPT !.pc = "loaded", !.url = url] OBVIOUS
  <2>5. d = Loading(job.lane, draft.tab) BY <1>2, <2>3, <2>4 DEF Loading
  <2>6. d \in Document /\ d.pc = "loaded" /\ d.gen = 0 /\ d.key = NoName
    <3>1. NoDocument \in Document /\ NoDocument.gen = 0 /\ NoDocument.key = NoName
      BY BlankIsTrue DEF TrueDocument
    <3> QED BY <2>4, <3>1, Names
  <2>7. TrueDocument(d) BY <2>6 DEF TrueDocument, Given
  <2>8. doc' = [doc EXCEPT ![t] = d] BY <1>4, <2>3, <2>5
  <2>9. DocsRight' /\ \A u \in Tabs : Quieter(u) BY <1>2, <1>3, <2>6, <2>7, <2>8, DocumentTurns
  <2> QED BY <1>1, <1>3, <1>4, <2>9, JustReleased
<1>5. CASE doc' = doc /\ Save(job.lane, Suspend(lanes[job.lane], "waiting", LATER))
  <2>1. DocsRight' /\ \A t \in Tabs : Quieter(t) BY <1>1, <1>5, TaskFacts
  <2>2. PICK l \in LaneSet, status \in Statuses, wait \in Nat :
           l = job.lane /\ status = "waiting" /\ wait = LATER
    BY <1>2, LaneConstants DEF Statuses
  <2>3. PICK L : L = lanes[l] OBVIOUS
  <2>4. PICK S : S = Suspend(L, status, wait) OBVIOUS
  <2>5. status # "scanning" /\ status # "complete" BY <2>2
  <2>6. TrueLane(S) /\ Continues(S, l) BY <2>3, <2>4, <2>5, SuspendedContinues
  <2>7. Save(l, S) BY <1>5, <2>2, <2>3, <2>4
  <2> QED BY <1>1, <1>3, <2>1, <2>6, <2>7, SavedAndReleased
<1> QED BY <1>1, <1>4, <1>5

(* A removed tab: its owner, its lane, its receipts.                       *)
LEMMA RemovedReads ==
    ASSUME Reading, NEW t \in Tabs, Removed(t)
    PROVE  Reading'
<1>1. /\ lanes' = lanes /\ sweep' = sweep /\ doc' = doc /\ closed' = closed \ {t} /\ todo' = todo
      /\ delivered' = delivered /\ draft' = draft /\ job.pc = "idle"
      /\ \/ own' = own /\ job' = job
         \/ \E l \in LaneSet : /\ own' = [own EXCEPT ![l] = NoTab]
                               /\ job' = [pc |-> "unowned", lane |-> l, old |-> t]
  BY DEF Removed, Free, Owners, ghosts
<1>2. Grows /\ DocsRight' /\ (\A u \in Tabs : Quieter(u)) /\ SweepRight' BY <1>1, TaskFacts
<1>3. TaskRight /\ OwnRight /\ draft = Absent BY <1>1 DEF Reading, TaskRight, TrueJob
<1>4. CASE own' = own /\ job' = job
  <2>1. OwnRight' BY <1>1, <1>3, <1>4 DEF OwnRight
  <2>2. TaskRight' BY <1>1, <1>3, <1>4, TaskStays
  <2> QED BY <1>1, <1>2, <1>4, <2>1, <2>2, SameLanes
<1>5. ASSUME NEW l \in LaneSet, own' = [own EXCEPT ![l] = NoTab],
             job' = [pc |-> "unowned", lane |-> l, old |-> t]
      PROVE  Reading'
  <2>1. OwnRight' BY <1>1, <1>3, <1>5 DEF OwnRight
  <2>2. "unowned" \in Steps BY DEF Steps
  <2>3. job' \in [pc : Steps, lane : LaneSet \union {NoName}, old : Tabs \union {NoTab}]
        /\ job'.pc = "unowned" /\ job'.lane = l
    BY <1>5, <2>2
  <2>4. TaskRight' BY <1>1, <1>3, <2>3 DEF TaskRight, TrueJob
  <2>5. PICK D : D = Absent OBVIOUS
  <2>6. TrueLane(D) /\ Continues(D, l) /\ draft' = D
    BY <1>1, <1>3, <2>5, AbsentIsTrue DEF Continues, Follows
  <2> QED BY <1>1, <1>2, <2>1, <2>3, <2>4, <2>6, JustHeld
<1> QED BY <1>1, <1>4, <1>5

LEMMA TabLost ==
    ASSUME Reading, NEW L, TrueLane(L), NEW status \in Statuses, NEW wait \in Nat, status # "scanning",
           status = "complete" => L.status = "complete",
           NEW M, M = [Suspend(L, status, wait) EXCEPT !.tab = NoTab]
    PROVE  TrueLane(M) /\ M.tab = NoTab
<1>1. PICK R : R = Retain(L) OBVIOUS
<1>2. TrueLane(R) /\ SameWork(R, L) BY <1>1, RetainIsTrue, LanesAreTrue
<1>3. R \in Lane /\ R.gen \in Nat /\ R.status = L.status
  BY <1>2, LaneFields DEF TrueLane, KnownLane, SameWork
<1>4. PICK tab \in Tabs \union {NoTab}, gen \in Nat : tab = NoTab /\ gen = R.gen + 1 BY <1>3
<1>5. M = Moved(R, tab, gen, wait, status) BY <1>1, <1>3, <1>4 DEF Suspend, Lane, Moved
<1>6. status = "complete" => R.status = "complete" BY <1>3
<1>7. TrueLane(M) /\ M.tab = tab
  BY ONLY <1>2, <1>5, <1>6, status # "scanning", wait \in Nat, status \in Statuses,
          tab \in Tabs \union {NoTab}, gen \in Nat, MovedIsTrue
<1> QED BY <1>4, <1>7

LEMMA SaveRemovedReads ==
    ASSUME Reading, SaveRemoved
    PROVE  Reading'
<1> DEFINE St(L) == IF L.status \in Finished \union {"disabled", "paused"} THEN L.status ELSE "waiting"
<1>1. /\ sweep' = sweep /\ own' = own /\ doc' = doc /\ closed' = closed /\ draft' = draft /\ todo' = todo
      /\ delivered' = delivered /\ job.pc = "unowned" /\ Go("sweeping")
      /\ \/ Save(job.lane, [Suspend(lanes[job.lane], St(lanes[job.lane]), LATER) EXCEPT !.tab = NoTab])
         \/ lanes' = lanes
  BY DEF SaveRemoved, At, browser, Unseen
<1>2. job.lane \in LaneSet /\ TaskRight /\ draft = Absent BY <1>1 DEF Reading, TaskRight, TrueJob
<1>3. Grows /\ DocsRight' /\ (\A t \in Tabs : Quieter(t)) /\ SweepRight' /\ OwnRight' BY <1>1, TaskFacts
<1>4. PICK pc \in Steps : pc = "sweeping" BY DEF Steps
<1>5. /\ job' \in [pc : Steps, lane : LaneSet \union {NoName}, old : Tabs \union {NoTab}]
      /\ job'.pc = "sweeping" /\ job'.lane = job.lane /\ todo' \in [Ticks -> Seq(LaneSet)]
  BY <1>1, <1>2, <1>4, GoneOn
<1>6. TaskRight' BY <1>1, <1>2, <1>5 DEF TaskRight, TrueJob
<1>7. PICK l \in LaneSet : l = job.lane BY <1>2
<1>8. PICK D : D = Absent OBVIOUS
<1>9. PICK L : L = lanes[l] OBVIOUS
<1>10. TrueLane(D) /\ Continues(D, l) /\ draft' = D
  BY <1>1, <1>2, <1>7, <1>8, AbsentIsTrue DEF Continues, Follows
<1>11. CASE lanes' = lanes BY <1>3, <1>5, <1>6, <1>7, <1>8, <1>10, <1>11, JustHeld
<1>12. CASE Save(job.lane, [Suspend(lanes[job.lane], St(lanes[job.lane]), LATER) EXCEPT !.tab = NoTab])
  <2>1. TrueLane(L) /\ L \in Lane BY <1>9, LanesAreTrue
  <2>2. St(L) \in Statuses BY <2>1 DEF Lane, Statuses
  <2>3. PICK status \in Statuses, wait \in Nat : status = St(L) /\ wait = LATER BY <2>2, LaneConstants
  <2>4. status # "scanning" /\ (status = "complete" => L.status = "complete") BY <2>3 DEF Finished
  <2>5. PICK M : M = [Suspend(L, status, wait) EXCEPT !.tab = NoTab] OBVIOUS
  <2>6. TrueLane(M) /\ M.tab = NoTab BY <2>1, <2>4, <2>5, TabLost
  <2>7. Save(l, M) BY <1>7, <1>8, <1>12, <1>9, <2>3, <2>5
  <2>8. Continues(M, l) BY <2>6 DEF Continues, Follows
  <2> QED BY <1>3, <1>5, <1>6, <1>7, <1>8, <1>10, <2>6, <2>7, <2>8, SavedAndHeld
<1> QED BY <1>1, <1>11, <1>12

LEMMA SweepReads ==
    ASSUME Reading, Sweep
    PROVE  Reading'
<1>1. /\ lanes' = lanes /\ own' = own /\ doc' = doc /\ closed' = closed /\ todo' = todo
      /\ delivered' = delivered /\ Swept(job.old) /\ Release
  BY DEF Sweep, browser, Unseen
<1> QED BY <1>1, TaskFacts, JustReleased

LEMMA WipeReads ==
    ASSUME Reading, Wipe
    PROVE  Reading'
<1>1. /\ lanes' = lanes /\ own' = own /\ doc' = doc /\ closed' = closed /\ todo' = todo
      /\ delivered' = delivered /\ sweep' = [t \in Tabs |-> None] /\ Release
  BY DEF Wipe, browser, Unseen
<1>2. /\ Grows /\ DocsRight' /\ (\A t \in Tabs : Quieter(t)) /\ OwnRight'
      /\ todo' \in [Ticks -> Seq(LaneSet)]
  BY <1>1, TaskFacts
<1>3. PICK c : c = None OBVIOUS
<1>4. TrueReceipt(c)' /\ c \in Checkpoint BY <1>2, <1>3, NothingIsTrue, ReceiptsStayTrue
<1>5. \A t \in Tabs : sweep'[t] = c BY <1>1, <1>3
<1>6. sweep' \in [Tabs -> Checkpoint] BY <1>1, NothingIsTrue
<1>7. SweepRight' BY <1>4, <1>5, <1>6 DEF SweepRight
<1> QED BY <1>1, <1>2, <1>7, JustReleased

LEMMA FailContinues ==
    ASSUME Reading, NEW l \in LaneSet, NEW L, L = lanes[l] \/ (l = job.lane /\ L = draft), HasTarget(L)
    PROVE  TrueLane(Fail(L)) /\ Continues(Fail(L), l)
<1>1. TrueLane(L) /\ (\A t \in Tabs : TrueReceipt(sweep[t])) BY LanesAreTrue
<1>2. PICK F : F = Fail(L) OBVIOUS
<1>3. TrueLane(F) /\ F.tab = L.tab /\ F.gen = L.gen + 1 BY <1>1, <1>2, FailIsTrue
<1>4. L.gen \in Nat BY <1>1, LaneFields DEF TrueLane
<1>5. Follows(F, L) BY <1>3, <1>4 DEF Follows
<1> QED BY <1>2, <1>3, <1>5 DEF Continues

RestartLater(L) == [L EXCEPT !.status = "partial", !.wait = RestartAt(L)]

LEMMA DueReads ==
    ASSUME ScanTypes, Reading, Due
    PROVE  Reading'
<1> DEFINE l == job.lane
           L == draft
           fresh == FreshLane(l, L)
           next == IF L.status \in {"paused", "disabled"} THEN [L EXCEPT !.gen = @ + 1] ELSE L
<1>1. /\ own' = own /\ closed' = closed /\ todo' = todo /\ delivered' = delivered /\ job.pc = "due"
      /\ \/ Save(l, fresh) /\ Hold("due", l, fresh) /\ sweep' = sweep /\ doc' = doc
         \/ Release /\ lanes' = lanes /\ sweep' = sweep /\ doc' = doc
         \/ Save(l, RestartLater(L)) /\ Release /\ sweep' = sweep /\ doc' = doc
         \/ HasTarget(L) /\ Swept(L.tab) /\ Hold("save", l, Fail(L)) /\ lanes' = lanes /\ doc' = doc
         \/ HasTarget(L) /\ Save(l, Fail(L)) /\ doc' = Told(L) /\ Release /\ sweep' = sweep
         \/ /\ HasTarget(L) /\ ~(L.status = "scanning" /\ TabIsThere(l, L))
            /\ Hold("start", l, next) /\ lanes' = lanes /\ sweep' = sweep /\ doc' = doc
  BY DEF Due, At, Unseen, RestartLater
<1>2. l \in LaneSet /\ TaskRight /\ TrueLane(L) /\ L \in Lane /\ L.gen \in Nat
  BY <1>1, LanesAreTrue DEF Reading
<1>3. Grows /\ OwnRight' /\ todo' \in [Ticks -> Seq(LaneSet)] BY <1>1, TaskFacts
<1>4. PICK m \in LaneSet : m = job.lane BY <1>2
<1>5. PICK M : M = draft OBVIOUS
<1>6. Continues(M, m) /\ TrueLane(M) BY <1>2, <1>4, <1>5 DEF Continues, Follows
<1>7. CASE Save(l, fresh) /\ Hold("due", l, fresh) /\ sweep' = sweep /\ doc' = doc
  <2>1. DocsRight' /\ (\A t \in Tabs : Quieter(t)) /\ SweepRight' BY <1>1, <1>7, TaskFacts
  <2>2. PICK F : F = FreshLane(m, M) OBVIOUS
  <2>3. TrueLane(F) /\ Continues(F, m) BY <1>6, <2>2, FreshContinues
  <2>4. PICK pc \in Plain : pc = "due" BY DEF Plain
  <2>5. Hold(pc, m, F) /\ Save(m, F) BY <1>4, <1>5, <1>7, <2>2, <2>4
  <2>6. TaskRight' /\ job'.lane = m /\ draft' = F BY <1>1, <1>2, <2>5, HeldTo
  <2> QED BY <1>3, <2>1, <2>3, <2>5, <2>6, SavedAndHeld
<1>8. CASE Release /\ lanes' = lanes /\ sweep' = sweep /\ doc' = doc
  BY <1>1, <1>3, <1>8, TaskFacts, JustReleased
<1>9. CASE Save(l, RestartLater(L)) /\ Release /\ sweep' = sweep /\ doc' = doc
  <2>1. DocsRight' /\ (\A t \in Tabs : Quieter(t)) /\ SweepRight' BY <1>1, <1>9, TaskFacts
  <2>2. RestartAt(L) \in Nat BY LaneConstants DEF RestartAt
  <2>3. PICK gen \in Nat, wait \in Nat, status \in Statuses :
           gen = M.gen /\ wait = RestartAt(M) /\ status = "partial"
    BY <1>2, <1>4, <1>5, <2>2 DEF Statuses, Finished
  <2>4. PICK T : T = Turned(M, gen, wait, status) OBVIOUS
  <2>5. T = RestartLater(M) BY <1>2, <1>4, <1>5, <2>3, <2>4 DEF Turned, RestartLater, Lane
  <2>6. gen >= M.gen /\ status # "complete" /\ status # "scanning" BY <1>2, <1>4, <1>5, <2>3
  <2>7. TrueLane(T) /\ Continues(T, m) BY <1>4, <1>5, <2>4, <2>6, TurnedContinues
  <2>8. Save(m, T) BY <1>4, <1>5, <1>9, <2>5
  <2> QED BY <1>3, <1>9, <2>1, <2>7, <2>8, SavedAndReleased
<1>10. CASE HasTarget(L) /\ Swept(L.tab) /\ Hold("save", l, Fail(L)) /\ lanes' = lanes /\ doc' = doc
  <2>1. DocsRight' /\ (\A t \in Tabs : Quieter(t)) /\ SweepRight' BY <1>1, <1>10, TaskFacts
  <2>2. PICK F : F = Fail(M) OBVIOUS
  <2>3. TrueLane(F) /\ Continues(F, m) BY <1>4, <1>5, <1>10, <2>2, FailContinues
  <2>4. PICK pc \in Plain : pc = "save" BY DEF Plain
  <2>5. Hold(pc, m, F) BY <1>4, <1>5, <1>10, <2>2, <2>4
  <2>6. TaskRight' /\ job'.lane = m /\ draft' = F BY <1>1, <1>2, <2>5, HeldTo
  <2> QED BY <1>3, <1>10, <2>1, <2>3, <2>6, JustHeld
<1>11. CASE HasTarget(L) /\ Save(l, Fail(L)) /\ doc' = Told(L) /\ Release /\ sweep' = sweep
  <2>1. DocsRight' /\ (\A t \in Tabs : Quieter(t)) /\ SweepRight' BY <1>1, <1>11, TaskFacts
  <2>2. PICK F : F = Fail(M) OBVIOUS
  <2>3. TrueLane(F) /\ Continues(F, m) BY <1>4, <1>5, <1>11, <2>2, FailContinues
  <2>4. Save(m, F) BY <1>4, <1>5, <1>11, <2>2
  <2> QED BY <1>3, <1>11, <2>1, <2>3, <2>4, SavedAndReleased
<1>12. CASE /\ HasTarget(L) /\ Hold("start", l, next) /\ lanes' = lanes /\ sweep' = sweep /\ doc' = doc
  <2>1. DocsRight' /\ (\A t \in Tabs : Quieter(t)) /\ SweepRight' BY <1>1, <1>12, TaskFacts
  <2>2. M.wait \in Nat /\ M.status \in Statuses /\ M \in Lane /\ M.gen \in Nat BY <1>2, <1>4, <1>5 DEF Lane
  <2>3. PICK gen \in Nat, wait \in Nat, status \in Statuses :
           /\ gen = IF M.status \in {"paused", "disabled"} THEN M.gen + 1 ELSE M.gen
           /\ wait = M.wait /\ status = M.status
    BY <2>2
  <2>4. PICK T : T = Turned(M, gen, wait, status) OBVIOUS
  <2>5. T = next /\ T.targets = M.targets /\ T.cursor = M.cursor
    BY <1>4, <1>5, <2>2, <2>3, <2>4 DEF Turned, Lane
  <2>6. gen >= M.gen BY <2>2, <2>3
  <2>7. TrueLane(T) /\ Continues(T, m) BY <1>4, <1>5, <2>3, <2>4, <2>6, TurnedContinues
  <2>8. HasTarget(T) BY <1>4, <1>5, <1>12, <2>5 DEF HasTarget
  <2>9. PICK old \in Tabs \union {NoTab} : old = job.old BY <1>2 DEF TaskRight
  <2>10. job' = [pc |-> "start", lane |-> m, old |-> old] /\ draft' = T
    BY <1>4, <1>5, <1>12, <2>5, <2>9 DEF Hold
  <2>11. /\ job' \in [pc : Steps, lane : LaneSet \union {NoName}, old : Tabs \union {NoTab}]
         /\ job'.pc = "start" /\ job'.lane = m
    BY <2>10 DEF Steps, TickSteps
  <2>12. TaskRight' BY <1>3, <2>8, <2>10, <2>11 DEF TaskRight, TrueJob
  <2> QED BY <1>3, <1>12, <2>1, <2>7, <2>10, <2>11, <2>12, JustHeld
<1> QED BY <1>1, <1>7, <1>8, <1>9, <1>10, <1>11, <1>12

LEMMA StartTargetReads ==
    ASSUME ScanTypes, Reading, StartTarget
    PROVE  Reading'
<1> DEFINE l == job.lane
           L == draft
           S == Stamped(L)
           later == [L EXCEPT !.status = "waiting", !.wait = Earliest]
<1>1. /\ own' = own /\ doc' = doc /\ closed' = closed /\ todo' = todo /\ delivered' = delivered
      /\ job.pc = "start"
      /\ \/ Release /\ lanes' = lanes /\ sweep' = sweep
         \/ Save(l, later) /\ Release /\ sweep' = sweep
         \/ Go("reserve") /\ lanes' = lanes /\ sweep' = sweep /\ draft' = draft
         \/ /\ TabIsThere(l, L) /\ lanes' = lanes /\ Hold("stamped", l, S)
            /\ sweep' = sweep \/ sweep' = [sweep EXCEPT ![L.tab] = S.chk]
  BY DEF StartTarget, At, browser, Unseen
<1>2. /\ l \in LaneSet /\ TaskRight /\ TrueLane(L) /\ L \in Lane /\ L.gen \in Nat /\ HasTarget(L)
      /\ L.tab \in Tabs \union {NoTab}
  BY <1>1, LanesAreTrue DEF Reading, TaskRight, TrueJob
<1>3. Grows /\ OwnRight' /\ todo' \in [Ticks -> Seq(LaneSet)] /\ DocsRight' /\ (\A t \in Tabs : Quieter(t))
  BY <1>1, TaskFacts
<1>4. PICK m \in LaneSet : m = job.lane BY <1>2
<1>5. PICK M : M = draft OBVIOUS
<1>6. CASE Release /\ lanes' = lanes /\ sweep' = sweep
  BY <1>1, <1>3, <1>6, TaskFacts, JustReleased
<1>7. CASE Save(l, later) /\ Release /\ sweep' = sweep
  <2>1. SweepRight' BY <1>1, <1>7, TaskFacts
  <2>2. pace \in Nat BY LaneConstants DEF ScanTypes
  <2>3. PICK gen \in Nat, wait \in Nat, status \in Statuses : gen = M.gen /\ wait = pace /\ status = "waiting"
    BY <1>2, <1>4, <1>5, <2>2 DEF Statuses
  <2>4. PICK T : T = Turned(M, gen, wait, status) OBVIOUS
  <2>5. T = later BY <1>2, <1>4, <1>5, <2>3, <2>4 DEF Turned, Lane, Earliest
  <2>6. gen >= M.gen /\ status # "complete" /\ status # "scanning" BY <1>2, <1>4, <1>5, <2>3
  <2>7. TrueLane(T) /\ Continues(T, m) BY <1>4, <1>5, <2>4, <2>6, TurnedContinues
  <2>8. Save(m, T) BY <1>4, <1>5, <1>7, <2>5
  <2> QED BY <1>3, <1>7, <2>1, <2>7, <2>8, SavedAndReleased
<1>8. CASE Go("reserve") /\ lanes' = lanes /\ sweep' = sweep /\ draft' = draft
  <2>1. SweepRight' BY <1>1, <1>8, TaskFacts
  <2>2. PICK pc \in Plain : pc = "reserve" BY DEF Plain
  <2>3. TaskRight' /\ job'.lane = job.lane BY <1>1, <1>2, <1>8, <2>2, GoneTo
  <2> QED BY <1>2, <1>3, <1>8, <2>1, <2>3, KeptOn
<1>9. CASE /\ TabIsThere(l, L) /\ lanes' = lanes /\ Hold("stamped", l, S)
           /\ sweep' = sweep \/ sweep' = [sweep EXCEPT ![L.tab] = S.chk]
  <2>1. L.tab # NoTab BY <1>9 DEF TabIsThere
  <2>2. PICK T : T = Stamped(M) OBVIOUS
  <2>3. /\ TrueLane(T) /\ TrueReceipt(T.chk) /\ T.tab = M.tab /\ T.gen = M.gen /\ T.status = "scanning"
        /\ HasTarget(T) /\ Current(T).key = Current(M).key
    BY <1>2, <1>4, <1>5, <2>1, <2>2, StampedIsTrue
  <2>4. Follows(T, M) BY <2>3 DEF Follows
  <2>5. Continues(T, m) BY <1>4, <1>5, <2>4 DEF Continues
  <2>6. SweepRight'
    <3>1. PICK t \in Tabs : t = L.tab BY <1>2, <2>1
    <3>2. PICK c : c = T.chk OBVIOUS
    <3>3. sweep' = sweep \/ sweep' = [sweep EXCEPT ![t] = c] BY <1>4, <1>5, <1>9, <2>2, <3>1, <3>2
    <3>4. SweepRight /\ TrueReceipt(c) BY <2>3, <3>1, <3>2 DEF Reading
    <3> QED BY <1>3, <3>3, <3>4, ReceiptsStay, ReceiptChanges
  <2>7. PICK old \in Tabs \union {NoTab} : old = job.old BY <1>2 DEF TaskRight
  <2>8. job' = [pc |-> "stamped", lane |-> m, old |-> old] /\ draft' = T
    BY <1>4, <1>5, <1>9, <2>2, <2>7 DEF Hold
  <2>9. /\ job' \in [pc : Steps, lane : LaneSet \union {NoName}, old : Tabs \union {NoTab}]
         /\ job'.pc = "stamped" /\ job'.lane = m
    BY <2>8 DEF Steps, TickSteps
  <2>10. TaskRight' BY <1>3, <2>3, <2>8, <2>9 DEF TaskRight, TrueJob
  <2> QED BY <1>3, <1>9, <2>3, <2>5, <2>6, <2>8, <2>9, <2>10, JustHeld
<1> QED BY <1>1, <1>6, <1>7, <1>8, <1>9

-----------------------------------------------------------------------------
(* Documents and their messages                                            *)

(* Who holds a lane knows its target.                                      *)
LEMMA HolderKnows ==
    ASSUME Reading, NEW t \in Tabs, NEW l \in LaneSet, NEW selecting \in BOOLEAN, Holds(l, t, selecting),
           doc[t].pc \in Given, NEW L, L = lanes[l]
    PROVE  /\ TrueLane(L) /\ HasTarget(L) /\ L.tab = t /\ own[l] = t /\ L.status = "scanning"
           /\ doc[t].key = Current(L).key /\ doc[t].key \in Keys
           /\ ~selecting => ~Current(L).sel /\ doc[t].url = Dest[doc[t].key]
<1>1. TrueLane(L) /\ Speaks(t, L) /\ TrueDocument(doc[t])
  BY LanesAreTrue DEF Reading, LanesRight, DocsRight
<1>2. /\ HasTarget(L) /\ L.tab = t /\ own[l] = t /\ L.status = "scanning" /\ doc[t].gen = L.gen
      /\ selecting \/ ~Current(L).sel
      /\ Permitted(L, doc[t].url, selecting)
  BY DEF Holds, Authorized
<1>3. doc[t].key \in Keys BY <1>1 DEF TrueDocument
<1>4. doc[t].key = Current(L).key BY <1>1, <1>2, <1>3 DEF Speaks
<1>5. TrueTarget(Current(L)) BY <1>1, <1>2, LaneFields DEF TrueLane
<1>6. ~selecting => ~Current(L).sel /\ doc[t].url = Dest[doc[t].key]
  BY <1>2, <1>4, <1>5 DEF Permitted, TrueTarget
<1> QED BY <1>1, <1>2, <1>3, <1>4, <1>6

(* A tab has one owner.                                                    *)
LEMMA OneOwner ==
    ASSUME Reading, NEW t \in Tabs, NEW l \in LaneSet, own[l] = t, NEW m \in LaneSet, own[m] = t
    PROVE  l = m
BY LaneConstants DEF Reading, OwnRight

(* A document says something of its role.                                  *)
LEMMA DocumentAs ==
    ASSUME NEW d, TrueDocument(d), d.pc \in Given, NEW pc \in {"ready", "written"}, NEW page \in {0, d.page},
           NEW e, e = [d EXCEPT !.pc = pc, !.page = page]
    PROVE  TrueDocument(e) /\ e.gen = d.gen /\ e.key = d.key
<1>1. d \in Document /\ d.page \in Nat /\ d.key \in Keys BY Names DEF TrueDocument
<1>2. /\ e \in Document /\ e.gen = d.gen /\ e.key = d.key /\ e.pc = pc /\ e.page = page /\ e.url = d.url
  <2>1. page \in Nat /\ pc \in {"ready", "written"} BY <1>1
  <2> QED BY ONLY <1>1, <2>1, e = [d EXCEPT !.pc = pc, !.page = page], Names
<1> QED BY <1>1, <1>2 DEF TrueDocument, Given

LEMMA RoleGiven ==
    ASSUME Reading, NEW t \in Tabs, NEW l \in LaneSet, Authorized(l, t, TRUE), Free,
           doc' = [doc EXCEPT ![t].pc = "ready", ![t].gen = lanes[l].gen, ![t].key = Current(lanes[l]).key],
           lanes' = lanes, sweep' = sweep, own' = own, closed' = closed, job' = job, draft' = draft,
           todo' = todo, delivered' = delivered
    PROVE  Reading'
<1>1. LanesRight /\ DocsRight /\ TaskRight /\ draft = Absent BY DEF Reading, TaskRight, TrueJob, Free
<1>2. Grows /\ SweepRight' /\ OwnRight' BY TaskFacts
<1>3. PICK L : L = lanes[l] OBVIOUS
<1>4. HasTarget(L) /\ L.tab = t BY <1>3 DEF Authorized
<1>5. TrueLane(L) /\ L.gen \in Nat BY <1>3, LanesAreTrue
<1>6. Current(L).key \in Keys BY <1>4, <1>5, LaneFields DEF TrueLane, Target
<1>7. PICK gen \in Nat, key \in Keys : gen = L.gen /\ key = Current(L).key BY <1>5, <1>6
<1>8. PICK o, d : o = doc[t] /\ d = [o EXCEPT !.pc = "ready", !.gen = gen, !.key = key] OBVIOUS
<1>9. o \in Document BY <1>1, <1>8 DEF DocsRight
<1>10. d \in Document /\ d.pc = "ready" /\ d.gen = gen /\ d.key = key BY <1>8, <1>9, Names
<1>11. TrueDocument(d) BY <1>10 DEF TrueDocument, Given
<1>12. doc' = [doc EXCEPT ![t] = d] BY <1>1, <1>3, <1>7, <1>8 DEF DocsRight
<1>13. DocsRight' /\ doc'[t] = d /\ \A u \in Tabs : u # t => doc'[u] = doc[u]
  BY <1>1, <1>2, <1>11, <1>12, DocumentChanges
<1>14. TaskRight' BY <1>1, TaskStays
<1>15. \A u \in Tabs, m \in LaneSet : Speaks(u, lanes[m])'
  <2>1. SUFFICES ASSUME NEW u \in Tabs, NEW m \in LaneSet PROVE Speaks(u, lanes[m])' OBVIOUS
  <2>2. CASE u # t
    <3>1. Speaks(u, lanes[m]) BY <1>1 DEF LanesRight
    <3>2. doc'[u] = doc[u] BY <1>13, <2>2
    <3> QED BY <3>1, <3>2 DEF Speaks, HasTarget, Current
  <2>3. CASE u = t /\ lanes[m].tab = t
    <3>1. m = l BY <1>1, <1>3, <1>4, <2>3, LaneConstants DEF LanesRight
    <3>2. doc'[u].gen = L.gen /\ doc'[u].key = Current(L).key BY <1>7, <1>10, <1>13, <2>3
    <3>3. Speaks(u, L)' BY <1>4, <1>5, <3>2 DEF Speaks
    <3> QED BY <1>3, <3>1, <3>3
  <2>4. CASE u = t /\ lanes[m].tab # t BY <2>4 DEF Speaks
  <2> QED BY <2>2, <2>3, <2>4
<1>16. LanesRight'
  <2>1. \A m \in LaneSet : TrueLane(lanes[m])'
    <3>1. SUFFICES ASSUME NEW m \in LaneSet PROVE TrueLane(lanes[m])' OBVIOUS
    <3>2. PICK R : R = lanes[m] OBVIOUS
    <3>3. TrueLane(R)' BY <1>2, <3>2, LanesAreTrue, LanesStayTrue
    <3> QED BY <3>2, <3>3
  <2>2. TrueLane(draft)'
    <3>1. PICK R : R = draft OBVIOUS
    <3>2. TrueLane(R)' BY <1>2, <3>1, LanesAreTrue, LanesStayTrue
    <3> QED BY <3>1, <3>2
  <2>3. \A u \in Tabs : Speaks(u, draft)'
    <3>1. draft'.tab = NoTab BY <1>1, AbsentIsTrue
    <3> QED BY <3>1, LaneConstants DEF Speaks
  <2> QED BY <1>1, <1>15, <2>1, <2>2, <2>3 DEF LanesRight
<1> QED BY <1>2, <1>13, <1>14, <1>16 DEF Reading

LEMMA AskRoleReads ==
    ASSUME Reading, NEW t \in Tabs, AskRole(t)
    PROVE  Reading'
<1>1. /\ lanes' = lanes /\ sweep' = sweep /\ own' = own /\ closed' = closed /\ job' = job /\ draft' = draft
      /\ todo' = todo /\ delivered' = delivered /\ Free
      /\ \/ \E l \in LaneSet : /\ Authorized(l, t, TRUE)
                               /\ doc' = [doc EXCEPT ![t].pc = "ready", ![t].gen = lanes[l].gen,
                                                     ![t].key = Current(lanes[l]).key]
         \/ Stood(t)
  BY DEF AskRole, Owners, storage, worker, ghosts
<1>2. Grows /\ SweepRight' /\ OwnRight' BY <1>1, TaskFacts
<1>3. CASE Stood(t)
  <2>1. DocsRight' /\ \A u \in Tabs : Quieter(u) BY <1>2, <1>3, StoodDocuments DEF Reading
  <2>2. TaskRight' BY <1>1, TaskStays DEF Reading
  <2> QED BY <1>1, <1>2, <2>1, <2>2, SameLanes
<1>4. ASSUME NEW l \in LaneSet, Authorized(l, t, TRUE),
             doc' = [doc EXCEPT ![t].pc = "ready", ![t].gen = lanes[l].gen, ![t].key = Current(lanes[l]).key]
      PROVE  Reading'
  BY <1>1, <1>4, RoleGiven
<1> QED BY <1>1, <1>3, <1>4

(* A page's items are sent on by a document that holds the lane.           *)
LEMMA DocumentSends ==
    ASSUME DocsRight, Grows, NEW t \in Tabs, NEW d, TrueDocument(d)', doc' = [doc EXCEPT ![t] = d],
           d.gen = doc[t].gen /\ d.key = doc[t].key
    PROVE  DocsRight' /\ \A u \in Tabs : Quieter(u)
<1>1. d \in Document BY DEF TrueDocument
<1>2. /\ doc' \in [Tabs -> Document] /\ \A u \in Tabs : doc'[u] = IF u = t THEN d ELSE doc[u]
  BY <1>1 DEF DocsRight
<1>3. \A u \in Tabs : TrueDocument(doc[u])'
  <2>1. SUFFICES ASSUME NEW u \in Tabs PROVE TrueDocument(doc[u])' OBVIOUS
  <2>2. PICK e : e = doc'[u] OBVIOUS
  <2>3. CASE u = t BY <1>2, <2>2, <2>3
  <2>4. CASE u # t
    <3>1. TrueDocument(e) BY <1>2, <2>2, <2>4 DEF DocsRight
    <3>2. TrueDocument(e)' BY <3>1, DocumentsStayTrue
    <3> QED BY <2>2, <3>2
  <2> QED BY <2>3, <2>4
<1> QED BY <1>2, <1>3 DEF DocsRight, Quieter

LEMMA SendReads ==
    ASSUME ScanTypes, Reading, NEW t \in Tabs, Send(t)
    PROVE  Reading'
<1>1. /\ lanes' = lanes /\ sweep' = sweep /\ own' = own /\ closed' = closed /\ job' = job /\ draft' = draft
      /\ todo' = todo /\ doc[t].pc = "ready"
      /\ \/ delivered' = delivered /\ Stood(t)
         \/ \E p \in Unread(t), l \in LaneSet :
               /\ Holds(l, t, FALSE) /\ doc' = [doc EXCEPT ![t].pc = "sent", ![t].page = p]
               /\ delivered' = [delivered EXCEPT ![doc[t].url] = @ \union {p}]
  BY DEF Send, Owners, storage, worker
<1>2. /\ DocsRight /\ SweepRight /\ OwnRight /\ TaskRight /\ TrueDocument(doc[t])
      /\ doc \in [Tabs -> Document]
  BY DEF Reading, DocsRight
<1>3. OwnRight' /\ TaskRight' BY <1>1, <1>2, OwnersStay, TaskStays
<1>4. CASE delivered' = delivered /\ Stood(t)
  <2>1. Grows /\ SweepRight' BY <1>1, <1>4, TaskFacts
  <2>2. DocsRight' /\ \A u \in Tabs : Quieter(u) BY <1>2, <1>4, <2>1, StoodDocuments
  <2> QED BY <1>1, <1>3, <2>1, <2>2, SameLanes
<1>5. ASSUME NEW p \in Unread(t), NEW l \in LaneSet, Holds(l, t, FALSE),
             doc' = [doc EXCEPT ![t].pc = "sent", ![t].page = p],
             delivered' = [delivered EXCEPT ![doc[t].url] = @ \union {p}]
      PROVE  Reading'
  <2>1. PICK o : o = doc[t] OBVIOUS
  <2>2. o \in Document /\ o.url \in Urls /\ o.gen \in Nat BY <1>2, <2>1, Names
  <2>3. p \in Pages[o.url] /\ p \in Nat BY <2>1, <2>2, LaneConstants DEF Unread
  <2>4. o.key \in Keys /\ o.url = Dest[o.key]
    <3>1. PICK L : L = lanes[l] OBVIOUS
    <3>2. PICK selecting \in BOOLEAN : selecting = FALSE OBVIOUS
    <3>3. Holds(l, t, selecting) /\ doc[t].pc \in Given BY <1>1, <1>5, <3>2 DEF Given
    <3> QED BY <2>1, <3>1, <3>2, <3>3, HolderKnows
  <2>5. Grows
    <3>1. delivered \in [Urls -> SUBSET UNION Range(Pages)] BY DEF ScanTypes
    <3> QED BY <1>5, <3>1 DEF Grows
  <2>6. p \in delivered'[o.url]
    <3>1. delivered \in [Urls -> SUBSET UNION Range(Pages)] BY DEF ScanTypes
    <3> QED BY <1>5, <2>1, <2>2, <3>1
  <2>7. PICK d : d = [o EXCEPT !.pc = "sent", !.page = p] OBVIOUS
  <2>8. /\ d \in Document /\ d.pc = "sent" /\ d.page = p /\ d.gen = o.gen /\ d.key = o.key /\ d.url = o.url
    BY ONLY <2>2, <2>3, <2>7, Names
  <2>9. TrueDocument(d)' BY <2>3, <2>4, <2>6, <2>8 DEF TrueDocument, Given
  <2>10. doc' = [doc EXCEPT ![t] = d] BY <1>2, <1>5, <2>1, <2>7
  <2>11. DocsRight' /\ \A u \in Tabs : Quieter(u) BY <1>2, <2>1, <2>5, <2>8, <2>9, <2>10, DocumentSends
  <2>12. SweepRight' BY <1>1, <1>2, <2>5, ReceiptsStay
  <2> QED BY <1>1, <1>3, <2>5, <2>11, <2>12, SameLanes
<1> QED BY <1>1, <1>4, <1>5

LEMMA AnswerReads ==
    ASSUME Reading, NEW t \in Tabs, Answer(t)
    PROVE  Reading'
<1>1. /\ lanes' = lanes /\ sweep' = sweep /\ own' = own /\ closed' = closed /\ job' = job /\ draft' = draft
      /\ todo' = todo /\ delivered' = delivered /\ doc[t].pc = "sent"
      /\ doc' = [doc EXCEPT ![t].pc = "acked"] \/ Stood(t)
  BY DEF Answer, Become, storage, worker, ghosts
<1>2. DocsRight /\ TaskRight /\ TrueDocument(doc[t]) /\ doc \in [Tabs -> Document]
  BY DEF Reading, DocsRight
<1>3. Grows /\ SweepRight' /\ OwnRight' /\ TaskRight' BY <1>1, <1>2, TaskFacts, TaskStays
<1>4. CASE Stood(t)
  <2>1. DocsRight' /\ \A u \in Tabs : Quieter(u) BY <1>2, <1>3, <1>4, StoodDocuments
  <2> QED BY <1>1, <1>3, <2>1, SameLanes
<1>5. CASE doc' = [doc EXCEPT ![t].pc = "acked"]
  <2>1. PICK o : o = doc[t] OBVIOUS
  <2>2. o \in Document BY <1>2, <2>1
  <2>3. PICK d : d = [o EXCEPT !.pc = "acked"] OBVIOUS
  <2>4. o.pc = "sent" /\ o.pc \in Given BY <1>1, <2>1 DEF Given
  <2>5. /\ d \in Document /\ d.gen = o.gen /\ d.key = o.key /\ d.url = o.url /\ d.page = o.page /\ d.pc = "acked"
    BY ONLY <2>2, <2>3, Names
  <2>6. TrueDocument(d) BY <1>2, <2>1, <2>4, <2>5 DEF TrueDocument, Given
  <2>7. doc' = [doc EXCEPT ![t] = d] BY <1>2, <1>5, <2>1, <2>3
  <2>8. DocsRight' /\ \A u \in Tabs : Quieter(u)
    BY <1>2, <1>3, <2>1, <2>5, <2>6, <2>7, DocumentTurns
  <2> QED BY <1>1, <1>3, <2>8, SameLanes
<1> QED BY <1>1, <1>4, <1>5

(* The receipt of a page, and of results without items.                    *)
LEMMA WriteReceiptReads ==
    ASSUME Reading, NEW t \in Tabs, WriteReceipt(t)
    PROVE  Reading'
<1> DEFINE page == IF doc[t].pc = "acked" THEN {doc[t].page} ELSE {}
           receipt == [gen |-> doc[t].gen, key |-> doc[t].key, visited |-> Visited(t) \union page]
<1>1. /\ lanes' = lanes /\ own' = own /\ closed' = closed /\ job' = job /\ draft' = draft
      /\ todo' = todo /\ delivered' = delivered /\ doc[t].pc \in {"acked", "ready"}
      /\ sweep' = [sweep EXCEPT ![t] = receipt]
      /\ doc' = [doc EXCEPT ![t].pc = "written", ![t].page = 0]
  BY DEF WriteReceipt, worker, ghosts
<1>2. /\ DocsRight /\ SweepRight /\ TaskRight /\ TrueDocument(doc[t]) /\ doc \in [Tabs -> Document]
      /\ TrueReceipt(sweep[t])
  BY DEF Reading, DocsRight, SweepRight
<1>3. Grows /\ OwnRight' /\ TaskRight' BY <1>1, <1>2, TaskFacts, TaskStays
<1>4. PICK o : o = doc[t] OBVIOUS
<1>5. /\ TrueDocument(o) /\ o.pc \in Given /\ o \in Document /\ o.key \in Keys /\ o.gen \in Nat
      /\ o.url \in Urls /\ o.page \in Nat
  BY <1>1, <1>2, <1>4, Names DEF TrueDocument, Given
<1>6. DocsRight' /\ \A u \in Tabs : Quieter(u)
  <2>1. PICK pc \in {"ready", "written"}, p \in {0, o.page} : pc = "written" /\ p = 0 OBVIOUS
  <2>2. PICK d : d = [o EXCEPT !.pc = pc, !.page = p] OBVIOUS
  <2>3. TrueDocument(d) /\ d.gen = o.gen /\ d.key = o.key BY <1>5, <2>2, DocumentAs
  <2>4. doc' = [doc EXCEPT ![t] = d] BY <1>1, <1>2, <1>4, <2>1, <2>2
  <2> QED BY <1>2, <1>3, <1>4, <2>3, <2>4, DocumentTurns
<1>7. PICK c : c = receipt OBVIOUS
<1>8. page \subseteq UNION Range(Pages) /\ page \subseteq delivered[Dest[o.key]]
  <2>1. CASE o.pc = "acked"
    <3>1. o.url = Dest[o.key] /\ o.page \in Pages[o.url] /\ o.page \in delivered[o.url]
      BY <1>5, <2>1 DEF TrueDocument
    <3>2. Pages[o.url] \in Range(Pages) BY <1>5, LaneConstants DEF Range
    <3> QED BY <1>4, <2>1, <3>1, <3>2
  <2>2. CASE o.pc # "acked" BY <1>4, <2>2
  <2> QED BY <2>1, <2>2
<1>9. Visited(t) \subseteq UNION Range(Pages) /\ Visited(t) \subseteq delivered[Dest[o.key]]
  <2>1. CASE Receipt(t)
    <3>1. PICK r : r = sweep[t] OBVIOUS
    <3>2. TrueReceipt(r) /\ r.key = o.key BY <1>2, <1>4, <2>1, <3>1 DEF Receipt
    <3>3. r.visited \subseteq UNION Range(Pages) BY <3>2, Names DEF TrueReceipt
    <3> QED BY <1>5, <2>1, <3>1, <3>2, <3>3 DEF Visited, TrueReceipt
  <2>2. CASE ~Receipt(t) BY <2>2 DEF Visited
  <2> QED BY <2>1, <2>2
<1>10. PICK seen : seen = Visited(t) \union page OBVIOUS
<1>11. seen \subseteq UNION Range(Pages) /\ seen \subseteq delivered[Dest[o.key]] BY <1>8, <1>9, <1>10
<1>12. c = [gen |-> o.gen, key |-> o.key, visited |-> seen] BY <1>4, <1>7, <1>10
<1>13. c \in Checkpoint /\ c.key = o.key /\ c.visited = seen BY <1>5, <1>11, <1>12, Names
<1>14. TrueReceipt(c) BY <1>11, <1>13 DEF TrueReceipt
<1>15. sweep' = [sweep EXCEPT ![t] = c] BY <1>1, <1>7
<1>16. SweepRight' BY <1>2, <1>3, <1>14, <1>15, ReceiptChanges
<1> QED BY <1>1, <1>3, <1>6, <1>16, SameLanes

(* A lane keeps its document's receipts.                                   *)
LEMMA RetainContinues ==
    ASSUME Reading, NEW l \in LaneSet, NEW R, R = Retain(lanes[l])
    PROVE  TrueLane(R) /\ Continues(R, l)
<1>1. PICK L : L = lanes[l] OBVIOUS
<1>2. TrueLane(L) /\ \A t \in Tabs : TrueReceipt(sweep[t]) BY <1>1, LanesAreTrue
<1>3. PICK N : N = Retain(L) OBVIOUS
<1>4. TrueLane(N) /\ SameWork(N, L) BY <1>2, <1>3, RetainIsTrue
<1>5. (HasTarget(N) <=> HasTarget(L)) /\ (HasTarget(L) => SameTarget(Current(N), Current(L)))
  BY <1>2, <1>4, SameAttempts DEF TrueLane
<1>6. Follows(N, L) BY <1>4, <1>5 DEF Follows, SameWork, SameTarget
<1> QED BY <1>1, <1>3, <1>4, <1>6 DEF Continues

LEMMA TurnsReady ==
    ASSUME Reading, Grows, NEW t \in Tabs, doc[t].pc \in Given, doc' = [doc EXCEPT ![t].pc = "ready"]
    PROVE  DocsRight' /\ \A u \in Tabs : Quieter(u)
<1>1. PICK o : o = doc[t] OBVIOUS
<1>2. DocsRight /\ TrueDocument(o) /\ o \in Document /\ doc \in [Tabs -> Document]
  BY <1>1 DEF Reading, DocsRight
<1>3. PICK d : d = [o EXCEPT !.pc = "ready"] OBVIOUS
<1>4. d \in Document /\ d.gen = o.gen /\ d.key = o.key /\ d.pc = "ready" BY ONLY <1>2, <1>3, Names
<1>5. TrueDocument(d) BY <1>1, <1>2, <1>4 DEF TrueDocument, Given
<1>6. doc' = [doc EXCEPT ![t] = d] BY <1>1, <1>2, <1>3
<1> QED BY <1>1, <1>2, <1>4, <1>5, <1>6, DocumentTurns

LEMMA ReportCheckpointReads ==
    ASSUME Reading, NEW t \in Tabs, ReportCheckpoint(t)
    PROVE  Reading'
<1>1. /\ sweep' = sweep /\ own' = own /\ closed' = closed /\ job' = job /\ draft' = draft
      /\ todo' = todo /\ delivered' = delivered /\ doc[t].pc = "written" /\ Free
      /\ \/ \E l \in LaneSet : Save(l, Retain(lanes[l])) /\ doc' = [doc EXCEPT ![t].pc = "ready"]
         \/ Stood(t) /\ lanes' = lanes
  BY DEF ReportCheckpoint, Owners, Become, StoreOnly
<1>2. Grows /\ SweepRight' /\ OwnRight' /\ DocsRight /\ TaskRight BY <1>1, TaskFacts DEF Reading
<1>3. CASE Stood(t) /\ lanes' = lanes
  <2>1. DocsRight' /\ \A u \in Tabs : Quieter(u) BY <1>2, <1>3, StoodDocuments
  <2>2. TaskRight' BY <1>1, <1>2, TaskStays
  <2> QED BY <1>1, <1>2, <1>3, <2>1, <2>2, SameLanes
<1>4. ASSUME NEW l \in LaneSet, Save(l, Retain(lanes[l])), doc' = [doc EXCEPT ![t].pc = "ready"]
      PROVE  Reading'
  <2>1. doc[t].pc \in Given BY <1>1 DEF Given
  <2>2. DocsRight' /\ \A u \in Tabs : Quieter(u) BY <1>2, <1>4, <2>1, TurnsReady
  <2>3. PICK R : R = Retain(lanes[l]) OBVIOUS
  <2>4. TrueLane(R) /\ Continues(R, l) BY <2>3, RetainContinues
  <2>5. Save(l, R) BY <1>4, <2>3
  <2> QED BY <1>1, <1>2, <2>2, <2>4, <2>5, SavedFree
<1> QED BY <1>1, <1>3, <1>4

(* A target that is done with: what it is about was read.                  *)
LEMMA AdvanceContinues ==
    ASSUME Reading, NEW l \in LaneSet, NEW L, L = lanes[l], HasTarget(L),
           NEW outcome \in {"complete", "unresolved", "duplicate"},
           outcome = "complete" => /\ ~Current(L).sel
                                   /\ Pages[Dest[Current(L).key]] \subseteq delivered[Dest[Current(L).key]],
           outcome = "duplicate" => /\ Current(L).sel
                                    /\ \E j \in 1..Len(L.targets) : j # L.cursor /\ StandsFor(L.targets[j], Current(L)),
           NEW A, A = Advance(L, outcome)
    PROVE  TrueLane(A) /\ Continues(A, l)
<1>1. TrueLane(L) /\ KnownLane(L) /\ (\A t \in Tabs : TrueReceipt(sweep[t])) BY LanesAreTrue DEF TrueLane
<1>2. TrueLane(A) /\ A.tab = L.tab /\ A.gen = L.gen + 1 BY <1>1, AdvanceIsTrue
<1>3. L.gen \in Nat BY <1>1, LaneFields
<1>4. Follows(A, L) BY <1>2, <1>3 DEF Follows
<1> QED BY <1>2, <1>4 DEF Continues

LEMMA HeldFree ==
    ASSUME Reading, Free, Grows, DocsRight', \A t \in Tabs : Quieter(t), SweepRight', OwnRight', lanes' = lanes,
           NEW pc \in Plain, NEW l \in LaneSet, NEW D, TrueLane(D), Continues(D, l), Hold(pc, l, D), todo' = todo
    PROVE  Reading'
<1>1. TaskRight' /\ job'.lane = l /\ draft' = D BY HeldTo DEF Reading
<1> QED BY <1>1, JustHeld

LEMMA SweepCompleteReads ==
    ASSUME Reading, NEW t \in Tabs, SweepComplete(t)
    PROVE  Reading'
<1>1. /\ lanes' = lanes /\ own' = own /\ closed' = closed /\ todo' = todo /\ delivered' = delivered
      /\ Free /\ doc[t].pc \in {"found", "ready"}
      /\ doc[t].pc = "ready" => Receipt(t) /\ Unread(t) = {}
      /\ \/ \E m, l \in LaneSet, outcome \in {"complete", "unresolved"} :
               /\ own[m] = t /\ Holds(m, t, FALSE) /\ own[l] = t
               /\ Hold("save", l, Advance(lanes[l], outcome)) /\ Swept(t) /\ doc' = doc
         \/ Stood(t) /\ job' = job /\ draft' = draft /\ sweep' = sweep
  BY DEF SweepComplete, Owners
<1>2. Grows /\ OwnRight' /\ DocsRight /\ TaskRight /\ SweepRight BY <1>1, TaskFacts DEF Reading
<1>3. CASE Stood(t) /\ job' = job /\ draft' = draft /\ sweep' = sweep
  <2>1. DocsRight' /\ (\A u \in Tabs : Quieter(u)) /\ SweepRight'
    BY <1>1, <1>2, <1>3, StoodDocuments, TaskFacts
  <2>2. TaskRight' BY <1>1, <1>2, <1>3, TaskStays
  <2> QED BY <1>1, <1>2, <1>3, <2>1, <2>2, SameLanes
<1>4. ASSUME NEW m \in LaneSet, NEW l \in LaneSet, NEW outcome \in {"complete", "unresolved"},
             own[m] = t, Holds(m, t, FALSE), own[l] = t,
             Hold("save", l, Advance(lanes[l], outcome)), Swept(t), doc' = doc
      PROVE  Reading'
  <2>1. m = l BY <1>4, OneOwner
  <2>2. DocsRight' /\ (\A u \in Tabs : Quieter(u)) /\ SweepRight' BY <1>1, <1>4, TaskFacts
  <2>3. PICK selecting \in BOOLEAN : selecting = FALSE OBVIOUS
  <2>4. PICK L : L = lanes[l] OBVIOUS
  <2>5. /\ HasTarget(L) /\ doc[t].key = Current(L).key /\ doc[t].key \in Keys
        /\ ~Current(L).sel /\ doc[t].url = Dest[doc[t].key]
    <3>1. Holds(l, t, selecting) /\ doc[t].pc \in Given BY <1>1, <1>4, <2>1, <2>3 DEF Given
    <3> QED BY <2>3, <2>4, <3>1, HolderKnows
  <2>6. Pages[Dest[Current(L).key]] \subseteq delivered[Dest[Current(L).key]]
    <3>1. CASE doc[t].pc = "found"
      <4>1. doc[t].key \in Discovery BY <1>2, <3>1 DEF DocsRight, TrueDocument
      <4>2. Dest[doc[t].key] = Home BY <4>1 DEF Discovery
      <4> QED BY <2>5, <4>2, LaneConstants
    <3>2. CASE doc[t].pc = "ready"
      <4>1. Receipt(t) /\ Pages[doc[t].url] \subseteq sweep[t].visited
        BY <1>1, <3>2 DEF Unread, Visited
      <4>2. TrueReceipt(sweep[t]) /\ sweep[t].key = doc[t].key BY <1>2, <4>1 DEF SweepRight, Receipt
      <4>3. sweep[t].visited \subseteq delivered[Dest[doc[t].key]] BY <2>5, <4>2 DEF TrueReceipt
      <4> QED BY <2>5, <4>1, <4>3
    <3> QED BY <1>1, <3>1, <3>2
  <2>7. PICK done \in {"complete", "unresolved", "duplicate"} : done = outcome OBVIOUS
  <2>8. PICK A : A = Advance(L, done) OBVIOUS
  <2>9. TrueLane(A) /\ Continues(A, l)
    <3>1. done # "duplicate" BY <1>4, <2>7
    <3> QED BY <2>4, <2>5, <2>6, <2>8, <3>1, AdvanceContinues
  <2>10. PICK pc \in Plain : pc = "save" BY DEF Plain
  <2>11. Hold(pc, l, A) BY <1>4, <2>4, <2>7, <2>8, <2>10
  <2> QED BY <1>1, <1>2, <2>2, <2>9, <2>11, HeldFree
<1> QED BY <1>1, <1>3, <1>4

(* The departments a discovery shows.                                      *)
LEMMA DepartmentsAreKeys ==
    ASSUME NEW l \in LaneSet, NEW I \in SUBSET (1..Len(Found[l])), NEW room \in Int,
           NEW new, new = Only(Found[l], I)
    PROVE  SubSeq(new, 1, IF Len(new) < room THEN Len(new) ELSE room) \in Seq(Keys)
<1>1. Found[l] \in Seq(Keys) BY LaneConstants
<1>2. new \in Seq(Keys) /\ Len(new) \in Nat BY <1>1, OnlyTakes, LenProperties
<1>3. PICK n \in Int : n = IF Len(new) < room THEN Len(new) ELSE room BY <1>2
<1>4. n <= Len(new) BY <1>2, <1>3
<1>5. SubSeq(new, 1, n) \in Seq(Keys)
  <2>1. \A i \in 1..n : new[i] \in Keys
    <3>1. SUFFICES ASSUME NEW i \in 1..n PROVE new[i] \in Keys OBVIOUS
    <3>2. i \in 1..Len(new) BY <1>2, <1>4
    <3> QED BY <1>2, <3>2, ElementOfSeq
  <2> QED BY <1>2, <1>4, <2>1, SubSeqProperties
<1> QED BY <1>3, <1>5

LEMMA DiscoveredReads ==
    ASSUME Reading, NEW t \in Tabs, Discovered(t)
    PROVE  Reading'
<1> DEFINE known(l) == {lanes[l].targets[i].key : i \in DOMAIN lanes[l].targets}
           new(l, shown) == Only(Found[l], {i \in 1..shown : Found[l][i] \notin known(l)})
           room(l) == MAX_TARGETS - Len(lanes[l].targets)
           fits(l, shown) == SubSeq(new(l, shown), 1,
                                IF Len(new(l, shown)) < room(l) THEN Len(new(l, shown)) ELSE room(l))
<1>1. /\ sweep' = sweep /\ own' = own /\ closed' = closed /\ job' = job /\ draft' = draft
      /\ todo' = todo /\ delivered' = delivered /\ doc[t].pc = "ready" /\ doc[t].key \in Discovery /\ Free
      /\ \/ \E l \in LaneSet : \E shown \in 0..Len(Found[l]) :
               /\ Holds(l, t, FALSE) /\ doc' = [doc EXCEPT ![t].pc = "found"]
               /\ Save(l, WithMore(lanes[l], fits(l, shown),
                                   lanes[l].truncated \/ Len(fits(l, shown)) < Len(new(l, shown))))
         \/ Stood(t) /\ lanes' = lanes
  BY DEF Discovered, Owners, Become, StoreOnly, WithMore
<1>2. Grows /\ SweepRight' /\ OwnRight' /\ DocsRight /\ TaskRight BY <1>1, TaskFacts DEF Reading
<1>3. CASE Stood(t) /\ lanes' = lanes
  <2>1. DocsRight' /\ \A u \in Tabs : Quieter(u) BY <1>2, <1>3, StoodDocuments
  <2>2. TaskRight' BY <1>1, <1>2, TaskStays
  <2> QED BY <1>1, <1>2, <1>3, <2>1, <2>2, SameLanes
<1>4. ASSUME NEW l \in LaneSet, NEW shown \in 0..Len(Found[l]),
             Holds(l, t, FALSE), doc' = [doc EXCEPT ![t].pc = "found"],
             Save(l, WithMore(lanes[l], fits(l, shown), lanes[l].truncated \/ Len(fits(l, shown)) < Len(new(l, shown))))
      PROVE  Reading'
  <2>1. PICK L : L = lanes[l] OBVIOUS
  <2>2. TrueLane(L) /\ HasTarget(L) /\ L \in Lane /\ Len(L.targets) \in Nat
    <3>1. TrueLane(L) BY <2>1, LanesAreTrue
    <3>2. HasTarget(L) BY <1>4, <2>1 DEF Holds, Authorized
    <3> QED BY <3>1, <3>2, LaneFields DEF TrueLane, KnownLane
  <2>3. PICK list : list = fits(l, shown) OBVIOUS
  <2>4. list \in Seq(Keys)
    <3>1. PICK I : I = {i \in 1..shown : Found[l][i] \notin known(l)} OBVIOUS
    <3>2. Len(Found[l]) \in Nat BY LaneConstants, LenProperties
    <3>3. I \in SUBSET (1..Len(Found[l])) BY <3>1, <3>2
    <3>4. PICK n : n = Only(Found[l], I) OBVIOUS
    <3>5. PICK r \in Int : r = MAX_TARGETS - Len(L.targets)
      <4>1. PICK m \in Nat, k \in Nat : m = MAX_TARGETS /\ k = Len(L.targets) BY <2>2, LaneConstants
      <4>2. m - k \in Int BY ONLY m \in Nat, k \in Nat
      <4> QED BY <4>1, <4>2
    <3>6. r = room(l) BY <2>1, <3>5
    <3>7. SubSeq(n, 1, IF Len(n) < r THEN Len(n) ELSE r) \in Seq(Keys) BY <3>3, <3>4, DepartmentsAreKeys
    <3> QED BY <2>3, <3>1, <3>4, <3>7, <3>6
  <2>5. PICK cut \in BOOLEAN : cut = (lanes[l].truncated \/ Len(fits(l, shown)) < Len(new(l, shown)))
    OBVIOUS
  <2>6. PICK R : R = WithMore(L, list, cut) OBVIOUS
  <2> HIDE DEF fits, new, room, known
  <2>7. /\ TrueLane(R) /\ R.tab = L.tab /\ R.gen = L.gen /\ HasTarget(R) /\ Current(R) = Current(L)
    BY ONLY <2>2, <2>4, cut \in BOOLEAN, <2>6, DiscoveredAreTrue
  <2>8. Save(l, R) BY <1>4, <2>1, <2>3, <2>5, <2>6
  <2>9. Continues(R, l) BY <2>1, <2>7 DEF Continues, Follows
  <2>10. DocsRight' /\ \A u \in Tabs : Quieter(u)
    <3>1. PICK o : o = doc[t] OBVIOUS
    <3>2. DocsRight /\ TrueDocument(o) /\ o \in Document /\ doc \in [Tabs -> Document] /\ o.pc \in Given
      BY <1>1, <1>2, <3>1 DEF DocsRight, Given
    <3>3. PICK d : d = [o EXCEPT !.pc = "found"] OBVIOUS
    <3>4. d \in Document /\ d.gen = o.gen /\ d.key = o.key /\ d.pc = "found" BY ONLY <3>2, <3>3, Names
    <3>5. TrueDocument(d) BY <1>1, <3>1, <3>2, <3>4 DEF TrueDocument, Given
    <3>6. doc' = [doc EXCEPT ![t] = d] BY <1>4, <3>1, <3>2, <3>3
    <3> QED BY <1>2, <3>1, <3>2, <3>4, <3>5, <3>6, DocumentTurns
  <2> QED BY <1>1, <1>2, <2>7, <2>8, <2>9, <2>10, SavedFree
<1> QED BY <1>1, <1>3, <1>4

(* A selection's control is used, and where it leads is reported.          *)
LEMMA SelectReads ==
    ASSUME Reading, NEW t \in Tabs, Select(t)
    PROVE  Reading'
<1>1. /\ lanes' = lanes /\ sweep' = sweep /\ own' = own /\ closed' = closed /\ job' = job /\ draft' = draft
      /\ todo' = todo /\ delivered' = delivered /\ doc[t].pc = "ready"
      /\ doc' = [doc EXCEPT ![t].pc = "chosen", ![t].url = Dest[doc[t].key]]
  BY DEF Select, storage, worker, ghosts
<1>2. DocsRight /\ TaskRight /\ TrueDocument(doc[t]) /\ doc \in [Tabs -> Document]
  BY DEF Reading, DocsRight
<1>3. Grows /\ SweepRight' /\ OwnRight' /\ TaskRight' BY <1>1, <1>2, TaskFacts, TaskStays
<1>4. PICK o : o = doc[t] OBVIOUS
<1>5. o \in Document /\ o.key \in Keys BY <1>1, <1>2, <1>4 DEF TrueDocument, Given
<1>6. PICK url \in Urls : url = Dest[o.key] BY <1>5, LaneConstants
<1>7. PICK d : d = [o EXCEPT !.pc = "chosen", !.url = url] OBVIOUS
<1>8. /\ d \in Document /\ d.gen = o.gen /\ d.key = o.key /\ d.url = url /\ d.pc = "chosen"
  BY ONLY <1>5, <1>7, url \in Urls, Names
<1>9. TrueDocument(d) BY <1>5, <1>6, <1>8 DEF TrueDocument, Given
<1>10. doc' = [doc EXCEPT ![t] = d] BY <1>1, <1>2, <1>4, <1>6, <1>7
<1>11. DocsRight' /\ \A u \in Tabs : Quieter(u)
  BY <1>2, <1>3, <1>4, <1>8, <1>9, <1>10, DocumentTurns
<1> QED BY <1>1, <1>3, <1>11, SameLanes

LEMMA SelectedReads ==
    ASSUME Reading, NEW t \in Tabs, Selected(t)
    PROVE  Reading'
<1>1. /\ lanes' = lanes /\ own' = own /\ closed' = closed /\ todo' = todo /\ delivered' = delivered
      /\ Free /\ doc[t].pc = "chosen"
      /\ \/ \E m, l \in LaneSet :
               /\ own[m] = t /\ Holds(m, t, TRUE) /\ Current(lanes[m]).sel /\ own[l] = t /\ Swept(t)
               /\ \/ /\ Bound(lanes[l], doc[t].url) /\ Hold("save", l, Advance(lanes[l], "duplicate"))
                     /\ doc' = doc
                  \/ /\ Hold("saveBound", l, WithArrived(lanes[l], doc[t].url))
                     /\ doc' = [doc EXCEPT ![t].pc = "ready"]
         \/ Stood(t) /\ job' = job /\ draft' = draft /\ sweep' = sweep
  BY DEF Selected, Owners, Become, StoreOnly, WithArrived
<1>2. Grows /\ OwnRight' /\ DocsRight /\ TaskRight /\ SweepRight BY <1>1, TaskFacts DEF Reading
<1>3. CASE Stood(t) /\ job' = job /\ draft' = draft /\ sweep' = sweep
  <2>1. DocsRight' /\ (\A u \in Tabs : Quieter(u)) /\ SweepRight'
    BY <1>1, <1>2, <1>3, StoodDocuments, TaskFacts
  <2>2. TaskRight' BY <1>1, <1>2, <1>3, TaskStays
  <2> QED BY <1>1, <1>2, <1>3, <2>1, <2>2, SameLanes
<1>4. ASSUME NEW m \in LaneSet, NEW l \in LaneSet,
             own[m] = t, Holds(m, t, TRUE), Current(lanes[m]).sel, own[l] = t, Swept(t),
             \/ /\ Bound(lanes[l], doc[t].url) /\ Hold("save", l, Advance(lanes[l], "duplicate"))
                /\ doc' = doc
             \/ /\ Hold("saveBound", l, WithArrived(lanes[l], doc[t].url))
                /\ doc' = [doc EXCEPT ![t].pc = "ready"]
      PROVE  Reading'
  <2>1. m = l BY <1>4, OneOwner
  <2>2. SweepRight' BY <1>1, <1>4, TaskFacts
  <2>3. PICK selecting \in BOOLEAN : selecting = TRUE OBVIOUS
  <2>4. PICK L : L = lanes[l] OBVIOUS
  <2>5. /\ TrueLane(L) /\ HasTarget(L) /\ L.tab = t /\ doc[t].key = Current(L).key /\ doc[t].key \in Keys
        /\ Current(L).sel
    <3>1. Holds(l, t, selecting) /\ doc[t].pc \in Given BY <1>1, <1>4, <2>1, <2>3 DEF Given
    <3>2. Current(L).sel BY <1>4, <2>1, <2>4
    <3> QED BY <2>4, <3>1, <3>2, HolderKnows
  <2>6. doc[t].url = Dest[Current(L).key] BY <1>1, <1>2, <2>5 DEF DocsRight, TrueDocument
  <2>7. CASE /\ Bound(lanes[l], doc[t].url) /\ Hold("save", l, Advance(lanes[l], "duplicate"))
             /\ doc' = doc
    <3>1. \E j \in 1..Len(L.targets) : j # L.cursor /\ StandsFor(L.targets[j], Current(L))
      <4>1. DOMAIN L.targets = 1..Len(L.targets) BY <2>5, LaneFields DEF TrueLane
      <4> QED BY <2>4, <2>6, <2>7, <4>1 DEF Bound, StandsFor
    <3>2. PICK done \in {"complete", "unresolved", "duplicate"} : done = "duplicate" OBVIOUS
    <3>3. PICK A : A = Advance(L, done) OBVIOUS
    <3>4. TrueLane(A) /\ Continues(A, l) BY <2>4, <2>5, <3>1, <3>2, <3>3, AdvanceContinues
    <3>5. PICK pc \in Plain : pc = "save" BY DEF Plain
    <3>6. Hold(pc, l, A) BY <2>4, <2>7, <3>2, <3>3, <3>5
    <3>7. DocsRight' /\ \A u \in Tabs : Quieter(u) BY <1>1, <2>7, TaskFacts
    <3> QED BY <1>1, <1>2, <2>2, <3>4, <3>6, <3>7, HeldFree
  <2>8. CASE /\ Hold("saveBound", l, WithArrived(lanes[l], doc[t].url))
             /\ doc' = [doc EXCEPT ![t].pc = "ready"]
    <3>1. PICK url : url = Dest[Current(L).key] OBVIOUS
    <3>2. PICK R : R = WithArrived(L, url) OBVIOUS
    <3>3. /\ TrueLane(R) /\ R.tab = L.tab /\ R.gen = L.gen
          /\ HasTarget(R) /\ Current(R).key = Current(L).key
      <4>1. TrueLane(L) /\ HasTarget(L) /\ Current(L).sel BY <2>5
      <4> QED BY <3>1, <3>2, <4>1, ArrivedIsTrue
    <3>4. Continues(R, l) BY <2>4, <3>3 DEF Continues, Follows
    <3>5. PICK pc \in Plain : pc = "saveBound" BY DEF Plain
    <3>6. Hold(pc, l, R) BY <2>4, <2>6, <2>8, <3>1, <3>2, <3>5
    <3>7. DocsRight' /\ \A u \in Tabs : Quieter(u) BY <1>1, <1>2, <2>8, TurnsReady DEF Given
    <3> QED BY <1>1, <1>2, <2>2, <3>3, <3>4, <3>6, <3>7, HeldFree
  <2> QED BY <1>4, <2>7, <2>8
<1> QED BY <1>1, <1>3, <1>4

LEMMA UnusableReads ==
    ASSUME Reading, NEW t \in Tabs, Unusable(t)
    PROVE  Reading'
<1>1. /\ own' = own /\ closed' = closed /\ todo' = todo /\ delivered' = delivered /\ Free
      /\ \E l \in LaneSet :
            /\ HasTarget(lanes[l])
            /\ \/ Swept(t) /\ Hold("save", l, Fail(lanes[l])) /\ lanes' = lanes /\ doc' = doc
               \/ /\ Save(l, Fail(lanes[l])) /\ doc' = Told(lanes[l])
                  /\ sweep' = sweep /\ job' = job /\ draft' = draft
  BY DEF Unusable, Owners, Holds, Authorized, Unseen
<1>2. Grows /\ OwnRight' BY <1>1, TaskFacts
<1>3. PICK l \in LaneSet :
            /\ HasTarget(lanes[l])
            /\ \/ Swept(t) /\ Hold("save", l, Fail(lanes[l])) /\ lanes' = lanes /\ doc' = doc
               \/ /\ Save(l, Fail(lanes[l])) /\ doc' = Told(lanes[l])
                  /\ sweep' = sweep /\ job' = job /\ draft' = draft
  BY <1>1
<1>4. PICK L : L = lanes[l] OBVIOUS
<1>5. PICK F : F = Fail(L) OBVIOUS
<1>6. TrueLane(F) /\ Continues(F, l) BY <1>3, <1>4, <1>5, FailContinues
<1>7. CASE Swept(t) /\ Hold("save", l, Fail(lanes[l])) /\ lanes' = lanes /\ doc' = doc
  <2>1. DocsRight' /\ (\A u \in Tabs : Quieter(u)) /\ SweepRight' BY <1>1, <1>7, TaskFacts
  <2>2. PICK pc \in Plain : pc = "save" BY DEF Plain
  <2>3. Hold(pc, l, F) BY <1>4, <1>5, <1>7, <2>2
  <2> QED BY <1>1, <1>2, <1>6, <1>7, <2>1, <2>3, HeldFree
<1>8. CASE /\ Save(l, Fail(lanes[l])) /\ doc' = Told(lanes[l])
           /\ sweep' = sweep /\ job' = job /\ draft' = draft
  <2>1. DocsRight' /\ (\A u \in Tabs : Quieter(u)) /\ SweepRight' BY <1>1, <1>8, TaskFacts
  <2>2. Save(l, F) BY <1>4, <1>5, <1>8
  <2> QED BY <1>1, <1>2, <1>6, <1>8, <2>1, <2>2, SavedFree
<1> QED BY <1>3, <1>7, <1>8

-----------------------------------------------------------------------------
(* The browser, its user and the rest of the extension                     *)

(* Settings, the pause, and a tick that begins change no lane.             *)
LEMMA OutsideReads ==
    ASSUME Reading, BotCheck \/ Resume \/ \E l \in LaneSet : Toggle(l) \/ Reconfigure(l)
    PROVE  Reading'
<1>1. /\ lanes' = lanes /\ sweep' = sweep /\ own' = own /\ doc' = doc /\ closed' = closed /\ job' = job
      /\ draft' = draft /\ todo' = todo /\ delivered' = delivered
  BY DEF BotCheck, Resume, Toggle, Reconfigure, storage, browser, worker, ghosts
<1>2. TaskRight' BY <1>1, TaskStays DEF Reading
<1> QED BY <1>1, <1>2, TaskFacts, SameLanes

(* All documents are gone, or have lost their role.                        *)
LEMMA DocumentsQuiet ==
    ASSUME DocsRight, Grows, NEW N \in [Tabs -> Document], doc' = N,
           \A t \in Tabs : N[t] = doc[t] \/ (TrueDocument(N[t]) /\ N[t].gen = 0 /\ N[t].key = NoName)
    PROVE  DocsRight' /\ \A t \in Tabs : Quieter(t)
<1>1. \A u \in Tabs : TrueDocument(doc[u])'
  <2>1. SUFFICES ASSUME NEW u \in Tabs PROVE TrueDocument(doc[u])' OBVIOUS
  <2>2. PICK e : e = N[u] OBVIOUS
  <2>3. TrueDocument(e) BY <2>2 DEF DocsRight
  <2>4. TrueDocument(e)' BY <2>3, DocumentsStayTrue
  <2> QED BY <2>2, <2>4
<1> QED BY <1>1 DEF DocsRight, Quieter

LEMMA CloseTabReads ==
    ASSUME Reading, NEW t \in Tabs, CloseTab(t)
    PROVE  Reading'
<1>1. /\ lanes' = lanes /\ sweep' = sweep /\ own' = own /\ job' = job /\ draft' = draft /\ todo' = todo
      /\ delivered' = delivered /\ doc' = [doc EXCEPT ![t] = NoDocument] /\ closed' = closed \union {t}
  BY DEF CloseTab, storage, worker, ghosts
<1>2. /\ Grows /\ SweepRight' /\ DocsRight /\ TaskRight /\ OwnRight BY <1>1, TaskFacts DEF Reading
<1>3. TaskRight' BY <1>1, <1>2, TaskStays
<1>4. PICK d : d = NoDocument OBVIOUS
<1>5. DocsRight' /\ \A u \in Tabs : Quieter(u) BY <1>1, <1>2, <1>4, BlankIsTrue, DocumentTurns
<1>6. OwnRight' BY <1>1, <1>2 DEF OwnRight
<1> QED BY <1>1, <1>2, <1>3, <1>5, <1>6, SameLanes

(* The service worker stops, alone or with the browser.                    *)
LEMMA NoTicks == todo' = [k \in Ticks |-> <<>>] => todo' \in [Ticks -> Seq(LaneSet)]
BY EmptySeq

LEMMA WorkerStopsReads ==
    ASSUME Reading, WorkerStops
    PROVE  Reading'
<1>1. /\ lanes' = lanes /\ sweep' = sweep /\ own' = own /\ doc' = doc /\ closed' = closed
      /\ delivered' = delivered /\ Release /\ todo' = [k \in Ticks |-> <<>>]
  BY DEF WorkerStops, storage, browser
<1> QED BY <1>1, NoTicks, TaskFacts, JustReleased

LEMMA BrowserStopsReads ==
    ASSUME Reading, BrowserStops
    PROVE  Reading'
<1>1. /\ lanes' = lanes /\ sweep' = sweep /\ own' = [l \in LaneSet |-> NoTab] /\ closed' = {}
      /\ doc' = [t \in Tabs |-> NoDocument]
      /\ delivered' = delivered /\ Release /\ todo' = [k \in Ticks |-> <<>>]
  BY DEF BrowserStops
<1>2. Grows /\ SweepRight' /\ DocsRight BY <1>1, TaskFacts DEF Reading
<1>3. PICK N : N = [t \in Tabs |-> NoDocument] OBVIOUS
<1>4. \A t \in Tabs : N[t] = NoDocument BY <1>3
<1>5. N \in [Tabs -> Document] BY <1>3, BlankIsTrue DEF TrueDocument
<1>6. DocsRight' /\ \A t \in Tabs : Quieter(t) BY <1>1, <1>2, <1>3, <1>4, <1>5, BlankIsTrue, DocumentsQuiet
<1>7. OwnRight' BY <1>1 DEF OwnRight
<1> QED BY <1>1, <1>2, <1>6, <1>7, NoTicks, JustReleased

(* A restart asked for by a command.                                       *)
LEMMA RestartReads ==
    ASSUME ScanTypes, Reading, NEW l \in LaneSet, Restart(l)
    PROVE  Reading'
<1> DEFINE R == Retain(lanes[l])
           B == [R EXCEPT !.targets[R.cursor].cov = "unresolved"]
<1>1. /\ lanes' = lanes /\ own' = own /\ doc' = doc /\ closed' = closed /\ todo' = todo
      /\ delivered' = delivered /\ Free /\ Swept(R.tab)
      /\ \/ HasTarget(R) /\ Hold("save", l, FreshLane(l, B))
         \/ Hold("save", l, FreshLane(l, R))
  BY DEF Restart, browser, Unseen
<1>2. Grows /\ OwnRight' /\ DocsRight' /\ (\A u \in Tabs : Quieter(u)) /\ SweepRight' BY <1>1, TaskFacts
<1>3. PICK L, K : L = lanes[l] /\ K = R OBVIOUS
<1>4. /\ TrueLane(L) /\ TrueLane(K) /\ K.tab = L.tab /\ K.gen = L.gen /\ L.gen \in Nat
  <2>1. TrueLane(L) /\ (\A t \in Tabs : TrueReceipt(sweep[t])) /\ L.gen \in Nat BY <1>3, LanesAreTrue
  <2>2. K = Retain(L) BY <1>3
  <2>3. TrueLane(K) /\ SameWork(K, L) BY <2>1, <2>2, RetainIsTrue
  <2> QED BY <2>1, <2>3 DEF SameWork
<1>5. ASSUME NEW U, TrueLane(U), U.tab = L.tab, U.gen = L.gen, Hold("save", l, FreshLane(l, U))
      PROVE  Reading'
  <2>1. PICK F : F = FreshLane(l, U) OBVIOUS
  <2>2. TrueLane(F) /\ F.tab = U.tab /\ F.gen = U.gen + 1 BY <1>5, <2>1, FreshIsTrue
  <2>3. Follows(F, L) BY <1>4, <1>5, <2>2 DEF Follows
  <2>4. Continues(F, l) BY <1>3, <2>3 DEF Continues
  <2>5. PICK pc \in Plain : pc = "save" BY DEF Plain
  <2>6. Hold(pc, l, F) BY <1>5, <2>1, <2>5
  <2> QED BY <1>1, <1>2, <2>2, <2>4, <2>6, HeldFree
<1>6. CASE HasTarget(R) /\ Hold("save", l, FreshLane(l, B))
  <2>1. PICK U : U = [K EXCEPT !.targets[K.cursor].cov = "unresolved"] OBVIOUS
  <2>2. TrueLane(U) /\ U.tab = K.tab /\ U.gen = K.gen BY <1>3, <1>4, <1>6, <2>1, BegunIsTrue
  <2>3. Hold("save", l, FreshLane(l, U)) BY <1>3, <1>6, <2>1
  <2> QED BY <1>4, <1>5, <2>2, <2>3
<1>7. CASE Hold("save", l, FreshLane(l, R)) BY <1>3, <1>4, <1>5, <1>7
<1> QED BY <1>1, <1>6, <1>7

(* A bot check suspends every lane that runs.                              *)
LEMMA PauseReads ==
    ASSUME Reading, Pause
    PROVE  Reading'
<1> DEFINE quieted(t) == IF \E l \in LaneSet : lanes[l].tab = t /\ doc[t].pc \notin {"none", "blank"}
                         THEN [doc[t] EXCEPT !.pc = "idle", !.gen = 0, !.key = NoName] ELSE doc[t]
           kept(l) == IF l \in Running THEN Suspend(lanes[l], "paused", 0) ELSE lanes[l]
<1>1. /\ sweep' = sweep /\ own' = own /\ closed' = closed /\ draft' = draft /\ todo' = todo
      /\ delivered' = delivered /\ Free
      /\ lanes' = [l \in LaneSet |-> kept(l)] /\ doc' = [t \in Tabs |-> quieted(t)]
      /\ job' = [pc |-> "wiping", lane |-> NoName, old |-> NoTab]
  BY DEF Pause, Unseen, NoName
<1>2. Grows /\ SweepRight' /\ OwnRight' /\ DocsRight /\ LanesRight /\ TaskRight BY <1>1, TaskFacts DEF Reading
<1>3. DocsRight' /\ \A t \in Tabs : Quieter(t)
  <2>1. PICK N : N = [t \in Tabs |-> quieted(t)] OBVIOUS
  <2>2. \A t \in Tabs : /\ N[t] \in Document
                        /\ N[t] = doc[t] \/ (TrueDocument(N[t]) /\ N[t].gen = 0 /\ N[t].key = NoName)
    <3>1. SUFFICES ASSUME NEW t \in Tabs
                   PROVE  /\ N[t] \in Document
                          /\ N[t] = doc[t] \/ (TrueDocument(N[t]) /\ N[t].gen = 0 /\ N[t].key = NoName)
      OBVIOUS
    <3>2. PICK o : o = doc[t] OBVIOUS
    <3>3. TrueDocument(o) BY <1>2, <3>2 DEF DocsRight
    <3>4. PICK d : d = Idled(o) OBVIOUS
    <3>5. TrueDocument(d) /\ d.gen = 0 /\ d.key = NoName BY <3>3, <3>4, IdledIsTrue
    <3>6. N[t] = o \/ N[t] = d BY <2>1, <3>2, <3>4 DEF Idled
    <3> QED BY <3>2, <3>3, <3>5, <3>6 DEF TrueDocument
  <2>3. N \in [Tabs -> Document]
    <3>1. DOMAIN N = Tabs /\ N = [t \in Tabs |-> N[t]] BY <2>1
    <3> QED BY <2>2, <3>1
  <2> QED BY <1>1, <1>2, <2>1, <2>2, <2>3, DocumentsQuiet
<1>4. PICK N : N = [l \in LaneSet |-> kept(l)] OBVIOUS
<1>5. ASSUME NEW m \in LaneSet PROVE TrueLane(N[m]) /\ Continues(N[m], m) /\ N[m] \in Lane
  <2>1. CASE m \in Running
    <3>1. PICK status \in Statuses, wait \in Nat : status = "paused" /\ wait = 0 BY DEF Statuses
    <3>2. PICK L : L = lanes[m] OBVIOUS
    <3>3. PICK S : S = Suspend(L, status, wait) OBVIOUS
    <3>4. status # "scanning" /\ status # "complete" BY <3>1
    <3>5. TrueLane(S) /\ Continues(S, m) BY <3>2, <3>3, <3>4, SuspendedContinues
    <3>6. N[m] = S BY <1>4, <2>1, <3>1, <3>2, <3>3
    <3> QED BY <3>5, <3>6 DEF TrueLane, KnownLane
  <2>2. CASE m \notin Running
    <3>1. N[m] = lanes[m] BY <1>4, <2>2
    <3> QED BY <3>1, LanesAreTrue DEF Continues, Follows
  <2> QED BY <2>1, <2>2
<1>6. N \in [LaneSet -> Lane]
  <2>1. DOMAIN N = LaneSet /\ N = [m \in LaneSet |-> N[m]] BY <1>4
  <2> QED BY <1>5, <2>1
<1>7. PICK D : D = Absent OBVIOUS
<1>8. draft' = D BY <1>1, <1>2, <1>7 DEF TaskRight, TrueJob, Free
<1>9. LanesRight' BY <1>1, <1>2, <1>3, <1>4, <1>5, <1>6, <1>7, <1>8, AbsentIsTrue, LanesMove
<1>10. TaskRight'
  <2>1. "wiping" \in Steps BY DEF Steps
  <2>2. job' \in [pc : Steps, lane : LaneSet \union {NoName}, old : Tabs \union {NoTab}] /\ job'.pc = "wiping"
    BY <1>1, <2>1
  <2> QED BY <1>1, <1>2, <1>7, <1>8, <2>2 DEF TaskRight, TrueJob
<1> QED BY <1>2, <1>3, <1>9, <1>10 DEF Reading

(* Time passes.                                                            *)
LEMMA ElapseReads ==
    ASSUME Reading, Elapse
    PROVE  Reading'
<1>1. /\ sweep' = sweep /\ own' = own /\ doc' = doc /\ closed' = closed /\ job' = job /\ draft' = draft
      /\ todo' = todo /\ delivered' = delivered /\ Free
      /\ lanes' = [l \in LaneSet |-> [lanes[l] EXCEPT !.wait = Left(@)]]
  BY DEF Elapse, browser, worker
<1>2. /\ Grows /\ SweepRight' /\ OwnRight' /\ DocsRight /\ LanesRight /\ TaskRight
      /\ DocsRight' /\ \A t \in Tabs : Quieter(t)
  BY <1>1, TaskFacts DEF Reading
<1>3. PICK N : N = lanes' OBVIOUS
<1>4. ASSUME NEW m \in LaneSet PROVE TrueLane(N[m]) /\ Continues(N[m], m) /\ N[m] \in Lane
  <2>1. PICK L : L = lanes[m] OBVIOUS
  <2>2. TrueLane(L) /\ L \in Lane /\ L.gen \in Nat BY <2>1, LanesAreTrue
  <2>3. L.wait \in Nat /\ L.status \in Statuses BY <2>2 DEF Lane
  <2>4. Left(L.wait) \in Nat BY <2>3 DEF Left
  <2>5. PICK gen \in Nat, wait \in Nat, status \in Statuses :
           gen = L.gen /\ wait = Left(L.wait) /\ status = L.status
    BY <2>2, <2>3, <2>4
  <2>6. PICK T : T = Turned(L, gen, wait, status) OBVIOUS
  <2>7. gen >= L.gen BY <2>2, <2>5
  <2>8. TrueLane(T) /\ Continues(T, m) BY <2>1, <2>5, <2>6, <2>7, TurnedContinues
  <2>9. [L EXCEPT !.wait = Left(@)] = T BY <2>2, <2>5, <2>6 DEF Turned, Lane
  <2>10. N[m] = T BY <1>1, <1>3, <2>1, <2>9
  <2> QED BY <2>8, <2>10 DEF TrueLane, KnownLane
<1>5. N \in [LaneSet -> Lane]
  <2>1. DOMAIN N = LaneSet /\ N = [m \in LaneSet |-> N[m]] BY <1>1, <1>3
  <2> QED BY <1>4, <2>1
<1>6. PICK D : D = Absent OBVIOUS
<1>7. draft' = D BY <1>1, <1>2, <1>6 DEF TaskRight, TrueJob, Free
<1>8. LanesRight' BY <1>2, <1>3, <1>4, <1>5, <1>6, <1>7, AbsentIsTrue, LanesMove
<1>9. TaskRight' BY <1>1, <1>2, TaskStays
<1> QED BY <1>2, <1>8, <1>9 DEF Reading

-----------------------------------------------------------------------------
(* What a step may change                                                  *)

(* Clocks, the task under the lock, the ticks' lanes, page loads, the      *)
(* settings, failures and deliveries: who changes them, and how.           *)
Ticking == TickSteps \union {"saveOn"}
Clocks == UNCHANGED <<lastLane, pace, quiet, passed>>
ClocksMove == Clocks \/ CheckStart \/ Navigate \/ Elapse \/ \E k \in Ticks : Begin(k)
TaskGoesOn ==
    /\ job.pc \in Ticking /\ job'.lane = job.lane
    /\ job'.pc = "stamped" => pace = 0
    /\ job'.pc = "checked" => job.pc = "stamped"
    /\ job'.pc = "navigate" => job.pc = "checked" /\ lastLane' = job.lane /\ pace' = SPACING
TaskMoves == job' = job \/ job'.pc \notin Ticking \/ TaskGoesOn \/ \E k \in Ticks : Begin(k)
TicksMove == todo' = todo \/ todo' = [k \in Ticks |-> <<>>] \/ \E k \in Ticks : StartTick(k) \/ Begin(k)
NothingLoads == \A t \in Tabs : doc'[t].pc = "loaded" => doc[t].pc = "loaded"
WorldMoves == world' = world \/ BotCheck \/ Resume \/ \E l \in LaneSet : Toggle(l) \/ Reconfigure(l)
FaultsMove == faults' = faults \/ Fault
PagesMove == delivered' = delivered \/ \E t \in Tabs : Send(t)
StepMoves ==
    ClocksMove /\ TaskMoves /\ TicksMove /\ (NothingLoads \/ Navigate) /\ WorldMoves /\ FaultsMove /\ PagesMove

(* A document that says something loads nothing.                           *)
LEMMA SayingLoadsNothing ==
    ASSUME DocsRight, NEW t \in Tabs, NEW d, d.pc # "loaded", doc' = [doc EXCEPT ![t] = d]
    PROVE  NothingLoads
BY DEF DocsRight, NothingLoads

LEMMA StoodLoadsNothing ==
    ASSUME DocsRight, NEW t \in Tabs, Stood(t)
    PROVE  NothingLoads
<1>1. doc \in [Tabs -> Document] BY DEF DocsRight
<1>2. PICK o : o = doc[t] OBVIOUS
<1>3. PICK d : d = Idled(o) OBVIOUS
<1>4. d.pc = "idle"
  <2>1. TrueDocument(o) BY <1>2 DEF DocsRight
  <2> QED BY <1>3, <2>1, IdledIsTrue
<1>5. doc' = [doc EXCEPT ![t].pc = "idle", ![t].gen = 0, ![t].key = NoName] BY DEF Stood, NoName
<1>6. doc' = [doc EXCEPT ![t] = d] BY <1>1, <1>2, <1>3, <1>5, Names DEF Idled
<1> QED BY <1>4, <1>6, SayingLoadsNothing

LEMMA ToldLoadsNothing ==
    ASSUME DocsRight, NEW L, doc' = Told(L)
    PROVE  NothingLoads
<1>1. CASE L.tab \in Tabs /\ doc[L.tab].pc \notin {"none", "blank"}
  <2>1. PICK t \in Tabs : t = L.tab BY <1>1
  <2>2. Stood(t) BY <1>1, <2>1 DEF Told, Stood
  <2> QED BY <2>2, StoodLoadsNothing
<1>2. CASE ~(L.tab \in Tabs /\ doc[L.tab].pc \notin {"none", "blank"})
  <2>1. doc' = doc BY <1>2 DEF Told
  <2> QED BY <2>1 DEF NothingLoads
<1> QED BY <1>1, <1>2

LEMMA SamePagesLoaded == doc' = doc => NothingLoads
BY DEF NothingLoads

LEMMA ReleasedTask == Release => job'.pc \notin Ticking
BY Names DEF Release, Ticking, TickSteps

LEMMA HeldTask ==
    ASSUME NEW pc, NEW l, NEW L, Hold(pc, l, L)
    PROVE  job'.pc = pc /\ job'.lane = l
BY DEF Hold

LEMMA GoneTask ==
    ASSUME TaskRight, NEW pc, Go(pc)
    PROVE  job'.pc = pc /\ job'.lane = job.lane
<1>1. job \in [pc : Steps, lane : LaneSet \union {NoName}, old : Tabs \union {NoTab}] BY DEF TaskRight
<1>2. job' = [job EXCEPT !.pc = pc] BY DEF Go
<1> QED BY <1>1, <1>2

(* The steps of a task.                                                    *)
LEMMA TurnMoves ==
    ASSUME Reading, Commit \/ Reserve \/ SaveOwner \/ DropOld \/ SaveTab \/ Due \/ StartTarget \/ SaveStart
    PROVE  StepMoves
<1>1. DocsRight /\ TaskRight BY DEF Reading
<1> USE DEF Unpaced, Unseen, At
<1>2. CASE Commit
  <2>1. /\ Clocks /\ todo' = todo /\ world' = world /\ faults' = faults /\ delivered' = delivered
    BY <1>2 DEF Commit, Clocks
  <2>2. NothingLoads BY <1>1, <1>2, ToldLoadsNothing, SamePagesLoaded DEF Commit
  <2>3. TaskMoves
    <3>1. CASE Release BY <3>1, ReleasedTask DEF TaskMoves
    <3>2. CASE job.pc = "saveOn" /\ Go("reserve")
      BY <1>1, <3>2, GoneTask DEF TaskMoves, TaskGoesOn, Ticking, TickSteps
    <3> QED BY <1>2, <3>1, <3>2 DEF Commit
  <2> QED BY <2>1, <2>2, <2>3 DEF StepMoves, ClocksMove, TicksMove, WorldMoves, FaultsMove, PagesMove
<1>3. CASE Reserve
  <2>1. /\ Clocks /\ todo' = todo /\ world' = world /\ faults' = faults /\ delivered' = delivered
    BY <1>3 DEF Reserve, Clocks
  <2>2. NothingLoads
    <3>1. PICK d : d = [NoDocument EXCEPT !.pc = "blank"] OBVIOUS
    <3>2. d.pc # "loaded"
      <4>1. NoDocument \in Document BY BlankIsTrue DEF TrueDocument
      <4> QED BY <3>1, <4>1, Names
    <3>3. doc' = doc \/ doc' = Told(draft) \/ \E t \in Tabs : doc' = [doc EXCEPT ![t] = d]
      BY <1>3, <3>1 DEF Reserve
    <3> QED BY <1>1, <3>2, <3>3, ToldLoadsNothing, SamePagesLoaded, SayingLoadsNothing
  <2>3. TaskMoves
    <3>1. CASE Release BY <3>1, ReleasedTask DEF TaskMoves
    <3>2. job.pc = "reserve" BY <1>3 DEF Reserve
    <3>3. CASE Go("due") BY <1>1, <3>2, <3>3, GoneTask DEF TaskMoves, TaskGoesOn, Ticking, TickSteps
    <3>4. CASE job' = [pc |-> "created", lane |-> job.lane, old |-> draft.tab]
      BY <3>2, <3>4 DEF TaskMoves, TaskGoesOn, Ticking, TickSteps
    <3> QED BY <1>3, <3>1, <3>3, <3>4 DEF Reserve
  <2> QED BY <2>1, <2>2, <2>3 DEF StepMoves, ClocksMove, TicksMove, WorldMoves, FaultsMove, PagesMove
<1>4. CASE SaveOwner \/ DropOld \/ SaveTab \/ SaveStart
  <2>1. /\ Clocks /\ todo' = todo /\ world' = world /\ faults' = faults /\ delivered' = delivered /\ doc' = doc
    BY <1>4 DEF SaveOwner, DropOld, SaveTab, SaveStart, Clocks, browser
  <2>2. TaskMoves
    <3>1. /\ job.pc \in Ticking
          /\ Go("owned") \/ Go("saveTab") \/ Go("due") \/ (job.pc = "stamped" /\ Go("checked"))
      BY <1>4 DEF SaveOwner, DropOld, SaveTab, SaveStart, Ticking, TickSteps
    <3> QED BY <1>1, <3>1, GoneTask DEF TaskMoves, TaskGoesOn
  <2> QED BY <2>1, <2>2, SamePagesLoaded DEF StepMoves, ClocksMove, TicksMove, WorldMoves, FaultsMove, PagesMove
<1>5. CASE Due
  <2>1. /\ Clocks /\ todo' = todo /\ world' = world /\ faults' = faults /\ delivered' = delivered
    BY <1>5 DEF Due, Clocks
  <2>2. NothingLoads
    <3>1. doc' = doc \/ doc' = Told(draft) BY <1>5 DEF Due
    <3> QED BY <1>1, <3>1, ToldLoadsNothing, SamePagesLoaded
  <2>3. TaskMoves
    <3>1. CASE Release BY <3>1, ReleasedTask DEF TaskMoves
    <3>2. CASE \E pc \in {"due", "save", "start"} : \E L : Hold(pc, job.lane, L)
      <4>1. job'.pc \in {"due", "save", "start"} /\ job'.lane = job.lane BY <3>2, HeldTask
      <4>2. job.pc = "due" BY <1>5 DEF Due
      <4> QED BY <4>1, <4>2 DEF TaskMoves, TaskGoesOn, Ticking, TickSteps
    <3>3. Release \/ \E pc \in {"due", "save", "start"} : \E L : Hold(pc, job.lane, L) BY <1>5 DEF Due
    <3> QED BY <3>1, <3>2, <3>3
  <2> QED BY <2>1, <2>2, <2>3 DEF StepMoves, ClocksMove, TicksMove, WorldMoves, FaultsMove, PagesMove
<1>6. CASE StartTarget
  <2>1. /\ Clocks /\ todo' = todo /\ world' = world /\ faults' = faults /\ delivered' = delivered /\ doc' = doc
    BY <1>6 DEF StartTarget, Clocks, browser
  <2>2. TaskMoves
    <3>1. /\ job.pc = "start"
          /\ \/ Release
             \/ Go("reserve")
             \/ pace = 0 /\ Hold("stamped", job.lane, Stamped(draft))
      BY <1>6 DEF StartTarget, Earliest
    <3> QED BY <1>1, <3>1, ReleasedTask, GoneTask, HeldTask DEF TaskMoves, TaskGoesOn, Ticking, TickSteps
  <2> QED BY <2>1, <2>2, SamePagesLoaded DEF StepMoves, ClocksMove, TicksMove, WorldMoves, FaultsMove, PagesMove
<1> QED BY <1>2, <1>3, <1>4, <1>5, <1>6

LEMMA CheckStartMoves ==
    ASSUME Reading, CheckStart
    PROVE  StepMoves
<1>1. DocsRight /\ TaskRight BY DEF Reading
<1>2. /\ job.pc = "checked" /\ todo' = todo /\ world' = world /\ faults' = faults /\ delivered' = delivered
  BY DEF CheckStart, At, Unseen
<1>3. \/ doc' = Told(draft) /\ Release
      \/ doc' = doc /\ lastLane' = job.lane /\ pace' = SPACING /\ Go("navigate")
  BY DEF CheckStart
<1>4. NothingLoads BY <1>1, <1>3, ToldLoadsNothing, SamePagesLoaded
<1>5. TaskMoves BY <1>1, <1>2, <1>3, ReleasedTask, GoneTask DEF TaskMoves, TaskGoesOn, Ticking, TickSteps
<1> QED BY <1>2, <1>4, <1>5 DEF StepMoves, ClocksMove, TicksMove, WorldMoves, FaultsMove, PagesMove

LEMMA NavigateMoves ==
    ASSUME Navigate
    PROVE  StepMoves
<1>1. /\ Release /\ todo' = todo /\ world' = world /\ faults' = faults /\ delivered' = delivered
  BY DEF Navigate, Unseen
<1> QED BY <1>1, ReleasedTask DEF StepMoves, ClocksMove, TaskMoves, TicksMove, WorldMoves, FaultsMove, PagesMove

LEMMA RemovalMoves ==
    ASSUME Reading, SaveRemoved \/ Sweep \/ Wipe
    PROVE  StepMoves
<1>1. TaskRight BY DEF Reading
<1>2. /\ Clocks /\ todo' = todo /\ world' = world /\ faults' = faults /\ delivered' = delivered /\ doc' = doc
      /\ Release \/ Go("sweeping")
  BY DEF SaveRemoved, Sweep, Wipe, Clocks, Unpaced, Unseen, browser
<1>3. TaskMoves BY <1>1, <1>2, ReleasedTask, GoneTask DEF TaskMoves, Ticking, TickSteps
<1> QED BY <1>2, <1>3, SamePagesLoaded DEF StepMoves, ClocksMove, TicksMove, WorldMoves, FaultsMove, PagesMove

LEMMA TickFailsMoves ==
    ASSUME Reading, TickFails
    PROVE  StepMoves
<1>1. /\ Clocks /\ todo' = todo /\ world' = world /\ Fault /\ delivered' = delivered /\ Release
  BY DEF TickFails, Clocks, Unpaced
<1>2. doc' = doc \/ \E L : doc' = Told(L) BY DEF TickFails
<1>3. NothingLoads BY <1>2, ToldLoadsNothing, SamePagesLoaded DEF Reading
<1>4. TaskMoves BY <1>1, ReleasedTask DEF TaskMoves
<1> QED BY <1>1, <1>3, <1>4 DEF StepMoves, ClocksMove, TicksMove, WorldMoves, FaultsMove, PagesMove

(* A document's own steps, and the messages it sends.                      *)
LEMMA SavedTask ==
    ASSUME NEW l, NEW L, NEW pc \in {"save", "saveBound"}, Hold(pc, l, L)
    PROVE  TaskMoves
<1>1. job'.pc = pc BY HeldTask
<1> QED BY <1>1 DEF TaskMoves, Ticking, TickSteps

LEMMA BecomesQuietly ==
    ASSUME DocsRight, NEW t \in Tabs,
           NEW pc \in {"acked", "ready", "found"}, Become(t, pc)
    PROVE  NothingLoads
<1>1. doc \in [Tabs -> Document] BY DEF DocsRight
<1>2. doc' = [doc EXCEPT ![t].pc = pc] BY DEF Become
<1>3. \A u \in Tabs : doc'[u].pc = "loaded" => doc[u].pc = "loaded" BY <1>1, <1>2, Names
<1> QED BY <1>3 DEF NothingLoads

LEMMA ReadingMoves ==
    ASSUME Reading, NEW t \in Tabs, AskRole(t) \/ Send(t) \/ Answer(t) \/ WriteReceipt(t) \/ Select(t)
    PROVE  StepMoves
<1>1. DocsRight BY DEF Reading
<1>2. /\ Clocks /\ todo' = todo /\ world' = world /\ faults' = faults /\ job' = job
      /\ delivered' = delivered \/ Send(t)
  BY DEF AskRole, Send, Answer, WriteReceipt, Select, Clocks, storage, ghosts, worker
<1>3. NothingLoads
  <2>1. doc \in [Tabs -> Document] BY <1>1 DEF DocsRight
  <2>2. CASE AskRole(t)
    <3>1. CASE Stood(t) BY <1>1, <3>1, StoodLoadsNothing
    <3>2. ASSUME NEW gen, NEW key, doc' = [doc EXCEPT ![t].pc = "ready", ![t].gen = gen, ![t].key = key]
          PROVE  NothingLoads
      BY <2>1, <3>2, Names DEF NothingLoads
    <3> QED BY <2>2, <3>1, <3>2 DEF AskRole
  <2>3. CASE Send(t)
    <3>1. CASE Stood(t) BY <1>1, <3>1, StoodLoadsNothing
    <3>2. ASSUME NEW p, doc' = [doc EXCEPT ![t].pc = "sent", ![t].page = p]
          PROVE  NothingLoads
      BY <2>1, <3>2, Names DEF NothingLoads
    <3> QED BY <2>3, <3>1, <3>2 DEF Send
  <2>4. CASE Answer(t) BY <1>1, <2>4, StoodLoadsNothing, BecomesQuietly DEF Answer
  <2>5. CASE WriteReceipt(t)
    <3>1. doc' = [doc EXCEPT ![t].pc = "written", ![t].page = 0] BY <2>5 DEF WriteReceipt
    <3> QED BY <2>1, <3>1, Names DEF NothingLoads
  <2>6. CASE Select(t)
    <3>1. PICK url : doc' = [doc EXCEPT ![t].pc = "chosen", ![t].url = url] BY <2>6 DEF Select
    <3> QED BY <2>1, <3>1, Names DEF NothingLoads
  <2> QED BY <2>2, <2>3, <2>4, <2>5, <2>6
<1> QED BY <1>2, <1>3 DEF StepMoves, ClocksMove, TaskMoves, TicksMove, WorldMoves, FaultsMove, PagesMove

LEMMA AnswerMoves ==
    ASSUME Reading, NEW t \in Tabs,
           ReportCheckpoint(t) \/ SweepComplete(t) \/ Discovered(t) \/ Selected(t) \/ Unusable(t)
    PROVE  StepMoves
<1>1. DocsRight BY DEF Reading
<1>2. /\ Clocks /\ todo' = todo /\ world' = world /\ delivered' = delivered
  BY DEF ReportCheckpoint, SweepComplete, Discovered, Selected, Unusable, StoreOnly, Clocks, Unseen
<1>3. faults' = faults \/ Fault
  BY DEF ReportCheckpoint, SweepComplete, Discovered, Selected, Unusable, StoreOnly
<1>4. NothingLoads
  <2>1. doc' = doc \/ Stood(t) \/ Become(t, "ready") \/ Become(t, "found") \/ \E L : doc' = Told(L)
    BY DEF ReportCheckpoint, SweepComplete, Discovered, Selected, Unusable
  <2> QED BY <1>1, <2>1, SamePagesLoaded, StoodLoadsNothing, BecomesQuietly, ToldLoadsNothing
<1>5. TaskMoves
  <2>1. job' = job \/ \E pc \in {"save", "saveBound"} : \E l, L : Hold(pc, l, L)
    BY DEF ReportCheckpoint, SweepComplete, Discovered, Selected, Unusable
  <2> QED BY <2>1, SavedTask DEF TaskMoves
<1> QED BY <1>2, <1>3, <1>4, <1>5 DEF StepMoves, ClocksMove, TicksMove, WorldMoves, FaultsMove, PagesMove

(* The browser, its user and the rest of the extension.                    *)
LEMMA OutsideMoves ==
    ASSUME Reading, BotCheck \/ Resume \/ \E l \in LaneSet : Toggle(l) \/ Reconfigure(l)
    PROVE  StepMoves
<1>1. /\ Clocks /\ job' = job /\ todo' = todo /\ doc' = doc /\ delivered' = delivered
      /\ faults' = faults \/ Fault
  BY DEF BotCheck, Resume, Toggle, Reconfigure, Clocks, storage, browser, worker, ghosts
<1> QED BY <1>1, SamePagesLoaded
        DEF StepMoves, ClocksMove, TaskMoves, TicksMove, WorldMoves, FaultsMove, PagesMove

LEMMA TabMoves ==
    ASSUME Reading, NEW t \in Tabs, CloseTab(t) \/ Removed(t)
    PROVE  StepMoves
<1>1. DocsRight /\ TaskRight BY DEF Reading
<1>2. /\ Clocks /\ todo' = todo /\ world' = world /\ delivered' = delivered
      /\ faults' = faults \/ Fault
  BY DEF CloseTab, Removed, Clocks, storage, worker, ghosts
<1>3. NothingLoads
  <2>1. CASE CloseTab(t)
    <3>1. doc' = [doc EXCEPT ![t] = NoDocument] BY <2>1 DEF CloseTab
    <3>2. NoDocument.pc # "loaded" BY Names
    <3> QED BY <1>1, <3>1, <3>2, SayingLoadsNothing
  <2>2. CASE Removed(t) BY <2>2, SamePagesLoaded DEF Removed
  <2> QED BY <2>1, <2>2
<1>4. TaskMoves
  <2>1. job' = job \/ \E l : job' = [pc |-> "unowned", lane |-> l, old |-> t]
    BY DEF CloseTab, Removed, worker
  <2>2. ASSUME NEW l, job' = [pc |-> "unowned", lane |-> l, old |-> t] PROVE job'.pc \notin Ticking
    BY <2>2 DEF Ticking, TickSteps
  <2> QED BY <2>1, <2>2 DEF TaskMoves
<1> QED BY <1>2, <1>3, <1>4 DEF StepMoves, ClocksMove, TicksMove, WorldMoves, FaultsMove, PagesMove

LEMMA StopMoves ==
    ASSUME WorkerStops \/ BrowserStops
    PROVE  StepMoves
<1>1. /\ Clocks /\ Release /\ world' = world /\ delivered' = delivered /\ Fault
      /\ todo' = [k \in Ticks |-> <<>>]
  BY DEF WorkerStops, BrowserStops, Clocks, storage
<1>2. NothingLoads
  <2>1. CASE WorkerStops BY <2>1, SamePagesLoaded DEF WorkerStops, browser
  <2>2. CASE BrowserStops
    <3>1. doc' = [t \in Tabs |-> NoDocument] BY <2>2 DEF BrowserStops
    <3>2. NoDocument.pc # "loaded" BY Names
    <3> QED BY <3>1, <3>2 DEF NothingLoads
  <2> QED BY <2>1, <2>2
<1> QED BY <1>1, <1>2, ReleasedTask
        DEF StepMoves, ClocksMove, TaskMoves, TicksMove, WorldMoves, FaultsMove, PagesMove

LEMMA RestartMoves ==
    ASSUME NEW l \in LaneSet, Restart(l)
    PROVE  StepMoves
<1>1. /\ Clocks /\ todo' = todo /\ world' = world /\ delivered' = delivered /\ Fault /\ doc' = doc
      /\ \E L : Hold("save", l, L)
  BY DEF Restart, Clocks, Unpaced, Unseen, browser
<1>2. TaskMoves BY <1>1, SavedTask
<1> QED BY <1>1, <1>2, SamePagesLoaded DEF StepMoves, ClocksMove, TicksMove, WorldMoves, FaultsMove, PagesMove

LEMMA PauseMoves ==
    ASSUME Reading, Pause
    PROVE  StepMoves
<1>1. /\ Clocks /\ todo' = todo /\ world' = world /\ delivered' = delivered /\ faults' = faults
      /\ job' = [pc |-> "wiping", lane |-> NoName, old |-> NoTab]
  BY DEF Pause, Clocks, Unpaced, Unseen, NoName
<1>2. job'.pc \notin Ticking BY <1>1 DEF Ticking, TickSteps
<1>3. NothingLoads
  <2>1. SUFFICES ASSUME NEW t \in Tabs, doc'[t].pc = "loaded" PROVE doc[t].pc = "loaded" BY DEF NothingLoads
  <2>2. PICK o : o = doc[t] OBVIOUS
  <2>3. TrueDocument(o) BY <2>2 DEF Reading, DocsRight
  <2>4. PICK d : d = Idled(o) OBVIOUS
  <2>5. d.pc = "idle" BY <2>3, <2>4, IdledIsTrue
  <2>6. [doc[t] EXCEPT !.pc = "idle", !.gen = 0, !.key = NoName] = d BY <2>2, <2>4 DEF Idled
  <2>7. doc'[t] \in {doc[t], [doc[t] EXCEPT !.pc = "idle", !.gen = 0, !.key = NoName]}
    BY DEF Pause, NoName
  <2> QED BY <2>1, <2>5, <2>6, <2>7
<1> QED BY <1>1, <1>2, <1>3 DEF StepMoves, ClocksMove, TaskMoves, TicksMove, WorldMoves, FaultsMove, PagesMove

LEMMA ElapseMoves ==
    ASSUME Elapse
    PROVE  StepMoves
<1>1. /\ job' = job /\ todo' = todo /\ world' = world /\ doc' = doc /\ delivered' = delivered /\ faults' = faults
  BY DEF Elapse, worker, browser
<1> QED BY <1>1, SamePagesLoaded
        DEF StepMoves, ClocksMove, TaskMoves, TicksMove, WorldMoves, FaultsMove, PagesMove

LEMMA TickMoves ==
    ASSUME Reading, NEW k \in Ticks, StartTick(k) \/ Begin(k)
    PROVE  StepMoves
<1>1. CASE StartTick(k)
  <2>1. /\ Clocks /\ job' = job /\ world' = world /\ doc' = doc /\ delivered' = delivered /\ faults' = faults
    BY <1>1 DEF StartTick, Clocks, storage, ghosts, browser
  <2> QED BY <1>1, <2>1, SamePagesLoaded
          DEF StepMoves, ClocksMove, TaskMoves, TicksMove, WorldMoves, FaultsMove, PagesMove
<1>2. CASE Begin(k)
  <2>1. world' = world /\ delivered' = delivered /\ faults' = faults BY <1>2 DEF Begin
  <2>2. doc' = doc \/ \E L : doc' = Told(L) BY <1>2 DEF Begin
  <2>3. NothingLoads BY <2>2, ToldLoadsNothing, SamePagesLoaded DEF Reading
  <2> QED BY <1>2, <2>1, <2>3
          DEF StepMoves, ClocksMove, TaskMoves, TicksMove, WorldMoves, FaultsMove, PagesMove
<1> QED BY <1>1, <1>2

(* Every step is one of these, and keeps what is read read.                *)
LEMMA StutterMoves ==
    ASSUME UNCHANGED vars
    PROVE  StepMoves
<1>1. /\ Clocks /\ job' = job /\ todo' = todo /\ world' = world /\ doc' = doc
      /\ delivered' = delivered /\ faults' = faults
  BY DEF vars, Clocks, storage, ghosts, browser, worker
<1> QED BY <1>1, SamePagesLoaded
        DEF StepMoves, ClocksMove, TaskMoves, TicksMove, WorldMoves, FaultsMove, PagesMove

LEMMA EveryStepMoves ==
    ASSUME Reading, [Next]_vars
    PROVE  StepMoves
<1>1. CASE Turn BY <1>1, TurnMoves, CheckStartMoves, NavigateMoves, RemovalMoves DEF Turn
<1>2. ASSUME NEW t \in Tabs, Read(t) \/ Unusable(t) \/ CloseTab(t) \/ Removed(t) PROVE StepMoves
  BY <1>2, ReadingMoves, AnswerMoves, TabMoves DEF Read
<1>3. ASSUME NEW l \in LaneSet, Toggle(l) \/ Reconfigure(l) \/ Restart(l) PROVE StepMoves
  BY <1>3, OutsideMoves, RestartMoves
<1>4. CASE TickFails \/ BotCheck \/ Pause \/ Resume \/ WorkerStops \/ BrowserStops \/ Elapse
  BY <1>4, TickFailsMoves, OutsideMoves, PauseMoves, StopMoves, ElapseMoves
<1>5. ASSUME NEW k \in Ticks, StartTick(k) \/ Begin(k) PROVE StepMoves BY <1>5, TickMoves
<1>6. CASE UNCHANGED vars BY <1>6, StutterMoves
<1> QED BY <1>1, <1>2, <1>3, <1>4, <1>5, <1>6 DEF Next

LEMMA StutterReads ==
    ASSUME Reading, UNCHANGED vars
    PROVE  Reading'
<1>1. /\ lanes' = lanes /\ sweep' = sweep /\ own' = own /\ doc' = doc /\ closed' = closed
      /\ job' = job /\ draft' = draft /\ todo' = todo /\ delivered' = delivered
  BY DEF vars, storage, ghosts, browser, worker
<1>2. /\ Grows /\ SweepRight' /\ OwnRight' /\ DocsRight' /\ (\A t \in Tabs : Quieter(t))
  BY <1>1, TaskFacts
<1>3. TaskRight' BY <1>1, TaskStays DEF Reading
<1> QED BY <1>1, <1>2, <1>3, SameLanes

LEMMA EveryStepReads ==
    ASSUME ScanTypes, Reading, [Next]_vars
    PROVE  Reading'
<1>1. CASE Turn
  BY <1>1, CommitReads, ReserveReads, SaveOwnerReads, DropOldReads, SaveTabReads, DueReads, StartTargetReads,
     SaveStartReads, CheckStartReads, NavigateReads, SaveRemovedReads, SweepReads, WipeReads
  DEF Turn
<1>2. ASSUME NEW t \in Tabs, Read(t) \/ Unusable(t) \/ CloseTab(t) \/ Removed(t) PROVE Reading'
  BY <1>2, AskRoleReads, SendReads, AnswerReads, WriteReceiptReads, ReportCheckpointReads, SweepCompleteReads,
     DiscoveredReads, SelectReads, SelectedReads, UnusableReads, CloseTabReads, RemovedReads
  DEF Read
<1>3. ASSUME NEW l \in LaneSet, Toggle(l) \/ Reconfigure(l) \/ Restart(l) PROVE Reading'
  BY <1>3, OutsideReads, RestartReads
<1>4. CASE TickFails \/ BotCheck \/ Pause \/ Resume \/ WorkerStops \/ BrowserStops \/ Elapse
  BY <1>4, TickFailsReads, OutsideReads, PauseReads, WorkerStopsReads, BrowserStopsReads, ElapseReads
<1>5. ASSUME NEW k \in Ticks, StartTick(k) \/ Begin(k) PROVE Reading' BY <1>5, StartTickReads, BeginReads
<1>6. CASE UNCHANGED vars BY <1>6, StutterReads
<1> QED BY <1>1, <1>2, <1>3, <1>4, <1>5, <1>6 DEF Next

-----------------------------------------------------------------------------
(* Types of the clocks, the settings and what was delivered                *)

LEMMA ClocksTyped ==
    ASSUME ScanTypes, Reading, ClocksMove
    PROVE  /\ lastLane' \in LaneSet \union {NoName} /\ pace' \in 0..SPACING /\ quiet' \in 0..SPACING
           /\ passed' \in [LaneSet -> Nat]
<1>1. /\ lastLane \in LaneSet \union {NoName} /\ pace \in 0..SPACING /\ quiet \in 0..SPACING
      /\ passed \in [LaneSet -> Nat] /\ SPACING \in Nat
  BY LaneConstants DEF ScanTypes
<1>2. CASE Clocks BY <1>1, <1>2 DEF Clocks
<1>3. CASE CheckStart
  <2>1. quiet' = quiet /\ passed' = passed BY <1>3 DEF CheckStart
  <2>2. \/ lastLane' = lastLane /\ pace' = pace
        \/ lastLane' = job.lane /\ pace' = SPACING
    BY <1>3 DEF CheckStart
  <2>3. job.lane \in LaneSet BY <1>3 DEF CheckStart, At, Reading, TaskRight, TrueJob
  <2> QED BY <1>1, <2>1, <2>2, <2>3
<1>4. CASE Navigate
  <2>1. lastLane' = lastLane /\ pace' = pace BY <1>4 DEF Navigate
  <2>2. \/ quiet' = quiet /\ passed' = passed
        \/ /\ quiet' = SPACING
           /\ passed' = [m \in LaneSet |-> IF m # job.lane THEN passed[m] + 1 ELSE 0]
    BY <1>4 DEF Navigate
  <2> QED BY <1>1, <2>1, <2>2
<1>5. CASE Elapse
  <2>1. lastLane' = lastLane /\ passed' = passed /\ pace' = Left(pace) /\ quiet' = Left(quiet)
    BY <1>5 DEF Elapse
  <2>2. ASSUME NEW n \in 0..SPACING PROVE Left(n) \in 0..SPACING BY <1>1 DEF Left
  <2> QED BY <1>1, <2>1, <2>2
<1>6. ASSUME NEW k \in Ticks, Begin(k)
      PROVE  /\ lastLane' = lastLane /\ pace' = pace /\ quiet' = quiet /\ passed' \in [LaneSet -> Nat]
  <2>1. /\ lastLane' = lastLane /\ pace' = pace /\ quiet' = quiet
        /\ passed' = IF pace = 0 THEN [passed EXCEPT ![Head(todo[k])] = 0] ELSE passed
    BY <1>6 DEF Begin
  <2> QED BY <1>1, <2>1
<1> QED BY <1>1, <1>2, <1>3, <1>4, <1>5, <1>6 DEF ClocksMove

LEMMA WorldTyped ==
    ASSUME ScanTypes, WorldMoves
    PROVE  /\ enabled' \in [LaneSet -> BOOLEAN] /\ paused' \in BOOLEAN
           /\ wanted' \in [LaneSet -> Seq(Keys)] /\ \A l \in LaneSet : wanted'[l] \in Initial[l]
<1>1. /\ enabled \in [LaneSet -> BOOLEAN] /\ paused \in BOOLEAN
      /\ wanted \in [LaneSet -> Seq(Keys)] /\ \A l \in LaneSet : wanted[l] \in Initial[l]
  BY DEF ScanTypes
<1>2. CASE world' = world BY <1>1, <1>2 DEF world
<1>3. CASE BotCheck \/ Resume BY <1>1, <1>3 DEF BotCheck, Resume
<1>4. ASSUME NEW l \in LaneSet, Toggle(l)
      PROVE  enabled' \in [LaneSet -> BOOLEAN] /\ paused' = paused /\ wanted' = wanted
  BY <1>1, <1>4 DEF Toggle
<1>5. ASSUME NEW l \in LaneSet, Reconfigure(l)
      PROVE  /\ enabled' = enabled /\ paused' = paused
             /\ wanted' \in [LaneSet -> Seq(Keys)] /\ \A m \in LaneSet : wanted'[m] \in Initial[m]
  <2>1. PICK list \in Initial[l] : wanted' = [wanted EXCEPT ![l] = list] BY <1>5 DEF Reconfigure
  <2>2. list \in Seq(Keys) BY <2>1, LaneConstants
  <2>3. enabled' = enabled /\ paused' = paused BY <1>5 DEF Reconfigure
  <2> QED BY <1>1, <2>1, <2>2, <2>3
<1> QED BY <1>1, <1>2, <1>3, <1>4, <1>5 DEF WorldMoves

LEMMA PagesTyped ==
    ASSUME ScanTypes, Reading, PagesMove
    PROVE  delivered' \in [Urls -> SUBSET UNION Range(Pages)]
<1>1. delivered \in [Urls -> SUBSET UNION Range(Pages)] BY DEF ScanTypes
<1>2. CASE delivered' = delivered BY <1>1, <1>2
<1>3. ASSUME NEW t \in Tabs, Send(t), delivered' # delivered
      PROVE  delivered' \in [Urls -> SUBSET UNION Range(Pages)]
  <2>1. PICK p \in Unread(t) : delivered' = [delivered EXCEPT ![doc[t].url] = @ \union {p}]
    BY <1>3 DEF Send
  <2>2. doc[t].url \in Urls BY DEF Reading, DocsRight, Document
  <2>3. PICK url \in Urls : url = doc[t].url BY <2>2
  <2>4. p \in Pages[url] BY <2>1, <2>3 DEF Unread
  <2>5. DOMAIN Pages = Urls BY LaneConstants
  <2>6. p \in UNION Range(Pages) BY <2>3, <2>4, <2>5 DEF Range
  <2>7. delivered' = [delivered EXCEPT ![url] = @ \union {p}] BY <2>1, <2>3
  <2> QED BY <1>1, <2>6, <2>7
<1> QED BY <1>2, <1>3 DEF PagesMove

LEMMA EveryStepTyped ==
    ASSUME ScanTypes, Reading, StepMoves
    PROVE  ScanTypes'
<1>1. faults' \in 0..MAX_FAULTS
  <2>1. faults \in 0..MAX_FAULTS /\ MAX_FAULTS \in Nat BY LaneConstants DEF ScanTypes
  <2>2. FaultsMove BY DEF StepMoves
  <2> QED BY <2>1, <2>2 DEF FaultsMove, Fault
<1> QED BY <1>1, ClocksTyped, WorldTyped, PagesTyped DEF StepMoves, ScanTypes

-----------------------------------------------------------------------------
(* Spacing                                                                 *)

(* A task that works on is idle to the ticks, or goes on, or has begun.    *)
LEMMA SpacingHolds ==
    ASSUME ScanTypes, Reading, Spacing, StepMoves
    PROVE  Spacing'
<1>1. /\ quiet <= pace /\ pace \in 0..SPACING /\ quiet \in 0..SPACING /\ SPACING \in Nat
      /\ job.pc \in {"stamped", "checked"} => pace = 0
      /\ job.pc = "navigate" => pace = SPACING /\ quiet = 0
  BY LaneConstants DEF ScanTypes, Spacing
<1>2. ClocksMove /\ TaskMoves BY DEF StepMoves
<1>3. ASSUME NEW k \in Ticks, Begin(k)
      PROVE  quiet' = quiet /\ pace' = pace /\ job'.pc \notin {"stamped", "checked", "navigate"}
  <2>1. quiet' = quiet /\ pace' = pace BY <1>3 DEF Begin
  <2>2. Release \/ \E pc \in {"saveOn", "reserve"} : \E l, L : Hold(pc, l, L) BY <1>3 DEF Begin
  <2>3. job'.pc \notin {"stamped", "checked", "navigate"}
    BY <2>2, HeldTask, ReleasedTask DEF Ticking, TickSteps
  <2> QED BY <2>1, <2>3
<1>4. CASE \E k \in Ticks : Begin(k) BY <1>1, <1>3, <1>4 DEF Spacing
<1>5. CASE Clocks /\ ~\E k \in Ticks : Begin(k)
  <2>1. quiet' = quiet /\ pace' = pace BY <1>5 DEF Clocks
  <2>2. CASE job' = job BY <1>1, <2>1, <2>2 DEF Spacing
  <2>3. CASE job'.pc \notin Ticking BY <1>1, <2>1, <2>3 DEF Spacing, Ticking, TickSteps
  <2>4. CASE TaskGoesOn
    <3>1. /\ job'.pc = "stamped" => pace = 0
          /\ job'.pc = "checked" => pace = 0
          /\ job'.pc # "navigate"
      <4>1. SPACING # 0 BY LaneConstants
      <4> QED BY <1>1, <2>1, <2>4, <4>1 DEF TaskGoesOn
    <3> QED BY <1>1, <2>1, <3>1 DEF Spacing
  <2> QED BY <1>2, <1>5, <2>2, <2>3, <2>4 DEF TaskMoves
<1>6. CASE CheckStart
  <2>1. job.pc = "checked" /\ quiet' = quiet BY <1>6 DEF CheckStart, At
  <2>2. \/ Release /\ pace' = pace
        \/ Go("navigate") /\ pace' = SPACING
    BY <1>6 DEF CheckStart
  <2>3. CASE Release /\ pace' = pace
    <3>1. job'.pc \notin Ticking BY <2>3, ReleasedTask
    <3> QED BY <1>1, <2>1, <2>3, <3>1 DEF Spacing, Ticking, TickSteps
  <2>4. CASE Go("navigate") /\ pace' = SPACING
    <3>1. job'.pc = "navigate" BY <2>4, GoneTask DEF Reading
    <3> QED BY <1>1, <2>1, <2>4, <3>1 DEF Spacing
  <2> QED BY <2>2, <2>3, <2>4
<1>7. CASE Navigate
  <2>1. job.pc = "navigate" /\ pace' = pace /\ quiet' \in {quiet, SPACING} /\ Release
    BY <1>7 DEF Navigate, At
  <2>2. job'.pc \notin Ticking BY <2>1, ReleasedTask
  <2> QED BY <1>1, <2>1, <2>2 DEF Spacing, Ticking, TickSteps
<1>8. CASE Elapse
  <2>1. job' = job /\ job.pc = "idle" /\ pace' = Left(pace) /\ quiet' = Left(quiet)
    BY <1>8 DEF Elapse, Free, worker
  <2>2. Left(quiet) <= Left(pace) BY <1>1 DEF Left
  <2> QED BY <2>1, <2>2 DEF Spacing
<1> QED BY <1>2, <1>4, <1>5, <1>6, <1>7, <1>8 DEF ClocksMove

-----------------------------------------------------------------------------
(* Rotation                                                                *)

LEMMA RotationFacts ==
    ASSUME ScanTypes, Reading, Rotation
    PROVE  /\ Len(Lanes) \in Nat /\ pace \in Nat
           /\ Order \in Seq(LaneSet) /\ Len(Order) = Len(Lanes)
           /\ \A i \in 1..Len(Lanes) : Order[i] \in LaneSet /\ passed[Order[i]] \in Nat
           /\ passed \in [LaneSet -> Nat]
           /\ \A k \in Ticks : todo[k] \in Seq(LaneSet)
           /\ lastLane' = lastLane => Place' = Place /\ Order' = Order
<1>1. /\ lastLane \in LaneSet \union {NoName} /\ pace \in 0..SPACING /\ passed \in [LaneSet -> Nat]
      /\ SPACING \in Nat
  BY LaneConstants DEF ScanTypes
<1>2. /\ Len(Lanes) \in Nat /\ Order \in Seq(LaneSet) /\ Len(Order) = Len(Lanes)
  BY <1>1, OrderNow, LaneConstants, LenProperties DEF Ordered
<1>3. \A i \in 1..Len(Lanes) : Order[i] \in LaneSet BY <1>2, ElementOfSeq
<1>4. \A k \in Ticks : todo[k] \in Seq(LaneSet) BY DEF Reading, TaskRight
<1>5. lastLane' = lastLane => Place' = Place /\ Order' = Order BY OrderTaken
<1> QED BY <1>1, <1>2, <1>3, <1>4, <1>5

(* Nothing starts and no turn begins.                                      *)
LEMMA RotationStays ==
    ASSUME ScanTypes, Reading, Spacing, Rotation, Clocks, TaskMoves, TicksMove, ~\E k \in Ticks : Begin(k)
    PROVE  Rotation'
<1>1. Order' = Order /\ passed' = passed /\ pace' = pace /\ lastLane' = lastLane
  BY RotationFacts DEF Clocks
<1>2. \A i \in 1..Len(Lanes) : passed'[Order'[i]] + i <= Len(Lanes) BY <1>1 DEF Rotation
<1>3. job'.pc = "navigate" => /\ lastLane' = job'.lane
                              /\ \A i \in 1..Len(Lanes) - 1 : passed'[Order'[i]] + i < Len(Lanes)
  <2>1. CASE job' = job BY <1>1, <2>1 DEF Rotation
  <2>2. CASE job'.pc \notin Ticking BY <2>2 DEF Ticking, TickSteps
  <2>3. CASE TaskGoesOn
    <3>1. SPACING # 0 BY LaneConstants
    <3>2. job'.pc # "navigate" BY <1>1, <2>3, <3>1 DEF TaskGoesOn, Spacing
    <3> QED BY <3>2
  <2> QED BY <2>1, <2>2, <2>3 DEF TaskMoves
<1>4. ASSUME pace' = 0, NEW k \in Ticks, todo'[k] # <<>>
      PROVE  /\ Len(todo'[k]) <= Len(Lanes)
             /\ \A i \in 1..Len(todo'[k]) : todo'[k][i] = Order'[Len(Lanes) - Len(todo'[k]) + i]
             /\ \A i \in 1..Len(Lanes) - Len(todo'[k]) : passed'[Order'[i]] = 0
  <2>1. CASE todo'[k] = todo[k] BY <1>1, <1>4, <2>1 DEF Rotation
  <2>2. CASE todo'[k] = Order
    <3>1. PICK T : T = todo'[k] OBVIOUS
    <3>2. T = Order BY <2>2, <3>1
    <3>3. Len(T) = Len(Lanes) /\ Len(Lanes) \in Nat BY <3>2, RotationFacts
    <3>4. \A i \in 1..Len(T) : T[i] = Order[Len(Lanes) - Len(T) + i]
      <4>1. \A i \in 1..Len(T) : Len(Lanes) - Len(T) + i = i BY <3>3
      <4> QED BY <3>2, <4>1
    <3>5. 1..Len(Lanes) - Len(T) = {} BY <3>3
    <3> QED BY <1>1, <3>1, <3>3, <3>4, <3>5
  <2>3. todo'[k] = todo[k] \/ todo'[k] = <<>> \/ todo'[k] = Order
    <3>1. todo \in [Ticks -> Seq(LaneSet)] BY DEF Reading, TaskRight
    <3>2. ASSUME NEW m \in Ticks, StartTick(m) PROVE todo' = [todo EXCEPT ![m] = Order] BY <3>2 DEF StartTick
    <3>3. todo' = todo \/ todo' = [m \in Ticks |-> <<>>] \/ \E m \in Ticks : todo' = [todo EXCEPT ![m] = Order]
      BY <3>2 DEF TicksMove
    <3> QED BY <3>1, <3>3
  <2> QED BY <1>4, <2>1, <2>2, <2>3
<1>5. ASSUME pace' = 0, job'.pc \in TickSteps \union {"saveOn"}
      PROVE  \E i \in 1..Len(Lanes) : Order'[i] = job'.lane /\ \A j \in 1..i : passed'[Order'[j]] = 0
  <2>1. job.pc \in TickSteps \union {"saveOn"} /\ job'.lane = job.lane
    BY <1>5 DEF TaskMoves, TaskGoesOn, Ticking
  <2> QED BY <1>1, <1>5, <2>1 DEF Rotation
<1> QED BY <1>2, <1>3, <1>4, <1>5 DEF Rotation

(* A turn begins: at a free slot the lane was passed by nobody since.      *)
LEMMA RotationBegins ==
    ASSUME ScanTypes, Reading, Rotation, NEW k \in Ticks, Begin(k)
    PROVE  Rotation'
<1> DEFINE N == Len(Lanes)
           l == Head(todo[k])
<1>1. /\ lastLane' = lastLane /\ pace' = pace /\ todo[k] # <<>> /\ todo' = [todo EXCEPT ![k] = Tail(@)]
      /\ passed' = IF pace = 0 THEN [passed EXCEPT ![l] = 0] ELSE passed
      /\ Release \/ \E pc \in {"saveOn", "reserve"} : \E L : Hold(pc, l, L)
  BY DEF Begin
<1>2. Order' = Order BY <1>1, RotationFacts
<1>3. job'.pc # "navigate" /\ (job'.pc \in TickSteps \union {"saveOn"} => job'.lane = l)
  BY <1>1, HeldTask, ReleasedTask DEF Ticking, TickSteps
<1>4. CASE pace # 0
  <2>1. pace' # 0 /\ passed' = passed BY <1>1, <1>4
  <2> QED BY <1>2, <1>3, <2>1 DEF Rotation
<1>5. CASE pace = 0
  <2>1. passed' = [passed EXCEPT ![l] = 0] BY <1>1, <1>5
  <2>2. PICK T : T = todo[k] OBVIOUS
  <2>3. T \in Seq(LaneSet) /\ T # <<>> /\ l = Head(T) BY <1>1, <2>2, RotationFacts
  <2>4. /\ Len(T) \in Nat /\ Len(T) # 0 /\ Head(T) = T[1] /\ Head(T) \in LaneSet
        /\ Tail(T) \in Seq(LaneSet) /\ Len(Tail(T)) = Len(T) - 1
        /\ \A i \in 1..Len(T) - 1 : Tail(T)[i] = T[i + 1]
    BY <2>3, HeadTailProperties, LenProperties, EmptySeq
  <2>5. PICK n \in Nat : n = Len(T) BY <2>4
  <2>6. n # 0 /\ n <= N /\ N \in Nat BY <1>1, <1>5, <2>2, <2>4, <2>5, RotationFacts DEF Rotation
  <2>7. \A i \in 1..n : T[i] = Order[N - n + i] BY <1>1, <1>5, <2>2, <2>5 DEF Rotation
  <2>8. \A i \in 1..N - n : passed[Order[i]] = 0 BY <1>1, <1>5, <2>2, <2>5 DEF Rotation
  <2>9. l = Order[N - n + 1] /\ N - n + 1 \in 1..N /\ l \in LaneSet
    <3>1. 1 \in 1..n /\ N - n + 1 \in 1..N BY <2>6
    <3> QED BY <2>3, <2>4, <2>7, <3>1
  <2>10. \A i \in 1..N : passed'[Order[i]] = IF Order[i] = l THEN 0 ELSE passed[Order[i]]
    BY <2>1, <2>9, RotationFacts
  <2>11. \A i \in 1..N : passed[Order[i]] \in Nat /\ passed[Order[i]] + i <= N
    BY RotationFacts DEF Rotation
  <2>12. \A i \in 1..N : passed'[Order[i]] + i <= N BY <2>6, <2>10, <2>11
  <2>13. \A i \in 1..N - n + 1 : passed'[Order[i]] = 0
    <3>1. SUFFICES ASSUME NEW i \in 1..N - n + 1 PROVE passed'[Order[i]] = 0 OBVIOUS
    <3>2. i \in 1..N BY <2>6
    <3>3. CASE i = N - n + 1 BY <2>9, <2>10, <3>2, <3>3
    <3>4. CASE i # N - n + 1
      <4>1. i \in 1..N - n BY <2>6, <3>4
      <4> QED BY <2>8, <2>10, <3>2, <4>1
    <3> QED BY <3>3, <3>4
  <2>14. ASSUME NEW m \in Ticks, todo'[m] # <<>>
         PROVE  /\ Len(todo'[m]) <= N
                /\ \A i \in 1..Len(todo'[m]) : todo'[m][i] = Order[N - Len(todo'[m]) + i]
                /\ \A i \in 1..N - Len(todo'[m]) : passed'[Order[i]] = 0
    <3>1. todo \in [Ticks -> Seq(LaneSet)] BY DEF Reading, TaskRight
    <3>2. CASE m = k
      <4>1. PICK R : R = Tail(T) OBVIOUS
      <4>2. todo'[m] = R BY <1>1, <2>2, <3>1, <3>2, <4>1
      <4>3. Len(R) = n - 1 /\ \A i \in 1..n - 1 : R[i] = T[i + 1] BY <2>4, <2>5, <4>1
      <4>4. n - 1 <= N /\ N - (n - 1) = N - n + 1 BY <2>6
      <4>5. ASSUME NEW i \in 1..n - 1 PROVE R[i] = Order[N - (n - 1) + i]
        <5>1. i + 1 \in 1..n /\ N - n + (i + 1) = N - (n - 1) + i BY <2>6
        <5> QED BY <2>7, <4>3, <5>1
      <4> QED BY <2>13, <4>2, <4>3, <4>4, <4>5
    <3>3. CASE m # k
      <4>1. PICK R : R = todo[m] OBVIOUS
      <4>2. todo'[m] = R BY <1>1, <3>1, <3>3, <4>1
      <4>3. /\ Len(R) <= N
            /\ \A i \in 1..Len(R) : R[i] = Order[N - Len(R) + i]
            /\ \A i \in 1..N - Len(R) : passed[Order[i]] = 0
        BY <1>5, <2>14, <4>1, <4>2 DEF Rotation
      <4>4. Len(R) \in Nat BY <4>1, RotationFacts, LenProperties
      <4>5. ASSUME NEW i \in 1..N - Len(R) PROVE passed'[Order[i]] = 0
        <5>1. i \in 1..N BY <2>6, <4>3, <4>4
        <5> QED BY <2>10, <4>3, <5>1
      <4> QED BY <4>2, <4>3, <4>5
    <3> QED BY <3>2, <3>3
  <2>15. \E i \in 1..N : Order[i] = l /\ \A j \in 1..i : passed'[Order[j]] = 0 BY <2>9, <2>13
  <2> QED BY <1>2, <1>3, <2>12, <2>14, <2>15 DEF Rotation
<1> QED BY <1>4, <1>5

LEMMA RotationElapses ==
    ASSUME ScanTypes, Reading, Rotation, Elapse
    PROVE  Rotation'
<1>1. /\ lastLane' = lastLane /\ passed' = passed /\ job' = job /\ job.pc = "idle"
      /\ todo' = todo /\ \A k \in Ticks : todo[k] = <<>>
  BY DEF Elapse, Free, worker
<1>2. Order' = Order BY <1>1, RotationFacts
<1> QED BY <1>1, <1>2 DEF Rotation, TickSteps

(* A page loads: its lane is last in the rotation, the others are passed.  *)
LEMMA RotationLoads ==
    ASSUME ScanTypes, Reading, Spacing, Rotation, Navigate
    PROVE  Rotation'
<1> DEFINE N == Len(Lanes)
<1>1. /\ job.pc = "navigate" /\ lastLane' = lastLane /\ pace' = pace /\ pace # 0 /\ Release
      /\ \/ passed' = passed
         \/ passed' = [m \in LaneSet |-> IF m # job.lane THEN passed[m] + 1 ELSE 0]
  BY LaneConstants DEF Navigate, At, Spacing
<1>2. Order' = Order /\ N \in Nat BY <1>1, RotationFacts
<1>3. job'.pc # "navigate" BY <1>1, ReleasedTask DEF Ticking, TickSteps
<1>4. /\ lastLane = job.lane /\ job.lane \in LaneSet
      /\ \A i \in 1..N - 1 : passed[Order[i]] + i < N
      /\ \A i \in 1..N : passed[Order[i]] + i <= N
  BY <1>1 DEF Rotation, Reading, TaskRight, TrueJob
<1>5. ASSUME passed' = [m \in LaneSet |-> IF m # job.lane THEN passed[m] + 1 ELSE 0], NEW i \in 1..N
      PROVE  passed'[Order[i]] + i <= N
  <2>1. /\ Order[i] \in LaneSet /\ passed[Order[i]] \in Nat
        /\ passed'[Order[i]] = IF Order[i] # job.lane THEN passed[Order[i]] + 1 ELSE 0
    BY <1>5, RotationFacts
  <2>2. CASE i = N
    <3>1. lastLane \in LaneSet \union {NoName} /\ lastLane # NoName BY <1>4, LaneConstants
    <3>2. Place \in 1..N /\ Lanes[Place] = lastLane BY <3>1, OrderNow DEF Ordered
    <3>3. Order[i] = IF i <= N - Place THEN Lanes[Place + i] ELSE Lanes[i - (N - Place)]
      BY <3>1, OrderNow DEF Ordered
    <3>4. ~(i <= N - Place) /\ i - (N - Place) = Place BY <1>2, <2>2, <3>2
    <3>5. Order[i] = job.lane BY <1>4, <3>2, <3>3, <3>4
    <3> QED BY <1>2, <2>1, <2>2, <3>5
  <2>3. CASE i # N
    <3>1. i \in 1..N - 1 BY <1>2, <2>3
    <3> QED BY <1>2, <1>4, <2>1, <3>1
  <2> QED BY <2>2, <2>3
<1>6. \A i \in 1..N : passed'[Order[i]] + i <= N BY <1>1, <1>4, <1>5
<1> QED BY <1>1, <1>2, <1>3, <1>6 DEF Rotation

(* A start: its lane goes to the end, with those that were not passed.     *)
LEMMA RotationTurns ==
    ASSUME ScanTypes, Reading, Spacing, Rotation, CheckStart
    PROVE  Rotation'
<1> DEFINE N == Len(Lanes)
<1>1. job.pc = "checked" /\ passed' = passed /\ todo' = todo BY DEF CheckStart, At
<1>2. CASE Release /\ lastLane' = lastLane /\ pace' = pace
  <2>1. Order' = Order BY <1>2, RotationFacts
  <2>2. job'.pc \notin Ticking BY <1>2, ReleasedTask
  <2> QED BY <1>1, <1>2, <2>1, <2>2 DEF Rotation, Ticking, TickSteps
<1>3. CASE Go("navigate") /\ lastLane' = job.lane /\ pace' = SPACING
  <2>1. job'.pc = "navigate" /\ job'.lane = job.lane /\ job.lane \in LaneSet
    BY <1>1, <1>3, GoneTask DEF Reading, TaskRight, TrueJob
  <2>2. pace' # 0 /\ pace = 0 BY <1>1, <1>3, LaneConstants DEF Spacing
  <2>3. PICK q \in 1..N : Order[q] = job.lane /\ \A j \in 1..q : passed[Order[j]] = 0
    BY <1>1, <2>2 DEF Rotation, TickSteps
  <2>4. N \in Nat /\ DOMAIN Lanes = 1..N BY LaneConstants, LenProperties
  <2>5. lastLane \in LaneSet \union {NoName} /\ lastLane' \in LaneSet \union {NoName} /\ lastLane' # NoName
    BY <1>3, <2>1, LaneConstants DEF ScanTypes
  <2>6. PICK P \in 0..N, R \in 1..N : P = Place /\ R = Place' BY <2>5, OrderNow, OrderNext DEF Ordered
  <2>7. Lanes[R] = job.lane BY <1>3, <2>5, <2>6, OrderNext DEF Ordered
  <2>8. \A i \in 1..N : Order[i] = IF i <= N - P THEN Lanes[P + i] ELSE Lanes[i - (N - P)]
    BY <2>5, <2>6, OrderNow DEF Ordered
  <2>9. \A i \in 1..N : Order'[i] = IF i <= N - R THEN Lanes[R + i] ELSE Lanes[i - (N - R)]
    BY <2>5, <2>6, OrderNext DEF Ordered
  <2>10. R = IF q <= N - P THEN P + q ELSE q - (N - P)
    <3>1. PICK r \in 1..N : r = IF q <= N - P THEN P + q ELSE q - (N - P) BY <2>4
    <3>2. Lanes[r] = job.lane BY <2>3, <2>8, <3>1
    <3> QED BY <2>4, <2>7, <3>1, <3>2, AuxiliaryConstants
  <2>11. ASSUME NEW i \in 1..N
         PROVE  Order'[i] = IF i <= N - q THEN Order[i + q] ELSE Order[i - (N - q)]
    <3>1. CASE i <= N - q
      <4>1. i + q \in 1..N BY <2>4, <3>1
      <4>2. Order[i + q] = IF i + q <= N - P THEN Lanes[P + (i + q)] ELSE Lanes[i + q - (N - P)] BY <2>8, <4>1
      <4>3. IF i + q <= N - P THEN i <= N - R /\ P + (i + q) = R + i
            ELSE IF i <= N - R THEN i + q - (N - P) = R + i ELSE i + q - (N - P) = i - (N - R)
        BY <2>4, <2>10, <3>1
      <4> QED BY <2>9, <3>1, <4>2, <4>3
    <3>2. CASE ~(i <= N - q)
      <4>1. i - (N - q) \in 1..N BY <2>4, <3>2
      <4>2. Order[i - (N - q)] = IF i - (N - q) <= N - P THEN Lanes[P + (i - (N - q))]
                                 ELSE Lanes[i - (N - q) - (N - P)]
        BY <2>8, <4>1
      <4>3. IF i - (N - q) <= N - P
            THEN IF i <= N - R THEN P + (i - (N - q)) = R + i ELSE P + (i - (N - q)) = i - (N - R)
            ELSE ~(i <= N - R) /\ i - (N - q) - (N - P) = i - (N - R)
        BY <2>4, <2>10, <3>2
      <4> QED BY <2>9, <3>2, <4>2, <4>3
    <3> QED BY <3>1, <3>2
  <2>12. ASSUME NEW i \in 1..N
         PROVE  passed'[Order'[i]] + i <= N /\ (i < N => passed'[Order'[i]] + i < N)
    <3>1. CASE i <= N - q
      <4>1. i + q \in 1..N BY <2>4, <3>1
      <4>2. passed[Order[i + q]] \in Nat /\ passed[Order[i + q]] + (i + q) <= N BY <4>1, RotationFacts DEF Rotation
      <4>3. passed[Order[i + q]] + i < N BY <2>4, <4>2
      <4> QED BY <1>1, <2>4, <2>11, <3>1, <4>2, <4>3
    <3>2. CASE ~(i <= N - q)
      <4>1. i - (N - q) \in 1..q BY <2>4, <3>2
      <4>2. passed'[Order'[i]] = 0 BY <1>1, <2>3, <2>11, <3>2, <4>1
      <4> QED BY <2>4, <4>2
    <3> QED BY <3>1, <3>2
  <2>13. \A i \in 1..N - 1 : i \in 1..N /\ i < N BY <2>4
  <2> QED BY <1>3, <2>1, <2>2, <2>12, <2>13 DEF Rotation
<1>4. \/ Release /\ lastLane' = lastLane /\ pace' = pace
      \/ Go("navigate") /\ lastLane' = job.lane /\ pace' = SPACING
  BY DEF CheckStart
<1> QED BY <1>2, <1>3, <1>4

LEMMA RotationHolds ==
    ASSUME ScanTypes, Reading, Spacing, Rotation, StepMoves
    PROVE  Rotation'
<1>1. ClocksMove /\ TaskMoves /\ TicksMove BY DEF StepMoves
<1> QED BY <1>1, RotationStays, RotationBegins, RotationElapses, RotationLoads, RotationTurns DEF ClocksMove

-----------------------------------------------------------------------------
(* The first state                                                         *)

LEMMA InitTyped == Init => ScanTypes
<1>1. SUFFICES ASSUME Init PROVE ScanTypes OBVIOUS
<1>2. lastLane = NoName BY <1>1 DEF Init, NoName
<1>3. /\ pace = 0 /\ quiet = 0 /\ enabled = [l \in LaneSet |-> TRUE] /\ paused = FALSE /\ faults = 0
      /\ delivered = [u \in Urls |-> {}] /\ passed = [l \in LaneSet |-> 0]
      /\ DOMAIN wanted = LaneSet /\ wanted = [l \in LaneSet |-> wanted[l]]
      /\ \A l \in LaneSet : wanted[l] \in Initial[l]
  BY <1>1 DEF Init
<1>4. \A l \in LaneSet : wanted[l] \in Seq(Keys) BY <1>3, LaneConstants
<1>5. wanted \in [LaneSet -> Seq(Keys)] BY <1>3, <1>4
<1>6. SPACING \in Nat /\ MAX_FAULTS \in Nat BY LaneConstants
<1>7. pace \in 0..SPACING /\ quiet \in 0..SPACING /\ faults \in 0..MAX_FAULTS /\ passed \in [LaneSet -> Nat]
  BY <1>3, <1>6
<1>8. enabled \in [LaneSet -> BOOLEAN] /\ paused \in BOOLEAN
  <2>1. enabled = [l \in LaneSet |-> TRUE] BY <1>3
  <2>2. paused = FALSE BY <1>3
  <2>3. enabled \in [LaneSet -> BOOLEAN] BY ONLY <2>1
  <2>4. paused \in BOOLEAN BY ONLY <2>2
  <2> QED BY <2>3, <2>4
<1>9. delivered \in [Urls -> SUBSET UNION Range(Pages)] BY <1>3
<1>10. \A l \in LaneSet : wanted[l] \in Initial[l] BY <1>3
<1> QED BY <1>2, <1>5, <1>7, <1>9, <1>8, <1>10 DEF ScanTypes

LEMMA InitReads == Init => Reading
<1>1. SUFFICES ASSUME Init PROVE Reading OBVIOUS
<1>2. PICK A, D : A = Absent /\ D = NoDocument OBVIOUS
<1>3. PICK C : C = None OBVIOUS
<1>4. /\ lanes = [l \in LaneSet |-> A] /\ draft = A /\ sweep = [t \in Tabs |-> C]
      /\ own = [l \in LaneSet |-> NoTab] /\ closed = {} /\ doc = [t \in Tabs |-> D]
      /\ todo = [k \in Ticks |-> <<>>] /\ job = Idle
  BY <1>1, <1>2, <1>3 DEF Init
<1>5. TrueLane(A) /\ A.tab = NoTab /\ A \in Lane BY <1>2, AbsentIsTrue DEF TrueLane, KnownLane
<1>6. D \in Document /\ TrueDocument(D) BY <1>2, BlankIsTrue DEF TrueDocument
<1>7. C \in Checkpoint /\ TrueReceipt(C) BY <1>3, NothingIsTrue
<1>8. NoTab \notin Tabs BY LaneConstants
<1>9. LanesRight BY <1>4, <1>5, <1>8 DEF LanesRight, Speaks
<1>10. DocsRight BY <1>4, <1>6 DEF DocsRight
<1>11. SweepRight BY <1>4, <1>7 DEF SweepRight
<1>12. OwnRight BY <1>4 DEF OwnRight
<1>13. /\ job \in [pc : Steps, lane : LaneSet \union {NoName}, old : Tabs \union {NoTab}] /\ job.pc = "idle"
  <2>1. "idle" \in Steps BY DEF Steps
  <2>2. Idle = [pc |-> "idle", lane |-> NoName, old |-> NoTab] BY Names
  <2> QED BY <1>4, <2>1, <2>2
<1>14. todo \in [Ticks -> Seq(LaneSet)]
  <2>1. <<>> \in Seq(LaneSet) BY EmptySeq
  <2> QED BY <1>4, <2>1
<1>15. TaskRight BY <1>2, <1>4, <1>13, <1>14 DEF TaskRight, TrueJob
<1> QED BY <1>9, <1>10, <1>11, <1>12, <1>15 DEF Reading

LEMMA InitTurns == Init => Spacing /\ Rotation
<1>1. SUFFICES ASSUME Init PROVE Spacing /\ Rotation OBVIOUS
<1>2. job.pc = "idle"
  <2>1. job = Idle BY <1>1 DEF Init
  <2> QED BY <2>1, Names
<1>3. /\ pace = 0 /\ quiet = 0 /\ passed = [l \in LaneSet |-> 0] /\ todo = [k \in Ticks |-> <<>>]
  BY <1>1 DEF Init
<1>4. Spacing BY <1>2, <1>3 DEF Spacing
<1>5. lastLane = NoName BY <1>1 DEF Init, NoName
<1>6. Order \in Seq(LaneSet) /\ Len(Order) = Len(Lanes) /\ Len(Lanes) \in Nat
  BY <1>5, OrderNow, LaneConstants, LenProperties DEF Ordered
<1>7. \A i \in 1..Len(Lanes) : Order[i] \in LaneSet BY <1>6, ElementOfSeq
<1>8. \A i \in 1..Len(Lanes) : passed[Order[i]] = 0 BY <1>3, <1>7
<1>9. \A i \in 1..Len(Lanes) : passed[Order[i]] + i <= Len(Lanes) BY <1>6, <1>8
<1>10. Rotation BY <1>2, <1>3, <1>9 DEF Rotation, TickSteps
<1> QED BY <1>4, <1>10

LEMMA InitHolds == Init => ScanInvariant
BY InitTyped, InitReads, InitTurns DEF ScanInvariant

(* Every step keeps the invariant.                                         *)
LEMMA StepHolds == ScanInvariant /\ [Next]_vars => ScanInvariant'
<1>1. SUFFICES ASSUME ScanInvariant, [Next]_vars PROVE ScanInvariant' OBVIOUS
<1>2. ScanTypes /\ Reading /\ Spacing /\ Rotation BY <1>1 DEF ScanInvariant
<1>3. StepMoves BY <1>1, <1>2, EveryStepMoves
<1>4. Reading' BY <1>1, <1>2, EveryStepReads
<1> QED BY <1>2, <1>3, <1>4, EveryStepTyped, SpacingHolds, RotationHolds DEF ScanInvariant

-----------------------------------------------------------------------------
(* What the invariant says                                                 *)

LEMMA TypesFollow == ScanInvariant => TypeInvariant
<1>1. SUFFICES ASSUME ScanInvariant PROVE TypeInvariant OBVIOUS
<1>2. ScanTypes /\ LanesRight /\ DocsRight /\ SweepRight /\ OwnRight /\ TaskRight
  BY <1>1 DEF ScanInvariant, Reading
<1>3. /\ lanes \in [LaneSet -> Lane] /\ draft \in Lane
      /\ \A l \in LaneSet : lanes[l].status = "scanning" =>
            lanes[l].cursor <= Len(lanes[l].targets) /\ lanes[l].tab # NoTab
  BY <1>2 DEF LanesRight, TrueLane, KnownLane, HasTarget
<1>4. /\ pace \in 0..SPACING /\ quiet \in 0..SPACING /\ enabled \in [LaneSet -> BOOLEAN] /\ paused \in BOOLEAN
      /\ (\A l \in LaneSet : wanted[l] \in Initial[l]) /\ faults \in 0..MAX_FAULTS
  BY <1>2 DEF ScanTypes
<1>5. lastLane \in LaneSet \union {""} BY <1>2, Zenon DEF ScanTypes, NoName
<1>6. /\ sweep \in [Tabs -> Checkpoint] /\ own \in [LaneSet -> Tabs \union {NoTab}] /\ closed \subseteq Tabs
      /\ \A l, m \in LaneSet : own[l] = own[m] /\ own[l] # NoTab => l = m
      /\ doc \in [Tabs -> Document] /\ todo \in [Ticks -> Seq(LaneSet)]
  BY <1>2 DEF SweepRight, OwnRight, DocsRight, TaskRight
<1>7. job.pc \in Steps /\ job.lane \in LaneSet \union {NoName} BY <1>2 DEF TaskRight
<1>8. job.lane \in LaneSet \union {""} BY <1>7, Zenon DEF NoName
<1>9. job.pc \in {"idle", "reserve", "created", "owned", "saveTab", "due", "start", "stamped",
                  "checked", "navigate", "save", "saveOn", "saveBound", "unowned", "sweeping", "wiping"}
  BY <1>7 DEF Steps, TickSteps
<1> QED BY <1>3, <1>4, <1>5, <1>6, <1>8, <1>9, Zenon DEF TypeInvariant

LEMMA CoverageFollows == Reading => CompleteIsCovered
<1>1. SUFFICES ASSUME Reading, NEW l \in LaneSet, lanes[l].status = "complete", NEW i \in DOMAIN lanes[l].targets
               PROVE  /\ lanes[l].targets[i].cov \in {"complete", "duplicate"}
                      /\ Pages[Dest[lanes[l].targets[i].key]] \subseteq delivered[Dest[lanes[l].targets[i].key]]
  BY DEF CompleteIsCovered
<1>2. PICK L : L = lanes[l] OBVIOUS
<1>3. PICK T : T = L.targets OBVIOUS
<1>4. /\ TrueTargets(T, L.cursor) /\ L.cursor > Len(T) /\ L.cursor \in Nat
      /\ \A j \in DOMAIN T : T[j].cov # "unresolved"
  <2>1. TrueLane(L) /\ L.status = "complete" BY <1>1, <1>2 DEF Reading, LanesRight
  <2>2. L.cursor \in Nat /\ L.targets \in Seq(Target) BY <2>1 DEF TrueLane, KnownLane, Lane
  <2>3. Len(T) \in Nat BY <1>3, <2>2, LenProperties
  <2> QED BY <1>3, <2>1, <2>2, <2>3 DEF TrueLane, KnownLane, HasTarget
<1>5. T \in Seq(Target) /\ DOMAIN T = 1..Len(T) /\ Len(T) \in Nat BY <1>4, LenProperties DEF TrueTargets
<1>6. \A j \in 1..Len(T) : /\ TrueTarget(T[j]) /\ T[j].cov \in {"complete", "duplicate"}
                           /\ T[j].duplicate => \E m \in 1..Len(T) : StandsFor(T[m], T[j])
  <2>1. SUFFICES ASSUME NEW j \in 1..Len(T)
                 PROVE  /\ TrueTarget(T[j]) /\ T[j].cov \in {"complete", "duplicate"}
                        /\ T[j].duplicate => \E m \in 1..Len(T) : StandsFor(T[m], T[j])
    OBVIOUS
  <2>2. j < L.cursor BY <1>4, <1>5
  <2>3. T[j].cov # "pending" /\ T[j].cov # "unresolved" /\ TrueTarget(T[j]) BY <1>4, <1>5, <2>2 DEF TrueTargets
  <2>4. T[j].cov \in {"pending", "unresolved", "complete", "duplicate"} BY <2>3 DEF TrueTarget, Target
  <2> QED BY <1>4, <2>3, <2>4 DEF TrueTargets
<1>7. ASSUME NEW g, TrueTarget(g), g.cov = "complete"
      PROVE  Pages[Dest[g.key]] \subseteq delivered[Dest[g.key]]
  BY <1>7 DEF TrueTarget
<1>8. PICK j \in 1..Len(T) : j = i BY <1>1, <1>2, <1>3, <1>5
<1>9. PICK g : g = T[j] OBVIOUS
<1>10. g.cov \in {"complete", "duplicate"} /\ TrueTarget(g) BY <1>6, <1>9
<1>11. Pages[Dest[g.key]] \subseteq delivered[Dest[g.key]]
  <2>1. CASE g.cov = "complete" BY <1>7, <1>10, <2>1
  <2>2. CASE g.cov = "duplicate"
    <3>1. g.duplicate BY <1>10, <2>2 DEF TrueTarget
    <3>2. PICK m \in 1..Len(T) : StandsFor(T[m], g) BY <1>6, <1>9, <3>1
    <3>3. PICK h : h = T[m] OBVIOUS
    <3>4. TrueTarget(h) /\ h.cov \in {"complete", "duplicate"} BY <1>6, <3>3
    <3>5. ~h.duplicate /\ ~h.sel /\ h.url = Dest[g.key] BY <3>2, <3>3 DEF StandsFor
    <3>6. h.cov = "complete" /\ h.url = Dest[h.key] BY <3>4, <3>5 DEF TrueTarget
    <3>7. Pages[Dest[h.key]] \subseteq delivered[Dest[h.key]] BY <1>7, <3>4, <3>6
    <3> QED BY <3>5, <3>6, <3>7
  <2> QED BY <1>10, <2>1, <2>2
<1> QED BY <1>2, <1>3, <1>8, <1>9, <1>10, <1>11

LEMMA TurnsFollow == ScanTypes /\ Rotation => FairTurns
<1>1. SUFFICES ASSUME ScanTypes, Rotation, NEW l \in LaneSet PROVE passed[l] < Len(Lanes) BY DEF FairTurns
<1>2. Len(Lanes) \in Nat /\ DOMAIN Lanes = 1..Len(Lanes) BY LaneConstants, LenProperties
<1>3. lastLane \in LaneSet \union {NoName} /\ passed[l] \in Nat BY <1>1 DEF ScanTypes
<1>4. PICK q \in 1..Len(Lanes) : Lanes[q] = l BY <1>2 DEF LaneSet, Range
<1>5. PICK P \in 0..Len(Lanes) : P = Place BY <1>3, OrderNow DEF Ordered
<1>6. \A i \in 1..Len(Lanes) :
         Order[i] = IF i <= Len(Lanes) - P THEN Lanes[P + i] ELSE Lanes[i - (Len(Lanes) - P)]
  BY <1>3, <1>5, OrderNow DEF Ordered
<1>7. PICK i \in 1..Len(Lanes) : Order[i] = l
  <2>1. CASE q > P
    <3>1. q - P \in 1..Len(Lanes) /\ q - P <= Len(Lanes) - P /\ P + (q - P) = q BY <1>2, <2>1
    <3>2. Order[q - P] = Lanes[q] BY <1>6, <3>1
    <3> QED BY <1>4, <3>1, <3>2
  <2>2. CASE ~(q > P)
    <3>1. /\ Len(Lanes) - P + q \in 1..Len(Lanes) /\ ~(Len(Lanes) - P + q <= Len(Lanes) - P)
          /\ Len(Lanes) - P + q - (Len(Lanes) - P) = q
      BY <1>2, <2>2
    <3>2. Order[Len(Lanes) - P + q] = Lanes[q] BY <1>6, <3>1
    <3> QED BY <1>4, <3>1, <3>2
  <2> QED BY <2>1, <2>2
<1>8. passed[Order[i]] + i <= Len(Lanes) BY <1>1 DEF Rotation
<1> QED BY <1>2, <1>3, <1>7, <1>8

LEMMA InvariantFollows == ScanInvariant => LaneInvariant
BY TypesFollow, CoverageFollows, TurnsFollow DEF ScanInvariant, LaneInvariant

(* A page loads only at the end of a start, and then nothing is left of    *)
(* the spacing of the load before it.                                      *)
LEMMA StepSpaced == ScanInvariant /\ [Next]_vars => (Loads => quiet = 0)
<1>1. SUFFICES ASSUME ScanInvariant, [Next]_vars, Loads PROVE quiet = 0 OBVIOUS
<1>2. Reading /\ Spacing BY <1>1 DEF ScanInvariant
<1>3. NothingLoads \/ Navigate BY <1>1, <1>2, EveryStepMoves DEF StepMoves
<1>4. ~NothingLoads BY <1>1 DEF Loads, NothingLoads
<1>5. job.pc = "navigate" BY <1>3, <1>4 DEF Navigate, At
<1> QED BY <1>2, <1>5 DEF Spacing

-----------------------------------------------------------------------------
(* Theorems                                                                *)

(* What is read is read: lanes, checkpoints, documents and the task under  *)
(* the lock never claim a page that did not reach the relay, the stored    *)
(* spacing is never shorter than what is left of it, and the lanes keep    *)
(* their rotation.                                                         *)
THEOREM ScanInvariantHolds == Spec => []ScanInvariant
BY InitHolds, StepHolds, PTL DEF Spec

(* A round that calls itself complete has read every page of every target, *)
(* fewer others start between two turns of a lane at a free slot than      *)
(* there are lanes, and the bookkeeping of lanes, jobs and tabs is right.  *)
THEOREM LanesAreRight == Spec => []LaneInvariant
BY ScanInvariantHolds, InvariantFollows, PTL

(* The lanes' page loads keep their common spacing, however often the      *)
(* service worker, the browser or a tick was stopped on the way.           *)
THEOREM LoadsStaySpaced == Spec => LoadsAreSpaced
<1>1. Spec => []ScanInvariant BY ScanInvariantHolds
<1>2. ScanInvariant /\ [Next]_vars => [Loads => quiet = 0]_vars BY StepSpaced
<1> QED BY <1>1, <1>2, PTL DEF Spec, LoadsAreSpaced

=============================================================================
