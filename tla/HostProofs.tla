----------------------------- MODULE HostProofs -----------------------------
(***************************************************************************)
(* Machine-checked theorems about what runs on the host: the relay that    *)
(* deduplicates (Relay.tla over SeenStore.tla), the supervisor that        *)
(* restarts the rest (Recovery.tla), and the poller, the notifier and the  *)
(* watchdog of Telegram, which share the relay's process and files         *)
(* (Telegram.tla).                                                         *)
(***************************************************************************)
EXTENDS Telegram, Recovery, FiniteSetTheorems, SequenceTheorems,
        WellFoundedInduction, TLAPS

-----------------------------------------------------------------------------
(***************************************************************************)
(* The relay's dedupe, for every set of items, requests and markers and    *)
(* every retention, backstop and bound: whatever writes fail or tear and   *)
(* wherever the process dies, memory is backed by the files, only handled  *)
(* items are recorded, an item is alerted once, and the files forget       *)
(* nothing but what is old or too much.                                    *)
(***************************************************************************)

-----------------------------------------------------------------------------
(* Lines                                                                   *)

(* A set of positions in a sequence has a last one.                        *)
LEMMA LastPosition ==
    ASSUME NEW n \in Nat, NEW T \in SUBSET (1..n), T # {}
    PROVE  \E x \in T : \A y \in T : y <= x
<1> DEFINE U == {n - x : x \in T}
<1>1. U \subseteq Nat /\ U # {}
  <2>1. \A x \in T : n - x \in Nat OBVIOUS
  <2> QED BY <2>1
<1>2. \E u \in U : \A w \in U : ~(<<w, u>> \in OpToRel(<, Nat))
  BY <1>1, NatLessThanWellFounded, WFMin
<1>3. PICK u \in U : \A w \in U : ~(w < u) BY <1>1, <1>2 DEF OpToRel
<1>4. PICK x \in T : u = n - x OBVIOUS
<1>5. \A y \in T : ~(n - y < u) BY <1>3
<1> QED BY <1>4, <1>5

LEMMA MentionsIs ==
    ASSUME NEW lines \in Seq(Lines), NEW t, NEW k
    PROVE  /\ Mentions(lines, t, k) \in SUBSET (1..Len(lines)) /\ Len(lines) \in Nat
           /\ \A n \in 1..Len(lines) : lines[n] \in Lines
BY LenProperties, ElementOfSeq DEF Mentions

(* The last value is that of a mention, and no later one exists.           *)
LEMMA LastIs ==
    ASSUME NEW lines \in Seq(Lines), NEW t, NEW k, NEW old, Mentions(lines, t, k) # {}
    PROVE  \E n \in Mentions(lines, t, k) :
              /\ \A y \in Mentions(lines, t, k) : y <= n
              /\ LastValue(lines, t, k, old) = lines[n].v
<1> DEFINE M == Mentions(lines, t, k)
<1>1. \E x \in M : \A y \in M : y <= x BY MentionsIs, LastPosition
<1> DEFINE n == CHOOSE x \in M : \A y \in M : y <= x
<1>2. n \in M /\ \A y \in M : y <= n BY <1>1
<1>3. LastValue(lines, t, k, old) = lines[n].v BY DEF LastValue
<1> QED BY <1>2, <1>3

LEMMA LineValues ==
    ASSUME NEW lines \in Seq(Lines), NEW t \in {"item", "marker"}, NEW k,
           NEW n \in Mentions(lines, t, k)
    PROVE  lines[n].v \in Nat
<1>1. lines[n] \in Lines /\ lines[n].t = t BY MentionsIs DEF Mentions
<1> QED BY <1>1 DEF Lines, Torn

LEMMA LastType ==
    ASSUME NEW lines \in Seq(Lines), NEW t \in {"item", "marker"}, NEW k, NEW old \in Nat
    PROVE  LastValue(lines, t, k, old) \in Nat
<1>1. CASE Mentions(lines, t, k) = {} BY <1>1 DEF LastValue
<1>2. CASE Mentions(lines, t, k) # {} BY <1>2, LastIs, LineValues
<1> QED BY <1>1, <1>2

(* What a sequence of lines says of an item.                               *)
LEMMA LinedIs ==
    ASSUME NEW lines \in Seq(Lines), NEW i
    PROVE  /\ Lined(lines, i) \subseteq Nat
           /\ \A old : /\ Lined(lines, i) = {} => LastValue(lines, "item", i, old) = old
                       /\ Lined(lines, i) # {} => LastValue(lines, "item", i, old) \in Lined(lines, i)
<1>1. Lined(lines, i) \subseteq Nat BY LineValues DEF Lined
<1>2. Lined(lines, i) = {} <=> Mentions(lines, "item", i) = {} BY DEF Lined
<1> QED BY <1>1, <1>2, LastIs DEF Lined, LastValue

(* A line is added.                                                        *)
LEMMA LinedAppend ==
    ASSUME NEW lines \in Seq(Lines), NEW line \in Lines, NEW i
    PROVE  /\ Append(lines, line) \in Seq(Lines)
           /\ Lined(Append(lines, line), i) =
                 Lined(lines, i) \union (IF line.t = "item" /\ line.k = i THEN {line.v} ELSE {})
<1> DEFINE new == Append(lines, line)
<1>1. /\ new \in Seq(Lines) /\ Len(new) = Len(lines) + 1 /\ Len(lines) \in Nat
      /\ \A n \in 1..Len(lines) : new[n] = lines[n]
      /\ new[Len(lines) + 1] = line
  BY AppendProperties, LenProperties
<1>2. DOMAIN new = 1..(Len(lines) + 1) /\ DOMAIN lines = 1..Len(lines) BY <1>1, LenProperties
<1> HIDE DEF new
<1>3. Mentions(new, "item", i) = Mentions(lines, "item", i) \union
         (IF line.t = "item" /\ line.k = i THEN {Len(lines) + 1} ELSE {})
  BY <1>1, <1>2 DEF Mentions
<1>4. \A n \in Mentions(lines, "item", i) : n \in 1..Len(lines) BY <1>2 DEF Mentions
<1>5. Lined(new, i) =
         Lined(lines, i) \union (IF line.t = "item" /\ line.k = i THEN {line.v} ELSE {})
  BY <1>1, <1>3, <1>4 DEF Lined
<1> QED BY <1>1, <1>5 DEF new

(* Lines are added to the log.                                             *)
LEMMA LinedConcat ==
    ASSUME NEW a \in Seq(Lines), NEW b \in Seq(Lines), NEW i
    PROVE  /\ a \o b \in Seq(Lines)
           /\ Lined(a \o b, i) = Lined(a, i) \union Lined(b, i)
           /\ \A old :
                 /\ Lined(b, i) = {} =>
                       LastValue(a \o b, "item", i, old) = LastValue(a, "item", i, old)
                 /\ Lined(b, i) # {} => LastValue(a \o b, "item", i, old) \in Lined(b, i)
<1> DEFINE c == a \o b
           A == Mentions(a, "item", i)
           B == Mentions(b, "item", i)
           C == Mentions(c, "item", i)
<1>1. /\ c \in Seq(Lines) /\ Len(c) = Len(a) + Len(b) /\ Len(a) \in Nat /\ Len(b) \in Nat
      /\ \A n \in 1..(Len(a) + Len(b)) : c[n] = IF n <= Len(a) THEN a[n] ELSE b[n - Len(a)]
  BY ConcatProperties, LenProperties
<1>2. DOMAIN c = 1..(Len(a) + Len(b)) /\ DOMAIN a = 1..Len(a) /\ DOMAIN b = 1..Len(b)
  BY <1>1, LenProperties
<1>10. ASSUME NEW old, C # {}
       PROVE  \E n \in C : /\ \A y \in C : y <= n
                           /\ LastValue(c, "item", i, old) = c[n].v
  <2>1. \A l \in Seq(Lines) : Mentions(l, "item", i) # {} =>
           \E n \in Mentions(l, "item", i) : /\ \A y \in Mentions(l, "item", i) : y <= n
                                            /\ LastValue(l, "item", i, old) = l[n].v
    BY LastIs
  <2> QED BY <1>1, <1>10, <2>1
<1> HIDE DEF c
<1>3. /\ \A n \in 1..(Len(a) + Len(b)) : n <= Len(a) => c[n] = a[n]
      /\ \A n \in 1..(Len(a) + Len(b)) : n > Len(a) => c[n] = b[n - Len(a)]
      /\ \A n \in 1..Len(b) : c[Len(a) + n] = b[n]
  <2>1. \A n \in 1..Len(b) : /\ Len(a) + n \in 1..(Len(a) + Len(b)) /\ ~(Len(a) + n <= Len(a))
                             /\ Len(a) + n - Len(a) = n
    BY <1>1
  <2> QED BY <1>1, <2>1
<1>4. \A n \in A : n \in C /\ n \in 1..Len(a) /\ c[n] = a[n] BY <1>1, <1>2, <1>3 DEF Mentions
<1>5. \A n \in B : n \in 1..Len(b) /\ Len(a) + n \in C /\ c[Len(a) + n] = b[n]
  BY <1>1, <1>2, <1>3 DEF Mentions
<1>6. \A n \in C : \/ n \in A /\ c[n] = a[n]
                   \/ n > Len(a) /\ n - Len(a) \in B /\ c[n] = b[n - Len(a)]
  <2> SUFFICES ASSUME NEW n \in C
               PROVE  \/ n \in A /\ c[n] = a[n]
                      \/ n > Len(a) /\ n - Len(a) \in B /\ c[n] = b[n - Len(a)]
    OBVIOUS
  <2>1. n \in 1..(Len(a) + Len(b)) /\ c[n].t = "item" /\ c[n].k = i BY <1>2 DEF Mentions
  <2>2. CASE n <= Len(a) BY <1>1, <1>2, <1>3, <2>1, <2>2 DEF Mentions
  <2>3. CASE n > Len(a)
    <3>1. c[n] = b[n - Len(a)] /\ n - Len(a) \in 1..Len(b) BY <1>1, <1>3, <2>1, <2>3
    <3> QED BY <1>2, <2>1, <2>3, <3>1 DEF Mentions
  <2> QED BY <1>1, <2>1, <2>2, <2>3
<1>7. Lined(c, i) = Lined(a, i) \union Lined(b, i)
  <2>1. Lined(c, i) \subseteq Lined(a, i) \union Lined(b, i) BY <1>6 DEF Lined
  <2>2. Lined(a, i) \subseteq Lined(c, i) BY <1>4 DEF Lined
  <2>3. Lined(b, i) \subseteq Lined(c, i) BY <1>5 DEF Lined
  <2> QED BY <2>1, <2>2, <2>3
<1>8. ASSUME NEW old, Lined(b, i) # {}
      PROVE  LastValue(c, "item", i, old) \in Lined(b, i)
  <2>1. PICK m \in B : TRUE BY <1>8 DEF Lined
  <2>2. Len(a) + m \in C /\ m \in 1..Len(b) BY <1>5
  <2>3. PICK n \in C : /\ \A y \in C : y <= n
                       /\ LastValue(c, "item", i, old) = c[n].v
    BY <1>10, <2>2
  <2>4. n >= Len(a) + m /\ n \in Nat BY <1>2, <2>2, <2>3 DEF Mentions
  <2>5. ~(n \in A) BY <1>1, <1>4, <2>2, <2>4
  <2>6. n - Len(a) \in B /\ c[n] = b[n - Len(a)] BY <1>6, <2>5
  <2> QED BY <2>3, <2>6 DEF Lined
<1>9. ASSUME NEW old, Lined(b, i) = {}
      PROVE  LastValue(c, "item", i, old) = LastValue(a, "item", i, old)
  <2>1. B = {} BY <1>9 DEF Lined
  <2>2. A = C BY <1>4, <1>6, <2>1
  <2>3. CASE A = {} BY <2>2, <2>3 DEF LastValue
  <2>4. CASE A # {}
    <3>1. PICK n \in A : /\ \A y \in A : y <= n
                         /\ LastValue(a, "item", i, old) = a[n].v
      BY <2>4, LastIs
    <3>2. PICK m \in C : /\ \A y \in C : y <= m
                         /\ LastValue(c, "item", i, old) = c[m].v
      BY <1>10, <2>2, <2>4
    <3>3. m = n
      <4>1. m <= n /\ n <= m BY <2>2, <3>1, <3>2
      <4>2. m \in Nat /\ n \in Nat BY <1>2, <2>2 DEF Mentions
      <4> QED BY <4>1, <4>2
    <3> QED BY <1>4, <3>1, <3>2, <3>3
  <2> QED BY <2>3, <2>4
<1> QED BY <1>1, <1>7, <1>8, <1>9 DEF c

(* What a failed or interrupted flush wrote was queued.                    *)
LEMMA PartIs ==
    ASSUME NEW lines \in Seq(Lines), NEW part \in PartOf(lines), NEW i
    PROVE  part \in Seq(Lines) /\ Lined(part, i) \subseteq Lined(lines, i)
<1>1. ASSUME NEW n \in 0..Len(lines)
      PROVE  /\ SubSeq(lines, 1, n) \in Seq(Lines)
             /\ Lined(SubSeq(lines, 1, n), i) \subseteq Lined(lines, i)
  <2> DEFINE s == SubSeq(lines, 1, n)
  <2>1. Len(lines) \in Nat /\ \A m \in 1..n : m \in 1..Len(lines) /\ lines[m] \in Lines
    BY MentionsIs
  <2>2. /\ s \in Seq(Lines) /\ Len(s) = n
        /\ \A m \in 1..n : s[m] = lines[m]
    <3>1. /\ s \in Seq(Lines) /\ Len(s) = IF 1 <= n THEN n - 1 + 1 ELSE 0
          /\ \A m \in 1..(n - 1 + 1) : s[m] = lines[1 + m - 1]
      BY <2>1, SubSeqProperties
    <3> QED BY <2>1, <3>1
  <2>3. DOMAIN s = 1..n /\ DOMAIN lines = 1..Len(lines) BY <2>2, LenProperties
  <2> HIDE DEF s
  <2>4. \A m \in Mentions(s, "item", i) : m \in Mentions(lines, "item", i) /\ s[m] = lines[m]
    BY <2>1, <2>2, <2>3 DEF Mentions
  <2>5. Lined(s, i) \subseteq Lined(lines, i) BY <2>4 DEF Lined
  <2> QED BY <2>2, <2>5 DEF s
<1>2. Len(lines) \in Nat BY LenProperties
<1>3. CASE part \in {SubSeq(lines, 1, n) : n \in 0..Len(lines)} BY <1>1, <1>3
<1>4. CASE part \in {Append(SubSeq(lines, 1, n), Torn) : n \in 0..(Len(lines) - 1)}
  <2>1. PICK n \in 0..Len(lines) : part = Append(SubSeq(lines, 1, n), Torn) BY <1>2, <1>4
  <2>2. Torn \in Lines /\ Torn.t # "item" BY DEF Lines, Torn
  <2> DEFINE s == SubSeq(lines, 1, n)
  <2>3. s \in Seq(Lines) /\ Lined(s, i) \subseteq Lined(lines, i) BY <1>1
  <2> HIDE DEF s
  <2>4. Append(s, Torn) \in Seq(Lines) /\ Lined(Append(s, Torn), i) = Lined(s, i)
    <3>1. /\ Append(s, Torn) \in Seq(Lines)
          /\ Lined(Append(s, Torn), i) =
                Lined(s, i) \union (IF Torn.t = "item" /\ Torn.k = i THEN {Torn.v} ELSE {})
      BY <2>2, <2>3, LinedAppend
    <3> QED BY <2>2, <3>1
  <2> QED BY <2>1, <2>3, <2>4 DEF s
<1> QED BY <1>3, <1>4 DEF PartOf

-----------------------------------------------------------------------------
(* Files and memory                                                        *)

Queued(i) == Lined(appends, i)
Logged(i) == Lined(logFile, i)

(* What a start would load of an item.                                     *)
LEMMA DiskIs ==
    ASSUME SeenTypeOK, NEW i \in Ids
    PROVE  /\ OnDisk.seen[i] = LastValue(logFile, "item", i, snapshot.seen[i])
           /\ OnDisk.seen[i] \in Nat /\ snapshot.seen[i] \in Nat /\ seen[i] \in Nat
           /\ OnDisk.seen[i] \in Written(i) /\ Written(i) \subseteq Nat
           /\ Logged(i) \subseteq Nat /\ Queued(i) \subseteq Nat
           /\ Logged(i) = {} => OnDisk.seen[i] = snapshot.seen[i]
           /\ Logged(i) # {} => OnDisk.seen[i] \in Logged(i)
<1>1. snapshot.seen[i] \in Nat /\ seen[i] \in Nat /\ appends \in Seq(Lines) /\ logFile \in Seq(Lines)
  BY DEF SeenTypeOK
<1>2. OnDisk.seen[i] = LastValue(logFile, "item", i, snapshot.seen[i]) BY DEF OnDisk, Replay
<1>3. Logged(i) \subseteq Nat /\ Queued(i) \subseteq Nat BY <1>1, LinedIs DEF Logged, Queued
<1>4. /\ Logged(i) = {} => OnDisk.seen[i] = snapshot.seen[i]
      /\ Logged(i) # {} => OnDisk.seen[i] \in Logged(i)
  BY <1>1, <1>2, LinedIs DEF Logged
<1>5. Written(i) = {snapshot.seen[i]} \union Logged(i) \union Queued(i)
  BY DEF Written, Logged, Queued
<1> QED BY <1>1, <1>2, <1>3, <1>4, <1>5

(* ... and of all that is recorded or queued.                              *)
LEMMA BackedIs ==
    ASSUME SeenTypeOK, LinesAreTimed, NEW i \in Ids
    PROVE  Replay(OnDisk, appends).seen[i] # 0 <=> \E v \in Written(i) : v # 0
<1>1. Replay(OnDisk, appends).seen[i] = LastValue(appends, "item", i, OnDisk.seen[i])
  BY DEF Replay
<1>2. appends \in Seq(Lines) BY DEF SeenTypeOK
<1>3. /\ Queued(i) = {} => Replay(OnDisk, appends).seen[i] = OnDisk.seen[i]
      /\ Queued(i) # {} => Replay(OnDisk, appends).seen[i] \in Queued(i)
  BY <1>1, <1>2, LinedIs DEF Queued
<1>4. 0 \notin Queued(i) /\ 0 \notin Logged(i) BY DEF LinesAreTimed, Queued, Logged
<1>5. Written(i) = {snapshot.seen[i]} \union Logged(i) \union Queued(i)
  BY DEF Written, Logged, Queued
<1>6. CASE Queued(i) # {} BY <1>3, <1>4, <1>5, <1>6
<1>7. CASE Queued(i) = {} /\ Logged(i) # {} BY <1>3, <1>4, <1>5, <1>7, DiskIs
<1>8. CASE Queued(i) = {} /\ Logged(i) = {}
  <2>1. Written(i) = {snapshot.seen[i]} BY <1>5, <1>8
  <2>2. Replay(OnDisk, appends).seen[i] = snapshot.seen[i] BY <1>3, <1>8, DiskIs
  <2> QED BY <2>1, <2>2
<1> QED BY <1>6, <1>7, <1>8

(* More records than the backstop allows are recorded or queued when a     *)
(* record was dropped for as many others.                                  *)
AsNew(v) == {k \in Ids : seen[k] # 0 /\ seen[k] >= v}

LEMMA SomeIds ==
    ASSUME NEW S \in SUBSET Ids
    PROVE  IsFiniteSet(S) /\ Cardinality(S) \in Nat
BY SeenConstants, FS_Subset, FS_CardinalityType

LEMMA CrowdIsTooMuch ==
    ASSUME RelayInvariant, NEW i \in Ids, seen[i] = 0, OnDisk.seen[i] # 0,
           NEW v, Crowded(v)
    PROVE  OverFull(Replay(OnDisk, appends).seen)
<1> DEFINE full == Replay(OnDisk, appends).seen
<1>1. SeenTypeOK /\ LinesAreTimed /\ FilesAreBehind BY DEF RelayInvariant, TypeInvariant
<1>2. \A k \in Ids : seen[k] # 0 => full[k] # 0 BY <1>1, BackedIs DEF FilesAreBehind
<1>3. full[i] # 0 BY <1>1, BackedIs, DiskIs
<1>4. AsNew(v) \in SUBSET Ids /\ i \notin AsNew(v) BY DEF AsNew
<1>5. Recorded(full) \in SUBSET Ids /\ AsNew(v) \union {i} \in SUBSET Recorded(full)
  BY <1>2, <1>3 DEF Recorded, AsNew
<1>6. IsFiniteSet(AsNew(v)) /\ Cardinality(AsNew(v)) \in Nat /\ Cardinality(AsNew(v)) >= MAX_ENTRIES
  BY <1>4, SomeIds DEF Crowded, AsNew
<1>7. Cardinality(AsNew(v) \union {i}) = Cardinality(AsNew(v)) + 1 BY <1>4, <1>6, FS_AddElement
<1>8. Cardinality(AsNew(v) \union {i}) <= Cardinality(Recorded(full))
      /\ Cardinality(Recorded(full)) \in Nat
  BY <1>5, SomeIds, FS_Subset
<1> HIDE DEF full
<1>9. Cardinality(Recorded(full)) > MAX_ENTRIES BY <1>6, <1>7, <1>8, SeenConstants
<1> QED BY <1>9 DEF OverFull, full

(* A crowd is only larger when memory has more, or newer.                  *)
LEMMA CrowdGrows ==
    ASSUME NEW v \in Nat, NEW w \in Nat, w <= v, Crowded(v),
           seen \in [Ids -> Nat], seen' \in [Ids -> Nat],
           \A k \in Ids : seen[k] # 0 /\ seen[k] >= v => seen'[k] # 0 /\ seen'[k] >= w
    PROVE  Crowded(w)'
<1> DEFINE old == {k \in Ids : seen[k] # 0 /\ seen[k] >= v}
           new == {k \in Ids : seen'[k] # 0 /\ seen'[k] >= w}
<1>1. old \in SUBSET new /\ new \in SUBSET Ids OBVIOUS
<1>2. Cardinality(old) <= Cardinality(new) BY <1>1, SomeIds, FS_Subset
<1>3. Cardinality(old) \in Nat /\ Cardinality(new) \in Nat BY <1>1, SomeIds
<1>4. Cardinality(old) >= MAX_ENTRIES BY DEF Crowded
<1>5. Crowded(w)' <=> Cardinality(new) >= MAX_ENTRIES BY DEF Crowded
<1> HIDE DEF old, new
<1> QED BY <1>2, <1>3, <1>4, <1>5, SeenConstants

(* A compaction drops only what is too old, or as old as what it keeps.    *)
LEMMA PruneIs ==
    ASSUME SeenTypeOK, PruneAndTrim, now' = now
    PROVE  /\ seen' \in [Ids -> Nat]
           /\ \A i \in Ids : seen'[i] = seen[i] \/ seen'[i] = 0
           /\ \A i \in Ids : seen[i] # 0 /\ seen'[i] = 0 =>
                 \/ Expired(seen[i])
                 \/ OverFull(seen) /\ \A v \in Nat : v <= seen[i] => Crowded(v)'
           /\ \A v \in Nat : Crowded(v) => Expired(v) \/ Crowded(v)'
<1>1. PICK keep \in Trims(Pruned(seen)) : seen' = [i \in Ids |-> IF i \in keep THEN seen[i] ELSE 0]
  BY DEF PruneAndTrim
<1> DEFINE P == Pruned(seen)
           R == Recorded(P)
<1>2. seen \in [Ids -> Nat] /\ now \in Nat /\ RETENTION \in Nat /\ MAX_ENTRIES \in Nat
  BY SeenConstants DEF SeenTypeOK
<1>3. R = {i \in Ids : seen[i] # 0 /\ ~Expired(seen[i])} BY DEF Pruned, Recorded
<1>4. \A i \in R : P[i] = seen[i] BY <1>3 DEF Pruned
<1>5. /\ keep \in SUBSET R /\ Cardinality(keep) = Kept(Cardinality(R))
      /\ \A i \in keep, j \in R \ keep : P[j] <= P[i]
  BY DEF Trims
<1>6. R \in SUBSET Ids /\ Recorded(seen) \in SUBSET Ids /\ R \in SUBSET Recorded(seen)
  BY <1>3 DEF Recorded
<1>7. /\ IsFiniteSet(R) /\ Cardinality(R) \in Nat /\ Cardinality(keep) \in Nat
      /\ Cardinality(Recorded(seen)) \in Nat /\ Cardinality(R) <= Cardinality(Recorded(seen))
  <2>1. keep \in SUBSET Ids BY <1>5, <1>6
  <2>2. IsFiniteSet(Recorded(seen)) BY <1>6, SomeIds
  <2> QED BY <1>6, <2>1, <2>2, SomeIds, FS_Subset
<1>8. seen' \in [Ids -> Nat] /\ \A i \in Ids : seen'[i] = seen[i] \/ seen'[i] = 0 BY <1>1, <1>2
<1>9. ASSUME NEW d \in R \ keep
      PROVE  /\ Cardinality(keep) = MAX_ENTRIES /\ OverFull(seen)
             /\ \A k \in keep : seen'[k] = seen[k] /\ seen[k] # 0 /\ seen[k] >= seen[d]
  <2>1. Cardinality(keep) # Cardinality(R) BY <1>5, <1>7, <1>9, FS_Subset
  <2>2. Cardinality(R) > MAX_ENTRIES /\ Cardinality(keep) = MAX_ENTRIES
    BY <1>2, <1>5, <1>7, <2>1 DEF Kept
  <2>3. \A k \in keep : seen'[k] = seen[k] /\ seen[k] # 0 /\ seen[k] >= seen[d]
    <3> SUFFICES ASSUME NEW k \in keep
                 PROVE  seen'[k] = seen[k] /\ seen[k] # 0 /\ seen[k] >= seen[d]
      OBVIOUS
    <3>1. k \in R /\ P[d] <= P[k] BY <1>5, <1>9
    <3>2. P[k] = seen[k] /\ P[d] = seen[d] BY <1>4, <1>9, <3>1
    <3>3. seen[k] \in Nat /\ seen[d] \in Nat /\ k \in Ids /\ seen[k] # 0 BY <1>2, <1>3, <1>9, <3>1
    <3> HIDE DEF P
    <3>4. seen[k] >= seen[d] BY <3>1, <3>2, <3>3
    <3> QED BY <1>1, <3>3, <3>4
  <2> QED BY <1>2, <1>7, <2>2, <2>3 DEF OverFull
<1>10. ASSUME NEW v \in Nat, NEW d \in R \ keep, v <= seen[d]
       PROVE  Crowded(v)'
  <2> DEFINE new == {k \in Ids : seen'[k] # 0 /\ seen'[k] >= v}
  <2>1. \A k \in keep : k \in new
    <3> SUFFICES ASSUME NEW k \in keep PROVE k \in new OBVIOUS
    <3>1. k \in Ids /\ d \in Ids /\ seen[k] \in Nat /\ seen[d] \in Nat BY <1>2, <1>5, <1>6, <1>10
    <3>2. seen'[k] = seen[k] /\ seen[k] # 0 /\ seen[k] >= seen[d] BY <1>9, <1>10
    <3> QED BY <1>10, <3>1, <3>2
  <2>2. keep \in SUBSET new /\ new \in SUBSET Ids BY <2>1
  <2>3. Cardinality(keep) <= Cardinality(new) /\ Cardinality(new) \in Nat BY <2>2, SomeIds, FS_Subset
  <2>4. Cardinality(keep) = MAX_ENTRIES BY <1>9, <1>10
  <2>5. Crowded(v)' <=> Cardinality(new) >= MAX_ENTRIES BY DEF Crowded
  <2> HIDE DEF new
  <2> QED BY <1>2, <2>3, <2>4, <2>5
<1>11. ASSUME NEW i \in Ids, seen[i] # 0, seen'[i] = 0
       PROVE  \/ Expired(seen[i])
              \/ OverFull(seen) /\ \A v \in Nat : v <= seen[i] => Crowded(v)'
  <2>1. i \notin keep BY <1>1, <1>11
  <2>2. CASE i \in R
    <3>1. i \in R \ keep BY <2>1, <2>2
    <3>2. OverFull(seen) BY <1>9, <3>1
    <3>3. \A v \in Nat : v <= seen[i] => Crowded(v)' BY <1>10, <3>1
    <3> QED BY <3>2, <3>3
  <2>3. CASE i \notin R BY <1>3, <1>11, <2>3
  <2> QED BY <2>2, <2>3
<1>12. ASSUME NEW v \in Nat, Crowded(v), ~Expired(v)
       PROVE  Crowded(v)'
  <2>1. \A k \in AsNew(v) : k \in R
    <3> SUFFICES ASSUME NEW k \in Ids, seen[k] # 0, seen[k] >= v PROVE ~Expired(seen[k])
      BY <1>3 DEF AsNew
    <3>1. seen[k] \in Nat BY <1>2
    <3> QED BY <1>2, <1>12, <3>1 DEF Expired
  <2>2. CASE \E d \in AsNew(v) : d \notin keep
    <3>1. PICK d \in AsNew(v) : d \notin keep BY <2>2
    <3>2. d \in R \ keep /\ d \in Ids /\ seen[d] >= v /\ seen[d] \in Nat
      BY <1>2, <2>1, <3>1 DEF AsNew
    <3>3. v <= seen[d] BY <3>2
    <3> QED BY <1>10, <3>2, <3>3
  <2>3. CASE \A d \in AsNew(v) : d \in keep
    <3>1. \A k \in Ids : seen[k] # 0 /\ seen[k] >= v => seen'[k] # 0 /\ seen'[k] >= v
      BY <1>1, <2>3 DEF AsNew
    <3> QED BY <1>2, <1>8, <1>12, <3>1, CrowdGrows
  <2> QED BY <2>2, <2>3
<1> QED BY <1>8, <1>11, <1>12

-----------------------------------------------------------------------------
(* Steps of the store                                                      *)

StoreParts == LinesAreTimed /\ AllHandled /\ FilesAreBehind /\ DroppedIsOldest

(* Lines move from the queue to the log, or nothing moves; time passes.    *)
LEMMA StoreKept ==
    ASSUME RelayInvariant, UNCHANGED seen, now' \in Nat, now <= now', handled \subseteq handled',
           \A i \in Ids : /\ Written(i)' = Written(i) /\ Queued(i)' \subseteq Queued(i)
                          /\ Logged(i)' \subseteq Logged(i) \union Queued(i)
                          /\ OnDisk'.seen[i] \in {OnDisk.seen[i]} \union Queued(i)
    PROVE  StoreParts'
<1>1. SeenTypeOK /\ LinesAreTimed /\ AllHandled /\ FilesAreBehind /\ DroppedIsOldest
  BY DEF RelayInvariant, TypeInvariant
<1>2. now \in Nat /\ RETENTION \in Nat BY <1>1, SeenConstants DEF SeenTypeOK
<1>3. \A i \in Ids : Written(i) \subseteq Nat /\ seen[i] \in Nat /\ Queued(i) \subseteq Nat
                     /\ OnDisk.seen[i] \in Nat
  BY <1>1, DiskIs
<1>4. LinesAreTimed'
  <2> SUFFICES ASSUME NEW i \in Ids
               PROVE  /\ 0 \notin Queued(i)' \union Logged(i)'
                      /\ seen'[i] <= now' /\ \A v \in Written(i)' : v <= now'
    BY DEF LinesAreTimed, Queued, Logged
  <2>1. /\ 0 \notin Queued(i) \union Logged(i) /\ seen[i] <= now
        /\ \A v \in Written(i) : v <= now
    BY <1>1 DEF LinesAreTimed, Queued, Logged
  <2>2. \A v \in Nat : v <= now => v <= now' BY <1>2
  <2> QED BY <1>3, <2>1, <2>2
<1>5. AllHandled'
  <2> SUFFICES ASSUME NEW i \in Ids, seen'[i] # 0 \/ \E v \in Written(i)' : v # 0
               PROVE  i \in handled'
    BY DEF AllHandled
  <2> QED BY <1>1 DEF AllHandled
<1>6. FilesAreBehind'
  <2> SUFFICES ASSUME NEW i \in Ids, seen'[i] # 0
               PROVE  /\ \E v \in Written(i)' : v # 0
                      /\ OnDisk'.seen[i] <= seen'[i]
                      /\ \A v \in Queued(i)' : v <= seen'[i]
    BY DEF FilesAreBehind, Queued
  <2> QED BY <1>1 DEF FilesAreBehind, Queued
<1>7. DroppedIsOldest'
  <2> SUFFICES ASSUME NEW i \in Ids, seen'[i] = 0,
                      NEW v \in {OnDisk'.seen[i]} \union Queued(i)', v # 0
               PROVE  Expired(v)' \/ Crowded(v)'
    BY DEF DroppedIsOldest, Queued
  <2>1. v \in {OnDisk.seen[i]} \union Queued(i) /\ v \in Nat BY <1>3
  <2>2. Expired(v) \/ Crowded(v) BY <1>1, <2>1 DEF DroppedIsOldest, Queued
  <2>3. Expired(v) => Expired(v)' BY <1>2, <2>1 DEF Expired
  <2>4. Crowded(v) => Crowded(v)' BY DEF Crowded
  <2> QED BY <2>2, <2>3, <2>4
<1> QED BY <1>4, <1>5, <1>6, <1>7 DEF StoreParts

(* A flush, whole, in part or interrupted.                                 *)
LEMMA LogGrows ==
    ASSUME SeenTypeOK, NEW part \in Seq(Lines), \A i \in Ids : Lined(part, i) \subseteq Queued(i),
           UNCHANGED snapshot,
           \/ logFile' = logFile /\ appends' = appends
           \/ logFile' = logFile \o part /\ appends' = appends
           \/ logFile' = logFile \o part /\ appends' = <<>> /\ part = appends
    PROVE  /\ logFile' \in Seq(Lines)
           /\ \A i \in Ids : /\ Written(i)' = Written(i) /\ Queued(i)' \subseteq Queued(i)
                             /\ Logged(i)' \subseteq Logged(i) \union Queued(i)
                             /\ OnDisk'.seen[i] \in {OnDisk.seen[i]} \union Queued(i)
<1>1. logFile \in Seq(Lines) /\ appends \in Seq(Lines) BY DEF SeenTypeOK
<1>2. CASE logFile' = logFile /\ appends' = appends
  <2>1. \A i \in Ids : /\ Written(i)' = Written(i) /\ Queued(i)' = Queued(i)
                       /\ Logged(i)' = Logged(i)
    BY <1>2 DEF Written, Queued, Logged
  <2>2. OnDisk' = OnDisk BY <1>2 DEF OnDisk
  <2> QED BY <1>1, <1>2, <2>1, <2>2
<1>3. CASE logFile' = logFile \o part
  <2>1. \A i : /\ logFile' \in Seq(Lines)
               /\ Lined(logFile', i) = Lined(logFile, i) \union Lined(part, i)
               /\ \A old :
                    /\ Lined(part, i) = {} =>
                          LastValue(logFile', "item", i, old) = LastValue(logFile, "item", i, old)
                    /\ Lined(part, i) # {} => LastValue(logFile', "item", i, old) \in Lined(part, i)
    BY <1>1, <1>3, LinedConcat
  <2>2. ASSUME NEW i \in Ids
        PROVE  /\ Logged(i)' = Logged(i) \union Lined(part, i)
               /\ Written(i)' = Written(i) /\ Queued(i)' \subseteq Queued(i)
               /\ OnDisk'.seen[i] \in {OnDisk.seen[i]} \union Queued(i)
    <3>1. Logged(i)' = Logged(i) \union Lined(part, i) BY <2>1 DEF Logged
    <3>2. Queued(i)' = Queued(i) \/ (Queued(i)' = {} /\ Lined(part, i) = Queued(i))
      <4>1. CASE appends' = appends BY <4>1 DEF Queued
      <4>2. CASE appends' = <<>> /\ part = appends BY <4>2 DEF Queued, Lined, Mentions
      <4>3. appends' = appends \/ (appends' = <<>> /\ part = appends)
        <5>1. \/ appends' = appends
              \/ appends' = <<>> /\ part = appends
          OBVIOUS
        <5> QED BY <5>1
      <4> QED BY <4>1, <4>2, <4>3
    <3>3. /\ Written(i) = {snapshot.seen[i]} \union Logged(i) \union Queued(i)
          /\ Written(i)' = {snapshot.seen[i]} \union Logged(i)' \union Queued(i)'
      BY DEF Written, Logged, Queued
    <3>4. Lined(part, i) \subseteq Queued(i) OBVIOUS
    <3>5. Written(i)' = Written(i) BY <3>1, <3>2, <3>3, <3>4
    <3>6. /\ OnDisk'.seen[i] = LastValue(logFile', "item", i, snapshot.seen[i])
          /\ OnDisk.seen[i] = LastValue(logFile, "item", i, snapshot.seen[i])
      BY DEF OnDisk, Replay
    <3>7. OnDisk'.seen[i] \in {OnDisk.seen[i]} \union Lined(part, i) BY <2>1, <3>6
    <3> QED BY <3>1, <3>2, <3>4, <3>5, <3>7
  <2> QED BY <2>1, <2>2
<1> QED BY <1>2, <1>3

(* A compaction prunes memory; the snapshot may or may not be replaced.    *)
LEMMA StorePruned ==
    ASSUME RelayInvariant, PruneAndTrim, UNCHANGED <<now, handled>>,
           \A i \in Ids : /\ Written(i)' \subseteq Written(i) \union {seen'[i]}
                          /\ Queued(i)' \subseteq Queued(i) /\ Logged(i)' \subseteq Logged(i)
                          /\ OnDisk'.seen[i] \in {OnDisk.seen[i], seen'[i]}
                          /\ seen'[i] # 0 => \E v \in Written(i)' : v # 0
    PROVE  StoreParts'
<1>1. SeenTypeOK /\ LinesAreTimed /\ AllHandled /\ FilesAreBehind /\ DroppedIsOldest
  BY DEF RelayInvariant, TypeInvariant
<1>2. now \in Nat /\ RETENTION \in Nat BY <1>1, SeenConstants DEF SeenTypeOK
<1>3. \A i \in Ids : Written(i) \subseteq Nat /\ seen[i] \in Nat /\ Queued(i) \subseteq Nat
                     /\ OnDisk.seen[i] \in Nat
  BY <1>1, DiskIs
<1>4. \A i \in Ids : seen'[i] = seen[i] \/ seen'[i] = 0 BY <1>1, PruneIs
<1>5. LinesAreTimed'
  <2> SUFFICES ASSUME NEW i \in Ids
               PROVE  /\ 0 \notin Queued(i)' \union Logged(i)'
                      /\ seen'[i] <= now' /\ \A v \in Written(i)' : v <= now'
    BY DEF LinesAreTimed, Queued, Logged
  <2>1. /\ 0 \notin Queued(i) \union Logged(i) /\ seen[i] <= now
        /\ \A v \in Written(i) : v <= now
    BY <1>1 DEF LinesAreTimed, Queued, Logged
  <2>2. seen'[i] <= now BY <1>2, <1>4, <2>1
  <2> QED BY <2>1, <2>2
<1>6. AllHandled'
  <2> SUFFICES ASSUME NEW i \in Ids, seen'[i] # 0 \/ \E v \in Written(i)' : v # 0
               PROVE  i \in handled'
    BY DEF AllHandled
  <2> QED BY <1>1, <1>4 DEF AllHandled
<1>7. FilesAreBehind'
  <2> SUFFICES ASSUME NEW i \in Ids, seen'[i] # 0
               PROVE  /\ \E v \in Written(i)' : v # 0
                      /\ OnDisk'.seen[i] <= seen'[i]
                      /\ \A v \in Queued(i)' : v <= seen'[i]
    BY DEF FilesAreBehind, Queued
  <2>1. seen'[i] = seen[i] /\ seen[i] # 0 BY <1>4
  <2>2. OnDisk.seen[i] <= seen[i] /\ \A v \in Queued(i) : v <= seen[i]
    BY <1>1, <2>1 DEF FilesAreBehind, Queued
  <2>3. seen[i] <= seen[i] BY <1>3
  <2> QED BY <2>1, <2>2, <2>3
<1>8. DroppedIsOldest'
  <2> SUFFICES ASSUME NEW i \in Ids, seen'[i] = 0,
                      NEW v \in {OnDisk'.seen[i]} \union Queued(i)', v # 0
               PROVE  Expired(v)' \/ Crowded(v)'
    BY DEF DroppedIsOldest, Queued
  <2>1. v \in {OnDisk.seen[i]} \union Queued(i) /\ v \in Nat BY <1>3
  <2>2. Expired(v)' <=> Expired(v) BY DEF Expired
  <2>3. CASE seen[i] = 0
    <3>1. Expired(v) \/ Crowded(v) BY <1>1, <2>1, <2>3 DEF DroppedIsOldest, Queued
    <3> QED BY <1>1, <2>1, <2>2, <3>1, PruneIs
  <2>4. CASE seen[i] # 0
    <3>1. v <= seen[i] BY <1>1, <2>1, <2>4 DEF FilesAreBehind, Queued
    <3>2. \/ Expired(seen[i])
          \/ \A w \in Nat : w <= seen[i] => Crowded(w)'
      BY <1>1, <2>4, PruneIs
    <3>3. Expired(seen[i]) => Expired(v) BY <1>2, <1>3, <2>1, <3>1 DEF Expired
    <3> QED BY <2>1, <2>2, <3>1, <3>2, <3>3
  <2> QED BY <2>3, <2>4
<1> QED BY <1>5, <1>6, <1>7, <1>8 DEF StoreParts

(* An item is recorded with a time that is not before what was written.    *)
LEMMA StoreRecords ==
    ASSUME RelayInvariant, NEW i \in Ids, NEW c \in Nat \ {0}, c <= now,
           \A v \in Written(i) : v <= c, seen[i] <= c,
           seen' = [seen EXCEPT ![i] = c], Queue(ItemLine(i, c)),
           handled' = handled \union {i}, UNCHANGED <<now, logFile, snapshot>>
    PROVE  /\ StoreParts'
           /\ appends' \in Seq(Lines) /\ seen' \in [Ids -> Nat]
           /\ \A j \in Ids : j # i => Written(j)' = Written(j) /\ seen'[j] = seen[j]
<1>1. SeenTypeOK /\ LinesAreTimed /\ AllHandled /\ FilesAreBehind /\ DroppedIsOldest
  BY DEF RelayInvariant, TypeInvariant
<1>2. now \in Nat /\ RETENTION \in Nat /\ seen \in [Ids -> Nat] /\ appends \in Seq(Lines)
  BY <1>1, SeenConstants DEF SeenTypeOK
<1>3. ItemLine(i, c) \in Lines /\ ItemLine(i, c).t = "item" /\ ItemLine(i, c).k = i
      /\ ItemLine(i, c).v = c
  BY DEF ItemLine, Lines
<1>4. /\ appends' \in Seq(Lines)
      /\ \A j : Queued(j)' = Queued(j) \union (IF j = i THEN {c} ELSE {})
  <2>1. appends' = Append(appends, ItemLine(i, c)) BY DEF Queue
  <2>2. \A j : /\ Append(appends, ItemLine(i, c)) \in Seq(Lines)
               /\ Lined(Append(appends, ItemLine(i, c)), j) = Lined(appends, j) \union
                    (IF ItemLine(i, c).t = "item" /\ ItemLine(i, c).k = j THEN {ItemLine(i, c).v} ELSE {})
    BY <1>2, <1>3, LinedAppend
  <2>3. \A j : Queued(j)' = Queued(j) \union
             (IF ItemLine(i, c).t = "item" /\ ItemLine(i, c).k = j THEN {ItemLine(i, c).v} ELSE {})
    BY <2>1, <2>2 DEF Queued
  <2> QED BY <1>3, <2>1, <2>2, <2>3
<1>5. /\ \A j : Logged(j)' = Logged(j) /\ OnDisk' = OnDisk
      /\ \A j : Written(j)' = Written(j) \union (IF j = i THEN {c} ELSE {})
  <2>1. \A j : Logged(j)' = Logged(j) /\ OnDisk' = OnDisk BY DEF Logged, OnDisk
  <2>2. \A j : /\ Written(j)' = {snapshot.seen[j]} \union Logged(j)' \union Queued(j)'
               /\ Written(j) = {snapshot.seen[j]} \union Logged(j) \union Queued(j)
    BY DEF Written, Logged, Queued
  <2> QED BY <1>4, <2>1, <2>2
<1>6. seen' \in [Ids -> Nat] /\ seen'[i] = c /\ \A j \in Ids : j # i => seen'[j] = seen[j]
  BY <1>2
<1>7. \A j \in Ids : Written(j) \subseteq Nat /\ seen[j] \in Nat /\ Queued(j) \subseteq Nat
                     /\ OnDisk.seen[j] \in Nat /\ OnDisk.seen[j] \in Written(j)
                     /\ Queued(j) \subseteq Written(j)
  BY <1>1, DiskIs DEF Written, Queued
<1>8. LinesAreTimed'
  <2> SUFFICES ASSUME NEW j \in Ids
               PROVE  /\ 0 \notin Queued(j)' \union Logged(j)'
                      /\ seen'[j] <= now' /\ \A v \in Written(j)' : v <= now'
    BY DEF LinesAreTimed, Queued, Logged
  <2>1. /\ 0 \notin Queued(j) \union Logged(j) /\ seen[j] <= now
        /\ \A v \in Written(j) : v <= now
    BY <1>1 DEF LinesAreTimed, Queued, Logged
  <2> QED BY <1>4, <1>5, <1>6, <2>1
<1>9. AllHandled'
  <2> SUFFICES ASSUME NEW j \in Ids, seen'[j] # 0 \/ \E v \in Written(j)' : v # 0
               PROVE  j \in handled'
    BY DEF AllHandled
  <2> QED BY <1>1, <1>5, <1>6 DEF AllHandled
<1>10. FilesAreBehind'
  <2> SUFFICES ASSUME NEW j \in Ids, seen'[j] # 0
               PROVE  /\ \E v \in Written(j)' : v # 0
                      /\ OnDisk'.seen[j] <= seen'[j]
                      /\ \A v \in Queued(j)' : v <= seen'[j]
    BY DEF FilesAreBehind, Queued
  <2>1. CASE j = i
    <3>1. c \in Written(i)' /\ c # 0 /\ c <= c BY <1>5
    <3>2. OnDisk'.seen[i] = OnDisk.seen[i] /\ OnDisk.seen[i] \in Written(i) BY <1>5, <1>7
    <3>3. OnDisk'.seen[i] <= c BY <3>2
    <3>4. \A v \in Queued(i)' : v = c \/ v \in Written(i) BY <1>4, <1>7
    <3>5. \A v \in Queued(i)' : v <= c BY <3>1, <3>4
    <3> QED BY <1>6, <2>1, <3>1, <3>3, <3>5
  <2>2. CASE j # i BY <1>1, <1>4, <1>5, <1>6, <2>2 DEF FilesAreBehind, Queued
  <2> QED BY <2>1, <2>2
<1>11. DroppedIsOldest'
  <2> SUFFICES ASSUME NEW j \in Ids, seen'[j] = 0,
                      NEW v \in {OnDisk'.seen[j]} \union Queued(j)', v # 0
               PROVE  Expired(v)' \/ Crowded(v)'
    BY DEF DroppedIsOldest, Queued
  <2>1. j # i /\ seen[j] = 0 BY <1>6
  <2>2. v \in {OnDisk.seen[j]} \union Queued(j) /\ v \in Nat BY <1>4, <1>5, <1>7, <2>1
  <2>3. Expired(v) \/ Crowded(v) BY <1>1, <2>1, <2>2 DEF DroppedIsOldest, Queued
  <2>4. Expired(v)' <=> Expired(v) BY DEF Expired
  <2>5. \A k \in Ids : seen[k] # 0 /\ seen[k] >= v => seen'[k] # 0 /\ seen'[k] >= v
    <3> SUFFICES ASSUME NEW k \in Ids, seen[k] # 0, seen[k] >= v
                 PROVE  seen'[k] # 0 /\ seen'[k] >= v
      OBVIOUS
    <3>1. CASE k = i BY <1>2, <1>6, <2>2, <3>1
    <3>2. CASE k # i BY <1>6, <3>2
    <3> QED BY <3>1, <3>2
  <2>6. Crowded(v) => Crowded(v)'
    <3>1. v <= v BY <2>2
    <3> QED BY <1>2, <1>6, <2>2, <2>5, <3>1, CrowdGrows
  <2> QED BY <2>3, <2>4, <2>6
<1> QED BY <1>4, <1>5, <1>6, <1>8, <1>9, <1>10, <1>11 DEF StoreParts

(* Steps that leave records, queue and files alone.                        *)
LEMMA StoreStill ==
    ASSUME RelayInvariant, UNCHANGED <<now, seen, appends, snapshot, logFile, handled>>
    PROVE  StoreParts' /\ \A i \in Ids : Written(i)' = Written(i)
<1>1. \A i \in Ids : /\ Written(i)' = Written(i) /\ Queued(i)' = Queued(i)
                     /\ Logged(i)' = Logged(i)
  BY DEF Written, Queued, Logged
<1>2. OnDisk' = OnDisk BY DEF OnDisk
<1>3. now \in Nat BY DEF RelayInvariant, TypeInvariant, SeenTypeOK
<1>4. now' \in Nat /\ now <= now' BY <1>3
<1> QED BY <1>1, <1>2, <1>4, StoreKept

-----------------------------------------------------------------------------
(* Claims                                                                  *)

(* The threads and the claims stay as they are.                            *)
LEMMA ClaimsKept ==
    ASSUME RelayInvariant, UNCHANGED <<threadVars, pending>>, now' \in Nat, now <= now',
           \A i \in pending : seen'[i] = 0 /\ Written(i)' \subseteq Written(i) \union {0}
    PROVE  ClaimsAreHeld'
<1>1. ClaimsAreHeld /\ now \in Nat /\ claimed \in [Requests -> Nat] /\ SeenTypeOK
  BY DEF RelayInvariant, TypeInvariant, RelayTypeOK, SeenTypeOK
<1>2. \A r \in Requests : Holds(r)' = Holds(r) BY DEF Holds, threadVars
<1>3. ASSUME NEW r \in Requests, Holds(r)
      PROVE  /\ item[r] \in pending /\ claimed[r] # 0 /\ claimed[r] <= now'
             /\ \A v \in Written(item[r])' : v <= claimed[r]
  <2>1. /\ item[r] \in pending /\ claimed[r] # 0 /\ claimed[r] <= now
        /\ \A v \in Written(item[r]) : v <= claimed[r]
    BY <1>1, <1>3 DEF ClaimsAreHeld
  <2>2. claimed[r] \in Nat BY <1>1
  <2>3. claimed[r] <= now' BY <1>1, <2>1, <2>2
  <2>4. 0 <= claimed[r] BY <2>2
  <2>5. Written(item[r])' \subseteq Written(item[r]) \union {0} BY <2>1 DEF threadVars
  <2> QED BY <2>1, <2>3, <2>4, <2>5
<1> QED BY <1>1, <1>2, <1>3 DEF ClaimsAreHeld, threadVars

(* One request moves: it takes an item, claims it, goes on with it or      *)
(* leaves it.                                                              *)
LEMMA ClaimsMove ==
    ASSUME RelayInvariant, NEW r \in Requests, NEW dest \in Steps, Goto(r, dest), now' = now,
           \A s \in Requests \ {r} :
               /\ item'[s] = item[s] /\ claimed'[s] = claimed[s]
               /\ Holds(s) => /\ item[s] \in pending'
                              /\ \A i \in Ids : i = item[s] => Written(i)' = Written(i)
                              /\ Holds(r)' => item[s] # item'[r],
           dest # "idle" => item'[r] \in Ids,
           Holds(r)' => /\ item'[r] \in pending' /\ claimed'[r] # 0 /\ claimed'[r] <= now
                        /\ \A v \in Written(item[r])' : v <= claimed'[r],
           \A i \in pending' : seen'[i] = 0
    PROVE  ClaimsAreHeld'
<1>1. ClaimsAreHeld /\ pc \in [Requests -> Steps]
  BY DEF RelayInvariant, TypeInvariant, RelayTypeOK
<1>2. pc'[r] = dest /\ \A s \in Requests \ {r} : pc'[s] = pc[s] BY <1>1 DEF Goto
<1>3. \A s \in Requests \ {r} : Holds(s)' = Holds(s) BY <1>2 DEF Holds
<1>4. \A s \in Requests : pc'[s] # "idle" => item'[s] \in Ids
  <2> SUFFICES ASSUME NEW s \in Requests, pc'[s] # "idle" PROVE item'[s] \in Ids OBVIOUS
  <2>1. CASE s = r BY <1>2, <2>1
  <2>2. CASE s # r BY <1>1, <1>2, <2>2 DEF ClaimsAreHeld
  <2> QED BY <2>1, <2>2
<1>5. ASSUME NEW s \in Requests, Holds(s)'
      PROVE  /\ item'[s] \in pending' /\ claimed'[s] # 0 /\ claimed'[s] <= now'
             /\ \A v \in Written(item[s])' : v <= claimed'[s]
  <2>1. CASE s = r BY <1>5, <2>1
  <2>2. CASE s # r
    <3>1. Holds(s) /\ item'[s] = item[s] /\ claimed'[s] = claimed[s] BY <1>3, <1>5, <2>2
    <3>2. item[s] \in pending' BY <2>2, <3>1
    <3>3. /\ claimed[s] # 0 /\ claimed[s] <= now
          /\ \A v \in Written(item[s]) : v <= claimed[s]
      BY <1>1, <3>1 DEF ClaimsAreHeld
    <3>4. PICK i \in Ids : i = item[s] BY <1>1, <3>1 DEF ClaimsAreHeld, Holds
    <3>5. Written(i)' = Written(i) /\ i = item'[s] BY <2>2, <3>1, <3>4
    <3>6. Written(item[s])' = Written(i)' BY <3>5
    <3> QED BY <3>1, <3>2, <3>3, <3>4, <3>5, <3>6
  <2> QED BY <2>1, <2>2
<1>6. ASSUME NEW s \in Requests, NEW t \in Requests, Holds(s)', Holds(t)', item'[s] = item'[t]
      PROVE  s = t
  <2>1. CASE s # r /\ t # r BY <1>1, <1>3, <1>6, <2>1 DEF ClaimsAreHeld
  <2>2. CASE s = r /\ t # r BY <1>3, <1>6, <2>2
  <2>3. CASE s # r /\ t = r BY <1>3, <1>6, <2>3
  <2> QED BY <2>1, <2>2, <2>3
<1> QED BY <1>4, <1>5, <1>6 DEF ClaimsAreHeld

-----------------------------------------------------------------------------
(* Types                                                                   *)

(* What a start loads has the types of memory.                             *)
LEMMA LoadTypes ==
    ASSUME TypeInvariant, Load
    PROVE  /\ seen' \in [Ids -> Nat] /\ markers' \in [Markers -> Nat] /\ logLines' \in Nat
           /\ appends' = <<>> /\ appends' \in Seq(Lines)
           /\ \A i \in Ids : seen'[i] = IF OnDisk.seen[i] # 0 /\ Expired(OnDisk.seen[i])
                                        THEN 0 ELSE OnDisk.seen[i]
<1>1. SeenTypeOK BY DEF TypeInvariant
<1>2. logFile \in Seq(Lines) /\ snapshot.markers \in [Markers -> Nat] BY <1>1 DEF SeenTypeOK
<1>3. \A i \in Ids : OnDisk.seen[i] \in Nat BY <1>1, DiskIs
<1>4. \A i \in Ids : seen'[i] = IF OnDisk.seen[i] # 0 /\ Expired(OnDisk.seen[i])
                                THEN 0 ELSE OnDisk.seen[i]
  BY DEF Load, Pruned
<1>5. seen' = [i \in Ids |-> IF OnDisk.seen[i] # 0 /\ Expired(OnDisk.seen[i])
                             THEN 0 ELSE OnDisk.seen[i]]
  BY DEF Load, Pruned
<1>6. seen' \in [Ids -> Nat] BY <1>3, <1>5
<1>7. markers' = [m \in Markers |-> LastValue(logFile, "marker", m, snapshot.markers[m])]
  BY DEF Load, OnDisk, Replay
<1>8. \A m \in Markers : LastValue(logFile, "marker", m, snapshot.markers[m]) \in Nat
  BY <1>2, LastType
<1>9. markers' \in [Markers -> Nat] BY <1>7, <1>8
<1>10. logLines' \in Nat
  <2> DEFINE whole == {n \in DOMAIN logFile : logFile[n] # Torn}
  <2>1. DOMAIN logFile = 1..Len(logFile) /\ Len(logFile) \in Nat BY <1>2, LenProperties
  <2>2. IsFiniteSet(1..Len(logFile)) BY <2>1, FS_Interval
  <2>3. IsFiniteSet(whole) BY <2>1, <2>2, FS_Subset
  <2>4. logLines' = Cardinality(whole) BY DEF Load
  <2> HIDE DEF whole
  <2> QED BY <2>3, <2>4, FS_CardinalityType
<1>11. appends' = <<>> /\ <<>> \in Seq(Lines) BY EmptySeq DEF Load
<1> QED BY <1>4, <1>6, <1>9, <1>10, <1>11

(* Types are kept.                                                         *)
LEMMA TypeKept ==
    ASSUME RelayInvariant, [Next]_vars
    PROVE  TypeInvariant'
<1>1. SeenTypeOK /\ RelayTypeOK /\ ClaimsAreHeld BY DEF RelayInvariant, TypeInvariant
<1>2. /\ now \in Nat \ {0} /\ seen \in [Ids -> Nat] /\ markers \in [Markers -> Nat]
      /\ pending \subseteq Ids /\ appends \in Seq(Lines) /\ logFile \in Seq(Lines)
      /\ logLines \in Nat /\ saving \in {"no", "due", "replaced"}
      /\ snapshot \in [seen : [Ids -> Nat], markers : [Markers -> Nat]]
  BY <1>1 DEF SeenTypeOK
<1>3. /\ proc \in {"up", "stopping", "flushed", "closing", "down"}
      /\ pc \in [Requests -> Steps] /\ item \in [Requests -> Ids \union {NoItem}]
      /\ claimed \in [Requests -> Nat] /\ alerted \in [Ids -> Nat] /\ handled \subseteq Ids
      /\ stops \in Nat /\ failures \in Nat
  BY <1>1 DEF RelayTypeOK
<1>4. /\ \A dest \in Steps, r \in Requests : Goto(r, dest) => pc' \in [Requests -> Steps]
      /\ \A r \in Requests : Leave(r) => /\ pc' \in [Requests -> Steps]
                                         /\ item' \in [Requests -> Ids \union {NoItem}]
                                         /\ claimed' \in [Requests -> Nat]
  BY <1>3 DEF Goto, Leave, Steps
<1>5. /\ \A i \in Ids, t \in Nat : Queue(ItemLine(i, t)) => appends' \in Seq(Lines)
      /\ \A m \in Markers, t \in Nat : Queue(MarkerLine(m, t)) => appends' \in Seq(Lines)
  <2>1. \A line \in Lines : Append(appends, line) \in Seq(Lines) BY <1>2, AppendProperties
  <2>2. \A i \in Ids, t \in Nat : ItemLine(i, t) \in Lines BY DEF ItemLine, Lines
  <2>3. \A m \in Markers, t \in Nat : MarkerLine(m, t) \in Lines BY DEF MarkerLine, Lines
  <2> QED BY <2>1, <2>2, <2>3 DEF Queue
<1>6. \A r \in Requests : pc[r] # "idle" => item[r] \in Ids BY <1>1 DEF ClaimsAreHeld
<1>7. ASSUME SeenTypeOK', RelayTypeOK' PROVE TypeInvariant' BY <1>7 DEF TypeInvariant
<1>8. UNCHANGED seenVars => SeenTypeOK'
  BY <1>2 DEF SeenTypeOK, seenVars, memoryVars, diskVars
<1>9. UNCHANGED <<threadVars, ghostVars, proc, stops, failures>> => RelayTypeOK'
  BY <1>3 DEF RelayTypeOK, threadVars, ghostVars
<1>10. ASSUME NEW r \in Requests, RequestStep(r) PROVE TypeInvariant'
  <2>1. CASE Look(r)
    <3>1. /\ pc' \in [Requests -> Steps] /\ item' \in [Requests -> Ids \union {NoItem}]
          /\ UNCHANGED <<seenVars, proc, claimed, ghostVars, stops, failures>>
      BY <1>2, <1>3, <1>4, <2>1 DEF Look, Steps
    <3> QED BY <1>3, <1>7, <1>8, <3>1 DEF RelayTypeOK, ghostVars
  <2>2. CASE CheckNew(r)
    <3>1. /\ pc' \in [Requests -> Steps] /\ item' \in [Requests -> Ids \union {NoItem}]
          /\ claimed' \in [Requests -> Nat]
          /\ UNCHANGED <<seenVars, proc, ghostVars, stops, failures>>
      BY <1>3, <1>4, <2>2 DEF CheckNew, Steps
    <3> QED BY <1>3, <1>7, <1>8, <3>1 DEF RelayTypeOK, ghostVars
  <2>3. CASE Filter(r)
    <3>1. /\ pc' \in [Requests -> Steps] /\ item' \in [Requests -> Ids \union {NoItem}]
          /\ claimed' \in [Requests -> Nat] /\ item[r] \in Ids
          /\ UNCHANGED <<proc, alerted, stops, failures>>
      BY <1>4, <1>6, <2>3 DEF Filter
    <3>2. CASE MarkSeen(item[r]) /\ handled' = handled \union {item[r]}
      <4>1. appends' \in Seq(Lines) /\ seen' \in [Ids -> Nat]
        BY <1>2, <1>5, <3>1, <3>2 DEF MarkSeen
      <4>2. SeenTypeOK' BY <1>2, <3>2, <4>1 DEF MarkSeen, SeenTypeOK, diskVars
      <4>3. handled' \subseteq Ids BY <1>3, <3>1, <3>2
      <4> QED BY <1>3, <1>7, <3>1, <4>2, <4>3 DEF RelayTypeOK
    <3>3. CASE UNCHANGED <<seenVars, handled>>
      BY <1>3, <1>7, <1>8, <3>1, <3>3 DEF RelayTypeOK
    <3> QED BY <2>3, <3>2, <3>3 DEF Filter
  <2>4. CASE Match(r)
    <3>1. UNCHANGED <<proc, ghostVars, stops, failures>> BY <2>4 DEF Match
    <3>2. /\ pc' \in [Requests -> Steps] /\ item' \in [Requests -> Ids \union {NoItem}]
          /\ claimed' \in [Requests -> Nat]
      BY <1>2, <1>3, <1>4, <2>4 DEF Match, Steps
    <3>3. SeenTypeOK'
      <4>1. CASE Claim(item[r]) /\ Goto(r, "sending")
        <5>1. item[r] \in Ids BY <1>6, <2>4 DEF Match
        <5> QED BY <1>2, <4>1, <5>1 DEF Claim, SeenTypeOK, diskVars
      <4>2. CASE UNCHANGED seenVars BY <1>8, <4>2
      <4> QED BY <2>4, <4>1, <4>2 DEF Match
    <3> QED BY <1>3, <1>7, <3>1, <3>2, <3>3 DEF RelayTypeOK, ghostVars
  <2>5. CASE Deliver(r)
    <3>1. /\ pc' \in [Requests -> Steps] /\ alerted' \in [Ids -> Nat]
          /\ UNCHANGED <<seenVars, proc, item, claimed, handled, stops, failures>>
      BY <1>3, <1>4, <2>5 DEF Deliver, Steps
    <3> QED BY <1>3, <1>7, <1>8, <3>1 DEF RelayTypeOK
  <2>6. CASE NotDelivered(r)
    <3>1. /\ pc' \in [Requests -> Steps] /\ failures' \in Nat
          /\ UNCHANGED <<seenVars, proc, item, claimed, ghostVars, stops>>
      BY <1>3, <1>4, <2>6 DEF NotDelivered, Steps
    <3> QED BY <1>3, <1>7, <1>8, <3>1 DEF RelayTypeOK, ghostVars
  <2>7. CASE Settle(r)
    <3>1. /\ pc' \in [Requests -> Steps] /\ item' \in [Requests -> Ids \union {NoItem}]
          /\ claimed' \in [Requests -> Nat]
          /\ UNCHANGED <<proc, alerted, stops, failures>>
      BY <1>4, <2>7 DEF Settle
    <3>2. CASE /\ pc[r] = "delivered" /\ Commit(item[r], claimed[r])
               /\ handled' = handled \union {item[r]}
      <4>1. item[r] \in Ids /\ claimed[r] \in Nat BY <1>3, <1>6, <3>2
      <4>2. appends' \in Seq(Lines) /\ seen' \in [Ids -> Nat] /\ pending' \subseteq Ids
        BY <1>2, <1>5, <3>2, <4>1 DEF Commit
      <4>3. SeenTypeOK' BY <1>2, <3>2, <4>2 DEF Commit, SeenTypeOK, diskVars
      <4>4. handled' \subseteq Ids BY <1>3, <3>2, <4>1
      <4> QED BY <1>3, <1>7, <3>1, <4>3, <4>4 DEF RelayTypeOK
    <3>3. CASE Release(item[r]) /\ UNCHANGED handled
      <4>1. SeenTypeOK' BY <1>2, <3>3 DEF Release, ReleaseForgets, SeenTypeOK, diskVars
      <4> QED BY <1>3, <1>7, <3>1, <3>3, <4>1 DEF RelayTypeOK
    <3> QED BY <2>7, <3>2, <3>3 DEF Settle
  <2> QED BY <1>10, <2>1, <2>2, <2>3, <2>4, <2>5, <2>6, <2>7 DEF RequestStep
<1>11. CASE Mark
  <2>1. PICK m \in Markers : SetMarker(m, markers[m] + 1) BY <1>11 DEF Mark
  <2>2. markers[m] + 1 \in Nat BY <1>2
  <2>3. appends' \in Seq(Lines) BY <1>5, <2>1, <2>2 DEF SetMarker
  <2>4. SeenTypeOK' BY <1>2, <2>1, <2>2, <2>3 DEF SetMarker, SeenTypeOK, diskVars
  <2>5. RelayTypeOK' BY <1>9, <1>11 DEF Mark, relayVars
  <2> QED BY <1>7, <2>4, <2>5
<1>12. CASE FlushNow
  <2>1. RelayTypeOK'
    BY <1>3, <1>12 DEF FlushNow, Flushed, RelayTypeOK, threadVars, ghostVars
  <2>2. CASE Flush
    <3>1. logFile' \in Seq(Lines) BY <1>2, <2>2, LinedConcat DEF Flush, Appended
    <3>2. appends' \in Seq(Lines) BY <2>2, EmptySeq DEF Flush
    <3>3. Len(appends) \in Nat BY <1>2, LenProperties
    <3> QED BY <1>2, <1>7, <2>1, <2>2, <3>1, <3>2, <3>3 DEF Flush, SeenTypeOK
  <2> QED BY <1>7, <1>8, <1>12, <2>1, <2>2 DEF FlushNow
<1>13. CASE FlushError
  <2>1. RelayTypeOK'
    BY <1>3, <1>13 DEF FlushError, Flushed, RelayTypeOK, threadVars, ghostVars
  <2>2. PICK part \in PartOf(appends) :
           logFile' = IF part = <<>> THEN logFile ELSE Appended(logFile, part)
    BY <1>13 DEF FlushError, FlushFails
  <2>3. part \in Seq(Lines) BY <1>2, PartIs
  <2>4. logFile' \in Seq(Lines) BY <1>2, <2>2, <2>3, LinedConcat DEF Appended
  <2>5. SeenTypeOK' BY <1>2, <1>13, <2>4 DEF FlushError, FlushFails, SeenTypeOK, memoryVars
  <2> QED BY <1>7, <2>1, <2>5
<1>14. ASSUME Dropped PROVE alerted' \in [Ids -> Nat] /\ handled' \subseteq Ids
  BY <1>3, <1>14 DEF Dropped
<1>15. CASE SaveStep
  <2>1. RelayTypeOK' BY <1>3, <1>14, <1>15 DEF SaveStep, RelayTypeOK, threadVars
  <2>2. CASE ReplaceSnapshot
    <3>1. seen' \in [Ids -> Nat] BY <1>1, <2>2, PruneIs DEF ReplaceSnapshot
    <3>2. appends' \in Seq(Lines) BY <2>2, EmptySeq DEF ReplaceSnapshot
    <3> QED BY <1>2, <1>7, <2>1, <2>2, <3>1, <3>2 DEF ReplaceSnapshot, SeenTypeOK
  <2>3. CASE UnlinkLog
    <3>1. logFile' \in Seq(Lines) BY <2>3, EmptySeq DEF UnlinkLog
    <3> QED BY <1>2, <1>7, <2>1, <2>3, <3>1 DEF UnlinkLog, LinesReset, SeenTypeOK
  <2> QED BY <1>15, <2>2, <2>3 DEF SaveStep
<1>16. CASE SaveError
  <2>1. RelayTypeOK' BY <1>3, <1>14, <1>16 DEF SaveError, RelayTypeOK, threadVars
  <2>2. CASE ReplaceFails
    <3>1. seen' \in [Ids -> Nat] BY <1>1, <2>2, PruneIs DEF ReplaceFails
    <3> QED BY <1>2, <1>7, <2>1, <2>2, <3>1 DEF ReplaceFails, SeenTypeOK, diskVars
  <2>3. CASE UnlinkFails BY <1>2, <1>7, <2>1, <2>3 DEF UnlinkFails, SeenTypeOK, diskVars
  <2> QED BY <1>16, <2>2, <2>3 DEF SaveError
<1>17. CASE Close
  BY <1>3, <1>7, <1>8, <1>17 DEF Close, RelayTypeOK, threadVars, ghostVars
<1>18. CASE CloseSave
  BY <1>2, <1>3, <1>7, <1>18 DEF CloseSave, RelayTypeOK, SeenTypeOK, threadVars, ghostVars, diskVars
<1>19. CASE Kill
  <2>1. RelayTypeOK' BY <1>3, <1>19 DEF Kill, RelayTypeOK, threadVars, ghostVars
  <2>2. logFile' \in Seq(Lines)
    <3>1. CASE UNCHANGED logFile BY <1>2, <3>1
    <3>2. CASE \E part \in PartOf(appends) \ {<<>>} : logFile' = Appended(logFile, part)
      BY <1>2, <3>2, PartIs, LinedConcat DEF Appended
    <3> QED BY <1>19, <3>1, <3>2 DEF Kill
  <2> QED BY <1>2, <1>7, <1>19, <2>1, <2>2 DEF Kill, SeenTypeOK, memoryVars
<1>20. CASE Start
  <2>1. TypeInvariant /\ Load BY <1>1, <1>20 DEF TypeInvariant, Start
  <2>2. /\ seen' \in [Ids -> Nat] /\ markers' \in [Markers -> Nat] /\ logLines' \in Nat
        /\ appends' \in Seq(Lines)
    BY <2>1, LoadTypes
  <2>3. SeenTypeOK' BY <1>2, <2>1, <2>2 DEF Load, SeenTypeOK, diskVars
  <2>4. RelayTypeOK' BY <1>3, <1>20 DEF Start, RelayTypeOK, Steps
  <2> QED BY <1>7, <2>3, <2>4
<1>21. CASE Tick
  <2>1. SeenTypeOK' BY <1>2, <1>21 DEF Tick, SeenTypeOK, memoryVars, diskVars
  <2>2. RelayTypeOK' BY <1>9, <1>21 DEF Tick, relayVars
  <2> QED BY <1>7, <2>1, <2>2
<1>22. CASE UNCHANGED vars BY <1>7, <1>8, <1>9, <1>22 DEF vars, relayVars
<1> QED BY <1>10, <1>11, <1>12, <1>13, <1>15, <1>16, <1>17, <1>18, <1>19, <1>20, <1>21, <1>22
    DEF Next

-----------------------------------------------------------------------------
(* Steps of the requests                                                   *)

Deeper == ClaimsAreHeld /\ StoreParts /\ ReplacedIsSaved /\ AlertIsRecorded

(* Every alert stays with its record, or with the request that brings one. *)
LEMMA AlertsKept ==
    ASSUME AlertIsRecorded, alerted' = alerted, \A i \in Ids : seen[i] # 0 => seen'[i] # 0,
           \A s \in Requests : pc[s] = "delivered" =>
               \/ pc'[s] = "delivered" /\ item'[s] = item[s]
               \/ seen'[item[s]] # 0
    PROVE  AlertIsRecorded'
<1> SUFFICES ASSUME NEW i \in Ids, alerted[i] # 0
             PROVE  seen'[i] # 0 \/ \E s \in Requests : pc'[s] = "delivered" /\ item'[s] = i
  BY DEF AlertIsRecorded
<1>1. CASE seen[i] # 0 BY <1>1
<1>2. CASE seen[i] = 0
  <2>1. PICK s \in Requests : pc[s] = "delivered" /\ item[s] = i BY <1>2 DEF AlertIsRecorded
  <2> QED BY <2>1
<1> QED BY <1>1, <1>2

(* A request that only looks, or gives up, changes no record.              *)
LEMMA LookingKeeps ==
    ASSUME RelayInvariant, NEW r \in Requests, Look(r) \/ CheckNew(r)
    PROVE  Deeper'
<1>1. /\ ClaimsAreHeld /\ ReplacedIsSaved /\ AlertIsRecorded /\ pc \in [Requests -> Steps]
      /\ item \in [Requests -> Ids \union {NoItem}] /\ claimed \in [Requests -> Nat]
      /\ pending \subseteq Ids
  BY DEF RelayInvariant, TypeInvariant, RelayTypeOK, SeenTypeOK
<1>2. UNCHANGED <<seenVars, ghostVars>> BY DEF Look, CheckNew
<1>3. UNCHANGED <<now, seen, appends, snapshot, logFile, handled, pending, saving, alerted>>
  BY <1>2 DEF seenVars, memoryVars, diskVars, ghostVars
<1>4. StoreParts' /\ \A i \in Ids : Written(i)' = Written(i) BY <1>3, StoreStill
<1>5. PICK dest \in {"idle", "looked", "new"} :
         /\ Goto(r, dest) /\ pc[r] \in {"idle", "looked"}
         /\ dest # "idle" => item'[r] \in Ids
         /\ \A s \in Requests \ {r} : item'[s] = item[s] /\ claimed'[s] = claimed[s]
  <2>1. CASE Look(r) BY <1>1, <2>1 DEF Look
  <2>2. CASE CheckNew(r)
    <3>1. item[r] \in Ids BY <1>1, <2>2 DEF CheckNew, ClaimsAreHeld
    <3> QED BY <1>1, <2>2, <3>1 DEF CheckNew, Leave
  <2> QED BY <2>1, <2>2
<1>6. pc'[r] = dest /\ \A s \in Requests \ {r} : pc'[s] = pc[s] BY <1>1, <1>5 DEF Goto
<1>7. ~Holds(r)' BY <1>5, <1>6 DEF Holds
<1>8. \A i \in pending' : seen'[i] = 0 BY <1>1, <1>3 DEF ClaimsAreHeld
<1>9. \A s \in Requests : Holds(s) => item[s] \in pending' BY <1>1, <1>3 DEF ClaimsAreHeld
<1>10. dest \in Steps BY <1>5 DEF Steps
<1>11. ClaimsAreHeld' BY <1>3, <1>4, <1>5, <1>7, <1>8, <1>9, <1>10, ClaimsMove
<1>12. AlertIsRecorded' BY <1>1, <1>3, <1>5, <1>6, AlertsKept
<1>13. ReplacedIsSaved' BY <1>1, <1>3 DEF ReplacedIsSaved
<1> QED BY <1>4, <1>11, <1>12, <1>13 DEF Deeper

(* A filtered or seeded item is recorded now.                              *)
LEMMA FilterKeeps ==
    ASSUME RelayInvariant, NEW r \in Requests, Filter(r)
    PROVE  Deeper'
<1>1. /\ ClaimsAreHeld /\ ReplacedIsSaved /\ AlertIsRecorded /\ pc \in [Requests -> Steps]
      /\ item \in [Requests -> Ids \union {NoItem}] /\ claimed \in [Requests -> Nat]
      /\ pending \subseteq Ids /\ now \in Nat \ {0} /\ LinesAreTimed /\ seen \in [Ids -> Nat]
  BY DEF RelayInvariant, TypeInvariant, RelayTypeOK, SeenTypeOK
<1>2. pc[r] = "new" /\ Leave(r) /\ alerted' = alerted BY DEF Filter
<1>3. item[r] \in Ids BY <1>1, <1>2 DEF ClaimsAreHeld
<1>4. PICK i \in Ids : i = item[r] BY <1>3
<1>5. /\ Goto(r, "idle") /\ pc'[r] = "idle"
      /\ \A s \in Requests \ {r} : pc'[s] = pc[s] /\ item'[s] = item[s] /\ claimed'[s] = claimed[s]
  BY <1>1, <1>2 DEF Leave, Goto
<1>6. ~Holds(r)' /\ "idle" \in Steps BY <1>5 DEF Holds, Steps
<1>7. CASE MarkSeen(i) /\ handled' = handled \union {i}
  <2>1. /\ i \notin pending /\ seen' = [seen EXCEPT ![i] = now] /\ Queue(ItemLine(i, now))
        /\ UNCHANGED <<now, snapshot, logFile, pending, saving>> /\ saving = "no"
    BY <1>7 DEF MarkSeen, Unlocked, diskVars
  <2>2. /\ now \in Nat \ {0} /\ now <= now /\ seen[i] <= now
        /\ \A v \in Written(i) : v <= now
    BY <1>1 DEF LinesAreTimed
  <2>3. /\ StoreParts'
        /\ \A j \in Ids : j # i => Written(j)' = Written(j) /\ seen'[j] = seen[j]
    BY <1>7, <2>1, <2>2, StoreRecords
  <2>4. \A j \in pending' : seen'[j] = 0 BY <1>1, <2>1, <2>3 DEF ClaimsAreHeld
  <2>5. \A s \in Requests : Holds(s) => item[s] \in pending' /\ item[s] # i
    BY <1>1, <2>1 DEF ClaimsAreHeld
  <2>6. ClaimsAreHeld' BY <1>5, <1>6, <2>1, <2>3, <2>4, <2>5, ClaimsMove
  <2>7. \A j \in Ids : seen[j] # 0 => seen'[j] # 0 BY <1>1, <2>1
  <2>8. AlertIsRecorded' BY <1>1, <1>2, <1>5, <2>7, AlertsKept
  <2>9. ReplacedIsSaved' BY <2>1 DEF ReplacedIsSaved
  <2> QED BY <2>3, <2>6, <2>8, <2>9 DEF Deeper
<1>8. CASE UNCHANGED <<seenVars, handled>>
  <2>1. UNCHANGED <<now, seen, appends, snapshot, logFile, handled, pending, saving>>
    BY <1>8 DEF seenVars, memoryVars, diskVars
  <2>2. StoreParts' /\ \A j \in Ids : Written(j)' = Written(j) BY <2>1, StoreStill
  <2>3. \A j \in pending' : seen'[j] = 0 BY <1>1, <2>1 DEF ClaimsAreHeld
  <2>4. \A s \in Requests : Holds(s) => item[s] \in pending' BY <1>1, <2>1 DEF ClaimsAreHeld
  <2>5. ClaimsAreHeld' BY <1>5, <1>6, <2>1, <2>2, <2>3, <2>4, ClaimsMove
  <2>6. AlertIsRecorded' BY <1>1, <1>2, <1>5, <2>1, AlertsKept
  <2>7. ReplacedIsSaved' BY <1>1, <2>1 DEF ReplacedIsSaved
  <2> QED BY <2>2, <2>5, <2>6, <2>7 DEF Deeper
<1> QED BY <1>4, <1>7, <1>8 DEF Filter

(* A claim is later than whatever was written about the item.              *)
LEMMA MatchKeeps ==
    ASSUME RelayInvariant, NEW r \in Requests, Match(r)
    PROVE  Deeper'
<1>1. /\ ClaimsAreHeld /\ ReplacedIsSaved /\ AlertIsRecorded /\ pc \in [Requests -> Steps]
      /\ item \in [Requests -> Ids \union {NoItem}] /\ claimed \in [Requests -> Nat]
      /\ pending \subseteq Ids /\ now \in Nat \ {0} /\ LinesAreTimed /\ seen \in [Ids -> Nat]
  BY DEF RelayInvariant, TypeInvariant, RelayTypeOK, SeenTypeOK
<1>2. pc[r] = "new" /\ UNCHANGED ghostVars BY DEF Match
<1>3. item[r] \in Ids BY <1>1, <1>2 DEF ClaimsAreHeld
<1>4. alerted' = alerted /\ handled' = handled BY <1>2 DEF ghostVars
<1>5. UNCHANGED <<now, seen, appends, snapshot, logFile, saving>>
  BY DEF Match, Claim, seenVars, memoryVars, diskVars
<1>6. StoreParts' /\ \A j \in Ids : Written(j)' = Written(j) BY <1>4, <1>5, StoreStill
<1>7. ReplacedIsSaved' BY <1>1, <1>5 DEF ReplacedIsSaved
<1>8. CASE Claim(item[r]) /\ claimed' = [claimed EXCEPT ![r] = now] /\ Goto(r, "sending")
           /\ item' = item
  <2>1. /\ item[r] \notin pending /\ seen[item[r]] = 0 /\ pending' = pending \union {item[r]}
    BY <1>8 DEF Claim, Claimable
  <2>2. /\ pc'[r] = "sending" /\ claimed'[r] = now
        /\ \A s \in Requests \ {r} : pc'[s] = pc[s] /\ item'[s] = item[s] /\ claimed'[s] = claimed[s]
    BY <1>1, <1>8 DEF Goto
  <2>3. \A j \in pending' : seen'[j] = 0 BY <1>1, <1>5, <2>1 DEF ClaimsAreHeld
  <2>4. \A s \in Requests : Holds(s) => item[s] \in pending' /\ item[s] # item[r]
    BY <1>1, <2>1 DEF ClaimsAreHeld
  <2>5. \A v \in Written(item[r])' : v <= now
    <3>1. PICK i \in Ids : i = item[r] /\ i = item'[r] BY <1>3, <1>8
    <3>2. Written(i)' = Written(i) /\ \A v \in Written(i) : v <= now
      BY <1>1, <1>6 DEF LinesAreTimed
    <3>3. Written(item[r])' = Written(i)' BY <3>1
    <3> QED BY <3>2, <3>3
  <2>6. now # 0 /\ now <= now /\ "sending" \in Steps BY <1>1 DEF Steps
  <2>7. /\ \A s \in Requests \ {r} :
              /\ item'[s] = item[s] /\ claimed'[s] = claimed[s]
              /\ Holds(s) => /\ item[s] \in pending'
                             /\ \A j \in Ids : j = item[s] => Written(j)' = Written(j)
                             /\ Holds(r)' => item[s] # item'[r]
        /\ "sending" # "idle" => item'[r] \in Ids
        /\ Holds(r)' => /\ item'[r] \in pending' /\ claimed'[r] # 0 /\ claimed'[r] <= now
                        /\ \A v \in Written(item[r])' : v <= claimed'[r]
    BY <1>3, <1>6, <1>8, <2>1, <2>2, <2>4, <2>5, <2>6
  <2>8. ClaimsAreHeld' BY <1>5, <1>8, <2>3, <2>6, <2>7, ClaimsMove
  <2>9. AlertIsRecorded' BY <1>1, <1>2, <1>4, <1>5, <2>2, AlertsKept
  <2> QED BY <1>6, <1>7, <2>8, <2>9 DEF Deeper
<1>9. CASE Leave(r) /\ UNCHANGED seenVars
  <2>1. pending' = pending BY <1>9 DEF seenVars, memoryVars
  <2>2. /\ Goto(r, "idle") /\ pc'[r] = "idle"
        /\ \A s \in Requests \ {r} : pc'[s] = pc[s] /\ item'[s] = item[s] /\ claimed'[s] = claimed[s]
    BY <1>1, <1>9 DEF Leave, Goto
  <2>3. ~Holds(r)' /\ "idle" \in Steps BY <2>2 DEF Holds, Steps
  <2>4. \A j \in pending' : seen'[j] = 0 BY <1>1, <1>5, <2>1 DEF ClaimsAreHeld
  <2>5. \A s \in Requests : Holds(s) => item[s] \in pending' BY <1>1, <2>1 DEF ClaimsAreHeld
  <2>6. ClaimsAreHeld' BY <1>5, <1>6, <2>2, <2>3, <2>4, <2>5, ClaimsMove
  <2>7. AlertIsRecorded' BY <1>1, <1>2, <1>4, <1>5, <2>2, AlertsKept
  <2> QED BY <1>6, <1>7, <2>6, <2>7 DEF Deeper
<1> QED BY <1>8, <1>9 DEF Match

(* The answer of the provider changes no record.                           *)
LEMMA SendKeeps ==
    ASSUME RelayInvariant, NEW r \in Requests, Deliver(r) \/ NotDelivered(r)
    PROVE  Deeper'
<1>1. /\ ClaimsAreHeld /\ ReplacedIsSaved /\ AlertIsRecorded /\ pc \in [Requests -> Steps]
      /\ item \in [Requests -> Ids \union {NoItem}] /\ claimed \in [Requests -> Nat]
      /\ pending \subseteq Ids /\ now \in Nat \ {0} /\ alerted \in [Ids -> Nat]
  BY DEF RelayInvariant, TypeInvariant, RelayTypeOK, SeenTypeOK
<1>2. pc[r] = "sending" /\ item' = item /\ claimed' = claimed BY DEF Deliver, NotDelivered
<1>3. UNCHANGED <<now, seen, appends, snapshot, logFile, handled, pending, saving>>
  BY DEF Deliver, NotDelivered, seenVars, memoryVars, diskVars, ghostVars
<1>4. StoreParts' /\ \A j \in Ids : Written(j)' = Written(j) BY <1>3, StoreStill
<1>5. ReplacedIsSaved' BY <1>1, <1>3 DEF ReplacedIsSaved
<1>6. PICK dest \in {"delivered", "undelivered"} : Goto(r, dest) BY DEF Deliver, NotDelivered
<1>7. pc'[r] = dest /\ \A s \in Requests \ {r} : pc'[s] = pc[s] BY <1>1, <1>6 DEF Goto
<1>8. Holds(r) BY <1>2 DEF Holds
<1>9. /\ item[r] \in pending /\ claimed[r] # 0 /\ claimed[r] <= now
      /\ \A v \in Written(item[r]) : v <= claimed[r]
  BY <1>1, <1>8 DEF ClaimsAreHeld
<1>10. \A v \in Written(item[r])' : v <= claimed[r]
  <2>1. PICK i \in Ids : i = item[r] /\ i = item'[r] BY <1>1, <1>2, <1>9
  <2>2. Written(i)' = Written(i) /\ Written(item[r])' = Written(i)' BY <1>4, <2>1
  <2> QED BY <1>9, <2>1, <2>2
<1>11. \A j \in pending' : seen'[j] = 0 BY <1>1, <1>3 DEF ClaimsAreHeld
<1>12. \A s \in Requests \ {r} : Holds(s) => item[s] \in pending' /\ item[s] # item[r]
  BY <1>1, <1>3, <1>8 DEF ClaimsAreHeld
<1>13. dest \in Steps BY <1>6 DEF Steps
<1>14. /\ \A s \in Requests \ {r} :
             /\ item'[s] = item[s] /\ claimed'[s] = claimed[s]
             /\ Holds(s) => /\ item[s] \in pending'
                            /\ \A j \in Ids : j = item[s] => Written(j)' = Written(j)
                            /\ Holds(r)' => item[s] # item'[r]
       /\ dest # "idle" => item'[r] \in Ids
       /\ Holds(r)' => /\ item'[r] \in pending' /\ claimed'[r] # 0 /\ claimed'[r] <= now
                       /\ \A v \in Written(item[r])' : v <= claimed'[r]
  BY <1>1, <1>2, <1>3, <1>4, <1>9, <1>10, <1>12
<1>15. ClaimsAreHeld' BY <1>3, <1>6, <1>11, <1>13, <1>14, ClaimsMove
<1>16. AlertIsRecorded'
  <2>1. CASE Deliver(r)
    <3>1. /\ \A i \in Ids : i # item[r] => alerted'[i] = alerted[i]
          /\ pc'[r] = "delivered"
      BY <1>1, <1>7, <2>1 DEF Deliver, Goto
    <3> SUFFICES ASSUME NEW i \in Ids, alerted'[i] # 0
                 PROVE  seen'[i] # 0 \/ \E s \in Requests : pc'[s] = "delivered" /\ item'[s] = i
      BY DEF AlertIsRecorded
    <3>2. CASE i = item[r] BY <1>2, <3>1, <3>2
    <3>3. CASE i # item[r]
      <4>1. seen[i] # 0 \/ \E s \in Requests : pc[s] = "delivered" /\ item[s] = i
        BY <1>1, <3>1, <3>3 DEF AlertIsRecorded
      <4> QED BY <1>2, <1>3, <1>7, <4>1
    <3> QED BY <3>2, <3>3
  <2>2. CASE NotDelivered(r)
    <3>1. alerted' = alerted BY <2>2 DEF NotDelivered, ghostVars
    <3> QED BY <1>1, <1>2, <1>3, <1>7, <3>1, AlertsKept
  <2> QED BY <2>1, <2>2
<1> QED BY <1>4, <1>5, <1>15, <1>16 DEF Deeper

(* A claim ends as a record of its time, or as nothing.                    *)
LEMMA SettleKeeps ==
    ASSUME RelayInvariant, NEW r \in Requests, Settle(r)
    PROVE  Deeper'
<1>1. /\ ClaimsAreHeld /\ ReplacedIsSaved /\ AlertIsRecorded /\ pc \in [Requests -> Steps]
      /\ item \in [Requests -> Ids \union {NoItem}] /\ claimed \in [Requests -> Nat]
      /\ pending \subseteq Ids /\ now \in Nat \ {0} /\ seen \in [Ids -> Nat]
  BY DEF RelayInvariant, TypeInvariant, RelayTypeOK, SeenTypeOK
<1>2. pc[r] \in {"delivered", "undelivered"} /\ Leave(r) /\ alerted' = alerted BY DEF Settle
<1>3. Holds(r) /\ item[r] \in Ids BY <1>1, <1>2 DEF Holds, ClaimsAreHeld
<1>4. PICK i \in Ids : i = item[r] BY <1>3
<1>5. /\ i \in pending /\ claimed[r] \in Nat \ {0} /\ claimed[r] <= now /\ seen[i] = 0
      /\ \A v \in Written(i) : v <= claimed[r]
  BY <1>1, <1>3, <1>4 DEF ClaimsAreHeld
<1>6. /\ Goto(r, "idle") /\ pc'[r] = "idle"
      /\ \A s \in Requests \ {r} : pc'[s] = pc[s] /\ item'[s] = item[s] /\ claimed'[s] = claimed[s]
  BY <1>1, <1>2 DEF Leave, Goto
<1>7. ~Holds(r)' /\ "idle" \in Steps BY <1>6 DEF Holds, Steps
<1>8. \A s \in Requests \ {r} : Holds(s) => item[s] \in pending /\ item[s] # i
  BY <1>1, <1>3, <1>4 DEF ClaimsAreHeld
<1>9. CASE Commit(i, claimed[r]) /\ handled' = handled \union {i}
  <2>1. /\ seen' = [seen EXCEPT ![i] = claimed[r]] /\ Queue(ItemLine(i, claimed[r]))
        /\ UNCHANGED <<now, snapshot, logFile, saving>> /\ pending' = pending \ {i}
        /\ saving = "no"
    BY <1>9 DEF Commit, Unlocked, diskVars
  <2>2. seen[i] <= claimed[r] BY <1>5
  <2>3. /\ StoreParts'
        /\ \A j \in Ids : j # i => Written(j)' = Written(j) /\ seen'[j] = seen[j]
    BY <1>5, <1>9, <2>1, <2>2, StoreRecords
  <2>4. \A j \in pending' : seen'[j] = 0 BY <1>1, <2>1, <2>3 DEF ClaimsAreHeld
  <2>5. \A s \in Requests \ {r} : Holds(s) => item[s] \in pending' BY <1>8, <2>1
  <2>6. ClaimsAreHeld' BY <1>6, <1>7, <1>8, <2>1, <2>3, <2>4, <2>5, ClaimsMove
  <2>7. seen'[i] # 0 /\ \A j \in Ids : seen[j] # 0 => seen'[j] # 0 BY <1>1, <1>5, <2>1
  <2>8. AlertIsRecorded' BY <1>1, <1>2, <1>4, <1>6, <2>7, AlertsKept
  <2>9. ReplacedIsSaved' BY <2>1 DEF ReplacedIsSaved
  <2> QED BY <2>3, <2>6, <2>8, <2>9 DEF Deeper
<1>10. CASE pc[r] = "undelivered" /\ Release(i) /\ UNCHANGED handled
  <2>1. /\ UNCHANGED <<now, seen, appends, snapshot, logFile, handled, saving>>
        /\ pending' = pending \ {i}
    BY <1>10 DEF Release, ReleaseForgets, diskVars
  <2>2. StoreParts' /\ \A j \in Ids : Written(j)' = Written(j) BY <2>1, StoreStill
  <2>3. \A j \in pending' : seen'[j] = 0 BY <1>1, <2>1 DEF ClaimsAreHeld
  <2>4. \A s \in Requests \ {r} : Holds(s) => item[s] \in pending' BY <1>8, <2>1
  <2>5. ClaimsAreHeld' BY <1>6, <1>7, <2>1, <2>2, <2>3, <2>4, ClaimsMove
  <2>6. \A s \in Requests : pc[s] = "delivered" => pc'[s] = "delivered" /\ item'[s] = item[s]
    BY <1>6, <1>10
  <2>7. AlertIsRecorded' BY <1>1, <1>2, <2>1, <2>6, AlertsKept
  <2>8. ReplacedIsSaved' BY <1>1, <2>1 DEF ReplacedIsSaved
  <2> QED BY <2>2, <2>5, <2>7, <2>8 DEF Deeper
<1> QED BY <1>4, <1>9, <1>10 DEF Settle

-----------------------------------------------------------------------------
(* Steps of the other threads                                              *)

(* Markers and flushes; a kill leaves what a flush has written.            *)
LEMMA LinesKeep ==
    ASSUME RelayInvariant, Mark \/ FlushNow \/ FlushError \/ Kill
    PROVE  /\ Deeper'
           /\ \A i \in Ids : OnDisk'.seen[i] \in {OnDisk.seen[i]} \union Queued(i)
<1>1. /\ ClaimsAreHeld /\ ReplacedIsSaved /\ AlertIsRecorded
      /\ now \in Nat \ {0} /\ appends \in Seq(Lines) /\ SeenTypeOK /\ markers \in [Markers -> Nat]
  BY DEF RelayInvariant, TypeInvariant, RelayTypeOK, SeenTypeOK
<1>2. UNCHANGED <<now, seen, pending, snapshot, threadVars, alerted, handled>>
  BY DEF Mark, SetMarker, FlushNow, Flush, FlushError, FlushFails, Kill, seenVars, memoryVars,
     diskVars, relayVars, ghostVars
<1>3. /\ \A i \in Ids : /\ Written(i)' = Written(i) /\ Queued(i)' \subseteq Queued(i)
                        /\ Logged(i)' \subseteq Logged(i) \union Queued(i)
                        /\ OnDisk'.seen[i] \in {OnDisk.seen[i]} \union Queued(i)
  <2>1. CASE Mark
    <3>1. PICK m \in Markers : SetMarker(m, markers[m] + 1) BY <2>1 DEF Mark
    <3>2. /\ appends' = Append(appends, MarkerLine(m, markers[m] + 1)) /\ logFile' = logFile
          /\ MarkerLine(m, markers[m] + 1) \in Lines
          /\ MarkerLine(m, markers[m] + 1).t = "marker"
      BY <1>1, <3>1 DEF SetMarker, Queue, MarkerLine, Lines, diskVars
    <3> DEFINE line == MarkerLine(m, markers[m] + 1)
    <3> HIDE DEF line
    <3>3. line.t # "item" /\ line \in Lines /\ appends' = Append(appends, line) BY <3>2 DEF line
    <3>4. \A i \in Ids : Lined(Append(appends, line), i) = Lined(appends, i) \union
             (IF line.t = "item" /\ line.k = i THEN {line.v} ELSE {})
      BY <1>1, <3>3, LinedAppend
    <3>5. \A i \in Ids : Lined(Append(appends, line), i) = Lined(appends, i)
      BY <3>3, <3>4
    <3>6. \A i \in Ids : Queued(i)' = Queued(i) BY <3>3, <3>5 DEF Queued
    <3>7. \A i \in Ids : Logged(i)' = Logged(i) /\ OnDisk' = OnDisk
      BY <1>2, <3>2 DEF Logged, OnDisk
    <3>8. \A i \in Ids : /\ Written(i)' = {snapshot.seen[i]} \union Logged(i)' \union Queued(i)'
                         /\ Written(i) = {snapshot.seen[i]} \union Logged(i) \union Queued(i)
      BY <1>2 DEF Written, Logged, Queued
    <3> QED BY <3>6, <3>7, <3>8
  <2>2. CASE FlushNow \/ FlushError \/ Kill
    <3>1. PICK part \in Seq(Lines) :
             /\ \A i \in Ids : Lined(part, i) \subseteq Queued(i)
             /\ \/ logFile' = logFile /\ appends' = appends
                \/ logFile' = logFile \o part /\ appends' = appends
                \/ logFile' = logFile \o part /\ appends' = <<>> /\ part = appends
      <4>1. CASE logFile' = logFile \o appends /\ appends' = <<>> BY <1>1, <4>1 DEF Queued
      <4>2. CASE logFile' = logFile /\ appends' = appends BY <1>1, <4>2 DEF Queued
      <4>3. CASE appends' = appends /\ \E part \in PartOf(appends) : logFile' = logFile \o part
        BY <1>1, <4>3, PartIs DEF Queued
      <4> QED BY <2>2, <4>1, <4>2, <4>3 DEF FlushNow, Flush, FlushError, FlushFails, Kill, Appended,
                 seenVars, memoryVars, diskVars
    <3> QED BY <1>1, <1>2, <3>1, LogGrows
  <2> QED BY <2>1, <2>2
<1>4. now' \in Nat /\ now <= now' /\ handled \subseteq handled' BY <1>1, <1>2
<1>5. StoreParts' BY <1>2, <1>3, <1>4, StoreKept
<1>6. \A i \in pending : seen'[i] = 0 BY <1>1, <1>2 DEF ClaimsAreHeld
<1>7. pending \subseteq Ids BY <1>1 DEF SeenTypeOK
<1>8. ClaimsAreHeld' BY <1>2, <1>3, <1>4, <1>6, <1>7, ClaimsKept
<1>9. AlertIsRecorded' BY <1>1, <1>2, AlertsKept DEF threadVars
<1>10. ReplacedIsSaved'
  <2>1. \/ saving' # "replaced" 
        \/ saving' = saving /\ appends' = appends
    BY DEF Mark, SetMarker, Unlocked, FlushNow, Flush, FlushError, FlushFails, Kill, seenVars, memoryVars,
     diskVars
  <2> QED BY <1>1, <1>2, <2>1 DEF ReplacedIsSaved
<1> QED BY <1>3, <1>5, <1>8, <1>9, <1>10 DEF Deeper

(* What a compaction drops loses its alert.                                *)
LEMMA DroppedKeeps ==
    ASSUME AlertIsRecorded, Dropped, UNCHANGED threadVars
    PROVE  AlertIsRecorded'
<1> SUFFICES ASSUME NEW i \in Ids, alerted'[i] # 0
             PROVE  seen'[i] # 0 \/ \E s \in Requests : pc'[s] = "delivered" /\ item'[s] = i
  BY DEF AlertIsRecorded
<1>1. alerted[i] # 0 /\ ~(seen[i] # 0 /\ seen'[i] = 0) BY DEF Dropped
<1>2. seen[i] # 0 \/ \E s \in Requests : pc[s] = "delivered" /\ item[s] = i
  BY <1>1 DEF AlertIsRecorded
<1> QED BY <1>1, <1>2 DEF threadVars

(* The snapshot is replaced by what memory keeps; the log still speaks.    *)
LEMMA ReplaceKeeps ==
    ASSUME RelayInvariant, ReplaceSnapshot \/ ReplaceFails, Dropped, UNCHANGED threadVars
    PROVE  /\ Deeper'
           /\ \A i \in Ids : OnDisk'.seen[i] \in {OnDisk.seen[i], seen'[i]}
<1>1. /\ ClaimsAreHeld /\ AlertIsRecorded /\ SeenTypeOK /\ FilesAreBehind
      /\ now \in Nat /\ pending \subseteq Ids
  BY DEF RelayInvariant, TypeInvariant, RelayTypeOK, SeenTypeOK
<1>2. /\ PruneAndTrim /\ UNCHANGED <<now, pending, logFile>> /\ handled' = handled
  BY DEF ReplaceSnapshot, ReplaceFails, diskVars, Dropped
<1>3. \A i \in Ids : seen'[i] = seen[i] \/ seen'[i] = 0 BY <1>1, <1>2, PruneIs
<1>4. \A i \in Ids : /\ Logged(i)' = Logged(i)
                     /\ Written(i) = {snapshot.seen[i]} \union Logged(i) \union Queued(i)
                     /\ Written(i)' = {snapshot'.seen[i]} \union Logged(i)' \union Queued(i)'
  BY <1>2 DEF Logged, Written, Queued
<1>5. ASSUME NEW i \in Ids
      PROVE  /\ Written(i)' \subseteq Written(i) \union {seen'[i]}
             /\ Queued(i)' \subseteq Queued(i)
             /\ OnDisk'.seen[i] \in {OnDisk.seen[i], seen'[i]}
             /\ seen'[i] # 0 => \E v \in Written(i)' : v # 0
  <2>1. CASE ReplaceSnapshot
    <3>1. snapshot'.seen[i] = seen'[i] /\ appends' = <<>> BY <2>1 DEF ReplaceSnapshot
    <3>2. Queued(i)' = {} BY <3>1 DEF Queued, Lined, Mentions
    <3>3. /\ OnDisk'.seen[i] = LastValue(logFile, "item", i, seen'[i])
          /\ OnDisk.seen[i] = LastValue(logFile, "item", i, snapshot.seen[i])
      BY <1>2, <3>1 DEF OnDisk, Replay
    <3>4. OnDisk'.seen[i] \in {OnDisk.seen[i], seen'[i]} BY <3>3 DEF LastValue
    <3>5. Written(i)' = {seen'[i]} \union Logged(i) BY <1>4, <3>1, <3>2
    <3>6. seen'[i] \in Written(i)' /\ Written(i)' \subseteq Written(i) \union {seen'[i]}
      BY <1>4, <3>5
    <3>7. Queued(i)' \subseteq Queued(i) BY <3>2
    <3>8. seen'[i] # 0 => \E v \in Written(i)' : v # 0 BY <3>6
    <3> QED BY <3>4, <3>6, <3>7, <3>8
  <2>2. CASE ReplaceFails
    <3>1. appends' = appends /\ snapshot' = snapshot BY <2>2 DEF ReplaceFails, diskVars
    <3>2. Queued(i)' = Queued(i) /\ OnDisk' = OnDisk BY <1>2, <3>1 DEF Queued, OnDisk
    <3>3. Written(i)' = Written(i) BY <1>4, <3>1, <3>2
    <3>4. seen'[i] # 0 => \E v \in Written(i) : v # 0 BY <1>1, <1>3 DEF FilesAreBehind
    <3> QED BY <3>2, <3>3, <3>4
  <2> QED BY <2>1, <2>2
<1>6. StoreParts' BY <1>2, <1>4, <1>5, StorePruned
<1>7. \A i \in pending : seen'[i] = 0 BY <1>1, <1>3 DEF ClaimsAreHeld
<1>8. now' \in Nat /\ now <= now' BY <1>1, <1>2
<1>9. \A i \in pending : Written(i)' \subseteq Written(i) \union {0} BY <1>1, <1>5, <1>7
<1>10. ClaimsAreHeld' BY <1>2, <1>7, <1>8, <1>9, ClaimsKept
<1>11. AlertIsRecorded' BY <1>1, DroppedKeeps
<1>12. ReplacedIsSaved' BY DEF ReplaceSnapshot, ReplaceFails, ReplacedIsSaved
<1> QED BY <1>5, <1>6, <1>10, <1>11, <1>12 DEF Deeper

(* The log goes once its snapshot holds all that memory does.              *)
LEMMA UnlinkKeeps ==
    ASSUME RelayInvariant, UnlinkLog \/ UnlinkFails, Dropped, UNCHANGED threadVars
    PROVE  /\ Deeper'
           /\ \A i \in Ids : OnDisk'.seen[i] \in {OnDisk.seen[i], seen'[i]}
<1>1. /\ ClaimsAreHeld /\ AlertIsRecorded /\ SeenTypeOK /\ ReplacedIsSaved
      /\ LinesAreTimed /\ AllHandled /\ now \in Nat /\ pending \subseteq Ids
  BY DEF RelayInvariant, TypeInvariant, RelayTypeOK, SeenTypeOK
<1>2. /\ UNCHANGED <<now, seen, appends, snapshot, pending, handled>> /\ saving' = "no"
      /\ saving = "replaced"
  BY DEF UnlinkLog, UnlinkFails, diskVars, Dropped
<1>3. snapshot.seen = seen /\ appends = <<>> BY <1>1, <1>2 DEF ReplacedIsSaved
<1>4. \A i \in Ids : seen[i] \in Nat BY <1>1, DiskIs
<1>5. /\ StoreParts'
      /\ \A i \in Ids : Written(i)' \subseteq Written(i)
      /\ \A i \in Ids : OnDisk'.seen[i] \in {OnDisk.seen[i], seen'[i]}
  <2>1. CASE UnlinkLog
    <3>1. logFile' = <<>> BY <2>1 DEF UnlinkLog
    <3>2. \A i \in Ids : /\ Logged(i)' = {} /\ Queued(i)' = {}
                         /\ Mentions(logFile', "item", i) = {}
      BY <1>2, <1>3, <3>1 DEF Logged, Queued, Lined, Mentions
    <3>3. \A i \in Ids : /\ Written(i)' = {snapshot.seen[i]} \union Logged(i)' \union Queued(i)'
                         /\ snapshot.seen[i] \in Written(i)
      BY <1>2 DEF Written, Logged, Queued
    <3>4. \A i \in Ids : Written(i)' = {seen[i]} /\ seen[i] \in Written(i) BY <1>3, <3>2, <3>3
    <3>5. \A i \in Ids : OnDisk'.seen[i] = seen[i]
      BY <1>2, <1>3, <3>2 DEF OnDisk, Replay, LastValue
    <3>6. LinesAreTimed'
      BY <1>1, <1>2, <3>2, <3>4 DEF LinesAreTimed, Logged, Queued
    <3>7. AllHandled' BY <1>1, <1>2, <3>4 DEF AllHandled
    <3>8. FilesAreBehind'
      <4> SUFFICES ASSUME NEW i \in Ids, seen'[i] # 0
                   PROVE  /\ \E v \in Written(i)' : v # 0
                          /\ OnDisk'.seen[i] <= seen'[i]
                          /\ \A v \in Queued(i)' : v <= seen'[i]
        BY DEF FilesAreBehind, Queued
      <4>1. seen[i] <= seen[i] BY <1>4
      <4> QED BY <1>2, <3>2, <3>4, <3>5, <4>1
    <3>9. DroppedIsOldest' BY <1>2, <3>2, <3>5 DEF DroppedIsOldest, Queued
    <3> QED BY <1>2, <3>4, <3>5, <3>6, <3>7, <3>8, <3>9 DEF StoreParts
  <2>2. CASE UnlinkFails
    <3>1. logFile' = logFile BY <2>2 DEF UnlinkFails, diskVars
    <3>2. OnDisk' = OnDisk BY <1>2, <3>1 DEF OnDisk
    <3> QED BY <1>2, <3>1, <3>2, StoreStill
  <2> QED BY <2>1, <2>2
<1>6. \A i \in pending : seen'[i] = 0 BY <1>1, <1>2 DEF ClaimsAreHeld
<1>7. now' \in Nat /\ now <= now' BY <1>1, <1>2
<1>8. ClaimsAreHeld' BY <1>1, <1>2, <1>5, <1>6, <1>7, ClaimsKept
<1>9. AlertIsRecorded' BY <1>1, DroppedKeeps
<1>10. ReplacedIsSaved' BY <1>2 DEF ReplacedIsSaved
<1> QED BY <1>5, <1>8, <1>9, <1>10 DEF Deeper

(* A start knows what the files hold, without what is too old.             *)
LEMMA StartKeeps ==
    ASSUME RelayInvariant, Start
    PROVE  Deeper' /\ OnDisk' = OnDisk
<1>1. /\ SeenTypeOK /\ TypeInvariant /\ LinesAreTimed /\ AllHandled /\ Load
      /\ now \in Nat /\ pc \in [Requests -> Steps]
  BY DEF RelayInvariant, TypeInvariant, SeenTypeOK, RelayTypeOK, Start
<1>2. /\ UNCHANGED <<now, snapshot, logFile, handled>> /\ saving' = "no" /\ pending' = {}
      /\ appends' = <<>> /\ \A r \in Requests : pc'[r] = "idle"
      /\ \A i \in Ids : alerted'[i] = 0
  BY DEF Start, Load, diskVars
<1>3. OnDisk' = OnDisk BY <1>2 DEF OnDisk
<1>4. ASSUME NEW i \in Ids
      PROVE  /\ Logged(i)' = Logged(i) /\ Queued(i)' = {} /\ Written(i)' \subseteq Written(i)
             /\ OnDisk.seen[i] \in Nat
             /\ OnDisk.seen[i] \in Written(i)' /\ OnDisk.seen[i] \in Written(i)
             /\ \/ seen'[i] = OnDisk.seen[i]
                \/ seen'[i] = 0 /\ Expired(OnDisk.seen[i])
  <2>1. Logged(i)' = Logged(i) /\ Queued(i)' = {} BY <1>2 DEF Logged, Queued, Lined, Mentions
  <2>2. /\ Written(i) = {snapshot.seen[i]} \union Logged(i) \union Queued(i)
        /\ Written(i)' = {snapshot.seen[i]} \union Logged(i)' \union Queued(i)'
    BY <1>2 DEF Written, Logged, Queued
  <2>3. OnDisk.seen[i] \in Nat /\ OnDisk.seen[i] \in {snapshot.seen[i]} \union Logged(i)
    BY <1>1, DiskIs
  <2>4. \/ seen'[i] = OnDisk.seen[i]
        \/ seen'[i] = 0 /\ Expired(OnDisk.seen[i])
    BY <1>1, LoadTypes
  <2> QED BY <2>1, <2>2, <2>3, <2>4
<1>5. LinesAreTimed'
  <2> SUFFICES ASSUME NEW i \in Ids
               PROVE  /\ 0 \notin Queued(i)' \union Logged(i)'
                      /\ seen'[i] <= now' /\ \A v \in Written(i)' : v <= now'
    BY DEF LinesAreTimed, Queued, Logged
  <2>1. 0 \notin Logged(i) /\ \A v \in Written(i) : v <= now
    BY <1>1 DEF LinesAreTimed, Logged
  <2>2. OnDisk.seen[i] <= now /\ 0 <= now BY <1>1, <1>4, <2>1
  <2>3. seen'[i] <= now BY <1>4, <2>2
  <2> QED BY <1>2, <1>4, <2>1, <2>3
<1>6. AllHandled' BY <1>1, <1>2, <1>4 DEF AllHandled
<1>7. FilesAreBehind'
  <2> SUFFICES ASSUME NEW i \in Ids, seen'[i] # 0
               PROVE  /\ \E v \in Written(i)' : v # 0
                      /\ OnDisk'.seen[i] <= seen'[i]
                      /\ \A v \in Queued(i)' : v <= seen'[i]
    BY DEF FilesAreBehind, Queued
  <2>1. seen'[i] = OnDisk.seen[i] BY <1>4
  <2>2. OnDisk.seen[i] <= OnDisk.seen[i] BY <1>4
  <2> QED BY <1>3, <1>4, <2>1, <2>2
<1>8. DroppedIsOldest'
  <2> SUFFICES ASSUME NEW i \in Ids, seen'[i] = 0,
                      NEW v \in {OnDisk'.seen[i]} \union Queued(i)', v # 0
               PROVE  Expired(v)' \/ Crowded(v)'
    BY DEF DroppedIsOldest, Queued
  <2>1. v = OnDisk.seen[i] BY <1>3, <1>4
  <2>2. Expired(v) BY <1>4, <2>1
  <2> QED BY <1>2, <2>2 DEF Expired
<1>9. ClaimsAreHeld' BY <1>2 DEF ClaimsAreHeld, Holds
<1>10. AlertIsRecorded' BY <1>2 DEF AlertIsRecorded
<1>11. ReplacedIsSaved' BY <1>2 DEF ReplacedIsSaved
<1> QED BY <1>3, <1>5, <1>6, <1>7, <1>8, <1>9, <1>10, <1>11 DEF Deeper, StoreParts

(* A stop begins, a save becomes due, or time passes.                      *)
LEMMA QuietKeeps ==
    ASSUME RelayInvariant, Close \/ CloseSave \/ Tick \/ UNCHANGED vars
    PROVE  Deeper' /\ OnDisk' = OnDisk
<1>1. /\ ClaimsAreHeld /\ AlertIsRecorded /\ ReplacedIsSaved /\ now \in Nat /\ pending \subseteq Ids
  BY DEF RelayInvariant, TypeInvariant, SeenTypeOK
<1>2. /\ UNCHANGED <<seen, appends, snapshot, logFile, pending, handled, alerted, threadVars>>
      /\ now' \in {now, now + 1} /\ saving' \in {saving, "due"}
  BY DEF Close, CloseSave, Tick, vars, relayVars, seenVars, memoryVars, diskVars, ghostVars
<1>3. now' \in Nat /\ now <= now' /\ handled \subseteq handled' BY <1>1, <1>2
<1>4. OnDisk' = OnDisk BY <1>2 DEF OnDisk
<1>5. \A i \in Ids : /\ Written(i)' = Written(i) /\ Queued(i)' = Queued(i)
                     /\ Logged(i)' = Logged(i)
  BY <1>2 DEF Written, Queued, Logged
<1>6. StoreParts' BY <1>2, <1>3, <1>4, <1>5, StoreKept
<1>7. \A i \in pending : seen'[i] = 0 BY <1>1, <1>2 DEF ClaimsAreHeld
<1>8. ClaimsAreHeld' BY <1>1, <1>2, <1>3, <1>5, <1>7, ClaimsKept
<1>9. AlertIsRecorded' BY <1>1, <1>2, AlertsKept DEF threadVars
<1>10. ReplacedIsSaved' BY <1>1, <1>2 DEF ReplacedIsSaved
<1> QED BY <1>4, <1>6, <1>8, <1>9, <1>10 DEF Deeper

-----------------------------------------------------------------------------
(* The theorems                                                            *)

LEMMA RelayInits ==
    ASSUME RelayInit
    PROVE  RelayInvariant
<1>1. /\ now = 1 /\ seen = [i \in Ids |-> 0] /\ markers = [m \in Markers |-> 0] /\ pending = {}
      /\ appends = <<>> /\ logLines = 0 /\ saving = "no" /\ logFile = <<>>
      /\ snapshot = [seen |-> [i \in Ids |-> 0], markers |-> [m \in Markers |-> 0]]
  BY DEF RelayInit, SeenInit, Nothing
<1>2. /\ pc = [r \in Requests |-> "idle"] /\ item = [r \in Requests |-> NoItem]
      /\ claimed = [r \in Requests |-> 0] /\ alerted = [i \in Ids |-> 0]
      /\ handled = {} /\ stops = 0 /\ failures = 0 /\ proc = "up"
  BY DEF RelayInit
<1>3. appends \in Seq(Lines) /\ logFile \in Seq(Lines) BY <1>1, EmptySeq
<1>4. SeenTypeOK BY <1>1, <1>3 DEF SeenTypeOK
<1>5. RelayTypeOK BY <1>2 DEF RelayTypeOK, Steps
<1>6. ASSUME NEW i \in Ids
      PROVE  /\ seen[i] = 0 /\ Logged(i) = {} /\ Queued(i) = {} /\ Written(i) = {0}
             /\ OnDisk.seen[i] = 0
  <2>1. Logged(i) = {} /\ Queued(i) = {} BY <1>1 DEF Logged, Queued, Lined, Mentions
  <2>2. Written(i) = {snapshot.seen[i]} \union Logged(i) \union Queued(i)
    BY DEF Written, Logged, Queued
  <2>3. OnDisk.seen[i] = snapshot.seen[i] BY <1>4, <2>1, DiskIs
  <2> QED BY <1>1, <2>1, <2>2, <2>3
<1>7. ClaimsAreHeld BY <1>1, <1>2 DEF ClaimsAreHeld, Holds
<1>8. LinesAreTimed BY <1>1, <1>6 DEF LinesAreTimed, Logged, Queued
<1>9. AllHandled BY <1>6 DEF AllHandled
<1>10. FilesAreBehind BY <1>6 DEF FilesAreBehind
<1>11. DroppedIsOldest BY <1>6 DEF DroppedIsOldest, Queued
<1>12. ReplacedIsSaved /\ AlertIsRecorded BY <1>1, <1>2 DEF ReplacedIsSaved, AlertIsRecorded
<1> QED BY <1>4, <1>5, <1>7, <1>8, <1>9, <1>10, <1>11, <1>12 DEF RelayInvariant, TypeInvariant

LEMMA RelaySteps ==
    ASSUME RelayInvariant, [Next]_vars
    PROVE  RelayInvariant'
<1>1. TypeInvariant' BY TypeKept
<1>2. Deeper'
  <2>1. ASSUME NEW r \in Requests, RequestStep(r) PROVE Deeper'
    BY <2>1, LookingKeeps, FilterKeeps, MatchKeeps, SendKeeps, SettleKeeps DEF RequestStep
  <2>2. CASE Mark \/ FlushNow \/ FlushError \/ Kill BY <2>2, LinesKeep
  <2>3. CASE SaveStep BY <2>3, ReplaceKeeps, UnlinkKeeps DEF SaveStep
  <2>4. CASE SaveError BY <2>4, ReplaceKeeps, UnlinkKeeps DEF SaveError
  <2>5. CASE Start BY <2>5, StartKeeps
  <2>6. CASE Close \/ CloseSave \/ Tick \/ UNCHANGED vars BY <2>6, QuietKeeps
  <2> QED BY <2>1, <2>2, <2>3, <2>4, <2>5, <2>6 DEF Next
<1> QED BY <1>1, <1>2 DEF RelayInvariant, Deeper, StoreParts

(* The relation of claims, memory, queue, log and snapshot, whatever the   *)
(* requests do, whichever writes fail or tear and wherever the process     *)
(* dies.                                                                   *)
THEOREM RelayInvariantHolds == Spec => []RelayInvariant
<1>1. RelayInit => RelayInvariant BY RelayInits
<1>2. RelayInvariant /\ [Next]_vars => RelayInvariant' BY RelaySteps
<1> QED BY <1>1, <1>2, PTL DEF Spec

(* An item is alerted once: by concurrent requests, while its record       *)
(* lasts, and over restarts when the record reached the files.             *)
THEOREM OneAlert == Spec => []AlertedOnce
<1>1. RelayInvariant => AlertedOnce
  <2> SUFFICES ASSUME RelayInvariant, NEW r \in Requests, Alive, pc[r] = "sending"
               PROVE  /\ alerted[item[r]] # 0 => Expired(alerted[item[r]])
                      /\ OnDisk.seen[item[r]] # 0 =>
                           Expired(OnDisk.seen[item[r]]) \/ OverFull(Replay(OnDisk, appends).seen)
    BY DEF AlertedOnce
  <2>1. ClaimsAreHeld /\ AlertIsRecorded /\ DroppedIsOldest BY DEF RelayInvariant
  <2>2. Holds(r) BY DEF Holds
  <2>3. PICK i \in Ids : i = item[r] BY <2>1, <2>2 DEF ClaimsAreHeld, Holds
  <2>4. i \in pending /\ seen[i] = 0 BY <2>1, <2>2, <2>3 DEF ClaimsAreHeld
  <2>5. alerted[i] = 0
    <3> SUFFICES ASSUME alerted[i] # 0 PROVE FALSE OBVIOUS
    <3>1. PICK s \in Requests : pc[s] = "delivered" /\ item[s] = i
      BY <2>1, <2>4 DEF AlertIsRecorded
    <3>2. Holds(s) BY <3>1 DEF Holds
    <3>3. s = r BY <2>1, <2>2, <2>3, <3>1, <3>2 DEF ClaimsAreHeld
    <3> QED BY <3>1, <3>3
  <2>6. ASSUME OnDisk.seen[i] # 0
        PROVE  Expired(OnDisk.seen[i]) \/ OverFull(Replay(OnDisk, appends).seen)
    <3>1. Expired(OnDisk.seen[i]) \/ Crowded(OnDisk.seen[i])
      BY <2>1, <2>4, <2>6 DEF DroppedIsOldest
    <3> QED BY <2>4, <2>6, <3>1, CrowdIsTooMuch
  <2> QED BY <2>3, <2>5, <2>6
<1> QED BY <1>1, RelayInvariantHolds, PTL

(* Every record in memory is in the files or queued for them, and only     *)
(* what was delivered, filtered or seeded is ever recorded; and an item is *)
(* alerted once.                                                           *)
THEOREM SeenInvariantHolds == Spec => []SeenInvariant
<1>1. RelayInvariant => TypeInvariant /\ MemoryIsBacked /\ RecordedWasHandled
  <2> SUFFICES ASSUME RelayInvariant PROVE TypeInvariant /\ MemoryIsBacked /\ RecordedWasHandled
    OBVIOUS
  <2>1. SeenTypeOK /\ LinesAreTimed /\ AllHandled /\ FilesAreBehind
    BY DEF RelayInvariant, TypeInvariant
  <2>2. MemoryIsBacked BY <2>1, BackedIs DEF MemoryIsBacked, FilesAreBehind
  <2>3. \A i \in Ids : OnDisk.seen[i] \in Written(i) BY <2>1, DiskIs
  <2>4. RecordedWasHandled BY <2>1, <2>3 DEF RecordedWasHandled, AllHandled
  <2> QED BY <2>2, <2>4 DEF RelayInvariant
<1> QED BY <1>1, RelayInvariantHolds, OneAlert, PTL DEF SeenInvariant

(* Too many in memory are too many in the files and the queue.             *)
LEMMA MemoryIsTooMuch ==
    ASSUME RelayInvariant, OverFull(seen)
    PROVE  OverFull(Replay(OnDisk, appends).seen)
<1> DEFINE full == Replay(OnDisk, appends).seen
<1>1. SeenTypeOK /\ LinesAreTimed /\ FilesAreBehind BY DEF RelayInvariant, TypeInvariant
<1>2. \A k \in Ids : seen[k] # 0 => full[k] # 0 BY <1>1, BackedIs DEF FilesAreBehind
<1>3. Recorded(seen) \in SUBSET Recorded(full) /\ Recorded(full) \in SUBSET Ids
      /\ Recorded(seen) \in SUBSET Ids
  BY <1>2 DEF Recorded
<1>4. Cardinality(Recorded(seen)) <= Cardinality(Recorded(full))
      /\ Cardinality(Recorded(full)) \in Nat /\ Cardinality(Recorded(seen)) \in Nat
  BY <1>3, SomeIds, FS_Subset
<1> HIDE DEF full
<1>5. OverFull(full) BY <1>4, SeenConstants DEF OverFull
<1> QED BY <1>5 DEF full

(* What a start would load only shrinks by age or over the backstop.       *)
THEOREM FilesRemember == Spec => FilesNeverForget
<1>1. ASSUME RelayInvariant, [Next]_vars, NEW i \in Ids, OnDisk.seen[i] # 0, OnDisk'.seen[i] = 0
      PROVE  Expired(OnDisk.seen[i]) \/ OverFull(Replay(OnDisk, appends).seen)
  <2>1. SeenTypeOK /\ FilesAreBehind /\ DroppedIsOldest /\ LinesAreTimed
        /\ now \in Nat /\ RETENTION \in Nat
    BY <1>1, SeenConstants DEF RelayInvariant, TypeInvariant, SeenTypeOK
  <2>2. OnDisk.seen[i] \in Nat /\ seen[i] \in Nat BY <2>1, DiskIs
  <2>3. OnDisk' # OnDisk BY <1>1
  <2>4. CASE seen[i] = 0
    <3>1. Expired(OnDisk.seen[i]) \/ Crowded(OnDisk.seen[i])
      BY <1>1, <2>1, <2>4 DEF DroppedIsOldest
    <3> QED BY <1>1, <2>4, <3>1, CrowdIsTooMuch
  <2>5. CASE seen[i] # 0 /\ PruneAndTrim /\ now' = now /\ seen'[i] = 0
    <3>1. OnDisk.seen[i] <= seen[i] BY <2>1, <2>5 DEF FilesAreBehind
    <3>2. Expired(seen[i]) \/ OverFull(seen) BY <2>1, <2>5, PruneIs
    <3>3. Expired(seen[i]) => Expired(OnDisk.seen[i]) BY <2>1, <2>2, <3>1 DEF Expired
    <3> QED BY <1>1, <3>2, <3>3, MemoryIsTooMuch
  <2>6. CASE \E r \in Requests : RequestStep(r)
    <3>1. UNCHANGED <<snapshot, logFile>>
      BY <2>6 DEF RequestStep, Look, CheckNew, Filter, Match, Deliver, NotDelivered, Settle,
         MarkSeen, Claim, Commit, Release, seenVars, diskVars
    <3> QED BY <2>3, <3>1 DEF OnDisk
  <2>7. CASE Mark \/ FlushNow \/ FlushError \/ Kill
    <3>1. OnDisk'.seen[i] \in Queued(i) BY <1>1, <2>7, LinesKeep
    <3> QED BY <1>1, <2>1, <3>1 DEF LinesAreTimed, Queued
  <2>8. CASE (ReplaceSnapshot \/ ReplaceFails) /\ Dropped /\ UNCHANGED threadVars
    <3>1. PruneAndTrim /\ now' = now BY <2>8 DEF ReplaceSnapshot, ReplaceFails
    <3>2. OnDisk'.seen[i] \in {OnDisk.seen[i], seen'[i]} BY <1>1, <2>8, ReplaceKeeps
    <3>3. seen'[i] = 0 BY <1>1, <3>2
    <3> QED BY <2>4, <2>5, <3>1, <3>3
  <2>9. CASE (UnlinkLog \/ UnlinkFails) /\ Dropped /\ UNCHANGED threadVars
    <3>1. seen' = seen BY <2>9 DEF UnlinkLog, UnlinkFails
    <3>2. OnDisk'.seen[i] \in {OnDisk.seen[i], seen'[i]} BY <1>1, <2>9, UnlinkKeeps
    <3>3. seen[i] = 0 BY <1>1, <3>1, <3>2
    <3> QED BY <2>4, <3>3
  <2>10. CASE Start BY <1>1, <2>3, <2>10, StartKeeps
  <2>11. CASE Close \/ CloseSave \/ Tick \/ UNCHANGED vars BY <1>1, <2>3, <2>11, QuietKeeps
  <2> QED BY <1>1, <2>6, <2>7, <2>8, <2>9, <2>10, <2>11 DEF Next, SaveStep, SaveError
<1>2. RelayInvariant /\ [Next]_vars =>
         [\A i \in Ids : OnDisk.seen[i] # 0 /\ OnDisk'.seen[i] = 0
             => Expired(OnDisk.seen[i]) \/ OverFull(Replay(OnDisk, appends).seen)]_vars
  BY <1>1
<1> QED BY <1>2, RelayInvariantHolds, PTL DEF FilesNeverForget, Spec

-----------------------------------------------------------------------------
(***************************************************************************)
(* The supervisor keeps its promises for any settings, budgets and times,  *)
(* over every kill, failing write and silent notifier.                     *)
(*                                                                         *)
(* The argument: memory and file are never behind what was done.  Every    *)
(* page opened is within an hour in the list of launches and no later than *)
(* the last launch, in memory and in the file; what the last fresh         *)
(* heartbeat said is held by the state that was made from it.  A decision  *)
(* carries what it saw to the launch, since nothing between them takes     *)
(* away from the state.                                                    *)
(***************************************************************************)

Under == phase \notin {"down", "idle"}
Moment == IF Under THEN at ELSE clock

(* What a state knows of pages opened, of attempts, and of a heartbeat.    *)
Knows(s, h) ==
    /\ \A l \in launched : l <= s.lastLaunch /\ (l \in s.launches \/ Moment - l >= HOUR)
    /\ unanswered => s.outageLaunched
    /\ composed <= s.lastBackendAttempt /\ docked <= s.lastDockerLaunch
    /\ h.at <= s.lastHeartbeatAt /\ h.until <= s.pausedUntil
    /\ h.waiting => s.waitingVerification
    /\ h.off => s.refreshDisabled
Timely(h) == h.at <= clock /\ (report # NoReport => h.at <= report.at) /\ (h # NoReport => h.at > 0)
(* A tick under way, and what its decision to open a page rests on.        *)
Allowed ==
    /\ tick.launch => /\ ~unanswered
                      /\ Justified
                      /\ IF phase = "launch" THEN at \in state.launches /\ state.lastLaunch = at /\ state.outageLaunched
                         ELSE Budgeted(state, at)
    /\ phase \in {"docker", "compose"} /\ composed # 0 => at - composed >= BACKEND_RETRY
    /\ phase = "desktop" /\ docked # 0 => at - docked >= DOCKER_RETRY
    /\ phase = "desktop" => state.lastDockerLaunch = at
    /\ phase \in {"docker", "compose", "desktop"} => state.lastBackendAttempt = at
ReportIsTimed == report # NoReport => 0 < report.at /\ report.at <= clock
Ready ==
    phase = "launch" =>
        /\ \A k \in launched : at - k >= COOLDOWN
        /\ Cardinality((launched \union {at}) \intersect Within(at, HOUR)) <= MAX_LAUNCHES
Ticking ==
    /\ at <= clock /\ (Under => at > 0) /\ (~Under => tick = NoTick)
    /\ phase \in {"commit", "launch"} => tick.launch
    /\ phase \in {"docker", "compose", "desktop", "launch"} => disk = state
    /\ \A l \in launched : 0 < l /\ l <= clock
SupervisorInvariant ==
    /\ SupervisorTypes /\ LaunchesAreBudgeted
    /\ Knows(disk, heard.saved) /\ (phase # "down" => Knows(state, heard.read))
    /\ Timely(heard.saved) /\ Timely(heard.read) /\ ReportIsTimed
    /\ Ticking /\ Allowed /\ Ready

-----------------------------------------------------------------------------
(* Facts the steps share                                                   *)

LEMMA Typed ==
    ASSUME SupervisorTypes
    PROVE  /\ clock \in Nat /\ at \in Nat /\ composed \in Nat /\ docked \in Nat /\ started \in Nat
           /\ launched \subseteq Nat /\ IsFiniteSet(launched)
           /\ \A s \in State :
                 /\ s.lastLaunch \in Nat /\ s.launches \subseteq Times /\ IsFiniteSet(s.launches)
                 /\ s.pausedUntil \in Nat /\ s.lastHeartbeatAt \in Nat
                 /\ s.lastBackendAttempt \in Nat /\ s.lastDockerLaunch \in Nat
           /\ state \in State /\ disk \in State
           /\ report \in Heartbeat /\ heard.read \in Heartbeat /\ heard.saved \in Heartbeat
           /\ \A r \in Heartbeat : r.at \in Nat /\ r.until \in Nat
<1>1. Times \subseteq Nat /\ IsFiniteSet(Times)
  BY RecoveryConstants, FS_Interval DEF Times
<1>2. IsFiniteSet(launched) BY <1>1, FS_Subset DEF SupervisorTypes
<1>3. clock \in Nat /\ at \in Nat /\ composed \in Nat /\ docked \in Nat /\ started \in Nat /\ launched \subseteq Nat
  BY <1>1 DEF SupervisorTypes, at
<1>4. ASSUME NEW s \in State
      PROVE  /\ s.lastLaunch \in Nat /\ s.launches \subseteq Times /\ IsFiniteSet(s.launches)
             /\ s.pausedUntil \in Nat /\ s.lastHeartbeatAt \in Nat
             /\ s.lastBackendAttempt \in Nat /\ s.lastDockerLaunch \in Nat
  <2>1. s.launches \subseteq Times BY DEF State
  <2>2. IsFiniteSet(s.launches) BY <1>1, <2>1, FS_Subset
  <2> QED BY <1>1, <2>1, <2>2 DEF State
<1>5. \A r \in Heartbeat : r.at \in Nat /\ r.until \in Nat BY <1>1 DEF Heartbeat
<1> QED BY <1>2, <1>3, <1>4, <1>5 DEF SupervisorTypes

LEMMA Constants ==
    /\ STALE \in Nat \ {0} /\ COOLDOWN \in Nat \ {0} /\ HOUR \in Nat \ {0} /\ MAX_LAUNCHES \in Nat \ {0}
    /\ BACKEND_RETRY \in Nat \ {0} /\ DOCKER_RETRY \in Nat \ {0} /\ MAX_CLOCK \in Nat \ {0} /\ GRACE \in Nat \ {0}
    /\ 0 \in Times /\ 1 \in Times \ {0}
BY RecoveryConstants DEF Times

(* The types a step keeps.                                                 *)
LEMMA Observations ==
    ASSUME NEW s \in State, NEW r \in Heartbeat, NEW t \in Nat
    PROVE  Observed(s, r, t) \in State
<1> DEFINE recent == [s EXCEPT !.launches = @ \intersect Within(t, HOUR)]
           learnt == [recent EXCEPT !.lastHeartbeatAt = Later(@, r.at),
                                    !.waitingVerification = @ \/ r.waiting,
                                    !.refreshDisabled = @ \/ r.off,
                                    !.pausedUntil = Later(@, r.until)]
<1>1. recent \in State BY DEF State
<1>2. learnt \in State
  <2>1. PICK l \in State : l = recent BY <1>1
  <2>2. r.at \in Times /\ r.until \in Nat BY DEF Heartbeat
  <2>3. Later(l.lastHeartbeatAt, r.at) \in Times /\ Later(l.pausedUntil, r.until) \in Nat
    BY <2>2 DEF State, Later
  <2>4. PICK waits \in BOOLEAN, off \in BOOLEAN :
           waits = (l.waitingVerification \/ r.waiting) /\ off = (l.refreshDisabled \/ r.off)
    OBVIOUS
  <2>5. [l EXCEPT !.lastHeartbeatAt = Later(l.lastHeartbeatAt, r.at), !.waitingVerification = waits,
                  !.refreshDisabled = off, !.pausedUntil = Later(l.pausedUntil, r.until)] \in State
    BY <2>3 DEF State
  <2> QED BY <2>1, <2>4, <2>5
<1>3. [learnt EXCEPT !.refreshDisabled = r.off, !.waitingVerification = r.waiting,
                     !.pausedUntil = IF r.waiting THEN @ ELSE r.until,
                     !.outageLaunched = @ /\ ~r.reachable] \in State
  <2>1. PICK l \in State : l = learnt BY <1>2
  <2>2. r.off \in BOOLEAN /\ r.waiting \in BOOLEAN /\ r.until \in Nat BY DEF Heartbeat
  <2>3. PICK once \in BOOLEAN : once = (l.outageLaunched /\ ~r.reachable) OBVIOUS
  <2>4. PICK until \in Nat : until = IF r.waiting THEN l.pausedUntil ELSE r.until BY <2>2 DEF State
  <2>5. [l EXCEPT !.refreshDisabled = r.off, !.waitingVerification = r.waiting,
                  !.pausedUntil = until, !.outageLaunched = once] \in State
    BY <2>2 DEF State
  <2> QED BY <2>1, <2>3, <2>4, <2>5
<1> QED BY <1>1, <1>2, <1>3 DEF Observed

LEMMA TypesKept ==
    ASSUME SupervisorTypes, SupervisorNext
    PROVE  SupervisorTypes'
<1>1. 0 \in Times /\ clock \in Times /\ at \in Times /\ clock \in Nat /\ Health \in Heartbeat /\ NoReport \in Heartbeat
      /\ DefaultState \in State /\ NoTick \in [at : Times, launch : BOOLEAN, saw : BOOLEAN]
  BY Typed, Constants DEF SupervisorTypes, Health, NoReport, Heartbeat, DefaultState, State, NoTick, at
<1>2. Happens => events' \in 0..MAX_EVENTS BY RecoveryConstants DEF Happens, SupervisorTypes
<1>3. ASSUME NEW s \in State, NEW dest \in Phases, NEW h \in Heartbeat, Persist(s, dest, h)
      PROVE  /\ state' \in State /\ disk' \in State /\ phase' \in Phases /\ events' \in 0..MAX_EVENTS
             /\ heard' \in [read : Heartbeat, saved : Heartbeat]
  BY <1>2, <1>3 DEF Persist, SupervisorTypes, Phases
<1>4. Goes => tick' \in [at : Times, launch : BOOLEAN, saw : BOOLEAN] /\ started' \in Times
  BY <1>1 DEF Goes, SupervisorTypes
<1>5. \A go \in BOOLEAN : AfterBackend(go) \in Phases BY DEF AfterBackend, Phases
<1>6. CASE Begin \/ Die
  <2>1. heard' \in [read : Heartbeat, saved : Heartbeat] /\ events' \in 0..MAX_EVENTS
    BY <1>1, <1>2, <1>6 DEF Begin, Die, SupervisorTypes, Unheard
  <2>2. state' \in State /\ disk' \in State /\ phase' \in Phases /\ started' \in Times
    BY <1>1, <1>6 DEF Begin, Die, SupervisorTypes, Phases
  <2>3. launched' \subseteq Times /\ unanswered' \in BOOLEAN /\ composed' \in Times /\ docked' \in Times
        /\ UNCHANGED <<clock, world>> /\ tick' \in [at : Times, launch : BOOLEAN, saw : BOOLEAN]
    BY <1>1, <1>6 DEF Begin, Die, SupervisorTypes
  <2> QED BY <2>1, <2>2, <2>3 DEF SupervisorTypes, world
<1>7. CASE TickOnce
  <2>1. PICK running \in BOOLEAN :
           LET s  == Observed(state, Health, clock)
               go == MayLaunch(s, Health, clock, running)
               fresh == Health # NoReport /\ Fresh(Health, clock)
           IN /\ Persist(s, IF notifier THEN AfterBackend(go) ELSE "backend", IF fresh THEN Health ELSE heard.read)
              /\ tick' = IF phase' = "idle" THEN NoTick ELSE [at |-> clock, launch |-> go, saw |-> running]
              /\ unanswered' = (unanswered /\ running /\ ~(fresh /\ Health.reachable))
    BY <1>7 DEF TickOnce, SupervisorTypes
  <2>2. Observed(state, Health, clock) \in State BY <1>1, Observations DEF SupervisorTypes
  <2>3. MayLaunch(Observed(state, Health, clock), Health, clock, running) \in BOOLEAN
    BY DEF MayLaunch, Stopped
  <2>4. unanswered' \in BOOLEAN BY <2>1
  <2>5. (IF notifier THEN AfterBackend(MayLaunch(Observed(state, Health, clock), Health, clock, running)) ELSE "backend")
           \in Phases
    BY <1>5, <2>3 DEF Phases
  <2>6. (IF Health # NoReport /\ Fresh(Health, clock) THEN Health ELSE heard.read) \in Heartbeat
    BY <1>1, Typed
  <2>7. /\ state' \in State /\ disk' \in State /\ phase' \in Phases /\ events' \in 0..MAX_EVENTS
        /\ heard' \in [read : Heartbeat, saved : Heartbeat]
    BY <1>3, <2>1, <2>2, <2>5, <2>6
  <2>8. tick' \in [at : Times, launch : BOOLEAN, saw : BOOLEAN] BY <1>1, <2>1, <2>3
  <2> QED BY <1>7, <2>4, <2>7, <2>8 DEF TickOnce, SupervisorTypes, world
<1>8. CASE Backend \/ Docker \/ SaveAttempt \/ Launch
  <2>1. /\ [state EXCEPT !.lastBackendAttempt = at] \in State /\ [state EXCEPT !.lastDockerLaunch = at] \in State
        /\ Attempt(state) \in State /\ [state EXCEPT !.outageLaunched = FALSE] \in State
    BY <1>1 DEF SupervisorTypes, State, Attempt
  <2>2. heard.read \in Heartbeat /\ tick.launch \in BOOLEAN BY Typed DEF SupervisorTypes
  <2>3. ASSUME NEW s \in State, NEW dest \in Phases, Save(s, dest) \/ Skip(dest)
        PROVE  /\ state' \in State /\ disk' \in State /\ phase' \in Phases /\ events' \in 0..MAX_EVENTS
               /\ heard' \in [read : Heartbeat, saved : Heartbeat]
    BY <1>3, <2>2, <2>3 DEF Save, Skip, SupervisorTypes
  <2>4. /\ state' \in State /\ disk' \in State /\ phase' \in Phases /\ events' \in 0..MAX_EVENTS
        /\ heard' \in [read : Heartbeat, saved : Heartbeat]
    <3>1. {"docker", "compose", "desktop", "launch", "idle"} \subseteq Phases BY DEF Phases
    <3>2. CASE Backend BY <1>5, <2>1, <2>2, <2>3, <3>1, <3>2 DEF Backend, SupervisorTypes
    <3>3. CASE Docker BY <1>5, <2>1, <2>2, <2>3, <3>1, <3>3 DEF Docker, SupervisorTypes
    <3>4. CASE SaveAttempt BY <2>1, <2>3, <3>1, <3>4 DEF SaveAttempt, SupervisorTypes
    <3>5. CASE Launch BY <2>1, <2>3, <3>1, <3>5 DEF Launch, SupervisorTypes
    <3> QED BY <1>8, <3>2, <3>3, <3>4, <3>5
  <2>5. launched' \subseteq Times /\ unanswered' \in BOOLEAN /\ chrome' \in BOOLEAN
        /\ UNCHANGED <<clock, notifier, report, minutes, composed, docked>> /\ Goes
    BY <1>1, <1>8 DEF Backend, Docker, SaveAttempt, Launch, world, SupervisorTypes
  <2> QED BY <1>4, <2>4, <2>5 DEF SupervisorTypes
<1>9. CASE Compose \/ Desktop
  <2>1. phase' \in Phases /\ notifier' \in BOOLEAN BY <1>5, <1>9 DEF Compose, Desktop, SupervisorTypes, world
  <2> QED BY <1>1, <1>4, <1>9, <2>1 DEF Compose, Desktop, SupervisorTypes, world
<1>10. CASE World
  <2>1. Reports \subseteq Heartbeat
    <3>1. clock \in Times /\ clock + 1 \in Nat /\ 0 \in Nat BY <1>1
    <3>2. NoReport \in Heartbeat BY <1>1
    <3>3. Scanning \in Heartbeat BY <3>1, <3>2 DEF Scanning, Heartbeat
    <3> QED BY <3>1, <3>3 DEF Reports, Heartbeat
  <2>2. chrome' \in BOOLEAN /\ notifier' \in BOOLEAN /\ report' \in Heartbeat /\ minutes' \in {"none", "off", "on"}
    BY <1>1, <1>10, <2>1 DEF World, Receive, ChromeRuns, NotifierRuns, Setting, SupervisorTypes
  <2> QED BY <1>2, <1>10, <2>2 DEF World, SupervisorTypes, memory, ghosts
<1>11. CASE Clock
  <2>1. clock' \in Times \ {0} BY <1>1, <1>11, Constants DEF Clock, Times, SupervisorTypes
  <2> QED BY <1>11, <2>1 DEF Clock, SupervisorTypes, world, memory, ghosts
<1> QED BY <1>6, <1>7, <1>8, <1>9, <1>10, <1>11 DEF SupervisorNext

(* What is known stays known while nothing more is done; a state that says *)
(* more knows as much.                                                     *)
LEMMA Aged ==
    ASSUME NEW m \in Nat, NEW n \in Nat, NEW l \in Nat, m <= n, m - l >= HOUR
    PROVE  n - l >= HOUR
BY Constants

LEMMA KnowsOn ==
    ASSUME SupervisorTypes, NEW s \in State, NEW h \in Heartbeat, Knows(s, h),
           Moment \in Nat, Moment' \in Nat, Moment <= Moment',
           launched' = launched, unanswered' => unanswered, composed' = composed, docked' = docked
    PROVE  Knows(s, h)'
<1>1. \A l \in launched : l \in Nat BY Typed
<1>2. ASSUME NEW l \in launched
      PROVE  l <= s.lastLaunch /\ (l \in s.launches \/ Moment' - l >= HOUR)
  <2>1. l \in Nat /\ HOUR \in Nat BY <1>1, Constants
  <2>2. l <= s.lastLaunch /\ (l \in s.launches \/ Moment - l >= HOUR) BY DEF Knows
  <2>3. Moment - l >= HOUR => Moment' - l >= HOUR BY <2>1, Aged
  <2> QED BY <2>2, <2>3
<1> QED BY <1>2 DEF Knows

LEMMA KnowsMore ==
    ASSUME SupervisorTypes, NEW s \in State, NEW t \in State, NEW h \in Heartbeat, Knows(s, h),
           s.lastLaunch <= t.lastLaunch, s.launches \subseteq t.launches,
           unanswered => (s.outageLaunched => t.outageLaunched),
           s.lastBackendAttempt <= t.lastBackendAttempt, s.lastDockerLaunch <= t.lastDockerLaunch,
           t.lastHeartbeatAt = s.lastHeartbeatAt, t.pausedUntil = s.pausedUntil,
           t.waitingVerification = s.waitingVerification, t.refreshDisabled = s.refreshDisabled
    PROVE  Knows(t, h)
<1>1. /\ \A l \in launched : l \in Nat
      /\ {s.lastLaunch, t.lastLaunch, s.lastBackendAttempt, t.lastBackendAttempt, s.lastDockerLaunch,
          t.lastDockerLaunch, composed, docked} \subseteq Nat
  BY Typed
<1>2. \A l \in launched : l <= t.lastLaunch /\ (l \in t.launches \/ Moment - l >= HOUR)
  BY <1>1 DEF Knows
<1>3. composed <= t.lastBackendAttempt /\ docked <= t.lastDockerLaunch
  BY <1>1 DEF Knows
<1> QED BY <1>2, <1>3 DEF Knows

(* A tick's observation loses nothing it must remember.                    *)
LEMMA ObservedKnows ==
    ASSUME SupervisorTypes, NEW s \in State, NEW r \in Heartbeat, NEW h \in Heartbeat, Knows(s, h), ~Under,
           r # NoReport => h.at <= r.at,
           \A l \in launched : l <= clock,
           NEW fresh \in BOOLEAN, fresh <=> r # NoReport /\ Fresh(r, clock)
    PROVE  LET t == Observed(s, r, clock)
               g == IF fresh THEN r ELSE h
           IN /\ \A l \in launched : l <= t.lastLaunch /\ (l \in t.launches \/ clock - l >= HOUR)
              /\ t.lastLaunch = s.lastLaunch /\ t.launches \subseteq s.launches
              /\ ~(fresh /\ r.reachable) => t.outageLaunched = s.outageLaunched
              /\ t.lastBackendAttempt = s.lastBackendAttempt /\ t.lastDockerLaunch = s.lastDockerLaunch
              /\ g.at <= t.lastHeartbeatAt /\ g.until <= t.pausedUntil
              /\ (g.waiting => t.waitingVerification) /\ (g.off => t.refreshDisabled)
<1> DEFINE recent == [s EXCEPT !.launches = @ \intersect Within(clock, HOUR)]
           learnt == [recent EXCEPT !.lastHeartbeatAt = Later(@, r.at),
                                    !.waitingVerification = @ \/ r.waiting,
                                    !.refreshDisabled = @ \/ r.off,
                                    !.pausedUntil = Later(@, r.until)]
           cleared == [learnt EXCEPT !.refreshDisabled = r.off, !.waitingVerification = r.waiting,
                                     !.pausedUntil = IF r.waiting THEN @ ELSE r.until,
                                     !.outageLaunched = @ /\ ~r.reachable]
           t == Observed(s, r, clock)
<1>1. t = IF r = NoReport THEN recent ELSE IF ~Fresh(r, clock) THEN learnt ELSE cleared
  BY DEF Observed, Clears
<1>2. /\ clock \in Nat /\ HOUR \in Nat /\ s.launches \subseteq Times
      /\ {s.lastHeartbeatAt, s.pausedUntil, h.at, h.until, r.at, r.until} \subseteq Nat
      /\ \A l \in launched : l \in Nat
  BY Typed, Constants
<1>3. s \in State BY Typed
<1>4. /\ recent.lastLaunch = s.lastLaunch /\ recent.launches = s.launches \intersect Within(clock, HOUR)
      /\ recent.outageLaunched = s.outageLaunched /\ recent.lastBackendAttempt = s.lastBackendAttempt
      /\ recent.lastDockerLaunch = s.lastDockerLaunch /\ recent.lastHeartbeatAt = s.lastHeartbeatAt
      /\ recent.pausedUntil = s.pausedUntil /\ recent.waitingVerification = s.waitingVerification
      /\ recent.refreshDisabled = s.refreshDisabled /\ recent \in State
  BY <1>3 DEF State
<1>5. /\ learnt.lastLaunch = recent.lastLaunch /\ learnt.launches = recent.launches
      /\ learnt.outageLaunched = recent.outageLaunched /\ learnt.lastBackendAttempt = recent.lastBackendAttempt
      /\ learnt.lastDockerLaunch = recent.lastDockerLaunch
      /\ learnt.lastHeartbeatAt = Later(s.lastHeartbeatAt, r.at) /\ learnt.pausedUntil = Later(s.pausedUntil, r.until)
      /\ learnt.waitingVerification = (s.waitingVerification \/ r.waiting)
      /\ learnt.refreshDisabled = (s.refreshDisabled \/ r.off)
      /\ DOMAIN learnt = DOMAIN recent
  BY <1>4 DEF State
<1>6. /\ cleared.lastLaunch = recent.lastLaunch /\ cleared.launches = recent.launches
      /\ cleared.outageLaunched = (recent.outageLaunched /\ ~r.reachable)
      /\ cleared.lastBackendAttempt = recent.lastBackendAttempt /\ cleared.lastDockerLaunch = recent.lastDockerLaunch
      /\ cleared.lastHeartbeatAt = Later(s.lastHeartbeatAt, r.at)
      /\ cleared.pausedUntil = (IF r.waiting THEN Later(s.pausedUntil, r.until) ELSE r.until)
      /\ cleared.waitingVerification = r.waiting /\ cleared.refreshDisabled = r.off
  BY <1>4, <1>5 DEF State
<1> HIDE DEF recent, learnt, cleared, t
<1>7. t.lastLaunch = s.lastLaunch /\ t.launches = s.launches \intersect Within(clock, HOUR)
      /\ t.lastBackendAttempt = s.lastBackendAttempt /\ t.lastDockerLaunch = s.lastDockerLaunch
  BY <1>1, <1>4, <1>5, <1>6
<1>8. ASSUME NEW l \in launched PROVE l <= t.lastLaunch /\ (l \in t.launches \/ clock - l >= HOUR)
  <2>1. l <= s.lastLaunch /\ (l \in s.launches \/ clock - l >= HOUR) BY DEF Knows, Moment
  <2>2. l \in Nat /\ l <= clock BY <1>2
  <2>3. CASE clock - l >= HOUR BY <1>7, <2>1, <2>3
  <2>4. CASE ~(clock - l >= HOUR)
    <3>1. l \in Within(clock, HOUR) BY <1>2, <2>1, <2>2, <2>4 DEF Within
    <3> QED BY <1>7, <2>1, <2>4, <3>1
  <2> QED BY <2>3, <2>4
<1>9. ~(fresh /\ r.reachable) => t.outageLaunched = s.outageLaunched
  <2>1. s.outageLaunched \in BOOLEAN BY <1>3 DEF State
  <2> QED BY <1>1, <1>4, <1>5, <1>6, <2>1
<1>10. CASE fresh
  <2>1. t = cleared BY <1>1, <1>10
  <2>2. r.at <= t.lastHeartbeatAt /\ r.until <= t.pausedUntil BY <1>2, <1>6, <2>1 DEF Later
  <2> QED BY <1>6, <1>7, <1>8, <1>9, <1>10, <2>1, <2>2 DEF t
<1>11. CASE ~fresh
  <2>1. t = recent \/ t = learnt BY <1>1, <1>11
  <2>2. h.at <= t.lastHeartbeatAt /\ h.until <= t.pausedUntil BY <1>2, <1>4, <1>5, <2>1 DEF Later, Knows
  <2>3. (h.waiting => t.waitingVerification) /\ (h.off => t.refreshDisabled)
    BY <1>4, <1>5, <2>1 DEF Knows
  <2> QED BY <1>7, <1>8, <1>9, <1>11, <2>2, <2>3 DEF t
<1> QED BY <1>10, <1>11

-----------------------------------------------------------------------------
(* The steps                                                               *)

(* A tick takes its decision.                                              *)
LEMMA TickKeeps ==
    ASSUME SupervisorInvariant, SupervisorTypes', TickOnce
    PROVE  SupervisorInvariant'
<1>1. /\ SupervisorTypes /\ LaunchesAreBudgeted /\ Knows(disk, heard.saved) /\ Knows(state, heard.read)
      /\ Timely(heard.saved) /\ Timely(heard.read) /\ ReportIsTimed /\ Ticking /\ phase = "idle"
  BY DEF SupervisorInvariant, TickOnce
<1>2. PICK running \in BOOLEAN, s \in State, go \in BOOLEAN, fresh \in BOOLEAN, h \in Heartbeat :
         /\ s = Observed(state, Health, clock) /\ go = MayLaunch(s, Health, clock, running)
         /\ fresh = (Health # NoReport /\ Fresh(Health, clock))
         /\ h = IF fresh THEN Health ELSE heard.read
         /\ Persist(s, IF notifier THEN AfterBackend(go) ELSE "backend", h)
         /\ tick' = IF phase' = "idle" THEN NoTick ELSE [at |-> clock, launch |-> go, saw |-> running]
         /\ unanswered' = (unanswered /\ running /\ ~(fresh /\ Health.reachable))
  <2>1. Health \in Heartbeat /\ state \in State /\ clock \in Nat
    <3>1. 0 \in Times BY Constants
    <3> QED BY <1>1, <3>1, Typed DEF Health, NoReport, Heartbeat
  <2>2. Observed(state, Health, clock) \in State BY <2>1, Observations
  <2>3. PICK running \in BOOLEAN :
           LET s  == Observed(state, Health, clock)
               go == MayLaunch(s, Health, clock, running)
               fresh == Health # NoReport /\ Fresh(Health, clock)
           IN /\ Persist(s, IF notifier THEN AfterBackend(go) ELSE "backend", IF fresh THEN Health ELSE heard.read)
              /\ tick' = IF phase' = "idle" THEN NoTick ELSE [at |-> clock, launch |-> go, saw |-> running]
              /\ unanswered' = (unanswered /\ running /\ ~(fresh /\ Health.reachable))
    BY <1>1 DEF TickOnce, SupervisorTypes
  <2>4. MayLaunch(Observed(state, Health, clock), Health, clock, running) \in BOOLEAN BY DEF MayLaunch, Stopped
  <2>5. (Health # NoReport /\ Fresh(Health, clock)) \in BOOLEAN OBVIOUS
  <2>6. (IF Health # NoReport /\ Fresh(Health, clock) THEN Health ELSE heard.read) \in Heartbeat
    BY <1>1, <2>1, Typed
  <2> QED BY <2>2, <2>3, <2>4, <2>5, <2>6
<1>3. UNCHANGED <<clock, world, started, launched, composed, docked>> BY DEF TickOnce
<1>4. /\ clock \in Nat \ {0} /\ state \in State /\ disk \in State /\ heard.read \in Heartbeat /\ heard.saved \in Heartbeat
      /\ report \in Heartbeat /\ Health \in Heartbeat
  <2>1. 0 \in Times BY Constants
  <2> QED BY <1>1, <2>1, Typed DEF SupervisorTypes, Times, Health, NoReport, Heartbeat
<1>5. at' \in {clock, 0} /\ (Under' => at' = clock) /\ (~Under' => tick' = NoTick)
  <2>1. phase' \in {"commit", "idle", "backend"} BY <1>2 DEF Persist, AfterBackend
  <2> QED BY <1>2, <2>1 DEF at, Under, NoTick
<1>6. Moment = clock /\ Moment' = clock BY <1>1, <1>3, <1>5 DEF Moment, Under
<1>7. \A l \in launched : l <= clock /\ 0 < l BY <1>1 DEF Ticking
<1>8. (Health # NoReport => heard.read.at <= Health.at) /\ ~Under
  BY <1>1 DEF Timely, Health, Under
<1>9. /\ \A l \in launched : l <= s.lastLaunch /\ (l \in s.launches \/ clock - l >= HOUR)
      /\ s.lastLaunch = state.lastLaunch /\ s.launches \subseteq state.launches
      /\ ~(fresh /\ Health.reachable) => s.outageLaunched = state.outageLaunched
      /\ s.lastBackendAttempt = state.lastBackendAttempt /\ s.lastDockerLaunch = state.lastDockerLaunch
      /\ h.at <= s.lastHeartbeatAt /\ h.until <= s.pausedUntil
      /\ (h.waiting => s.waitingVerification) /\ (h.off => s.refreshDisabled)
  BY <1>1, <1>2, <1>4, <1>7, <1>8, ObservedKnows
<1>10. Knows(s, h)'
  <2>1. unanswered' => s.outageLaunched BY <1>1, <1>2, <1>9 DEF Knows
  <2>2. composed <= s.lastBackendAttempt /\ docked <= s.lastDockerLaunch BY <1>1, <1>9 DEF Knows
  <2> QED BY <1>3, <1>6, <1>9, <2>1, <2>2 DEF Knows
<1>11. state' = s /\ heard'.read = h BY <1>2 DEF Persist
<1>12. Knows(state, heard.read)' BY <1>10, <1>11
<1>13. Knows(disk, heard.saved)'
  <2>1. CASE disk' = s /\ heard'.saved = h BY <1>10, <2>1
  <2>2. CASE disk' = disk /\ heard'.saved = heard.saved
    <3>1. PICK d \in State, k \in Heartbeat : d = disk /\ k = heard.saved BY <1>4
    <3>2. Knows(d, k) BY <1>1, <3>1
    <3>3. Moment \in Nat /\ Moment' \in Nat /\ Moment <= Moment' BY <1>4, <1>6
    <3>4. launched' = launched /\ (unanswered' => unanswered) /\ composed' = composed /\ docked' = docked
      BY <1>2, <1>3
    <3>5. Knows(d, k)' BY <1>1, <3>2, <3>3, <3>4, KnowsOn
    <3> QED BY <2>2, <3>1, <3>5
  <2> QED BY <1>2, <2>1, <2>2 DEF Persist
<1>14. Timely(heard.read)' /\ Timely(heard.saved)'
  <2>1. Timely(heard.read) /\ Timely(heard.saved) BY <1>1
  <2>2. fresh => Health = report /\ report # NoReport /\ report.at <= clock
    BY <1>1, <1>2 DEF Health, ReportIsTimed
  <2>3. fresh => report.at > 0 BY <1>1, <2>2 DEF ReportIsTimed
  <2>4. report.at \in Nat BY <1>1, Typed
  <2>5. h.at <= clock /\ (report # NoReport => h.at <= report.at) /\ (h # NoReport => h.at > 0)
    BY <1>2, <2>1, <2>2, <2>3, <2>4 DEF Timely
  <2>6. report' = report /\ clock' = clock BY <1>3 DEF world
  <2>7. heard'.read = h /\ heard'.saved \in {h, heard.saved} BY <1>2 DEF Persist
  <2> QED BY <2>1, <2>5, <2>6, <2>7 DEF Timely
<1>15. go => ~fresh /\ h = heard.read /\ Silent(s, Health, clock, running) /\ ~Paused(s, clock) /\ ~Stopped(s)
             /\ ~(running /\ s.outageLaunched) /\ Budgeted(s, clock)
  BY <1>2 DEF MayLaunch, Silent
<1>16. phase' \in {"commit", "idle", "backend"} /\ (phase' = "commit" => go)
  BY <1>2 DEF Persist, AfterBackend
<1>17. ASSUME tick'.launch
       PROVE  ~unanswered' /\ Justified' /\ Budgeted(state, at)'
  <2>1. Under' /\ go /\ tick' = [at |-> clock, launch |-> go, saw |-> running] /\ at' = clock
    BY <1>2, <1>5, <1>17 DEF NoTick, at
  <2>2. ~unanswered' BY <1>1, <1>2, <1>9, <1>15, <2>1 DEF Knows
  <2>3. ~h.waiting /\ (minutes = "none" => ~h.off) BY <1>9, <1>15, <2>1 DEF Paused, Stopped
  <2>4. /\ {s.pausedUntil, s.lastHeartbeatAt, h.at, h.until, Health.at, clock, STALE, started, GRACE} \subseteq Nat
    BY <1>1, <1>4, Typed, Constants
  <2>5. h.until <= clock BY <1>9, <1>15, <2>1, <2>4 DEF Paused
  <2>6. ASSUME running, h # NoReport PROVE clock - h.at > STALE
    <3>1. h.at > 0 /\ h = heard.read BY <1>1, <1>15, <2>1, <2>6 DEF Timely
    <3>2. CASE Health = NoReport
      <4>1. s.lastHeartbeatAt # 0 BY <1>9, <2>4, <3>1
      <4>2. clock - s.lastHeartbeatAt > STALE BY <1>15, <2>1, <2>6, <3>2, <4>1 DEF Silent
      <4> QED BY <1>9, <2>4, <4>2
    <3>3. CASE Health # NoReport
      <4>1. clock - Health.at > STALE BY <1>15, <2>1, <2>4, <3>3 DEF Silent, Fresh
      <4> QED BY <1>8, <2>4, <3>1, <3>3, <4>1
    <3> QED BY <3>2, <3>3
  <2>7. tick'.saw = running /\ heard'.read = h /\ minutes' = minutes BY <1>3, <1>11, <2>1 DEF world
  <2>8. Justified' BY <2>1, <2>3, <2>5, <2>6, <2>7 DEF Justified
  <2>9. Budgeted(state, at)' BY <1>11, <1>15, <2>1 DEF Budgeted
  <2> QED BY <2>2, <2>8, <2>9
<1>18. Allowed' BY <1>16, <1>17 DEF Allowed
<1>19. Ready' BY <1>16 DEF Ready
<1>20. Ticking'
  <2>1. at' <= clock' /\ (Under' => at' > 0) /\ \A l \in launched' : 0 < l /\ l <= clock'
    BY <1>3, <1>4, <1>5, <1>7
  <2>2. phase' = "commit" => tick'.launch BY <1>2, <1>16
  <2> QED BY <1>5, <1>16, <2>1, <2>2 DEF Ticking
<1>21. LaunchesAreBudgeted' BY <1>1, <1>3 DEF LaunchesAreBudgeted
<1>22. ReportIsTimed' BY <1>1, <1>3 DEF ReportIsTimed, world
<1> QED BY <1>12, <1>13, <1>14, <1>18, <1>19, <1>20, <1>21, <1>22 DEF SupervisorInvariant

(* What the steps under way share: the tick's moment, and that what a step *)
(* leaves in memory and file is what it made or what was there.            *)
LEMMA MomentGrows ==
    ASSUME SupervisorTypes, Ticking, Under, Goes, clock' = clock, phase' # "down"
    PROVE  /\ Moment = at /\ Moment \in Nat /\ Moment' \in Nat /\ Moment <= Moment'
           /\ phase' = "idle" => tick' = NoTick /\ ~Under'
           /\ phase' # "idle" => tick' = tick /\ at' = at /\ Under' /\ Moment' = at
           /\ at' <= clock' /\ (Under' => at' > 0) /\ (~Under' => tick' = NoTick)
<1>1. clock \in Nat /\ at \in Nat /\ at <= clock /\ at > 0 BY Typed DEF Ticking
<1>2. phase' = "idle" => tick' = NoTick /\ ~Under' /\ at' = 0 /\ Moment' = clock
  BY DEF Goes, Under, NoTick, Moment, at
<1>3. phase' # "idle" => tick' = tick /\ at' = at /\ Under' /\ Moment' = at
  BY DEF Goes, Under, Moment, at
<1> QED BY <1>1, <1>2, <1>3 DEF Moment

LEMMA Carried ==
    ASSUME SupervisorTypes, Timely(heard.saved), Timely(heard.read), clock' = clock, report' = report,
           NEW s \in State, NEW d \in State, NEW h \in Heartbeat, NEW k \in Heartbeat,
           h = heard.read, k = heard.saved, Knows(s, h)', Knows(d, k)',
           state' = s, heard'.read = h, (disk' = s /\ heard'.saved = h) \/ (disk' = d /\ heard'.saved = k)
    PROVE  /\ Knows(state, heard.read)' /\ Knows(disk, heard.saved)'
           /\ Timely(heard.read)' /\ Timely(heard.saved)'
<1>1. Knows(state, heard.read)' OBVIOUS
<1>2. Knows(disk, heard.saved)' OBVIOUS
<1>3. Timely(heard.read)' /\ Timely(heard.saved)' BY DEF Timely
<1> QED BY <1>1, <1>2, <1>3

(* The attempts to start the notifier: each is in the file before it is    *)
(* made.                                                                   *)
LEMMA BackendKeeps ==
    ASSUME SupervisorInvariant, SupervisorTypes', Backend
    PROVE  SupervisorInvariant'
<1>1. /\ SupervisorTypes /\ LaunchesAreBudgeted /\ Knows(disk, heard.saved) /\ Knows(state, heard.read)
      /\ Timely(heard.saved) /\ Timely(heard.read) /\ ReportIsTimed /\ Ticking /\ Allowed /\ phase = "backend" /\ Under
  BY DEF SupervisorInvariant, Backend, Under
<1>2. Goes /\ UNCHANGED <<clock, world, launched, unanswered, composed, docked>> BY DEF Backend
<1>3. report' = report /\ minutes' = minutes BY <1>2 DEF world
<1>4. PICK s \in State, d \in State, h \in Heartbeat, k \in Heartbeat :
         /\ d = disk /\ h = heard.read /\ k = heard.saved
         /\ s = IF TooSoon(state.lastBackendAttempt, BACKEND_RETRY) THEN state
                ELSE [state EXCEPT !.lastBackendAttempt = at]
  <2>1. [state EXCEPT !.lastBackendAttempt = at] \in State BY <1>1 DEF SupervisorTypes, State, at
  <2> QED BY <1>1, <2>1, Typed
<1>5. /\ state' = s /\ heard'.read = h
      /\ (disk' = s /\ heard'.saved = h) \/ (disk' = d /\ heard'.saved = k)
      /\ phase' = "docker" => disk' = s /\ ~TooSoon(state.lastBackendAttempt, BACKEND_RETRY)
      /\ phase' \in {"docker", "idle", "commit"} /\ (phase' = "commit" => s = state /\ tick.launch)
  BY <1>1, <1>4 DEF Backend, Skip, Save, Persist, AfterBackend, SupervisorTypes
<1>6. /\ Moment = at /\ Moment \in Nat /\ Moment' \in Nat /\ Moment <= Moment'
      /\ phase' = "idle" => tick' = NoTick /\ ~Under'
      /\ phase' # "idle" => tick' = tick /\ at' = at /\ Under' /\ Moment' = at
      /\ at' <= clock' /\ (Under' => at' > 0) /\ (~Under' => tick' = NoTick)
  BY <1>1, <1>2, <1>5, MomentGrows
<1>7. {at, composed, docked, state.lastBackendAttempt, BACKEND_RETRY} \subseteq Nat /\ state \in State
  BY <1>1, Typed, Constants
<1>8. /\ s.lastLaunch = state.lastLaunch /\ s.launches = state.launches /\ s.outageLaunched = state.outageLaunched
      /\ s.lastDockerLaunch = state.lastDockerLaunch /\ s.lastHeartbeatAt = state.lastHeartbeatAt
      /\ s.pausedUntil = state.pausedUntil /\ s.waitingVerification = state.waitingVerification
      /\ s.refreshDisabled = state.refreshDisabled
      /\ s # state => s.lastBackendAttempt = at
      /\ phase' = "docker" => s.lastBackendAttempt = at
  BY <1>4, <1>5, <1>7 DEF State
<1>9. state.lastBackendAttempt <= s.lastBackendAttempt
  BY <1>4, <1>7, <1>8 DEF TooSoon
<1>10. Knows(s, h)
  <2>1. state.lastLaunch <= s.lastLaunch /\ state.lastDockerLaunch <= s.lastDockerLaunch BY <1>1, <1>8, Typed
  <2> QED BY <1>1, <1>4, <1>7, <1>8, <1>9, <2>1, KnowsMore
<1>11. Knows(s, h)' /\ Knows(d, k)'
  <2>1. launched' = launched /\ (unanswered' => unanswered) /\ composed' = composed /\ docked' = docked BY <1>2
  <2>2. Knows(s, h)' BY <1>1, <1>6, <1>10, <2>1, KnowsOn
  <2>3. Knows(d, k) BY <1>1, <1>4
  <2>4. Knows(d, k)' BY <1>1, <1>6, <2>1, <2>3, KnowsOn
  <2> QED BY <2>2, <2>4
<1>12. /\ Knows(state, heard.read)' /\ Knows(disk, heard.saved)'
       /\ Timely(heard.read)' /\ Timely(heard.saved)'
  BY <1>1, <1>2, <1>3, <1>4, <1>5, <1>11, Carried
<1>13. tick'.launch => ~unanswered' /\ Justified' /\ Budgeted(state, at)'
  <2>1. ASSUME tick'.launch PROVE ~unanswered' /\ Justified' /\ Budgeted(state, at)'
    <3>1. tick' = tick /\ at' = at /\ heard'.read = heard.read BY <1>4, <1>5, <1>6, <2>1 DEF NoTick
    <3>2. Budgeted(state, at) /\ Justified /\ ~unanswered BY <1>1, <2>1, <3>1 DEF Allowed
    <3>3. Justified' BY <1>3, <3>1, <3>2 DEF Justified
    <3>4. Budgeted(state, at)' BY <1>5, <1>8, <3>1, <3>2 DEF Budgeted
    <3> QED BY <1>2, <3>2, <3>3, <3>4
  <2> QED BY <2>1
<1>14. phase' = "docker" /\ composed' # 0 => at' - composed' >= BACKEND_RETRY
  <2>1. composed <= state.lastBackendAttempt BY <1>1 DEF Knows
  <2> QED BY <1>2, <1>5, <1>6, <1>7, <2>1 DEF TooSoon
<1>15. Allowed' BY <1>5, <1>6, <1>8, <1>13, <1>14 DEF Allowed
<1>16. Ready' BY <1>5 DEF Ready
<1>17. Ticking' BY <1>1, <1>2, <1>5, <1>6 DEF Ticking
<1> QED BY <1>1, <1>2, <1>3, <1>12, <1>15, <1>16, <1>17 DEF SupervisorInvariant, LaunchesAreBudgeted, ReportIsTimed

LEMMA DockerKeeps ==
    ASSUME SupervisorInvariant, SupervisorTypes', Docker
    PROVE  SupervisorInvariant'
<1>1. /\ SupervisorTypes /\ LaunchesAreBudgeted /\ Knows(disk, heard.saved) /\ Knows(state, heard.read)
      /\ Timely(heard.saved) /\ Timely(heard.read) /\ ReportIsTimed /\ Ticking /\ Allowed /\ phase = "docker" /\ disk = state /\ state.lastBackendAttempt = at /\ Under
  BY DEF SupervisorInvariant, Docker, Under, Ticking, Allowed
<1>2. Goes /\ UNCHANGED <<clock, world, launched, unanswered, composed, docked>> BY DEF Docker
<1>3. report' = report /\ minutes' = minutes BY <1>2 DEF world
<1>4. PICK s \in State, d \in State, h \in Heartbeat, k \in Heartbeat :
         /\ d = disk /\ h = heard.read /\ k = heard.saved
         /\ state' = s
         /\ \/ s = state
            \/ s = [state EXCEPT !.lastDockerLaunch = at] /\ ~TooSoon(state.lastDockerLaunch, DOCKER_RETRY)
  <2>1. [state EXCEPT !.lastDockerLaunch = at] \in State BY <1>1 DEF SupervisorTypes, State, at
  <2>2. state \in State BY <1>1, Typed
  <2>3. \/ state' = state
        \/ state' = [state EXCEPT !.lastDockerLaunch = at] /\ ~TooSoon(state.lastDockerLaunch, DOCKER_RETRY)
    BY DEF Docker, Skip, Save, Persist
  <2> QED BY <1>1, <2>1, <2>2, <2>3, Typed
<1>5. /\ state' = s /\ heard'.read = h
      /\ (disk' = s /\ heard'.saved = h) \/ (disk' = d /\ heard'.saved = k)
      /\ phase' = "desktop" => disk' = s /\ ~TooSoon(state.lastDockerLaunch, DOCKER_RETRY)
                            /\ s = [state EXCEPT !.lastDockerLaunch = at]
      /\ phase' = "compose" => s = state /\ disk' = disk
      /\ phase' \in {"desktop", "compose", "idle", "commit"} /\ (phase' = "commit" => s = state /\ tick.launch)
  BY <1>1, <1>4 DEF Docker, Skip, Save, Persist, AfterBackend, SupervisorTypes
<1>6. /\ Moment = at /\ Moment \in Nat /\ Moment' \in Nat /\ Moment <= Moment'
      /\ phase' = "idle" => tick' = NoTick /\ ~Under'
      /\ phase' # "idle" => tick' = tick /\ at' = at /\ Under' /\ Moment' = at
      /\ at' <= clock' /\ (Under' => at' > 0) /\ (~Under' => tick' = NoTick)
  BY <1>1, <1>2, <1>5, MomentGrows
<1>7. {at, composed, docked, state.lastDockerLaunch, DOCKER_RETRY} \subseteq Nat /\ state \in State
  BY <1>1, Typed, Constants
<1>8. /\ s.lastLaunch = state.lastLaunch /\ s.launches = state.launches /\ s.outageLaunched = state.outageLaunched
      /\ s.lastBackendAttempt = at /\ s.lastHeartbeatAt = state.lastHeartbeatAt
      /\ s.pausedUntil = state.pausedUntil /\ s.waitingVerification = state.waitingVerification
      /\ s.refreshDisabled = state.refreshDisabled
      /\ s # state => s.lastDockerLaunch = at
      /\ phase' = "desktop" => s.lastDockerLaunch = at
  BY <1>1, <1>4, <1>5, <1>7 DEF State
<1>9. state.lastDockerLaunch <= s.lastDockerLaunch
  BY <1>4, <1>7, <1>8 DEF TooSoon
<1>10. Knows(s, h)
  <2>1. state.lastLaunch <= s.lastLaunch /\ state.lastBackendAttempt <= s.lastBackendAttempt
    BY <1>1, <1>7, <1>8, Typed
  <2> QED BY <1>1, <1>4, <1>7, <1>8, <1>9, <2>1, KnowsMore
<1>11. Knows(s, h)' /\ Knows(d, k)'
  <2>1. launched' = launched /\ (unanswered' => unanswered) /\ composed' = composed /\ docked' = docked BY <1>2
  <2>2. Knows(s, h)' BY <1>1, <1>6, <1>10, <2>1, KnowsOn
  <2>3. Knows(d, k) BY <1>1, <1>4
  <2>4. Knows(d, k)' BY <1>1, <1>6, <2>1, <2>3, KnowsOn
  <2> QED BY <2>2, <2>4
<1>12. /\ Knows(state, heard.read)' /\ Knows(disk, heard.saved)'
       /\ Timely(heard.read)' /\ Timely(heard.saved)'
  BY <1>1, <1>2, <1>3, <1>4, <1>5, <1>11, Carried
<1>13. tick'.launch => ~unanswered' /\ Justified' /\ Budgeted(state, at)'
  <2>1. ASSUME tick'.launch PROVE ~unanswered' /\ Justified' /\ Budgeted(state, at)'
    <3>1. tick' = tick /\ at' = at /\ heard'.read = heard.read BY <1>4, <1>5, <1>6, <2>1 DEF NoTick
    <3>2. Budgeted(state, at) /\ Justified /\ ~unanswered BY <1>1, <2>1, <3>1 DEF Allowed
    <3>3. Justified' BY <1>3, <3>1, <3>2 DEF Justified
    <3>4. Budgeted(state, at)' BY <1>5, <1>8, <3>1, <3>2 DEF Budgeted
    <3> QED BY <1>2, <3>2, <3>3, <3>4
  <2> QED BY <2>1
<1>14. phase' = "desktop" /\ docked' # 0 => at' - docked' >= DOCKER_RETRY
  <2>1. docked <= state.lastDockerLaunch BY <1>1 DEF Knows
  <2> QED BY <1>2, <1>5, <1>6, <1>7, <2>1 DEF TooSoon
<1>15. Allowed'
  <2>1. phase' = "compose" /\ composed' # 0 => at' - composed' >= BACKEND_RETRY
    BY <1>1, <1>2, <1>5, <1>6 DEF Allowed
  <2> QED BY <1>4, <1>5, <1>6, <1>8, <1>13, <1>14, <2>1 DEF Allowed
<1>16. Ready' BY <1>5 DEF Ready
<1>17. Ticking' BY <1>1, <1>2, <1>4, <1>5, <1>6 DEF Ticking
<1> QED BY <1>1, <1>2, <1>3, <1>12, <1>15, <1>16, <1>17 DEF SupervisorInvariant, LaunchesAreBudgeted, ReportIsTimed

LEMMA AttemptKeeps ==
    ASSUME SupervisorInvariant, SupervisorTypes', Compose \/ Desktop
    PROVE  SupervisorInvariant'
<1>1. /\ SupervisorTypes /\ LaunchesAreBudgeted /\ Knows(disk, heard.saved) /\ Knows(state, heard.read)
      /\ Timely(heard.saved) /\ Timely(heard.read) /\ ReportIsTimed /\ Ticking /\ Allowed /\ Under
      /\ disk = state /\ state.lastBackendAttempt = at /\ (Desktop => state.lastDockerLaunch = at)
      /\ phase \in {"compose", "desktop"}
  <2>1. phase \in {"compose", "desktop"} /\ (Desktop => phase = "desktop") BY DEF Compose, Desktop
  <2> QED BY <2>1 DEF SupervisorInvariant, Under, Ticking, Allowed
<1>2. /\ Goes /\ UNCHANGED <<clock, report, minutes, disk, state, launched, unanswered, heard>>
      /\ phase' = AfterBackend(tick.launch) /\ composed' \in {composed, at} /\ docked' \in {docked, at}
      /\ (docked' = docked \/ Desktop)
  BY DEF Compose, Desktop, world
<1>3. phase' \in {"idle", "commit"} /\ (phase' = "commit" => tick.launch) BY <1>2 DEF AfterBackend
<1>4. PICK s \in State, h \in Heartbeat, k \in Heartbeat : s = state /\ h = heard.read /\ k = heard.saved
  BY <1>1, Typed
<1>5. /\ Moment = at /\ Moment \in Nat /\ Moment' \in Nat /\ Moment <= Moment'
      /\ phase' = "idle" => tick' = NoTick /\ ~Under'
      /\ phase' # "idle" => tick' = tick /\ at' = at /\ Under' /\ Moment' = at
      /\ at' <= clock' /\ (Under' => at' > 0) /\ (~Under' => tick' = NoTick)
  BY <1>1, <1>2, <1>3, MomentGrows
<1>6. {at, composed, docked, state.lastBackendAttempt, state.lastDockerLaunch, HOUR} \subseteq Nat
      /\ \A l \in launched : l \in Nat
  BY <1>1, Typed, Constants
<1>7. Knows(s, h)' /\ Knows(s, k)'
  <2>1. composed' <= s.lastBackendAttempt /\ docked' <= s.lastDockerLaunch
    BY <1>1, <1>2, <1>4, <1>6 DEF Knows
  <2>2. ASSUME NEW l \in launched PROVE l <= s.lastLaunch /\ (l \in s.launches \/ Moment' - l >= HOUR)
    <3>1. l <= s.lastLaunch /\ (l \in s.launches \/ Moment - l >= HOUR) BY <1>1, <1>4 DEF Knows
    <3> QED BY <1>5, <1>6, <3>1, Aged
  <2> QED BY <1>1, <1>2, <1>4, <2>1, <2>2 DEF Knows
<1>8. Knows(state, heard.read)' /\ Knows(disk, heard.saved)' BY <1>1, <1>2, <1>4, <1>7
<1>9. Timely(heard.read)' /\ Timely(heard.saved)' /\ ReportIsTimed' BY <1>1, <1>2 DEF Timely, ReportIsTimed
<1>10. ASSUME tick'.launch PROVE ~unanswered' /\ Justified' /\ Budgeted(state, at)'
  <2>1. tick' = tick /\ at' = at BY <1>3, <1>5, <1>10 DEF NoTick
  <2>2. Budgeted(state, at) /\ Justified /\ ~unanswered BY <1>1, <1>10, <2>1 DEF Allowed
  <2>3. Justified' BY <1>2, <2>1, <2>2 DEF Justified
  <2>4. Budgeted(state, at)' BY <1>2, <2>1, <2>2 DEF Budgeted
  <2> QED BY <1>2, <2>2, <2>3, <2>4
<1>11. Allowed' BY <1>3, <1>10 DEF Allowed
<1>12. Ready' /\ Ticking' BY <1>1, <1>2, <1>3, <1>5 DEF Ready, Ticking
<1> QED BY <1>1, <1>2, <1>8, <1>9, <1>11, <1>12 DEF SupervisorInvariant, LaunchesAreBudgeted

LEMMA OneMore ==
    ASSUME NEW S, IsFiniteSet(S), NEW x
    PROVE  /\ IsFiniteSet(S \union {x}) /\ Cardinality(S \union {x}) \in Nat
           /\ Cardinality(S \union {x}) <= Cardinality(S) + 1
<1>1. Cardinality(S) \in Nat BY FS_CardinalityType
<1>2. /\ IsFiniteSet(S \union {x})
      /\ Cardinality(S \union {x}) = IF x \in S THEN Cardinality(S) ELSE Cardinality(S) + 1
  BY FS_AddElement
<1> QED BY <1>1, <1>2

(* The attempt is in memory and file before the page is opened.            *)
LEMMA CommitKeeps ==
    ASSUME SupervisorInvariant, SupervisorTypes', SaveAttempt
    PROVE  SupervisorInvariant'
<1>1. /\ SupervisorTypes /\ LaunchesAreBudgeted /\ Knows(disk, heard.saved) /\ Knows(state, heard.read)
      /\ Timely(heard.saved) /\ Timely(heard.read) /\ ReportIsTimed /\ Ticking /\ Allowed /\ phase = "commit" /\ Under
      /\ tick.launch /\ ~unanswered /\ Justified /\ Budgeted(state, at)
  BY DEF SupervisorInvariant, SaveAttempt, Under, Ticking, Allowed
<1>2. Goes /\ UNCHANGED <<clock, world, launched, unanswered, composed, docked>> BY DEF SaveAttempt
<1>3. report' = report /\ minutes' = minutes BY <1>2 DEF world
<1>4. PICK s \in State, d \in State, h \in Heartbeat, k \in Heartbeat :
         /\ d = disk /\ h = heard.read /\ k = heard.saved /\ state' = s
         /\ (s = state /\ phase' = "idle") \/ s = Attempt(state)
  <2>1. Attempt(state) \in State BY <1>1 DEF SupervisorTypes, State, at, Attempt
  <2>2. state \in State BY <1>1, Typed
  <2>3. (state' = state /\ phase' = "idle") \/ state' = Attempt(state) BY DEF SaveAttempt, Skip, Save, Persist
  <2> QED BY <1>1, <2>1, <2>2, <2>3, Typed
<1>5. /\ heard'.read = h
      /\ (disk' = s /\ heard'.saved = h) \/ (disk' = d /\ heard'.saved = k)
      /\ phase' = "launch" => disk' = s /\ s = Attempt(state)
      /\ phase' \in {"launch", "idle"}
  BY <1>1, <1>4 DEF SaveAttempt, Skip, Save, Persist, SupervisorTypes
<1>6. /\ Moment = at /\ Moment \in Nat /\ Moment' \in Nat /\ Moment <= Moment'
      /\ phase' = "idle" => tick' = NoTick /\ ~Under'
      /\ phase' # "idle" => tick' = tick /\ at' = at /\ Under' /\ Moment' = at
      /\ at' <= clock' /\ (Under' => at' > 0) /\ (~Under' => tick' = NoTick)
  BY <1>1, <1>2, <1>5, MomentGrows
<1>7. {at, state.lastLaunch, COOLDOWN, HOUR, MAX_LAUNCHES} \subseteq Nat /\ state \in State /\ COOLDOWN > 0
      /\ at > 0 /\ launched \subseteq Nat /\ \A l \in launched : l > 0
  BY <1>1, Typed, Constants DEF Ticking
<1>8. /\ s = Attempt(state) => /\ s.lastLaunch = at /\ s.launches = state.launches \union {at} /\ s.outageLaunched
                               /\ s.lastBackendAttempt = state.lastBackendAttempt
                               /\ s.lastDockerLaunch = state.lastDockerLaunch
                               /\ s.lastHeartbeatAt = state.lastHeartbeatAt /\ s.pausedUntil = state.pausedUntil
                               /\ s.waitingVerification = state.waitingVerification
                               /\ s.refreshDisabled = state.refreshDisabled
  BY <1>7 DEF State, Attempt
<1>9. state.lastLaunch <= at /\ \A l \in launched : at - l >= COOLDOWN
  <2>1. state.lastLaunch # 0 => at - state.lastLaunch >= COOLDOWN BY <1>1 DEF Budgeted
  <2>2. \A l \in launched : l <= state.lastLaunch BY <1>1 DEF Knows
  <2> QED BY <1>7, <2>1, <2>2
<1>10. Knows(s, h)
  <2>1. CASE s = state BY <1>1, <1>4, <2>1
  <2>2. CASE s = Attempt(state)
    <3>1. state.lastLaunch <= s.lastLaunch /\ state.launches \subseteq s.launches
          /\ state.lastBackendAttempt <= s.lastBackendAttempt /\ state.lastDockerLaunch <= s.lastDockerLaunch
      BY <1>1, <1>8, <1>9, <2>2, Typed
    <3> QED BY <1>1, <1>4, <1>7, <1>8, <2>2, <3>1, KnowsMore
  <2> QED BY <1>4, <2>1, <2>2
<1>11. Knows(s, h)' /\ Knows(d, k)'
  <2>1. launched' = launched /\ (unanswered' => unanswered) /\ composed' = composed /\ docked' = docked BY <1>2
  <2>2. Knows(s, h)' BY <1>1, <1>6, <1>10, <2>1, KnowsOn
  <2>3. Knows(d, k) BY <1>1, <1>4
  <2>4. Knows(d, k)' BY <1>1, <1>6, <2>1, <2>3, KnowsOn
  <2> QED BY <2>2, <2>4
<1>12. /\ Knows(state, heard.read)' /\ Knows(disk, heard.saved)'
       /\ Timely(heard.read)' /\ Timely(heard.saved)'
  BY <1>1, <1>2, <1>3, <1>4, <1>5, <1>11, Carried
<1>13. Cardinality((launched \union {at}) \intersect Within(at, HOUR)) <= MAX_LAUNCHES
  <2> DEFINE kept == state.launches \intersect Within(at, HOUR)
             new  == (launched \union {at}) \intersect Within(at, HOUR)
  <2>1. IsFiniteSet(state.launches) BY <1>7, Typed, <1>1
  <2>2. IsFiniteSet(kept) /\ Cardinality(kept) \in Nat BY <2>1, FS_Subset, FS_CardinalityType
  <2>3. Cardinality(kept) < MAX_LAUNCHES BY <1>1 DEF Budgeted
  <2>4. new \subseteq kept \union {at}
    <3>1. ASSUME NEW l \in new, l # at PROVE l \in kept
      <4>1. l \in launched /\ at - HOUR < l /\ l \in Within(at, HOUR) BY <3>1 DEF Within
      <4>2. l \in state.launches \/ at - l >= HOUR BY <1>1, <1>6, <4>1 DEF Knows
      <4> QED BY <1>7, <4>1, <4>2
    <3> QED BY <3>1
  <2>5. IsFiniteSet(kept \union {at}) /\ Cardinality(kept \union {at}) \in Nat
        /\ Cardinality(kept \union {at}) <= Cardinality(kept) + 1
    BY <2>2, OneMore
  <2>6. Cardinality(new) \in Nat /\ Cardinality(new) <= Cardinality(kept \union {at})
    BY <2>4, <2>5, FS_Subset, FS_CardinalityType
  <2> QED BY <1>7, <2>2, <2>3, <2>5, <2>6
<1>14. Allowed'
  <2>1. ASSUME tick'.launch PROVE phase' = "launch" /\ tick' = tick /\ at' = at
    BY <1>5, <1>6, <2>1 DEF NoTick
  <2>2. tick'.launch => Justified'
    BY <1>1, <1>3, <1>4, <1>5, <2>1 DEF Justified
  <2>3. phase' = "launch" => at' \in state'.launches /\ state'.lastLaunch = at' /\ state'.outageLaunched
    BY <1>4, <1>5, <1>6, <1>8
  <2> QED BY <1>1, <1>2, <1>5, <2>1, <2>2, <2>3 DEF Allowed
<1>15. Ready'
  <2>1. ASSUME phase' = "launch"
        PROVE  (\A k_1 \in launched' : at' - k_1 >= COOLDOWN)
               /\ Cardinality((launched' \union {at'}) \intersect Within(at', HOUR)) <= MAX_LAUNCHES
    BY <1>2, <1>6, <1>9, <1>13, <2>1
  <2> QED BY <2>1 DEF Ready
<1>16. Ticking' BY <1>1, <1>2, <1>4, <1>5, <1>6 DEF Ticking
<1> QED BY <1>1, <1>2, <1>3, <1>12, <1>14, <1>15, <1>16 DEF SupervisorInvariant, LaunchesAreBudgeted, ReportIsTimed

(* The page is opened, or certainly was not.                               *)
LEMMA LaunchKeeps ==
    ASSUME SupervisorInvariant, SupervisorTypes', Launch
    PROVE  SupervisorInvariant'
<1>1. /\ SupervisorTypes /\ LaunchesAreBudgeted /\ Knows(disk, heard.saved) /\ Knows(state, heard.read)
      /\ Timely(heard.saved) /\ Timely(heard.read) /\ ReportIsTimed /\ Ticking /\ Allowed /\ phase = "launch" /\ Under
      /\ tick.launch /\ ~unanswered /\ at \in state.launches /\ state.lastLaunch = at /\ state.outageLaunched
      /\ Ready /\ disk = state /\ at > 0 /\ at <= clock
  BY DEF SupervisorInvariant, Launch, Under, Ticking, Allowed
<1>2. Goes /\ UNCHANGED <<clock, report, minutes, composed, docked>> BY DEF Launch
<1>3. PICK s \in State, d \in State, h \in Heartbeat, k \in Heartbeat :
         /\ d = disk /\ h = heard.read /\ k = heard.saved /\ state' = s
         /\ \/ s = state /\ unanswered' = TRUE /\ launched' = launched \union {at}
            \/ s = [state EXCEPT !.outageLaunched = FALSE] /\ unanswered' = unanswered /\ launched' = launched
  <2>1. [state EXCEPT !.outageLaunched = FALSE] \in State BY <1>1 DEF SupervisorTypes, State
  <2>2. state \in State BY <1>1, Typed
  <2>3. \/ state' = state /\ unanswered' = TRUE /\ launched' = launched \union {at}
        \/ state' = [state EXCEPT !.outageLaunched = FALSE] /\ unanswered' = unanswered /\ launched' = launched
    BY DEF Launch, Skip, Save, Persist
  <2> QED BY <1>1, <2>1, <2>2, <2>3, Typed
<1>4. /\ heard'.read = h /\ phase' = "idle"
      /\ (disk' = s /\ heard'.saved = h) \/ (disk' = d /\ heard'.saved = k)
  <2>1. \/ Skip("idle")
        \/ Save([state EXCEPT !.outageLaunched = FALSE], "idle")
    BY DEF Launch
  <2>2. CASE Skip("idle") BY <1>3, <2>2 DEF Skip
  <2>3. CASE Save([state EXCEPT !.outageLaunched = FALSE], "idle")
    BY <1>3, <2>3 DEF Save, Persist
  <2> QED BY <2>1, <2>2, <2>3
<1>5. /\ Moment = at /\ Moment \in Nat /\ Moment' \in Nat /\ Moment <= Moment'
      /\ phase' = "idle" => tick' = NoTick /\ ~Under'
      /\ phase' # "idle" => tick' = tick /\ at' = at /\ Under' /\ Moment' = at
      /\ at' <= clock' /\ (Under' => at' > 0) /\ (~Under' => tick' = NoTick)
  BY <1>1, <1>2, <1>4, MomentGrows
<1>6. {at, clock, COOLDOWN, HOUR, MAX_LAUNCHES, state.lastLaunch, composed, docked} \subseteq Nat /\ state \in State
      /\ COOLDOWN > 0 /\ launched \subseteq Nat
  BY <1>1, Typed, Constants
<1>7. /\ s.lastLaunch = at /\ s.launches = state.launches
      /\ s.lastBackendAttempt = state.lastBackendAttempt /\ s.lastDockerLaunch = state.lastDockerLaunch
      /\ s.lastHeartbeatAt = state.lastHeartbeatAt /\ s.pausedUntil = state.pausedUntil
      /\ s.waitingVerification = state.waitingVerification /\ s.refreshDisabled = state.refreshDisabled
      /\ unanswered' => s.outageLaunched
  BY <1>1, <1>3, <1>6 DEF State
<1>8. launched' \subseteq launched \union {at} BY <1>3
<1>9. Knows(s, h)' /\ Knows(d, k)'
  <2>1. ASSUME NEW l \in launched' PROVE l <= at /\ (l \in state.launches \/ Moment' - l >= HOUR)
    <3>1. CASE l = at BY <1>1, <1>6, <3>1
    <3>2. CASE l \in launched
      <4>1. l <= at /\ (l \in state.launches \/ Moment - l >= HOUR) BY <1>1, <3>2 DEF Knows
      <4> QED BY <1>5, <1>6, <3>2, <4>1, Aged
    <3> QED BY <1>8, <3>1, <3>2
  <2>2. Knows(s, h)' BY <1>1, <1>2, <1>3, <1>7, <2>1 DEF Knows
  <2>3. unanswered' => d.outageLaunched BY <1>1, <1>3
  <2>4. Knows(d, k)' BY <1>1, <1>2, <1>3, <2>1, <2>3 DEF Knows
  <2> QED BY <2>2, <2>4
<1>10. /\ Knows(state, heard.read)' /\ Knows(disk, heard.saved)'
       /\ Timely(heard.read)' /\ Timely(heard.saved)'
  BY <1>1, <1>2, <1>3, <1>4, <1>9, Carried
<1>11. LaunchesAreBudgeted'
  <2>1. CASE launched' = launched BY <1>1, <2>1 DEF LaunchesAreBudgeted
  <2>2. CASE launched' = launched \union {at}
    <3>1. ASSUME NEW l \in launched'
          PROVE  /\ Cardinality(launched' \intersect Within(l, HOUR)) <= MAX_LAUNCHES
                 /\ \A k_1 \in launched' : k_1 < l => l - k_1 >= COOLDOWN
      <4>1. CASE l = at BY <1>1, <1>6, <2>2, <4>1 DEF Ready
      <4>2. CASE l # at
        <5>1. l \in launched /\ at - l >= COOLDOWN BY <1>1, <2>2, <4>2 DEF Ready
        <5>a. at \in Nat /\ COOLDOWN \in Nat /\ COOLDOWN > 0 BY <1>6
        <5>b. l \in Nat BY <1>6, <5>1
        <5>c. ~(at <= l) BY <5>1, <5>a, <5>b
        <5>2. at \notin Within(l, HOUR) /\ ~(at < l) BY <5>a, <5>b, <5>c DEF Within
        <5>3. launched' \intersect Within(l, HOUR) = launched \intersect Within(l, HOUR) BY <2>2, <5>2
        <5> QED BY <1>1, <2>2, <5>1, <5>2, <5>3 DEF LaunchesAreBudgeted
      <4> QED BY <4>1, <4>2
    <3> QED BY <3>1 DEF LaunchesAreBudgeted
  <2> QED BY <1>3, <2>1, <2>2
<1>12. ~tick'.launch /\ Allowed' BY <1>4, <1>5 DEF NoTick, Allowed
<1>13. Ready' BY <1>4 DEF Ready
<1>14. Ticking' BY <1>1, <1>2, <1>4, <1>5, <1>8 DEF Ticking
<1> QED BY <1>1, <1>2, <1>10, <1>11, <1>12, <1>13, <1>14 DEF SupervisorInvariant, ReportIsTimed

(* A life ends and another begins; a file that cannot be read takes with   *)
(* it all that was promised about it.                                      *)
LEMMA LivesKeep ==
    ASSUME SupervisorInvariant, SupervisorTypes', Begin \/ Die
    PROVE  SupervisorInvariant'
<1>1. /\ SupervisorTypes /\ LaunchesAreBudgeted /\ Knows(disk, heard.saved)
      /\ Timely(heard.saved) /\ Timely(heard.read) /\ ReportIsTimed /\ Ticking
  BY DEF SupervisorInvariant
<1>2. /\ clock \in Nat /\ at \in Nat /\ clock > 0 /\ at <= clock
      /\ heard.saved \in Heartbeat /\ disk \in State /\ DefaultState \in State /\ report \in Heartbeat
      /\ report.at \in Nat
  <2>1. DefaultState \in State /\ 0 \in Times
    BY Constants DEF DefaultState, State
  <2> QED BY <1>1, <2>1, Typed, Constants DEF Ticking, SupervisorTypes
<1>3. /\ phase' \in {"idle", "down"} /\ clock' = clock /\ report' = report /\ ~Under' /\ tick' = NoTick /\ at' = 0
      /\ Moment' = clock
  <2>1. phase = "down" => tick = NoTick BY <1>1 DEF Ticking, Under
  <2>2. phase' \in {"idle", "down"} /\ clock' = clock /\ report' = report /\ tick' = NoTick
    BY <2>1 DEF Begin, Die, world
  <2> QED BY <2>2 DEF Under, Moment, NoTick, at
<1>4. Moment \in Nat /\ Moment' \in Nat /\ Moment <= Moment' BY <1>2, <1>3 DEF Moment
<1>5. Ready' /\ Allowed' /\ ReportIsTimed'
  <2>1. Ready' BY <1>3 DEF Ready
  <2>2. Allowed' BY <1>3 DEF Allowed, NoTick
  <2>3. ReportIsTimed' BY <1>1, <1>3 DEF ReportIsTimed
  <2> QED BY <2>1, <2>2, <2>3
<1>6. NoReport.at = 0 /\ ~NoReport.waiting /\ ~NoReport.off /\ NoReport.until = 0 BY DEF NoReport
<1>7. PICK none : none = NoReport OBVIOUS
<1>8. Timely(none)'
  BY <1>1, <1>2, <1>3, <1>6, <1>7 DEF Timely, ReportIsTimed
<1>9. CASE UNCHANGED <<disk, launched, unanswered, composed, docked>> /\ heard'.saved = heard.saved
           /\ (Die \/ state' = disk) /\ heard'.read \in {none, heard.saved} /\ (Begin => heard'.read = heard.saved)
  <2>1. PICK d \in State, k \in Heartbeat : d = disk /\ k = heard.saved BY <1>2
  <2>2. Knows(d, k)'
    <3>1. Knows(d, k) BY <1>1, <2>1
    <3>2. launched' = launched /\ (unanswered' => unanswered) /\ composed' = composed /\ docked' = docked BY <1>9
    <3> QED BY <1>1, <1>4, <3>1, <3>2, KnowsOn
  <2>3. Knows(disk, heard.saved)' BY <1>9, <2>1, <2>2
  <2>4. phase' # "down" => Knows(state, heard.read)'
    <3>1. phase' # "down" => Begin /\ state' = disk BY <1>9 DEF Die
    <3> QED BY <1>9, <2>1, <2>2, <3>1
  <2>5. Timely(k)' BY <1>1, <1>3, <2>1 DEF Timely
  <2>6. Timely(heard.saved)' /\ Timely(heard.read)' BY <1>8, <1>9, <2>1, <2>5
  <2>7. Ticking' BY <1>1, <1>2, <1>3, <1>9 DEF Ticking
  <2> QED BY <1>1, <1>5, <1>9, <2>3, <2>4, <2>6, <2>7 DEF SupervisorInvariant, LaunchesAreBudgeted
<1>10. CASE /\ launched' = {} /\ unanswered' = FALSE /\ heard'.read = none /\ heard'.saved = none
            /\ composed' = 0 /\ docked' = 0 /\ state' = DefaultState /\ disk' = DefaultState
  <2>1. PICK d \in State : d = DefaultState BY <1>2
  <2>2. /\ d.lastHeartbeatAt = 0 /\ d.pausedUntil = 0 /\ d.lastBackendAttempt = 0 /\ d.lastDockerLaunch = 0
    BY <2>1 DEF DefaultState
  <2>3. Knows(d, none)' BY <1>6, <1>7, <1>10, <2>2 DEF Knows
  <2>4. Knows(disk, heard.saved)' /\ Knows(state, heard.read)' BY <1>10, <2>1, <2>3
  <2>5. Timely(heard.saved)' /\ Timely(heard.read)' BY <1>8, <1>10
  <2>6. Ticking' BY <1>1, <1>2, <1>3, <1>10 DEF Ticking
  <2>7. LaunchesAreBudgeted' BY <1>10 DEF LaunchesAreBudgeted
  <2> QED BY <1>5, <2>4, <2>5, <2>6, <2>7 DEF SupervisorInvariant
<1> QED
  <2>1. CASE Die
    <3>1. UNCHANGED <<disk, launched, unanswered, composed, docked>> /\ heard'.saved = heard.saved
          /\ heard'.read = none /\ ~Begin
      BY <1>1, <1>7, <2>1 DEF Die, Begin, SupervisorTypes
    <3> QED BY <1>9, <2>1, <3>1
  <2>2. CASE Begin
    <3>1. \/ /\ state' = disk /\ heard' = [heard EXCEPT !.read = heard.saved]
             /\ UNCHANGED <<events, disk, launched, unanswered, composed, docked>>
          \/ /\ Happens /\ state' = DefaultState /\ disk' = DefaultState
             /\ launched' = {} /\ unanswered' = FALSE /\ heard' = Unheard /\ composed' = 0 /\ docked' = 0
      BY <2>2 DEF Begin
    <3>2. heard' = [heard EXCEPT !.read = heard.saved] => heard'.read = heard.saved /\ heard'.saved = heard.saved
      BY <1>1 DEF SupervisorTypes
    <3>3. heard' = Unheard => heard'.read = none /\ heard'.saved = none BY <1>7 DEF Unheard
    <3> QED BY <1>9, <1>10, <3>1, <3>2, <3>3
  <2> QED BY <2>1, <2>2

(* The browser, the notifier, the owner and the clock.                     *)
LEMMA OutsideKeeps ==
    ASSUME SupervisorInvariant, SupervisorTypes', World \/ Clock \/ UNCHANGED supervisorVars
    PROVE  SupervisorInvariant'
<1>1. /\ SupervisorTypes /\ LaunchesAreBudgeted /\ Knows(disk, heard.saved) /\ (phase # "down" => Knows(state, heard.read))
      /\ Timely(heard.saved) /\ Timely(heard.read) /\ ReportIsTimed /\ Ticking /\ Allowed /\ Ready
  BY DEF SupervisorInvariant
<1>2. /\ UNCHANGED <<disk, phase, memory, ghosts>> /\ clock' >= clock /\ clock \in Nat /\ clock' \in Nat /\ clock > 0
      /\ (clock' = clock \/ UNCHANGED world)
  <2>1. clock \in Nat /\ clock > 0 BY <1>1, Typed, Constants DEF SupervisorTypes
  <2> QED BY <2>1 DEF World, Clock, supervisorVars
<1>3. /\ UNCHANGED <<tick, started, state, launched, unanswered, heard, composed, docked, at>>
      /\ Under' = Under /\ at \in Nat /\ at <= clock
  BY <1>1, <1>2, Typed DEF memory, ghosts, at, Under, Ticking
<1>4. Moment \in Nat /\ Moment' \in Nat /\ Moment <= Moment' BY <1>2, <1>3 DEF Moment
<1>5. PICK s \in State, d \in State, h \in Heartbeat, k \in Heartbeat :
         s = state /\ d = disk /\ h = heard.read /\ k = heard.saved
  BY <1>1, Typed
<1>6. launched' = launched /\ (unanswered' => unanswered) /\ composed' = composed /\ docked' = docked BY <1>3
<1>7. Knows(d, k)'
  <2>1. Knows(d, k) BY <1>1, <1>5
  <2> QED BY <1>1, <1>4, <1>6, <2>1, KnowsOn
<1>8. ASSUME phase # "down" PROVE Knows(s, h)'
  <2>1. Knows(s, h) BY <1>1, <1>5, <1>8
  <2> QED BY <1>1, <1>4, <1>6, <2>1, KnowsOn
<1>9. Knows(disk, heard.saved)' /\ (phase' # "down" => Knows(state, heard.read)')
  BY <1>2, <1>3, <1>5, <1>7, <1>8
<1>10. report' = report \/ report' = NoReport \/ (report'.at = clock /\ clock' = clock)
  <2>1. CASE World
    <3>1. ASSUME NEW r \in Reports PROVE r.at = clock
      <4>1. Scanning.at = clock BY DEF Scanning, NoReport
      <4> QED BY <3>1, <4>1 DEF Reports, Scanning, NoReport
    <3> QED BY <1>2, <2>1, <3>1 DEF World, Receive, ChromeRuns, NotifierRuns, Setting
  <2>2. CASE Clock \/ UNCHANGED supervisorVars BY <2>2 DEF Clock, supervisorVars, world
  <2> QED BY <2>1, <2>2
<1>11. {h.at, k.at, report.at, report'.at} \subseteq Nat
  <2>1. report \in Heartbeat /\ report' \in Heartbeat BY <1>1 DEF SupervisorTypes
  <2> QED BY <1>1, <1>5, <2>1, Typed
<1>12. Timely(h)' /\ Timely(k)' /\ ReportIsTimed'
  <2>1. Timely(h) /\ Timely(k) BY <1>1, <1>5
  <2> QED BY <1>1, <1>2, <1>10, <1>11, <2>1 DEF Timely, ReportIsTimed
<1>13. Timely(heard.read)' /\ Timely(heard.saved)' BY <1>3, <1>5, <1>12
<1>14. Allowed'
  <2>1. CASE minutes' = "none" => minutes = "none"
    <3>1. Justified => Justified' BY <1>3, <2>1 DEF Justified
    <3> QED BY <1>1, <1>2, <1>3, <3>1 DEF Allowed, Budgeted
  <2>2. CASE ~(minutes' = "none" => minutes = "none")
    BY <1>2, <2>2 DEF World, Receive, ChromeRuns, NotifierRuns, Setting, Clock, supervisorVars, world
  <2> QED BY <2>1, <2>2
<1>15. Ready' /\ Ticking' BY <1>1, <1>2, <1>3, Typed DEF Ready, Ticking
<1> QED BY <1>1, <1>3, <1>9, <1>12, <1>13, <1>14, <1>15 DEF SupervisorInvariant, LaunchesAreBudgeted

-----------------------------------------------------------------------------
(* The results                                                             *)

LEMMA Starts == ASSUME SupervisorInit PROVE SupervisorInvariant
<1>1. /\ NoReport \in Heartbeat /\ DefaultState \in State /\ NoTick \in [at : Times, launch : BOOLEAN, saw : BOOLEAN]
      /\ Unheard \in [read : Heartbeat, saved : Heartbeat]
  BY Constants DEF NoReport, Heartbeat, DefaultState, State, NoTick, Unheard
<1>2. SupervisorTypes
  <2>1. clock \in Times \ {0} /\ events \in 0..MAX_EVENTS /\ started \in Times /\ composed \in Times /\ docked \in Times
    BY Constants, RecoveryConstants DEF SupervisorInit
  <2>2. {chrome, notifier} \subseteq BOOLEAN /\ report \in Heartbeat /\ minutes \in {"none", "off", "on"}
    BY <1>1 DEF SupervisorInit
  <2>3. /\ disk \in State /\ state \in State /\ heard \in [read : Heartbeat, saved : Heartbeat]
        /\ tick \in [at : Times, launch : BOOLEAN, saw : BOOLEAN]
    BY <1>1 DEF SupervisorInit
  <2>4. phase \in Phases /\ launched \subseteq Times /\ unanswered \in BOOLEAN BY DEF SupervisorInit, Phases
  <2> QED BY <2>1, <2>2, <2>3, <2>4 DEF SupervisorTypes
<1>3. LaunchesAreBudgeted BY DEF SupervisorInit, LaunchesAreBudgeted
<1>4. Knows(disk, heard.saved) BY DEF SupervisorInit, Knows, DefaultState, Unheard, NoReport
<1>5. Timely(heard.saved) /\ Timely(heard.read) /\ ReportIsTimed
  BY DEF SupervisorInit, Timely, Unheard, NoReport, ReportIsTimed
<1>6. Ticking /\ Allowed /\ Ready BY DEF SupervisorInit, Ticking, Allowed, Ready, NoTick, Under, at
<1> QED BY <1>2, <1>3, <1>4, <1>5, <1>6 DEF SupervisorInvariant, SupervisorInit

LEMMA StepsKeep == ASSUME SupervisorInvariant, [SupervisorNext]_supervisorVars PROVE SupervisorInvariant'
<1>1. SupervisorTypes BY DEF SupervisorInvariant
<1>2. SupervisorTypes'
  <2>1. CASE SupervisorNext BY <1>1, <2>1, TypesKept
  <2>2. CASE UNCHANGED supervisorVars BY <1>1, <2>2 DEF SupervisorTypes, supervisorVars, world, memory, ghosts
  <2> QED BY <2>1, <2>2
<1>3. CASE Begin \/ Die BY <1>2, <1>3, LivesKeep
<1>4. CASE TickOnce BY <1>2, <1>4, TickKeeps
<1>5. CASE Backend BY <1>2, <1>5, BackendKeeps
<1>6. CASE Docker BY <1>2, <1>6, DockerKeeps
<1>7. CASE Compose \/ Desktop BY <1>2, <1>7, AttemptKeeps
<1>8. CASE SaveAttempt BY <1>2, <1>8, CommitKeeps
<1>9. CASE Launch BY <1>2, <1>9, LaunchKeeps
<1>10. CASE World \/ Clock \/ UNCHANGED supervisorVars BY <1>2, <1>10, OutsideKeeps
<1> QED BY <1>3, <1>4, <1>5, <1>6, <1>7, <1>8, <1>9, <1>10 DEF SupervisorNext

(* Memory and file are never behind what was done and heard.               *)
THEOREM SupervisorInvariantHolds == SupervisorSpec => []SupervisorInvariant
<1> QED BY Starts, StepsKeep, PTL DEF SupervisorSpec

(* Pages are COOLDOWN apart and at most MAX_LAUNCHES in an hour, and a     *)
(* decision to open one stays justified by the last fresh heartbeat until  *)
(* it is open.                                                             *)
THEOREM LaunchesAreRight == SupervisorSpec => []RecoveryInvariant
<1>1. SupervisorInvariant => RecoveryInvariant
  BY DEF SupervisorInvariant, Allowed, LaunchesAreJustified, RecoveryInvariant
<1> QED BY <1>1, SupervisorInvariantHolds, PTL

(* In one outage one page is opened.                                       *)
THEOREM OneTab == SupervisorSpec => OneTabPerOutage
<1>1. SupervisorInvariant /\ [SupervisorNext]_supervisorVars => [Opens => ~(tick.saw /\ unanswered)]_supervisorVars
  <2>1. ASSUME SupervisorInvariant, Launch PROVE ~unanswered
    BY <2>1 DEF SupervisorInvariant, Launch, Ticking, Allowed
  <2>2. ASSUME SupervisorNext, Opens PROVE Launch
    <3>1. CASE Begin \/ Die BY <2>2, <3>1 DEF Opens, Begin, Die
    <3>2. CASE TickOnce \/ Backend \/ Docker \/ Compose \/ Desktop \/ SaveAttempt
      BY <2>2, <3>2 DEF Opens, TickOnce, Backend, Docker, Compose, Desktop, SaveAttempt
    <3>3. CASE World \/ Clock BY <2>2, <3>3 DEF Opens, World, Clock, ghosts
    <3> QED BY <2>2, <3>1, <3>2, <3>3 DEF SupervisorNext
  <2> QED BY <2>1, <2>2
<1> QED BY <1>1, SupervisorInvariantHolds, PTL DEF SupervisorSpec, OneTabPerOutage

(* The notifier and Docker are started by attempts that are spaced.        *)
THEOREM AttemptsStaySpaced == SupervisorSpec => AttemptsAreSpaced
<1> DEFINE A == Spaced(composed, composed', BACKEND_RETRY) /\ Spaced(docked, docked', DOCKER_RETRY)
<1>1. SupervisorInvariant /\ [SupervisorNext]_supervisorVars => [A]_supervisorVars
  <2>1. SUFFICES ASSUME SupervisorInvariant, SupervisorNext PROVE A
    OBVIOUS
  <2>2. composed' = composed => Spaced(composed, composed', BACKEND_RETRY) BY DEF Spaced
  <2>3. docked' = docked => Spaced(docked, docked', DOCKER_RETRY) BY DEF Spaced
  <2>4. CASE Begin BY <2>2, <2>3, <2>4 DEF Begin, Spaced
  <2>5. CASE Compose
    <3>1. composed' = at /\ docked' = docked BY <2>5 DEF Compose
    <3>2. composed # 0 => at - composed >= BACKEND_RETRY
      BY <2>1, <2>5 DEF SupervisorInvariant, Allowed, Compose
    <3> QED BY <2>3, <3>1, <3>2 DEF Spaced
  <2>6. CASE Desktop
    <3>1. docked' = at /\ composed' = composed BY <2>6 DEF Desktop
    <3>2. docked # 0 => at - docked >= DOCKER_RETRY
      BY <2>1, <2>6 DEF SupervisorInvariant, Allowed, Desktop
    <3> QED BY <2>2, <3>1, <3>2 DEF Spaced
  <2>7. CASE Die \/ TickOnce \/ Backend \/ Docker \/ SaveAttempt \/ Launch \/ World \/ Clock
    <3>1. composed' = composed /\ docked' = docked
      BY <2>7 DEF Die, TickOnce, Backend, Docker, SaveAttempt, Launch, World, Clock, ghosts
    <3> QED BY <2>2, <2>3, <3>1
  <2> QED BY <2>1, <2>4, <2>5, <2>6, <2>7 DEF SupervisorNext
<1> QED BY <1>1, SupervisorInvariantHolds, PTL DEF SupervisorSpec, AttemptsAreSpaced

-----------------------------------------------------------------------------
(***************************************************************************)
(* Telegram, for every set of groups, every limit and bound: alerts go     *)
(* where the owner asked for them, no choice is lost but in the two cases  *)
(* that ChoicesAreKept names, a silence is reported once, and no post goes *)
(* out before the end of a wait.                                           *)
(***************************************************************************)

(* What the types of the parts say.                                        *)
LEMMA PollerTyped ==
    ASSUME TelegramTypes
    PROVE  /\ inbox \in Seq(Message) /\ Len(inbox) \in Nat /\ confirmed \in Nat /\ confirmed <= Len(inbox)
           /\ step \in {"prepare", "poll", "batch", "move", "reply", "ended"}
           /\ batch \in [next : Nat, last : Nat] /\ batch.next \in Nat /\ batch.last \in Nat
           /\ replies \in Seq(Chats) /\ offset \in Nat /\ target \in Chats
           /\ forgotten \in BOOLEAN /\ doubtful \in BOOLEAN
BY LenProperties DEF TelegramTypes

LEMMA ChatsAre ==
    /\ Chats \subseteq Nat \ {0} /\ Owner \in Chats /\ Owner # 0 /\ Groups \subseteq Chats
    /\ {"offset", "chat", "relay"} \subseteq Markers
    /\ STALE_AFTER \in Nat /\ STALE_AFTER >= 2 /\ Waits \subseteq Nat
BY TelegramConstants DEF Chats, Owner

-----------------------------------------------------------------------------
(* The owner's choices                                                     *)

(* An update changes what is wanted if it chooses, and only then.          *)
LEMMA WantedNext ==
    ASSUME inbox \in Seq(Message), NEW n \in 1..Len(inbox)
    PROVE  /\ Chosen(inbox[n]) => Wanted(n) = inbox[n].chat
           /\ ~Chosen(inbox[n]) => Wanted(n) = Wanted(n - 1)
<1> DEFINE C == {k \in 1..n : Chosen(inbox[k])}
           D == {k \in 1..(n - 1) : Chosen(inbox[k])}
<1>1. Len(inbox) \in Nat /\ n \in Nat BY LenProperties
<1>2. Wanted(n) = IF C = {} THEN Owner ELSE inbox[CHOOSE k \in C : \A x \in C : x <= k].chat
  BY DEF Wanted
<1>3. Wanted(n - 1) = IF D = {} THEN Owner ELSE inbox[CHOOSE k \in D : \A x \in D : x <= k].chat
  BY DEF Wanted
<1>4. CASE Chosen(inbox[n])
  <2>1. n \in C /\ \A x \in C : x <= n BY <1>1, <1>4
  <2>2. \A k \in C : (\A x \in C : x <= k) => k = n BY <1>1, <2>1
  <2> DEFINE best == CHOOSE k \in C : \A x \in C : x <= k
  <2>3. best \in C /\ \A x \in C : x <= best BY <2>1
  <2>4. best = n BY <2>2, <2>3
  <2> QED BY <1>2, <1>4, <2>1, <2>4
<1>5. CASE ~Chosen(inbox[n])
  <2>1. C = D BY <1>1, <1>5
  <2> HIDE DEF C, D
  <2> QED BY <1>2, <1>3, <1>5, <2>1
<1> QED BY <1>4, <1>5

(* What was wanted, and was asked for, stays so when messages come.        *)
LEMMA WantedGrows ==
    ASSUME inbox \in Seq(Message), NEW m \in Message, inbox' = Append(inbox, m)
    PROVE  /\ inbox' \in Seq(Message) /\ Len(inbox') = Len(inbox) + 1 /\ Len(inbox) \in Nat
           /\ \A k \in 1..Len(inbox) : inbox'[k] = inbox[k]
           /\ \A n \in 0..Len(inbox) : Wanted(n)' = Wanted(n)
           /\ \A c : Asked(c) => Asked(c)'
<1>1. /\ inbox' \in Seq(Message) /\ Len(inbox') = Len(inbox) + 1 /\ Len(inbox) \in Nat
      /\ \A k \in 1..Len(inbox) : inbox'[k] = inbox[k]
  BY AppendProperties, LenProperties
<1>2. ASSUME NEW n \in 0..Len(inbox)
      PROVE  Wanted(n)' = Wanted(n)
  <2> DEFINE C == {k \in 1..n : Chosen(inbox[k])}
             E == {k \in 1..n : Chosen(inbox'[k])}
             best == CHOOSE k \in C : \A x \in C : x <= k
  <2>1. \A k \in 1..n : k \in 1..Len(inbox) /\ inbox'[k] = inbox[k] BY <1>1
  <2>2. C = E BY <2>1
  <2>3. Wanted(n) = IF C = {} THEN Owner ELSE inbox[best].chat BY DEF Wanted
  <2>4. Wanted(n)' = IF E = {} THEN Owner ELSE inbox'[CHOOSE k \in E : \A x \in E : x <= k].chat
    BY DEF Wanted, Chosen
  <2>5. CASE C = {} BY <2>2, <2>3, <2>4, <2>5
  <2>6. CASE C # {}
    <3>1. \E k \in C : \A x \in C : x <= k
      <4>1. n \in Nat /\ C \in SUBSET (1..n) BY <1>1
      <4> HIDE DEF C
      <4> QED BY <2>6, <4>1, LastPosition
    <3>2. best \in 1..n BY <3>1
    <3>3. inbox'[best] = inbox[best] BY <2>1, <3>2
    <3>4. (CHOOSE k \in E : \A x \in E : x <= k) = best BY <2>2
    <3> HIDE DEF C, E, best
    <3> QED BY <2>2, <2>3, <2>4, <2>6, <3>3, <3>4
  <2> QED BY <2>5, <2>6
<1>3. ASSUME NEW c, Asked(c) PROVE Asked(c)'
  <2>1. CASE c = Owner BY <2>1 DEF Asked
  <2>2. CASE \E k \in DOMAIN inbox : Chosen(inbox[k]) /\ inbox[k].chat = c
    <3>1. PICK k \in DOMAIN inbox : Chosen(inbox[k]) /\ inbox[k].chat = c BY <2>2
    <3>2. k \in 1..Len(inbox) BY <3>1, LenProperties
    <3>3. k \in DOMAIN inbox' /\ inbox'[k] = inbox[k] BY <1>1, <3>2, LenProperties
    <3> QED BY <3>1, <3>3 DEF Asked, Chosen
  <2> QED BY <1>3, <2>1, <2>2 DEF Asked
<1> QED BY <1>1, <1>2, <1>3

(* Only chats are asked for.                                               *)
LEMMA AskedChats ==
    ASSUME inbox \in Seq(Message), NEW c, Asked(c)
    PROVE  c \in Chats
<1>1. ASSUME NEW k \in DOMAIN inbox PROVE inbox[k].chat \in Chats
  <2>1. inbox[k] \in Message BY <1>1, LenProperties, ElementOfSeq
  <2> QED BY <2>1 DEF Message
<1> QED BY <1>1, ChatsAre DEF Asked

-----------------------------------------------------------------------------
(* What files and queue say of a marker                                    *)

(* Lines that follow others speak last.                                    *)
LEMMA LastConcat ==
    ASSUME NEW a \in Seq(Lines), NEW b \in Seq(Lines), NEW t, NEW k, NEW old
    PROVE  LastValue(a \o b, t, k, old) = LastValue(b, t, k, LastValue(a, t, k, old))
<1> DEFINE c == a \o b
           A == Mentions(a, t, k)
           B == Mentions(b, t, k)
           C == Mentions(c, t, k)
<1>1. /\ c \in Seq(Lines) /\ Len(c) = Len(a) + Len(b) /\ Len(a) \in Nat /\ Len(b) \in Nat
      /\ \A n \in 1..(Len(a) + Len(b)) : c[n] = IF n <= Len(a) THEN a[n] ELSE b[n - Len(a)]
  BY ConcatProperties, LenProperties
<1>2. DOMAIN c = 1..(Len(a) + Len(b)) /\ DOMAIN a = 1..Len(a) /\ DOMAIN b = 1..Len(b)
  BY <1>1, LenProperties
<1>3. /\ \A l \in {a, b, c} : Mentions(l, t, k) # {} =>
            \A o : \E n \in Mentions(l, t, k) :
                /\ \A y \in Mentions(l, t, k) : y <= n
                /\ LastValue(l, t, k, o) = l[n].v
      /\ \A l \in {a, b, c} : Mentions(l, t, k) = {} => \A o : LastValue(l, t, k, o) = o
  BY <1>1, LastIs DEF LastValue
<1> HIDE DEF c
<1>4. \A n \in 1..Len(b) : /\ Len(a) + n \in 1..(Len(a) + Len(b)) /\ ~(Len(a) + n <= Len(a))
                           /\ Len(a) + n - Len(a) = n /\ c[Len(a) + n] = b[n]
  BY <1>1
<1>5. \A n \in A : n \in C /\ n \in 1..Len(a) /\ c[n] = a[n]
  <2>1. \A n \in 1..Len(a) : n \in 1..(Len(a) + Len(b)) /\ c[n] = a[n] BY <1>1
  <2> QED BY <1>2, <2>1 DEF Mentions
<1>6. \A n \in B : n \in 1..Len(b) /\ Len(a) + n \in C /\ c[Len(a) + n] = b[n]
  BY <1>2, <1>4 DEF Mentions
<1>7. \A n \in C : n \in A \/ (n > Len(a) /\ n - Len(a) \in B)
  <2> SUFFICES ASSUME NEW n \in C PROVE n \in A \/ (n > Len(a) /\ n - Len(a) \in B) OBVIOUS
  <2>1. n \in 1..(Len(a) + Len(b)) /\ c[n].t = t /\ c[n].k = k BY <1>2 DEF Mentions
  <2>2. CASE n <= Len(a)
    <3>1. c[n] = a[n] /\ n \in 1..Len(a) BY <1>1, <2>1, <2>2
    <3> QED BY <1>2, <2>1, <3>1 DEF Mentions
  <2>3. CASE n > Len(a)
    <3>1. Len(a) \in Nat /\ Len(b) \in Nat /\ n \in 1..(Len(a) + Len(b)) /\ n > Len(a) BY <1>1, <2>1, <2>3
    <3>2. n - Len(a) \in 1..Len(b) /\ ~(n <= Len(a)) BY <3>1
    <3>3. c[n] = b[n - Len(a)] BY <1>1, <3>1, <3>2
    <3> QED BY <1>2, <2>1, <2>3, <3>2, <3>3 DEF Mentions
  <2> QED BY <1>1, <2>1, <2>2, <2>3
<1> DEFINE between == LastValue(a, t, k, old)
<1>8. CASE B # {}
  <2>1. PICK m \in B : (\A y \in B : y <= m) /\ LastValue(b, t, k, between) = b[m].v
    BY <1>3, <1>8
  <2>2. PICK n \in C : (\A y \in C : y <= n) /\ LastValue(c, t, k, old) = c[n].v
    BY <1>3, <1>6, <2>1
  <2>3. n >= Len(a) + m /\ m \in 1..Len(b) /\ n \in 1..(Len(a) + Len(b))
    BY <1>1, <1>2, <1>6, <2>1, <2>2 DEF Mentions
  <2>4. n > Len(a) /\ ~(n \in A) BY <1>1, <1>5, <2>3
  <2>5. n - Len(a) \in B BY <1>7, <2>2, <2>4
  <2>6. n - Len(a) <= m BY <2>1, <2>5
  <2>7. n = Len(a) + m
    <3>1. n \in Int /\ m \in Int /\ Len(a) \in Int BY <1>1, <2>3
    <3> HIDE DEF A, B, C
    <3> QED BY <2>3, <2>6, <3>1
  <2>8. c[n] = b[m] BY <1>6, <2>1, <2>7
  <2> QED BY <2>1, <2>2, <2>8 DEF c
<1>9. CASE B = {}
  <2>1. LastValue(b, t, k, between) = between BY <1>3, <1>9
  <2>2. A = C BY <1>5, <1>7, <1>9
  <2>3. CASE A = {} BY <1>3, <2>1, <2>2, <2>3 DEF c
  <2>4. CASE A # {}
    <3>1. PICK n \in A : (\A y \in A : y <= n) /\ between = a[n].v BY <1>3, <2>4
    <3>2. PICK m \in C : (\A y \in C : y <= m) /\ LastValue(c, t, k, old) = c[m].v
      BY <1>3, <2>2, <2>4
    <3>3. m <= n /\ n <= m /\ m \in 1..Len(a) /\ n \in 1..Len(a) BY <1>5, <2>2, <3>1, <3>2
    <3>4. m = n /\ c[n] = a[n] BY <1>1, <1>5, <3>1, <3>3
    <3> QED BY <2>1, <3>1, <3>2, <3>4 DEF c
  <2> QED BY <2>3, <2>4
<1> QED BY <1>8, <1>9

(* One line more.                                                          *)
LEMMA LastAppend ==
    ASSUME NEW lines \in Seq(Lines), NEW line \in Lines, NEW t, NEW k, NEW old
    PROVE  LastValue(Append(lines, line), t, k, old) =
              IF line.t = t /\ line.k = k THEN line.v ELSE LastValue(lines, t, k, old)
<1> DEFINE one == <<line>>
<1>1. one \in Seq(Lines) /\ Len(one) = 1 /\ one[1] = line /\ DOMAIN one = 1..1 OBVIOUS
<1>2. Append(lines, line) = lines \o one BY AppendIsConcat
<1>3. Mentions(one, t, k) = IF line.t = t /\ line.k = k THEN {1} ELSE {} BY <1>1 DEF Mentions
<1> HIDE DEF one
<1>4. \A o : LastValue(one, t, k, o) = IF line.t = t /\ line.k = k THEN line.v ELSE o
  <2>1. CASE line.t = t /\ line.k = k
    <3>1. Mentions(one, t, k) = {1} BY <1>3, <2>1
    <3>2. \A o : \E n \in Mentions(one, t, k) : LastValue(one, t, k, o) = one[n].v BY <1>1, <3>1, LastIs
    <3> QED BY <1>1, <2>1, <3>1, <3>2
  <2>2. CASE ~(line.t = t /\ line.k = k) BY <1>3, <2>2 DEF LastValue
  <2> QED BY <2>1, <2>2
<1> QED BY <1>1, <1>2, <1>4, LastConcat

(* What is empty, and what is torn, says nothing.                          *)
LEMMA EmptySays == ASSUME NEW k, NEW old PROVE LastValue(<<>>, "marker", k, old) = old
<1>1. Mentions(<<>>, "marker", k) = {} BY EmptySeq, LenProperties DEF Mentions
<1> QED BY <1>1 DEF LastValue

LEMMA TornSays ==
    ASSUME NEW lines \in Seq(Lines), NEW k, NEW old
    PROVE  LastValue(Append(lines, Torn), "marker", k, old) = LastValue(lines, "marker", k, old)
<1>1. Torn \in Lines /\ Torn.t # "marker" BY DEF Lines, Torn
<1>2. LastValue(Append(lines, Torn), "marker", k, old) =
         IF Torn.t = "marker" /\ Torn.k = k THEN Torn.v ELSE LastValue(lines, "marker", k, old)
  BY <1>1, LastAppend
<1> QED BY <1>1, <1>2

(* A part of the queue is as sound as the queue, and what it says is what  *)
(* its whole lines say.                                                    *)
LEMMA PrefixIs ==
    ASSUME NEW lines \in Seq(Lines), NEW n \in 0..Len(lines)
    PROVE  /\ SubSeq(lines, 1, n) \in Seq(Lines) /\ Len(SubSeq(lines, 1, n)) = n
           /\ \A m \in 1..n : SubSeq(lines, 1, n)[m] = lines[m]
<1>1. Len(lines) \in Nat /\ \A m \in 1..n : m \in 1..Len(lines) /\ lines[m] \in Lines
  BY MentionsIs
<1> QED BY <1>1, SubSeqProperties

LEMMA PartSays ==
    ASSUME NEW lines \in Seq(Lines), NEW part \in PartOf(lines)
    PROVE  \E n \in 0..Len(lines) :
              \A k, old : LastValue(part, "marker", k, old) = LastValue(SubSeq(lines, 1, n), "marker", k, old)
<1>1. Len(lines) \in Nat BY LenProperties
<1>2. PICK n \in 0..Len(lines) : part = SubSeq(lines, 1, n) \/ part = Append(SubSeq(lines, 1, n), Torn)
  <2>1. CASE part \in {SubSeq(lines, 1, n) : n \in 0..Len(lines)} BY <2>1
  <2>2. CASE part \in {Append(SubSeq(lines, 1, n), Torn) : n \in 0..(Len(lines) - 1)}
    <3>1. PICK n \in 0..(Len(lines) - 1) : part = Append(SubSeq(lines, 1, n), Torn) BY <2>2
    <3>2. n \in 0..Len(lines) BY <1>1
    <3> QED BY <3>1, <3>2
  <2> QED BY <2>1, <2>2 DEF PartOf
<1> DEFINE whole == SubSeq(lines, 1, n)
<1>3. whole \in Seq(Lines) BY PrefixIs
<1> HIDE DEF whole
<1>4. \A k, old : LastValue(Append(whole, Torn), "marker", k, old) = LastValue(whole, "marker", k, old)
  BY <1>3, TornSays
<1>5. \A k, old : LastValue(part, "marker", k, old) = LastValue(whole, "marker", k, old)
  BY <1>2, <1>4 DEF whole
<1> QED BY <1>5 DEF whole

(* What the last line says is what a line says, or what was there before.  *)
LEMMA SoundReplay ==
    ASSUME NEW lines \in Seq(Lines), SoundLines(lines), NEW m \in Markers, NEW old \in Nat, Sound(m, old)
    PROVE  /\ LastValue(lines, "marker", m, old) \in Nat
           /\ Sound(m, LastValue(lines, "marker", m, old))
<1>1. CASE Mentions(lines, "marker", m) = {} BY <1>1 DEF LastValue
<1>2. CASE Mentions(lines, "marker", m) # {}
  <2>1. PICK n \in Mentions(lines, "marker", m) : LastValue(lines, "marker", m, old) = lines[n].v
    BY <1>2, LastIs
  <2>2. n \in DOMAIN lines /\ lines[n].t = "marker" /\ lines[n].k = m BY DEF Mentions
  <2>3. lines[n].v \in Nat BY LineValues
  <2> QED BY <2>1, <2>2, <2>3 DEF SoundLines
<1> QED BY <1>1, <1>2

LEMMA OnDiskSound ==
    ASSUME FilesAreSound
    PROVE  /\ OnDisk.markers \in [Markers -> Nat]
           /\ \A m \in Markers : Sound(m, OnDisk.markers[m])
<1> DEFINE says(m) == LastValue(logFile, "marker", m, snapshot.markers[m])
<1>1. OnDisk.markers = [m \in Markers |-> says(m)] BY DEF OnDisk, Replay
<1>2. \A m \in Markers : says(m) \in Nat /\ Sound(m, says(m)) BY SoundReplay DEF FilesAreSound
<1> HIDE DEF says
<1> QED BY <1>1, <1>2

(* Lines that are joined, or cut short, are as sound as they were.         *)
LEMMA SoundConcat ==
    ASSUME NEW a \in Seq(Lines), NEW b \in Seq(Lines), SoundLines(a), SoundLines(b)
    PROVE  a \o b \in Seq(Lines) /\ SoundLines(a \o b)
<1>1. /\ a \o b \in Seq(Lines) /\ Len(a \o b) = Len(a) + Len(b) /\ Len(a) \in Nat /\ Len(b) \in Nat
      /\ \A n \in 1..(Len(a) + Len(b)) : (a \o b)[n] = IF n <= Len(a) THEN a[n] ELSE b[n - Len(a)]
      /\ DOMAIN (a \o b) = 1..Len(a \o b) /\ DOMAIN a = 1..Len(a) /\ DOMAIN b = 1..Len(b)
  BY ConcatProperties, LenProperties
<1>2. ASSUME NEW n \in DOMAIN (a \o b), (a \o b)[n].t = "marker"
      PROVE  Sound((a \o b)[n].k, (a \o b)[n].v)
  <2>1. n \in 1..(Len(a) + Len(b)) BY <1>1, <1>2
  <2>2. CASE n <= Len(a)
    <3>1. n \in DOMAIN a /\ (a \o b)[n] = a[n] BY <1>1, <2>1, <2>2
    <3> QED BY <1>2, <3>1 DEF SoundLines
  <2>3. CASE ~(n <= Len(a))
    <3>1. n - Len(a) \in DOMAIN b /\ (a \o b)[n] = b[n - Len(a)] BY <1>1, <2>1, <2>3
    <3> QED BY <1>2, <3>1 DEF SoundLines
  <2> QED BY <2>2, <2>3
<1> QED BY <1>1, <1>2 DEF SoundLines

LEMMA SoundPart ==
    ASSUME NEW lines \in Seq(Lines), SoundLines(lines), NEW part \in PartOf(lines)
    PROVE  part \in Seq(Lines) /\ SoundLines(part)
<1>1. Len(lines) \in Nat /\ DOMAIN lines = 1..Len(lines) BY LenProperties
<1>2. ASSUME NEW n \in 0..Len(lines)
      PROVE  SubSeq(lines, 1, n) \in Seq(Lines) /\ SoundLines(SubSeq(lines, 1, n))
  <2> DEFINE s == SubSeq(lines, 1, n)
  <2>1. s \in Seq(Lines) /\ Len(s) = n /\ \A m \in 1..n : s[m] = lines[m] BY PrefixIs
  <2> HIDE DEF s
  <2>2. DOMAIN s = 1..n BY <2>1, LenProperties
  <2>3. \A m \in DOMAIN s : m \in DOMAIN lines /\ s[m] = lines[m] BY <1>1, <2>1, <2>2
  <2> QED BY <2>1, <2>3 DEF SoundLines, s
<1>3. Torn \in Lines /\ Torn.t # "marker" BY DEF Lines, Torn
<1>4. \A s \in Seq(Lines) : SoundLines(s) => Append(s, Torn) \in Seq(Lines) /\ SoundLines(Append(s, Torn))
  <2> SUFFICES ASSUME NEW s \in Seq(Lines), SoundLines(s)
               PROVE  Append(s, Torn) \in Seq(Lines) /\ SoundLines(Append(s, Torn))
    OBVIOUS
  <2> DEFINE one == <<Torn>>
  <2>1. one \in Seq(Lines) /\ DOMAIN one = 1..1 /\ one[1] = Torn BY <1>3
  <2>2. Append(s, Torn) = s \o one BY <1>3, AppendIsConcat
  <2> HIDE DEF one
  <2>3. SoundLines(one) BY <1>3, <2>1 DEF SoundLines
  <2> QED BY <2>1, <2>2, <2>3, SoundConcat
<1>5. CASE part \in {SubSeq(lines, 1, n) : n \in 0..Len(lines)} BY <1>2, <1>5
<1>6. CASE part \in {Append(SubSeq(lines, 1, n), Torn) : n \in 0..(Len(lines) - 1)}
  <2>1. PICK n \in 0..(Len(lines) - 1) : part = Append(SubSeq(lines, 1, n), Torn) BY <1>6
  <2>2. n \in 0..Len(lines) BY <1>1
  <2> QED BY <1>2, <1>4, <2>1, <2>2
<1> QED BY <1>5, <1>6 DEF PartOf

-----------------------------------------------------------------------------
(* Posts and waits                                                         *)

SendTypes == limits \in [Chats -> Nat] /\ told \in [Chats -> Nat] /\ posting \in [Senders -> Chats \union {0}]

LEMMA ReapedIs ==
    ASSUME SendTypes, now \in Nat
    PROVE  /\ Reaped \in [Chats -> Nat]
           /\ \A c \in Chats : limits[c] > now => Reaped[c] = limits[c]
BY DEF Reaped, Waiting, SendTypes

(* What is longer.                                                         *)
LEMMA LongerIs ==
    ASSUME NEW x \in Nat, NEW y \in Nat
    PROVE  LongerOf(x, y) \in Nat /\ LongerOf(x, y) >= x /\ LongerOf(x, y) >= y
BY DEF LongerOf

(* A wait is deferred: types, and what is known of the longest.            *)
LEMMA DeferKeeps ==
    ASSUME SendTypes, now \in Nat, NEW c \in Chats, NEW w \in Waits, Defer(c, w), now' = now
    PROVE  /\ limits' \in [Chats -> Nat] /\ told' \in [Chats -> Nat]
           /\ WaitsAreKnown => WaitsAreKnown'
<1> DEFINE lasts == now + w
<1>1. PICK out :
        /\ limits' = [d \in Chats |-> IF d = c THEN LongerOf(Reaped[c], lasts)
                                      ELSE IF d = out THEN 0 ELSE Reaped[d]]
        /\ told' = [d \in Chats |-> IF d = c THEN IF told[c] < lasts THEN lasts ELSE told[c]
                                    ELSE IF d = out THEN 0 ELSE told[d]]
  BY DEF Defer
<1>2. /\ Reaped \in [Chats -> Nat] /\ told \in [Chats -> Nat] /\ limits \in [Chats -> Nat]
      /\ \A d \in Chats : limits[d] > now => Reaped[d] = limits[d]
  BY ReapedIs DEF SendTypes
<1>3. lasts \in Nat BY ChatsAre
<1> HIDE DEF lasts
<1>4. /\ LongerOf(Reaped[c], lasts) \in Nat /\ LongerOf(Reaped[c], lasts) >= lasts
      /\ LongerOf(Reaped[c], lasts) >= Reaped[c]
  BY <1>2, <1>3, LongerIs
<1>5. limits' \in [Chats -> Nat] /\ told' \in [Chats -> Nat] BY <1>1, <1>2, <1>3, <1>4
<1>6. ASSUME WaitsAreKnown, NEW d \in Chats, told'[d] > now
      PROVE  told'[d] <= limits'[d]
  <2>1. told[d] > now => told[d] <= limits[d] /\ Reaped[d] = limits[d]
    <3>1. told[d] \in Nat /\ limits[d] \in Nat BY <1>2
    <3> QED BY <1>2, <1>6, <3>1 DEF WaitsAreKnown
  <2>2. CASE d = c
    <3>1. told'[d] = lasts \/ told'[d] = told[d] BY <1>1, <2>2
    <3>2. limits'[d] >= lasts /\ limits'[d] >= Reaped[d] /\ limits'[d] \in Nat BY <1>1, <1>4, <2>2
    <3>3. told[d] \in Nat /\ limits[d] \in Nat /\ Reaped[d] \in Nat BY <1>2
    <3> QED BY <1>3, <1>6, <2>1, <3>1, <3>2, <3>3
  <2>3. CASE d # c
    <3>1. \/ told'[d] = 0
          \/ told'[d] = told[d] /\ limits'[d] = Reaped[d]
      BY <1>1, <2>3
    <3>2. told[d] \in Nat /\ limits[d] \in Nat /\ Reaped[d] \in Nat BY <1>2
    <3> QED BY <1>6, <2>1, <3>1, <3>2
  <2> QED BY <2>2, <2>3
<1> QED BY <1>5, <1>6 DEF WaitsAreKnown

(* A post begins, or is held back.                                         *)
LEMMA PostKeeps ==
    ASSUME SendTypes, now \in Nat, NEW s \in Senders, NEW c \in Chats, Post(s, c) \/ Held(c),
           told' = told, now' = now
    PROVE  /\ SendTypes'
           /\ WaitsAreKnown => /\ WaitsAreKnown'
                               /\ Post(s, c) => told[c] <= now
           /\ \A x \in Senders \ {s} : posting'[x] = posting[x]
           /\ Post(s, c) => posting'[s] = c
           /\ Held(c) => posting' = posting
<1>1. /\ limits' = Reaped /\ Reaped \in [Chats -> Nat]
      /\ \A d \in Chats : limits[d] > now => Reaped[d] = limits[d]
  BY ReapedIs DEF Post, Held
<1>2. /\ limits \in [Chats -> Nat] /\ told \in [Chats -> Nat]
      /\ posting \in [Senders -> Chats \union {0}]
  BY DEF SendTypes
<1>3. /\ posting' \in [Senders -> Chats \union {0}]
      /\ \A x \in Senders \ {s} : posting'[x] = posting[x]
      /\ Post(s, c) => posting'[s] = c
      /\ Held(c) => posting' = posting
  BY <1>2 DEF Post, Held
<1>4. ASSUME WaitsAreKnown PROVE WaitsAreKnown' /\ (Post(s, c) => told[c] <= now)
  <2>1. \A d \in Chats : told[d] > now => limits[d] > now /\ told[d] <= limits[d]
    <3>1. \A d \in Chats : told[d] \in Nat /\ limits[d] \in Nat BY <1>2
    <3> QED BY <1>4, <3>1 DEF WaitsAreKnown
  <2>2. WaitsAreKnown' BY <1>1, <2>1 DEF WaitsAreKnown
  <2>3. ~(limits[c] > now) => ~(told[c] > now) BY <2>1
  <2>4. ~(told[c] > now) => told[c] <= now
    <3>1. told[c] \in Nat BY <1>2
    <3> QED BY <3>1
  <2> QED BY <2>2, <2>3, <2>4 DEF Post, Waiting
<1> QED BY <1>1, <1>2, <1>3, <1>4 DEF SendTypes

(* A post ends.                                                            *)
LEMMA EndKeeps ==
    ASSUME SendTypes, now \in Nat, NEW s \in Senders, NEW ok, Outcome(s, ok), now' = now
    PROVE  /\ SendTypes'
           /\ WaitsAreKnown => WaitsAreKnown'
           /\ posting[s] # 0 /\ posting'[s] = 0 /\ \A x \in Senders \ {s} : posting'[x] = posting[x]
<1>1. /\ limits \in [Chats -> Nat] /\ told \in [Chats -> Nat]
      /\ posting \in [Senders -> Chats \union {0}]
  BY DEF SendTypes
<1>2. /\ posting' \in [Senders -> Chats \union {0}] /\ posting[s] # 0 /\ posting'[s] = 0
      /\ \A x \in Senders \ {s} : posting'[x] = posting[x]
  BY <1>1 DEF Outcome, Answered
<1>3. posting[s] \in Chats BY <1>1, <1>2
<1>4. CASE UNCHANGED <<limits, told>> BY <1>1, <1>2, <1>4 DEF SendTypes, WaitsAreKnown
<1>5. CASE \E w \in Waits : Defer(posting[s], w)
  <2>1. /\ limits' \in [Chats -> Nat] /\ told' \in [Chats -> Nat]
        /\ WaitsAreKnown => WaitsAreKnown'
    BY <1>3, <1>5, DeferKeeps
  <2> QED BY <1>2, <2>1 DEF SendTypes
<1> QED BY <1>4, <1>5 DEF Outcome

(* What an action may do to posts and waits.                               *)
Rested == limits' = [c \in Chats |-> 0] /\ told' = [c \in Chats |-> 0] /\ posting' = [s \in Senders |-> 0]
Stays  == UNCHANGED <<limits, told, posting>>
LEMMA SendSteps ==
    ASSUME TelegramTypes, PollerIsSound, [TelegramNext]_<<vars, telegramVars>>
    PROVE  \/ \E s \in Senders, c \in Chats : (Post(s, c) \/ Held(c)) /\ told' = told /\ now' = now
           \/ \E s \in Senders, ok \in BOOLEAN : Outcome(s, ok) /\ now' = now
           \/ Rested /\ now' = now
           \/ Stays /\ now' \in {now, now + 1}
<1>1. /\ target \in Chats /\ {"poller", "request", "watchdog"} = Senders
      /\ step = "reply" => Head(replies) \in Chats
  <2>1. target \in Chats /\ replies \in Seq(Chats) BY DEF TelegramTypes
  <2>2. replies # <<>> => Head(replies) \in Chats BY <2>1, HeadTailProperties
  <2> QED BY <2>1, <2>2 DEF PollerIsSound, Senders
<1>2. CASE \/ Prepare \/ PollOnce \/ HandleUpdate \/ Move \/ SaveOffset \/ \E m \in Message : Say(m)
  <2>1. Stays BY <1>2 DEF Prepare, PollOnce, HandleUpdate, Move, SaveOffset, Say, sendVars, Stays
  <2>2. now' = now
    BY <1>2 DEF Prepare, PollOnce, HandleUpdate, Move, SaveOffset, Say, SetMarker, storeQuiet, seenVars
  <2> QED BY <2>1, <2>2
<1>3. CASE Reply
  <2>1. (Post("poller", Head(replies)) \/ Held(Head(replies))) /\ told' = told /\ now' = now
    BY <1>3 DEF Reply, seenVars
  <2>2. Head(replies) \in Chats BY <1>1, <1>3 DEF Reply
  <2> QED BY <1>1, <2>1, <2>2
<1>4. CASE Alert
  <2>1. (Post("request", target) \/ Held(target)) /\ told' = told /\ now' = now
    BY <1>4 DEF Alert, seenVars
  <2> QED BY <1>1, <2>1
<1>5. CASE ReplyEnds \/ AlertEnds \/ CheckEnds
  <2>1. \E s \in Senders, ok \in BOOLEAN : Outcome(s, ok)
    BY <1>1, <1>5 DEF ReplyEnds, AlertEnds, CheckEnds
  <2>2. now' = now BY <1>5 DEF ReplyEnds, AlertEnds, CheckEnds, storeQuiet, seenVars
  <2> QED BY <2>1, <2>2
<1>6. CASE Check
  <2>1. told' = told /\ now' = now BY <1>6 DEF Check, seenVars
  <2>2. \/ Post("watchdog", target) \/ Held(target)
        \/ UNCHANGED <<limits, posting>>
    BY <1>6 DEF Check
  <2> QED BY <1>1, <2>1, <2>2 DEF Stays
<1>7. CASE RecordRelay
  <2>1. Stays /\ now' = now BY <1>7 DEF RecordRelay, sendVars, SetMarker, Stays
  <2> QED BY <2>1
<1>8. CASE Period
  <2>1. Stays /\ now' = now + 1 BY <1>8 DEF Period, sendVars, Stays
  <2> QED BY <2>1
<1>9. CASE Persists \/ Killed
  <2>1. Stays BY <1>9 DEF Persists, Killed, telegramVars, sendVars, Stays
  <2>2. now' = now
    BY <1>9 DEF Persists, Killed, FlushNow, Flush, FlushError, FlushFails, SaveStep, ReplaceSnapshot,
       UnlinkLog, SaveError, ReplaceFails, UnlinkFails, Close, CloseSave, Kill, seenVars
  <2> QED BY <2>1, <2>2
<1>10. CASE Restart
  <2>1. Rested /\ now' = now BY <1>10 DEF Restart, Start, Load, Rested
  <2> QED BY <2>1
<1>11. CASE UNCHANGED <<vars, telegramVars>>
  <2>1. Stays /\ now' = now BY <1>11 DEF vars, seenVars, telegramVars, sendVars, Stays
  <2> QED BY <2>1
<1> QED BY <1>2, <1>3, <1>4, <1>5, <1>6, <1>7, <1>8, <1>9, <1>10, <1>11 DEF TelegramNext

(* Waits are kept, and no post begins before the end of one.               *)
LEMMA WaitsKeep ==
    ASSUME TelegramTypes, PollerIsSound, now \in Nat, WaitsAreKnown, [TelegramNext]_<<vars, telegramVars>>
    PROVE  /\ SendTypes' /\ WaitsAreKnown'
           /\ \A s \in Senders : posting'[s] # 0 /\ posting[s] = 0 => told[posting'[s]] <= now
<1>1. SendTypes BY DEF TelegramTypes, SendTypes
<1>2. CASE \E s \in Senders, c \in Chats : (Post(s, c) \/ Held(c)) /\ told' = told /\ now' = now
  <2>1. PICK s \in Senders, c \in Chats : (Post(s, c) \/ Held(c)) /\ told' = told /\ now' = now BY <1>2
  <2>2. /\ SendTypes' /\ WaitsAreKnown' /\ (Post(s, c) => told[c] <= now)
        /\ \A x \in Senders \ {s} : posting'[x] = posting[x]
        /\ Post(s, c) => posting'[s] = c
        /\ Held(c) => posting' = posting
    BY <1>1, <2>1, PostKeeps
  <2> QED BY <2>1, <2>2
<1>3. CASE \E s \in Senders, ok \in BOOLEAN : Outcome(s, ok) /\ now' = now
  <2>1. PICK s \in Senders, ok \in BOOLEAN : Outcome(s, ok) /\ now' = now BY <1>3
  <2>2. /\ SendTypes' /\ WaitsAreKnown'
        /\ posting'[s] = 0 /\ \A x \in Senders \ {s} : posting'[x] = posting[x]
    BY <1>1, <2>1, EndKeeps
  <2> QED BY <2>2
<1>4. CASE Rested /\ now' = now
  <2>1. \A c \in Chats : told'[c] = 0 BY <1>4 DEF Rested
  <2>2. \A s \in Senders : posting'[s] = 0 BY <1>4 DEF Rested
  <2>3. WaitsAreKnown' BY <1>4, <2>1 DEF WaitsAreKnown
  <2> QED BY <1>4, <2>2, <2>3 DEF SendTypes, Rested
<1>5. CASE Stays /\ now' \in {now, now + 1}
  <2>1. ASSUME NEW c \in Chats, told[c] > now' PROVE told[c] <= limits[c]
    <3>1. told[c] \in Nat BY <1>1 DEF SendTypes
    <3>2. told[c] > now BY <1>5, <2>1, <3>1
    <3> QED BY <3>2 DEF WaitsAreKnown
  <2>2. WaitsAreKnown' BY <1>5, <2>1 DEF WaitsAreKnown, Stays
  <2> QED BY <1>1, <1>5, <2>2 DEF SendTypes, Stays
<1> QED BY <1>2, <1>3, <1>4, <1>5, SendSteps

-----------------------------------------------------------------------------
(* Memory and files                                                        *)

(* What an action may do to markers, queue and files, and to the inbox.    *)
Marked      == \E m \in Markers, v \in Nat : SetMarker(m, v) /\ Sound(m, v)
Grown(part) == /\ part \in Seq(Lines) /\ SoundLines(part)
               /\ logFile' = logFile \o part /\ appends' \in {appends, <<>>}
               /\ UNCHANGED <<now, markers, snapshot>>
Saved       == /\ UNCHANGED <<now, markers>>
               /\ \/ snapshot'.markers = markers /\ appends' = <<>> /\ UNCHANGED logFile
                  \/ logFile' = <<>> /\ UNCHANGED <<appends, snapshot>>
Loaded      == markers' = OnDisk.markers /\ appends' = <<>> /\ UNCHANGED <<now, diskVars>>
Still       == now' \in {now, now + 1} /\ UNCHANGED <<markers, appends, diskVars>>
Heard       == \E m \in Message : inbox' = Append(inbox, m)

(* What was asked for and handled stays so.                                *)
LEMMA SoundStays ==
    ASSUME inbox \in Seq(Message), inbox' = inbox \/ Heard
    PROVE  /\ \A m : \A v \in Nat : Sound(m, v) => Sound(m, v)'
           /\ \A c : Asked(c) => Asked(c)'
           /\ \A lines \in Seq(Lines) : SoundLines(lines) => SoundLines(lines)'
<1>1. Len(inbox) \in Nat /\ Len(inbox') \in Nat /\ Len(inbox) <= Len(inbox') /\ \A c : Asked(c) => Asked(c)'
  <2>1. CASE inbox' = inbox BY <2>1, LenProperties DEF Asked
  <2>2. CASE Heard BY <2>2, WantedGrows DEF Heard
  <2> QED BY <2>1, <2>2
<1>2. ASSUME NEW m, NEW v \in Nat, Sound(m, v) PROVE Sound(m, v)'
  <2>1. m = "chat" => v = 0 \/ Asked(v)' BY <1>1, <1>2 DEF Sound
  <2>2. m = "offset" => Handled(v) <= Len(inbox')
    <3> SUFFICES ASSUME m = "offset" PROVE Handled(v) <= Len(inbox') OBVIOUS
    <3>1. Handled(v) <= Len(inbox) BY <1>2 DEF Sound
    <3>2. Handled(v) \in Int BY DEF Handled
    <3> QED BY <1>1, <3>1, <3>2
  <2> QED BY <2>1, <2>2 DEF Sound
<1>3. ASSUME NEW lines \in Seq(Lines), SoundLines(lines) PROVE SoundLines(lines)'
  <2> SUFFICES ASSUME NEW n \in DOMAIN lines, lines[n].t = "marker"
               PROVE  Sound(lines[n].k, lines[n].v)'
    BY DEF SoundLines
  <2>1. n \in Mentions(lines, "marker", lines[n].k) BY DEF Mentions
  <2>2. lines[n].v \in Nat BY <2>1, LineValues
  <2> QED BY <1>2, <1>3, <2>2 DEF SoundLines
<1> QED BY <1>1, <1>2, <1>3

(* A line of a marker.                                                     *)
LEMMA MarkerLineIs ==
    ASSUME NEW m \in Markers, NEW v \in Nat
    PROVE  /\ MarkerLine(m, v) \in Lines /\ MarkerLine(m, v).t = "marker"
           /\ MarkerLine(m, v).k = m /\ MarkerLine(m, v).v = v
           /\ Sound(m, v) => SoundLines(<<MarkerLine(m, v)>>)
BY DEF MarkerLine, Lines, SoundLines

(* Memory, files and queue stay sound.                                     *)
LEMMA FilesKeep ==
    ASSUME inbox \in Seq(Message), FilesAreSound, inbox' = inbox \/ Heard,
           \/ Marked \/ Saved \/ Loaded \/ Still
           \/ \E part : Grown(part)
    PROVE  FilesAreSound'
<1>1. /\ now \in Nat \ {0} /\ appends \in Seq(Lines) /\ logFile \in Seq(Lines)
      /\ markers \in [Markers -> Nat] /\ snapshot.markers \in [Markers -> Nat]
      /\ \A m \in Markers : Sound(m, markers[m]) /\ Sound(m, snapshot.markers[m])
      /\ SoundLines(appends) /\ SoundLines(logFile)
  BY DEF FilesAreSound
<1>2. <<>> \in Seq(Lines) /\ SoundLines(<<>>)
  <2>1. <<>> \in Seq(Lines) /\ DOMAIN <<>> = {} BY EmptySeq
  <2> QED BY <2>1 DEF SoundLines
<1>3. /\ \A m : \A v \in Nat : Sound(m, v) => Sound(m, v)'
      /\ \A lines \in Seq(Lines) : SoundLines(lines) => SoundLines(lines)'
  BY SoundStays
<1> SUFFICES
        /\ now' \in Nat \ {0} /\ appends' \in Seq(Lines) /\ logFile' \in Seq(Lines)
        /\ markers' \in [Markers -> Nat] /\ snapshot'.markers \in [Markers -> Nat]
        /\ \A m \in Markers : Sound(m, markers'[m]) /\ Sound(m, snapshot'.markers[m])
        /\ SoundLines(appends') /\ SoundLines(logFile')
  <2>1. ASSUME NEW m \in Markers, markers' \in [Markers -> Nat], snapshot'.markers \in [Markers -> Nat],
               Sound(m, markers'[m]) /\ Sound(m, snapshot'.markers[m])
        PROVE  Sound(m, markers[m])' /\ Sound(m, snapshot.markers[m])'
    <3>1. markers'[m] \in Nat /\ snapshot'.markers[m] \in Nat BY <2>1
    <3>2. PICK a, b : a = markers'[m] /\ b = snapshot'.markers[m] OBVIOUS
    <3> QED BY <1>3, <2>1, <3>1
  <2> QED BY <1>3, <2>1 DEF FilesAreSound
<1>4. CASE Marked
  <2>1. PICK m \in Markers, v \in Nat : SetMarker(m, v) /\ Sound(m, v) BY <1>4 DEF Marked
  <2> DEFINE line == MarkerLine(m, v)
  <2>2. /\ markers' = [markers EXCEPT ![m] = v] /\ appends' = Append(appends, line)
        /\ UNCHANGED <<now, snapshot, logFile>>
    BY <2>1 DEF SetMarker, Queue, diskVars
  <2>3. line \in Lines /\ <<line>> \in Seq(Lines) /\ SoundLines(<<line>>) BY <2>1, MarkerLineIs
  <2> HIDE DEF line
  <2>4. Append(appends, line) = appends \o <<line>> BY <1>1, <2>3, AppendIsConcat
  <2>5. appends' \in Seq(Lines) /\ SoundLines(appends') BY <1>1, <2>2, <2>3, <2>4, SoundConcat
  <2>6. markers' \in [Markers -> Nat] /\ \A x \in Markers : Sound(x, markers'[x]) BY <1>1, <2>1, <2>2
  <2> QED BY <1>1, <2>2, <2>5, <2>6
<1>5. CASE \E part : Grown(part)
  <2>1. PICK part : Grown(part) BY <1>5
  <2>2. logFile' \in Seq(Lines) /\ SoundLines(logFile') BY <1>1, <2>1, SoundConcat DEF Grown
  <2>3. appends' \in Seq(Lines) /\ SoundLines(appends') BY <1>1, <1>2, <2>1 DEF Grown
  <2> QED BY <1>1, <2>1, <2>2, <2>3 DEF Grown
<1>6. CASE Saved
  <2>1. appends' \in {appends, <<>>} /\ logFile' \in {logFile, <<>>} /\ snapshot'.markers \in {markers, snapshot.markers}
        /\ UNCHANGED <<now, markers>>
    BY <1>6 DEF Saved
  <2> QED BY <1>1, <1>2, <2>1
<1>7. CASE Loaded
  <2>1. /\ OnDisk.markers \in [Markers -> Nat]
        /\ \A m \in Markers : Sound(m, OnDisk.markers[m])
    BY OnDiskSound
  <2> QED BY <1>1, <1>2, <1>7, <2>1 DEF Loaded, diskVars
<1>8. CASE Still BY <1>1, <1>8 DEF Still, diskVars
<1> QED BY <1>4, <1>5, <1>6, <1>7, <1>8

(* The update that is looked at.                                           *)
LEMMA LookedIs ==
    ASSUME TelegramTypes, PollerIsSound, InBatch, batch.next <= batch.last
    PROVE  /\ batch.next \in 1..Len(inbox) /\ Looked \in Message /\ Looked.chat \in Chats
           /\ Looked.chat \in Nat /\ Looked.chat # 0
           /\ Switches(Looked) <=> Chosen(inbox[batch.next])
           /\ Switches(Looked) => Asked(Looked.chat)
<1>1. /\ inbox \in Seq(Message) /\ Len(inbox) \in Nat /\ DOMAIN inbox = 1..Len(inbox)
      /\ confirmed \in Nat /\ batch.next \in Nat /\ batch.last \in Nat
  BY PollerTyped, LenProperties
<1>2. confirmed < batch.next /\ batch.last <= Len(inbox) BY DEF PollerIsSound
<1>3. batch.next \in 1..Len(inbox) BY <1>1, <1>2
<1>4. Looked \in Message BY <1>1, <1>3, ElementOfSeq DEF Looked
<1>5. Looked.chat \in Chats BY <1>4 DEF Message
<1>6. Looked.chat \in Nat /\ Looked.chat # 0 BY <1>5, ChatsAre
<1>7. Switches(Looked) <=> Chosen(inbox[batch.next]) BY DEF Switches, Chosen, Mine, Looked
<1>8. Switches(Looked) => Asked(Looked.chat) BY <1>1, <1>3, <1>7 DEF Asked, Looked
<1> QED BY <1>3, <1>4, <1>5, <1>6, <1>7, <1>8

(* Every step does one of these.                                           *)
LEMMA StoreSteps ==
    ASSUME TelegramTypes, PollerIsSound, FilesAreSound, [TelegramNext]_<<vars, telegramVars>>
    PROVE  /\ \/ Marked \/ Saved \/ Loaded \/ Still
              \/ \E part : Grown(part)
           /\ inbox' = inbox \/ Heard
<1>1. /\ now \in Nat /\ appends \in Seq(Lines) /\ SoundLines(appends)
      /\ {"offset", "chat", "relay"} \subseteq Markers
      /\ inbox \in Seq(Message) /\ Len(inbox) \in Nat /\ batch.next \in Nat /\ batch.last \in Nat
  BY ChatsAre, PollerTyped DEF FilesAreSound
<1>2. CASE HandleUpdate
  <2>1. inbox' = inbox BY <1>2 DEF HandleUpdate
  <2>2. CASE Switches(Looked) /\ SetMarker("chat", Looked.chat)
    <3>1. step = "batch" /\ batch.next <= batch.last BY <1>2 DEF HandleUpdate
    <3>2. Looked.chat \in Nat /\ Asked(Looked.chat) BY <2>2, <3>1, LookedIs DEF InBatch
    <3>3. Sound("chat", Looked.chat) BY <3>2 DEF Sound
    <3> QED BY <1>1, <2>1, <2>2, <3>2, <3>3 DEF Marked
  <2>3. CASE UNCHANGED seenVars BY <2>1, <2>3 DEF seenVars, memoryVars, Still
  <2> QED BY <1>2, <2>2, <2>3 DEF HandleUpdate
<1>3. CASE SaveOffset
  <2>1. inbox' = inbox /\ SetMarker("offset", batch.last + 1) BY <1>3 DEF SaveOffset
  <2>2. batch.last <= Len(inbox) BY <1>3 DEF SaveOffset, PollerIsSound, InBatch
  <2>3. batch.last + 1 \in Nat /\ Sound("offset", batch.last + 1)
    <3>1. Handled(batch.last + 1) = batch.last BY <1>1 DEF Handled
    <3> QED BY <1>1, <2>2, <3>1 DEF Sound
  <2> QED BY <1>1, <2>1, <2>3 DEF Marked
<1>4. CASE RecordRelay
  <2>1. inbox' = inbox /\ SetMarker("relay", now) BY <1>4 DEF RecordRelay, pollerVars
  <2>2. Sound("relay", now) BY DEF Sound
  <2> QED BY <1>1, <2>1, <2>2 DEF Marked
<1>5. CASE Persists \/ Killed
  <2>1. inbox' = inbox BY <1>5 DEF Persists, Killed, telegramVars, pollerVars
  <2>2. CASE Flush
    <3>1. Grown(appends) BY <1>1, <2>2 DEF Flush, Grown, Appended
    <3> QED BY <2>1, <3>1
  <2>3. ASSUME NEW part \in PartOf(appends), logFile' = logFile \o part,
               UNCHANGED <<now, memoryVars, snapshot>>
        PROVE  Grown(part)
    <3>1. part \in Seq(Lines) /\ SoundLines(part) BY <1>1, <2>3, SoundPart
    <3> QED BY <2>3, <3>1 DEF Grown, memoryVars
  <2>4. UNCHANGED <<now, memoryVars, diskVars>> => Still BY DEF Still, memoryVars
  <2>5. CASE FlushNow BY <2>1, <2>2, <2>4, <2>5 DEF FlushNow, seenVars
  <2>6. CASE FlushError
    <3>1. PICK part \in PartOf(appends) : logFile' = IF part = <<>> THEN logFile ELSE Appended(logFile, part)
      BY <2>6 DEF FlushError, FlushFails
    <3>2. UNCHANGED <<now, memoryVars, snapshot>> BY <2>6 DEF FlushError, FlushFails
    <3> QED BY <2>1, <2>3, <2>4, <3>1, <3>2 DEF Appended, diskVars
  <2>7. CASE SaveStep
    <3>1. Saved BY <2>7 DEF SaveStep, ReplaceSnapshot, UnlinkLog, Saved
    <3> QED BY <2>1, <3>1
  <2>8. CASE SaveError
    <3>1. Still BY <2>8 DEF SaveError, ReplaceFails, UnlinkFails, Still
    <3> QED BY <2>1, <3>1
  <2>9. CASE Close \/ CloseSave
    <3>1. Still BY <2>9 DEF Close, CloseSave, Still, seenVars, memoryVars
    <3> QED BY <2>1, <3>1
  <2>10. CASE Kill
    <3>1. UNCHANGED <<now, memoryVars, snapshot>> BY <2>10 DEF Kill
    <3>2. CASE UNCHANGED logFile BY <2>1, <2>4, <3>1, <3>2 DEF diskVars
    <3>3. CASE \E part \in PartOf(appends) \ {<<>>} : logFile' = Appended(logFile, part)
      BY <2>1, <2>3, <3>1, <3>3 DEF Appended
    <3> QED BY <2>10, <3>2, <3>3 DEF Kill
  <2> QED BY <1>5, <2>5, <2>6, <2>7, <2>8, <2>9, <2>10 DEF Persists, Killed
<1>6. CASE Restart
  <2>1. Loaded BY <1>6 DEF Restart, Start, Load, Loaded
  <2> QED BY <1>6, <2>1 DEF Restart
<1>7. CASE \E m \in Message : Say(m)
  <2>1. Still /\ Heard BY <1>7 DEF Say, Still, Heard, seenVars, memoryVars
  <2> QED BY <2>1
<1>8. CASE Period
  <2>1. Still /\ inbox' = inbox BY <1>8 DEF Period, Still, pollerVars, memoryVars
  <2> QED BY <2>1
<1>9. CASE \/ Prepare \/ PollOnce \/ Move \/ Reply \/ ReplyEnds \/ Alert \/ AlertEnds \/ Check \/ CheckEnds
           \/ UNCHANGED <<vars, telegramVars>>
  <2>1. UNCHANGED seenVars
    BY <1>9 DEF Prepare, PollOnce, Move, Reply, ReplyEnds, Alert, AlertEnds, Check, CheckEnds, vars, storeQuiet
  <2>2. inbox' = inbox
    BY <1>9 DEF Prepare, PollOnce, Move, Reply, ReplyEnds, Alert, AlertEnds, Check, CheckEnds, telegramVars,
       pollerVars
  <2> QED BY <2>1, <2>2 DEF Still, seenVars, memoryVars
<1> QED BY <1>2, <1>3, <1>4, <1>5, <1>6, <1>7, <1>8, <1>9 DEF TelegramNext

-----------------------------------------------------------------------------
(* The poller                                                              *)

PollerTypes == /\ inbox \in Seq(Message) /\ confirmed \in 0..Len(inbox)
               /\ step \in {"prepare", "poll", "batch", "move", "reply", "ended"}
               /\ batch \in [next : Nat, last : Nat]
               /\ replies \in Seq(Chats)
               /\ offset \in Nat /\ target \in Chats
               /\ forgotten \in BOOLEAN /\ doubtful \in BOOLEAN
PollerGood == TelegramTypes /\ FilesAreSound /\ PollerIsSound /\ DestinationIsChosen
PollerKept == PollerTypes' /\ PollerIsSound' /\ DestinationIsChosen'

LEMMA OffsetIs ==
    ASSUME PollerGood
    PROVE  Handled(offset) \in Nat /\ Handled(offset) <= Len(inbox) /\ (offset = 0 => Handled(offset) = 0)
           /\ (offset # 0 => Handled(offset) = offset - 1)
<1>1. offset \in Nat BY PollerTyped DEF PollerGood
<1>2. Handled(offset) \in Nat /\ (offset = 0 => Handled(offset) = 0) /\ (offset # 0 => Handled(offset) = offset - 1)
  BY <1>1 DEF Handled
<1>3. offset = markers["offset"] /\ "offset" \in Markers BY ChatsAre DEF PollerGood, PollerIsSound
<1>4. Sound("offset", offset) BY <1>3 DEF PollerGood, FilesAreSound
<1> QED BY <1>2, <1>4 DEF Sound

(* The poller is not concerned.                                            *)
LEMMA PollerRests ==
    ASSUME PollerGood, UNCHANGED <<inbox, confirmed, step, batch, replies, offset, target, forgotten>>,
           doubtful' \in BOOLEAN, \A m \in {"offset", "chat"} : markers'[m] = markers[m],
           posting'["poller"] # 0 => posting["poller"] # 0
    PROVE  PollerKept
<1>1. PollerTypes' BY DEF PollerGood, TelegramTypes, PollerTypes
<1>2. UNCHANGED <<Looked, InBatch, Done>> BY DEF Looked, InBatch, Done, Handled
<1>3. PollerIsSound'
  BY <1>2 DEF PollerGood, PollerIsSound, Asked, Switches, Mine, Target, Handled
<1>4. \A n : Wanted(n)' = Wanted(n) BY DEF Wanted, Chosen
<1>5. DestinationIsChosen' BY <1>2, <1>4 DEF PollerGood, DestinationIsChosen, Handled
<1> QED BY <1>1, <1>3, <1>5 DEF PollerKept

LEMMA PrepareKeeps == ASSUME PollerGood, Prepare PROVE PollerKept
<1>1. /\ step = "prepare" /\ step' \in {"poll", "ended"} /\ UNCHANGED markers /\ UNCHANGED posting
      /\ UNCHANGED <<inbox, confirmed, batch, replies, offset, target, forgotten, doubtful>>
  BY DEF Prepare, storeQuiet, seenVars, memoryVars, sendVars
<1>2. PollerTypes' BY <1>1 DEF PollerGood, TelegramTypes, PollerTypes
<1>3. ~InBatch /\ ~InBatch' /\ Done = Handled(offset) /\ Done' = Handled(offset)
  BY <1>1 DEF InBatch, Done, Handled
<1>4. PollerIsSound' BY <1>1, <1>3 DEF PollerGood, PollerIsSound, Asked, Target
<1>5. \A n : Wanted(n)' = Wanted(n) BY <1>1 DEF Wanted, Chosen
<1>6. DestinationIsChosen' BY <1>1, <1>3, <1>5 DEF PollerGood, DestinationIsChosen, Handled
<1> QED BY <1>2, <1>4, <1>6 DEF PollerKept

LEMMA PollKeeps == ASSUME PollerGood, PollOnce PROVE PollerKept
<1>1. /\ step = "poll" /\ confirmed' = Confirmed /\ UNCHANGED markers /\ UNCHANGED posting
      /\ UNCHANGED <<inbox, replies, offset, target, forgotten, doubtful>>
  BY DEF PollOnce, storeQuiet, seenVars, memoryVars, sendVars
<1>2. /\ inbox \in Seq(Message) /\ Len(inbox) \in Nat /\ confirmed \in Nat /\ confirmed <= Len(inbox)
      /\ offset \in Nat
  BY PollerTyped DEF PollerGood
<1>3. /\ Handled(offset) \in Nat /\ Handled(offset) <= Len(inbox)
      /\ confirmed' = IF confirmed < Handled(offset) THEN Handled(offset) ELSE confirmed
      /\ Handled(offset)' = Handled(offset)
  BY <1>1, <1>2, OffsetIs DEF Confirmed, Handled
<1>4. confirmed' \in Nat /\ Handled(offset) <= confirmed' /\ confirmed' <= Len(inbox) BY <1>2, <1>3
<1>5. ~InBatch /\ Done = Handled(offset) BY <1>1 DEF InBatch, Done
<1>6. ~forgotten => confirmed' = Handled(offset) /\ \E n \in Handled(offset)..Len(inbox) : target = Wanted(n)
  BY <1>2, <1>3, <1>5 DEF PollerGood, DestinationIsChosen
<1>7. \A n : Wanted(n)' = Wanted(n) BY <1>1 DEF Wanted, Chosen
<1>8. Asked(target)' /\ offset' = markers'["offset"] /\ target' = Target(markers'["chat"])
      /\ posting'["poller"] = 0
  BY <1>1 DEF PollerGood, PollerIsSound, Asked, Target
<1>9. CASE batch' = [next |-> confirmed' + 1, last |-> Len(inbox)] /\ step' = "batch"
  <2>1. PollerTypes' BY <1>1, <1>2, <1>4, <1>9 DEF PollerGood, TelegramTypes, PollerTypes
  <2>2. batch'.next = confirmed' + 1 /\ batch'.last = Len(inbox') BY <1>1, <1>9
  <2>3. InBatch' /\ Done' = confirmed'
    <3>1. InBatch' BY <1>9 DEF InBatch
    <3>2. Done' = batch'.next - 1 BY <1>9 DEF Done
    <3>3. \A c \in Nat : c + 1 - 1 = c OBVIOUS
    <3>4. PICK c, d : c = confirmed' /\ d = Done' OBVIOUS
    <3>5. d = c + 1 - 1 /\ c \in Nat BY <1>4, <2>2, <3>2, <3>4
    <3>6. d = c BY <3>3, <3>5
    <3>7. Done' = confirmed' BY <3>4, <3>6
    <3> QED BY <3>1, <3>7
  <2>4. PollerIsSound' BY <1>1, <1>2, <1>3, <1>4, <1>8, <1>9, <2>2 DEF PollerIsSound
  <2>5. DestinationIsChosen' BY <1>1, <1>6, <1>7, <2>3 DEF DestinationIsChosen
  <2> QED BY <2>1, <2>4, <2>5 DEF PollerKept
<1>10. CASE UNCHANGED <<step, batch>>
  <2>1. PollerTypes' BY <1>1, <1>4, <1>10 DEF PollerGood, TelegramTypes, PollerTypes
  <2>2. ~InBatch' /\ Done' = Handled(offset) BY <1>1, <1>3, <1>10 DEF InBatch, Done
  <2>3. PollerIsSound' BY <1>1, <1>8, <1>10, <2>2 DEF PollerIsSound
  <2>4. DestinationIsChosen' BY <1>1, <1>3, <1>4, <1>6, <1>7, <2>2 DEF DestinationIsChosen
  <2> QED BY <2>1, <2>3, <2>4 DEF PollerKept
<1> QED BY <1>9, <1>10 DEF PollOnce

(* In a batch.                                                             *)
LEMMA BatchIs ==
    ASSUME PollerGood, InBatch
    PROVE  /\ inbox \in Seq(Message) /\ Len(inbox) \in Nat /\ confirmed \in Nat /\ confirmed <= Len(inbox)
           /\ batch \in [next : Nat, last : Nat] /\ batch.next \in Nat /\ batch.last \in Nat
           /\ Handled(offset) <= confirmed /\ confirmed < batch.next
           /\ batch.next <= batch.last + 1 /\ batch.last <= Len(inbox)
           /\ target \in Chats /\ offset \in Nat
BY PollerTyped DEF PollerGood, PollerIsSound

LEMMA HandleKeeps == ASSUME PollerGood, HandleUpdate PROVE PollerKept
<1>1. /\ step = "batch" /\ batch.next <= batch.last
      /\ UNCHANGED <<inbox, confirmed, offset, target, forgotten, doubtful>> /\ UNCHANGED posting
  BY DEF HandleUpdate, sendVars
<1>2. InBatch /\ Done = batch.next - 1 BY <1>1 DEF InBatch, Done
<1>3. /\ batch.next \in 1..Len(inbox) /\ Looked \in Message /\ Looked.chat \in Chats
      /\ Switches(Looked) <=> Chosen(inbox[batch.next])
  BY <1>1, <1>2, LookedIs DEF PollerGood
<1>4. \A n : Wanted(n)' = Wanted(n) BY <1>1 DEF Wanted, Chosen
<1>5. \A c : Asked(c)' <=> Asked(c) BY <1>1 DEF Asked
<1>6. /\ markers \in [Markers -> Nat] /\ {"offset", "chat"} \subseteq Markers /\ "offset" # "chat"
      /\ Asked(target) /\ offset = markers["offset"] /\ target = Target(markers["chat"])
      /\ posting["poller"] = 0
  BY <1>1, ChatsAre DEF PollerGood, PollerIsSound, FilesAreSound
<1>7. CASE /\ Switches(Looked) /\ SetMarker("chat", Looked.chat)
           /\ step' = "move" /\ replies' = <<>> /\ UNCHANGED batch
  <2>1. PollerTypes' BY <1>1, <1>7 DEF PollerGood, TelegramTypes, PollerTypes
  <2>2. markers'["chat"] = Looked.chat /\ markers'["offset"] = offset BY <1>6, <1>7 DEF SetMarker
  <2>3. Switches(Looked)' /\ Looked' = Looked BY <1>1, <1>7 DEF Looked, Switches, Mine
  <2>4. InBatch' /\ Done' = Done /\ Handled(offset)' = Handled(offset)
    BY <1>1, <1>2, <1>7 DEF InBatch, Done, Handled
  <2>5. PollerIsSound' BY <1>1, <1>2, <1>5, <1>6, <1>7, <2>2, <2>3, <2>4, BatchIs DEF PollerIsSound
  <2>6. DestinationIsChosen' BY <1>1, <1>4, <2>4 DEF PollerGood, DestinationIsChosen
  <2> QED BY <2>1, <2>5, <2>6 DEF PollerKept
<1>8. ~Switches(Looked) => Wanted(batch.next) = Wanted(batch.next - 1)
  <2>1. inbox \in Seq(Message) BY <1>2, BatchIs
  <2> QED BY <1>3, <2>1, WantedNext
<1>9. ~Switches(Looked) /\ ~forgotten => \E n \in batch.next..Len(inbox) : target = Wanted(n)
  <2> SUFFICES ASSUME ~Switches(Looked), ~forgotten
               PROVE  \E n \in batch.next..Len(inbox) : target = Wanted(n)
    OBVIOUS
  <2>1. PICK n \in (batch.next - 1)..Len(inbox) : target = Wanted(n)
    BY <1>2 DEF PollerGood, DestinationIsChosen
  <2>2. n = batch.next - 1 => target = Wanted(batch.next) BY <1>8, <2>1
  <2>3. batch.next \in Nat /\ batch.next \in batch.next..Len(inbox) BY <1>3
  <2>4. n # batch.next - 1 => n \in batch.next..Len(inbox) BY <2>1, <2>3
  <2> QED BY <2>1, <2>2, <2>3, <2>4
<1>10. CASE /\ Answers(Looked) /\ step' = "reply" /\ replies' = ReplyChats(Looked)
            /\ UNCHANGED <<batch, seenVars>>
  <2>1. ~Switches(Looked) BY <1>10 DEF Answers, Switches
  <2>2. target \in Chats BY <1>2, BatchIs
  <2>3. ReplyChats(Looked) \in Seq(Chats) /\ ReplyChats(Looked) # <<>>
    BY <1>3, <2>2 DEF ReplyChats
  <2>4. PollerTypes' BY <1>1, <1>10, <2>3 DEF PollerGood, TelegramTypes, PollerTypes
  <2>5. InBatch' /\ Done' = batch.next /\ Handled(offset)' = Handled(offset) /\ UNCHANGED markers
    BY <1>1, <1>10 DEF InBatch, Done, Handled, seenVars, memoryVars
  <2>6. PollerIsSound' BY <1>1, <1>2, <1>5, <1>6, <1>10, <2>3, <2>5, BatchIs DEF PollerIsSound, Target
  <2>7. DestinationIsChosen' BY <1>1, <1>4, <1>9, <2>1, <2>5 DEF DestinationIsChosen
  <2> QED BY <2>4, <2>6, <2>7 DEF PollerKept
<1>11. CASE /\ ~Switches(Looked) /\ NextOne /\ UNCHANGED <<step, replies, seenVars>>
  <2>1. /\ batch' \in [next : Nat, last : Nat] /\ batch'.next = batch.next + 1 /\ batch'.last = batch.last
    BY <1>2, <1>11, BatchIs DEF NextOne
  <2>2. PollerTypes' BY <1>1, <1>11, <2>1 DEF PollerGood, TelegramTypes, PollerTypes
  <2>3. InBatch' /\ Handled(offset)' = Handled(offset) /\ UNCHANGED markers
    BY <1>1, <1>11 DEF InBatch, Handled, seenVars, memoryVars
  <2>4. Done' = batch.next
    <3>1. Done' = batch'.next - 1 BY <1>1, <1>11 DEF Done
    <3>2. PICK b : b = batch.next OBVIOUS
    <3>3. b \in Nat /\ Done' = b + 1 - 1 BY <1>3, <2>1, <3>1, <3>2
    <3> QED BY <3>2, <3>3
  <2>5. PollerIsSound' BY <1>1, <1>2, <1>5, <1>6, <1>11, <2>1, <2>3, BatchIs DEF PollerIsSound, Target
  <2>6. DestinationIsChosen' BY <1>1, <1>4, <1>9, <1>11, <2>3, <2>4 DEF DestinationIsChosen
  <2> QED BY <2>2, <2>5, <2>6 DEF PollerKept
<1> QED BY <1>7, <1>10, <1>11 DEF HandleUpdate

(* The destination moves.                                                  *)
LEMMA MoveKeeps == ASSUME PollerGood, Move PROVE PollerKept
<1>1. /\ step = "move" /\ step' = "reply" /\ target' = Looked.chat /\ forgotten' = FALSE
      /\ replies' = <<Looked.chat>> /\ UNCHANGED <<inbox, confirmed, batch, offset, doubtful>>
      /\ UNCHANGED posting /\ UNCHANGED markers
  BY DEF Move, sendVars, seenVars, memoryVars
<1>2. InBatch /\ batch.next <= batch.last /\ Switches(Looked) /\ markers["chat"] = Looked.chat
      /\ offset = markers["offset"] /\ posting["poller"] = 0
  BY <1>1 DEF InBatch, PollerGood, PollerIsSound
<1>3. /\ batch.next \in 1..Len(inbox) /\ Looked.chat \in Chats
      /\ Chosen(inbox[batch.next]) /\ Asked(Looked.chat) /\ Looked.chat # 0
  BY <1>1, <1>2, LookedIs DEF PollerGood
<1>4. PollerTypes'
  <2>1. PICK c \in Chats : c = Looked.chat BY <1>3
  <2>2. replies' \in Seq(Chats) /\ target' \in Chats
    <3>1. <<c>> \in Seq(Chats) OBVIOUS
    <3> QED BY <1>1, <2>1, <3>1
  <2> QED BY <1>1, <2>2 DEF PollerGood, TelegramTypes, PollerTypes
<1>5. InBatch' /\ Done' = batch.next /\ Handled(offset)' = Handled(offset) BY <1>1 DEF InBatch, Done, Handled
<1>6. target' = Target(markers'["chat"]) /\ Asked(target)'
  BY <1>1, <1>2, <1>3 DEF Target, Asked
<1>7. replies' # <<>> BY <1>1
<1>8. PollerIsSound' BY <1>1, <1>2, <1>5, <1>6, <1>7, BatchIs DEF PollerIsSound
<1>9. Wanted(batch.next)' = Wanted(batch.next) /\ Wanted(batch.next) = Looked.chat
  <2>1. inbox \in Seq(Message) BY <1>2, BatchIs
  <2>2. PICK n \in 1..Len(inbox) : n = batch.next BY <1>3
  <2>3. Wanted(n) = inbox[n].chat BY <1>3, <2>1, <2>2, WantedNext
  <2>4. Wanted(n)' = Wanted(n) BY <1>1 DEF Wanted, Chosen
  <2>5. batch' = batch BY <1>1
  <2> QED BY <2>2, <2>3, <2>4, <2>5 DEF Looked
<1>10. DestinationIsChosen'
  <2>1. batch.next \in Nat /\ batch.next \in batch.next..Len(inbox) BY <1>3
  <2>2. \E n \in batch.next..Len(inbox) : target' = Wanted(n)'
    <3>1. target' = Wanted(batch.next)' BY <1>1, <1>9
    <3>2. PICK k : k = batch.next OBVIOUS
    <3>3. target' = Wanted(k)' /\ k \in batch.next..Len(inbox) BY <1>1, <2>1, <3>1, <3>2
    <3> QED BY <3>3
  <2> QED BY <1>1, <1>5, <2>2 DEF DestinationIsChosen
<1> QED BY <1>4, <1>8, <1>10 DEF PollerKept

(* An answer has gone out, or not; the update is done with the last one.   *)
LEMMA RepliedKeeps ==
    ASSUME PollerGood, step = "reply", Replied, posting'["poller"] = 0, UNCHANGED markers,
           UNCHANGED <<inbox, confirmed, offset, target, forgotten, doubtful>>
    PROVE  PollerKept
<1>1. InBatch /\ Done = batch.next /\ batch.next <= batch.last /\ replies # <<>>
      /\ offset = markers["offset"] /\ target = Target(markers["chat"]) /\ Asked(target)
  BY DEF InBatch, Done, PollerGood, PollerIsSound
<1>2. Asked(target)' BY <1>1 DEF Asked
<1>3. \A n : Wanted(n)' = Wanted(n) BY DEF Wanted, Chosen
<1>4. replies \in Seq(Chats) BY PollerTyped DEF PollerGood
<1>5. /\ replies' = Tail(replies) /\ replies' \in Seq(Chats)
      /\ Len(replies) # 1 => replies' # <<>>
  <2>1. /\ Tail(replies) \in Seq(Chats) /\ Len(Tail(replies)) = Len(replies) - 1 /\ Len(replies) \in Nat
    BY <1>1, <1>4, HeadTailProperties, LenProperties
  <2>2. Len(<<>>) = 0 BY EmptySeq
  <2>3. replies' = Tail(replies) BY DEF Replied
  <2>4. Len(replies) # 1 => Tail(replies) # <<>>
    <3> SUFFICES ASSUME Tail(replies) = <<>> PROVE Len(replies) = 1 OBVIOUS
    <3>1. PICK l \in Nat : l = Len(replies) BY <2>1
    <3>2. l - 1 = 0 BY <2>1, <2>2, <3>1
    <3>3. l = 1 BY <3>2
    <3> QED BY <3>1, <3>3
  <2> QED BY <2>1, <2>3, <2>4
<1>6. ~forgotten => \E n \in batch.next..Len(inbox) : target = Wanted(n)
  BY <1>1 DEF PollerGood, DestinationIsChosen
<1>7. CASE Len(replies) = 1 /\ step' = "batch" /\ NextOne
  <2>1. /\ batch' \in [next : Nat, last : Nat] /\ batch'.next = batch.next + 1 /\ batch'.last = batch.last
    BY <1>1, <1>7, BatchIs DEF NextOne
  <2>2. PollerTypes' BY <1>5, <1>7, <2>1 DEF PollerGood, TelegramTypes, PollerTypes
  <2>3. InBatch' /\ Handled(offset)' = Handled(offset) BY <1>7 DEF InBatch, Handled
  <2>4. Done' = batch.next
    <3>1. Done' = batch'.next - 1 BY <1>7 DEF Done
    <3>2. PICK b : b = batch.next OBVIOUS
    <3>3. b \in Nat /\ Done' = b + 1 - 1 BY <1>1, <2>1, <3>1, <3>2, BatchIs
    <3> QED BY <3>2, <3>3
  <2>5. PollerIsSound' BY <1>1, <1>2, <1>7, <2>1, <2>3, BatchIs DEF PollerIsSound, Target
  <2>6. DestinationIsChosen' BY <1>3, <1>6, <2>3, <2>4 DEF DestinationIsChosen
  <2> QED BY <2>2, <2>5, <2>6 DEF PollerKept
<1>8. CASE Len(replies) # 1 /\ UNCHANGED <<step, batch>>
  <2>1. PollerTypes' BY <1>5, <1>8 DEF PollerGood, TelegramTypes, PollerTypes
  <2>2. InBatch' /\ Handled(offset)' = Handled(offset) /\ Done' = batch.next
    BY <1>8 DEF InBatch, Handled, Done
  <2>3. PollerIsSound' BY <1>1, <1>2, <1>5, <1>8, <2>2, BatchIs DEF PollerIsSound, Target
  <2>4. DestinationIsChosen' BY <1>3, <1>6, <2>2 DEF DestinationIsChosen
  <2> QED BY <2>1, <2>3, <2>4 DEF PollerKept
<1> QED BY <1>7, <1>8 DEF Replied

LEMMA ReplyKeeps == ASSUME PollerGood, Reply \/ ReplyEnds PROVE PollerKept
<1>1. SendTypes /\ now \in Nat BY DEF PollerGood, TelegramTypes, SendTypes, FilesAreSound
<1>2. "poller" \in Senders BY DEF Senders
<1>3. UNCHANGED markers /\ UNCHANGED <<inbox, confirmed, offset, target, forgotten, doubtful>> /\ now' = now
  BY DEF Reply, ReplyEnds, seenVars, memoryVars, storeQuiet
<1>4. CASE Reply
  <2>1. step = "reply" /\ posting["poller"] = 0 /\ told' = told BY <1>4 DEF Reply
  <2>2. CASE Post("poller", Head(replies)) /\ UNCHANGED <<step, batch, replies>>
    <3>1. PollerTypes' BY <1>3, <2>2 DEF PollerGood, TelegramTypes, PollerTypes
    <3>2. UNCHANGED <<Looked, InBatch, Done>> BY <1>3, <2>2 DEF Looked, InBatch, Done, Handled
    <3>3. PollerIsSound'
      BY <1>3, <2>1, <2>2, <3>2 DEF PollerGood, PollerIsSound, Asked, Switches, Mine, Target, Handled
    <3>4. \A n : Wanted(n)' = Wanted(n) BY <1>3 DEF Wanted, Chosen
    <3>5. DestinationIsChosen' BY <1>3, <3>2, <3>4 DEF PollerGood, DestinationIsChosen, Handled
    <3> QED BY <3>1, <3>3, <3>5 DEF PollerKept
  <2>3. CASE Held(Head(replies)) /\ Replied
    <3>1. posting'["poller"] = 0 BY <2>1, <2>3 DEF Held
    <3> QED BY <1>3, <2>1, <2>3, <3>1, RepliedKeeps
  <2> QED BY <1>4, <2>2, <2>3 DEF Reply
<1>5. CASE ReplyEnds
  <2>1. PICK ok \in BOOLEAN : Outcome("poller", ok) BY <1>5 DEF ReplyEnds
  <2>2. posting["poller"] # 0 /\ posting'["poller"] = 0 BY <1>1, <1>2, <1>3, <2>1, EndKeeps
  <2>3. step = "reply" BY <2>2 DEF PollerGood, PollerIsSound
  <2>4. Replied BY <1>5 DEF ReplyEnds
  <2> QED BY <1>3, <2>2, <2>3, <2>4, RepliedKeeps
<1> QED BY <1>4, <1>5

(* The offset is saved after the batch.                                    *)
LEMMA OffsetKeeps == ASSUME PollerGood, SaveOffset PROVE PollerKept
<1>1. /\ step = "batch" /\ batch.next > batch.last /\ step' = "poll" /\ batch' = NoBatch
      /\ offset' = batch.last + 1 /\ SetMarker("offset", batch.last + 1)
      /\ UNCHANGED <<inbox, confirmed, replies, target, forgotten, doubtful>> /\ UNCHANGED posting
  BY DEF SaveOffset, sendVars
<1>2. InBatch /\ Done = batch.next - 1 BY <1>1 DEF InBatch, Done
<1>3. /\ Len(inbox) \in Nat /\ confirmed \in Nat /\ batch.next \in Nat /\ batch.last \in Nat
      /\ confirmed < batch.next /\ batch.next = batch.last + 1 /\ batch.last <= Len(inbox)
  BY <1>1, <1>2, BatchIs
<1>4. NoBatch \in [next : Nat, last : Nat] BY DEF NoBatch
<1>5. PollerTypes' BY <1>1, <1>3, <1>4 DEF PollerGood, TelegramTypes, PollerTypes
<1>6. ~InBatch' /\ Done' = Handled(offset)' BY <1>1 DEF InBatch, Done, Handled
<1>7. Handled(offset)' = batch.last /\ Done = batch.last
  <2>1. PICK b \in Nat : b = batch.last BY <1>3
  <2>2. offset' = b + 1 BY <1>1, <2>1
  <2>3. Handled(offset)' = b BY <2>2 DEF Handled
  <2>4. Done = b BY <1>2, <1>3, <2>1
  <2> QED BY <2>1, <2>3, <2>4
<1>8. markers'["offset"] = batch.last + 1 /\ markers'["chat"] = markers["chat"]
  <2>1. markers \in [Markers -> Nat] /\ {"offset", "chat"} \subseteq Markers /\ "offset" # "chat"
    BY ChatsAre DEF PollerGood, FilesAreSound
  <2> QED BY <1>1, <2>1 DEF SetMarker
<1>9. Asked(target) /\ target = Target(markers["chat"]) /\ posting["poller"] = 0
  BY <1>1 DEF PollerGood, PollerIsSound
<1>10. PollerIsSound' BY <1>1, <1>6, <1>8, <1>9 DEF PollerIsSound, Target, Asked
<1>11. \A n : Wanted(n)' = Wanted(n) BY <1>1 DEF Wanted, Chosen
<1>12. ~forgotten => \E n \in batch.last..Len(inbox) : target = Wanted(n)
  BY <1>7 DEF PollerGood, DestinationIsChosen
<1>13. confirmed <= batch.last BY <1>3
<1>14. DestinationIsChosen' BY <1>1, <1>6, <1>7, <1>11, <1>12, <1>13 DEF DestinationIsChosen
<1> QED BY <1>5, <1>10, <1>14 DEF PollerKept

(* Someone writes to the bot.                                              *)
LEMMA SayKeeps == ASSUME PollerGood, NEW m \in Message, Say(m) PROVE PollerKept
<1>1. /\ inbox' = Append(inbox, m) /\ UNCHANGED markers /\ UNCHANGED posting
      /\ UNCHANGED <<confirmed, step, batch, replies, offset, target, forgotten, doubtful>>
  BY DEF Say, seenVars, memoryVars, sendVars
<1>2. inbox \in Seq(Message) /\ confirmed \in 0..Len(inbox) BY PollerTyped DEF PollerGood
<1>3. /\ inbox' \in Seq(Message) /\ Len(inbox') = Len(inbox) + 1 /\ Len(inbox) \in Nat
      /\ \A k \in 1..Len(inbox) : inbox'[k] = inbox[k]
      /\ \A n \in 0..Len(inbox) : Wanted(n)' = Wanted(n)
      /\ \A c : Asked(c) => Asked(c)'
  BY <1>1, <1>2, WantedGrows
<1>4. confirmed' \in 0..Len(inbox') BY <1>1, <1>2, <1>3
<1>5. PollerTypes' BY <1>1, <1>3, <1>4 DEF PollerGood, TelegramTypes, PollerTypes
<1>6. UNCHANGED <<InBatch, Done>> /\ Handled(offset)' = Handled(offset) BY <1>1 DEF InBatch, Done, Handled
<1>7. step = "move" => Looked' = Looked
  <2> SUFFICES ASSUME step = "move" PROVE Looked' = Looked OBVIOUS
  <2>1. InBatch /\ batch.next <= batch.last BY DEF InBatch, PollerGood, PollerIsSound
  <2>2. batch.next \in 1..Len(inbox) BY <2>1, LookedIs DEF PollerGood
  <2> QED BY <1>1, <1>3, <2>2 DEF Looked
<1>8. step = "move" => Switches(Looked)' /\ markers'["chat"] = Looked'.chat
  BY <1>1, <1>7 DEF PollerGood, PollerIsSound, Switches, Mine
<1>9. InBatch => /\ Handled(offset) <= confirmed /\ confirmed < batch.next
                 /\ batch.next <= batch.last + 1 /\ batch.last <= Len(inbox')
  <2> SUFFICES ASSUME InBatch
               PROVE  /\ Handled(offset) <= confirmed /\ confirmed < batch.next
                      /\ batch.next <= batch.last + 1 /\ batch.last <= Len(inbox')
    OBVIOUS
  <2>1. batch.last \in Nat /\ batch.last <= Len(inbox) BY BatchIs
  <2> QED BY <1>3, <2>1, BatchIs
<1>10. Asked(target)' /\ offset' = markers'["offset"] /\ (step' # "move" => target' = Target(markers'["chat"]))
  BY <1>1, <1>3 DEF PollerGood, PollerIsSound, Asked, Target
<1>11. /\ step' \in {"move", "reply"} => batch'.next <= batch'.last
       /\ step' = "reply" => replies' # <<>>
       /\ posting'["poller"] # 0 => step' = "reply"
  BY <1>1 DEF PollerGood, PollerIsSound
<1>12. PollerIsSound' BY <1>1, <1>6, <1>8, <1>9, <1>10, <1>11 DEF PollerIsSound
<1>13. Done \in Nat
  <2>1. InBatch => batch.next \in Nat \ {0}
    <3>1. InBatch => batch.next \in Nat /\ confirmed < batch.next BY BatchIs
    <3> QED BY <1>2, <3>1
  <2> QED BY <2>1, OffsetIs DEF Done, InBatch
<1>14. ASSUME ~forgotten PROVE \E n \in Done..Len(inbox') : target' = Wanted(n)'
  <2>1. PICK n \in Done..Len(inbox) : target = Wanted(n) BY <1>14 DEF PollerGood, DestinationIsChosen
  <2>2. n \in 0..Len(inbox) /\ n \in Done..Len(inbox') BY <1>3, <1>13, <2>1
  <2> QED BY <1>1, <1>3, <2>1, <2>2
<1>15. ~forgotten /\ ~InBatch => confirmed <= Handled(offset) BY DEF PollerGood, DestinationIsChosen
<1>16. DestinationIsChosen' BY <1>1, <1>6, <1>14, <1>15 DEF DestinationIsChosen
<1> QED BY <1>5, <1>12, <1>16 DEF PollerKept

(* A start loads what the files say.                                       *)
LEMMA RestartKeeps == ASSUME PollerGood, FilesAreRight, Restart PROVE PollerKept
<1>1. /\ step' = "prepare" /\ batch' = NoBatch /\ replies' = <<>>
      /\ markers' = OnDisk.markers /\ offset' = markers'["offset"]
      /\ target' = Target(markers'["chat"])
      /\ forgotten' = (doubtful \/ (markers'["offset"] <= confirmed /\ confirmed # 0))
      /\ doubtful' = forgotten' /\ posting' = [s \in Senders |-> 0]
      /\ UNCHANGED <<inbox, confirmed>>
  BY DEF Restart, Start, Load, Target
<1>2. /\ OnDisk.markers \in [Markers -> Nat] /\ {"offset", "chat"} \subseteq Markers
      /\ \A m \in Markers : Sound(m, OnDisk.markers[m])
  BY OnDiskSound, ChatsAre DEF PollerGood
<1>3. PICK o \in Nat : o = OnDisk.markers["offset"] BY <1>2
<1>4. /\ inbox \in Seq(Message) /\ Len(inbox) \in Nat /\ confirmed \in Nat /\ doubtful \in BOOLEAN
      /\ confirmed \in 0..Len(inbox)
  BY PollerTyped DEF PollerGood, TelegramTypes
<1>5. target' \in Chats /\ Asked(target') /\ target' = Target(OnDisk.markers["chat"])
  <2>1. PICK c \in Nat : c = OnDisk.markers["chat"] BY <1>2
  <2>2. Sound("chat", c) BY <1>2, <2>1
  <2>3. target' = Target(c) BY <1>1, <2>1
  <2>4. Asked(target') BY <2>2, <2>3 DEF Sound, Target, Asked
  <2> QED BY <1>1, <1>4, <2>4, AskedChats
<1>6. "poller" \in Senders /\ <<>> \in Seq(Chats) /\ NoBatch \in [next : Nat, last : Nat]
      /\ forgotten' \in BOOLEAN
  BY <1>1, EmptySeq DEF Senders, NoBatch
<1>7. PollerTypes' BY <1>1, <1>3, <1>4, <1>5, <1>6 DEF PollerTypes
<1>8. ~InBatch' /\ Done' = Handled(offset)' BY <1>1 DEF InBatch, Done, Handled
<1>9. Handled(offset)' = Handled(o) BY <1>1, <1>3 DEF Handled
<1>10. Asked(target)' BY <1>1, <1>5 DEF Asked
<1>11. PollerIsSound' BY <1>1, <1>6, <1>8, <1>10 DEF PollerIsSound, Target
<1>12. ASSUME ~forgotten'
       PROVE  /\ \E n \in Handled(o)..Len(inbox) : target' = Wanted(n)
              /\ confirmed <= Handled(o)
  <2>1. ~doubtful /\ ~(o <= confirmed /\ confirmed # 0) BY <1>1, <1>3, <1>12
  <2>2. Right(OnDisk.markers) BY <2>1 DEF FilesAreRight
  <2>3. \E n \in Handled(o)..Len(inbox) : Target(OnDisk.markers["chat"]) = Wanted(n)
    BY <1>3, <2>1, <2>2 DEF Right, ToldOf
  <2>4. confirmed <= Handled(o) BY <1>4, <2>1 DEF Handled
  <2> QED BY <1>5, <2>3, <2>4
<1>13. \A n : Wanted(n)' = Wanted(n) BY <1>1 DEF Wanted, Chosen
<1>14. DestinationIsChosen' BY <1>1, <1>8, <1>9, <1>12, <1>13 DEF DestinationIsChosen
<1> QED BY <1>7, <1>11, <1>14 DEF PollerKept

(* What persists leaves the poller alone.                                  *)
LEMMA PersistsTypes ==
    ASSUME Persists, forgotten \in BOOLEAN, doubtful \in BOOLEAN
    PROVE  doubtful' \in BOOLEAN /\ UNCHANGED markers
<1>1. doubtful' \in BOOLEAN
  <2>1. doubtful' = IF InStep' THEN forgotten
                    ELSE doubtful \/ <<appends, diskVars>>' # <<appends, diskVars>>
    BY DEF Persists
  <2>2. CASE InStep' BY <2>1, <2>2
  <2>3. CASE ~InStep' BY <2>1, <2>3
  <2> QED BY <2>2, <2>3
<1>2. UNCHANGED markers
  BY DEF Persists, FlushNow, Flush, FlushError, FlushFails, SaveStep, ReplaceSnapshot, UnlinkLog,
     SaveError, ReplaceFails, UnlinkFails, Close, CloseSave, seenVars, memoryVars
<1> QED BY <1>1, <1>2

(* The poller, whoever steps.                                              *)
LEMMA PollerKeeps ==
    ASSUME PollerGood, FilesAreRight, [TelegramNext]_<<vars, telegramVars>>
    PROVE  PollerKept
<1>1. SendTypes /\ now \in Nat /\ forgotten \in BOOLEAN /\ doubtful \in BOOLEAN /\ target \in Chats
  BY DEF PollerGood, TelegramTypes, SendTypes, FilesAreSound
<1>2. Senders = {"poller", "request", "watchdog"} BY DEF Senders
<1>3. CASE Alert
  <2>1. UNCHANGED pollerVars /\ UNCHANGED markers /\ told' = told /\ now' = now
    BY <1>3 DEF Alert, seenVars, memoryVars
  <2>2. Post("request", target) \/ Held(target) BY <1>3 DEF Alert
  <2>3. \A x \in Senders \ {"request"} : posting'[x] = posting[x] BY <1>1, <1>2, <2>1, <2>2, PostKeeps
  <2> QED BY <1>1, <1>2, <2>1, <2>3, PollerRests DEF pollerVars
<1>4. CASE AlertEnds \/ CheckEnds
  <2>1. UNCHANGED pollerVars /\ UNCHANGED markers /\ now' = now
    BY <1>4 DEF AlertEnds, CheckEnds, storeQuiet, seenVars, memoryVars
  <2>2. PICK s \in {"request", "watchdog"}, ok \in BOOLEAN : Outcome(s, ok)
    BY <1>4 DEF AlertEnds, CheckEnds
  <2>3. \A x \in Senders \ {s} : posting'[x] = posting[x] BY <1>1, <1>2, <2>1, <2>2, EndKeeps
  <2> QED BY <1>1, <1>2, <2>1, <2>3, PollerRests DEF pollerVars
<1>5. CASE Check
  <2>1. UNCHANGED pollerVars /\ UNCHANGED markers /\ told' = told /\ now' = now
    BY <1>5 DEF Check, seenVars, memoryVars
  <2>2. CASE Post("watchdog", target) \/ Held(target)
    <3>1. \A x \in Senders \ {"watchdog"} : posting'[x] = posting[x] BY <1>1, <1>2, <2>1, <2>2, PostKeeps
    <3> QED BY <1>1, <1>2, <2>1, <3>1, PollerRests DEF pollerVars
  <2>3. CASE UNCHANGED posting BY <1>1, <2>1, <2>3, PollerRests DEF pollerVars
  <2> QED BY <1>5, <2>2, <2>3 DEF Check
<1>6. CASE RecordRelay
  <2>1. UNCHANGED pollerVars /\ UNCHANGED posting /\ SetMarker("relay", now)
    BY <1>6 DEF RecordRelay, sendVars
  <2>2. \A m \in {"offset", "chat"} : markers'[m] = markers[m]
    <3>1. markers \in [Markers -> Nat] /\ {"offset", "chat", "relay"} \subseteq Markers
      BY ChatsAre DEF PollerGood, FilesAreSound
    <3> QED BY <2>1, <3>1 DEF SetMarker
  <2> QED BY <1>1, <2>1, <2>2, PollerRests DEF pollerVars
<1>7. CASE Period \/ Killed \/ UNCHANGED <<vars, telegramVars>>
  <2>1. UNCHANGED pollerVars /\ UNCHANGED posting /\ UNCHANGED markers
    BY <1>7 DEF Period, Killed, Kill, vars, seenVars, memoryVars, telegramVars, sendVars
  <2> QED BY <1>1, <2>1, PollerRests DEF pollerVars
<1>8. CASE Persists
  <2>1. /\ UNCHANGED <<inbox, confirmed, step, batch, replies, offset, target, forgotten>>
        /\ UNCHANGED posting
    BY <1>8 DEF Persists, sendVars
  <2> QED BY <1>1, <1>8, <2>1, PersistsTypes, PollerRests
<1> QED BY <1>3, <1>4, <1>5, <1>6, <1>7, <1>8, PrepareKeeps, PollKeeps, HandleKeeps, MoveKeeps, ReplyKeeps,
           OffsetKeeps, SayKeeps, RestartKeeps DEF TelegramNext

-----------------------------------------------------------------------------
(* What a start would load                                                 *)

(* Of the markers, the destination and the offset decide.                  *)
LEMMA RightSame ==
    ASSUME NEW a, NEW b, a["offset"] = b["offset"], a["chat"] = b["chat"], Right(a)
    PROVE  Right(b)
BY DEF Right, ToldOf

(* What is right stays so when messages come and Telegram is told more.    *)
LEMMA RightStays ==
    ASSUME inbox \in Seq(Message), inbox' = inbox \/ Heard, confirmed \in Nat,
           confirmed' \in Nat, confirmed <= confirmed',
           NEW load, load["offset"] \in Nat, Right(load)
    PROVE  Right(load)'
<1>1. PICK o \in Nat : o = load["offset"] OBVIOUS
<1>2. CASE ToldOf(o)
  <2>1. confirmed' # 0 /\ o <= confirmed' BY <1>1, <1>2 DEF ToldOf
  <2> QED BY <1>1, <2>1 DEF Right, ToldOf
<1>3. CASE \E n \in Handled(o)..Len(inbox) : Target(load["chat"]) = Wanted(n)
  <2>1. PICK n \in Handled(o)..Len(inbox) : Target(load["chat"]) = Wanted(n) BY <1>3
  <2>2. Handled(o) \in Nat BY DEF Handled
  <2>3. Len(inbox) \in Nat BY LenProperties
  <2>4. n \in 0..Len(inbox) BY <2>1, <2>2, <2>3
  <2>5. n \in Handled(o)..Len(inbox') /\ Wanted(n)' = Wanted(n)
    <3>1. CASE inbox' = inbox BY <2>1, <3>1 DEF Wanted, Chosen
    <3>2. CASE Heard
      <4>1. PICK m \in Message : inbox' = Append(inbox, m) BY <3>2 DEF Heard
      <4>2. Len(inbox') = Len(inbox) + 1 /\ \A x \in 0..Len(inbox) : Wanted(x)' = Wanted(x)
        BY <4>1, WantedGrows
      <4> QED BY <2>1, <2>2, <2>3, <2>4, <4>2
    <3> QED BY <3>1, <3>2
  <2> QED BY <1>1, <2>1, <2>5 DEF Right, Handled, Target
<1> QED BY <1>1, <1>2, <1>3 DEF Right

(* What memory says is right, unless a choice was forgotten.               *)
LEMMA MemoryIsRight ==
    ASSUME PollerGood, ~forgotten
    PROVE  Right(markers)
<1>1. offset = markers["offset"] BY DEF PollerGood, PollerIsSound
<1>2. PICK n \in Done..Len(inbox) : target = Wanted(n) BY DEF PollerGood, DestinationIsChosen
<1>3. inbox \in Seq(Message) /\ Len(inbox) \in Nat /\ confirmed \in Nat BY PollerTyped DEF PollerGood
<1>4. CASE step = "move"
  <2>1. InBatch /\ batch.next <= batch.last /\ markers["chat"] = Looked.chat /\ Switches(Looked)
    BY <1>4 DEF InBatch, PollerGood, PollerIsSound
  <2>2. /\ batch.next \in 1..Len(inbox) /\ Chosen(inbox[batch.next]) /\ Looked.chat # 0
    BY <2>1, LookedIs DEF PollerGood
  <2>3. Wanted(batch.next) = Target(markers["chat"]) BY <1>3, <2>1, <2>2, WantedNext DEF Looked, Target
  <2>4. Handled(offset) \in Nat /\ Handled(offset) <= confirmed /\ confirmed < batch.next
    BY <2>1, OffsetIs, BatchIs
  <2>5. batch.next \in Handled(offset)..Len(inbox) BY <1>3, <2>2, <2>4
  <2> QED BY <1>1, <2>3, <2>5 DEF Right
<1>5. CASE step # "move"
  <2>1. target = Target(markers["chat"]) BY <1>5 DEF PollerGood, PollerIsSound
  <2>2. n \in Handled(offset)..Len(inbox)
    <3>1. Handled(offset) \in Nat BY OffsetIs
    <3>2. InBatch => Handled(offset) <= confirmed /\ confirmed < batch.next /\ batch.next \in Nat
      BY BatchIs
    <3>3. \/ Done = Handled(offset)
          \/ InBatch /\ Done = batch.next
          \/ InBatch /\ Done = batch.next - 1
      BY DEF Done, InBatch
    <3>4. Done \in Nat /\ Handled(offset) <= Done BY <1>3, <3>1, <3>2, <3>3
    <3> QED BY <1>3, <3>1, <3>4
  <2> QED BY <1>1, <1>2, <2>1, <2>2 DEF Right
<1> QED BY <1>4, <1>5

LEMMA LoadsIs ==
    ASSUME NEW n, NEW m \in Markers
    PROVE  /\ Loads(n)[m] = LastValue(SubSeq(appends, 1, n), "marker", m, OnDisk.markers[m])
           /\ n = 0 => Loads(n)[m] = OnDisk.markers[m]
<1>1. Loads(n)[m] = LastValue(SubSeq(appends, 1, n), "marker", m, OnDisk.markers[m])
  BY DEF Loads, Replay
<1>2. SubSeq(appends, 1, 0) = <<>> BY SubSeqEmpty
<1> QED BY <1>1, <1>2, EmptySays

LEMMA LoadsTyped ==
    ASSUME FilesAreSound, NEW n \in 0..Len(appends), NEW m \in Markers
    PROVE  Loads(n)[m] \in Nat /\ OnDisk.markers[m] \in Nat
<1>1. appends \in Seq(Lines) BY DEF FilesAreSound
<1>2. SubSeq(appends, 1, n) \in Seq(Lines) BY <1>1, PrefixIs
<1>3. OnDisk.markers[m] \in Nat BY OnDiskSound
<1> QED BY <1>2, <1>3, LoadsIs, LastType

(* Telegram is told more, or as much.                                      *)
LEMMA ToldMore ==
    ASSUME PollerGood, FilesAreRight, [TelegramNext]_<<vars, telegramVars>>
    PROVE  /\ inbox \in Seq(Message) /\ (inbox' = inbox \/ Heard)
           /\ confirmed \in Nat /\ confirmed' \in Nat /\ confirmed <= confirmed'
<1>1. inbox' = inbox \/ Heard BY StoreSteps DEF PollerGood
<1>2. inbox \in Seq(Message) /\ confirmed \in Nat BY PollerTyped DEF PollerGood
<1>3. CASE PollOnce
  <2>1. confirmed' = Confirmed /\ offset \in Nat BY <1>3, PollerTyped DEF PollOnce, PollerGood
  <2>2. confirmed' \in Nat /\ confirmed <= confirmed' BY <1>2, <2>1 DEF Confirmed
  <2> QED BY <1>1, <1>2, <2>2
<1>4. CASE ~PollOnce
  <2>1. confirmed' = confirmed
    BY <1>4 DEF TelegramNext, Prepare, HandleUpdate, Move, Reply, ReplyEnds, SaveOffset, Say, Alert, AlertEnds,
       RecordRelay, Check, CheckEnds, Period, Persists, Killed, Restart, telegramVars, pollerVars
  <2> QED BY <1>1, <1>2, <2>1
<1> QED BY <1>3, <1>4

(* The parts of what is right about the files.                             *)
LoadsAreRight == /\ \A n \in 0..Len(appends) : Right(Loads(n))
                 /\ \A m \in {"offset", "chat"} : Loads(Len(appends))[m] = markers[m]

(* A marker is set and queued.                                             *)
LEMMA MarkKeepsRight ==
    ASSUME PollerGood, FilesAreRight, ~doubtful, Alive, Right(markers)',
           inbox' = inbox, confirmed' = confirmed,
           NEW k \in Markers, NEW v \in Nat, SetMarker(k, v)
    PROVE  Right(OnDisk.markers)' /\ LoadsAreRight'
<1> DEFINE line == MarkerLine(k, v)
<1>1. /\ appends \in Seq(Lines) /\ Len(appends) \in Nat /\ markers \in [Markers -> Nat]
      /\ line \in Lines /\ {"offset", "chat"} \subseteq Markers /\ inbox \in Seq(Message) /\ confirmed \in Nat
  <2>1. appends \in Seq(Lines) /\ markers \in [Markers -> Nat] BY DEF PollerGood, FilesAreSound
  <2>2. inbox \in Seq(Message) /\ confirmed \in Nat BY PollerTyped DEF PollerGood
  <2>3. line \in Lines BY MarkerLineIs
  <2> HIDE DEF line
  <2> QED BY <2>1, <2>2, <2>3, LenProperties, ChatsAre
<1>2. /\ appends' = Append(appends, line) /\ markers' = [markers EXCEPT ![k] = v]
      /\ UNCHANGED diskVars /\ OnDisk' = OnDisk
  BY DEF SetMarker, Queue, OnDisk, diskVars
<1>3. Right(OnDisk.markers) /\ LoadsAreRight BY DEF FilesAreRight, LoadsAreRight
<1>4. line.t = "marker" /\ line.k = k /\ line.v = v BY MarkerLineIs
<1> HIDE DEF line
<1>5. /\ appends' \in Seq(Lines) /\ Len(appends') = Len(appends) + 1
      /\ appends' = appends \o <<line>> /\ <<line>> \in Seq(Lines)
  BY <1>1, <1>2, AppendProperties, AppendIsConcat
<1>6. ASSUME NEW load, load["offset"] \in Nat, Right(load) PROVE Right(load)'
  BY <1>1, <1>6, RightStays
<1>7. Right(OnDisk.markers)'
  <2>1. OnDisk.markers["offset"] \in Nat BY <1>1, OnDiskSound DEF PollerGood
  <2>2. PICK load : load = OnDisk.markers /\ load = OnDisk'.markers BY <1>2
  <2>3. Right(load)' BY <1>3, <1>6, <2>1, <2>2
  <2> QED BY <2>2, <2>3 DEF Right, ToldOf, Target, Handled
<1>8. ASSUME NEW n \in 0..Len(appends) PROVE Right(Loads(n))'
  <2>1. SubSeq(appends', 1, n) = SubSeq(appends, 1, n)
    <3>1. CASE n = 0 BY <3>1, SubSeqEmpty
    <3>2. CASE n # 0
      <4>1. 1 \in 1..Len(appends) /\ n \in 1..Len(appends) BY <1>1, <3>2
      <4> QED BY <1>1, <1>5, <4>1, SubSeqOfConcat1
    <3> QED BY <3>1, <3>2
  <2>2. Loads(n)' = Loads(n) BY <1>2, <2>1 DEF Loads
  <2>3. Right(Loads(n)) /\ Loads(n)["offset"] \in Nat
    BY <1>1, <1>3, LoadsTyped DEF LoadsAreRight, PollerGood
  <2>4. PICK load : load = Loads(n) /\ load = Loads(n)' BY <2>2
  <2>5. Right(load)' BY <1>6, <2>3, <2>4
  <2> QED BY <2>4, <2>5 DEF Right, ToldOf, Target, Handled
<1>9. ASSUME NEW m \in {"offset", "chat"} PROVE Loads(Len(appends))[m]' = markers'[m]
  <2>1. SubSeq(appends', 1, Len(appends')) = appends' /\ SubSeq(appends, 1, Len(appends)) = appends
    BY <1>1, <1>5, SubSeqFull
  <2>2. m \in Markers BY <1>1
  <2>3. Loads(Len(appends))[m] = LastValue(appends, "marker", m, OnDisk.markers[m])
    BY <2>1, <2>2, LoadsIs
  <2>4. Loads(Len(appends))[m]' = LastValue(appends', "marker", m, OnDisk.markers[m])
    BY <1>2, <2>1, <2>2 DEF Loads, Replay
  <2>5. LastValue(appends', "marker", m, OnDisk.markers[m]) =
           IF line.t = "marker" /\ line.k = m THEN line.v ELSE LastValue(appends, "marker", m, OnDisk.markers[m])
    BY <1>1, <1>2, LastAppend
  <2>6. Loads(Len(appends))[m] = markers[m] BY <1>3 DEF LoadsAreRight
  <2> QED BY <1>1, <1>2, <1>4, <2>2, <2>3, <2>4, <2>5, <2>6
<1>10. Right(Loads(Len(appends)))'
  <2>1. Right(markers)' OBVIOUS
  <2>2. Loads(Len(appends))["offset"]' = markers'["offset"] /\ Loads(Len(appends))["chat"]' = markers'["chat"]
    BY <1>9
  <2> QED BY <2>1, <2>2 DEF Right, ToldOf, Target, Handled
<1>11. ASSUME NEW n \in 0..Len(appends') PROVE Right(Loads(n))'
  <2>1. n \in 0..Len(appends) \/ n = Len(appends') BY <1>1, <1>5
  <2>2. CASE n = Len(appends')
    <3>1. Loads(n)' = Loads(Len(appends))' BY <2>2 DEF Loads
    <3> QED BY <1>10, <3>1 DEF Right, ToldOf, Target, Handled
  <2> QED BY <1>8, <2>1, <2>2
<1> QED BY <1>7, <1>9, <1>11 DEF LoadsAreRight

(* What is right stays so.                                                 *)
LEMMA RightOnward ==
    ASSUME PollerGood, FilesAreRight, [TelegramNext]_<<vars, telegramVars>>,
           NEW load, load["offset"] \in Nat, Right(load)
    PROVE  Right(load)'
<1>1. inbox \in Seq(Message) BY PollerTyped DEF PollerGood
<1>2. inbox' = inbox \/ Heard BY ToldMore
<1>3. confirmed \in Nat BY ToldMore
<1>4. confirmed' \in Nat BY ToldMore
<1>5. confirmed <= confirmed' BY ToldMore
<1> QED BY <1>1, <1>2, <1>3, <1>4, <1>5, RightStays

(* Markers, queue and files are left alone.                                *)
LEMMA RestKeepsRight ==
    ASSUME PollerGood, FilesAreRight, [TelegramNext]_<<vars, telegramVars>>,
           UNCHANGED <<markers, appends, diskVars>>, Alive' => Alive,
           ~doubtful' => ~doubtful /\ ~forgotten'
    PROVE  FilesAreRight'
<1> SUFFICES ASSUME ~doubtful'
             PROVE  ~forgotten' /\ Right(OnDisk.markers)' /\ (Alive' => LoadsAreRight')
  BY DEF FilesAreRight, LoadsAreRight
<1>1. ~doubtful /\ ~forgotten' OBVIOUS
<1>2. Right(OnDisk.markers) /\ (Alive => LoadsAreRight) BY <1>1 DEF FilesAreRight, LoadsAreRight
<1>3. OnDisk' = OnDisk /\ \A n : Loads(n)' = Loads(n) BY DEF OnDisk, Loads, diskVars
<1>4. ASSUME NEW load, load["offset"] \in Nat, Right(load) PROVE Right(load)' BY <1>4, RightOnward
<1>5. FilesAreSound /\ appends \in Seq(Lines) /\ {"offset", "chat"} \subseteq Markers
  BY ChatsAre DEF PollerGood, FilesAreSound
<1>6. Right(OnDisk.markers)'
  <2>1. OnDisk.markers["offset"] \in Nat BY <1>5, OnDiskSound
  <2>2. PICK load : load = OnDisk.markers /\ load = OnDisk'.markers BY <1>3
  <2>3. Right(load)' BY <1>2, <1>4, <2>1, <2>2
  <2> QED BY <2>2, <2>3 DEF Right, ToldOf, Target, Handled
<1>7. ASSUME Alive, NEW n \in 0..Len(appends) PROVE Right(Loads(n))'
  <2>1. Right(Loads(n)) /\ Loads(n)["offset"] \in Nat BY <1>2, <1>5, <1>7, LoadsTyped DEF LoadsAreRight
  <2>2. PICK load : load = Loads(n) /\ load = Loads(n)' BY <1>3
  <2>3. Right(load)' BY <1>4, <2>1, <2>2
  <2> QED BY <2>2, <2>3 DEF Right, ToldOf, Target, Handled
<1>8. ASSUME Alive PROVE LoadsAreRight'
  <2>1. \A m \in {"offset", "chat"} : Loads(Len(appends))[m]' = markers'[m]
    <3>1. Loads(Len(appends))' = Loads(Len(appends)) BY <1>3 DEF Loads
    <3> QED BY <1>2, <1>8, <3>1 DEF LoadsAreRight
  <2> QED BY <1>7, <1>8, <2>1 DEF LoadsAreRight
<1> QED BY <1>1, <1>6, <1>8

(* The files come into step, or stay as they are, or are doubtful.         *)
LEMMA PersistsKeepsRight ==
    ASSUME PollerGood, FilesAreRight, [TelegramNext]_<<vars, telegramVars>>, Persists,
           ~forgotten' => Right(markers)'
    PROVE  FilesAreRight'
<1>1. UNCHANGED markers /\ forgotten' = forgotten
      /\ doubtful' = IF InStep' THEN forgotten ELSE doubtful \/ <<appends, diskVars>>' # <<appends, diskVars>>
  BY PersistsTypes, PollerTyped DEF PollerGood, Persists
<1>2. Alive
  BY DEF Persists, FlushNow, FlushError, SaveStep, SaveError, Close, CloseSave, Alive
<1>3. CASE ~InStep'
  <2>1. ~doubtful' => ~doubtful /\ UNCHANGED <<appends, diskVars>> BY <1>1, <1>3
  <2>2. ~doubtful' => ~forgotten' BY <1>1, <2>1 DEF FilesAreRight
  <2>3. CASE doubtful' BY <2>3 DEF FilesAreRight
  <2>4. CASE ~doubtful' BY <1>1, <1>2, <2>1, <2>2, <2>4, RestKeepsRight
  <2> QED BY <2>3, <2>4
<1>4. CASE InStep'
  <2> SUFFICES ASSUME ~doubtful'
               PROVE  ~forgotten' /\ Right(OnDisk.markers)' /\ LoadsAreRight'
    BY DEF FilesAreRight, LoadsAreRight
  <2>1. ~forgotten' /\ Right(markers)' BY <1>1, <1>4
  <2>2. appends' = <<>> /\ \A m \in {"offset", "chat"} : OnDisk'.markers[m] = markers'[m]
    BY <1>4 DEF InStep
  <2>3. Right(OnDisk.markers)'
    <3>1. PICK a, b : a = markers' /\ b = OnDisk'.markers OBVIOUS
    <3>2. Right(a)' BY <2>1, <3>1 DEF Right, ToldOf, Target, Handled
    <3>3. a["offset"] = b["offset"] /\ a["chat"] = b["chat"] BY <2>2, <3>1
    <3>4. Right(b)' BY <3>2, <3>3 DEF Right, ToldOf, Target, Handled
    <3> QED BY <3>1, <3>4 DEF Right, ToldOf, Target, Handled
  <2>4. Len(appends') = 0 /\ {"offset", "chat"} \subseteq Markers BY <2>2, EmptySeq, ChatsAre
  <2>5. ASSUME NEW m \in Markers PROVE Loads(0)[m]' = OnDisk'.markers[m]
    <3>1. SubSeq(appends', 1, 0) = <<>> BY SubSeqEmpty
    <3>2. Loads(0)[m]' = LastValue(<<>>, "marker", m, OnDisk'.markers[m]) BY <3>1 DEF Loads, Replay
    <3> QED BY <3>2, EmptySays
  <2>6. Right(Loads(0))'
    <3>1. PICK a, b : a = OnDisk'.markers /\ b = Loads(0)' OBVIOUS
    <3>2. Right(a)' BY <2>3, <3>1 DEF Right, ToldOf, Target, Handled
    <3>3. a["offset"] = b["offset"] /\ a["chat"] = b["chat"] BY <2>4, <2>5, <3>1
    <3>4. Right(b)' BY <3>2, <3>3 DEF Right, ToldOf, Target, Handled
    <3> QED BY <3>1, <3>4 DEF Right, ToldOf, Target, Handled
  <2>7. ASSUME NEW n \in 0..Len(appends') PROVE Right(Loads(n))'
    <3>1. n = 0 BY <2>4
    <3>2. Loads(n)' = Loads(0)' BY <3>1
    <3> QED BY <2>6, <3>2 DEF Right, ToldOf, Target, Handled
  <2>8. ASSUME NEW m \in {"offset", "chat"} PROVE Loads(Len(appends))[m]' = markers'[m]
    <3>1. Loads(Len(appends))' = Loads(0)' BY <2>4 DEF Loads
    <3> QED BY <2>2, <2>4, <2>5, <3>1
  <2> QED BY <2>1, <2>3, <2>7, <2>8 DEF LoadsAreRight
<1> QED BY <1>3, <1>4

(* A kill leaves a part of the queue in the log.                           *)
LEMMA KillKeepsRight ==
    ASSUME PollerGood, FilesAreRight, Killed
    PROVE  FilesAreRight'
<1> SUFFICES ASSUME ~doubtful
             PROVE  ~forgotten /\ Right(OnDisk.markers)'
  <2>1. ~Alive' /\ UNCHANGED <<doubtful, forgotten>>
    BY DEF Killed, Kill, Alive, telegramVars, pollerVars
  <2> QED BY <2>1 DEF FilesAreRight
<1>1. ~forgotten /\ Right(OnDisk.markers) /\ LoadsAreRight
  BY DEF FilesAreRight, LoadsAreRight, Killed, Kill
<1>2. /\ appends \in Seq(Lines) /\ logFile \in Seq(Lines) /\ FilesAreSound
      /\ {"offset", "chat"} \subseteq Markers
  BY ChatsAre DEF PollerGood, FilesAreSound
<1>3. UNCHANGED <<inbox, confirmed, snapshot>> BY DEF Killed, Kill, telegramVars, pollerVars
<1>4. \A n : Wanted(n)' = Wanted(n) BY <1>3 DEF Wanted, Chosen
<1>5. ASSUME NEW load, Right(load) PROVE Right(load)'
  <2>1. \/ ToldOf(load["offset"])
        \/ \E n \in Handled(load["offset"])..Len(inbox) : Target(load["chat"]) = Wanted(n)'
    BY <1>4, <1>5 DEF Right
  <2> QED BY <1>3, <2>1 DEF Right, ToldOf, Target, Handled
<1>6. CASE UNCHANGED logFile
  <2>1. OnDisk' = OnDisk BY <1>3, <1>6 DEF OnDisk
  <2>2. PICK load : load = OnDisk.markers /\ load = OnDisk'.markers BY <2>1
  <2>3. Right(load)' BY <1>1, <1>5, <2>2
  <2> QED BY <1>1, <2>2, <2>3 DEF Right, ToldOf, Target, Handled
<1>7. CASE \E part \in PartOf(appends) : logFile' = Appended(logFile, part)
  <2>1. PICK part \in PartOf(appends) : logFile' = logFile \o part BY <1>7 DEF Appended
  <2>2. part \in Seq(Lines) BY <1>2, <2>1, SoundPart DEF FilesAreSound
  <2>3. PICK n \in 0..Len(appends) :
           \A k, old : LastValue(part, "marker", k, old) = LastValue(SubSeq(appends, 1, n), "marker", k, old)
    BY <1>2, <2>1, PartSays
  <2>4. ASSUME NEW m \in Markers PROVE OnDisk'.markers[m] = Loads(n)[m]
    <3>1. OnDisk'.markers[m] = LastValue(logFile \o part, "marker", m, snapshot.markers[m])
      BY <1>3, <2>1 DEF OnDisk, Replay
    <3>2. OnDisk.markers[m] = LastValue(logFile, "marker", m, snapshot.markers[m]) BY DEF OnDisk, Replay
    <3>3. OnDisk'.markers[m] = LastValue(part, "marker", m, OnDisk.markers[m])
      BY <1>2, <2>2, <3>1, <3>2, LastConcat
    <3> QED BY <2>3, <3>3, LoadsIs
  <2>5. PICK a, b : a = Loads(n) /\ b = OnDisk'.markers OBVIOUS
  <2>6. Right(a) BY <1>1, <2>5 DEF LoadsAreRight
  <2>7. a["offset"] = b["offset"] /\ a["chat"] = b["chat"] BY <1>2, <2>4, <2>5
  <2>8. Right(b) BY <2>6, <2>7, RightSame
  <2>9. Right(b)' BY <1>5, <2>8
  <2> QED BY <1>1, <2>5, <2>9 DEF Right, ToldOf, Target, Handled
<1> QED BY <1>7, <1>6 DEF Killed, Kill

(* A start loads the files; they are no worse for that.                    *)
LEMMA StartKeepsRight ==
    ASSUME PollerGood, FilesAreRight, [TelegramNext]_<<vars, telegramVars>>, Restart
    PROVE  FilesAreRight'
<1> SUFFICES ASSUME ~doubtful'
             PROVE  ~forgotten' /\ Right(OnDisk.markers)' /\ LoadsAreRight'
  BY DEF FilesAreRight, LoadsAreRight
<1>1. /\ doubtful' = forgotten' /\ markers' = OnDisk.markers /\ appends' = <<>> /\ UNCHANGED diskVars
      /\ forgotten' = (doubtful \/ (markers'["offset"] <= confirmed /\ confirmed # 0))
  BY DEF Restart, Start, Load
<1>2. doubtful \in BOOLEAN /\ OnDisk' = OnDisk BY <1>1, PollerTyped DEF PollerGood, OnDisk, diskVars
<1>3. ~doubtful /\ ~forgotten' BY <1>1, <1>2
<1>4. FilesAreSound /\ {"offset", "chat"} \subseteq Markers BY ChatsAre DEF PollerGood
<1>5. Right(OnDisk.markers) /\ OnDisk.markers["offset"] \in Nat BY <1>3, <1>4, OnDiskSound DEF FilesAreRight
<1>6. PICK a, b : a = OnDisk'.markers /\ a = OnDisk.markers /\ b = Loads(0)' BY <1>2
<1>7. Right(a)' BY <1>5, <1>6, RightOnward
<1>8. ASSUME NEW m \in Markers PROVE Loads(0)[m]' = OnDisk'.markers[m]
  <2>1. SubSeq(appends', 1, 0) = <<>> BY SubSeqEmpty
  <2>2. Loads(0)[m]' = LastValue(<<>>, "marker", m, OnDisk'.markers[m]) BY <2>1 DEF Loads, Replay
  <2> QED BY <2>2, EmptySays
<1>9. a["offset"] = b["offset"] /\ a["chat"] = b["chat"] BY <1>4, <1>6, <1>8
<1>10. Right(b)' BY <1>7, <1>9 DEF Right, ToldOf, Target, Handled
<1>11. Len(appends') = 0 BY <1>1, EmptySeq
<1>12. ASSUME NEW n \in 0..Len(appends') PROVE Right(Loads(n))'
  <2>1. n = 0 BY <1>11
  <2>2. Loads(n)' = b BY <1>6, <2>1
  <2> QED BY <1>10, <2>2 DEF Right, ToldOf, Target, Handled
<1>13. ASSUME NEW m \in {"offset", "chat"} PROVE Loads(Len(appends))[m]' = markers'[m]
  <2>1. Loads(Len(appends))' = Loads(0)' BY <1>11 DEF Loads
  <2> QED BY <1>1, <1>2, <1>4, <1>8, <2>1
<1>14. LoadsAreRight' BY <1>12, <1>13 DEF LoadsAreRight
<1>15. Right(OnDisk.markers)' BY <1>6, <1>7 DEF Right, ToldOf, Target, Handled
<1> QED BY <1>3, <1>14, <1>15

(* The files, whoever steps.                                               *)
LEMMA FilesKeepRight ==
    ASSUME PollerGood, FilesAreRight, [TelegramNext]_<<vars, telegramVars>>,
           ~forgotten' => Right(markers)'
    PROVE  FilesAreRight'
<1>1. doubtful \in BOOLEAN /\ forgotten \in BOOLEAN BY PollerTyped DEF PollerGood
<1>2. ~doubtful => ~forgotten BY DEF FilesAreRight
<1>3. ASSUME NEW k \in Markers, NEW v \in Nat, SetMarker(k, v), Alive, Alive' = Alive,
             UNCHANGED <<inbox, confirmed, forgotten, doubtful>>
      PROVE  FilesAreRight'
  <2> SUFFICES ASSUME ~doubtful PROVE ~forgotten' /\ Right(OnDisk.markers)' /\ LoadsAreRight'
    BY <1>3 DEF FilesAreRight, LoadsAreRight
  <2>1. ~forgotten' BY <1>2, <1>3
  <2> QED BY <1>3, <2>1, MarkKeepsRight
<1>4. UNCHANGED proc => Alive' = Alive BY DEF Alive
<1>5. UNCHANGED relayVars => UNCHANGED proc BY DEF relayVars
<1>6. CASE HandleUpdate
  <2>1. UNCHANGED <<inbox, confirmed, forgotten, doubtful>> /\ Alive /\ Alive' = Alive
    BY <1>4, <1>5, <1>6 DEF HandleUpdate
  <2>2. CASE SetMarker("chat", Looked.chat) /\ Switches(Looked)
    <3>1. step = "batch" /\ batch.next <= batch.last BY <1>6 DEF HandleUpdate
    <3>2. Looked.chat \in Nat BY <3>1, LookedIs DEF PollerGood, InBatch
    <3>3. "chat" \in Markers BY ChatsAre
    <3> QED BY <1>3, <2>1, <2>2, <3>2, <3>3
  <2>3. CASE UNCHANGED seenVars
    <3>1. UNCHANGED <<markers, appends, diskVars>> BY <2>3 DEF seenVars, memoryVars
    <3> QED BY <1>2, <2>1, <3>1, RestKeepsRight
  <2> QED BY <1>6, <2>2, <2>3 DEF HandleUpdate
<1>7. CASE SaveOffset
  <2>1. UNCHANGED <<inbox, confirmed, forgotten, doubtful>> /\ Alive /\ Alive' = Alive
    BY <1>4, <1>5, <1>7 DEF SaveOffset
  <2>2. SetMarker("offset", batch.last + 1) BY <1>7 DEF SaveOffset
  <2>3. "offset" \in Markers /\ batch.last + 1 \in Nat BY ChatsAre, PollerTyped DEF PollerGood
  <2> QED BY <1>3, <2>1, <2>2, <2>3
<1>8. CASE RecordRelay
  <2>1. UNCHANGED <<inbox, confirmed, forgotten, doubtful>> /\ Alive /\ Alive' = Alive
    BY <1>4, <1>5, <1>8 DEF RecordRelay, pollerVars
  <2>2. SetMarker("relay", now) BY <1>8 DEF RecordRelay
  <2>3. "relay" \in Markers /\ now \in Nat BY ChatsAre DEF PollerGood, FilesAreSound
  <2> QED BY <1>3, <2>1, <2>2, <2>3
<1>9. CASE \/ Prepare \/ PollOnce \/ Reply \/ ReplyEnds \/ Alert \/ AlertEnds \/ Check \/ CheckEnds
           \/ Period \/ UNCHANGED <<vars, telegramVars>> \/ \E m \in Message : Say(m)
  <2>1. UNCHANGED <<forgotten, doubtful>>
    BY <1>9 DEF Prepare, PollOnce, Reply, ReplyEnds, Alert, AlertEnds, Check, CheckEnds, Period, Say,
       telegramVars, pollerVars
  <2>2. UNCHANGED <<markers, appends, diskVars>>
    BY <1>9 DEF Prepare, PollOnce, Reply, ReplyEnds, Alert, AlertEnds, Check, CheckEnds, Period, Say, vars,
       storeQuiet, seenVars, memoryVars
  <2>3. UNCHANGED proc
    BY <1>9 DEF Prepare, PollOnce, Reply, ReplyEnds, Alert, AlertEnds, Check, CheckEnds, Period, Say, vars,
       storeQuiet, relayVars
  <2> QED BY <1>2, <1>4, <2>1, <2>2, <2>3, RestKeepsRight
<1>10. CASE Move
  <2>1. UNCHANGED <<markers, appends, diskVars>> /\ UNCHANGED doubtful /\ ~forgotten' /\ Alive' = Alive
    BY <1>4, <1>5, <1>10 DEF Move, seenVars, memoryVars
  <2> QED BY <2>1, RestKeepsRight
<1> QED BY <1>6, <1>7, <1>8, <1>9, <1>10, PersistsKeepsRight, KillKeepsRight, StartKeepsRight DEF TelegramNext

-----------------------------------------------------------------------------
(* The watchdog                                                            *)

WatchdogTypes == /\ lastRelay \in Nat /\ since \in Nat /\ about \in Nat /\ reported \subseteq Nat
                 /\ warned \in BOOLEAN /\ checked \in BOOLEAN
WatchdogGood  == /\ WatchdogTypes /\ SilenceIsKnown /\ SendTypes
                 /\ now \in Nat \ {0} /\ target \in Chats
WatchdogKept  == WatchdogTypes' /\ SilenceIsKnown'

LEMMA SilenceIs ==
    ASSUME WatchdogGood
    PROVE  /\ lastRelay \in Nat /\ since \in Nat /\ about \in Nat /\ SilentSince \in Nat
           /\ now \in Nat /\ now # 0 /\ STALE_AFTER \in Nat /\ STALE_AFTER >= 2
           /\ \A r \in reported : r \in Nat
           /\ Stale <=> SilentSince + STALE_AFTER <= now
<1>1. lastRelay \in Nat /\ since \in Nat /\ about \in Nat /\ \A r \in reported : r \in Nat
  BY DEF WatchdogGood, WatchdogTypes
<1>2. SilentSince \in Nat BY <1>1 DEF SilentSince
<1>3. now \in Nat /\ now # 0 /\ STALE_AFTER \in Nat /\ STALE_AFTER >= 2 BY ChatsAre DEF WatchdogGood
<1> HIDE DEF SilentSince
<1>4. Stale <=> SilentSince + STALE_AFTER <= now BY <1>2, <1>3 DEF Stale
<1> QED BY <1>1, <1>2, <1>3, <1>4

(* The watchdog is not concerned.                                          *)
LEMMA WatchdogRests ==
    ASSUME WatchdogGood, UNCHANGED watchdogVars, now' = now, Alive' => Alive,
           posting'["watchdog"] # 0 => posting["watchdog"] # 0
    PROVE  WatchdogKept
<1>1. WatchdogTypes' BY DEF WatchdogGood, WatchdogTypes, watchdogVars
<1>2. SilentSince' = SilentSince BY DEF SilentSince, watchdogVars
<1>3. SilenceIsKnown' BY <1>2 DEF WatchdogGood, SilenceIsKnown, watchdogVars
<1> QED BY <1>1, <1>3 DEF WatchdogKept

LEMMA RelayIsHeard == ASSUME WatchdogGood, RecordRelay PROVE WatchdogKept
<1>1. /\ lastRelay' = now /\ now' = now /\ Alive /\ UNCHANGED posting
      /\ UNCHANGED <<since, warned, checked, about, reported>>
  BY DEF RecordRelay, SetMarker, sendVars
<1>2. WatchdogTypes' BY <1>1 DEF WatchdogGood, WatchdogTypes
<1>3. SilentSince' = now BY <1>1, SilenceIs DEF SilentSince
<1>4. \A r \in reported : r \in Nat /\ r + STALE_AFTER <= now BY <1>1, SilenceIs DEF WatchdogGood, SilenceIsKnown
<1>5. now \notin reported BY <1>4, SilenceIs
<1>6. posting["watchdog"] # 0 => ~warned /\ about \notin reported /\ about + STALE_AFTER <= now
  BY <1>1 DEF WatchdogGood, SilenceIsKnown
<1>7. SilenceIsKnown' BY <1>1, <1>3, <1>4, <1>5, <1>6 DEF SilenceIsKnown
<1> QED BY <1>2, <1>7 DEF WatchdogKept

LEMMA CheckKeeps == ASSUME WatchdogGood, Check PROVE WatchdogKept
<1>1. /\ Alive /\ now' = now /\ checked' = TRUE /\ UNCHANGED <<lastRelay, since, reported>>
  BY DEF Check, seenVars
<1>2. SilentSince' = SilentSince BY <1>1 DEF SilentSince
<1>3. /\ \A r \in reported : r \in Nat /\ r + STALE_AFTER <= now
      /\ SilentSince \in reported => warned
      /\ warned => SilentSince \in reported \/ SilentSince = now \/ SilentSince = now - 1
      /\ posting["watchdog"] # 0 =>
            /\ ~warned /\ about \notin reported /\ about + STALE_AFTER <= now
            /\ about = SilentSince \/ SilentSince = now
  BY <1>1, SilenceIs DEF WatchdogGood, SilenceIsKnown
<1>4. SilentSince \in Nat /\ about \in Nat /\ warned \in BOOLEAN BY SilenceIs DEF WatchdogGood, WatchdogTypes
<1>5. CASE ~Stale /\ warned' = Rearmed /\ UNCHANGED <<limits, posting, about>>
  <2>1. WatchdogTypes' BY <1>1, <1>5 DEF WatchdogGood, WatchdogTypes, Rearmed
  <2>2. SilentSince \notin reported BY <1>3, <1>5, SilenceIs
  <2>3. warned' = FALSE BY <1>5 DEF Rearmed
  <2>4. SilenceIsKnown' BY <1>1, <1>2, <1>3, <1>5, <2>2, <2>3 DEF SilenceIsKnown
  <2> QED BY <2>1, <2>4 DEF WatchdogKept
<1>6. CASE Stale /\ warned /\ UNCHANGED <<warned, limits, posting, about>>
  <2>1. WatchdogTypes' BY <1>1, <1>6 DEF WatchdogGood, WatchdogTypes
  <2>2. SilentSince \in reported
    <3>1. SilentSince # now /\ SilentSince # now - 1 BY <1>4, <1>6, SilenceIs
    <3> QED BY <1>3, <1>6, <3>1
  <2>3. SilenceIsKnown' BY <1>1, <1>2, <1>3, <1>6, <2>2 DEF SilenceIsKnown
  <2> QED BY <2>1, <2>3 DEF WatchdogKept
<1>7. CASE Stale /\ ~warned /\ UNCHANGED warned /\ Post("watchdog", target) /\ about' = SilentSince
  <2>1. WatchdogTypes' BY <1>1, <1>4, <1>7 DEF WatchdogGood, WatchdogTypes
  <2>2. about' \notin reported /\ about' + STALE_AFTER <= now
    <3>1. SilentSince \notin reported BY <1>3, <1>7
    <3>2. SilentSince + STALE_AFTER <= now BY <1>7, SilenceIs
    <3> QED BY <1>7, <3>1, <3>2
  <2>3. SilenceIsKnown' BY <1>1, <1>2, <1>3, <1>7, <2>2 DEF SilenceIsKnown
  <2> QED BY <2>1, <2>3 DEF WatchdogKept
<1>8. CASE Stale /\ ~warned /\ UNCHANGED warned /\ Held(target) /\ UNCHANGED about
  <2>1. WatchdogTypes' BY <1>1, <1>8 DEF WatchdogGood, WatchdogTypes
  <2>2. UNCHANGED posting BY <1>8 DEF Held
  <2>3. SilenceIsKnown' BY <1>1, <1>2, <1>3, <1>8, <2>2 DEF SilenceIsKnown
  <2> QED BY <2>1, <2>3 DEF WatchdogKept
<1> QED BY <1>5, <1>6, <1>7, <1>8 DEF Check

LEMMA WarningKeeps == ASSUME WatchdogGood, CheckEnds PROVE WatchdogKept
<1>1. /\ Alive /\ now' = now /\ about' = 0 /\ UNCHANGED <<lastRelay, since, checked>>
  BY DEF CheckEnds, storeQuiet, seenVars
<1>2. PICK ok \in BOOLEAN :
        /\ Outcome("watchdog", ok) /\ warned' = ok
        /\ reported' = IF ok THEN reported \union {about} ELSE reported
  BY DEF CheckEnds
<1>3. posting["watchdog"] # 0 /\ posting'["watchdog"] = 0
  <2>1. "watchdog" \in Senders /\ SendTypes /\ now \in Nat BY DEF Senders, WatchdogGood
  <2> QED BY <1>1, <1>2, <2>1, EndKeeps
<1>4. SilentSince' = SilentSince BY <1>1 DEF SilentSince
<1>5. /\ \A r \in reported : r + STALE_AFTER <= now
      /\ SilentSince \in reported => warned
      /\ ~warned /\ about \notin reported /\ about + STALE_AFTER <= now
      /\ about = SilentSince \/ SilentSince = now
  BY <1>1, <1>3 DEF WatchdogGood, SilenceIsKnown
<1>6. WatchdogTypes' BY <1>1, <1>2 DEF WatchdogGood, WatchdogTypes
<1>7. CASE ok
  <2>1. warned' = TRUE /\ reported' = reported \union {about} BY <1>2, <1>7
  <2>2. SilenceIsKnown' BY <1>1, <1>3, <1>4, <1>5, <2>1 DEF SilenceIsKnown
  <2> QED BY <1>6, <2>2 DEF WatchdogKept
<1>8. CASE ~ok
  <2>1. warned' = FALSE /\ reported' = reported BY <1>2, <1>8
  <2>2. SilenceIsKnown' BY <1>1, <1>3, <1>4, <1>5, <2>1 DEF SilenceIsKnown
  <2> QED BY <1>6, <2>2 DEF WatchdogKept
<1> QED BY <1>7, <1>8

LEMMA PeriodKeeps == ASSUME WatchdogGood, Period PROVE WatchdogKept
<1>1. /\ now' = now + 1 /\ checked' = FALSE /\ (Alive' <=> Alive) /\ UNCHANGED posting
      /\ (Alive => checked /\ posting["watchdog"] = 0)
      /\ UNCHANGED <<lastRelay, since, warned, about, reported>>
  BY DEF Period, NoPost, Senders, Alive, relayVars, sendVars
<1>2. SilentSince' = SilentSince BY <1>1 DEF SilentSince
<1>3. WatchdogTypes' BY <1>1 DEF WatchdogGood, WatchdogTypes
<1>4. PICK d : d = now + 1 OBVIOUS
<1>5. ASSUME Alive
      PROVE  /\ \A r \in reported : r + STALE_AFTER <= d
             /\ SilentSince \in reported => warned
             /\ warned => SilentSince \in reported \/ SilentSince = d - 1
  <2>1. /\ \A r \in reported : r \in Nat /\ r + STALE_AFTER <= now
        /\ SilentSince \in reported => warned
        /\ warned => SilentSince \in reported \/ SilentSince = now
    BY <1>1, <1>5, SilenceIs DEF WatchdogGood, SilenceIsKnown
  <2>2. d - 1 = now BY <1>4, SilenceIs
  <2>3. \A r \in reported : r + STALE_AFTER <= d BY <1>4, <2>1, SilenceIs
  <2> QED BY <2>1, <2>2, <2>3
<1>6. now' = d /\ checked' = FALSE /\ posting'["watchdog"] = posting["watchdog"]
      /\ reported' = reported /\ warned' = warned /\ (Alive' => Alive /\ posting["watchdog"] = 0)
      /\ (posting["watchdog"] # 0 => about' \notin reported)
  BY <1>1, <1>4 DEF WatchdogGood, SilenceIsKnown
<1>7. SilenceIsKnown' BY <1>2, <1>5, <1>6 DEF SilenceIsKnown
<1> QED BY <1>3, <1>7 DEF WatchdogKept

LEMMA WatchdogStarts == ASSUME WatchdogGood, Restart, markers' \in [Markers -> Nat] PROVE WatchdogKept
<1>1. /\ lastRelay' = markers'["relay"] /\ since' = now /\ posting' = [s \in Senders |-> 0]
      /\ warned' = FALSE /\ checked' = FALSE /\ about' = 0 /\ reported' = {}
  BY DEF Restart
<1>2. posting'["watchdog"] = 0 BY <1>1 DEF Senders
<1>3. WatchdogTypes' BY <1>1, ChatsAre DEF WatchdogGood, WatchdogTypes
<1>4. SilenceIsKnown' BY <1>1, <1>2 DEF SilenceIsKnown
<1> QED BY <1>3, <1>4 DEF WatchdogKept

(* The watchdog, whoever steps.                                            *)
LEMMA WatchdogKeeps ==
    ASSUME WatchdogGood, TelegramTypes, markers' \in [Markers -> Nat], [TelegramNext]_<<vars, telegramVars>>
    PROVE  WatchdogKept
<1>1. SendTypes /\ now \in Nat /\ Senders = {"poller", "request", "watchdog"} /\ target \in Chats
  BY DEF WatchdogGood, Senders
<1>2. UNCHANGED proc => Alive' = Alive BY DEF Alive
<1>3. CASE Prepare \/ PollOnce \/ HandleUpdate \/ Move \/ SaveOffset \/ (\E m \in Message : Say(m))
           \/ UNCHANGED <<vars, telegramVars>>
  <2>1. UNCHANGED watchdogVars /\ UNCHANGED posting
    BY <1>3 DEF Prepare, PollOnce, HandleUpdate, Move, SaveOffset, Say, sendVars, telegramVars
  <2>2. UNCHANGED proc
    BY <1>3 DEF Prepare, PollOnce, HandleUpdate, Move, SaveOffset, Say, storeQuiet, relayVars, vars
  <2>3. now' = now
    BY <1>3 DEF Prepare, PollOnce, HandleUpdate, Move, SaveOffset, Say, storeQuiet, seenVars, SetMarker, vars
  <2> QED BY <1>2, <2>1, <2>2, <2>3, WatchdogRests
<1>4. CASE Reply \/ Alert
  <2>1. PICK s \in {"poller", "request"} :
           \/ UNCHANGED posting
           \/ \E c : posting' = [posting EXCEPT ![s] = c]
    BY <1>4 DEF Reply, Alert, Post, Held
  <2>2. posting'["watchdog"] = posting["watchdog"]
    <3>1. posting \in [Senders -> Chats \union {0}] BY <1>1 DEF SendTypes
    <3> QED BY <1>1, <2>1, <3>1
  <2>3. UNCHANGED watchdogVars /\ UNCHANGED proc /\ now' = now
    BY <1>4 DEF Reply, Alert, seenVars, relayVars
  <2> QED BY <1>2, <2>2, <2>3, WatchdogRests
<1>5. CASE ReplyEnds \/ AlertEnds
  <2>1. UNCHANGED watchdogVars /\ UNCHANGED proc /\ now' = now
    BY <1>5 DEF ReplyEnds, AlertEnds, storeQuiet, seenVars
  <2>2. PICK s \in {"poller", "request"}, ok \in BOOLEAN : Outcome(s, ok) BY <1>5 DEF ReplyEnds, AlertEnds
  <2>3. \A x \in Senders \ {s} : posting'[x] = posting[x] BY <1>1, <2>1, <2>2, EndKeeps
  <2> QED BY <1>1, <1>2, <2>1, <2>2, <2>3, WatchdogRests
<1>6. CASE Persists \/ Killed
  <2>1. UNCHANGED watchdogVars /\ UNCHANGED posting
    BY <1>6 DEF Persists, Killed, telegramVars, sendVars
  <2>2. now' = now /\ Alive
    BY <1>6 DEF Persists, Killed, FlushNow, Flush, FlushError, FlushFails, SaveStep, ReplaceSnapshot,
       UnlinkLog, SaveError, ReplaceFails, UnlinkFails, Close, CloseSave, Kill, seenVars, Alive
  <2> QED BY <2>1, <2>2, WatchdogRests
<1> QED BY <1>3, <1>4, <1>5, <1>6, RelayIsHeard, CheckKeeps, WarningKeeps, PeriodKeeps, WatchdogStarts
    DEF TelegramNext

-----------------------------------------------------------------------------
(* The theorems                                                            *)

MemoryGood == ~forgotten => Right(markers)

(* Everything but what a start would load.                                 *)
LEMMA TelegramSteps ==
    ASSUME PollerInvariant, [TelegramNext]_<<vars, telegramVars>>
    PROVE  /\ TelegramTypes' /\ FilesAreSound' /\ PollerIsSound' /\ DestinationIsChosen'
           /\ WaitsAreKnown' /\ SilenceIsKnown'
<1>1. PollerGood /\ FilesAreRight /\ WaitsAreKnown /\ SilenceIsKnown /\ TelegramTypes /\ PollerIsSound
      /\ FilesAreSound
  BY DEF PollerInvariant, PollerGood
<1>2. inbox \in Seq(Message) /\ now \in Nat \ {0} /\ target \in Chats
  BY <1>1, PollerTyped DEF FilesAreSound
<1>3. FilesAreSound' BY <1>1, <1>2, StoreSteps, FilesKeep
<1>4. PollerKept BY <1>1, PollerKeeps
<1>5. SendTypes' /\ WaitsAreKnown' BY <1>1, <1>2, WaitsKeep
<1>6. WatchdogKept
  <2>1. SendTypes /\ WatchdogTypes BY <1>1 DEF TelegramTypes, SendTypes, WatchdogTypes
  <2>2. markers' \in [Markers -> Nat] BY <1>3 DEF FilesAreSound
  <2> QED BY <1>1, <1>2, <2>1, <2>2, WatchdogKeeps DEF WatchdogGood
<1>7. TelegramTypes'
  BY <1>4, <1>5, <1>6 DEF PollerKept, WatchdogKept, PollerTypes, SendTypes, WatchdogTypes, TelegramTypes
<1> QED BY <1>3, <1>4, <1>5, <1>6, <1>7 DEF PollerKept, WatchdogKept

(* A first start.                                                          *)
LEMMA TelegramStarts == ASSUME RelayInit, TelegramInit PROVE PollerInvariant
<1>1. /\ inbox = <<>> /\ confirmed = 0 /\ step = "prepare" /\ batch = NoBatch /\ replies = <<>>
      /\ offset = 0 /\ target = Owner /\ forgotten = FALSE /\ doubtful = FALSE
      /\ limits = [c \in Chats |-> 0] /\ told = [c \in Chats |-> 0]
      /\ posting = [s \in Senders |-> 0]
      /\ lastRelay = 0 /\ since = 1 /\ warned = FALSE /\ checked = FALSE /\ about = 0 /\ reported = {}
  BY DEF TelegramInit
<1>2. /\ now = 1 /\ markers = [m \in Markers |-> 0] /\ appends = <<>> /\ logFile = <<>>
      /\ snapshot.markers = [m \in Markers |-> 0]
  BY DEF RelayInit, SeenInit, Nothing
<1>3. /\ Owner \in Chats /\ {"offset", "chat"} \subseteq Markers
      /\ <<>> \in Seq(Message) /\ <<>> \in Seq(Chats) /\ <<>> \in Seq(Lines)
      /\ Len(inbox) = 0 /\ Len(appends) = 0
  BY <1>1, <1>2, ChatsAre, EmptySeq
<1>4. TelegramTypes
  <2>1. PollerTypes
    <3>1. confirmed \in 0..Len(inbox) BY <1>1, <1>3
    <3>2. NoBatch \in [next : Nat, last : Nat] BY DEF NoBatch
    <3>3. inbox \in Seq(Message) /\ replies \in Seq(Chats) BY <1>1, <1>3
    <3> QED BY <1>1, <1>3, <3>1, <3>2, <3>3 DEF PollerTypes
  <2>2. SendTypes BY <1>1 DEF SendTypes
  <2>3. WatchdogTypes BY <1>1 DEF WatchdogTypes
  <2> QED BY <2>1, <2>2, <2>3 DEF PollerTypes, SendTypes, WatchdogTypes, TelegramTypes
<1>5. \A m : Sound(m, 0) BY <1>3 DEF Sound, Handled
<1>6. SoundLines(<<>>)
  <2>1. DOMAIN <<>> = {} BY EmptySeq
  <2> QED BY <2>1 DEF SoundLines
<1>7. FilesAreSound BY <1>2, <1>3, <1>5, <1>6 DEF FilesAreSound
<1>8. ~InBatch /\ Done = 0 /\ Handled(offset) = 0 BY <1>1 DEF InBatch, Done, Handled
<1>9. PollerIsSound
  <2>1. posting["poller"] = 0 /\ Asked(target) BY <1>1 DEF Senders, Asked
  <2> QED BY <1>1, <1>2, <1>3, <1>8, <2>1 DEF PollerIsSound, Target
<1>10. Wanted(0) = Owner
  <2>1. {k \in 1..0 : Chosen(inbox[k])} = {} OBVIOUS
  <2> QED BY <2>1 DEF Wanted
<1>11. DestinationIsChosen
  <2>1. 0 \in 0..Len(inbox) BY <1>3
  <2> QED BY <1>1, <1>8, <1>10, <2>1 DEF DestinationIsChosen
<1>12. FilesAreRight
  <2>1. OnDisk.markers = [m \in Markers |-> 0]
    <3>1. OnDisk.markers = [m \in Markers |-> LastValue(logFile, "marker", m, snapshot.markers[m])]
      BY DEF OnDisk, Replay
    <3>2. \A m \in Markers : LastValue(logFile, "marker", m, snapshot.markers[m]) = 0
      BY <1>2, EmptySays
    <3> QED BY <3>1, <3>2
  <2>2. \A m \in Markers : Loads(0)[m] = 0 BY <2>1, LoadsIs
  <2>3. ASSUME NEW load, load["offset"] = 0, load["chat"] = 0 PROVE Right(load)
    <3>1. Handled(load["offset"]) = 0 /\ Target(load["chat"]) = Wanted(0)
      BY <1>10, <2>3 DEF Handled, Target
    <3>2. 0 \in 0..Len(inbox) BY <1>3
    <3> QED BY <3>1, <3>2 DEF Right
  <2>4. Right(OnDisk.markers) BY <1>3, <2>1, <2>3
  <2>5. Right(Loads(0)) BY <1>3, <2>2, <2>3
  <2>6. \A n \in 0..Len(appends) : n = 0 BY <1>3
  <2> QED BY <1>1, <1>2, <1>3, <2>2, <2>4, <2>5, <2>6 DEF FilesAreRight
<1>13. WaitsAreKnown BY <1>1, <1>2 DEF WaitsAreKnown
<1>14. SilenceIsKnown
  <2>1. posting["watchdog"] = 0 BY <1>1 DEF Senders
  <2> QED BY <1>1, <2>1 DEF SilenceIsKnown
<1> QED BY <1>4, <1>7, <1>9, <1>11, <1>12, <1>13, <1>14 DEF PollerInvariant

(* The relation of the poller, its markers in memory, queue and files, the *)
(* waits and the watchdog, whatever Telegram answers, whichever writes     *)
(* fail or tear and wherever the process dies.                             *)
THEOREM PollerInvariantHolds == TelegramSpec => []PollerInvariant
<1>1. RelayInit /\ TelegramInit => PollerInvariant BY TelegramStarts
<1>2. PollerInvariant /\ [TelegramNext]_<<vars, telegramVars>> =>
        /\ TelegramTypes' /\ FilesAreSound' /\ PollerIsSound' /\ DestinationIsChosen'
        /\ WaitsAreKnown' /\ SilenceIsKnown'
  BY TelegramSteps
<1>3. PollerInvariant /\ [TelegramNext]_<<vars, telegramVars>> /\ MemoryGood' => FilesAreRight'
  BY FilesKeepRight DEF PollerInvariant, PollerGood, MemoryGood
<1>4. TelegramTypes /\ FilesAreSound /\ PollerIsSound /\ DestinationIsChosen => MemoryGood
  BY MemoryIsRight DEF PollerGood, MemoryGood
<1>5. PollerInvariant <=> /\ TelegramTypes /\ FilesAreSound /\ PollerIsSound /\ DestinationIsChosen
                          /\ FilesAreRight /\ WaitsAreKnown /\ SilenceIsKnown
  BY DEF PollerInvariant
<1> QED BY <1>1, <1>2, <1>3, <1>4, <1>5, PTL DEF TelegramSpec

(* Alerts go only where the owner asked for them; Telegram is told to      *)
(* forget, and a start forgets, no choice of the destination, but in the   *)
(* two cases that ChoicesAreKept names; and a process reports a silence    *)
(* once, and keeps quiet only about one whose warning was delivered.       *)
THEOREM TelegramIsRight == TelegramSpec => []TelegramInvariant
<1>1. PollerInvariant => TelegramInvariant
  <2> SUFFICES ASSUME PollerInvariant PROVE TelegramInvariant OBVIOUS
  <2>1. TelegramTypes /\ FilesAreSound /\ PollerIsSound /\ DestinationIsChosen /\ SilenceIsKnown
    BY DEF PollerInvariant
  <2>2. AlertsGoWhereAsked
    <3>1. {"offset", "chat"} \subseteq Markers BY ChatsAre
    <3>2. Sound("chat", markers["chat"]) /\ Sound("chat", OnDisk.markers["chat"])
      BY <2>1, <3>1, OnDiskSound DEF FilesAreSound
    <3> QED BY <2>1, <3>2 DEF AlertsGoWhereAsked, PollerIsSound, Sound
  <2>3. ChoicesAreKept
    <3> SUFFICES ASSUME step \in {"prepare", "poll", "ended"}, ~forgotten
                 PROVE  /\ confirmed <= Handled(offset)
                        /\ \E n \in Handled(offset)..Len(inbox) : target = Wanted(n)
      BY DEF ChoicesAreKept
    <3>1. ~InBatch /\ Done = Handled(offset) BY DEF InBatch, Done
    <3> QED BY <2>1, <3>1 DEF DestinationIsChosen
  <2>4. SilenceIsReported
    <3>1. posting["watchdog"] # 0 => about \notin reported BY <2>1 DEF SilenceIsKnown
    <3>2. ASSUME Alive, warned, Stale PROVE SilentSince \in reported
      <4>1. WatchdogGood BY <2>1 DEF WatchdogGood, WatchdogTypes, SendTypes, TelegramTypes, FilesAreSound
      <4>2. \/ SilentSince \in reported \/ SilentSince = now \/ SilentSince = now - 1
        BY <2>1, <3>2 DEF SilenceIsKnown
      <4>3. SilentSince # now /\ SilentSince # now - 1 BY <3>2, <4>1, SilenceIs
      <4> QED BY <4>2, <4>3
    <3> QED BY <3>1, <3>2 DEF SilenceIsReported
  <2> QED BY <2>1, <2>2, <2>3, <2>4 DEF TelegramInvariant
<1> QED BY <1>1, PollerInvariantHolds, PTL

(* No post goes to a chat before the end of the longest wait that Telegram *)
(* set for it, whatever the order of the answers.                          *)
THEOREM WaitsHold == TelegramSpec => WaitsAreKept
<1>1. PollerInvariant /\ [TelegramNext]_<<vars, telegramVars>> =>
        [\A s \in Senders : posting'[s] # 0 /\ posting[s] = 0 => told[posting'[s]] <= now]_telegramVars
  <2> SUFFICES ASSUME PollerInvariant, [TelegramNext]_<<vars, telegramVars>>
               PROVE  \A s \in Senders : posting'[s] # 0 /\ posting[s] = 0 => told[posting'[s]] <= now
    OBVIOUS
  <2>1. TelegramTypes /\ PollerIsSound /\ WaitsAreKnown /\ now \in Nat
    BY DEF PollerInvariant, FilesAreSound
  <2> QED BY <2>1, WaitsKeep
<1> QED BY <1>1, PollerInvariantHolds, PTL DEF TelegramSpec, WaitsAreKept
=============================================================================
