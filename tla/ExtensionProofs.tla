--------------------------- MODULE ExtensionProofs ---------------------------
(***************************************************************************)
(* Machine-checked theorems about the extension's service worker: the main *)
(* scan (Coordinator.tla), for every number of tabs and pages and of       *)
(* checks, restarts and failures: documents act under the lease of now     *)
(* only if it is theirs, no check is forgotten, progress is neither        *)
(* invented nor lost, and the user keeps the tab; the settings             *)
(* (ScannerControl.tla), for every set of options pages and of keys, and   *)
(* the owner's commands (ScannerCommands.tla), for every number of         *)
(* requests, verifications and stops of the worker; and the turns of the   *)
(* scanners' tabs (TabWorkspace.tla), for every set of tabs and requests.  *)
(***************************************************************************)
EXTENDS Coordinator, ScannerControl, ScannerCommands, TabWorkspace, FiniteSetTheorems,
        SequenceTheorems, WellFoundedInduction, TLAPS

-----------------------------------------------------------------------------
(* Leases, records and roles                                               *)

(* None is no tab, and pages are no other place.                           *)
LEMMA Constants ==
    /\ None \notin Tabs /\ PAGES \in Nat \ {0} /\ 1 \in Pages /\ Pages \subseteq Nat \ {0}
    /\ Away \notin Pages /\ Closed \notin Pages /\ Unborn \notin Pages
    /\ Away # Closed /\ Away # Unborn
BY CoordinatorConstants DEF Pages, Away, Closed, Unborn

(* A record says nothing to another lease.                                 *)
LEMMA SeenIs ==
    ASSUME NEW r \in Record, NEW g \in Nat
    PROVE  /\ Seen(r, g) \subseteq Pages
           /\ r.gen # g => Seen(r, g) = {}
           /\ r.gen = g => Seen(r, g) = r.seen
           /\ NoRecord \in Record /\ Seen(NoRecord, g) = {}
BY DEF Seen, Record, NoRecord

(* A lease is newer than all before it.                                    *)
LEMMA NewLeaseIs ==
    ASSUME NEW c \in Lease, NEW t \in Tabs \union {None}
    PROVE  /\ NewLease(c, t) \in Lease /\ NewLease(c, t).tab = t
           /\ NewLease(c, t).gen = c.gen + 1 /\ NewLease(c, t).gen > c.gen
BY DEF NewLease, Lease

(* The documents agree with a lease: none is ahead, and who acts under it  *)
(* is its owner.                                                           *)
Voices(docs, c) ==
    /\ docs \in [Tabs -> Document]
    /\ \A t \in Tabs : docs[t].gen <= c.gen /\ (docs[t].active /\ docs[t].gen = c.gen => c.tab = t)

LEMMA AppliedIs ==
    ASSUME NEW d \in Document, NEW active \in BOOLEAN, NEW g \in Nat
    PROVE  /\ Applied(d, [active |-> active, gen |-> g]) \in Document
           /\ \/ Applied(d, [active |-> active, gen |-> g]) = d
              \/ Applied(d, [active |-> active, gen |-> g])
                    = [active |-> active, gen |-> g, pc |-> "idle"]
           /\ d.gen < g => Applied(d, [active |-> active, gen |-> g]).gen = g
BY DEF Applied, Document

(* Whoever hears of a lease, the documents agree with it.                  *)
LEMMA HearingVoices ==
    ASSUME NEW c \in Lease, NEW docs, Voices(docs, c), NEW heard
    PROVE  /\ Voices(Hearing(docs, c, heard), c)
           /\ \A t \in Tabs : \/ Hearing(docs, c, heard)[t] = docs[t]
                              \/ Hearing(docs, c, heard)[t].pc = "idle"
<1>1. ASSUME NEW t \in Tabs
      PROVE  /\ Hearing(docs, c, heard)[t] \in Document
             /\ \/ Hearing(docs, c, heard)[t] = docs[t]
                \/ Hearing(docs, c, heard)[t] = [active |-> c.tab = t, gen |-> c.gen, pc |-> "idle"]
  BY AppliedIs DEF Hearing, Role, Voices, Lease
<1>2. Hearing(docs, c, heard) \in [Tabs -> Document] BY <1>1 DEF Hearing
<1>3. ASSUME NEW t \in Tabs
      PROVE  /\ Hearing(docs, c, heard)[t].gen <= c.gen
             /\ Hearing(docs, c, heard)[t].active /\ Hearing(docs, c, heard)[t].gen = c.gen => c.tab = t
             /\ Hearing(docs, c, heard)[t] = docs[t] \/ Hearing(docs, c, heard)[t].pc = "idle"
  <2>1. CASE Hearing(docs, c, heard)[t] = docs[t] BY <2>1 DEF Voices
  <2>2. CASE Hearing(docs, c, heard)[t] = [active |-> c.tab = t, gen |-> c.gen, pc |-> "idle"]
    <3>1. c.gen \in Nat BY DEF Lease
    <3> DEFINE d == [active |-> c.tab = t, gen |-> c.gen, pc |-> "idle"]
    <3>2. d.gen = c.gen /\ d.pc = "idle" /\ (d.active => c.tab = t) OBVIOUS
    <3> QED BY <2>2, <3>1, <3>2
  <2> QED BY <1>1, <2>1, <2>2
<1> QED BY <1>2, <1>3 DEF Voices

(* An older agreement is one with a new lease.                             *)
LEMMA OlderVoices ==
    ASSUME NEW c \in Lease, NEW t \in Tabs \union {None}, NEW docs, Voices(docs, c)
    PROVE  Voices(docs, NewLease(c, t))
BY NewLeaseIs DEF Voices, Lease, Document

LEMMA InvariantVoices == CoordinatorInvariant => Voices(doc, coord)
BY DEF CoordinatorInvariant, TypeInvariant, OneVoice, Voices, Lease, Document

(* Documents that only lose work, on pages that stay.                      *)
Calms ==
    /\ Voices(doc', coord')
    /\ \A t \in Tabs : doc'[t].pc # "idle" => doc'[t] = doc[t] /\ at'[t] = at[t]

(* What a record says may come from the sweep or from a record under way.  *)
Carries(t) ==
    Seen(sweep'[t], coord'.gen) \union Seen(writing'[t], coord'.gen)
        \subseteq Seen(sweep[t], coord.gen) \union Seen(writing[t], coord.gen)

(* Under the same lease, nothing is claimed that was not.                  *)
LEMMA RoundStays ==
    ASSUME CoordinatorInvariant, Calms, coord' = coord, accepted' = accepted,
           \A t \in Tabs : Carries(t), resume'.seen \subseteq accepted,
           rst'.pc = "reset" => rst' = rst /\ fresh' = fresh, kept' \in {kept, {}}
    PROVE  RoundIsTrue'
<1> USE DEF CoordinatorInvariant
<1>1. ASSUME NEW pages, Within(pages)
      PROVE  \A t \in Tabs :
                /\ Seen(sweep'[t], coord'.gen) \union Seen(writing'[t], coord'.gen) \subseteq pages
                /\ doc'[t].gen = coord'.gen =>
                      /\ doc'[t].pc = "sent" => at'[t] \in pages
                      /\ doc'[t].pc \in {"ended", "complete"} => Pages \subseteq pages
  BY <1>1 DEF Within, Calms, Carries
<1>2. Within(accepted)' BY <1>1 DEF RoundIsTrue, Within
<1>3. ASSUME rst'.pc = "reset", rst'.gen = coord'.gen PROVE Within(fresh)' /\ kept' = {}
  <2>1. fresh' = fresh /\ Within(fresh) /\ kept = {} BY <1>3 DEF RoundIsTrue
  <2> QED BY <1>1, <2>1 DEF Within
<1> QED BY <1>2, <1>3 DEF RoundIsTrue

(* Under a new lease, only the new primary's record says anything.         *)
LEMMA RoundBegins ==
    ASSUME CoordinatorInvariant, Calms, coord' \in Lease, coord'.gen > coord.gen, accepted' = accepted,
           writing' = writing,
           \A t \in Tabs : sweep'[t] \in Record /\ Seen(sweep'[t], coord'.gen) \subseteq resume.seen,
           resume'.seen \subseteq accepted,
           rst'.pc = "reset" /\ rst'.gen = coord'.gen =>
               kept' = {} /\ \A t \in Tabs : Seen(sweep'[t], coord'.gen) = {}
    PROVE  RoundIsTrue'
<1> USE DEF CoordinatorInvariant
<1>1. ASSUME NEW t \in Tabs
      PROVE  /\ Seen(writing'[t], coord'.gen) = {}
             /\ doc'[t].gen = coord'.gen => doc'[t].pc = "idle"
  <2>1. writing[t] \in Record /\ writing[t].gen # coord'.gen
    BY DEF TypeInvariant, Lease, Record
  <2>2. doc[t].gen # coord'.gen BY DEF TypeInvariant, Lease
  <2> QED BY <2>1, <2>2, SeenIs DEF Calms, Lease
<1>2. Within(accepted)' BY <1>1 DEF Within, RoundIsTrue
<1>3. rst'.pc = "reset" /\ rst'.gen = coord'.gen => Within(fresh)' BY <1>1 DEF Within
<1> QED BY <1>2, <1>3 DEF RoundIsTrue

(* What is kept stays recorded where the records stay.                     *)
LEMMA KeptStays ==
    ASSUME CoordinatorInvariant, coord' = coord, check'.paused = check.paused,
           kept' \in {kept, {}},
           coord.tab = None => resume'.seen = resume.seen,
           \A t \in Tabs : t = coord.tab => sweep'[t] = sweep[t],
           \A t \in Tabs : writing'[t] \in {writing[t], NoRecord}
    PROVE  KeptIsRecorded'
<1> USE DEF CoordinatorInvariant
<1>1. CASE kept' = {} BY <1>1 DEF KeptIsRecorded
<1>2. CASE kept' = kept
  <2>1. coord.tab # None => SeenNow(coord.tab)' = SeenNow(coord.tab)
    BY DEF SeenNow, TypeInvariant, Lease
  <2> QED BY <1>2, <2>1 DEF KeptIsRecorded
<1> QED BY <1>1, <1>2

(* A restart keeps the lease it owns, or ends, or has none to own yet.     *)
LEMMA RestartStays ==
    ASSUME CoordinatorInvariant,
           coord' = coord \/ (coord' \in Lease /\ coord'.gen > coord.gen),
           rst' = rst \/ rst'.pc \in {"off", "selecting"} \/ (rst'.pc = "take" /\ rst'.tab # None)
    PROVE  RestartOwns'
BY DEF CoordinatorInvariant, RestartOwns, TypeInvariant, RestartOf, Lease

(* Documents that only lose work, where no tab begins to show a check, nor *)
(* closes while it shows one.                                              *)
LEMMA WorkStays ==
    ASSUME CoordinatorInvariant, Calms, 
           \A t \in Tabs : showing'[t] => showing[t] /\ at'[t] \in {at[t]} \union Pages
    PROVE  WorkIsOnAPage'
BY Constants DEF CoordinatorInvariant, WorkIsOnAPage, Calms, Monitoring, Open

(* Where no check is newly told, and the pause and its pass stay.          *)
LEMMA ToldStays ==
    ASSUME CoordinatorInvariant, \A t \in Tabs : told'[t] => showing'[t] /\ told[t],
           reports' = reports, check' = check, pass' = pass
    PROVE  ToldIsKnown'
BY DEF CoordinatorInvariant, ToldIsKnown

(* Where the documents hear of the lease, or a document's work goes on.    *)
LEMMA BroadcastCalms ==
    ASSUME coord' \in Lease, Voices(doc, coord'), NEW heard, doc' = Hearing(doc, coord', heard), at' = at
    PROVE  Calms
BY HearingVoices DEF Calms

LEMMA WorkVoices ==
    ASSUME Voices(doc, coord), coord' = coord, NEW t \in Tabs,
           NEW pc \in {"idle", "sent", "saving", "saved", "read", "ended", "complete"}, Goes(t, pc)
    PROVE  /\ Voices(doc', coord')
           /\ doc'[t] = [active |-> doc[t].active, gen |-> doc[t].gen, pc |-> pc]
           /\ \A s \in Tabs : s # t => doc'[s] = doc[s]
<1>1. doc'[t] = [active |-> doc[t].active, gen |-> doc[t].gen, pc |-> pc] BY DEF Goes, Voices, Document
<1>2. \A s \in Tabs : s # t => doc'[s] = doc[s] BY DEF Goes, Voices
<1>3. doc' \in [Tabs -> Document]
  <2>1. doc'[t] \in Document BY <1>1 DEF Voices, Document
  <2> QED BY <1>2, <2>1 DEF Goes, Voices
<1> QED BY <1>1, <1>2, <1>3 DEF Voices

LEMMA ReloadCalms ==
    ASSUME Voices(doc, coord), coord' = coord, NEW t \in Tabs, doc' = [doc EXCEPT ![t] = NewDocument],
           \A s \in Tabs : s # t => at'[s] = at[s], coord \in Lease
    PROVE  Calms
BY DEF Calms, Voices, NewDocument, Document, Lease

(* What the documents' agreement with the lease gives.                     *)
LEMMA VoicesGive ==
    ASSUME Voices(doc', coord'), coord' \in Lease
    PROVE  /\ OneVoice' /\ doc' \in [Tabs -> Document]
           /\ \A t \in Tabs : doc'[t].gen \in 0..coord'.gen
BY DEF Voices, OneVoice, Document, Lease

-----------------------------------------------------------------------------
(* Every step keeps the invariant                                          *)

LEMMA InitKeeps == Init => CoordinatorInvariant
<1> SUFFICES ASSUME Init PROVE CoordinatorInvariant OBVIOUS
<1>1. TypeInvariant
  <2>1. at \in [Tabs -> Places] BY Constants DEF Init, Places
  <2>3. NoRecord \in Record /\ NewDocument \in Document /\ NoResume \in Resume
    BY Constants DEF Record, NoRecord, NewDocument, Document, NoResume, Resume
  <2>4. NoRestart \in RestartOf BY DEF NoRestart, RestartOf, Places, Away
  <2>2. NoSelection \in Selection
    <3>1. [tab |-> None, gen |-> 0] \in Lease /\ [t \in Tabs |-> Unborn] \in [Tabs -> Places] BY DEF Lease, Places
    <3> QED BY <3>1 DEF NoSelection, Selection
  <2> QED BY <2>1, <2>2, <2>3, <2>4 DEF Init, TypeInvariant, NewDocument, NoRecord, NoCheck, NoResume, NoSelection, NoPass,
                            NoRestart, Lease
<1>2. OneVoice /\ RestartOwns /\ WorkIsOnAPage /\ ToldIsKnown
  BY DEF Init, OneVoice, RestartOwns, WorkIsOnAPage, ToldIsKnown, NewDocument, NoRestart, NoPass
<1>3. RoundIsTrue /\ KeptIsRecorded
  BY DEF Init, RoundIsTrue, KeptIsRecorded, Within, Seen, SeenNow, NewDocument, NoRecord, NoRestart, NoResume
<1> QED BY <1>1, <1>2, <1>3 DEF CoordinatorInvariant

LEMMA ReportKeeps ==
    ASSUME CoordinatorInvariant, NEW t \in Tabs, Report(t)
    PROVE  CoordinatorInvariant'
<1> USE DEF CoordinatorInvariant
<1>0. Voices(doc, coord) BY InvariantVoices
<1>1. TypeInvariant' BY DEF Report, Tell, browser, storage, ghosts, TypeInvariant, Document
<1>2. Calms
  BY <1>0 DEF Report, Calms, Voices, browser, storage, TypeInvariant, Document
<1>3. OneVoice' BY <1>1, <1>2, VoicesGive DEF Calms, TypeInvariant
<1>4. RestartOwns' BY RestartStays DEF Report, storage
<1>5. WorkIsOnAPage' BY <1>2, WorkStays DEF Report, browser
<1>6. ToldIsKnown' BY DEF Report, Tell, browser, storage, ToldIsKnown, TypeInvariant
<1>7. RoundIsTrue'
  BY <1>2, RoundStays DEF Report, storage, ghosts, Carries, RoundIsTrue
<1>8. KeptIsRecorded' BY KeptStays DEF Report, storage, ghosts
<1> QED BY <1>1, <1>3, <1>4, <1>5, <1>6, <1>7, <1>8

LEMMA PauseKeeps ==
    ASSUME CoordinatorInvariant, NEW t \in Tabs, Pause(t)
    PROVE  CoordinatorInvariant'
<1> USE DEF CoordinatorInvariant
<1>0. Voices(doc, coord) BY InvariantVoices
<1>a. CASE check.paused
  <2>1. TypeInvariant' BY <1>a DEF Pause, browser, TypeInvariant
  <2>2. Calms BY <1>0, <1>a DEF Pause, Calms, browser
  <2>3. OneVoice' BY <2>1, <2>2, VoicesGive DEF Calms, TypeInvariant
  <2>4. RestartOwns' BY <1>a, RestartStays DEF Pause
  <2>5. WorkIsOnAPage' BY <2>2, WorkStays DEF Pause, browser
  <2>6. ToldIsKnown' BY <1>a DEF Pause, browser, ToldIsKnown, TypeInvariant
  <2>7. RoundIsTrue' BY <1>a, <2>2, RoundStays DEF Pause, Carries, RoundIsTrue
  <2>8. KeptIsRecorded' BY <1>a, KeptStays DEF Pause, TypeInvariant
  <2> QED BY <2>1, <2>3, <2>4, <2>5, <2>6, <2>7, <2>8
<1>b. CASE ~check.paused
  <2>1. coord' = NewLease(coord, None) /\ coord' \in Lease /\ coord'.tab = None /\ coord'.gen > coord.gen
    BY <1>b, NewLeaseIs DEF Pause, TypeInvariant
  <2>2. Voices(Dropped, coord')
    <3>1. Voices(Dropped, coord) BY <1>0 DEF Dropped, Voices, Document
    <3> QED BY <2>1, <3>1, OlderVoices DEF TypeInvariant
  <2>3. Calms
    <3>1. PICK heard \in Hearers : doc' = Hearing(Dropped, coord', heard) BY <1>b DEF Pause
    <3>2. Voices(doc', coord') BY <2>1, <2>2, <3>1, HearingVoices
    <3>3. \A s \in Tabs : doc'[s].pc = "idle"
      <4>1. \A s \in Tabs : Dropped[s].pc = "idle" BY DEF Dropped, TypeInvariant, Document
      <4> QED BY <2>1, <2>2, <3>1, <4>1, HearingVoices
    <3> QED BY <3>2, <3>3 DEF Calms
  <2>4. OneVoice' /\ doc' \in [Tabs -> Document] /\ \A s \in Tabs : doc'[s].gen \in 0..coord'.gen
    BY <2>1, <2>3, VoicesGive DEF Calms
  <2>5. TypeInvariant'
    <3>1. resume' = [resume EXCEPT !.interrupted = resume # NoResume] /\ sweep' = [s \in Tabs |-> NoRecord]
          /\ kept' = resume.seen /\ check' = [paused |-> TRUE, challenged |-> {t}, known |-> Reviewers]
      BY <1>b DEF Pause
    <3>2. resume' \in Resume /\ resume'.gen = resume.gen /\ kept' \subseteq Pages
      BY <3>1 DEF Resume, TypeInvariant
    <3>3. sweep' \in [Tabs -> Record] /\ \A s \in Tabs : sweep'[s].gen = 0 BY <3>1 DEF NoRecord, Record
    <3>4. check' \in [paused : BOOLEAN, challenged : SUBSET Tabs, known : SUBSET Tabs]
      BY <3>1 DEF Reviewers
    <3> QED BY <2>1, <2>4, <3>2, <3>3, <3>4 DEF TypeInvariant, Pause, browser, Lease
  <2>6. RestartOwns' BY <2>1, RestartStays DEF Pause
  <2>7. WorkIsOnAPage' BY <2>3, WorkStays DEF Pause, browser
  <2>8. ToldIsKnown' BY <1>b DEF Pause, browser, ToldIsKnown, TypeInvariant
  <2>9. RoundIsTrue'
    <3>1. \A s \in Tabs : sweep'[s] = NoRecord /\ sweep'[s] \in Record /\ Seen(sweep'[s], coord'.gen) = {}
      BY <1>b, <2>1, SeenIs DEF Pause, NoRecord, Record, Seen, Lease
    <3>2. resume'.seen = resume.seen BY <1>b DEF Pause, TypeInvariant, Resume
    <3>3. rst'.pc = "reset" => rst'.gen # coord'.gen BY <2>1 DEF Pause, TypeInvariant, RestartOf, Lease
    <3> QED BY <2>1, <2>3, <3>1, <3>2, <3>3, RoundBegins DEF Pause, RoundIsTrue
  <2>10. KeptIsRecorded' BY <1>b, <2>1 DEF Pause, KeptIsRecorded, TypeInvariant, Resume
  <2> QED BY <2>4, <2>5, <2>6, <2>7, <2>8, <2>9, <2>10
<1> QED BY <1>a, <1>b

LEMMA PassBeginsKeeps ==
    ASSUME CoordinatorInvariant, PassBegins
    PROVE  CoordinatorInvariant'
<1> USE DEF CoordinatorInvariant
<1>0. Voices(doc, coord) BY InvariantVoices
<1> USE DEF browser, documents, ghosts
<1>1. TypeInvariant'
  <2>1. check' \in [paused : BOOLEAN, challenged : SUBSET Tabs, known : SUBSET Tabs]
        /\ check'.paused = check.paused
    <3>1. check' = check \/ \E found \in SUBSET Tabs : check' = [check EXCEPT !.challenged = @ \union found]
      BY DEF PassBegins
    <3> QED BY <3>1 DEF TypeInvariant
  <2>2. pass' \in [on : BOOLEAN, todo : SUBSET Tabs, ready : SUBSET Tabs, other : BOOLEAN]
    <3>1. pass' = pass \/ \E ready \in SUBSET Tabs :
              pass' = [on |-> TRUE, todo |-> check.challenged, ready |-> ready, other |-> FALSE]
      BY DEF PassBegins, Reviewers
    <3>2. check.challenged \in SUBSET Tabs BY DEF TypeInvariant
    <3>3. pass \in [on : BOOLEAN, todo : SUBSET Tabs, ready : SUBSET Tabs, other : BOOLEAN] BY DEF TypeInvariant
    <3>4. ASSUME NEW ready \in SUBSET Tabs
          PROVE  [on |-> TRUE, todo |-> check.challenged, ready |-> ready, other |-> FALSE]
                    \in [on : BOOLEAN, todo : SUBSET Tabs, ready : SUBSET Tabs, other : BOOLEAN]
      BY <3>2
    <3> QED BY <3>1, <3>3, <3>4
  <2> QED BY <2>1, <2>2 DEF PassBegins, TypeInvariant
<1>2. Calms BY <1>0 DEF PassBegins, Calms
<1>3. OneVoice' BY <1>1, <1>2, VoicesGive DEF Calms, TypeInvariant
<1>4. RestartOwns' BY RestartStays DEF PassBegins
<1>5. WorkIsOnAPage' BY <1>2, WorkStays DEF PassBegins
<1>6. ToldIsKnown' BY DEF PassBegins, ToldIsKnown, TypeInvariant
<1>7. RoundIsTrue' BY <1>2, RoundStays DEF PassBegins, Carries, RoundIsTrue
<1>8. KeptIsRecorded' BY KeptStays DEF PassBegins, TypeInvariant
<1> QED BY <1>1, <1>3, <1>4, <1>5, <1>6, <1>7, <1>8

LEMMA PassProbesKeeps ==
    ASSUME CoordinatorInvariant, NEW t \in Tabs, PassProbes(t)
    PROVE  CoordinatorInvariant'
<1> USE DEF CoordinatorInvariant
<1>0. Voices(doc, coord) BY InvariantVoices
<1> USE DEF browser, documents, storage, ghosts
<1>1. TypeInvariant' BY DEF PassProbes, TypeInvariant, NoPass
<1>2. Calms BY <1>0 DEF PassProbes, Calms
<1>3. OneVoice' BY <1>1, <1>2, VoicesGive DEF Calms, TypeInvariant
<1>4. RestartOwns' BY RestartStays DEF PassProbes
<1>5. WorkIsOnAPage' BY <1>2, WorkStays DEF PassProbes
<1>6. ToldIsKnown' BY DEF PassProbes, ToldIsKnown, TypeInvariant, Blocks, NoPass, WorkIsOnAPage
<1>7. RoundIsTrue' BY <1>2, RoundStays DEF PassProbes, Carries, RoundIsTrue
<1>8. KeptIsRecorded' BY KeptStays DEF PassProbes
<1> QED BY <1>1, <1>3, <1>4, <1>5, <1>6, <1>7, <1>8

LEMMA PassEndsKeeps ==
    ASSUME CoordinatorInvariant, PassEnds
    PROVE  CoordinatorInvariant'
<1> USE DEF CoordinatorInvariant
<1>0. Voices(doc, coord) BY InvariantVoices
<1> USE DEF browser, documents, ghosts
<1>1. TypeInvariant' BY DEF PassEnds, TypeInvariant, NoPass, NoCheck
<1>2. Calms BY <1>0 DEF PassEnds, Calms
<1>3. OneVoice' BY <1>1, <1>2, VoicesGive DEF Calms, TypeInvariant
<1>4. RestartOwns' BY RestartStays DEF PassEnds
<1>5. WorkIsOnAPage' BY <1>2, WorkStays DEF PassEnds
<1>6. ToldIsKnown' BY DEF PassEnds, ToldIsKnown, TypeInvariant, NoPass
<1>7. RoundIsTrue' BY <1>2, RoundStays DEF PassEnds, Carries, RoundIsTrue
<1>8. KeptIsRecorded' BY DEF PassEnds, KeptIsRecorded, SeenNow
<1> QED BY <1>1, <1>3, <1>4, <1>5, <1>6, <1>7, <1>8

(* Where documents, storage and the lease stay, or one document drops its  *)
(* work to tell of its check.                                              *)
LEMMA SelectsIs ==
    ASSUME CoordinatorInvariant, NEW by \in {"document", "restart"}, NEW exclude \in Tabs \union {None},
           Selects(by, exclude)
    PROVE  /\ sel' \in Selection /\ sel'.was.gen \in 0..coord.gen
           /\ \/ UNCHANGED <<told, reports, doc>>
              \/ \E t \in Tabs : Open(t) /\ showing[t] /\ Tell(t) /\ doc' = [doc EXCEPT ![t].pc = "idle"]
<1> USE DEF CoordinatorInvariant
<1>1. \E pc \in {"ready", "reporting"}, keep \in BOOLEAN, chosen \in Tabs \union {None} :
        sel' = [pc |-> pc, by |-> by, saw |-> at, was |-> coord, exclude |-> exclude, keep |-> keep, chosen |-> chosen]
  <2> DEFINE asked == IF Paused THEN {} ELSE Reviewers \ {exclude}
             keep  == ~Paused /\ exclude # None
             found == [pc |-> "ready", by |-> by, saw |-> at, was |-> coord, exclude |-> exclude,
                       keep |-> keep, chosen |-> None]
  <2>1. (\E t \in asked : sel' = [found EXCEPT !.chosen = t, !.pc = IF showing[t] THEN "reporting" ELSE "ready"])
        \/ sel' = found
    BY DEF Selects
  <2>2. asked \subseteq Tabs BY DEF Reviewers
  <2>3. CASE sel' = found BY <2>3
  <2>4. ASSUME NEW t \in asked, sel' = [found EXCEPT !.chosen = t, !.pc = IF showing[t] THEN "reporting" ELSE "ready"]
        PROVE  sel' = [pc |-> IF showing[t] THEN "reporting" ELSE "ready", by |-> by, saw |-> at, was |-> coord,
                       exclude |-> exclude, keep |-> keep, chosen |-> t]
    BY <2>4
  <2> QED BY <2>1, <2>2, <2>3, <2>4
<1>2. sel' \in Selection /\ sel'.was = coord
  BY <1>1 DEF Selection, TypeInvariant
<1>3. UNCHANGED <<told, reports, doc>>
      \/ \E t \in Reviewers : showing[t] /\ Tell(t) /\ doc' = [doc EXCEPT ![t].pc = "idle"]
  BY DEF Selects
<1>4. \A t \in Reviewers : t \in Tabs /\ Open(t) BY Constants DEF Reviewers, Monitoring, Open
<1>5. coord.gen \in 0..coord.gen BY DEF TypeInvariant, Lease
<1> QED BY <1>2, <1>3, <1>4, <1>5

LEMMA SelectsKeeps ==
    ASSUME CoordinatorInvariant, NEW by \in {"document", "restart"}, NEW exclude \in Tabs \union {None},
           Selects(by, exclude), UNCHANGED <<browser, writing, storage, pass, rst, ghosts>>
    PROVE  CoordinatorInvariant'
<1> USE DEF CoordinatorInvariant, browser, storage, ghosts
<1>0. Voices(doc, coord) BY InvariantVoices
<1>1. /\ sel' \in Selection /\ sel'.was.gen \in 0..coord.gen
      /\ \/ UNCHANGED <<told, reports, doc>>
         \/ \E t \in Tabs : Open(t) /\ showing[t] /\ Tell(t) /\ doc' = [doc EXCEPT ![t].pc = "idle"]
  BY SelectsIs
<1>2. Calms
  <2>1. CASE doc' = doc BY <1>0, <2>1 DEF Calms
  <2>2. ASSUME NEW t \in Tabs, doc' = [doc EXCEPT ![t].pc = "idle"] PROVE Calms
    <3>1. Goes(t, "idle") BY <2>2 DEF Goes
    <3>2. /\ Voices(doc', coord')
          /\ doc'[t] = [active |-> doc[t].active, gen |-> doc[t].gen, pc |-> "idle"]
          /\ \A s \in Tabs : s # t => doc'[s] = doc[s]
      BY <1>0, <3>1, WorkVoices
    <3>3. doc'[t].pc = "idle" BY <3>2
    <3> QED BY <3>2, <3>3 DEF Calms
  <2> QED BY <1>1, <2>1, <2>2
<1>3. OneVoice' /\ doc' \in [Tabs -> Document] /\ \A s \in Tabs : doc'[s].gen \in 0..coord'.gen
  BY <1>2, VoicesGive DEF Calms, TypeInvariant
<1>4. told' \in [Tabs -> BOOLEAN] /\ reports' \subseteq Tabs BY <1>1 DEF Tell, TypeInvariant
<1>5. TypeInvariant' BY <1>1, <1>3, <1>4 DEF TypeInvariant
<1>6. RestartOwns' BY RestartStays
<1>7. WorkIsOnAPage' BY <1>2, WorkStays
<1>8. ToldIsKnown'
  <2>1. showing' = showing /\ check' = check /\ pass' = pass OBVIOUS
  <2>2. CASE told' = told /\ reports' = reports BY <2>1, <2>2 DEF ToldIsKnown
  <2>3. ASSUME NEW t \in Tabs, showing[t], Tell(t) PROVE ToldIsKnown'
    <3>1. \A u \in Tabs : told'[u] => u = t \/ told[u] BY <2>3 DEF Tell, TypeInvariant
    <3>2. t \in reports' /\ reports \subseteq reports' BY <2>3 DEF Tell
    <3> QED BY <2>1, <2>3, <3>1, <3>2 DEF ToldIsKnown
  <2> QED BY <1>1, <2>2, <2>3
<1>9. RoundIsTrue' BY <1>2, RoundStays DEF Carries, RoundIsTrue
<1>10. KeptIsRecorded' BY KeptStays
<1> QED BY <1>3, <1>5, <1>6, <1>7, <1>8, <1>9, <1>10

(* A checkpoint is of the primary's record.                                *)
LEMMA SavedIs ==
    ASSUME NEW c \in Lease, c.tab \in Tabs, NEW pg \in Pages, NEW records \in [Tabs -> Record]
    PROVE  /\ Saved(c, pg, records) \in Resume
           /\ Saved(c, pg, records).gen = c.gen
           /\ Saved(c, pg, records).seen = Seen(records[c.tab], c.gen)
BY SeenIs, Constants DEF Saved, Resume, Lease, Pages

LEMMA SaveResumeIs ==
    ASSUME CoordinatorInvariant, NEW c \in Lease, c.tab \in Tabs, NEW pg, NEW records \in [Tabs -> Record],
           SaveResume(c, pg, records)
    PROVE  \/ resume' = resume
           \/ resume' \in Resume /\ resume'.gen = c.gen /\ resume'.seen = Seen(records[c.tab], c.gen)
BY SavedIs DEF SaveResume, Monitoring

-----------------------------------------------------------------------------
(* Commits and restarts                                                    *)

(* What a commit leaves of the restart.                                    *)
LEMMA CommitRestart ==
    ASSUME CoordinatorInvariant, Commit, coord' \in Lease, coord'.gen >= coord.gen
    PROVE  /\ rst' \in RestartOf /\ rst'.gen \in 0..coord'.gen
           /\ rst' = rst \/ rst'.pc \in {"off", "selecting"} \/ (rst'.pc = "take" /\ rst'.tab # None)
<1> USE DEF CoordinatorInvariant
<1>1. Chosen \in Tabs \union {None} BY DEF Chosen, TypeInvariant, Selection, Lease
<1>2. ToRestart \subseteq Tabs \union {None} BY <1>1 DEF ToRestart
<1>3. CASE rst' = rst BY <1>3 DEF TypeInvariant, Lease
<1>4. CASE rst' \in {NoRestart, [NoRestart EXCEPT !.pc = "selecting"]}
  BY <1>4 DEF NoRestart, RestartOf, Places, Away, Lease
<1>5. ASSUME NEW t \in Tabs, rst' = [NoRestart EXCEPT !.pc = "take", !.gen = coord'.gen, !.tab = t]
      PROVE  rst' \in RestartOf /\ rst'.gen \in 0..coord'.gen /\ rst'.pc = "take" /\ rst'.tab # None
  <2>1. rst' = [pc |-> "take", tab |-> t, gen |-> coord'.gen, page |-> 0] BY <1>5 DEF NoRestart
  <2>2. coord'.gen \in Nat /\ 0 \in Places BY DEF Lease, Places, Away
  <2> QED BY <2>1, <2>2, Constants DEF RestartOf
<1> QED BY <1>2, <1>3, <1>4, <1>5 DEF Commit

LEMMA CommitKeeps ==
    ASSUME CoordinatorInvariant, Commit
    PROVE  CoordinatorInvariant'
<1> USE DEF CoordinatorInvariant, browser
<1>0. Voices(doc, coord) BY InvariantVoices
<1> DEFINE t == Chosen
<1>1. t \in Tabs \union {None} BY DEF Chosen, TypeInvariant, Selection, Lease
<1>2. sel' \in Selection /\ sel'.was.gen = 0
  <2>1. [tab |-> None, gen |-> 0] \in Lease /\ [s \in Tabs |-> Unborn] \in [Tabs -> Places] BY DEF Lease, Places
  <2> QED BY <2>1 DEF Commit, NoSelection, Selection
<1>3. PICK heard \in Hearers :
          IF Stands THEN CommitTo(t, heard)
          ELSE Broadcast(coord, heard) /\ UNCHANGED <<resume, sweep, coord, kept>>
  BY DEF Commit
<1>a. CASE ~(Stands /\ t # sel.was.tab)
  <2>1. coord' = coord /\ UNCHANGED <<sweep, kept>> /\ doc' = Hearing(doc, coord', heard)
    BY <1>a, <1>3 DEF CommitTo, Broadcast
  <2>2. \/ resume' = resume
        \/ coord.tab # None /\ resume' \in Resume /\ resume'.gen = coord.gen /\ resume'.seen = Seen(sweep[coord.tab], coord.gen)
    <3>1. CASE ~Stands BY <1>3, <3>1
    <3>2. CASE Stands
      <4>1. t = coord.tab BY <1>a, <3>2 DEF Stands
      <4>2. IF t = None THEN UNCHANGED resume ELSE SaveResume(coord, sel.saw[t], sweep)
        BY <1>a, <1>3, <3>2 DEF CommitTo
      <4> QED BY <1>1, <4>1, <4>2, SaveResumeIs DEF TypeInvariant
    <3> QED BY <3>1, <3>2
  <2>3. Calms BY <1>0, <2>1, BroadcastCalms DEF Commit, TypeInvariant
  <2>4. OneVoice' /\ doc' \in [Tabs -> Document] /\ \A s \in Tabs : doc'[s].gen \in 0..coord'.gen
    BY <2>1, <2>3, VoicesGive DEF Calms, TypeInvariant
  <2>5. rst' \in RestartOf /\ rst'.gen \in 0..coord'.gen
        /\ (rst' = rst \/ rst'.pc \in {"off", "selecting"} \/ (rst'.pc = "take" /\ rst'.tab # None))
    BY <2>1, CommitRestart DEF TypeInvariant, Lease
  <2>6. TypeInvariant'
    <3>1. resume' \in Resume /\ resume'.gen \in 0..coord'.gen BY <2>1, <2>2 DEF TypeInvariant, Lease
    <3>2. UNCHANGED <<at, showing, news, writing, told, check, reports, pass, accepted, fresh>> BY DEF Commit
    <3>3. sel'.was.gen \in 0..coord'.gen BY <1>2, <2>1 DEF TypeInvariant, Lease
    <3> QED BY <1>2, <2>1, <2>4, <2>5, <3>1, <3>2, <3>3 DEF TypeInvariant
  <2>7. RestartOwns' BY <2>1, <2>5, RestartStays
  <2>8. WorkIsOnAPage' BY <2>3, WorkStays DEF Commit
  <2>9. ToldIsKnown' BY ToldStays DEF Commit, ToldIsKnown
  <2>10. resume'.seen \subseteq accepted
    BY <2>2 DEF RoundIsTrue, Within, TypeInvariant, Lease
  <2>11. RoundIsTrue' BY <2>1, <2>3, <2>5, <2>10, RoundStays DEF Commit, Carries
  <2>12. KeptIsRecorded' BY <2>1, <2>2, KeptStays DEF Commit
  <2> QED BY <2>4, <2>6, <2>7, <2>8, <2>9, <2>11, <2>12
<1>b. CASE Stands /\ t # sel.was.tab
  <2>1. /\ coord' = NewLease(coord, t) /\ doc' = Hearing(doc, coord', heard)
        /\ sweep' = [s \in Tabs |-> IF s # t THEN NoRecord ELSE IF Restores(t)
                          THEN [gen |-> coord'.gen, seen |-> resume.seen] ELSE sweep[s]]
        /\ IF t = None THEN UNCHANGED resume ELSE SaveResume(coord', sel.saw[t], sweep')
        /\ kept' = IF sel.was.tab = None /\ resume.interrupted THEN kept ELSE {}
    BY <1>b, <1>3 DEF CommitTo, Broadcast
  <2>2. coord' \in Lease /\ coord'.tab = t /\ coord'.gen > coord.gen /\ Voices(doc, coord')
    BY <1>0, <1>1, <2>1, NewLeaseIs, OlderVoices DEF TypeInvariant
  <2>3. Calms BY <2>1, <2>2, BroadcastCalms DEF Commit
  <2>4. OneVoice' /\ doc' \in [Tabs -> Document] /\ \A s \in Tabs : doc'[s].gen \in 0..coord'.gen
    BY <2>2, <2>3, VoicesGive DEF Calms
  <2>5. rst' \in RestartOf /\ rst'.gen \in 0..coord'.gen
        /\ (rst' = rst \/ rst'.pc \in {"off", "selecting"} \/ (rst'.pc = "take" /\ rst'.tab # None))
    BY <2>2, CommitRestart DEF TypeInvariant, Lease
  <2>6. \A s \in Tabs : /\ sweep'[s] \in Record /\ sweep'[s].gen \in 0..coord'.gen
                        /\ Seen(sweep'[s], coord'.gen) \subseteq resume.seen
    <3> SUFFICES ASSUME NEW s \in Tabs
                 PROVE  /\ sweep'[s] \in Record /\ sweep'[s].gen \in 0..coord'.gen
                        /\ Seen(sweep'[s], coord'.gen) \subseteq resume.seen
      OBVIOUS
    <3>1. coord.gen \in Nat /\ coord'.gen \in Nat /\ resume.seen \subseteq Pages /\ sweep[s] \in Record
          /\ sweep[s].gen \in 0..coord.gen
      BY <2>2 DEF TypeInvariant, Lease, Resume
    <3>2. CASE sweep'[s] = NoRecord BY <3>1, <3>2, SeenIs DEF NoRecord
    <3>3. CASE sweep'[s] = [gen |-> coord'.gen, seen |-> resume.seen] BY <3>1, <3>3 DEF Record, Seen
    <3>4. CASE sweep'[s] = sweep[s] BY <2>2, <3>1, <3>4, SeenIs
    <3> QED BY <2>1, <3>2, <3>3, <3>4
  <2>7. sweep' \in [Tabs -> Record] BY <2>1, <2>6
  <2>8. \/ resume' = resume
        \/ resume' \in Resume /\ resume'.gen = coord'.gen /\ resume'.seen \subseteq resume.seen
    <3>1. CASE t = None BY <2>1, <3>1
    <3>2. CASE t # None
      <4>1. coord'.tab \in Tabs BY <1>1, <2>2, <3>2
      <4> QED BY <2>1, <2>2, <2>6, <2>7, <3>2, <4>1, SaveResumeIs
    <3> QED BY <3>1, <3>2
  <2>9. TypeInvariant'
    <3>1. resume' \in Resume /\ resume'.gen \in 0..coord'.gen BY <2>2, <2>8 DEF TypeInvariant, Lease
    <3>2. \A s \in Tabs : writing'[s].gen \in 0..coord'.gen
      <4>1. \A s \in Tabs : writing[s].gen \in 0..coord.gen BY DEF TypeInvariant
      <4>2. writing' = writing BY DEF Commit
      <4>3. coord.gen \in Nat /\ coord'.gen \in Nat BY <2>2 DEF TypeInvariant, Lease
      <4> QED BY <2>2, <4>1, <4>2, <4>3
    <3>3. ~check.paused /\ check' = check BY <1>b DEF Stands, Paused, Commit
    <3>4. kept' \subseteq Pages BY <2>1 DEF TypeInvariant
    <3>5. UNCHANGED <<at, showing, news, writing, told, check, reports, pass, accepted, fresh>> BY DEF Commit
    <3>6. sel'.was.gen \in 0..coord'.gen BY <1>2, <2>2 DEF Lease
    <3> QED BY <1>2, <2>2, <2>4, <2>5, <2>6, <2>7, <3>1, <3>2, <3>3, <3>4, <3>5, <3>6 DEF TypeInvariant
  <2>10. RestartOwns' BY <2>2, <2>5, RestartStays
  <2>11. WorkIsOnAPage' BY <2>3, WorkStays DEF Commit
  <2>12. ToldIsKnown' BY ToldStays DEF Commit, ToldIsKnown
  <2>13. RoundIsTrue'
    <3>1. rst'.pc = "reset" => rst'.gen # coord'.gen BY <2>2, <2>5 DEF TypeInvariant, Lease
    <3> QED BY <2>2, <2>3, <2>6, <2>8, <3>1, RoundBegins DEF Commit, RoundIsTrue
  <2>14. KeptIsRecorded'
    <3>1. CASE kept' = {} BY <3>1 DEF KeptIsRecorded
    <3>2. CASE kept' # {}
      <4>1. sel.was.tab = None /\ resume.interrupted /\ kept' = kept /\ coord.tab = None /\ ~check.paused
        BY <1>b, <2>1, <3>2 DEF Stands, Paused
      <4>2. t \in Tabs /\ Restores(t)
        <5>1. t # None BY <1>b, <4>1
        <5>2. resume # NoResume BY <4>1 DEF NoResume
        <5> QED BY <1>1, <4>1, <5>1, <5>2 DEF Restores
      <4>3. SeenNow(coord.tab)' = resume.seen
        BY <2>1, <2>2, <4>2 DEF SeenNow, Seen
      <4>4. kept \subseteq resume.seen /\ \A s \in Tabs : writing[s] = NoRecord
        BY Constants, <3>2, <4>1 DEF KeptIsRecorded
      <4> QED BY Constants, <2>2, <4>1, <4>2, <4>3, <4>4 DEF KeptIsRecorded, Commit
    <3> QED BY <3>1, <3>2
  <2> QED BY <2>4, <2>9, <2>10, <2>11, <2>12, <2>13, <2>14
<1> QED BY <1>a, <1>b

LEMMA RestartKeeps ==
    ASSUME CoordinatorInvariant, Restart
    PROVE  CoordinatorInvariant'
<1> USE DEF CoordinatorInvariant, browser, documents, storage, ghosts
<1>0. Voices(doc, coord) BY InvariantVoices
<1>1. TypeInvariant'
  <2>1. rst' = [pc |-> "selecting", tab |-> None, gen |-> 0, page |-> 0] BY DEF Restart, NoRestart
  <2>2. rst' \in RestartOf /\ rst'.gen \in 0..coord.gen
    BY <2>1 DEF RestartOf, Places, Away, TypeInvariant, Lease
  <2>3. UNCHANGED <<at, showing, news, doc, told, writing, check, resume, sweep, coord, reports, sel, pass, accepted, fresh, kept>>
    BY DEF Restart
  <2> QED BY <2>2, <2>3 DEF TypeInvariant
<1>2. Calms BY <1>0 DEF Restart, Calms
<1>3. OneVoice' BY <1>2, VoicesGive DEF Restart, Calms, TypeInvariant
<1>4. RestartOwns' BY RestartStays DEF Restart, NoRestart
<1>5. WorkIsOnAPage' BY <1>2, WorkStays DEF Restart
<1>6. ToldIsKnown' BY ToldStays DEF Restart, ToldIsKnown
<1>7. RoundIsTrue' BY <1>2, RoundStays DEF Restart, NoRestart, Carries, RoundIsTrue
<1>8. KeptIsRecorded' BY KeptStays DEF Restart
<1> QED BY <1>1, <1>3, <1>4, <1>5, <1>6, <1>7, <1>8

LEMMA TakeKeeps ==
    ASSUME CoordinatorInvariant, Take
    PROVE  CoordinatorInvariant'
<1> USE DEF CoordinatorInvariant, browser
<1>0. Voices(doc, coord) BY InvariantVoices
<1>a. CASE Paused \/ coord.gen # rst.gen
  <2>1. UNCHANGED <<at, showing, news, doc, told, writing, check, resume, sweep, coord, reports, sel, pass, accepted, kept>>
        /\ rst' = NoRestart /\ fresh' = {}
    BY <1>a DEF Take
  <2>2. Calms BY <1>0, <2>1 DEF Calms
  <2>3. rst' \in RestartOf /\ rst'.gen \in 0..coord.gen
    BY <2>1 DEF NoRestart, RestartOf, Places, Away, TypeInvariant, Lease
  <2>4. TypeInvariant' BY <2>1, <2>3 DEF TypeInvariant
  <2>5. OneVoice' BY <2>1 DEF OneVoice
  <2>6. RestartOwns' BY <2>1, RestartStays DEF NoRestart
  <2>7. WorkIsOnAPage' BY <2>1, <2>2, WorkStays
  <2>8. ToldIsKnown' BY <2>1, ToldStays DEF ToldIsKnown
  <2>9. RoundIsTrue' BY <2>1, <2>2, RoundStays DEF NoRestart, Carries, RoundIsTrue
  <2>10. KeptIsRecorded' BY <2>1, KeptStays
  <2> QED BY <2>4, <2>5, <2>6, <2>7, <2>8, <2>9, <2>10
<1>b. CASE ~(Paused \/ coord.gen # rst.gen)
  <2>1. /\ UNCHANGED <<at, showing, news, told, writing, check, resume, sweep, reports, sel, pass, accepted>>
        /\ coord' = NewLease(coord, rst.tab) /\ rst' = [rst EXCEPT !.pc = "reset", !.gen = coord'.gen]
        /\ fresh' = {} /\ kept' = {} /\ ~check.paused /\ rst.tab \in Tabs
    BY <1>b DEF Take, Paused, RestartOwns, TypeInvariant, RestartOf
  <2>2. coord' \in Lease /\ coord'.tab = rst.tab /\ coord'.gen > coord.gen /\ Voices(doc, coord')
    BY <1>0, <2>1, NewLeaseIs, OlderVoices DEF TypeInvariant
  <2>3. rst' = [pc |-> "reset", tab |-> rst.tab, gen |-> coord'.gen, page |-> rst.page]
        /\ rst' \in RestartOf /\ rst'.gen \in 0..coord'.gen
    <3>1. rst \in RestartOf /\ coord'.gen \in Nat BY <2>2 DEF TypeInvariant, Lease
    <3>2. rst' = [pc |-> "reset", tab |-> rst.tab, gen |-> coord'.gen, page |-> rst.page]
      BY <2>1, <3>1 DEF RestartOf
    <3> QED BY <3>1, <3>2 DEF RestartOf
  <2>4. Calms
    <3>1. PICK heard \in Hearers : doc' = [t \in Tabs |-> IF t \in heard /\ Open(t)
               THEN Applied(doc[t], [active |-> FALSE, gen |-> coord'.gen]) ELSE doc[t]]
      BY <1>b DEF Take
    <3>2. \A t \in Tabs : doc'[t] \in Document
             /\ (doc'[t] = doc[t] \/ doc'[t] = [active |-> FALSE, gen |-> coord'.gen, pc |-> "idle"])
      BY <2>2, <3>1, AppliedIs DEF TypeInvariant, Lease
    <3>3. doc' \in [Tabs -> Document] BY <3>1, <3>2
    <3>4. \A t \in Tabs : /\ doc'[t].gen <= coord'.gen
                          /\ doc'[t].active /\ doc'[t].gen = coord'.gen => coord'.tab = t
                          /\ doc'[t] = doc[t] \/ doc'[t].pc = "idle"
      BY <2>2, <3>2 DEF Voices, Lease
    <3> QED BY <2>1, <3>3, <3>4 DEF Calms, Voices
  <2>5. OneVoice' /\ doc' \in [Tabs -> Document] /\ \A s \in Tabs : doc'[s].gen \in 0..coord'.gen
    BY <2>2, <2>4, VoicesGive DEF Calms
  <2>6. \A g \in 0..coord.gen : g \in 0..coord'.gen BY <2>2 DEF TypeInvariant, Lease
  <2>7. TypeInvariant' BY <2>1, <2>2, <2>3, <2>5, <2>6 DEF TypeInvariant
  <2>8. RestartOwns' BY <2>2, <2>3, <2>1, Constants DEF RestartOwns
  <2>9. WorkIsOnAPage' BY <2>1, <2>4, WorkStays
  <2>10. ToldIsKnown' BY <2>1, ToldStays DEF ToldIsKnown
  <2>11. RoundIsTrue'
    <3>1. \A s \in Tabs : sweep'[s] \in Record /\ Seen(sweep'[s], coord'.gen) = {}
      <4>1. \A s \in Tabs : sweep[s] \in Record /\ sweep[s].gen # coord'.gen
        BY <2>2 DEF TypeInvariant, Record, Lease
      <4> QED BY <2>1, <2>2, <4>1, SeenIs DEF Lease
    <3> QED BY <2>1, <2>2, <2>4, <3>1, RoundBegins DEF RoundIsTrue
  <2>12. KeptIsRecorded' BY <2>1 DEF KeptIsRecorded
  <2> QED BY <2>5, <2>7, <2>8, <2>9, <2>10, <2>11, <2>12
<1> QED BY <1>a, <1>b

LEMMA ResetKeeps ==
    ASSUME CoordinatorInvariant, Reset
    PROVE  CoordinatorInvariant'
<1> USE DEF CoordinatorInvariant, browser, documents
<1>0. Voices(doc, coord) BY InvariantVoices
<1>1. UNCHANGED <<at, showing, news, doc, told, writing, check, coord, reports, sel, pass, kept>> /\ fresh' = {}
  BY DEF Reset
<1>2. Calms BY <1>0, <1>1 DEF Calms
<1>3. OneVoice' BY <1>1 DEF OneVoice
<1>4. WorkIsOnAPage' BY <1>1, <1>2, WorkStays
<1>5. ToldIsKnown' BY <1>1, ToldStays DEF ToldIsKnown
<1>a. CASE ~OwnsLease
  <2>1. rst' = NoRestart /\ UNCHANGED <<resume, sweep, accepted>> BY <1>a DEF Reset
  <2>2. rst' \in RestartOf /\ rst'.gen \in 0..coord.gen
    BY <2>1 DEF NoRestart, RestartOf, Places, Away, TypeInvariant, Lease
  <2>3. TypeInvariant' BY <1>1, <2>1, <2>2 DEF TypeInvariant
  <2>4. RestartOwns' BY <1>1, <2>1, RestartStays DEF NoRestart
  <2>5. RoundIsTrue' BY <1>1, <1>2, <2>1, RoundStays DEF NoRestart, Carries, RoundIsTrue
  <2>6. KeptIsRecorded' BY <1>1, <2>1, KeptStays
  <2> QED BY <1>3, <1>4, <1>5, <2>3, <2>4, <2>5, <2>6
<1>b. CASE OwnsLease
  <2>1. /\ sweep' = [sweep EXCEPT ![rst.tab] = NoRecord] /\ resume' = NoResume /\ accepted' = fresh
        /\ rst' = [rst EXCEPT !.pc = "navigate", !.page = at[rst.tab]]
        /\ rst.pc = "reset" /\ rst.tab \in Tabs /\ rst.gen = coord.gen
    BY <1>b DEF Reset, OwnsLease, RestartOwns, TypeInvariant, RestartOf
  <2>2. rst' = [pc |-> "navigate", tab |-> rst.tab, gen |-> rst.gen, page |-> at[rst.tab]]
        /\ rst' \in RestartOf
    BY <2>1 DEF TypeInvariant, RestartOf
  <2>3. NoResume \in Resume /\ NoResume.gen = 0 /\ NoResume.seen = {}
    BY Constants DEF NoResume, Resume
  <2>4. \A s \in Tabs : sweep'[s] \in {sweep[s], NoRecord} BY <2>1 DEF TypeInvariant
  <2>5. sweep' \in [Tabs -> Record] /\ \A s \in Tabs : sweep'[s].gen \in 0..coord.gen
    BY <2>1 DEF TypeInvariant, NoRecord, Record, Lease
  <2>6. TypeInvariant' BY <1>1, <2>1, <2>2, <2>3, <2>5 DEF TypeInvariant, Lease
  <2>7. RestartOwns' BY <1>1, <2>1, <2>2 DEF RestartOwns
  <2>8. Within(fresh) /\ kept = {} BY <2>1 DEF RoundIsTrue
  <2>9. \A s \in Tabs : Seen(sweep'[s], coord.gen) \subseteq Seen(sweep[s], coord.gen)
    BY <2>4, SeenIs DEF TypeInvariant, Lease
  <2>10. Within(accepted)' BY <1>1, <2>1, <2>8, <2>9 DEF Within
  <2>11. RoundIsTrue' BY <2>1, <2>2, <2>3, <2>10 DEF RoundIsTrue
  <2>12. KeptIsRecorded' BY <1>1, <2>8 DEF KeptIsRecorded
  <2> QED BY <1>3, <1>4, <1>5, <2>6, <2>7, <2>11, <2>12
<1> QED BY <1>a, <1>b

LEMMA NavigateKeeps ==
    ASSUME CoordinatorInvariant, Navigate
    PROVE  CoordinatorInvariant'
<1> USE DEF CoordinatorInvariant, storage, ghosts
<1>0. Voices(doc, coord) BY InvariantVoices
<1> DEFINE t == rst.tab
<1>1. UNCHANGED <<showing, news, told, check, resume, sweep, coord, reports, sel, pass, accepted, fresh, kept>>
      /\ rst' = NoRestart /\ t \in Tabs /\ rst.pc = "navigate"
  BY DEF Navigate, RestartOwns, TypeInvariant, RestartOf
<1>2. rst' \in RestartOf /\ rst'.gen \in 0..coord.gen
  BY <1>1 DEF NoRestart, RestartOf, Places, Away, TypeInvariant, Lease
<1>3. /\ Calms /\ \A s \in Tabs : at'[s] \in {at[s]} \union Pages /\ writing'[s] \in {writing[s], NoRecord}
      /\ at' \in [Tabs -> Places] /\ writing' \in [Tabs -> Record]
  <2>1. NoRecord \in Record BY DEF NoRecord, Record
  <2>2. at' \in {at, [at EXCEPT ![t] = 1]} /\ writing' \in {writing, [writing EXCEPT ![t] = NoRecord]}
    BY DEF Navigate
  <2>3. /\ \A s \in Tabs : at'[s] \in {at[s]} \union Pages /\ writing'[s] \in {writing[s], NoRecord}
        /\ at' \in [Tabs -> Places] /\ writing' \in [Tabs -> Record]
    <3>1. t \in Tabs /\ 1 \in Pages /\ 1 \in Places BY <1>1, Constants DEF Places
    <3>2. at' \in [Tabs -> Places] /\ \A s \in Tabs : at'[s] \in {at[s]} \union Pages
      BY <2>2, <3>1 DEF TypeInvariant
    <3>3. writing' \in [Tabs -> Record] /\ \A s \in Tabs : writing'[s] \in {writing[s], NoRecord}
      BY <2>1, <2>2, <3>1 DEF TypeInvariant
    <3> QED BY <3>2, <3>3
  <2>a. CASE at' = [at EXCEPT ![t] = 1] /\ doc' = [doc EXCEPT ![t] = NewDocument]
    <3>1. \A s \in Tabs : s # t => at'[s] = at[s] BY <2>a DEF TypeInvariant
    <3>2. coord' = coord /\ coord \in Lease BY <1>1 DEF TypeInvariant
    <3>3. Calms BY <1>0, <1>1, <2>a, <3>1, <3>2, ReloadCalms
    <3> QED BY <2>3, <3>3
  <2>b. CASE /\ doc[t].gen = rst.gen /\ doc[t].pc = "idle"
             /\ at' = [at EXCEPT ![t] = 1] /\ doc' = [doc EXCEPT ![t].active = TRUE]
    <3>1. doc'[t] = [active |-> TRUE, gen |-> doc[t].gen, pc |-> "idle"]
          /\ \A s \in Tabs : s # t => doc'[s] = doc[s] /\ at'[s] = at[s]
      BY <1>1, <2>b DEF TypeInvariant, Document
    <3>2. doc'[t] \in Document BY <1>1, <3>1 DEF TypeInvariant, Document
    <3>3. doc' \in [Tabs -> Document] BY <2>b, <3>1, <3>2 DEF TypeInvariant
    <3>4. doc'[t].gen <= coord.gen /\ (doc'[t].gen = coord.gen => coord.tab = t)
      BY <1>0, <1>1, <2>b, <3>1 DEF Voices, RestartOwns
    <3>5. Voices(doc', coord') BY <1>0, <1>1, <3>1, <3>3, <3>4 DEF Voices
    <3>6. doc'[t].pc = "idle" BY <3>1
    <3> QED BY <2>3, <3>1, <3>5, <3>6 DEF Calms
  <2>c. CASE at' = at /\ Broadcast(coord, {t})
    <3>1. coord' \in Lease /\ Voices(doc, coord') /\ doc' = Hearing(doc, coord', {t})
      BY <1>0, <1>1, <2>c DEF Broadcast, TypeInvariant
    <3> QED BY <2>3, <2>c, <3>1, BroadcastCalms
  <2> QED BY <2>a, <2>b, <2>c DEF Navigate
<1>4. OneVoice' /\ doc' \in [Tabs -> Document] /\ \A s \in Tabs : doc'[s].gen \in 0..coord'.gen
  BY <1>1, <1>3, VoicesGive DEF Calms, TypeInvariant
<1>5. \A s \in Tabs : writing'[s].gen \in 0..coord.gen
  BY <1>3 DEF NoRecord, TypeInvariant, Lease
<1>6. TypeInvariant' BY <1>1, <1>2, <1>3, <1>4, <1>5 DEF TypeInvariant
<1>7. RestartOwns' BY <1>1, RestartStays DEF NoRestart
<1>8. WorkIsOnAPage' BY <1>1, <1>3, WorkStays
<1>9. ToldIsKnown' BY <1>1, ToldStays DEF ToldIsKnown
<1>10. \A s \in Tabs : Carries(s)
  BY <1>1, <1>3, SeenIs DEF Carries, TypeInvariant, Lease
<1>11. RoundIsTrue' BY <1>1, <1>3, <1>10, RoundStays DEF NoRestart, RoundIsTrue
<1>12. KeptIsRecorded' BY <1>1, <1>3, KeptStays
<1> QED BY <1>4, <1>6, <1>7, <1>8, <1>9, <1>11, <1>12

-----------------------------------------------------------------------------
(* The document's work                                                     *)

(* A refusal costs a document its work, and makes no voice.                *)
LEMMA RefusedCalms ==
    ASSUME CoordinatorInvariant, NEW t \in Tabs, Refused(t), coord' = coord, at' = at
    PROVE  Calms
<1> USE DEF CoordinatorInvariant
<1>0. Voices(doc, coord) BY InvariantVoices
<1> DEFINE role == [active |-> coord.tab = t /\ Monitoring(at[t]), gen |-> coord.gen]
           d    == Applied(doc[t], role)
<1>1. d \in Document /\ (d = doc[t] \/ d = [active |-> coord.tab = t /\ Monitoring(at[t]), gen |-> coord.gen, pc |-> "idle"])
  BY AppliedIs DEF TypeInvariant, Lease
<1>2. doc' = [doc EXCEPT ![t] = [d EXCEPT !.pc = "idle"]] BY DEF Refused
<1>3. doc'[t] = [active |-> d.active, gen |-> d.gen, pc |-> "idle"] BY <1>1, <1>2 DEF TypeInvariant, Document
<1>4. \A s \in Tabs : s # t => doc'[s] = doc[s] BY <1>2 DEF TypeInvariant
<1>5. doc'[t] \in Document BY <1>1, <1>3 DEF Document
<1>6. doc' \in [Tabs -> Document] BY <1>2, <1>4, <1>5 DEF TypeInvariant
<1>7. d.gen <= coord.gen /\ (d.active /\ d.gen = coord.gen => coord.tab = t)
  <2>1. CASE d = doc[t] BY <1>0, <2>1 DEF Voices
  <2>2. CASE d = [active |-> coord.tab = t /\ Monitoring(at[t]), gen |-> coord.gen, pc |-> "idle"]
    <3>1. coord.gen \in Nat BY DEF TypeInvariant, Lease
    <3> HIDE DEF d
    <3>2. d.gen = coord.gen /\ (d.active => coord.tab = t) BY <2>2
    <3> QED BY <3>1, <3>2
  <2> QED BY <1>1, <2>1, <2>2
<1>8. doc'[t].active = d.active /\ doc'[t].gen = d.gen /\ doc'[t].pc = "idle" BY <1>3
<1>9. Voices(doc', coord') BY <1>0, <1>4, <1>6, <1>7, <1>8 DEF Voices
<1> QED BY <1>4, <1>8, <1>9 DEF Calms

LEMMA IdleCalms ==
    ASSUME CoordinatorInvariant, NEW t \in Tabs, Retries(t), coord' = coord,
           \A s \in Tabs : s # t => at'[s] = at[s]
    PROVE  Calms
<1>0. Voices(doc, coord) BY InvariantVoices
<1>1. /\ Voices(doc', coord')
      /\ doc'[t] = [active |-> doc[t].active, gen |-> doc[t].gen, pc |-> "idle"]
      /\ \A s \in Tabs : s # t => doc'[s] = doc[s]
  BY <1>0, WorkVoices DEF Retries
<1>2. doc'[t].pc = "idle" BY <1>1
<1> QED BY <1>1, <1>2 DEF Calms

(* Work that goes on, on the page where it is.                             *)
LEMMA WorkGoesOn ==
    ASSUME CoordinatorInvariant, NEW t \in Tabs, coord' = coord, UNCHANGED <<at, showing>>, Monitoring(at[t]),
           NEW pc \in {"idle", "sent", "saving", "saved", "read", "ended", "complete"}, Goes(t, pc)
    PROVE  /\ OneVoice' /\ WorkIsOnAPage' /\ doc' \in [Tabs -> Document]
           /\ \A s \in Tabs : doc'[s].gen \in 0..coord.gen /\ doc'[s].gen = doc[s].gen
           /\ \A s \in Tabs : doc'[s].pc = IF s = t THEN pc ELSE doc[s].pc
<1> USE DEF CoordinatorInvariant
<1>0. Voices(doc, coord) BY InvariantVoices
<1>1. /\ Voices(doc', coord')
      /\ doc'[t] = [active |-> doc[t].active, gen |-> doc[t].gen, pc |-> pc]
      /\ \A s \in Tabs : s # t => doc'[s] = doc[s]
  BY <1>0, WorkVoices
<1>2. OneVoice' /\ doc' \in [Tabs -> Document] /\ \A s \in Tabs : doc'[s].gen \in 0..coord.gen
  BY <1>1, VoicesGive DEF TypeInvariant
<1>3. doc'[t].gen = doc[t].gen /\ doc'[t].pc = pc BY <1>1
<1>4. WorkIsOnAPage' BY <1>1, <1>3 DEF WorkIsOnAPage, Monitoring, Open
<1> QED BY <1>1, <1>2, <1>3, <1>4

(* The checkpoint of the primary is of pages accepted.                     *)
LEMMA CheckpointIs ==
    ASSUME CoordinatorInvariant, NEW t \in Tabs, Authorized(t, doc[t].gen), NEW pg, SaveResume(coord, pg, sweep)
    PROVE  /\ coord.tab = t /\ coord.tab # None
           /\ resume' \in Resume /\ resume'.gen \in 0..coord.gen
           /\ resume'.seen \subseteq accepted
<1> USE DEF CoordinatorInvariant
<1>1. coord.tab = t /\ coord.tab # None /\ coord \in Lease /\ sweep \in [Tabs -> Record]
  BY Constants DEF Authorized, TypeInvariant
<1>2. resume' = resume \/ (resume' \in Resume /\ resume'.gen = coord.gen /\ resume'.seen = Seen(sweep[t], coord.gen))
  BY <1>1, SaveResumeIs
<1>3. Seen(sweep[t], coord.gen) \subseteq accepted /\ resume.seen \subseteq accepted BY DEF RoundIsTrue, Within
<1>4. resume \in Resume /\ resume.gen \in 0..coord.gen /\ coord.gen \in 0..coord.gen BY DEF TypeInvariant, Lease
<1> QED BY <1>1, <1>2, <1>3, <1>4

LEMMA ForwardKeeps ==
    ASSUME CoordinatorInvariant, NEW t \in Tabs, Forward(t)
    PROVE  CoordinatorInvariant'
<1> USE DEF CoordinatorInvariant
<1>1. UNCHANGED <<at, showing, news, told, writing, check, resume, sweep, coord, reports, sel, pass, rst, kept>>
      /\ Monitoring(at[t])
  BY DEF Forward, browser, storage, worker
<1>2. RestartOwns' BY <1>1, RestartStays
<1>3. ToldIsKnown' BY <1>1, ToldStays DEF ToldIsKnown
<1>4. KeptIsRecorded' BY <1>1, KeptStays
<1>a. CASE Posted(t) /\ Goes(t, "sent")
  <2>1. /\ OneVoice' /\ WorkIsOnAPage' /\ doc' \in [Tabs -> Document]
        /\ \A s \in Tabs : doc'[s].gen \in 0..coord.gen /\ doc'[s].gen = doc[s].gen
        /\ \A s \in Tabs : doc'[s].pc = IF s = t THEN "sent" ELSE doc[s].pc
    BY <1>1, <1>a, WorkGoesOn
  <2>2. accepted' = accepted \union {at[t]} /\ at[t] \in Pages
        /\ fresh' \in {fresh, fresh \union {at[t]}} /\ (rst.pc = "reset" => fresh' = fresh \union {at[t]})
    BY <1>1, <1>a DEF Posted, Monitoring
  <2>3. TypeInvariant' BY <1>1, <2>1, <2>2 DEF TypeInvariant
  <2>4. ASSUME NEW pages, Within(pages)
        PROVE  \A s \in Tabs :
                /\ Seen(sweep'[s], coord'.gen) \union Seen(writing'[s], coord'.gen) \subseteq pages \union {at[t]}
                /\ doc'[s].gen = coord'.gen =>
                      /\ doc'[s].pc = "sent" => at'[s] \in pages \union {at[t]}
                      /\ doc'[s].pc \in {"ended", "complete"} => Pages \subseteq pages \union {at[t]}
    BY <1>1, <2>1, <2>4 DEF Within
  <2>5. Within(accepted)' BY <2>2, <2>4 DEF Within, RoundIsTrue
  <2>6. rst.pc = "reset" /\ rst.gen = coord.gen => Within(fresh)' BY <2>2, <2>4 DEF Within, RoundIsTrue
  <2>7. RoundIsTrue' BY <1>1, <2>2, <2>5, <2>6 DEF RoundIsTrue
  <2> QED BY <1>2, <1>3, <1>4, <2>1, <2>3, <2>7
<1>b. CASE Refused(t) /\ UNCHANGED <<accepted, fresh>>
  <2>1. Calms BY <1>1, <1>b, RefusedCalms
  <2>2. OneVoice' /\ doc' \in [Tabs -> Document] /\ \A s \in Tabs : doc'[s].gen \in 0..coord'.gen
    BY <1>1, <2>1, VoicesGive DEF Calms, TypeInvariant
  <2>3. TypeInvariant' BY <1>1, <1>b, <2>2 DEF TypeInvariant
  <2>4. WorkIsOnAPage' BY <1>1, <2>1, WorkStays
  <2>5. RoundIsTrue' BY <1>1, <1>b, <2>1, RoundStays DEF Carries, RoundIsTrue
  <2> QED BY <1>2, <1>3, <1>4, <2>2, <2>3, <2>4, <2>5
<1> QED BY <1>a, <1>b DEF Forward

LEMMA AckKeeps ==
    ASSUME CoordinatorInvariant, NEW t \in Tabs, Ack(t)
    PROVE  CoordinatorInvariant'
<1> USE DEF CoordinatorInvariant
<1>1. UNCHANGED <<at, showing, news, told, check, resume, sweep, coord, reports, sel, pass, rst, accepted, fresh, kept>>
      /\ doc[t].pc = "sent" /\ Monitoring(at[t])
  BY DEF Ack, At, WorkIsOnAPage, browser, storage, worker, ghosts
<1>2. RestartOwns' BY <1>1, RestartStays
<1>3. ToldIsKnown' BY <1>1, ToldStays DEF ToldIsKnown
<1>a. CASE Authorized(t, doc[t].gen) /\ IsCurrent(t)
  <2> DEFINE record == [gen |-> doc[t].gen, seen |-> Seen(sweep[t], doc[t].gen) \union {at[t]}]
  <2>1. writing' = [writing EXCEPT ![t] = record] /\ Goes(t, "saving") BY <1>a DEF Ack
  <2>2. coord.tab = t /\ coord.gen = doc[t].gen /\ at[t] \in Pages BY <1>1, <1>a DEF Authorized, Monitoring
  <2>3. /\ OneVoice' /\ WorkIsOnAPage' /\ doc' \in [Tabs -> Document]
        /\ \A s \in Tabs : doc'[s].gen \in 0..coord.gen /\ doc'[s].gen = doc[s].gen
        /\ \A s \in Tabs : doc'[s].pc = IF s = t THEN "saving" ELSE doc[s].pc
    BY <1>1, <2>1, WorkGoesOn
  <2>4. record \in Record /\ record.gen = coord.gen /\ record.seen = Seen(sweep[t], coord.gen) \union {at[t]}
        /\ Seen(record, coord.gen) = Seen(sweep[t], coord.gen) \union {at[t]}
    BY <2>2, SeenIs DEF TypeInvariant, Record, Seen, Lease
  <2>5. writing' \in [Tabs -> Record] /\ \A s \in Tabs : writing'[s] = IF s = t THEN record ELSE writing[s]
    BY <2>1, <2>4 DEF TypeInvariant
  <2>6. \A s \in Tabs : writing'[s].gen \in 0..coord.gen BY <2>4, <2>5 DEF TypeInvariant, Lease
  <2>7. TypeInvariant' BY <1>1, <2>3, <2>5, <2>6 DEF TypeInvariant
  <2>8. ASSUME NEW pages, Within(pages)
        PROVE  \A s \in Tabs :
                /\ Seen(sweep'[s], coord'.gen) \union Seen(writing'[s], coord'.gen) \subseteq pages
                /\ doc'[s].gen = coord'.gen =>
                      /\ doc'[s].pc = "sent" => at'[s] \in pages
                      /\ doc'[s].pc \in {"ended", "complete"} => Pages \subseteq pages
    <3>1. Seen(sweep[t], coord.gen) \union {at[t]} \subseteq pages BY <1>1, <2>2, <2>8 DEF Within
    <3>2. \A s \in Tabs : Seen(sweep[s], coord.gen) \union Seen(writing'[s], coord.gen) \subseteq pages
      BY <2>4, <2>5, <2>8, <3>1 DEF Within
    <3>3. \A s \in Tabs : doc[s].gen = coord.gen =>
              /\ doc'[s].pc = "sent" => at[s] \in pages
              /\ doc'[s].pc \in {"ended", "complete"} => Pages \subseteq pages
      BY <2>3, <2>8 DEF Within
    <3> QED BY <1>1, <2>3, <3>2, <3>3
  <2>9. Within(accepted)' BY <1>1, <2>8 DEF Within, RoundIsTrue
  <2>10. rst.pc = "reset" /\ rst.gen = coord.gen => Within(fresh)' BY <1>1, <2>8 DEF Within, RoundIsTrue
  <2>11. RoundIsTrue' BY <1>1, <2>9, <2>10 DEF RoundIsTrue
  <2>12. KeptIsRecorded'
    <3>1. kept \subseteq IF coord.tab = None THEN resume.seen ELSE SeenNow(coord.tab) BY DEF KeptIsRecorded
    <3>2. SeenNow(coord.tab) = Seen(sweep[t], coord.gen) /\ coord.tab # None BY <2>2, Constants DEF SeenNow
    <3>3. kept \subseteq record.seen BY <2>4, <3>1, <3>2
    <3>4. (IF coord.tab = None THEN resume.seen ELSE SeenNow(coord.tab))'
            = IF coord.tab = None THEN resume.seen ELSE SeenNow(coord.tab)
      BY <1>1 DEF SeenNow
    <3>5. kept = {} \/ check.paused \/ \A s \in Tabs : writing'[s] # NoRecord =>
              coord.tab = s /\ writing'[s].gen = coord.gen /\ kept \subseteq writing'[s].seen
      BY <2>2, <2>4, <2>5, <3>3 DEF KeptIsRecorded
    <3> QED BY <1>1, <3>1, <3>4, <3>5 DEF KeptIsRecorded
  <2> QED BY <1>2, <1>3, <2>3, <2>7, <2>11, <2>12
<1>b. CASE Refused(t) /\ UNCHANGED writing
  <2>1. Calms BY <1>1, <1>b, RefusedCalms
  <2>2. OneVoice' /\ doc' \in [Tabs -> Document] /\ \A s \in Tabs : doc'[s].gen \in 0..coord'.gen
    BY <1>1, <2>1, VoicesGive DEF Calms, TypeInvariant
  <2>3. TypeInvariant' BY <1>1, <1>b, <2>2 DEF TypeInvariant
  <2>4. WorkIsOnAPage' BY <1>1, <2>1, WorkStays
  <2>5. RoundIsTrue' BY <1>1, <1>b, <2>1, RoundStays DEF Carries, RoundIsTrue
  <2>6. KeptIsRecorded' BY <1>1, <1>b, KeptStays
  <2> QED BY <1>2, <1>3, <2>2, <2>3, <2>4, <2>5, <2>6
<1> QED BY <1>a, <1>b DEF Ack

LEMMA LandKeeps ==
    ASSUME CoordinatorInvariant, NEW t \in Tabs, Land(t)
    PROVE  CoordinatorInvariant'
<1> USE DEF CoordinatorInvariant
<1>0. Voices(doc, coord) BY InvariantVoices
<1>1. /\ UNCHANGED <<at, showing, news, told, check, resume, coord, reports, sel, pass, rst, accepted, fresh, kept>>
      /\ writing' = [writing EXCEPT ![t] = NoRecord] /\ sweep' = [sweep EXCEPT ![t] = writing[t]]
      /\ writing[t] # NoRecord
  BY DEF Land, browser, worker, ghosts
<1>2. RestartOwns' BY <1>1, RestartStays
<1>3. ToldIsKnown' BY <1>1, ToldStays DEF ToldIsKnown
<1>4. /\ OneVoice' /\ WorkIsOnAPage' /\ doc' \in [Tabs -> Document]
      /\ \A s \in Tabs : doc'[s].gen \in 0..coord.gen /\ doc'[s].gen = doc[s].gen
      /\ \A s \in Tabs : doc'[s].pc # doc[s].pc => doc'[s].pc = "saved"
  <2>1. CASE doc' = doc
    <3>1. OneVoice' /\ WorkIsOnAPage' BY <1>1, <2>1 DEF OneVoice, WorkIsOnAPage, Monitoring, Open
    <3> QED BY <2>1, <3>1 DEF TypeInvariant
  <2>2. CASE At(t, "saving") /\ Goes(t, "saved")
    <3>1. Monitoring(at[t]) BY <2>2 DEF At, WorkIsOnAPage
    <3> QED BY <1>1, <2>2, <3>1, WorkGoesOn
  <2> QED BY <2>1, <2>2 DEF Land
<1>5. /\ writing' \in [Tabs -> Record] /\ sweep' \in [Tabs -> Record]
      /\ \A s \in Tabs : writing'[s] = (IF s = t THEN NoRecord ELSE writing[s])
                         /\ sweep'[s] = (IF s = t THEN writing[t] ELSE sweep[s])
  <2>1. NoRecord \in Record BY DEF NoRecord, Record
  <2> QED BY <1>1, <2>1 DEF TypeInvariant
<1>6. \A s \in Tabs : writing'[s].gen \in 0..coord.gen /\ sweep'[s].gen \in 0..coord.gen
  <2>1. NoRecord.gen \in 0..coord.gen BY DEF NoRecord, TypeInvariant, Lease
  <2> QED BY <1>5, <2>1 DEF TypeInvariant
<1>7. TypeInvariant' BY <1>1, <1>4, <1>5, <1>6 DEF TypeInvariant
<1>8. \A s \in Tabs : Carries(s)
  <2>1. Seen(NoRecord, coord.gen) = {} BY SeenIs DEF TypeInvariant, Lease
  <2> QED BY <1>1, <1>5, <2>1 DEF Carries
<1>9. ASSUME NEW pages, Within(pages)
      PROVE  \A s \in Tabs :
                /\ Seen(sweep'[s], coord'.gen) \union Seen(writing'[s], coord'.gen) \subseteq pages
                /\ doc'[s].gen = coord'.gen =>
                      /\ doc'[s].pc = "sent" => at'[s] \in pages
                      /\ doc'[s].pc \in {"ended", "complete"} => Pages \subseteq pages
  <2>1. \A s \in Tabs : Seen(sweep'[s], coord'.gen) \union Seen(writing'[s], coord'.gen) \subseteq pages
    BY <1>8, <1>9 DEF Carries, Within
  <2>2. \A s \in Tabs : doc[s].gen = coord.gen =>
            /\ doc'[s].pc = "sent" => at[s] \in pages
            /\ doc'[s].pc \in {"ended", "complete"} => Pages \subseteq pages
    BY <1>4, <1>9 DEF Within
  <2> QED BY <1>1, <1>4, <2>1, <2>2
<1>10. Within(accepted)' BY <1>1, <1>9 DEF Within, RoundIsTrue
<1>11. rst.pc = "reset" /\ rst.gen = coord.gen => Within(fresh)' BY <1>1, <1>9 DEF Within, RoundIsTrue
<1>12. RoundIsTrue' BY <1>1, <1>10, <1>11 DEF RoundIsTrue
<1>13. KeptIsRecorded'
  <2>1. CASE kept = {} BY <1>1, <2>1 DEF KeptIsRecorded
  <2>2. CASE check.paused
    <3>1. coord.tab = None BY <2>2 DEF TypeInvariant
    <3> QED BY <1>1, <2>2, <3>1 DEF KeptIsRecorded
  <2>3. CASE kept # {} /\ ~check.paused
    <3>1. \A s \in Tabs : writing[s] # NoRecord =>
              coord.tab = s /\ writing[s].gen = coord.gen /\ kept \subseteq writing[s].seen
      BY <2>3 DEF KeptIsRecorded
    <3>2. coord.tab = t /\ coord.tab # None /\ writing[t].gen = coord.gen /\ kept \subseteq writing[t].seen
      BY <1>1, <3>1, Constants
    <3>3. SeenNow(coord.tab)' = writing[t].seen BY <1>1, <1>5, <3>2 DEF SeenNow, Seen
    <3>4. \A s \in Tabs : writing'[s] = NoRecord BY <1>5, <3>1, <3>2
    <3> QED BY <1>1, <3>2, <3>3, <3>4 DEF KeptIsRecorded
  <2> QED BY <2>1, <2>2, <2>3
<1> QED BY <1>2, <1>3, <1>4, <1>7, <1>12, <1>13

(* A checkpoint, or the end of a round, by a document that goes on.        *)
LEMMA ReportKeepsRound ==
    ASSUME CoordinatorInvariant, NEW t \in Tabs,
           UNCHANGED <<browser, told, writing, check, sweep, coord, worker, ghosts>>,
           Monitoring(at[t]), NEW pc \in {"idle", "read", "complete"}, Goes(t, pc),
           pc = "complete" => doc[t].pc = "ended",
           resume' = resume \/ (Authorized(t, doc[t].gen) /\ SaveResume(coord, at[t], sweep))
    PROVE  CoordinatorInvariant'
<1> USE DEF CoordinatorInvariant, browser, worker, ghosts
<1>1. /\ OneVoice' /\ WorkIsOnAPage' /\ doc' \in [Tabs -> Document]
      /\ \A s \in Tabs : doc'[s].gen \in 0..coord.gen /\ doc'[s].gen = doc[s].gen
      /\ \A s \in Tabs : doc'[s].pc = IF s = t THEN pc ELSE doc[s].pc
  BY WorkGoesOn
<1>2. /\ resume' \in Resume /\ resume'.gen \in 0..coord.gen /\ resume'.seen \subseteq accepted
      /\ coord.tab = None => resume' = resume
  <2>1. CASE resume' = resume BY <2>1 DEF RoundIsTrue, TypeInvariant
  <2>2. CASE Authorized(t, doc[t].gen) /\ SaveResume(coord, at[t], sweep) BY <2>2, CheckpointIs
  <2> QED BY <2>1, <2>2
<1>3. TypeInvariant' BY <1>1, <1>2 DEF TypeInvariant
<1>4. RestartOwns' BY RestartStays
<1>5. ToldIsKnown' BY ToldStays DEF ToldIsKnown
<1>6. ASSUME NEW pages, Within(pages)
      PROVE  \A s \in Tabs :
                /\ Seen(sweep'[s], coord'.gen) \union Seen(writing'[s], coord'.gen) \subseteq pages
                /\ doc'[s].gen = coord'.gen =>
                      /\ doc'[s].pc = "sent" => at'[s] \in pages
                      /\ doc'[s].pc \in {"ended", "complete"} => Pages \subseteq pages
  BY <1>1, <1>6 DEF Within
<1>7. Within(accepted)' BY <1>6 DEF Within, RoundIsTrue
<1>8. rst.pc = "reset" /\ rst.gen = coord.gen => Within(fresh)' BY <1>6 DEF Within, RoundIsTrue
<1>9. RoundIsTrue' BY <1>2, <1>7, <1>8 DEF RoundIsTrue
<1>10. KeptIsRecorded' BY <1>2, KeptStays
<1> QED BY <1>1, <1>3, <1>4, <1>5, <1>9, <1>10

LEMMA CheckpointKeeps ==
    ASSUME CoordinatorInvariant, NEW t \in Tabs, Checkpoint(t)
    PROVE  CoordinatorInvariant'
<1>1. Monitoring(at[t]) BY DEF CoordinatorInvariant, WorkIsOnAPage, Checkpoint, At
<1> QED BY <1>1, ReportKeepsRound DEF Checkpoint, Retries

LEMMA AnnounceKeeps ==
    ASSUME CoordinatorInvariant, NEW t \in Tabs, Announce(t)
    PROVE  CoordinatorInvariant'
<1>1. Monitoring(at[t]) /\ doc[t].pc = "ended" BY DEF CoordinatorInvariant, WorkIsOnAPage, Announce, At
<1> QED BY <1>1, ReportKeepsRound DEF Announce, Completed, Retries

(* Numbers have a least one.                                               *)
LEMMA LeastNat == ASSUME NEW S \in SUBSET Nat, S # {} PROVE \E p \in S : \A q \in S : p <= q
<1>1. IsWellFoundedOn(OpToRel(<, Nat), Nat) BY NatLessThanWellFounded
<1>2. PICK p \in S : \A q \in S : ~ (<<q, p>> \in OpToRel(<, Nat)) BY <1>1, WFMin
<1>3. \A q \in S : ~(q < p) BY <1>2 DEF OpToRel
<1> QED BY <1>3

(* Of pages not seen, one is the first.                                    *)
LEMMA FirstUnseen ==
    ASSUME NEW t, Unseen(t) # {}
    PROVE  (CHOOSE p \in Unseen(t) : \A q \in Unseen(t) : p <= q) \in Pages
<1>1. Unseen(t) \subseteq Nat BY Constants DEF Unseen
<1>2. \E p \in Unseen(t) : \A q \in Unseen(t) : p <= q BY <1>1, LeastNat
<1> QED BY <1>2 DEF Unseen

LEMMA TurnKeeps ==
    ASSUME CoordinatorInvariant, NEW t \in Tabs, Turn(t)
    PROVE  CoordinatorInvariant'
<1> USE DEF CoordinatorInvariant
<1>0. Voices(doc, coord) BY InvariantVoices
<1>1. UNCHANGED <<showing, news, told, check, resume, coord, reports, sel, pass, rst, accepted, fresh>>
      /\ doc[t].pc = "read" /\ Monitoring(at[t])
  BY DEF Turn, At, WorkIsOnAPage, worker
<1>2. RestartOwns' BY <1>1, RestartStays
<1>3. ToldIsKnown' BY <1>1, ToldStays DEF ToldIsKnown
<1>4. coord \in Lease /\ NoRecord \in Record /\ NoRecord.gen \in 0..coord.gen /\ Seen(NoRecord, coord.gen) = {}
  BY SeenIs DEF NoRecord, Record, TypeInvariant, Lease
<1>a. ASSUME UNCHANGED <<sweep, kept>>, at' \in [Tabs -> Places], \A s \in Tabs : s # t => at'[s] = at[s],
             at'[t] \in {at[t]} \union Pages, writing' \in {writing, [writing EXCEPT ![t] = NoRecord]},
             Retries(t) \/ doc' = [doc EXCEPT ![t] = NewDocument]
      PROVE  CoordinatorInvariant'
  <2>1. Calms BY <1>0, <1>1, <1>4, <1>a, IdleCalms, ReloadCalms
  <2>2. OneVoice' /\ doc' \in [Tabs -> Document] /\ \A s \in Tabs : doc'[s].gen \in 0..coord'.gen
    BY <1>1, <1>4, <2>1, VoicesGive DEF Calms
  <2>3. writing' \in [Tabs -> Record] /\ \A s \in Tabs : writing'[s] \in {writing[s], NoRecord}
    BY <1>4, <1>a DEF TypeInvariant
  <2>4. \A s \in Tabs : writing'[s].gen \in 0..coord.gen BY <1>4, <2>3 DEF TypeInvariant
  <2>5. TypeInvariant' BY <1>1, <1>a, <2>2, <2>3, <2>4 DEF TypeInvariant
  <2>6. WorkIsOnAPage' BY <1>1, <1>a, <2>1, WorkStays
  <2>7. \A s \in Tabs : Carries(s) BY <1>1, <1>4, <1>a, <2>3 DEF Carries
  <2>8. RoundIsTrue' BY <1>1, <1>a, <2>1, <2>7, RoundStays DEF RoundIsTrue
  <2>9. KeptIsRecorded' BY <1>1, <1>a, <2>3, KeptStays
  <2> QED BY <1>2, <1>3, <2>2, <2>5, <2>6, <2>8, <2>9
<1>b. CASE ~IsCurrent(t)
  <2>1. Retries(t) /\ UNCHANGED <<at, sweep, writing, kept>> BY <1>b DEF Turn
  <2> QED BY <1>a, <2>1 DEF TypeInvariant
<1>c. CASE IsCurrent(t) /\ Unseen(t) # {}
  <2> DEFINE p == CHOOSE p \in Unseen(t) : \A q \in Unseen(t) : p <= q
  <2>1. /\ at' = [at EXCEPT ![t] = p] /\ UNCHANGED <<sweep, kept>>
        /\ \/ Retries(t) /\ UNCHANGED writing
           \/ doc' = [doc EXCEPT ![t] = NewDocument] /\ writing' = [writing EXCEPT ![t] = NoRecord]
    BY <1>c DEF Turn
  <2>2. p \in Pages BY FirstUnseen, <1>c
  <2> HIDE DEF p
  <2>3. at' \in [Tabs -> Places] /\ at'[t] = p /\ \A s \in Tabs : s # t => at'[s] = at[s]
    BY <2>1, <2>2 DEF TypeInvariant, Places
  <2> QED BY <1>a, <2>1, <2>2, <2>3
<1>d. CASE IsCurrent(t) /\ Unseen(t) = {}
  <2>1. sweep' = [sweep EXCEPT ![t] = NoRecord] /\ kept' = {} /\ Goes(t, "ended") /\ UNCHANGED <<at, writing>>
    BY <1>d DEF Turn
  <2>2. /\ OneVoice' /\ WorkIsOnAPage' /\ doc' \in [Tabs -> Document]
        /\ \A s \in Tabs : doc'[s].gen \in 0..coord.gen /\ doc'[s].gen = doc[s].gen
        /\ \A s \in Tabs : doc'[s].pc = IF s = t THEN "ended" ELSE doc[s].pc
    BY <1>1, <2>1, WorkGoesOn
  <2>3. sweep' \in [Tabs -> Record] /\ \A s \in Tabs : sweep'[s] \in {sweep[s], NoRecord}
    BY <1>4, <2>1 DEF TypeInvariant
  <2>4. \A s \in Tabs : sweep'[s].gen \in 0..coord.gen BY <1>4, <2>3 DEF TypeInvariant
  <2>5. TypeInvariant' BY <1>1, <2>1, <2>2, <2>3, <2>4 DEF TypeInvariant
  <2>6. doc[t].gen = coord.gen => Pages \subseteq Seen(sweep[t], coord.gen) BY <1>d DEF Unseen
  <2>7. ASSUME NEW pages, Within(pages)
        PROVE  \A s \in Tabs :
                /\ Seen(sweep'[s], coord'.gen) \union Seen(writing'[s], coord'.gen) \subseteq pages
                /\ doc'[s].gen = coord'.gen =>
                      /\ doc'[s].pc = "sent" => at'[s] \in pages
                      /\ doc'[s].pc \in {"ended", "complete"} => Pages \subseteq pages
    <3>1. \A s \in Tabs : Seen(sweep'[s], coord.gen) \union Seen(writing[s], coord.gen) \subseteq pages
      BY <1>4, <2>3, <2>7 DEF Within
    <3>2. \A s \in Tabs : doc[s].gen = coord.gen =>
              /\ doc'[s].pc = "sent" => at[s] \in pages
              /\ doc'[s].pc \in {"ended", "complete"} => Pages \subseteq pages
      BY <2>2, <2>6, <2>7 DEF Within
    <3> QED BY <1>1, <2>1, <2>2, <3>1, <3>2
  <2>8. Within(accepted)' BY <1>1, <2>7 DEF Within, RoundIsTrue
  <2>9. rst.pc = "reset" /\ rst.gen = coord.gen => Within(fresh)' BY <1>1, <2>7 DEF Within, RoundIsTrue
  <2>10. RoundIsTrue' BY <1>1, <2>1, <2>8, <2>9 DEF RoundIsTrue
  <2>11. KeptIsRecorded' BY <2>1 DEF KeptIsRecorded
  <2> QED BY <1>2, <1>3, <2>2, <2>5, <2>10, <2>11
<1> QED BY <1>b, <1>c, <1>d

LEMMA UnusableKeeps ==
    ASSUME CoordinatorInvariant, NEW t \in Tabs, Unusable(t)
    PROVE  CoordinatorInvariant'
<1> USE DEF CoordinatorInvariant
<1>0. Voices(doc, coord) BY InvariantVoices
<1>1. UNCHANGED <<showing, news, check, resume, coord, pass, rst, accepted, fresh>> BY DEF Unusable
<1>a. CASE Selects("document", t) /\ UNCHANGED <<at, writing, sweep, kept>>
  BY <1>1, <1>a, SelectsKeeps DEF browser, storage, ghosts
<1>b. CASE /\ sweep' = [sweep EXCEPT ![t] = NoRecord] /\ at' = [at EXCEPT ![t] = 1] /\ kept' = {}
           /\ doc' = [doc EXCEPT ![t] = NewDocument] /\ writing' = [writing EXCEPT ![t] = NoRecord]
           /\ UNCHANGED <<told, reports, sel>>
  <2>1. coord \in Lease /\ NoRecord \in Record /\ NoRecord.gen \in 0..coord.gen /\ Seen(NoRecord, coord.gen) = {}
    BY SeenIs DEF NoRecord, Record, TypeInvariant, Lease
  <2>2. at' \in [Tabs -> Places] /\ at'[t] = 1 /\ 1 \in Pages /\ \A s \in Tabs : s # t => at'[s] = at[s]
    BY <1>b, Constants DEF TypeInvariant, Places
  <2>3. Calms BY <1>0, <1>1, <1>b, <2>1, <2>2, ReloadCalms
  <2>4. OneVoice' /\ doc' \in [Tabs -> Document] /\ \A s \in Tabs : doc'[s].gen \in 0..coord'.gen
    BY <1>1, <2>1, <2>3, VoicesGive DEF Calms
  <2>5. /\ writing' \in [Tabs -> Record] /\ \A s \in Tabs : writing'[s] \in {writing[s], NoRecord}
        /\ sweep' \in [Tabs -> Record] /\ \A s \in Tabs : sweep'[s] \in {sweep[s], NoRecord}
    BY <1>b, <2>1 DEF TypeInvariant
  <2>6. \A s \in Tabs : writing'[s].gen \in 0..coord.gen /\ sweep'[s].gen \in 0..coord.gen
    BY <2>1, <2>5 DEF TypeInvariant
  <2>7. TypeInvariant' BY <1>1, <1>b, <2>2, <2>4, <2>5, <2>6 DEF TypeInvariant
  <2>8. RestartOwns' BY <1>1, RestartStays
  <2>9. WorkIsOnAPage'
    <3>1. \A s \in Tabs : at'[s] \in {at[s]} \union Pages BY <2>2
    <3> QED BY <1>1, <2>3, <3>1, WorkStays
  <2>10. ToldIsKnown' BY <1>1, <1>b, ToldStays DEF ToldIsKnown
  <2>11. \A s \in Tabs : Carries(s) BY <1>1, <2>1, <2>5 DEF Carries
  <2>12. RoundIsTrue' BY <1>1, <1>b, <2>3, <2>11, RoundStays DEF RoundIsTrue
  <2>13. KeptIsRecorded' BY <1>b DEF KeptIsRecorded
  <2> QED BY <2>4, <2>7, <2>8, <2>9, <2>10, <2>12, <2>13
<1> QED BY <1>a, <1>b DEF Unusable

-----------------------------------------------------------------------------
(* The browser and the user                                                *)

(* A tab that loads a page of the catalogue, or leaves it.                 *)
LEMMA LoadKeeps ==
    ASSUME CoordinatorInvariant, NEW t \in Tabs, NEW p \in Places, Load(t, p),
           news' \subseteq Tabs, UNCHANGED <<storage, worker, ghosts>>,
           \/ showing' = [showing EXCEPT ![t] = FALSE]
           \/ showing' = showing /\ showing = [s \in Tabs |-> FALSE]
    PROVE  CoordinatorInvariant'
<1> USE DEF CoordinatorInvariant, storage, worker, ghosts
<1>0. Voices(doc, coord) BY InvariantVoices
<1>1. /\ at' = [at EXCEPT ![t] = p] /\ doc' = [doc EXCEPT ![t] = NewDocument]
      /\ told' = [told EXCEPT ![t] = FALSE] /\ writing' = [writing EXCEPT ![t] = NoRecord]
  BY DEF Load
<1>2. coord \in Lease /\ NoRecord \in Record /\ NoRecord.gen \in 0..coord.gen /\ Seen(NoRecord, coord.gen) = {}
  BY SeenIs DEF NoRecord, Record, TypeInvariant, Lease
<1>3. at' \in [Tabs -> Places] /\ \A s \in Tabs : s # t => at'[s] = at[s] BY <1>1 DEF TypeInvariant
<1>4. Calms BY <1>0, <1>1, <1>2, <1>3, ReloadCalms
<1>5. OneVoice' /\ doc' \in [Tabs -> Document] /\ \A s \in Tabs : doc'[s].gen \in 0..coord'.gen
  BY <1>2, <1>4, VoicesGive DEF Calms
<1>6. writing' \in [Tabs -> Record] /\ \A s \in Tabs : writing'[s] \in {writing[s], NoRecord}
  BY <1>1, <1>2 DEF TypeInvariant
<1>7. \A s \in Tabs : writing'[s].gen \in 0..coord.gen BY <1>2, <1>6 DEF TypeInvariant
<1>8. /\ showing' \in [Tabs -> BOOLEAN] /\ told' \in [Tabs -> BOOLEAN]
      /\ \A s \in Tabs : /\ showing'[s] => showing[s] /\ s # t
                         /\ told'[s] => told[s] /\ s # t
                         /\ s # t => showing'[s] = showing[s]
  BY <1>1 DEF TypeInvariant
<1>9. TypeInvariant' BY <1>3, <1>5, <1>6, <1>7, <1>8 DEF TypeInvariant
<1>10. RestartOwns' BY RestartStays
<1>11. WorkIsOnAPage' BY <1>3, <1>4, <1>8, WorkStays
<1>12. \A s \in Tabs : told'[s] => showing'[s] /\ told[s] BY <1>8 DEF ToldIsKnown
<1>13. ToldIsKnown' BY <1>12, ToldStays
<1>14. \A s \in Tabs : Carries(s) BY <1>2, <1>6 DEF Carries
<1>15. RoundIsTrue' BY <1>4, <1>14, RoundStays DEF RoundIsTrue
<1>16. KeptIsRecorded' BY <1>6, KeptStays
<1> QED BY <1>5, <1>9, <1>10, <1>11, <1>13, <1>15, <1>16

LEMMA UserMovesKeeps ==
    ASSUME CoordinatorInvariant, NEW t \in Tabs, CloseTab(t) \/ Wander(t) \/ Return(t)
    PROVE  CoordinatorInvariant'
<1>1. Closed \in Places /\ Away \in Places /\ 1 \in Places BY Constants DEF Places
<1>2. ASSUME NEW p \in Places, UserMoves(t, p) PROVE CoordinatorInvariant'
  BY <1>2, LoadKeeps DEF UserMoves, CoordinatorInvariant, TypeInvariant
<1> QED BY <1>1, <1>2 DEF CloseTab, Wander, Return

LEMMA OpenReviewerKeeps ==
    ASSUME CoordinatorInvariant, NEW t \in Tabs, OpenReviewer(t)
    PROVE  CoordinatorInvariant'
<1> USE DEF CoordinatorInvariant
<1>1. showing = [s \in Tabs |-> FALSE] BY DEF OpenReviewer, Quiet, WorkIsOnAPage, TypeInvariant
<1>2. resume.page \in Places /\ 1 \in Places BY Constants DEF TypeInvariant, Resume, Places, Away, Pages
<1>3. PICK p \in Places : Load(t, p) BY <1>2 DEF OpenReviewer
<1> QED BY <1>1, <1>3, LoadKeeps DEF OpenReviewer, TypeInvariant

(* A check appears or is solved.                                           *)
LEMMA CheckKeeps ==
    ASSUME CoordinatorInvariant, NEW t \in Tabs, Challenge(t) \/ Solve(t)
    PROVE  CoordinatorInvariant'
<1> USE DEF CoordinatorInvariant, storage, worker, ghosts, documents
<1>0. Voices(doc, coord) BY InvariantVoices
<1>1. UNCHANGED <<at, news, doc, writing, storage, worker, ghosts>> BY DEF Challenge, Solve
<1>2. Calms BY <1>0, <1>1 DEF Calms
<1>3. /\ showing' \in [Tabs -> BOOLEAN] /\ told' \in [Tabs -> BOOLEAN]
      /\ \A s \in Tabs : told'[s] => told[s] /\ showing'[s]
      /\ \A s \in Tabs : showing'[s] => showing[s] \/ Open(s)
  BY DEF Challenge, Solve, TypeInvariant, ToldIsKnown
<1>4. TypeInvariant' BY <1>1, <1>3 DEF TypeInvariant
<1>5. OneVoice' BY <1>1 DEF OneVoice
<1>6. RestartOwns' BY <1>1, RestartStays
<1>7. WorkIsOnAPage' BY <1>1, <1>3 DEF WorkIsOnAPage, Open, Monitoring
<1>8. ToldIsKnown' BY <1>1, <1>3, ToldStays
<1>9. RoundIsTrue' BY <1>1, <1>2, RoundStays DEF Carries, RoundIsTrue
<1>10. KeptIsRecorded' BY <1>1, KeptStays
<1> QED BY <1>4, <1>5, <1>6, <1>7, <1>8, <1>9, <1>10

LEMMA HearKeeps ==
    ASSUME CoordinatorInvariant, NEW t \in Tabs, Hear(t)
    PROVE  CoordinatorInvariant'
<1> USE DEF CoordinatorInvariant, worker, documents
<1>0. Voices(doc, coord) BY InvariantVoices
<1>1. UNCHANGED <<at, showing, doc, told, writing, check, reports, sel, pass, rst, accepted, fresh>> /\ news' \subseteq Tabs
  BY DEF Hear, TypeInvariant
<1>2. coord \in Lease /\ NoRecord \in Record /\ NoRecord.gen \in 0..coord.gen BY DEF NoRecord, Record, TypeInvariant, Lease
<1>3. /\ sweep' \in [Tabs -> Record]
      /\ \A s \in Tabs : sweep'[s] = sweep[s] \/ (s = t /\ at[t] = Closed /\ sweep'[s] = NoRecord)
  BY <1>2 DEF Hear, TypeInvariant
<1>4. \A s \in Tabs : sweep'[s].gen \in 0..coord.gen BY <1>2, <1>3 DEF TypeInvariant
<1>5. ToldIsKnown' BY <1>1, ToldStays DEF ToldIsKnown
<1> DEFINE Lost == coord.tab = t /\ (at[t] = Closed \/ (~Paused /\ ~Monitoring(at[t])))
<1>a. CASE ~Lost
  <2>1. UNCHANGED <<resume, coord, kept>> BY <1>a DEF Hear
  <2>2. Calms BY <1>0, <1>1, <2>1 DEF Calms
  <2>3. TypeInvariant' BY <1>1, <1>3, <1>4, <2>1 DEF TypeInvariant
  <2>4. OneVoice' BY <1>1, <2>1 DEF OneVoice
  <2>5. RestartOwns' BY <1>1, <2>1, RestartStays
  <2>6. WorkIsOnAPage' BY <1>1, <2>2, WorkStays
  <2>7. \A s \in Tabs : Carries(s) BY <1>1, <1>2, <1>3, <2>1, SeenIs DEF Carries, Lease
  <2>8. RoundIsTrue' BY <1>1, <2>1, <2>2, <2>7, RoundStays DEF RoundIsTrue
  <2>9. KeptIsRecorded' BY <1>1, <1>3, <1>a, <2>1, KeptStays
  <2> QED BY <1>5, <2>3, <2>4, <2>5, <2>6, <2>8, <2>9
<1>b. CASE Lost
  <2>1. coord' = NewLease(coord, None) /\ kept' = {} BY <1>b DEF Hear
  <2>2. coord' \in Lease /\ coord'.tab = None /\ coord'.gen > coord.gen /\ Voices(doc, coord')
    BY <1>0, <1>2, <2>1, NewLeaseIs, OlderVoices
  <2>3. resume' = resume \/ (resume' \in Resume /\ resume'.gen = coord.gen /\ resume'.seen = Seen(sweep[t], coord.gen))
    <3>1. resume' = resume \/ SaveResume(coord, resume.page, sweep) BY <1>b DEF Hear
    <3> QED BY <1>2, <1>b, <3>1, SaveResumeIs DEF TypeInvariant
  <2>4. resume'.seen \subseteq accepted BY <2>3 DEF RoundIsTrue, Within
  <2>5. Calms BY <1>1, <2>2 DEF Calms
  <2>6. OneVoice' BY <2>2, <2>5, VoicesGive DEF Calms
  <2>7. \A g \in 0..coord.gen : g \in 0..coord'.gen BY <1>2, <2>2 DEF Lease
  <2>8. resume' \in Resume /\ resume'.gen \in 0..coord.gen BY <1>2, <2>3 DEF TypeInvariant, Lease
  <2>9. TypeInvariant' BY <1>1, <1>3, <1>4, <2>1, <2>2, <2>7, <2>8 DEF TypeInvariant
  <2>10. RestartOwns' BY <1>1, <2>2, RestartStays
  <2>11. WorkIsOnAPage' BY <1>1, <2>5, WorkStays
  <2>12. \A s \in Tabs : sweep'[s] \in Record /\ Seen(sweep'[s], coord'.gen) = {}
    <3>1. \A s \in Tabs : sweep'[s] \in Record /\ sweep'[s].gen # coord'.gen BY <1>2, <1>3, <1>4, <2>2 DEF Lease
    <3> QED BY <2>2, <3>1, SeenIs DEF Lease
  <2>13. RoundIsTrue' BY <1>1, <2>1, <2>2, <2>4, <2>5, <2>12, RoundBegins
  <2>14. KeptIsRecorded' BY <2>1 DEF KeptIsRecorded
  <2> QED BY <1>5, <2>6, <2>9, <2>10, <2>11, <2>13, <2>14
<1> QED BY <1>a, <1>b

LEMMA WorkerStopKeeps ==
    ASSUME CoordinatorInvariant, WorkerStop
    PROVE  CoordinatorInvariant'
<1> USE DEF CoordinatorInvariant, browser, storage, ghosts
<1>1. UNCHANGED <<at, showing, news, writing, check, resume, sweep, coord, accepted, fresh, kept>>
      /\ reports' = {} /\ sel' = NoSelection /\ pass' = NoPass /\ rst' = NoRestart
      /\ told' = [t \in Tabs |-> told[t] /\ t \notin reports]
  BY DEF WorkerStop
<1>2. \A t \in Tabs : /\ doc'[t] \in Document /\ doc'[t].active = doc[t].active /\ doc'[t].gen = doc[t].gen
                      /\ doc'[t].pc = "idle" \/ doc'[t].pc = doc[t].pc
                         \/ (doc'[t].pc = "complete" /\ doc[t].pc = "ended")
  BY DEF WorkerStop, TypeInvariant, Document
<1>3. doc' \in [Tabs -> Document] BY <1>2 DEF WorkerStop
<1>4. sel' \in Selection /\ sel'.was.gen = 0
  <2>1. [tab |-> None, gen |-> 0] \in Lease /\ [s \in Tabs |-> Unborn] \in [Tabs -> Places] BY DEF Lease, Places
  <2> QED BY <1>1, <2>1 DEF NoSelection, Selection
<1>5. rst' \in RestartOf /\ rst'.gen = 0 BY <1>1 DEF NoRestart, RestartOf, Places, Away
<1>6. 0 \in 0..coord.gen BY DEF TypeInvariant, Lease
<1>7. told' \in [Tabs -> BOOLEAN]
      /\ pass' \in [on : BOOLEAN, todo : SUBSET Tabs, ready : SUBSET Tabs, other : BOOLEAN]
  BY <1>1 DEF NoPass, TypeInvariant
<1>8. TypeInvariant' BY <1>1, <1>2, <1>3, <1>4, <1>5, <1>6, <1>7 DEF TypeInvariant
<1>9. OneVoice' BY <1>1, <1>2 DEF OneVoice
<1>10. RestartOwns' BY <1>1, RestartStays DEF NoRestart
<1>11. WorkIsOnAPage' BY <1>1, <1>2 DEF WorkIsOnAPage, Monitoring, Open
<1>12. ToldIsKnown' BY <1>1 DEF ToldIsKnown, NoPass
<1>13. RoundIsTrue' BY <1>1, <1>2 DEF RoundIsTrue, Within, NoRestart
<1>14. KeptIsRecorded' BY <1>1, KeptStays
<1> QED BY <1>8, <1>9, <1>10, <1>11, <1>12, <1>13, <1>14

LEMMA StutterKeeps ==
    ASSUME CoordinatorInvariant, UNCHANGED vars
    PROVE  CoordinatorInvariant'
BY DEF CoordinatorInvariant, vars, browser, documents, storage, worker, ghosts, TypeInvariant, OneVoice,
       RestartOwns, WorkIsOnAPage, ToldIsKnown, RoundIsTrue, Within, KeptIsRecorded, SeenNow, Monitoring, Open

LEMMA NextKeeps ==
    ASSUME CoordinatorInvariant, [Next]_vars
    PROVE  CoordinatorInvariant'
<1>1. CASE AskRole
  <2>1. PICK t \in Reviewers : Selects("document", None) BY <1>1 DEF AskRole
  <2> QED BY <1>1, <2>1, SelectsKeeps DEF AskRole
<1>2. CASE RestartSelects BY <1>2, SelectsKeeps DEF RestartSelects
<1>3. ASSUME NEW t \in Tabs, Report(t) \/ Pause(t) \/ PassProbes(t) PROVE CoordinatorInvariant'
  BY <1>3, ReportKeeps, PauseKeeps, PassProbesKeeps
<1>4. CASE PassBegins \/ PassEnds \/ Commit \/ Restart \/ Take \/ Reset \/ Navigate \/ WorkerStop
  BY <1>4, PassBeginsKeeps, PassEndsKeeps, CommitKeeps, RestartKeeps, TakeKeeps, ResetKeeps, NavigateKeeps,
     WorkerStopKeeps
<1>5. ASSUME NEW t \in Tabs, Forward(t) \/ Ack(t) \/ Land(t) \/ Checkpoint(t) \/ Turn(t) \/ Announce(t) \/ Unusable(t)
      PROVE  CoordinatorInvariant'
  BY <1>5, ForwardKeeps, AckKeeps, LandKeeps, CheckpointKeeps, TurnKeeps, AnnounceKeeps, UnusableKeeps
<1>6. ASSUME NEW t \in Tabs,
             Challenge(t) \/ Solve(t) \/ CloseTab(t) \/ Wander(t) \/ Return(t) \/ Hear(t) \/ OpenReviewer(t)
      PROVE  CoordinatorInvariant'
  BY <1>6, CheckKeeps, UserMovesKeeps, HearKeeps, OpenReviewerKeeps
<1>7. CASE UNCHANGED vars BY <1>7, StutterKeeps
<1> QED BY <1>1, <1>2, <1>3, <1>4, <1>5, <1>6, <1>7 DEF Next

-----------------------------------------------------------------------------
(* Theorems about the main scan                                            *)

(* In every reachable state documents speak under the lease of now only    *)
(* for its owner, a restart owns the lease it took, reported checks are    *)
(* known, records say what was accepted, and what a check interrupted is   *)
(* recorded.                                                               *)
THEOREM CoordinatorInvariantHolds == Spec => []CoordinatorInvariant
BY InitKeeps, NextKeeps, PTL DEF Spec

(* A document that acts under the lease of now is the primary's, and a     *)
(* check that was reported keeps the scan paused for as long as it shows.  *)
THEOREM LeaseIsOneTabs == Spec => []LeaseInvariant
<1>1. CoordinatorInvariant => LeaseInvariant
  BY DEF CoordinatorInvariant, LeaseInvariant, NoCheckIsForgotten, ToldIsKnown, Paused
<1> QED BY <1>1, CoordinatorInvariantHolds, PTL

(* A page counts as seen only if the notifier accepted it in the round,    *)
(* and what was checkpointed before a check stays recorded.                *)
THEOREM ProgressStaysTrue == Spec => []ProgressIsTrue
<1>1. CoordinatorInvariant => ProgressIsTrue
  <2> SUFFICES ASSUME CoordinatorInvariant PROVE ProgressIsTrue OBVIOUS
  <2> USE DEF CoordinatorInvariant
  <2>1. \A t \in Tabs : SeenNow(t) \subseteq accepted /\ resume.seen \subseteq accepted
    BY DEF RoundIsTrue, Within, SeenNow
  <2>2. coord.tab \in Tabs \union {None} /\ accepted \subseteq Pages BY DEF TypeInvariant, Lease
  <2>3. \A t \in Tabs : doc[t].pc = "complete" /\ doc[t].gen = coord.gen => accepted = Pages
    BY <2>2 DEF RoundIsTrue, Within
  <2>4. kept \subseteq IF coord.tab = None THEN resume.seen ELSE SeenNow(coord.tab) BY DEF KeptIsRecorded
  <2>5. LET current == IF coord.tab = None THEN {} ELSE SeenNow(coord.tab)
        IN  resume.seen \union current \subseteq accepted /\ kept \subseteq resume.seen \union current
    <3>1. CASE coord.tab = None
      <4>1. resume.seen \subseteq accepted BY DEF RoundIsTrue
      <4> QED BY <2>4, <3>1, <4>1
    <3>2. CASE coord.tab # None BY <2>1, <2>2, <2>4, <3>2
    <3> QED BY <3>1, <3>2
  <2> QED BY <2>3, <2>5 DEF ProgressIsTrue, At
<1> QED BY <1>1, CoordinatorInvariantHolds, PTL

(* A step that takes a tab back from a page of the user's is the user's.   *)
LEMMA AwayStays ==
    ASSUME CoordinatorInvariant, [Next]_vars, NEW t \in Tabs, at[t] = Away, at'[t] # Away
    PROVE  Return(t) \/ CloseTab(t)
<1> USE DEF CoordinatorInvariant
<1>1. ~Monitoring(at[t]) BY Constants DEF Monitoring
<1>2. at' # at OBVIOUS
<1>3. ASSUME NEW s \in Tabs, NEW p, at' = [at EXCEPT ![s] = p] PROVE s = t BY <1>3 DEF TypeInvariant
<1>4. CASE Navigate
  <2>1. at' = [at EXCEPT ![rst.tab] = 1] /\ Monitoring(at[rst.tab]) /\ rst.tab \in Tabs
    BY <1>2, <1>4 DEF Navigate, SamePage, RestartOwns, TypeInvariant, RestartOf
  <2> QED BY <1>1, <1>3, <2>1
<1>5. ASSUME NEW s \in Tabs, Turn(s) PROVE FALSE
  <2>1. Monitoring(at[s]) BY <1>5 DEF Turn, At, WorkIsOnAPage
  <2>2. \E p : at' = [at EXCEPT ![s] = p] BY <1>2, <1>5 DEF Turn
  <2> QED BY <1>1, <1>3, <2>1, <2>2
<1>6. ASSUME NEW s \in Tabs, Unusable(s) PROVE FALSE
  <2>1. Monitoring(at[s]) BY <1>6 DEF Unusable, Authorized
  <2>2. at' = [at EXCEPT ![s] = 1] BY <1>2, <1>6 DEF Unusable
  <2> QED BY <1>1, <1>3, <2>1, <2>2
<1>7. ASSUME NEW s \in Tabs, OpenReviewer(s) PROVE FALSE
  <2>1. at[s] = Unborn \/ Monitoring(at[s]) BY <1>7 DEF OpenReviewer
  <2>2. \E p : at' = [at EXCEPT ![s] = p] BY <1>7 DEF OpenReviewer, Load
  <2> QED BY <1>1, <1>3, <2>1, <2>2, Constants
<1>8. ASSUME NEW s \in Tabs, CloseTab(s) \/ Wander(s) \/ Return(s) PROVE Return(t) \/ CloseTab(t)
  <2>1. \E p : at' = [at EXCEPT ![s] = p] BY <1>8 DEF CloseTab, Wander, Return, UserMoves, Load
  <2>2. s = t BY <1>3, <2>1
  <2> QED BY <1>1, <1>8, <2>2 DEF Wander
<1>9. ASSUME NEW s \in Tabs, Report(s) \/ Pause(s) \/ PassProbes(s) \/ Forward(s) \/ Ack(s) \/ Land(s) \/ Checkpoint(s)
                             \/ Announce(s) \/ Challenge(s) \/ Solve(s) \/ Hear(s)
      PROVE  FALSE
  BY <1>2, <1>9 DEF Report, Pause, PassProbes, Forward, Ack, Land, Checkpoint, Announce, Challenge, Solve, Hear, browser
<1>10. CASE PassBegins \/ PassEnds \/ AskRole \/ Commit \/ Restart \/ RestartSelects \/ Take \/ Reset \/ WorkerStop
  BY <1>2, <1>10 DEF PassBegins, PassEnds, AskRole, Commit, Restart, RestartSelects, Take, Reset, WorkerStop, browser
<1>11. CASE UNCHANGED vars BY <1>2, <1>11 DEF vars, browser
<1> QED BY <1>4, <1>5, <1>6, <1>7, <1>8, <1>9, <1>10, <1>11 DEF Next

(* A tab the user took elsewhere is brought back, or closed, by the user.  *)
THEOREM UserKeepsTheirTab == Spec => UserKeepsTheTab
<1>1. CoordinatorInvariant /\ [Next]_vars
        => [\A t \in Tabs : at[t] = Away /\ at'[t] # Away => Return(t) \/ CloseTab(t)]_vars
  BY AwayStays
<1> QED BY <1>1, CoordinatorInvariantHolds, PTL DEF Spec, UserKeepsTheTab

-----------------------------------------------------------------------------
(* Settings                                                                *)

(* Merging adds keys to a form, and replaces those it has.                 *)
LEMMA MergedIs ==
    ASSUME NEW A, NEW B, NEW old, NEW new, old \in FormOf(A), new \in FormOf(B)
    PROVE  /\ Merged(old, new) \in FormOf(A \union B)
           /\ \A k \in B : Merged(old, new)[k] = new[k]
           /\ \A k \in A \ B : Merged(old, new)[k] = old[k]
BY DEF Merged, FormOf

LEMMA OnlyIs ==
    ASSUME NEW A, NEW B, NEW v, v \in FormOf(A), B \subseteq A
    PROVE  Only(v, B) \in FormOf(B) /\ \A k \in B : Only(v, B)[k] = v[k]
<1>1. DOMAIN v = A /\ A \cap B = B BY DEF FormOf
<1> QED BY <1>1 DEF Only, FormOf

(* Two forms of other keys stay what they were when merged.                *)
LEMMA MergedApart ==
    ASSUME NEW A, NEW B, NEW old \in FormOf(A), NEW new \in FormOf(B), A \cap B = {}
    PROVE  Only(Merged(old, new), A) = old /\ Only(Merged(old, new), B) = new
<1>1. /\ Merged(old, new) \in FormOf(A \union B)
      /\ \A k \in B : Merged(old, new)[k] = new[k]
      /\ \A k \in A \ B : Merged(old, new)[k] = old[k] BY MergedIs
<1> DEFINE m == Merged(old, new)
<1>2. /\ Only(m, A) \in FormOf(A) /\ \A k \in A : Only(m, A)[k] = m[k]
      /\ Only(m, B) \in FormOf(B) /\ \A k \in B : Only(m, B)[k] = m[k]
  BY <1>1, OnlyIs
<1>3. \A k \in A : Only(m, A)[k] = old[k] BY <1>1, <1>2
<1>4. \A k \in B : Only(m, B)[k] = new[k] BY <1>1, <1>2
<1> HIDE DEF m
<1>5. Only(m, A) = old BY <1>2, <1>3 DEF FormOf
<1>6. Only(m, B) = new BY <1>2, <1>4 DEF FormOf
<1> QED BY <1>5, <1>6 DEF m

LEMMA NoneMerged ==
    ASSUME NEW A, NEW v \in FormOf(A)
    PROVE  Merged(NoKeys, v) = v /\ Merged(v, NoKeys) = v
<1>1. NoKeys \in FormOf({}) /\ A \union {} = A /\ {} \union A = A /\ A \ {} = A BY DEF NoKeys, FormOf
<1>2. /\ Merged(NoKeys, v) \in FormOf(A) /\ \A k \in A : Merged(NoKeys, v)[k] = v[k]
  BY <1>1, MergedIs
<1>3. /\ Merged(v, NoKeys) \in FormOf(A) /\ \A k \in A : Merged(v, NoKeys)[k] = v[k]
  BY <1>1, MergedIs
<1> QED BY <1>2, <1>3 DEF FormOf

(* The keys of the two files are all keys, each of one file.               *)
LEMMA KeysAre ==
    /\ KeysOf("scanner") = ScannerKeys /\ KeysOf("relay") = RelayKeys
    /\ Keys = ScannerKeys \union RelayKeys /\ ScannerKeys \cap RelayKeys = {}
    /\ \A f \in Names : KeysOf(f) \subseteq Keys
    /\ Names = {"scanner", "relay"}
BY ControlConstants DEF KeysOf, Keys, Names

(* A file that is there holds a value for each of its keys.                *)
LEMMA FileIs ==
    ASSUME ControlTypes, NEW f \in Names
    PROVE  /\ HasFile(f) => files[f] \in File(f) /\ files[f].v \in FormOf(KeysOf(f))
           /\ HasFile(f) <=> files[f].is = "ok"
BY DEF ControlTypes, HasFile, File, Missing, Bad, FormOf

(* The save of a page writes a whole file, and changes only what its owner *)
(* changed in the form.                                                    *)
LEMMA MergeIs ==
    ASSUME SettingsInvariant, NEW p \in OptionsPages, NEW f \in Names,
           page[p].step = IF f = "scanner" THEN "put" ELSE "putRelay"
    PROVE  /\ Merge(p, f) \in FormOf(KeysOf(f)) /\ page[p].latest \in FormOf(KeysOf(f))
           /\ \A k \in KeysOf(f) : Merge(p, f)[k] # page[p].latest[k] =>
                                     page[p].form[k] # page[p].loaded[k]
<1> DEFINE mine == Changed(p) \cap KeysOf(f)
<1>1. /\ page[p].form \in FormOf(Keys) /\ page[p].loaded \in FormOf(Keys)
      /\ page[p].latest \in FormOf(KeysOf(f))
  BY KeysAre DEF SettingsInvariant, AllIsWhole, PageIsWhole
<1>2. mine \subseteq Keys /\ mine \subseteq KeysOf(f) /\ KeysOf(f) \union mine = KeysOf(f) BY KeysAre
<1>3. \A k \in mine : page[p].form[k] # page[p].loaded[k] BY <1>1 DEF Changed, FormOf
<1>4. Changes(p, f) = Only(page[p].form, mine) BY DEF Changes
<1> HIDE DEF mine
<1>5. Changes(p, f) \in FormOf(mine) BY <1>1, <1>2, <1>4, OnlyIs
<1>6. /\ Merge(p, f) \in FormOf(KeysOf(f))
      /\ \A k \in KeysOf(f) \ mine : Merge(p, f)[k] = page[p].latest[k]
  BY <1>1, <1>2, <1>5, MergedIs DEF Merge
<1> QED BY <1>1, <1>3, <1>6

-----------------------------------------------------------------------------
(* Steps of the pages, the owner and the synchronization                   *)

(* A file that is written anew is a file.                                  *)
LEMMA FilesStay ==
    ASSUME SettingsInvariant, NEW f \in Names, NEW new,
           new \in File(f) \union {Missing, Bad}, files' = [files EXCEPT ![f] = new]
    PROVE  /\ \A g \in Names : files'[g] = IF g = f THEN new ELSE files[g]
           /\ \A g \in Names : files'[g] \in File(g) \union {Missing, Bad}
           /\ files' \in [Names -> File("scanner") \union File("relay") \union {Missing, Bad}]
           /\ \A g \in Names \ {f} : HasFile(g)' = HasFile(g)
<1>1. files \in [Names -> File("scanner") \union File("relay") \union {Missing, Bad}]
      /\ \A g \in Names : files[g] \in File(g) \union {Missing, Bad}
  BY DEF SettingsInvariant, AllIsWhole, ControlTypes
<1>2. File(f) \subseteq File("scanner") \union File("relay") BY DEF Names
<1>3. \A g \in Names : files'[g] = IF g = f THEN new ELSE files[g] BY <1>1
<1>4. files' \in [Names -> File("scanner") \union File("relay") \union {Missing, Bad}] BY <1>1, <1>2
<1> QED BY <1>1, <1>3, <1>4 DEF HasFile

(* What still holds of the files, still holds of what was read of them.    *)
LEMMA CurrentStays ==
    ASSUME \A v : \A g \in Names : Holds(g, v) => Holds(g, v)',
           \A g \in Names : g \in edited \/ HasFile(g) => g \in edited' \/ HasFile(g)'
    PROVE  /\ \A q : PageIsCurrent(q) => PageIsCurrent(q)'
           /\ \A sync : sync.file \in Names /\ SyncIsCurrent(sync) => SyncIsCurrent(sync)'
<1>1. {"scanner", "relay"} \subseteq Names BY DEF Names
<1>2. \A v : \A g \in Names : Written(g, v) => Written(g, v)' BY DEF Written
<1>3. ASSUME NEW q, PageIsCurrent(q) PROVE PageIsCurrent(q)' BY <1>1, <1>2, <1>3 DEF PageIsCurrent
<1>4. ASSUME NEW sync, sync.file \in Names, SyncIsCurrent(sync) PROVE SyncIsCurrent(sync)'
  BY <1>2, <1>4 DEF SyncIsCurrent
<1> QED BY <1>3, <1>4

(* The owner's edit is remembered as one.                                  *)
LEMMA EditKeeps ==
    ASSUME SettingsInvariant, NEW f \in Names, EditFile(f)
    PROVE  SettingsInvariant'
<1> USE DEF SettingsInvariant
<1>1. PICK new \in File(f) \union {Bad} : files' = [files EXCEPT ![f] = new] BY DEF EditFile
<1>2. /\ \A g \in Names \ {f} : files'[g] = files[g] /\ HasFile(g)' = HasFile(g)
      /\ \A g \in Names : files'[g] \in File(g) \union {Missing, Bad}
      /\ files' \in [Names -> File("scanner") \union File("relay") \union {Missing, Bad}]
  BY <1>1, FilesStay
<1>3. /\ cache' = cache /\ lock' = lock /\ page' = page /\ syncing' = syncing
      /\ edited' = edited \union {f} /\ cached' = cached \ {f}
  BY DEF EditFile
<1>4. ControlTypes'
  <2>1. \A g \in Names : (files[g] \in File(g) \union {Missing, Bad})' BY <1>2 DEF File, Missing, Bad, KeysOf
  <2>2. edited' \subseteq Names /\ cached' \subseteq Names BY <1>3 DEF ControlTypes
  <2> QED BY <1>3, <2>1, <2>2 DEF ControlTypes
<1>5. AllIsWhole' BY <1>2, <1>3 DEF AllIsWhole, PageIsWhole
<1>6. LockIsHeld' BY <1>3 DEF LockIsHeld
<1>7. \A v : \A g \in Names : Holds(g, v) => Holds(g, v)' BY <1>2, <1>3 DEF Holds
<1>8. \A g \in Names : g \in edited \/ HasFile(g) => g \in edited' \/ HasFile(g)' BY <1>2, <1>3
<1>9. ReadsAreCurrent'
  <2>1. /\ \A q : PageIsCurrent(q) => PageIsCurrent(q)'
        /\ \A sync : sync.file \in Names /\ SyncIsCurrent(sync) => SyncIsCurrent(sync)'
    BY <1>7, <1>8, CurrentStays
  <2>2. PICK pg, sync : pg = page /\ sync = syncing OBVIOUS
  <2>3. \A p \in OptionsPages : PageIsCurrent(pg[p])' BY <2>1, <2>2 DEF ReadsAreCurrent
  <2>4. SyncIsCurrent(sync)'
    <3>1. CASE sync.file = "none" BY <3>1 DEF SyncIsCurrent
    <3>2. CASE sync.file # "none"
      <4>1. sync.file \in Names BY <2>2, <3>2 DEF AllIsWhole
      <4> QED BY <2>1, <2>2, <4>1 DEF ReadsAreCurrent
    <3> QED BY <3>1, <3>2
  <2>5. pg = page' /\ sync = syncing' BY <1>3, <2>2
  <2> QED BY <2>3, <2>4, <2>5 DEF ReadsAreCurrent
<1>10. CacheIsCurrent' BY <1>2, <1>3 DEF CacheIsCurrent, ControlTypes
<1> QED BY <1>4, <1>5, <1>6, <1>9, <1>10

(* What is known of the state.                                            *)
LEMMA Typed ==
    ASSUME SettingsInvariant
    PROVE  /\ page \in [OptionsPages -> PageForm]
           /\ \A p \in OptionsPages : PageIsWhole(page[p]) /\ PageIsCurrent(page[p]) /\ page[p] \in PageForm
           /\ syncing \in [file : Names \union {"none"}, v : OneFile] /\ SyncIsCurrent(syncing)
           /\ cache \in FormOf(Keys) /\ edited \subseteq Names /\ cached \subseteq Names
           /\ \A f \in cached : HasFile(f) /\ Only(cache, KeysOf(f)) = files[f].v
BY DEF SettingsInvariant, AllIsWhole, ReadsAreCurrent, ControlTypes, CacheIsCurrent, FormOf

(* While a page holds the lock, or nobody, all others rest.                *)
LEMMA OthersRest ==
    ASSUME SettingsInvariant, NEW p \in OptionsPages, lock \in {p, Free}
    PROVE  /\ \A r \in OptionsPages \ {p} : page[r].step \in {"closed", "open"}
           /\ syncing.file = "none"
BY ControlConstants DEF SettingsInvariant, LockIsHeld, Free

(* A step of the page that holds the lock, takes it or lets it go.         *)
FilesAreFiles ==
    /\ \A g \in Names : files[g] \in File(g) \union {Missing, Bad}
    /\ files \in [Names -> File("scanner") \union File("relay") \union {Missing, Bad}]
Moves(p, q) ==
    /\ lock \in {p, Free} /\ page' = [page EXCEPT ![p] = q] /\ syncing' = syncing
    /\ PageIsWhole(q)
    /\ q.step \notin {"closed", "open"} <=> lock' = p
    /\ lock' \in {p, Free} /\ cache' \in FormOf(Keys)
    /\ edited' \subseteq Names /\ cached' \subseteq Names
    /\ lock' # Free => edited' \cap cached' = {}
LEMMA PageKeeps ==
    ASSUME SettingsInvariant, NEW p \in OptionsPages, NEW q, Moves(p, q), PageIsCurrent(q)',
           FilesAreFiles', CacheIsCurrent'
    PROVE  SettingsInvariant'
<1> USE DEF Moves, FilesAreFiles
<1>1. /\ \A r \in OptionsPages \ {p} : page[r].step \in {"closed", "open"}
      /\ syncing.file = "none"
  BY OthersRest
<1>2. /\ page \in [OptionsPages -> PageForm] /\ q \in PageForm
      /\ \A r \in OptionsPages : PageIsWhole(page[r])
      /\ syncing \in [file : Names \union {"none"}, v : OneFile]
  BY Typed DEF PageIsWhole
<1>3. PICK pg : pg = page' OBVIOUS
<1>4. /\ pg \in [OptionsPages -> PageForm] /\ pg[p] = q
      /\ \A r \in OptionsPages \ {p} : pg[r] = page[r]
  BY <1>2, <1>3
<1>5. ControlTypes'
  <2>1. \A r \in OptionsPages : pg[r].step \in PageSteps BY <1>4 DEF PageForm
  <2>2. \A g \in Names : (files[g] \in File(g) \union {Missing, Bad})' BY DEF File, Missing, Bad, KeysOf
  <2>3. (syncing.file \in Names \union {"none"})' BY <1>1
  <2>4. lock' \in OptionsPages \union {Free, "worker"} OBVIOUS
  <2>5. cache' \in [Keys -> Values] BY DEF FormOf
  <2> QED BY <1>3, <2>1, <2>2, <2>3, <2>4, <2>5 DEF ControlTypes
<1>6. AllIsWhole'
  <2>1. \A r \in OptionsPages : PageIsWhole(pg[r]) BY <1>2, <1>4
  <2> QED BY <1>2, <1>3, <1>4, <2>1 DEF AllIsWhole
<1>7. LockIsHeld'
  <2>1. \A r \in OptionsPages : pg[r].step \notin {"closed", "open"} <=> lock' = r
    BY <1>1, <1>4, ControlConstants DEF Free
  <2>2. lock' # "worker" BY ControlConstants DEF Free
  <2> QED BY <1>1, <1>3, <2>1, <2>2 DEF LockIsHeld
<1>8. ReadsAreCurrent'
  <2>1. \A r \in OptionsPages \ {p} : PageIsCurrent(pg[r])' BY <1>1, <1>4 DEF PageIsCurrent
  <2>2. SyncIsCurrent(syncing)' BY <1>1 DEF SyncIsCurrent
  <2> QED BY <1>3, <1>4, <2>1, <2>2 DEF ReadsAreCurrent
<1> QED BY <1>5, <1>6, <1>7, <1>8 DEF SettingsInvariant

(* The form shows a value for each key: that of a usable file.             *)
LEMMA ShownIs ==
    ASSUME SettingsInvariant
    PROVE  /\ Shown \in FormOf(Keys)
           /\ \A f \in Names : HasFile(f) => Only(Shown, KeysOf(f)) = files[f].v
<1>1. /\ \A f \in Names : HasFile(f) => files[f].v \in FormOf(KeysOf(f))
      /\ cache \in FormOf(Keys)
  BY FileIs, Typed DEF SettingsInvariant
<1>2. ASSUME NEW k \in Keys
      PROVE  Shown[k] \in Values /\ \A f \in Names : k \in KeysOf(f) /\ HasFile(f) => Shown[k] = files[f].v[k]
  <2>1. CASE k \in ScannerKeys
    <3>1. Shown[k] = IF HasFile("scanner") THEN files["scanner"].v[k] ELSE cache[k] BY <2>1 DEF Shown
    <3>2. \A f \in Names : k \in KeysOf(f) => f = "scanner" BY <2>1, KeysAre
    <3> QED BY <1>1, <2>1, <3>1, <3>2, KeysAre DEF FormOf
  <2>2. CASE k \notin ScannerKeys
    <3>1. Shown[k] = IF HasFile("relay") THEN files["relay"].v[k] ELSE cache[k] BY <2>2 DEF Shown
    <3>2. k \in RelayKeys /\ \A f \in Names : k \in KeysOf(f) => f = "relay" BY <2>2, KeysAre
    <3> QED BY <1>1, <2>2, <3>1, <3>2, KeysAre DEF FormOf
  <2> QED BY <2>1, <2>2
<1>3. DOMAIN Shown = Keys /\ Shown = [k \in Keys |-> Shown[k]] BY DEF Shown
<1> HIDE DEF Shown
<1>4. Shown \in FormOf(Keys) BY <1>2, <1>3 DEF FormOf
<1>5. ASSUME NEW f \in Names, HasFile(f) PROVE Only(Shown, KeysOf(f)) = files[f].v
  <2>1. Only(Shown, KeysOf(f)) \in FormOf(KeysOf(f)) /\ \A k \in KeysOf(f) : Only(Shown, KeysOf(f))[k] = Shown[k]
    BY <1>4, OnlyIs, KeysAre
  <2>2. \A k \in KeysOf(f) : Shown[k] = files[f].v[k] BY <1>2, <1>5, KeysAre
  <2> QED BY <1>1, <1>5, <2>1, <2>2 DEF FormOf
<1> QED BY <1>4, <1>5

(* The files that nobody writes are what they were.                        *)
LEMMA SameFiles ==
    ASSUME SettingsInvariant, files' = files
    PROVE  FilesAreFiles' /\ \A g : HasFile(g)' = HasFile(g)
BY DEF FilesAreFiles, File, Missing, Bad, KeysOf, SettingsInvariant, ControlTypes, AllIsWhole, HasFile

LEMMA OpenKeeps == ASSUME SettingsInvariant, NEW p \in OptionsPages, OpenPage(p) PROVE SettingsInvariant'
<1>0. PICK q : q = [step |-> "open", form |-> Shown, loaded |-> Shown, latest |-> NoKeys, answers |-> NoKeys]
  OBVIOUS
<1>1. /\ page' = [page EXCEPT ![p] = q] /\ syncing' = syncing /\ files' = files /\ lock = Free
      /\ lock' = lock /\ cache' = Shown /\ cached' = cached \union {f \in Names : HasFile(f)}
      /\ edited' = edited
  BY <1>0 DEF OpenPage
<1>2. Shown \in FormOf(Keys) /\ \A f \in Names : HasFile(f) => Only(Shown, KeysOf(f)) = files[f].v
  BY ShownIs
<1>3. PageIsWhole(q) /\ q.step = "open"
  BY <1>0, <1>2 DEF PageIsWhole, PageForm, PageSteps, OneFile
<1>4. PageIsCurrent(q)' BY <1>3 DEF PageIsCurrent
<1>5. CacheIsCurrent'
  <2>1. \A f \in cached' : f \in Names /\ HasFile(f) BY <1>1, Typed
  <2> QED BY <1>1, <1>2, <2>1, SameFiles DEF CacheIsCurrent
<1>6. lock' # p BY <1>1, ControlConstants DEF Free
<1>7. edited' \subseteq Names /\ cached' \subseteq Names BY <1>1, Typed
<1>8. cache' \in FormOf(Keys) /\ lock \in {p, Free} /\ lock' = Free BY <1>1, <1>2
<1>9. Moves(p, q) BY <1>1, <1>3, <1>6, <1>7, <1>8 DEF Moves
<1> QED BY <1>1, <1>4, <1>5, <1>9, SameFiles, PageKeeps

(* The owner of the form changes a value of it.                            *)
LEMMA FormKeeps == ASSUME SettingsInvariant, NEW p \in OptionsPages, EditForm(p) PROVE SettingsInvariant'
<1>1. PICK k \in Keys : page' = [page EXCEPT ![p].form[k] = 1 - @] BY DEF EditForm
<1>2. /\ page[p].step = "open" /\ UNCHANGED <<files, cache, lock, syncing, edited, cached>>
  BY DEF EditForm
<1>3. PICK pg : pg = page' OBVIOUS
<1>4. /\ \A r \in OptionsPages \ {p} : pg[r] = page[r]
      /\ pg \in [OptionsPages -> PageForm] /\ PageIsWhole(pg[p]) /\ pg[p].step = "open"
  <2>1. page \in [OptionsPages -> PageForm] /\ page[p] \in PageForm /\ page[p].form \in FormOf(Keys)
    BY <1>2, Typed DEF PageIsWhole
  <2> DEFINE q == [page[p] EXCEPT !.form[k] = 1 - page[p].form[k]]
  <2>2. [page[p].form EXCEPT ![k] = 1 - page[p].form[k]] \in FormOf(Keys) BY <2>1 DEF FormOf, Values
  <2>3. q \in PageForm /\ q.step = page[p].step /\ q.form \in FormOf(Keys) /\ q.loaded = page[p].loaded
        /\ q.answers = page[p].answers /\ q.latest = page[p].latest
    BY <2>1, <2>2 DEF PageForm
  <2>4. PageIsWhole(q) BY <1>2, <2>3, Typed DEF PageIsWhole
  <2>5. pg = [page EXCEPT ![p] = q] BY <1>1, <1>3, <2>1
  <2> HIDE DEF q
  <2> QED BY <1>2, <2>1, <2>3, <2>4, <2>5
<1>5. /\ ControlTypes' /\ AllIsWhole' /\ LockIsHeld'
  <2>1. ControlTypes' BY <1>2, <1>3, <1>4 DEF SettingsInvariant, ControlTypes, PageForm
  <2>2. AllIsWhole' BY <1>2, <1>3, <1>4, Typed DEF SettingsInvariant, AllIsWhole
  <2>3. LockIsHeld' BY <1>2, <1>3, <1>4 DEF SettingsInvariant, LockIsHeld
  <2> QED BY <2>1, <2>2, <2>3
<1>6. ReadsAreCurrent'
  <2>1. \A r \in OptionsPages \ {p} : PageIsCurrent(pg[r])'
    BY <1>2, <1>4, Typed DEF PageIsCurrent, Holds, Written, HasFile
  <2>2. PageIsCurrent(pg[p])' BY <1>4 DEF PageIsCurrent
  <2>3. SyncIsCurrent(syncing)' BY <1>2, Typed DEF SyncIsCurrent, Holds, Written, HasFile
  <2> QED BY <1>3, <2>1, <2>2, <2>3 DEF ReadsAreCurrent
<1>7. CacheIsCurrent' BY <1>2 DEF SettingsInvariant, CacheIsCurrent, HasFile
<1> QED BY <1>5, <1>6, <1>7 DEF SettingsInvariant

LEMMA SaveKeeps == ASSUME SettingsInvariant, NEW p \in OptionsPages, SaveForm(p) PROVE SettingsInvariant'
<1>0. PICK q : q = [page[p] EXCEPT !.step = "read"] OBVIOUS
<1>1. /\ page[p].step = "open" /\ lock = Free /\ lock' = p /\ edited' = {}
      /\ page' = [page EXCEPT ![p] = q] /\ UNCHANGED <<files, cache, syncing, cached>>
  BY <1>0, Typed DEF SaveForm, Locks, Takes
<1>2. PageIsWhole(q) /\ q.step = "read" BY <1>0, <1>1, Typed DEF PageIsWhole, PageForm, PageSteps
<1>3. PageIsCurrent(q)' BY <1>2 DEF PageIsCurrent
<1>4. CacheIsCurrent' BY <1>1 DEF SettingsInvariant, CacheIsCurrent, HasFile
<1>5. edited' \subseteq Names /\ cached' \subseteq Names /\ edited' \cap cached' = {} BY <1>1, Typed
<1>6. cache' \in FormOf(Keys) /\ lock \in {p, Free} /\ lock' \in {p, Free} BY <1>1, Typed
<1>7. Moves(p, q) BY <1>1, <1>2, <1>5, <1>6 DEF Moves
<1> QED BY <1>1, <1>3, <1>4, <1>7, SameFiles, PageKeeps

(* A file is read whole, or what the page knows stands in for it.          *)
LEMMA ReadKeeps ==
    ASSUME SettingsInvariant, NEW p \in OptionsPages, ReadScanner(p) \/ ReadRelay(p)
    PROVE  SettingsInvariant'
<1>1. PICK f \in Names :
        /\ page[p].step = IF f = "scanner" THEN "read" ELSE "readRelay"
        /\ ReadLatest(p, f, IF f = "scanner" THEN "put" ELSE "putRelay")
  BY DEF ReadScanner, ReadRelay, Names
<1>2. PICK latest :
        /\ HasFile(f) => latest = files[f].v
        /\ ~HasFile(f) => latest = IF f = "scanner" THEN Only(cache, ScannerKeys)
                                    ELSE Only(page[p].loaded, RelayKeys)
        /\ page' = [page EXCEPT ![p].step = IF f = "scanner" THEN "put" ELSE "putRelay",
                                ![p].latest = latest]
  BY <1>1 DEF ReadLatest
<1>3. PICK q : q = [page[p] EXCEPT !.step = IF f = "scanner" THEN "put" ELSE "putRelay", !.latest = latest]
  OBVIOUS
<1>4. /\ page' = [page EXCEPT ![p] = q] /\ edited' = edited \ {f}
      /\ UNCHANGED <<files, cache, lock, syncing, cached>> /\ lock = p
  <2>1. lock = p BY <1>1 DEF SettingsInvariant, LockIsHeld
  <2> QED BY <1>1, <1>2, <1>3, <2>1, Typed DEF ReadLatest
<1>5. latest \in FormOf(KeysOf(f)) /\ page[p].loaded \in FormOf(Keys)
  <2>1. page[p].loaded \in FormOf(Keys) /\ cache \in FormOf(Keys) BY <1>1, Typed DEF PageIsWhole
  <2>2. /\ Only(cache, ScannerKeys) \in FormOf(ScannerKeys)
        /\ Only(page[p].loaded, RelayKeys) \in FormOf(RelayKeys)
    BY <2>1, OnlyIs, KeysAre
  <2>3. HasFile(f) => files[f].v \in FormOf(KeysOf(f)) BY FileIs DEF SettingsInvariant
  <2> QED BY <1>2, <2>1, <2>2, <2>3, KeysAre
<1>6. /\ q.step = IF f = "scanner" THEN "put" ELSE "putRelay"
      /\ q.latest = latest /\ q.answers = page[p].answers /\ q.form = page[p].form
      /\ q.loaded = page[p].loaded /\ q \in PageForm
  <2>1. latest \in OneFile BY <1>5, KeysAre DEF OneFile
  <2>2. PICK step : step = IF f = "scanner" THEN "put" ELSE "putRelay" OBVIOUS
  <2>3. step \in PageSteps BY <2>2 DEF PageSteps
  <2>4. q = [page[p] EXCEPT !.step = step, !.latest = latest] BY <1>3, <2>2
  <2>5. page[p] \in PageForm BY Typed
  <2> QED BY <2>1, <2>2, <2>3, <2>4, <2>5 DEF PageForm
<1>7. PageIsWhole(q) BY <1>1, <1>5, <1>6, Typed, KeysAre DEF PageIsWhole
<1>8. PageIsCurrent(q)'
  <2>1. Holds(f, latest)' BY <1>2, <1>4 DEF Holds, HasFile
  <2>2. f = "relay" => Written("scanner", Only(q.answers, ScannerKeys))'
    <3>1. f = "relay" => Written("scanner", Only(q.answers, ScannerKeys))
      BY <1>1, <1>6, Typed DEF PageIsCurrent
    <3> QED BY <1>4, <3>1 DEF Written, Holds, HasFile
  <2> QED BY <1>6, <2>1, <2>2, KeysAre DEF PageIsCurrent
<1>9. CacheIsCurrent' BY <1>4 DEF SettingsInvariant, CacheIsCurrent, HasFile
<1>10. /\ edited' \subseteq Names /\ cached' \subseteq Names /\ edited' \cap cached' = {}
       /\ cache' \in FormOf(Keys)
  BY <1>4, Typed, ControlConstants DEF SettingsInvariant, LockIsHeld, Free
<1>11. Moves(p, q) BY <1>4, <1>6, <1>7, <1>10 DEF Moves
<1> QED BY <1>4, <1>8, <1>9, <1>11, SameFiles, PageKeeps

(* A save replaces the file whole.                                         *)
LEMMA WhatIsSaved ==
    ASSUME SettingsInvariant, NEW f \in Names, NEW v \in FormOf(KeysOf(f)), FileSaved(f, v)
    PROVE  /\ FilesAreFiles' /\ HasFile(f)' /\ files'[f].v = v
           /\ \A g \in Names \ {f} : files'[g] = files[g] /\ HasFile(g)' = HasFile(g)
<1>1. PICK new : new = [is |-> "ok", v |-> v] OBVIOUS
<1>2. new \in File(f) BY <1>1 DEF File, FormOf
<1>3. files' = [files EXCEPT ![f] = new] BY <1>1 DEF FileSaved
<1>4. /\ \A g \in Names : files'[g] = IF g = f THEN new ELSE files[g]
      /\ \A g \in Names : files'[g] \in File(g) \union {Missing, Bad}
      /\ files' \in [Names -> File("scanner") \union File("relay") \union {Missing, Bad}]
  BY <1>2, <1>3, FilesStay
<1>5. FilesAreFiles' BY <1>4 DEF FilesAreFiles, File, Missing, Bad, KeysOf
<1> QED BY <1>1, <1>4, <1>5 DEF HasFile

LEMMA WholeOnly == ASSUME NEW A, NEW v, v \in FormOf(A) PROVE Only(v, A) = v
<1>1. Only(v, A) \in FormOf(A) /\ \A k \in A : Only(v, A)[k] = v[k] BY OnlyIs
<1> QED BY <1>1 DEF FormOf

(* The page saves what it read with its own changes.                       *)
LEMMA PutKeeps ==
    ASSUME SettingsInvariant, NEW p \in OptionsPages, PutScanner(p) \/ PutRelay(p)
    PROVE  SettingsInvariant'
<1>1. PICK f \in Names :
        /\ page[p].step = IF f = "scanner" THEN "put" ELSE "putRelay"
        /\ PutMerged(p, f, IF f = "scanner" THEN "readRelay" ELSE "store")
  BY DEF PutScanner, PutRelay, Names
<1>2. PICK v, all : v = Merge(p, f) /\ all = Merged(page[p].answers, v) OBVIOUS
<1>3. PICK q : q = [page[p] EXCEPT !.step = IF f = "scanner" THEN "readRelay" ELSE "store", !.answers = all]
  OBVIOUS
<1>4. /\ page' = [page EXCEPT ![p] = q] /\ edited' = edited \ {f} /\ cached' = cached \ {f}
      /\ UNCHANGED <<cache, lock, syncing>> /\ lock = p /\ FileSaved(f, v)
  <2>1. lock = p BY <1>1 DEF SettingsInvariant, LockIsHeld
  <2> QED BY <1>1, <1>2, <1>3, <2>1, Typed DEF PutMerged
<1>5. v \in FormOf(KeysOf(f)) BY <1>1, <1>2, MergeIs
<1>6. /\ f = "scanner" => all = v /\ Only(all, ScannerKeys) = v
      /\ f = "relay" => /\ all \in FormOf(Keys) /\ page[p].answers \in FormOf(ScannerKeys)
                        /\ Only(all, ScannerKeys) = page[p].answers
                        /\ Only(all, RelayKeys) = v
                        /\ Only(page[p].answers, ScannerKeys) = page[p].answers
  <2>1. CASE f = "scanner"
    <3>1. page[p].answers = NoKeys BY <1>1, <2>1, Typed DEF PageIsWhole
    <3>2. all = v BY <1>2, <1>5, <3>1, NoneMerged
    <3> QED BY <1>5, <2>1, <3>2, WholeOnly, KeysAre
  <2>2. CASE f = "relay"
    <3>1. page[p].answers \in FormOf(ScannerKeys) BY <1>1, <2>2, Typed DEF PageIsWhole
    <3>2. all \in FormOf(Keys) BY <1>2, <1>5, <2>2, <3>1, MergedIs, KeysAre
    <3>3. Only(all, ScannerKeys) = page[p].answers /\ Only(all, RelayKeys) = v
      BY <1>2, <1>5, <2>2, <3>1, MergedApart, KeysAre
    <3> QED BY <2>2, <3>1, <3>2, <3>3, WholeOnly
  <2> QED BY <2>1, <2>2, KeysAre
<1>7. /\ q.step = IF f = "scanner" THEN "readRelay" ELSE "store"
      /\ q.latest = page[p].latest /\ q.answers = all /\ q.form = page[p].form
      /\ q.loaded = page[p].loaded /\ q \in PageForm
  <2>1. all \in FormOf(ScannerKeys) \union FormOf(Keys) BY <1>5, <1>6, KeysAre
  <2>2. PICK step : step = IF f = "scanner" THEN "readRelay" ELSE "store" OBVIOUS
  <2>3. step \in PageSteps BY <2>2 DEF PageSteps
  <2>4. q = [page[p] EXCEPT !.step = step, !.answers = all] BY <1>3, <2>2
  <2>5. page[p] \in PageForm BY Typed
  <2> QED BY <2>1, <2>2, <2>3, <2>4, <2>5 DEF PageForm
<1>8. PageIsWhole(q) BY <1>1, <1>5, <1>6, <1>7, Typed, KeysAre DEF PageIsWhole
<1>9. /\ FilesAreFiles' /\ HasFile(f)' /\ files'[f].v = v
      /\ \A g \in Names \ {f} : files'[g] = files[g] /\ HasFile(g)' = HasFile(g)
  BY <1>4, <1>5, WhatIsSaved
<1>10. PageIsCurrent(q)'
  <2>1. Written(f, v)' BY <1>9 DEF Written, Holds
  <2>2. f = "relay" => Written("scanner", Only(q.answers, ScannerKeys))'
    <3>1. f = "relay" => Written("scanner", page[p].answers)
      BY <1>1, <1>6, Typed DEF PageIsCurrent
    <3>2. PICK a : a = page[p].answers OBVIOUS
    <3>3. f = "relay" => Written("scanner", a)' BY <1>4, <1>9, <3>1, <3>2, KeysAre DEF Written, Holds
    <3> QED BY <1>6, <1>7, <3>2, <3>3
  <2>3. f = "relay" => Written("relay", Only(q.answers, RelayKeys))' BY <1>6, <1>7, <2>1
  <2>4. f = "scanner" => Written("scanner", Only(q.answers, ScannerKeys))' BY <1>6, <1>7, <2>1
  <2> QED BY <1>7, <2>2, <2>3, <2>4, KeysAre DEF PageIsCurrent
<1>11. CacheIsCurrent' BY <1>4, <1>9, Typed DEF CacheIsCurrent
<1>12. /\ edited' \subseteq Names /\ cached' \subseteq Names /\ edited' \cap cached' = {}
       /\ cache' \in FormOf(Keys)
  BY <1>4, Typed, ControlConstants DEF SettingsInvariant, LockIsHeld, Free
<1>13. Moves(p, q) BY <1>4, <1>7, <1>8, <1>12 DEF Moves
<1> QED BY <1>9, <1>10, <1>11, <1>13, PageKeeps

(* Both answers are cached; whatever was not edited by hand since, agrees. *)
LEMMA StoreKeeps == ASSUME SettingsInvariant, NEW p \in OptionsPages, Store(p) PROVE SettingsInvariant'
<1>1. PICK v, q : v = page[p].answers /\ q = [ClosedPage EXCEPT !.step = "open", !.form = v, !.loaded = v]
  OBVIOUS
<1>2. page[p].step = "store" /\ lock = p BY DEF Store, SettingsInvariant, LockIsHeld
<1>3. /\ page' = [page EXCEPT ![p] = q] /\ cache' = v /\ cached' = cached \union (Names \ edited)
      /\ lock' = Free /\ UNCHANGED <<files, syncing, edited>>
  BY <1>1, <1>2 DEF Store, Reload, Unlocks
<1>4. v \in FormOf(Keys) BY <1>1, <1>2, Typed DEF PageIsWhole
<1>5. /\ q.step = "open" /\ q.form = v /\ q.loaded = v /\ q.latest = NoKeys /\ q.answers = NoKeys
      /\ q = [step |-> "open", form |-> v, loaded |-> v, latest |-> NoKeys, answers |-> NoKeys]
  BY <1>1 DEF ClosedPage
<1>6. PageIsWhole(q) BY <1>4, <1>5 DEF PageIsWhole, PageForm, PageSteps, OneFile
<1>7. PageIsCurrent(q)' BY <1>5 DEF PageIsCurrent
<1>8. CacheIsCurrent'
  <2>1. \A g \in Names : Written(g, Only(v, KeysOf(g)))
    BY <1>1, <1>2, Typed, KeysAre DEF PageIsCurrent
  <2>2. edited \cap cached = {} /\ cached \subseteq Names
    BY <1>2, Typed, ControlConstants DEF SettingsInvariant, LockIsHeld, Free
  <2>3. \A g \in Names \ edited : HasFile(g) /\ files[g].v = Only(v, KeysOf(g))
    BY <2>1 DEF Written, Holds
  <2> QED BY <1>3, <2>2, <2>3 DEF CacheIsCurrent, HasFile
<1>9. /\ edited' \subseteq Names /\ cached' \subseteq Names /\ cache' \in FormOf(Keys) /\ lock' # p
  BY <1>3, <1>4, Typed, ControlConstants DEF Free
<1>10. Moves(p, q) BY <1>2, <1>3, <1>5, <1>6, <1>9 DEF Moves
<1> QED BY <1>3, <1>7, <1>8, <1>10, SameFiles, PageKeeps

(* A save that fails, its answer perhaps lost after the file was written.  *)
LEMMA FailKeeps == ASSUME SettingsInvariant, NEW p \in OptionsPages, SaveFails(p) PROVE SettingsInvariant'
<1>1. page[p].step \notin {"closed", "open"} /\ lock = p
  BY DEF SaveFails, SettingsInvariant, LockIsHeld
<1>2. PICK q \in {ClosedPage, [page[p] EXCEPT !.step = "open", !.latest = NoKeys, !.answers = NoKeys]} :
        page' = [page EXCEPT ![p] = q]
  BY Typed DEF SaveFails, Unconfirmed
<1>3. PageIsWhole(q) /\ q.step \in {"open", "closed"}
  <2>1. CASE q = ClosedPage BY <2>1 DEF ClosedPage, PageIsWhole, PageForm, PageSteps, OneFile
  <2>2. CASE q = [page[p] EXCEPT !.step = "open", !.latest = NoKeys, !.answers = NoKeys]
    <3>1. /\ page[p] \in PageForm /\ NoKeys \in OneFile /\ "open" \in PageSteps
          /\ page[p].form \in FormOf(Keys) /\ page[p].loaded \in FormOf(Keys)
      BY <1>1, Typed DEF PageIsWhole, OneFile, PageSteps
    <3>2. q.step = "open" /\ q.answers = NoKeys /\ q.latest = NoKeys
          /\ q.form = page[p].form /\ q.loaded = page[p].loaded
          /\ q = [step |-> "open", form |-> page[p].form, loaded |-> page[p].loaded,
                  latest |-> NoKeys, answers |-> NoKeys]
      BY <2>2, <3>1 DEF PageForm
    <3> QED BY <3>1, <3>2 DEF PageIsWhole, PageForm
  <2> QED BY <1>2, <2>1, <2>2
<1>4. PageIsCurrent(q)' BY <1>3 DEF PageIsCurrent
<1>5. /\ lock' = Free /\ lock' # p /\ cache' = cache /\ syncing' = syncing
  BY <1>1, ControlConstants DEF SaveFails, Unlocks, Free
<1>6. /\ FilesAreFiles' /\ CacheIsCurrent' /\ edited' \subseteq Names /\ cached' \subseteq Names
  <2>1. CASE UNCHANGED <<files, edited, cached>>
    BY <1>5, <2>1, SameFiles, Typed DEF CacheIsCurrent
  <2>2. CASE \E f \in Writing(p) : /\ FileSaved(f, Merge(p, f))
                                   /\ cached' = cached \ {f} /\ edited' = edited \ {f}
    <3>1. PICK f \in Writing(p) : /\ FileSaved(f, Merge(p, f))
                                  /\ cached' = cached \ {f} /\ edited' = edited \ {f}
      BY <2>2
    <3>2. f \in Names /\ page[p].step = IF f = "scanner" THEN "put" ELSE "putRelay"
      BY <3>1 DEF Writing, Names
    <3>3. Merge(p, f) \in FormOf(KeysOf(f)) BY <3>2, MergeIs
    <3>4. PICK v \in FormOf(KeysOf(f)) : FileSaved(f, v) BY <3>1, <3>3
    <3>5. /\ FilesAreFiles' /\ \A g \in Names \ {f} : files'[g] = files[g] /\ HasFile(g)' = HasFile(g)
      BY <3>2, <3>4, WhatIsSaved
    <3> QED BY <1>5, <3>1, <3>5, Typed DEF CacheIsCurrent
  <2> QED BY <2>1, <2>2 DEF SaveFails
<1>7. Moves(p, q) BY <1>1, <1>2, <1>3, <1>5, <1>6, Typed DEF Moves
<1> QED BY <1>4, <1>6, <1>7, PageKeeps

(* A step of the worker, that writes no file.                              *)
Syncs(sync) ==
    /\ lock \in {"worker", Free} /\ lock' \in {"worker", Free} /\ syncing' = sync
    /\ sync.file # "none" <=> lock' = "worker"
    /\ files' = files /\ page' = page /\ cache' \in FormOf(Keys)
    /\ edited' \subseteq Names /\ cached' \subseteq Names
    /\ lock' # Free => edited' \cap cached' = {}
LEMMA WorkerKeeps ==
    ASSUME SettingsInvariant, NEW sync \in [file : Names \union {"none"}, v : OneFile], Syncs(sync),
           SyncIsCurrent(sync)', CacheIsCurrent'
    PROVE  SettingsInvariant'
<1> USE DEF Syncs
<1>1. \A p \in OptionsPages : page[p].step \in {"closed", "open"} /\ lock' # p
  BY ControlConstants DEF SettingsInvariant, LockIsHeld, Free
<1>2. PICK pg : pg = page /\ pg = page' OBVIOUS
<1>3. ControlTypes'
  <2>1. \A g \in Names : (files[g] \in File(g) \union {Missing, Bad})'
    BY SameFiles DEF FilesAreFiles
  <2>2. cache' \in [Keys -> Values] BY DEF FormOf
  <2> QED BY <2>1, <2>2 DEF ControlTypes, SettingsInvariant
<1>4. AllIsWhole' BY Typed, SameFiles DEF AllIsWhole, SettingsInvariant, FilesAreFiles
<1>5. LockIsHeld' BY <1>1 DEF LockIsHeld
<1>6. ReadsAreCurrent'
  <2>1. \A p \in OptionsPages : PageIsCurrent(pg[p])' BY <1>1, <1>2 DEF PageIsCurrent
  <2> QED BY <1>2, <2>1 DEF ReadsAreCurrent
<1> QED BY <1>3, <1>4, <1>5, <1>6 DEF SettingsInvariant

LEMMA SyncReadKeeps == ASSUME SettingsInvariant, NEW f \in Names, SyncRead(f) PROVE SettingsInvariant'
<1>1. PICK v : v = IF HasFile(f) THEN files[f].v ELSE NoKeys OBVIOUS
<1>2. PICK sync : sync = [file |-> f, v |-> v] OBVIOUS
<1>3. /\ syncing' = sync /\ lock = Free /\ lock' = "worker" /\ edited' = {}
      /\ UNCHANGED <<files, cache, page, cached>>
  BY <1>1, <1>2 DEF SyncRead, Locks, Takes
<1>4. HasFile(f) => v \in FormOf(KeysOf(f)) BY <1>1, FileIs DEF SettingsInvariant
<1>5. sync \in [file : Names \union {"none"}, v : OneFile] /\ sync.file = f /\ sync.v = v /\ f # "none"
  <2>1. v \in OneFile BY <1>1, <1>4, KeysAre DEF OneFile
  <2> QED BY <1>2, <2>1 DEF Names
<1>6. SyncIsCurrent(sync)'
  <2>1. CASE HasFile(f)
    <3>1. Written(f, v)' BY <1>1, <1>3, <2>1 DEF Written, Holds, HasFile
    <3> QED BY <1>4, <1>5, <2>1, <3>1 DEF SyncIsCurrent
  <2>2. CASE ~HasFile(f)
    <3>1. v = NoKeys /\ Holds(f, v)' BY <1>1, <1>3, <2>2 DEF Holds, HasFile
    <3> QED BY <1>5, <3>1 DEF SyncIsCurrent
  <2> QED BY <2>1, <2>2
<1>7. CacheIsCurrent' BY <1>3 DEF SettingsInvariant, CacheIsCurrent, HasFile
<1>8. Syncs(sync) BY <1>3, <1>5, Typed DEF Syncs
<1> QED BY <1>5, <1>6, <1>7, <1>8, WorkerKeeps

(* What the worker caches is what the file holds; the other file's keys    *)
(* stay.                                                                   *)
LEMMA SyncStoreKeeps == ASSUME SettingsInvariant, SyncStore PROVE SettingsInvariant'
<1>1. PICK f, v : f = syncing.file /\ v = syncing.v OBVIOUS
<1>2. /\ f \in Names /\ f # "none" /\ lock = "worker" /\ edited \cap cached = {}
  BY <1>1, Typed, ControlConstants DEF SyncStore, SettingsInvariant, LockIsHeld, Free
<1>3. /\ syncing' = NotSyncing /\ lock' = Free /\ cache' = Merged(cache, v)
      /\ cached' = IF v # NoKeys /\ f \notin edited THEN cached \union {f} ELSE cached
      /\ UNCHANGED <<files, page, edited>>
  BY <1>1, <1>2 DEF SyncStore, Unlocks
<1>4. NotSyncing \in [file : Names \union {"none"}, v : OneFile] /\ NotSyncing.file = "none"
  BY DEF NotSyncing, OneFile
<1>5. SyncIsCurrent(NotSyncing)' BY DEF SyncIsCurrent, NotSyncing
<1>6. cache' \in FormOf(Keys) /\ CacheIsCurrent'
  <2>1. CASE v = NoKeys
    <3>1. cache' = cache BY <1>3, <2>1, Typed, NoneMerged
    <3> QED BY <1>3, <2>1, <3>1, Typed DEF CacheIsCurrent, HasFile
  <2>2. CASE v # NoKeys
    <3>1. v \in FormOf(KeysOf(f)) /\ Written(f, v) BY <1>1, <1>2, <2>2, Typed DEF SyncIsCurrent
    <3>2. /\ cache' \in FormOf(Keys \union KeysOf(f)) /\ Keys \union KeysOf(f) = Keys
          /\ \A k \in KeysOf(f) : cache'[k] = v[k]
          /\ \A k \in Keys \ KeysOf(f) : cache'[k] = cache[k]
      BY <1>2, <1>3, <3>1, Typed, MergedIs, KeysAre
    <3>3. \A g \in Names \ {f} : KeysOf(g) \subseteq Keys \ KeysOf(f) BY <1>2, KeysAre
    <3>4. \A g \in Names : /\ Only(cache', KeysOf(g)) \in FormOf(KeysOf(g))
                           /\ Only(cache, KeysOf(g)) \in FormOf(KeysOf(g))
                           /\ \A k \in KeysOf(g) : /\ Only(cache', KeysOf(g))[k] = cache'[k]
                                                   /\ Only(cache, KeysOf(g))[k] = cache[k]
      BY <3>2, Typed, OnlyIs, KeysAre
    <3>5. Only(cache', KeysOf(f)) = v BY <1>2, <3>1, <3>2, <3>4 DEF FormOf
    <3>6. \A g \in Names \ {f} : Only(cache', KeysOf(g)) = Only(cache, KeysOf(g))
      BY <3>2, <3>3, <3>4 DEF FormOf
    <3>7. f \notin edited => HasFile(f) /\ files[f].v = v BY <3>1 DEF Written, Holds
    <3>8. \A g \in cached' : g \in Names /\ (g = f => f \notin edited) /\ (g # f => g \in cached)
      BY <1>2, <1>3, Typed
    <3>9. \A g \in cached' : HasFile(g) /\ Only(cache', KeysOf(g)) = files[g].v
      BY <3>5, <3>6, <3>7, <3>8, Typed
    <3> QED BY <1>3, <3>2, <3>9 DEF CacheIsCurrent, HasFile
  <2> QED BY <2>1, <2>2
<1>7. edited' \subseteq Names /\ cached' \subseteq Names BY <1>2, <1>3, Typed
<1>8. Syncs(NotSyncing) BY <1>2, <1>3, <1>4, <1>6, <1>7 DEF Syncs, Free
<1> QED BY <1>4, <1>5, <1>6, <1>8, WorkerKeeps

LEMMA StopKeeps == ASSUME SettingsInvariant, WorkerStops PROVE SettingsInvariant'
<1>1. /\ syncing' = NotSyncing /\ lock = "worker" /\ lock' = Free
      /\ UNCHANGED <<files, cache, page, edited, cached>>
  BY DEF WorkerStops, Unlocks, SettingsInvariant, LockIsHeld
<1>2. NotSyncing \in [file : Names \union {"none"}, v : OneFile] /\ NotSyncing.file = "none"
  BY DEF NotSyncing, OneFile
<1>3. SyncIsCurrent(NotSyncing)' BY DEF SyncIsCurrent, NotSyncing
<1>4. CacheIsCurrent' BY <1>1 DEF SettingsInvariant, CacheIsCurrent, HasFile
<1>5. Syncs(NotSyncing) BY <1>1, <1>2, Typed DEF Syncs, Free
<1> QED BY <1>2, <1>3, <1>4, <1>5, WorkerKeeps

LEMMA SettingsStart == ASSUME SettingsInit PROVE SettingsInvariant
<1>1. /\ files = [f \in Names |-> Missing] /\ cache = [k \in Keys |-> 0] /\ lock = Free
      /\ page = [p \in OptionsPages |-> ClosedPage] /\ syncing = NotSyncing /\ edited = {} /\ cached = {}
  BY DEF SettingsInit
<1>2. ClosedPage \in PageForm /\ PageIsWhole(ClosedPage) /\ ClosedPage.step = "closed"
  BY DEF ClosedPage, PageForm, PageSteps, OneFile, PageIsWhole
<1>3. ControlTypes BY <1>1, <1>2 DEF ControlTypes, NotSyncing, Values, PageForm
<1>4. AllIsWhole BY <1>1, <1>2 DEF AllIsWhole, NotSyncing, OneFile
<1>5. LockIsHeld BY <1>1, <1>2, ControlConstants DEF LockIsHeld, NotSyncing, Free
<1>6. ReadsAreCurrent BY <1>1, <1>2 DEF ReadsAreCurrent, PageIsCurrent, SyncIsCurrent, NotSyncing
<1>7. CacheIsCurrent BY <1>1 DEF CacheIsCurrent
<1> QED BY <1>3, <1>4, <1>5, <1>6, <1>7 DEF SettingsInvariant

LEMMA SettingsStep == ASSUME SettingsInvariant, [SettingsNext]_settingsVars PROVE SettingsInvariant'
<1>1. CASE SettingsNext
  <2>1. CASE \E f \in Names : EditFile(f) \/ SyncRead(f) BY <2>1, EditKeeps, SyncReadKeeps
  <2>2. CASE SyncStore \/ WorkerStops BY <2>2, SyncStoreKeeps, StopKeeps
  <2>3. CASE \E p \in OptionsPages :
               \/ OpenPage(p) \/ EditForm(p) \/ SaveForm(p) \/ ReadScanner(p) \/ PutScanner(p)
               \/ ReadRelay(p) \/ PutRelay(p) \/ Store(p) \/ SaveFails(p)
    BY <2>3, OpenKeeps, FormKeeps, SaveKeeps, ReadKeeps, PutKeeps, StoreKeeps, FailKeeps
  <2> QED BY <1>1, <2>1, <2>2, <2>3 DEF SettingsNext
<1>2. CASE UNCHANGED settingsVars
  <2>1. /\ UNCHANGED <<files, cache, lock, page, syncing, edited, cached>> BY <1>2 DEF settingsVars
  <2>2. PICK pg, sync : pg = page /\ sync = syncing OBVIOUS
  <2>3. (\A p \in OptionsPages : PageIsCurrent(pg[p])') /\ SyncIsCurrent(sync)'
    BY <2>1, <2>2, Typed DEF PageIsCurrent, SyncIsCurrent, Written, Holds, HasFile
  <2>4. ReadsAreCurrent' BY <2>1, <2>2, <2>3 DEF ReadsAreCurrent
  <2> QED BY <2>1, <2>4, SameFiles
        DEF SettingsInvariant, ControlTypes, AllIsWhole, LockIsHeld, CacheIsCurrent, HasFile, FilesAreFiles
<1> QED BY <1>1, <1>2

-----------------------------------------------------------------------------
(* Theorems about the settings                                             *)

(* In every reachable state what a page or the worker carries is what the  *)
(* file it read still holds, unless the owner edited it by hand since.     *)
THEOREM SettingsInvariantHolds == SettingsSpec => []SettingsInvariant
BY SettingsStart, SettingsStep, PTL DEF SettingsSpec

(* The settings the scanner uses are those of the file, from its caching   *)
(* until it is written again (options.js, relay-settings.js).              *)
THEOREM SettingsAreCurrent == SettingsSpec => []ControlInvariant
<1>1. SettingsInvariant => ControlInvariant BY DEF SettingsInvariant, ControlInvariant
<1> QED BY <1>1, SettingsInvariantHolds, PTL

(* A step that writes a file nobody edited by hand changes only what the   *)
(* owner of the form changed.                                              *)
LEMMA SavesAreEdits ==
    ASSUME SettingsInvariant, [SettingsNext]_settingsVars, edits' = edits,
           NEW f \in Names \ edited, HasFile(f), NEW k \in KeysOf(f), files'[f].v[k] # files[f].v[k]
    PROVE  lock \in OptionsPages /\ page[lock].form[k] # page[lock].loaded[k]
<1>1. PICK p \in OptionsPages, g \in Names :
        /\ page[p].step = IF g = "scanner" THEN "put" ELSE "putRelay"
        /\ FileSaved(g, Merge(p, g))
  <2>1. SettingsNext /\ files' # files BY DEF settingsVars
  <2>2. ~\E g \in Names : EditFile(g)
    <3>1. SUFFICES ASSUME NEW g \in Names, EditFile(g) PROVE FALSE OBVIOUS
    <3> QED BY <3>1 DEF EditFile, SettingsInvariant
  <2>3. PICK p \in OptionsPages : PutScanner(p) \/ PutRelay(p) \/ SaveFails(p)
    BY <2>1, <2>2 DEF SettingsNext, SyncRead, SyncStore, WorkerStops, OpenPage, EditForm, SaveForm,
          ReadScanner, ReadRelay, ReadLatest, Store
  <2>4. CASE PutScanner(p) \/ PutRelay(p)
    BY <2>4 DEF PutScanner, PutRelay, PutMerged, Names
  <2>5. CASE SaveFails(p)
    <3>1. \E g \in Writing(p) : FileSaved(g, Merge(p, g)) BY <2>1, <2>5 DEF SaveFails
    <3> QED BY <3>1 DEF Writing, Names
  <2> QED BY <2>3, <2>4, <2>5
<1>2. /\ Merge(p, g) \in FormOf(KeysOf(g))
      /\ \A j \in KeysOf(g) : Merge(p, g)[j] # page[p].latest[j] =>
                               page[p].form[j] # page[p].loaded[j]
  BY <1>1, MergeIs
<1>3. /\ files'[g].v = Merge(p, g) /\ \A h \in Names \ {g} : files'[h] = files[h]
  BY <1>1, <1>2, WhatIsSaved
<1>4. f = g BY <1>3
<1>5. files[g].v = page[p].latest
  <2>1. Holds(g, page[p].latest) BY <1>1, Typed, KeysAre DEF PageIsCurrent
  <2> QED BY <1>4, <2>1 DEF Holds
<1>6. lock = p BY <1>1 DEF SettingsInvariant, LockIsHeld
<1> QED BY <1>2, <1>3, <1>4, <1>5, <1>6

(* A save changes only what its owner changed in the form (options.js).    *)
THEOREM SavesAreOwnEdits == SettingsSpec => OnlyEditsAreSaved
<1>1. SettingsInvariant /\ [SettingsNext]_settingsVars
        => [edits' = edits =>
              \A f \in Names \ edited : HasFile(f) =>
                  \A k \in KeysOf(f) : files'[f].v[k] # files[f].v[k] =>
                      lock \in OptionsPages /\ page[lock].form[k] # page[lock].loaded[k]]_settingsVars
  BY SavesAreEdits
<1> QED BY <1>1, SettingsInvariantHolds, PTL DEF SettingsSpec, OnlyEditsAreSaved

-----------------------------------------------------------------------------
(* The commands: receipts, ids and work                                    *)

Receipt == [id : CommandIds, outcome : Outcomes] \union {NoReceipt}
ShownReceipts   == [Scans -> Receipt]
Works   == command.step # "idle"
Commands == Scans \X CommandIds

LEMMA TypesAre ==
    ASSUME OnceInvariant
    PROVE  /\ requested \in [Scans -> 0..MAX_REQUESTS] /\ receipts \in ShownReceipts /\ status \in ShownReceipts
           /\ sending \subseteq ShownReceipts /\ ids \in Seq(Commands) /\ Len(ids) <= MAX_IDS
           /\ ran \in [Commands -> Nat] /\ readable \in BOOLEAN /\ verifying \in BOOLEAN
           /\ \A s \in Scans : /\ receipts[s] \in Receipt /\ receipts[s].id \in 0..MAX_REQUESTS
                               /\ requested[s] \in 0..MAX_REQUESTS /\ command.wanted[s] \in 0..MAX_REQUESTS
           /\ \A c \in Commands : ran[c] \in Nat
<1>1. receipts \in ShownReceipts /\ status \in ShownReceipts /\ sending \subseteq ShownReceipts
  BY DEF OnceInvariant, CommandTypes, ShownReceipts, Receipt
<1>2. \A r \in Receipt : r.id \in 0..MAX_REQUESTS
  BY CommandConstants DEF Receipt, NoReceipt, CommandIds
<1>3. \A s \in Scans : receipts[s] \in Receipt BY <1>1 DEF ShownReceipts
<1> QED BY <1>1, <1>2, <1>3 DEF OnceInvariant, CommandTypes, WorkIsListed, Work, Commands

(* The worker is at a scan, and has read what was requested of it.         *)
LEMMA AtScan ==
    ASSUME OnceInvariant, Works
    PROVE  /\ ScanAt \in Scans /\ Id \in 0..MAX_REQUESTS
           /\ Id # 0 => Id \in CommandIds /\ <<ScanAt, Id>> \in Commands
           /\ \/ command.todo = <<"home", "additional">> /\ ScanAt = "home"
              \/ command.todo = <<"additional">> /\ ScanAt = "additional"
           /\ receipts[ScanAt].id <= Id /\ Id <= requested[ScanAt]
<1>1. command.todo \in {<<"home", "additional">>, <<"additional">>}
  BY DEF OnceInvariant, WorkIsListed, Works, Todo
<1>2. Head(<<"home", "additional">>) = "home" /\ Head(<<"additional">>) = "additional" OBVIOUS
<1>3. \/ command.todo = <<"home", "additional">> /\ ScanAt = "home"
      \/ command.todo = <<"additional">> /\ ScanAt = "additional"
  BY <1>1, <1>2 DEF ScanAt
<1>4. ScanAt \in Scans BY <1>3 DEF Scans
<1>5. Id = command.wanted[ScanAt] BY DEF Id
<1>6. Id \in 0..MAX_REQUESTS BY <1>4, <1>5, TypesAre
<1>7. Id # 0 => Id \in CommandIds BY <1>6, CommandConstants DEF CommandIds
<1>8. receipts[ScanAt].id <= Id /\ Id <= requested[ScanAt]
  BY <1>3, <1>4, <1>5 DEF OnceInvariant, ReceiptsAreOlder, Works
<1> QED BY <1>3, <1>4, <1>6, <1>7, <1>8 DEF Commands

(* The next scan, or the end.                                              *)
LEMMA NextScanIs ==
    ASSUME OnceInvariant, Works, NextScan
    PROVE  \/ command' = NotSynced
           \/ /\ ScanAt = "home" /\ ScanAt' = "additional"
              /\ command'.step = "next" /\ command'.todo = <<"additional">>
              /\ command' \in Work
              /\ command'.wanted = command.wanted /\ command'.before = command.before
              /\ Id' = command.wanted["additional"]
<1>1. \/ command.todo = <<"home", "additional">> /\ ScanAt = "home"
      \/ command.todo = <<"additional">> /\ ScanAt = "additional"
  BY AtScan
<1>2. /\ Len(<<"home", "additional">>) = 2 /\ Len(<<"additional">>) = 1
      /\ Tail(<<"home", "additional">>) = <<"additional">> /\ Head(<<"additional">>) = "additional"
  OBVIOUS
<1>3. CASE command.todo = <<"additional">> BY <1>2, <1>3 DEF NextScan
<1>4. CASE command.todo = <<"home", "additional">> /\ ScanAt = "home"
  <2>1. command' = [command EXCEPT !.step = "next", !.todo = <<"additional">>, !.result = "none"]
    BY <1>2, <1>4 DEF NextScan, OnceInvariant, WorkIsListed, Work
  <2>2. command \in Work
    BY DEF OnceInvariant, WorkIsListed
  <2>3. <<"additional">> \in Todo BY DEF Todo
  <2>4. /\ command'.step = "next" /\ command'.todo = <<"additional">>
        /\ command'.wanted = command.wanted /\ command'.before = command.before
    BY <2>1, <2>2 DEF Work
  <2>5. ScanAt' = "additional" BY <1>2, <2>4 DEF ScanAt
  <2>6. Id' = command.wanted["additional"] BY <2>4, <2>5 DEF Id
  <2>7. command' \in Work
    BY <2>1, <2>2, <2>3 DEF Work
  <2> QED BY <1>4, <2>4, <2>5, <2>6, <2>7
<1> QED BY <1>1, <1>3, <1>4

-----------------------------------------------------------------------------
(* Steps of the owner and the worker                                       *)

(* The owner, the file, the scanner's verification and the reports.        *)
Beside ==
    /\ UNCHANGED <<receipts, ids, command, ran>>
    /\ requested' \in [Scans -> 0..MAX_REQUESTS] /\ \A s \in Scans : requested[s] <= requested'[s]
    /\ sending' \union {status'} \subseteq sending \union {status, receipts}
    /\ readable' \in BOOLEAN /\ verifying' \in BOOLEAN

LEMMA BesideKeeps == ASSUME OnceInvariant, Beside PROVE OnceInvariant'
<1>1. /\ UNCHANGED <<receipts, ids, command, ran>>
      /\ requested' \in [Scans -> 0..MAX_REQUESTS] /\ \A s \in Scans : requested[s] <= requested'[s]
      /\ {receipts', status'} \union sending' \subseteq {receipts, status} \union sending
  BY DEF Beside
<1>2. CommandTypes'
  BY <1>1 DEF OnceInvariant, CommandTypes, Beside
<1>3. WorkIsListed' BY <1>1 DEF OnceInvariant, WorkIsListed, Id, ScanAt
<1>4. ReceiptsAreOlder'
  <2>1. \A s \in Scans : /\ receipts[s].id \in Nat /\ requested[s] \in Nat /\ requested'[s] \in Nat
                         /\ command.wanted[s] \in Nat
    BY <1>1, TypesAre, CommandConstants
  <2>2. \A s \in Scans : /\ receipts[s].id <= requested'[s]
                         /\ command.step # "idle" => command.wanted[s] <= requested'[s]
    BY <1>1, <2>1 DEF OnceInvariant, ReceiptsAreOlder
  <2>3. \A s \in Scans : command.step # "idle" /\ (s = "home" => ScanAt = "home") =>
                             receipts[s].id <= command.wanted[s]
    BY DEF OnceInvariant, ReceiptsAreOlder
  <2>4. ScanAt' = ScanAt BY <1>1 DEF ScanAt
  <2>5. receipts' = receipts /\ command' = command BY <1>1
  <2>6. \A s \in Scans : /\ receipts'[s].id <= requested'[s]
                         /\ command'.step # "idle" => command'.wanted[s] <= requested'[s]
    BY <2>2, <2>5
  <2>7. \A s \in Scans : command'.step # "idle" /\ (s = "home" => ScanAt' = "home") =>
                             receipts'[s].id <= command'.wanted[s]
    BY <2>3, <2>4, <2>5
  <2> QED BY <2>6, <2>7 DEF ReceiptsAreOlder
<1>5. WorkIsOnce' BY <1>1 DEF OnceInvariant, WorkIsOnce, ScanAt, Id
<1>6. ShownIsTrue'
  <2>1. \A shown \in {receipts', status'} \union sending' : \A s \in Scans :
            shown[s].outcome = "complete" => ran[<<s, shown[s].id>>] = 1
    BY <1>1 DEF OnceInvariant, ShownIsTrue
  <2> QED BY <1>1, <2>1 DEF ShownIsTrue
<1>7. PausedDidNot' BY <1>1 DEF OnceInvariant, PausedDidNot
<1> QED BY <1>2, <1>3, <1>4, <1>5, <1>6, <1>7 DEF OnceInvariant

(* A receipt of the scan the worker is at, true to what was run.           *)
Notes(r) ==
    /\ r \in Receipt /\ receipts' = [receipts EXCEPT ![ScanAt] = r]
    /\ r.id \in {receipts[ScanAt].id, Id}
    /\ r.outcome = "complete" => ran[<<ScanAt, r.id>>] = 1
    /\ r.outcome = "paused" => ran[<<ScanAt, r.id>>] = 0
    /\ UNCHANGED <<requested, readable, verifying, sending, status, ran>>
    /\ ids' \in Seq(Commands) /\ Len(ids') <= MAX_IDS

LEMMA NotesKeep ==
    ASSUME OnceInvariant, Works, NEW r, Notes(r),
           command' \in Work
    PROVE  /\ CommandTypes' /\ ShownIsTrue' /\ PausedDidNot'
           /\ receipts' \in ShownReceipts
           /\ \A s \in Scans : /\ receipts'[s] = (IF s = ScanAt THEN r ELSE receipts[s])
                               /\ receipts[s].id <= receipts'[s].id
                               /\ receipts'[s].id <= requested'[s]
           /\ receipts'[ScanAt].id <= Id
           /\ \A s \in Scans, id \in CommandIds :
                  ran'[<<s, id>>] <= 1 /\ (ran'[<<s, id>>] = 1 => id <= receipts'[s].id)
<1>1. /\ r \in Receipt /\ receipts' = [receipts EXCEPT ![ScanAt] = r]
      /\ r.id \in {receipts[ScanAt].id, Id}
      /\ r.outcome = "complete" => ran[<<ScanAt, r.id>>] = 1
      /\ r.outcome = "paused" => ran[<<ScanAt, r.id>>] = 0
      /\ UNCHANGED <<requested, readable, verifying, sending, status, ran>>
      /\ ids' \in Seq(Commands) /\ Len(ids') <= MAX_IDS
  BY DEF Notes
<1>2. /\ ScanAt \in Scans /\ Id \in 0..MAX_REQUESTS /\ receipts[ScanAt].id <= Id
      /\ Id <= requested[ScanAt]
  BY AtScan
<1>3. receipts \in ShownReceipts /\ sending \subseteq ShownReceipts /\ status \in ShownReceipts BY TypesAre
<1>4. /\ receipts' \in ShownReceipts
      /\ \A s \in Scans : receipts'[s] = (IF s = ScanAt THEN r ELSE receipts[s])
  BY <1>1, <1>2, <1>3 DEF ShownReceipts
<1>5. CommandTypes'
  <2>1. \A shown \in {receipts', status'} \union sending' :
            shown \in [Scans -> [id : CommandIds, outcome : Outcomes] \union {NoReceipt}]
    BY <1>1, <1>3, <1>4 DEF ShownReceipts, Receipt
  <2>2. command'.step \in {"idle", "next", "run", "report", "release"} BY DEF Work
  <2> QED BY <1>1, <2>1, <2>2 DEF OnceInvariant, CommandTypes, Commands
<1>6. \A s \in Scans : /\ receipts[s].id \in Nat /\ requested[s] \in Nat
                       /\ receipts[s].id <= requested[s]
  BY TypesAre, CommandConstants DEF OnceInvariant, ReceiptsAreOlder
<1>7. Id \in Nat BY <1>2, CommandConstants
<1>8. /\ \A s \in Scans : receipts[s].id <= receipts'[s].id /\ receipts'[s].id <= requested'[s]
      /\ receipts'[ScanAt].id <= Id
  <2>1. r.id \in Nat /\ receipts[ScanAt].id <= r.id /\ r.id <= Id /\ r.id <= requested[ScanAt]
    BY <1>1, <1>2, <1>6, <1>7
  <2> QED BY <1>1, <1>2, <1>4, <1>6, <2>1
<1>9. \A s \in Scans, id \in CommandIds :
          ran'[<<s, id>>] <= 1 /\ (ran'[<<s, id>>] = 1 => id <= receipts'[s].id)
  <2>1. SUFFICES ASSUME NEW s \in Scans, NEW id \in CommandIds
                 PROVE  ran[<<s, id>>] <= 1 /\ (ran[<<s, id>>] = 1 => id <= receipts'[s].id)
    BY <1>1
  <2>2. ran[<<s, id>>] <= 1 /\ (ran[<<s, id>>] = 1 => id <= receipts[s].id)
    BY DEF OnceInvariant, WorkIsOnce
  <2>3. receipts[s].id \in Nat /\ receipts'[s].id \in Nat /\ id \in Nat
    BY <1>1, <1>2, <1>4, <1>6, <1>7 DEF CommandIds
  <2> QED BY <1>8, <2>2, <2>3
<1>10. ShownIsTrue'
  <2>1. \A s \in Scans : receipts'[s].outcome = "complete" => ran[<<s, receipts'[s].id>>] = 1
    BY <1>1, <1>4 DEF OnceInvariant, ShownIsTrue
  <2>2. \A shown \in {status} \union sending : \A s \in Scans :
            shown[s].outcome = "complete" => ran[<<s, shown[s].id>>] = 1
    BY DEF OnceInvariant, ShownIsTrue
  <2> QED BY <1>1, <2>1, <2>2 DEF ShownIsTrue
<1>11. PausedDidNot' BY <1>1, <1>4 DEF OnceInvariant, PausedDidNot
<1> QED BY <1>4, <1>5, <1>8, <1>9, <1>10, <1>11

(* When a scan is dealt with, the next one's request is still the newest.  *)
LEMMA MovesOn ==
    ASSUME OnceInvariant, Works, NEW r, Notes(r), NextScan
    PROVE  OnceInvariant'
<1>1. \/ command' = NotSynced
      \/ /\ ScanAt = "home" /\ ScanAt' = "additional"
         /\ command'.step = "next" /\ command'.todo = <<"additional">>
         /\ command' \in Work
         /\ command'.wanted = command.wanted /\ command'.before = command.before
         /\ Id' = command.wanted["additional"]
  BY NextScanIs
<1>2. NotSynced \in Work /\ NotSynced.step = "idle" /\ Len(NotSynced.before) = 0
  BY CommandConstants DEF NotSynced, Work
<1>3. command' \in Work /\ command'.step \in {"idle", "next"} BY <1>1, <1>2
<1>4. /\ CommandTypes' /\ ShownIsTrue' /\ PausedDidNot'
      /\ \A s \in Scans : /\ receipts'[s] = (IF s = ScanAt THEN r ELSE receipts[s])
                          /\ receipts[s].id <= receipts'[s].id
                          /\ receipts'[s].id <= requested'[s]
      /\ \A s \in Scans, id \in CommandIds :
             ran'[<<s, id>>] <= 1 /\ (ran'[<<s, id>>] = 1 => id <= receipts'[s].id)
  BY <1>3, NotesKeep
<1>5. WorkIsListed'
  <2>1. Len(command'.before) <= MAX_IDS
    BY <1>1, <1>2, CommandConstants DEF OnceInvariant, WorkIsListed
  <2>2. command'.step # "idle" => command'.todo \in Todo BY <1>1, <1>2 DEF Todo
  <2> QED BY <1>3, <2>1, <2>2 DEF WorkIsListed
<1>6. WorkIsOnce' BY <1>3, <1>4 DEF WorkIsOnce
<1>7. ReceiptsAreOlder'
  <2>1. CASE command' = NotSynced BY <1>2, <1>4, <2>1 DEF ReceiptsAreOlder
  <2>2. CASE command' # NotSynced
    <3>1. requested' = requested BY DEF Notes
    <3>2. \A s \in Scans : command'.wanted[s] <= requested'[s]
      BY <1>1, <2>2, <3>1 DEF OnceInvariant, ReceiptsAreOlder, Works
    <3>3. \A s \in Scans : (s = "home" => ScanAt' = "home") => receipts'[s].id <= command'.wanted[s]
      <4>1. "additional" \in Scans /\ \A s \in Scans : (s = "home" => ScanAt' = "home") => s = "additional"
        BY <1>1, <2>2 DEF Scans
      <4>2. receipts["additional"].id <= command.wanted["additional"]
        BY <4>1 DEF OnceInvariant, ReceiptsAreOlder, Works
      <4>3. receipts'["additional"] = receipts["additional"] BY <1>1, <1>4, <2>2, <4>1
      <4> QED BY <1>1, <2>2, <4>1, <4>2, <4>3
    <3> QED BY <1>4, <3>2, <3>3 DEF ReceiptsAreOlder
  <2> QED BY <2>1, <2>2
<1> QED BY <1>4, <1>5, <1>6, <1>7 DEF OnceInvariant

LEMMA DecideKeeps == ASSUME OnceInvariant, Decide PROVE OnceInvariant'
<1>1. Works /\ command.step = "next" /\ UNCHANGED ran /\ Unmoved BY DEF Decide, Works
<1>2. UNCHANGED <<requested, readable, verifying, sending, status, ran>>
  BY <1>1 DEF Unmoved, statusVars
<1>3. /\ ScanAt \in Scans /\ Id \in 0..MAX_REQUESTS /\ receipts[ScanAt].id <= Id
      /\ Id # 0 => Id \in CommandIds /\ <<ScanAt, Id>> \in Commands
  BY <1>1, AtScan
<1>4. /\ receipts \in ShownReceipts /\ receipts[ScanAt] \in Receipt /\ ids \in Seq(Commands) /\ Len(ids) <= MAX_IDS
      /\ receipts[ScanAt].id \in 0..MAX_REQUESTS /\ command \in Work
      /\ receipts[ScanAt].outcome = "complete" => ran[<<ScanAt, receipts[ScanAt].id>>] = 1
      /\ receipts[ScanAt].outcome = "paused" => ran[<<ScanAt, receipts[ScanAt].id>>] = 0
  BY <1>3, TypesAre DEF OnceInvariant, WorkIsListed, ShownIsTrue, PausedDidNot
<1>5. CASE Skips
  <2>1. PICK r : r = receipts[ScanAt] OBVIOUS
  <2>2. receipts' = [receipts EXCEPT ![ScanAt] = r] BY <1>3, <1>4, <1>5, <2>1 DEF Skips, ShownReceipts
  <2>3. Notes(r) BY <1>2, <1>4, <1>5, <2>1, <2>2 DEF Notes, Skips
  <2> QED BY <1>1, <1>5, <2>3, MovesOn DEF Skips
<1>6. CASE AlreadyDone
  <2>1. PICK r : r = IF Same /\ receipts[ScanAt].outcome = "started"
                     THEN [id |-> receipts[ScanAt].id, outcome |-> "interrupted"] ELSE receipts[ScanAt]
    OBVIOUS
  <2>2. CASE Same /\ receipts[ScanAt].outcome = "started"
    <3>1. receipts[ScanAt] \in [id : CommandIds, outcome : Outcomes]
      BY <1>4, <2>2 DEF Receipt, NoReceipt
    <3>2. r = [receipts[ScanAt] EXCEPT !.outcome = "interrupted"] /\ r \in Receipt
          /\ r.id = receipts[ScanAt].id /\ r.outcome = "interrupted"
      BY <2>1, <2>2, <3>1 DEF Receipt, Outcomes
    <3>3. receipts' = [receipts EXCEPT ![ScanAt] = r]
      BY <1>3, <1>4, <1>6, <2>2, <3>2 DEF AlreadyDone, ShownReceipts
    <3>4. Notes(r) BY <1>2, <1>4, <1>6, <3>2, <3>3 DEF Notes, AlreadyDone
    <3> QED BY <1>1, <1>6, <3>4, MovesOn DEF AlreadyDone
  <2>3. CASE ~(Same /\ receipts[ScanAt].outcome = "started")
    <3>1. receipts' = receipts /\ ids' = ids /\ NextScan BY <1>6, <2>3 DEF AlreadyDone
    <3>2. receipts' = [receipts EXCEPT ![ScanAt] = r] BY <1>3, <1>4, <2>1, <2>3, <3>1 DEF ShownReceipts
    <3>3. Notes(r) BY <1>2, <1>4, <2>1, <2>3, <3>1, <3>2 DEF Notes
    <3> QED BY <1>1, <3>1, <3>3, MovesOn
  <2> QED BY <2>2, <2>3
<1>7. CASE Reserve
  <2>1. /\ Id \in CommandIds /\ <<ScanAt, Id>> \in Commands /\ ~Known
        /\ ids' = Last(Append(ids, <<ScanAt, Id>>))
        /\ command' = [command EXCEPT !.step = "run", !.before = ids]
    BY <1>3, <1>7 DEF Reserve
  <2>2. PICK r : r = [id |-> Id, outcome |-> "started"] OBVIOUS
  <2>3. r \in Receipt /\ receipts' = [receipts EXCEPT ![ScanAt] = r]
    BY <1>7, <2>1, <2>2 DEF Reserve, Receipt, Outcomes
  <2>4. ids' \in Seq(Commands) /\ Len(ids') <= MAX_IDS
    <3>1. Append(ids, <<ScanAt, Id>>) \in Seq(Commands) BY <1>4, <2>1, AppendProperties
    <3>2. \A q \in Seq(Commands) : Last(q) \in Seq(Commands) /\ Len(Last(q)) <= MAX_IDS
      <4>1. SUFFICES ASSUME NEW q \in Seq(Commands)
                     PROVE  Last(q) \in Seq(Commands) /\ Len(Last(q)) <= MAX_IDS
        OBVIOUS
      <4>2. Len(q) \in Nat /\ MAX_IDS \in Nat \ {0} BY CommandConstants
      <4>3. CASE Len(q) > MAX_IDS
        <5>1. Last(q) = SubSeq(q, Len(q) - MAX_IDS + 1, Len(q)) BY <4>3 DEF Last
        <5> QED BY <4>2, <4>3, <5>1, SubSeqProperties
      <4>4. CASE ~(Len(q) > MAX_IDS)
        <5>1. Last(q) = SubSeq(q, 1, Len(q)) BY <4>4 DEF Last
        <5> QED BY <4>2, <4>4, <5>1, SubSeqProperties
      <4> QED BY <4>3, <4>4
    <3> QED BY <2>1, <3>1, <3>2
  <2>5. Notes(r) BY <1>2, <2>2, <2>3, <2>4 DEF Notes
  <2>6. /\ command' \in Work /\ command'.step = "run" /\ command'.before = ids
        /\ command'.todo = command.todo /\ command'.wanted = command.wanted
    BY <1>4, <2>1 DEF Work, Commands
  <2>7. ScanAt' = ScanAt /\ Id' = Id BY <2>6 DEF ScanAt, Id
  <2>8. /\ CommandTypes' /\ ShownIsTrue' /\ PausedDidNot'
        /\ \A s \in Scans : /\ receipts'[s] = (IF s = ScanAt THEN r ELSE receipts[s])
                            /\ receipts'[s].id <= requested'[s]
        /\ \A s \in Scans, id \in CommandIds :
               ran'[<<s, id>>] <= 1 /\ (ran'[<<s, id>>] = 1 => id <= receipts'[s].id)
    BY <1>1, <2>5, <2>6, NotesKeep
  <2>9. WorkIsListed'
    BY <1>1, <1>4, <2>1, <2>6, <2>7 DEF OnceInvariant, WorkIsListed, CommandIds
  <2>10. ReceiptsAreOlder'
    <3>1. \A s \in Scans : command'.wanted[s] <= requested'[s]
      BY <1>1, <1>2, <2>6 DEF OnceInvariant, ReceiptsAreOlder
    <3>2. \A s \in Scans : (s = "home" => ScanAt = "home") => receipts'[s].id <= command'.wanted[s]
      <4>1. \A s \in Scans \ {ScanAt} : (s = "home" => ScanAt = "home") => receipts[s].id <= command.wanted[s]
        BY <1>1 DEF OnceInvariant, ReceiptsAreOlder
      <4>2. receipts'[ScanAt].id = command.wanted[ScanAt] BY <1>3, <2>2, <2>8 DEF Id
      <4>3. command.wanted[ScanAt] <= command.wanted[ScanAt] BY <1>3 DEF Id
      <4> QED BY <2>6, <2>8, <4>1, <4>2, <4>3
    <3> QED BY <2>7, <2>8, <3>1, <3>2 DEF ReceiptsAreOlder
  <2>11. ran[<<ScanAt, Id>>] = 0
    <3>1. Same => receipts[ScanAt].outcome = "paused" BY <2>1 DEF Known
    <3>2. CASE Same BY <1>4, <3>1, <3>2 DEF Same
    <3>3. CASE ~Same
      <4>1. receipts[ScanAt].id < Id BY <1>3, <1>4, <3>3, CommandConstants DEF Same
      <4>2. ran[<<ScanAt, Id>>] \in Nat /\ ran[<<ScanAt, Id>>] <= 1
            /\ (ran[<<ScanAt, Id>>] = 1 => Id <= receipts[ScanAt].id)
        BY <1>3, <2>1, TypesAre DEF OnceInvariant, WorkIsOnce
      <4> QED BY <1>3, <1>4, <4>1, <4>2
    <3> QED BY <3>2, <3>3
  <2>12. WorkIsOnce'
    BY <1>2, <1>3, <2>2, <2>6, <2>7, <2>8, <2>11 DEF WorkIsOnce
  <2> QED BY <2>8, <2>9, <2>10, <2>12 DEF OnceInvariant
<1> QED BY <1>5, <1>6, <1>7 DEF Decide

(* The restart is counted, once.                                           *)
LEMMA RunKeeps == ASSUME OnceInvariant, RunCommand PROVE OnceInvariant'
<1>1. Works /\ command.step = "run" /\ UNCHANGED <<receipts, ids>> /\ Unmoved BY DEF RunCommand, Works
<1>2. UNCHANGED <<requested, readable, verifying, sending, status>> BY <1>1 DEF Unmoved, statusVars
<1>3. /\ ScanAt \in Scans /\ Id \in 0..MAX_REQUESTS /\ Id # 0
      /\ Id \in CommandIds /\ <<ScanAt, Id>> \in Commands
  BY <1>1, AtScan DEF OnceInvariant, WorkIsListed
<1>4. /\ ran \in [Commands -> Nat] /\ ran[<<ScanAt, Id>>] = 0 /\ command \in Work
      /\ receipts[ScanAt] = [id |-> Id, outcome |-> "started"]
  BY <1>1, TypesAre DEF OnceInvariant, WorkIsListed, WorkIsOnce
<1>5. PICK result \in {"complete", "failed", "paused"} :
        /\ command' = [command EXCEPT !.step = "report", !.result = result]
        /\ \/ result # "paused" /\ ran' = [ran EXCEPT ![<<ScanAt, Id>>] = @ + 1]
           \/ result # "complete" /\ ran' = ran
  BY DEF RunCommand, ScanRestarts
<1>6. /\ command' \in Work /\ command'.step = "report" /\ command'.result = result
      /\ command'.todo = command.todo /\ command'.wanted = command.wanted
      /\ command'.before = command.before
  BY <1>4, <1>5 DEF Work
<1>7. ScanAt' = ScanAt /\ Id' = Id BY <1>6 DEF ScanAt, Id
<1>8. /\ ran' \in [Commands -> Nat]
      /\ \A c \in Commands : ran'[c] = ran[c] \/ (c = <<ScanAt, Id>> /\ ran'[c] = 1)
      /\ result = "complete" => ran'[<<ScanAt, Id>>] = 1
      /\ result = "paused" => ran'[<<ScanAt, Id>>] = 0
  BY <1>3, <1>4, <1>5
<1>9. CommandTypes' BY <1>1, <1>2, <1>6, <1>8 DEF OnceInvariant, CommandTypes, Commands
<1>10. WorkIsListed'
  BY <1>1, <1>3, <1>6, <1>7 DEF OnceInvariant, WorkIsListed
<1>11. ReceiptsAreOlder' BY <1>1, <1>2, <1>6, <1>7 DEF OnceInvariant, ReceiptsAreOlder
<1>12. WorkIsOnce'
  <2>1. ASSUME NEW s \in Scans, NEW id \in CommandIds
        PROVE  ran'[<<s, id>>] <= 1 /\ (ran'[<<s, id>>] = 1 => id <= receipts'[s].id)
    <3>1. <<s, id>> \in Commands /\ ran[<<s, id>>] <= 1 /\ (ran[<<s, id>>] = 1 => id <= receipts[s].id)
      BY DEF OnceInvariant, WorkIsOnce, Commands
    <3>2. CASE <<s, id>> = <<ScanAt, Id>>
      <4>1. s = ScanAt /\ id = Id BY <3>2
      <4>2. receipts'[s].id = id /\ id \in Nat BY <1>1, <1>4, <4>1 DEF CommandIds
      <4>3. ran'[<<s, id>>] <= 1 BY <1>8, <3>1
      <4> QED BY <4>2, <4>3
    <3>3. CASE <<s, id>> # <<ScanAt, Id>> BY <1>1, <1>8, <3>1, <3>3
    <3> QED BY <3>2, <3>3
  <2>2. receipts'[ScanAt'] = [id |-> Id', outcome |-> "started"] BY <1>1, <1>4, <1>7
  <2> QED BY <1>6, <1>7, <1>8, <2>1, <2>2 DEF WorkIsOnce
<1>13. ShownIsTrue'
  <2>1. ASSUME NEW shown \in {receipts, status} \union sending, NEW s \in Scans,
               shown[s].outcome = "complete"
        PROVE  ran'[<<s, shown[s].id>>] = 1
    <3>1. shown[s] \in Receipt /\ shown[s] # NoReceipt
      <4>1. shown \in ShownReceipts BY TypesAre
      <4> QED BY <2>1, <4>1 DEF ShownReceipts, NoReceipt
    <3>2. <<s, shown[s].id>> \in Commands BY <3>1 DEF Receipt, Commands
    <3>3. ran[<<s, shown[s].id>>] = 1 BY <2>1 DEF OnceInvariant, ShownIsTrue
    <3> QED BY <1>8, <3>2, <3>3
  <2> QED BY <1>1, <1>2, <2>1 DEF ShownIsTrue
<1>14. PausedDidNot'
  <2>1. ASSUME NEW s \in Scans, receipts[s].outcome = "paused" PROVE ran'[<<s, receipts[s].id>>] = 0
    <3>1. receipts[s] \in Receipt /\ receipts[s] # NoReceipt BY <2>1, TypesAre DEF NoReceipt
    <3>2. <<s, receipts[s].id>> \in Commands BY <3>1 DEF Receipt, Commands
    <3>3. s # ScanAt BY <1>4, <2>1
    <3>4. ran[<<s, receipts[s].id>>] = 0 BY <2>1 DEF OnceInvariant, PausedDidNot
    <3> QED BY <1>8, <3>2, <3>3, <3>4
  <2> QED BY <1>1, <2>1 DEF PausedDidNot
<1> QED BY <1>9, <1>10, <1>11, <1>12, <1>13, <1>14 DEF OnceInvariant

LEMMA ResultKeeps == ASSUME OnceInvariant, ReportResult PROVE OnceInvariant'
<1>1. Works /\ command.step = "report" /\ UNCHANGED <<ids, ran>> /\ Unmoved BY DEF ReportResult, Works
<1>2. UNCHANGED <<requested, readable, verifying, sending, status>> BY <1>1 DEF Unmoved, statusVars
<1>3. /\ ScanAt \in Scans /\ Id \in CommandIds /\ <<ScanAt, Id>> \in Commands /\ Id # 0
      /\ command \in Work /\ ids \in Seq(Commands) /\ Len(ids) <= MAX_IDS
  BY <1>1, AtScan, TypesAre DEF OnceInvariant, WorkIsListed
<1>4. PICK r : r = [id |-> Id, outcome |-> command.result] OBVIOUS
<1>5. /\ command.result \in {"complete", "failed", "paused"}
      /\ command.result = "complete" => ran[<<ScanAt, Id>>] = 1
      /\ command.result = "paused" => ran[<<ScanAt, Id>>] = 0
  BY <1>1, <1>3 DEF OnceInvariant, WorkIsOnce, Work
<1>6. r \in Receipt BY <1>3, <1>4, <1>5 DEF Receipt, Outcomes
<1>7. Notes(r) BY <1>1, <1>2, <1>3, <1>4, <1>5, <1>6 DEF Notes, ReportResult
<1>8. CASE NextScan BY <1>1, <1>7, <1>8, MovesOn
<1>9. CASE command.result = "paused" /\ Step("release")
  <2>1. /\ command' \in Work /\ command'.step = "release" /\ command'.todo = command.todo
        /\ command'.wanted = command.wanted /\ command'.before = command.before
    BY <1>3, <1>9 DEF Step, Work
  <2>2. ScanAt' = ScanAt /\ Id' = Id BY <2>1 DEF ScanAt, Id
  <2>3. /\ CommandTypes' /\ ShownIsTrue' /\ PausedDidNot'
        /\ \A s \in Scans : /\ receipts'[s] = (IF s = ScanAt THEN r ELSE receipts[s])
                            /\ receipts'[s].id <= requested'[s]
        /\ receipts'[ScanAt].id <= Id
        /\ \A s \in Scans, id \in CommandIds :
               ran'[<<s, id>>] <= 1 /\ (ran'[<<s, id>>] = 1 => id <= receipts'[s].id)
    BY <1>1, <1>7, <2>1, NotesKeep
  <2>4. WorkIsListed' BY <1>1, <1>3, <2>1, <2>2 DEF OnceInvariant, WorkIsListed
  <2>5. ReceiptsAreOlder'
    <3>1. \A s \in Scans : command'.wanted[s] <= requested'[s]
      BY <1>1, <1>2, <2>1 DEF OnceInvariant, ReceiptsAreOlder
    <3>2. \A s \in Scans : (s = "home" => ScanAt = "home") => receipts'[s].id <= command'.wanted[s]
      <4>1. \A s \in Scans \ {ScanAt} : (s = "home" => ScanAt = "home") => receipts[s].id <= command.wanted[s]
        BY <1>1 DEF OnceInvariant, ReceiptsAreOlder
      <4>2. receipts'[ScanAt].id <= command.wanted[ScanAt] BY <2>3 DEF Id
      <4> QED BY <1>3, <2>1, <2>3, <4>1, <4>2
    <3> QED BY <2>2, <2>3, <3>1, <3>2 DEF ReceiptsAreOlder
  <2>6. WorkIsOnce' BY <2>1, <2>3 DEF WorkIsOnce
  <2> QED BY <2>3, <2>4, <2>5, <2>6 DEF OnceInvariant
<1> QED BY <1>8, <1>9 DEF ReportResult

LEMMA ReleaseKeeps == ASSUME OnceInvariant, ReleaseId PROVE OnceInvariant'
<1>1. /\ Works /\ command.step = "release" /\ NextScan /\ ids' = command.before
      /\ UNCHANGED <<requested, readable, verifying, sending, status, ran, receipts>>
  BY DEF ReleaseId, Works, Unmoved, statusVars
<1>2. /\ ScanAt \in Scans /\ receipts \in ShownReceipts /\ receipts[ScanAt] \in Receipt
      /\ command.before \in Seq(Commands) /\ Len(command.before) <= MAX_IDS
      /\ receipts[ScanAt].outcome = "complete" => ran[<<ScanAt, receipts[ScanAt].id>>] = 1
      /\ receipts[ScanAt].outcome = "paused" => ran[<<ScanAt, receipts[ScanAt].id>>] = 0
  BY <1>1, AtScan, TypesAre
     DEF OnceInvariant, WorkIsListed, Work, Commands, ShownIsTrue, PausedDidNot
<1>3. PICK r : r = receipts[ScanAt] OBVIOUS
<1>4. Notes(r) BY <1>1, <1>2, <1>3 DEF Notes, ShownReceipts
<1> QED BY <1>1, <1>4, MovesOn

(* The worker reads the file, or is stopped.                               *)
LEMMA FreshKeeps ==
    ASSUME OnceInvariant, FetchCommands \/ StopWorker
    PROVE  OnceInvariant'
<1>1. UNCHANGED <<requested, readable, verifying, receipts, ids, sending, status, ran>>
  BY DEF FetchCommands, StopWorker, Unmoved, statusVars
<1>2. /\ command' \in Work /\ command'.step \in {"idle", "next"} /\ command'.before = <<>>
      /\ command'.step = "next" => command'.todo \in Todo /\ command'.wanted = requested
  <2>1. CASE StopWorker
    <3>1. NotSynced \in Work /\ NotSynced.step = "idle" /\ NotSynced.before = <<>>
      BY CommandConstants DEF NotSynced, Work
    <3> QED BY <2>1, <3>1 DEF StopWorker
  <2>2. CASE FetchCommands
    <3>1. command' = [step |-> "next", todo |-> <<"home", "additional">>, before |-> <<>>,
                      result |-> "none", wanted |-> requested]
      BY <2>2 DEF FetchCommands, NotSynced
    <3>2. requested \in [Scans -> 0..MAX_REQUESTS] /\ <<"home", "additional">> \in Todo
      BY TypesAre DEF Todo
    <3>3. <<>> \in Seq(Scans \X CommandIds) OBVIOUS
    <3> QED BY <3>1, <3>2, <3>3 DEF Work
  <2> QED BY <2>1, <2>2
<1>3. CommandTypes' BY <1>1, <1>2 DEF OnceInvariant, CommandTypes
<1>4. WorkIsListed'
  <2>1. Len(command'.before) <= MAX_IDS BY <1>2, CommandConstants
  <2> QED BY <1>2, <2>1 DEF WorkIsListed
<1>5. ReceiptsAreOlder'
  <2>1. \A s \in Scans : receipts[s].id <= requested[s] /\ requested[s] \in 0..MAX_REQUESTS
    BY TypesAre DEF OnceInvariant, ReceiptsAreOlder
  <2>2. \A s \in Scans : requested[s] <= requested[s] BY <2>1, CommandConstants
  <2> QED BY <1>1, <1>2, <2>1, <2>2 DEF ReceiptsAreOlder
<1>6. WorkIsOnce' BY <1>1, <1>2 DEF OnceInvariant, WorkIsOnce
<1>7. ShownIsTrue' /\ PausedDidNot' BY <1>1 DEF OnceInvariant, ShownIsTrue, PausedDidNot
<1> QED BY <1>3, <1>4, <1>5, <1>6, <1>7 DEF OnceInvariant

LEMMA CommandsStart == ASSUME CommandsInit PROVE OnceInvariant
<1>1. /\ requested = [s \in Scans |-> 0] /\ readable = TRUE /\ verifying = FALSE
      /\ receipts = [s \in Scans |-> NoReceipt] /\ ids = <<>>
      /\ command = NotSynced /\ sending = {} /\ status = receipts
      /\ ran = [c \in Scans \X CommandIds |-> 0]
  BY DEF CommandsInit
<1>2. NotSynced \in Work /\ NotSynced.step = "idle" /\ NotSynced.before = <<>>
  BY CommandConstants DEF NotSynced, Work
<1>3. CommandTypes
  <2>1. requested \in [Scans -> 0..MAX_REQUESTS] BY <1>1, CommandConstants
  <2>2. receipts \in [Scans -> [id : CommandIds, outcome : Outcomes] \union {NoReceipt}] BY <1>1
  <2>3. ids \in Seq(Scans \X CommandIds) /\ Len(ids) <= MAX_IDS BY <1>1, CommandConstants
  <2>4. ran \in [Scans \X CommandIds -> Nat] BY <1>1
  <2> QED BY <1>1, <1>2, <2>1, <2>2, <2>3, <2>4 DEF CommandTypes
<1>4. WorkIsListed
  <2>1. Len(command.before) <= MAX_IDS BY <1>1, <1>2, CommandConstants
  <2> QED BY <1>1, <1>2, <2>1 DEF WorkIsListed
<1>5. ReceiptsAreOlder BY <1>1, <1>2 DEF ReceiptsAreOlder, NoReceipt
<1>6. WorkIsOnce
  <2>1. \A s \in Scans, id \in CommandIds : ran[<<s, id>>] = 0 BY <1>1
  <2> QED BY <1>1, <1>2, <2>1 DEF WorkIsOnce
<1>7. ShownIsTrue /\ PausedDidNot BY <1>1 DEF ShownIsTrue, PausedDidNot, NoReceipt
<1> QED BY <1>3, <1>4, <1>5, <1>6, <1>7 DEF OnceInvariant

LEMMA CommandsStep == ASSUME OnceInvariant, [CommandsNext]_commandVars PROVE OnceInvariant'
<1>1. requested \in [Scans -> 0..MAX_REQUESTS] /\ readable \in BOOLEAN /\ verifying \in BOOLEAN
      /\ \A s \in Scans : requested[s] \in 0..MAX_REQUESTS /\ requested[s] <= requested[s]
  BY TypesAre, CommandConstants
<1>2. CASE \E s \in Scans : RequestRestart(s)
  <2>1. PICK s \in Scans : RequestRestart(s) BY <1>2
  <2>2. PICK id \in CommandIds : id = requested[s] + 1 /\ requested' = [requested EXCEPT ![s] = id]
    BY <2>1 DEF RequestRestart
  <2>3. id \in 0..MAX_REQUESTS /\ requested[s] <= id BY <1>1, <2>2, CommandConstants DEF CommandIds
  <2>4. /\ requested' \in [Scans -> 0..MAX_REQUESTS]
        /\ \A t \in Scans : requested[t] <= requested'[t]
    BY <1>1, <2>2, <2>3
  <2> QED BY <1>1, <2>1, <2>4, BesideKeeps DEF RequestRestart, Beside, statusVars
<1>3. CASE SpoilCommands \/ Verification
  BY <1>1, <1>3, BesideKeeps DEF SpoilCommands, Verification, Beside, statusVars
<1>4. CASE SendStatus \/ RecordStatus
  BY <1>1, <1>4, BesideKeeps DEF SendStatus, RecordStatus, Beside
<1>5. CASE UNCHANGED commandVars BY <1>1, <1>5, BesideKeeps DEF commandVars, Beside
<1> QED BY <1>2, <1>3, <1>4, <1>5, FreshKeeps, DecideKeeps, RunKeeps, ResultKeeps, ReleaseKeeps
        DEF CommandsNext

-----------------------------------------------------------------------------
(* Theorems about the commands                                             *)

(* In every reachable state no receipt is newer than what was requested,   *)
(* and what restarted a scan has a receipt or had one.                     *)
THEOREM OnceInvariantHolds == CommandsSpec => []OnceInvariant
BY CommandsStart, CommandsStep, PTL DEF CommandsSpec

LEMMA OnceMeans == OnceInvariant => CommandsInvariant
<1> SUFFICES ASSUME OnceInvariant PROVE CommandsInvariant OBVIOUS
<1>1. RestartsOnce
  <2>1. DOMAIN ran = Commands BY TypesAre
  <2>2. \A c \in Commands : ran[c] <= 1 BY DEF OnceInvariant, WorkIsOnce, Commands
  <2> QED BY <2>1, <2>2 DEF RestartsOnce
<1>2. ReceiptsAreTrue
  <2>1. SUFFICES ASSUME NEW s \in Scans, NEW id \in CommandIds
        PROVE  /\ receipts[s] = [id |-> id, outcome |-> "complete"] => ran[<<s, id>>] = 1
               /\ receipts[s] = [id |-> id, outcome |-> "paused"] => ran[<<s, id>>] = 0
               /\ ran[<<s, id>>] = 1 => receipts[s].id >= id
               /\ receipts[s].id = id /\ ran[<<s, id>>] = 0 =>
                     receipts[s].outcome \in {"started", "failed", "interrupted", "paused"}
               /\ status[s] = [id |-> id, outcome |-> "complete"] => ran[<<s, id>>] = 1
    BY DEF ReceiptsAreTrue
  <2>2. receipts[s].id \in Nat /\ id \in Nat /\ receipts[s] \in Receipt
    BY TypesAre, CommandConstants DEF CommandIds
  <2>3. ran[<<s, id>>] = 1 => receipts[s].id >= id BY <2>2 DEF OnceInvariant, WorkIsOnce
  <2>4. receipts[s].id = id /\ ran[<<s, id>>] = 0 =>
            receipts[s].outcome \in {"started", "failed", "interrupted", "paused"}
    <3>1. receipts[s].id = id => receipts[s].outcome \in Outcomes
      BY <2>2 DEF Receipt, NoReceipt, CommandIds
    <3>2. receipts[s].outcome = "complete" => ran[<<s, receipts[s].id>>] = 1
      BY DEF OnceInvariant, ShownIsTrue
    <3> QED BY <3>1, <3>2 DEF Outcomes
  <2>5. /\ receipts[s] = [id |-> id, outcome |-> "complete"] => ran[<<s, id>>] = 1
        /\ status[s] = [id |-> id, outcome |-> "complete"] => ran[<<s, id>>] = 1
    BY DEF OnceInvariant, ShownIsTrue
  <2>6. receipts[s] = [id |-> id, outcome |-> "paused"] => ran[<<s, id>>] = 0
    BY DEF OnceInvariant, PausedDidNot
  <2> QED BY <2>3, <2>4, <2>5, <2>6
<1> QED BY <1>1, <1>2 DEF OnceInvariant, CommandsInvariant

(* A requested restart happens at most once, and its receipt tells what    *)
(* came of it (scanner-control.js, syncCommands).                          *)
THEOREM RestartsHappenOnce == CommandsSpec => []CommandsInvariant
BY OnceInvariantHolds, OnceMeans, PTL
-----------------------------------------------------------------------------
(***************************************************************************)
(* The turns of the scanners' tabs, for every set of tabs and of requests: *)
(* Chrome has one command at a time, a turn ends with the selection, input *)
(* or verification, a document believes only in turns it has, nobody is    *)
(* overtaken twice, and the user's own tab stays in front.                 *)
(***************************************************************************)

-----------------------------------------------------------------------------
(* The queue                                                               *)

(* Whoever leaves the queue, the others keep their order.                  *)
LEMMA WithoutIs ==
    ASSUME NEW q, IsQueue(q), NEW out
    PROVE  /\ IsQueue(Without(q, out)) /\ DOMAIN Without(q, out) = DOMAIN q \ out
           /\ \A t \in DOMAIN q \ out : Without(q, out)[t].ahead = q[t].ahead \ out
<1> DEFINE w == Without(q, out)
<1>1. DOMAIN w = DOMAIN q \ out BY DEF Without
<1>2. \A t \in DOMAIN q \ out : w[t] = [q[t] EXCEPT !.ahead = q[t].ahead \ out] BY DEF Without
<1>3. \A t \in DOMAIN q : q[t] \in Ticket BY DEF IsQueue
<1>4. \A t \in DOMAIN q \ out : /\ w[t] \in Ticket /\ w[t].ahead = q[t].ahead \ out
                                /\ w[t].gen = q[t].gen
  <2>1. \A e \in Ticket : LET f == [e EXCEPT !.ahead = e.ahead \ out]
                         IN  f \in Ticket /\ f.ahead = e.ahead \ out /\ f.gen = e.gen
    BY DEF Ticket
  <2> QED BY <1>2, <1>3, <2>1
<1>5. DOMAIN w \subseteq ScannerTabs BY <1>1 DEF IsQueue
<1>6. w \in [DOMAIN w -> Ticket]
  <2>1. w = [t \in DOMAIN w |-> w[t]] BY DEF Without
  <2> QED BY <1>1, <1>4, <2>1
<1>7. \A t \in DOMAIN w : w[t].ahead \subseteq DOMAIN w \ {t} BY <1>1, <1>4 DEF IsQueue
<1>8. \A t, u \in DOMAIN w : t # u => (t \in w[u].ahead <=> u \notin w[t].ahead)
  BY <1>1, <1>4 DEF IsQueue
<1>9. \A t, u \in DOMAIN w : t \in w[u].ahead => w[t].ahead \subseteq w[u].ahead
  BY <1>1, <1>4 DEF IsQueue
<1> QED BY <1>1, <1>4, <1>5, <1>6, <1>7, <1>8, <1>9 DEF IsQueue

(* A tab that asks comes last, or keeps its place.                         *)
LEMMA EnqueuedIs ==
    ASSUME NEW q, IsQueue(q), NEW t \in ScannerTabs, NEW g \in Nat
    PROVE  /\ IsQueue(Enqueued(q, t, g)) /\ DOMAIN Enqueued(q, t, g) = DOMAIN q \union {t}
           /\ \A u \in DOMAIN q : Enqueued(q, t, g)[u].ahead = q[u].ahead
<1> DEFINE w == Enqueued(q, t, g)
<1>1. DOMAIN w = DOMAIN q \union {t} BY DEF Enqueued
<1>2. \A u \in DOMAIN q \ {t} : w[u] = q[u] BY DEF Enqueued
<1>3. w[t] = [gen |-> g, stale |-> FALSE,
              ahead |-> IF t \in DOMAIN q THEN q[t].ahead ELSE DOMAIN q] BY DEF Enqueued
<1>4. \A u \in DOMAIN q : q[u] \in Ticket BY DEF IsQueue
<1>5. w[t] \in Ticket
  <2>1. DOMAIN q \subseteq ScannerTabs BY DEF IsQueue
  <2>2. t \in DOMAIN q => q[t].ahead \subseteq ScannerTabs BY <1>4 DEF Ticket
  <2> QED BY <1>3, <2>1, <2>2 DEF Ticket
<1>6. w[t].ahead = IF t \in DOMAIN q THEN q[t].ahead ELSE DOMAIN q BY <1>3
<1>7. \A u \in DOMAIN q : w[u].ahead = q[u].ahead BY <1>2, <1>6
<1>8. w \in [DOMAIN w -> Ticket]
  <2>1. w = [u \in DOMAIN w |-> w[u]] BY DEF Enqueued
  <2>2. \A u \in DOMAIN w : w[u] \in Ticket BY <1>1, <1>2, <1>4, <1>5
  <2> QED BY <2>1, <2>2
<1>9. DOMAIN w \subseteq ScannerTabs BY <1>1 DEF IsQueue
<1>a. \A u \in DOMAIN w : w[u].ahead \subseteq DOMAIN w \ {u} BY <1>1, <1>6, <1>7 DEF IsQueue
<1>b. \A x, u \in DOMAIN w : x # u => (x \in w[u].ahead <=> u \notin w[x].ahead)
  <2>1. CASE t \in DOMAIN q BY <2>1, <1>1, <1>7 DEF IsQueue
  <2>2. CASE t \notin DOMAIN q
    <3>1. w[t].ahead = DOMAIN q BY <2>2, <1>6
    <3>2. \A u \in DOMAIN q : t \notin w[u].ahead BY <2>2, <1>7 DEF IsQueue
    <3> QED BY <2>2, <3>1, <3>2, <1>1, <1>7 DEF IsQueue
  <2> QED BY <2>1, <2>2
<1>c. \A x, u \in DOMAIN w : x \in w[u].ahead => w[x].ahead \subseteq w[u].ahead
  <2>1. CASE t \in DOMAIN q BY <2>1, <1>1, <1>7 DEF IsQueue
  <2>2. CASE t \notin DOMAIN q
    <3>1. w[t].ahead = DOMAIN q BY <2>2, <1>6
    <3>2. \A u \in DOMAIN q : t \notin w[u].ahead BY <2>2, <1>7 DEF IsQueue
    <3> QED BY <2>2, <3>1, <3>2, <1>1, <1>7 DEF IsQueue
  <2> QED BY <2>1, <2>2
<1> QED BY <1>1, <1>7, <1>8, <1>9, <1>a, <1>b, <1>c DEF IsQueue

LEMMA NoQueueIs == IsQueue(NoQueue) /\ DOMAIN NoQueue = {}
BY DEF IsQueue, NoQueue

(* Aging a ticket moves nobody.                                            *)
LEMMA AgedIs ==
    ASSUME NEW q, IsQueue(q), NEW t \in DOMAIN q
    PROVE  /\ IsQueue([q EXCEPT ![t].stale = TRUE])
           /\ DOMAIN [q EXCEPT ![t].stale = TRUE] = DOMAIN q
           /\ \A u \in DOMAIN q : [q EXCEPT ![t].stale = TRUE][u].ahead = q[u].ahead
<1> DEFINE w == [q EXCEPT ![t].stale = TRUE]
<1>1. DOMAIN w = DOMAIN q OBVIOUS
<1>2. \A u \in DOMAIN q : q[u] \in Ticket BY DEF IsQueue
<1>3. \A u \in DOMAIN q : w[u] \in Ticket /\ w[u].ahead = q[u].ahead BY <1>2 DEF Ticket
<1>4. w \in [DOMAIN w -> Ticket]
  <2>1. w = [u \in DOMAIN w |-> w[u]] OBVIOUS
  <2> QED BY <1>1, <1>3, <2>1
<1> QED BY <1>1, <1>3, <1>4 DEF IsQueue

-----------------------------------------------------------------------------
(* What a step does to the requests                                        *)

OthersStay(r) == \A q \in Requests \ {r} : req'[q] = req[q]
Quits(r) == /\ OthersStay(r) /\ req'[r] = NoRequest
            /\ flight' = IF flight = r THEN Nobody ELSE flight
Keeps(r) == /\ OthersStay(r) /\ flight' = flight
            /\ req'[r].tab = req[r].tab /\ req'[r].gen = req[r].gen /\ req'[r].live = req[r].live
            /\ req'[r].undisturbed = req[r].undisturbed /\ req'[r].behind = req[r].behind
Advances(r, pc, seen) ==
    Keeps(r) /\ req'[r].pc = pc /\ req'[r].seen = seen /\ req'[r].commanded = req[r].commanded
GivesCommand(r)  == Keeps(r) /\ req'[r].pc = "update" /\ req'[r].commanded
CommandEnds(r) == Keeps(r) /\ req'[r].pc = "look4" /\ ~req'[r].commanded
Begins(r, t) ==
    /\ OthersStay(r) /\ flight = Nobody /\ req[r].pc = "idle"
    /\ req'[r].pc = "look1" /\ req'[r].tab = t /\ ~req'[r].commanded /\ req'[r].live
    /\ req'[r].behind = QueuedBehind(t, gen[t])
    /\ flight' = IF QueuedBehind(t, gen[t]) THEN Nobody ELSE r
Died(q) == /\ ~req'[q].live /\ req'[q].commanded = req[q].commanded
           /\ req[q].commanded => req'[q].pc = req[q].pc /\ req'[q].tab = req[q].tab
           /\ ~req[q].commanded => req'[q].pc \in {"idle", "turn"}
           /\ req'[q].pc # "idle" => req[q].pc # "idle" /\ req'[q].tab = req[q].tab

LEMMA RequestIs ==
    /\ NoRequest \in Request
    /\ \A e \in Request, pc \in {"idle"} \union Before \union Beyond,
          seen \in ScannerTabs \union {Manual, Nobody, "error"}, b \in BOOLEAN :
             /\ [e EXCEPT !.pc = pc] \in Request
             /\ [e EXCEPT !.pc = pc, !.seen = seen] \in Request
             /\ [e EXCEPT !.pc = pc, !.commanded = b] \in Request
             /\ [e EXCEPT !.pc = pc, !.seen = seen, !.commanded = b] \in Request
             /\ [e EXCEPT !.answered = b] \in Request
             /\ [e EXCEPT !.live = b] \in Request /\ [e EXCEPT !.undisturbed = b] \in Request
<1>1. NoRequest \in Request BY DEF NoRequest, Request
<1> SUFFICES ASSUME NEW e \in Request, NEW pc \in {"idle"} \union Before \union Beyond,
                    NEW seen \in ScannerTabs \union {Manual, Nobody, "error"}, NEW b \in BOOLEAN
             PROVE  /\ [e EXCEPT !.pc = pc] \in Request
                    /\ [e EXCEPT !.pc = pc, !.seen = seen] \in Request
                    /\ [e EXCEPT !.pc = pc, !.commanded = b] \in Request
                    /\ [e EXCEPT !.pc = pc, !.seen = seen, !.commanded = b] \in Request
                    /\ [e EXCEPT !.answered = b] \in Request
                    /\ [e EXCEPT !.live = b] \in Request /\ [e EXCEPT !.undisturbed = b] \in Request
  BY <1>1
<1>2. [e EXCEPT !.pc = pc] \in Request BY DEF Request
<1>3. [e EXCEPT !.pc = pc, !.seen = seen] \in Request BY DEF Request
<1>4. [e EXCEPT !.pc = pc, !.commanded = b] \in Request BY DEF Request
<1>5. [e EXCEPT !.pc = pc, !.seen = seen, !.commanded = b] \in Request BY DEF Request
<1>6. [e EXCEPT !.answered = b] \in Request BY DEF Request
<1>7. [e EXCEPT !.live = b] \in Request BY DEF Request
<1>8. [e EXCEPT !.undisturbed = b] \in Request BY DEF Request
<1> QED BY <1>2, <1>3, <1>4, <1>5, <1>6, <1>7, <1>8

(* Who is revoked loses its authority, but not a command that Chrome has.  *)
LEMMA DeadIs ==
    ASSUME NEW rs, rs \in [Requests -> Request]
    PROVE  /\ Dead(rs) \in [Requests -> Request]
           /\ \A q \in Requests :
                /\ Dead(rs)[q].live = FALSE /\ Dead(rs)[q].commanded = rs[q].commanded
                /\ rs[q].commanded => Dead(rs)[q].pc = rs[q].pc /\ Dead(rs)[q].tab = rs[q].tab
                /\ ~rs[q].commanded => Dead(rs)[q].pc \in {"idle", "turn"}
                /\ Dead(rs)[q].pc # "idle" => rs[q].pc # "idle" /\ Dead(rs)[q].tab = rs[q].tab
<1> SUFFICES ASSUME NEW q \in Requests
             PROVE  /\ Dead(rs)[q] \in Request
                    /\ Dead(rs)[q].live = FALSE /\ Dead(rs)[q].commanded = rs[q].commanded
                    /\ rs[q].commanded => Dead(rs)[q].pc = rs[q].pc /\ Dead(rs)[q].tab = rs[q].tab
                    /\ ~rs[q].commanded => Dead(rs)[q].pc \in {"idle", "turn"}
                    /\ Dead(rs)[q].pc # "idle" => rs[q].pc # "idle" /\ Dead(rs)[q].tab = rs[q].tab
  BY DEF Dead
<1> DEFINE e == rs[q]
<1>1. e \in Request OBVIOUS
<1>2. CASE e.pc = "idle" \/ e.commanded
  <2>1. Dead(rs)[q] = [e EXCEPT !.live = FALSE] BY <1>2 DEF Dead
  <2>2. /\ [e EXCEPT !.live = FALSE] \in Request
        /\ [e EXCEPT !.live = FALSE].live = FALSE /\ [e EXCEPT !.live = FALSE].pc = e.pc
        /\ [e EXCEPT !.live = FALSE].tab = e.tab
        /\ [e EXCEPT !.live = FALSE].commanded = e.commanded
    <3> HIDE DEF e
    <3> QED BY <1>1 DEF Request
  <2> QED BY <1>2, <2>1, <2>2
<1>3. CASE ~(e.pc = "idle" \/ e.commanded)
  <2> DEFINE d == [NoRequest EXCEPT !.pc = "turn", !.tab = e.tab, !.answered = e.answered]
  <2>1. Dead(rs)[q] = d BY <1>3 DEF Dead
  <2>2. e.commanded = FALSE
    <3> HIDE DEF e
    <3> QED BY <1>1, <1>3 DEF Request
  <2>3. d \in Request /\ d.live = FALSE /\ d.commanded = FALSE /\ d.pc = "turn" /\ d.tab = e.tab
    <3> HIDE DEF e
    <3> QED BY <1>1 DEF Request, NoRequest, Before
  <2> QED BY <1>3, <2>1, <2>2, <2>3
<1> QED BY <1>2, <1>3

ReqTyped == req \in [Requests -> Request]

LEMMA PcSets ==
    /\ \A p \in DOMAIN After : After[p] \in {"turn", "look3", "grant"}
    /\ \A p \in DOMAIN Then : Then[p] \in {"guard2", "choose", "guard5"}
    /\ {"turn", "look3", "grant", "guard2", "choose", "guard5", "guard3", "look4", "update"}
          \subseteq Before \union Beyond
BY DEF After, Then, Before, Beyond

LEMMA QuitIs ==
    ASSUME NEW r \in Requests, ReqTyped, Ends(r)
    PROVE  Quits(r) /\ ReqTyped'
BY RequestIs DEF ReqTyped, Ends, Quits, OthersStay, Unlock

LEMMA DeniedIs ==
    ASSUME NEW r \in Requests, ReqTyped, Denied(r)
    PROVE  Quits(r) /\ ReqTyped'
BY QuitIs DEF Denied

LEMMA ProceedsIs ==
    ASSUME NEW r \in Requests, ReqTyped, NEW pc \in Before \union Beyond, Proceeds(r, pc), flight' = flight
    PROVE  Advances(r, pc, req[r].seen) /\ ReqTyped'
<1> DEFINE e == req[r]
           f == [e EXCEPT !.pc = pc]
<1>1. e \in Request BY DEF ReqTyped
<1>2. req' = [req EXCEPT ![r] = f] BY DEF Proceeds
<1>3. f \in Request BY <1>1, RequestIs
<1>4. /\ f.pc = pc /\ f.seen = e.seen /\ f.tab = e.tab /\ f.gen = e.gen /\ f.live = e.live
      /\ f.undisturbed = e.undisturbed /\ f.behind = e.behind /\ f.commanded = e.commanded
  <2> HIDE DEF e
  <2> QED BY <1>1 DEF Request
<1>5. req'[r] = f /\ \A q \in Requests \ {r} : req'[q] = req[q] BY <1>2 DEF ReqTyped
<1>6. ReqTyped' BY <1>2, <1>3 DEF ReqTyped
<1> QED BY <1>4, <1>5, <1>6 DEF Advances, Keeps, OthersStay

LEMMA GuardIs ==
    ASSUME NEW r \in Requests, ReqTyped, Guard(r)
    PROVE  /\ Quits(r) \/ (Eligible(r) /\ Advances(r, After[req[r].pc], req[r].seen))
           /\ ReqTyped'
<1>1. CASE ~Eligible(r) BY <1>1, DeniedIs DEF Guard
<1>2. CASE Eligible(r)
  <2>1. After[req[r].pc] \in Before \union Beyond /\ Proceeds(r, After[req[r].pc]) /\ flight' = flight
    BY <1>2, PcSets DEF Guard
  <2> QED BY <1>2, <2>1, ProceedsIs
<1> QED BY <1>1, <1>2

LEMMA LookIs ==
    ASSUME NEW r \in Requests, ReqTyped, Look(r),
           selected \in ScannerTabs \union {Manual}
    PROVE  /\ Quits(r) \/ (Valid(r) /\ Advances(r, Then[req[r].pc], Context(req[r].tab)))
           /\ ReqTyped'
<1>1. CASE ~Valid(r) BY <1>1, DeniedIs DEF Look
<1>2. CASE Valid(r)
  <2> DEFINE e == req[r]
             pc == Then[e.pc]
             seen == Context(e.tab)
             f == [e EXCEPT !.pc = pc, !.seen = seen]
  <2>1. pc \in Before \union Beyond /\ flight' = flight BY <1>2, PcSets DEF Look
  <2>2. seen \in ScannerTabs \union {Manual, Nobody, "error"} BY DEF Context
  <2>3. e \in Request BY DEF ReqTyped
  <2>4. req' = [req EXCEPT ![r] = f] BY <1>2 DEF Look
  <2>5. f \in Request BY <2>1, <2>2, <2>3, RequestIs
  <2>6. /\ f.pc = pc /\ f.seen = seen /\ f.tab = e.tab /\ f.gen = e.gen /\ f.live = e.live
        /\ f.undisturbed = e.undisturbed /\ f.behind = e.behind /\ f.commanded = e.commanded
    <3> HIDE DEF e, pc, seen
    <3> QED BY <2>3 DEF Request
  <2>7. req'[r] = f /\ \A q \in Requests \ {r} : req'[q] = req[q] BY <2>4 DEF ReqTyped
  <2>8. ReqTyped' BY <2>4, <2>5 DEF ReqTyped
  <2> QED BY <1>2, <2>1, <2>6, <2>7, <2>8 DEF Advances, Keeps, OthersStay
<1> QED BY <1>1, <1>2

LEMMA TakeTurnIs ==
    ASSUME NEW r \in Requests, ReqTyped, TakeTurn(r)
    PROVE  /\ Quits(r) \/ Advances(r, "guard3", req[r].seen)
           /\ ReqTyped'
<1>1. Denied(r) \/ Ends(r) \/ (Proceeds(r, "guard3") /\ flight' = flight) BY DEF TakeTurn
<1> QED BY <1>1, DeniedIs, QuitIs, ProceedsIs, PcSets

LEMMA ChooseIs ==
    ASSUME NEW r \in Requests, ReqTyped, Choose(r)
    PROVE  /\ Quits(r) \/ Advances(r, "look4", req[r].seen) \/ GivesCommand(r)
           /\ ReqTyped'
<1>1. \/ Denied(r) \/ (Proceeds(r, "look4") /\ flight' = flight)
      \/ /\ req' = [req EXCEPT ![r].pc = "update", ![r].commanded = TRUE]
         /\ flight' = flight
  BY DEF Choose
<1>2. CASE Denied(r) \/ (Proceeds(r, "look4") /\ flight' = flight)
  BY <1>2, DeniedIs, ProceedsIs, PcSets
<1>3. CASE /\ req' = [req EXCEPT ![r].pc = "update", ![r].commanded = TRUE]
           /\ flight' = flight
  <2> DEFINE e == req[r]
             f == [e EXCEPT !.pc = "update", !.commanded = TRUE]
  <2>1. e \in Request BY DEF ReqTyped
  <2>2. req' = [req EXCEPT ![r] = f] BY <1>3
  <2>3. f \in Request BY <2>1, RequestIs, PcSets
  <2>4. /\ f.pc = "update" /\ f.tab = e.tab /\ f.gen = e.gen /\ f.live = e.live
        /\ f.undisturbed = e.undisturbed /\ f.behind = e.behind /\ f.commanded
    <3> HIDE DEF e
    <3> QED BY <2>1 DEF Request
  <2>5. req'[r] = f /\ \A q \in Requests \ {r} : req'[q] = req[q] BY <2>2 DEF ReqTyped
  <2>6. ReqTyped' BY <2>2, <2>3 DEF ReqTyped
  <2> QED BY <1>3, <2>4, <2>5, <2>6 DEF GivesCommand, Keeps, OthersStay
<1> QED BY <1>1, <1>2, <1>3

LEMMA UpdatedIs ==
    ASSUME NEW r \in Requests, ReqTyped, Updated(r)
    PROVE  /\ Quits(r) \/ CommandEnds(r)
           /\ ReqTyped'
<1>1. \/ Ends(r)
      \/ /\ req' = [req EXCEPT ![r].pc = "look4", ![r].seen = Nobody, ![r].commanded = FALSE]
         /\ flight' = flight
  BY DEF Updated
<1>2. CASE Ends(r) BY <1>2, QuitIs
<1>3. CASE /\ req' = [req EXCEPT ![r].pc = "look4", ![r].seen = Nobody, ![r].commanded = FALSE]
           /\ flight' = flight
  <2> DEFINE e == req[r]
             f == [e EXCEPT !.pc = "look4", !.seen = Nobody, !.commanded = FALSE]
  <2>1. e \in Request BY DEF ReqTyped
  <2>2. req' = [req EXCEPT ![r] = f] BY <1>3
  <2>3. f \in Request BY <2>1, RequestIs, PcSets
  <2>4. /\ f.pc = "look4" /\ f.tab = e.tab /\ f.gen = e.gen /\ f.live = e.live
        /\ f.undisturbed = e.undisturbed /\ f.behind = e.behind /\ ~f.commanded
    <3> HIDE DEF e
    <3> QED BY <2>1 DEF Request
  <2>5. req'[r] = f /\ \A q \in Requests \ {r} : req'[q] = req[q] BY <2>2 DEF ReqTyped
  <2>6. ReqTyped' BY <2>2, <2>3 DEF ReqTyped
  <2> QED BY <1>3, <2>4, <2>5, <2>6 DEF CommandEnds, Keeps, OthersStay
<1> QED BY <1>1, <1>2, <1>3

LEMMA GrantIs ==
    ASSUME NEW r \in Requests, ReqTyped, Grant(r)
    PROVE  Quits(r) /\ ReqTyped'
<1>1. Denied(r) \/ Ends(r) BY DEF Grant
<1> QED BY <1>1, DeniedIs, QuitIs

LEMMA AskIs ==
    ASSUME NEW r \in Requests, NEW t \in ScannerTabs, ReqTyped, gen \in [ScannerTabs -> Nat \ {0}],
           Ask(r, t)
    PROVE  /\ UNCHANGED work \/ Begins(r, t)
           /\ ReqTyped'
<1>1. CASE UNCHANGED work BY <1>1 DEF work, ReqTyped
<1>2. CASE ~(UNCHANGED work)
  <2> DEFINE b == QueuedBehind(t, gen[t])
             f == [NoRequest EXCEPT !.pc = "look1", !.tab = t, !.gen = gen[t], !.live = TRUE,
                      !.undisturbed = TRUE, !.behind = b]
  <2>1. /\ req[r].pc = "idle" /\ flight = Nobody /\ req' = [req EXCEPT ![r] = f]
        /\ flight' = IF b THEN Nobody ELSE r
    BY <1>2 DEF Ask, Awaits
  <2>2. gen[t] \in Nat /\ b \in BOOLEAN BY DEF QueuedBehind
  <2>3. f \in Request /\ f.pc = "look1" /\ f.tab = t /\ f.live /\ f.behind = b /\ f.commanded = FALSE
    <3> HIDE DEF b
    <3> QED BY <2>2 DEF NoRequest, Request, Before
  <2>4. req'[r] = f /\ \A q \in Requests \ {r} : req'[q] = req[q] BY <2>1 DEF ReqTyped
  <2>5. ReqTyped' BY <2>1, <2>3 DEF ReqTyped
  <2> QED BY <2>1, <2>3, <2>4, <2>5 DEF Begins, OthersStay
<1> QED BY <1>1, <1>2

(* A revocation, and a request that is answered too late.                  *)
AllDie == \A q \in Requests : Died(q)
LEMMA RevokeIs ==
    ASSUME ReqTyped, Revoke(req)
    PROVE  AllDie /\ ReqTyped'
BY DeadIs DEF Revoke, AllDie, Died, ReqTyped

Marks(r) == /\ OthersStay(r) /\ flight # r
            /\ Keeps(r) /\ req'[r].pc = req[r].pc /\ req'[r].seen = req[r].seen
            /\ req'[r].commanded = req[r].commanded
LEMMA TimesOutIs ==
    ASSUME NEW r \in Requests, ReqTyped, TimesOut(r)
    PROVE  /\ \/ Marks(r) /\ UNCHANGED <<waiting, lease, expected, notices, passed>>
              \/ /\ flight = r /\ AllDie /\ flight' = IF req[r].commanded THEN flight ELSE Nobody
                 /\ lease' = NoLease /\ expected' = Nobody /\ waiting' = NoQueue
                 /\ notices' = Notified(lease) /\ Counted(NoQueue)
           /\ ReqTyped'
<1> DEFINE e == req[r]
           f == [e EXCEPT !.answered = TRUE]
           rs == [req EXCEPT ![r] = f]
<1>1. e \in Request BY DEF ReqTyped
<1>2. f \in Request BY <1>1, RequestIs
<1>3. /\ f.pc = e.pc /\ f.tab = e.tab /\ f.gen = e.gen /\ f.live = e.live /\ f.seen = e.seen
      /\ f.undisturbed = e.undisturbed /\ f.behind = e.behind /\ f.commanded = e.commanded
  <2> HIDE DEF e
  <2> QED BY <1>1 DEF Request
<1>4. rs \in [Requests -> Request] /\ rs[r] = f /\ \A q \in Requests \ {r} : rs[q] = req[q]
  BY <1>2 DEF ReqTyped
<1>5. CASE flight = r
  <2>1. Revoke(rs) /\ flight' = Unlocked(r) BY <1>5 DEF TimesOut
  <2>2. req' = Dead(rs) BY <2>1 DEF Revoke
  <2>3. \A q \in Requests : rs[q].commanded = req[q].commanded /\ rs[q].pc = req[q].pc
                            /\ rs[q].tab = req[q].tab
    BY <1>3, <1>4
  <2>4. ReqTyped' /\ AllDie
    <3> HIDE DEF f, e, rs
    <3>1. /\ Dead(rs) \in [Requests -> Request]
          /\ \A q \in Requests :
                /\ Dead(rs)[q].live = FALSE /\ Dead(rs)[q].commanded = rs[q].commanded
                /\ rs[q].commanded => Dead(rs)[q].pc = rs[q].pc /\ Dead(rs)[q].tab = rs[q].tab
                /\ ~rs[q].commanded => Dead(rs)[q].pc \in {"idle", "turn"}
                /\ Dead(rs)[q].pc # "idle" => rs[q].pc # "idle" /\ Dead(rs)[q].tab = rs[q].tab
      BY <1>4, DeadIs
    <3> QED BY <2>2, <2>3, <3>1 DEF AllDie, Died, ReqTyped
  <2> QED BY <1>5, <2>1, <2>4 DEF Revoke, Unlocked
<1>6. CASE flight # r
  <2>1. req' = rs /\ UNCHANGED <<flight, waiting, lease, expected, notices, passed>>
    BY <1>6 DEF TimesOut
  <2> QED BY <1>3, <1>4, <1>6, <2>1 DEF Marks, Keeps, OthersStay, ReqTyped
<1> QED BY <1>5, <1>6

LEMMA FocusIs ==
    ASSUME ReqTyped, FocusChanges
    PROVE  /\ ReqTyped' /\ flight' = flight
           /\ \A q \in Requests :
                /\ ~req'[q].undisturbed /\ req'[q].pc = req[q].pc /\ req'[q].seen = req[q].seen
                /\ req'[q].tab = req[q].tab /\ req'[q].live = req[q].live
                /\ req'[q].behind = req[q].behind /\ req'[q].commanded = req[q].commanded
<1>1. \A e \in Request : LET f == [e EXCEPT !.undisturbed = FALSE]
                         IN  /\ f \in Request /\ ~f.undisturbed /\ f.pc = e.pc /\ f.seen = e.seen
                             /\ f.tab = e.tab /\ f.live = e.live /\ f.behind = e.behind
                             /\ f.commanded = e.commanded
  BY DEF Request
<1>2. req' = [q \in Requests |-> [req[q] EXCEPT !.undisturbed = FALSE]] /\ flight' = flight
  BY DEF FocusChanges
<1> QED BY <1>1, <1>2 DEF ReqTyped

-----------------------------------------------------------------------------
(* Who is past its turn in the queue holds the lock                        *)

Calm == /\ lease = NoLease => lease' = NoLease
        /\ paused' => paused
        /\ userActive' => userActive
        /\ lease # NoLease => (lease' = NoLease \/ (~paused' /\ ~userActive'))

LEMMA HolderQuits ==
    ASSUME HolderIsAlone, Calm, NEW r \in Requests, Quits(r)
    PROVE  HolderIsAlone'
BY DEF HolderIsAlone, Calm, Quits, OthersStay, Past, NoRequest

LEMMA HolderAdvances ==
    ASSUME HolderIsAlone, Calm, NEW r \in Requests, NEW pc \in Before \union Beyond, pc # "update", NEW seen,
           Advances(r, pc, seen), ~req[r].commanded, req[r].pc # "idle",
           pc \in Beyond => req[r].pc \in Beyond \/ (~req[r].behind /\ lease' = NoLease),
           pc \in {"look1", "guard2"} \/ (~paused /\ ~userActive)
                \/ req[r].pc \notin {"look1", "guard2"}
    PROVE  HolderIsAlone'
<1> pc # "idle" BY DEF Before, Beyond
<1> QED BY DEF HolderIsAlone, Calm, Advances, Keeps, OthersStay, Past

LEMMA HolderDies ==
    ASSUME HolderIsAlone, AllDie, lease' = NoLease,
           \/ flight' = flight
           \/ \A r \in Requests : ~req[r].commanded
    PROVE  HolderIsAlone'
BY DEF HolderIsAlone, AllDie, Died, Past

LEMMA HolderStays ==
    ASSUME HolderIsAlone, Calm, UNCHANGED work
    PROVE  HolderIsAlone'
BY DEF HolderIsAlone, Calm, work, Past

LEMMA LeaseIs == \A L \in TabLease : L # NoLease
BY DEF TabLease, NoLease

LEMMA RunningIs == Running => lease # NoLease
BY DEF Running, NoLease

LEMMA HolderStep ==
    ASSUME WorkspaceTypes, HolderIsAlone, [WorkspaceNext]_workspaceVars
    PROVE  HolderIsAlone'
<1>1. /\ ReqTyped /\ gen \in [ScannerTabs -> Nat \ {0}] /\ selected \in ScannerTabs \union {Manual}
      /\ lease \in TabLease \union {NoLease}
  BY DEF WorkspaceTypes, ReqTyped
<1>2. CASE UNCHANGED workspaceVars
  BY <1>2, HolderStays DEF workspaceVars, Calm, memory, settings, HolderIsAlone
<1>3. ASSUME NEW r \in Requests, Guard(r) PROVE HolderIsAlone'
  <2>1. UNCHANGED <<settings, memory>> /\ req[r].pc \in DOMAIN After BY <1>3 DEF Guard, Denied
  <2>2. Calm BY <2>1 DEF Calm, settings, memory, HolderIsAlone
  <2>3. CASE Quits(r) BY <2>2, <2>3, HolderQuits
  <2>4. CASE Eligible(r) /\ Advances(r, After[req[r].pc], req[r].seen)
    <3>1. ~req[r].commanded /\ req[r].pc # "idle" BY <2>1 DEF HolderIsAlone, After
    <3>2. After[req[r].pc] \in Beyond => req[r].pc \in Beyond BY <2>1 DEF After, Beyond
    <3>3. After[req[r].pc] \in (Before \union Beyond) \ {"update"} BY <2>1, PcSets
    <3> QED BY <2>2, <2>4, <3>1, <3>2, <3>3, HolderAdvances DEF Eligible
  <2> QED BY <1>1, <1>3, <2>3, <2>4, GuardIs
<1>4. ASSUME NEW r \in Requests, Look(r) PROVE HolderIsAlone'
  <2>1. UNCHANGED <<settings, memory>> /\ req[r].pc \in DOMAIN Then BY <1>4 DEF Look, Denied
  <2>2. Calm BY <2>1 DEF Calm, settings, memory, HolderIsAlone
  <2>3. CASE Quits(r) BY <2>2, <2>3, HolderQuits
  <2>4. CASE Advances(r, Then[req[r].pc], Context(req[r].tab))
    <3>1. ~req[r].commanded /\ req[r].pc # "idle" BY <2>1 DEF HolderIsAlone, Then
    <3>2. /\ Then[req[r].pc] \in Beyond => req[r].pc \in Beyond
          /\ Then[req[r].pc] = "guard2" \/ req[r].pc \notin {"look1", "guard2"}
      BY <2>1 DEF Then, Beyond
    <3>3. Then[req[r].pc] \in (Before \union Beyond) \ {"update"} BY <2>1, PcSets
    <3> QED BY <2>2, <2>4, <3>1, <3>2, <3>3, HolderAdvances
  <2> QED BY <1>1, <1>4, <2>3, <2>4, LookIs
<1>5. ASSUME NEW r \in Requests, TakeTurn(r) PROVE HolderIsAlone'
  <2>1. /\ UNCHANGED <<paused, userActive>> /\ (lease' = lease \/ lease' = NoLease)
        /\ Awaits(r, "turn")
    BY <1>5 DEF TakeTurn, Denied, settings, memory
  <2>2. Calm BY <2>1 DEF Calm, HolderIsAlone
  <2>3. CASE Quits(r) BY <2>2, <2>3, HolderQuits
  <2>4. CASE Advances(r, "guard3", req[r].seen) /\ ~Quits(r)
    <3>1. ~req[r].behind /\ lease' = NoLease
      <4>1. ~Ends(r) BY <1>1, <2>4, QuitIs
      <4> QED BY <1>5, <4>1 DEF TakeTurn, Denied
    <3>2. ~req[r].commanded /\ req[r].pc # "idle" BY <2>1 DEF HolderIsAlone, Awaits
    <3> QED BY <2>1, <2>2, <2>4, <3>1, <3>2, PcSets, HolderAdvances DEF Awaits
  <2> QED BY <1>1, <1>5, <2>3, <2>4, TakeTurnIs
<1>6. ASSUME NEW r \in Requests, Choose(r) PROVE HolderIsAlone'
  <2>1. UNCHANGED <<paused, userActive, lease>> /\ Awaits(r, "choose")
    BY <1>6 DEF Choose, Denied, settings, memory
  <2>2. Calm BY <2>1 DEF Calm, HolderIsAlone
  <2>3. CASE Quits(r) BY <2>2, <2>3, HolderQuits
  <2>4. ~req[r].commanded /\ req[r].pc # "idle" /\ req[r].pc \in Beyond
    BY <2>1 DEF HolderIsAlone, Awaits, Beyond
  <2>5. CASE Advances(r, "look4", req[r].seen)
    BY <2>1, <2>2, <2>4, <2>5, PcSets, HolderAdvances DEF Awaits
  <2>6. CASE GivesCommand(r) /\ ~Quits(r)
    <3>1. req[r].live
      <4>1. ~Denied(r) BY <1>1, <2>6, DeniedIs
      <4> QED BY <1>6, <4>1 DEF Choose, MayDispatch, Valid
    <3>2. Past(r) BY <3>1, <2>4 DEF Past
    <3> QED BY <2>1, <2>2, <2>6, <3>1, <3>2
        DEF HolderIsAlone, Calm, GivesCommand, Keeps, OthersStay, Past, Beyond, Awaits
  <2> QED BY <1>1, <1>6, <2>3, <2>5, <2>6, ChooseIs
<1>7. ASSUME NEW r \in Requests, Updated(r) PROVE HolderIsAlone'
  <2>1. UNCHANGED <<paused, userActive, lease>> /\ Awaits(r, "update")
    BY <1>7 DEF Updated, settings
  <2>2. Calm BY <2>1 DEF Calm, HolderIsAlone
  <2>3. CASE Quits(r) BY <2>2, <2>3, HolderQuits
  <2>4. CASE CommandEnds(r)
    BY <2>1, <2>2, <2>4 DEF HolderIsAlone, Calm, CommandEnds, Keeps, OthersStay, Past, Beyond, Awaits
  <2> QED BY <1>1, <1>7, <2>3, <2>4, UpdatedIs
<1>8. ASSUME NEW r \in Requests, Grant(r) PROVE HolderIsAlone'
  <2>1. Quits(r) /\ UNCHANGED <<paused, userActive>> /\ Awaits(r, "grant")
    BY <1>1, <1>8, GrantIs DEF Grant, Denied, settings, memory
  <2>2. CASE lease' = lease
    BY <2>1, <2>2, HolderQuits DEF Calm, HolderIsAlone
  <2>3. CASE lease' # lease
    <3>1. req[r].live BY <1>8, <2>3 DEF Grant, Denied, memory, Valid
    <3>2. Past(r) /\ flight = r /\ ~paused /\ ~userActive
      BY <2>1, <3>1 DEF Past, Beyond, HolderIsAlone, Awaits
    <3>3. \A q \in Requests \ {r} : ~Past(q) /\ ~req[q].commanded
      BY <3>2 DEF HolderIsAlone, Past
    <3> QED BY <2>1, <3>2, <3>3 DEF HolderIsAlone, Quits, OthersStay, Past, NoRequest
  <2> QED BY <2>2, <2>3
<1>9. ASSUME NEW r \in Requests, TimesOut(r) PROVE HolderIsAlone'
  <2>1. UNCHANGED <<paused, userActive>> BY <1>9 DEF TimesOut, settings
  <2>2. CASE Marks(r) /\ lease' = lease
    BY <2>1, <2>2 DEF Marks, Keeps, OthersStay, HolderIsAlone, Past
  <2>3. CASE /\ flight = r /\ AllDie /\ flight' = IF req[r].commanded THEN flight ELSE Nobody
             /\ lease' = NoLease
    BY <2>1, <2>3, HolderDies DEF HolderIsAlone
  <2> QED BY <1>1, <1>9, <2>2, <2>3, TimesOutIs
<1>a. ASSUME NEW r \in Requests, NEW t \in ScannerTabs, Ask(r, t) PROVE HolderIsAlone'
  <2>1. UNCHANGED <<paused, userActive, lease>> BY <1>a DEF Ask, settings
  <2>2. Calm BY <2>1 DEF Calm, HolderIsAlone
  <2>3. CASE UNCHANGED work BY <2>2, <2>3, HolderStays
  <2>4. CASE Begins(r, t)
    <3>1. \A q \in Requests : ~Past(q) /\ ~req[q].commanded
      BY <2>4, WorkspaceConstants DEF Begins, HolderIsAlone, Past
    <3>2. "look1" \notin Beyond BY DEF Beyond
    <3> QED BY <2>1, <2>2, <2>4, <3>1, <3>2, WorkspaceConstants
        DEF HolderIsAlone, Begins, OthersStay, Past, Calm
  <2> QED BY <1>1, <1>a, <2>3, <2>4, AskIs
<1>b. CASE LeaseRunsOut
  BY <1>b, HolderStays, RunningIs DEF LeaseRunsOut, Calm, settings, HolderIsAlone
<1>c. CASE LeaseEnds
  BY <1>c, HolderStays DEF LeaseEnds, Calm, settings, HolderIsAlone
<1>d. ASSUME NEW t \in ScannerTabs, Release(t) PROVE HolderIsAlone'
  BY <1>d, HolderStays DEF Release, Calm, settings, HolderIsAlone
<1>e. CASE TicketAges \/ ExpectationEnds \/ ActivityEnds \/ PauseEnds
  BY <1>e, HolderStays
  DEF TicketAges, ExpectationEnds, ActivityEnds, PauseEnds, Calm, settings, memory, HolderIsAlone
<1>f. CASE (\E x \in ScannerTabs \union {Manual} : UserSelects(x)) \/ \E t \in ScannerTabs : Supersede(t)
  BY <1>f, HolderStays DEF UserSelects, Supersede, Calm, settings, memory, HolderIsAlone
<1>g. CASE Revoke(req) /\ flight' = flight
  <2>1. lease' = NoLease BY <1>g DEF Revoke
  <2> QED BY <1>1, <1>g, <2>1, RevokeIs, HolderDies
<1>h. CASE Activated
  BY <1>g, <1>h, HolderStays DEF Activated, Calm, settings, HolderIsAlone, work
<1>i. ASSUME NEW t \in ScannerTabs, UserActive(t) PROVE HolderIsAlone'
  BY <1>g, <1>i DEF UserActive
<1>j. CASE PauseBegins BY <1>g, <1>j DEF PauseBegins
<1>k. CASE Sync
  BY <1>g, <1>k, HolderStays DEF Sync, Calm, settings, HolderIsAlone, work
<1>l. CASE FocusChanges
  <2>1. UNCHANGED <<paused, userActive, lease>> BY <1>l DEF FocusChanges, settings
  <2> QED BY <1>1, <1>l, <2>1, FocusIs DEF HolderIsAlone, Past
<1>m. ASSUME NEW t \in ScannerTabs, NEW id \in 1..issued, Granted(t, id) \/ Revoked(t, id)
      PROVE  HolderIsAlone'
  BY <1>m, HolderStays DEF Granted, Revoked, Calm, settings, memory, HolderIsAlone
<1> QED
  BY <1>2, <1>3, <1>4, <1>5, <1>6, <1>7, <1>8, <1>9, <1>a, <1>b, <1>c, <1>d, <1>e, <1>f, <1>h, <1>i,
     <1>j, <1>k, <1>l, <1>m
  DEF WorkspaceNext, RequestStep

-----------------------------------------------------------------------------
(* What is expected comes                                                  *)

(* The activations: one more at the end, or one fewer at the front.        *)
LEMMA LastComes ==
    ASSUME NEW S, NEW s \in Seq(S), NEW x \in S
    PROVE  /\ Append(s, x) \in Seq(S) /\ Len(Append(s, x)) = Len(s) + 1
           /\ Append(s, x)[Len(s) + 1] = x /\ Append(s, x) # <<>>
           /\ \A k \in 1..Len(s) : Append(s, x)[k] = s[k]
           /\ Len(s) \in Nat /\ DOMAIN s = 1..Len(s) /\ DOMAIN Append(s, x) = 1..(Len(s) + 1)
BY AppendProperties, LenProperties

LEMMA FirstGoes ==
    ASSUME NEW S, NEW s \in Seq(S), s # <<>>
    PROVE  /\ Tail(s) \in Seq(S) /\ Len(Tail(s)) = Len(s) - 1 /\ Len(s) \in Nat /\ Len(s) >= 1
           /\ \A k \in 1..Len(s) - 1 : Tail(s)[k] = s[k + 1]
           /\ Head(s) \in S /\ Head(s) = s[1]
           /\ DOMAIN s = 1..Len(s) /\ DOMAIN Tail(s) = 1..Len(s) - 1
           /\ Tail(s) # <<>> => Len(s) >= 2
BY HeadTailProperties, LenProperties, EmptySeq

LEMMA NothingComes == ASSUME NEW S, NEW s \in Seq(S) PROVE (s = <<>>) <=> (Len(s) = 0)
BY EmptySeq, LenProperties

LEMMA TailLast ==
    ASSUME NEW S, NEW s \in Seq(S), s # <<>>, Tail(s) # <<>>
    PROVE  Tail(s)[Len(Tail(s))] = s[Len(s)]
BY FirstGoes

Waits == activations \in Seq(ScannerTabs \union {Manual}) /\ selected \in ScannerTabs \union {Manual}
         /\ expected \in ScannerTabs \union {Nobody}

(* Another tab is selected, and its activation comes last.                 *)
LEMMA SelectedComes ==
    ASSUME Waits, NEW x \in ScannerTabs \union {Manual},
           activations' = Append(activations, x), selected' = x
    PROVE  /\ activations' # <<>> /\ activations'[Len(activations')] = selected'
           /\ \A y : ToCome(y) => ToCome(y)'
           /\ ToCome(x)' /\ (Waits' <=> (expected' \in ScannerTabs \union {Nobody}))
           /\ Len(activations') = Len(activations) + 1 /\ Len(activations) \in Nat
<1>1. /\ Append(activations, x) \in Seq(ScannerTabs \union {Manual})
      /\ Len(Append(activations, x)) = Len(activations) + 1
      /\ Append(activations, x)[Len(activations) + 1] = x /\ Append(activations, x) # <<>>
      /\ \A k \in 1..Len(activations) : Append(activations, x)[k] = activations[k]
      /\ Len(activations) \in Nat /\ DOMAIN activations = 1..Len(activations)
      /\ DOMAIN Append(activations, x) = 1..(Len(activations) + 1)
  BY LastComes DEF Waits
<1> QED BY <1>1 DEF ToCome, Waits

(* The commands of Chrome's are those that there were, for the same tabs.  *)
SameCommands == \A q \in Requests : /\ req'[q].commanded <=> req[q].commanded
                                    /\ req[q].commanded => req'[q].tab = req[q].tab

LEMMA ExpectedStays ==
    ASSUME ExpectedComes, SameCommands, UNCHANGED <<selected, activations>>,
           expected' = expected \/ expected' = Nobody
    PROVE  ExpectedComes'
BY DEF ExpectedComes, SameCommands, ToCome

LEMMA OthersCommands ==
    ASSUME HolderIsAlone, NEW r \in Requests, OthersStay(r), ~req[r].commanded, ~req'[r].commanded
    PROVE  SameCommands
BY DEF OthersStay, SameCommands

LEMMA ExpectedStep ==
    ASSUME WorkspaceTypes, HolderIsAlone, ExpectedComes, SelectionIsNoticed,
           [WorkspaceNext]_workspaceVars
    PROVE  ExpectedComes'
<1>1. /\ ReqTyped /\ gen \in [ScannerTabs -> Nat \ {0}] /\ Waits
      /\ selected \in ScannerTabs \union {Manual}
  BY DEF WorkspaceTypes, ReqTyped, Waits
<1>2. NoRequest.commanded = FALSE BY DEF NoRequest
<1>3. \A q \in Requests : req[q].commanded => req[q].pc = "update" BY DEF HolderIsAlone
<1>4. ASSUME UNCHANGED <<windowVars, expected>>, SameCommands PROVE ExpectedComes'
  BY <1>4, ExpectedStays DEF windowVars
<1>5. ASSUME UNCHANGED work PROVE SameCommands BY <1>5 DEF work, SameCommands
<1>6. CASE UNCHANGED workspaceVars BY <1>4, <1>5, <1>6 DEF workspaceVars, memory
<1>7. ASSUME NEW r \in Requests, Guard(r) PROVE ExpectedComes'
  <2>1. UNCHANGED <<windowVars, expected>> /\ req[r].pc \in DOMAIN After
    BY <1>7 DEF Guard, Denied, memory
  <2>2. ~req[r].commanded BY <2>1, <1>3 DEF After
  <2>3. OthersStay(r) /\ ~req'[r].commanded
    BY <1>1, <1>2, <1>7, <2>2, GuardIs DEF Quits, Advances, Keeps
  <2> QED BY <1>4, <2>1, <2>2, <2>3, OthersCommands
<1>8. ASSUME NEW r \in Requests, Look(r) PROVE ExpectedComes'
  <2>1. UNCHANGED <<windowVars, expected>> /\ req[r].pc \in DOMAIN Then
    BY <1>8 DEF Look, Denied, memory
  <2>2. ~req[r].commanded BY <2>1, <1>3 DEF Then
  <2>3. OthersStay(r) /\ ~req'[r].commanded
    BY <1>1, <1>2, <1>8, <2>2, LookIs DEF Quits, Advances, Keeps
  <2> QED BY <1>4, <2>1, <2>2, <2>3, OthersCommands
<1>9. ASSUME NEW r \in Requests, TakeTurn(r) PROVE ExpectedComes'
  <2>1. UNCHANGED <<windowVars, expected>> /\ req[r].pc = "turn"
    BY <1>9 DEF TakeTurn, Denied, memory, Awaits
  <2>2. ~req[r].commanded BY <2>1, <1>3
  <2>3. OthersStay(r) /\ ~req'[r].commanded
    BY <1>1, <1>2, <1>9, <2>2, TakeTurnIs DEF Quits, Advances, Keeps
  <2> QED BY <1>4, <2>1, <2>2, <2>3, OthersCommands
<1>a. ASSUME NEW r \in Requests, Grant(r) PROVE ExpectedComes'
  <2>1. UNCHANGED <<windowVars, expected>> /\ req[r].pc = "grant"
    BY <1>a DEF Grant, Denied, memory, Awaits
  <2>2. ~req[r].commanded BY <2>1, <1>3
  <2>3. OthersStay(r) /\ ~req'[r].commanded
    BY <1>1, <1>2, <1>a, <2>2, GrantIs DEF Quits
  <2> QED BY <1>4, <2>1, <2>2, <2>3, OthersCommands
<1>b. ASSUME NEW r \in Requests, NEW t \in ScannerTabs, Ask(r, t) PROVE ExpectedComes'
  <2>1. UNCHANGED <<windowVars, expected>> /\ req[r].pc = "idle" BY <1>b DEF Ask, Awaits
  <2>2. ~req[r].commanded BY <2>1, <1>3
  <2>3. SameCommands \/ (OthersStay(r) /\ ~req'[r].commanded)
    BY <1>1, <1>5, <1>b, AskIs DEF Begins
  <2> QED BY <1>4, <2>1, <2>2, <2>3, OthersCommands
<1>c. ASSUME NEW r \in Requests, Choose(r) PROVE ExpectedComes'
  <2>1. UNCHANGED windowVars /\ req[r].pc = "choose" BY <1>c DEF Choose, Denied, Awaits
  <2>2. ~req[r].commanded BY <2>1, <1>3
  <2>3. CASE Denied(r) \/ req[r].seen = req[r].tab
    <3>1. expected' = expected BY <1>c, <2>3 DEF Choose, Denied, memory
    <3>2. ~GivesCommand(r)
      <4>1. Denied(r) => ~req'[r].commanded BY <1>1, <1>2, DeniedIs DEF Quits
      <4>2. Proceeds(r, "look4") /\ flight' = flight => ~req'[r].commanded
        BY <1>1, <2>2, ProceedsIs, PcSets DEF Advances
      <4> QED BY <1>c, <2>3, <4>1, <4>2 DEF Choose, GivesCommand
    <3>3. OthersStay(r) /\ ~req'[r].commanded
      BY <1>1, <1>2, <1>c, <2>2, <3>2, ChooseIs DEF Quits, Advances, Keeps
    <3> QED BY <1>4, <2>1, <2>2, <3>1, <3>3, OthersCommands
  <2>4. CASE ~Denied(r) /\ req[r].seen # req[r].tab
    <3>1. expected' = req[r].tab /\ Valid(r) /\ req[r].seen # "error"
      BY <1>c, <2>4 DEF Choose, MayDispatch
    <3>2. req'[r].commanded /\ req'[r].tab = req[r].tab /\ OthersStay(r)
      <4>1. req' = [req EXCEPT ![r].pc = "update", ![r].commanded = TRUE]
        BY <1>c, <2>4 DEF Choose
      <4>2. req'[r] = [req[r] EXCEPT !.pc = "update", !.commanded = TRUE]
            /\ \A q \in Requests \ {r} : req'[q] = req[q]
        BY <1>1, <4>1 DEF ReqTyped
      <4>3. \A e \in Request : LET f == [e EXCEPT !.pc = "update", !.commanded = TRUE]
                               IN  f.commanded /\ f.tab = e.tab
        BY DEF Request
      <4> QED BY <1>1, <4>2, <4>3 DEF ReqTyped, OthersStay
    <3>3. \A q \in Requests \ {r} : ~req'[q].commanded
      <4>1. Past(r) BY <2>1, <3>1 DEF Past, Valid, Beyond
      <4> QED BY <4>1, <3>2 DEF HolderIsAlone, Past, OthersStay
    <3>4. selected = req[r].tab => ToCome(req[r].tab)
      <4>1. ASSUME selected = req[r].tab PROVE Noticed
        BY <2>1, <2>4, <3>1, <4>1 DEF SelectionIsNoticed, Valid, Awaits
      <4>2. ASSUME Noticed PROVE activations # <<>>
        BY <1>1, <4>2, NothingComes DEF Noticed, Waits
      <4>3. ASSUME activations # <<>> PROVE ToCome(selected)
        <5>1. activations[Len(activations)] = selected BY <4>3 DEF ExpectedComes
        <5>2. Len(activations) \in DOMAIN activations BY <1>1, <4>3, FirstGoes DEF Waits
        <5> QED BY <5>1, <5>2 DEF ToCome
      <4> QED BY <4>1, <4>2, <4>3
    <3> QED BY <2>1, <3>1, <3>2, <3>3, <3>4 DEF ExpectedComes, windowVars, ToCome
  <2> QED BY <2>3, <2>4
<1>d. ASSUME NEW r \in Requests, Updated(r) PROVE ExpectedComes'
  <2>1. req[r].pc = "update" BY <1>d DEF Updated, Awaits
  <2>2. OthersStay(r) /\ ~req'[r].commanded
    BY <1>1, <1>2, <1>d, UpdatedIs DEF Quits, CommandEnds, Keeps
  <2>3. CASE UNCHANGED <<selected, activations>> /\ expected' = Nobody
    BY <2>2, <2>3 DEF ExpectedComes, OthersStay
  <2>4. req[r].tab \in ScannerTabs BY <2>1 DEF HolderIsAlone
  <2>5. CASE Ends(r) /\ expected' = (IF flight = r THEN Nobody ELSE expected)
             /\ UNCHANGED <<selected, activations>>
    <3>1. CASE req[r].commanded
      <4>1. flight = r BY <3>1 DEF HolderIsAlone
      <4> QED BY <2>3, <2>5, <4>1
    <3>2. CASE ~req[r].commanded
      BY <2>2, <2>5, <3>2, OthersCommands, ExpectedStays
    <3> QED BY <3>1, <3>2
  <2>6. CASE /\ selected' = req[r].tab /\ expected' = expected
             /\ activations' = IF selected = req[r].tab THEN activations
                               ELSE Append(activations, req[r].tab)
    <3>1. flight = r /\ req[r].commanded BY <2>1 DEF HolderIsAlone
    <3>2. \A q \in Requests : ~req'[q].commanded /\ (req[q].commanded => q = r)
      BY <2>2, <3>1 DEF OthersStay, HolderIsAlone
    <3>3. expected # Nobody => expected = req[r].tab BY <3>1 DEF ExpectedComes
    <3>4. CASE selected = req[r].tab
      <4>1. expected # Nobody => ToCome(expected) BY <3>2, <3>3, <3>4 DEF ExpectedComes
      <4> QED BY <2>6, <3>2, <3>4, <4>1 DEF ExpectedComes, ToCome
    <3>5. CASE selected # req[r].tab
      <4> PICK x \in ScannerTabs : x = req[r].tab BY <2>4
      <4>1. /\ activations' # <<>> /\ activations'[Len(activations')] = selected'
            /\ ToCome(x)'
        BY <1>1, <2>6, <3>5, SelectedComes
      <4>2. expected' # Nobody => expected' = x BY <2>6, <3>3
      <4> QED BY <3>2, <4>1, <4>2 DEF ExpectedComes
    <3> QED BY <3>4, <3>5
  <2> QED BY <1>d, <2>5, <2>6 DEF Updated
<1>e. ASSUME NEW r \in Requests, TimesOut(r) PROVE ExpectedComes'
  <2>1. UNCHANGED windowVars BY <1>e DEF TimesOut
  <2>2. SameCommands
    BY <1>1, <1>e, TimesOutIs DEF Marks, Keeps, OthersStay, AllDie, Died, SameCommands
  <2>3. expected' = expected \/ expected' = Nobody BY <1>1, <1>e, TimesOutIs
  <2> QED BY <2>1, <2>2, <2>3, ExpectedStays DEF windowVars
<1>f. CASE LeaseRunsOut \/ LeaseEnds \/ TicketAges \/ ActivityEnds \/ PauseEnds
  BY <1>4, <1>5, <1>f DEF LeaseRunsOut, LeaseEnds, TicketAges, ActivityEnds, PauseEnds, memory
<1>g. CASE ExpectationEnds
  BY <1>5, <1>g, ExpectedStays DEF ExpectationEnds, windowVars
<1>h. ASSUME NEW t \in ScannerTabs, Release(t) \/ Supersede(t) PROVE ExpectedComes'
  BY <1>4, <1>5, <1>h DEF Release, Supersede, memory
<1>i. ASSUME NEW t \in ScannerTabs, NEW id \in 1..issued, Granted(t, id) \/ Revoked(t, id)
      PROVE  ExpectedComes'
  BY <1>4, <1>5, <1>i DEF Granted, Revoked, memory
<1>j. ASSUME NEW x \in ScannerTabs \union {Manual}, UserSelects(x) PROVE ExpectedComes'
  <2>1. /\ activations' = Append(activations, x) /\ selected' = x /\ expected' = expected
        /\ SameCommands
    BY <1>5, <1>j DEF UserSelects, memory
  <2>2. /\ activations' # <<>> /\ activations'[Len(activations')] = selected'
        /\ \A y : ToCome(y) => ToCome(y)'
        /\ ToCome(x)'
    BY <1>1, <2>1, SelectedComes
  <2> QED BY <2>1, <2>2 DEF ExpectedComes, SameCommands
<1>k. CASE Revoke(req) /\ UNCHANGED <<selected, activations>>
  BY <1>k DEF Revoke, ExpectedComes
<1>l. CASE Activated
  <2>1. activations # <<>> /\ activations' = Tail(activations) /\ expected' = Nobody /\ selected' = selected
    BY <1>l DEF Activated, Revoke
  <2>2. activations' # <<>> => activations'[Len(activations')] = activations[Len(activations)]
    BY <1>1, <2>1, TailLast DEF Waits
  <2> QED BY <2>1, <2>2 DEF ExpectedComes
<1>m. CASE PauseBegins \/ \E t \in ScannerTabs : UserActive(t)
  BY <1>k, <1>m DEF PauseBegins, UserActive, windowVars
<1>n. CASE Sync
  <2>1. UNCHANGED windowVars BY <1>n DEF Sync
  <2>2. CASE Revoke(req) BY <1>k, <2>1, <2>2 DEF windowVars
  <2>3. CASE UNCHANGED <<req, expected>>
    BY <1>4, <2>1, <2>3 DEF SameCommands
  <2> QED BY <1>n, <2>2, <2>3 DEF Sync
<1>o. CASE FocusChanges
  <2>1. UNCHANGED <<selected, activations>> /\ (expected' = expected \/ expected' = Nobody)
    BY <1>o DEF FocusChanges
  <2>2. SameCommands BY <1>1, <1>o, FocusIs DEF SameCommands
  <2> QED BY <2>1, <2>2, ExpectedStays
<1> QED
  BY <1>6, <1>7, <1>8, <1>9, <1>a, <1>b, <1>c, <1>d, <1>e, <1>f, <1>g, <1>h, <1>i, <1>j, <1>l, <1>m,
     <1>n, <1>o
  DEF WorkspaceNext, RequestStep

-----------------------------------------------------------------------------
(* A selection that somebody relies on does not change unnoticed           *)

LEMMA NoticedStays ==
    ASSUME Waits, UNCHANGED activations, expected' = expected \/ expected' = Nobody, Noticed
    PROVE  Noticed'
<1>1. Len(activations) \in Nat BY LenProperties DEF Waits
<1> QED BY <1>1 DEF Noticed

LEMMA NoticedGrows ==
    ASSUME Waits, NEW x \in ScannerTabs \union {Manual}, activations' = Append(activations, x),
           expected' = expected, expected # Nobody => ToCome(expected)
    PROVE  Noticed'
<1>1. Len(activations') = Len(activations) + 1 /\ Len(activations) \in Nat BY LastComes DEF Waits
<1>2. expected # Nobody => Len(activations) >= 1 BY LenProperties DEF Waits, ToCome
<1> QED BY <1>1, <1>2 DEF Noticed

LEMMA NoticedFalls ==
    ASSUME Waits, activations # <<>>, activations' = Tail(activations), expected # Nobody,
           expected' = Nobody, Noticed
    PROVE  Noticed'
<1>1. Len(activations') = Len(activations) - 1 /\ Len(activations) \in Nat BY FirstGoes DEF Waits
<1> QED BY <1>1 DEF Noticed

(* Nobody comes to rely on a selection.                                    *)
RelyAsBefore == \A q \in Requests : req'[q].live =>
    /\ req'[q].pc \in {"guard5", "grant"} =>
          /\ req[q].live /\ req[q].pc \in {"guard5", "grant"}
          /\ req'[q].seen = req[q].seen /\ req'[q].tab = req[q].tab
    /\ req'[q].pc = "choose" =>
          /\ req[q].live /\ req[q].pc = "choose" /\ (req'[q].undisturbed => req[q].undisturbed)
          /\ req'[q].seen = req[q].seen /\ req'[q].tab = req[q].tab
NobodyRelies == \A q \in Requests : req'[q].live => req'[q].pc \notin {"guard5", "grant", "choose"}

LEMMA SelectionStays ==
    ASSUME SelectionIsNoticed, RelyAsBefore, UNCHANGED selected, front' => front,
           Running' => Running /\ lease'.tab = lease.tab, Noticed => Noticed'
    PROVE  SelectionIsNoticed'
<1>1. Running' => selected' = lease'.tab \/ Noticed' BY DEF SelectionIsNoticed
<1>2. ASSUME NEW r \in Requests, req'[r].live
      PROVE  /\ req'[r].pc \in {"guard5", "grant"} /\ req'[r].seen = req'[r].tab =>
                    selected' = req'[r].tab \/ Noticed'
             /\ req'[r].pc = "choose" /\ req'[r].seen \notin {req'[r].tab, "error"} =>
                    selected' # req'[r].tab \/ Noticed'
             /\ req'[r].undisturbed /\ req'[r].pc = "choose" /\ req'[r].seen # "error" =>
                    ~front' \/ selected' # Manual \/ Noticed'
  BY <1>2 DEF SelectionIsNoticed, RelyAsBefore, Valid, Awaits
<1> QED BY <1>1, <1>2 DEF SelectionIsNoticed, Valid, Awaits

LEMMA SelectionIsNobodys ==
    ASSUME NobodyRelies, ~Running'
    PROVE  SelectionIsNoticed'
BY DEF SelectionIsNoticed, NobodyRelies, Valid, Awaits

LEMMA OthersRely ==
    ASSUME NEW r \in Requests, OthersStay(r),
           req'[r].live => req'[r].pc \notin {"guard5", "grant", "choose"}
    PROVE  RelyAsBefore
BY DEF OthersStay, RelyAsBefore

(* Nobody else relies on a selection beside the holder of the lock.        *)
LEMMA HolderRelies ==
    ASSUME HolderIsAlone, NEW r \in Requests, flight = r, OthersStay(r),
           req'[r].live => req'[r].pc \notin {"guard5", "grant", "choose"}
    PROVE  NobodyRelies
BY DEF HolderIsAlone, OthersStay, NobodyRelies, Past, Beyond

LEMMA DeadRely == ASSUME AllDie PROVE NobodyRelies /\ RelyAsBefore
BY DEF AllDie, Died, NobodyRelies, RelyAsBefore

LEMMA SameRely == ASSUME UNCHANGED req PROVE RelyAsBefore
BY DEF RelyAsBefore

(* A turn there was, or none.                                              *)
LEMMA SameTurn ==
    ASSUME lease' = lease \/ lease' = NoLease
    PROVE  Running' => Running /\ lease'.tab = lease.tab
BY DEF Running, NoLease

LEMMA LookRelies ==
    ASSUME WorkspaceTypes, HolderIsAlone, SelectionIsNoticed, NEW r \in Requests, Look(r),
           Valid(r), Advances(r, Then[req[r].pc], Context(req[r].tab))
    PROVE  SelectionIsNoticed'
<1>1. /\ ReqTyped /\ Waits /\ registered \subseteq ScannerTabs
  BY DEF WorkspaceTypes, ReqTyped, Waits
<1>2. UNCHANGED <<windowVars, memory>> /\ req[r].pc \in DOMAIN Then BY DEF Look, Denied
<1>3. UNCHANGED <<selected, front, activations, lease, expected>>
  BY <1>2 DEF windowVars, memory
<1>4. Noticed => Noticed' BY <1>1, <1>3, NoticedStays
<1>5. Running' => Running /\ lease'.tab = lease.tab BY <1>3, SameTurn
<1>6. CASE req[r].pc = "look1"
  <2>1. req'[r].pc = "guard2" BY <1>6 DEF Advances, Then
  <2>2. RelyAsBefore BY <2>1, OthersRely DEF Advances, Keeps
  <2> QED BY <1>3, <1>4, <1>5, <2>2, SelectionStays
<1>7. CASE req[r].pc \in {"look3", "look4"}
  <2>1. \A q \in Requests \ {r} : req'[q] = req[q] BY DEF Advances, Keeps, OthersStay
  <2>2. req'[r].pc \in {"choose", "guard5"} /\ req'[r].seen = Context(req[r].tab)
        /\ req'[r].tab = req[r].tab
    BY <1>7 DEF Advances, Keeps, Then
  <2>3. req[r].live /\ req[r].tab \in ScannerTabs
    BY <1>7 DEF Valid, HolderIsAlone
  <2>4. /\ Context(req[r].tab) # "error" => Context(req[r].tab) = selected /\ (~front \/ selected # Manual)
        /\ Context(req[r].tab) = req[r].tab => selected = req[r].tab
    <3>1. Manual \notin registered BY <1>1, WorkspaceConstants
    <3> QED BY <2>3, <3>1, WorkspaceConstants DEF Context
  <2>5. Running' => selected' = lease'.tab \/ Noticed'
    BY <1>3, <1>4, <1>5 DEF SelectionIsNoticed
  <2>6. ASSUME NEW q \in Requests, req'[q].live
        PROVE  /\ req'[q].pc \in {"guard5", "grant"} /\ req'[q].seen = req'[q].tab =>
                      selected' = req'[q].tab \/ Noticed'
               /\ req'[q].pc = "choose" /\ req'[q].seen \notin {req'[q].tab, "error"} =>
                      selected' # req'[q].tab \/ Noticed'
               /\ req'[q].undisturbed /\ req'[q].pc = "choose" /\ req'[q].seen # "error" =>
                      ~front' \/ selected' # Manual \/ Noticed'
    <3>1. CASE q = r BY <1>3, <2>2, <2>4, <3>1
    <3>2. CASE q # r
      BY <1>3, <1>4, <2>1, <2>6, <3>2 DEF SelectionIsNoticed, Valid, Awaits
    <3> QED BY <3>1, <3>2
  <2> QED BY <2>5, <2>6 DEF SelectionIsNoticed, Valid, Awaits
<1> QED BY <1>2, <1>6, <1>7 DEF Then

LEMMA SelectionStep ==
    ASSUME WorkspaceTypes, HolderIsAlone, ExpectedComes, SelectionIsNoticed,
           [WorkspaceNext]_workspaceVars
    PROVE  SelectionIsNoticed'
<1>1. /\ ReqTyped /\ gen \in [ScannerTabs -> Nat \ {0}] /\ Waits
      /\ selected \in ScannerTabs \union {Manual}
  BY DEF WorkspaceTypes, ReqTyped, Waits
<1>2. NoRequest.live = FALSE BY DEF NoRequest
<1>3. ASSUME UNCHANGED <<selected, front, activations>>, expected' = expected \/ expected' = Nobody,
             lease' = lease \/ lease' = NoLease, RelyAsBefore
      PROVE  SelectionIsNoticed'
  BY <1>1, <1>3, NoticedStays, SameTurn, SelectionStays
<1>4. ASSUME UNCHANGED windowVars, UNCHANGED <<expected, lease>>, RelyAsBefore
      PROVE  SelectionIsNoticed'
  BY <1>3, <1>4 DEF windowVars
<1>5. CASE UNCHANGED workspaceVars
  BY <1>4, <1>5, SameRely DEF workspaceVars, memory, work
<1>6. ASSUME NEW r \in Requests, Guard(r) PROVE SelectionIsNoticed'
  <2>1. UNCHANGED windowVars /\ UNCHANGED <<expected, lease>> /\ req[r].pc \in DOMAIN After
    BY <1>6 DEF Guard, Denied, memory
  <2>2. RelyAsBefore
    <3>1. CASE Quits(r) BY <1>2, <3>1, OthersRely DEF Quits
    <3>2. CASE Advances(r, After[req[r].pc], req[r].seen)
      BY <2>1, <3>2 DEF Advances, Keeps, OthersStay, RelyAsBefore, After
    <3> QED BY <1>1, <1>6, <3>1, <3>2, GuardIs
  <2> QED BY <1>4, <2>1, <2>2
<1>7. ASSUME NEW r \in Requests, Look(r) PROVE SelectionIsNoticed'
  <2>1. UNCHANGED windowVars /\ UNCHANGED <<expected, lease>> BY <1>7 DEF Look, Denied, memory
  <2>2. CASE Quits(r) BY <1>2, <1>4, <2>1, <2>2, OthersRely DEF Quits
  <2> QED BY <1>1, <1>7, <2>2, LookIs, LookRelies
<1>8. ASSUME NEW r \in Requests, TakeTurn(r) PROVE SelectionIsNoticed'
  <2>1. UNCHANGED <<selected, front, activations, expected>> /\ (lease' = lease \/ lease' = NoLease)
    BY <1>8 DEF TakeTurn, Denied, memory, windowVars
  <2>2. RelyAsBefore
    BY <1>1, <1>2, <1>8, TakeTurnIs, OthersRely DEF Quits, Advances, Keeps
  <2> QED BY <1>3, <2>1, <2>2
<1>9. ASSUME NEW r \in Requests, Choose(r) PROVE SelectionIsNoticed'
  <2>1. UNCHANGED windowVars /\ lease' = lease /\ req[r].pc = "choose"
    BY <1>9 DEF Choose, Denied, memory, Awaits
  <2>2. OthersStay(r) /\ (req'[r].live => req'[r].pc \notin {"guard5", "grant", "choose"})
    BY <1>1, <1>2, <1>9, ChooseIs DEF Quits, Advances, GivesCommand, Keeps
  <2>3. CASE expected' = expected BY <1>4, <2>1, <2>2, <2>3, OthersRely
  <2>4. CASE expected' # expected
    <3>1. Past(r)
      BY <1>9, <2>1, <2>4 DEF Choose, Denied, memory, MayDispatch, Valid, Past, Beyond
    <3>2. flight = r /\ lease = NoLease BY <3>1 DEF HolderIsAlone, Past
    <3> QED BY <2>1, <2>2, <3>2, HolderRelies, SelectionIsNobodys, RunningIs DEF Running
  <2> QED BY <2>3, <2>4
<1>a. ASSUME NEW r \in Requests, Updated(r) PROVE SelectionIsNoticed'
  <2>1. req[r].pc = "update" /\ lease' = lease BY <1>a DEF Updated, Awaits
  <2>2. OthersStay(r) /\ (req'[r].live => req'[r].pc \notin {"guard5", "grant", "choose"})
    BY <1>1, <1>2, <1>a, UpdatedIs DEF Quits, CommandEnds, Keeps
  <2>3. flight = r /\ lease = NoLease BY <2>1 DEF HolderIsAlone
  <2> QED BY <2>1, <2>2, <2>3, HolderRelies, SelectionIsNobodys, RunningIs DEF Running
<1>b. ASSUME NEW r \in Requests, Grant(r) PROVE SelectionIsNoticed'
  <2>1. UNCHANGED windowVars /\ expected' = expected /\ req[r].pc = "grant"
    BY <1>b DEF Grant, Denied, memory, Awaits
  <2>2. Quits(r) BY <1>1, <1>b, GrantIs
  <2>3. RelyAsBefore BY <1>2, <2>2, OthersRely DEF Quits
  <2>4. CASE lease' = lease BY <1>4, <2>1, <2>3, <2>4
  <2>5. CASE lease' # lease
    <3>1. req[r].live /\ req[r].seen = req[r].tab /\ lease'.tab = req[r].tab
      BY <1>b, <2>5 DEF Grant, Denied, memory, Valid
    <3>2. flight = r BY <2>1, <3>1 DEF HolderIsAlone, Past, Beyond
    <3>3. NobodyRelies BY <1>2, <2>2, <3>2, HolderRelies DEF Quits
    <3>4. selected = req[r].tab \/ Noticed BY <2>1, <3>1 DEF SelectionIsNoticed
    <3>5. Noticed => Noticed' BY <1>1, <2>1, NoticedStays DEF windowVars
    <3>6. selected' = lease'.tab \/ Noticed' BY <2>1, <3>1, <3>4, <3>5 DEF windowVars
    <3> QED BY <3>3, <3>6 DEF SelectionIsNoticed, NobodyRelies, Valid, Awaits
  <2> QED BY <2>4, <2>5
<1>c. ASSUME NEW r \in Requests, TimesOut(r) PROVE SelectionIsNoticed'
  <2>1. UNCHANGED windowVars BY <1>c DEF TimesOut
  <2>2. CASE Marks(r) /\ UNCHANGED <<lease, expected>>
    <3>1. RelyAsBefore BY <2>2 DEF Marks, Keeps, OthersStay, RelyAsBefore
    <3> QED BY <1>4, <2>1, <2>2, <3>1
  <2>3. CASE AllDie /\ lease' = NoLease
    BY <2>3, DeadRely, SelectionIsNobodys DEF Running, NoLease
  <2> QED BY <1>1, <1>c, <2>2, <2>3, TimesOutIs
<1>d. ASSUME NEW r \in Requests, NEW t \in ScannerTabs, Ask(r, t) PROVE SelectionIsNoticed'
  <2>1. UNCHANGED windowVars /\ UNCHANGED <<expected, lease>> BY <1>d DEF Ask
  <2>2. RelyAsBefore
    <3>1. CASE UNCHANGED work BY <3>1, SameRely DEF work
    <3>2. CASE Begins(r, t) BY <3>2, OthersRely DEF Begins
    <3> QED BY <1>1, <1>d, <3>1, <3>2, AskIs
  <2> QED BY <1>4, <2>1, <2>2
<1>e. CASE LeaseRunsOut
  <2>1. UNCHANGED windowVars /\ UNCHANGED <<expected, req>> /\ lease' = [lease EXCEPT !.over = TRUE]
    BY <1>e DEF LeaseRunsOut, work
  <2>2. ~Running'
    <3>1. \A L \in TabLease \union {NoLease} : [L EXCEPT !.over = TRUE].over
      BY DEF TabLease, NoLease
    <3> QED BY <2>1, <3>1 DEF Running, WorkspaceTypes
  <2> QED BY <1>1, <2>1, <2>2, SameRely, NoticedStays, SelectionStays DEF windowVars
<1>f. CASE LeaseEnds \/ \E t \in ScannerTabs : Release(t)
  <2>1. UNCHANGED <<selected, front, activations, expected, req>> /\ (lease' = lease \/ lease' = NoLease)
    BY <1>f DEF LeaseEnds, Release, windowVars, work
  <2> QED BY <1>3, <2>1, SameRely
<1>g. CASE TicketAges \/ ActivityEnds \/ PauseEnds \/ \E t \in ScannerTabs : Supersede(t)
  BY <1>4, <1>g, SameRely DEF TicketAges, ActivityEnds, PauseEnds, Supersede, memory, work
<1>h. CASE ExpectationEnds
  BY <1>3, <1>h, SameRely DEF ExpectationEnds, windowVars, work
<1>i. ASSUME NEW t \in ScannerTabs, NEW id \in 1..issued, Granted(t, id) \/ Revoked(t, id)
      PROVE  SelectionIsNoticed'
  BY <1>4, <1>i, SameRely DEF Granted, Revoked, memory, work
<1>j. ASSUME NEW x \in ScannerTabs \union {Manual}, UserSelects(x) PROVE SelectionIsNoticed'
  <2>1. /\ activations' = Append(activations, x) /\ selected' = x
        /\ UNCHANGED <<expected, lease, req, front>>
    BY <1>j DEF UserSelects, memory, work
  <2>2. ASSUME \A q \in Requests : ~req[q].commanded PROVE SelectionIsNoticed'
    <3>1. expected # Nobody => ToCome(expected) BY <2>2 DEF ExpectedComes
    <3>2. Noticed' BY <1>1, <2>1, <3>1, NoticedGrows
    <3> QED BY <3>2 DEF SelectionIsNoticed
  <2>3. ASSUME NEW q \in Requests, req[q].commanded PROVE SelectionIsNoticed'
    <3>1. flight = q /\ lease = NoLease /\ req[q].pc = "update" BY <2>3 DEF HolderIsAlone
    <3>2. NobodyRelies
      BY <2>1, <3>1 DEF HolderIsAlone, NobodyRelies, Past, Beyond
    <3> QED BY <2>1, <3>1, <3>2, SelectionIsNobodys, RunningIs DEF Running
  <2> QED BY <2>2, <2>3
<1>k. CASE Revoke(req)
  <2>1. AllDie /\ lease' = NoLease BY <1>1, <1>k, RevokeIs DEF Revoke
  <2> QED BY <2>1, DeadRely, SelectionIsNobodys DEF Running, NoLease
<1>l. CASE Activated
  <2>1. CASE Head(activations) = expected
    <3>1. /\ activations # <<>> /\ activations' = Tail(activations) /\ expected' = Nobody
          /\ UNCHANGED <<selected, front, req, lease>>
      BY <1>l, <2>1 DEF Activated
    <3>2. expected # Nobody BY <1>1, <2>1, <3>1, FirstGoes, WorkspaceConstants DEF Waits
    <3>3. Noticed => Noticed' BY <1>1, <3>1, <3>2, NoticedFalls
    <3> QED BY <3>1, <3>3, SameRely, SameTurn, SelectionStays
  <2>2. CASE Head(activations) # expected BY <1>k, <1>l, <2>2 DEF Activated
  <2> QED BY <2>1, <2>2
<1>m. CASE PauseBegins \/ \E t \in ScannerTabs : UserActive(t)
  BY <1>k, <1>m DEF PauseBegins, UserActive
<1>n. CASE Sync
  <2>1. CASE UNCHANGED <<req, lease, expected>>
    BY <1>4, <1>n, <2>1, SameRely DEF Sync
  <2> QED BY <1>k, <1>n, <2>1 DEF Sync
<1>o. CASE FocusChanges
  <2>1. /\ UNCHANGED <<selected, activations, lease>> /\ (expected' = expected \/ expected' = Nobody)
    BY <1>o DEF FocusChanges
  <2>2. Noticed => Noticed' BY <1>1, <2>1, NoticedStays
  <2>3. \A q \in Requests : ~req'[q].undisturbed /\ req'[q].pc = req[q].pc /\ req'[q].seen = req[q].seen
                            /\ req'[q].tab = req[q].tab /\ req'[q].live = req[q].live
    BY <1>1, <1>o, FocusIs
  <2> QED BY <2>1, <2>2, <2>3 DEF SelectionIsNoticed, Valid, Awaits, Running
<1> QED
  BY <1>5, <1>6, <1>7, <1>8, <1>9, <1>a, <1>b, <1>c, <1>d, <1>e, <1>f, <1>g, <1>h, <1>i, <1>j, <1>l,
     <1>m, <1>n, <1>o
  DEF WorkspaceNext, RequestStep

-----------------------------------------------------------------------------
(* Types                                                                   *)

(* Requests stay requests, and only they have the lock.                    *)
LEMMA RequestsStep ==
    ASSUME WorkspaceTypes, [WorkspaceNext]_workspaceVars
    PROVE  ReqTyped' /\ flight' \in Requests \union {Nobody}
<1>1. /\ ReqTyped /\ gen \in [ScannerTabs -> Nat \ {0}] /\ selected \in ScannerTabs \union {Manual}
      /\ flight \in Requests \union {Nobody}
  BY DEF WorkspaceTypes, ReqTyped
<1>2. ASSUME UNCHANGED work PROVE ReqTyped' /\ flight' \in Requests \union {Nobody}
  BY <1>1, <1>2 DEF work, ReqTyped
<1>3. ASSUME NEW r \in Requests, RequestStep(r) PROVE ReqTyped' /\ flight' \in Requests \union {Nobody}
  <2>1. ReqTyped'
    BY <1>1, <1>3, GuardIs, LookIs, TakeTurnIs, ChooseIs, UpdatedIs, GrantIs DEF RequestStep
  <2>2. flight' \in {flight, Nobody}
    <3>1. Guard(r) \/ Look(r) => Quits(r) \/ flight' = flight
      BY <1>1, GuardIs, LookIs DEF Advances, Keeps
    <3>2. TakeTurn(r) \/ Choose(r) => Quits(r) \/ flight' = flight
      BY <1>1, TakeTurnIs, ChooseIs DEF Advances, GivesCommand, Keeps
    <3>3. Updated(r) \/ Grant(r) => Quits(r) \/ flight' = flight
      BY <1>1, UpdatedIs, GrantIs DEF CommandEnds, Keeps
    <3> QED BY <1>3, <3>1, <3>2, <3>3 DEF RequestStep, Quits
  <2> QED BY <1>1, <2>1, <2>2
<1>4. ASSUME NEW r \in Requests, TimesOut(r) PROVE ReqTyped' /\ flight' \in Requests \union {Nobody}
  BY <1>1, <1>4, TimesOutIs DEF Marks, Keeps
<1>5. ASSUME NEW r \in Requests, NEW t \in ScannerTabs, Ask(r, t)
      PROVE  ReqTyped' /\ flight' \in Requests \union {Nobody}
  <2>1. ReqTyped' BY <1>1, <1>5, AskIs
  <2>2. flight' \in {flight, Nobody, r} BY <1>5 DEF Ask, work
  <2> QED BY <1>1, <2>1, <2>2
<1>6. CASE Revoke(req) /\ flight' = flight BY <1>1, <1>6, RevokeIs
<1>7. CASE Activated \/ Sync BY <1>2, <1>6, <1>7 DEF Activated, Sync, work
<1>8. CASE PauseBegins \/ \E t \in ScannerTabs : UserActive(t)
  BY <1>6, <1>8 DEF PauseBegins, UserActive
<1>9. CASE FocusChanges BY <1>1, <1>9, FocusIs
<1>a. CASE LeaseRunsOut \/ LeaseEnds \/ TicketAges \/ ExpectationEnds \/ ActivityEnds \/ PauseEnds
  BY <1>2, <1>a DEF LeaseRunsOut, LeaseEnds, TicketAges, ExpectationEnds, ActivityEnds, PauseEnds
<1>b. CASE \/ \E x \in ScannerTabs \union {Manual} : UserSelects(x)
           \/ \E t \in ScannerTabs : Release(t) \/ Supersede(t)
           \/ \E t \in ScannerTabs : \E id \in 1..issued : Granted(t, id) \/ Revoked(t, id)
  BY <1>2, <1>b DEF UserSelects, Release, Supersede, Granted, Revoked
<1>c. CASE UNCHANGED workspaceVars BY <1>2, <1>c DEF workspaceVars
<1> QED BY <1>3, <1>4, <1>5, <1>7, <1>8, <1>9, <1>a, <1>b, <1>c DEF WorkspaceNext

(* The browser, the settings and what the worker keeps of them.            *)
DisturbancesBounded == disturbances \in 0..MAX_DISTURBANCES
LEMMA DisturbsIs == ASSUME DisturbancesBounded, Disturbs \/ UNCHANGED disturbances PROVE DisturbancesBounded'
BY WorkspaceConstants DEF DisturbancesBounded, Disturbs

Settled ==
    /\ front \in BOOLEAN /\ paused \in BOOLEAN /\ userActive \in BOOLEAN
    /\ managed \subseteq ScannerTabs /\ registered \subseteq ScannerTabs
    /\ gen \in [ScannerTabs -> Nat \ {0}] /\ Waits /\ DisturbancesBounded

LEMMA SettledStep ==
    ASSUME WorkspaceTypes, HolderIsAlone, [WorkspaceNext]_workspaceVars
    PROVE  Settled'
<1>1. Settled BY DEF WorkspaceTypes, Settled, Waits, DisturbancesBounded
<1>2. ASSUME UNCHANGED <<windowVars, settings, registered, userActive>>,
             expected' \in ScannerTabs \union {Nobody}, Disturbs \/ UNCHANGED disturbances
      PROVE  Settled'
  BY <1>1, <1>2, DisturbsIs DEF Settled, windowVars, settings, Waits
<1>3. expected \in ScannerTabs \union {Nobody} BY <1>1 DEF Settled, Waits
<1>4. ASSUME NEW r \in Requests, Guard(r) \/ Look(r) \/ TakeTurn(r) PROVE Settled'
  BY <1>2, <1>3, <1>4 DEF Guard, Look, TakeTurn, Denied, memory, turnBounds
<1>5. ASSUME NEW r \in Requests, Choose(r) PROVE Settled'
  <2>1. req[r].tab \in ScannerTabs BY <1>5 DEF Choose, Awaits, HolderIsAlone
  <2> QED BY <1>2, <1>3, <1>5, <2>1 DEF Choose, Denied, memory, turnBounds
<1>6. ASSUME NEW r \in Requests, Updated(r) PROVE Settled'
  <2>1. req[r].tab \in ScannerTabs BY <1>6 DEF Updated, Awaits, HolderIsAlone
  <2>2. /\ UNCHANGED <<front, settings, registered, userActive>>
        /\ expected' \in ScannerTabs \union {Nobody} /\ (Disturbs \/ UNCHANGED disturbances)
    BY <1>3, <1>6 DEF Updated, turnBounds
  <2>3. selected' \in ScannerTabs \union {Manual}
        /\ activations' \in Seq(ScannerTabs \union {Manual})
    <3>1. Append(activations, req[r].tab) \in Seq(ScannerTabs \union {Manual})
      BY <1>1, <2>1, LastComes DEF Settled, Waits
    <3>2. \/ selected' = req[r].tab /\ activations' \in {activations, Append(activations, req[r].tab)}
          \/ UNCHANGED <<selected, activations>>
      BY <1>6 DEF Updated
    <3> QED BY <1>1, <2>1, <3>1, <3>2 DEF Settled, Waits
  <2> QED BY <1>1, <2>2, <2>3, DisturbsIs DEF Settled, Waits, settings
<1>7. ASSUME NEW r \in Requests, Grant(r) PROVE Settled'
  BY <1>2, <1>3, <1>7 DEF Grant, Denied, memory, turnBounds
<1>8. ASSUME NEW r \in Requests, TimesOut(r) PROVE Settled'
  BY <1>2, <1>3, <1>8 DEF TimesOut, Revoke
<1>9. ASSUME NEW r \in Requests, NEW t \in ScannerTabs, Ask(r, t) PROVE Settled'
  BY <1>2, <1>3, <1>9 DEF Ask, turnBounds
<1>a. CASE LeaseRunsOut \/ LeaseEnds \/ TicketAges \/ ExpectationEnds
  BY <1>2, <1>3, <1>a DEF LeaseRunsOut, LeaseEnds, TicketAges, ExpectationEnds, turnBounds
<1>b. CASE \E t \in ScannerTabs : Release(t)
  BY <1>2, <1>3, <1>b DEF Release, turnBounds
<1>c. CASE ActivityEnds \/ PauseEnds
  BY <1>1, <1>c, DisturbsIs
  DEF ActivityEnds, PauseEnds, Settled, windowVars, settings, memory, turnBounds, Waits
<1>d. ASSUME NEW x \in ScannerTabs \union {Manual}, UserSelects(x) PROVE Settled'
  <2>1. activations' \in Seq(ScannerTabs \union {Manual}) BY <1>1, <1>d, LastComes DEF UserSelects, Settled, Waits
  <2> QED BY <1>1, <1>d, <2>1, DisturbsIs DEF UserSelects, Settled, settings, memory, Waits
<1>e. CASE Activated
  <2>1. activations' \in Seq(ScannerTabs \union {Manual}) BY <1>1, <1>e, FirstGoes DEF Activated, Settled, Waits
  <2>2. expected' = Nobody BY <1>e DEF Activated, Revoke
  <2>3. userActive' \in BOOLEAN BY <1>1, <1>e DEF Activated, Settled
  <2> QED BY <1>1, <1>e, <2>1, <2>2, <2>3, DisturbsIs DEF Activated, Settled, settings, turnBounds, Waits
<1>f. ASSUME NEW t \in ScannerTabs, UserActive(t) PROVE Settled'
  BY <1>1, <1>f, DisturbsIs DEF UserActive, Revoke, Settled, windowVars, settings, Waits
<1>g. CASE FocusChanges
  BY <1>1, <1>3, <1>g, DisturbsIs DEF FocusChanges, Settled, settings, Waits
<1>h. CASE PauseBegins
  BY <1>1, <1>h, DisturbsIs DEF PauseBegins, Revoke, Settled, windowVars, Waits
<1>i. ASSUME NEW t \in ScannerTabs, Supersede(t) PROVE Settled'
  <2>1. gen' \in [ScannerTabs -> Nat \ {0}]
    <3>1. gen[t] + 1 \in Nat \ {0} BY <1>1 DEF Settled
    <3> QED BY <1>1, <1>i, <3>1 DEF Supersede, Settled
  <2>2. managed' \subseteq ScannerTabs BY <1>1, <1>i DEF Supersede, Settled
  <2> QED BY <1>1, <1>i, <2>1, <2>2, DisturbsIs DEF Supersede, Settled, windowVars, memory, Waits
<1>j. CASE Sync
  <2>1. expected' \in {expected, Nobody} BY <1>j DEF Sync, Revoke
  <2> QED BY <1>1, <1>j, <2>1, DisturbsIs DEF Sync, Settled, windowVars, settings, turnBounds, Waits
<1>k. ASSUME NEW t \in ScannerTabs, NEW id \in 1..issued, Granted(t, id) \/ Revoked(t, id)
      PROVE  Settled'
  BY <1>2, <1>3, <1>k DEF Granted, Revoked, memory, turnBounds
<1>l. CASE UNCHANGED workspaceVars BY <1>2, <1>3, <1>l DEF workspaceVars, memory, turnBounds
<1> QED
  BY <1>4, <1>5, <1>6, <1>7, <1>8, <1>9, <1>a, <1>b, <1>c, <1>d, <1>e, <1>f, <1>g, <1>h, <1>i, <1>j,
     <1>k, <1>l
  DEF WorkspaceNext, RequestStep

-----------------------------------------------------------------------------
(* Turns, their grants and their revocations                               *)

Turns ==
    /\ lease \in TabLease \union {NoLease} /\ lease.id <= issued /\ issued \in 0..MAX_LEASES
    /\ notices \subseteq ScannerTabs \X (1..issued) /\ replies \subseteq ScannerTabs \X (1..issued)
    /\ turn \in [ScannerTabs -> 0..issued] /\ known \in [ScannerTabs -> SUBSET (1..issued)]
TurnsAreBacked == Turns /\ TurnIsBacked /\ GrantsAreBacked

LEMMA NoLeaseIs ==
    /\ NoLease.tab \notin ScannerTabs /\ NoLease.id = 0
    /\ \A L \in TabLease : L.tab \in ScannerTabs /\ L.id \in Nat \ {0}
BY WorkspaceConstants DEF NoLease, TabLease

(* A turn that ends is told to whoever may believe in it.                  *)
LEMMA ToldIs ==
    ASSUME TurnsAreBacked, lease' = NoLease, notices' = Notified(lease),
           UNCHANGED <<replies, turn, known, issued>>
    PROVE  TurnsAreBacked'
<1>1. Notified(lease) \in {notices, notices \union {<<lease.tab, lease.id>>}} BY DEF Notified
<1>2. lease.id # 0 => lease.tab \in ScannerTabs /\ lease.id \in 1..issued
  BY NoLeaseIs DEF TurnsAreBacked, Turns
<1>3. notices \subseteq notices' /\ notices' \subseteq ScannerTabs \X (1..issued)
  BY <1>1, <1>2 DEF TurnsAreBacked, Turns, Notified
<1>4. Turns'
  <2>1. 0 <= issued BY DEF TurnsAreBacked, Turns
  <2> QED BY <1>3, <2>1, NoLeaseIs DEF TurnsAreBacked, Turns
<1>5. ASSUME NEW t \in ScannerTabs, turn[t] # 0 PROVE <<t, turn[t]>> \in notices'
  <2>1. CASE lease.tab = t /\ lease.id = turn[t] BY <1>5, <2>1 DEF Notified
  <2>2. CASE <<t, turn[t]>> \in notices BY <1>3, <2>2
  <2> QED BY <1>5, <2>1, <2>2 DEF TurnsAreBacked, TurnIsBacked
<1>6. ASSUME NEW g \in replies PROVE g \in notices' \/ g[2] \in known[g[1]]
  <2>1. g = <<g[1], g[2]>> /\ g[2] # 0 BY DEF TurnsAreBacked, Turns
  <2>2. CASE lease.tab = g[1] /\ lease.id = g[2]
    <3>1. <<lease.tab, lease.id>> \in replies /\ lease.id # 0 BY <2>1, <2>2
    <3>2. <<lease.tab, lease.id>> \in notices' BY <3>1 DEF Notified
    <3> QED BY <2>1, <2>2, <3>2
  <2> QED BY <1>3, <2>2 DEF TurnsAreBacked, GrantsAreBacked
<1> QED BY <1>4, <1>5, <1>6 DEF TurnsAreBacked, TurnIsBacked, GrantsAreBacked

LEMMA TurnsStay ==
    ASSUME TurnsAreBacked, UNCHANGED <<lease, documentVars, issued>>
    PROVE  TurnsAreBacked'
BY DEF TurnsAreBacked, Turns, TurnIsBacked, GrantsAreBacked, documentVars

LEMMA TurnsStep ==
    ASSUME WorkspaceTypes, HolderIsAlone, TurnsAreBacked, [WorkspaceNext]_workspaceVars
    PROVE  TurnsAreBacked'
<1>1. Turns BY DEF TurnsAreBacked
<1>2. CASE UNCHANGED workspaceVars
  BY <1>2, TurnsStay DEF workspaceVars, memory, turnBounds
<1>3. ASSUME NEW r \in Requests, Guard(r) \/ Look(r) \/ Choose(r) \/ Updated(r) PROVE TurnsAreBacked'
  BY <1>3, TurnsStay DEF Guard, Look, Choose, Updated, Denied, memory, turnBounds, Disturbs
<1>4. ASSUME NEW r \in Requests, TakeTurn(r) PROVE TurnsAreBacked'
  <2>1. CASE UNCHANGED <<lease, documentVars, issued>> BY <2>1, TurnsStay
  <2>2. CASE lease' = NoLease /\ notices' = Notified(lease) /\ UNCHANGED <<replies, turn, known, issued>>
    BY <2>2, ToldIs
  <2>3. CASE /\ Returning(req[r].tab, req[r].gen) /\ UNCHANGED <<lease, notices, turn, known, issued>>
             /\ replies' \in {replies, replies \union {<<req[r].tab, lease.id>>}}
    <3>1. lease.tab = req[r].tab /\ lease # NoLease BY <2>3, RunningIs DEF Returning
    <3>2. lease.tab \in ScannerTabs /\ lease.id \in 1..issued BY <1>1, <3>1, NoLeaseIs DEF Turns
    <3>3. replies' \subseteq replies \union {<<lease.tab, lease.id>>} BY <2>3, <3>1
    <3>4. replies' \subseteq ScannerTabs \X (1..issued) BY <1>1, <3>2, <3>3 DEF Turns
    <3>5. Turns' BY <1>1, <2>3, <3>4 DEF Turns
    <3>6. GrantsAreBacked' BY <2>3, <3>3 DEF TurnsAreBacked, GrantsAreBacked
    <3> QED BY <2>3, <3>5, <3>6 DEF TurnsAreBacked, TurnIsBacked
  <2> QED BY <1>4, <2>1, <2>2, <2>3 DEF TakeTurn, Denied, documentVars, turnBounds, memory
<1>5. ASSUME NEW r \in Requests, Grant(r) PROVE TurnsAreBacked'
  <2>1. CASE UNCHANGED <<lease, documentVars, issued>> BY <2>1, TurnsStay
  <2>2. CASE Valid(r) /\ ~UNCHANGED <<lease, documentVars, issued>>
    <3> DEFINE t == req[r].tab
    <3>1. /\ Awaits(r, "grant") /\ issued < MAX_LEASES /\ issued' = issued + 1
          /\ lease' = [tab |-> t, gen |-> req[r].gen, id |-> issued + 1, over |-> FALSE]
          /\ replies' \subseteq replies \union {<<t, issued + 1>>}
          /\ UNCHANGED <<notices, turn, known>>
      BY <1>5, <2>2 DEF Grant, Denied, memory, turnBounds
    <3>2. lease = NoLease /\ t \in ScannerTabs
      BY <2>2, <3>1 DEF Valid, Awaits, HolderIsAlone, Past, Beyond
    <3>3. req[r].gen \in Nat BY DEF WorkspaceTypes, Request
    <3>4. issued \in Nat /\ issued + 1 \in Nat \ {0} /\ 1..issued \subseteq 1..issued'
          /\ 0..issued \subseteq 0..issued' /\ issued + 1 \in 1..issued' /\ issued' \in 0..MAX_LEASES
      BY <1>1, <3>1, WorkspaceConstants DEF Turns
    <3>5. lease' \in TabLease /\ lease'.tab = t /\ lease'.id = issued + 1 /\ lease'.id <= issued'
      BY <3>1, <3>2, <3>3, <3>4 DEF TabLease
    <3>6. Turns'
      <4>1. notices' \subseteq ScannerTabs \X (1..issued') BY <1>1, <3>1, <3>4 DEF Turns
      <4>2. replies' \subseteq ScannerTabs \X (1..issued') BY <1>1, <3>1, <3>2, <3>4 DEF Turns
      <4>3. turn' \in [ScannerTabs -> 0..issued'] /\ known' \in [ScannerTabs -> SUBSET (1..issued')]
        BY <1>1, <3>1, <3>4 DEF Turns
      <4> QED BY <3>4, <3>5, <4>1, <4>2, <4>3 DEF Turns
    <3>7. TurnIsBacked'
      BY <3>1, <3>2, NoLeaseIs DEF TurnsAreBacked, TurnIsBacked
    <3>8. GrantsAreBacked'
      <4>1. ASSUME NEW g \in replies PROVE g \in notices \/ g[2] \in known[g[1]]
        <5>1. g[1] \in ScannerTabs BY <1>1 DEF Turns
        <5> QED BY <3>2, <4>1, <5>1, NoLeaseIs DEF TurnsAreBacked, GrantsAreBacked
      <4>2. ASSUME NEW g, g = <<t, issued + 1>> PROVE lease'.tab = g[1] /\ lease'.id = g[2]
        BY <3>5, <4>2
      <4> QED BY <3>1, <4>1, <4>2 DEF GrantsAreBacked
    <3> QED BY <3>6, <3>7, <3>8 DEF TurnsAreBacked
  <2> QED BY <1>5, <2>1, <2>2 DEF Grant, Denied, memory, turnBounds
<1>6. CASE Revoke(req) /\ UNCHANGED <<replies, turn, known, issued>> BY <1>6, ToldIs DEF Revoke
<1>7. ASSUME NEW r \in Requests, TimesOut(r) PROVE TurnsAreBacked'
  <2>1. UNCHANGED <<replies, turn, known, issued>> BY <1>7 DEF TimesOut, Disturbs
  <2>2. UNCHANGED <<lease, notices>> \/ (lease' = NoLease /\ notices' = Notified(lease))
    BY <1>7 DEF TimesOut, Revoke
  <2> QED BY <2>1, <2>2, ToldIs, TurnsStay DEF documentVars
<1>8. ASSUME NEW r \in Requests, NEW t \in ScannerTabs, Ask(r, t) PROVE TurnsAreBacked'
  BY <1>8, TurnsStay DEF Ask, turnBounds
<1>9. CASE LeaseRunsOut
  <2>1. /\ lease' = [lease EXCEPT !.over = TRUE] /\ UNCHANGED <<notices, known, issued>>
        /\ replies' = replies \ {<<lease.tab, lease.id>>}
        /\ turn' = [turn EXCEPT ![lease.tab] = IF @ = lease.id THEN 0 ELSE @]
        /\ lease # NoLease
    BY <1>9, RunningIs DEF LeaseRunsOut, turnBounds
  <2>2. lease \in TabLease BY <1>1, <2>1 DEF Turns
  <2>3. \A L \in TabLease : LET M == [L EXCEPT !.over = TRUE]
                            IN  M \in TabLease /\ M.tab = L.tab /\ M.id = L.id
    BY DEF TabLease
  <2>4. lease' \in TabLease /\ lease'.tab = lease.tab /\ lease'.id = lease.id BY <2>1, <2>2, <2>3
  <2>5. \A t \in ScannerTabs : turn'[t] \in {turn[t], 0} BY <1>1, <2>1 DEF Turns
  <2>6. turn' \in [ScannerTabs -> 0..issued']
    <3>1. 0 \in 0..issued BY <1>1 DEF Turns
    <3> QED BY <1>1, <2>1, <3>1 DEF Turns
  <2>7. Turns' BY <1>1, <2>1, <2>4, <2>6 DEF Turns
  <2>8. TurnIsBacked' BY <2>1, <2>4, <2>5 DEF TurnsAreBacked, TurnIsBacked
  <2>9. GrantsAreBacked' BY <2>1, <2>4 DEF TurnsAreBacked, GrantsAreBacked
  <2> QED BY <2>7, <2>8, <2>9 DEF TurnsAreBacked
<1>a. CASE LeaseEnds BY <1>a, ToldIs DEF LeaseEnds, turnBounds
<1>b. ASSUME NEW t \in ScannerTabs, Release(t) PROVE TurnsAreBacked'
  <2>1. /\ turn' = [turn EXCEPT ![t] = 0] /\ UNCHANGED <<replies, known, issued>>
        /\ \/ UNCHANGED <<lease, notices>>
           \/ lease' = NoLease /\ notices' = Notified(lease) /\ lease.tab = t /\ lease.id = turn[t]
              /\ Running
    BY <1>b DEF Release, turnBounds
  <2>2. turn' \in [ScannerTabs -> 0..issued] /\ turn'[t] = 0
        /\ \A u \in ScannerTabs \ {t} : turn'[u] = turn[u]
    <3>1. 0 \in 0..issued BY <1>1 DEF Turns
    <3> QED BY <1>1, <2>1, <3>1 DEF Turns
  <2>3. CASE UNCHANGED <<lease, notices>>
    BY <1>1, <2>1, <2>2, <2>3 DEF TurnsAreBacked, Turns, TurnIsBacked, GrantsAreBacked
  <2>4. CASE /\ lease' = NoLease /\ notices' = Notified(lease) /\ lease.tab = t /\ lease.id = turn[t]
             /\ Running
    <3>1. lease.tab \in ScannerTabs /\ lease.id \in 1..issued BY <1>1, <2>4, RunningIs, NoLeaseIs DEF Turns
    <3>2. notices' = notices \union {<<lease.tab, lease.id>>} BY <2>4, <3>1 DEF Notified
    <3>3. notices' \subseteq ScannerTabs \X (1..issued) BY <1>1, <3>1, <3>2 DEF Turns
    <3>4. Turns' BY <1>1, <2>1, <2>2, <2>4, <3>3, NoLeaseIs DEF Turns
    <3>5. TurnIsBacked' BY <2>2, <2>4, <3>2 DEF TurnsAreBacked, TurnIsBacked
    <3>6. GrantsAreBacked'
      <4>1. ASSUME NEW g \in replies, lease.tab = g[1], lease.id = g[2] PROVE g \in notices'
        BY <1>1, <3>2, <4>1 DEF Turns
      <4> QED BY <2>1, <3>2, <4>1 DEF TurnsAreBacked, GrantsAreBacked
    <3> QED BY <3>4, <3>5, <3>6 DEF TurnsAreBacked
  <2> QED BY <2>1, <2>3, <2>4
<1>c. CASE TicketAges \/ ExpectationEnds \/ ActivityEnds \/ PauseEnds \/ FocusChanges
  BY <1>c, TurnsStay
  DEF TicketAges, ExpectationEnds, ActivityEnds, PauseEnds, FocusChanges, memory, turnBounds, Disturbs
<1>d. CASE (\E x \in ScannerTabs \union {Manual} : UserSelects(x)) \/ \E t \in ScannerTabs : Supersede(t)
  BY <1>d, TurnsStay DEF UserSelects, Supersede, memory, Disturbs
<1>e. CASE Activated BY <1>6, <1>e, TurnsStay DEF Activated, documentVars, turnBounds
<1>f. CASE PauseBegins \/ \E t \in ScannerTabs : UserActive(t)
  BY <1>6, <1>f DEF PauseBegins, UserActive, Disturbs
<1>g. CASE Sync BY <1>6, <1>g, TurnsStay DEF Sync, documentVars, turnBounds
<1>h. ASSUME NEW t \in ScannerTabs, NEW id \in 1..issued, Granted(t, id) PROVE TurnsAreBacked'
  <2>1. /\ <<t, id>> \in replies /\ replies' = replies \ {<<t, id>>}
        /\ turn' = [turn EXCEPT ![t] = IF id \notin known[t] THEN id ELSE @]
        /\ UNCHANGED <<lease, notices, known, issued>>
    BY <1>h DEF Granted, Accepts, memory, turnBounds
  <2>2. turn' \in [ScannerTabs -> 0..issued] /\ \A u \in ScannerTabs \ {t} : turn'[u] = turn[u]
    <3>1. id \in 0..issued BY <1>1 DEF Turns
    <3> QED BY <1>1, <2>1, <3>1 DEF Turns
  <2>3. turn'[t] = turn[t] \/ (turn'[t] = id /\ id \notin known[t]) BY <1>1, <2>1 DEF Turns
  <2>4. Turns' BY <1>1, <2>1, <2>2 DEF Turns
  <2>5. (lease.tab = t /\ lease.id = id) \/ <<t, id>> \in notices \/ id \in known[t]
    BY <2>1 DEF TurnsAreBacked, GrantsAreBacked
  <2>6. TurnIsBacked' BY <2>1, <2>2, <2>3, <2>5 DEF TurnsAreBacked, TurnIsBacked
  <2>7. GrantsAreBacked' BY <2>1 DEF TurnsAreBacked, GrantsAreBacked
  <2> QED BY <2>4, <2>6, <2>7 DEF TurnsAreBacked
<1>i. ASSUME NEW t \in ScannerTabs, NEW id \in 1..issued, Revoked(t, id) PROVE TurnsAreBacked'
  <2>1. /\ notices' = notices \ {<<t, id>>}
        /\ known' = [known EXCEPT ![t] = IF <<t, id>> \in replies THEN @ \union {id} ELSE @]
        /\ turn' = [turn EXCEPT ![t] = IF @ = id THEN 0 ELSE @]
        /\ UNCHANGED <<lease, replies, issued>>
    BY <1>i DEF Revoked, memory, turnBounds
  <2>2. /\ turn' \in [ScannerTabs -> 0..issued] /\ \A u \in ScannerTabs \ {t} : turn'[u] = turn[u]
        /\ turn'[t] = 0 \/ (turn'[t] = turn[t] /\ turn[t] # id)
    <3>1. 0 \in 0..issued BY <1>1 DEF Turns
    <3> QED BY <1>1, <2>1, <3>1 DEF Turns
  <2>3. /\ known' \in [ScannerTabs -> SUBSET (1..issued)]
        /\ \A u \in ScannerTabs : known[u] \subseteq known'[u]
        /\ <<t, id>> \in replies => id \in known'[t]
    BY <1>1, <2>1 DEF Turns
  <2>4. Turns' BY <1>1, <2>1, <2>2, <2>3 DEF Turns
  <2>5. TurnIsBacked'
    <3>1. ASSUME NEW u \in ScannerTabs, turn'[u] # 0
          PROVE  (lease.tab = u /\ lease.id = turn'[u]) \/ <<u, turn'[u]>> \in notices'
      <4>1. turn'[u] = turn[u] /\ (u = t => turn[u] # id) BY <2>2, <3>1
      <4> QED BY <2>1, <3>1, <4>1 DEF TurnsAreBacked, TurnIsBacked
    <3> QED BY <2>1, <3>1 DEF TurnIsBacked
  <2>6. GrantsAreBacked'
    <3>1. ASSUME NEW g \in replies
          PROVE  (lease.tab = g[1] /\ lease.id = g[2]) \/ g \in notices' \/ g[2] \in known'[g[1]]
      <4>1. g[1] \in ScannerTabs BY <1>1 DEF Turns
      <4>2. CASE g = <<t, id>> BY <2>3, <4>2
      <4>3. CASE g # <<t, id>> BY <2>1, <2>3, <4>1, <4>3 DEF TurnsAreBacked, GrantsAreBacked
      <4> QED BY <4>2, <4>3
    <3> QED BY <2>1, <3>1 DEF GrantsAreBacked
  <2> QED BY <2>4, <2>5, <2>6 DEF TurnsAreBacked
<1> QED
  BY <1>2, <1>3, <1>4, <1>5, <1>7, <1>8, <1>9, <1>a, <1>b, <1>c, <1>d, <1>e, <1>f, <1>g, <1>h, <1>i
  DEF WorkspaceNext, RequestStep

-----------------------------------------------------------------------------
(* Places in the queue                                                     *)

(* What is left of the queue, everybody in the order that there was.       *)
Shrinks(q) == /\ IsQueue(q)
              /\ \A u \in DOMAIN q : u \in DOMAIN waiting /\ q[u].ahead \subseteq waiting[u].ahead
Placed == /\ IsQueue(waiting) /\ passed \in [ScannerTabs -> [ScannerTabs -> Nat]]
          /\ PlacesAreKept /\ NobodyIsOvertaken
PlacesStay ==
    /\ IsQueue(waiting') /\ passed' \in [ScannerTabs -> [ScannerTabs -> Nat]]
    /\ \A u \in ScannerTabs :
          \/ passed'[u] = NoTurns
          \/ /\ passed'[u] = passed[u] /\ u \in DOMAIN waiting /\ u \in DOMAIN waiting'
             /\ waiting'[u].ahead \subseteq waiting[u].ahead
PastAsBefore == \A q \in Requests : Past(q)' => Past(q) /\ req'[q].tab = req[q].tab

LEMMA NoTurnsIs == NoTurns \in [ScannerTabs -> Nat] /\ \A t \in ScannerTabs : NoTurns[t] = 0
BY DEF NoTurns

LEMMA ShrinksIs ==
    ASSUME IsQueue(waiting)
    PROVE  /\ Shrinks(waiting) /\ Shrinks(NoQueue)
           /\ \A q, out : Shrinks(q) => Shrinks(Without(q, out))
           /\ \A q : Shrinks(q) => Shrinks(Fresh(q)) /\ Shrinks(Hinted(q))
<1>1. Shrinks(waiting) /\ Shrinks(NoQueue) BY NoQueueIs DEF Shrinks
<1>2. ASSUME NEW r, NEW gone, Shrinks(r) PROVE Shrinks(Without(r, gone))
  <2>1. IsQueue(r) BY <1>2 DEF Shrinks
  <2>2. IsQueue(Without(r, gone)) BY <2>1, WithoutIs
  <2>3. DOMAIN Without(r, gone) = DOMAIN r \ gone BY <2>1, WithoutIs
  <2>4. \A t \in DOMAIN r \ gone : Without(r, gone)[t].ahead = r[t].ahead \ gone
    BY <2>1, WithoutIs
  <2> DEFINE w == Without(r, gone)
  <2> HIDE DEF w
  <2>5. Shrinks(w) BY <1>2, <2>2, <2>3, <2>4 DEF Shrinks, w
  <2> QED BY <2>5 DEF w
<1> QED BY <1>1, <1>2 DEF Fresh, Hinted

LEMMA CountedIs ==
    ASSUME Placed, NEW q, Counted(q)
    PROVE  /\ passed' \in [ScannerTabs -> [ScannerTabs -> Nat]]
           /\ \A u \in ScannerTabs : passed'[u] = IF u \in DOMAIN q THEN passed[u] ELSE NoTurns
BY NoTurnsIs DEF Counted, Placed

LEMMA LeftIs ==
    ASSUME Placed, NEW q, Shrinks(q), waiting' = q, Counted(q)
    PROVE  PlacesStay
BY CountedIs DEF Shrinks, PlacesStay

LEMMA QueuedIs ==
    ASSUME Placed, NEW q, Shrinks(q), NEW t \in ScannerTabs, NEW g \in Nat,
           waiting' = Enqueued(q, t, g), Counted(q)
    PROVE  PlacesStay
<1>1. IsQueue(q) BY DEF Shrinks
<1>2. /\ IsQueue(waiting') /\ DOMAIN waiting' = DOMAIN q \union {t}
      /\ \A u \in DOMAIN q : waiting'[u].ahead = q[u].ahead
  BY <1>1, EnqueuedIs
<1>3. /\ passed' \in [ScannerTabs -> [ScannerTabs -> Nat]]
      /\ \A u \in ScannerTabs : passed'[u] = IF u \in DOMAIN q THEN passed[u] ELSE NoTurns
  BY CountedIs
<1> QED BY <1>2, <1>3 DEF Shrinks, PlacesStay

LEMMA SamePlaces ==
    ASSUME Placed, UNCHANGED passed, IsQueue(waiting'),
           \A u \in DOMAIN waiting : u \in DOMAIN waiting' /\ waiting'[u].ahead \subseteq waiting[u].ahead
    PROVE  PlacesStay
BY DEF Placed, PlacesAreKept, PlacesStay

(* The head of the queue: everybody else comes after it.                   *)
LEMMA HeadIs ==
    ASSUME NEW q, IsQueue(q), NEW t, IsHead(q, t)
    PROVE  \A u \in DOMAIN q \ {t} : t \in q[u].ahead
BY DEF IsQueue, IsHead

LEMMA PlacesAreKeptBy ==
    ASSUME HolderIsAlone, Placed, PlacesStay,
           \A q \in Requests : Past(q)' =>
               \/ Past(q) /\ req'[q].tab = req[q].tab
               \/ req'[q].tab \in ScannerTabs /\ IsHead(waiting', req'[q].tab)
    PROVE  Placed'
<1>1. DOMAIN waiting' \subseteq ScannerTabs
      /\ \A u \in DOMAIN waiting' : waiting'[u].ahead \subseteq DOMAIN waiting'
  BY DEF PlacesStay, IsQueue
<1>2. \A u \in ScannerTabs \ DOMAIN waiting' : passed'[u] = NoTurns BY DEF PlacesStay
<1>3. ASSUME NEW u \in DOMAIN waiting', NEW t \in waiting'[u].ahead PROVE passed'[u][t] = 0
  <2>1. t \in ScannerTabs /\ u \in ScannerTabs BY <1>1
  <2> QED BY <2>1, NoTurnsIs DEF PlacesStay, Placed, PlacesAreKept
<1>4. ASSUME NEW r \in Requests, Past(r)', NEW u \in DOMAIN waiting' \ {req'[r].tab}
      PROVE  passed'[u][req'[r].tab] = 0
  <2>1. CASE Past(r) /\ req'[r].tab = req[r].tab
    <3>1. req[r].tab \in ScannerTabs BY <2>1 DEF Past, HolderIsAlone
    <3>2. u \in ScannerTabs BY <1>1
    <3> QED BY <1>4, <2>1, <3>1, <3>2, NoTurnsIs DEF PlacesStay, Placed, PlacesAreKept
  <2>2. CASE req'[r].tab \in ScannerTabs /\ IsHead(waiting', req'[r].tab)
    <3>1. req'[r].tab \in waiting'[u].ahead BY <1>4, <2>2, HeadIs DEF PlacesStay
    <3> QED BY <1>3, <3>1
  <2> QED BY <1>4, <2>1, <2>2
<1>5. NobodyIsOvertaken'
  <2>1. ASSUME NEW u \in ScannerTabs, NEW t \in ScannerTabs PROVE passed'[u][t] <= 1
    BY NoTurnsIs DEF PlacesStay, Placed, NobodyIsOvertaken
  <2> QED BY <2>1 DEF NobodyIsOvertaken
<1>6. PlacesAreKept' BY <1>2, <1>3, <1>4 DEF PlacesAreKept
<1> QED BY <1>5, <1>6 DEF Placed, PlacesStay

LEMMA PlacesKept ==
    ASSUME HolderIsAlone, Placed, PlacesStay, PastAsBefore
    PROVE  Placed'
BY PlacesAreKeptBy DEF PastAsBefore

LEMMA PastDies == ASSUME AllDie PROVE PastAsBefore
BY DEF AllDie, Died, PastAsBefore, Past

LEMMA PastStays == ASSUME UNCHANGED req PROVE PastAsBefore
BY DEF PastAsBefore, Past

LEMMA PastQuits == ASSUME NEW r \in Requests, Quits(r) PROVE PastAsBefore
BY DEF PastAsBefore, Past, Quits, OthersStay, NoRequest

LEMMA PastKeeps ==
    ASSUME NEW r \in Requests, Keeps(r), req'[r].pc \in Beyond => req[r].pc \in Beyond
    PROVE  PastAsBefore
BY DEF PastAsBefore, Past, Keeps, OthersStay

LEMMA PlacesStep ==
    ASSUME WorkspaceTypes, HolderIsAlone, Placed, [WorkspaceNext]_workspaceVars
    PROVE  Placed'
<1>1. /\ ReqTyped /\ gen \in [ScannerTabs -> Nat \ {0}] /\ selected \in ScannerTabs \union {Manual}
      /\ IsQueue(waiting)
  BY DEF WorkspaceTypes, ReqTyped
<1>2. ASSUME UNCHANGED <<waiting, passed>> PROVE PlacesStay
  BY <1>1, <1>2, SamePlaces
<1>3. \A q \in Requests : req[q].pc # "idle" => req[q].tab \in ScannerTabs BY DEF HolderIsAlone
<1>4. CASE UNCHANGED workspaceVars
  BY <1>2, <1>4, PastStays, PlacesKept DEF workspaceVars, memory, work
<1>5. ASSUME NEW r \in Requests, Guard(r) PROVE Placed'
  <2>1. PlacesStay BY <1>2, <1>5 DEF Guard, Denied, memory
  <2>2. CASE Quits(r) BY <2>1, <2>2, PastQuits, PlacesKept
  <2>3. CASE Advances(r, After[req[r].pc], req[r].seen)
    <3>1. After[req[r].pc] \in Beyond => req[r].pc \in Beyond BY <1>5 DEF Guard, After, Beyond
    <3> QED BY <2>1, <2>3, <3>1, PastKeeps, PlacesKept DEF Advances
  <2> QED BY <1>1, <1>5, <2>2, <2>3, GuardIs
<1>6. ASSUME NEW r \in Requests, Look(r) PROVE Placed'
  <2>1. PlacesStay BY <1>2, <1>6 DEF Look, Denied, memory
  <2>2. CASE Quits(r) BY <2>1, <2>2, PastQuits, PlacesKept
  <2>3. CASE Advances(r, Then[req[r].pc], Context(req[r].tab))
    <3>1. Then[req[r].pc] \in Beyond => req[r].pc \in Beyond BY <1>6 DEF Look, Then, Beyond
    <3> QED BY <2>1, <2>3, <3>1, PastKeeps, PlacesKept DEF Advances
  <2> QED BY <1>1, <1>6, <2>2, <2>3, LookIs
<1>7. ASSUME NEW r \in Requests, TakeTurn(r) PROVE Placed'
  <2> DEFINE t == req[r].tab
             g == req[r].gen
             rest == Fresh(waiting)
  <2>1. Shrinks(rest) BY <1>1, ShrinksIs
  <2>2. t \in ScannerTabs /\ g \in Nat /\ req[r].pc = "turn"
    <3>1. req[r] \in Request BY <1>1 DEF ReqTyped
    <3> QED BY <1>3, <1>7, <3>1 DEF TakeTurn, Awaits, Request
  <2> HIDE DEF rest, g
  <2>3. \/ UNCHANGED <<waiting, passed>>
        \/ Counted(rest) /\ waiting' \in {rest, Enqueued(rest, t, g)}
    BY <1>7 DEF TakeTurn, Denied, memory, rest, g
  <2>4. PlacesStay
    <3>1. CASE UNCHANGED <<waiting, passed>> BY <1>2, <3>1
    <3>2. CASE Counted(rest) /\ waiting' = rest BY <2>1, <3>2, LeftIs
    <3>3. CASE Counted(rest) /\ waiting' = Enqueued(rest, t, g) BY <2>1, <2>2, <3>3, QueuedIs
    <3> QED BY <2>3, <3>1, <3>2, <3>3
  <2>5. CASE Quits(r) BY <2>4, <2>5, PastQuits, PlacesKept
  <2>6. CASE Advances(r, "guard3", req[r].seen) /\ ~Quits(r)
    <3>1. ~Ends(r) BY <1>1, <2>6, QuitIs
    <3>2. IsHead(waiting', t) BY <1>7, <3>1 DEF TakeTurn, Denied, IsHead
    <3>3. ASSUME NEW q \in Requests, Past(q)'
          PROVE  \/ Past(q) /\ req'[q].tab = req[q].tab
                 \/ req'[q].tab \in ScannerTabs /\ IsHead(waiting', req'[q].tab)
      <4>1. CASE q = r BY <2>2, <2>6, <3>2, <4>1 DEF Advances, Keeps
      <4>2. CASE q # r BY <2>6, <3>3, <4>2 DEF Advances, Keeps, OthersStay, Past
      <4> QED BY <4>1, <4>2
    <3> QED BY <2>4, <3>3, PlacesAreKeptBy
  <2> QED BY <1>1, <1>7, <2>5, <2>6, TakeTurnIs
<1>8. ASSUME NEW r \in Requests, Choose(r) PROVE Placed'
  <2>1. PlacesStay BY <1>2, <1>8 DEF Choose, Denied, memory
  <2>2. req[r].pc \in Beyond BY <1>8 DEF Choose, Awaits, Beyond
  <2> QED BY <1>1, <1>8, <2>1, <2>2, ChooseIs, PastQuits, PastKeeps, PlacesKept
          DEF Advances, GivesCommand
<1>9. ASSUME NEW r \in Requests, Updated(r) PROVE Placed'
  <2>1. PlacesStay BY <1>2, <1>9 DEF Updated
  <2>2. req[r].pc \in Beyond BY <1>9 DEF Updated, Awaits, Beyond
  <2> QED BY <1>1, <1>9, <2>1, <2>2, UpdatedIs, PastQuits, PastKeeps, PlacesKept DEF CommandEnds
<1>a. ASSUME NEW r \in Requests, Grant(r) PROVE Placed'
  <2>1. Quits(r) BY <1>1, <1>a, GrantIs
  <2>2. CASE UNCHANGED <<waiting, passed>> BY <1>2, <2>1, <2>2, PastQuits, PlacesKept
  <2>3. CASE ~UNCHANGED <<waiting, passed>>
    <3> DEFINE t == req[r].tab
               left == Without(waiting, {t})
    <3>1. /\ Awaits(r, "grant") /\ Valid(r) /\ waiting' = left
          /\ passed' = [u \in ScannerTabs |->
                          IF u \in DOMAIN left THEN [passed[u] EXCEPT ![t] = @ + 1] ELSE NoTurns]
      BY <1>a, <2>3 DEF Grant, Denied, memory
    <3>2. Past(r) /\ flight = r /\ t \in ScannerTabs
      BY <3>1 DEF Past, Valid, Awaits, Beyond, HolderIsAlone
    <3>3. IsQueue(waiting')
      BY <1>1, <3>1, WithoutIs
    <3>4. DOMAIN waiting' = DOMAIN waiting \ {t} BY <1>1, <3>1, WithoutIs
    <3>5. \A u \in DOMAIN waiting' : waiting'[u].ahead = waiting[u].ahead \ {t}
      <4> HIDE DEF t
      <4>1. \A u \in DOMAIN waiting \ {t} :
               Without(waiting, {t})[u].ahead = waiting[u].ahead \ {t}
        BY <1>1, WithoutIs
      <4> QED BY <3>1, <3>4, <4>1
    <3>6. DOMAIN waiting' \subseteq ScannerTabs
          /\ \A u \in DOMAIN waiting' : waiting'[u].ahead \subseteq DOMAIN waiting'
      BY <3>3 DEF IsQueue
    <3> HIDE DEF left, t
    <3>7. \A u \in ScannerTabs : passed[u] \in [ScannerTabs -> Nat] BY DEF Placed
    <3>8. \A f \in [ScannerTabs -> Nat] :
             /\ [f EXCEPT ![t] = @ + 1] \in [ScannerTabs -> Nat]
             /\ [f EXCEPT ![t] = @ + 1][t] = f[t] + 1
             /\ \A x \in ScannerTabs \ {t} : [f EXCEPT ![t] = @ + 1][x] = f[x]
      BY <3>2
    <3>9. \A u \in DOMAIN waiting' :
             /\ passed'[u] \in [ScannerTabs -> Nat] /\ passed'[u][t] = passed[u][t] + 1
             /\ \A x \in ScannerTabs \ {t} : passed'[u][x] = passed[u][x]
      BY <3>1, <3>6, <3>7, <3>8
    <3>b. \A u \in ScannerTabs \ DOMAIN waiting' : passed'[u] = NoTurns BY <3>1
    <3>c. passed' \in [ScannerTabs -> [ScannerTabs -> Nat]]
      BY <3>1, <3>7, <3>8, NoTurnsIs
    <3>d. \A u \in DOMAIN waiting' : passed[u][t] = 0
      BY <3>2, <3>4 DEF Placed, PlacesAreKept, t
    <3>e. NobodyIsOvertaken'
      <4>1. ASSUME NEW u \in ScannerTabs, NEW x \in ScannerTabs PROVE passed'[u][x] <= 1
        <5>1. CASE u \notin DOMAIN waiting' BY <3>b, <5>1, NoTurnsIs
        <5>2. CASE u \in DOMAIN waiting' /\ x = t BY <3>9, <3>d, <5>2
        <5>3. CASE u \in DOMAIN waiting' /\ x # t
          BY <3>9, <5>3 DEF Placed, NobodyIsOvertaken
        <5> QED BY <5>1, <5>2, <5>3
      <4> QED BY <4>1 DEF NobodyIsOvertaken
    <3>f. \A u \in DOMAIN waiting' : \A x \in waiting'[u].ahead : passed'[u][x] = 0
      <4>1. ASSUME NEW u \in DOMAIN waiting', NEW x \in waiting'[u].ahead PROVE passed'[u][x] = 0
        <5>1. x \in waiting[u].ahead /\ x # t /\ u \in DOMAIN waiting BY <3>4, <3>5, <4>1
        <5>2. x \in ScannerTabs BY <3>6, <4>1
        <5> QED BY <3>9, <4>1, <5>1, <5>2 DEF Placed, PlacesAreKept
      <4> QED BY <4>1
    <3>g. \A q \in Requests : ~Past(q)'
      BY <2>1, <3>2 DEF Past, Quits, OthersStay, NoRequest, HolderIsAlone
    <3> QED BY <3>3, <3>b, <3>c, <3>e, <3>f, <3>g DEF Placed, PlacesAreKept
  <2> QED BY <2>2, <2>3
<1>b. ASSUME NEW r \in Requests, TimesOut(r) PROVE Placed'
  <2>1. CASE Marks(r) /\ UNCHANGED <<waiting, passed>>
    <3>1. PastAsBefore BY <2>1, PastKeeps DEF Marks
    <3> QED BY <1>2, <2>1, <3>1, PlacesKept
  <2>2. CASE AllDie /\ waiting' = NoQueue /\ Counted(NoQueue)
    <3>1. PlacesStay BY <1>1, <2>2, ShrinksIs, LeftIs
    <3> QED BY <2>2, <3>1, PastDies, PlacesKept
  <2> QED BY <1>1, <1>b, <2>1, <2>2, TimesOutIs
<1>c. ASSUME NEW r \in Requests, NEW t \in ScannerTabs, Ask(r, t) PROVE Placed'
  <2>1. PlacesStay
    <3>1. CASE UNCHANGED waiting BY <1>2, <1>c, <3>1 DEF Ask
    <3>2. CASE waiting' = Enqueued(waiting, t, gen[t])
      <4>1. gen[t] \in Nat BY <1>1
      <4>2. PICK q : q = waiting OBVIOUS
      <4>3. PICK g \in Nat : g = gen[t] BY <4>1
      <4>4. IsQueue(q) BY <1>1, <4>2
      <4>5. /\ IsQueue(Enqueued(q, t, g)) /\ DOMAIN Enqueued(q, t, g) = DOMAIN q \union {t}
            /\ \A u \in DOMAIN q : Enqueued(q, t, g)[u].ahead = q[u].ahead
        BY <4>4, EnqueuedIs
      <4>6. waiting' = Enqueued(q, t, g) BY <3>2, <4>2, <4>3
      <4>7. /\ IsQueue(waiting') /\ DOMAIN waiting' = DOMAIN waiting \union {t}
            /\ \A u \in DOMAIN waiting : waiting'[u].ahead = waiting[u].ahead
        BY <4>2, <4>5, <4>6
      <4> QED BY <1>c, <4>7, SamePlaces DEF Ask
    <3> QED BY <1>c, <3>1, <3>2 DEF Ask
  <2>2. PastAsBefore
    <3>1. CASE UNCHANGED work BY <3>1, PastStays DEF work
    <3>2. CASE Begins(r, t)
      <4>1. "look1" \notin Beyond BY DEF Beyond
      <4> QED BY <3>2, <4>1 DEF Begins, OthersStay, PastAsBefore, Past
    <3> QED BY <1>1, <1>c, <3>1, <3>2, AskIs
  <2> QED BY <2>1, <2>2, PlacesKept
<1>d. CASE Revoke(req)
  <2>1. PlacesStay BY <1>1, <1>d, ShrinksIs, LeftIs DEF Revoke
  <2>2. AllDie BY <1>1, <1>d, RevokeIs
  <2> QED BY <2>1, <2>2, PastDies, PlacesKept
<1>e. ASSUME NEW q, Shrinks(q), waiting' = q, Counted(q), UNCHANGED req PROVE Placed'
  BY <1>e, LeftIs, PastStays, PlacesKept
<1>f. ASSUME UNCHANGED <<waiting, passed, req>> PROVE Placed'
  BY <1>2, <1>f, PastStays, PlacesKept
<1>g. ASSUME HintWaitingHead, UNCHANGED req PROVE Placed'
  <2>1. Shrinks(waiting) /\ Shrinks(Hinted(Fresh(waiting))) BY <1>1, ShrinksIs
  <2>2. PICK q : Shrinks(q) /\ waiting' = q /\ Counted(q)
    BY <1>g, <2>1, Zenon DEF HintWaitingHead
  <2> QED BY <1>e, <1>g, <2>2
<1>h. CASE LeaseEnds \/ \E t \in ScannerTabs : Release(t)
  BY <1>f, <1>g, <1>h DEF LeaseEnds, Release, work
<1>i. CASE LeaseRunsOut \/ ExpectationEnds \/ ActivityEnds \/ PauseEnds
  BY <1>f, <1>i DEF LeaseRunsOut, ExpectationEnds, ActivityEnds, PauseEnds, memory, work
<1>j. CASE TicketAges
  <2>1. PICK t \in DOMAIN waiting : waiting' = [waiting EXCEPT ![t].stale = TRUE] BY <1>j DEF TicketAges
  <2>2. PlacesStay BY <1>1, <1>j, <2>1, AgedIs, SamePlaces DEF TicketAges
  <2> QED BY <1>j, <2>2, PastStays, PlacesKept DEF TicketAges, work
<1>k. CASE Activated BY <1>d, <1>f, <1>k DEF Activated
<1>l. CASE FocusChanges
  <2>1. PlacesStay BY <1>2, <1>l DEF FocusChanges
  <2>2. PastAsBefore BY <1>1, <1>l, FocusIs DEF PastAsBefore, Past
  <2> QED BY <2>1, <2>2, PlacesKept
<1>m. CASE PauseBegins \/ \E t \in ScannerTabs : UserActive(t)
  BY <1>d, <1>m DEF PauseBegins, UserActive
<1>n. CASE Sync
  <2>1. Shrinks(Without(waiting, DOMAIN waiting \ managed)) BY <1>1, ShrinksIs
  <2> QED BY <1>d, <1>e, <1>n, <2>1 DEF Sync
<1>o. CASE (\E x \in ScannerTabs \union {Manual} : UserSelects(x)) \/ \E t \in ScannerTabs : Supersede(t)
  BY <1>f, <1>o DEF UserSelects, Supersede, memory, work
<1>p. ASSUME NEW t \in ScannerTabs, NEW id \in 1..issued, Granted(t, id) \/ Revoked(t, id) PROVE Placed'
  BY <1>f, <1>p DEF Granted, Revoked, memory, work
<1> QED
  BY <1>4, <1>5, <1>6, <1>7, <1>8, <1>9, <1>a, <1>b, <1>c, <1>h, <1>i, <1>j, <1>k, <1>l, <1>m, <1>n,
     <1>o, <1>p
  DEF WorkspaceNext, RequestStep

-----------------------------------------------------------------------------
(* The invariant                                                           *)

LEMMA TypesFrom ==
    ASSUME Settled', ReqTyped', flight' \in Requests \union {Nobody}, Turns', Placed', HolderIsAlone'
    PROVE  WorkspaceTypes'
<1>1. \A r \in Requests : req'[r].live /\ req'[r].pc \in Beyond => flight' = r
  BY DEF HolderIsAlone, Past
<1> QED BY <1>1 DEF Settled, Waits, DisturbancesBounded, ReqTyped, Turns, Placed, WorkspaceTypes

LEMMA TurnInvariantInit == WorkspaceInit => TurnInvariant
<1> SUFFICES ASSUME WorkspaceInit PROVE TurnInvariant OBVIOUS
<1> USE DEF WorkspaceInit
<1>1. \A r \in Requests : req[r] = NoRequest OBVIOUS
<1>2. /\ NoRequest.pc = "idle" /\ ~NoRequest.live /\ ~NoRequest.commanded
  BY DEF NoRequest
<1>3. WorkspaceTypes
  <2>1. 0 \in 0..MAX_LEASES /\ 0 \in 0..MAX_DISTURBANCES BY WorkspaceConstants
  <2>2. req \in [Requests -> Request] BY RequestIs
  <2>3. IsQueue(waiting) BY NoQueueIs
  <2>4. passed \in [ScannerTabs -> [ScannerTabs -> Nat]] BY NoTurnsIs
  <2>5. lease.id <= issued BY NoLeaseIs
  <2>6. activations \in Seq(ScannerTabs \union {Manual}) OBVIOUS
  <2>7. selected \in ScannerTabs \union {Manual} /\ lease \in TabLease \union {NoLease} OBVIOUS
  <2>8. gen \in [ScannerTabs -> Nat \ {0}] OBVIOUS
  <2>9. /\ notices \subseteq ScannerTabs \X (1..issued) /\ replies \subseteq ScannerTabs \X (1..issued)
        /\ turn \in [ScannerTabs -> 0..issued] /\ known \in [ScannerTabs -> SUBSET (1..issued)]
    OBVIOUS
  <2>a. /\ front \in BOOLEAN /\ paused \in BOOLEAN /\ userActive \in BOOLEAN
        /\ managed \subseteq ScannerTabs /\ registered \subseteq ScannerTabs
        /\ expected \in ScannerTabs \union {Nobody} /\ flight \in Requests \union {Nobody}
        /\ issued \in 0..MAX_LEASES /\ disturbances \in 0..MAX_DISTURBANCES
    BY <2>1
  <2>b. \A r \in Requests : ~req[r].live BY <1>1, <1>2
  <2> HIDE DEF WorkspaceInit
  <2> QED BY <2>2, <2>3, <2>4, <2>5, <2>6, <2>7, <2>8, <2>9, <2>a, <2>b DEF WorkspaceTypes
<1>4. HolderIsAlone BY <1>1, <1>2 DEF HolderIsAlone, Past
<1>5. ExpectedComes BY <1>1, <1>2 DEF ExpectedComes
<1>6. SelectionIsNoticed BY <1>1, <1>2 DEF SelectionIsNoticed, Valid, Running, NoLease
<1>7. TurnIsBacked /\ GrantsAreBacked BY DEF TurnIsBacked, GrantsAreBacked
<1>8. PlacesAreKept BY <1>1, <1>2, NoQueueIs DEF PlacesAreKept, Past
<1>9. NobodyIsOvertaken BY NoTurnsIs DEF NobodyIsOvertaken
<1> QED BY <1>3, <1>4, <1>5, <1>6, <1>7, <1>8, <1>9 DEF TurnInvariant

LEMMA TurnInvariantStep == TurnInvariant /\ [WorkspaceNext]_workspaceVars => TurnInvariant'
<1> SUFFICES ASSUME TurnInvariant, [WorkspaceNext]_workspaceVars PROVE TurnInvariant' OBVIOUS
<1>1. WorkspaceTypes /\ HolderIsAlone /\ ExpectedComes /\ SelectionIsNoticed BY DEF TurnInvariant
<1>2. TurnsAreBacked BY DEF TurnInvariant, TurnsAreBacked, Turns, WorkspaceTypes
<1>3. Placed BY DEF TurnInvariant, Placed, WorkspaceTypes
<1>4. HolderIsAlone' BY <1>1, HolderStep
<1>5. ExpectedComes' /\ SelectionIsNoticed' BY <1>1, ExpectedStep, SelectionStep
<1>6. TurnsAreBacked' BY <1>1, <1>2, TurnsStep
<1>7. Placed' BY <1>1, <1>3, PlacesStep
<1>8. WorkspaceTypes'
  BY <1>1, <1>4, <1>6, <1>7, RequestsStep, SettledStep, TypesFrom DEF TurnsAreBacked
<1> QED BY <1>4, <1>5, <1>6, <1>7, <1>8 DEF TurnInvariant, TurnsAreBacked, Placed

(* In every state that the workspace reaches, whoever holds the lock is    *)
(* alone and nobody has a turn meanwhile, what is expected comes, a change *)
(* of the selection that somebody relies on has an activation to come,     *)
(* turns and grants are backed, and places in the queue are kept.          *)
THEOREM TurnInvariantHolds == WorkspaceSpec => []TurnInvariant
<1>1. WorkspaceInit => TurnInvariant BY TurnInvariantInit
<1>2. TurnInvariant /\ [WorkspaceNext]_workspaceVars => TurnInvariant' BY TurnInvariantStep
<1> QED BY <1>1, <1>2, PTL DEF WorkspaceSpec

LEMMA NoticedIs == ASSUME WorkspaceTypes, Noticed PROVE activations # <<>>
BY NothingComes DEF WorkspaceTypes, Noticed

LEMMA TurnsFollow == TurnInvariant => WorkspaceInvariant
<1> SUFFICES ASSUME TurnInvariant PROVE WorkspaceInvariant OBVIOUS
<1>1. WorkspaceTypes /\ HolderIsAlone /\ TurnIsBacked BY DEF TurnInvariant
<1>2. OneCommand
  <2> DEFINE S == {r \in Requests : req[r].commanded}
  <2>1. S \subseteq {flight} BY <1>1 DEF HolderIsAlone
  <2>2. IsFiniteSet({flight}) /\ Cardinality({flight}) = 1 BY FS_Singleton
  <2>3. IsFiniteSet(S) /\ Cardinality(S) <= Cardinality({flight}) BY <2>1, <2>2, FS_Subset
  <2> HIDE DEF S
  <2>4. Cardinality(S) \in Nat /\ Cardinality(S) <= 1 BY <2>2, <2>3, FS_CardinalityType
  <2> QED BY <2>4 DEF OneCommand, S
<1>3. TurnsEndInTime
  <2>1. Running => selected = lease.tab \/ activations # <<>>
    BY <1>1, NoticedIs DEF TurnInvariant, SelectionIsNoticed
  <2>2. paused \/ userActive => lease = NoLease BY <1>1 DEF HolderIsAlone
  <2> QED BY <2>1, <2>2 DEF TurnsEndInTime
<1> QED BY <1>1, <1>2, <1>3 DEF WorkspaceInvariant

(* Chrome has one command of the worker's at a time; a running turn is the *)
(* selected tab's unless an activation is to come, and input of the user's *)
(* and verification leave none; and a document that believes in a turn has *)
(* it, or is about to be told of its end (requestActivation, revoke).      *)
THEOREM TurnsAreRight == WorkspaceSpec => []WorkspaceInvariant
BY TurnInvariantHolds, TurnsFollow, PTL

(* A tab that queues is passed over by each of the others at most once,    *)
(* however tickets, tabs and requests come and go (waitingHead).           *)
THEOREM NobodyOvertakes == WorkspaceSpec => []NobodyIsOvertaken
<1>1. TurnInvariant => NobodyIsOvertaken BY DEF TurnInvariant
<1> QED BY <1>1, TurnInvariantHolds, PTL

(* Only one step gives Chrome a command.                                   *)
NoNewCommand == \A q \in Requests : req'[q].commanded => req[q].commanded
LEMMA NoNewCommandIs ==
    ASSUME WorkspaceTypes, [WorkspaceNext]_workspaceVars,
           \A r \in Requests : ~(Choose(r) /\ Valid(r) /\ req[r].seen # "error")
    PROVE  NoNewCommand
<1>1. /\ ReqTyped /\ gen \in [ScannerTabs -> Nat \ {0}] /\ selected \in ScannerTabs \union {Manual}
  BY DEF WorkspaceTypes, ReqTyped
<1>2. ASSUME UNCHANGED req PROVE NoNewCommand BY <1>2 DEF NoNewCommand
<1>3. ASSUME AllDie PROVE NoNewCommand BY <1>3 DEF AllDie, Died, NoNewCommand
<1>4. ASSUME NEW r \in Requests, OthersStay(r), req'[r].commanded => req[r].commanded
      PROVE  NoNewCommand
  BY <1>4 DEF OthersStay, NoNewCommand
<1>5. ASSUME NEW r \in Requests, Quits(r) PROVE NoNewCommand
  BY <1>4, <1>5 DEF Quits, NoRequest
<1>6. ASSUME NEW r \in Requests, RequestStep(r) PROVE NoNewCommand
  <2>1. CASE Guard(r) BY <1>1, <1>4, <1>5, <2>1, GuardIs DEF Advances, Keeps
  <2>2. CASE Look(r) BY <1>1, <1>4, <1>5, <2>2, LookIs DEF Advances, Keeps
  <2>3. CASE TakeTurn(r) BY <1>1, <1>4, <1>5, <2>3, TakeTurnIs DEF Advances, Keeps
  <2>4. CASE Choose(r)
    <3>1. Denied(r) BY <2>4 DEF Choose, MayDispatch
    <3> QED BY <1>1, <1>5, <3>1, DeniedIs
  <2>5. CASE Updated(r) BY <1>1, <1>4, <1>5, <2>5, UpdatedIs DEF CommandEnds, Keeps
  <2>6. CASE Grant(r) BY <1>1, <1>5, <2>6, GrantIs
  <2> QED BY <1>6, <2>1, <2>2, <2>3, <2>4, <2>5, <2>6 DEF RequestStep
<1>7. ASSUME NEW r \in Requests, TimesOut(r) PROVE NoNewCommand
  BY <1>1, <1>3, <1>4, <1>7, TimesOutIs DEF Marks
<1>8. ASSUME NEW r \in Requests, NEW t \in ScannerTabs, Ask(r, t) PROVE NoNewCommand
  BY <1>1, <1>2, <1>4, <1>8, AskIs DEF Begins, work
<1>9. CASE Revoke(req) BY <1>1, <1>3, <1>9, RevokeIs
<1>a. CASE Activated \/ Sync \/ PauseBegins \/ \E t \in ScannerTabs : UserActive(t)
  BY <1>2, <1>9, <1>a DEF Activated, Sync, PauseBegins, UserActive
<1>b. CASE FocusChanges BY <1>1, <1>b, FocusIs DEF NoNewCommand
<1>c. CASE LeaseRunsOut \/ LeaseEnds \/ TicketAges \/ ExpectationEnds \/ ActivityEnds \/ PauseEnds
  BY <1>2, <1>c DEF LeaseRunsOut, LeaseEnds, TicketAges, ExpectationEnds, ActivityEnds, PauseEnds, work
<1>d. CASE \/ \E x \in ScannerTabs \union {Manual} : UserSelects(x)
           \/ \E t \in ScannerTabs : Release(t) \/ Supersede(t)
           \/ \E t \in ScannerTabs : \E id \in 1..issued : Granted(t, id) \/ Revoked(t, id)
  BY <1>2, <1>d DEF UserSelects, Release, Supersede, Granted, Revoked, work
<1>e. CASE UNCHANGED workspaceVars BY <1>2, <1>e DEF workspaceVars, work
<1> QED BY <1>6, <1>7, <1>8, <1>a, <1>b, <1>c, <1>d, <1>e DEF WorkspaceNext

LEMMA UserTabStaysStep ==
    TurnInvariant /\ [WorkspaceNext]_workspaceVars =>
        [Dispatches => ~front \/ selected # Manual \/ activations # <<>>]_workspaceVars
<1> SUFFICES ASSUME TurnInvariant, [WorkspaceNext]_workspaceVars, Dispatches
             PROVE  ~front \/ selected # Manual \/ activations # <<>>
  OBVIOUS
<1>1. WorkspaceTypes /\ SelectionIsNoticed BY DEF TurnInvariant
<1>2. ~NoNewCommand BY DEF Dispatches, NoNewCommand
<1>3. PICK r \in Requests : Choose(r) /\ Valid(r) /\ req[r].seen # "error"
  BY <1>1, <1>2, NoNewCommandIs
<1>4. ~front \/ selected # Manual \/ Noticed BY <1>1, <1>3 DEF SelectionIsNoticed, Choose
<1> QED BY <1>1, <1>4, NoticedIs

(* The worker selects a tab only where the window has not the focus, or    *)
(* the user's own tab is not the one selected, as far as the activations   *)
(* have arrived (contextFor, and the comparison before tabs.update).       *)
THEOREM UserTabStays == WorkspaceSpec => UserTabIsLeftAlone
<1>1. WorkspaceSpec => []TurnInvariant BY TurnInvariantHolds
<1>2. TurnInvariant /\ [WorkspaceNext]_workspaceVars =>
          [Dispatches => ~front \/ selected # Manual \/ activations # <<>>]_workspaceVars
  BY UserTabStaysStep
<1> QED BY <1>1, <1>2, PTL DEF WorkspaceSpec, UserTabIsLeftAlone
=============================================================================
