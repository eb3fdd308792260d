--------------------------- MODULE AuxiliaryScans ---------------------------
(***************************************************************************)
(* The auxiliary scans of the browser extension (extension/                *)
(* auxiliary-scans.js): lanes that walk a list of targets, each in a tab   *)
(* of its own, under one common spacing of page loads.  A lane's           *)
(* generation names the document that may answer for its current target;   *)
(* the pages a document delivered are receipts in storage (sweep:<tab>),   *)
(* which the lane keeps across retries, pauses and lost tabs.              *)
(*                                                                         *)
(* Every operation is a task under the manager's lock ("mutate"); tabs,    *)
(* documents, settings and the verification pause change between any two   *)
(* of its storage calls, and the service worker may be stopped there.      *)
(* Deadlines are kept as the time that is left; a page load that is        *)
(* neither answered nor refused is given up when nothing can answer it.    *)
(***************************************************************************)
EXTENDS Integers, Sequences, FiniteSets, Functions

CONSTANTS
    Lanes,          \* the lanes, in the order LANES
    Tabs,           \* tab ids; Chrome gives each one out once, here an id nothing refers
                    \* to any more stands for a new one
    Ticks,          \* runs of tick() that may overlap
    Initial,        \* Initial[l]: the key sequences a lane may be configured with
    Found,          \* Found[l]: departments a discovery may show, in the page's order
    Urls,           \* the pages' URLs without their page number
    Home,           \* the URL a discovery shows and selections start from
    Dest,           \* Dest[key]: the URL a target is about
    Pages,          \* Pages[url]: its result pages
    SPACING, RESTART, LATER, RETRIES,   \* times; RETRIES is a sequence, one for each retry
    MAX_TARGETS,    \* targets a lane may hold
    PERIODIC,       \* refreshMinutes > 0: rounds repeat without unresolved targets
    MAX_ROUNDS,     \* bound: periodic rounds of a lane
    MAX_FAULTS      \* bound: failures, stops, closed tabs, pauses and changes

LaneSet == Range(Lanes)
Keys    == DOMAIN Dest
NoTab   == ""
None    == [gen |-> 0, key |-> "", visited |-> {}]      \* no checkpoint
Discovery == {k \in Keys : Dest[k] = Home}              \* targets marked discoveryOnly
Selections == UNION {Range(Found[l]) : l \in LaneSet}                        \* targets reached by a facet control

ASSUME AuxiliaryConstants ==
    /\ Lanes \in Seq(LaneSet) /\ \A i, j \in DOMAIN Lanes : Lanes[i] = Lanes[j] => i = j
    /\ "" \notin LaneSet /\ Pages[Home] = {}       \* a discovery reads no items
    /\ NoTab \notin Tabs /\ Home \in Urls /\ "" \notin Keys
    /\ Dest \in [Keys -> Urls] /\ DOMAIN Pages = Urls /\ \A u \in Urls : Pages[u] \subseteq Nat
    /\ \A l \in LaneSet : Found[l] \in Seq(Keys) /\ Initial[l] \subseteq Seq(Keys)
    /\ {SPACING, RESTART, LATER, MAX_TARGETS} \subseteq Nat \ {0} /\ RETRIES \in Seq(Nat \ {0})
    /\ PERIODIC \in BOOLEAN /\ MAX_ROUNDS \in Nat /\ MAX_FAULTS \in Nat

VARIABLES
    lanes, lastLane, pace,      \* storage.local: the lanes, the last start, its spacing left
    sweep,                      \* storage.local: each tab's receipts
    own,                        \* storage.session: which tab a lane owns
    enabled, wanted, paused,    \* the settings and the shared verification pause
    doc, closed,                \* the tabs; removals not handled yet
    job, draft, todo,           \* the task under the lock, its lane in memory, the ticks
    faults,
    delivered,                  \* ghost: pages of each URL that reached the relay
    receipts,                   \* ghost: pages of a lane's target whose checkpoint was acknowledged
    quiet, passed               \* ghost: spacing left since a load; starts since a lane's turn at a free slot

storage == <<lanes, lastLane, pace, sweep, own>>
world   == <<enabled, wanted, paused>>
browser == <<doc, closed>>
worker  == <<job, draft, todo>>
ghosts  == <<delivered, receipts, quiet, passed>>
vars    == <<storage, world, browser, worker, faults, ghosts>>

Finished == {"complete", "partial"}
Statuses == Finished \union {"none", "ready", "waiting", "scanning", "paused", "disabled"}
Checkpoint == [gen : Nat, key : Keys \union {""}, visited : SUBSET UNION Range(Pages)]
Target == [key : Keys, url : Urls, sel : BOOLEAN, duplicate : BOOLEAN, attempts : 0..Len(RETRIES) + 1,
           cov : {"pending", "unresolved", "complete", "duplicate"}, tried : BOOLEAN, chk : Checkpoint]
Lane == [status : Statuses, tab : Tabs \union {NoTab}, gen : Nat, list : Seq(Keys), targets : Seq(Target),
         cursor : Nat \ {0}, wait : Nat, chk : Checkpoint, round : Nat, truncated : BOOLEAN]
Document == [pc : {"none", "blank", "loaded", "idle", "ready", "sent", "acked", "written", "found", "chosen"},
             gen : Nat, url : Urls, key : Keys \union {""}, page : Nat]

TypeInvariant ==
    /\ lanes \in [LaneSet -> Lane] /\ draft \in Lane
    /\ lastLane \in LaneSet \union {""} /\ pace \in 0..SPACING /\ quiet \in 0..SPACING
    /\ sweep \in [Tabs -> Checkpoint] /\ own \in [LaneSet -> Tabs \union {NoTab}]
    /\ enabled \in [LaneSet -> BOOLEAN] /\ paused \in BOOLEAN
    /\ \A l \in LaneSet : wanted[l] \in Initial[l]
    /\ doc \in [Tabs -> Document] /\ closed \subseteq Tabs
    /\ job.pc \in {"idle", "reserve", "created", "owned", "saveTab", "due", "start", "stamped",
                   "checked", "navigate", "save", "saveOn", "saveBound", "unowned", "sweeping", "wiping"}
    /\ job.lane \in LaneSet \union {""} /\ todo \in [Ticks -> Seq(LaneSet)]
    /\ faults \in 0..MAX_FAULTS
    /\ \A l, m \in LaneSet : own[l] = own[m] /\ own[l] # NoTab => l = m
    /\ \A l \in LaneSet : lanes[l].status = "scanning" =>
          /\ lanes[l].cursor <= Len(lanes[l].targets) /\ lanes[l].tab # NoTab

Absent == [status |-> "none", tab |-> NoTab, gen |-> 0, list |-> <<>>, targets |-> <<>>,
           cursor |-> 1, wait |-> 0, chk |-> None, round |-> 0, truncated |-> FALSE]
NoDocument == [pc |-> "none", gen |-> 0, url |-> Home, key |-> "", page |-> 0]
Idle == [pc |-> "idle", lane |-> "", old |-> NoTab]

Init ==
    /\ lanes = [l \in LaneSet |-> Absent] /\ lastLane = "" /\ pace = 0
    /\ sweep = [t \in Tabs |-> None] /\ own = [l \in LaneSet |-> NoTab]
    /\ enabled = [l \in LaneSet |-> TRUE] /\ paused = FALSE
    /\ wanted \in [LaneSet -> UNION Range(Initial)] /\ \A l \in LaneSet : wanted[l] \in Initial[l]
    /\ doc = [t \in Tabs |-> NoDocument] /\ closed = {}
    /\ job = Idle /\ draft = Absent /\ todo = [k \in Ticks |-> <<>>] /\ faults = 0
    /\ delivered = [u \in Urls |-> {}] /\ receipts = [l \in LaneSet |-> [k \in Keys |-> {}]]
    /\ quiet = 0 /\ passed = [l \in LaneSet |-> 0]

Fault == faults < MAX_FAULTS /\ faults' = faults + 1

-----------------------------------------------------------------------------
(* A lane's targets                                                        *)

HasTarget(L)  == L.cursor <= Len(L.targets)
Current(L)    == L.targets[L.cursor]
Belongs(c, L) == c # None /\ HasTarget(L) /\ c.key = Current(L).key

NewTarget(k, url, sel) == [key |-> k, url |-> url, sel |-> sel, duplicate |-> FALSE, attempts |-> 0,
                           cov |-> "pending", tried |-> FALSE, chk |-> None]
InitialTargets(list) == [i \in DOMAIN list |-> NewTarget(list[i], Dest[list[i]], FALSE)]

(* The elements of s at the positions I, in their order.                   *)
Only(s, I) ==
    LET at == CHOOSE at \in [1..Cardinality(I) -> I] : \A i, j \in DOMAIN at : i < j => at[i] < at[j]
    IN [i \in DOMAIN at |-> s[at[i]]]

(* A new round: unresolved targets of the same configuration come first,   *)
(* with their checkpoints; then what the configuration names.              *)
FreshLane(l, L) ==
    LET kept    == IF L.list = wanted[l]
                   THEN {i \in DOMAIN L.targets : L.targets[i].cov = "unresolved" /\ ~L.targets[i].duplicate}
                   ELSE {}
        again   == [i \in DOMAIN L.targets |-> [L.targets[i] EXCEPT !.attempts = 0, !.tried = FALSE]]
        initial == InitialTargets(wanted[l])
        others  == {i \in DOMAIN initial : \A j \in kept : L.targets[j].key # initial[i].key}
    IN [status |-> "ready", tab |-> L.tab, gen |-> L.gen + 1, list |-> wanted[l],
        targets |-> Only(again, kept) \o Only(initial, others),
        cursor |-> 1, wait |-> 0, chk |-> None, round |-> L.round + 1, truncated |-> FALSE]

(* A longer list of keywords is appended to the running round.             *)
Extends(l, L) == Len(wanted[l]) > Len(L.list) /\ SubSeq(wanted[l], 1, Len(L.list)) = L.list
AppendTargets(l, L) ==
    LET known  == {L.targets[i].key : i \in DOMAIN L.targets}
        named  == InitialTargets(SubSeq(wanted[l], Len(L.list) + 1, Len(wanted[l])))
        more   == Only(named, {i \in DOMAIN named : named[i].key \notin known})
        longer == [L EXCEPT !.targets = @ \o more, !.list = wanted[l]]
    IN IF L.status \in Finished /\ HasTarget(longer)
       THEN [longer EXCEPT !.status = "waiting", !.wait = SPACING] ELSE longer

RetainStored(L) ==      \* mutant: the document's own receipts are not looked at
    IF Belongs(L.chk, L) THEN [L EXCEPT !.targets[L.cursor].chk = L.chk] ELSE L

(* The lane's working copy and its target's take the receipts of the       *)
(* lane's own document: this generation's, for this target.                *)
Retain(L) ==
    LET base == IF L.chk = None /\ HasTarget(L) /\ ~Current(L).sel /\ Belongs(Current(L).chk, L)
                THEN Current(L).chk ELSE L.chk
        live == L.tab # NoTab /\ sweep[L.tab].gen = L.gen /\ Belongs(sweep[L.tab], L)
        kept == IF live THEN sweep[L.tab] ELSE base
    IN IF Belongs(kept, L)
       THEN [L EXCEPT !.chk = kept, !.targets[L.cursor].chk = kept]
       ELSE [L EXCEPT !.chk = kept]

LastUnresolved(L) == L.targets # <<>> /\ L.targets[Len(L.targets)].cov = "unresolved"  \* mutant
Unresolved(L) == \E i \in DOMAIN L.targets : L.targets[i].cov = "unresolved"
RestartAt(L)  == IF PERIODIC \/ Unresolved(L) THEN RESTART ELSE 0
Restarts(L)   == Unresolved(L) \/ (PERIODIC /\ L.round < MAX_ROUNDS)

(* The target is done with, one way or the other, and its document loses   *)
(* the lane; the last one ends the round.                                  *)
Settled(g, outcome) == [g EXCEPT !.cov = outcome, !.duplicate = outcome = "duplicate",
                                 !.chk = IF outcome = "unresolved" THEN @ ELSE None]
Advance(L, outcome) ==
    LET R == IF outcome = "unresolved" THEN Retain(L) ELSE L
        D == [R EXCEPT !.targets[L.cursor] = Settled(@, outcome),
                       !.cursor = @ + 1, !.gen = @ + 1, !.chk = None]
    IN IF HasTarget(D) THEN [D EXCEPT !.status = "waiting", !.wait = SPACING]
       ELSE [D EXCEPT !.status = IF L.truncated \/ Unresolved(D) THEN "partial" ELSE "complete", !.wait = RestartAt(D)]

(* A failed attempt; the last one allowed advances without coverage.       *)
Failed(g) == [g EXCEPT !.attempts = @ + 1, !.cov = "unresolved"]
Spent(L) == Current(L).attempts >= Len(RETRIES)
Fail(L) ==
    LET A == [L EXCEPT !.targets[L.cursor] = Failed(@)]
        R == IF Current(L).sel THEN [A EXCEPT !.chk = None] ELSE Retain(A)
    IN IF Spent(L) THEN Advance(A, "unresolved")
       ELSE [R EXCEPT !.gen = @ + 1, !.status = "waiting", !.wait = RETRIES[Current(A).attempts]]

(* The pause, the tick of a disabled lane, an error: the lane keeps its    *)
(* receipts and its document loses it.                                     *)
Suspend(L, status, wait) == [Retain(L) EXCEPT !.gen = @ + 1, !.status = status, !.wait = wait]

-----------------------------------------------------------------------------
(* Authority and storage                                                   *)

(* May tab t's document act as generation g of lane l's current target?    *)
Permitted(L, url, selecting) ==
    url = Current(L).url \/ (selecting /\ Current(L).sel /\ url = Dest[Current(L).key])
Authorized(l, t, selecting) ==
    LET L == lanes[l]
    IN /\ own[l] = t /\ L.tab = t /\ enabled[l] /\ ~paused
       /\ HasTarget(L) /\ L.status = "scanning"
       /\ Permitted(L, doc[t].url, selecting) /\ (selecting \/ ~Current(L).sel)
Holds(l, t, selecting) == Authorized(l, t, selecting) /\ doc[t].gen = lanes[l].gen

(* sendRole: a live document learns that it has lost the lane.             *)
Told(L) == IF L.tab \in Tabs /\ doc[L.tab].pc \notin {"none", "blank"}
           THEN [doc EXCEPT ![L.tab].pc = "idle", ![L.tab].gen = 0, ![L.tab].key = ""] ELSE doc
Stood(t) == doc' = [doc EXCEPT ![t].pc = "idle", ![t].gen = 0, ![t].key = ""]

Free == job.pc = "idle"
At(pc) == job.pc = pc
Hold(pc, l, L)  == job' = [pc |-> pc, lane |-> l, old |-> job.old] /\ draft' = L
Go(pc)  == job' = [job EXCEPT !.pc = pc]
Release == job' = Idle /\ draft' = Absent
Save(l, L) == lanes' = [lanes EXCEPT ![l] = L]
Swept(t) == sweep' = IF t \in Tabs THEN [sweep EXCEPT ![t] = None] ELSE sweep
Forget(l, keys) == receipts' = [receipts EXCEPT ![l] = [k \in Keys |-> IF k \in keys THEN {} ELSE @[k]]]
Unpaced == UNCHANGED <<lastLane, pace, quiet, passed>>
Unseen  == UNCHANGED <<delivered, receipts>>

(* The save that ends a task, and the role sent after it.                  *)
Commit ==
    /\ job.pc \in {"save", "saveOn", "saveBound"}
    /\ Save(job.lane, draft)
    /\ doc' = IF At("saveBound") THEN doc ELSE Told(draft)
    /\ IF At("saveOn") THEN Go("reserve") /\ UNCHANGED draft ELSE Release
    /\ UNCHANGED <<sweep, own, world, closed, todo, faults>> /\ Unpaced /\ Unseen

-----------------------------------------------------------------------------
(* A tick                                                                  *)

(* The lane after the one that started last comes first.                   *)
LanesInOrder == Lanes      \* mutant: the same lane always comes first
Place == IF lastLane = "" THEN 0 ELSE CHOOSE i \in DOMAIN Lanes : Lanes[i] = lastLane
Order == SubSeq(Lanes, Place + 1, Len(Lanes)) \o SubSeq(Lanes, 1, Place)
StartTick(k) ==
    /\ todo[k] = <<>> /\ todo' = [todo EXCEPT ![k] = Order]
    /\ UNCHANGED <<storage, world, browser, job, draft, faults, ghosts>>

(* The first load of a lane waits for those before it.                     *)
InitialDelay(l) == SPACING * Cardinality({i \in DOMAIN Lanes :
                      enabled[Lanes[i]] /\ \E j \in DOMAIN Lanes : Lanes[j] = l /\ i < j})

(* A lane's turn: it is disabled, or brought to its configuration.         *)
Begin(k) ==
    /\ Free /\ todo[k] # <<>> /\ todo' = [todo EXCEPT ![k] = Tail(@)]
    /\ LET l == Head(todo[k])
           L == lanes[l]
           F == FreshLane(l, L)
       IN \/ /\ ~enabled[l]
             /\ IF L.status \in {"none", "disabled"} THEN UNCHANGED <<lanes, doc>>
                ELSE Save(l, Suspend(L, "disabled", L.wait)) /\ doc' = Told(L)
             /\ Release /\ UNCHANGED <<sweep, receipts>>
          \/ /\ enabled[l] /\ L.status # "none" /\ L.list # wanted[l] /\ ~Extends(l, L)
             /\ Swept(L.tab) /\ Forget(l, Keys)
             /\ Hold("saveOn", l, F) /\ UNCHANGED <<lanes, doc>>
          \/ /\ enabled[l] /\ (L.status = "none" \/ L.list = wanted[l] \/ Extends(l, L))
             /\ LET A == IF L.list # wanted[l] THEN AppendTargets(l, L) ELSE L
                    N == IF L.status = "none"
                         THEN IF InitialDelay(l) = 0 THEN F
                              ELSE [F EXCEPT !.status = "waiting", !.wait = InitialDelay(l)]
                         ELSE IF A.status = "disabled" /\ ~HasTarget(A) THEN FreshLane(l, A) ELSE A
                IN Save(l, N) /\ Hold("reserve", l, N)
             /\ UNCHANGED <<sweep, doc, receipts>>
    /\ passed' = IF pace = 0 THEN [passed EXCEPT ![Head(todo[k])] = 0] ELSE passed
    /\ UNCHANGED <<own, world, closed, faults, delivered, lastLane, pace, quiet>>

TabIsThere(l, L) == L.tab # NoTab /\ own[l] = L.tab /\ doc[L.tab].pc # "none"

(* Every lane has a tab of its own before anything loads, unless paused.   *)
Reserve ==
    /\ At("reserve")
    /\ LET l == job.lane
       IN \/ /\ paused
             /\ IF draft.status \in Finished \union {"paused"} THEN UNCHANGED <<lanes, doc>>
                ELSE Save(l, Suspend(draft, "paused", draft.wait)) /\ doc' = Told(draft)
             /\ Release /\ UNCHANGED sweep
          \/ /\ ~paused /\ ~enabled[l] /\ Release /\ UNCHANGED <<lanes, sweep, doc>>
          \/ /\ ~paused /\ enabled[l] /\ TabIsThere(l, draft)
             /\ Go("due") /\ UNCHANGED <<lanes, sweep, doc, draft>>
          \/ /\ ~paused /\ enabled[l] /\ ~TabIsThere(l, draft)
             /\ \E t \in Tabs :
                   /\ doc[t].pc = "none" /\ t \notin closed
                   /\ \A m \in LaneSet : own[m] # t /\ lanes[m].tab # t
                   /\ sweep' = [sweep EXCEPT ![t] = None]
                   /\ doc' = [doc EXCEPT ![t] = [NoDocument EXCEPT !.pc = "blank"]]
                   /\ job' = [pc |-> "created", lane |-> l, old |-> draft.tab]
                   /\ draft' = [Retain(draft) EXCEPT !.tab = t, !.gen = @ + 1,
                                    !.status = IF @ = "scanning" THEN "waiting" ELSE @]
             /\ UNCHANGED lanes
    /\ UNCHANGED <<own, world, closed, todo, faults>> /\ Unpaced /\ Unseen

(* Its ownership is stored, the old tab's receipts go, the lane is saved.  *)
SaveOwner ==
    /\ At("created") /\ own' = [own EXCEPT ![job.lane] = draft.tab] /\ Go("owned")
    /\ UNCHANGED <<lanes, sweep, world, browser, draft, todo, faults>> /\ Unpaced /\ Unseen
DropOld ==
    /\ At("owned") /\ Go("saveTab")
    /\ IF job.old # draft.tab THEN Swept(job.old) ELSE UNCHANGED sweep
    /\ UNCHANGED <<lanes, own, world, browser, draft, todo, faults>> /\ Unpaced /\ Unseen
SaveTab ==
    /\ At("saveTab") /\ Save(job.lane, draft) /\ Go("due")
    /\ UNCHANGED <<sweep, own, world, browser, draft, todo, faults>> /\ Unpaced /\ Unseen

(* A scanning lane is left alone while its document can still answer; a    *)
(* page that shows nothing of the target, or something else, cannot.       *)
Answers(L) == LET d == doc[L.tab]
              IN d.pc # "blank" /\ Permitted(L, d.url, TRUE)
Due ==
    /\ At("due")
    /\ LET l == job.lane
           L == draft
           stay == Release /\ UNCHANGED lanes
           failed == Fail(L)
       IN \/ /\ L.status \in Finished
             /\ IF Restarts(L) /\ L.wait = 0
                THEN Save(l, FreshLane(l, L)) /\ Hold("due", l, FreshLane(l, L)) ELSE stay
             /\ UNCHANGED <<sweep, doc>>
          \/ /\ L.status \notin Finished /\ ~HasTarget(L)
             /\ Save(l, [L EXCEPT !.status = "partial", !.wait = RestartAt(L)]) /\ Release
             /\ UNCHANGED <<sweep, doc>>
          \/ /\ L.status \notin Finished /\ HasTarget(L) /\ L.wait > 0 /\ stay /\ UNCHANGED <<sweep, doc>>
          \/ /\ L.status \notin Finished /\ HasTarget(L) /\ L.wait = 0
             /\ L.status = "scanning" /\ TabIsThere(l, L) /\ Answers(L)
             /\ stay /\ UNCHANGED <<sweep, doc>>
          \/ /\ L.status \notin Finished /\ HasTarget(L) /\ L.wait = 0
             /\ L.status = "scanning" /\ TabIsThere(l, L) /\ ~Answers(L)
             /\ IF Spent(L) \/ Current(L).sel
                THEN Swept(L.tab) /\ Hold("save", l, failed) /\ UNCHANGED <<lanes, doc>>
                ELSE Save(l, failed) /\ doc' = Told(L) /\ Release /\ UNCHANGED sweep
          \/ /\ L.status \notin Finished /\ HasTarget(L) /\ L.wait = 0
             /\ ~(L.status = "scanning" /\ TabIsThere(l, L))
             /\ Hold("start", l, IF L.status \in {"paused", "disabled"} THEN [L EXCEPT !.gen = @ + 1] ELSE L)
             /\ UNCHANGED <<lanes, sweep, doc>>
    /\ UNCHANGED <<own, world, closed, todo, faults>> /\ Unpaced /\ Unseen

(* startTarget: the spacing of all lanes, then the receipts of earlier     *)
(* attempts are put where the new document looks for them.                 *)
Stamped(L) == LET chk == IF L.chk = None THEN Current(L).chk ELSE L.chk
              IN [L EXCEPT !.status = "scanning", !.wait = 0, !.targets[L.cursor].tried = TRUE,
                           !.chk = IF chk = None THEN None ELSE [chk EXCEPT !.gen = L.gen]]
AlwaysNow == 0      \* mutant: each lane keeps to its own clock
Earliest == pace
StartTarget ==
    /\ At("start")
    /\ LET l == job.lane
           L == draft
           S == Stamped(L)
       IN \/ (paused \/ (~enabled[l] /\ Earliest = 0)) /\ Release /\ UNCHANGED <<lanes, sweep>>
          \/ /\ ~paused /\ Earliest > 0
             /\ Save(l, [L EXCEPT !.status = "waiting", !.wait = Earliest]) /\ Release /\ UNCHANGED sweep
          \/ /\ ~paused /\ Earliest = 0 /\ enabled[l] /\ ~TabIsThere(l, L)
             /\ Go("reserve") /\ UNCHANGED <<lanes, sweep, draft>>
          \/ /\ ~paused /\ Earliest = 0 /\ enabled[l] /\ TabIsThere(l, L)
             /\ sweep' = IF S.chk = None THEN sweep ELSE [sweep EXCEPT ![L.tab] = S.chk]
             /\ Hold("stamped", l, S) /\ UNCHANGED lanes
    /\ UNCHANGED <<own, world, browser, todo, faults>> /\ Unpaced /\ Unseen
SaveStart ==
    /\ At("stamped") /\ Save(job.lane, draft) /\ Go("checked")
    /\ UNCHANGED <<sweep, own, world, browser, draft, todo, faults>> /\ Unpaced /\ Unseen

(* The last look at the pause and the settings, then the start is on       *)
(* record before the page loads.                                           *)
CheckStart ==
    /\ At("checked")
    /\ LET l == job.lane
       IN \/ /\ paused \/ ~enabled[l]
             /\ Save(l, [draft EXCEPT !.status = IF paused THEN "paused" ELSE "disabled", !.gen = @ + 1])
             /\ doc' = Told(draft) /\ Release /\ UNCHANGED <<lastLane, pace>>
          \/ /\ ~paused /\ enabled[l]
             /\ lastLane' = l /\ pace' = SPACING /\ Save(l, draft)
             /\ Go("navigate") /\ UNCHANGED <<doc, draft>>
    /\ UNCHANGED <<sweep, own, world, closed, todo, faults, quiet, passed>> /\ Unseen

(* tabs.update; a tab that is gone is an error like any other.             *)
Loading(l, t) == [NoDocument EXCEPT !.pc = "loaded", !.url = Current(lanes[l]).url]
Navigate ==
    /\ At("navigate")
    /\ LET l == job.lane
           t == draft.tab
       IN \/ /\ doc[t].pc # "none"
             /\ doc' = [doc EXCEPT ![t] = Loading(l, t)]
             /\ quiet' = SPACING
             /\ passed' = [m \in LaneSet |-> IF m # l THEN passed[m] + 1 ELSE 0]
             /\ UNCHANGED lanes
          \/ /\ doc[t].pc = "none" /\ Save(l, Suspend(lanes[l], "waiting", LATER))
             /\ UNCHANGED <<doc, quiet, passed>>
    /\ Release
    /\ UNCHANGED <<lastLane, pace, sweep, own, world, closed, todo, faults>> /\ Unseen

(* Any call of the tick may fail: what is stored is taken up again later.  *)
TickFails ==
    /\ job.pc \in {"reserve", "created", "owned", "saveTab", "due", "start", "stamped", "checked", "navigate"}
    /\ Fault /\ Release
    /\ LET l == job.lane
       IN IF enabled[l] THEN Save(l, Suspend(lanes[l], "waiting", LATER)) /\ doc' = Told(lanes[l])
          ELSE UNCHANGED <<lanes, doc>>
    /\ UNCHANGED <<sweep, own, world, closed, todo, delivered, receipts>> /\ Unpaced

-----------------------------------------------------------------------------
(* Documents and their messages                                            *)

Receipt(t)  == sweep[t] # None /\ sweep[t].gen = doc[t].gen /\ sweep[t].key = doc[t].key
Visited(t)  == IF Receipt(t) THEN sweep[t].visited ELSE {}
Unread(t)   == Pages[doc[t].url] \ Visited(t)
Owners(t)   == {l \in LaneSet : own[l] = t}
Become(t, pc) == doc' = [doc EXCEPT ![t].pc = pc]
StoreOnly == <<lastLane, pace, own, world, closed, todo, faults, quiet, passed>>

(* A new document asks for its role.                                       *)
AskRole(t) ==
    /\ Free /\ doc[t].pc \in {"loaded", "idle"}
    /\ \/ \E l \in Owners(t) :
             /\ Authorized(l, t, TRUE)
             /\ doc' = [doc EXCEPT ![t].pc = "ready", ![t].gen = lanes[l].gen, ![t].key = Current(lanes[l]).key]
       \/ /\ \A l \in LaneSet : ~Authorized(l, t, TRUE)
          /\ doc[t].pc = "loaded" /\ Stood(t)
    /\ UNCHANGED <<storage, world, closed, worker, faults, ghosts>>

(* A page's items are authorized once more just before they are sent on.   *)
Send(t) ==
    /\ doc[t].pc = "ready" /\ doc[t].key \notin Discovery \union {""}
    /\ \E l \in Owners(t) : ~Current(lanes[l]).sel \/ ~Holds(l, t, TRUE)
    /\ \E p \in Unread(t) :
          /\ \A q \in Unread(t) : p <= q
          /\ IF \E l \in Owners(t) : Holds(l, t, FALSE)
             THEN /\ doc' = [doc EXCEPT ![t].pc = "sent", ![t].page = p]
                  /\ delivered' = [delivered EXCEPT ![doc[t].url] = @ \union {p}]
             ELSE Stood(t) /\ UNCHANGED delivered
    /\ UNCHANGED <<storage, world, closed, worker, faults, receipts, quiet, passed>>

(* The answer counts only if the document still holds the lane.            *)
Answer(t) ==
    /\ doc[t].pc = "sent"
    /\ IF \E l \in Owners(t) : Holds(l, t, FALSE) THEN Become(t, "acked") ELSE Stood(t)
    /\ UNCHANGED <<storage, world, closed, worker, faults, ghosts>>

(* The document writes the receipt, then reports the checkpoint.  Results  *)
(* without items are confirmed by a receipt without pages.                 *)
WriteReceipt(t) ==
    /\ \/ doc[t].pc = "acked"
       \/ /\ doc[t].pc = "ready" /\ doc[t].key \notin Discovery \union {""}
          /\ Pages[doc[t].url] = {} /\ ~Receipt(t)
          /\ \E l \in Owners(t) : Holds(l, t, FALSE)
    /\ LET page == IF doc[t].pc = "acked" THEN {doc[t].page} ELSE {}
       IN sweep' = [sweep EXCEPT ![t] = [gen |-> doc[t].gen, key |-> doc[t].key,
                                         visited |-> Visited(t) \union page]]
    /\ doc' = [doc EXCEPT ![t].pc = "written", ![t].page = 0]
    /\ UNCHANGED <<lanes, lastLane, pace, own, world, closed, worker, faults, ghosts>>
ReportCheckpoint(t) ==
    /\ Free /\ doc[t].pc = "written"
    /\ \/ \E l \in Owners(t) :
             /\ Holds(l, t, FALSE) /\ Save(l, Retain(lanes[l])) /\ Become(t, "ready")
             /\ receipts' = [receipts EXCEPT ![l][doc[t].key] = @ \union Visited(t)]
       \/ (\A l \in LaneSet : ~Holds(l, t, FALSE)) /\ Stood(t) /\ UNCHANGED <<lanes, receipts>>
    /\ UNCHANGED <<sweep, job, draft, StoreOnly, delivered>>

(* Every page is read, or its end could not be proved ("limited").         *)
SweepComplete(t) ==
    /\ Free
    /\ \/ doc[t].pc = "found"
       \/ doc[t].pc = "ready" /\ doc[t].key \notin Discovery /\ Receipt(t) /\ Unread(t) = {}
    /\ IF \E l \in Owners(t) : Holds(l, t, FALSE)
       THEN \E l \in Owners(t) : \E outcome \in {"complete", "unresolved"} :
              /\ IF outcome = "unresolved" THEN Fault ELSE UNCHANGED faults
              /\ Hold("save", l, Advance(lanes[l], outcome)) /\ Swept(t)
              /\ IF outcome = "complete" THEN Forget(l, {doc[t].key}) ELSE UNCHANGED receipts
              /\ UNCHANGED doc
       ELSE Stood(t) /\ UNCHANGED <<job, draft, sweep, receipts, faults>>
    /\ UNCHANGED <<lanes, lastLane, pace, own, world, closed, todo, delivered, quiet, passed>>

(* The departments a discovery shows become targets, as far as they fit.   *)
Discovered(t) ==
    /\ Free /\ doc[t].pc = "ready" /\ doc[t].key \in Discovery
    /\ \/ \E l \in Owners(t) : \E shown \in 0..Len(Found[l]) :
             LET L     == lanes[l]
                 known == {L.targets[i].key : i \in DOMAIN L.targets}
                 new   == Only(Found[l], {i \in 1..shown : Found[l][i] \notin known})
                 room  == MAX_TARGETS - Len(L.targets)
                 fits  == SubSeq(new, 1, IF Len(new) < room THEN Len(new) ELSE room)
             IN /\ Holds(l, t, FALSE)
                /\ Save(l, [L EXCEPT !.targets = @ \o [i \in DOMAIN fits |-> NewTarget(fits[i], Home, TRUE)],
                                     !.truncated = @ \/ Len(fits) < Len(new)])
                /\ Become(t, "found")
       \/ (\A l \in LaneSet : ~Holds(l, t, FALSE)) /\ Stood(t) /\ UNCHANGED lanes
    /\ UNCHANGED <<sweep, job, draft, StoreOnly, delivered, receipts>>

(* The document uses the control of its selection, then reports where it   *)
(* arrived: the target is bound to that URL, unless another one is.        *)
Select(t) ==
    /\ doc[t].pc = "ready" /\ doc[t].key \in Selections
    /\ \E l \in Owners(t) : Holds(l, t, TRUE) /\ Current(lanes[l]).sel
    /\ doc' = [doc EXCEPT ![t].pc = "chosen", ![t].url = Dest[doc[t].key]]
    /\ UNCHANGED <<storage, world, closed, worker, faults, ghosts>>
Arrived(g, url) == [g EXCEPT !.url = url, !.sel = FALSE]
Bound(L, url) == \E i \in DOMAIN L.targets :
    /\ i # L.cursor /\ ~L.targets[i].duplicate /\ L.targets[i].key \in Selections
    /\ ~L.targets[i].sel /\ L.targets[i].url = url
Selected(t) ==
    /\ Free /\ doc[t].pc = "chosen"
    /\ IF \E l \in Owners(t) : Holds(l, t, TRUE) /\ Current(lanes[l]).sel
       THEN \E l \in Owners(t) :
              LET L == lanes[l]
              IN /\ Swept(t)
                 /\ IF Bound(L, doc[t].url) THEN Hold("save", l, Advance(L, "duplicate")) /\ UNCHANGED doc
                    ELSE /\ Hold("saveBound", l, [L EXCEPT !.targets[L.cursor] = Arrived(@, doc[t].url), !.chk = None])
                         /\ Become(t, "ready")
       ELSE Stood(t) /\ UNCHANGED <<sweep, job, draft>>
    /\ UNCHANGED <<lanes, StoreOnly, delivered, receipts>>

(* The document cannot use the page.                                       *)
Unusable(t) ==
    /\ Free /\ doc[t].pc \in {"ready", "chosen"} /\ Fault
    /\ \E l \in Owners(t) :
          /\ Holds(l, t, TRUE)
          /\ LET L == lanes[l]
             IN IF Spent(L) \/ Current(L).sel
                THEN Swept(t) /\ Hold("save", l, Fail(L)) /\ UNCHANGED <<lanes, doc>>
                ELSE Save(l, Fail(L)) /\ doc' = Told(L) /\ UNCHANGED <<sweep, job, draft>>
    /\ UNCHANGED <<lastLane, pace, own, world, closed, todo, quiet, passed>> /\ Unseen

-----------------------------------------------------------------------------
(* The browser, its user and the rest of the extension                     *)

CloseTab(t) ==
    /\ doc[t].pc # "none" /\ Fault
    /\ doc' = [doc EXCEPT ![t] = NoDocument] /\ closed' = closed \union {t}
    /\ UNCHANGED <<storage, world, worker, ghosts>>

(* removed: the ownership goes first, then the lane, then the receipts.    *)
Removed(t) ==
    /\ Free /\ t \in closed /\ closed' = closed \ {t}
    /\ IF Owners(t) = {} THEN UNCHANGED <<own, job, draft>>
       ELSE \E l \in Owners(t) :
              /\ own' = [own EXCEPT ![l] = NoTab]
              /\ job' = [pc |-> "unowned", lane |-> l, old |-> t] /\ UNCHANGED draft
    /\ UNCHANGED <<lanes, lastLane, pace, sweep, world, doc, todo, faults, ghosts>>
SaveRemoved ==
    /\ At("unowned")
    /\ LET l == job.lane
           L == lanes[l]
           status == IF L.status \in Finished \union {"disabled", "paused"} THEN L.status ELSE "waiting"
       IN IF L.tab = job.old THEN Save(l, [Suspend(L, status, LATER) EXCEPT !.tab = NoTab]) ELSE UNCHANGED lanes
    /\ Go("sweeping")
    /\ UNCHANGED <<sweep, own, world, browser, draft, todo, faults>> /\ Unpaced /\ Unseen
Sweep ==
    /\ At("sweeping") /\ Swept(job.old) /\ Release
    /\ UNCHANGED <<lanes, own, world, browser, todo, faults>> /\ Unpaced /\ Unseen

(* A bot check: the shared pause, then pause(), then every receipt slot.   *)
BotCheck ==
    /\ ~paused /\ Fault /\ paused' = TRUE
    /\ UNCHANGED <<storage, enabled, wanted, browser, worker, ghosts>>
Running == {l \in LaneSet : lanes[l].status \in {"ready", "waiting", "scanning"}}
Pause ==
    /\ Free /\ paused /\ Running # {}
    /\ lanes' = [l \in LaneSet |-> IF l \in Running THEN Suspend(lanes[l], "paused", 0) ELSE lanes[l]]
    /\ doc' = [t \in Tabs |-> IF \E l \in LaneSet : lanes[l].tab = t /\ doc[t].pc \notin {"none", "blank"}
                              THEN [doc[t] EXCEPT !.pc = "idle", !.gen = 0, !.key = ""] ELSE doc[t]]
    /\ job' = [pc |-> "wiping", lane |-> "", old |-> NoTab]
    /\ UNCHANGED <<sweep, own, world, closed, draft, todo, faults>> /\ Unpaced /\ Unseen
Wipe ==
    /\ At("wiping") /\ sweep' = [t \in Tabs |-> None] /\ Release
    /\ UNCHANGED <<lanes, own, world, browser, todo, faults>> /\ Unpaced /\ Unseen
Resume ==
    /\ paused /\ paused' = FALSE
    /\ UNCHANGED <<storage, enabled, wanted, browser, worker, faults, ghosts>>

Toggle(l) ==
    /\ Fault /\ enabled' = [enabled EXCEPT ![l] = ~@]
    /\ UNCHANGED <<storage, wanted, paused, browser, worker, ghosts>>
Reconfigure(l) ==
    /\ Fault /\ \E list \in Initial[l] : list # wanted[l] /\ wanted' = [wanted EXCEPT ![l] = list]
    /\ UNCHANGED <<storage, enabled, paused, browser, worker, ghosts>>

(* restart: what was begun stays unresolved and leads the new round.       *)
Restart(l) ==
    /\ Free /\ Fault /\ ~paused /\ enabled[l] /\ lanes[l].status # "none" /\ lanes[l].list = wanted[l]
    /\ LET R == Retain(lanes[l])
           U == IF HasTarget(R) /\ Current(R).cov # "complete" /\ Current(R).tried
                THEN [R EXCEPT !.targets[R.cursor].cov = "unresolved"] ELSE R
       IN Hold("save", l, FreshLane(l, U)) /\ Swept(R.tab)
    /\ UNCHANGED <<lanes, own, world, browser, todo>> /\ Unpaced /\ Unseen

(* The service worker is stopped; the browser is, with all its tabs.       *)
WorkerStops ==
    /\ Fault /\ Release /\ todo' = [k \in Ticks |-> <<>>]
    /\ UNCHANGED <<storage, world, browser, delivered, receipts, quiet, passed>>
BrowserStops ==
    /\ Fault /\ Release /\ todo' = [k \in Ticks |-> <<>>]
    /\ doc' = [t \in Tabs |-> NoDocument] /\ closed' = {} /\ own' = [l \in LaneSet |-> NoTab]
    /\ UNCHANGED <<lanes, lastLane, pace, sweep, world, delivered, receipts, quiet, passed>>

(* Time passes between ticks: their own awaits are short beside spacings.  *)
Left(n) == IF n = 0 THEN 0 ELSE n - 1
Elapse ==
    /\ Free /\ \A k \in Ticks : todo[k] = <<>>
    /\ (pace > 0 \/ quiet > 0 \/ \E l \in LaneSet : lanes[l].wait > 0)
    /\ pace' = Left(pace) /\ quiet' = Left(quiet)
    /\ lanes' = [l \in LaneSet |-> [lanes[l] EXCEPT !.wait = Left(@)]]
    /\ UNCHANGED <<lastLane, sweep, own, world, browser, worker, faults, delivered, receipts, passed>>

-----------------------------------------------------------------------------

Turn == Commit \/ Reserve \/ SaveOwner \/ DropOld \/ SaveTab \/ Due \/ StartTarget \/ SaveStart
        \/ CheckStart \/ Navigate \/ SaveRemoved \/ Sweep \/ Wipe
Read(t) == AskRole(t) \/ Send(t) \/ Answer(t) \/ WriteReceipt(t) \/ ReportCheckpoint(t)
           \/ SweepComplete(t) \/ Discovered(t) \/ Select(t) \/ Selected(t)
Next ==
    \/ Turn \/ TickFails \/ BotCheck \/ Pause \/ Resume \/ WorkerStops \/ BrowserStops \/ Elapse
    \/ \E k \in Ticks : StartTick(k) \/ Begin(k)
    \/ \E t \in Tabs : Read(t) \/ Unusable(t) \/ CloseTab(t) \/ Removed(t)
    \/ \E l \in LaneSet : Toggle(l) \/ Reconfigure(l) \/ Restart(l)

Spec == Init /\ [][Next]_vars

-----------------------------------------------------------------------------
(* Properties                                                              *)

(* A round that calls itself complete has read every page of every target: *)
(* no checkpoint of another target, generation or URL passed for its own.  *)
CompleteIsCovered == \A l \in LaneSet : lanes[l].status = "complete" =>
    \A i \in DOMAIN lanes[l].targets :
        LET g == lanes[l].targets[i]
        IN g.cov \in {"complete", "duplicate"} /\ Pages[Dest[g.key]] \subseteq delivered[Dest[g.key]]

(* Between two turns of a lane at a free slot fewer others start than      *)
(* there are lanes, whatever is stopped, switched or paused in between.    *)
FairTurns == \A l \in LaneSet : passed[l] < Len(Lanes)

(* Types and the bookkeeping of lanes, jobs and tabs, with the above.       *)
LaneInvariant == TypeInvariant /\ CompleteIsCovered /\ FairTurns

(* Acknowledged checkpoints survive retries, pauses, lost tabs, restarts   *)
(* and stops of the worker: the pages they name are still known.  One      *)
(* interruption loses none; a restart that is itself stopped may.          *)
ReceiptsSurvive == Free /\ faults <= 1 => \A l \in LaneSet : \A i \in DOMAIN lanes[l].targets :
    LET g == Retain(lanes[l]).targets[i]
    IN g.cov \in {"pending", "unresolved"} => receipts[l][g.key] \subseteq g.chk.visited

(* The lanes' page loads keep their common spacing, across restarts.       *)
Loads == \E t \in Tabs : doc'[t].pc = "loaded" /\ doc[t].pc # "loaded"
LoadsAreSpaced == [][Loads => quiet = 0]_vars
=============================================================================
