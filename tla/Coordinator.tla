----------------------------- MODULE Coordinator -----------------------------
(***************************************************************************)
(* The main scan (extension/background.js, content.js): one reviewer tab   *)
(* holds a lease, its document reads the catalogue page by page, posts     *)
(* what it read, records the pages acknowledged and checkpoints them.  A   *)
(* bot check seen in any tab revokes the lease until every tab that showed *)
(* one is clear; then the scan goes on from the checkpoint.                *)
(*                                                                         *)
(* What runs under coordinatorMutation is one step; selections (in         *)
(* selectionTail), passes over challenged tabs (in botCheckTail), restarts *)
(* and the work of documents take several, and interleave.  The worker may *)
(* be stopped between steps: storage stays, its memory and its promises do *)
(* not.  A tab's id is not used again.                                     *)
(***************************************************************************)
EXTENDS Integers, FiniteSets

CONSTANTS
    Tabs,           \* reviewer tabs; any may be open at first
    PAGES,          \* pages of the catalogue
    MAX_CHECKS,     \* bound: bot checks that appear
    MAX_RESTARTS,   \* bound: restarts of the scan
    MAX_EVENTS      \* bound: tabs closed or taken elsewhere, documents that do not answer
                    \* or cannot go on, worker stops

Unborn == -2
Closed == -1
Away   == 0         \* a page of the site that the scan does not own
None   == "none"

ASSUME CoordinatorConstants ==
    /\ None \notin Tabs
    /\ PAGES \in Nat \ {0} /\ {MAX_CHECKS, MAX_RESTARTS, MAX_EVENTS} \subseteq Nat

VARIABLES
    at, showing, news,      \* a tab's page; it shows a check; it closed or moved, and the
                            \* worker has yet to hear of it
    doc, told, writing,     \* its document's role and work; it reported its check; a
                            \* record on its way to storage
    check, resume, sweep,   \* local storage: the pause, the checkpoint, a tab's record
    coord,                  \* session storage: the lease
    reports, sel, pass, rst,  \* the worker: checks reported; a selection; a pass over
                            \* challenged tabs; a restart
    accepted, fresh,        \* ghosts: pages the notifier accepted since the last reset, and
                            \* while a restart holds the lease and has yet to reset
    kept,                   \* ghost: pages checkpointed when a check paused the scan
    checks, restarts, events  \* bounds

browser   == <<at, showing, news>>
documents == <<doc, told, writing>>
storage   == <<check, resume, sweep, coord>>
worker    == <<reports, sel, pass, rst>>
ghosts    == <<accepted, fresh, kept>>
bounds    == <<checks, restarts, events>>
vars      == <<browser, documents, storage, worker, ghosts, bounds>>

Pages    == 1..PAGES
Record   == [gen : Nat, seen : SUBSET Pages]
NoRecord == [gen |-> 0, seen |-> {}]
Document == [active : BOOLEAN, gen : Nat, pc :
             {"idle", "sent", "saving", "saved", "read", "ended", "complete"}]
NewDocument == [active |-> FALSE, gen |-> 0, pc |-> "idle"]
NoResume == [page |-> 0, tab |-> None, gen |-> 0, seen |-> {}, interrupted |-> FALSE]
NoSelection == [pc |-> "off", by |-> None, saw |-> [t \in Tabs |-> Unborn], was |-> [tab |-> None, gen |-> 0],
                exclude |-> None, keep |-> FALSE, chosen |-> None]
NoCheck == [paused |-> FALSE, challenged |-> {}, known |-> {}]   \* an ended one is not read again
NoPass == [on |-> FALSE, todo |-> {}, ready |-> {}, other |-> FALSE]
NoRestart == [pc |-> "off", tab |-> None, gen |-> 0, page |-> 0]
Places == {Unborn, Closed, Away} \union Pages
Lease  == [tab : Tabs \union {None}, gen : Nat]
Resume == [page : 0..PAGES, tab : Tabs \union {None}, gen : Nat, seen : SUBSET Pages, interrupted : BOOLEAN]
Selection == [pc : {"off", "ready", "reporting"}, by : {None, "document", "restart"}, saw : [Tabs -> Places],
              was : Lease, exclude : Tabs \union {None}, keep : BOOLEAN, chosen : Tabs \union {None}]
RestartOf == [pc : {"off", "selecting", "take", "reset", "navigate"}, tab : Tabs \union {None}, gen : Nat, page : Places]

TypeInvariant ==
    /\ at \in [Tabs -> Places] /\ showing \in [Tabs -> BOOLEAN] /\ news \subseteq Tabs
    /\ doc \in [Tabs -> Document] /\ told \in [Tabs -> BOOLEAN] /\ writing \in [Tabs -> Record]
    /\ check \in [paused : BOOLEAN, challenged : SUBSET Tabs, known : SUBSET Tabs]
    /\ sweep \in [Tabs -> Record] /\ resume \in Resume /\ coord \in Lease
    /\ sel \in Selection /\ rst \in RestartOf /\ reports \subseteq Tabs
    /\ pass \in [on : BOOLEAN, todo : SUBSET Tabs, ready : SUBSET Tabs, other : BOOLEAN]
    /\ accepted \subseteq Pages /\ fresh \subseteq Pages /\ kept \subseteq Pages
    \* what a document, a record or a process holds is never ahead of the lease
    /\ \A t \in Tabs : {doc[t].gen, sweep[t].gen, writing[t].gen} \subseteq 0..coord.gen
    /\ {resume.gen, sel.was.gen, rst.gen} \subseteq 0..coord.gen
    \* the step that pauses revokes the lease, and none is given in a pause
    /\ check.paused => coord.tab = None

Init ==
    /\ at \in [Tabs -> {Unborn, 1}]
    /\ showing = [t \in Tabs |-> FALSE] /\ news = {}
    /\ doc = [t \in Tabs |-> NewDocument] /\ told = [t \in Tabs |-> FALSE] /\ writing = [t \in Tabs |-> NoRecord]
    /\ check = NoCheck
    /\ resume = NoResume /\ sweep = [t \in Tabs |-> NoRecord] /\ coord = [tab |-> None, gen |-> 0]
    /\ reports = {} /\ sel = NoSelection /\ pass = NoPass /\ rst = NoRestart
    /\ accepted = {} /\ fresh = {} /\ kept = {}
    /\ checks = 0 /\ restarts = 0 /\ events = 0

Happens == events < MAX_EVENTS /\ events' = events + 1 /\ UNCHANGED <<checks, restarts>>

-----------------------------------------------------------------------------
(* Pages, the pause and the lease                                          *)

Open(t)       == at[t] \notin {Unborn, Closed}
Monitoring(p) == p \in Pages                   \* monitoringTab: the catalogue, unfiltered
Reviewers     == {t \in Tabs : Monitoring(at[t])}
Paused        == check.paused \/ reports # {}  \* pausedUntil
Role(t, c)    == [active |-> c.tab = t, gen |-> c.gen]
Authorized(t, g) == ~Paused /\ coord = [tab |-> t, gen |-> g] /\ Monitoring(at[t])

(* applyRole: an older generation is refused, a change revokes the work.   *)
(* A record already on its way to storage is not called back.              *)
Applied(d, role) ==
    IF role.gen < d.gen \/ (role.active = d.active /\ role.gen = d.gen) THEN d
    ELSE [active |-> role.active, gen |-> role.gen, pc |-> "idle"]
(* broadcastRoles: all documents hear their role, or those that are not    *)
(* loading; or the messages are late, and none does.                       *)
Loading(t) == doc[t].gen = 0
Hearers    == {Tabs, {t \in Tabs : ~Loading(t)}, {}}
Hearing(docs, c, heard) == [t \in Tabs |-> IF t \in heard /\ Open(t) THEN Applied(docs[t], Role(t, c)) ELSE docs[t]]
Broadcast(c, heard) == doc' = Hearing(doc, c, heard)

(* readSweep: a record of another generation is another lease's.           *)
Seen(record, g) == IF record.gen = g THEN record.seen ELSE {}
(* saveReviewerResume: the checkpoint, while the lease stands.             *)
Saved(c, page, records) ==
    [page |-> page, tab |-> c.tab, gen |-> c.gen, seen |-> Seen(records[c.tab], c.gen), interrupted |-> FALSE]
SaveResume(c, page, records) ==
    resume' = IF Paused \/ ~Monitoring(page) THEN resume ELSE Saved(c, page, records)
SameGeneration(c, t) == [tab |-> t, gen |-> c.gen]    \* mutant: the generation is kept
NewLease(c, t) == [tab |-> t, gen |-> c.gen + 1]

-----------------------------------------------------------------------------
(* Checks: reports, the pause, and the passes that end it                  *)

(* checkVerification, tabs.onUpdated: the document drops its work.         *)
Tell(t) == told' = [told EXCEPT ![t] = TRUE] /\ reports' = reports \union {t}
Report(t) ==
    /\ Open(t) /\ showing[t] /\ ~told[t] /\ Tell(t)
    /\ doc' = [doc EXCEPT ![t].pc = "idle"]
    /\ UNCHANGED <<browser, writing, storage, sel, pass, rst, ghosts, bounds>>

(* pauseForBotCheck, in botCheckTail.  Every document drops its work when  *)
(* the pause is stored (onVerificationStorageChange).                      *)
Dropped == [t \in Tabs |-> [doc[t] EXCEPT !.pc = "idle"]]
Pause(t) ==
    /\ t \in reports /\ ~pass.on /\ reports' = reports \ {t}
    /\ IF check.paused
       THEN /\ check' = [check EXCEPT !.challenged = @ \union {t}]
            /\ UNCHANGED <<resume, sweep, coord, doc, kept>>
       ELSE /\ check' = [paused |-> TRUE, challenged |-> {t}, known |-> Reviewers]
            /\ resume' = [resume EXCEPT !.interrupted = resume # NoResume]
            /\ coord' = NewLease(coord, None)
            /\ sweep' = [s \in Tabs |-> NoRecord]
            /\ \E heard \in Hearers : doc' = Hearing(Dropped, coord', heard)
            /\ kept' = resume.seen
    /\ UNCHANGED <<browser, told, writing, sel, pass, rst, accepted, fresh, bounds>>

(* resumeAfterVerification, in botCheckTail: first a look at every tab     *)
(* that is not known to show a check, then one at each that did.           *)
PassBegins ==
    /\ ~pass.on /\ check.paused /\ reports = {}
    /\ LET found == {t \in Tabs : Open(t) /\ showing[t]} \ check.challenged IN
       IF found # {} THEN check' = [check EXCEPT !.challenged = @ \union found] /\ UNCHANGED pass
       ELSE /\ pass' = [on |-> TRUE, todo |-> check.challenged, ready |-> Reviewers \ check.challenged, other |-> FALSE]
            /\ UNCHANGED check
    /\ UNCHANGED <<browser, documents, resume, sweep, coord, reports, sel, rst, ghosts, bounds>>
NeverBlocks(t) == FALSE                  \* mutant: a tab that still shows a check is passed over
Blocks(t) == Open(t) /\ showing[t]
PassProbes(t) ==
    /\ pass.on /\ t \in pass.todo
    /\ pass' = IF Blocks(t) THEN NoPass
               ELSE [pass EXCEPT !.todo = @ \ {t},
                                 !.ready = IF Monitoring(at[t]) THEN @ \union {t} ELSE @,
                                 !.other = @ \/ at[t] = Away]
    /\ UNCHANGED <<browser, documents, storage, reports, sel, rst, ghosts, bounds>>
(* A tab that was open before the check proves nothing, unless it showed   *)
(* it or a page of another kind recovered.  A pause lasts until a user has *)
(* acted, longer than a record begun before it takes to reach storage.     *)
PassEnds ==
    /\ pass.on /\ pass.todo = {} /\ (\A t \in Tabs : writing[t] = NoRecord) /\ pass' = NoPass
    /\ check' = IF reports = {} /\ \E t \in pass.ready : pass.other \/ t \in check.challenged \/ t \notin check.known
                THEN NoCheck ELSE check
    /\ UNCHANGED <<browser, documents, resume, sweep, coord, reports, sel, rst, ghosts, bounds>>

-----------------------------------------------------------------------------
(* Selecting the primary                                                   *)

(* selectPrimary, in selectionTail, when no pass over challenged tabs runs *)
(* (refreshes, restarts and a selection's own beginning run one in a       *)
(* pause).  Tabs and lease are read and the tabs probed in one step, since *)
(* what happens to them meanwhile may as well happen before the commit.    *)
(* The current tab comes first.  A loading document need not answer; a     *)
(* check that a probe sees is reported and ends the search.                *)
Selects(by, exclude) ==
    /\ sel.pc = "off" /\ ~pass.on
    /\ LET asked == IF Paused THEN {} ELSE Reviewers \ {exclude}
           first == asked \intersect {coord.tab}
           found == [pc |-> "ready", by |-> by, saw |-> at, was |-> coord, exclude |-> exclude,
                     keep |-> ~Paused /\ exclude # None, chosen |-> None]
       IN \/ \E t \in asked :
             /\ t \notin first => \A c \in first : Loading(c)
             /\ sel' = [found EXCEPT !.chosen = t, !.pc = IF showing[t] THEN "reporting" ELSE "ready"]
             /\ IF showing[t] THEN Tell(t) /\ doc' = [doc EXCEPT ![t].pc = "idle"] ELSE UNCHANGED <<told, reports, doc>>
          \/ (\A t \in asked : Loading(t)) /\ sel' = found /\ UNCHANGED <<told, reports, doc>>
Bounded == IF ~Paused /\ coord.tab \in Reviewers \ {sel'.chosen} THEN Happens ELSE UNCHANGED bounds
AskRole ==
    /\ \E t \in Reviewers : ~showing[t] /\ Selects("document", None)
    /\ Bounded /\ UNCHANGED <<browser, writing, storage, pass, rst, ghosts>>

(* commitSelection: a lease changed meanwhile is left as it is.  A new     *)
(* primary takes over the checkpoint if it shows the checkpoint's page or  *)
(* a check interrupted the scan.  Those who asked, and tabs that are told, *)
(* hear their role, unless their document is gone.                         *)
Chosen ==
    IF sel.pc = "ready" /\ sel.chosen # None THEN sel.chosen
    ELSE IF sel.keep THEN sel.was.tab ELSE None
Restores(t) == t # None /\ resume # NoResume /\ (sel.saw[t] = resume.page \/ resume.interrupted)
Stands == ~Paused /\ coord = sel.was
Restarts(t) == sel.exclude \notin {None, t} /\ t # None      \* handleUnusable fails over
CommitTo(t, heard) ==
    IF t # sel.was.tab
    THEN /\ coord' = NewLease(coord, t)
         /\ sweep' = [s \in Tabs |-> IF s # t THEN NoRecord ELSE IF Restores(t)
                          THEN [gen |-> coord'.gen, seen |-> resume.seen] ELSE sweep[s]]
         /\ IF t = None THEN UNCHANGED resume ELSE SaveResume(coord', sel.saw[t], sweep')
         /\ Broadcast(coord', heard)
         /\ kept' = IF sel.was.tab = None /\ resume.interrupted THEN kept ELSE {}
    ELSE /\ IF t = None THEN UNCHANGED resume ELSE SaveResume(coord, sel.saw[t], sweep)
         /\ Broadcast(coord, heard)
         /\ UNCHANGED <<sweep, coord, kept>>
(* A restart goes on with a tab that did not answer, if it has no other.   *)
ToRestart ==
    LET others == {s \in Tabs : Monitoring(sel.saw[s])}
    IN IF Stands /\ Chosen # None THEN {Chosen} ELSE IF others # {} THEN others ELSE {None}
Commit ==
    /\ sel.pc # "off"
    /\ sel.pc = "reporting" => sel.chosen \notin reports
    /\ \E heard \in Hearers :
          IF Stands THEN CommitTo(Chosen, heard)
          ELSE Broadcast(coord, heard) /\ UNCHANGED <<resume, sweep, coord, kept>>
    /\ IF sel.by = "restart"
       THEN \E t \in ToRestart : rst' = IF t = None THEN NoRestart ELSE
                                         [NoRestart EXCEPT !.pc = "take", !.gen = coord'.gen, !.tab = t]
       ELSE rst' = IF Stands /\ Restarts(Chosen) /\ rst.pc = "off" THEN [NoRestart EXCEPT !.pc = "selecting"] ELSE rst
    /\ sel' = NoSelection
    /\ UNCHANGED <<browser, told, writing, check, reports, pass, accepted, fresh, bounds>>

-----------------------------------------------------------------------------
(* Restarting the scan                                                     *)

(* restartPrimary, by hand or because a finished round is old enough.      *)
Restart ==
    /\ rst.pc = "off" /\ ~Paused /\ restarts < MAX_RESTARTS /\ restarts' = restarts + 1
    /\ rst' = [NoRestart EXCEPT !.pc = "selecting"]
    /\ UNCHANGED <<browser, documents, storage, reports, sel, pass, ghosts, checks, events>>
RestartSelects ==
    /\ rst.pc = "selecting" /\ sel.by # "restart" /\ Selects("restart", None)
    /\ Bounded /\ UNCHANGED <<browser, writing, storage, pass, rst, ghosts>>
(* The old document loses its lease before its progress goes.              *)
Take ==
    /\ rst.pc = "take"
    /\ IF Paused \/ coord.gen # rst.gen THEN rst' = NoRestart /\ UNCHANGED <<coord, doc, kept>>
       ELSE /\ coord' = NewLease(coord, rst.tab)
            /\ rst' = [rst EXCEPT !.pc = "reset", !.gen = coord'.gen]
            /\ \E heard \in Hearers : doc' = [t \in Tabs |-> IF t \in heard /\ Open(t)
                   THEN Applied(doc[t], [active |-> FALSE, gen |-> coord'.gen]) ELSE doc[t]]
            /\ kept' = {}
    /\ fresh' = {}
    /\ UNCHANGED <<browser, told, writing, check, resume, sweep, reports, sel, pass, accepted, bounds>>
OwnedIt == TRUE                          \* mutant: the lease taken before the messages is trusted
OwnsLease == ~Paused /\ coord = [tab |-> rst.tab, gen |-> rst.gen]
Reset ==
    /\ rst.pc = "reset"
    /\ IF ~OwnsLease THEN rst' = NoRestart /\ UNCHANGED <<resume, sweep, accepted>>
       ELSE /\ sweep' = [sweep EXCEPT ![rst.tab] = NoRecord] /\ resume' = NoResume
            /\ accepted' = fresh
            /\ rst' = [rst EXCEPT !.pc = "navigate", !.page = at[rst.tab]]
    /\ fresh' = {}
    /\ UNCHANGED <<browser, documents, check, coord, reports, sel, pass, kept, bounds>>
(* navigateToPageOne: by the document itself, or a load that is refused    *)
(* once the lease or the page has changed.                                 *)
AnyPage(t, p)  == Open(t)                \* mutant: the page is not compared
SamePage(t, p) == at[t] = p /\ Monitoring(p)
Navigate ==
    /\ rst.pc = "navigate" /\ rst' = NoRestart
    /\ \/ /\ OwnsLease /\ SamePage(rst.tab, rst.page) /\ at' = [at EXCEPT ![rst.tab] = 1]
          /\ doc' = [doc EXCEPT ![rst.tab] = NewDocument] /\ writing' = [writing EXCEPT ![rst.tab] = NoRecord]
       \/ LET t == rst.tab IN
          /\ Monitoring(at[t]) /\ at[t] > 1 /\ doc[t].gen = rst.gen /\ doc[t].pc = "idle" /\ ~showing[t] /\ ~check.paused
          /\ at' = [at EXCEPT ![t] = 1] /\ doc' = [doc EXCEPT ![t].active = TRUE] /\ UNCHANGED writing
       \/ /\ ~(OwnsLease /\ SamePage(rst.tab, rst.page))
          /\ Broadcast(coord, {rst.tab}) /\ UNCHANGED <<at, writing>>
    /\ UNCHANGED <<showing, news, told, storage, reports, sel, pass, ghosts, bounds>>

-----------------------------------------------------------------------------
(* The document's work on its page                                         *)

IsCurrent(t) == doc[t].active /\ ~check.paused /\ ~showing[t]
At(t, pc)   == doc[t].pc = pc
Goes(t, pc) == doc' = [doc EXCEPT ![t].pc = pc]
Retries(t)  == Goes(t, "idle")
(* A refusal tells the document what its role is now.                      *)
Refused(t) == doc' = [doc EXCEPT ![t] = [Applied(@, [active |-> coord.tab = t /\ Monitoring(at[t]), gen |-> coord.gen])
                                         EXCEPT !.pc = "idle"]]

(* post, through the queue of posts: the lease is asked before each batch. *)
Posted(t) ==
    /\ Authorized(t, doc[t].gen) /\ accepted' = accepted \union {at[t]}
    /\ fresh' = IF rst.pc = "reset" THEN fresh \union {at[t]} ELSE fresh
(* relay, handlePageReport: what the document read counts if it is         *)
(* authorized before and after.                                            *)
Forward(t) ==
    /\ At(t, "idle") /\ IsCurrent(t) /\ Monitoring(at[t])
    /\ \/ Posted(t) /\ Goes(t, "sent")
       \/ ~Authorized(t, doc[t].gen) /\ Refused(t) /\ UNCHANGED <<accepted, fresh>>
    /\ UNCHANGED <<browser, told, writing, storage, worker, kept, bounds>>
(* An answer that counts: advanceDeliveredPage, writeSweep; the page joins *)
(* the record.                                                             *)
Ack(t) ==
    /\ At(t, "sent")
    /\ IF Authorized(t, doc[t].gen) /\ IsCurrent(t)
       THEN /\ writing[t] = NoRecord /\ Goes(t, "saving")
            /\ writing' = [writing EXCEPT ![t] = [gen |-> doc[t].gen, seen |-> Seen(sweep[t], doc[t].gen) \union {at[t]}]]
       ELSE Refused(t) /\ UNCHANGED writing
    /\ UNCHANGED <<browser, told, storage, worker, ghosts, bounds>>
Land(t) ==
    /\ writing[t] # NoRecord /\ writing' = [writing EXCEPT ![t] = NoRecord]
    /\ sweep' = [sweep EXCEPT ![t] = writing[t]]
    /\ IF At(t, "saving") THEN Goes(t, "saved") ELSE UNCHANGED doc
    /\ UNCHANGED <<browser, told, check, resume, coord, worker, ghosts, bounds>>
(* handlePrimaryCheckpoint                                                 *)
Checkpoint(t) ==
    /\ At(t, "saved")
    /\ IF IsCurrent(t) /\ Authorized(t, doc[t].gen) THEN SaveResume(coord, at[t], sweep) /\ Goes(t, "read")
       ELSE Retries(t) /\ UNCHANGED resume
    /\ UNCHANGED <<browser, told, writing, check, sweep, coord, worker, ghosts, bounds>>

(* continueSweep: the first page not seen, within the document or with a   *)
(* load; or the round is over and its record goes.                         *)
Unseen(t) == Pages \ Seen(sweep[t], doc[t].gen)
Turn(t) ==
    /\ At(t, "read") /\ UNCHANGED <<showing, news, told, check, resume, coord, worker, accepted, fresh, bounds>>
    /\ CASE ~IsCurrent(t) -> Retries(t) /\ UNCHANGED <<at, sweep, writing, kept>>
         [] IsCurrent(t) /\ Unseen(t) # {} ->
              /\ at' = [at EXCEPT ![t] = CHOOSE p \in Unseen(t) : \A q \in Unseen(t) : p <= q]
              /\ \/ Retries(t) /\ UNCHANGED writing
                 \/ doc' = [doc EXCEPT ![t] = NewDocument] /\ writing' = [writing EXCEPT ![t] = NoRecord]
              /\ UNCHANGED <<sweep, kept>>
         [] OTHER ->
              /\ sweep' = [sweep EXCEPT ![t] = NoRecord] /\ kept' = {}
              /\ Goes(t, "ended") /\ UNCHANGED <<at, writing>>
Completed(t) == IF Authorized(t, doc[t].gen) THEN SaveResume(coord, at[t], sweep) ELSE UNCHANGED resume
(* finishSweep, removeCurrentSweep                                         *)
Announce(t) ==
    /\ At(t, "ended")
    /\ IF ~IsCurrent(t) THEN Retries(t) /\ UNCHANGED resume
       ELSE Goes(t, "complete") /\ Completed(t)
    /\ UNCHANGED <<browser, told, writing, check, sweep, coord, worker, ghosts, bounds>>

(* handleUnusable: another tab takes over, or this one begins again.       *)
Unusable(t) ==
    /\ At(t, "idle") /\ IsCurrent(t) /\ Authorized(t, doc[t].gen) /\ Happens
    /\ \/ Selects("document", t) /\ UNCHANGED <<at, writing, sweep, kept>>
       \/ /\ sweep' = [sweep EXCEPT ![t] = NoRecord] /\ at' = [at EXCEPT ![t] = 1] /\ kept' = {}
          /\ doc' = [doc EXCEPT ![t] = NewDocument] /\ writing' = [writing EXCEPT ![t] = NoRecord] 
          /\ UNCHANGED <<told, reports, sel>>
    /\ UNCHANGED <<showing, news, check, resume, coord, pass, rst, accepted, fresh>>

-----------------------------------------------------------------------------
(* The browser and the user                                                *)

Load(t, p) ==
    /\ at' = [at EXCEPT ![t] = p] /\ doc' = [doc EXCEPT ![t] = NewDocument]
    /\ told' = [told EXCEPT ![t] = FALSE] /\ writing' = [writing EXCEPT ![t] = NoRecord]
Challenge(t) ==
    /\ Open(t) /\ ~showing[t] /\ checks < MAX_CHECKS /\ checks' = checks + 1
    /\ showing' = [showing EXCEPT ![t] = TRUE]
    /\ UNCHANGED <<at, news, documents, storage, worker, ghosts, restarts, events>>
Solve(t) ==
    /\ showing[t] /\ showing' = [showing EXCEPT ![t] = FALSE] /\ told' = [told EXCEPT ![t] = FALSE]
    /\ UNCHANGED <<at, news, doc, writing, storage, worker, ghosts, bounds>>
UserMoves(t, p) ==
    /\ Load(t, p) /\ showing' = [showing EXCEPT ![t] = FALSE] /\ news' = news \union {t}
    /\ UNCHANGED <<storage, worker, ghosts>>
CloseTab(t) == Happens /\ Open(t) /\ UserMoves(t, Closed)
Wander(t)   == Happens /\ Monitoring(at[t]) /\ UserMoves(t, Away)
Return(t)   == at[t] = Away /\ UserMoves(t, 1) /\ UNCHANGED bounds

(* tabs.onRemoved and tabs.onUpdated                                       *)
Hear(t) ==
    /\ t \in news /\ news' = news \ {t}
    /\ IF coord.tab = t /\ (at[t] = Closed \/ (~Paused /\ ~Monitoring(at[t])))
       THEN /\ coord' = NewLease(coord, None) /\ kept' = {}
            /\ IF at[t] = Closed /\ resume.tab = t /\ resume.gen = coord.gen
               THEN SaveResume(coord, resume.page, sweep) ELSE UNCHANGED resume
       ELSE UNCHANGED <<resume, coord, kept>>
    /\ sweep' = IF at[t] = Closed THEN [sweep EXCEPT ![t] = NoRecord] ELSE sweep
    /\ UNCHANGED <<at, showing, documents, check, worker, accepted, fresh, bounds>>

(* ensureReviewerTab, resumeExistingReviewerTab: the saved page is opened  *)
(* in a tab that monitors, or in a new one where there is none.            *)
Quiet == ~Paused /\ \A t \in Tabs : ~(Open(t) /\ showing[t])
OpenReviewer(t) ==
    /\ Quiet
    /\ \/ /\ coord.tab = None /\ resume # NoResume /\ Monitoring(at[t]) /\ \A s \in Tabs : at[s] # resume.page
          /\ Load(t, resume.page)
       \/ /\ Reviewers = {} /\ at[t] = Unborn
          /\ Load(t, IF resume # NoResume THEN resume.page ELSE 1)
    /\ UNCHANGED <<showing, news, storage, worker, ghosts, bounds>>

(* The worker stops; documents that await it try again.                    *)
WorkerStop ==
    /\ Happens /\ reports' = {} /\ sel' = NoSelection /\ pass' = NoPass /\ rst' = NoRestart
    /\ told' = [t \in Tabs |-> told[t] /\ t \notin reports]
    /\ doc' = [t \in Tabs |-> CASE doc[t].pc \in {"sent", "saved"} -> [doc[t] EXCEPT !.pc = "idle"]
                               [] doc[t].pc = "ended" -> [doc[t] EXCEPT !.pc = "complete"]
                               [] OTHER -> doc[t]]
    /\ UNCHANGED <<browser, writing, storage, ghosts>>

Next ==
    \/ \E t \in Tabs : Report(t) \/ Pause(t) \/ PassProbes(t)
    \/ PassBegins \/ PassEnds \/ AskRole \/ Commit
    \/ Restart \/ RestartSelects \/ Take \/ Reset \/ Navigate
    \/ \E t \in Tabs : Forward(t) \/ Ack(t) \/ Land(t) \/ Checkpoint(t) \/ Turn(t)
                      \/ Announce(t) \/ Unusable(t)
    \/ \E t \in Tabs : Challenge(t) \/ Solve(t) \/ CloseTab(t) \/ Wander(t) \/ Return(t) \/ Hear(t) \/ OpenReviewer(t)
    \/ WorkerStop

Spec == Init /\ [][Next]_vars

-----------------------------------------------------------------------------
(* Properties                                                              *)

(* A document that acts under the lease of now is the primary's: selection,*)
(* failover, restart and pause fence each other by generation.             *)
OneVoice == \A t \in Tabs : doc[t].active /\ doc[t].gen = coord.gen => coord.tab = t

(* A check that a document reported, and so will not report again, keeps   *)
(* the scan paused for as long as it shows.                                *)
NoCheckIsForgotten == \A t \in Tabs : showing[t] /\ told[t] => Paused

LeaseInvariant == TypeInvariant /\ OneVoice /\ NoCheckIsForgotten

(* Progress is neither invented nor lost.  A page counts as seen in the    *)
(* round only if the notifier accepted it since the round's progress was   *)
(* last reset, whatever late records, checkpoints and restored progress    *)
(* were mixed in, and a round is complete when that holds for every page;  *)
(* and the pages checkpointed when a check interrupted the scan stay       *)
(* recorded through the pause, a restart it overtook, and the next         *)
(* selection.                                                              *)
SeenNow(t) == Seen(sweep[t], coord.gen)
ProgressIsTrue ==
    LET current == IF coord.tab = None THEN {} ELSE SeenNow(coord.tab)
    IN /\ resume.seen \union current \subseteq accepted
       /\ \A t \in Tabs : At(t, "complete") /\ doc[t].gen = coord.gen => accepted = Pages
       /\ kept \subseteq resume.seen \union current

(* A tab the user took elsewhere is not navigated: only the user brings it *)
(* back.                                                                   *)
UserKeepsTheTab == [][\A t \in Tabs : at[t] = Away /\ at'[t] # Away => Return(t) \/ CloseTab(t)]_vars

-----------------------------------------------------------------------------
(* The inductive invariant                                                 *)

(* A restart that took the lease owns it until another lease is given.     *)
RestartOwns ==
    /\ rst.pc \in {"take", "reset", "navigate"} => rst.tab # None
    /\ rst.pc \in {"reset", "navigate"} /\ rst.gen = coord.gen => coord.tab = rst.tab
(* A document works on a page of the catalogue; a closed tab shows nothing.*)
WorkIsOnAPage ==
    \A t \in Tabs : (doc[t].pc # "idle" => Monitoring(at[t])) /\ (showing[t] => Open(t))
(* A check that was reported shows, and waits for its turn or is one of    *)
(* those that a pass must find solved; a pass looks at all of them.        *)
ToldIsKnown ==
    /\ \A t \in Tabs : told[t] => showing[t] /\ (t \in reports \/ (check.paused /\ t \in check.challenged))
    /\ pass.on => check.paused /\ \A t \in Tabs : told[t] => t \in reports \union pass.todo

(* What documents and records of this lease say, is of these pages.        *)
Within(pages) ==
    \A t \in Tabs :
        /\ Seen(sweep[t], coord.gen) \union Seen(writing[t], coord.gen) \subseteq pages
        /\ doc[t].gen = coord.gen =>
              /\ doc[t].pc = "sent" => at[t] \in pages
              /\ doc[t].pc \in {"ended", "complete"} => Pages \subseteq pages
(* ... of those accepted; and while a restart has yet to reset, of those   *)
(* accepted since it took the lease.                                       *)
RoundIsTrue ==
    /\ Within(accepted) /\ resume.seen \subseteq accepted
    /\ rst.pc = "reset" /\ rst.gen = coord.gen => Within(fresh) /\ kept = {}
(* What was checkpointed before a check is in the checkpoint until a       *)
(* primary has it in its record; no late record comes over that.           *)
KeptIsRecorded ==
    /\ kept \subseteq IF coord.tab = None THEN resume.seen ELSE SeenNow(coord.tab)
    /\ kept = {} \/ check.paused \/
          \A t \in Tabs : writing[t] # NoRecord =>
              coord.tab = t /\ writing[t].gen = coord.gen /\ kept \subseteq writing[t].seen

CoordinatorInvariant ==
    /\ TypeInvariant /\ OneVoice /\ RestartOwns /\ WorkIsOnAPage /\ ToldIsKnown
    /\ RoundIsTrue /\ KeptIsRecorded
=============================================================================
