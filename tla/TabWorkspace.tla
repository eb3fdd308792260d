---------------------------- MODULE TabWorkspace ----------------------------
(***************************************************************************)
(* The activation slot of the scanner tabs (extension/tab-workspace.js):   *)
(* documents ask the service worker for a short turn as the selected tab   *)
(* of their window.  A request awaits the browser and the settings a dozen *)
(* times; whatever ends its authority meanwhile bumps an epoch that it     *)
(* compares after each await.  Here every request carries the outcome of   *)
(* that comparison ("live", and "undisturbed" for the epoch of pending     *)
(* acquisitions), so no counter is needed.  Readings taken by one guard or *)
(* one look at the browser are taken together.                             *)
(*                                                                         *)
(* Deadlines may pass at any moment.  The scanner tabs share one window    *)
(* with a tab of the user's own.                                           *)
(***************************************************************************)
EXTENDS Integers, Sequences, FiniteSets

CONSTANTS
    ScannerTabs,           \* the tabs of scanners
    Manual,                \* the user's own tab in the same window
    Requests,              \* messages the worker may be working on at once
    MAX_LATE,              \* bound: selections whose event is still to come
    MAX_LEASES,            \* bound: turns granted
    MAX_DISTURBANCES       \* bound: what the user, the windows and the coordinator
                           \* do; tickets, acquisitions and requests that time out

Nobody == "none"

ASSUME WorkspaceConstants ==
    /\ Manual \notin ScannerTabs /\ Nobody \notin ScannerTabs \union Requests \union {Manual}
    /\ "error" \notin ScannerTabs \union {Manual}
    /\ {MAX_LATE, MAX_LEASES, MAX_DISTURBANCES} \subseteq Nat

VARIABLES
    selected, front,            \* the selected tab; whether its window has the focus
    activations,                \* selections whose event has not arrived yet
    managed, gen,               \* scanners' tabs and generations, in storage
    paused, userActive,             \* verification; the user was active just now
    registered,                 \* tabs the worker knows
    waiting, lease, expected,   \* the queue, the turn, the activation to come
    flight, req,                \* the lock (focusInFlight); requests being worked on
    notices, replies,           \* revocations and grants on their way to the documents
    turn, known,                \* a document's turn; the revocations it knows
    issued, disturbances,             \* bounds
    passed                      \* ghost: tab -> the turns of each other since it queued

windowVars   == <<selected, front, activations>>
settings  == <<managed, gen, paused>>
memory    == <<registered, waiting, lease, expected, userActive>>
work      == <<flight, req>>
documentVars == <<notices, replies, turn, known>>
turnBounds    == <<issued, disturbances>>
workspaceVars      == <<windowVars, settings, memory, work, documentVars, turnBounds, passed>>

(* The queue is a Map in the order of insertion: a ticket says who is ahead.*)
Ticket == [gen : Nat, stale : BOOLEAN, ahead : SUBSET ScannerTabs]
IsQueue(q) ==
    /\ DOMAIN q \subseteq ScannerTabs /\ q \in [DOMAIN q -> Ticket]
    /\ \A t \in DOMAIN q : q[t].ahead \subseteq DOMAIN q \ {t}
    /\ \A t, u \in DOMAIN q : t # u => (t \in q[u].ahead <=> u \notin q[t].ahead)
    /\ \A t, u \in DOMAIN q : t \in q[u].ahead => q[t].ahead \subseteq q[u].ahead
NoQueue == [t \in {} |-> 0]
TabLease  == [tab : ScannerTabs, gen : Nat, id : Nat \ {0}, over : BOOLEAN]
NoLease == [tab |-> Nobody, gen |-> 0, id |-> 0, over |-> TRUE]
NoTurns == [t \in ScannerTabs |-> 0]
NoRequest == [pc |-> "idle", tab |-> Nobody, gen |-> 0, live |-> FALSE, undisturbed |-> FALSE,
              behind |-> FALSE, seen |-> Nobody, commanded |-> FALSE, answered |-> FALSE]
Before == {"look1", "guard2", "turn"}      \* a request's awaits before its turn in the queue,
Beyond == {"guard3", "look3", "choose", "update", "look4", "guard5", "grant"}
                                           \* and after
Request == [pc : {"idle"} \union Before \union Beyond, tab : ScannerTabs \union {Nobody},
            gen : Nat, live : BOOLEAN, undisturbed : BOOLEAN, behind : BOOLEAN,
            seen : ScannerTabs \union {Manual, Nobody, "error"},
            commanded : BOOLEAN, answered : BOOLEAN]

WorkspaceTypes ==
    /\ selected \in ScannerTabs \union {Manual} /\ activations \in Seq(ScannerTabs \union {Manual})
    /\ front \in BOOLEAN /\ paused \in BOOLEAN /\ userActive \in BOOLEAN
    /\ managed \subseteq ScannerTabs /\ registered \subseteq ScannerTabs
    /\ gen \in [ScannerTabs -> Nat \ {0}]
    /\ IsQueue(waiting) /\ passed \in [ScannerTabs -> [ScannerTabs -> Nat]]
    /\ lease \in TabLease \union {NoLease} /\ lease.id <= issued
    /\ expected \in ScannerTabs \union {Nobody}
    /\ flight \in Requests \union {Nobody} /\ req \in [Requests -> Request]
    /\ issued \in 0..MAX_LEASES /\ disturbances \in 0..MAX_DISTURBANCES
    /\ notices \subseteq ScannerTabs \X (1..issued) /\ replies \subseteq ScannerTabs \X (1..issued)
    /\ turn \in [ScannerTabs -> 0..issued] /\ known \in [ScannerTabs -> SUBSET (1..issued)]
    \* only the holder of the lock is past its turn in the queue
    /\ \A r \in Requests : req[r].live /\ req[r].pc \in Beyond => flight = r

WorkspaceInit ==
    /\ selected = Manual /\ front = FALSE /\ activations = <<>>
    /\ managed = ScannerTabs /\ gen = [t \in ScannerTabs |-> 1]
    /\ paused = FALSE /\ userActive = FALSE
    /\ registered = ScannerTabs /\ waiting = NoQueue /\ lease = NoLease /\ expected = Nobody
    /\ flight = Nobody /\ req = [r \in Requests |-> NoRequest]
    /\ notices = {} /\ replies = {}
    /\ turn = [t \in ScannerTabs |-> 0] /\ known = [t \in ScannerTabs |-> {}]
    /\ issued = 0 /\ disturbances = 0 /\ passed = [t \in ScannerTabs |-> NoTurns]

Disturbs == /\ disturbances < MAX_DISTURBANCES
            /\ disturbances' = disturbances + 1 /\ UNCHANGED issued

-----------------------------------------------------------------------------
(* Turns and tickets                                                       *)

Running == ~lease.over
(* The document is told; that leaves no trace where neither the turn nor a *)
(* grant of it is left.                                                    *)
Notified(L) == IF L.id # 0 /\ (turn[L.tab] = L.id \/ <<L.tab, L.id>> \in replies)
               THEN notices \union {<<L.tab, L.id>>} ELSE notices
Counted(q)  == passed' = [t \in ScannerTabs |-> IF t \in DOMAIN q THEN passed[t] ELSE NoTurns]

(* revoke: no request begun before may act any more.  Whatever it awaits,  *)
(* it ends at its next comparison, unless Chrome has a command of it.      *)
SameEpoch(requests) == requests       \* mutant: the epoch is not bumped
Dead(requests) == [r \in Requests |->
    IF requests[r].pc = "idle" \/ requests[r].commanded THEN [requests[r] EXCEPT !.live = FALSE]
    ELSE [NoRequest EXCEPT !.pc = "turn", !.tab = requests[r].tab,
                           !.answered = requests[r].answered]]
Revoke(requests) ==
    /\ req' = Dead(requests) /\ lease' = NoLease /\ expected' = Nobody /\ waiting' = NoQueue
    /\ notices' = Notified(lease) /\ Counted(NoQueue)

(* A known ticket keeps its place, also when its generation is another.    *)
Enqueued(q, t, g) ==
    [u \in DOMAIN q \union {t} |->
        IF u # t THEN q[u]
        ELSE [gen |-> g, stale |-> FALSE,
              ahead |-> IF t \in DOMAIN q THEN q[t].ahead ELSE DOMAIN q]]
Without(q, out) == [t \in DOMAIN q \ out |-> [q[t] EXCEPT !.ahead = @ \ out]]
Fresh(q) == Without(q, {t \in DOMAIN q : t \notin registered \/ q[t].stale})
AnyTurn(q, t) == t \in DOMAIN q        \* mutant: whoever asks when the slot is free
IsHead(q, t)  == t \in DOMAIN q /\ q[t].ahead = {}

AuthorizedScanner(t, g) == t \in managed /\ gen[t] = g
Eligible(r) == /\ ~paused /\ ~userActive /\ req[r].tab \in registered
               /\ AuthorizedScanner(req[r].tab, req[r].gen)
Valid(r) == req[r].live /\ req[r].undisturbed

(* contextFor: in a focused window a tab of the user's own is left alone.  *)
Context(t) == IF t \notin registered \/ (front /\ selected \notin registered)
              THEN "error" ELSE selected

-----------------------------------------------------------------------------
(* A request                                                               *)

Awaits(r, pc) == req[r].pc = pc
Proceeds(r, pc) == req' = [req EXCEPT ![r].pc = pc]
Unlock(r) == flight' = IF flight = r THEN Nobody ELSE flight
Ends(r) == req' = [req EXCEPT ![r] = NoRequest] /\ Unlock(r)
Denied(r) == Ends(r) /\ UNCHANGED <<windowVars, settings, memory, documentVars, turnBounds,
                                    passed>>

(* request: a contender never holds the lock, nor waits for it.            *)
Returning(t, g) == Running /\ lease.tab = t /\ lease.gen = g
QueuedBehind(t, g) == DOMAIN waiting # {} /\ ~IsHead(waiting, t) /\ ~Returning(t, g)
Ask(r, t) ==
    /\ Awaits(r, "idle") /\ \A s \in Requests : req[s].tab # t \/ req[s].answered
    /\ IF flight # Nobody
       THEN /\ waiting' = IF t \in registered THEN Enqueued(waiting, t, gen[t]) ELSE waiting
            /\ waiting' # waiting /\ UNCHANGED work
       ELSE /\ req' = [req EXCEPT ![r] =
                         [NoRequest EXCEPT !.pc = "look1", !.tab = t, !.gen = gen[t], !.live = TRUE,
                             !.undisturbed = TRUE, !.behind = QueuedBehind(t, gen[t])]]
            /\ flight' = IF QueuedBehind(t, gen[t]) THEN Nobody ELSE r
            /\ UNCHANGED waiting
    /\ UNCHANGED <<windowVars, settings, registered, lease, expected, userActive,
                   documentVars, turnBounds, passed>>

(* guard: the readings, then the epochs once more when it returns.         *)
After == [guard2 |-> "turn", guard3 |-> "look3", guard5 |-> "grant"]
Guard(r) ==
    /\ req[r].pc \in DOMAIN After
    /\ \/ ~Eligible(r) /\ Denied(r)
       \/ /\ Eligible(r) /\ Proceeds(r, After[req[r].pc])
          /\ UNCHANGED <<windowVars, settings, memory, flight, documentVars, turnBounds,
                         passed>>

Then == [look1 |-> "guard2", look3 |-> "choose", look4 |-> "guard5"]
Look(r) ==
    /\ req[r].pc \in DOMAIN Then
    /\ \/ ~Valid(r) /\ Denied(r)
       \/ /\ Valid(r)
          /\ req' = [req EXCEPT ![r].pc = Then[@], ![r].seen = Context(req[r].tab)]
          /\ UNCHANGED <<windowVars, settings, memory, flight, documentVars, turnBounds,
                         passed>>

(* Its turn?  The queue decides, but for the owner of the running turn.    *)
TakeTurn(r) ==
    /\ Awaits(r, "turn")
    /\ LET t == req[r].tab
           g == req[r].gen
           fresh == Fresh(waiting)
           queued == Enqueued(fresh, t, g)
       IN \/ (~Valid(r) \/ req[r].seen = "error") /\ Denied(r)
          \/ /\ Valid(r) /\ req[r].seen # "error"
             /\ req[r].behind \/ (Running /\ ~Returning(t, g))
             /\ waiting' = queued /\ Counted(fresh) /\ Ends(r)
             /\ UNCHANGED <<windowVars, settings, turnBounds, registered, lease, expected,
                            userActive, documentVars>>
          \/ /\ Valid(r) /\ req[r].seen # "error" /\ ~req[r].behind /\ Returning(t, g)
             /\ waiting' = fresh /\ Counted(fresh) /\ Ends(r)
             /\ IF req[r].seen # t
                THEN lease' = NoLease /\ notices' = Notified(lease) /\ UNCHANGED replies
                ELSE replies' = (IF req[r].answered THEN replies
                                 ELSE replies \union {<<t, lease.id>>})
                     /\ UNCHANGED <<lease, notices>>
             /\ UNCHANGED <<windowVars, settings, turnBounds, registered, expected,
                            userActive, turn, known>>
          \/ /\ Valid(r) /\ req[r].seen # "error" /\ ~req[r].behind /\ ~Running
             /\ lease' = NoLease /\ notices' = Notified(lease)
             /\ waiting' = queued /\ Counted(fresh)
             /\ IF IsHead(queued, t) THEN Proceeds(r, "guard3") /\ UNCHANGED flight ELSE Ends(r)
             /\ UNCHANGED <<windowVars, settings, turnBounds, registered, expected,
                            userActive, replies, turn, known>>

(* The last synchronous look at the epochs, then the command to Chrome.    *)
DispatchLive(r) == req[r].live      \* mutant: a change of focus is no reason to stop
MayDispatch(r) == Valid(r)
Choose(r) ==
    /\ Awaits(r, "choose")
    /\ LET t == req[r].tab
       IN \/ (~MayDispatch(r) \/ req[r].seen = "error") /\ Denied(r)
          \/ /\ MayDispatch(r) /\ req[r].seen # "error"
             /\ IF req[r].seen # t
                THEN expected' = t /\ req' = [req EXCEPT ![r].pc = "update", ![r].commanded = TRUE]
                ELSE Proceeds(r, "look4") /\ UNCHANGED expected
             /\ UNCHANGED <<windowVars, settings, turnBounds, registered, waiting, lease,
                            userActive, flight, documentVars, passed>>

(* Chrome selects the tab, or cannot.                                      *)
Updated(r) ==
    /\ Awaits(r, "update")
    /\ \/ /\ selected' = req[r].tab /\ Len(activations) < MAX_LATE
          /\ activations' = IF selected = req[r].tab THEN activations
                            ELSE Append(activations, req[r].tab)
          /\ req' = [req EXCEPT ![r].pc = "look4", ![r].seen = Nobody, ![r].commanded = FALSE]
          /\ UNCHANGED <<flight, expected, turnBounds>>
       \/ /\ expected' = (IF flight = r THEN Nobody ELSE expected)
          /\ Ends(r) /\ Disturbs /\ UNCHANGED <<selected, activations>>
    /\ UNCHANGED <<front, settings, registered, waiting, lease, userActive, documentVars,
                   passed>>

(* The grant itself: a last comparison with the epochs.                    *)
Grant(r) ==
    /\ Awaits(r, "grant")
    /\ LET t == req[r].tab
           left == Without(waiting, {t})
       IN \/ (~Valid(r) \/ req[r].seen # t) /\ Denied(r)
          \/ /\ Valid(r) /\ req[r].seen = t /\ issued < MAX_LEASES
             /\ issued' = issued + 1
             /\ lease' = [tab |-> t, gen |-> req[r].gen, id |-> issued + 1, over |-> FALSE]
             /\ waiting' = left
             /\ passed' = [u \in ScannerTabs |->
                             IF u \in DOMAIN left THEN [passed[u] EXCEPT ![t] = @ + 1] ELSE NoTurns]
             /\ replies' = IF req[r].answered THEN replies ELSE replies \union {<<t, issued + 1>>}
             /\ Ends(r)
             /\ UNCHANGED <<windowVars, settings, registered, expected, userActive,
                            notices, turn, known, disturbances>>

(* A request that takes too long is answered.  If it holds the lock, it    *)
(* loses its authority first; and the lock too, unless Chrome still has a  *)
(* command of it.                                                          *)
UnlockedAtOnce(r) == Nobody       \* mutant: whatever Chrome is still to do
Unlocked(r) == IF req[r].commanded THEN flight ELSE Nobody
TimesOut(r) ==
    /\ ~Awaits(r, "idle") /\ ~req[r].answered /\ Disturbs
    /\ LET answered == [req EXCEPT ![r].answered = TRUE]
       IN IF flight = r THEN Revoke(answered) /\ flight' = Unlocked(r)
          ELSE req' = answered /\ UNCHANGED <<flight, waiting, lease, expected, notices,
                                              passed>>
    /\ UNCHANGED <<windowVars, settings, registered, userActive, replies, turn, known>>

-----------------------------------------------------------------------------
(* The end of turns                                                        *)

(* The worker and the document read the same clock.                        *)
LeaseRunsOut ==
    /\ Running /\ lease' = [lease EXCEPT !.over = TRUE]
    /\ replies' = replies \ {<<lease.tab, lease.id>>}
    /\ turn' = [turn EXCEPT ![lease.tab] = IF @ = lease.id THEN 0 ELSE @]
    /\ UNCHANGED <<windowVars, settings, registered, waiting, expected, userActive, work,
                   notices, known, turnBounds, passed>>

(* The lease's timer; a head that may not ask any more loses its ticket.   *)
Hinted(q) ==
    LET may == {t \in DOMAIN q : AuthorizedScanner(t, q[t].gen)}
    IN  Without(q, {t \in DOMAIN q \ may : q[t].ahead \intersect may = {}})
HintWaitingHead ==
    \E q \in {waiting, IF flight # Nobody \/ userActive THEN waiting ELSE Hinted(Fresh(waiting))} :
        waiting' = q /\ Counted(q)
LeaseEnds ==
    /\ lease # NoLease /\ lease.over /\ lease' = NoLease /\ notices' = Notified(lease)
    /\ HintWaitingHead
    /\ UNCHANGED <<windowVars, settings, registered, expected, userActive, work, replies,
                   turn, known, turnBounds>>
Release(t) ==
    /\ turn[t] # 0 /\ turn' = [turn EXCEPT ![t] = 0]
    /\ IF Running /\ lease.tab = t /\ lease.id = turn[t]
          /\ ~paused /\ ~userActive /\ t \in registered /\ AuthorizedScanner(t, lease.gen)
       THEN lease' = NoLease /\ notices' = Notified(lease) /\ HintWaitingHead
       ELSE UNCHANGED <<lease, notices, waiting, passed>>
    /\ UNCHANGED <<windowVars, settings, registered, expected, userActive, work, replies,
                   known, turnBounds>>
TicketAges ==
    /\ Disturbs /\ \E t \in DOMAIN waiting : waiting' = [waiting EXCEPT ![t].stale = TRUE]
    /\ UNCHANGED <<windowVars, settings, registered, lease, expected, userActive, work,
                   documentVars, passed>>
ExpectationEnds ==
    /\ expected # Nobody /\ Disturbs /\ expected' = Nobody
    /\ UNCHANGED <<windowVars, settings, registered, waiting, lease, userActive, work,
                   documentVars, passed>>
ActivityEnds ==
    /\ userActive /\ userActive' = FALSE
    /\ UNCHANGED <<windowVars, settings, registered, waiting, lease, expected, work,
                   documentVars, turnBounds, passed>>

-----------------------------------------------------------------------------
(* The windows and the rest of the extension                               *)

UserSelects(x) ==
    /\ selected # x /\ Len(activations) < MAX_LATE /\ Disturbs
    /\ selected' = x /\ activations' = Append(activations, x)
    /\ UNCHANGED <<front, settings, memory, work, documentVars, passed>>

(* tabs.onActivated: an activation nobody expects is the user's.           *)
Activated ==
    /\ activations # <<>> /\ activations' = Tail(activations)
    /\ IF Head(activations) = expected
       THEN expected' = Nobody /\ UNCHANGED <<req, lease, waiting, notices, userActive,
                                              passed>>
       ELSE Revoke(req) /\ userActive' = (userActive \/ Head(activations) \in registered)
    /\ UNCHANGED <<selected, front, settings, registered, flight, replies, turn, known,
                   turnBounds>>

UserActive(t) ==
    /\ t \in registered /\ Disturbs /\ Revoke(req) /\ userActive' = TRUE
    /\ UNCHANGED <<windowVars, settings, registered, flight, replies, turn, known>>

(* windows.onFocusChanged: acquisitions under way are over, turns are not. *)
FocusChanges ==
    /\ Disturbs /\ front' = ~front
    /\ req' = [r \in Requests |-> [req[r] EXCEPT !.undisturbed = FALSE]]
    /\ expected' = IF Running /\ expected = lease.tab THEN expected ELSE Nobody
    /\ UNCHANGED <<selected, activations, settings, registered, waiting, lease, userActive,
                   flight, documentVars, passed>>

(* A bot check closes authorization before anything is stored.             *)
PauseBegins ==
    /\ ~paused /\ Disturbs /\ paused' = TRUE /\ Revoke(req)
    /\ UNCHANGED <<windowVars, managed, gen, registered, userActive, flight, replies, turn,
                   known>>
PauseEnds ==
    /\ paused /\ paused' = FALSE
    /\ UNCHANGED <<windowVars, managed, gen, memory, work, documentVars, turnBounds,
                   passed>>

(* A target ends, a scanner's tab changes; the workspace hears of it later.*)
Supersede(t) ==
    /\ Disturbs /\ gen' = [gen EXCEPT ![t] = @ + 1]
    /\ managed' \in {managed \union {t}, managed \ {t}}
    /\ UNCHANGED <<windowVars, paused, memory, work, documentVars, passed>>
Sync ==
    /\ registered # managed /\ registered' = managed
    /\ LET left == Without(waiting, DOMAIN waiting \ managed)
       IN IF lease # NoLease /\ lease.tab \notin managed THEN Revoke(req)
          ELSE waiting' = left /\ Counted(left) /\ UNCHANGED <<req, lease, expected,
                                                               notices>>
    /\ UNCHANGED <<windowVars, settings, userActive, flight, replies, turn, known,
                   turnBounds>>

(* Messages reach a document in any order: it keeps the identities of what *)
(* was revoked for as long as a grant of it may still arrive.              *)
AcceptsAny(t, id) == TRUE       \* mutant: what was revoked before it came counts
Accepts(t, id) == id \notin known[t]
Granted(t, id) ==
    /\ <<t, id>> \in replies /\ replies' = replies \ {<<t, id>>}
    /\ turn' = [turn EXCEPT ![t] = IF Accepts(t, id) THEN id ELSE @]
    /\ UNCHANGED <<windowVars, settings, memory, work, notices, known, turnBounds, passed>>
Revoked(t, id) ==
    /\ <<t, id>> \in notices /\ notices' = notices \ {<<t, id>>}
    /\ known' = [known EXCEPT ![t] = IF <<t, id>> \in replies THEN @ \union {id} ELSE @]
    /\ turn' = [turn EXCEPT ![t] = IF @ = id THEN 0 ELSE @]
    /\ UNCHANGED <<windowVars, settings, memory, work, replies, turnBounds, passed>>

-----------------------------------------------------------------------------

RequestStep(r) == Guard(r) \/ Look(r) \/ TakeTurn(r) \/ Choose(r) \/ Updated(r) \/ Grant(r)
WorkspaceNext ==
    \/ \E r \in Requests : RequestStep(r) \/ TimesOut(r) \/ \E t \in ScannerTabs : Ask(r, t)
    \/ LeaseRunsOut \/ LeaseEnds \/ TicketAges \/ ExpectationEnds \/ ActivityEnds
    \/ Activated \/ FocusChanges \/ PauseBegins \/ PauseEnds \/ Sync
    \/ \E x \in ScannerTabs \union {Manual} : UserSelects(x)
    \/ \E t \in ScannerTabs : Release(t) \/ UserActive(t) \/ Supersede(t)
    \/ \E t \in ScannerTabs : \E id \in 1..issued : Granted(t, id) \/ Revoked(t, id)

WorkspaceSpec == WorkspaceInit /\ [][WorkspaceNext]_workspaceVars

-----------------------------------------------------------------------------
(* Properties                                                              *)

(* Chrome has one command at a time, also when the request that gave it    *)
(* has timed out and others have come since.                               *)
OneCommand == Cardinality({r \in Requests : req[r].commanded}) <= 1

(* A running turn belongs to the tab that is selected, as far as the       *)
(* window's activations have arrived; and neither verification nor input of*)
(* the user's leaves a turn behind, nor does a request that was under way  *)
(* obtain one.                                                             *)
TurnsEndInTime ==
    /\ Running => selected = lease.tab \/ activations # <<>>
    /\ paused \/ userActive => lease = NoLease
(* A document that believes in a turn has it, or its revocation is on the  *)
(* way, in whatever order grants and revocations arrive.                   *)
TurnIsBacked == \A t \in ScannerTabs : turn[t] # 0 =>
    (lease.tab = t /\ lease.id = turn[t]) \/ <<t, turn[t]>> \in notices

(* Types, and what requests, the lease and the documents agree on.         *)
WorkspaceInvariant == WorkspaceTypes /\ OneCommand /\ TurnsEndInTime /\ TurnIsBacked

(* A tab that queues is passed over by each of the others at most once.    *)
NobodyIsOvertaken == \A u, t \in ScannerTabs : passed[u][t] <= 1

(* In a window that has the focus, the user's own tab stays selected.      *)
Dispatches == \E r \in Requests : req'[r].commanded /\ ~req[r].commanded
UserTabIsLeftAlone == [][Dispatches => ~front \/ selected # Manual \/ activations # <<>>]_workspaceVars

(* What makes them so.  A request that is past its turn in the queue, or   *)
(* whose command Chrome has, holds the lock, and nobody has a turn; input  *)
(* and verification end requests as well as turns.                         *)
Past(r) == req[r].live /\ req[r].pc \in Beyond
HolderIsAlone ==
    /\ \A r \in Requests :
          /\ req[r].pc # "idle" => req[r].tab \in ScannerTabs
          /\ req[r].live => req[r].pc # "idle" /\ (req[r].behind \/ flight = r)
          /\ Past(r) => ~req[r].behind
          /\ (req[r].commanded <=> req[r].pc = "update") /\ (req[r].commanded => flight = r)
          /\ Past(r) \/ req[r].commanded => lease = NoLease
          /\ req[r].live /\ req[r].pc \notin {"look1", "guard2"} => ~paused /\ ~userActive
    /\ paused \/ userActive => lease = NoLease

(* The last activation to come is of the selected tab; one that is expected*)
(* comes, or Chrome still has the command for it.                          *)
ToCome(x) == \E k \in DOMAIN activations : activations[k] = x
ExpectedComes ==
    /\ activations # <<>> => activations[Len(activations)] = selected
    /\ expected # Nobody =>
          \/ \E r \in Requests : req[r].commanded /\ req[r].tab = expected /\ selected # expected
          \/ ToCome(expected)
    /\ \A r \in Requests : req[r].commanded /\ expected # Nobody => req[r].tab = expected

(* When something else was selected than a turn or a request relies on, an *)
(* activation is to come besides the one that is expected.                 *)
Noticed == Len(activations) > IF expected = Nobody THEN 0 ELSE 1
SelectionIsNoticed ==
    /\ Running => selected = lease.tab \/ Noticed
    /\ \A r \in Requests :
          /\ req[r].live /\ req[r].pc \in {"guard5", "grant"} /\ req[r].seen = req[r].tab =>
                selected = req[r].tab \/ Noticed
          /\ req[r].live /\ Awaits(r, "choose") /\ req[r].seen \notin {req[r].tab, "error"} =>
                selected # req[r].tab \/ Noticed
          /\ Valid(r) /\ Awaits(r, "choose") /\ req[r].seen # "error" =>
                ~front \/ selected # Manual \/ Noticed

(* A grant on its way is of the turn there is, or of one whose revocation  *)
(* is on its way or came before it.                                        *)
GrantsAreBacked == \A g \in replies :
    (lease.tab = g[1] /\ lease.id = g[2]) \/ g \in notices \/ g[2] \in known[g[1]]

(* Nobody ahead of a tab, nor who is about to get a turn, had one before   *)
(* since that tab queued.                                                  *)
PlacesAreKept ==
    /\ \A u \in ScannerTabs \ DOMAIN waiting : passed[u] = NoTurns
    /\ \A u \in DOMAIN waiting : \A t \in waiting[u].ahead : passed[u][t] = 0
    /\ \A r \in Requests : Past(r) =>
          \A u \in DOMAIN waiting \ {req[r].tab} : passed[u][req[r].tab] = 0

TurnInvariant ==
    /\ WorkspaceTypes /\ HolderIsAlone /\ ExpectedComes /\ SelectionIsNoticed
    /\ TurnIsBacked /\ GrantsAreBacked /\ PlacesAreKept /\ NobodyIsOvertaken

=============================================================================
