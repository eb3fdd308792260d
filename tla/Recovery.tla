------------------------------ MODULE Recovery ------------------------------
(***************************************************************************)
(* The supervisor on the host (src/browser_recovery.py): it reads the      *)
(* browser's last heartbeat from the notifier's health page, opens the     *)
(* reviewer page when the heartbeat has gone, and starts the notifier when *)
(* that does not answer.  It must not open tab after tab, nor any while    *)
(* the owner stopped the scan or a verification waits for him, and it must *)
(* remember so over its own deaths and over the notifier's, which forgets  *)
(* the heartbeat.                                                          *)
(*                                                                         *)
(* A tick reads the clock once; what it starts takes time, writes may      *)
(* fail, and the supervisor may be killed between any two of them.  Its    *)
(* lock admits one instance.  A tick that finds its settings unreadable    *)
(* does nothing.                                                           *)
(***************************************************************************)
EXTENDS Integers, FiniteSets

CONSTANTS
    STALE,          \* staleHeartbeatSeconds
    COOLDOWN,       \* launchCooldownSeconds
    HOUR,           \* 3600
    MAX_LAUNCHES,   \* maxChromeLaunchesPerHour
    GRACE,          \* _STARTUP_GRACE
    BACKEND_RETRY, DOCKER_RETRY,
    MAX_CLOCK,       \* bound: the clock
    MAX_EVENTS      \* bound: heartbeats, Chrome or the notifier coming or going, new
                    \* settings, kills, writes and readings that fail

ASSUME RecoveryConstants ==
    /\ {STALE, COOLDOWN, HOUR, MAX_LAUNCHES, GRACE, BACKEND_RETRY, DOCKER_RETRY, MAX_CLOCK} \subseteq Nat \ {0}
    /\ MAX_EVENTS \in Nat

VARIABLES
    clock, events,        \* bounds
    chrome, notifier,   \* they run
    report,             \* the heartbeat that the notifier holds
    minutes,            \* the saved refresh: "none" (no file), "off" or "on"
    disk,               \* browser-recovery-state.json
    phase, tick,           \* the supervisor: its step; what its tick has read and decided
    started, state,     \* its memory: when it started, what it knows
    launched,           \* ghost: the times of the ticks that opened the page
    unanswered,         \* ghost: it opened a page and has since neither read a fresh
                        \* heartbeat of a reachable tab nor found Chrome gone
    heard,              \* ghost: the last fresh heartbeat read, and the one that was the last
                        \* when the file was written
    composed, docked    \* ghosts: the ticks that last started the notifier, Docker

world  == <<chrome, notifier, report, minutes>>
memory == <<tick, started, state>>
ghosts == <<launched, unanswered, heard, composed, docked>>
supervisorVars   == <<clock, events, world, disk, phase, memory, ghosts>>
at     == tick.at

Times     == 0..MAX_CLOCK
Heartbeat == [at : Times, waiting : BOOLEAN, off : BOOLEAN, until : Nat, reachable : BOOLEAN]
NoReport  == [at |-> 0, waiting |-> FALSE, off |-> FALSE, until |-> 0, reachable |-> FALSE]
Unheard   == [read |-> NoReport, saved |-> NoReport]
State     == [lastLaunch : Times, launches : SUBSET Times, outageLaunched : BOOLEAN, pausedUntil : Nat,
              waitingVerification : BOOLEAN, refreshDisabled : BOOLEAN, lastBackendAttempt : Times,
              lastDockerLaunch : Times, lastHeartbeatAt : Times]
DefaultState ==
    [lastLaunch |-> 0, launches |-> {}, outageLaunched |-> FALSE, pausedUntil |-> 0, waitingVerification |-> FALSE,
     refreshDisabled |-> FALSE, lastBackendAttempt |-> 0, lastDockerLaunch |-> 0, lastHeartbeatAt |-> 0]
NoTick == [at |-> 0, launch |-> FALSE, saw |-> FALSE]
Phases == {"down", "idle", "backend", "docker", "compose", "desktop", "commit", "launch"}

SupervisorTypes ==
    /\ clock \in Times \ {0} /\ events \in 0..MAX_EVENTS
    /\ {chrome, notifier} \subseteq BOOLEAN /\ report \in Heartbeat /\ minutes \in {"none", "off", "on"}
    /\ disk \in State /\ state \in State
    /\ phase \in Phases /\ tick \in [at : Times, launch : BOOLEAN, saw : BOOLEAN] /\ started \in Times
    /\ launched \subseteq Times /\ unanswered \in BOOLEAN /\ heard \in [read : Heartbeat, saved : Heartbeat]
    /\ composed \in Times /\ docked \in Times

SupervisorInit ==
    /\ clock = 1 /\ events = 0
    /\ chrome \in BOOLEAN /\ notifier \in BOOLEAN /\ report = NoReport /\ minutes \in {"none", "on"}
    /\ disk = DefaultState
    /\ phase = "down" /\ tick = NoTick /\ started = 0 /\ state = DefaultState
    /\ launched = {} /\ unanswered = FALSE /\ heard = Unheard /\ composed = 0 /\ docked = 0

Happens == events < MAX_EVENTS /\ events' = events + 1

-----------------------------------------------------------------------------
(* What a tick makes of the heartbeat                                      *)

Fresh(r, t) == t - r.at <= STALE
StaleClears(r, t) == TRUE               \* mutant: a stale heartbeat clears what it does not report
Clears(r, t) == Fresh(r, t)
Within(t, span) == {l \in Times : t - span < l /\ l <= t}
Later(x, y) == IF x < y THEN y ELSE x
(* _observe: a stale heartbeat may add a reason to wait; only a fresh one  *)
(* takes one away.                                                         *)
Observed(s, r, t) ==
    LET recent == [s EXCEPT !.launches = @ \intersect Within(t, HOUR)]
        learnt == [recent EXCEPT !.lastHeartbeatAt = Later(@, r.at),
                                 !.waitingVerification = @ \/ r.waiting,
                                 !.refreshDisabled = @ \/ r.off,
                                 !.pausedUntil = Later(@, r.until)]
    IN IF r = NoReport THEN recent
       ELSE IF ~Clears(r, t) THEN learnt
       ELSE [learnt EXCEPT !.refreshDisabled = r.off,
                           !.waitingVerification = r.waiting,
                           !.pausedUntil = IF r.waiting THEN @ ELSE r.until,
                           !.outageLaunched = @ /\ ~r.reachable]

(* recovery_decision                                                       *)
Stopped(s) == minutes = "off" \/ (minutes = "none" /\ s.refreshDisabled)
Paused(s, t) == s.waitingVerification \/ s.pausedUntil > t
Silent(s, r, t, running) ==
    /\ r # NoReport => ~Fresh(r, t)
    /\ running /\ r = NoReport =>
          /\ s.lastHeartbeatAt # 0 => t - s.lastHeartbeatAt > STALE
          /\ s.lastHeartbeatAt = 0 => t - started >= GRACE
BudgetedLoosely(s, t) ==                \* mutant: the limit is passed by one
    /\ s.lastLaunch # 0 => t - s.lastLaunch >= COOLDOWN
    /\ Cardinality(s.launches \intersect Within(t, HOUR)) <= MAX_LAUNCHES
Budgeted(s, t) ==
    /\ s.lastLaunch # 0 => t - s.lastLaunch >= COOLDOWN
    /\ Cardinality(s.launches \intersect Within(t, HOUR)) < MAX_LAUNCHES
MayLaunch(s, r, t, running) ==
    /\ ~Stopped(s) /\ ~Paused(s, t)
    /\ Silent(s, r, t, running)
    /\ ~(running /\ s.outageLaunched)
    /\ Budgeted(s, t)

-----------------------------------------------------------------------------
(* The supervisor                                                          *)

(* _persist: nothing is written that is written already; a write that      *)
(* fails ends the tick and leaves the file as it was.                      *)
Persist(s, step, last) ==
    /\ state' = s
    /\ \/ disk' = s /\ phase' = step /\ UNCHANGED events
       \/ disk # s /\ Happens /\ phase' = "idle" /\ UNCHANGED disk
    /\ heard' = [read |-> last, saved |-> IF disk' = s THEN last ELSE heard.saved]
Save(s, step) == Persist(s, step, heard.read)
Goes == started' = started /\ tick' = IF phase' = "idle" THEN NoTick ELSE tick
Skip(step) == phase' = step /\ UNCHANGED <<events, disk, state, heard>>

(* A file that cannot be read or is no state is taken for none, and what   *)
(* it remembered is gone.                                                  *)
Begin ==
    /\ phase = "down" /\ phase' = "idle" /\ started' = clock
    /\ \/ /\ state' = disk /\ heard' = [heard EXCEPT !.read = heard.saved]
          /\ UNCHANGED <<events, disk, launched, unanswered, composed, docked>>
       \/ /\ Happens /\ state' = DefaultState /\ disk' = DefaultState
          /\ launched' = {} /\ unanswered' = FALSE /\ heard' = Unheard /\ composed' = 0 /\ docked' = 0
    /\ UNCHANGED <<clock, world, tick>>
Die ==
    /\ phase # "down" /\ Happens /\ phase' = "down"
    /\ tick' = NoTick /\ started' = 0 /\ state' = DefaultState /\ heard' = [heard EXCEPT !.read = NoReport]
    /\ UNCHANGED <<clock, world, disk, launched, unanswered, composed, docked>>

(* tick: the health page, its lesson and the decision.  The list of        *)
(* processes may fail, and then shows no Chrome.                           *)
Health == IF notifier THEN report ELSE NoReport
AfterBackend(go) == IF go THEN "commit" ELSE "idle"
TickOnce ==
    /\ phase = "idle"
    /\ \E running \in IF events < MAX_EVENTS THEN {chrome, FALSE} ELSE {chrome} :
       LET s  == Observed(state, Health, clock)
           go == MayLaunch(s, Health, clock, running)
           fresh == Health # NoReport /\ Fresh(Health, clock)
       IN /\ Persist(s, IF notifier THEN AfterBackend(go) ELSE "backend", IF fresh THEN Health ELSE heard.read)
          /\ tick' = IF phase' = "idle" THEN NoTick ELSE [at |-> clock, launch |-> go, saw |-> running]
          /\ unanswered' = (unanswered /\ running /\ ~(fresh /\ Health.reachable))
    /\ UNCHANGED <<clock, world, started, launched, composed, docked>>

(* _recover_backend: each attempt is saved before it is made.              *)
NeverTooSoon(last, span) == FALSE       \* mutant: attempts are not spaced
TooSoon(last, span) == last # 0 /\ at - last < span
Backend ==
    /\ phase = "backend"
    /\ IF TooSoon(state.lastBackendAttempt, BACKEND_RETRY) THEN Skip(AfterBackend(tick.launch))
       ELSE Save([state EXCEPT !.lastBackendAttempt = at], "docker")
    /\ Goes /\ UNCHANGED <<clock, world, launched, unanswered, composed, docked>>
Docker ==
    /\ phase = "docker"
    /\ \/ Skip("compose")
       \/ IF TooSoon(state.lastDockerLaunch, DOCKER_RETRY) THEN Skip(AfterBackend(tick.launch))
          ELSE Save([state EXCEPT !.lastDockerLaunch = at], "desktop")
    /\ Goes /\ UNCHANGED <<clock, world, launched, unanswered, composed, docked>>
Compose ==
    /\ phase = "compose" /\ phase' = AfterBackend(tick.launch) /\ composed' = at
    /\ notifier' \in {notifier, TRUE}
    /\ Goes /\ UNCHANGED <<clock, events, chrome, report, minutes, disk, state, launched, unanswered, heard, docked>>
Desktop ==
    /\ phase = "desktop" /\ phase' = AfterBackend(tick.launch) /\ docked' = at
    /\ Goes /\ UNCHANGED <<clock, events, world, disk, state, launched, unanswered, heard, composed>>

(* The attempt is saved before it is made; only one that failed for sure   *)
(* opens the outage again.                                                 *)
Uncounted(s) == s                       \* mutant: the attempt is not remembered
Attempt(s) == [s EXCEPT !.lastLaunch = at, !.launches = @ \union {at}, !.outageLaunched = TRUE]
SaveAttempt ==
    /\ phase = "commit"
    /\ Skip("idle") \/ Save(Attempt(state), "launch")          \* no Chrome or no profile found
    /\ Goes /\ UNCHANGED <<clock, world, launched, unanswered, composed, docked>>
Launch ==
    /\ phase = "launch"
    /\ \/ chrome' = TRUE /\ launched' = launched \union {at} /\ unanswered' = TRUE /\ Skip("idle")
       \/ Save([state EXCEPT !.outageLaunched = FALSE], "idle") /\ UNCHANGED <<chrome, launched, unanswered>>
    /\ Goes /\ UNCHANGED <<clock, notifier, report, minutes, composed, docked>>

-----------------------------------------------------------------------------
(* The browser, the notifier, the owner and the clock                      *)

(* What the extension reports: it scans, waits for a verification, sits    *)
(* out a pause, was stopped, or finds no tab that answers.                 *)
Scanning == [NoReport EXCEPT !.at = clock, !.reachable = TRUE]
Reports  == {Scanning, [Scanning EXCEPT !.waiting = TRUE, !.until = clock + 1], [Scanning EXCEPT !.until = clock + 1],
             [Scanning EXCEPT !.off = TRUE], [Scanning EXCEPT !.reachable = FALSE]}
Receive(r) ==
    /\ chrome /\ notifier /\ report' = r
    /\ UNCHANGED <<chrome, notifier, minutes>>
ChromeRuns == chrome' = ~chrome /\ UNCHANGED <<notifier, report, minutes>>
NotifierRuns == notifier' = ~notifier /\ report' = NoReport /\ UNCHANGED <<chrome, minutes>>
Setting == minutes' \in {"off", "on"} \ {minutes} /\ UNCHANGED <<chrome, notifier, report>>
World ==
    /\ Happens
    /\ \/ \E r \in Reports : Receive(r)
       \/ ChromeRuns \/ NotifierRuns \/ Setting
    /\ UNCHANGED <<clock, disk, phase, memory, ghosts>>
Clock ==
    /\ clock < MAX_CLOCK /\ clock' = clock + 1
    /\ UNCHANGED <<events, world, disk, phase, memory, ghosts>>

SupervisorNext == Begin \/ Die \/ TickOnce \/ Backend \/ Docker \/ Compose \/ Desktop \/ SaveAttempt \/ Launch \/ World \/ Clock
SupervisorSpec == SupervisorInit /\ [][SupervisorNext]_supervisorVars

-----------------------------------------------------------------------------
(* Properties                                                              *)

Opens == at \in launched' \ launched

(* The supervisor cannot open tab after tab: by the clock of its ticks,    *)
(* pages are COOLDOWN apart and at most MAX_LAUNCHES in an hour, over its  *)
(* deaths, failing launches and failing writes.                            *)
LaunchesAreBudgeted ==
    \A l \in launched :
        /\ Cardinality(launched \intersect Within(l, HOUR)) <= MAX_LAUNCHES
        /\ \A k \in launched : k < l => l - k >= COOLDOWN

(* In one outage one page is opened: no other while the Chrome that has it *)
(* runs and no reachable tab reported since.                               *)
OneTabPerOutage == [][Opens => ~(tick.saw /\ unanswered)]_supervisorVars

(* A page is opened only if the last fresh heartbeat that was read, in     *)
(* this life or a former one, neither waits for a verification nor is in a *)
(* pause nor stopped by the owner (who may have allowed it again since),   *)
(* and, where Chrome runs, is old: a notifier that forgot it is no outage. *)
Justified ==
    LET last == heard.read IN
    /\ ~last.waiting /\ last.until <= at
    /\ minutes = "none" => ~last.off
    /\ tick.saw /\ last # NoReport => at - last.at > STALE
LaunchesAreJustified == tick.launch => Justified

(* Types, and when pages are opened.                                       *)
RecoveryInvariant == SupervisorTypes /\ LaunchesAreBudgeted /\ LaunchesAreJustified

(* The notifier and Docker are started by attempts that are spaced, over   *)
(* deaths and failing writes.                                              *)
Spaced(last, new, span) == new \notin {last, 0} /\ last # 0 => new - last >= span
AttemptsAreSpaced == [][Spaced(composed, composed', BACKEND_RETRY) /\ Spaced(docked, docked', DOCKER_RETRY)]_supervisorVars
=============================================================================
