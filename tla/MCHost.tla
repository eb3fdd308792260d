------------------------------- MODULE MCHost -------------------------------
(* The relay's host, for TLC.  Its parts share little: the relay's dedupe, *)
(* the Telegram poller and the watchdog share the process, its markers and *)
(* the notifier's waits, which Telegram composes; the supervisor takes the *)
(* heartbeat from its world.  So a behaviour moves one part of the host    *)
(* and leaves the others at rest: the run explores the sum of the parts'   *)
(* behaviours, not their product.                                          *)
EXTENDS Telegram, Recovery, TLC

CONSTANTS i1, i2, r1, r2

VARIABLE part        \* the part of the host that moves

HostInit ==
    /\ part \in {"relay", "poller", "watchdog", "supervisor"}
    /\ RelayInit /\ TelegramInit /\ SupervisorInit
    /\ part # "supervisor" => chrome /\ notifier /\ minutes = "none"

(* In the relay's part one marker stands for the three.  One write or      *)
(* answer fails in it and in the poller's part, two answers and no write in*)
(* the watchdog's.  The poller's files grow longest: its lines are in step *)
(* or not, the others' queue and log hold two.                             *)
Short == /\ Len(logFile') <= 2
         /\ Len(appends') > Len(appends) => Len(appends') + Len(logFile') <= 2
OneMarker == \A m \in Markers \ {"offset"} : markers'[m] = markers[m]

Polls == \/ Prepare \/ PollOnce \/ HandleUpdate \/ Move \/ Reply \/ ReplyEnds \/ SaveOffset
         \/ \E m \in Message : (m.mine \/ m.text = "usehere") /\ Say(m)
Watches == Alert \/ AlertEnds \/ RecordRelay \/ Check \/ CheckEnds \/ Period

HostNext ==
    /\ UNCHANGED part
    /\ \/ /\ part = "relay" /\ Next /\ OneMarker /\ Short /\ failures' <= 1
          /\ UNCHANGED <<telegramVars, supervisorVars>>
       \/ /\ part = "poller" /\ (Polls \/ Persists \/ Killed \/ Restart) /\ failures' <= 1
          /\ UNCHANGED supervisorVars
       \/ /\ part = "watchdog"
          /\ Watches \/ (UNCHANGED failures /\ Persists) \/ Killed \/ Restart
          /\ Short /\ UNCHANGED supervisorVars
       \/ /\ part = "supervisor" /\ SupervisorNext
          /\ UNCHANGED <<vars, telegramVars>>
HostSpec == HostInit /\ [][HostNext]_<<part, vars, telegramVars, supervisorVars>>

(* What a part at rest holds does not tell states apart.                   *)
Moving == IF part = "supervisor" THEN <<part, supervisorVars>> ELSE <<part, vars, telegramVars>>

RelaySymmetry == Permutations(Ids) \union Permutations(Requests)
=============================================================================
