--------------------------- MODULE ScannerCommands ---------------------------
(***************************************************************************)
(* The restarts that the owner requests through scanner-commands.json      *)
(* (src/scanner_control.py, server.py) and the extension's service worker  *)
(* carries out (extension/scanner-control.js, syncCommands), and the       *)
(* status that it mirrors for the owner (syncStatus).  The worker may be   *)
(* stopped between any two of its storage calls, a verification may begin  *)
(* or end at any time, and the file may hold the next request before the   *)
(* last one is done.  Of a status only the receipts matter here.           *)
(***************************************************************************)
EXTENDS Integers, Sequences, FiniteSets

CONSTANTS
    MAX_IDS,        \* ids kept against a replay
    MAX_REQUESTS,   \* bound: requests of one scan
    MAX_CHANGES,    \* bound: verifications that begin or end, unusable files
    MAX_WORKERS,    \* bound: stops of the worker
    MAX_REPORTS     \* bound: status reports under way

ASSUME CommandConstants ==
    /\ MAX_IDS \in Nat \ {0}
    /\ MAX_REQUESTS \in Nat /\ MAX_CHANGES \in Nat /\ MAX_WORKERS \in Nat
    /\ MAX_REPORTS \in Nat

VARIABLES
    requested,      \* the file: scan -> the id requested (0: null)
    readable,       \* the file is valid
    verifying,      \* pausedUntil
    receipts,       \* scannerCommandReceipts
    ids,            \* scannerCommandIds
    command,        \* the worker's step in syncCommands, what it has read, the scan it
                    \* is at, the ids before it, the result
    sending,        \* the reports under way to the server
    status,         \* the server's scanner-status.json: the receipts it shows
    ran,            \* ghost: the commands that restarted a scan, as often as they did
    changes, stopped    \* bounds

commandVars == <<requested, readable, verifying, receipts, ids, command, sending, status, ran, changes, stopped>>
statusVars  == <<sending, status>>

Scans   == {"home", "additional"}
CommandIds == 1..MAX_REQUESTS
NoReceipt  == [id |-> 0, outcome |-> "none"]
Outcomes   == {"started", "complete", "failed", "interrupted", "paused"}
NotSynced == [step |-> "idle", todo |-> <<>>, before |-> <<>>, result |-> "none",
            wanted |-> [s \in Scans |-> 0]]
ScanAt     == Head(command.todo)
Id         == command.wanted[ScanAt]

CommandTypes ==
    /\ requested \in [Scans -> 0..MAX_REQUESTS] /\ readable \in BOOLEAN /\ verifying \in BOOLEAN
    /\ \A shown \in {receipts, status} \union sending :
        shown \in [Scans -> [id : CommandIds, outcome : Outcomes] \union {NoReceipt}]
    /\ ids \in Seq(Scans \X CommandIds) /\ Len(ids) <= MAX_IDS
    /\ command.step \in {"idle", "next", "run", "report", "release"}
    /\ ran \in [Scans \X CommandIds -> Nat]

CommandsInit ==
    /\ requested = [s \in Scans |-> 0] /\ readable = TRUE /\ verifying = FALSE
    /\ receipts = [s \in Scans |-> NoReceipt] /\ ids = <<>>
    /\ command = NotSynced /\ sending = {} /\ status = receipts
    /\ ran = [c \in Scans \X CommandIds |-> 0]
    /\ changes = 0 /\ stopped = 0

Last(seq) == SubSeq(seq, IF Len(seq) > MAX_IDS THEN Len(seq) - MAX_IDS + 1 ELSE 1, Len(seq))

-----------------------------------------------------------------------------
(* The owner, the file and the scanner                                     *)

(* PUT /scanner-commands, or an edit: each request of a scan has an id that*)
(* the owner has not used for it.                                          *)
RequestRestart(s) ==
    /\ \E id \in CommandIds : id = requested[s] + 1 /\ requested' = [requested EXCEPT ![s] = id]
    /\ readable' = TRUE
    /\ UNCHANGED <<verifying, receipts, ids, command, statusVars, ran, changes, stopped>>
SpoilCommands ==
    /\ readable /\ changes < MAX_CHANGES /\ changes' = changes + 1
    /\ readable' = FALSE
    /\ UNCHANGED <<requested, verifying, receipts, ids, command, statusVars, ran, stopped>>
Verification ==
    /\ changes < MAX_CHANGES /\ changes' = changes + 1
    /\ verifying' = ~verifying
    /\ UNCHANGED <<requested, readable, receipts, ids, command, statusVars, ran, stopped>>

-----------------------------------------------------------------------------
(* syncCommands                                                            *)

Unmoved == UNCHANGED <<requested, readable, verifying, statusVars, changes, stopped>>
Step(step) == command' = [command EXCEPT !.step = step]
NextScan == command' = IF Len(command.todo) = 1 THEN NotSynced
                      ELSE [command EXCEPT !.step = "next", !.todo = Tail(@), !.result = "none"]

FetchCommands ==
    /\ command.step = "idle" /\ readable
    /\ command' = [NotSynced EXCEPT !.step = "next", !.todo = <<"home", "additional">>,
                                 !.wanted = requested]
    /\ UNCHANGED <<receipts, ids, ran>> /\ Unmoved

Skips == (Id = 0 \/ verifying) /\ NextScan /\ UNCHANGED <<receipts, ids>>

Listed == <<ScanAt, Id>> \in {ids[n] : n \in DOMAIN ids}
Same   == receipts[ScanAt].id = Id
OnlyReceipts == Same /\ receipts[ScanAt].outcome = "complete"    \* mutant: only what ended is not replayed
Known  == (Same /\ receipts[ScanAt].outcome # "paused") \/ Listed
AlreadyDone ==
    /\ Id # 0 /\ Known
    /\ receipts' = IF Same /\ receipts[ScanAt].outcome = "started"
                   THEN [receipts EXCEPT ![ScanAt].outcome = "interrupted"] ELSE receipts
    /\ NextScan /\ UNCHANGED ids

Reserve ==
    /\ Id # 0 /\ ~Known
    /\ receipts' = [receipts EXCEPT ![ScanAt] = [id |-> Id, outcome |-> "started"]]
    /\ ids' = Last(Append(ids, <<ScanAt, Id>>))
    /\ command' = [command EXCEPT !.step = "run", !.before = ids]

Decide ==
    /\ command.step = "next"
    /\ Skips \/ (~verifying /\ (AlreadyDone \/ Reserve))
    /\ UNCHANGED ran /\ Unmoved

(* onCommand: nothing while a verification is due; or the restart, which   *)
(* succeeds, or fails before or after it took effect.                      *)
ScanRestarts == ran' = [ran EXCEPT ![<<ScanAt, Id>>] = @ + 1]
RunCommand ==
    /\ command.step = "run"
    /\ \/ verifying /\ command' = [command EXCEPT !.step = "report", !.result = "paused"] /\ UNCHANGED ran
       \/ ~verifying /\ command' = [command EXCEPT !.step = "report", !.result = "complete"] /\ ScanRestarts
       \/ ~verifying /\ command' = [command EXCEPT !.step = "report", !.result = "failed"]
             /\ (ScanRestarts \/ UNCHANGED ran)
    /\ UNCHANGED <<receipts, ids>> /\ Unmoved

ReportResult ==
    /\ command.step = "report"
    /\ receipts' = [receipts EXCEPT ![ScanAt] = [id |-> Id, outcome |-> command.result]]
    /\ IF command.result = "paused" THEN Step("release") ELSE NextScan
    /\ UNCHANGED <<ids, ran>> /\ Unmoved
ReleaseId ==
    /\ command.step = "release"
    /\ ids' = command.before /\ NextScan
    /\ UNCHANGED <<receipts, ran>> /\ Unmoved

StopWorker ==
    /\ command.step # "idle" /\ stopped < MAX_WORKERS
    /\ stopped' = stopped + 1 /\ command' = NotSynced
    /\ UNCHANGED <<requested, readable, verifying, receipts, ids, statusVars, ran, changes>>

-----------------------------------------------------------------------------
(* syncStatus, which runs beside syncCommands                              *)

SendStatus ==
    /\ Cardinality(sending) < MAX_REPORTS
    /\ sending' = sending \union {receipts}
    /\ UNCHANGED <<requested, readable, verifying, receipts, ids, command, status, ran, changes, stopped>>

(* A request that the extension has given up may still be served, after the*)
(* next.  A report is recorded whole, or refused whole and never retried.  *)
RecordStatus ==
    /\ \E report \in sending :
        /\ sending' = sending \ {report}
        /\ status' = report \/ UNCHANGED status
    /\ UNCHANGED <<requested, readable, verifying, receipts, ids, command, ran, changes, stopped>>

CommandsNext ==
    \/ \E s \in Scans : RequestRestart(s)
    \/ SpoilCommands \/ Verification
    \/ FetchCommands \/ Decide \/ RunCommand \/ ReportResult \/ ReleaseId \/ StopWorker
    \/ SendStatus \/ RecordStatus
CommandsSpec == CommandsInit /\ [][CommandsNext]_commandVars

-----------------------------------------------------------------------------
(* Properties                                                              *)

(* A requested restart happens at most once, however often the worker is   *)
(* stopped, the file is read again and a verification comes in between.    *)
RestartsOnce == \A c \in DOMAIN ran : ran[c] <= 1

(* The receipt of the last request tells what came of it: complete, it     *)
(* restarted the scan; paused, it did not, and may still be run; and one   *)
(* that restarted the scan is never reported as paused, nor forgotten.     *)
(* What the owner reads as complete is, however late the report came.      *)
Busy(s) == command.step \in {"run", "report"} /\ ScanAt = s
ReceiptsAreTrue ==
    \A s \in Scans, id \in CommandIds :
        /\ receipts[s] = [id |-> id, outcome |-> "complete"] => ran[<<s, id>>] = 1
        /\ receipts[s] = [id |-> id, outcome |-> "paused"] => ran[<<s, id>>] = 0
        /\ ran[<<s, id>>] = 1 => receipts[s].id >= id
        /\ receipts[s].id = id /\ ran[<<s, id>>] = 0 /\ ~Busy(s) =>
              receipts[s].outcome \in {"started", "failed", "interrupted", "paused"}
        /\ status[s] = [id |-> id, outcome |-> "complete"] => ran[<<s, id>>] = 1

(* Types, one restart for one request, and true receipts.                  *)
CommandsInvariant == CommandTypes /\ RestartsOnce /\ ReceiptsAreTrue

-----------------------------------------------------------------------------
(* The inductive invariant                                                 *)

(* The worker goes through the scans in their order, with what it has read.*)
Todo == {<<"home", "additional">>, <<"additional">>}
Work == [step : {"idle", "next", "run", "report", "release"}, todo : Todo \union {<<>>},
         before : Seq(Scans \X CommandIds), wanted : [Scans -> 0..MAX_REQUESTS],
         result : {"none", "complete", "failed", "paused"}]
WorkIsListed ==
    /\ command \in Work
    /\ Len(command.before) <= MAX_IDS
    /\ command.step # "idle" => command.todo \in Todo
    /\ command.step \in {"run", "report", "release"} => Id # 0
(* Requests only grow: no receipt is newer than the file, nor than what    *)
(* the worker has read and not yet dealt with.                             *)
ReceiptsAreOlder ==
    \A s \in Scans :
        /\ receipts[s].id <= requested[s]
        /\ command.step # "idle" => command.wanted[s] <= requested[s]
        /\ command.step # "idle" /\ (s = "home" => ScanAt = "home") =>
              receipts[s].id <= command.wanted[s]
(* What restarted a scan did so once, and has a receipt or had one; the    *)
(* worker is at a command that has not, and then reports what it did.      *)
WorkIsOnce ==
    /\ \A s \in Scans, id \in CommandIds :
          ran[<<s, id>>] <= 1 /\ (ran[<<s, id>>] = 1 => id <= receipts[s].id)
    /\ command.step \in {"run", "report"} => receipts[ScanAt] = [id |-> Id, outcome |-> "started"]
    /\ command.step = "run" => ran[<<ScanAt, Id>>] = 0
    /\ command.step = "report" =>
          /\ command.result # "none"
          /\ command.result = "complete" => ran[<<ScanAt, Id>>] = 1
          /\ command.result = "paused" => ran[<<ScanAt, Id>>] = 0
(* Wherever it is shown, a complete restart is one.                        *)
ShownIsTrue ==
    \A shown \in {receipts, status} \union sending : \A s \in Scans :
        shown[s].outcome = "complete" => ran[<<s, shown[s].id>>] = 1
PausedDidNot == \A s \in Scans : receipts[s].outcome = "paused" => ran[<<s, receipts[s].id>>] = 0

OnceInvariant ==
    CommandTypes /\ WorkIsListed /\ ReceiptsAreOlder /\ WorkIsOnce /\ ShownIsTrue /\ PausedDidNot
=============================================================================
