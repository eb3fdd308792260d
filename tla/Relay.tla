------------------------------- MODULE Relay -------------------------------
(***************************************************************************)
(* The relay server's own dedupe: concurrent requests running the pipeline *)
(* (src/pipeline.py, process) over the SeenStore, the flusher thread, the  *)
(* marker writers, an orderly stop and the death of the process.           *)
(* Each call of process on an item is a sequence of store calls with other *)
(* threads in between; the push provider is external and may deliver an    *)
(* alert whose answer is lost.                                             *)
(***************************************************************************)
EXTENDS SeenStore

CONSTANTS
    Requests,       \* threads inside process (HTTP handlers, pollers)
    MAX_TIME,       \* bound: the clock stops here
    MAX_VERSION,    \* bound: values a marker takes
    MAX_LINES,      \* bound: queued and logged lines
    MAX_STOPS,      \* bound: kills and orderly stops
    MAX_FAILURES    \* bound: failed writes and lost answers

ASSUME RelayConstants ==
    /\ MAX_TIME \in Nat /\ MAX_VERSION \in Nat /\ MAX_LINES \in Nat
    /\ MAX_STOPS \in Nat /\ MAX_FAILURES \in Nat

VARIABLES
    proc,       \* "up", "down", or how far close is: about to flush ("stopping"),
                \* to save ("flushed"), saving ("closing")
    pc,         \* request -> where it is in process
    item,       \* request -> the item it looks at
    claimed,    \* request -> when it claimed the item
    alerted,    \* ghost: item -> the claim of its last alert by this process,
                \* until a compaction drops its record
    handled,    \* ghost: items ever delivered, filtered or seeded
    stops, failures

threadVars == <<pc, item, claimed>>
ghostVars  == <<alerted, handled>>
relayVars  == <<proc, threadVars, ghostVars, stops, failures>>
vars == <<seenVars, relayVars>>

NoItem == "none"     \* a request outside process
Steps == {"idle", "looked", "new", "sending", "delivered", "undelivered"}

RelayTypeOK ==
    /\ proc \in {"up", "stopping", "flushed", "closing", "down"}
    /\ pc \in [Requests -> Steps]
    /\ item \in [Requests -> Ids \union {NoItem}]
    /\ claimed \in [Requests -> Nat]
    /\ alerted \in [Ids -> Nat] /\ handled \subseteq Ids
    /\ stops \in Nat /\ failures \in Nat
TypeInvariant == SeenTypeOK /\ RelayTypeOK

RelayInit ==
    /\ SeenInit
    /\ proc = "up"
    /\ pc = [r \in Requests |-> "idle"]
    /\ item = [r \in Requests |-> NoItem]
    /\ claimed = [r \in Requests |-> 0]
    /\ alerted = [i \in Ids |-> 0] /\ handled = {}
    /\ stops = 0 /\ failures = 0

Alive == proc # "down"
Room  == Len(appends) + Len(logFile) < MAX_LINES

-----------------------------------------------------------------------------
(* One item in process                                                     *)

Goto(r, step) == pc' = [pc EXCEPT ![r] = step]
Leave(r) == /\ Goto(r, "idle")
            /\ item' = [item EXCEPT ![r] = NoItem] /\ claimed' = [claimed EXCEPT ![r] = 0]

(* is_pending: an item another request is delivering is retried later.     *)
Look(r) ==
    /\ Alive /\ Unlocked /\ pc[r] = "idle"
    /\ \E i \in Ids \ pending : item' = [item EXCEPT ![r] = i]
    /\ Goto(r, "looked")
    /\ UNCHANGED <<seenVars, proc, claimed, ghostVars, stops, failures>>

(* is_new                                                                  *)
CheckNew(r) ==
    /\ Alive /\ Unlocked /\ pc[r] = "looked"
    /\ IF seen[item[r]] = 0 THEN Goto(r, "new") /\ UNCHANGED <<item, claimed>> ELSE Leave(r)
    /\ UNCHANGED <<seenVars, proc, ghostVars, stops, failures>>

(* Seed mode, or no rule matches: recorded without an alert.               *)
Filter(r) ==
    /\ Alive /\ pc[r] = "new" /\ Room
    /\ Leave(r)
    /\ \/ MarkSeen(item[r]) /\ handled' = handled \union {item[r]}
       \/ item[r] \in pending /\ Unlocked /\ UNCHANGED <<seenVars, handled>>
    /\ UNCHANGED <<proc, alerted, stops, failures>>

(* A rule matches: claim before notifying.                                 *)
Match(r) ==
    /\ Alive /\ pc[r] = "new"
    /\ \/ /\ Claim(item[r])
          /\ claimed' = [claimed EXCEPT ![r] = now]
          /\ Goto(r, "sending") /\ UNCHANGED item
       \/ /\ Unlocked /\ ~Claimable(item[r])
          /\ Leave(r)
          /\ UNCHANGED seenVars
    /\ UNCHANGED <<proc, ghostVars, stops, failures>>

(* notifier.send: delivered, not delivered, or delivered with the answer   *)
(* lost (send returns FALSE or raises).                                    *)
Deliver(r) ==
    /\ Alive /\ pc[r] = "sending"
    /\ Goto(r, "delivered")
    /\ alerted' = [alerted EXCEPT ![item[r]] = claimed[r]]
    /\ UNCHANGED <<seenVars, proc, item, claimed, handled, stops, failures>>
NotDelivered(r) ==
    /\ Alive /\ pc[r] = "sending" /\ failures < MAX_FAILURES
    /\ Goto(r, "undelivered")
    /\ failures' = failures + 1
    /\ UNCHANGED <<seenVars, proc, item, claimed, ghostVars, stops>>

Settle(r) ==
    /\ Alive /\ Leave(r)
    /\ \/ /\ pc[r] = "delivered" /\ Room
          /\ Commit(item[r], claimed[r])
          /\ handled' = handled \union {item[r]}
       \/ pc[r] = "undelivered" /\ Release(item[r]) /\ UNCHANGED handled
    /\ UNCHANGED <<proc, alerted, stops, failures>>

-----------------------------------------------------------------------------
(* The other threads                                                       *)

(* Each new value of a marker follows the last one (update offsets, times).*)
Mark == /\ Alive /\ Room
        /\ \E m \in Markers : markers[m] < MAX_VERSION /\ SetMarker(m, markers[m] + 1)
        /\ UNCHANGED relayVars

(* flush of the flusher thread, at the end of every ingest, and in close.  *)
Flushed == proc' = IF proc = "stopping" THEN "flushed" ELSE proc
FlushNow == /\ Alive /\ Flushed
            /\ Flush \/ (Unlocked /\ appends = <<>> /\ UNCHANGED seenVars)
            /\ UNCHANGED <<threadVars, ghostVars, stops, failures>>
FlushError == /\ Alive /\ FlushFails /\ Flushed /\ failures < MAX_FAILURES
              /\ Len(logFile') <= MAX_LINES
              /\ failures' = failures + 1
              /\ UNCHANGED <<threadVars, ghostVars, stops>>

(* A compaction step: the lock is held, so nothing comes in between but a kill.*)
Dropped == /\ alerted' = [i \in Ids |-> IF seen[i] # 0 /\ seen'[i] = 0 THEN 0 ELSE alerted[i]]
           /\ UNCHANGED handled
SaveStep == /\ Alive
            /\ ReplaceSnapshot \/ UnlinkLog
            /\ proc' = IF proc = "closing" /\ saving = "replaced" THEN "down" ELSE proc
            /\ Dropped
            /\ UNCHANGED <<threadVars, stops, failures>>
SaveError == /\ Alive /\ failures < MAX_FAILURES
             /\ ReplaceFails \/ UnlinkFails
             /\ proc' = IF proc = "closing" THEN "down" ELSE proc
             /\ failures' = failures + 1
             /\ Dropped
             /\ UNCHANGED <<threadVars, stops>>

(* close: the flusher ends, then flush and save take the lock in turn.     *)
Close == /\ proc = "up" /\ stops < MAX_STOPS
         /\ proc' = IF appends = <<>> THEN "flushed" ELSE "stopping"
         /\ stops' = stops + 1
         /\ UNCHANGED <<seenVars, threadVars, ghostVars, failures>>
CloseSave == /\ proc = "flushed" /\ Unlocked
             /\ saving' = "due" /\ proc' = "closing"
             /\ UNCHANGED <<now, seen, markers, pending, appends, logLines, diskVars,
                            threadVars, ghostVars, stops, failures>>

(* The process is killed, at any point; a flush under way may have written *)
(* a part of its lines.                                                    *)
Kill == /\ Alive /\ stops < MAX_STOPS
        /\ proc' = "down" /\ stops' = stops + 1
        /\ \/ UNCHANGED logFile
           \/ /\ Unlocked /\ appends # <<>>
              /\ \E part \in PartOf(appends) \ {<<>>} : logFile' = Appended(logFile, part)
        /\ UNCHANGED <<now, memoryVars, snapshot, threadVars, ghostVars, failures>>

Start == /\ proc = "down"
         /\ Load
         /\ proc' = "up"
         /\ pc' = [r \in Requests |-> "idle"]
         /\ item' = [r \in Requests |-> NoItem] /\ claimed' = [r \in Requests |-> 0]
         /\ alerted' = [i \in Ids |-> 0]
         /\ UNCHANGED <<handled, stops, failures>>

Tick == /\ now < MAX_TIME
        /\ now' = now + 1
        /\ UNCHANGED <<memoryVars, diskVars, relayVars>>

RequestStep(r) == \/ Look(r) \/ CheckNew(r) \/ Filter(r) \/ Match(r)
                  \/ Deliver(r) \/ NotDelivered(r) \/ Settle(r)
Next ==
    \/ \E r \in Requests : RequestStep(r)
    \/ Mark \/ FlushNow \/ FlushError \/ SaveStep \/ SaveError
    \/ Close \/ CloseSave \/ Kill \/ Start \/ Tick

Spec == RelayInit /\ [][Next]_vars

-----------------------------------------------------------------------------
(* Properties                                                              *)

OverFull(s) == Cardinality(Recorded(s)) > MAX_ENTRIES

(* Whatever writes fail or tear, every record in memory is in the files or *)
(* still queued for them.                                                  *)
MemoryIsBacked ==
    Alive => \A i \in Ids : seen[i] # 0 => Replay(OnDisk, appends).seen[i] # 0

(* Only delivered, filtered and seeded items are ever recorded: a claim    *)
(* that dies with its process, or is released, leaves no record, in memory *)
(* or on disk ("we prefer a possible duplicate notification to silence").  *)
RecordedWasHandled ==
    \A i \in Ids : (Alive /\ seen[i] # 0) \/ OnDisk.seen[i] # 0 => i \in handled

(* An item is alerted once, however many requests relay it at the same     *)
(* moment, by one process while its record lasts, and by later processes   *)
(* when the record reached the files, unless more are recorded or queued   *)
(* than the backstop allows.                                               *)
AlertedOnce ==
    \A r \in Requests : Alive /\ pc[r] = "sending" =>
        /\ alerted[item[r]] # 0 => Expired(alerted[item[r]])
        /\ OnDisk.seen[item[r]] # 0 =>
              Expired(OnDisk.seen[item[r]]) \/ OverFull(Replay(OnDisk, appends).seen)

(* Types, the relation of the records in memory, in the files and in       *)
(* between, and what they are for.                                         *)
SeenInvariant == TypeInvariant /\ MemoryIsBacked /\ RecordedWasHandled /\ AlertedOnce

(* What a start would load only shrinks by age, or when more records than  *)
(* the backstop allows are recorded or queued.                             *)
FilesNeverForget ==
    [][\A i \in Ids : OnDisk.seen[i] # 0 /\ OnDisk'.seen[i] = 0
          => Expired(OnDisk.seen[i]) \/ OverFull(Replay(OnDisk, appends).seen)]_vars

(* What makes them so.  A claim is one request's, of an item that is not   *)
(* recorded, and later than whatever was written about the item.           *)
Lined(lines, i) == {lines[n].v : n \in Mentions(lines, "item", i)}
Written(i)      == {snapshot.seen[i]} \union Lined(logFile, i) \union Lined(appends, i)
Holds(r)        == pc[r] \in {"sending", "delivered", "undelivered"}
ClaimsAreHeld ==
    /\ \A r \in Requests : pc[r] # "idle" => item[r] \in Ids
    /\ \A r \in Requests : Holds(r) =>
          /\ item[r] \in pending /\ claimed[r] # 0 /\ claimed[r] <= now
          /\ \A v \in Written(item[r]) : v <= claimed[r]
    /\ \A r, s \in Requests : Holds(r) /\ Holds(s) /\ item[r] = item[s] => r = s
    /\ \A i \in pending : seen[i] = 0
LinesAreTimed == \A i \in Ids : /\ 0 \notin Lined(appends, i) \union Lined(logFile, i)
                                /\ seen[i] <= now /\ \A v \in Written(i) : v <= now
ReplacedIsSaved == saving = "replaced" => snapshot.seen = seen /\ appends = <<>>
(* What is recorded or may come to be was handled; the files and the queue *)
(* hold what memory does, and nothing later.                               *)
AllHandled == \A i \in Ids : seen[i] # 0 \/ (\E v \in Written(i) : v # 0) => i \in handled
FilesAreBehind == \A i \in Ids : seen[i] # 0 =>
    /\ \E v \in Written(i) : v # 0
    /\ OnDisk.seen[i] <= seen[i] /\ \A v \in Lined(appends, i) : v <= seen[i]
(* A record that memory has dropped is too old, or as many are as new.     *)
Crowded(v) == Cardinality({k \in Ids : seen[k] # 0 /\ seen[k] >= v}) >= MAX_ENTRIES
DroppedIsOldest == \A i \in Ids : seen[i] = 0 =>
    \A v \in {OnDisk.seen[i]} \union Lined(appends, i) : v # 0 => Expired(v) \/ Crowded(v)
AlertIsRecorded == \A i \in Ids : alerted[i] # 0 =>
    seen[i] # 0 \/ \E r \in Requests : pc[r] = "delivered" /\ item[r] = i

RelayInvariant ==
    /\ TypeInvariant /\ ClaimsAreHeld /\ LinesAreTimed /\ ReplacedIsSaved
    /\ AllHandled /\ FilesAreBehind /\ DroppedIsOldest /\ AlertIsRecorded
=============================================================================
