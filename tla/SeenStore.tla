------------------------------ MODULE SeenStore ------------------------------
(***************************************************************************)
(* The dedupe store of the relay server (src/state.py, class SeenStore):   *)
(* records and markers in memory, a queue of appends, and on disk a        *)
(* snapshot and an append-only log that is replayed over it at the start.  *)
(* Every method runs under one re-entrant lock and is one action here,     *)
(* except that a compaction is two: the process may be killed between the  *)
(* replacement of the snapshot and the removal of the log.                 *)
(*                                                                         *)
(* Of a record only its timestamp is kept (0: not recorded); of a marker a *)
(* version number (0: not set).  Files are modelled for a killed process;  *)
(* a loss of power that also drops written pages is not.                   *)
(***************************************************************************)
EXTENDS Integers, FiniteSets, Sequences

CONSTANTS
    Ids,                \* item ids
    Markers,            \* marker keys
    RETENTION,          \* RETENTION_DAYS
    MAX_ENTRIES,        \* backstop of 250,000 records
    MIN_COMPACT_LINES   \* log length that makes a flush compact

ASSUME SeenConstants ==
    /\ IsFiniteSet(Ids)
    /\ RETENTION \in Nat \ {0} /\ MAX_ENTRIES \in Nat \ {0}
    /\ MIN_COMPACT_LINES \in Nat \ {0}

VARIABLES
    now,            \* wall clock, from 1
    seen, markers,  \* _seen, _markers
    pending,        \* _pending: claims, in memory only
    appends,        \* _appends: queued log lines
    logLines,       \* _log_lines
    saving,         \* the holder of the lock is not compacting ("no"), about
                    \* to ("due"), or between replace and unlink ("replaced")
    snapshot,       \* seen.json
    logFile         \* seen.log

memoryVars == <<seen, markers, pending, appends, logLines, saving>>
diskVars   == <<snapshot, logFile>>
seenVars   == <<now, memoryVars, diskVars>>

ItemLine(i, at)  == [t |-> "item", k |-> i, v |-> at]
MarkerLine(m, n) == [t |-> "marker", k |-> m, v |-> n]
Torn             == [t |-> "torn", k |-> "torn", v |-> 0]     \* unreadable bytes
Lines == [t : {"item"}, k : Ids, v : Nat] \union [t : {"marker"}, k : Markers, v : Nat]
            \union {Torn}

SeenTypeOK ==
    /\ now \in Nat \ {0}
    /\ seen \in [Ids -> Nat] /\ markers \in [Markers -> Nat]
    /\ pending \subseteq Ids
    /\ appends \in Seq(Lines) /\ logFile \in Seq(Lines)
    /\ logLines \in Nat
    /\ saving \in {"no", "due", "replaced"}
    /\ snapshot \in [seen : [Ids -> Nat], markers : [Markers -> Nat]]

Nothing == [seen |-> [i \in Ids |-> 0], markers |-> [m \in Markers |-> 0]]

SeenInit ==
    /\ now = 1
    /\ seen = Nothing.seen /\ markers = Nothing.markers
    /\ pending = {} /\ appends = <<>> /\ logLines = 0 /\ saving = "no"
    /\ snapshot = Nothing /\ logFile = <<>>

-----------------------------------------------------------------------------
(* Loading                                                                 *)

Mentions(lines, t, k) == {n \in DOMAIN lines : lines[n].t = t /\ lines[n].k = k}
(* The value the last line about k gives it, `old' if there is none.       *)
LastValue(lines, t, k, old) ==
    IF Mentions(lines, t, k) = {} THEN old
    ELSE LET n == CHOOSE x \in Mentions(lines, t, k) :
                    \A y \in Mentions(lines, t, k) : y <= x
         IN  lines[n].v

Replay(base, lines) ==
    [seen    |-> [i \in Ids |-> LastValue(lines, "item", i, base.seen[i])],
     markers |-> [m \in Markers |-> LastValue(lines, "marker", m, base.markers[m])]]

Expired(at) == at + RETENTION < now
Pruned(s)   == [i \in Ids |-> IF s[i] # 0 /\ Expired(s[i]) THEN 0 ELSE s[i]]
Recorded(s) == {i \in Ids : s[i] # 0}

(* What a start would load now.                                            *)
OnDisk == Replay(snapshot, logFile)

Load == LET loaded == OnDisk IN
    /\ seen' = Pruned(loaded.seen) /\ markers' = loaded.markers
    /\ logLines' = Cardinality({n \in DOMAIN logFile : logFile[n] # Torn})
    /\ pending' = {} /\ appends' = <<>> /\ saving' = "no"
    /\ UNCHANGED <<now, diskVars>>

-----------------------------------------------------------------------------
(* Persisting                                                              *)

Unlocked == saving = "no"

(* Mutation: a failed append's torn tail absorbs the first new line.       *)
AppendedToTorn(log, lines) ==
    IF log # <<>> /\ log[Len(log)] = Torn THEN log \o Tail(lines) ELSE log \o lines
(* A torn tail is closed with a newline first.                             *)
Appended(log, lines) == log \o lines

Flush ==
    /\ Unlocked /\ appends # <<>>
    /\ logFile' = Appended(logFile, appends)
    /\ logLines' = logLines + Len(appends)
    /\ appends' = <<>>
    /\ saving' = IF /\ logLines + Len(appends) >= MIN_COMPACT_LINES
                    /\ logLines + Len(appends) >= Cardinality(Recorded(seen))
                 THEN "due" ELSE "no"
    /\ UNCHANGED <<now, seen, markers, pending, snapshot>>

(* The prefix of the queued lines that reached the file, and what follows. *)
PartOf(lines) == {SubSeq(lines, 1, n) : n \in 0..Len(lines)}
                    \union {Append(SubSeq(lines, 1, n), Torn) : n \in 0..(Len(lines) - 1)}

(* OSError: the lines stay queued, what was written stays written.         *)
FlushFails ==
    /\ Unlocked /\ appends # <<>>
    /\ \E part \in PartOf(appends) :
        logFile' = IF part = <<>> THEN logFile ELSE Appended(logFile, part)
    /\ UNCHANGED <<now, memoryVars, snapshot>>

(* Mutation: a store that is just full is trimmed too.                     *)
KeptBelowLimit(n) == IF n < MAX_ENTRIES THEN n ELSE MAX_ENTRIES - 1
Kept(n) == IF n <= MAX_ENTRIES THEN n ELSE MAX_ENTRIES
(* The records kept when there are more than MAX_ENTRIES: the newest.      *)
Trims(s) ==
    {keep \in SUBSET Recorded(s) :
        /\ Cardinality(keep) = Kept(Cardinality(Recorded(s)))
        /\ \A i \in keep, j \in Recorded(s) \ keep : s[j] <= s[i]}

PruneAndTrim ==
    \E keep \in Trims(Pruned(seen)) :
        seen' = [i \in Ids |-> IF i \in keep THEN seen[i] ELSE 0]

(* save: the snapshot is replaced, then the log it supersedes is removed.  *)
ReplaceSnapshot ==
    /\ saving = "due"
    /\ PruneAndTrim
    /\ snapshot' = [seen |-> seen', markers |-> markers]
    /\ appends' = <<>>
    /\ saving' = "replaced"
    /\ UNCHANGED <<now, markers, pending, logLines, logFile>>
ReplaceFails ==
    /\ saving = "due"
    /\ PruneAndTrim
    /\ saving' = "no"
    /\ UNCHANGED <<now, markers, pending, appends, logLines, diskVars>>
LinesReset   == logLines' = 0
UnlinkLog ==
    /\ saving = "replaced"
    /\ logFile' = <<>> /\ LinesReset /\ saving' = "no"
    /\ UNCHANGED <<now, seen, markers, pending, appends, snapshot>>
UnlinkFails ==
    /\ saving = "replaced" /\ saving' = "no"
    /\ UNCHANGED <<now, seen, markers, pending, appends, logLines, diskVars>>

-----------------------------------------------------------------------------
(* Dedupe                                                                  *)

Queue(line) == appends' = Append(appends, line)

(* Mutation: a claim does not look at the claims of others.                *)
ClaimableUnseen(i) == seen[i] = 0
Claimable(i) == seen[i] = 0 /\ i \notin pending
Claim(i) == /\ Unlocked /\ Claimable(i)
            /\ pending' = pending \union {i}
            /\ UNCHANGED <<now, seen, markers, appends, logLines, saving, diskVars>>

(* The record of a claim carries the time of the claim.                    *)
Commit(i, at) ==
    /\ Unlocked /\ i \in pending
    /\ pending' = pending \ {i}
    /\ seen' = [seen EXCEPT ![i] = at]
    /\ Queue(ItemLine(i, at))
    /\ UNCHANGED <<now, markers, logLines, saving, diskVars>>
ReleaseForgets(i) == pending' = pending \ {i} /\ UNCHANGED <<seen, appends>>
Release(i) ==
    /\ Unlocked
    /\ ReleaseForgets(i)
    /\ UNCHANGED <<now, markers, logLines, saving, diskVars>>
(* mark_seen returns FALSE, changing nothing, while i is claimed.          *)
MarkSeen(i) ==
    /\ Unlocked /\ i \notin pending
    /\ seen' = [seen EXCEPT ![i] = now]
    /\ Queue(ItemLine(i, now))
    /\ UNCHANGED <<now, markers, pending, logLines, saving, diskVars>>
SetMarker(m, n) ==
    /\ Unlocked
    /\ markers' = [markers EXCEPT ![m] = n]
    /\ Queue(MarkerLine(m, n))
    /\ UNCHANGED <<now, seen, pending, logLines, saving, diskVars>>
=============================================================================
