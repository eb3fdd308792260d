--------------------------- MODULE ScannerControl ---------------------------
(***************************************************************************)
(* The owner's control of the scanner: the notifier's editable files       *)
(* (src/scanner_control.py, src/relay_settings.py), the requests of        *)
(* server.py on them, and the extension's side: the synchronisation of     *)
(* settings and commands by the service worker                             *)
(* (extension/scanner-control.js, relay-settings.js) and the options pages *)
(* that save under the shared web lock (options.js).                       *)
(*                                                                         *)
(* Of a settings file only whether it is missing, unusable or valid, and   *)
(* the values of its keys; each request is one step of the server, and     *)
(* what a page or the worker does between two requests or storage calls is *)
(* one step of it.  A page may be closed and the worker stopped anywhere.  *)
(***************************************************************************)
EXTENDS Integers, Sequences, FiniteSets

CONSTANTS
    OptionsPages,       \* options pages
    ScannerKeys,        \* the keys of scanner-settings.json
    RelayKeys,          \* the keys of relay-settings.json
    MAX_EDITS,          \* bound: edits of the files by hand
    MAX_LOSSES          \* bound: failed requests, lost answers, closed pages, stops

Keys == ScannerKeys \union RelayKeys

ASSUME ControlConstants ==
    /\ ScannerKeys \cap RelayKeys = {} /\ OptionsPages \cap {"free", "worker"} = {}
    /\ MAX_EDITS \in Nat /\ MAX_LOSSES \in Nat

VARIABLES
    files,          \* the settings files
    cache,          \* chrome.storage.local: the settings the scanner uses
    lock,           \* the holder of reviewer-notifier-settings
    page,           \* page -> its step, its form, what it loaded, the file it has read
                    \* and the answers to what it has saved
    syncing,        \* the worker's step in a synchronisation of a file, and what it has read
    edited,         \* ghost: files written by hand since the lock's holder read or saved them
    cached,         \* ghost: files whose last write was followed by its caching
    edits, losses   \* bounds

settingsVars == <<files, cache, lock, page, syncing, edited, cached, edits, losses>>

Names == {"scanner", "relay"}
KeysOf(f) == IF f = "scanner" THEN ScannerKeys ELSE RelayKeys
Values == {0, 1}
File(f) == [is : {"ok"}, v : [KeysOf(f) -> Values]]
Missing == [is |-> "missing"]
Bad     == [is |-> "bad"]
Free    == "free"
NoKeys == [k \in {} |-> 0]

PageSteps == {"closed", "open", "read", "put", "readRelay", "putRelay", "store"}
ClosedPage == [step |-> "closed", form |-> NoKeys, loaded |-> NoKeys, latest |-> NoKeys,
           answers |-> NoKeys]
NotSyncing  == [file |-> "none", v |-> NoKeys]

ControlTypes ==
    /\ \A f \in Names : files[f] \in File(f) \union {Missing, Bad}
    /\ cache \in [Keys -> Values]
    /\ lock \in OptionsPages \union {Free, "worker"}
    /\ \A p \in OptionsPages : page[p].step \in PageSteps
    /\ syncing.file \in Names \union {"none"}
    /\ edited \subseteq Names /\ cached \subseteq Names

SettingsInit ==
    /\ files = [f \in Names |-> Missing]
    /\ cache = [k \in Keys |-> 0]
    /\ lock = Free
    /\ page = [p \in OptionsPages |-> ClosedPage] /\ syncing = NotSyncing
    /\ edited = {} /\ cached = {} /\ edits = 0 /\ losses = 0

Merged(old, new) == [k \in DOMAIN old \union DOMAIN new |->
                        IF k \in DOMAIN new THEN new[k] ELSE old[k]]
Only(v, keys) == [k \in DOMAIN v \cap keys |-> v[k]]
Fails == losses < MAX_LOSSES /\ losses' = losses + 1

-----------------------------------------------------------------------------
(* The server: read and save                                               *)

(* read: what is valid in the file now; a missing file is answered null.   *)
Usable(f) == files[f].is # "bad"
HasFile(f) == files[f].is = "ok"

(* save: a valid value is written to a sibling and replaces the file, or   *)
(* nothing changes.                                                        *)
FileSaved(f, v) == files' = [files EXCEPT ![f] = [is |-> "ok", v |-> v]]

(* The owner edits a file with an editor.                                  *)
EditFile(f) ==
    /\ edits < MAX_EDITS /\ edits' = edits + 1
    /\ \E new \in File(f) \union {Bad} : new # files[f] /\ files' = [files EXCEPT ![f] = new]
    /\ edited' = edited \union {f} /\ cached' = cached \ {f}
    /\ UNCHANGED <<cache, lock, page, syncing, losses>>

-----------------------------------------------------------------------------
(* The lock                                                                *)

Takes(who) == lock = Free /\ lock' = who /\ edited' = {}
TakesAny(who) == lock' = who /\ edited' = {}      \* mutant: a page does not wait for the lock
Locks(who) == Takes(who)
Unlocks(who) == lock' = IF lock = who THEN Free ELSE lock

-----------------------------------------------------------------------------
(* The worker                                                              *)

(* syncSettings, syncRelaySettings: under the lock, a valid file replaces  *)
(* the cache, a missing or an unusable one leaves it alone.                *)
SyncRead(f) ==
    /\ syncing.file = "none" /\ Locks("worker")
    /\ syncing' = [file |-> f, v |-> IF HasFile(f) THEN files[f].v ELSE NoKeys]
    /\ UNCHANGED <<files, cache, page, cached, edits, losses>>
SyncStore ==
    /\ syncing.file # "none"
    /\ cache' = Merged(cache, syncing.v)
    /\ cached' = IF syncing.v # NoKeys /\ syncing.file \notin edited
                THEN cached \union {syncing.file} ELSE cached
    /\ syncing' = NotSyncing /\ Unlocks("worker")
    /\ UNCHANGED <<files, page, edited, edits, losses>>
WorkerStops ==
    /\ syncing.file # "none" /\ Fails
    /\ syncing' = NotSyncing /\ Unlocks("worker")
    /\ UNCHANGED <<files, cache, page, edited, cached, edits>>

-----------------------------------------------------------------------------
(* An options page                                                         *)

(* The form shows what the files hold, or the cache without a usable file. *)
Shown == [k \in Keys |->
            LET f == IF k \in ScannerKeys THEN "scanner" ELSE "relay"
            IN  IF HasFile(f) THEN files[f].v[k] ELSE cache[k]]
OpenPage(p) ==
    /\ page[p].step = "closed" /\ lock = Free
    /\ page' = [page EXCEPT ![p] = [step |-> "open", form |-> Shown, loaded |-> Shown,
                                    latest |-> NoKeys, answers |-> NoKeys]]
    /\ cache' = Shown
    /\ cached' = cached \union {f \in Names : HasFile(f)}
    /\ UNCHANGED <<files, lock, syncing, edited, edits, losses>>
EditForm(p) ==
    /\ page[p].step = "open"
    /\ \E k \in Keys : page' = [page EXCEPT ![p].form[k] = 1 - @]
    /\ UNCHANGED <<files, cache, lock, syncing, edited, cached, edits, losses>>

(* Only the keys that differ from what the page loaded are its own.        *)
Everything(p) == DOMAIN page[p].form         \* mutant: the whole form is saved
Changed(p) == {k \in DOMAIN page[p].form : page[p].form[k] # page[p].loaded[k]}
Changes(p, f) == Only(page[p].form, Changed(p) \cap KeysOf(f))

SaveForm(p) ==
    /\ page[p].step = "open" /\ Locks(p) /\ page' = [page EXCEPT ![p].step = "read"]
    /\ UNCHANGED <<files, cache, syncing, cached, edits, losses>>

(* readBackendScannerSettings, then putBackendScannerSettings; the same    *)
(* for the relay's file, for which the loaded form stands in.              *)
ReadLatest(p, f, next) ==
    /\ Usable(f)
    /\ page' = [page EXCEPT ![p].step = next, ![p].latest =
                    IF HasFile(f) THEN files[f].v
                    ELSE IF f = "scanner" THEN Only(cache, ScannerKeys)
                    ELSE Only(page[p].loaded, RelayKeys)]
    /\ edited' = edited \ {f}
    /\ UNCHANGED <<files, cache, lock, syncing, cached, edits, losses>>
Merge(p, f) == Merged(page[p].latest, Changes(p, f))
PutMerged(p, f, next) ==
    /\ FileSaved(f, Merge(p, f))
    /\ page' = [page EXCEPT ![p].step = next, ![p].answers = Merged(@, Merge(p, f))]
    /\ cached' = cached \ {f} /\ edited' = edited \ {f}
    /\ UNCHANGED <<cache, lock, syncing, edits, losses>>
ReadScanner(p) == page[p].step = "read" /\ ReadLatest(p, "scanner", "put")
PutScanner(p)  == page[p].step = "put" /\ PutMerged(p, "scanner", "readRelay")
ReadRelay(p)   == page[p].step = "readRelay" /\ ReadLatest(p, "relay", "putRelay")
PutRelay(p)    == page[p].step = "putRelay" /\ PutMerged(p, "relay", "store")

(* Both answers are cached, and become what the form shows.                *)
Reload(p, v) == page' = [page EXCEPT ![p] = [ClosedPage EXCEPT !.step = "open", !.form = v, !.loaded = v]]
Store(p) ==
    /\ page[p].step = "store"
    /\ cache' = page[p].answers /\ Reload(p, page[p].answers)
    /\ cached' = cached \union (Names \ edited)
    /\ Unlocks(p)
    /\ UNCHANGED <<files, syncing, edited, edits, losses>>

(* The server refuses an unusable file; a request fails, its answer        *)
(* perhaps lost after the save; or the page is closed.  What is saved so   *)
(* far stays, and the page reports that it could not confirm both files.   *)
Writing(p) == CASE page[p].step = "put" -> {"scanner"}
                [] page[p].step = "putRelay" -> {"relay"} [] OTHER -> {}
Reading(p) == CASE page[p].step = "read" -> {"scanner"}
                [] page[p].step = "readRelay" -> {"relay"} [] OTHER -> {}
Unconfirmed(p) == page' = [page EXCEPT ![p].step = "open", ![p].latest = NoKeys, ![p].answers = NoKeys]
SaveFails(p) ==
    /\ page[p].step \notin {"closed", "open"}
    /\ \/ /\ \E f \in Reading(p) : ~Usable(f)
          /\ Unconfirmed(p) /\ UNCHANGED <<files, edited, cached, losses>>
       \/ /\ Fails /\ (Unconfirmed(p) \/ page' = [page EXCEPT ![p] = ClosedPage])
          /\ \/ UNCHANGED <<files, edited, cached>>
             \/ \E f \in Writing(p) : /\ FileSaved(f, Merge(p, f))
                                       /\ cached' = cached \ {f} /\ edited' = edited \ {f}
    /\ Unlocks(p)
    /\ UNCHANGED <<cache, syncing, edits>>

SettingsNext ==
    \/ \E f \in Names : EditFile(f) \/ SyncRead(f)
    \/ SyncStore \/ WorkerStops
    \/ \E p \in OptionsPages : \/ OpenPage(p) \/ EditForm(p) \/ SaveForm(p) \/ ReadScanner(p) \/ PutScanner(p)
                         \/ ReadRelay(p) \/ PutRelay(p) \/ Store(p) \/ SaveFails(p)
SettingsSpec == SettingsInit /\ [][SettingsNext]_settingsVars

-----------------------------------------------------------------------------
(* Properties                                                              *)

(* A page's save changes in the files only what its owner changed in the   *)
(* form: what another page saved meanwhile stays, and an edit by hand too, *)
(* unless it falls between the page's reading of the file and its save.    *)
OnlyEditsAreSaved ==
    [][edits' = edits =>
        \A f \in Names \ edited : HasFile(f) =>
            \A k \in KeysOf(f) : files'[f].v[k] # files[f].v[k] =>
                lock \in OptionsPages /\ page[lock].form[k] # page[lock].loaded[k]]_settingsVars

(* Once cached, what a file holds is what the scanner uses, until the file *)
(* is written again; a missing or an unusable file leaves the last usable  *)
(* settings, and a page or a worker that was slow does not bring back      *)
(* older ones.                                                             *)
CacheIsCurrent ==
    \A f \in cached : HasFile(f) /\ Only(cache, KeysOf(f)) = files[f].v

ControlInvariant == ControlTypes /\ CacheIsCurrent

-----------------------------------------------------------------------------
(* The inductive invariant                                                 *)

FormOf(keys) == [keys -> Values]

(* A page shows all keys; between its steps it carries whole files.        *)
OneFile  == FormOf(ScannerKeys) \union FormOf(RelayKeys) \union {NoKeys}
PageForm == [step : PageSteps, form : FormOf(Keys) \union {NoKeys},
             loaded : FormOf(Keys) \union {NoKeys}, latest : OneFile,
             answers : FormOf(ScannerKeys) \union FormOf(Keys) \union {NoKeys}]
PageIsWhole(q) ==
    /\ q \in PageForm
    /\ q.step # "closed" => q.form \in FormOf(Keys) /\ q.loaded \in FormOf(Keys)
    /\ q.step \in {"closed", "open", "read", "put"} => q.answers = NoKeys
    /\ q.step = "put" => q.latest \in FormOf(ScannerKeys)
    /\ q.step \in {"readRelay", "putRelay"} => q.answers \in FormOf(ScannerKeys)
    /\ q.step = "putRelay" => q.latest \in FormOf(RelayKeys)
    /\ q.step = "store" => q.answers \in FormOf(Keys)
AllIsWhole ==
    /\ page \in [OptionsPages -> PageForm] /\ \A p \in OptionsPages : PageIsWhole(page[p])
    /\ syncing \in [file : Names \union {"none"}, v : OneFile]
    /\ files \in [Names -> File("scanner") \union File("relay") \union {Missing, Bad}]
(* Who reads or writes the files beside the owner's editor, holds the lock;*)
(* what was edited by hand meanwhile does not count as cached.             *)
LockIsHeld ==
    /\ \A p \in OptionsPages : page[p].step \notin {"closed", "open"} <=> lock = p
    /\ syncing.file # "none" <=> lock = "worker"
    /\ lock # Free => edited \cap cached = {}
(* What was read, or saved and answered, is what the file still holds if   *)
(* nobody edited it by hand.                                               *)
Holds(f, v) == f \notin edited /\ HasFile(f) => files[f].v = v
Written(f, v) == Holds(f, v) /\ (f \in edited \/ HasFile(f))
PageIsCurrent(q) ==
    /\ q.step = "put" => Holds("scanner", q.latest)
    /\ q.step = "putRelay" => Holds("relay", q.latest)
    /\ q.step \in {"readRelay", "putRelay", "store"} => Written("scanner", Only(q.answers, ScannerKeys))
    /\ q.step = "store" => Written("relay", Only(q.answers, RelayKeys))
SyncIsCurrent(sync) ==
    sync.file # "none" =>
        \/ sync.v = NoKeys /\ Holds(sync.file, sync.v)
        \/ sync.v \in FormOf(KeysOf(sync.file)) /\ Written(sync.file, sync.v)
ReadsAreCurrent ==
    (\A p \in OptionsPages : PageIsCurrent(page[p])) /\ SyncIsCurrent(syncing)

SettingsInvariant ==
    ControlTypes /\ AllIsWhole /\ LockIsHeld /\ ReadsAreCurrent /\ CacheIsCurrent
=============================================================================
