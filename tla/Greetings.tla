------------------------------ MODULE Greetings ------------------------------
(***************************************************************************)
(* The two workers that greet members (discord_bridge/welcome.py and       *)
(* membership.py): one welcomes those who joined, as the audit channel's   *)
(* join messages tell, the other celebrates a paid role.  Each has a       *)
(* ledger of its own with the same outbox: a greeting is claimed before it *)
(* is posted, and one whose post may have arrived is looked for in the     *)
(* channel and never posted again.                                         *)
(*                                                                         *)
(* A worker has one thread; what it commits in one transaction is one      *)
(* step, and it may be stopped, or put off by paid work, between any two.  *)
(* Time is in days.  Every row is due when a cycle begins: a throttled one *)
(* waits no longer than the next poll does.                                *)
(***************************************************************************)
EXTENDS Integers, Sequences, FiniteSets, FiniteSetsExt

CONSTANTS
    Users,          \* members of the server, in the order of their ids
    PAGE,           \* messages or members in a page: 100, 1000
    MAX_PENDING,    \* _MAX_PENDING
    BATCH,          \* greetings sent in a cycle: 5
    RETENTION,      \* days a settled greeting is kept: 7
    MAX_EVENTS,     \* bound: messages in the audit channel, or changes of roles
    MAX_DAYS        \* bound: days

ASSUME GreetingsConstants ==
    /\ Users \subseteq Nat \ {0} /\ IsFiniteSet(Users)
    /\ {PAGE, BATCH, RETENTION} \subseteq Nat \ {0}
    /\ MAX_PENDING \in Nat /\ MAX_PENDING >= PAGE /\ {MAX_EVENTS, MAX_DAYS} \subseteq Nat

VARIABLES
    kind,           \* "welcome" or "membership"
    day, events,    \* bounds
    history,        \* the audit channel: who joined, or 0 for another message
    roles, gains,   \* the paid role of each member; how often each was gained (ghost)
    rows, cooldown, \* the outbox; until when a member is not greeted again
    cursor, head, before,           \* the walk through the audit channel
    members, scan, after, complete, baseline,   \* the last snapshot of paid members and
                                                \* the one being taken
    issued,         \* celebrations ever queued, for fresh ids
    worker,
    posts,          \* how often a greeting was posted (ghost)
    read            \* join messages that were read (ghost)

discord == <<history, roles, gains>>
walk    == <<cursor, head, before>>
snap    == <<members, scan, after, complete, baseline, issued>>
ledger  == <<rows, cooldown, walk, snap>>
bounds  == <<kind, day, events>>
ghosts  == <<posts, read>>
vars    == <<bounds, discord, ledger, worker, ghosts>>

Tiers  == {"starter", "pro"}
Keys   == Users \X (Tiers \union {"join"})
States == {"pending", "sending", "sent", "review", "failed", "skipped"}
Row    == [id : Nat, key : Keys, state : States, created : Nat]
Idle   == [pc |-> "idle", todo |-> {}, row |-> 0, answer |-> "none"]
Answers == {"ok", "limited", "rejected", "lost"}
Worker  == [pc : {"idle", "collect", "compare", "send", "claimed", "answered"},
            todo : SUBSET Nat, row : Nat, answer : Answers \union {"none"}]

(* Besides the types: a greeting has one row, and one that is being sent   *)
(* is claimed.                                                             *)
TypeInvariant ==
    /\ kind \in {"welcome", "membership"} /\ day \in Nat /\ events \in Nat
    /\ history \in Seq(Users \union {0}) /\ roles \in [Users -> Tiers \union {"none"}]
    /\ rows \subseteq Row /\ cooldown \in [Keys -> Nat]
    /\ cursor \in 0..Len(history) /\ head \in 0..Len(history) /\ before \in 0..Len(history)
    /\ {members, scan} \subseteq [Users -> Tiers \union {"none"}] /\ {complete, baseline} \subseteq BOOLEAN
    /\ after \in Nat /\ issued \in Nat /\ gains \in [Keys -> Nat]
    /\ worker \in Worker /\ IsFiniteSet(rows)
    /\ DOMAIN posts \subseteq Nat /\ posts \in [DOMAIN posts -> Nat] /\ read \subseteq Nat
    /\ \A r, s \in rows : r.id = s.id => r = s
    /\ worker.pc \in {"claimed", "answered"} => \E r \in rows : r.id = worker.row /\ r.state = "sending"

NoTier == [u \in Users |-> "none"]
Init ==
    /\ kind \in {"welcome", "membership"} /\ day = 0 /\ events = 0
    /\ history = <<>> /\ roles \in [Users -> {"none", "starter"}] /\ gains = [k \in Keys |-> 0]
    /\ rows = {} /\ cooldown = [k \in Keys |-> 0]
    /\ cursor = 0 /\ head = 0 /\ before = 0
    /\ members = NoTier /\ scan = NoTier /\ after = 0 /\ complete = FALSE /\ baseline = FALSE /\ issued = 0
    /\ worker = Idle /\ posts = [i \in {} |-> 0] /\ read = {}

-----------------------------------------------------------------------------
(* The outbox                                                              *)

At(pc)     == worker.pc = pc
Open       == {r \in rows : r.state \in {"pending", "sending"}}
InState(r, s) == [r EXCEPT !.state = s]
Settled(r, s) == (rows \ {r}) \union {InState(r, s)}
Current    == CHOOSE r \in rows : r.id = worker.row
Posted(i)  == IF i \in DOMAIN posts THEN posts[i] ELSE 0

(* tick: greetings a day old are skipped, settled ones go in time.         *)
Expired(r) == r.state = "pending" /\ r.created < day - 1
Swept == {IF Expired(r) THEN InState(r, "skipped") ELSE r : r \in rows}
Tick ==
    /\ At("idle") /\ worker' = [Idle EXCEPT !.pc = "collect"]
    /\ rows' = {r \in Swept : r.state \in {"pending", "sending"} \/ r.created >= day - RETENTION}
    /\ cooldown' = [k \in Keys |-> IF cooldown[k] <= day THEN 0 ELSE cooldown[k]]
    /\ UNCHANGED <<bounds, discord, walk, snap, ghosts>>

(* _send_pending: the oldest few.                                          *)
Oldest(n, due) == {b \in SUBSET due : /\ Cardinality(b) = n
                                      /\ \A r \in b, s \in due \ b : r.created <= s.created}
ToSend(todo) == [Idle EXCEPT !.pc = "send", !.todo = {r.id : r \in todo}]
Least(n) == IF n < BATCH THEN n ELSE BATCH
Sends(outbox) ==
    LET due == {r \in outbox : r.state \in {"pending", "sending"}}
    IN \E b \in Oldest(Least(Cardinality(due)), due) : worker' = ToSend(b)
Ends == worker' = Idle
Goes(w) == worker' = IF w.todo = {} THEN Idle ELSE w
Next1(r) == r.id \in worker.todo /\ \A s \in rows : s.id \in worker.todo => r.created <= s.created
Done(i) == [Idle EXCEPT !.pc = "send", !.todo = worker.todo \ {i}]

(* One that may have been posted is looked for in the channel's latest     *)
(* messages, where others may have pushed it out of sight.                 *)
Resent == "pending"                      \* mutant: one that is not found is sent again
Unsent == "review"
Reconcile(r) ==
    /\ At("send") /\ Next1(r) /\ r.state = "sending" /\ Goes(Done(r.id))
    /\ \/ Posted(r.id) > 0 /\ rows' = Settled(r, "sent")
       \/ rows' = Settled(r, Unsent)
    /\ UNCHANGED <<bounds, discord, cooldown, walk, snap, ghosts>>
Claim(r) ==
    /\ At("send") /\ Next1(r) /\ r.state = "pending"
    /\ rows' = Settled(r, "sending") /\ worker' = [worker EXCEPT !.pc = "claimed", !.row = r.id]
    /\ UNCHANGED <<bounds, discord, cooldown, walk, snap, ghosts>>
(* Paid work came between: nothing was sent.                               *)
PutOff ==
    /\ At("claimed") /\ rows' = Settled(Current, "pending") /\ Ends
    /\ UNCHANGED <<bounds, discord, cooldown, walk, snap, ghosts>>
Post ==
    /\ At("claimed")
    /\ \E answer \in Answers, arrives \in BOOLEAN :
          /\ answer = "ok" => arrives
          /\ answer \in {"limited", "rejected"} => ~arrives
          /\ worker' = [worker EXCEPT !.pc = "answered", !.answer = answer]
          /\ posts' = IF arrives THEN [i \in DOMAIN posts \union {worker.row} |->
                           Posted(i) + (IF i = worker.row THEN 1 ELSE 0)] ELSE posts
    /\ UNCHANGED <<bounds, discord, ledger, read>>
(* An uncertain one stays claimed; any failure ends the cycle.             *)
AfterLoss(r) == rows
Settle ==
    /\ At("answered")
    /\ rows' = CASE worker.answer = "ok"       -> Settled(Current, "sent")
                 [] worker.answer = "limited"  -> Settled(Current, "pending")
                 [] worker.answer = "rejected" -> Settled(Current, "failed")
                 [] worker.answer = "lost"     -> AfterLoss(Current)
    /\ IF worker.answer = "ok" THEN Goes(Done(worker.row)) ELSE Ends
    /\ UNCHANGED <<bounds, discord, cooldown, walk, snap, ghosts>>

-----------------------------------------------------------------------------
(* Welcomes: the audit channel is read newest first, a page a cycle, back  *)
(* to what an earlier walk has read.                                       *)

Top    == IF before = 0 THEN Len(history) ELSE before - 1
Bottom == IF Top > PAGE THEN Top - PAGE + 1 ELSE 1
Page   == Bottom..Top
New    == {i \in Page : i > cursor}
Highest == Max({cursor, head, Top})
(* _ingest: those who joined, once a day each; a walk ends at the floor.   *)
Joins  == {i \in New : history[i] # 0 /\ cooldown[<<history[i], "join">>] <= day /\ \A r \in rows : r.id # i}
Greeted == {i \in Joins : \A j \in Joins : history[j] = history[i] => i <= j}
ReachedAtOnce == TRUE                    \* mutant: the cursor moves with every page
Reached == Cardinality(Page) < PAGE \/ New # Page
Fits(n) == Cardinality(Open) + n <= MAX_PENDING
Ingest ==
    /\ kind = "welcome" /\ At("collect")
    /\ IF Fits(Cardinality(New))
       THEN /\ rows' = rows \union {[id |-> i, key |-> <<history[i], "join">>, state |-> "pending", created |-> day] : i \in Greeted}
            /\ cooldown' = [k \in Keys |-> IF \E i \in Greeted : k = <<history[i], "join">> THEN day + 1 ELSE cooldown[k]]
            /\ IF Reached THEN cursor' = Highest /\ head' = 0 /\ before' = 0
               ELSE cursor' = cursor /\ head' = Highest /\ before' = Bottom
            /\ read' = read \union Page
       ELSE UNCHANGED <<rows, cooldown, walk, read>>
    /\ Sends(rows') /\ UNCHANGED <<bounds, discord, snap, posts>>

-----------------------------------------------------------------------------
(* Celebrations: paid members are listed a page a cycle; the complete list *)
(* is compared with the last.                                              *)

Listed == {u \in Users : u > after /\ Cardinality({v \in Users : v > after /\ v < u}) < PAGE}
LastPage  == Cardinality(Listed) < PAGE
List ==
    /\ kind = "membership" /\ At("collect")
    /\ IF complete THEN worker' = [Idle EXCEPT !.pc = "compare"] /\ UNCHANGED <<scan, after, complete>>
       ELSE /\ scan' = [u \in Users |-> IF u \in Listed /\ roles[u] # "none" THEN roles[u] ELSE scan[u]]
            /\ IF ~LastPage
               THEN after' \in {u \in Listed : \A v \in Listed : v <= u} /\ Sends(rows) /\ UNCHANGED complete
               ELSE complete' = TRUE /\ worker' = [Idle EXCEPT !.pc = "compare"] /\ UNCHANGED after
    /\ UNCHANGED <<bounds, discord, rows, cooldown, walk, members, baseline, issued, ghosts>>

Scanned  == {u \in Users : scan[u] # "none"}
Upgraded(u) == members[u] = "starter" /\ scan[u] = "pro"
(* The first list is a quiet baseline; then new and upgraded members count.*)
WantedAtOnce(u) == (members[u] = "none" \/ Upgraded(u)) /\ cooldown[<<u, scan[u]>>] <= day  \* mutant: no baseline
Wanted(u) == baseline /\ (members[u] = "none" \/ Upgraded(u)) /\ cooldown[<<u, scan[u]>>] <= day
Celebrated == {u \in Scanned : Wanted(u) /\ Fits(Cardinality({v \in Scanned : Wanted(v) /\ v <= u}))}
Waiting    == {u \in Scanned : Wanted(u)} \ Celebrated
(* An id is random in the code: never one used before.                     *)
Fresh(u)   == issued + Cardinality({v \in Celebrated : v <= u})
(* Members are removed only against a complete list that was used up.      *)
Removed == IF Waiting = {} THEN Users \ Scanned ELSE {}
Compare ==
    /\ kind = "membership" /\ At("compare")
    /\ rows' = rows \union {[id |-> Fresh(u), key |-> <<u, scan[u]>>, state |-> "pending", created |-> day] : u \in Celebrated}
    /\ cooldown' = [k \in Keys |-> IF \E u \in Scanned : k = <<u, scan[u]>> /\ (~baseline \/ u \in Celebrated)
                                   THEN day + 1 ELSE cooldown[k]]
    /\ members' = [u \in Users |-> IF u \in Removed THEN "none"
                                   ELSE IF u \in Scanned \ Waiting THEN scan[u] ELSE members[u]]
    /\ issued' = issued + Cardinality(Celebrated)
    /\ IF Waiting = {} THEN baseline' = TRUE /\ scan' = NoTier /\ after' = 0 /\ complete' = FALSE
       ELSE UNCHANGED <<baseline, scan, after, complete>>
    /\ Sends(rows') /\ UNCHANGED <<bounds, discord, walk, ghosts>>

-----------------------------------------------------------------------------
(* A worker that is stopped, or put off before a request, begins again     *)
(* with its ledger; the server and the days go on.                         *)
Stop == ~At("idle") /\ Ends /\ UNCHANGED <<bounds, discord, ledger, ghosts>>
Happens == events < MAX_EVENTS /\ events' = events + 1 /\ UNCHANGED <<kind, day, ledger, worker, ghosts>>
Message(u) == kind = "welcome" /\ Happens /\ history' = Append(history, u) /\ UNCHANGED <<roles, gains>>
RoleChanges(u, t) ==
    /\ kind = "membership" /\ t # roles[u] /\ Happens /\ roles' = [roles EXCEPT ![u] = t]
    /\ gains' = IF t = "none" THEN gains ELSE [gains EXCEPT ![<<u, t>>] = @ + 1]
    /\ UNCHANGED history
NextDay == day < MAX_DAYS /\ At("idle") /\ day' = day + 1 /\ UNCHANGED <<kind, events, discord, ledger, worker, ghosts>>

Next ==
    \/ Tick \/ PutOff \/ Post \/ Settle \/ Ingest \/ List \/ Compare \/ Stop \/ NextDay
    \/ \E r \in rows : Reconcile(r) \/ Claim(r)
    \/ \E u \in Users \union {0} : Message(u)
    \/ \E u \in Users, t \in Tiers \union {"none"} : RoleChanges(u, t)

Spec == Init /\ [][Next]_vars

-----------------------------------------------------------------------------
(* Properties                                                              *)

(* A greeting pings its member at most once, and what the ledger says of   *)
(* it happened, whatever is lost or stopped: one that may be sent (again)  *)
(* never went out, one that counts as sent did.                            *)
LedgerIsTrue ==
    /\ \A i \in DOMAIN posts : posts[i] <= 1
    /\ \A r \in rows : /\ r.state \in {"pending", "failed", "skipped"} => Posted(r.id) = 0
                       /\ r.state = "sent" => Posted(r.id) = 1
LedgerInvariant == TypeInvariant /\ LedgerIsTrue

(* What makes it so: the worker knows whether the greeting it holds can    *)
(* have gone out, and an id that was used is not used again.               *)
WorkerKnows ==
    /\ At("claimed") => Posted(worker.row) = 0
    /\ At("answered") => /\ worker.answer \in Answers
                         /\ worker.answer = "ok" => Posted(worker.row) = 1
                         /\ worker.answer \in {"limited", "rejected"} => Posted(worker.row) = 0
Used == {r.id : r \in rows} \union DOMAIN posts
UsedIsKnown == Used \subseteq IF kind = "welcome" THEN read ELSE 1..issued
(* The walk has read the messages up to the cursor and its own pages.      *)
WalkIsRead == read = 1..cursor \union (IF before = 0 THEN {} ELSE before..head)
WalkIsAbove == IF before = 0 THEN head = 0 ELSE cursor < before /\ before <= head

OutboxInvariant == LedgerInvariant /\ WorkerKnows /\ UsedIsKnown /\ WalkIsRead /\ WalkIsAbove

(* The cursor passes no join message that was not read: the walk goes from *)
(* the newest back to the floor, over several cycles, backlogs and stops,  *)
(* while more arrive at the top.                                           *)
CursorPassesOnlyRead == 1..cursor \subseteq read

(* So the ledger, and what the walk skips, can be relied on.               *)
OutboxIsTrue == LedgerInvariant /\ CursorPassesOnlyRead

(* A greeting is earned.  A celebration answers an activation: a member is *)
(* congratulated on a tier no more often than it was gained since the      *)
(* worker was installed, whatever lists were cut short or compared late;   *)
(* and one who leaves and comes back is not welcomed again within a day.   *)
GreetingsAreEarned ==
    /\ kind = "membership" =>
          \A u \in Users, t \in Tiers : Cardinality({r \in rows : r.key = <<u, t>>}) <= gains[<<u, t>>]
    /\ \A r, s \in rows : r.key = s.key /\ r.created <= s.created => r = s \/ s.created > r.created

(* What makes it so: an activation that was seen, or can still be seen, as *)
(* a change of tier was gained and is not celebrated yet.                  *)
Count(u, t)  == Cardinality({r \in rows : r.key = <<u, t>>})
WasListed(u) == complete \/ u <= after
OwnedOnce ==
    kind = "membership" => \A u \in Users, t \in Tiers :
        /\ Count(u, t) <= gains[<<u, t>>]
        /\ \/ WasListed(u) /\ scan[u] # t /\ roles[u] = t
           \/ baseline /\ members[u] # t /\ t \in {scan[u], roles[u]}
           => Count(u, t) + 1 <= gains[<<u, t>>]
ScanIsListed == /\ \A u \in Users : scan[u] # "none" => WasListed(u)
                /\ At("compare") => complete
(* ... and a member stays out of the outbox until a day after the last row.*)
RestsADay == \A r \in rows : /\ r.created <= day
                             /\ r.created < day \/ r.created < cooldown[r.key]

EarnedInvariant == OutboxInvariant /\ GreetingsAreEarned /\ OwnedOnce /\ ScanIsListed /\ RestsADay
=============================================================================
