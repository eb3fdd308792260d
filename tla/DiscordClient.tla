--------------------------- MODULE DiscordClient ---------------------------
(***************************************************************************)
(* The HTTP client every Discord worker shares (discord_bridge/api.py,     *)
(* DiscordClient): atomic reservation against learned cooldowns, a sliding *)
(* request budget, one request in flight per major resource, and a pool of *)
(* at most four connections.  A request takes the client's lock three or   *)
(* four times (reserve, headers, 429 body, release); other threads come in *)
(* between.  Bodies, TLS and the wire are abstracted to the answers.       *)
(***************************************************************************)
EXTENDS Integers, FiniteSets, FiniteSetsExt

CONSTANTS
    Callers,            \* threads that call request
    Endpoints,          \* method and normalized path
    Majors, NoMajor,    \* guilds, channels; () for an endpoint without one
    Resources,          \* the <<endpoint, major>> pairs requested
    Buckets, NoBucket,  \* X-RateLimit-Bucket values
    GLOBAL_REQUESTS,    \* 25 reservations
    WINDOW,             \* in this sliding window (1 s)
    MAX_CONNECTIONS,    \* 4
    Delays,             \* bound: values of retry_after and reset_after
    MAX_TIME            \* bound: the clock stops here

ASSUME ClientConstants ==
    /\ IsFiniteSet(Callers)
    /\ NoMajor \notin Majors /\ NoBucket \notin Buckets
    /\ Resources \subseteq Endpoints \X (Majors \union {NoMajor})
    /\ GLOBAL_REQUESTS \in Nat \ {0} /\ WINDOW \in Nat \ {0}
    /\ MAX_CONNECTIONS \in Nat \ {0}
    /\ Delays \subseteq Nat /\ MAX_TIME \in Nat

VARIABLES
    now,            \* time.monotonic
    closed,         \* _closed
    idle,           \* length of _connections
    connections,    \* _connection_count
    inflight,       \* _inflight
    pendingLimits,  \* _pending_limits
    started,        \* _started: time -> reservations made then
    blocked,        \* _blocked
    bucketOf,       \* _route_buckets
    globalUntil,    \* _global_until
    pc, at,         \* caller -> step of its request, resource it asked for
    verdict,        \* caller -> the 429 it was answered, before it is applied
    told, toldGlobal    \* ghost: deadlines Discord has answered so far

clientVars == <<closed, idle, connections, inflight, pendingLimits, started,
                blocked, bucketOf, globalUntil>>
callerVars == <<pc, at, verdict>>
ghostVars  == <<told, toldGlobal>>
requestVars == <<now, clientVars, callerVars, ghostVars>>

RouteKey(r) == <<"route", r[1], r[2]>>
BucketKey(b, m) == <<"bucket", b, m>>
LimitKeys == {RouteKey(r) : r \in Endpoints \X (Majors \union {NoMajor})}
            \union {BucketKey(b, m) : b \in Buckets, m \in Majors \union {NoMajor}}
NoResource == <<>>
Verdict == [global : BOOLEAN, delay : Delays \union {0}]
NoVerdict == [global |-> FALSE, delay |-> 0]

ClientTypes ==
    /\ now \in 0..MAX_TIME /\ closed \in BOOLEAN
    /\ idle \in Nat /\ connections \in Nat
    /\ inflight \subseteq Resources /\ pendingLimits \subseteq inflight
    /\ started \in [0..MAX_TIME -> Nat]
    /\ blocked \in [LimitKeys -> Nat]
    /\ bucketOf \in [Endpoints -> Buckets \union {NoBucket}]
    /\ globalUntil \in Nat
    /\ pc \in [Callers -> {"idle", "reserved", "submitted", "answered", "limited",
                           "refused"}]
    /\ at \in [Callers -> Resources \union {NoResource}]
    /\ verdict \in [Callers -> Verdict]
    /\ told \in [Resources -> Nat] /\ toldGlobal \in Nat

ClientInit ==
    /\ now = 0 /\ closed = FALSE
    /\ idle = 0 /\ connections = 0
    /\ inflight = {} /\ pendingLimits = {}
    /\ started = [t \in 0..MAX_TIME |-> 0]
    /\ blocked = [k \in LimitKeys |-> 0]
    /\ bucketOf = [e \in Endpoints |-> NoBucket]
    /\ globalUntil = 0
    /\ pc = [c \in Callers |-> "idle"]
    /\ at = [c \in Callers |-> NoResource]
    /\ verdict = [c \in Callers |-> NoVerdict]
    /\ told = [r \in Resources |-> 0] /\ toldGlobal = 0

-----------------------------------------------------------------------------
(* The gates                                                               *)

Later(a, b) == IF a > b THEN a ELSE b

(* _limit_key, for a given table of buckets.                               *)
LimitKeyIn(buckets, r) == IF buckets[r[1]] = NoBucket THEN RouteKey(r)
                          ELSE BucketKey(buckets[r[1]], r[2])
LimitKey(r) == LimitKeyIn(bucketOf, r)

(* _cooldown_until                                                         *)
CooledDown(r) == /\ blocked[LimitKey(r)] <= now
                 /\ blocked[RouteKey(r)] <= now
                 /\ globalUntil <= now

Recent == MapThenSumSet(LAMBDA t : started[t], {t \in 0..now : t > now - WINDOW})

(* Mutation: channels are only kept apart by their rate-limit key.         *)
SameKey(r, s) == LimitKey(r) = LimitKey(s)
(* One request at a time per major resource, or per key without a major.   *)
SameResource(r, s) ==
    IF r[2] # NoMajor THEN s[2] = r[2]
    ELSE s[2] = NoMajor /\ LimitKey(r) = LimitKey(s)

ScopeKnown == pendingLimits = {}

(* _wait_until = 0                                                         *)
MayStart(r) ==
    /\ CooledDown(r)
    /\ Recent < GLOBAL_REQUESTS
    /\ ScopeKnown
    /\ \A s \in inflight : ~SameResource(r, s)
    /\ idle > 0 \/ connections < MAX_CONNECTIONS

-----------------------------------------------------------------------------
(* A request                                                               *)

Goto(c, step) == pc' = [pc EXCEPT ![c] = step]

(* Check and reserve under one lock; a refusal (429, not submitted) or a   *)
(* closed client changes nothing.                                          *)
Reserve(c, r) ==
    /\ pc[c] = "idle" /\ ~closed /\ MayStart(r)
    /\ started' = [started EXCEPT ![now] = @ + 1]
    /\ inflight' = inflight \union {r}
    /\ idle' = IF idle > 0 THEN idle - 1 ELSE idle
    /\ connections' = IF idle > 0 THEN connections ELSE connections + 1
    /\ Goto(c, "reserved") /\ at' = [at EXCEPT ![c] = r]
    /\ UNCHANGED <<now, closed, pendingLimits, blocked, bucketOf, globalUntil, verdict,
                   ghostVars>>

Submit(c) == /\ pc[c] = "reserved"
             /\ Goto(c, "submitted")
             /\ UNCHANGED <<now, clientVars, at, verdict, ghostVars>>

(* _learn_bucket: a wait observed under the old key moves along.           *)
Learned(buckets, r) ==
    LET key == LimitKeyIn(buckets, r) IN
    [blocked EXCEPT ![key] = Later(@, blocked[LimitKey(r)])]

(* Mutation: only the bucket is blocked.                                   *)
BlockKeyOnly(table, r, key, until) == [table EXCEPT ![key] = Later(@, until)]
(* _block_route: the endpoint is blocked too, whatever bucket it moves to. *)
BlockRoute(table, r, key, until) ==
    [k \in LimitKeys |-> IF k \in {key, RouteKey(r)} THEN Later(table[k], until) ELSE table[k]]

(* Response headers: a bucket may be learned and used up; a 429 closes the *)
(* client until its body has been read.                                    *)
Headers(c) ==
    LET r == at[c] IN
    /\ pc[c] = "submitted"
    /\ \E b \in Buckets \union {bucketOf[r[1]]} :
        LET buckets == [bucketOf EXCEPT ![r[1]] = b]
            learned == Learned(buckets, r)
        IN  /\ bucketOf' = buckets
            /\ \/ /\ Goto(c, "answered")
                  /\ \/ blocked' = learned /\ UNCHANGED told
                     \/ \E wait \in Delays :
                          /\ blocked' = BlockRoute(learned, r, LimitKeyIn(buckets, r), now + wait)
                          /\ told' = [told EXCEPT ![r] = Later(@, now + wait)]
                  /\ UNCHANGED <<pendingLimits, verdict, toldGlobal>>
               \/ /\ Goto(c, "limited")
                  /\ blocked' = learned
                  /\ pendingLimits' = pendingLimits \union {r}
                  /\ \E v \in [global : BOOLEAN, delay : Delays] :
                       /\ verdict' = [verdict EXCEPT ![c] = v]
                       /\ IF v.global
                          THEN toldGlobal' = Later(toldGlobal, now + v.delay) /\ UNCHANGED told
                          ELSE told' = [told EXCEPT ![r] = Later(@, now + v.delay)]
                                /\ UNCHANGED toldGlobal
    /\ UNCHANGED <<now, closed, idle, connections, inflight, started, globalUntil, at>>

(* The body of a 429, or its headers if the body is lost, gives its scope; *)
(* the key is looked up again.                                             *)
ApplyLimit(c) ==
    LET until == now + verdict[c].delay IN
    /\ pc[c] = "limited"
    /\ Goto(c, "refused")
    /\ IF verdict[c].global
       THEN globalUntil' = Later(globalUntil, until) /\ UNCHANGED blocked
       ELSE blocked' = BlockRoute(blocked, at[c], LimitKey(at[c]), until)
             /\ UNCHANGED globalUntil
    /\ verdict' = [verdict EXCEPT ![c] = NoVerdict]
    /\ UNCHANGED <<now, closed, idle, connections, inflight, pendingLimits, started,
                   bucketOf, at, ghostVars>>

Returned(reusable) == reusable /\ ~closed
PendingCleared(c) == pendingLimits \ {at[c]}
(* The finally block.                                                      *)
Release(c, reusable) ==
    /\ Goto(c, "idle")
    /\ inflight' = inflight \ {at[c]}
    /\ pendingLimits' = PendingCleared(c)
    /\ idle' = IF Returned(reusable) THEN idle + 1 ELSE idle
    /\ connections' = IF Returned(reusable) THEN connections ELSE connections - 1
    /\ at' = [at EXCEPT ![c] = NoResource]
    /\ UNCHANGED <<now, closed, started, blocked, bucketOf, globalUntil, verdict, ghostVars>>

(* A success keeps a connection that the server leaves open.               *)
Succeed(c) == pc[c] = "answered" /\ \E reusable \in BOOLEAN : Release(c, reusable)
(* No connection, a timeout, a broken answer, or an error status.          *)
Fail(c) == pc[c] \in {"reserved", "submitted", "answered", "refused"} /\ Release(c, FALSE)

Close ==
    /\ ~closed /\ closed' = TRUE
    /\ connections' = connections - idle
    /\ idle' = 0
    /\ UNCHANGED <<now, inflight, pendingLimits, started, blocked, bucketOf, globalUntil,
                   callerVars, ghostVars>>

(* Entries that leave the window are dropped at once; the code drops them  *)
(* at the next reservation.                                                *)
ClientTick == /\ now < MAX_TIME
        /\ now' = now + 1
        /\ started' = [t \in 0..MAX_TIME |-> IF t > now' - WINDOW THEN started[t] ELSE 0]
        /\ UNCHANGED <<closed, idle, connections, inflight, pendingLimits, blocked, bucketOf,
                       globalUntil, callerVars, ghostVars>>

RequestStep(c) ==
    \/ \E r \in Resources : Reserve(c, r)
    \/ Submit(c) \/ Headers(c) \/ ApplyLimit(c) \/ Succeed(c) \/ Fail(c)
ClientNext == ClientTick \/ Close \/ \E c \in Callers : RequestStep(c)
ClientSpec == ClientInit /\ [][ClientNext]_requestVars

-----------------------------------------------------------------------------
(* Properties                                                              *)

Busy(c) == pc[c] # "idle"

(* "Serializing a major resource prevents two responses for the same       *)
(* channel from racing rate headers" (_wait_until): two requests under way *)
(* never concern the same channel or guild, and each has its own entry.    *)
OneRequestPerMajor ==
    /\ inflight = {at[c] : c \in {d \in Callers : Busy(d)}}
    /\ \A c, d \in Callers : c # d /\ Busy(c) /\ Busy(d) =>
        at[c] # at[d] /\ (at[c][2] # NoMajor => at[c][2] # at[d][2])

(* Whatever fails and whenever the client closes, every connection is      *)
(* either idle or owned by one request, and none outlives the close.       *)
NoConnectionLeaks ==
    /\ connections = idle + Cardinality({c \in Callers : Busy(c)})
    /\ connections <= MAX_CONNECTIONS
    /\ closed => idle = 0

(* Requests, connections and entries account for each other.               *)
ClientInvariant == ClientTypes /\ OneRequestPerMajor /\ NoConnectionLeaks

(* Behind the next property: a deadline that was answered is in the tables *)
(* the gates look at, or a caller that has yet to apply it holds the scope *)
(* back, so that nobody starts.                                            *)
Limited(c) == pc[c] = "limited"
Owes(c) == now + verdict[c].delay
DeadlinesAreHeld ==
    /\ \A c \in Callers : Limited(c) => at[c] \in pendingLimits
    /\ \A r \in Resources :
          \/ told[r] <= blocked[RouteKey(r)]
          \/ \E c \in Callers : /\ Limited(c) /\ at[c] = r /\ ~verdict[c].global
                                /\ told[r] <= Owes(c)
    /\ \/ toldGlobal <= globalUntil
       \/ \E c \in Callers : Limited(c) /\ verdict[c].global /\ toldGlobal <= Owes(c)

(* "A bucket change must not shorten an observed wait" (_block_route):     *)
(* no request starts on an endpoint and channel before every deadline      *)
(* Discord answered for it, or for the whole bot, from the moment the      *)
(* answer's headers arrived.                                               *)
CooldownsAreKept ==
    [][\A c \in Callers : pc[c] = "idle" /\ pc'[c] = "reserved" =>
          told[at'[c]] <= now /\ toldGlobal <= now]_requestVars
=============================================================================
