------------------------------ MODULE Provision ------------------------------
(***************************************************************************)
(* The setup of the Discord server (discord_bridge/provision.py, layout.py,*)
(* request_setup.py, trial_setup.py): roles, categories and channels made  *)
(* one after another and recorded in a state file, features bound to       *)
(* resources that the owner made, and the audit that every delivery waits  *)
(* for.  One setup process runs at a time, as the code asks; it may fail   *)
(* or be killed anywhere, and a creation whose answer is lost may have     *)
(* taken effect.  The owner changes the server and grants rights as they   *)
(* like.                                                                   *)
(*                                                                         *)
(* Of permissions only viewing, administrating, managing roles and the     *)
(* bot's setup rights are told apart; topics, slow mode and the bits for   *)
(* writing are left out.                                                   *)
(***************************************************************************)
EXTENDS Integers, Sequences, FiniteSets

CONSTANTS
    Roles,          \* ROLE_NAMES, in order
    Categories,     \* CATEGORIES, in order
    Channels,       \* CHANNELS, in order
    Audience,       \* category -> everyone, starter, pro or operations
    CategoryOf,     \* channel -> its category
    Retired,        \* what need not exist any more
    MAX_IDS,        \* bound: resources that ever exist
    MAX_CHANGES,    \* bound: changes by the owner
    MAX_SETUP_FAILURES  \* bound: lost answers, failed saves, kills

InOrder(seq) == {seq[n] : n \in DOMAIN seq}
Optional     == {"item-requests", "trial-management"}    \* OPTIONAL_CHANNELS
RoleKeys     == InOrder(Roles) \union {"trial"}
CategoryKeys == InOrder(Categories)
ChannelKeys  == InOrder(Channels) \union Optional
ServerKeys   == RoleKeys \union CategoryKeys \union ChannelKeys
Everyone     == 0        \* the role @everyone has the server's own id
Bot          == 1        \* the collector bot
ServerIds    == 2..MAX_IDS
Permissions  == {"view", "admin", "manage"}
Rights       == {"setup", "manage"}

ASSUME ProvisionConstants ==
    /\ {"starter", "pro"} \subseteq InOrder(Roles) /\ "trial" \notin InOrder(Roles)
    /\ RoleKeys \cap (CategoryKeys \union ChannelKeys) = {} /\ CategoryKeys \cap ChannelKeys = {}
    /\ Optional \cap InOrder(Channels) = {}
    /\ ServerKeys \cap {"member", "secure", "everyone", "other"} = {}
    /\ Audience \in [CategoryKeys -> {"everyone", "starter", "pro", "operations"}]
    /\ CategoryOf \in [ChannelKeys -> CategoryKeys]
    /\ Retired \subseteq ServerKeys /\ MAX_IDS \in Nat \ {0}

VARIABLES
    server,         \* Discord: id -> role, category or channel
    lastId,         \* the last id that Discord gave out: none is used twice
    atLarge,        \* the base permissions of @everyone
    loose,          \* the widget is on, or a security level too low
    preview,        \* Server Discovery or a public preview is on
    rights,         \* what the bot's own role may do beyond reading and posting
    ranked,         \* Pro Trial < bot < Pro < membership bot
    file,           \* the state file: key -> id (0: none), and the bound membership bot
    setup,          \* the process: its step, its copy of the state, what is left to do
    made,           \* ghost: <<key, id>> of what setup created
    untouched,      \* ghost: of these, what the owner did not change
    owned, failed   \* bounds: changes, failures

serverVars == <<server, lastId, atLarge, loose, preview, rights, ranked, file, setup, made, untouched,
                owned, failed>>
policyVars == <<atLarge, loose, preview, rights, ranked>>

Resource == [kind : {"role", "category", "channel"}, name : ServerKeys \union {"other"},
             base : SUBSET Permissions, managed : BOOLEAN, parent : ServerIds \union {0},
             allow : SUBSET (ServerIds \union {Everyone, Bot}), deny : SUBSET {Everyone}]
Gone     == [kind |-> "none"]
Blank(kind, name) == [kind |-> kind, name |-> name, base |-> {}, managed |-> FALSE, parent |-> 0,
                      allow |-> {}, deny |-> {}]
KindOf(key) ==
    IF key \in RoleKeys THEN "role" ELSE IF key \in CategoryKeys THEN "category" ELSE "channel"
State    == [ServerKeys \union {"member"} -> ServerIds \union {0}]
NewState == [k \in ServerKeys \union {"member"} |-> 0]
Process  == [step : {"idle", "check", "first", "make", "note", "audit", "bind"}, state : State,
             todo : SUBSET (ServerKeys \union {"secure", "everyone"})]
AtRest   == [step |-> "idle", state |-> NewState, todo |-> {}]

ProvisionTypes ==
    /\ server \in [ServerIds -> Resource \union {Gone}] /\ lastId \in 1..MAX_IDS
    /\ atLarge \subseteq Permissions /\ loose \in BOOLEAN /\ preview \in BOOLEAN
    /\ rights \subseteq Rights /\ ranked \in BOOLEAN
    /\ file \in State
    /\ setup \in Process
    /\ made \subseteq ServerKeys \X ServerIds /\ untouched \subseteq ServerIds /\ owned \in Nat

ProvisionInit ==
    /\ server = [i \in ServerIds |-> Gone] /\ lastId = 1
    /\ atLarge = {"view"} /\ loose = TRUE /\ preview = FALSE
    /\ rights = Rights /\ ranked = FALSE
    /\ file = NewState /\ setup = AtRest
    /\ made = {} /\ untouched = {} /\ owned = 0 /\ failed = 0

-----------------------------------------------------------------------------
(* What a state and the server say                                         *)

Are(kind)   == {i \in ServerIds : server[i].kind = kind}
Places      == Are("category") \union Are("channel")
Tracks(s, keys) == {s[k] : k \in keys} \ {0}

(* permission_overwrites, of viewing.                                      *)
ReaderKeys(category) ==
    CASE Audience[category] = "starter" -> {"starter", "pro", "trial"}
      [] Audience[category] = "pro"     -> {"pro", "trial"}
      [] OTHER                          -> {}
Readers(s, category) == Tracks(s, ReaderKeys(category))
Public(category)     == Audience[category] = "everyone"
CategoryAt(key)      == IF key \in CategoryKeys THEN key ELSE CategoryOf[key]
Unlisted(category)   == {}              \* mutant: nobody is denied the channel
Denied(category)     == IF Public(category) THEN {} ELSE {Everyone}
Allowed(s, category) ==
    Readers(s, category) \union {Bot} \union (IF Public(category) THEN {Everyone} ELSE {})
Parent(s, key) == IF key \in CategoryKeys THEN 0 ELSE s[CategoryOf[key]]

(* _role_findings.  A process in setup may have its rights, and resets     *)
(* @everyone itself.                                                       *)
RoleFine(s, inSetup) ==
    /\ "admin" \notin atLarge /\ (inSetup \/ atLarge = {})
    /\ \A i \in Are("role") :
        LET base == server[i].base
        IN  /\ "admin" \notin base
            /\ CASE i \in Tracks(s, RoleKeys) -> base = {}
                 [] i = s["member"]           -> "manage" \in base /\ base \subseteq {"manage", "view"}
                 [] OTHER                     -> base \subseteq {"view"}
    /\ rights \subseteq IF inSetup THEN Rights ELSE IF s["trial"] # 0 THEN {"manage"} ELSE {}
    /\ s["member"] # 0 =>
          /\ server[s["member"]].kind = "role" /\ server[s["member"]].managed
          /\ ranked /\ \A k \in InOrder(Roles) : s[k] # 0
    /\ s["trial"] # 0 => "manage" \in rights /\ ranked

(* _resource_findings                                                      *)
Lenient(s)       == TRUE                \* mutant: channels that the file does not name are let be
NoneUntracked(s) == Places \subseteq Tracks(s, CategoryKeys \union ChannelKeys)
RoleIs(s, key, complete) ==
    IF s[key] = 0 THEN ~complete /\ \A i \in Are("role") : server[i].name # key
    ELSE LET here == server[s[key]]
         IN  IF here = Gone THEN key \in Retired
             ELSE here.kind = "role" /\ here.name = key /\ ~here.managed
(* The audit lets the owner rename categories; setup does not.             *)
PlaceIs(s, key, complete) ==
    IF s[key] = 0 THEN ~complete
    ELSE LET here == server[s[key]]
         IN  IF here = Gone THEN key \in Retired ELSE
             /\ here.kind = KindOf(key) /\ here.parent = Parent(s, key)
             /\ here.name = key \/ (complete /\ key \in CategoryKeys)
             /\ here.allow = Allowed(s, CategoryAt(key)) /\ here.deny = Denied(CategoryAt(key))
Features(s) == {k \in Optional : s[k] # 0}
ResourcesFine(s, complete) ==
    /\ NoneUntracked(s)
    /\ \A k \in RoleKeys : (k = "trial" /\ s[k] = 0) \/ RoleIs(s, k, complete)
    /\ \A k \in CategoryKeys \union InOrder(Channels) \union Features(s) : PlaceIs(s, k, complete)

(* audit                                                                   *)
AuditOk(s) ==
    RoleFine(s, FALSE) /\ ResourcesFine(s, TRUE) /\ ~preview /\ ~loose

-----------------------------------------------------------------------------
(* provision                                                               *)

ServerQuiet == UNCHANGED <<server, lastId, policyVars, made, untouched, owned>>
SetupEnds   == setup' = AtRest
SetupFails  == failed < MAX_SETUP_FAILURES /\ failed' = failed + 1

LoadedAfresh(s) == NewState             \* mutant: what an earlier setup recorded is not read
Loaded(s)       == s
Provision ==
    /\ setup.step = "idle"
    /\ setup' = [step |-> "check", state |-> Loaded(file), todo |-> {}]
    /\ ServerQuiet /\ UNCHANGED <<file, failed>>

(* What is to be done, one after another in this order.                    *)
Order     == <<"secure", "everyone">> \o Roles \o Categories \o Channels
Rank(key) == CHOOSE n \in DOMAIN Order : Order[n] = key
Is(key, condition) == IF condition THEN {key} ELSE {}
Required  == InOrder(Roles) \union CategoryKeys \union InOrder(Channels)
Untracked == {k \in Required : setup.state[k] = 0}
Planned   == Is("secure", loose) \union Is("everyone", atLarge # {}) \union Untracked
Check ==
    /\ setup.step = "check"
    /\ IF ~preview /\ RoleFine(setup.state, TRUE) /\ ResourcesFine(setup.state, FALSE) /\ rights = Rights
       THEN setup' = [setup EXCEPT !.step = "first", !.todo = Planned]
       ELSE SetupEnds
    /\ ServerQuiet /\ UNCHANGED <<file, failed>>

(* _save_state: the file is replaced, or it stays as it was.               *)
Record(next) ==
    \/ file' = setup.state /\ setup' = next /\ UNCHANGED failed
    \/ SetupFails /\ SetupEnds /\ UNCHANGED file
Rest(todo) == IF todo = {} THEN AtRest ELSE [setup EXCEPT !.step = "make", !.todo = todo]
FirstSave  == setup.step = "first" /\ Record(Rest(setup.todo)) /\ ServerQuiet

NewId == lastId + 1
Gives(ids) == lastId + ids <= MAX_IDS /\ lastId' = lastId + ids
Creation(s, key) ==
    IF key \in RoleKeys THEN Blank("role", key)
    ELSE [Blank(KindOf(key), key) EXCEPT
            !.parent = Parent(s, key), !.allow = Allowed(s, CategoryAt(key)),
            !.deny = Denied(CategoryAt(key))]
Makes(key) ==
    /\ key \in ServerKeys /\ Gives(1)
    /\ server' = [server EXCEPT ![NewId] = Creation(setup.state, key)]
    /\ made' = made \union {<<key, NewId>>} /\ untouched' = untouched \union {NewId}
    /\ UNCHANGED policyVars
Effect(key) ==
    \/ Makes(key)
    \/ /\ key \in {"secure", "everyone"}
       /\ loose' = (loose /\ key # "secure")
       /\ atLarge' = IF key = "everyone" THEN {} ELSE atLarge
       /\ UNCHANGED <<server, lastId, made, untouched, preview, rights, ranked>>
(* One request: it succeeds; or Discord refuses it, the right being gone   *)
(* or for reasons of its own; or its answer is lost.                       *)
Make(key) ==
    /\ setup.step = "make" /\ key \in setup.todo
    /\ \A other \in setup.todo : Rank(key) <= Rank(other)
    /\ LET left == setup.todo \ {key}
       IN  \/ /\ "setup" \in rights /\ Effect(key) /\ UNCHANGED failed
              /\ setup' = IF key \in ServerKeys
                          THEN [setup EXCEPT !.step = "note", !.state[key] = NewId, !.todo = left]
                          ELSE Rest(left)
           \/ /\ SetupEnds /\ UNCHANGED <<server, lastId, made, untouched, policyVars>>
              /\ IF "setup" \in rights THEN SetupFails ELSE UNCHANGED failed
           \/ "setup" \in rights /\ Effect(key) /\ SetupEnds /\ SetupFails
    /\ UNCHANGED <<file, owned>>
Note == setup.step = "note" /\ Record(Rest(setup.todo)) /\ ServerQuiet

SetupDies ==
    /\ setup.step # "idle" /\ SetupFails /\ SetupEnds
    /\ ServerQuiet /\ UNCHANGED file

-----------------------------------------------------------------------------
(* bind_request_channel, bind_trial_access, bind_membership: the state     *)
(* with the ids that the owner names passes the audit before it is saved.  *)

Binds(new) == [k \in DOMAIN file |-> IF k \in DOMAIN new THEN new[k] ELSE file[k]]
Bindings ==
    {[k \in {"item-requests"} |-> i] : i \in Are("channel")}
    \union {[k \in {"trial", "trial-management"} |-> IF k = "trial" THEN i ELSE j] :
                i \in Are("role"), j \in Are("channel")}
    \union {[k \in {"member"} |-> i] : i \in Are("role")}
Bindable(new) ==
    /\ \A k \in DOMAIN new : k # "member" => file[k] \in {0, new[k]}
    /\ \A k \in DOMAIN new, l \in DOMAIN file : l # k => file[l] # new[k]
Bind(new) ==
    /\ setup.step = "idle" /\ file # NewState /\ Bindable(new)
    /\ setup' = [step |-> "audit", state |-> Binds(new), todo |-> {}]
    /\ ServerQuiet /\ UNCHANGED <<file, failed>>
BindAudit ==
    /\ setup.step = "audit"
    /\ IF AuditOk(setup.state) THEN setup' = [setup EXCEPT !.step = "bind"] ELSE SetupEnds
    /\ ServerQuiet /\ UNCHANGED <<file, failed>>
BindSave == setup.step = "bind" /\ Record(AtRest) /\ ServerQuiet

-----------------------------------------------------------------------------
(* The owner                                                               *)

Changes == owned < MAX_CHANGES /\ owned' = owned + 1
OwnerQuiet == UNCHANGED <<file, setup, failed>>

(* Rights and ranks change as often as they like.                          *)
Grant ==
    /\ rights' \in {Rights, {"manage"}, {}} /\ ranked' \in BOOLEAN
    /\ OwnerQuiet /\ UNCHANGED <<server, lastId, atLarge, loose, preview, made, untouched, owned>>
SetPolicy ==
    /\ Changes
    /\ \/ atLarge' \in {{"view"}, {"admin"}} /\ UNCHANGED <<loose, preview>>
       \/ preview' = ~preview /\ UNCHANGED <<loose, atLarge>>
    /\ OwnerQuiet /\ UNCHANGED <<server, lastId, rights, ranked, made, untouched>>
(* Discord drops the overwrites for a role with it, and takes the channels *)
(* out of a category.                                                      *)
Delete(i) ==
    /\ Changes /\ server[i] # Gone
    /\ server' = [j \in ServerIds |->
          IF j = i \/ server[j] = Gone THEN Gone
          ELSE [server[j] EXCEPT !.allow = @ \ {i}, !.parent = IF @ = i THEN 0 ELSE @]]
    /\ OwnerQuiet /\ UNCHANGED <<lastId, policyVars, made, untouched>>
Altered(r) ==
    {[r EXCEPT !.name = "other"]} \union
    IF r.kind = "role" THEN {[r EXCEPT !.base = {"admin"}]}
    ELSE {[r EXCEPT !.deny = {}]} \union {[r EXCEPT !.allow = @ \union {j}] : j \in Are("role")}
Alters(i) ==
    /\ Changes /\ server[i] # Gone
    /\ \E new \in Altered(server[i]) \ {server[i]} :
          server' = [server EXCEPT ![i] = new]
    /\ untouched' = untouched \ {i}
    /\ OwnerQuiet /\ UNCHANGED <<lastId, policyVars, made>>
Adds ==
    /\ Changes /\ Gives(1)
    /\ \E new \in {Blank("role", "pro"), [Blank("role", "other") EXCEPT !.base = {"view"}],
                   [Blank("role", "other") EXCEPT !.base = {"manage"}, !.managed = TRUE],
                   Creation(file, "item-requests")} :
            server' = [server EXCEPT ![NewId] = new]
    /\ OwnerQuiet /\ UNCHANGED <<policyVars, made, untouched>>
(* What trial_access_plan asks for: a role, a channel, and the overwrites  *)
(* of the channels for Pro; the owner may do the first of it only.         *)
PrepareTrial ==
    /\ Changes /\ Gives(2)
    /\ LET role == NewId
           candidate == [file EXCEPT !["trial"] = role]
           pro(i) == \E k \in CategoryKeys \union ChannelKeys :
                        file[k] = i /\ Audience[CategoryAt(k)] = "pro"
           opened == [i \in ServerIds |->
                IF pro(i) /\ server[i] # Gone THEN [server[i] EXCEPT !.allow = @ \union {role}]
                ELSE server[i]]
       IN  server' \in
             {[server EXCEPT ![role] = Blank("role", "trial")],
              [opened EXCEPT ![role] = Blank("role", "trial"),
                             ![role + 1] = Creation(candidate, "trial-management")]}
    /\ untouched' = {i \in untouched : server'[i] = server[i]}
    /\ OwnerQuiet /\ UNCHANGED <<policyVars, made>>
LoseFile ==
    /\ Changes /\ setup.step = "idle" /\ file' = NewState
    /\ UNCHANGED <<server, lastId, policyVars, setup, made, untouched, failed>>

OwnerStep == \/ Grant \/ SetPolicy \/ Adds \/ PrepareTrial \/ LoseFile
             \/ \E i \in ServerIds : Delete(i) \/ Alters(i)
SetupStep == \/ Provision \/ Check \/ FirstSave \/ Note \/ SetupDies
             \/ (\E key \in setup.todo : Make(key))
             \/ (\E new \in Bindings : Bind(new)) \/ BindAudit \/ BindSave
ProvisionNext == SetupStep \/ OwnerStep
ProvisionSpec == ProvisionInit /\ [][ProvisionNext]_serverVars

-----------------------------------------------------------------------------
(* Properties                                                              *)

(* Who sees a place, by Discord's rule: administrators; else an allow of   *)
(* any role held, else the overwrite for everyone, else the base.          *)
CanView(held, place) ==
    LET base == atLarge \union UNION {server[i].base : i \in held}
    IN  \/ "admin" \in base
        \/ held \cap server[place].allow # {}
        \/ Everyone \in server[place].allow
        \/ Everyone \notin server[place].deny /\ "view" \in base

(* An audit without findings, and so every delivery, means that each place *)
(* of the server is seen by its audience and by no other member, whatever  *)
(* roles they hold and whatever the owner added, changed or removed.       *)
AuditIsPrivate ==
    AuditOk(file) =>
        \A place \in Places : \E key \in CategoryKeys \union ChannelKeys :
            /\ file[key] = place
            /\ \A held \in SUBSET Are("role") :
                  CanView(held, place) <=>
                      Public(CategoryAt(key)) \/ held \cap Readers(file, CategoryAt(key)) # {}

(* No place is open even for a moment: from its creation on, what setup    *)
(* made and the owner left alone is seen by the roles made for its         *)
(* audience only, unless the owner makes administrators.                   *)
MadeFor(keys) == {m[2] : m \in {n \in made : n[1] \in keys}}
PrivateFromBirth ==
    \A m \in made :
        /\ m[1] \notin RoleKeys /\ m[2] \in untouched /\ m[2] \in Places /\ ~Public(CategoryAt(m[1]))
        => \A held \in SUBSET Are("role") :
              CanView(held, m[2]) =>
                  \/ held \cap MadeFor(ReaderKeys(CategoryAt(m[1]))) # {}
                  \/ "admin" \in atLarge \union UNION {server[i].base : i \in held}

(* Whatever fails in between, setup never makes a second copy of what      *)
(* exists and never takes over what it did not make.                       *)
Stands(m) == server[m[2]] # Gone /\ server[m[2]].name = m[1]
MadeOnce  == \A m, n \in made : m[1] = n[1] /\ Stands(m) /\ Stands(n) => m = n
NoneAdopted ==
    \A s \in {file, setup.state} : \A k \in ServerKeys \ (Optional \union {"trial"}) :
        s[k] # 0 => <<k, s[k]>> \in made

SetupInvariant == ProvisionTypes /\ AuditIsPrivate /\ PrivateFromBirth /\ MadeOnce /\ NoneAdopted

(* What the file names is named for good, unless the owner loses the file. *)
FileNamesForGood ==
    [][owned' = owned => \A k \in ServerKeys : file[k] # 0 => file'[k] = file[k]]_serverVars

-----------------------------------------------------------------------------
(* The inductive invariant                                                 *)

(* A process never loses or replaces what the file names.                  *)
SetupKnows ==
    setup.step # "idle" => \A k \in ServerKeys : file[k] # 0 => setup.state[k] = file[k]
(* It is about to make only what nobody has: it checked the whole server,  *)
(* and since then nobody else could make the like of it.                   *)
TodoIsMissing ==
    setup.step \in {"first", "make", "note"} =>
        \A k \in setup.todo \cap ServerKeys :
            k \in Required /\ setup.state[k] = 0 /\ \A m \in made : m[1] = k => ~Stands(m)
(* An id is given out once and keeps its kind.                             *)
KindsStay ==
    /\ \A m \in made : m[2] <= lastId /\ server[m[2]].kind \in {"none", KindOf(m[1])}
    /\ \A i \in ServerIds : i > lastId => server[i] = Gone
(* The role for trials is bound when all the rest is there: no place is    *)
(* made for it.                                                            *)
Complete(s) == \A k \in Required : s[k] # 0
TrialIsLast ==
    /\ file["trial"] # 0 => Complete(file)
    /\ setup.step \notin {"idle", "audit"} /\ setup.state["trial"] # 0 => Complete(setup.state)
(* What was made shut stays shut.                                          *)
Shut(m) ==
    m[1] \notin RoleKeys /\ m[2] \in untouched /\ m[2] \in Places /\ ~Public(CategoryAt(m[1]))
BornShut ==
    \A m \in made : Shut(m) =>
        /\ server[m[2]].deny = {Everyone}
        /\ server[m[2]].allow \subseteq {Bot} \union MadeFor(ReaderKeys(CategoryAt(m[1])))

ProvisionInvariant ==
    /\ ProvisionTypes /\ SetupKnows /\ TodoIsMissing /\ KindsStay /\ NoneAdopted /\ MadeOnce
    /\ TrialIsLast /\ BornShut
=============================================================================
