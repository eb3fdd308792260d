------------------------------ MODULE Telegram ------------------------------
(***************************************************************************)
(* Telegram in the relay server: the poller of the owner's commands        *)
(* (src/telegram_commands.py), the notifier whose destination they move    *)
(* and whose waits Telegram sets (src/notifiers/telegram.py), and the      *)
(* watchdog that reports a silent relay through it                         *)
(* (src/relay_watchdog.py).  They share the process, the markers and the   *)
(* files of SeenStore with the requests of Relay; here the requests only   *)
(* send an alert.  The texts of messages and of diagnostics are left out.  *)
(*                                                                         *)
(* A unit of time is a period of the watchdog: it checks in each, and a    *)
(* post to Telegram ends in the one it began in.                           *)
(***************************************************************************)
EXTENDS Relay

CONSTANTS
    Groups,         \* chats the bot is in, besides the owner's private one
    STALE_AFTER,    \* stale_seconds, in periods
    MAX_LIMITS,     \* MAX_RATE_LIMIT_DESTINATIONS
    Waits,          \* retry_after values
    MAX_UPDATES,    \* bound: messages to the bot
    MAX_ALERTS,     \* bound: alerts of items
    MAX_PERIODS     \* bound: the clock stops here

Owner == 1          \* the owner's account is also the private chat
Chats == {Owner} \union Groups

ASSUME TelegramConstants ==
    /\ Groups \subseteq Nat \ {0, Owner} /\ IsFiniteSet(Groups)
    /\ {"offset", "chat", "relay"} \subseteq Markers
    /\ STALE_AFTER \in Nat /\ STALE_AFTER >= 2    \* more than the period of the checks
    /\ MAX_LIMITS \in Nat \ {0} /\ Waits \subseteq Nat \ {0}
    /\ MAX_UPDATES \in Nat /\ MAX_ALERTS \in Nat /\ MAX_PERIODS \in Nat

VARIABLES
    inbox,          \* Telegram: the messages sent to the bot; the index is the update_id
    confirmed,      \* Telegram: the updates it was told to forget
    step,           \* the poller's thread: about to prepare, to poll, in a batch, about to
                    \* move the destination, replying, or ended
    batch,          \* the update it looks at and the last one of the batch
    replies,        \* the chats that this update's answers still go to
    offset,         \* _next_offset (0: none)
    target,         \* the notifier's _chat_id
    limits,         \* _rate_limited_until (0: absent)
    posting,        \* sender -> the chat of its post under way (0: none)
    lastRelay,      \* _last_successful_relay (0: none)
    since,          \* when the process started
    warned,         \* the watchdog's _alerted
    checked,        \* it has checked in this period
    about,          \* the silence that its post is about: when it began
    told,           \* ghost: chat -> the latest end of a wait Telegram set, unless evicted
    reported,       \* ghost: silences whose warning this process knows delivered
    forgotten,      \* ghost: the process may lack a choice made before it started, and
                    \* no destination has been chosen since
    doubtful,       \* ghost: a start may lack a choice below the offset it would load
    alerts          \* bound: alerts sent

pollerVars   == <<inbox, confirmed, step, batch, replies, offset, target, forgotten, doubtful>>
sendVars     == <<limits, posting, told, alerts>>
watchdogVars == <<lastRelay, since, warned, checked, about, reported>>
telegramVars == <<pollerVars, sendVars, watchdogVars>>

Senders == {"poller", "request", "watchdog"}
Texts   == {"usehere", "useprivate", "test", "status"}
Message == [mine : BOOLEAN, chat : Chats, text : Texts]

TelegramTypes ==
    /\ inbox \in Seq(Message) /\ confirmed \in 0..Len(inbox)
    /\ step \in {"prepare", "poll", "batch", "move", "reply", "ended"}
    /\ batch \in [next : Nat, last : Nat]
    /\ replies \in Seq(Chats)
    /\ offset \in Nat /\ target \in Chats
    /\ limits \in [Chats -> Nat] /\ told \in [Chats -> Nat]
    /\ posting \in [Senders -> Chats \union {0}]
    /\ lastRelay \in Nat /\ since \in Nat /\ about \in Nat /\ reported \subseteq Nat
    /\ warned \in BOOLEAN /\ checked \in BOOLEAN
    /\ forgotten \in BOOLEAN /\ doubtful \in BOOLEAN

NoBatch == [next |-> 1, last |-> 0]

TelegramInit ==
    /\ inbox = <<>> /\ confirmed = 0
    /\ step = "prepare" /\ batch = NoBatch /\ replies = <<>>
    /\ offset = 0 /\ target = Owner /\ forgotten = FALSE /\ doubtful = FALSE
    /\ limits = [c \in Chats |-> 0] /\ told = [c \in Chats |-> 0]
    /\ posting = [s \in Senders |-> 0] /\ alerts = 0
    /\ lastRelay = 0 /\ since = 1 /\ warned = FALSE /\ checked = FALSE
    /\ about = 0 /\ reported = {}

-----------------------------------------------------------------------------
(* send_text                                                               *)

Waiting(c) == limits[c] > now
Reaped     == [c \in Chats |-> IF Waiting(c) THEN limits[c] ELSE 0]

(* The destination is fixed and its wait looked at, and the post goes out. *)
Post(s, c) == ~Waiting(c) /\ posting' = [posting EXCEPT ![s] = c] /\ limits' = Reaped
(* A chat that must wait gets no post; nothing but the answer FALSE.       *)
Held(c)    == Waiting(c) /\ limits' = Reaped /\ UNCHANGED posting
Answered(s) == posting' = [posting EXCEPT ![s] = 0]

ThisOf(x, y)   == y                    \* mutant: the last answer replaces a longer wait
LongerOf(x, y) == IF x < y THEN y ELSE x

(* _defer_rate_limited: a new chat takes the place of the wait that ends   *)
(* first when there are too many.                                          *)
Defer(c, wait) ==
    LET full  == Reaped[c] = 0 /\ Cardinality({d \in Chats : Waiting(d)}) >= MAX_LIMITS
        first == {d \in Chats : Waiting(d) /\ \A x \in Chats : Waiting(x) => limits[d] <= limits[x]}
    IN  \E out \in IF full THEN first ELSE {0} :
            /\ limits' = [d \in Chats |-> IF d = c THEN LongerOf(Reaped[c], now + wait)
                                          ELSE IF d = out THEN 0 ELSE Reaped[d]]
            /\ told' = [d \in Chats |-> IF d = c THEN IF told[c] < now + wait THEN now + wait ELSE told[c]
                                        ELSE IF d = out THEN 0 ELSE told[d]]

(* Delivered; told to wait; or refused, or the answer lost.                *)
Outcome(s, ok) ==
    /\ posting[s] # 0 /\ Answered(s)
    /\ \/ ok /\ UNCHANGED <<limits, told, failures>>
       \/ ~ok /\ failures < MAX_FAILURES /\ failures' = failures + 1
             /\ (UNCHANGED <<limits, told>> \/ \E w \in Waits : Defer(posting[s], w))

storeQuiet == <<seenVars, proc, threadVars, ghostVars, stops>>

-----------------------------------------------------------------------------
(* The poller                                                              *)

(* Telegram returns what is not confirmed, from the offset on, and forgets *)
(* what is below it; the answer may be lost after that.                    *)
Confirmed == IF confirmed < offset - 1 THEN offset - 1 ELSE confirmed

(* getWebhookInfo: a webhook ends the thread, a failure does not.          *)
Prepare ==
    /\ Alive /\ step = "prepare"
    /\ step' \in {"poll", "ended"}
    /\ UNCHANGED <<storeQuiet, failures, inbox, confirmed, batch, replies, offset, target,
                   forgotten, doubtful, sendVars, watchdogVars>>

PollOnce ==
    /\ Alive /\ step = "poll"
    /\ confirmed' = Confirmed
    /\ \/ /\ confirmed' < Len(inbox)
          /\ batch' = [next |-> confirmed' + 1, last |-> Len(inbox)]
          /\ step' = "batch" /\ UNCHANGED failures
       \/ /\ failures < MAX_FAILURES /\ failures' = failures + 1
          /\ confirmed' # confirmed
          /\ UNCHANGED <<step, batch>>
    /\ UNCHANGED <<storeQuiet, inbox, replies, offset, target, forgotten, doubtful, sendVars,
                   watchdogVars>>

(* What _handle_update does with a message.                                *)
AnySender(m) == TRUE                    \* mutant: the sender is not looked at
Mine(m)      == m.mine
Switches(m) == /\ Mine(m)
               /\ \/ m.text = "usehere" /\ m.chat \in Groups
                  \/ m.text = "useprivate" /\ m.chat = Owner
Answers(m)  == /\ Mine(m) /\ m.text \in {"test", "status"}
               /\ m.chat = Owner \/ m.chat = target
(* A test goes to the destination, and its result to a chat that is not it.*)
ReplyChats(m) == IF m.text = "test" /\ m.chat # target THEN <<target, m.chat>> ELSE <<m.chat>>

Looked  == inbox[batch.next]
NextOne == batch' = [batch EXCEPT !.next = @ + 1]

HandleUpdate ==
    /\ Alive /\ step = "batch" /\ batch.next <= batch.last
    /\ \/ /\ Switches(Looked) /\ Room
          /\ SetMarker("chat", Looked.chat)
          /\ step' = "move" /\ replies' = <<>> /\ UNCHANGED batch
       \/ /\ Answers(Looked)
          /\ step' = "reply" /\ replies' = ReplyChats(Looked)
          /\ UNCHANGED <<batch, seenVars>>
       \/ /\ ~Switches(Looked) /\ ~Answers(Looked)
          /\ NextOne /\ UNCHANGED <<step, replies, seenVars>>
    /\ UNCHANGED <<relayVars, inbox, confirmed, offset, target, forgotten, doubtful, sendVars,
                   watchdogVars>>

(* set_chat_id, and the confirmation that follows.                         *)
Move ==
    /\ Alive /\ step = "move"
    /\ target' = Looked.chat /\ forgotten' = FALSE
    /\ step' = "reply" /\ replies' = <<Looked.chat>>
    /\ UNCHANGED <<seenVars, relayVars, inbox, confirmed, batch, offset, doubtful, sendVars,
                   watchdogVars>>

Replied == /\ replies' = Tail(replies)
           /\ IF Len(replies) = 1 THEN step' = "batch" /\ NextOne ELSE UNCHANGED <<step, batch>>
Reply ==
    /\ Alive /\ step = "reply" /\ posting["poller"] = 0
    /\ \/ Post("poller", Head(replies)) /\ UNCHANGED <<step, batch, replies>>
       \/ Held(Head(replies)) /\ Replied
    /\ UNCHANGED <<seenVars, relayVars, inbox, confirmed, offset, target, forgotten, doubtful, told,
                   alerts, watchdogVars>>
ReplyEnds ==
    /\ Alive /\ \E ok \in BOOLEAN : Outcome("poller", ok)
    /\ Replied
    /\ UNCHANGED <<storeQuiet, inbox, confirmed, offset, target, forgotten, doubtful, alerts,
                   watchdogVars>>

(* The offset is saved once, after the batch.                              *)
SaveOffset ==
    /\ Alive /\ step = "batch" /\ batch.next > batch.last /\ Room
    /\ step' = "poll" /\ batch' = NoBatch
    /\ offset' = batch.last + 1 /\ SetMarker("offset", offset')
    /\ UNCHANGED <<relayVars, inbox, confirmed, replies, target, forgotten, doubtful, sendVars,
                   watchdogVars>>

Say(m) ==
    /\ Len(inbox) < MAX_UPDATES /\ inbox' = Append(inbox, m)
    /\ UNCHANGED <<seenVars, relayVars, confirmed, step, batch, replies, offset, target, forgotten,
                   doubtful, sendVars, watchdogVars>>

-----------------------------------------------------------------------------
(* The requests                                                            *)

Alert ==
    /\ Alive /\ alerts < MAX_ALERTS /\ posting["request"] = 0
    /\ alerts' = alerts + 1
    /\ Post("request", target) \/ Held(target)
    /\ UNCHANGED <<seenVars, relayVars, pollerVars, told, watchdogVars>>
AlertEnds ==
    /\ Alive /\ \E ok \in BOOLEAN : Outcome("request", ok)
    /\ UNCHANGED <<storeQuiet, pollerVars, alerts, watchdogVars>>

(* record_relay: an ingest without failed or pending items.                *)
RecordRelay ==
    /\ Alive /\ Room /\ lastRelay # now
    /\ lastRelay' = now /\ SetMarker("relay", now)
    /\ UNCHANGED <<relayVars, pollerVars, sendVars, since, warned, checked, about, reported>>

-----------------------------------------------------------------------------
(* The watchdog                                                            *)

SilentSince == IF lastRelay = 0 THEN since ELSE lastRelay
Stale       == now - SilentSince >= STALE_AFTER
Rearmed     == FALSE
StaysWarned == warned                   \* mutant: a relay does not re-arm it

Check ==
    /\ Alive /\ ~checked /\ checked' = TRUE
    /\ \/ /\ ~Stale /\ warned' = Rearmed /\ UNCHANGED <<limits, posting, about>>
       \/ /\ Stale /\ warned /\ UNCHANGED <<warned, limits, posting, about>>
       \/ /\ Stale /\ ~warned /\ UNCHANGED warned
          /\ \/ Post("watchdog", target) /\ about' = SilentSince
             \/ Held(target) /\ UNCHANGED about
    /\ UNCHANGED <<seenVars, relayVars, pollerVars, told, alerts, lastRelay, since, reported>>
CheckEnds ==
    /\ Alive
    /\ \E ok \in BOOLEAN :
        /\ Outcome("watchdog", ok)
        /\ warned' = ok /\ reported' = IF ok THEN reported \union {about} ELSE reported
    /\ about' = 0
    /\ UNCHANGED <<storeQuiet, pollerVars, alerts, lastRelay, since, checked>>

-----------------------------------------------------------------------------
(* The process                                                             *)

NoPost == \A s \in Senders : posting[s] = 0
Period ==
    /\ now < MAX_PERIODS /\ (Alive => checked /\ NoPost)
    /\ now' = now + 1 /\ checked' = FALSE
    /\ UNCHANGED <<memoryVars, diskVars, relayVars, pollerVars, sendVars, lastRelay, since, warned,
                   about, reported>>

(* The flusher and a stop, which does not wait for a long poll to end.     *)
(* Lines that were written stay queued when the write failed, and an old   *)
(* log speaks over a new snapshot until it is removed: until the files say *)
(* what memory does, a start may find an older destination.                *)
InStep == appends = <<>> /\ \A m \in {"offset", "chat"} : OnDisk.markers[m] = markers[m]
Persists ==
    /\ FlushNow \/ FlushError \/ SaveStep \/ SaveError \/ Close \/ CloseSave
    /\ doubtful' = IF InStep' THEN forgotten
                   ELSE doubtful \/ <<appends, diskVars>>' # <<appends, diskVars>>
    /\ UNCHANGED <<inbox, confirmed, step, batch, replies, offset, target, forgotten, sendVars,
                   watchdogVars>>
Killed == Kill /\ UNCHANGED telegramVars

Restart ==
    /\ Start
    /\ step' = "prepare" /\ batch' = NoBatch /\ replies' = <<>>
    /\ offset' = markers'["offset"]
    /\ target' = IF markers'["chat"] = 0 THEN Owner ELSE markers'["chat"]
    /\ forgotten' = (doubtful \/ (markers'["offset"] <= confirmed /\ confirmed # 0))
    /\ doubtful' = forgotten'
    /\ limits' = [c \in Chats |-> 0] /\ told' = [c \in Chats |-> 0]
    /\ posting' = [s \in Senders |-> 0]
    /\ lastRelay' = markers'["relay"] /\ since' = now
    /\ warned' = FALSE /\ checked' = FALSE /\ about' = 0 /\ reported' = {}
    /\ UNCHANGED <<inbox, confirmed, alerts>>

TelegramNext ==
    \/ Prepare \/ PollOnce \/ HandleUpdate \/ Move \/ Reply \/ ReplyEnds \/ SaveOffset
    \/ \E m \in Message : Say(m)
    \/ Alert \/ AlertEnds \/ RecordRelay \/ Check \/ CheckEnds
    \/ Period \/ Persists \/ Killed \/ Restart
TelegramSpec == RelayInit /\ TelegramInit /\ [][TelegramNext]_<<vars, telegramVars>>

-----------------------------------------------------------------------------
(* Properties                                                              *)

(* The destination after the first n updates, of which only those of the   *)
(* owner count, in the chat that they name.                                *)
Chosen(m)   == m.mine /\ \/ m.text = "usehere" /\ m.chat \in Groups
                         \/ m.text = "useprivate" /\ m.chat = Owner
Wanted(n) ==
    LET choices == {k \in 1..n : Chosen(inbox[k])}
    IN  IF choices = {} THEN Owner
        ELSE inbox[CHOOSE k \in choices : \A x \in choices : x <= k].chat

(* Alerts go only where the owner asked for them: to the private chat or   *)
(* to a group in which the owner said /usehere, whoever else writes to the *)
(* bot, and whatever a start loads.                                        *)
Asked(c) == c = Owner \/ \E k \in DOMAIN inbox : Chosen(inbox[k]) /\ inbox[k].chat = c
AlertsGoWhereAsked ==
    /\ Asked(target)
    /\ \A c \in {markers["chat"], OnDisk.markers["chat"]} : c # 0 => Asked(c)

(* Telegram is never told to forget an update that was not handled, and    *)
(* between batches the destination is the one that the handled updates     *)
(* chose, over kills: no choice is lost or undone, but when a process died *)
(* that had told Telegram before its markers reached the files, or while   *)
(* the files were not in step after a write or a compaction that failed or *)
(* was cut short (forgotten).                                              *)
Handled(o) == IF o = 0 THEN 0 ELSE o - 1
ChoicesAreKept ==
    Alive /\ step \in {"prepare", "poll", "ended"} /\ ~forgotten =>
        /\ confirmed <= Handled(offset)
        /\ \E n \in Handled(offset)..Len(inbox) : target = Wanted(n)

(* One silence is reported once by a process, and the watchdog is quiet    *)
(* about a silence only when its warning was delivered.                    *)
SilenceIsReported ==
    /\ posting["watchdog"] # 0 => about \notin reported
    /\ Alive /\ checked /\ warned /\ Stale /\ posting["watchdog"] = 0 => SilentSince \in reported

TelegramInvariant ==
    TelegramTypes /\ AlertsGoWhereAsked /\ ChoicesAreKept /\ SilenceIsReported

(* No thread posts to a chat before the end of the longest wait that       *)
(* Telegram set for it, in whatever order the answers of concurrent posts  *)
(* arrive (unless the wait was dropped for room).                          *)
WaitsAreKept ==
    [][\A s \in Senders : posting'[s] # 0 /\ posting[s] = 0 => told[posting'[s]] <= now]_telegramVars

(* What makes them so.  Memory, files and queue hold only destinations     *)
(* that were asked for and offsets of updates there are.                   *)
Sound(m, v) == /\ m = "chat" => v = 0 \/ Asked(v)
               /\ m = "offset" => Handled(v) <= Len(inbox)
SoundLines(lines) == \A n \in DOMAIN lines : lines[n].t = "marker" => Sound(lines[n].k, lines[n].v)
FilesAreSound ==
    /\ now \in Nat \ {0} /\ appends \in Seq(Lines) /\ logFile \in Seq(Lines)
    /\ markers \in [Markers -> Nat] /\ snapshot.markers \in [Markers -> Nat]
    /\ \A m \in Markers : Sound(m, markers[m]) /\ Sound(m, snapshot.markers[m])
    /\ SoundLines(appends) /\ SoundLines(logFile)

(* The poller and its markers agree, and a batch is of new updates.        *)
Target(c) == IF c = 0 THEN Owner ELSE c
InBatch   == step \in {"batch", "move", "reply"}
PollerIsSound ==
    /\ Asked(target) /\ offset = markers["offset"]
    /\ step # "move" => target = Target(markers["chat"])
    /\ step = "move" => Switches(Looked) /\ markers["chat"] = Looked.chat
    /\ InBatch => /\ Handled(offset) <= confirmed /\ confirmed < batch.next
                  /\ batch.next <= batch.last + 1 /\ batch.last <= Len(inbox)
    /\ step \in {"move", "reply"} => batch.next <= batch.last
    /\ step = "reply" => replies # <<>>
    /\ posting["poller"] # 0 => step = "reply"

(* Unless one was forgotten, the destination is what the updates handled so*)
(* far chose, or later ones that this process has handled once before.     *)
Done == IF step \in {"batch", "move"} THEN batch.next - 1
        ELSE IF step = "reply" THEN batch.next ELSE Handled(offset)
DestinationIsChosen == ~forgotten =>
    /\ \E n \in Done..Len(inbox) : target = Wanted(n)
    /\ ~InBatch => confirmed <= Handled(offset)

(* Unless in doubt, whatever part of the queue reaches the files, they hold*)
(* the destination of their offset, or Telegram was told of later ones.    *)
ToldOf(o)   == confirmed # 0 /\ o <= confirmed
Right(load) == \/ ToldOf(load["offset"])
               \/ \E n \in Handled(load["offset"])..Len(inbox) : Target(load["chat"]) = Wanted(n)
Loads(n)    == Replay(OnDisk, SubSeq(appends, 1, n)).markers
FilesAreRight == ~doubtful =>
    /\ ~forgotten /\ Right(OnDisk.markers)
    /\ Alive => /\ \A n \in 0..Len(appends) : Right(Loads(n))
                /\ \A m \in {"offset", "chat"} : Loads(Len(appends))[m] = markers[m]

(* A wait that lasts is known.                                             *)
WaitsAreKnown == \A c \in Chats : told[c] > now => told[c] <= limits[c]

(* What was reported was stale; the watchdog is quiet about a silence that *)
(* was reported or that it has not found stale yet.                        *)
SilenceIsKnown ==
    /\ posting["watchdog"] # 0 => about \notin reported
    /\ Alive => /\ \A r \in reported : r + STALE_AFTER <= now
                /\ SilentSince \in reported => warned
                /\ warned => \/ SilentSince \in reported \/ SilentSince = now
                             \/ SilentSince = now - 1 /\ ~checked
                /\ posting["watchdog"] # 0 =>
                      /\ ~warned /\ about + STALE_AFTER <= now
                      /\ about = SilentSince \/ SilentSince = now

PollerInvariant ==
    /\ TelegramTypes /\ FilesAreSound /\ PollerIsSound /\ DestinationIsChosen /\ FilesAreRight
    /\ WaitsAreKnown /\ SilenceIsKnown
=============================================================================
