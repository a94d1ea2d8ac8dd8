---------------------------- MODULE ChatDelivery ----------------------------
(***************************************************************************)
(* One Anytype chat, served by one serve task: how a posted message        *)
(* becomes exactly one turn although the process crashes, the stream drops *)
(* and replays, the disk refuses a write, and the bot's own posts come     *)
(* back on the same stream.                                                *)
(*                                                                         *)
(* Two actors of the bot run here: the serve task (_serve_chat, _catch_up, *)
(* _maybe_turn, run_turn) and the schedule watcher posting a reminder      *)
(* (_fire_scheduled, run_scheduled).  They share the sent ledger and the   *)
(* route lock, and they interleave at every await: between the moment a    *)
(* post lands on the server and the moment its id is recorded, anything    *)
(* can happen.                                                             *)
(*                                                                         *)
(* order_id is the position in "log" (quirk C3: string order is stream     *)
(* order, and the server hands the ids out in post order).                 *)
(***************************************************************************)
EXTENDS Integers, Sequences

CONSTANTS
    HumanKinds,     \* kinds of message the human may post
    History,        \* messages in the chat before the bot first runs
    Adopted,        \* TRUE: discovered live (ChatCursor.begin); FALSE: first run
    IdentityKnown,  \* TRUE when discover_bot_identity found the account (C6)
    Window,         \* messages the recency window returns (CATCHUP_WINDOW)
    Replay,         \* messages a connecting stream replays (C5)
    SentMax,        \* capacity of the sent ledger (SentMessages.max_size)
    Budget,         \* how many environment events of each kind may happen
    Together        \* the kinds that may happen in the same behaviour

Kinds == {"text", "command", "file", "blank", "bot"}
Events == {"human", "sched", "crash", "sleep", "net", "disk", "odd"}
Unplaced == -1      \* no cursor position: ChatCursor.has is false

ASSUME ConstantsAssumption ==
    /\ HumanKinds \subseteq Kinds \ {"bot"}
    /\ History \in Nat
    /\ Adopted \in BOOLEAN
    /\ IdentityKnown \in BOOLEAN
    /\ Window \in Nat \ {0}
    /\ Replay \in Nat
    /\ SentMax \in Nat \ {0}
    /\ Budget \in [Events -> Nat]
    /\ Together \subseteq SUBSET Events

VARIABLES
    log,         \* the chat on the server: the kind of each message, in order
    up,          \* the process runs
    stage,       \* the serve task: fetch, drain, connect, live, asleep; off
    next,        \* next message the window or the stream hands over
    upto,        \* end of the fetched window
    cursor,      \* ChatCursor: last order_id taken, in memory
    cursorFile,  \* and on disk
    sent,        \* SentMessages: ids the bot knows it posted, oldest first
    sentFile,    \* and on disk
    turn,        \* where the turn of message cur stands
    cur,         \* the message being handled, 0 for none
    placeholder, \* id of the placeholder TurnReply still holds, 0 for none
    unrec,       \* id of the serve task's last send, landed and not recorded
    lock,        \* ChannelRoute.lock: free, serve or sched
    sched,       \* where the scheduled post stands
    schedUnrec,  \* id of its send, landed and not recorded
    left,        \* environment events of each kind that may still happen
    turns,       \* history: how often each message became a turn
    answered,    \* history: messages whose turn put a reply or a notice in the chat
    forgiven     \* history: messages the catch-up passes over by design

cursorVars == <<cursor, cursorFile>>
sentVars == <<sent, sentFile>>
readVars == <<stage, next, upto>>
turnVars == <<turn, cur, placeholder, unrec>>
schedVars == <<sched, schedUnrec>>
vars == <<log, up, stage, next, upto, cursor, cursorFile, sent, sentFile,
          turn, cur, placeholder, unrec, lock, sched, schedUnrec, left,
          turns, answered, forgiven>>

Larger(a, b) == IF a >= b THEN a ELSE b

Seen == {k \in Events : left[k] < Budget[k]}

\* The environment does something, within the bounds.
Spend(kind) ==
    /\ left[kind] > 0
    /\ \E kinds \in Together : Seen \union {kind} \subseteq kinds
    /\ left' = [left EXCEPT ![kind] = @ - 1]

Init ==
    /\ log = [i \in 1..History |-> "text"]
    /\ turns = [i \in 1..History |-> 0]
    /\ up = FALSE /\ stage = "off" /\ next = 1 /\ upto = 0
    /\ cursor = (IF Adopted THEN 0 ELSE Unplaced) /\ cursorFile = cursor
    /\ sent = << >> /\ sentFile = << >>
    /\ turn = "idle" /\ cur = 0 /\ placeholder = 0 /\ unrec = 0
    /\ lock = "free" /\ sched = "idle" /\ schedUnrec = 0
    /\ left = Budget
    /\ answered = {} /\ forgiven = {}

-----------------------------------------------------------------------------
(* The server, and the two persisted ledgers. *)

\* A message lands in the chat.
Post(kind) ==
    /\ log' = Append(log, kind)
    /\ turns' = Append(turns, 0)

\* The human types a message, at any moment, the bot up or not.
HumanPosts ==
    /\ Spend("human")
    /\ \E k \in HumanKinds : Post(k)
    /\ UNCHANGED <<up, readVars, cursorVars, sentVars, turnVars, lock,
                   schedVars, answered, forgiven>>

\* ChatCursor.fast_forward and _save: only forward, and on disk by an atomic
\* replace that an OSError may leave undone.
Advance(id) ==
    /\ cursor' = Larger(cursor, id)
    /\ \/ cursorFile' = cursor' /\ UNCHANGED left
       \/ id > cursor /\ Spend("disk") /\ UNCHANGED cursorFile

\* SentMessages.add: bounded, the oldest id leaves first; written like the
\* cursor.
Remember(id) ==
    /\ sent' = (IF Len(sent) = SentMax THEN Append(Tail(sent), id)
                                       ELSE Append(sent, id))
    /\ \/ sentFile' = sent' /\ UNCHANGED left
       \/ Spend("disk") /\ UNCHANGED sentFile

Recorded(id) == \E k \in DOMAIN sent : sent[k] = id

-----------------------------------------------------------------------------
(* The process. *)

\* What a dead process no longer has; the files stay.
Halt ==
    /\ up' = FALSE /\ stage' = "off" /\ next' = 1 /\ upto' = 0
    /\ turn' = "idle" /\ cur' = 0 /\ placeholder' = 0 /\ unrec' = 0
    /\ lock' = "free" /\ sched' = "idle" /\ schedUnrec' = 0
    /\ UNCHANGED <<log, cursorVars, sentVars, turns, answered, forgiven>>

Crash == up /\ Spend("crash") /\ Halt

\* run: both ledgers load from their files and the serve task is created.
Start ==
    /\ ~up
    /\ up' = TRUE /\ stage' = "fetch"
    /\ cursor' = cursorFile /\ sent' = sentFile
    /\ UNCHANGED <<log, next, upto, cursorFile, sentFile, turnVars, lock,
                   schedVars, left, turns, answered, forgiven>>

\* The roster cancels an idle serve task and opens it again later
\* (_watch_chats: never while the chat is marked busy).
Hibernate ==
    /\ stage \in {"connect", "live"} /\ turn = "idle"
    /\ Spend("sleep")
    /\ stage' = "asleep"
    /\ UNCHANGED <<log, up, next, upto, cursorVars, sentVars, turnVars, lock,
                   schedVars, turns, answered, forgiven>>

Wake ==
    /\ stage = "asleep" /\ stage' = "fetch"
    /\ UNCHANGED <<log, up, next, upto, cursorVars, sentVars, turnVars, lock,
                   schedVars, left, turns, answered, forgiven>>

-----------------------------------------------------------------------------
(* Catch-up and stream: what hands messages to the gate. *)

\* _catch_up on a chat without a position: the history is skipped.
FirstRun ==
    /\ stage = "fetch" /\ cursor = Unplaced
    /\ IF log = << >>
       THEN UNCHANGED <<cursorVars, left, forgiven>>
       ELSE Advance(Len(log)) /\ forgiven' = forgiven \union 1..Len(log)
    /\ stage' = "connect"
    /\ UNCHANGED <<log, up, next, upto, sentVars, turnVars, lock, schedVars,
                   turns, answered>>

WindowStart == Larger(1, Len(log) - Window + 1)

\* _catch_up on a chat with a position: the recency window becomes the work
\* list.  What the window no longer reaches is given up here.
FetchWindow ==
    /\ stage = "fetch" /\ cursor # Unplaced
    /\ stage' = "drain"
    /\ upto' = Len(log)
    /\ next' = WindowStart
    /\ forgiven' = forgiven \union {i \in DOMAIN log : cursor < i /\ i < WindowStart}
    /\ UNCHANGED <<log, up, cursorVars, sentVars, turnVars, lock, schedVars,
                   left, turns, answered>>

\* recent_messages fails outside the try of _serve_chat: the error leaves the
\* task and its TaskGroup stops the whole bot.
FetchFails == stage = "fetch" /\ Spend("net") /\ Halt

DrainDone ==
    /\ stage = "drain" /\ turn = "idle" /\ next > upto
    /\ stage' = "connect"
    /\ UNCHANGED <<log, up, next, upto, cursorVars, sentVars, turnVars, lock,
                   schedVars, left, turns, answered, forgiven>>

\* Mutant of Connect: the stream starts at what is new, without the replay.
ConnectNoReplay ==
    /\ stage = "connect"
    /\ stage' = "live"
    /\ next' = Len(log) + 1
    /\ UNCHANGED <<log, up, upto, cursorVars, sentVars, turnVars, lock,
                   schedVars, left, turns, answered, forgiven>>

\* chat_client.stream: the connection replays recent history as ordinary
\* message_added frames, then every later post follows in order.
Connect ==
    /\ stage = "connect"
    /\ stage' = "live"
    /\ next' = Larger(1, Len(log) - Replay + 1)
    /\ UNCHANGED <<log, up, upto, cursorVars, sentVars, turnVars, lock,
                   schedVars, left, turns, answered, forgiven>>

\* The stream ends or fails while the task waits for a frame; it reconnects
\* without another catch-up.
StreamDrop ==
    /\ stage = "live" /\ turn = "idle" /\ Spend("net")
    /\ stage' = "connect"
    /\ UNCHANGED <<log, up, next, upto, cursorVars, sentVars, turnVars, lock,
                   schedVars, turns, answered, forgiven>>

\* A message is at hand: the rest of the window, or the frames of the stream.
Handed ==
    /\ turn = "idle"
    /\ \/ stage = "drain" /\ next <= upto
       \/ stage = "live" /\ next <= Len(log)

\* Mutants of Accepts: a test against the last position only, no identity test.
AcceptsOlder(i) ==
    /\ ~Recorded(i) /\ ~(IdentityKnown /\ log[i] = "bot")
    /\ i # cursor /\ turns[i] = 0 /\ log[i] # "blank"
AcceptsAnyone(i) == ~Recorded(i) /\ i > cursor /\ log[i] # "blank"

\* The gate of AnytypeChatTurnHandler.accepts.
Accepts(i) ==
    /\ ~Recorded(i)
    /\ ~(IdentityKnown /\ log[i] = "bot")
    /\ i > cursor
    /\ log[i] # "blank"

Drop ==
    /\ Handed /\ ~Accepts(next)
    /\ next' = next + 1
    /\ UNCHANGED <<log, up, stage, upto, cursorVars, sentVars, turnVars, lock,
                   schedVars, left, turns, answered, forgiven>>

-----------------------------------------------------------------------------
(* The turn: _maybe_turn and run_turn. *)

\* Mutant of Begin: the cursor does not advance before the turn.
BeginWithoutAdvance(i) ==
    /\ UNCHANGED <<cursorVars, left>>
    /\ turns' = [turns EXCEPT ![i] = @ + 1]
    /\ turn' = (IF log[i] = "command" THEN "lock" ELSE "open")

\* run_turn's first step.  The cursor advances before anything is awaited, and
\* a command posts no placeholder.
Begin(i) ==
    /\ Advance(i)
    /\ turns' = [turns EXCEPT ![i] = @ + 1]
    /\ turn' = (IF log[i] = "command" THEN "lock" ELSE "open")

\* An accepted message without attachments goes from the gate to the cursor
\* in one step.
Accept ==
    /\ Handed /\ Accepts(next) /\ log[next] # "file"
    /\ cur' = next /\ next' = next + 1
    /\ Begin(next)
    /\ UNCHANGED <<log, up, stage, upto, sentVars, placeholder, unrec, lock,
                   schedVars, answered, forgiven>>

\* With attachments their resolution is awaited between the two.
AcceptFile ==
    /\ Handed /\ Accepts(next) /\ log[next] = "file"
    /\ cur' = next /\ next' = next + 1 /\ turn' = "resolve"
    /\ UNCHANGED <<log, up, stage, upto, cursorVars, sentVars, placeholder,
                   unrec, lock, schedVars, left, turns, answered, forgiven>>

Resolve ==
    /\ turn = "resolve" /\ Begin(cur)
    /\ UNCHANGED <<log, up, readVars, sentVars, cur, placeholder, unrec, lock,
                   schedVars, answered, forgiven>>

\* An exception other than GraphContextError (which costs only that attachment).
ResolveRaises ==
    /\ turn = "resolve" /\ Spend("odd")
    /\ turn' = "error"
    /\ UNCHANGED <<log, up, readVars, cursorVars, sentVars, cur, placeholder,
                   unrec, lock, schedVars, turns, answered, forgiven>>

\* The stages that send a message, and the stage in which its id is awaited.
SendStage == [open |-> "opened", reply |-> "replied", error |-> "noticed"]
WillSend == turn = "open" \/ (turn \in {"reply", "error"} /\ placeholder = 0)
Awaiting == turn \in {"opened", "replied", "noticed"}

\* The post lands on the server.
SendLands ==
    /\ WillSend
    /\ Post("bot")
    /\ unrec' = Len(log) + 1
    /\ turn' = SendStage[turn]
    /\ answered' = (IF turn = "open" THEN answered ELSE answered \union {cur})
    /\ UNCHANGED <<up, readVars, cursorVars, sentVars, cur, placeholder, lock,
                   schedVars, left, forgiven>>

\* Its id arrives and joins the sent ledger; TurnReply.open keeps it as the
\* placeholder, a reply or a notice ends the turn.
SendRecorded ==
    /\ Awaiting
    /\ Remember(unrec)
    /\ unrec' = 0
    /\ IF turn = "opened"
       THEN turn' = "lock" /\ placeholder' = unrec /\ UNCHANGED cur
       ELSE turn' = "idle" /\ cur' = 0 /\ UNCHANGED placeholder
    /\ UNCHANGED <<log, up, readVars, cursorVars, lock, schedVars, turns,
                   answered, forgiven>>

\* What an API failure in the error path does: inside the stream loop it costs
\* a reconnect, inside the catch-up it stops the bot.
NoticeFails ==
    IF stage = "live"
    THEN /\ stage' = "connect"
         /\ turn' = "idle" /\ cur' = 0 /\ placeholder' = 0 /\ unrec' = 0
         /\ UNCHANGED <<log, up, next, upto, cursorVars, sentVars, lock,
                        schedVars, turns, answered, forgiven>>
    ELSE Halt

\* A send fails before it lands, or lands and its answer is lost (a timeout is
\* not retried: the message stands in the chat and its id is never recorded).
\* An edit that fails has given up the placeholder already.
SendFails ==
    /\ WillSend \/ Awaiting \/ (turn \in {"reply", "error"} /\ placeholder # 0)
    /\ Spend("net")
    /\ IF turn \in {"error", "noticed"}
       THEN NoticeFails
       ELSE /\ turn' = "error" /\ placeholder' = 0 /\ unrec' = 0
            /\ UNCHANGED <<log, up, readVars, cursorVars, sentVars, cur, lock,
                           schedVars, turns, answered, forgiven>>

TakeLock ==
    /\ turn = "lock" /\ lock = "free"
    /\ turn' = "run" /\ lock' = "serve"
    /\ UNCHANGED <<log, up, readVars, cursorVars, sentVars, cur, placeholder,
                   unrec, schedVars, left, turns, answered, forgiven>>

\* Mutant of RunEnds: a turn that raises keeps the route lock.
RunEndsKeepsLock ==
    /\ turn = "run"
    /\ \/ turn' = "reply" /\ lock' = "free"
       \/ turn' = "error" /\ UNCHANGED lock
    /\ placeholder' \in {placeholder, 0}
    /\ UNCHANGED <<log, up, readVars, cursorVars, sentVars, cur, unrec,
                   schedVars, left, turns, answered, forgiven>>

\* handle_message returns or raises and the lock is released.  A turn that
\* streams its activity claims the placeholder, so its reply posts fresh.
RunEnds ==
    /\ turn = "run"
    /\ turn' \in {"reply", "error"} /\ lock' = "free"
    /\ placeholder' \in {placeholder, 0}
    /\ UNCHANGED <<log, up, readVars, cursorVars, sentVars, cur, unrec,
                   schedVars, left, turns, answered, forgiven>>

\* TurnReply.deliver into the placeholder: an edit posts no new message.
EditDelivers ==
    /\ turn \in {"reply", "error"} /\ placeholder # 0
    /\ turn' = "idle" /\ cur' = 0 /\ placeholder' = 0
    /\ answered' = answered \union {cur}
    /\ UNCHANGED <<log, up, readVars, cursorVars, sentVars, unrec, lock,
                   schedVars, left, turns, forgiven>>

-----------------------------------------------------------------------------
(* The schedule watcher: a simple event posts into this chat. *)

SchedMark ==
    /\ up /\ sched = "idle" /\ lock = "free" /\ Spend("sched")
    /\ sched' = "mark" /\ lock' = "sched"
    /\ UNCHANGED <<log, up, readVars, cursorVars, sentVars, turnVars,
                   schedUnrec, turns, answered, forgiven>>

\* mark_scheduled_fired returns or raises; the lock is released, and the
\* reminder, or the error text, goes out without it.
SchedUnlock ==
    /\ sched = "mark"
    /\ sched' = "post" /\ lock' = "free"
    /\ UNCHANGED <<log, up, readVars, cursorVars, sentVars, turnVars,
                   schedUnrec, left, turns, answered, forgiven>>

SchedLands ==
    /\ sched \in {"post", "error"}
    /\ Post("bot")
    /\ schedUnrec' = Len(log) + 1
    /\ sched' = (IF sched = "post" THEN "posted" ELSE "noticed")
    /\ UNCHANGED <<up, readVars, cursorVars, sentVars, turnVars, lock, left,
                   answered, forgiven>>

SchedRecorded ==
    /\ sched \in {"posted", "noticed"}
    /\ Remember(schedUnrec)
    /\ sched' = "idle" /\ schedUnrec' = 0
    /\ UNCHANGED <<log, up, readVars, cursorVars, turnVars, lock, turns,
                   answered, forgiven>>

\* A failed reminder is followed by an error text; a failed error text is
\* logged by _watch_schedule.
SchedFails ==
    /\ sched \in {"post", "posted", "error", "noticed"} /\ Spend("net")
    /\ sched' = (IF sched \in {"post", "posted"} THEN "error" ELSE "idle")
    /\ schedUnrec' = 0
    /\ UNCHANGED <<log, up, readVars, cursorVars, sentVars, turnVars, lock,
                   turns, answered, forgiven>>

-----------------------------------------------------------------------------

ServeTask ==
    \/ FirstRun \/ FetchWindow \/ DrainDone \/ Connect \/ Drop
    \/ Accept \/ AcceptFile \/ Resolve \/ SendLands \/ SendRecorded
    \/ TakeLock \/ RunEnds \/ EditDelivers

ScheduleTask == SchedUnlock \/ SchedLands \/ SchedRecorded

Faults ==
    \/ Crash \/ FetchFails \/ StreamDrop \/ SendFails \/ ResolveRaises
    \/ SchedFails

Next ==
    \/ HumanPosts \/ Start \/ Hibernate \/ Wake \/ SchedMark
    \/ ServeTask \/ ScheduleTask \/ Faults

\* The event loop runs every task that is ready, whatever the others do; a
\* supervisor restarts the process and the roster wakes the chat.  Faults,
\* people and the schedule owe nothing.
Fairness ==
    /\ WF_vars(Start) /\ WF_vars(Wake)
    /\ WF_vars(ServeTask) /\ WF_vars(ScheduleTask)

Spec == Init /\ [][Next]_vars /\ Fairness

-----------------------------------------------------------------------------
(* Properties. *)

TypeOK ==
    /\ log \in Seq(Kinds)
    /\ turns \in Seq(Nat) /\ Len(turns) = Len(log)
    /\ up \in BOOLEAN
    /\ stage \in {"off", "fetch", "drain", "connect", "live", "asleep"}
    /\ next \in Nat \ {0} /\ upto \in 0..Len(log)
    /\ cursor \in Nat \union {Unplaced} /\ cursorFile \in Nat \union {Unplaced}
    /\ sent \in Seq(Nat) /\ sentFile \in Seq(Nat)
    /\ turn \in {"idle", "resolve", "open", "opened", "lock", "run", "reply",
                 "replied", "error", "noticed"}
    /\ cur \in 0..Len(log) /\ (cur = 0 <=> turn = "idle")
    /\ placeholder \in 0..Len(log) /\ unrec \in 0..Len(log)
    /\ lock \in {"free", "serve", "sched"}
    /\ sched \in {"idle", "mark", "post", "posted", "error", "noticed"}
    /\ schedUnrec \in 0..Len(log)
    /\ left \in [Events -> Nat]
    /\ answered \subseteq Nat /\ forgiven \subseteq Nat

\* Cursor writes that failed so far.
LostWrites == Budget["disk"] - left["disk"]

\* A message becomes a turn at most once, over every crash, reconnect, replay
\* and hibernation; each cursor write the disk refused can cost one repetition
\* and no more (ChatCursor, accepts, run_turn's "advance before the turn").
AtMostOneTurn == \A i \in DOMAIN turns : turns[i] <= 1 + LostWrites

\* The bot never takes its own post for a request (accepts, SentMessages).
NeverAnswersItself == \A i \in DOMAIN log : log[i] = "bot" => turns[i] = 0

\* What a human may expect an answer to.
Request(i) == log[i] \in Kinds \ {"bot", "blank"}

\* The cursor never passes a request that neither became a turn nor was
\* given up by the catch-up (first-run history, or older than the window) nor
\* got an error notice.
NoSilentSkip ==
    \A i \in DOMAIN log :
        Request(i) /\ i <= cursor =>
            turns[i] > 0 \/ i \in forgiven \union answered

\* Turns start in the order the messages were posted, as long as no cursor
\* write failed.
StartsInOrder ==
    LostWrites = 0 =>
        \A i \in DOMAIN turns : turns'[i] > turns[i] =>
            \A j \in DOMAIN turns : j > i => turns[j] = 0
TurnsInOrder == [][StartsInOrder]_vars

\* Every request becomes a turn in the end, or is given up by the catch-up, or
\* gets a notice of failure, and no turn hangs: again and again the backlog is
\* empty and the serve task is free.
EveryRequestTaken ==
    []<>(/\ turn = "idle"
         /\ \A i \in DOMAIN log :
               Request(i) => turns[i] > 0 \/ i \in forgiven \union answered)
=============================================================================
