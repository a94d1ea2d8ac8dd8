------------------------------ MODULE ChatSurface ------------------------------
(***************************************************************************)
(* What a turn shows in an Anytype chat: the placeholder and the reply     *)
(* (TurnReply of orchestrator/anytype_chat_transport.py), the live trace   *)
(* of the work (orchestrator/turn_activity.py), the notice of a failure    *)
(* (_maybe_turn of orchestrator/anytype_chat_bot.py) and the title of the  *)
(* chat (ChatTitler).  Each call to the server may be refused, or land and *)
(* lose its answer.                                                        *)
(***************************************************************************)
EXTENDS Integers, SequencesExt

CONSTANTS
    Details,        \* how much of a turn the modes show, "off" for nothing
    Decisions,      \* a driver's decisions: searches it ran, calls it asks for
    Endings,        \* what the pipeline hands over: pieces, files, confirms
    MaxDecisions,   \* of one turn
    LineLimit,      \* lines the activity message holds
    MinInterval,    \* ACTIVITY_EDIT_SECONDS
    Budget,         \* how often each kind of event happens
    Together        \* which kinds happen in one behaviour

Events == {"turn", "fault", "raise", "person", "rescan", "crash"}
Kinds == {"piece", "file", "confirm"}

\* The pipeline hands over what was said, then files, then confirms.
PiecesFirst(ending) ==
    \A i, j \in DOMAIN ending : i < j /\ ending[j] = "piece" => ending[i] = "piece"

ASSUME SurfaceAssumption ==
    /\ Decisions \subseteq [searches : Nat, calls : Nat]
    /\ \A e \in Endings : e \in Seq(Kinds) /\ PiecesFirst(e)
    /\ {MaxDecisions, LineLimit} \subseteq Nat \ {0} /\ MinInterval \in Nat
    /\ Budget \in [Events -> Nat] /\ Together \subseteq SUBSET Events

VARIABLES
    chat,       \* the messages of the chat, deleted ones marked
    turn,       \* the turn that runs, or the last one
    shown,      \* what the activity message says of the log
    quiet,      \* the time since its last edit, up to MinInterval
    name,       \* the title of the chat on the server
    names,      \* the title the bot has last listed
    attempted,  \* ChatTitler._attempted
    left        \* what is left of each budget

titleVars == <<name, names, attempted>>
vars == <<chat, turn, shown, quiet, titleVars, left>>

Spend(event) ==
    /\ left[event] > 0
    /\ \E kinds \in Together :
          {event} \union {e \in Events : left[e] < Budget[e]} \subseteq kinds
    /\ left' = [left EXCEPT ![event] = @ - 1]

\* A call is answered, refused, or carried out without an answer.
Answers == {"ok", "refused", "lost"}
Fault(how) == IF how = "ok" THEN UNCHANGED left ELSE Spend("fault")
Takes(after, how) == chat' = IF how = "refused" THEN chat ELSE after

Message(kind, no) == [kind |-> kind, no |-> no, turn |-> turn.no]
Posted(kind, no) == Append(chat, Message(kind, no))

\* An edit replaces a message where it stands; a deleted one stays away.
Edited(id, kind, no) ==
    IF chat[id].kind = "deleted" THEN chat
    ELSE [chat EXCEPT ![id] = Message(kind, no)]

-----------------------------------------------------------------------------
\* The log of a turn (ActivityLog): its decisions, each with its calls, and the
\* calls that wait for a result, first in first out.

NoLog == [decisions |-> <<>>, pending |-> <<>>]
Announced(from, n, ok) == [i \in 1..n |-> [id |-> from + i, ok |-> ok]]

\* Mutant of NoteDecision: the searches of the provider wait for a result too.
NoteDecisionAllPending(log, d, from) ==
    [decisions |-> Append(log.decisions,
                          Announced(from, d.searches + d.calls, "running")),
     pending |-> log.pending \o [i \in 1..(d.searches + d.calls) |-> from + i]]

NoteDecision(log, d, from) ==
    [decisions |-> Append(log.decisions,
                          Announced(from, d.searches, "ok")
                          \o Announced(from + d.searches, d.calls, "running")),
     pending |-> log.pending \o [i \in 1..d.calls |-> from + d.searches + i]]

\* A result is that of the call that has waited longest.
NoteToolResult(log, ok) ==
    LET Settled(calls) == [i \in DOMAIN calls |->
            IF calls[i].id = Head(log.pending) THEN [calls[i] EXCEPT !.ok = ok]
                                               ELSE calls[i]]
    IN  [decisions |-> [d \in DOMAIN log.decisions |-> Settled(log.decisions[d])],
         pending |-> Tail(log.pending)]

\* The lines of the acting decisions from "start" on; "full" adds what the model
\* thought, of every decision ("rich" = 0) or of the newest one.
Acting(decisions) ==
    FlattenSeq([d \in DOMAIN decisions |->
                   IF decisions[d] = <<>> THEN <<>> ELSE <<decisions[d]>>])
Thoughts(detail, blocks, start, rich) ==
    IF detail # "full" THEN 0 ELSE IF rich = 0 THEN Len(blocks) - start ELSE 1
Size(detail, blocks, start, rich) ==
    LET kept == FlattenSeq(SubSeq(blocks, start + 1, Len(blocks)))
    IN  1 + (IF start > 0 THEN 1 ELSE 0) + Thoughts(detail, blocks, start, rich)
          + Len(kept)

\* The oldest decisions are counted instead of shown until the rest fits; what
\* still does not fit is cut off.
Earlier(blocks) == {0} \union 1..(Len(blocks) - 1)
Dropped(detail, blocks) ==
    LET fits == {s \in Earlier(blocks) : \E rich \in {0, 1} :
                    /\ Size(detail, blocks, s, rich) <= LineLimit
                    /\ s > 0 => rich = 1}
    IN  IF fits = {} THEN Max(Earlier(blocks)) ELSE Min(fits)

\* The calls of the decisions that are only counted.
Collapsed(log, start) == Len(FlattenSeq(SubSeq(Acting(log.decisions), 1, start)))

Nothing == [steps |-> 0, counted |-> 0, lines |-> <<>>]
Render(detail, log) ==
    LET blocks == Acting(log.decisions)
        start == Dropped(detail, blocks)
        lines == FlattenSeq(SubSeq(blocks, start + 1, Len(blocks)))
    IN  [steps |-> Len(log.decisions),
         counted |-> IF detail = "minimal" THEN Len(FlattenSeq(blocks))
                     ELSE Collapsed(log, start),
         lines |-> IF detail = "minimal" THEN <<>> ELSE lines]

-----------------------------------------------------------------------------
\* A turn.

NoTurn == [stage |-> "done", no |-> 0, command |-> FALSE, placeholder |-> 0,
           message |-> 0, detail |-> "off", log |-> NoLog, fates |-> <<>>,
           todo |-> <<>>, left |-> MaxDecisions, plan |-> <<>>, at |-> 0,
           ok |-> TRUE, uncaught |-> FALSE, faults |-> 0]

Init ==
    /\ chat = <<>> /\ turn = NoTurn /\ shown = Nothing /\ quiet = MinInterval
    /\ name = "untitled" /\ names = "untitled" /\ attempted = FALSE
    /\ left = Budget

\* A command is answered at once, without placeholder, model or trace.
RunTurn(command) ==
    /\ turn.stage = "done" /\ Spend("turn")
    /\ turn' = [NoTurn EXCEPT !.no = turn.no + 1, !.command = command,
                              !.plan = IF command THEN <<"piece">> ELSE <<>>,
                              !.stage = IF command THEN "deliver" ELSE "open"]
    /\ shown' = Nothing /\ quiet' = MinInterval
    /\ UNCHANGED <<chat, titleVars>>

Failing(t, how) == [t EXCEPT !.stage = "failed", !.ok = FALSE,
                             !.log = NoLog, !.fates = <<>>, !.todo = <<>>,
                             !.faults = IF how = "ok" THEN @ ELSE @ + 1]

Open(how) ==
    /\ turn.stage = "open"
    /\ Fault(how) /\ Takes(Posted("processing", 0), how)
    /\ turn' = IF how # "ok" THEN Failing(turn, how)
               ELSE [turn EXCEPT !.placeholder = Len(chat) + 1, !.stage = "start"]
    /\ UNCHANGED <<shown, quiet, titleVars>>

\* The trace takes the placeholder over, in a mode that shows one.
TurnStarted(detail) ==
    /\ turn.stage = "start"
    /\ turn' = [turn EXCEPT
          !.stage = "think", !.detail = detail,
          !.message = IF detail = "off" THEN 0 ELSE turn.placeholder,
          !.placeholder = IF detail = "off" THEN @ ELSE 0]
    /\ UNCHANGED <<chat, shown, quiet, titleVars, left>>

\* The log takes an event in; the message follows unless its last edit is too
\* recent, and an edit that fails is only logged.
Notes(next, log, how) ==
    LET edits == turn.message # 0 /\ quiet = MinInterval IN
    /\ how # "ok" => edits
    /\ Fault(how)
    /\ turn' = [next EXCEPT !.log = IF turn.message = 0 THEN NoLog ELSE log,
                            !.faults = IF how = "ok" THEN @ ELSE @ + 1]
    /\ IF edits
       THEN /\ Takes(Edited(turn.message, "working", 0), how)
            /\ shown' = IF how = "refused" THEN shown ELSE Render(turn.detail, log)
            /\ quiet' = 0
       ELSE UNCHANGED <<chat, shown, quiet>>
    /\ UNCHANGED titleVars

Tick ==
    /\ turn.stage \in {"think", "calls"} /\ turn.message # 0
    /\ quiet < MinInterval /\ quiet' = quiet + 1
    /\ UNCHANGED <<chat, turn, shown, titleVars, left>>

\* A decision without calls, and the end of the budget, hand the reply over.
HandsOver(t, ending) == [t EXCEPT !.stage = "deliver", !.plan = ending]

Decide(d, ending, how) ==
    /\ turn.stage = "think"
    /\ LET from == Len(turn.fates)
           next == [turn EXCEPT
                      !.left = @ - 1, !.stage = "calls",
                      !.fates = @ \o [i \in 1..d.searches |-> "ok"]
                                  \o [i \in 1..d.calls |-> "running"],
                      !.todo = [i \in 1..d.calls |-> from + d.searches + i]]
       IN  Notes(IF d.calls = 0 THEN HandsOver(next, ending) ELSE next,
                 NoteDecision(turn.log, d, from), how)

ToolResult(ok, ending, how) ==
    /\ turn.stage = "calls"
    /\ LET next == [turn EXCEPT !.fates[Head(turn.todo)] = ok, !.todo = Tail(@)]
       IN  Notes(IF next.todo # <<>> THEN next
                 ELSE IF turn.left > 0 THEN [next EXCEPT !.stage = "think"]
                 ELSE HandsOver(next, ending),
                 IF turn.message = 0 THEN NoLog ELSE NoteToolResult(turn.log, ok),
                 how)

Raises ==
    /\ turn.stage \in {"start", "think", "calls"} /\ Spend("raise")
    /\ turn' = Failing(turn, "ok")
    /\ UNCHANGED <<chat, shown, quiet, titleVars>>

\* Mutant of Surrendered: the placeholder is kept for the next piece.
SurrenderedNot(t, kind) == t

\* The first piece edits the placeholder, and the rest are messages of their own;
\* files and confirms always are.
Surrendered(t, kind) ==
    IF kind \in {"file", "confirm"} THEN t ELSE [t EXCEPT !.placeholder = 0]
Said(kind, no) ==
    IF turn.placeholder = 0 \/ kind \in {"file", "confirm"} THEN Posted(kind, no)
    ELSE Edited(turn.placeholder, kind, no)

Deliver(how) ==
    /\ turn.stage = "deliver" /\ turn.at < Len(turn.plan)
    /\ LET no == turn.at + 1
           kind == turn.plan[no]
           next == Surrendered(turn, kind)
       IN  /\ Fault(how) /\ Takes(Said(kind, no), how)
           /\ turn' = IF how = "ok" THEN [next EXCEPT !.at = no]
                      ELSE Failing(next, how)
    /\ UNCHANGED <<shown, quiet, titleVars>>

\* A turn that delivered nothing says so where its placeholder stands.
Finish(how) ==
    /\ turn.stage = "deliver" /\ turn.at = Len(turn.plan)
    /\ IF turn.placeholder = 0
       THEN how = "ok" /\ turn' = [turn EXCEPT !.stage = "close"]
                       /\ UNCHANGED <<chat, left>>
       ELSE /\ Fault(how) /\ Takes(Said("none", 0), how)
            /\ LET next == Surrendered(turn, "piece") IN
               turn' = IF how = "ok" THEN [next EXCEPT !.stage = "close"]
                       ELSE Failing(next, how)
    /\ UNCHANGED <<shown, quiet, titleVars>>

\* Mutant of Closes: the trace is taken away after a reply only.
ClosesAfterReply(t) == [t EXCEPT !.stage = IF t.ok THEN "close" ELSE "done"]
Closes(t) == [t EXCEPT !.stage = "close"]

\* A failure is told through the same reply; when that fails too, the error
\* leaves the turn and the trace stays.
TellsFailure(how) ==
    /\ turn.stage = "failed"
    /\ Fault(how) /\ Takes(Said("notice", 0), how)
    /\ turn' = IF how = "ok" THEN Closes(Surrendered(turn, "piece"))
               ELSE [turn EXCEPT !.stage = "done", !.uncaught = TRUE,
                                 !.faults = @ + 1]
    /\ UNCHANGED <<shown, quiet, titleVars>>

-----------------------------------------------------------------------------
\* The end of a turn: the trace leaves, and a first exchange names the chat.

NeedsTitle == ~attempted /\ names = "untitled"
TitleDue == turn.ok /\ ~turn.command /\ "piece" \in ToSet(turn.plan) /\ NeedsTitle

Ends(t) ==
    /\ turn' = [t EXCEPT !.stage = IF TitleDue THEN "title" ELSE "done"]
    /\ attempted' = (attempted \/ TitleDue)

Close(how) ==
    /\ turn.stage = "close"
    /\ IF turn.message = 0
       THEN how = "ok" /\ Ends(turn) /\ UNCHANGED <<chat, left>>
       ELSE /\ Fault(how) /\ Takes(Edited(turn.message, "deleted", 0), how)
            /\ IF how = "ok" THEN Ends(turn)
               ELSE /\ turn' = [turn EXCEPT !.stage = "degrade", !.faults = @ + 1]
                    /\ UNCHANGED attempted
    /\ UNCHANGED <<shown, quiet, name, names>>

\* A trace that could not be deleted says that the work is done.
Degrade(how) ==
    /\ turn.stage = "degrade"
    /\ Fault(how) /\ Takes(Edited(turn.message, "summary", 0), how)
    /\ Ends([turn EXCEPT !.faults = IF how = "ok" THEN @ ELSE @ + 1])
    /\ UNCHANGED <<shown, quiet, name, names>>

\* _maybe_title: a call of the driver, which may give nothing, then the rename.
Rename(usable, how) ==
    /\ turn.stage = "title"
    /\ how # "ok" => usable
    /\ Fault(how)
    /\ turn' = [turn EXCEPT !.stage = "done"]
    /\ name' = IF usable /\ how # "refused" THEN "title" ELSE name
    /\ names' = IF usable /\ how = "ok" THEN "title" ELSE names
    /\ UNCHANGED <<chat, shown, quiet, attempted>>

PersonRenames ==
    /\ Spend("person") /\ name' = "theirs"
    /\ UNCHANGED <<chat, turn, shown, quiet, names, attempted>>

\* The watcher lists the chats.
Rescan ==
    /\ names # name /\ Spend("rescan") /\ names' = name
    /\ UNCHANGED <<chat, turn, shown, quiet, name, attempted>>

Crash ==
    /\ Spend("crash")
    /\ turn' = [NoTurn EXCEPT !.no = turn.no, !.uncaught = TRUE]
    /\ names' = name /\ attempted' = FALSE
    /\ UNCHANGED <<chat, shown, quiet, name>>

Next ==
    \/ \E command \in BOOLEAN : RunTurn(command)
    \/ \E detail \in Details : TurnStarted(detail)
    \/ \E how \in Answers :
          \/ Open(how) \/ Deliver(how) \/ Finish(how)
          \/ TellsFailure(how) \/ Close(how) \/ Degrade(how)
          \/ \E ending \in Endings :
                \/ \E d \in Decisions : Decide(d, ending, how)
                \/ \E ok \in {"ok", "failed"} : ToolResult(ok, ending, how)
          \/ \E usable \in BOOLEAN : Rename(usable, how)
    \/ Raises \/ Tick \/ PersonRenames \/ Rescan \/ Crash

Spec == Init /\ [][Next]_vars

-----------------------------------------------------------------------------
TypeOK ==
    /\ \A i \in DOMAIN chat : chat[i].kind \in
          Kinds \union {"processing", "working", "summary", "notice", "none",
                        "deleted"}
    /\ {turn.placeholder, turn.message} \subseteq 0..Len(chat)
    /\ turn.placeholder = 0 \/ turn.message = 0
    /\ turn.at \in 0..Len(turn.plan) /\ quiet \in 0..MinInterval
    /\ {name, names} \subseteq {"untitled", "title", "theirs"}

Over == turn.stage \in {"title", "done"}
Mine == {i \in DOMAIN chat : chat[i].turn = turn.no}
Parts == {i \in Mine : chat[i].kind \in Kinds}

\* The chat holds the first n parts of the plan, in their order.
Delivers(n) ==
    /\ \A i \in Parts : chat[i].no \in 1..n /\ chat[i].kind = turn.plan[chat[i].no]
    /\ \A no \in 1..n : \E i \in Parts : chat[i].no = no
    /\ \A i, j \in Parts : i < j => chat[i].no < chat[j].no

\* A turn whose failure did not leave it has said everything it had to, each
\* part once and in its order, or has told that it failed (run_turn,
\* deliver_events and _maybe_turn: "a failed turn replaces its placeholder").
OutcomeTold ==
    Over /\ ~turn.uncaught =>
        \/ \E i \in Mine : chat[i].kind = "notice"
        \/ Delivers(Len(turn.plan))

\* However a turn ends whose failure could be told, its live trace leaves the chat
\* or turns into a summary; it takes two failing calls to keep it
\* (ChatActivity.close: "the trace must always leave the chat").
TraceLeaves ==
    Over /\ ~turn.uncaught /\ turn.message # 0 /\ turn.faults <= 1 =>
        \A i \in Mine : chat[i].kind \notin {"processing", "working"}

\* The trace is true when it is written: it counts every call that was
\* announced, and each call it shows carries the outcome of that very call, also
\* where searches of the provider stand between them.
TraceTrue ==
    [][shown' # shown /\ shown' # Nothing =>
        /\ shown'.counted + Len(shown'.lines) = Len(turn'.fates)
        /\ \A i \in DOMAIN shown'.lines :
              shown'.lines[i].ok = turn'.fates[shown'.lines[i].id]]_vars

\* A title that a person gave the chat is never overwritten
\* (anytype_chat_transport.py:391).
PersonsTitleKept == [][name = "theirs" => name' = "theirs"]_vars
=============================================================================
