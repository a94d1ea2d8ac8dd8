----------------------------- MODULE Conversation -----------------------------
(***************************************************************************)
(* What one turn says to the model and hears from it: the memory of the    *)
(* conversation (orchestrator/pipeline.py), the transcript of the turn,    *)
(* the request that either driver makes of it and the decision it reads    *)
(* off the answers (orchestrator/drivers.py, driver_common.py,             *)
(* anthropic_driver.py, claude_driver.py).  Texts are their lengths.       *)
(***************************************************************************)
EXTENDS Integers, Sequences, SequencesExt

CONSTANTS
    CallIds,            \* ids the provider gives the calls of tools
    SearchIds,          \* and those it gives the searches it runs itself
    Tools,              \* tools that a call may name
    MaxEvents,          \* events the memory keeps
    MaxChars,           \* characters the memory keeps
    MaxPauseResumes     \* times a paused decision is resumed

ASSUME ConversationAssumption ==
    /\ MaxEvents \in Nat \ {0} /\ MaxChars \in Nat /\ MaxPauseResumes \in Nat
    \* An id names a call or a search; a search has one, and none is made up.
    /\ CallIds \intersect SearchIds = {} /\ {<<>>, <<"toolu_gc">>} \intersect SearchIds = {}

None == <<>>
Some(seq, Test(_)) == \E i \in DOMAIN seq : Test(seq[i])
Total(seq) ==
    LET sum[i \in 0..Len(seq)] == IF i = 0 THEN 0 ELSE sum[i - 1] + seq[i]
    IN  sum[Len(seq)]

-----------------------------------------------------------------------------
\* The transcript.

Event(kind, text) ==
    [kind |-> kind, text |-> text, calls |-> <<>>, searches |-> <<>>,
     thinking |-> FALSE, use |-> None]
User(text) == Event("user", text)
TextEvents ==
    [kind : {"user", "assistant"}, text : Nat, calls : {<<>>}, searches : {<<>>},
     thinking : {FALSE}, use : {None}]
Result(call) == [Event("tool", 1) EXCEPT !.use = call.id]
Decided(turn) ==
    [Event("assistant", turn.reply) EXCEPT
        !.calls = turn.calls, !.searches = turn.searches,
        !.thinking = turn.thinking]

\* The memory between turns: the latest events that fit both of its bounds.
Shrink(ring) ==
    LET Fits(n) == n <= MaxEvents
                /\ Total([i \in 1..n |-> ring[Len(ring) - n + i].text]) <= MaxChars
        kept == Max({n \in 0..Len(ring) : Fits(n)})
    IN  SubSeq(ring, Len(ring) - kept + 1, Len(ring))
RememberTurn(ring, user, reply) ==
    Shrink(ring \o <<User(user), Event("assistant", reply)>>)
RememberAssistant(ring, text) == Shrink(Append(ring, Event("assistant", text)))
Seed(history) == Shrink(history)

-----------------------------------------------------------------------------
\* What the API driver sends: messages of blocks.

Block(b, id) == [b |-> b, id |-> id]
TextBlock == Block("text", None)
Message(role, content) == [role |-> role, content |-> content]

\* A search whose result was not captured is left out whole.
SearchesUnpaired(event) ==
    FlattenSeq([i \in DOMAIN event.searches |->
        <<Block("server_tool_use", event.searches[i].id)>>
        \o (IF event.searches[i].got
            THEN <<Block("server_tool_result", event.searches[i].id)>> ELSE <<>>)])
Searches(event) ==
    FlattenSeq([i \in DOMAIN event.searches |->
        IF event.searches[i].got
        THEN <<Block("server_tool_use", event.searches[i].id),
               Block("server_tool_result", event.searches[i].id)>>
        ELSE <<>>])
ToolUses(event) ==
    [i \in DOMAIN event.calls |-> Block("tool_use", event.calls[i].id)]
Content(event) ==
    (IF event.text > 0 THEN <<TextBlock>> ELSE <<>>)
    \o Searches(event) \o ToolUses(event)

\* The messages so far, the calls they hold, and whether the last message
\* gathers results.
Nothing == [messages |-> <<>>, known |-> {}, gathers |-> FALSE]
Put(req, messages) ==
    [req EXCEPT !.messages = @ \o messages, !.gathers = FALSE]

MapAssistant(req, event) ==
    LET acts == event.calls # <<>> \/ event.searches # <<>>
        opener == IF req.messages = <<>> THEN <<Message("user", <<TextBlock>>)>>
                                         ELSE <<>>
    IN  CASE acts /\ Content(event) = <<>> -> [req EXCEPT !.gathers = FALSE]
          [] acts /\ Content(event) # <<>> ->
                [Put(req, <<Message("assistant", Content(event))>>) EXCEPT
                    !.known = @ \union {c.id : c \in ToSet(event.calls)}]
          [] OTHER -> Put(req, Append(opener, Message("assistant", <<TextBlock>>)))

MapResult(req, event) ==
    LET result == Block("tool_result", event.use)
        n == Len(req.messages)
    IN  IF event.use \notin req.known
        THEN Put(req, <<Message("user", <<TextBlock>>)>>)
        ELSE IF req.gathers
        THEN [req EXCEPT !.messages[n].content = Append(@, result)]
        ELSE [Put(req, <<Message("user", <<result>>)>>) EXCEPT !.gathers = TRUE]

MapEvent(req, event) ==
    CASE event.kind = "assistant" -> MapAssistant(req, event)
      [] event.kind = "tool" -> MapResult(req, event)
      [] OTHER -> Put(req, <<Message("user", <<TextBlock>>)>>)
Mapped(events) ==
    LET req[i \in 0..Len(events)] ==
          IF i = 0 THEN Nothing ELSE MapEvent(req[i - 1], events[i])
    IN  req[Len(events)]
MessagesFromTranscript(events) == Mapped(events).messages

\* What the subscription driver sends: one text, as the parts it is joined of.
RenderEvent(event) ==
    CASE event.kind = "tool" -> <<Block("result", event.use)>>
      [] event.kind = "assistant" ->
            (IF event.thinking THEN <<Block("thinking", None)>> ELSE <<>>)
            \o (IF event.text > 0 THEN <<TextBlock>> ELSE <<>>)
            \o FlattenSeq([i \in DOMAIN event.searches |->
                  <<Block("call", event.searches[i].id)>>
                  \o (IF event.searches[i].got
                      THEN <<Block("result", event.searches[i].id)>> ELSE <<>>)])
            \o [i \in DOMAIN event.calls |-> Block("call", event.calls[i].id)]
      [] OTHER -> <<TextBlock>>
RenderTranscript(events) ==
    FlattenSeq([i \in DOMAIN events |-> RenderEvent(events[i])])

-----------------------------------------------------------------------------
\* What a driver hears: responses, each a stop reason and content blocks.

Contents ==
    [b : {"text", "thinking"}, id : {None}]
    \union [b : {"server_tool_use", "server_tool_result"}, id : SearchIds]
    \union [b : {"tool_use"}, id : CallIds \union {None}, does : Tools]
Responses == [stop : STRING, content : Seq(Contents)]

NoTurn == [reply |-> 0, calls |-> <<>>, searches |-> <<>>, thinking |-> FALSE]
BlocksOf(response, b) ==
    FlattenSeq([i \in DOMAIN response.content |->
        IF response.content[i].b = b THEN <<response.content[i]>> ELSE <<>>])

\* A search is paired with its result within one response.
TurnFromResponse(response) ==
    LET uses == BlocksOf(response, "server_tool_use")
        got(id) == Some(BlocksOf(response, "server_tool_result"),
                        LAMBDA block : block.id = id)
        tools == BlocksOf(response, "tool_use")
    IN  CASE response.stop = "refusal" -> [NoTurn EXCEPT !.reply = 1]
          [] OTHER ->
            [reply |-> Len(BlocksOf(response, "text"))
                       + (IF response.stop = "max_tokens" THEN 1 ELSE 0),
             thinking |-> BlocksOf(response, "thinking") # <<>>,
             calls |-> [i \in DOMAIN tools |->
                          [id |-> tools[i].id, does |-> tools[i].does]],
             searches |-> [i \in DOMAIN uses |->
                            [id |-> uses[i].id, got |-> got(uses[i].id)]]]

MergedTurn(turns) ==
    [reply |-> Total([i \in DOMAIN turns |-> turns[i].reply]),
     thinking |-> \E i \in DOMAIN turns : turns[i].thinking,
     calls |-> FlattenSeq([i \in DOMAIN turns |-> turns[i].calls]),
     searches |-> FlattenSeq([i \in DOMAIN turns |-> turns[i].searches])]

\* The responses of one decision: paused ones, then the one that ends it.
IsChain(responses) ==
    /\ Len(responses) \in 1..(MaxPauseResumes + 1)
    /\ \A i \in 1..(Len(responses) - 1) : responses[i].stop = "pause_turn"
    /\ responses[Len(responses)].stop = "pause_turn" =>
          Len(responses) = MaxPauseResumes + 1
Decide(responses) ==
    IF Last(responses).stop = "refusal" THEN TurnFromResponse(Last(responses))
    ELSE MergedTurn([i \in DOMAIN responses |-> TurnFromResponse(responses[i])])

\* Every call has an id before it is recorded.
WithIds(calls, left) ==
    [i \in DOMAIN calls |->
        [calls[i] EXCEPT !.id = IF @ = None THEN <<<<"toolu_gc">>, left, i>>
                                            ELSE <<@, left, i>>]]

-----------------------------------------------------------------------------
\* What the API accepts.

IdsOf(message, b) ==
    {block.id : block \in {x \in ToSet(message.content) : x.b = b}}

\* A request opens with the user; each call is answered in the message after
\* it, and only there; a search is followed by its result.
Acceptable(messages) ==
    /\ messages # <<>>
    /\ messages[1].role = "user" /\ Last(messages).role = "user"
    /\ \A i \in DOMAIN messages :
          /\ messages[i].content # <<>>
          /\ IdsOf(messages[i], "tool_use") =
                IF i = Len(messages) THEN {} ELSE IdsOf(messages[i + 1], "tool_result")
          /\ i = 1 => IdsOf(messages[i], "tool_result") = {}
          /\ \A j \in DOMAIN messages[i].content :
                /\ messages[i].content[j].b = "server_tool_use" =>
                      /\ j < Len(messages[i].content)
                      /\ messages[i].content[j + 1] =
                            Block("server_tool_result", messages[i].content[j].id)

\* Each call of the text is there once, and its result comes after it.
Legible(parts) ==
    \A i \in DOMAIN parts :
        /\ parts[i].b = "call" => ~\E j \in DOMAIN parts : j # i /\ parts[j] = parts[i]
        /\ parts[i].b = "result" =>
              \E j \in 1..(i - 1) : parts[j] = Block("call", parts[i].id)
=============================================================================
