--------------------------------- MODULE Turn ---------------------------------
(***************************************************************************)
(* The orchestrator of one space (orchestrator/pipeline.py, modes.py): its *)
(* turns, one at a time under the lock of the route, the modes they run    *)
(* in, the sessions they belong to and what is recorded of them            *)
(* (application/session_persister.py, session_registry.py,                 *)
(* mutation_journal.py, capture_recorder.py, intent_recorder.py).          *)
(***************************************************************************)
EXTENDS Conversation, FiniteSets

CONSTANTS
    Keys,           \* sessions: the chats of the space
    Modes,          \* names a mode object may have, in alphabetical order
    Specs,          \* what the object of each mode says
    Nodes,          \* objects a turn may edit
    Answers,        \* how a driver may answer: chains of responses
    Histories,      \* conversations a chat may be seeded with
    Edits,          \* the mode objects people leave, and whether they can be read
    MaxToolCalls,   \* decisions of a turn whose mode sets no limit
    FlushEvery,     \* mutations after which a session is saved
    Budget,         \* how often each kind of event happens
    Together        \* which kinds happen in one behaviour

NoMode == 0
Events == {"turn", "command", "edit", "crash", "seed"}

ASSUME TurnAssumption ==
    /\ Modes \subseteq Nat \ {NoMode}
    /\ Specs \in [Modes -> [mutating : BOOLEAN, capture : BOOLEAN, limit : Nat]]
    /\ MaxToolCalls \in Nat \ {0} /\ FlushEvery \in Nat \ {0}
    /\ Budget \in [Events -> Nat] /\ Together \subseteq SUBSET Events
    /\ Edits \subseteq [modes : SUBSET Modes, sound : BOOLEAN]
    /\ \A a \in Answers : a \in Seq(Responses) /\ IsChain(a)
    /\ Histories \subseteq Seq(TextEvents)

VARIABLES
    space,      \* the mode objects as people keep them, with revision stamps
    up,         \* the process runs
    seen,       \* the stamps that the index has of them
    watch,      \* the baseline of ModeConfigWatch
    registry,   \* the loaded modes, and the stamps they were read at
    store,      \* the mode in the saved snapshot of each session
    located,    \* the sessions whose object the store has found or made
    sessions,   \* the live sessions
    journal,    \* what the writers report
    turn,       \* the turn that runs
    out,        \* what the last turn delivered, and by which turn it was made
    intents,    \* the intent nodes: of which turn, and the edits they link
    failed,     \* history: the turns that raised
    promised,   \* history: the mode a person was last told a session is in
    missed,     \* history: an edit of the modes that no reload took
    spent       \* how many events of each kind happened

modeVars == <<space, seen, watch, registry, missed>>
sessionVars == <<store, located, sessions, promised>>
recordVars == <<journal, out, intents, failed>>
vars == <<up, modeVars, sessionVars, recordVars, turn, spent>>

Spend(event) == /\ spent[event] < Budget[event]
                /\ \E kinds \in Together :
                      {event} \union {e \in Events : spent[e] > 0} \subseteq kinds
                /\ spent' = [spent EXCEPT ![event] = @ + 1]

-----------------------------------------------------------------------------
\* Modes.

Unset == [modes |-> -1, link |-> -1]
Stamps(s) == [modes |-> s.modesRev, link |-> s.linkRev]
Loadable(s) == s.sound /\ s.modes # {} /\ s.link \in s.modes \union {NoMode}
LoadRegistry(s) ==
    [modes |-> s.modes, at |-> Stamps(s),
     default |-> IF s.link # NoMode THEN s.link
                 ELSE CHOOSE m \in s.modes : \A n \in s.modes : m <= n]

\* A reload that fails keeps the last good registry.
Reloads == {registry} \union (IF Loadable(space) THEN {LoadRegistry(space)} ELSE {})
Reload(reloaded) == registry' \in IF reloaded THEN Reloads \ {registry} ELSE {registry}

\* The binding is the boundary: tools that write, only in a mutating mode.
MutationTools == {"edit"}
Bound(spec, does) == spec.mutating \/ does \notin MutationTools
TurnLimit(spec) == IF spec.limit > 0 THEN spec.limit ELSE MaxToolCalls

ModeFingerprint(stamps) == stamps
Changed == watch # Unset /\ watch # ModeFingerprint(seen')

-----------------------------------------------------------------------------
\* Sessions.

NoSession == [mode |-> NoMode]
Live(k) == sessions[k] # NoSession
Fresh(mode) ==
    [mode |-> mode, mirror |-> mode, ring |-> <<>>, unsaved |-> 0,
     outbox |-> <<>>, drafted |-> <<>>]

\* A snapshot that cannot be read starts the session afresh; so does a mode
\* that is no longer loaded.
Restored(k, readable) ==
    IF readable /\ store[k] \in registry.modes THEN Fresh(store[k])
    ELSE Fresh(registry.default)

Session(k, readable) == IF Live(k) THEN sessions[k] ELSE Restored(k, readable)

\* What a person was told of the mode holds while the mode is loaded and, when
\* the session is restored, its snapshot could be read.
StillPromised(k, readable, loaded) ==
    IF (Live(k) \/ readable) /\ promised[k] \in registry.modes \intersect loaded
    THEN promised[k] ELSE NoMode
Find(k, readable) == located' = [located EXCEPT ![k] = @ \/ (readable /\ store[k] # NoMode)]

\* Saving: to the object the store knows, which may be gone, else to the one a
\* search finds, else to a new one. An answer may be lost.
Saves(k, mode) ==
    {[saved |-> FALSE, store |-> store[k], located |-> located[k]]}
    \union (IF located[k] /\ store[k] = NoMode THEN {}
            ELSE {[saved |-> TRUE, store |-> mode, located |-> TRUE],
                  [saved |-> FALSE, store |-> mode, located |-> store[k] # NoMode]})
Saved(k, save) == /\ store' = [store EXCEPT ![k] = save.store]
                  /\ located' = [located EXCEPT ![k] = save.located]

-----------------------------------------------------------------------------
\* Turns.

NoTurn_ == [stage |-> "idle"]
Idle == turn.stage = "idle"

\* The mode of a turn: the pin of a scheduled one, which leaves the session
\* alone, else that of the session, back to the default if it is gone.
SpecMode(s, pin) ==
    IF pin # NoMode THEN (IF pin \in registry.modes THEN pin ELSE registry.default)
    ELSE IF s.mode \in registry.modes THEN s.mode ELSE registry.default
AfterSpecPinned(s, pin) ==
    IF pin \in registry.modes THEN [s EXCEPT !.mode = pin, !.mirror = pin] ELSE s
AfterSpec(s, pin) ==
    IF pin = NoMode /\ s.mode \notin registry.modes
    THEN [s EXCEPT !.mode = registry.default, !.mirror = registry.default]
    ELSE s

\* Files and drafts that an earlier turn left behind do not ride out.
ClearedNot(s) == s
Cleared(s) == [s EXCEPT !.outbox = <<>>, !.drafted = <<>>]

Begin(k, pin, readable) ==
    /\ up /\ Idle /\ Spend("turn")
    /\ LET s == AfterSpec(Session(k, readable), pin)
           mode == SpecMode(s, pin)
       IN  /\ sessions' = [sessions EXCEPT ![k] = Cleared(s)]
           /\ promised' = [promised EXCEPT ![k] = StillPromised(k, readable, registry.modes)]
           /\ Find(k, readable /\ ~Live(k))
           /\ turn' = [stage |-> "decide", id |-> spent["turn"] + 1, key |-> k,
                       spec |-> Specs[mode], left |-> TurnLimit(Specs[mode]),
                       transcript |-> Append(s.ring, User(1)),
                       calls |-> <<>>, reply |-> 0, replied |-> FALSE,
                       before |-> <<>>, asked |-> <<>>, events |-> <<>>]
    /\ UNCHANGED <<up, modeVars, store, recordVars>>

Warned == IF turn.left = 1 THEN Append(turn.transcript, User(1)) ELSE turn.transcript

\* One decision. Without calls it is the reply of the turn.
Ask(answer) ==
    /\ turn.stage = "decide"
    /\ LET heard == Decide(answer)
           calls == WithIds(heard.calls, turn.left)
           said == [heard EXCEPT !.calls = calls,
                                 !.searches = WithIds(@, turn.left)]
       IN  turn' = [turn EXCEPT
             !.before = turn.asked, !.asked = Warned,
             !.stage = IF calls = <<>> THEN "finish" ELSE "calls",
             !.transcript = IF calls = <<>> THEN Warned
                            ELSE Append(Warned, Decided(said)),
             !.calls = calls, !.reply = said.reply,
             !.replied = calls = <<>>,
             !.events = IF calls = <<>> THEN Append(@, "reply") ELSE @]
    /\ UNCHANGED <<up, modeVars, sessionVars, recordVars, spent>>

\* The batch has run: the next decision, or the end of the budget, where the
\* text that came with the calls is the reply.
AfterCalls(t) ==
    IF t.calls # <<>> THEN t
    ELSE IF t.left > 1 THEN [t EXCEPT !.stage = "decide", !.left = @ - 1]
    ELSE [t EXCEPT !.stage = "finish", !.replied = t.reply > 0,
                   !.events = Append(@, IF t.reply > 0 THEN "reply" ELSE "notice")]

Answered(unavailable) ==
    AfterCalls([turn EXCEPT
        !.transcript = Append(@, Result(Head(turn.calls))), !.calls = Tail(@),
        !.events = IF unavailable THEN Append(@, "error") ELSE @])

\* The journal belongs to the space, not to the turn.
Touch(node) == Append(journal, [node |-> node, by |-> turn.id])

\* The calls run one after the other.
RunEdit(node) ==
    /\ turn.stage = "calls" /\ Head(turn.calls).does = "edit"
    /\ Bound(turn.spec, "edit")
    /\ turn' = Answered(FALSE)
    /\ journal' = Touch(<<"node", node>>)
    /\ LET k == turn.key
           due == sessions[k].unsaved + 1 >= FlushEvery
       IN  \E save \in IF due THEN Saves(k, sessions[k].mirror)
                       ELSE {[saved |-> FALSE, store |-> store[k], located |-> located[k]]} :
              /\ Saved(k, save)
              /\ sessions' = [sessions EXCEPT
                                ![k].unsaved = IF save.saved THEN 0
                                               ELSE IF @ < FlushEvery THEN @ + 1 ELSE @]
    /\ UNCHANGED <<up, modeVars, promised, out, intents, failed, spent>>

RunFile ==
    /\ turn.stage = "calls" /\ Head(turn.calls).does = "file"
    /\ turn' = Answered(FALSE)
    /\ sessions' = [sessions EXCEPT ![turn.key].outbox = Append(@, turn.id)]
    /\ UNCHANGED <<up, modeVars, store, located, promised, recordVars, spent>>

RunDraft ==
    /\ turn.stage = "calls" /\ Head(turn.calls).does = "draft"
    /\ turn' = Answered(FALSE)
    /\ sessions' = [sessions EXCEPT ![turn.key].drafted = Append(@, turn.id)]
    /\ UNCHANGED <<up, modeVars, store, located, promised, recordVars, spent>>

RunUnavailable ==
    /\ turn.stage = "calls" /\ ~Bound(turn.spec, Head(turn.calls).does)
    /\ turn' = Answered(TRUE)
    /\ UNCHANGED <<up, modeVars, sessionVars, recordVars, spent>>

\* After the last decision: files and drafts become events, the reply may be
\* captured as a node of its own.
Substantial == turn.replied /\ turn.spec.capture /\ turn.reply > 1
Outgoing == [i \in DOMAIN turn.events |-> [kind |-> turn.events[i], by |-> turn.id]]
            \o [i \in DOMAIN sessions[turn.key].outbox |->
                  [kind |-> "file", by |-> sessions[turn.key].outbox[i]]]
            \o [i \in DOMAIN sessions[turn.key].drafted |->
                  [kind |-> "confirm", by |-> sessions[turn.key].drafted[i]]]

Finish ==
    /\ turn.stage = "finish"
    /\ sessions' = [sessions EXCEPT ![turn.key] = Cleared(@)]
    /\ turn' = [turn EXCEPT !.stage = "record", !.events = Outgoing]
    /\ journal' = IF Substantial THEN Touch(<<"capture", turn.id>>) ELSE journal
    /\ UNCHANGED <<up, modeVars, store, located, promised, out, intents, failed, spent>>

\* The first record of a node wins.
Drain == {journal[i] : i \in {j \in DOMAIN journal :
            \A h \in 1..(j - 1) : journal[h].node # journal[j].node}}
DrainedNot == journal
Drained == <<>>
Linked == {r.node : r \in Drain}

Remembered(s) ==
    IF turn.replied /\ turn.reply > 0
    THEN [s EXCEPT !.ring = RememberTurn(@, 1, turn.reply)] ELSE s

Record ==
    /\ turn.stage = "record"
    /\ journal' = Drained
    /\ intents' = IF Linked = {} THEN intents
                  ELSE intents \union {[turn |-> turn.id, links |-> Linked,
                                        edits |-> ToSet(journal)]}
    /\ sessions' = [sessions EXCEPT ![turn.key] = Remembered(@)]
    /\ out' = [turn |-> turn.id, events |-> turn.events]
    /\ turn' = NoTurn_
    /\ UNCHANGED <<up, modeVars, store, located, promised, failed, spent>>

\* A turn may raise where it waits: for the driver, the capture or the intent
\* node, which may have been made. The journal is drained before the last.
Raise ==
    /\ turn.stage \in {"decide", "finish", "record"}
    /\ turn.stage = "finish" => Substantial
    /\ IF turn.stage = "finish" THEN sessions' = [sessions EXCEPT ![turn.key] = Cleared(@)]
                                ELSE UNCHANGED sessions
    /\ journal' = IF turn.stage = "record" THEN Drained ELSE journal
    /\ intents' \in {intents} \union
         (IF turn.stage = "record" /\ Linked # {}
          THEN {intents \union {[turn |-> turn.id, links |-> Linked,
                                 edits |-> ToSet(journal)]}}
          ELSE {})
    /\ failed' = failed \union {turn.id}
    /\ turn' = NoTurn_
    /\ UNCHANGED <<up, modeVars, store, located, promised, out, spent>>

-----------------------------------------------------------------------------
\* Commands.

\* The mode is set, mirrored into the session and saved at once; the person is
\* told when that fails.
Persist(k, s, mode) ==
    \E save \in Saves(k, mode) :
       /\ Saved(k, save)
       /\ sessions' = [sessions EXCEPT ![k] =
            [s EXCEPT !.mode = mode, !.mirror = mode,
                      !.unsaved = IF save.saved THEN 0 ELSE @]]
       /\ promised' = [promised EXCEPT ![k] = IF save.saved THEN mode ELSE NoMode]

SwitchMode(k, mode, readable, reloaded) ==
    /\ up /\ Idle /\ Spend("command")
    /\ Reload(reloaded)
    /\ LET s == Session(k, readable)
           kept == s.mode \in registry'.modes
           t == IF kept THEN s ELSE [s EXCEPT !.mode = registry'.default]
       IN  \/ /\ mode \in registry'.modes
              /\ Persist(k, t, mode)
           \/ /\ mode \notin registry'.modes
              /\ sessions' = [sessions EXCEPT ![k] = t]
              /\ promised' = [promised EXCEPT ![k] = StillPromised(k, readable, registry'.modes)]
              /\ Find(k, readable /\ ~Live(k))
              /\ UNCHANGED store
    /\ missed' = (missed /\ registry' = registry)
    /\ UNCHANGED <<up, space, seen, watch, recordVars, turn>>

Clear(k) ==
    /\ up /\ Idle /\ Live(k) /\ Spend("command")
    /\ sessions' = [sessions EXCEPT ![k].ring = <<>>]
    /\ UNCHANGED <<up, modeVars, store, located, promised, recordVars, turn>>

\* A chat is primed once it is served, and a plain reminder is remembered.
SeedMemory(k, history, readable) ==
    /\ up /\ ~Live(k) /\ Spend("seed")
    /\ LET s == Restored(k, readable)
       IN  /\ sessions' = [sessions EXCEPT ![k] = [s EXCEPT !.ring = Seed(history)]]
           /\ promised' = [promised EXCEPT ![k] = StillPromised(k, readable, registry.modes)]
    /\ Find(k, readable)
    /\ UNCHANGED <<up, modeVars, store, recordVars, turn>>
NoteScheduledPost(k, readable) ==
    /\ up /\ Spend("seed")
    /\ LET s == Session(k, readable)
       IN  /\ sessions' = [sessions EXCEPT ![k] =
                             [s EXCEPT !.ring = RememberAssistant(@, 1)]]
           /\ promised' = [promised EXCEPT ![k] =
                             IF Live(k) THEN @ ELSE StillPromised(k, readable, registry.modes)]
    /\ Find(k, readable /\ ~Live(k))
    /\ UNCHANGED <<up, modeVars, store, recordVars, turn>>

-----------------------------------------------------------------------------
\* The change tick, people, and the process.

Tick(reloaded) ==
    /\ up /\ Idle
    /\ seen' = Stamps(space)
    /\ watch' = ModeFingerprint(seen')
    /\ reloaded => Changed
    /\ Reload(reloaded)
    /\ missed' = CASE watch = Unset -> registry.at # seen'
                   [] Changed -> ~reloaded /\ registry.at # seen'
                   [] OTHER -> missed
    /\ <<seen', watch'>> # <<seen, watch>>
    /\ UNCHANGED <<up, space, sessionVars, recordVars, turn, spent>>

\* People make, break, archive and mend mode objects and move the link.
EditModes(modes, sound) ==
    /\ Spend("edit")
    /\ space' = [space EXCEPT !.modes = modes, !.sound = sound, !.modesRev = @ + 1]
    /\ UNCHANGED <<up, seen, watch, registry, missed, sessionVars, recordVars, turn>>
EditLink(mode) ==
    /\ Spend("edit")
    /\ space' = [space EXCEPT !.link = mode, !.linkRev = @ + 1]
    /\ UNCHANGED <<up, seen, watch, registry, missed, sessionVars, recordVars, turn>>
DeleteSession(k) ==
    /\ store[k] # NoMode /\ Spend("edit")
    /\ store' = [store EXCEPT ![k] = NoMode]
    /\ promised' = [promised EXCEPT ![k] = NoMode]
    /\ UNCHANGED <<up, modeVars, located, sessions, recordVars, turn>>

Crash ==
    /\ up /\ Spend("crash")
    /\ up' = FALSE
    /\ sessions' = [k \in Keys |-> NoSession]
    /\ located' = [k \in Keys |-> FALSE]
    /\ journal' = <<>>
    /\ turn' = NoTurn_
    /\ failed' = IF Idle THEN failed ELSE failed \union {turn.id}
    /\ UNCHANGED <<modeVars, store, promised, out, intents>>

\* A clean stop saves every live session, as far as it gets.
Shutdown ==
    /\ up /\ Idle /\ Spend("crash")
    /\ \E saves \in [Keys -> BOOLEAN] :
          store' = [k \in Keys |-> IF saves[k] /\ Live(k)
                                      /\ ~(located[k] /\ store[k] = NoMode)
                                   THEN sessions[k].mirror ELSE store[k]]
    /\ up' = FALSE
    /\ sessions' = [k \in Keys |-> NoSession]
    /\ located' = [k \in Keys |-> FALSE]
    /\ journal' = <<>>
    /\ UNCHANGED <<modeVars, promised, out, intents, failed, turn>>

\* The start reads the modes, loudly: a broken one keeps the process down.
Start ==
    /\ ~up /\ Loadable(space)
    /\ up' = TRUE
    /\ seen' = Stamps(space) /\ registry' = LoadRegistry(space)
    /\ watch' = Unset /\ missed' = FALSE
    /\ UNCHANGED <<space, sessionVars, recordVars, turn, spent>>

-----------------------------------------------------------------------------
Init ==
    /\ up = FALSE
    /\ space = [modes |-> Modes, sound |-> TRUE, link |-> NoMode,
                modesRev |-> 0, linkRev |-> 0]
    /\ seen = Stamps(space) /\ watch = Unset /\ missed = FALSE
    /\ registry = LoadRegistry(space)
    /\ store = [k \in Keys |-> NoMode] /\ located = [k \in Keys |-> FALSE]
    /\ sessions = [k \in Keys |-> NoSession] /\ promised = [k \in Keys |-> NoMode]
    /\ journal = <<>> /\ turn = NoTurn_ /\ intents = {} /\ failed = {}
    /\ out = [turn |-> 0, events |-> <<>>]
    /\ spent = [e \in Events |-> 0]

Turns ==
    \/ \E k \in Keys, pin \in Modes \union {NoMode}, readable \in BOOLEAN :
          Begin(k, pin, readable)
    \/ \E answer \in Answers : Ask(answer)
    \/ \E node \in Nodes : RunEdit(node)
    \/ RunFile \/ RunDraft \/ RunUnavailable \/ Finish \/ Record \/ Raise
Commands ==
    \/ \E k \in Keys, mode \in Modes \union {NoMode}, readable, reloaded \in BOOLEAN :
          SwitchMode(k, mode, readable, reloaded)
    \/ \E k \in Keys : Clear(k)
    \/ \E k \in Keys, readable \in BOOLEAN :
          \/ NoteScheduledPost(k, readable)
          \/ \E h \in Histories : SeedMemory(k, h, readable)
People ==
    \/ \E edit \in Edits : EditModes(edit.modes, edit.sound)
    \/ \E mode \in Modes \union {NoMode} : EditLink(mode)
    \/ \E k \in Keys : DeleteSession(k)
Process == Crash \/ Shutdown \/ Start \/ \E reloaded \in BOOLEAN : Tick(reloaded)
Next == Turns \/ Commands \/ People \/ Process
Spec == Init /\ [][Next]_vars

-----------------------------------------------------------------------------
\* Every request a driver makes is one its API accepts, extends the one before
\* it (which the prompt cache needs), and shows each call once and before its
\* result: whatever the memory dropped or the model asked for
\* (messages_from_transcript, render_transcript, mark_cache_tail).
RequestsAccepted ==
    ~Idle =>
      LET now == MessagesFromTranscript(turn.asked)
      IN  turn.asked # <<>> =>
            /\ Acceptable(now)
            /\ IsPrefix(MessagesFromTranscript(turn.before), now)
            /\ Legible(RenderTranscript(turn.asked))

\* Each edit is credited to one recorded turn: its own, or, when its own turn
\* raised before it drained the journal, the next that recorded
\* (MutationJournal.drain, Orchestrator._finish_turn).
CreditedOnce ==
    \A i, j \in intents :
        /\ i.links = {e.node : e \in i.edits}
        /\ \A e \in i.edits : e.by = i.turn \/ (e.by \in failed /\ e.by < i.turn)
        /\ i # j => i.edits \intersect j.edits = {}

\* What a turn delivers was made in that turn: the files and schema drafts of
\* a turn that raised do not ride out with a later one (handle_message).
DeliversOwn == \A i \in DOMAIN out.events : out.events[i].by = out.turn

\* A session is in the mode a person was last told, across turns pinned to
\* other modes, saves that fail and restarts, unless its snapshot or the mode
\* was lost (_switch_mode, _persist_mode, _override_spec, _session).  And the
\* modes it can be in are current: once the tick has seen an edit of the modes
\* or of the default link, those loaded are at least as new, unless the reload
\* failed or the edit came before the first tick (ModeConfigWatch).
ModeResumes ==
    /\ \A k \in Keys :
          Live(k) /\ promised[k] # NoMode => sessions[k].mode = promised[k]
    /\ up /\ watch # Unset /\ ~missed =>
          registry.at.modes >= seen.modes /\ registry.at.link >= seen.link

=============================================================================
