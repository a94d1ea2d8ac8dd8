----------------------------- MODULE TurnProofs -----------------------------
(***************************************************************************)
(* Proofs about Turn, for any chats, modes, answers and budgets: every     *)
(* edit is credited once, a turn delivers what it made itself, sessions    *)
(* stay in the modes people were told of, and every request of a turn is   *)
(* one its API accepts.                                                    *)
(***************************************************************************)
EXTENDS Turn, SequenceTheorems, WellFoundedInduction, TLAPS

Working == {"decide", "calls", "finish"}
Fields == {"stage", "id", "key", "spec", "left", "transcript", "calls", "reply",
           "replied", "before", "asked", "events"}
SessionFields == {"mode", "mirror", "ring", "unsaved", "outbox", "drafted"}
Said == {"reply", "notice", "error"}
Own(ids, id) == \A i \in DOMAIN ids : ids[i] = id

IsSession(s) ==
    /\ DOMAIN s = SessionFields
    /\ s.outbox \in Seq(Nat) /\ s.drafted \in Seq(Nat)

\* A turn is the last that began, and its session is live.
TurnInv ==
    /\ spent \in [Events -> Nat]
    /\ DOMAIN sessions = Keys
    /\ \A k \in Keys : Live(k) => IsSession(sessions[k])
    /\ turn.stage \in Working \union {"record", "idle"}
    /\ ~Idle => /\ DOMAIN turn = Fields
                /\ turn.id = spent["turn"] /\ turn.key \in Keys /\ Live(turn.key)

\* Until it is finished its session holds only its own files and drafts.
OwnInv ==
    /\ turn.stage \in Working =>
          /\ turn.events \in Seq(Said)
          /\ Own(sessions[turn.key].outbox, turn.id)
          /\ Own(sessions[turn.key].drafted, turn.id)
    /\ turn.stage = "record" =>
          \A i \in DOMAIN turn.events : turn.events[i].by = turn.id
    /\ DeliversOwn

\* An edit in the journal is of the turn that runs, or of one that raised.
Creditable(e) ==
    \/ ~Idle /\ e.by = turn.id
    \/ e.by \in failed /\ e.by <= spent["turn"] /\ (~Idle => e.by < turn.id)

Credits == [node : ({"node"} \X Nodes) \union ({"capture"} \X Nat), by : Nat]

\* What is in the journal is in no intent yet.
CreditInv ==
    /\ journal \in Seq(Credits)
    /\ \A i \in DOMAIN journal : Creditable(journal[i])
    /\ \A n \in intents :
          /\ n.turn \in Nat /\ n.turn <= spent["turn"] /\ (~Idle => n.turn < turn.id)
          /\ n.edits \subseteq Credits
          /\ \A i \in DOMAIN journal : journal[i] \notin n.edits
    /\ CreditedOnce

\* What a person was told of is in the snapshot, and in the session if it is live.
PromiseInv ==
    /\ DOMAIN promised = Keys /\ DOMAIN store = Keys
    /\ \A k \in Keys : promised[k] # NoMode =>
          /\ store[k] = promised[k]
          /\ Live(k) => sessions[k].mode = promised[k] /\ sessions[k].mirror = promised[k]

\* The watch holds what was last seen, which the space has had.
StampInv ==
    /\ DOMAIN space = {"modes", "sound", "link", "modesRev", "linkRev"}
    /\ space.modesRev \in Nat /\ space.linkRev \in Nat
    /\ seen \in [modes : 0..space.modesRev, link : 0..space.linkRev]
    /\ registry.at \in [modes : Nat, link : Nat]
    /\ watch \in {Unset, seen}
    /\ up /\ watch # Unset /\ ~missed =>
          registry.at.modes >= seen.modes /\ registry.at.link >= seen.link

-----------------------------------------------------------------------------
(* Sessions. *)

LEMMA FreshSession ==
    ASSUME NEW mode
    PROVE  /\ IsSession(Fresh(mode)) /\ Fresh(mode).mode = mode
           /\ Fresh(mode).mirror = mode
<1>1. DOMAIN Fresh(mode) = SessionFields
  BY DEF Fresh, SessionFields
<1>2. Fresh(mode).outbox = <<>> /\ Fresh(mode).drafted = <<>>
  BY DEF Fresh
<1> QED
  BY <1>1, <1>2 DEF IsSession, Fresh

LEMMA SessionIsLive == ASSUME NEW s, IsSession(s) PROVE s # NoSession
<1>1. DOMAIN NoSession = {"mode"}
  BY DEF NoSession
<1>2. "ring" \in DOMAIN s /\ "ring" # "mode"
  BY DEF IsSession, SessionFields
<1> QED
  BY <1>1, <1>2

LEMMA SessionFound ==
    ASSUME TurnInv, NEW k \in Keys, NEW readable \in BOOLEAN
    PROVE  IsSession(Session(k, readable)) /\ IsSession(Restored(k, readable))
<1>1. IsSession(Restored(k, readable))
  BY FreshSession DEF Restored
<1> QED
  BY <1>1 DEF Session, TurnInv

\* What a session still promises is its mode, which is loaded.
LEMMA PromiseFound ==
    ASSUME TurnInv, PromiseInv, NEW k \in Keys, NEW readable \in BOOLEAN, NEW loaded,
           StillPromised(k, readable, loaded) # NoMode
    PROVE  /\ StillPromised(k, readable, loaded) = promised[k] /\ store[k] = promised[k]
           /\ promised[k] \in registry.modes \intersect loaded
           /\ Session(k, readable).mode = promised[k]
           /\ Session(k, readable).mirror = promised[k]
<1>1. /\ Live(k) \/ readable
      /\ promised[k] \in registry.modes \intersect loaded /\ promised[k] # NoMode
      /\ StillPromised(k, readable, loaded) = promised[k]
  BY DEF StillPromised
<1>2. store[k] = promised[k]
  BY <1>1 DEF PromiseInv
<1>3. CASE Live(k)
  BY <1>1, <1>2, <1>3 DEF PromiseInv, Session
<1>4. CASE ~Live(k)
  <2>1. Session(k, readable) = Fresh(promised[k])
    BY <1>1, <1>2, <1>4 DEF Session, Restored
  <2> QED
    BY <1>1, <1>2, <2>1, FreshSession
<1> QED
  BY <1>3, <1>4

LEMMA SessionSet ==
    ASSUME TurnInv, NEW k \in Keys, NEW s, IsSession(s), sessions' = [sessions EXCEPT ![k] = s]
    PROVE  /\ DOMAIN sessions' = Keys /\ sessions'[k] = s
           /\ \A j \in Keys \ {k} : sessions'[j] = sessions[j]
           /\ \A j \in Keys : sessions'[j] # NoSession => IsSession(sessions'[j])
           /\ sessions'[k] # NoSession
<1>1. DOMAIN sessions' = Keys /\ sessions'[k] = s
      /\ \A j \in Keys \ {k} : sessions'[j] = sessions[j]
  BY DEF TurnInv
<1> QED
  BY <1>1, SessionIsLive DEF TurnInv, Live

LEMMA Spent ==
    ASSUME spent \in [Events -> Nat], NEW event \in Events, Spend(event)
    PROVE  /\ spent' \in [Events -> Nat]
           /\ spent'["turn"] = IF event = "turn" THEN spent["turn"] + 1 ELSE spent["turn"]
BY DEF Spend, Events

-----------------------------------------------------------------------------
(* Turns and what they own. *)

\* Steps in which neither a turn nor a session moves.
LEMMA QuietStep ==
    ASSUME TurnInv, OwnInv, UNCHANGED <<turn, sessions, out>>, spent' \in [Events -> Nat],
           spent'["turn"] = spent["turn"]
    PROVE  TurnInv' /\ OwnInv'
BY DEF TurnInv, OwnInv, Idle, Live, DeliversOwn

\* A session that no turn works on, or whose files and drafts stay.
LEMMA SessionStep ==
    ASSUME TurnInv, OwnInv, NEW k \in Keys, NEW s, IsSession(s),
           sessions' = [sessions EXCEPT ![k] = s], UNCHANGED <<turn, out>>,
           spent' \in [Events -> Nat], spent'["turn"] = spent["turn"],
           \/ Idle \/ ~Live(k)
           \/ s.outbox = sessions[k].outbox /\ s.drafted = sessions[k].drafted
    PROVE  TurnInv' /\ OwnInv'
<1>1. /\ DOMAIN sessions' = Keys /\ sessions'[k] = s
      /\ \A j \in Keys \ {k} : sessions'[j] = sessions[j]
      /\ \A j \in Keys : sessions'[j] # NoSession => IsSession(sessions'[j])
      /\ sessions'[k] # NoSession
  BY SessionSet
<1>2. TurnInv'
  BY <1>1 DEF TurnInv, Idle, Live
<1>3. OwnInv'
  <2>1. CASE Idle
    BY <2>1 DEF OwnInv, Idle, Working, DeliversOwn
  <2>2. CASE ~Idle
    <3>1. turn.key \in Keys /\ Live(turn.key)
      BY <2>2 DEF TurnInv
    <3>2. /\ sessions'[turn.key].outbox = sessions[turn.key].outbox
          /\ sessions'[turn.key].drafted = sessions[turn.key].drafted
      BY <1>1, <2>2, <3>1
    <3> QED
      BY <3>2 DEF OwnInv, DeliversOwn
  <2> QED
    BY <2>1, <2>2
<1> QED
  BY <1>2, <1>3

LEMMA NothingOwned == \A id : Own(<<>>, id)
BY DEF Own

LEMMA ClearedOwns ==
    ASSUME NEW s, IsSession(s)
    PROVE  /\ IsSession(Cleared(s)) /\ Cleared(s).mode = s.mode /\ Cleared(s).mirror = s.mirror
           /\ Cleared(s).outbox = <<>> /\ Cleared(s).drafted = <<>>
<1>1. Cleared(s).outbox = <<>> /\ Cleared(s).drafted = <<>> /\ DOMAIN Cleared(s) = SessionFields
  BY DEF Cleared, IsSession, SessionFields
<1>2. Cleared(s).mode = s.mode /\ Cleared(s).mirror = s.mirror
  BY DEF Cleared, IsSession, SessionFields
<1> QED
  BY <1>1, <1>2 DEF IsSession

\* The session a turn begins with, in the mode it was promised in.
LEMMA BegunSession ==
    ASSUME NEW s, IsSession(s), NEW pin
    PROVE  /\ IsSession(AfterSpec(s, pin))
           /\ s.mode \in registry.modes => AfterSpec(s, pin) = s
<1>1. CASE pin = NoMode /\ s.mode \notin registry.modes
  <2>1. /\ DOMAIN AfterSpec(s, pin) = SessionFields
        /\ AfterSpec(s, pin).outbox = s.outbox /\ AfterSpec(s, pin).drafted = s.drafted
    BY <1>1 DEF AfterSpec, IsSession, SessionFields
  <2> QED
    BY <1>1, <2>1 DEF IsSession
<1>2. CASE ~(pin = NoMode /\ s.mode \notin registry.modes)
  BY <1>2 DEF AfterSpec
<1> QED
  BY <1>1, <1>2

LEMMA BeginStep ==
    ASSUME TurnInv, OwnInv, NEW k \in Keys, NEW pin, NEW readable \in BOOLEAN,
           Begin(k, pin, readable)
    PROVE  /\ TurnInv' /\ OwnInv' /\ ~Idle' /\ turn'.id = spent["turn"] + 1
           /\ spent'["turn"] = spent["turn"] + 1
<1> DEFINE s == AfterSpec(Session(k, readable), pin)
<1>1. IsSession(Cleared(s)) /\ Cleared(s).outbox = <<>> /\ Cleared(s).drafted = <<>>
  BY SessionFound, BegunSession, ClearedOwns
<1>2. sessions' = [sessions EXCEPT ![k] = Cleared(s)] /\ Spend("turn") /\ Idle /\ out' = out
  BY DEF Begin, recordVars
<1> HIDE DEF s
<1>3. /\ DOMAIN sessions' = Keys /\ sessions'[k] = Cleared(s)
      /\ \A j \in Keys : sessions'[j] # NoSession => IsSession(sessions'[j])
      /\ sessions'[k] # NoSession
  BY <1>1, <1>2, SessionSet
<1>4. spent' \in [Events -> Nat] /\ spent'["turn"] = spent["turn"] + 1
  BY <1>2, Spent DEF TurnInv, Events
<1>5. /\ DOMAIN turn' = Fields /\ turn'.stage = "decide" /\ turn'.id = spent["turn"] + 1
      /\ turn'.key = k /\ turn'.events = <<>>
  BY DEF Begin, Fields
<1>6. TurnInv' /\ ~Idle'
  BY <1>3, <1>4, <1>5 DEF TurnInv, Idle, Live, Working
<1>7. OwnInv'
  <2>1. turn'.events \in Seq(Said)
    BY <1>5
  <2>2. Own(sessions'[k].outbox, turn'.id) /\ Own(sessions'[k].drafted, turn'.id)
    BY <1>1, <1>3, NothingOwned
  <2>3. DeliversOwn'
    BY <1>2 DEF OwnInv, DeliversOwn
  <2> QED
    BY <1>5, <2>1, <2>2, <2>3 DEF OwnInv
<1> QED
  BY <1>4, <1>5, <1>6, <1>7

\* A turn goes on; its own session takes what it makes.
LEMMA WorkStep ==
    ASSUME TurnInv, OwnInv, turn.stage \in Working,
           UNCHANGED <<spent, out>>,
           DOMAIN turn' = Fields, turn'.id = turn.id, turn'.key = turn.key,
           turn'.stage \in Working, turn'.events \in Seq(Said),
           NEW s, IsSession(s),
           \/ sessions' = [sessions EXCEPT ![turn.key] = s]
           \/ sessions' = sessions /\ s = sessions[turn.key],
           Own(s.outbox, turn.id), Own(s.drafted, turn.id)
    PROVE  TurnInv' /\ OwnInv' /\ ~Idle' /\ ~Idle
<1>1. turn.key \in Keys /\ turn.id = spent["turn"] /\ ~Idle
  BY DEF TurnInv, Idle, Working
<1>2. /\ DOMAIN sessions' = Keys /\ sessions'[turn.key] = s
      /\ \A j \in Keys : sessions'[j] # NoSession => IsSession(sessions'[j])
      /\ sessions'[turn.key] # NoSession
  BY <1>1, SessionSet DEF TurnInv, Live
<1>3. TurnInv'
  BY <1>1, <1>2 DEF TurnInv, Idle, Live
<1>4. OwnInv'
  BY <1>2 DEF OwnInv, DeliversOwn, Working
<1> QED
  BY <1>1, <1>3, <1>4 DEF Idle, Working

LEMMA SameSession ==
    ASSUME TurnInv, OwnInv, turn.stage \in Working
    PROVE  /\ IsSession(sessions[turn.key])
           /\ Own(sessions[turn.key].outbox, turn.id) /\ Own(sessions[turn.key].drafted, turn.id)
<1>1. ~Idle
  BY DEF Idle, Working
<1> QED
  BY <1>1 DEF TurnInv, OwnInv, Live

LEMMA AskStep ==
    ASSUME TurnInv, OwnInv, NEW answer, Ask(answer)
    PROVE  TurnInv' /\ OwnInv' /\ ~Idle' /\ ~Idle /\ turn'.id = turn.id
<1>1. turn.stage = "decide" /\ UNCHANGED <<spent, out, sessions>>
  BY DEF Ask, sessionVars, recordVars
<1>2. turn.stage \in Working /\ DOMAIN turn = Fields /\ turn.events \in Seq(Said)
  BY <1>1 DEF TurnInv, OwnInv, Idle, Working
<1> DEFINE heard == Decide(answer)
           calls == WithIds(heard.calls, turn.left)
           said == [heard EXCEPT !.calls = calls, !.searches = WithIds(@, turn.left)]
           stage == IF calls = <<>> THEN "finish" ELSE "calls"
           transcript == IF calls = <<>> THEN Warned ELSE Append(Warned, Decided(said))
           events == IF calls = <<>> THEN Append(turn.events, "reply") ELSE turn.events
<1>3. turn' = [turn EXCEPT !.before = turn.asked, !.asked = Warned, !.stage = stage,
                  !.transcript = transcript, !.calls = calls, !.reply = heard.reply,
                  !.replied = (calls = <<>>), !.events = events]
  BY DEF Ask
<1>5. events \in Seq(Said) /\ stage \in Working
  BY <1>2 DEF Said, Working
<1> HIDE DEF heard, calls, stage, transcript, events
<1>4. /\ DOMAIN turn' = Fields /\ turn'.id = turn.id /\ turn'.key = turn.key
      /\ turn'.stage = stage /\ turn'.events = events
  BY <1>2, <1>3 DEF Fields
<1> QED
  BY <1>1, <1>2, <1>4, <1>5, SameSession, WorkStep

LEMMA AnsweredTurn ==
    ASSUME TurnInv, OwnInv, turn.stage = "calls", NEW unavailable
    PROVE  LET t == Answered(unavailable) IN
           /\ DOMAIN t = Fields /\ t.id = turn.id /\ t.key = turn.key
           /\ t.stage \in Working /\ t.events \in Seq(Said)
<1>1. DOMAIN turn = Fields /\ turn.events \in Seq(Said)
  BY DEF TurnInv, OwnInv, Idle, Working
<1> DEFINE events == IF unavailable THEN Append(turn.events, "error") ELSE turn.events
           t == [turn EXCEPT !.transcript = Append(@, Result(Head(turn.calls))),
                             !.calls = Tail(@),
                             !.events = IF unavailable THEN Append(@, "error") ELSE @]
<1>2. events \in Seq(Said)
  BY <1>1 DEF Said
<1>3. /\ DOMAIN t = Fields /\ t.id = turn.id /\ t.key = turn.key
      /\ t.stage = "calls" /\ t.events = events
  BY <1>1 DEF Fields
<1> HIDE DEF t, events
<1>4. /\ DOMAIN AfterCalls(t) = Fields /\ AfterCalls(t).id = turn.id
      /\ AfterCalls(t).key = turn.key /\ AfterCalls(t).stage \in Working
      /\ AfterCalls(t).events \in Seq(Said)
  <2>1. CASE t.calls # <<>>
    BY <1>2, <1>3, <2>1 DEF AfterCalls, Working
  <2>2. CASE t.calls = <<>> /\ t.left > 1
    <3>1. AfterCalls(t) = [t EXCEPT !.stage = "decide", !.left = @ - 1]
      BY <2>2 DEF AfterCalls
    <3> QED
      BY <1>2, <1>3, <3>1 DEF Fields, Working
  <2>3. CASE t.calls = <<>> /\ ~(t.left > 1)
    <3> DEFINE last == IF t.reply > 0 THEN "reply" ELSE "notice"
               events_ == Append(t.events, last)
    <3>1. AfterCalls(t) = [t EXCEPT !.stage = "finish", !.replied = t.reply > 0,
                                    !.events = events_]
      BY <2>3 DEF AfterCalls
    <3>2. events_ \in Seq(Said)
      BY <1>2, <1>3 DEF Said
    <3> HIDE DEF events_
    <3> QED
      BY <1>3, <3>1, <3>2 DEF Fields, Working
  <2> QED
    BY <2>1, <2>2, <2>3
<1> QED
  BY <1>4 DEF Answered, t

LEMMA RunStep ==
    ASSUME TurnInv, OwnInv,
           (\E node \in Nodes : RunEdit(node)) \/ RunFile \/ RunDraft \/ RunUnavailable
    PROVE  TurnInv' /\ OwnInv' /\ ~Idle' /\ ~Idle /\ turn'.id = turn.id
<1> DEFINE k == turn.key
<1>1. /\ turn.stage = "calls" /\ UNCHANGED <<spent, out>>
      /\ \E u \in BOOLEAN : turn' = Answered(u)
  BY DEF RunEdit, RunFile, RunDraft, RunUnavailable, recordVars
<1>2. /\ DOMAIN turn' = Fields /\ turn'.id = turn.id /\ turn'.key = turn.key
      /\ turn'.stage \in Working /\ turn'.events \in Seq(Said)
  BY <1>1, AnsweredTurn
<1>3. /\ turn.stage \in Working /\ k \in Keys /\ IsSession(sessions[k]) /\ turn.id \in Nat
      /\ DOMAIN sessions = Keys
      /\ Own(sessions[k].outbox, turn.id) /\ Own(sessions[k].drafted, turn.id)
  BY <1>1 DEF TurnInv, OwnInv, Working, Idle, Live, Events
<1>4. ASSUME NEW ids \in Seq(Nat), Own(ids, turn.id)
      PROVE  Append(ids, turn.id) \in Seq(Nat) /\ Own(Append(ids, turn.id), turn.id)
  BY <1>3, <1>4 DEF Own
<1>5. PICK s : /\ IsSession(s)
               /\ \/ sessions' = [sessions EXCEPT ![k] = s]
                  \/ sessions' = sessions /\ s = sessions[k]
               /\ Own(s.outbox, turn.id) /\ Own(s.drafted, turn.id)
  <2>1. CASE \E node \in Nodes : RunEdit(node)
    <3>1. PICK unsaved : sessions' = [sessions EXCEPT ![k].unsaved = unsaved]
      BY <2>1 DEF RunEdit
    <3> DEFINE s == [sessions[k] EXCEPT !.unsaved = unsaved]
    <3>2. /\ DOMAIN s = SessionFields /\ s.outbox = sessions[k].outbox
          /\ s.drafted = sessions[k].drafted
      BY <1>3 DEF IsSession, SessionFields
    <3>3. sessions' = [sessions EXCEPT ![k] = s]
      BY <3>1
    <3> QED
      BY <1>3, <3>2, <3>3 DEF IsSession
  <2>2. CASE RunFile
    <3> DEFINE ids == Append(sessions[k].outbox, turn.id)
               s == [sessions[k] EXCEPT !.outbox = ids]
    <3>1. ids \in Seq(Nat) /\ Own(ids, turn.id)
      BY <1>3, <1>4 DEF IsSession
    <3> HIDE DEF ids
    <3>2. DOMAIN s = SessionFields /\ s.outbox = ids /\ s.drafted = sessions[k].drafted
      BY <1>3 DEF IsSession, SessionFields
    <3>3. sessions' = [sessions EXCEPT ![k] = s]
      BY <2>2 DEF RunFile, ids
    <3> QED
      BY <1>3, <3>1, <3>2, <3>3 DEF IsSession
  <2>3. CASE RunDraft
    <3> DEFINE ids == Append(sessions[k].drafted, turn.id)
               s == [sessions[k] EXCEPT !.drafted = ids]
    <3>1. ids \in Seq(Nat) /\ Own(ids, turn.id)
      BY <1>3, <1>4 DEF IsSession
    <3> HIDE DEF ids
    <3>2. DOMAIN s = SessionFields /\ s.drafted = ids /\ s.outbox = sessions[k].outbox
      BY <1>3 DEF IsSession, SessionFields
    <3>3. sessions' = [sessions EXCEPT ![k] = s]
      BY <2>3 DEF RunDraft, ids
    <3> QED
      BY <1>3, <3>1, <3>2, <3>3 DEF IsSession
  <2>4. CASE RunUnavailable
    <3>1. UNCHANGED sessions
      BY <2>4 DEF RunUnavailable, sessionVars
    <3> QED
      BY <1>3, <3>1
  <2> QED
    BY <2>1, <2>2, <2>3, <2>4
<1> QED
  BY <1>1, <1>2, <1>3, <1>5, WorkStep

\* What a finished turn hands over carries its number.
LEMMA FinishStep ==
    ASSUME TurnInv, OwnInv, Finish
    PROVE  TurnInv' /\ OwnInv' /\ ~Idle' /\ ~Idle /\ turn'.id = turn.id
<1> DEFINE k == turn.key
           s == Cleared(sessions[k])
<1>1. /\ turn.stage = "finish" /\ UNCHANGED <<spent, out>>
      /\ sessions' = [sessions EXCEPT ![k] = s]
      /\ turn' = [turn EXCEPT !.stage = "record", !.events = Outgoing]
  BY DEF Finish
<1>2. /\ turn.stage \in Working /\ ~Idle /\ k \in Keys /\ DOMAIN turn = Fields
      /\ turn.id = spent["turn"]
  BY <1>1 DEF TurnInv, Working, Idle
<1>3. /\ IsSession(sessions[k]) /\ turn.events \in Seq(Said)
      /\ Own(sessions[k].outbox, turn.id) /\ Own(sessions[k].drafted, turn.id)
  BY <1>2, SameSession DEF OwnInv
<1>4. IsSession(s)
  BY <1>3, ClearedOwns
<1> HIDE DEF s
<1>5. /\ DOMAIN sessions' = Keys
      /\ \A j \in Keys : sessions'[j] # NoSession => IsSession(sessions'[j])
      /\ sessions'[k] # NoSession
  BY <1>1, <1>2, <1>4, SessionSet
<1>6. /\ DOMAIN turn' = Fields /\ turn'.stage = "record" /\ turn'.id = turn.id
      /\ turn'.key = k /\ turn'.events = Outgoing
  BY <1>1, <1>2 DEF Fields
<1>7. TurnInv' /\ ~Idle'
  BY <1>1, <1>2, <1>5, <1>6 DEF TurnInv, Idle, Live
<1>8. \A i \in DOMAIN Outgoing : Outgoing[i].by = turn.id
  <2> DEFINE Things == [kind : Said \union {"file", "confirm"}, by : {turn.id}]
             said == [i \in DOMAIN turn.events |-> [kind |-> turn.events[i], by |-> turn.id]]
             files == [i \in DOMAIN sessions[k].outbox |->
                         [kind |-> "file", by |-> sessions[k].outbox[i]]]
             drafts == [i \in DOMAIN sessions[k].drafted |->
                         [kind |-> "confirm", by |-> sessions[k].drafted[i]]]
  <2>1. said \in Seq(Things)
    <3>1. Len(turn.events) \in Nat /\ DOMAIN turn.events = 1..Len(turn.events)
      BY <1>3 DEF IsSession
    <3>2. \A i \in 1..Len(turn.events) : [kind |-> turn.events[i], by |-> turn.id] \in Things
      BY <1>3
    <3>3. said \in [1..Len(turn.events) -> Things]
      BY <3>1, <3>2
    <3> HIDE DEF said, Things
    <3> QED
      BY <3>1, <3>3
  <2>2. files \in Seq(Things)
    <3>1. Len(sessions[k].outbox) \in Nat /\ DOMAIN sessions[k].outbox = 1..Len(sessions[k].outbox)
      BY <1>3 DEF IsSession
    <3>2. \A i \in 1..Len(sessions[k].outbox) : [kind |-> "file", by |-> sessions[k].outbox[i]] \in Things
      BY <1>3 DEF Own, IsSession
    <3>3. files \in [1..Len(sessions[k].outbox) -> Things]
      BY <3>1, <3>2
    <3> HIDE DEF files, Things
    <3> QED
      BY <3>1, <3>3
  <2>3. drafts \in Seq(Things)
    <3>1. Len(sessions[k].drafted) \in Nat /\ DOMAIN sessions[k].drafted = 1..Len(sessions[k].drafted)
      BY <1>3 DEF IsSession
    <3>2. \A i \in 1..Len(sessions[k].drafted) : [kind |-> "confirm", by |-> sessions[k].drafted[i]] \in Things
      BY <1>3 DEF Own, IsSession
    <3>3. drafts \in [1..Len(sessions[k].drafted) -> Things]
      BY <3>1, <3>2
    <3> HIDE DEF drafts, Things
    <3> QED
      BY <3>1, <3>3
  <2>4. Outgoing = (said \o files) \o drafts
    BY DEF Outgoing
  <2> HIDE DEF said, files, drafts, Things
  <2>5. Outgoing \in Seq(Things)
    BY <2>1, <2>2, <2>3, <2>4
  <2>6. \A i \in DOMAIN Outgoing : Outgoing[i] \in Things
    BY <2>5
  <2> QED
    BY <2>6 DEF Things
<1>9. OwnInv'
  BY <1>1, <1>6, <1>8 DEF OwnInv, DeliversOwn, Working
<1> QED
  BY <1>2, <1>6, <1>7, <1>9

LEMMA OverStep ==
    ASSUME TurnInv, OwnInv, Record \/ Raise
    PROVE  TurnInv' /\ OwnInv' /\ Idle' /\ ~Idle
<1> DEFINE k == turn.key
<1>1. /\ turn.stage \in Working \union {"record"} /\ turn' = NoTurn_ /\ UNCHANGED spent
  BY DEF Record, Raise, Working
<1>2. /\ ~Idle /\ k \in Keys /\ IsSession(sessions[k])
  BY <1>1 DEF TurnInv, Working, Idle, Live
<1>3. PICK s : /\ IsSession(s)
               /\ sessions' = sessions \/ sessions' = [sessions EXCEPT ![k] = s]
  <2>1. CASE Record
    <3>1. IsSession(Remembered(sessions[k]))
      <4> DEFINE ring == RememberTurn(sessions[k].ring, 1, turn.reply)
                 s == [sessions[k] EXCEPT !.ring = ring]
      <4>1. Remembered(sessions[k]) \in {s, sessions[k]}
        BY DEF Remembered
      <4> HIDE DEF ring
      <4>2. /\ DOMAIN s = SessionFields /\ s.outbox = sessions[k].outbox
            /\ s.drafted = sessions[k].drafted
        BY <1>2 DEF IsSession, SessionFields
      <4>3. IsSession(s)
        BY <1>2, <4>2 DEF IsSession
      <4> QED
        BY <1>2, <4>1, <4>3
    <3>2. sessions' = [sessions EXCEPT ![k] = Remembered(sessions[k])]
      BY <2>1 DEF Record
    <3> QED
      BY <3>1, <3>2
  <2>2. CASE Raise
    <3>1. sessions' = sessions \/ sessions' = [sessions EXCEPT ![k] = Cleared(sessions[k])]
      BY <2>2 DEF Raise
    <3> QED
      BY <1>2, <3>1, ClearedOwns
  <2> QED
    BY <2>1, <2>2
<1>4. /\ DOMAIN sessions' = Keys
      /\ \A j \in Keys : sessions'[j] # NoSession => IsSession(sessions'[j])
  BY <1>2, <1>3, SessionSet DEF TurnInv, Live
<1>5. turn'.stage = "idle"
  BY <1>1 DEF NoTurn_
<1>6. TurnInv' /\ Idle'
  BY <1>1, <1>4, <1>5 DEF TurnInv, Idle, Live
<1>7. DeliversOwn'
  <2>1. CASE Record
    <3>1. turn.stage = "record" /\ out' = [turn |-> turn.id, events |-> turn.events]
      BY <2>1 DEF Record
    <3> QED
      BY <3>1 DEF OwnInv, DeliversOwn
  <2>2. CASE Raise
    BY <2>2 DEF Raise, OwnInv, DeliversOwn
  <2> QED
    BY <2>1, <2>2
<1> QED
  BY <1>2, <1>5, <1>6, <1>7 DEF OwnInv, Working

\* People and commands, whose sessions are no turn's or keep what they hold.
LEMMA CommandStep ==
    ASSUME TurnInv, OwnInv, NEW k \in Keys, NEW readable \in BOOLEAN,
           \/ \E mode, reloaded : SwitchMode(k, mode, readable, reloaded)
           \/ Clear(k) \/ NoteScheduledPost(k, readable)
           \/ \E h : SeedMemory(k, h, readable)
    PROVE  TurnInv' /\ OwnInv'
<1>0. IsSession(Session(k, readable)) /\ IsSession(Restored(k, readable))
  BY SessionFound
<1>1. spent' \in [Events -> Nat] /\ spent'["turn"] = spent["turn"] /\ UNCHANGED <<turn, out>>
  <2>1. PICK event \in Events \ {"turn"} : Spend(event)
    BY DEF SwitchMode, Clear, NoteScheduledPost, SeedMemory, Events
  <2>2. UNCHANGED <<turn, out>>
    BY DEF SwitchMode, Clear, NoteScheduledPost, SeedMemory, recordVars
  <2> QED
    BY <2>1, <2>2, Spent DEF TurnInv
<1>2. ASSUME NEW s, IsSession(s), NEW t, DOMAIN t = SessionFields, t.outbox = s.outbox,
             t.drafted = s.drafted
      PROVE  IsSession(t)
  BY <1>2 DEF IsSession
<1>3. CASE \E mode, reloaded : SwitchMode(k, mode, readable, reloaded)
  <2> DEFINE s == Session(k, readable)
             t == IF s.mode \in registry'.modes THEN s
                  ELSE [s EXCEPT !.mode = registry'.default]
  <2>1. Idle /\ \/ \E mode : Persist(k, t, mode)
                \/ sessions' = [sessions EXCEPT ![k] = t]
    BY <1>3 DEF SwitchMode
  <2>2. IsSession(t)
    <3> DEFINE u == [s EXCEPT !.mode = registry'.default]
    <3> HIDE DEF s
    <3>1. IsSession(s)
      BY <1>0 DEF s
    <3>2. DOMAIN u = SessionFields /\ u.outbox = s.outbox /\ u.drafted = s.drafted
      BY <3>1 DEF IsSession, SessionFields
    <3> QED
      BY <1>2, <3>1, <3>2
  <2> HIDE DEF s, t
  <2>3. CASE sessions' = [sessions EXCEPT ![k] = t]
    BY <1>1, <2>1, <2>2, <2>3, SessionStep
  <2>4. CASE \E mode : Persist(k, t, mode)
    <3>1. PICK mode, save :
             sessions' = [sessions EXCEPT ![k] =
                            [t EXCEPT !.mode = mode, !.mirror = mode,
                                      !.unsaved = IF save.saved THEN 0 ELSE @]]
      BY <2>4 DEF Persist
    <3> DEFINE unsaved == IF save.saved THEN 0 ELSE t.unsaved
               u == [t EXCEPT !.mode = mode, !.mirror = mode, !.unsaved = unsaved]
    <3>2. sessions' = [sessions EXCEPT ![k] = u]
      BY <3>1
    <3> HIDE DEF unsaved
    <3>3. DOMAIN u = SessionFields /\ u.outbox = t.outbox /\ u.drafted = t.drafted
      BY <2>2 DEF IsSession, SessionFields
    <3>4. IsSession(u)
      BY <1>2, <2>2, <3>3
    <3> HIDE DEF u
    <3> QED
      BY <1>1, <2>1, <3>2, <3>4, SessionStep
  <2> QED
    BY <2>1, <2>3, <2>4
<1>4. CASE Clear(k)
  <2> DEFINE s == sessions[k]
             t == [s EXCEPT !.ring = <<>>]
  <2>1. Idle /\ Live(k) /\ sessions' = [sessions EXCEPT ![k] = t]
    BY <1>4 DEF Clear
  <2>2. IsSession(s)
    BY <2>1 DEF TurnInv
  <2>3. DOMAIN t = SessionFields /\ t.outbox = s.outbox /\ t.drafted = s.drafted
    BY <2>2 DEF IsSession, SessionFields
  <2>4. IsSession(t)
    BY <1>2, <2>2, <2>3
  <2> HIDE DEF t
  <2> QED
    BY <1>1, <2>1, <2>4, SessionStep
<1>5. CASE NoteScheduledPost(k, readable)
  <2> DEFINE s == Session(k, readable)
             ring == RememberAssistant(s.ring, 1)
             t == [s EXCEPT !.ring = ring]
  <2>1. sessions' = [sessions EXCEPT ![k] = t]
    BY <1>5 DEF NoteScheduledPost
  <2>2. IsSession(s)
    BY <1>0
  <2> HIDE DEF s, ring
  <2>3. DOMAIN t = SessionFields /\ t.outbox = s.outbox /\ t.drafted = s.drafted
    BY <2>2 DEF IsSession, SessionFields
  <2>4. IsSession(t)
    BY <1>2, <2>2, <2>3
  <2>5. Live(k) => s = sessions[k]
    BY DEF s, Session
  <2> HIDE DEF t
  <2> QED
    BY <1>1, <2>1, <2>3, <2>4, <2>5, SessionStep
<1>6. CASE \E h : SeedMemory(k, h, readable)
  <2>1. PICK h : SeedMemory(k, h, readable)
    BY <1>6
  <2> DEFINE s == Restored(k, readable)
             ring == Seed(h)
             t == [s EXCEPT !.ring = ring]
  <2>2. ~Live(k) /\ sessions' = [sessions EXCEPT ![k] = t]
    BY <2>1 DEF SeedMemory
  <2>3. IsSession(s)
    BY <1>0
  <2> HIDE DEF s, ring
  <2>4. DOMAIN t = SessionFields /\ t.outbox = s.outbox /\ t.drafted = s.drafted
    BY <2>3 DEF IsSession, SessionFields
  <2>5. IsSession(t)
    BY <1>2, <2>3, <2>4
  <2> HIDE DEF t
  <2> QED
    BY <1>1, <2>2, <2>5, SessionStep
<1> QED
  BY <1>3, <1>4, <1>5, <1>6

\* A process that ends forgets its sessions and its turn.
LEMMA EndStep ==
    ASSUME TurnInv, OwnInv, Crash \/ Shutdown
    PROVE  TurnInv' /\ OwnInv' /\ Idle'
<1>1. spent' \in [Events -> Nat] /\ spent'["turn"] = spent["turn"]
  <2>1. Spend("crash")
    BY DEF Crash, Shutdown
  <2> QED
    BY <2>1, Spent DEF TurnInv, Events
<1>2. sessions' = [k \in Keys |-> NoSession] /\ turn'.stage = "idle" /\ out' = out
  BY DEF Crash, Shutdown, NoTurn_, Idle
<1>3. TurnInv' /\ Idle'
  BY <1>1, <1>2 DEF TurnInv, Idle, Live
<1>4. OwnInv'
  BY <1>2 DEF OwnInv, Working, DeliversOwn
<1> QED
  BY <1>3, <1>4

-----------------------------------------------------------------------------
(* The credit of edits. *)

\* A set of numbers that has a member has a least one.
LEMMA LeastOf ==
    ASSUME NEW S \in SUBSET Nat, NEW n \in S
    PROVE  \E m \in S : \A l \in S : m <= l
<1>1. PICK m \in S : \A l \in S : ~(<<l, m>> \in OpToRel(<, Nat))
  BY WFMin, NatLessThanWellFounded
<1>2. \A p \in Nat \X Nat : p[1] < p[2] => p \in OpToRel(<, Nat)
  BY DEF OpToRel
<1>3. ASSUME NEW l \in S PROVE m <= l
  <2>1. <<l, m>> \in Nat \X Nat /\ (l < m => <<l, m>> \in OpToRel(<, Nat))
    BY <1>2
  <2>2. ~(l < m)
    BY <1>1, <2>1
  <2>3. l \in Nat /\ m \in Nat
    OBVIOUS
  <2> QED
    BY <2>2, <2>3
<1> QED
  BY <1>3

\* Every node of the journal has a first record.
LEMMA LinkedNodes ==
    ASSUME journal \in Seq(Credits)
    PROVE  Linked = {e.node : e \in ToSet(journal)}
<1>1. DOMAIN journal \in SUBSET Nat
  OBVIOUS
<1>2. ASSUME NEW i \in DOMAIN journal
      PROVE  \E r \in Drain : r.node = journal[i].node
  <2> DEFINE S == {j \in DOMAIN journal : journal[j].node = journal[i].node}
  <2>1. S \in SUBSET Nat /\ i \in S
    BY <1>1
  <2>2. PICK m \in S : \A l \in S : m <= l
    BY <2>1, LeastOf
  <2>3. \A h \in 1..(m - 1) : journal[h].node # journal[m].node
    BY <1>1, <2>2
  <2> QED
    BY <2>2, <2>3 DEF Drain
<1>3. Drain \subseteq ToSet(journal)
  BY DEF Drain, ToSet
<1> QED
  BY <1>2, <1>3 DEF Linked, ToSet

LEMMA CreditKept ==
    ASSUME TurnInv, CreditInv, UNCHANGED <<journal, intents, failed>>,
           \/ Idle /\ Idle' /\ spent'["turn"] = spent["turn"]
           \/ ~Idle /\ ~Idle' /\ spent'["turn"] = spent["turn"] /\ turn'.id = turn.id
           \/ Idle /\ ~Idle' /\ spent'["turn"] = spent["turn"] + 1
              /\ turn'.id = spent["turn"] + 1
    PROVE  CreditInv'
<1>1. spent["turn"] \in Nat
  BY DEF TurnInv, Events
<1>2. ASSUME NEW i \in DOMAIN journal PROVE Creditable(journal[i])'
  <2>1. journal[i] \in Credits /\ Creditable(journal[i])
    BY DEF CreditInv
  <2> QED
    BY <1>1, <2>1 DEF Creditable, TurnInv, Credits
<1> QED
  BY <1>1, <1>2 DEF CreditInv, CreditedOnce, TurnInv

\* The running turn puts an edit into the journal.
LEMMA CreditAdded ==
    ASSUME TurnInv, CreditInv, NEW e \in Credits, e.by = turn.id, ~Idle, ~Idle',
           turn'.id = turn.id, journal' = Append(journal, e),
           UNCHANGED <<intents, failed, spent>>
    PROVE  CreditInv'
<1>1. turn.id = spent["turn"] /\ turn.id \in Nat
  BY DEF TurnInv, Events
<1>2. journal \in Seq(Credits) /\ journal' \in Seq(Credits)
  BY DEF CreditInv
<1>3. ASSUME NEW i \in DOMAIN journal' PROVE journal'[i] = e \/ \E j \in DOMAIN journal : journal'[i] = journal[j]
  BY <1>2
<1>4. ASSUME NEW n \in intents PROVE e \notin n.edits
  <2>1. n.turn \in Nat /\ n.turn < turn.id
    BY <1>4 DEF CreditInv
  <2>2. \A d \in n.edits : d.by = n.turn \/ d.by < n.turn
    BY <1>4 DEF CreditInv, CreditedOnce
  <2> QED
    BY <1>1, <2>1, <2>2
<1>5. \A i \in DOMAIN journal : \/ journal[i].by = turn.id
                               \/ /\ journal[i].by \in failed
                                  /\ journal[i].by <= spent["turn"] /\ journal[i].by < turn.id
  BY DEF CreditInv, Creditable
<1>6. ASSUME NEW i \in DOMAIN journal' PROVE Creditable(journal[i])'
  <2>1. \/ journal'[i].by = turn.id
        \/ /\ journal'[i].by \in failed
           /\ journal'[i].by <= spent["turn"] /\ journal'[i].by < turn.id
    BY <1>3, <1>5
  <2> QED
    BY <2>1 DEF Creditable
<1>7. \A n \in intents : /\ n.turn \in Nat /\ n.turn <= spent["turn"] /\ n.turn < turn.id
                         /\ n.edits \subseteq Credits
                         /\ \A i \in DOMAIN journal : journal[i] \notin n.edits
  BY DEF CreditInv
<1>8. \A n \in intents : \A i \in DOMAIN journal' : journal'[i] \notin n.edits
  BY <1>3, <1>4, <1>7
<1>9. CreditedOnce'
  BY DEF CreditInv, CreditedOnce
<1> QED
  BY <1>2, <1>6, <1>7, <1>8, <1>9 DEF CreditInv

\* The turn is over: the journal is empty, or the turn has raised.  What was
\* drained is in no older intent, whose edits are of older turns.
LEMMA CreditOver ==
    ASSUME TurnInv, CreditInv, Idle', spent'["turn"] = spent["turn"], failed \subseteq failed',
           \/ journal' = <<>>
           \/ journal' = journal /\ ~Idle /\ turn.id \in failed',
           \/ intents' = intents
           \/ /\ journal' = <<>> /\ ~Idle
              /\ intents' = intents \union {[turn |-> turn.id, links |-> Linked,
                                             edits |-> ToSet(journal)]}
    PROVE  CreditInv'
<1>1. spent["turn"] \in Nat /\ (~Idle => turn.id = spent["turn"])
  BY DEF TurnInv, Events
<1>2. journal \in Seq(Credits) /\ journal' \in Seq(Credits)
  <2>1. journal \in Seq(Credits) /\ <<>> \in Seq(Credits)
    BY DEF CreditInv
  <2> QED
    BY <2>1
<1>3. \A i \in DOMAIN journal : Creditable(journal[i])
  BY DEF CreditInv
<1>4. \A n \in intents : /\ n.turn \in Nat /\ n.turn <= spent["turn"]
                         /\ ~Idle => n.turn < turn.id
                         /\ n.edits \subseteq Credits
                         /\ \A i \in DOMAIN journal : journal[i] \notin n.edits
  BY Zenon DEF CreditInv
<1>5. \A i, j \in intents :
          /\ i.links = {e.node : e \in i.edits}
          /\ \A e \in i.edits : e.by = i.turn \/ (e.by \in failed /\ e.by < i.turn)
          /\ i # j => i.edits \intersect j.edits = {}
  BY DEF CreditInv, CreditedOnce
<1>6. ASSUME NEW i \in DOMAIN journal' PROVE Creditable(journal[i])'
  <2>1. journal' = journal /\ ~Idle /\ turn.id \in failed' /\ i \in DOMAIN journal
    BY <1>6
  <2>2. journal[i] \in Credits /\ Creditable(journal[i])
    BY <1>2, <1>3, <2>1
  <2>3. journal[i].by \in failed' /\ journal[i].by <= spent["turn"]
    BY <1>1, <2>1, <2>2 DEF Creditable
  <2> QED
    BY <2>1, <2>3 DEF Creditable
<1>7. CASE intents' = intents
  <2>1. \A n \in intents : \A i \in DOMAIN journal' : journal'[i] \notin n.edits
    BY <1>4
  <2>2. CreditedOnce'
    BY <1>5, <1>7 DEF CreditedOnce
  <2> QED
    BY <1>2, <1>4, <1>6, <1>7, <2>1, <2>2 DEF CreditInv
<1>8. CASE /\ journal' = <<>> /\ ~Idle
           /\ intents' = intents \union {[turn |-> turn.id, links |-> Linked,
                                          edits |-> ToSet(journal)]}
  <2> DEFINE new == [turn |-> turn.id, links |-> Linked, edits |-> ToSet(journal)]
  <2>1. new.turn = turn.id /\ new.links = Linked /\ new.edits = ToSet(journal)
    OBVIOUS
  <2>2. intents' = intents \union {new}
    BY <1>8
  <2> HIDE DEF new
  <2>3. Linked = {e.node : e \in ToSet(journal)}
    BY <1>2, LinkedNodes
  <2>4. ASSUME NEW e \in ToSet(journal)
        PROVE  /\ e \in Credits
               /\ e.by = turn.id \/ (e.by \in failed /\ e.by < turn.id)
               /\ \A n \in intents : e \notin n.edits
    <3>1. PICK i \in DOMAIN journal : e = journal[i]
      BY DEF ToSet
    <3>2. Creditable(e) /\ e \in Credits
      BY <1>2, <1>3, <3>1
    <3>3. \A n \in intents : e \notin n.edits
      BY <1>4, <3>1
    <3> QED
      BY <1>8, <3>2, <3>3 DEF Creditable
  <2>5. CreditedOnce'
    <3>1. ASSUME NEW i \in intents', NEW j \in intents'
          PROVE  /\ i.links = {e.node : e \in i.edits}
                 /\ \A e \in i.edits : e.by = i.turn \/ (e.by \in failed' /\ e.by < i.turn)
      BY <1>5, <2>1, <2>2, <2>3, <2>4
    <3>2. ASSUME NEW i \in intents', NEW j \in intents', i # j
          PROVE  i.edits \intersect j.edits = {}
      BY <1>5, <2>1, <2>2, <2>4, <3>2
    <3> QED
      BY <3>1, <3>2 DEF CreditedOnce
  <2>6. \A n \in intents' : n.turn \in Nat /\ n.turn <= spent["turn"] /\ n.edits \subseteq Credits
    <3>1. turn.id \in Nat /\ turn.id <= spent["turn"]
      BY <1>1, <1>8
    <3>2. ToSet(journal) \subseteq Credits
      BY <2>4
    <3> QED
      BY <1>4, <2>1, <2>2, <3>1, <3>2
  <2> QED
    BY <1>2, <1>6, <1>8, <2>5, <2>6 DEF CreditInv
<1> QED
  BY <1>7, <1>8

\* Every step: one action of a turn at a time, and the rest.
LEMMA CreditStep ==
    ASSUME TurnInv, OwnInv, CreditInv, Next
    PROVE  CreditInv'
<1>0. spent["turn"] \in Nat /\ (~Idle => turn.id = spent["turn"])
  BY DEF TurnInv, Events
<1>1. ASSUME NEW k \in Keys, NEW pin \in Modes \union {NoMode}, NEW readable \in BOOLEAN,
             Begin(k, pin, readable)
      PROVE  CreditInv'
  <2>1. Idle /\ UNCHANGED <<journal, intents, failed>>
    BY <1>1 DEF Begin, recordVars
  <2> QED
    BY <1>1, <2>1, BeginStep, CreditKept
<1>2. ASSUME NEW answer \in Answers, Ask(answer) PROVE CreditInv'
  <2>1. UNCHANGED <<journal, intents, failed, spent>>
    BY <1>2 DEF Ask, recordVars
  <2> QED
    BY <1>2, <2>1, AskStep, CreditKept
<1>3. ASSUME NEW node \in Nodes, RunEdit(node) PROVE CreditInv'
  <2> DEFINE e == [node |-> <<"node", node>>, by |-> turn.id]
  <2>1. /\ ~Idle /\ ~Idle' /\ turn'.id = turn.id
    BY <1>3, RunStep
  <2>2. e \in Credits /\ e.by = turn.id
    BY <1>0, <2>1 DEF Credits
  <2>3. journal' = Append(journal, e) /\ UNCHANGED <<intents, failed, spent>>
    BY <1>3 DEF RunEdit, Touch
  <2> HIDE DEF e
  <2> QED
    BY <2>1, <2>2, <2>3, CreditAdded
<1>4. CASE RunFile \/ RunDraft \/ RunUnavailable
  <2>1. UNCHANGED <<journal, intents, failed, spent>>
    BY <1>4 DEF RunFile, RunDraft, RunUnavailable, recordVars
  <2> QED
    BY <1>4, <2>1, RunStep, CreditKept
<1>5. CASE Finish
  <2> DEFINE e == [node |-> <<"capture", turn.id>>, by |-> turn.id]
  <2>1. /\ ~Idle /\ ~Idle' /\ turn'.id = turn.id
    BY <1>5, FinishStep
  <2>2. e \in Credits /\ e.by = turn.id
    BY <1>0, <2>1 DEF Credits
  <2>3. /\ journal' = journal \/ journal' = Append(journal, e)
        /\ UNCHANGED <<intents, failed, spent>>
    BY <1>5 DEF Finish, Touch
  <2> HIDE DEF e
  <2> QED
    BY <2>1, <2>2, <2>3, CreditAdded, CreditKept
<1>6. CASE Record \/ Raise
  <2>1. ~Idle /\ Idle' /\ spent' = spent
    BY <1>6, OverStep DEF Record, Raise
  <2>2. /\ failed \subseteq failed'
        /\ \/ journal' = <<>>
           \/ journal' = journal /\ turn.id \in failed'
        /\ \/ intents' = intents
           \/ /\ journal' = <<>>
              /\ intents' = intents \union {[turn |-> turn.id, links |-> Linked,
                                             edits |-> ToSet(journal)]}
    BY <1>6 DEF Record, Raise, Drained
  <2> QED
    BY <2>1, <2>2, CreditOver
<1>7. CASE Commands
  <2>1. PICK event \in Events \ {"turn"} : Spend(event)
    BY <1>7 DEF Commands, SwitchMode, Clear, NoteScheduledPost, SeedMemory, Events
  <2>2. UNCHANGED <<turn, journal, intents, failed>>
    BY <1>7 DEF Commands, SwitchMode, Clear, NoteScheduledPost, SeedMemory, recordVars
  <2>3. spent'["turn"] = spent["turn"]
    BY <2>1, Spent DEF TurnInv
  <2> QED
    BY <2>2, <2>3, CreditKept DEF Idle
<1>8. CASE People
  <2>1. Spend("edit") /\ UNCHANGED <<turn, journal, intents, failed>>
    BY <1>8 DEF People, EditModes, EditLink, DeleteSession, recordVars
  <2>2. spent'["turn"] = spent["turn"]
    BY <2>1, Spent DEF TurnInv, Events
  <2> QED
    BY <2>1, <2>2, CreditKept DEF Idle
<1>9. CASE Crash \/ Shutdown
  <2>1. Spend("crash") /\ journal' = <<>> /\ intents' = intents /\ failed \subseteq failed'
    BY <1>9 DEF Crash, Shutdown
  <2>2. spent'["turn"] = spent["turn"]
    BY <2>1, Spent DEF TurnInv, Events
  <2> QED
    BY <1>9, <2>1, <2>2, EndStep, CreditOver
<1>10. CASE Start \/ \E reloaded \in BOOLEAN : Tick(reloaded)
  <2>1. UNCHANGED <<turn, spent, journal, intents, failed>>
    BY <1>10 DEF Start, Tick, recordVars
  <2> QED
    BY <2>1, CreditKept DEF Idle
<1> QED
  BY <1>1, <1>2, <1>3, <1>4, <1>5, <1>6, <1>7, <1>8, <1>9, <1>10
     DEF Next, Turns, Process

-----------------------------------------------------------------------------
(* What people are told. *)

\* Only one session changes, and what it promises then is in the snapshot.
LEMMA PromiseOf ==
    ASSUME PromiseInv, TurnInv, NEW k \in Keys, NEW s,
           sessions' = [sessions EXCEPT ![k] = s],
           DOMAIN promised' = Keys, DOMAIN store' = Keys,
           \A j \in Keys \ {k} : store'[j] = store[j] /\ promised'[j] = promised[j],
           promised'[k] # NoMode =>
               store'[k] = promised'[k] /\ s.mode = promised'[k] /\ s.mirror = promised'[k]
    PROVE  PromiseInv'
<1>1. sessions'[k] = s /\ \A j \in Keys \ {k} : sessions'[j] = sessions[j]
  BY DEF TurnInv
<1>2. ASSUME NEW j \in Keys, promised'[j] # NoMode
      PROVE  /\ store'[j] = promised'[j]
             /\ sessions'[j] # NoSession =>
                   sessions'[j].mode = promised'[j] /\ sessions'[j].mirror = promised'[j]
  <2>1. CASE j = k
    BY <1>1, <1>2, <2>1
  <2>2. CASE j # k
    BY <1>1, <1>2, <2>2 DEF PromiseInv, Live
  <2> QED
    BY <2>1, <2>2
<1> QED
  BY <1>2 DEF PromiseInv, Live

\* A saved snapshot is of the mode that was to be saved.
LEMMA SavedMode ==
    ASSUME PromiseInv, NEW k \in Keys, NEW mode, NEW save \in Saves(k, mode), Saved(k, save)
    PROVE  /\ DOMAIN store' = Keys /\ store'[k] \in {store[k], mode}
           /\ save.saved => store'[k] = mode
           /\ \A j \in Keys \ {k} : store'[j] = store[j]
<1>1. save.store \in {store[k], mode} /\ (save.saved => save.store = mode)
  BY DEF Saves
<1>2. store' = [store EXCEPT ![k] = save.store] /\ DOMAIN store = Keys
  BY DEF Saved, PromiseInv
<1> QED
  BY <1>1, <1>2

LEMMA PromiseOfBegin ==
    ASSUME TurnInv, PromiseInv, NEW k \in Keys, NEW pin, NEW readable \in BOOLEAN,
           Begin(k, pin, readable)
    PROVE  PromiseInv'
<1> DEFINE s == Session(k, readable)
           t == Cleared(AfterSpec(s, pin))
           m == StillPromised(k, readable, registry.modes)
<1>1. /\ sessions' = [sessions EXCEPT ![k] = t] /\ promised' = [promised EXCEPT ![k] = m]
      /\ store' = store
  BY DEF Begin
<1>2. IsSession(s) /\ IsSession(AfterSpec(s, pin))
  BY SessionFound, BegunSession
<1>3. ASSUME m # NoMode
      PROVE  store[k] = m /\ t.mode = m /\ t.mirror = m
  <2>1. store[k] = m /\ m \in registry.modes /\ s.mode = m /\ s.mirror = m
    BY <1>3, PromiseFound
  <2>2. AfterSpec(s, pin) = s
    BY <1>2, <2>1, BegunSession
  <2> QED
    BY <1>2, <2>1, <2>2, ClearedOwns
<1> HIDE DEF s, t, m
<1>4. /\ DOMAIN promised' = Keys /\ DOMAIN store' = Keys /\ promised'[k] = m
      /\ \A j \in Keys \ {k} : store'[j] = store[j] /\ promised'[j] = promised[j]
  BY <1>1 DEF PromiseInv
<1> QED
  BY <1>1, <1>3, <1>4, PromiseOf

LEMMA PromiseOfEdit ==
    ASSUME TurnInv, OwnInv, PromiseInv, NEW node, RunEdit(node)
    PROVE  PromiseInv'
<1> DEFINE k == turn.key
           due == sessions[k].unsaved + 1 >= FlushEvery
<1>1. k \in Keys /\ IsSession(sessions[k]) /\ Live(k)
  BY DEF RunEdit, TurnInv, Idle
<1>2. PICK save \in IF due THEN Saves(k, sessions[k].mirror)
                    ELSE {[saved |-> FALSE, store |-> store[k], located |-> located[k]]} :
         /\ Saved(k, save)
         /\ sessions' = [sessions EXCEPT
                           ![k].unsaved = IF save.saved THEN 0
                                          ELSE IF @ < FlushEvery THEN @ + 1 ELSE @]
  BY DEF RunEdit
<1>3. save \in Saves(k, sessions[k].mirror)
  BY <1>2 DEF Saves
<1>4. /\ DOMAIN store' = Keys /\ store'[k] \in {store[k], sessions[k].mirror}
      /\ \A j \in Keys \ {k} : store'[j] = store[j]
  BY <1>1, <1>2, <1>3, SavedMode
<1> DEFINE unsaved == IF save.saved THEN 0
                      ELSE IF sessions[k].unsaved < FlushEvery
                           THEN sessions[k].unsaved + 1 ELSE sessions[k].unsaved
           s == [sessions[k] EXCEPT !.unsaved = unsaved]
<1>5. sessions' = [sessions EXCEPT ![k] = s]
  BY <1>2
<1> HIDE DEF unsaved
<1>6. s.mode = sessions[k].mode /\ s.mirror = sessions[k].mirror
  BY <1>1 DEF IsSession, SessionFields
<1>7. promised' = promised /\ DOMAIN promised = Keys
  BY DEF RunEdit, PromiseInv
<1>8. promised[k] # NoMode =>
          /\ store[k] = promised[k] /\ sessions[k].mode = promised[k]
          /\ sessions[k].mirror = promised[k]
  BY <1>1 DEF PromiseInv
<1> HIDE DEF k, s
<1> QED
  BY <1>1, <1>4, <1>5, <1>6, <1>7, <1>8, PromiseOf

\* A session that keeps its mode keeps its promise.
LEMMA PromiseSame ==
    ASSUME PromiseInv, TurnInv, UNCHANGED <<store, promised>>,
           \/ sessions' = sessions
           \/ \E k \in Keys : \E s :
                /\ Live(k) /\ sessions' = [sessions EXCEPT ![k] = s]
                /\ s.mode = sessions[k].mode /\ s.mirror = sessions[k].mirror
    PROVE  PromiseInv'
<1>1. CASE sessions' = sessions
  BY <1>1 DEF PromiseInv, Live
<1>2. ASSUME NEW k \in Keys, NEW s, Live(k), sessions' = [sessions EXCEPT ![k] = s],
             s.mode = sessions[k].mode, s.mirror = sessions[k].mirror
      PROVE  PromiseInv'
  <2>1. promised[k] # NoMode =>
            /\ store[k] = promised[k] /\ sessions[k].mode = promised[k]
            /\ sessions[k].mirror = promised[k]
    BY <1>2 DEF PromiseInv
  <2>2. DOMAIN promised' = Keys /\ DOMAIN store' = Keys
    BY DEF PromiseInv
  <2> QED
    BY <1>2, <2>1, <2>2, PromiseOf
<1> QED
  BY <1>1, <1>2

LEMMA PromiseOfSwitch ==
    ASSUME TurnInv, PromiseInv, NEW k \in Keys, NEW mode, NEW readable \in BOOLEAN, NEW reloaded,
           SwitchMode(k, mode, readable, reloaded)
    PROVE  PromiseInv'
<1> DEFINE s == Session(k, readable)
           t == IF s.mode \in registry'.modes THEN s
                ELSE [s EXCEPT !.mode = registry'.default]
           m == StillPromised(k, readable, registry'.modes)
<1>1. \/ Persist(k, t, mode)
      \/ /\ sessions' = [sessions EXCEPT ![k] = t] /\ store' = store
         /\ promised' = [promised EXCEPT ![k] = m]
  BY DEF SwitchMode
<1>2. IsSession(s) /\ IsSession(t)
  <2>1. IsSession(s)
    BY SessionFound
  <2> HIDE DEF s
  <2> DEFINE u == [s EXCEPT !.mode = registry'.default]
  <2>2. DOMAIN u = SessionFields /\ u.outbox = s.outbox /\ u.drafted = s.drafted
    BY <2>1 DEF IsSession, SessionFields
  <2> QED
    BY <2>1, <2>2 DEF IsSession
<1>3. m # NoMode => store[k] = m /\ t.mode = m /\ t.mirror = m
  <2>1. m # NoMode =>
          /\ store[k] = m /\ m \in registry'.modes /\ s.mode = m /\ s.mirror = m
    BY PromiseFound
  <2> HIDE DEF s, m
  <2> QED
    BY <2>1
<1> HIDE DEF s, t, m
<1>4. CASE Persist(k, t, mode)
  <2>1. PICK save \in Saves(k, mode) :
           /\ Saved(k, save)
           /\ sessions' = [sessions EXCEPT ![k] =
                [t EXCEPT !.mode = mode, !.mirror = mode,
                          !.unsaved = IF save.saved THEN 0 ELSE @]]
           /\ promised' = [promised EXCEPT ![k] = IF save.saved THEN mode ELSE NoMode]
    BY <1>4 DEF Persist
  <2> DEFINE unsaved == IF save.saved THEN 0 ELSE t.unsaved
             u == [t EXCEPT !.mode = mode, !.mirror = mode, !.unsaved = unsaved]
  <2>2. sessions' = [sessions EXCEPT ![k] = u]
    BY <2>1
  <2> HIDE DEF unsaved
  <2>3. u.mode = mode /\ u.mirror = mode
    BY <1>2 DEF IsSession, SessionFields
  <2>4. /\ DOMAIN store' = Keys /\ (save.saved => store'[k] = mode)
        /\ \A j \in Keys \ {k} : store'[j] = store[j]
    BY <2>1, SavedMode
  <2>5. /\ DOMAIN promised' = Keys /\ promised'[k] = IF save.saved THEN mode ELSE NoMode
        /\ \A j \in Keys \ {k} : promised'[j] = promised[j]
    BY <2>1 DEF PromiseInv
  <2> HIDE DEF u
  <2> QED
    BY <2>2, <2>3, <2>4, <2>5, PromiseOf
<1>5. CASE /\ sessions' = [sessions EXCEPT ![k] = t] /\ store' = store
           /\ promised' = [promised EXCEPT ![k] = m]
  <2>1. /\ DOMAIN promised' = Keys /\ DOMAIN store' = Keys /\ promised'[k] = m
        /\ \A j \in Keys \ {k} : store'[j] = store[j] /\ promised'[j] = promised[j]
    BY <1>5 DEF PromiseInv
  <2> QED
    BY <1>3, <1>5, <2>1, PromiseOf
<1> QED
  BY <1>1, <1>4, <1>5

\* A session whose memory is seeded, or that takes a note, in the mode it is in.
LEMMA PromiseOfSeed ==
    ASSUME TurnInv, PromiseInv, NEW k \in Keys, NEW readable \in BOOLEAN,
           NoteScheduledPost(k, readable) \/ \E h : SeedMemory(k, h, readable)
    PROVE  PromiseInv'
<1> DEFINE s == Session(k, readable)
           m == StillPromised(k, readable, registry.modes)
<1>1. PICK ring : sessions' = [sessions EXCEPT ![k] = [s EXCEPT !.ring = ring]]
  BY DEF NoteScheduledPost, SeedMemory, Session
<1>2. /\ store' = store
      /\ \/ promised' = [promised EXCEPT ![k] = m]
         \/ Live(k) /\ promised' = [promised EXCEPT ![k] = promised[k]]
  <2>1. CASE NoteScheduledPost(k, readable)
    BY <2>1 DEF NoteScheduledPost
  <2>2. CASE \E h : SeedMemory(k, h, readable)
    BY <2>2 DEF SeedMemory
  <2> QED
    BY <2>1, <2>2
<1>3. IsSession(s)
  BY SessionFound
<1>4. m # NoMode => store[k] = m /\ s.mode = m /\ s.mirror = m
  BY PromiseFound
<1>5. Live(k) /\ promised[k] # NoMode =>
         store[k] = promised[k] /\ s.mode = promised[k] /\ s.mirror = promised[k]
  BY DEF PromiseInv, Session
<1> HIDE DEF s, m
<1> DEFINE u == [s EXCEPT !.ring = ring]
<1>6. u.mode = s.mode /\ u.mirror = s.mirror
  BY <1>3 DEF IsSession, SessionFields
<1>7. /\ DOMAIN promised' = Keys /\ DOMAIN store' = Keys
      /\ \/ promised'[k] = m
         \/ Live(k) /\ promised'[k] = promised[k]
      /\ \A j \in Keys \ {k} : store'[j] = store[j] /\ promised'[j] = promised[j]
  BY <1>2 DEF PromiseInv
<1>8. sessions' = [sessions EXCEPT ![k] = u]
  BY <1>1
<1>9. promised'[k] # NoMode =>
          store'[k] = promised'[k] /\ u.mode = promised'[k] /\ u.mirror = promised'[k]
  BY <1>2, <1>4, <1>5, <1>6, <1>7
<1> HIDE DEF u
<1> QED
  BY <1>7, <1>8, <1>9, PromiseOf

LEMMA PromiseOfEnd ==
    ASSUME TurnInv, PromiseInv, Crash \/ Shutdown
    PROVE  PromiseInv'
<1>1. /\ \A k \in Keys : sessions'[k] = NoSession
      /\ promised' = promised
  BY DEF Crash, Shutdown
<1>2. DOMAIN store' = Keys /\ \A k \in Keys : promised[k] # NoMode => store'[k] = promised[k]
  <2>1. CASE Crash
    BY <2>1 DEF Crash, PromiseInv
  <2>2. CASE Shutdown
    <3>1. PICK saves \in [Keys -> BOOLEAN] :
             store' = [k \in Keys |-> IF saves[k] /\ Live(k)
                                         /\ ~(located[k] /\ store[k] = NoMode)
                                      THEN sessions[k].mirror ELSE store[k]]
      BY <2>2 DEF Shutdown
    <3> QED
      BY <3>1 DEF PromiseInv
  <2> QED
    BY <2>1, <2>2
<1> QED
  BY <1>1, <1>2 DEF PromiseInv, Live

LEMMA PromiseStep ==
    ASSUME TurnInv, OwnInv, PromiseInv, Next
    PROVE  PromiseInv'
<1>1. ASSUME NEW k \in Keys, NEW pin, NEW readable \in BOOLEAN, Begin(k, pin, readable)
      PROVE  PromiseInv'
  BY <1>1, PromiseOfBegin
<1>2. ASSUME NEW answer, Ask(answer) PROVE PromiseInv'
  <2>1. UNCHANGED <<store, promised, sessions>>
    BY <1>2 DEF Ask, sessionVars
  <2> QED
    BY <2>1, PromiseSame
<1>3. ASSUME NEW node, RunEdit(node) PROVE PromiseInv'
  BY <1>3, PromiseOfEdit
<1>4. CASE RunFile \/ RunDraft \/ RunUnavailable \/ Finish \/ Record \/ Raise
  <2> DEFINE k == turn.key
  <2>1. k \in Keys /\ Live(k) /\ IsSession(sessions[k])
    BY <1>4 DEF RunFile, RunDraft, RunUnavailable, Finish, Record, Raise, TurnInv, Idle
  <2>2. UNCHANGED <<store, promised>>
    BY <1>4 DEF RunFile, RunDraft, RunUnavailable, Finish, Record, Raise, sessionVars
  <2>3. \/ sessions' = sessions
        \/ \E s : /\ sessions' = [sessions EXCEPT ![k] = s]
                  /\ s.mode = sessions[k].mode /\ s.mirror = sessions[k].mirror
    <3>1. CASE RunFile
      <4> DEFINE ids == Append(sessions[k].outbox, turn.id)
                 s == [sessions[k] EXCEPT !.outbox = ids]
      <4>1. sessions' = [sessions EXCEPT ![k] = s]
        BY <3>1 DEF RunFile
      <4> HIDE DEF ids
      <4>2. s.mode = sessions[k].mode /\ s.mirror = sessions[k].mirror
        BY <2>1 DEF IsSession, SessionFields
      <4> QED
        BY <4>1, <4>2
    <3>2. CASE RunDraft
      <4> DEFINE ids == Append(sessions[k].drafted, turn.id)
                 s == [sessions[k] EXCEPT !.drafted = ids]
      <4>1. sessions' = [sessions EXCEPT ![k] = s]
        BY <3>2 DEF RunDraft
      <4> HIDE DEF ids
      <4>2. s.mode = sessions[k].mode /\ s.mirror = sessions[k].mirror
        BY <2>1 DEF IsSession, SessionFields
      <4> QED
        BY <4>1, <4>2
    <3>3. CASE RunUnavailable
      BY <3>3 DEF RunUnavailable, sessionVars
    <3>4. CASE Finish \/ Raise
      <4>1. sessions' = sessions \/ sessions' = [sessions EXCEPT ![k] = Cleared(sessions[k])]
        BY <3>4 DEF Finish, Raise
      <4> QED
        BY <2>1, <4>1, ClearedOwns
    <3>5. CASE Record
      <4> DEFINE ring == RememberTurn(sessions[k].ring, 1, turn.reply)
                 s == Remembered(sessions[k])
      <4>1. sessions' = [sessions EXCEPT ![k] = s]
        BY <3>5 DEF Record
      <4>2. s \in {sessions[k], [sessions[k] EXCEPT !.ring = ring]}
        BY DEF Remembered
      <4> HIDE DEF ring, s
      <4>3. s.mode = sessions[k].mode /\ s.mirror = sessions[k].mirror
        BY <2>1, <4>2 DEF IsSession, SessionFields
      <4> QED
        BY <4>1, <4>3
    <3> QED
      BY <1>4, <3>1, <3>2, <3>3, <3>4, <3>5
  <2> QED
    BY <2>1, <2>2, <2>3, PromiseSame
<1>5. ASSUME NEW k \in Keys, NEW mode, NEW readable \in BOOLEAN, NEW reloaded,
             SwitchMode(k, mode, readable, reloaded)
      PROVE  PromiseInv'
  BY <1>5, PromiseOfSwitch
<1>6. ASSUME NEW k \in Keys, Clear(k) PROVE PromiseInv'
  <2> DEFINE s == [sessions[k] EXCEPT !.ring = <<>>]
  <2>1. Live(k) /\ UNCHANGED <<store, promised>> /\ sessions' = [sessions EXCEPT ![k] = s]
    BY <1>6 DEF Clear
  <2>2. s.mode = sessions[k].mode /\ s.mirror = sessions[k].mirror
    BY <2>1 DEF TurnInv, IsSession, SessionFields
  <2> HIDE DEF s
  <2> QED
    BY <2>1, <2>2, PromiseSame
<1>7. ASSUME NEW k \in Keys, NEW readable \in BOOLEAN,
             NoteScheduledPost(k, readable) \/ \E h : SeedMemory(k, h, readable)
      PROVE  PromiseInv'
  BY <1>7, PromiseOfSeed
<1>8. ASSUME NEW k \in Keys, DeleteSession(k) PROVE PromiseInv'
  BY <1>8 DEF DeleteSession, PromiseInv, Live
<1>9. CASE \/ \E edit \in Edits : EditModes(edit.modes, edit.sound)
           \/ \E mode \in Modes \union {NoMode} : EditLink(mode)
           \/ Start \/ \E reloaded \in BOOLEAN : Tick(reloaded)
  <2>1. UNCHANGED <<store, promised, sessions>>
    BY <1>9 DEF EditModes, EditLink, Start, Tick, sessionVars
  <2> QED
    BY <2>1, PromiseSame
<1>10. CASE Crash \/ Shutdown
  BY <1>10, PromiseOfEnd
<1> QED
  BY <1>1, <1>2, <1>3, <1>4, <1>5, <1>6, <1>7, <1>8, <1>9, <1>10
     DEF Next, Turns, Commands, People, Process

-----------------------------------------------------------------------------
(* What was loaded, and what was seen. *)

LEMMA StampsOf ==
    ASSUME StampInv
    PROVE  /\ Stamps(space) \in [modes : 0..space.modesRev, link : 0..space.linkRev]
           /\ LoadRegistry(space).at = Stamps(space) /\ Unset # Stamps(space)
           /\ Stamps(space).modes = space.modesRev /\ Stamps(space).link = space.linkRev
           /\ seen.modes <= space.modesRev /\ seen.link <= space.linkRev
<1>1. LoadRegistry(space).at = Stamps(space)
  BY DEF LoadRegistry
<1> QED
  BY <1>1 DEF StampInv, Stamps, Unset

\* A reload reads the space as it is.
LEMMA Reloaded ==
    ASSUME StampInv, NEW reloaded, Reload(reloaded)
    PROVE  /\ registry' \in {registry, LoadRegistry(space)}
           /\ registry' = registry \/ registry'.at = Stamps(space)
           /\ registry'.at \in [modes : Nat, link : Nat]
           /\ reloaded => registry' # registry
           /\ ~reloaded => registry' = registry
<1>1. registry' \in {registry, LoadRegistry(space)}
  BY DEF Reload, Reloads
<1>2. (reloaded => registry' # registry) /\ (~reloaded => registry' = registry)
  BY DEF Reload, Reloads
<1>3. registry' = registry \/ registry'.at = Stamps(space)
  BY <1>1, StampsOf
<1>4. Stamps(space) \in [modes : Nat, link : Nat]
  BY DEF Stamps, StampInv
<1> QED
  BY <1>1, <1>2, <1>3, <1>4 DEF StampInv

LEMMA StampStep ==
    ASSUME StampInv, Next
    PROVE  StampInv'
<1>1. CASE UNCHANGED <<up, space, seen, watch, registry, missed>>
  BY <1>1 DEF StampInv
<1>2. CASE \E k, mode, readable, reloaded : SwitchMode(k, mode, readable, reloaded)
  <2>1. PICK reloaded : Reload(reloaded)
    BY <1>2 DEF SwitchMode
  <2>2. UNCHANGED <<up, space, seen, watch>> /\ missed' = (missed /\ registry' = registry)
    BY <1>2 DEF SwitchMode
  <2>3. /\ registry' = registry \/ registry'.at = Stamps(space)
        /\ registry'.at \in [modes : Nat, link : Nat]
    BY <2>1, Reloaded
  <2>4. up /\ watch # Unset /\ ~missed' =>
            registry'.at.modes >= seen.modes /\ registry'.at.link >= seen.link
    <3>1. CASE registry' = registry
      BY <2>2, <3>1 DEF StampInv
    <3>2. CASE registry'.at = Stamps(space)
      <4>1. /\ registry'.at.modes = space.modesRev /\ registry'.at.link = space.linkRev
            /\ seen.modes <= space.modesRev /\ seen.link <= space.linkRev
        BY <3>2, StampsOf
      <4> QED
        BY <4>1 DEF StampInv
    <3> QED
      BY <2>3, <3>1, <3>2
  <2> QED
    BY <2>2, <2>3, <2>4 DEF StampInv
<1>3. ASSUME NEW reloaded \in BOOLEAN, Tick(reloaded) PROVE StampInv'
  <2>1. /\ UNCHANGED <<up, space>> /\ seen' = Stamps(space) /\ watch' = seen'
        /\ reloaded => watch # Unset /\ watch # seen'
        /\ Reload(reloaded)
    BY <1>3 DEF Tick, ModeFingerprint, Changed
  <2>2. missed' = CASE watch = Unset -> registry.at # seen'
                    [] watch # Unset /\ watch # seen' -> ~reloaded /\ registry.at # seen'
                    [] OTHER -> missed
    BY <1>3 DEF Tick, ModeFingerprint, Changed
  <2>3. /\ registry' = registry \/ registry'.at = Stamps(space)
        /\ registry'.at \in [modes : Nat, link : Nat]
        /\ reloaded => registry' # registry
        /\ ~reloaded => registry' = registry
    BY <2>1, Reloaded
  <2>4. up /\ ~missed' =>
            registry'.at.modes >= seen'.modes /\ registry'.at.link >= seen'.link
    <3>1. CASE registry'.at = seen'
      BY <2>3, <3>1
    <3>2. CASE registry'.at # seen'
      <4>1. registry' = registry /\ ~reloaded /\ registry.at # seen'
        BY <2>1, <2>3, <3>2
      <4>2. CASE watch = Unset
        BY <2>2, <4>1, <4>2
      <4>3. CASE watch # Unset /\ watch # seen'
        BY <2>2, <4>1, <4>3
      <4>4. CASE watch # Unset /\ watch = seen'
        <5>1. missed' = missed /\ seen' = seen
          BY <2>2, <4>4 DEF StampInv
        <5> QED
          BY <4>1, <4>4, <5>1 DEF StampInv
      <4> QED
        BY <4>2, <4>3, <4>4
    <3> QED
      BY <3>1, <3>2
  <2> QED
    BY <2>1, <2>3, <2>4, StampsOf DEF StampInv
<1>4. CASE \/ \E modes, sound : EditModes(modes, sound)
           \/ \E mode : EditLink(mode)
  <2>1. /\ UNCHANGED <<up, seen, watch, registry, missed>>
        /\ DOMAIN space' = {"modes", "sound", "link", "modesRev", "linkRev"}
        /\ \/ space'.modesRev = space.modesRev + 1 /\ space'.linkRev = space.linkRev
           \/ space'.modesRev = space.modesRev /\ space'.linkRev = space.linkRev + 1
    <3>1. CASE \E modes, sound : EditModes(modes, sound)
      BY <3>1 DEF EditModes, StampInv
    <3>2. CASE \E mode : EditLink(mode)
      BY <3>2 DEF EditLink, StampInv
    <3> QED
      BY <1>4, <3>1, <3>2
  <2>2. /\ space'.modesRev \in Nat /\ space'.linkRev \in Nat
        /\ seen \in [modes : 0..space'.modesRev, link : 0..space'.linkRev]
    BY <2>1 DEF StampInv
  <2> QED
    BY <2>1, <2>2 DEF StampInv
<1>5. CASE Start
  <2>1. /\ UNCHANGED space /\ seen' = Stamps(space) /\ watch' = Unset
        /\ registry' = LoadRegistry(space)
    BY <1>5 DEF Start
  <2>2. registry'.at \in [modes : Nat, link : Nat]
    BY <2>1, StampsOf DEF StampInv
  <2> QED
    BY <2>1, <2>2, StampsOf DEF StampInv
<1>6. CASE Crash \/ Shutdown
  <2>1. up' = FALSE /\ UNCHANGED <<space, seen, watch, registry>>
    BY <1>6 DEF Crash, Shutdown, modeVars
  <2> QED
    BY <2>1 DEF StampInv
<1>7. CASE Turns
  <2>1. UNCHANGED <<up, modeVars>>
    BY <1>7 DEF Turns, Begin, Ask, RunEdit, RunFile, RunDraft, RunUnavailable, Finish,
                Record, Raise
  <2> QED
    BY <1>1, <2>1 DEF modeVars
<1>8. CASE \/ \E k : Clear(k) \/ DeleteSession(k)
           \/ \E k, readable : \/ NoteScheduledPost(k, readable)
                               \/ \E h : SeedMemory(k, h, readable)
  <2>1. UNCHANGED <<up, modeVars>>
    BY <1>8 DEF Clear, DeleteSession, NoteScheduledPost, SeedMemory
  <2> QED
    BY <1>1, <2>1 DEF modeVars
<1> QED
  BY <1>2, <1>3, <1>4, <1>5, <1>6, <1>7, <1>8 DEF Next, Commands, People, Process

-----------------------------------------------------------------------------
(* Sequences built one step at a time, and the folds over them. *)

LEMMA Counting ==
    ASSUME NEW S \in SUBSET Nat, 0 \in S, \A n \in S : n + 1 \in S
    PROVE  S = Nat
<1> SUFFICES ASSUME S # Nat PROVE FALSE
  OBVIOUS
<1>1. Nat \ S # {} /\ Nat \ S \subseteq Nat
  OBVIOUS
<1>2. PICK m \in Nat \ S : \A l \in Nat \ S : ~(<<l, m>> \in OpToRel(<, Nat))
  BY <1>1, WFMin, NatLessThanWellFounded
<1>3. m \in Nat /\ m \notin S /\ m # 0
  BY <1>2
<1>4. m - 1 \in Nat /\ m - 1 < m
  BY <1>3
<1>5. <<m - 1, m>> \in OpToRel(<, Nat)
  BY <1>3, <1>4 DEF OpToRel
<1>6. m - 1 \in S
  BY <1>2, <1>4, <1>5
<1>7. (m - 1) + 1 \in S
  BY <1>6
<1>8. (m - 1) + 1 = m
  BY <1>3
<1> QED
  BY <1>3, <1>7, <1>8

LEMMA Growing ==
    ASSUME NEW X, NEW P \in SUBSET Seq(X), <<>> \in P,
           \A s \in P : \A x \in X : Append(s, x) \in P
    PROVE  P = Seq(X)
<1> DEFINE S == {n \in Nat : \A s \in Seq(X) : Len(s) = n => s \in P}
<1>1. 0 \in S
  <2>1. \A s \in Seq(X) : Len(s) = 0 => s = <<>>
    BY EmptySeq
  <2> QED
    BY <2>1
<1>2. ASSUME NEW n \in S PROVE n + 1 \in S
  <2>1. ASSUME NEW s \in Seq(X), Len(s) = n + 1 PROVE s \in P
    <3>1. s # <<>> /\ n \in Nat
      BY <1>2, <2>1, EmptySeq
    <3>2. PICK r \in Seq(X), x \in X : s = Append(r, x)
      BY <3>1, SequenceEmptyOrAppend
    <3>3. Len(r) \in Nat /\ Len(s) = Len(r) + 1
      BY <3>2, AppendProperties, LenProperties
    <3>4. Len(r) = n
      BY <2>1, <3>1, <3>3
    <3>5. r \in P
      BY <1>2, <3>4
    <3> QED
      BY <3>2, <3>5
  <2> QED
    BY <1>2, <2>1
<1>3. S = Nat
  <2> HIDE DEF S
  <2>1. S \in SUBSET Nat
    BY DEF S
  <2> QED
    BY <1>1, <1>2, <2>1, Counting
<1>4. \A s \in Seq(X) : s \in P
  <2>1. \A s \in Seq(X) : Len(s) \in S
    BY <1>3, LenProperties
  <2> QED
    BY <2>1
<1> QED
  BY <1>4

\* The recursive function of FlattenSeq.
IsFlat(f, lists, n) ==
    f = [i \in 1..n |-> IF i = 1 THEN lists[i] ELSE f[i - 1] \o lists[i]]

LEMMA FlatExists ==
    ASSUME NEW lists
    PROVE  \A n \in Nat \ {0} : \E f : IsFlat(f, lists, n)
<1> DEFINE S == {n \in Nat : n # 0 => \E f : IsFlat(f, lists, n)}
<1>1. 0 \in S
  OBVIOUS
<1>2. ASSUME NEW n \in S PROVE n + 1 \in S
  <2>1. CASE n = 0
    <3> DEFINE g == [i \in 1..1 |-> lists[1]]
    <3>1. IsFlat(g, lists, 1)
      BY DEF IsFlat
    <3>2. n + 1 = 1
      BY <2>1
    <3> HIDE DEF g
    <3> QED
      BY <3>1, <3>2
  <2>2. CASE n # 0
    <3>1. n \in Nat /\ n >= 1
      BY <2>2
    <3>2. PICK f : IsFlat(f, lists, n)
      BY <2>2
    <3> DEFINE g == [i \in 1..(n + 1) |-> IF i = n + 1 THEN f[n] \o lists[i] ELSE f[i]]
    <3>3. \A i \in 1..n : f[i] = IF i = 1 THEN lists[i] ELSE f[i - 1] \o lists[i]
      BY <3>2 DEF IsFlat
    <3>4. \A i \in 1..(n + 1) : g[i] = IF i = 1 THEN lists[i] ELSE g[i - 1] \o lists[i]
      <4> SUFFICES ASSUME NEW i \in 1..(n + 1)
                   PROVE  g[i] = IF i = 1 THEN lists[i] ELSE g[i - 1] \o lists[i]
        OBVIOUS
      <4>1. CASE i = 1
        <5>1. 1 \in 1..n /\ 1 # n + 1
          BY <3>1
        <5> QED
          BY <3>3, <4>1, <5>1
      <4>2. CASE i # 1 /\ i = n + 1
        <5>1. n \in 1..(n + 1) /\ n # n + 1 /\ i - 1 = n
          BY <3>1, <4>2
        <5>2. g[i] = f[n] \o lists[i] /\ g[n] = f[n]
          BY <4>2, <5>1
        <5> HIDE DEF g
        <5> QED
          BY <4>2, <5>1, <5>2
      <4>3. CASE i # 1 /\ i # n + 1
        <5>1. i \in 1..n /\ i - 1 \in 1..(n + 1) /\ i - 1 # n + 1
          BY <3>1, <4>3
        <5>2. g[i] = f[i] /\ g[i - 1] = f[i - 1]
          BY <4>3, <5>1
        <5> HIDE DEF g
        <5> QED
          BY <3>3, <4>3, <5>1, <5>2
      <4> QED
        BY <4>1, <4>2, <4>3
    <3>5. g = [i \in 1..(n + 1) |-> g[i]]
      OBVIOUS
    <3> HIDE DEF g
    <3>6. IsFlat(g, lists, n + 1)
      BY <3>4, <3>5 DEF IsFlat
    <3> QED
      BY <3>1, <3>6
  <2> QED
    BY <2>1, <2>2
<1>3. S = Nat
  <2> HIDE DEF S
  <2>1. S \in SUBSET Nat
    BY DEF S
  <2> QED
    BY <1>1, <1>2, <2>1, Counting
<1> QED
  BY <1>3

LEMMA FlatSteps ==
    ASSUME NEW X, NEW lists \in Seq(X), lists # <<>>
    PROVE  \E f : /\ f[1] = lists[1]
                  /\ \A i \in 2..Len(lists) : f[i] = f[i - 1] \o lists[i]
                  /\ FlattenSeq(lists) = f[Len(lists)]
<1>1. Len(lists) \in Nat \ {0}
  BY EmptySeq
<1> DEFINE f == CHOOSE f : IsFlat(f, lists, Len(lists))
<1>2. IsFlat(f, lists, Len(lists))
  BY <1>1, FlatExists
<1>3. FlattenSeq(lists) = f[Len(lists)]
  BY <1>1 DEF FlattenSeq, IsFlat
<1> HIDE DEF f
<1>4. \A i \in 1..Len(lists) : f[i] = IF i = 1 THEN lists[i] ELSE f[i - 1] \o lists[i]
  BY <1>2 DEF IsFlat
<1>5. 1 \in 1..Len(lists) /\ \A i \in 2..Len(lists) : i \in 1..Len(lists) /\ i # 1
  BY <1>1
<1> QED
  BY <1>3, <1>4, <1>5

LEMMA FlatOne ==
    ASSUME NEW X, NEW b \in Seq(X)
    PROVE  FlattenSeq(<<b>>) = b /\ FlattenSeq(<<>>) = <<>>
<1>1. <<b>> \in Seq(Seq(X)) /\ <<b>> # <<>> /\ <<b>>[1] = b /\ Len(<<b>>) = 1
  OBVIOUS
<1>2. FlattenSeq(<<b>>) = b
  BY <1>1, FlatSteps
<1>3. FlattenSeq(<<>>) = <<>>
  BY DEF FlattenSeq
<1> QED
  BY <1>2, <1>3

LEMMA FlatAppend ==
    ASSUME NEW X, NEW lists \in Seq(Seq(X)), NEW b \in Seq(X)
    PROVE  /\ FlattenSeq(Append(lists, b)) = FlattenSeq(lists) \o b
           /\ FlattenSeq(lists) \in Seq(X)
<1> DEFINE n == Len(lists)
           longer == Append(lists, b)
<1>1. CASE lists = <<>>
  <2>1. Append(lists, b) = <<b>> /\ <<>> \o b = b /\ <<>> \in Seq(X)
    BY <1>1
  <2> QED
    BY <1>1, <2>1, FlatOne
<1>2. CASE lists # <<>>
  <2>1. /\ longer \in Seq(Seq(X)) /\ longer # <<>> /\ n \in Nat /\ n >= 1
        /\ Len(longer) = n + 1 /\ longer[n + 1] = b
        /\ \A i \in 1..n : longer[i] = lists[i] /\ lists[i] \in Seq(X)
    <3>1. n \in Nat /\ n # 0
      BY <1>2, EmptySeq, LenProperties
    <3>2. /\ longer \in Seq(Seq(X)) /\ longer # <<>>
          /\ Len(longer) = n + 1 /\ longer[n + 1] = b
          /\ \A i \in 1..n : longer[i] = lists[i]
      BY AppendProperties
    <3>3. \A i \in 1..n : lists[i] \in Seq(X)
      BY ElementOfSeq
    <3> QED
      BY <3>1, <3>2, <3>3
  <2> HIDE DEF longer
  <2>2. PICK f : /\ f[1] = lists[1]
                 /\ \A i \in 2..n : f[i] = f[i - 1] \o lists[i]
                 /\ FlattenSeq(lists) = f[n]
    BY <1>2, FlatSteps
  <2>3. PICK g : /\ g[1] = longer[1]
                 /\ \A i \in 2..(n + 1) : g[i] = g[i - 1] \o longer[i]
                 /\ FlattenSeq(longer) = g[n + 1]
    BY <2>1, FlatSteps
  <2> HIDE DEF n
  <2> DEFINE S == {i \in Nat : i + 1 <= n => f[i + 1] = g[i + 1] /\ f[i + 1] \in Seq(X)}
  <2>4. 0 \in S
    BY <2>1, <2>2, <2>3
  <2>5. ASSUME NEW i \in S PROVE i + 1 \in S
    <3>1. i \in Nat /\ i + 1 \in Nat
      BY <2>5
    <3>2. SUFFICES ASSUME i + 2 <= n
                   PROVE  f[i + 2] = g[i + 2] /\ f[i + 2] \in Seq(X)
      BY <3>1
    <3>3. f[i + 1] = g[i + 1] /\ f[i + 1] \in Seq(X)
      BY <2>1, <2>5, <3>1, <3>2
    <3>4. i + 2 \in 2..n /\ i + 2 \in 2..(n + 1) /\ i + 2 \in 1..n /\ (i + 2) - 1 = i + 1
      BY <2>1, <3>1, <3>2
    <3>5. f[i + 2] = f[i + 1] \o lists[i + 2] /\ g[i + 2] = g[i + 1] \o longer[i + 2]
      BY <2>2, <2>3, <3>4
    <3>6. longer[i + 2] = lists[i + 2] /\ lists[i + 2] \in Seq(X)
      BY <2>1, <3>4
    <3> QED
      BY <3>3, <3>5, <3>6
  <2>6. S = Nat
    <3> HIDE DEF S
    <3>1. S \in SUBSET Nat
      BY DEF S
    <3> QED
      BY <2>4, <2>5, <3>1, Counting
  <2>7. n - 1 \in Nat /\ (n - 1) + 1 = n
    BY <2>1
  <2>8. f[n] = g[n] /\ f[n] \in Seq(X)
    BY <2>6, <2>7
  <2>9. n + 1 \in 2..(n + 1) /\ (n + 1) - 1 = n
    BY <2>1
  <2>10. g[n + 1] = g[n] \o b
    BY <2>1, <2>3, <2>9
  <2> QED
    BY <2>2, <2>3, <2>8, <2>10 DEF longer
<1> QED
  BY <1>1, <1>2

\* A sequence is one longer than another that it begins with.
LEMMA LongerByOne ==
    ASSUME NEW X, NEW u \in Seq(X), NEW v \in Seq(X), Len(v) = Len(u) + 1,
           \A i \in 1..Len(u) : v[i] = u[i]
    PROVE  v = Append(u, v[Len(u) + 1])
<1> DEFINE n == Len(u)
           w == Append(u, v[n + 1])
<1>1. n \in Nat /\ Len(v) = n + 1 /\ DOMAIN v = 1..(n + 1)
  BY LenProperties
<1>2. v[n + 1] \in X
  <2>1. n + 1 \in 1..Len(v)
    BY <1>1
  <2> QED
    BY <2>1, ElementOfSeq
<1>3. /\ w \in Seq(X) /\ Len(w) = n + 1 /\ w[n + 1] = v[n + 1]
      /\ \A i \in 1..n : w[i] = u[i]
  BY <1>2, AppendProperties
<1>4. ASSUME NEW i \in 1..(n + 1) PROVE w[i] = v[i]
  <2>1. i \in 1..n \/ i = n + 1
    BY <1>1
  <2> QED
    BY <1>3, <2>1
<1> HIDE DEF w, n
<1> QED
  BY <1>1, <1>3, <1>4, SeqEqual DEF w, n

\* A list that is made elementwise: one more element makes one more at its end.
LEMMA MapAppend ==
    ASSUME NEW X, NEW Y, NEW s \in Seq(X), NEW x \in X, NEW y \in Y,
           NEW u \in [DOMAIN s -> Y], NEW v \in [DOMAIN Append(s, x) -> Y],
           \A i \in DOMAIN s : Append(s, x)[i] = s[i] => v[i] = u[i],
           Append(s, x)[Len(s) + 1] = x => v[Len(s) + 1] = y
    PROVE  u \in Seq(Y) /\ v = Append(u, y)
<1> DEFINE n == Len(s)
           t == Append(s, x)
<1>1. n \in Nat /\ DOMAIN s = 1..n
  BY LenProperties
<1>2. /\ t \in Seq(X) /\ Len(t) = n + 1 /\ t[n + 1] = x /\ DOMAIN t = 1..(n + 1)
      /\ \A i \in 1..n : t[i] = s[i]
  <2>1. /\ t \in Seq(X) /\ Len(t) = n + 1 /\ t[n + 1] = x
        /\ \A i \in 1..n : t[i] = s[i]
    BY AppendProperties
  <2> HIDE DEF t
  <2> QED
    BY <2>1, LenProperties
<1>3. v[n + 1] = y /\ \A i \in 1..n : v[i] = u[i]
  BY <1>1, <1>2
<1> HIDE DEF n, t
<1>4. u \in [1..n -> Y] /\ v \in [1..(n + 1) -> Y] /\ n + 1 \in Nat
  BY <1>1, <1>2 DEF t
<1>5. u \in Seq(Y) /\ v \in Seq(Y) /\ Len(u) = n /\ Len(v) = n + 1
  BY <1>1, <1>4
<1>6. v = Append(u, v[n + 1])
  BY <1>3, <1>5, LongerByOne
<1> QED
  BY <1>3, <1>5, <1>6

\* The request that is made of a transcript, event by event.
IsRun(f, events, n) ==
    f = [i \in 0..n |-> IF i = 0 THEN Nothing ELSE MapEvent(f[i - 1], events[i])]

LEMMA RunExists ==
    ASSUME NEW events
    PROVE  \A n \in Nat : \E f : IsRun(f, events, n)
<1> DEFINE S == {n \in Nat : \E f : IsRun(f, events, n)}
<1>1. 0 \in S
  <2> DEFINE g == [i \in 0..0 |-> Nothing]
  <2>1. IsRun(g, events, 0)
    BY DEF IsRun
  <2> HIDE DEF g
  <2> QED
    BY <2>1
<1>2. ASSUME NEW n \in S PROVE n + 1 \in S
  <2>1. n \in Nat
    OBVIOUS
  <2>2. PICK f : IsRun(f, events, n)
    OBVIOUS
  <2> DEFINE g == [i \in 0..(n + 1) |->
                      IF i = n + 1 THEN MapEvent(f[n], events[i]) ELSE f[i]]
  <2>3. \A i \in 0..n : f[i] = IF i = 0 THEN Nothing ELSE MapEvent(f[i - 1], events[i])
    BY <2>2 DEF IsRun
  <2>4. \A i \in 0..(n + 1) : g[i] = IF i = 0 THEN Nothing ELSE MapEvent(g[i - 1], events[i])
    <3> SUFFICES ASSUME NEW i \in 0..(n + 1)
                 PROVE  g[i] = IF i = 0 THEN Nothing ELSE MapEvent(g[i - 1], events[i])
      OBVIOUS
    <3>1. CASE i = n + 1
      <4>1. n \in 0..(n + 1) /\ n # n + 1 /\ i - 1 = n /\ i # 0
        BY <2>1, <3>1
      <4>2. g[i] = MapEvent(f[n], events[i]) /\ g[n] = f[n]
        BY <3>1, <4>1
      <4> HIDE DEF g
      <4> QED
        BY <4>1, <4>2
    <3>2. CASE i # n + 1
      <4>1. i \in 0..n
        BY <2>1, <3>2
      <4>2. g[i] = f[i]
        BY <3>2
      <4>3. CASE i = 0
        <5> HIDE DEF g
        <5> QED
          BY <2>3, <4>1, <4>2, <4>3
      <4>4. CASE i # 0
        <5>1. i - 1 \in 0..(n + 1) /\ i - 1 # n + 1
          BY <2>1, <4>1, <4>4
        <5>2. g[i - 1] = f[i - 1]
          BY <5>1
        <5> HIDE DEF g
        <5> QED
          BY <2>3, <4>1, <4>2, <4>4, <5>2
      <4> QED
        BY <4>3, <4>4
    <3> QED
      BY <3>1, <3>2
  <2>5. g = [i \in 0..(n + 1) |-> g[i]]
    OBVIOUS
  <2> HIDE DEF g
  <2>6. IsRun(g, events, n + 1)
    BY <2>4, <2>5 DEF IsRun
  <2> QED
    BY <2>1, <2>6
<1>3. S = Nat
  <2> HIDE DEF S
  <2>1. S \in SUBSET Nat
    BY DEF S
  <2> QED
    BY <1>1, <1>2, <2>1, Counting
<1> QED
  BY <1>3

LEMMA RunSteps ==
    ASSUME NEW X, NEW events \in Seq(X)
    PROVE  \E f : /\ f[0] = Nothing
                  /\ \A i \in 1..Len(events) : f[i] = MapEvent(f[i - 1], events[i])
                  /\ Mapped(events) = f[Len(events)]
<1>1. Len(events) \in Nat
  BY LenProperties
<1> DEFINE f == CHOOSE f : IsRun(f, events, Len(events))
<1>2. IsRun(f, events, Len(events))
  BY <1>1, RunExists
<1>3. Mapped(events) = f[Len(events)]
  BY DEF Mapped, IsRun
<1> HIDE DEF f
<1>4. \A i \in 0..Len(events) :
         f[i] = IF i = 0 THEN Nothing ELSE MapEvent(f[i - 1], events[i])
  BY <1>2 DEF IsRun
<1>5. 0 \in 0..Len(events) /\ \A i \in 1..Len(events) : i \in 0..Len(events) /\ i # 0
  BY <1>1
<1> QED
  BY <1>3, <1>4, <1>5

LEMMA MappedNothing == Mapped(<<>>) = Nothing
<1>1. <<>> \in Seq({}) /\ Len(<<>>) = 0
  OBVIOUS
<1> QED
  BY <1>1, RunSteps

LEMMA MappedAppend ==
    ASSUME NEW X, NEW events \in Seq(X), NEW e \in X
    PROVE  Mapped(Append(events, e)) = MapEvent(Mapped(events), e)
<1> DEFINE n == Len(events)
           longer == Append(events, e)
<1>1. /\ longer \in Seq(X) /\ n \in Nat /\ Len(longer) = n + 1 /\ longer[n + 1] = e
      /\ \A i \in 1..n : longer[i] = events[i]
  BY AppendProperties, LenProperties
<1> HIDE DEF longer
<1>2. PICK f : /\ f[0] = Nothing
               /\ \A i \in 1..n : f[i] = MapEvent(f[i - 1], events[i])
               /\ Mapped(events) = f[n]
  BY RunSteps
<1>3. PICK g : /\ g[0] = Nothing
               /\ \A i \in 1..(n + 1) : g[i] = MapEvent(g[i - 1], longer[i])
               /\ Mapped(longer) = g[n + 1]
  BY <1>1, RunSteps
<1> HIDE DEF n
<1> DEFINE S == {i \in Nat : i <= n => f[i] = g[i]}
<1>4. 0 \in S
  BY <1>2, <1>3
<1>5. ASSUME NEW i \in S PROVE i + 1 \in S
  <2>1. i \in Nat /\ i + 1 \in Nat /\ (i + 1) - 1 = i
    OBVIOUS
  <2>2. SUFFICES ASSUME i + 1 <= n PROVE f[i + 1] = g[i + 1]
    BY <2>1
  <2>3. f[i] = g[i] /\ i + 1 \in 1..n /\ i + 1 \in 1..(n + 1)
    BY <1>1, <1>5, <2>1, <2>2
  <2> QED
    BY <1>1, <1>2, <1>3, <2>1, <2>3
<1>6. S = Nat
  <2> HIDE DEF S
  <2>1. S \in SUBSET Nat
    BY DEF S
  <2> QED
    BY <1>4, <1>5, <2>1, Counting
<1>7. f[n] = g[n]
  BY <1>1, <1>6
<1>8. n + 1 \in 1..(n + 1) /\ (n + 1) - 1 = n
  BY <1>1
<1> QED
  BY <1>1, <1>2, <1>3, <1>7, <1>8 DEF longer

\* The sum of a list of numbers.
IsSum(f, seq, n) == f = [i \in 0..n |-> IF i = 0 THEN 0 ELSE f[i - 1] + seq[i]]

LEMMA SumExists ==
    ASSUME NEW seq
    PROVE  \A n \in Nat : \E f : IsSum(f, seq, n)
<1> DEFINE S == {n \in Nat : \E f : IsSum(f, seq, n)}
<1>1. 0 \in S
  <2> DEFINE g == [i \in 0..0 |-> 0]
  <2>1. IsSum(g, seq, 0)
    BY DEF IsSum
  <2> HIDE DEF g
  <2> QED
    BY <2>1
<1>2. ASSUME NEW n \in S PROVE n + 1 \in S
  <2>1. n \in Nat
    OBVIOUS
  <2>2. PICK f : IsSum(f, seq, n)
    OBVIOUS
  <2> DEFINE g == [i \in 0..(n + 1) |-> IF i = n + 1 THEN f[n] + seq[i] ELSE f[i]]
  <2>3. \A i \in 0..n : f[i] = IF i = 0 THEN 0 ELSE f[i - 1] + seq[i]
    BY <2>2 DEF IsSum
  <2>4. \A i \in 0..(n + 1) : g[i] = IF i = 0 THEN 0 ELSE g[i - 1] + seq[i]
    <3> SUFFICES ASSUME NEW i \in 0..(n + 1)
                 PROVE  g[i] = IF i = 0 THEN 0 ELSE g[i - 1] + seq[i]
      OBVIOUS
    <3>1. CASE i = n + 1
      <4>1. n \in 0..(n + 1) /\ n # n + 1 /\ i - 1 = n /\ i # 0
        BY <2>1, <3>1
      <4>2. g[i] = f[n] + seq[i] /\ g[n] = f[n]
        BY <3>1, <4>1
      <4> HIDE DEF g
      <4> QED
        BY <4>1, <4>2
    <3>2. CASE i # n + 1
      <4>1. i \in 0..n
        BY <2>1, <3>2
      <4>2. g[i] = f[i]
        BY <3>2
      <4>3. CASE i = 0
        <5> HIDE DEF g
        <5> QED
          BY <2>3, <4>1, <4>2, <4>3
      <4>4. CASE i # 0
        <5>1. i - 1 \in 0..(n + 1) /\ i - 1 # n + 1
          BY <2>1, <4>1, <4>4
        <5>2. g[i - 1] = f[i - 1]
          BY <5>1
        <5> HIDE DEF g
        <5> QED
          BY <2>3, <4>1, <4>2, <4>4, <5>2
      <4> QED
        BY <4>3, <4>4
    <3> QED
      BY <3>1, <3>2
  <2>5. g = [i \in 0..(n + 1) |-> g[i]]
    OBVIOUS
  <2> HIDE DEF g
  <2>6. IsSum(g, seq, n + 1)
    BY <2>4, <2>5 DEF IsSum
  <2> QED
    BY <2>1, <2>6
<1>3. S = Nat
  <2> HIDE DEF S
  <2>1. S \in SUBSET Nat
    BY DEF S
  <2> QED
    BY <1>1, <1>2, <2>1, Counting
<1> QED
  BY <1>3

LEMMA TotalIsNat ==
    ASSUME NEW seq \in Seq(Nat)
    PROVE  Total(seq) \in Nat /\ (seq = <<>> => Total(seq) = 0)
<1> DEFINE n == Len(seq)
           f == CHOOSE f : IsSum(f, seq, n)
<1>1. n \in Nat /\ \A i \in 1..n : seq[i] \in Nat
  BY LenProperties, ElementOfSeq
<1>2. IsSum(f, seq, n)
  BY <1>1, SumExists
<1>3. Total(seq) = f[n]
  BY DEF Total, IsSum
<1> HIDE DEF f, n
<1>4. \A i \in 0..n : f[i] = IF i = 0 THEN 0 ELSE f[i - 1] + seq[i]
  BY <1>2 DEF IsSum
<1> DEFINE S == {i \in Nat : i <= n => f[i] \in Nat}
<1>5. f[0] = 0
  BY <1>1, <1>4
<1>6. 0 \in S
  BY <1>5
<1>7. ASSUME NEW i \in S PROVE i + 1 \in S
  <2>1. i \in Nat /\ i + 1 \in Nat /\ (i + 1) - 1 = i /\ i + 1 # 0
    OBVIOUS
  <2>2. SUFFICES ASSUME i + 1 <= n PROVE f[i + 1] \in Nat
    BY <2>1
  <2>3. f[i] \in Nat /\ i + 1 \in 0..n /\ i + 1 \in 1..n
    BY <1>1, <1>7, <2>1, <2>2
  <2>4. f[i + 1] = f[i] + seq[i + 1] /\ seq[i + 1] \in Nat
    <3> HIDE DEF S
    <3> QED
      BY <1>1, <1>4, <2>1, <2>3
  <2> QED
    BY <2>3, <2>4
<1>8. S = Nat
  <2> HIDE DEF S
  <2>1. S \in SUBSET Nat
    BY DEF S
  <2> QED
    BY <1>6, <1>7, <2>1, Counting
<1>9. f[n] \in Nat
  BY <1>1, <1>8
<1>10. seq = <<>> => n = 0
  BY EmptySeq DEF n
<1> QED
  BY <1>3, <1>5, <1>9, <1>10

-----------------------------------------------------------------------------
(* What the API driver asks. *)

Ids == ({<<"toolu_gc">>} \union CallIds \union SearchIds) \X Nat \X Nat
Calls == [id : Ids, does : Tools]
Searched == [id : Ids, got : BOOLEAN]
TurnEvents ==
    [kind : {"user", "assistant", "tool"}, text : Nat, calls : Seq(Calls),
     searches : Seq(Searched), thinking : BOOLEAN, use : Ids \union {None}]
Blocks ==
    [b : {"text", "tool_use", "tool_result", "server_tool_use", "server_tool_result"},
     id : Ids \union {None}]
Messages == [role : {"user", "assistant"}, content : Seq(Blocks)]
Requests == [messages : Seq(Messages), known : SUBSET Ids, gathers : BOOLEAN]

\* A search is followed by its result.
Paired(content) ==
    \A j \in DOMAIN content : content[j].b = "server_tool_use" =>
        /\ j < Len(content)
        /\ content[j + 1] = Block("server_tool_result", content[j].id)
Whole(message) == message.content # <<>> /\ Paired(message.content)

\* A request in the making is acceptable but for the calls that still wait for
\* their results: those of the last message, or of the one before a last that
\* gathers results.
Sound(req, waiting) ==
    LET ms == req.messages
        n == Len(ms)
    IN  /\ req \in Requests /\ waiting \subseteq req.known
        /\ ms = <<>> => waiting = {} /\ ~req.gathers
        /\ ms # <<>> =>
              /\ ms[1].role = "user" /\ IdsOf(ms[1], "tool_result") = {}
              /\ IdsOf(ms[n], "tool_use") = IF req.gathers THEN {} ELSE waiting
              /\ req.gathers => n > 1 /\ ms[n].role = "user"
        /\ \A i \in 1..n : Whole(ms[i])
        /\ \A i \in 1..(n - 1) :
              IdsOf(ms[i], "tool_use") = IdsOf(ms[i + 1], "tool_result")
                    \union (IF req.gathers /\ i = n - 1 THEN waiting ELSE {})

LEMMA BlocksTyped ==
    /\ TextBlock \in Blocks
    /\ \A id \in Ids : /\ Block("tool_result", id) \in Blocks /\ Block("tool_use", id) \in Blocks
                       /\ Block("server_tool_use", id) \in Blocks
                       /\ Block("server_tool_result", id) \in Blocks
BY DEF TextBlock, Block, Blocks

\* One more message, which answers what the last one left to answer.
LEMMA MessageAdded ==
    ASSUME NEW req, NEW waiting, Sound(req, waiting), req.gathers => waiting = {},
           NEW m \in Messages, Whole(m), NEW next \in Requests, NEW left,
           next.messages = Append(req.messages, m), left \subseteq next.known,
           req.messages = <<>> => m.role = "user" /\ IdsOf(m, "tool_result") = {} /\ ~next.gathers,
           req.messages # <<>> =>
               waiting = IdsOf(m, "tool_result") \union (IF next.gathers THEN left ELSE {}),
           IdsOf(m, "tool_use") = IF next.gathers THEN {} ELSE left,
           next.gathers => m.role = "user"
    PROVE  Sound(next, left)
<1> DEFINE ms == req.messages
           n == Len(ms)
           new == next.messages
<1>1. ms \in Seq(Messages) /\ n \in Nat
  BY LenProperties DEF Sound, Requests
<1>2. /\ new \in Seq(Messages) /\ new # <<>> /\ Len(new) = n + 1 /\ new[n + 1] = m
      /\ \A i \in 1..n : new[i] = ms[i]
  BY <1>1, AppendProperties
<1>3. ms = <<>> => n = 0
  OBVIOUS
<1>4. ms # <<>> => n > 0
  BY <1>1, EmptySeq
<1>5. \A i \in 1..n : Whole(ms[i])
  BY DEF Sound
<1>6. \A i \in 1..(n - 1) : IdsOf(ms[i], "tool_use") = IdsOf(ms[i + 1], "tool_result")
  BY DEF Sound
<1>7. ms # <<>> => /\ ms[1].role = "user" /\ IdsOf(ms[1], "tool_result") = {}
                   /\ IdsOf(ms[n], "tool_use") = waiting
  BY DEF Sound
<1> HIDE DEF ms, n, new
<1>8. \A i \in 1..(n + 1) : Whole(new[i])
  <2>1. \A i \in 1..(n + 1) : i \in 1..n \/ i = n + 1
    BY <1>1
  <2> QED
    BY <1>2, <1>5, <2>1
<1>9. new[1].role = "user" /\ IdsOf(new[1], "tool_result") = {} /\ (next.gathers => n + 1 > 1)
  <2>1. CASE ms = <<>>
    BY <1>2, <1>3, <2>1 DEF ms
  <2>2. CASE ms # <<>>
    <3>1. 1 \in 1..n /\ n + 1 > 1
      BY <1>1, <1>4, <2>2
    <3> QED
      BY <1>2, <1>7, <2>2, <3>1
  <2> QED
    BY <2>1, <2>2
<1>10. ASSUME NEW i \in 1..n
       PROVE  IdsOf(new[i], "tool_use") = IdsOf(new[i + 1], "tool_result")
                  \union (IF next.gathers /\ i = n THEN left ELSE {})
  <2>1. ms # <<>> /\ n >= 1
    BY <1>1, <1>3
  <2>2. CASE i = n
    <3>1. IdsOf(new[i], "tool_use") = waiting /\ new[i + 1] = m
      BY <1>2, <1>7, <2>1, <2>2
    <3> QED
      BY <2>1, <2>2, <3>1 DEF ms
  <2>3. CASE i # n
    <3>1. i \in 1..(n - 1) /\ i + 1 \in 1..n
      BY <1>1, <2>3
    <3>2. new[i] = ms[i] /\ new[i + 1] = ms[i + 1]
      BY <1>2, <3>1
    <3> QED
      BY <1>6, <2>3, <3>1, <3>2
  <2> QED
    BY <2>2, <2>3
<1>11. (n + 1) - 1 = n /\ Len(new) = n + 1 /\ new[Len(new)] = m
  BY <1>1, <1>2
<1>12. \A i \in 1..(Len(new) - 1) :
          IdsOf(new[i], "tool_use") = IdsOf(new[i + 1], "tool_result")
              \union (IF next.gathers /\ i = Len(new) - 1 THEN left ELSE {})
  BY <1>10, <1>11
<1> QED
  BY <1>2, <1>8, <1>9, <1>11, <1>12 DEF Sound, new

\* One more result of the calls that wait, in the message that gathers them.
LEMMA ResultGathered ==
    ASSUME NEW req, NEW waiting, Sound(req, waiting), req.gathers, NEW id \in waiting,
           NEW next \in Requests, next.known = req.known, next.gathers,
           Len(next.messages) = Len(req.messages),
           \A i \in 1..(Len(req.messages) - 1) : next.messages[i] = req.messages[i],
           NEW old, old = req.messages[Len(req.messages)],
           NEW m, m = next.messages[Len(req.messages)],
           m.role = old.role, m.content = Append(old.content, Block("tool_result", id))
    PROVE  Sound(next, waiting \ {id})
<1> DEFINE ms == req.messages
           n == Len(ms)
           new == next.messages
           block == Block("tool_result", id)
<1>1. /\ ms \in Seq(Messages) /\ n \in Nat /\ DOMAIN ms = 1..n /\ waiting \subseteq Ids
  BY LenProperties DEF Sound, Requests
<1>2. ms # <<>> /\ n > 1 /\ ms[n].role = "user"
  BY DEF Sound
<1>3. old \in Messages /\ block \in Blocks /\ m \in Messages /\ n \in 1..n
  <2>1. n \in 1..n
    BY <1>1, <1>2
  <2>2. id \in Ids
    BY <1>1
  <2>3. old \in Messages
    <3> HIDE DEF ms, n
    <3>1. ms[n] \in Messages
      BY <1>1, <2>1, ElementOfSeq
    <3> QED
      BY <3>1 DEF ms, n
  <2>4. block \in Blocks
    BY <2>2, BlocksTyped
  <2>5. new \in Seq(Messages) /\ Len(new) = n
    BY DEF Requests
  <2>6. m \in Messages
    <3> HIDE DEF new, n
    <3>1. new[n] \in Messages
      BY <2>1, <2>5, ElementOfSeq
    <3> QED
      BY <3>1 DEF new, n
  <2> QED
    BY <2>1, <2>3, <2>4, <2>6
<1> DEFINE text == old.content
           content == m.content
<1>4. text \in Seq(Blocks) /\ content = Append(text, block)
  BY <1>3 DEF Messages
<1> HIDE DEF block, content, text
<1>5. /\ content \in Seq(Blocks) /\ content # <<>> /\ Len(content) = Len(text) + 1
      /\ content[Len(text) + 1] = block /\ \A j \in 1..Len(text) : content[j] = text[j]
      /\ Len(text) \in Nat /\ DOMAIN text = 1..Len(text) /\ DOMAIN content = 1..(Len(text) + 1)
  <2>1. /\ content \in Seq(Blocks) /\ content # <<>> /\ Len(content) = Len(text) + 1
        /\ content[Len(text) + 1] = block /\ \A j \in 1..Len(text) : content[j] = text[j]
    BY <1>3, <1>4, AppendProperties
  <2> QED
    BY <1>4, <2>1, LenProperties
<1>6. m.role = "user" /\ m.content = content
  BY <1>2 DEF content
<1>7. new[n] = m /\ ms[n] = old /\ ms[n].content = text
  BY DEF text
<1>8. Len(new) = n /\ \A i \in 1..(n - 1) : new[i] = ms[i]
  OBVIOUS
<1>9. block.b = "tool_result" /\ block.id = id
  BY DEF Block, block
<1>10. Whole(m)
  <2>1. Paired(text)
    BY <1>1, <1>2 DEF Sound, Whole, text
  <2>2. ASSUME NEW j \in DOMAIN content, content[j].b = "server_tool_use"
        PROVE  /\ j < Len(content)
               /\ content[j + 1] = Block("server_tool_result", content[j].id)
    <3>1. j # Len(text) + 1
      BY <1>5, <1>9, <2>2
    <3>2. j \in 1..Len(text)
      BY <1>5, <3>1
    <3>3. content[j] = text[j]
      BY <1>5, <3>2
    <3>4. j < Len(text) /\ text[j + 1] = Block("server_tool_result", text[j].id)
      BY <1>5, <2>1, <2>2, <3>2, <3>3 DEF Paired
    <3>5. j + 1 \in 1..Len(text)
      BY <1>5, <3>2, <3>4
    <3> QED
      BY <1>5, <3>3, <3>4, <3>5
  <2> QED
    BY <1>5, <1>6, <2>2 DEF Whole, Paired
<1>11. IdsOf(m, "tool_use") = {}
  <2>1. IdsOf(ms[n], "tool_use") = {}
    BY <1>2 DEF Sound
  <2>2. ASSUME NEW j \in DOMAIN text PROVE text[j].b # "tool_use"
    <3>1. text[j] \in ToSet(ms[n].content)
      BY DEF ToSet, text
    <3> QED
      BY <2>1, <3>1 DEF IdsOf
  <2>3. \A j \in DOMAIN content : content[j].b # "tool_use"
    <3>1. \A j \in DOMAIN content : j \in 1..Len(text) \/ j = Len(text) + 1
      BY <1>5
    <3> QED
      BY <1>5, <1>9, <2>2, <3>1
  <2> QED
    BY <1>6, <2>3 DEF IdsOf, ToSet
<1>12. IdsOf(m, "tool_result") = IdsOf(ms[n], "tool_result") \union {id}
  <2>1. ToSet(content) = ToSet(text) \union {block}
    <3>1. \A j \in DOMAIN content : j \in 1..Len(text) \/ j = Len(text) + 1
      BY <1>5
    <3>2. Len(text) + 1 \in DOMAIN content /\ \A j \in DOMAIN text : j \in DOMAIN content
      BY <1>5
    <3> QED
      BY <1>5, <3>1, <3>2 DEF ToSet
  <2> QED
    BY <1>6, <1>9, <2>1 DEF IdsOf, text
<1> HIDE DEF ms, n, new
<1>13. n - 1 \in 1..(n - 1) /\ (n - 1) + 1 = n /\ 1 \in 1..(n - 1)
  BY <1>1, <1>2
<1>14. /\ ms[1].role = "user" /\ IdsOf(ms[1], "tool_result") = {}
       /\ \A i \in 1..n : Whole(ms[i])
       /\ \A i \in 1..(n - 1) :
              IdsOf(ms[i], "tool_use") = IdsOf(ms[i + 1], "tool_result")
                    \union (IF i = n - 1 THEN waiting ELSE {})
  BY <1>2 DEF Sound, ms, n
<1>15. \A i \in 1..n : Whole(new[i])
  <2>1. \A i \in 1..n : i \in 1..(n - 1) \/ i = n
    BY <1>1
  <2> QED
    BY <1>7, <1>8, <1>10, <1>14, <2>1
<1>16. ASSUME NEW i \in 1..(n - 1)
       PROVE  IdsOf(new[i], "tool_use") = IdsOf(new[i + 1], "tool_result")
                  \union (IF i = n - 1 THEN waiting \ {id} ELSE {})
  <2>1. new[i] = ms[i]
    BY <1>8
  <2>2. CASE i = n - 1
    <3>1. new[i + 1] = m /\ ms[i + 1] = ms[n]
      BY <1>7, <1>8, <1>13, <2>2
    <3>2. IdsOf(ms[i], "tool_use") = IdsOf(ms[n], "tool_result") \union waiting
      BY <1>14, <2>2, <3>1
    <3> QED
      BY <1>12, <2>1, <2>2, <3>1, <3>2
  <2>3. CASE i # n - 1
    <3>1. i + 1 \in 1..(n - 1)
      BY <1>1, <2>3
    <3> QED
      BY <1>8, <1>14, <2>1, <2>3, <3>1
  <2> QED
    BY <2>2, <2>3
<1>17. new # <<>> /\ new[1] = ms[1]
  BY <1>2, <1>8, <1>13
<1>18. waiting \ {id} \subseteq next.known
  BY DEF Sound
<1>19. Sound(next, waiting \ {id})
  BY <1>2, <1>6, <1>8, <1>11, <1>14, <1>15, <1>16, <1>17, <1>18 DEF Sound, new
<1> QED
  BY <1>19

\* What an event that spoke says: its blocks are of these kinds.
SearchPair ==
    [x \in Searched |-> IF x.got THEN <<Block("server_tool_use", x.id),
                                        Block("server_tool_result", x.id)>> ELSE <<>>]
SearchBlocks == [b : {"server_tool_use", "server_tool_result"}, id : Ids]
UseBlocks == [b : {"tool_use"}, id : Ids]

LEMMA PairedConcat ==
    ASSUME NEW p \in Seq(Blocks), NEW q \in Seq(Blocks), Paired(p), Paired(q)
    PROVE  Paired(p \o q)
<1> DEFINE r == p \o q
           m == Len(p)
           n == Len(q)
<1>1. /\ m \in Nat /\ n \in Nat /\ DOMAIN p = 1..m /\ DOMAIN q = 1..n /\ DOMAIN r = 1..(m + n)
      /\ Len(r) = m + n
      /\ \A i \in 1..(m + n) : r[i] = IF i <= m THEN p[i] ELSE q[i - m]
  <2>1. /\ r \in Seq(Blocks) /\ Len(r) = m + n
        /\ \A i \in 1..(m + n) : r[i] = IF i <= m THEN p[i] ELSE q[i - m]
    BY ConcatProperties
  <2> HIDE DEF r
  <2> QED
    BY <2>1, LenProperties
<1> HIDE DEF r, m, n
<1>2. ASSUME NEW j \in 1..(m + n), r[j].b = "server_tool_use"
      PROVE  j < m + n /\ r[j + 1] = Block("server_tool_result", r[j].id)
  <2>1. CASE j <= m
    <3>1. j \in DOMAIN p /\ r[j] = p[j]
      BY <1>1, <2>1
    <3>2. j < m /\ p[j + 1] = Block("server_tool_result", p[j].id)
      BY <1>2, <3>1 DEF Paired, m
    <3>3. j + 1 \in 1..(m + n) /\ j + 1 <= m
      BY <1>1, <3>2
    <3> QED
      BY <1>1, <3>1, <3>2, <3>3
  <2>2. CASE ~(j <= m)
    <3>1. j - m \in DOMAIN q /\ r[j] = q[j - m]
      BY <1>1, <2>2
    <3>2. j - m < n /\ q[(j - m) + 1] = Block("server_tool_result", q[j - m].id)
      BY <1>2, <3>1 DEF Paired, n
    <3>3. j + 1 \in 1..(m + n) /\ ~(j + 1 <= m) /\ (j + 1) - m = (j - m) + 1
      BY <1>1, <2>2, <3>2
    <3> QED
      BY <1>1, <3>1, <3>2, <3>3
  <2> QED
    BY <2>1, <2>2
<1> QED
  BY <1>1, <1>2 DEF Paired, r

LEMMA SearchPairs ==
    /\ SearchPair \in [Searched -> Seq(SearchBlocks)]
    /\ \A x \in Searched : Paired(SearchPair[x])
<1> SUFFICES ASSUME NEW x \in Searched
             PROVE  SearchPair[x] \in Seq(SearchBlocks) /\ Paired(SearchPair[x])
  BY DEF SearchPair
<1>1. CASE ~x.got
  <2>1. SearchPair[x] = <<>>
    BY <1>1 DEF SearchPair
  <2> QED
    BY <2>1 DEF Paired
<1>2. CASE x.got
  <2> DEFINE u == Block("server_tool_use", x.id)
             v == Block("server_tool_result", x.id)
  <2>1. SearchPair[x] = <<u, v>>
    BY <1>2 DEF SearchPair
  <2>2. /\ u \in SearchBlocks /\ v \in SearchBlocks /\ u.b = "server_tool_use" /\ u.id = x.id
        /\ v.b # "server_tool_use"
    BY DEF Block, SearchBlocks, Searched
  <2>3. <<u, v>> \in Seq(SearchBlocks) /\ Len(<<u, v>>) = 2 /\ DOMAIN <<u, v>> = 1..2
        /\ <<u, v>>[1] = u /\ <<u, v>>[2] = v
    <3> HIDE DEF u, v
    <3> QED
      BY <2>2
  <2>4. Paired(<<u, v>>)
    <3>1. \A j \in 1..2 : j = 1 \/ j = 2
      OBVIOUS
    <3>2. v = Block("server_tool_result", u.id)
      BY <2>2
    <3> HIDE DEF u, v
    <3> QED
      BY <2>2, <2>3, <3>1, <3>2 DEF Paired
  <2> QED
    BY <2>1, <2>3, <2>4
<1> QED
  BY <1>1, <1>2

LEMMA BlockSets ==
    /\ SearchBlocks \subseteq Blocks /\ UseBlocks \subseteq Blocks /\ TextBlock \in Blocks
    /\ \A X \in {SearchBlocks, UseBlocks} : Seq(X) \subseteq Seq(Blocks)
<1>1. SearchBlocks \subseteq Blocks /\ UseBlocks \subseteq Blocks
  BY DEF SearchBlocks, UseBlocks, Blocks
<1> QED
  BY <1>1, BlocksTyped, SeqMonotonic

LEMMA SearchesPaired ==
    ASSUME NEW s \in Seq(Searched)
    PROVE  LET lists == [i \in DOMAIN s |-> SearchPair[s[i]]]
           IN  FlattenSeq(lists) \in Seq(SearchBlocks) /\ Paired(FlattenSeq(lists))
<1> DEFINE L(t) == [i \in DOMAIN t |-> SearchPair[t[i]]]
           P == {t \in Seq(Searched) : /\ FlattenSeq(L(t)) \in Seq(SearchBlocks)
                                       /\ Paired(FlattenSeq(L(t)))}
<1>1. <<>> \in P
  <2>1. L(<<>>) = <<>> /\ <<>> \in Seq(Searched) /\ <<>> \in Seq(SearchBlocks)
    OBVIOUS
  <2>2. FlattenSeq(<<>>) = <<>>
    BY <2>1, FlatOne
  <2>3. Paired(<<>>)
    BY DEF Paired
  <2> QED
    BY <2>1, <2>2, <2>3
<1>2. ASSUME NEW t \in P, NEW x \in Searched PROVE Append(t, x) \in P
  <2>1. t \in Seq(Searched) /\ Append(t, x) \in Seq(Searched)
    BY AppendProperties
  <2>2. L(t) \in Seq(Seq(SearchBlocks)) /\ L(Append(t, x)) = Append(L(t), SearchPair[x])
    <3> DEFINE u == L(t)
               v == L(Append(t, x))
    <3>1. /\ SearchPair \in [Searched -> Seq(SearchBlocks)] /\ SearchPair[x] \in Seq(SearchBlocks)
          /\ \A i \in DOMAIN t : t[i] \in Searched
          /\ \A i \in DOMAIN Append(t, x) : Append(t, x)[i] \in Searched
      BY <2>1, SearchPairs, LenProperties, ElementOfSeq
    <3>2. /\ u \in [DOMAIN t -> Seq(SearchBlocks)]
          /\ v \in [DOMAIN Append(t, x) -> Seq(SearchBlocks)]
      BY <3>1
    <3>3. Len(t) + 1 \in DOMAIN Append(t, x) /\ \A i \in DOMAIN t : i \in DOMAIN Append(t, x)
      BY <2>1, AppendProperties, LenProperties
    <3>4. /\ \A i \in DOMAIN t : Append(t, x)[i] = t[i] => v[i] = u[i]
          /\ Append(t, x)[Len(t) + 1] = x => v[Len(t) + 1] = SearchPair[x]
      BY <3>3
    <3> HIDE DEF u, v, L, P
    <3>5. u \in Seq(Seq(SearchBlocks)) /\ v = Append(u, SearchPair[x])
      BY <2>1, <3>1, <3>2, <3>4, MapAppend
    <3> QED
      BY <3>5 DEF u, v
  <2>3. /\ FlattenSeq(L(t)) \in Seq(SearchBlocks) /\ Paired(FlattenSeq(L(t)))
        /\ SearchPair[x] \in Seq(SearchBlocks) /\ Paired(SearchPair[x])
    BY SearchPairs
  <2> DEFINE u == L(t)
             v == SearchPair[x]
             w == FlattenSeq(u)
  <2>4. u \in Seq(Seq(SearchBlocks)) /\ v \in Seq(SearchBlocks) /\ w \in Seq(SearchBlocks)
        /\ Paired(v) /\ Paired(w)
    BY <2>2, <2>3
  <2> HIDE DEF u, v
  <2>5. FlattenSeq(Append(u, v)) = w \o v
    BY <2>4, FlatAppend
  <2> HIDE DEF w
  <2>6. w \o v \in Seq(SearchBlocks)
    BY <2>4, ConcatProperties
  <2>7. w \in Seq(Blocks) /\ v \in Seq(Blocks)
    BY <2>4, BlockSets
  <2>8. Paired(w \o v)
    BY <2>4, <2>7, PairedConcat
  <2> QED
    BY <2>1, <2>2, <2>5, <2>6, <2>8 DEF u, v
<1>3. P = Seq(Searched)
  <2> HIDE DEF P
  <2>1. P \in SUBSET Seq(Searched)
    BY DEF P
  <2> QED
    BY <1>1, <1>2, <2>1, Growing
<1> QED
  BY <1>3

LEMMA SetOfConcat ==
    ASSUME NEW X, NEW p \in Seq(X), NEW q \in Seq(X)
    PROVE  ToSet(p \o q) = ToSet(p) \union ToSet(q)
<1>1. /\ Len(p) \in Nat /\ Len(q) \in Nat /\ DOMAIN p = 1..Len(p) /\ DOMAIN q = 1..Len(q)
      /\ DOMAIN (p \o q) = 1..(Len(p) + Len(q))
      /\ \A i \in 1..(Len(p) + Len(q)) :
            (p \o q)[i] = IF i <= Len(p) THEN p[i] ELSE q[i - Len(p)]
  BY ConcatProperties, LenProperties
<1>2. \A i \in 1..Len(p) : i \in 1..(Len(p) + Len(q)) /\ (p \o q)[i] = p[i]
  BY <1>1
<1>3. \A i \in 1..Len(q) : /\ i + Len(p) \in 1..(Len(p) + Len(q))
                           /\ (p \o q)[i + Len(p)] = q[i]
  BY <1>1
<1>4. \A i \in 1..(Len(p) + Len(q)) :
         \/ i \in 1..Len(p) /\ (p \o q)[i] = p[i]
         \/ i - Len(p) \in 1..Len(q) /\ (p \o q)[i] = q[i - Len(p)]
  BY <1>1
<1> QED
  BY <1>1, <1>2, <1>3, <1>4 DEF ToSet

\* Nothing but text, searches and calls; each call of the event is there.
LEMMA ContentOf ==
    ASSUME NEW e \in TurnEvents, NEW role \in {"user", "assistant"}
    PROVE  LET m == Message(role, Content(e))
           IN  /\ m \in Messages /\ Paired(m.content) /\ IdsOf(m, "tool_result") = {}
               /\ m.role = role /\ m.content = Content(e)
               /\ IdsOf(m, "tool_use") = {c.id : c \in ToSet(e.calls)}
               /\ e.calls # <<>> => m.content # <<>>
<1> DEFINE a == IF e.text > 0 THEN <<TextBlock>> ELSE <<>>
           b == Searches(e)
           c == ToolUses(e)
<1>1. a \in {<<TextBlock>>, <<>>}
  OBVIOUS
<1>2. e.searches \in Seq(Searched) /\ e.calls \in Seq(Calls)
  BY DEF TurnEvents
<1>3. b \in Seq(SearchBlocks) /\ Paired(b)
  <2> DEFINE s == e.searches
  <2>1. \A i \in DOMAIN s : s[i] \in Searched
    BY <1>2, LenProperties, ElementOfSeq
  <2>2. \A i \in DOMAIN s :
           SearchPair[s[i]] = IF s[i].got THEN <<Block("server_tool_use", s[i].id),
                                                 Block("server_tool_result", s[i].id)>> ELSE <<>>
    BY <2>1 DEF SearchPair
  <2>3. b = FlattenSeq([i \in DOMAIN s |-> SearchPair[s[i]]])
    BY <2>2 DEF Searches
  <2> HIDE DEF s, b
  <2>4. s \in Seq(Searched)
    BY <1>2 DEF s
  <2> QED
    BY <2>3, <2>4, SearchesPaired
<1>4. c \in Seq(UseBlocks) /\ Len(c) = Len(e.calls)
      /\ \A i \in 1..Len(e.calls) : c[i] = Block("tool_use", e.calls[i].id)
  <2>1. \A i \in 1..Len(e.calls) : e.calls[i] \in Calls
    BY <1>2, ElementOfSeq
  <2>2. \A i \in 1..Len(e.calls) : Block("tool_use", e.calls[i].id) \in UseBlocks
    BY <2>1 DEF Block, UseBlocks, Calls
  <2>3. c = [i \in 1..Len(e.calls) |-> Block("tool_use", e.calls[i].id)] /\ Len(e.calls) \in Nat
    BY <1>2, LenProperties DEF ToolUses
  <2>4. c \in [1..Len(e.calls) -> UseBlocks]
    BY <2>2, <2>3
  <2> HIDE DEF c
  <2> QED
    BY <2>3, <2>4
<1>5. a \in Seq(Blocks) /\ Paired(a)
  <2>1. TextBlock \in Blocks /\ TextBlock.b # "server_tool_use"
    BY BlocksTyped DEF TextBlock, Block
  <2>2. <<TextBlock>> \in Seq(Blocks) /\ DOMAIN <<TextBlock>> = {1} /\ <<TextBlock>>[1] = TextBlock
    BY <2>1
  <2>3. Paired(<<TextBlock>>)
    BY <2>1, <2>2 DEF Paired
  <2>4. Paired(<<>>) /\ <<>> \in Seq(Blocks)
    BY DEF Paired
  <2> HIDE DEF a
  <2> QED
    BY <1>1, <2>2, <2>3, <2>4
<1>6. b \in Seq(Blocks) /\ c \in Seq(Blocks) /\ Paired(c)
  <2>1. Paired(c)
    <3>1. DOMAIN c = 1..Len(c) /\ \A i \in 1..Len(c) : c[i] \in UseBlocks
      BY <1>4, LenProperties, ElementOfSeq
    <3> QED
      BY <3>1 DEF Paired, UseBlocks
  <2> QED
    BY <1>3, <1>4, <2>1, BlockSets
<1> DEFINE d == a \o b
           f == d \o c
<1>7. Content(e) = f
  BY DEF Content
<1> HIDE DEF a, b, c
<1>8. d \in Seq(Blocks) /\ Paired(d) /\ f \in Seq(Blocks) /\ Paired(f)
  <2>1. d \in Seq(Blocks) /\ Paired(d)
    BY <1>3, <1>5, <1>6, ConcatProperties, PairedConcat
  <2> HIDE DEF d
  <2> QED
    BY <1>6, <2>1, ConcatProperties, PairedConcat
<1>9. ToSet(f) = ToSet(a) \union ToSet(b) \union ToSet(c)
  <2>1. ToSet(d) = ToSet(a) \union ToSet(b)
    BY <1>5, <1>6, SetOfConcat
  <2> HIDE DEF d
  <2>2. ToSet(f) = ToSet(d) \union ToSet(c)
    BY <1>6, <1>8, SetOfConcat
  <2> QED
    BY <2>1, <2>2
<1>10. ToSet(a) \subseteq {TextBlock} /\ ToSet(b) \subseteq SearchBlocks
  <2>1. ToSet(a) \subseteq {TextBlock}
    <3>1. \A i \in DOMAIN <<TextBlock>> : <<TextBlock>>[i] = TextBlock
      OBVIOUS
    <3> QED
      BY <1>1, <3>1 DEF ToSet, a
  <2>2. \A i \in DOMAIN b : b[i] \in SearchBlocks
    BY <1>3, LenProperties, ElementOfSeq
  <2> QED
    BY <2>1, <2>2 DEF ToSet
<1>11. ToSet(c) = {Block("tool_use", x.id) : x \in ToSet(e.calls)}
  <2>1. DOMAIN c = 1..Len(e.calls) /\ DOMAIN e.calls = 1..Len(e.calls)
    BY <1>2, <1>4, LenProperties
  <2> QED
    BY <1>4, <2>1 DEF ToSet
<1> DEFINE m == Message(role, f)
<1>12. m.role = role /\ m.content = f /\ m \in Messages
  <2> HIDE DEF f
  <2> QED
    BY <1>8 DEF Message, Messages
<1>13. e.calls # <<>> => f # <<>>
  <2>1. ASSUME e.calls # <<>> PROVE f # <<>>
    <3>1. Len(e.calls) # 0 /\ Len(e.calls) \in Nat
      BY <1>2, <2>1, EmptySeq, LenProperties
    <3>2. Len(f) = Len(d) + Len(c) /\ Len(d) \in Nat
      BY <1>6, <1>8, ConcatProperties, LenProperties
    <3>3. Len(f) # 0
      <4> HIDE DEF f, d
      <4> QED
        BY <1>4, <3>1, <3>2
    <3> HIDE DEF f
    <3> QED
      BY <3>3
  <2> QED
    BY <2>1
<1> HIDE DEF f
<1>14. TextBlock.b = "text" /\ \A x : Block("tool_use", x).b = "tool_use" /\ Block("tool_use", x).id = x
  BY DEF TextBlock, Block
<1>15. \A x \in SearchBlocks : x.b \in {"server_tool_use", "server_tool_result"}
  BY DEF SearchBlocks
<1>16. IdsOf(m, "tool_result") = {}
  <2>1. \A x \in ToSet(f) : x.b # "tool_result"
    BY <1>9, <1>10, <1>11, <1>14, <1>15
  <2> QED
    BY <1>12, <2>1 DEF IdsOf
<1>17. IdsOf(m, "tool_use") = {x.id : x \in ToSet(e.calls)}
  <2>1. {x \in ToSet(f) : x.b = "tool_use"} = ToSet(c)
    BY <1>9, <1>10, <1>11, <1>14, <1>15
  <2>2. {x.id : x \in ToSet(c)} = {x.id : x \in ToSet(e.calls)}
    BY <1>11, <1>14
  <2> QED
    BY <1>12, <2>1, <2>2 DEF IdsOf
<1> QED
  BY <1>7, <1>8, <1>12, <1>13, <1>16, <1>17

LEMMA PutIs ==
    ASSUME NEW req \in Requests, NEW list \in Seq(Messages)
    PROVE  /\ Put(req, list) \in Requests /\ Put(req, list).messages = req.messages \o list
           /\ Put(req, list).known = req.known /\ ~Put(req, list).gathers
<1>1. req.messages \o list \in Seq(Messages)
  BY ConcatProperties DEF Requests
<1> DEFINE longer == req.messages \o list
<1>2. Put(req, list) = [req EXCEPT !.messages = longer, !.gathers = FALSE]
  BY DEF Put
<1> HIDE DEF longer
<1>3. longer \in Seq(Messages)
  BY <1>1 DEF longer
<1>4. /\ Put(req, list).messages = longer /\ Put(req, list).known = req.known
      /\ Put(req, list).gathers = FALSE /\ Put(req, list) \in Requests
  BY <1>2, <1>3 DEF Requests
<1> QED
  BY <1>4 DEF longer

LEMMA PutOne ==
    ASSUME NEW req \in Requests, NEW m \in Messages
    PROVE  /\ Put(req, <<m>>) \in Requests /\ Put(req, <<m>>).messages = Append(req.messages, m)
           /\ Put(req, <<m>>).known = req.known /\ ~Put(req, <<m>>).gathers
<1>1. <<m>> \in Seq(Messages) /\ req.messages \in Seq(Messages)
  BY DEF Requests
<1>2. req.messages \o <<m>> = Append(req.messages, m)
  BY <1>1, AppendIsConcat
<1> QED
  BY <1>1, <1>2, PutIs

Says(role) == Message(role, <<TextBlock>>)

LEMMA TextMessages ==
    ASSUME NEW role \in {"user", "assistant"}
    PROVE  /\ Says(role) \in Messages /\ Whole(Says(role)) /\ Says(role).role = role
           /\ IdsOf(Says(role), "tool_use") = {} /\ IdsOf(Says(role), "tool_result") = {}
<1>1. TextBlock \in Blocks /\ TextBlock.b = "text"
  BY BlocksTyped DEF TextBlock, Block
<1>2. <<TextBlock>> \in Seq(Blocks) /\ <<TextBlock>> # <<>> /\ DOMAIN <<TextBlock>> = {1}
      /\ <<TextBlock>>[1] = TextBlock
  BY <1>1
<1> DEFINE c == <<TextBlock>>
<1> HIDE DEF c
<1>3. c \in Seq(Blocks) /\ c # <<>> /\ DOMAIN c = {1} /\ c[1] = TextBlock
  BY <1>2 DEF c
<1>4. Says(role) = [role |-> role, content |-> c]
  BY DEF Says, Message, c
<1>5. ToSet(c) = {TextBlock}
  BY <1>3 DEF ToSet
<1>6. Says(role) \in Messages
  BY <1>3, <1>4 DEF Messages
<1>7. Paired(c)
  BY <1>1, <1>3 DEF Paired
<1>8. IdsOf(Says(role), "tool_use") = {} /\ IdsOf(Says(role), "tool_result") = {}
  BY <1>1, <1>4, <1>5 DEF IdsOf
<1> QED
  BY <1>3, <1>4, <1>6, <1>7, <1>8 DEF Whole

\* A text is added when no call waits.
LEMMA TextAdded ==
    ASSUME NEW req, Sound(req, {}), NEW role \in {"user", "assistant"},
           req.messages = <<>> => role = "user"
    PROVE  LET next == Put(req, <<Says(role)>>)
           IN  Sound(next, {}) /\ next.messages = Append(req.messages, Says(role))
<1> DEFINE next == Put(req, <<Says(role)>>)
<1>1. req \in Requests
  BY DEF Sound
<1>2. /\ Says(role) \in Messages /\ Whole(Says(role)) /\ Says(role).role = role
      /\ IdsOf(Says(role), "tool_use") = {} /\ IdsOf(Says(role), "tool_result") = {}
  BY TextMessages
<1>3. /\ next \in Requests /\ next.messages = Append(req.messages, Says(role))
      /\ next.known = req.known /\ ~next.gathers
  BY <1>1, <1>2, PutOne
<1> HIDE DEF next
<1>4. Sound(next, {})
  BY <1>2, <1>3, MessageAdded
<1> QED
  BY <1>3, <1>4 DEF next

\* A text event extends the request, by its own text and an opener if it is
\* the first and not the user's.
LEMMA TextMapped ==
    ASSUME NEW req, Sound(req, {}), NEW e \in TurnEvents,
           e.kind \in {"user", "assistant"}, e.calls = <<>>, e.searches = <<>>
    PROVE  LET next == MapEvent(req, e)
           IN  /\ Sound(next, {}) /\ next.messages # <<>>
               /\ Len(next.messages) > Len(req.messages)
               /\ \A i \in 1..Len(req.messages) : next.messages[i] = req.messages[i]
               /\ e.kind = "user" => next.messages[Len(next.messages)].role = "user"
<1>1. req \in Requests /\ req.messages \in Seq(Messages) /\ Len(req.messages) \in Nat
  BY LenProperties DEF Sound, Requests
<1> DEFINE ms == req.messages
<1>2. ASSUME NEW r, Sound(r, {}), NEW role \in {"user", "assistant"},
             r.messages = <<>> => role = "user", Len(r.messages) >= Len(ms),
             \A i \in 1..Len(ms) : r.messages[i] = ms[i]
      PROVE  LET next == Put(r, <<Says(role)>>)
             IN  /\ Sound(next, {}) /\ next.messages # <<>> /\ Len(next.messages) > Len(ms)
                 /\ \A i \in 1..Len(ms) : next.messages[i] = ms[i]
                 /\ next.messages[Len(next.messages)].role = role
  <2> DEFINE next == Put(r, <<Says(role)>>)
             list == r.messages
             new == next.messages
  <2>1. Sound(next, {}) /\ new = Append(list, Says(role))
    BY <1>2, TextAdded
  <2>2. list \in Seq(Messages) /\ Says(role) \in Messages /\ Says(role).role = role
    BY <1>2, TextMessages DEF Sound, Requests
  <2> HIDE DEF next, list, new, ms
  <2>3. /\ new # <<>> /\ Len(new) = Len(list) + 1 /\ Len(list) \in Nat
        /\ \A i \in 1..Len(list) : new[i] = list[i]
        /\ new[Len(list) + 1] = Says(role)
    BY <2>1, <2>2, AppendProperties, LenProperties
  <2>4. Len(new) > Len(ms) /\ \A i \in 1..Len(ms) : new[i] = ms[i]
    <3>1. Len(list) >= Len(ms) /\ Len(ms) \in Nat /\ \A i \in 1..Len(ms) : list[i] = ms[i]
      BY <1>1, <1>2 DEF list, ms
    <3>2. \A i \in 1..Len(ms) : i \in 1..Len(list)
      BY <2>3, <3>1
    <3> QED
      BY <2>3, <3>1, <3>2
  <2> QED
    BY <2>1, <2>2, <2>3, <2>4 DEF next, new
<1>3. CASE e.kind = "user"
  <2>1. MapEvent(req, e) = Put(req, <<Says("user")>>)
    BY <1>3 DEF MapEvent, Says
  <2> QED
    BY <1>1, <1>2, <2>1
<1>4. CASE e.kind = "assistant"
  <2>1. MapEvent(req, e) = MapAssistant(req, e)
    BY <1>4 DEF MapEvent
  <2>2. CASE req.messages # <<>>
    <3>1. MapEvent(req, e) = Put(req, Append(<<>>, Says("assistant")))
      BY <2>1, <2>2 DEF MapAssistant, Says
    <3>2. Append(<<>>, Says("assistant")) = <<Says("assistant")>>
      OBVIOUS
    <3> QED
      BY <1>1, <1>2, <1>4, <2>2, <3>1, <3>2
  <2>3. CASE req.messages = <<>>
    <3> DEFINE a == Says("user")
               b == Says("assistant")
               opened == Put(req, <<a>>)
    <3>1. MapEvent(req, e) = Put(req, Append(<<a>>, b))
      BY <2>1, <2>3 DEF MapAssistant, Says
    <3>2. a \in Messages /\ b \in Messages
      BY TextMessages
    <3> HIDE DEF a, b
    <3>3. Append(<<a>>, b) = <<a>> \o <<b>> /\ <<a>> \in Seq(Messages) /\ <<b>> \in Seq(Messages)
      BY <3>2
    <3>4. Put(req, <<a>> \o <<b>>) = Put(opened, <<b>>)
      <4>1. (ms \o <<a>>) \o <<b>> = ms \o (<<a>> \o <<b>>)
        BY <1>1, <3>3, ConcatAssociative
      <4>2. opened.messages = ms \o <<a>> /\ opened.known = req.known /\ ~opened.gathers
            /\ opened \in Requests
        BY <1>1, <3>3, PutIs
      <4> DEFINE two == <<a>> \o <<b>>
      <4>3. two \in Seq(Messages)
        BY <3>3, ConcatProperties
      <4>4. /\ Put(req, two) \in Requests /\ Put(req, two).messages = ms \o two
            /\ Put(req, two).known = req.known /\ ~Put(req, two).gathers
        <5> HIDE DEF two
        <5> QED
          BY <1>1, <4>3, PutIs
      <4>5. /\ Put(opened, <<b>>) \in Requests
            /\ Put(opened, <<b>>).messages = opened.messages \o <<b>>
            /\ Put(opened, <<b>>).known = opened.known /\ ~Put(opened, <<b>>).gathers
        <5> HIDE DEF opened
        <5> QED
          BY <3>3, <4>2, PutIs
      <4>6. Put(req, two).messages = Put(opened, <<b>>).messages
        BY <4>1, <4>2, <4>4, <4>5
      <4> HIDE DEF two, opened
      <4>7. \A r, s \in Requests :
               r.messages = s.messages /\ r.known = s.known /\ r.gathers = s.gathers => r = s
        <5> SUFFICES ASSUME NEW r \in Requests, NEW s \in Requests, r.messages = s.messages,
                            r.known = s.known, r.gathers = s.gathers
                     PROVE  r = s
          OBVIOUS
        <5>1. r = [messages |-> r.messages, known |-> r.known, gathers |-> r.gathers]
          BY DEF Requests
        <5>2. s = [messages |-> s.messages, known |-> s.known, gathers |-> s.gathers]
          BY DEF Requests
        <5> QED
          BY <5>1, <5>2
      <4>8. Put(req, two).gathers = Put(opened, <<b>>).gathers
        BY <4>4, <4>5 DEF Requests
      <4> QED
        BY <4>2, <4>4, <4>5, <4>6, <4>7, <4>8 DEF two
    <3>5. Sound(opened, {}) /\ opened.messages = Append(ms, a)
      BY <2>3, TextAdded DEF a
    <3>6. opened.messages # <<>> /\ Len(opened.messages) >= Len(ms)
          /\ \A i \in 1..Len(ms) : opened.messages[i] = ms[i]
      <4> HIDE DEF ms
      <4>1. ms \in Seq(Messages)
        BY <1>1 DEF ms
      <4>2. /\ Append(ms, a) # <<>> /\ Len(Append(ms, a)) = Len(ms) + 1 /\ Len(ms) \in Nat
            /\ \A i \in 1..Len(ms) : Append(ms, a)[i] = ms[i]
        BY <3>2, <4>1, AppendProperties, LenProperties
      <4> QED
        BY <3>5, <4>2
    <3> HIDE DEF opened, ms
    <3>7. MapEvent(req, e) = Put(opened, <<Says("assistant")>>)
      BY <3>1, <3>3, <3>4 DEF b
    <3> QED
      BY <1>2, <1>4, <3>5, <3>6, <3>7 DEF ms
  <2> QED
    BY <2>2, <2>3
<1> QED
  BY <1>3, <1>4

\* A decision with calls: they wait for their results.
LEMMA CallsMapped ==
    ASSUME NEW req, Sound(req, {}), req.messages # <<>>, NEW e \in TurnEvents,
           e.kind = "assistant", e.calls # <<>>
    PROVE  LET next == MapEvent(req, e)
           IN  /\ Sound(next, {c.id : c \in ToSet(e.calls)})
               /\ Len(next.messages) = Len(req.messages) + 1
               /\ \A i \in 1..Len(req.messages) : next.messages[i] = req.messages[i]
<1> DEFINE ids == {c.id : c \in ToSet(e.calls)}
           content == Content(e)
           m == Message("assistant", content)
           put == Put(req, <<m>>)
           next == [put EXCEPT !.known = @ \union ids]
<1>1. /\ m \in Messages /\ Paired(m.content) /\ IdsOf(m, "tool_result") = {}
      /\ m.role = "assistant" /\ m.content = content /\ IdsOf(m, "tool_use") = ids
      /\ m.content # <<>>
  BY ContentOf
<1>2. MapEvent(req, e) = next
  <2>1. content # <<>>
    BY <1>1
  <2>2. MapEvent(req, e) = MapAssistant(req, e)
    BY DEF MapEvent
  <2> QED
    BY <2>1, <2>2 DEF MapAssistant
<1>3. req \in Requests /\ req.messages \in Seq(Messages)
  BY DEF Sound, Requests
<1>4. ids \subseteq Ids
  <2>1. e.calls \in Seq(Calls)
    BY DEF TurnEvents
  <2>2. \A i \in DOMAIN e.calls : e.calls[i] \in Calls
    BY <2>1, LenProperties, ElementOfSeq
  <2> QED
    BY <2>2 DEF ToSet, Calls
<1> HIDE DEF m, ids
<1>5. /\ put \in Requests /\ put.messages = Append(req.messages, m) /\ put.known = req.known
      /\ ~put.gathers
  BY <1>1, <1>3, PutOne
<1> HIDE DEF put
<1>6. /\ next \in Requests /\ next.messages = Append(req.messages, m)
      /\ next.known = req.known \union ids /\ ~next.gathers
  BY <1>4, <1>5 DEF Requests
<1> HIDE DEF next
<1>7. Whole(m)
  BY <1>1 DEF Whole
<1>8. Sound(next, ids)
  BY <1>1, <1>6, <1>7, MessageAdded
<1>9. /\ Len(next.messages) = Len(req.messages) + 1
      /\ \A i \in 1..Len(req.messages) : next.messages[i] = req.messages[i]
  BY <1>1, <1>3, <1>6, AppendProperties
<1> QED
  BY <1>2, <1>8, <1>9 DEF ids

\* The result of a call that waits.
LEMMA ResultMapped ==
    ASSUME NEW req, NEW waiting, Sound(req, waiting), req.messages # <<>>,
           NEW e \in TurnEvents, e.kind = "tool", e.use \in waiting
    PROVE  LET next == MapEvent(req, e)
           IN  /\ Sound(next, waiting \ {e.use}) /\ next.gathers
               /\ Len(next.messages) = IF req.gathers THEN Len(req.messages)
                                       ELSE Len(req.messages) + 1
               /\ \A i \in 1..(IF req.gathers THEN Len(req.messages) - 1
                               ELSE Len(req.messages)) : next.messages[i] = req.messages[i]
<1> DEFINE result == Block("tool_result", e.use)
           n == Len(req.messages)
<1>1. /\ req \in Requests /\ req.messages \in Seq(Messages) /\ e.use \in req.known
      /\ waiting \subseteq Ids /\ n \in Nat /\ n # 0
  BY EmptySeq, LenProperties DEF Sound, Requests
<1>2. MapEvent(req, e) = MapResult(req, e)
  BY DEF MapEvent
<1>3. CASE req.gathers
  <2> DEFINE messages == [req.messages EXCEPT ![n].content = Append(@, result)]
             next == [req EXCEPT !.messages = messages]
  <2>1. MapEvent(req, e) = next
    BY <1>1, <1>2, <1>3 DEF MapResult
  <2>2. messages \in Seq(Messages)
    <3> DEFINE c == Append(req.messages[n].content, result)
               m == [req.messages[n] EXCEPT !.content = c]
    <3>1. n \in 1..n
      BY <1>1
    <3>2. req.messages[n] \in Messages
      BY <1>1, <3>1, ElementOfSeq
    <3>3. req.messages[n].content \in Seq(Blocks) /\ result \in Blocks
      BY <1>1, <3>2, BlocksTyped DEF Messages
    <3>4. c \in Seq(Blocks)
      BY <3>3, AppendProperties
    <3> HIDE DEF c
    <3>5. m \in Messages
      BY <3>2, <3>4 DEF Messages
    <3>6. messages = [req.messages EXCEPT ![n] = m]
      BY DEF c
    <3> HIDE DEF m, messages
    <3> QED
      BY <1>1, <3>1, <3>5, <3>6
  <2> HIDE DEF messages
  <2>3. next \in Requests /\ next.messages = messages /\ next.known = req.known
        /\ next.gathers = req.gathers
    BY <1>1, <2>2 DEF Requests
  <2> HIDE DEF next
  <2> DEFINE id == e.use
             old == req.messages[n]
             m == messages[n]
  <2>4. /\ Len(messages) = n /\ m.role = old.role /\ m.content = Append(old.content, result)
        /\ \A i \in 1..(n - 1) : messages[i] = req.messages[i]
    <3>1. n \in 1..n /\ DOMAIN req.messages = 1..n
      BY <1>1, LenProperties
    <3>2. old \in Messages
      BY <1>1, <3>1, ElementOfSeq
    <3> DEFINE c == Append(old.content, result)
               new == [old EXCEPT !.content = c]
    <3>3. messages = [req.messages EXCEPT ![n] = new]
      BY DEF messages
    <3> HIDE DEF c
    <3>4. new.role = old.role /\ new.content = c
      BY <3>2 DEF Messages
    <3> HIDE DEF new, messages, n, old
    <3>5. messages[n] = new /\ DOMAIN messages = 1..n /\ \A i \in 1..(n - 1) : messages[i] = req.messages[i]
      BY <1>1, <3>1, <3>3
    <3>6. Len(messages) = n
      BY <1>1, <2>2, <3>5, LenProperties
    <3> QED
      BY <3>4, <3>5, <3>6 DEF c
  <2>5. next.gathers /\ id \in waiting /\ next \in Requests /\ next.known = req.known
    BY <1>3, <2>3
  <2>6. /\ Len(next.messages) = Len(req.messages)
        /\ \A i \in 1..(Len(req.messages) - 1) : next.messages[i] = req.messages[i]
        /\ old = req.messages[Len(req.messages)] /\ m = next.messages[Len(req.messages)]
        /\ m.role = old.role /\ m.content = Append(old.content, Block("tool_result", id))
    BY <2>3, <2>4
  <2> HIDE DEF id, old, m, result, n
  <2>7. Sound(next, waiting \ {id})
    BY <1>3, <2>5, <2>6, ResultGathered
  <2> QED
    BY <1>3, <2>1, <2>3, <2>6, <2>7 DEF id
<1>4. CASE ~req.gathers
  <2> DEFINE c == <<result>>
             m == Message("user", c)
             put == Put(req, <<m>>)
             next == [put EXCEPT !.gathers = TRUE]
  <2>1. MapEvent(req, e) = next
    BY <1>1, <1>2, <1>4 DEF MapResult
  <2>2. result \in Blocks /\ result.b = "tool_result" /\ result.id = e.use
    BY <1>1, BlocksTyped DEF Block
  <2>3. c \in Seq(Blocks) /\ c # <<>> /\ ToSet(c) = {result} /\ Paired(c)
    <3> HIDE DEF result
    <3>1. <<result>> \in Seq(Blocks) /\ DOMAIN <<result>> = {1} /\ <<result>>[1] = result
          /\ <<result>> # <<>>
      BY <2>2
    <3> HIDE DEF c
    <3>2. c \in Seq(Blocks) /\ DOMAIN c = {1} /\ c[1] = result /\ c # <<>>
      BY <3>1 DEF c
    <3> QED
      BY <2>2, <3>2 DEF Paired, ToSet
  <2> HIDE DEF c, result
  <2>4. m \in Messages /\ m.role = "user" /\ m.content = c
    BY <2>3 DEF Message, Messages
  <2>5. Whole(m) /\ IdsOf(m, "tool_use") = {} /\ IdsOf(m, "tool_result") = {e.use}
    BY <2>2, <2>3, <2>4 DEF Whole, IdsOf
  <2> HIDE DEF m
  <2>6. /\ put \in Requests /\ put.messages = Append(req.messages, m) /\ put.known = req.known
    BY <1>1, <2>4, PutOne
  <2> HIDE DEF put
  <2>7. next \in Requests /\ next.messages = Append(req.messages, m) /\ next.known = req.known
        /\ next.gathers
    BY <2>6 DEF Requests
  <2> HIDE DEF next
  <2>8. waiting = {e.use} \union (waiting \ {e.use}) /\ waiting \ {e.use} \subseteq next.known
    BY <2>7 DEF Sound
  <2>9. Sound(next, waiting \ {e.use})
    BY <1>4, <2>4, <2>5, <2>7, <2>8, MessageAdded
  <2>10. /\ Len(next.messages) = Len(req.messages) + 1
         /\ \A i \in 1..Len(req.messages) : next.messages[i] = req.messages[i]
    BY <1>1, <2>4, <2>7, AppendProperties
  <2> QED
    BY <1>4, <2>1, <2>7, <2>9, <2>10
<1> QED
  BY <1>3, <1>4

-----------------------------------------------------------------------------
(* What the subscription driver asks. *)

Parts == [b : {"thinking", "text", "call", "result"}, id : Ids \union {None}]
CallsIn(parts) == {parts[i].id : i \in {j \in DOMAIN parts : parts[j].b = "call"}}
Distinct(items) == \A i, j \in DOMAIN items : i # j => items[i].id # items[j].id
IdsIn(items) == {items[i].id : i \in DOMAIN items}

LEMMA PartsTyped ==
    /\ TextBlock \in Parts /\ TextBlock.b = "text"
    /\ Block("thinking", None) \in Parts /\ Block("thinking", None).b = "thinking"
    /\ \A id \in Ids \union {None} :
          /\ Block("call", id) \in Parts /\ Block("result", id) \in Parts
          /\ Block("call", id).b = "call" /\ Block("call", id).id = id
          /\ Block("result", id).b = "result" /\ Block("result", id).id = id
    /\ \A x \in Parts : x.b = "call" => x = Block("call", x.id)
BY DEF TextBlock, Block, Parts

\* Two texts without a call in common, one after the other.
LEMMA LegibleConcat ==
    ASSUME NEW p \in Seq(Parts), NEW q \in Seq(Parts), Legible(p), Legible(q),
           CallsIn(p) \intersect CallsIn(q) = {}
    PROVE  /\ p \o q \in Seq(Parts) /\ Legible(p \o q)
           /\ CallsIn(p \o q) = CallsIn(p) \union CallsIn(q)
<1> DEFINE m == Len(p)
           n == Len(q)
           r == p \o q
<1>1. /\ m \in Nat /\ n \in Nat /\ DOMAIN p = 1..m /\ DOMAIN q = 1..n /\ DOMAIN r = 1..(m + n)
      /\ \A i \in 1..(m + n) : r[i] = IF i <= m THEN p[i] ELSE q[i - m]
      /\ r \in Seq(Parts)
  <2>1. /\ r \in Seq(Parts) /\ Len(r) = m + n
        /\ \A i \in 1..(m + n) : r[i] = IF i <= m THEN p[i] ELSE q[i - m]
    BY ConcatProperties
  <2> HIDE DEF r
  <2> QED
    BY <2>1, LenProperties
<1> HIDE DEF m, n, r
<1>2. \A i \in DOMAIN p : i \in DOMAIN r /\ r[i] = p[i]
  BY <1>1
<1>3. \A i \in DOMAIN q : i + m \in DOMAIN r /\ r[i + m] = q[i]
  BY <1>1
<1>4. \A i \in DOMAIN r : \/ i \in DOMAIN p
                          \/ i - m \in DOMAIN q /\ (i - m) + m = i
  BY <1>1
<1>5. CallsIn(r) = CallsIn(p) \union CallsIn(q)
  <2>1. \A id \in CallsIn(p) : id \in CallsIn(r)
    BY <1>2 DEF CallsIn
  <2>2. \A id \in CallsIn(q) : id \in CallsIn(r)
    BY <1>3 DEF CallsIn
  <2>3. ASSUME NEW id \in CallsIn(r) PROVE id \in CallsIn(p) \union CallsIn(q)
    <3>1. PICK i \in DOMAIN r : r[i].b = "call" /\ r[i].id = id
      BY <2>3 DEF CallsIn
    <3>2. CASE i \in DOMAIN p
      BY <1>2, <3>1, <3>2 DEF CallsIn
    <3>3. CASE i - m \in DOMAIN q /\ (i - m) + m = i
      <4>1. r[i] = q[i - m]
        BY <1>3, <3>3
      <4> QED
        BY <3>1, <3>3, <4>1 DEF CallsIn
    <3> QED
      BY <1>4, <3>2, <3>3
  <2> QED
    BY <2>1, <2>2, <2>3
<1>6. ASSUME NEW i \in DOMAIN r, NEW j \in DOMAIN r, i # j, r[i].b = "call", r[j] = r[i]
      PROVE  FALSE
  <2>1. CASE i \in DOMAIN p /\ j \in DOMAIN p
    BY <1>2, <1>6, <2>1 DEF Legible
  <2>2. CASE i \notin DOMAIN p /\ j \notin DOMAIN p
    <3>1. /\ i - m \in DOMAIN q /\ (i - m) + m = i /\ j - m \in DOMAIN q /\ (j - m) + m = j
      BY <1>4, <2>2
    <3>2. r[i] = q[i - m] /\ r[j] = q[j - m] /\ i - m # j - m
      BY <1>3, <1>6, <3>1
    <3> QED
      BY <1>6, <3>1, <3>2 DEF Legible
  <2>3. ASSUME NEW k \in DOMAIN r, NEW l \in DOMAIN r, r[k].b = "call", r[l] = r[k],
               k \in DOMAIN p, l \notin DOMAIN p
        PROVE  FALSE
    <3>1. l - m \in DOMAIN q /\ (l - m) + m = l
      BY <1>4, <2>3
    <3>2. r[k] = p[k] /\ r[l] = q[l - m]
      BY <1>2, <1>3, <2>3, <3>1
    <3>3. p[k].id \in CallsIn(p) /\ q[l - m].id \in CallsIn(q) /\ p[k].id = q[l - m].id
      BY <2>3, <3>1, <3>2 DEF CallsIn
    <3> QED
      BY <3>3
  <2> QED
    BY <1>6, <2>1, <2>2, <2>3
<1>7. ASSUME NEW i \in DOMAIN r, r[i].b = "result"
      PROVE  \E j \in 1..(i - 1) : r[j] = Block("call", r[i].id)
  <2>1. CASE i \in DOMAIN p
    <3>1. r[i] = p[i]
      BY <1>2, <2>1
    <3>2. PICK j \in 1..(i - 1) : p[j] = Block("call", p[i].id)
      BY <1>7, <2>1, <3>1 DEF Legible
    <3>3. j \in DOMAIN p
      BY <1>1, <2>1
    <3> QED
      BY <1>2, <3>1, <3>2, <3>3
  <2>2. CASE i - m \in DOMAIN q /\ (i - m) + m = i
    <3>1. r[i] = q[i - m]
      BY <1>3, <2>2
    <3>2. PICK j \in 1..((i - m) - 1) : q[j] = Block("call", q[i - m].id)
      BY <1>7, <2>2, <3>1 DEF Legible
    <3>3. j \in DOMAIN q /\ j + m \in 1..(i - 1)
      BY <1>1, <2>2
    <3> QED
      BY <1>3, <3>1, <3>2, <3>3
  <2> QED
    BY <1>4, <2>1, <2>2
<1> QED
  BY <1>1, <1>5, <1>6, <1>7 DEF Legible, r

\* One more result, of a call that is there.
LEMMA LegibleResult ==
    ASSUME NEW p \in Seq(Parts), Legible(p), NEW id \in Ids, id \in CallsIn(p)
    PROVE  LET r == p \o <<Block("result", id)>>
           IN  r \in Seq(Parts) /\ Legible(r) /\ CallsIn(r) = CallsIn(p)
<1> DEFINE x == Block("result", id)
           m == Len(p)
           r == p \o <<x>>
<1>1. x \in Parts /\ x.b = "result" /\ x.id = id
  BY PartsTyped
<1> HIDE DEF x
<1>2. r = Append(p, x)
  BY <1>1, AppendIsConcat
<1>3. /\ m \in Nat /\ DOMAIN p = 1..m /\ DOMAIN r = 1..(m + 1) /\ r \in Seq(Parts)
      /\ r[m + 1] = x /\ \A i \in 1..m : r[i] = p[i]
  <2>1. r \in Seq(Parts) /\ Len(r) = m + 1 /\ r[m + 1] = x /\ \A i \in 1..m : r[i] = p[i]
    BY <1>1, <1>2, AppendProperties
  <2> HIDE DEF r
  <2> QED
    BY <2>1, LenProperties
<1> HIDE DEF r, m
<1>4. \A i \in DOMAIN r : (i \in DOMAIN p /\ r[i] = p[i]) \/ i = m + 1
  BY <1>3
<1>5. \A i \in DOMAIN p : i \in DOMAIN r /\ r[i] = p[i]
  BY <1>3
<1>6. \A i \in DOMAIN r : r[i].b = "call" => i \in DOMAIN p /\ r[i] = p[i]
  BY <1>1, <1>3, <1>4
<1>7. CallsIn(r) = CallsIn(p)
  BY <1>5, <1>6 DEF CallsIn
<1>8. ASSUME NEW i \in DOMAIN r, r[i].b = "call"
      PROVE  ~\E j \in DOMAIN r : j # i /\ r[j] = r[i]
  <2>1. ASSUME NEW j \in DOMAIN r, j # i, r[j] = r[i] PROVE FALSE
    <3>1. i \in DOMAIN p /\ r[i] = p[i] /\ j \in DOMAIN p /\ r[j] = p[j]
      BY <1>6, <1>8, <2>1
    <3> QED
      BY <1>8, <2>1, <3>1 DEF Legible
  <2> QED
    BY <2>1
<1>9. ASSUME NEW i \in DOMAIN r, r[i].b = "result"
      PROVE  \E j \in 1..(i - 1) : r[j] = Block("call", r[i].id)
  <2>1. CASE i \in DOMAIN p
    <3>1. r[i] = p[i]
      BY <1>5, <2>1
    <3>2. PICK j \in 1..(i - 1) : p[j] = Block("call", p[i].id)
      BY <1>9, <2>1, <3>1 DEF Legible
    <3>3. j \in DOMAIN p
      BY <1>3, <2>1
    <3> QED
      BY <1>5, <3>1, <3>2, <3>3
  <2>2. CASE i = m + 1
    <3>1. PICK j \in DOMAIN p : p[j].b = "call" /\ p[j].id = id
      BY DEF CallsIn
    <3>2. p[j] \in Parts
      BY <1>3, <3>1, ElementOfSeq DEF m
    <3>3. p[j] = Block("call", id)
      BY <3>1, <3>2, PartsTyped
    <3>4. j \in 1..(i - 1)
      BY <1>3, <2>2
    <3> QED
      BY <1>1, <1>3, <1>5, <2>2, <3>3, <3>4
  <2> QED
    BY <1>4, <2>1, <2>2
<1> QED
  BY <1>3, <1>7, <1>8, <1>9 DEF Legible, r, x

\* One part, and none.
LEMMA LegibleOne ==
    /\ Legible(<<>>) /\ CallsIn(<<>>) = {} /\ <<>> \in Seq(Parts)
    /\ \A x \in Parts : x.b # "result" =>
          /\ <<x>> \in Seq(Parts) /\ Legible(<<x>>)
          /\ CallsIn(<<x>>) = IF x.b = "call" THEN {x.id} ELSE {}
<1>1. Legible(<<>>) /\ CallsIn(<<>>) = {} /\ <<>> \in Seq(Parts)
  BY DEF Legible, CallsIn
<1>2. ASSUME NEW x \in Parts, x.b # "result"
      PROVE  /\ <<x>> \in Seq(Parts) /\ Legible(<<x>>)
             /\ CallsIn(<<x>>) = IF x.b = "call" THEN {x.id} ELSE {}
  <2> DEFINE p == <<x>>
  <2>1. p \in Seq(Parts) /\ DOMAIN p = {1} /\ p[1] = x
    OBVIOUS
  <2> HIDE DEF p
  <2>2. Legible(p)
    BY <1>2, <2>1 DEF Legible
  <2>3. CallsIn(p) = IF x.b = "call" THEN {x.id} ELSE {}
    BY <2>1 DEF CallsIn
  <2> QED
    BY <2>1, <2>2, <2>3 DEF p
<1> QED
  BY <1>1, <1>2

SearchPart ==
    [x \in Searched |-> <<Block("call", x.id)>>
                        \o (IF x.got THEN <<Block("result", x.id)>> ELSE <<>>)]

LEMMA SearchParts ==
    ASSUME NEW x \in Searched
    PROVE  /\ SearchPart[x] \in Seq(Parts) /\ Legible(SearchPart[x])
           /\ CallsIn(SearchPart[x]) = {x.id}
<1> DEFINE call == <<Block("call", x.id)>>
<1>1. x.id \in Ids /\ x.got \in BOOLEAN
  BY DEF Searched
<1>2. call \in Seq(Parts) /\ Legible(call) /\ CallsIn(call) = {x.id}
  <2> DEFINE c == Block("call", x.id)
  <2>1. c \in Parts /\ c.b = "call" /\ c.id = x.id
    BY <1>1, PartsTyped
  <2> HIDE DEF c
  <2>2. <<c>> \in Seq(Parts) /\ Legible(<<c>>) /\ CallsIn(<<c>>) = {c.id}
    BY <2>1, LegibleOne
  <2> QED
    BY <2>1, <2>2 DEF c
<1>3. SearchPart[x] = call \o (IF x.got THEN <<Block("result", x.id)>> ELSE <<>>)
  BY DEF SearchPart
<1> HIDE DEF call
<1>4. CASE x.got
  <2>1. SearchPart[x] = call \o <<Block("result", x.id)>>
    BY <1>3, <1>4
  <2> QED
    BY <1>1, <1>2, <2>1, LegibleResult
<1>5. CASE ~x.got
  <2>1. SearchPart[x] = call
    BY <1>2, <1>3, <1>5, ConcatEmptySeq
  <2> QED
    BY <1>2, <2>1
<1> QED
  BY <1>1, <1>4, <1>5

LEMMA SearchesLegible ==
    ASSUME NEW s \in Seq(Searched)
    PROVE  LET parts == FlattenSeq([i \in DOMAIN s |-> SearchPart[s[i]]])
           IN  /\ parts \in Seq(Parts)
               /\ Distinct(s) => Legible(parts) /\ CallsIn(parts) = IdsIn(s)
<1> DEFINE L(t) == [i \in DOMAIN t |-> SearchPart[t[i]]]
           P == {t \in Seq(Searched) :
                    /\ FlattenSeq(L(t)) \in Seq(Parts)
                    /\ Distinct(t) => /\ Legible(FlattenSeq(L(t)))
                                      /\ CallsIn(FlattenSeq(L(t))) = IdsIn(t)}
<1>1. <<>> \in P
  <2>1. L(<<>>) = <<>> /\ <<>> \in Seq(Searched) /\ <<>> \in Seq(Parts)
    OBVIOUS
  <2>2. FlattenSeq(<<>>) = <<>>
    BY <2>1, FlatOne
  <2>3. IdsIn(<<>>) = {}
    BY DEF IdsIn
  <2> QED
    BY <2>1, <2>2, <2>3, LegibleOne
<1>2. ASSUME NEW t \in P, NEW x \in Searched PROVE Append(t, x) \in P
  <2> DEFINE tx == Append(t, x)
  <2>1. /\ t \in Seq(Searched) /\ tx \in Seq(Searched) /\ Len(t) \in Nat
        /\ DOMAIN t = 1..Len(t) /\ DOMAIN tx = 1..(Len(t) + 1) /\ tx[Len(t) + 1] = x
        /\ \A i \in 1..Len(t) : tx[i] = t[i]
    <3>1. /\ t \in Seq(Searched) /\ tx \in Seq(Searched) /\ Len(tx) = Len(t) + 1
          /\ tx[Len(t) + 1] = x /\ \A i \in 1..Len(t) : tx[i] = t[i]
      BY AppendProperties
    <3> HIDE DEF tx, P
    <3> QED
      BY <3>1, LenProperties
  <2>2. L(t) \in Seq(Seq(Parts)) /\ L(tx) = Append(L(t), SearchPart[x])
    <3> DEFINE u == L(t)
               v == L(tx)
    <3>1. /\ SearchPart[x] \in Seq(Parts)
          /\ \A i \in DOMAIN t : SearchPart[t[i]] \in Seq(Parts)
          /\ \A i \in DOMAIN tx : SearchPart[tx[i]] \in Seq(Parts)
      <4>1. /\ \A i \in DOMAIN t : t[i] \in Searched
            /\ \A i \in DOMAIN tx : tx[i] \in Searched
        <5> HIDE DEF tx, P
        <5> QED
          BY <2>1, LenProperties, ElementOfSeq
      <4> QED
        BY <4>1, SearchParts
    <3>2. u \in [DOMAIN t -> Seq(Parts)] /\ v \in [DOMAIN tx -> Seq(Parts)]
      BY <3>1
    <3>3. /\ \A i \in DOMAIN t : tx[i] = t[i] => v[i] = u[i]
          /\ tx[Len(t) + 1] = x => v[Len(t) + 1] = SearchPart[x]
      <4> HIDE DEF tx
      <4> QED
        BY <2>1
    <3>4. t \in Seq(Searched) /\ SearchPart[x] \in Seq(Parts)
      BY <2>1, <3>1
    <3> HIDE DEF u, v, L, P
    <3>5. u \in Seq(Seq(Parts)) /\ v = Append(u, SearchPart[x])
      BY <3>2, <3>3, <3>4, MapAppend
    <3> QED
      BY <3>5 DEF u, v
  <2> DEFINE u == L(t)
             v == SearchPart[x]
             w == FlattenSeq(u)
  <2>3. /\ w \in Seq(Parts) /\ v \in Seq(Parts) /\ u \in Seq(Seq(Parts))
        /\ Legible(v) /\ CallsIn(v) = {x.id}
        /\ Distinct(t) => Legible(w) /\ CallsIn(w) = IdsIn(t)
    BY <2>2, SearchParts
  <2>4. L(tx) = Append(u, v)
    BY <2>2
  <2> HIDE DEF u, v, tx, L, P
  <2>5. FlattenSeq(L(tx)) = w \o v
    BY <2>3, <2>4, FlatAppend
  <2> HIDE DEF w
  <2>6. w \o v \in Seq(Parts)
    BY <2>3, ConcatProperties
  <2>7. ASSUME Distinct(tx) PROVE Legible(w \o v) /\ CallsIn(w \o v) = IdsIn(tx)
    <3>1. Distinct(t) /\ x.id \notin IdsIn(t)
      BY <2>1, <2>7 DEF Distinct, IdsIn
    <3>2. IdsIn(tx) = IdsIn(t) \union {x.id}
      <4>1. \A i \in 1..(Len(t) + 1) : i \in 1..Len(t) \/ i = Len(t) + 1
        BY <2>1
      <4>2. \A i \in 1..Len(t) : i \in 1..(Len(t) + 1)
        BY <2>1
      <4>3. Len(t) + 1 \in 1..(Len(t) + 1)
        BY <2>1
      <4> QED
        BY <2>1, <4>1, <4>2, <4>3 DEF IdsIn
    <3> QED
      BY <2>3, <3>1, <3>2, LegibleConcat
  <2> QED
    BY <2>1, <2>5, <2>6, <2>7 DEF P, tx
<1>3. P = Seq(Searched)
  <2> HIDE DEF P
  <2>1. P \in SUBSET Seq(Searched)
    BY DEF P
  <2> QED
    BY <1>1, <1>2, <2>1, Growing
<1> QED
  BY <1>3

\* What an event that spoke reads as.
LEMMA SpokenRendered ==
    ASSUME NEW e \in TurnEvents, e.kind = "assistant"
    PROVE  /\ RenderEvent(e) \in Seq(Parts)
           /\ Distinct(e.calls) /\ Distinct(e.searches) /\ IdsIn(e.calls) \intersect IdsIn(e.searches) = {}
              => /\ Legible(RenderEvent(e))
                 /\ CallsIn(RenderEvent(e)) = IdsIn(e.calls) \union IdsIn(e.searches)
<1> DEFINE a == IF e.thinking THEN <<Block("thinking", None)>> ELSE <<>>
           b == IF e.text > 0 THEN <<TextBlock>> ELSE <<>>
           c == FlattenSeq([i \in DOMAIN e.searches |->
                  <<Block("call", e.searches[i].id)>>
                  \o (IF e.searches[i].got
                      THEN <<Block("result", e.searches[i].id)>> ELSE <<>>)])
           d == [i \in DOMAIN e.calls |-> Block("call", e.calls[i].id)]
<1>1. RenderEvent(e) = ((a \o b) \o c) \o d
  BY DEF RenderEvent
<1>2. e.searches \in Seq(Searched) /\ e.calls \in Seq(Calls)
  BY DEF TurnEvents
<1>3. a \in Seq(Parts) /\ Legible(a) /\ CallsIn(a) = {}
  <2> DEFINE x == Block("thinking", None)
  <2>1. x \in Parts /\ x.b = "thinking"
    BY PartsTyped
  <2>2. a \in {<<x>>, <<>>}
    OBVIOUS
  <2> HIDE DEF x, a
  <2>3. <<x>> \in Seq(Parts) /\ Legible(<<x>>) /\ CallsIn(<<x>>) = {}
    BY <2>1, LegibleOne
  <2> QED
    BY <2>2, <2>3, LegibleOne
<1>4. b \in Seq(Parts) /\ Legible(b) /\ CallsIn(b) = {}
  <2>1. TextBlock \in Parts /\ TextBlock.b = "text"
    BY PartsTyped
  <2>2. b \in {<<TextBlock>>, <<>>}
    OBVIOUS
  <2> HIDE DEF b
  <2>3. <<TextBlock>> \in Seq(Parts) /\ Legible(<<TextBlock>>) /\ CallsIn(<<TextBlock>>) = {}
    BY <2>1, LegibleOne
  <2> QED
    BY <2>2, <2>3, LegibleOne
<1>5. c \in Seq(Parts) /\ (Distinct(e.searches) => Legible(c) /\ CallsIn(c) = IdsIn(e.searches))
  <2> DEFINE s == e.searches
  <2>1. \A i \in DOMAIN s : s[i] \in Searched
    BY <1>2, LenProperties, ElementOfSeq
  <2>2. \A i \in DOMAIN s : SearchPart[s[i]] = <<Block("call", s[i].id)>>
            \o (IF s[i].got THEN <<Block("result", s[i].id)>> ELSE <<>>)
    BY <2>1 DEF SearchPart
  <2>3. c = FlattenSeq([i \in DOMAIN s |-> SearchPart[s[i]]])
    BY <2>2
  <2> HIDE DEF s, c
  <2>4. s \in Seq(Searched)
    BY <1>2 DEF s
  <2>5. c \in Seq(Parts) /\ (Distinct(s) => Legible(c) /\ CallsIn(c) = IdsIn(s))
    BY <2>3, <2>4, SearchesLegible
  <2> QED
    BY <2>5 DEF s
<1>6. d \in Seq(Parts) /\ (Distinct(e.calls) => Legible(d) /\ CallsIn(d) = IdsIn(e.calls))
  <2> DEFINE s == e.calls
             n == Len(s)
  <2>1. n \in Nat /\ DOMAIN s = 1..n /\ \A i \in 1..n : s[i] \in Calls
    BY <1>2, LenProperties, ElementOfSeq
  <2>2. \A i \in 1..n : /\ Block("call", s[i].id) \in Parts
                        /\ Block("call", s[i].id).b = "call"
                        /\ Block("call", s[i].id).id = s[i].id
    BY <2>1, PartsTyped DEF Calls
  <2>3. d \in [1..n -> Parts] /\ \A i \in 1..n : d[i].b = "call" /\ d[i].id = s[i].id
    BY <2>1, <2>2
  <2> HIDE DEF d, s, n
  <2>4. d \in Seq(Parts) /\ DOMAIN d = 1..n
    BY <2>1, <2>3
  <2>5. CallsIn(d) = IdsIn(s)
    BY <2>1, <2>3, <2>4 DEF CallsIn, IdsIn
  <2>6. Distinct(s) => Legible(d)
    BY <2>1, <2>3, <2>4 DEF Distinct, Legible
  <2> QED
    BY <2>4, <2>5, <2>6 DEF s
<1> HIDE DEF a, b, c, d
<1> DEFINE ab == a \o b
           abc == ab \o c
<1>7. ab \in Seq(Parts) /\ Legible(ab) /\ CallsIn(ab) = {}
  BY <1>3, <1>4, LegibleConcat
<1> HIDE DEF ab
<1>8. abc \in Seq(Parts) /\ (Distinct(e.searches) => Legible(abc) /\ CallsIn(abc) = IdsIn(e.searches))
  <2>1. abc \in Seq(Parts)
    BY <1>5, <1>7, ConcatProperties
  <2>2. ASSUME Distinct(e.searches) PROVE Legible(abc) /\ CallsIn(abc) = IdsIn(e.searches)
    <3>1. /\ Legible(c) /\ CallsIn(c) = IdsIn(e.searches)
          /\ CallsIn(ab) \intersect CallsIn(c) = {}
      BY <1>5, <1>7, <2>2
    <3>2. Legible(ab \o c) /\ CallsIn(ab \o c) = CallsIn(ab) \union CallsIn(c)
      BY <1>5, <1>7, <3>1, LegibleConcat
    <3> QED
      BY <1>7, <3>1, <3>2
  <2> QED
    BY <2>1, <2>2
<1> HIDE DEF abc
<1>9. abc \o d \in Seq(Parts)
  BY <1>6, <1>8, ConcatProperties
<1>10. ASSUME Distinct(e.calls), Distinct(e.searches),
              IdsIn(e.calls) \intersect IdsIn(e.searches) = {}
       PROVE  Legible(abc \o d) /\ CallsIn(abc \o d) = IdsIn(e.calls) \union IdsIn(e.searches)
  BY <1>6, <1>8, <1>10, LegibleConcat
<1> QED
  BY <1>1, <1>9, <1>10 DEF ab, abc

LEMMA EventRendered ==
    ASSUME NEW e \in TurnEvents
    PROVE  RenderEvent(e) \in Seq(Parts)
<1>1. CASE e.kind = "assistant"
  BY <1>1, SpokenRendered
<1>2. CASE e.kind = "tool"
  <2>1. RenderEvent(e) = <<Block("result", e.use)>>
    BY <1>2 DEF RenderEvent
  <2> DEFINE x == Block("result", e.use)
  <2>2. x \in Parts
    BY PartsTyped DEF TurnEvents
  <2> HIDE DEF x
  <2>3. <<x>> \in Seq(Parts)
    BY <2>2
  <2> QED
    BY <2>1, <2>3 DEF x
<1>3. CASE e.kind = "user"
  <2>1. RenderEvent(e) = <<TextBlock>>
    BY <1>3 DEF RenderEvent
  <2> QED
    BY <2>1, PartsTyped
<1> QED
  BY <1>1, <1>2, <1>3 DEF TurnEvents

\* One more event adds what it reads as.
LEMMA RenderAppend ==
    ASSUME NEW t \in Seq(TurnEvents), NEW e \in TurnEvents
    PROVE  /\ RenderTranscript(t) \in Seq(Parts)
           /\ RenderTranscript(Append(t, e)) = RenderTranscript(t) \o RenderEvent(e)
<1> DEFINE te == Append(t, e)
           u == [i \in DOMAIN t |-> RenderEvent(t[i])]
           v == [i \in DOMAIN te |-> RenderEvent(te[i])]
           y == RenderEvent(e)
<1>1. /\ te \in Seq(TurnEvents) /\ Len(t) \in Nat
      /\ DOMAIN t = 1..Len(t) /\ DOMAIN te = 1..(Len(t) + 1) /\ te[Len(t) + 1] = e
      /\ \A i \in 1..Len(t) : te[i] = t[i]
  <2>1. /\ te \in Seq(TurnEvents) /\ Len(te) = Len(t) + 1
        /\ te[Len(t) + 1] = e /\ \A i \in 1..Len(t) : te[i] = t[i]
    BY AppendProperties
  <2> HIDE DEF te
  <2> QED
    BY <2>1, LenProperties
<1>2. /\ \A i \in DOMAIN t : t[i] \in TurnEvents
      /\ \A i \in DOMAIN te : te[i] \in TurnEvents
  <2> HIDE DEF te
  <2> QED
    BY <1>1, LenProperties, ElementOfSeq
<1>3. /\ y \in Seq(Parts)
      /\ \A i \in DOMAIN t : RenderEvent(t[i]) \in Seq(Parts)
      /\ \A i \in DOMAIN te : RenderEvent(te[i]) \in Seq(Parts)
  BY <1>2, EventRendered
<1>4. u \in [DOMAIN t -> Seq(Parts)] /\ v \in [DOMAIN te -> Seq(Parts)]
  BY <1>3
<1>5. /\ \A i \in DOMAIN t : te[i] = t[i] => v[i] = u[i]
      /\ te[Len(t) + 1] = e => v[Len(t) + 1] = y
  <2> HIDE DEF te
  <2> QED
    BY <1>1
<1>6. RenderTranscript(t) = FlattenSeq(u) /\ RenderTranscript(te) = FlattenSeq(v)
  BY DEF RenderTranscript
<1> HIDE DEF u, v, y
<1>7. u \in Seq(Seq(Parts)) /\ v = Append(u, y)
  BY <1>3, <1>4, <1>5, MapAppend
<1>8. FlattenSeq(u) \in Seq(Parts) /\ FlattenSeq(v) = FlattenSeq(u) \o y
  BY <1>3, <1>7, FlatAppend
<1> QED
  BY <1>6, <1>8 DEF y

-----------------------------------------------------------------------------
(* The transcript of a turn. *)

\* Both requests that can be made of a transcript are well formed, but for the
\* calls that wait for their results.
Told(t, waiting) ==
    /\ t \in Seq(TurnEvents)
    /\ Sound(Mapped(t), waiting)
    /\ Legible(RenderTranscript(t)) /\ waiting \subseteq CallsIn(RenderTranscript(t))
Begun(t) == MessagesFromTranscript(t) # <<>>
UserSpokeLast(t) == Last(MessagesFromTranscript(t)).role = "user"

\* What is asked of one transcript begins with what was asked of another.
Within(a, t) ==
    LET old == MessagesFromTranscript(a)
        new == MessagesFromTranscript(t)
    IN  Len(old) <= Len(new) /\ \A i \in 1..Len(old) : new[i] = old[i]
Grows(a, t) ==
    Within(a, t) /\ Len(MessagesFromTranscript(a)) < Len(MessagesFromTranscript(t))

LEMMA MessagesTyped ==
    ASSUME NEW t, NEW waiting, Sound(Mapped(t), waiting)
    PROVE  /\ Mapped(t) \in Requests /\ MessagesFromTranscript(t) = Mapped(t).messages
           /\ MessagesFromTranscript(t) \in Seq(Messages)
           /\ Len(MessagesFromTranscript(t)) \in Nat
<1>1. Mapped(t) \in Requests /\ MessagesFromTranscript(t) = Mapped(t).messages
  BY DEF Sound, MessagesFromTranscript
<1>2. MessagesFromTranscript(t) \in Seq(Messages)
  BY <1>1 DEF Requests
<1> QED
  BY <1>1, <1>2, LenProperties

LEMMA WithinMore ==
    ASSUME NEW a, NEW t, NEW u,
           Len(MessagesFromTranscript(a)) \in Nat, Len(MessagesFromTranscript(t)) \in Nat,
           Len(MessagesFromTranscript(u)) \in Nat, Within(a, t), Within(t, u)
    PROVE  Within(a, u) /\ (Grows(a, t) \/ Grows(t, u) => Grows(a, u))
<1> DEFINE A == MessagesFromTranscript(a)
           T == MessagesFromTranscript(t)
           U == MessagesFromTranscript(u)
<1>1. /\ Len(A) <= Len(T) /\ Len(T) <= Len(U)
      /\ \A i \in 1..Len(A) : T[i] = A[i] 
      /\ \A i \in 1..Len(T) : U[i] = T[i]
  BY DEF Within
<1>2. Len(A) \in Nat /\ Len(T) \in Nat /\ Len(U) \in Nat
  OBVIOUS
<1>3. (Grows(a, t) => Len(A) < Len(T)) /\ (Grows(t, u) => Len(T) < Len(U))
  BY DEF Grows
<1> HIDE DEF A, T, U
<1>4. \A i \in 1..Len(A) : i \in 1..Len(T)
  BY <1>1, <1>2
<1>5. Len(A) <= Len(U) /\ (Grows(a, t) \/ Grows(t, u) => Len(A) < Len(U))
  BY <1>1, <1>2, <1>3
<1> QED
  BY <1>1, <1>4, <1>5 DEF Within, Grows, A, T, U

LEMMA WithinPrefix ==
    ASSUME NEW a, NEW t, NEW v, NEW w, Sound(Mapped(a), v), Sound(Mapped(t), w), Within(a, t)
    PROVE  IsPrefix(MessagesFromTranscript(a), MessagesFromTranscript(t))
<1> DEFINE A == MessagesFromTranscript(a)
           T == MessagesFromTranscript(t)
           n == Len(A)
<1>1. A \in Seq(Messages) /\ T \in Seq(Messages) /\ n \in Nat /\ Len(T) \in Nat
  BY MessagesTyped
<1>2. n <= Len(T) /\ \A i \in 1..n : T[i] = A[i]
  BY DEF Within
<1> HIDE DEF A, T
<1>3. \A i \in 1..n : A[i] \in Messages /\ T[i] \in Messages
  BY <1>1, <1>2, ElementOfSeq
<1> DEFINE p == SubSeq(A, 1, n)
           q == SubSeq(T, 1, n)
<1>4. /\ p \in Seq(Messages) /\ Len(p) = n /\ \A i \in 1..n : p[i] = A[i]
      /\ q \in Seq(Messages) /\ Len(q) = n /\ \A i \in 1..n : q[i] = T[i]
  <2> HIDE DEF n
  <2>1. /\ p \in Seq(Messages) /\ Len(p) = (IF 1 <= n THEN n - 1 + 1 ELSE 0)
        /\ \A i \in 1..(n - 1 + 1) : p[i] = A[1 + i - 1]
    BY <1>1, <1>3, SubSeqProperties
  <2>2. /\ q \in Seq(Messages) /\ Len(q) = (IF 1 <= n THEN n - 1 + 1 ELSE 0)
        /\ \A i \in 1..(n - 1 + 1) : q[i] = T[1 + i - 1]
    BY <1>1, <1>3, SubSeqProperties
  <2> HIDE DEF p, q
  <2>3. n - 1 + 1 = n /\ \A i \in 1..n : 1 + i - 1 = i
    BY <1>1
  <2>4. (IF 1 <= n THEN n - 1 + 1 ELSE 0) = n
    BY <1>1
  <2> QED
    BY <2>1, <2>2, <2>3, <2>4
<1> HIDE DEF p, q, n
<1>5. \A i \in 1..Len(p) : p[i] = q[i]
  BY <1>2, <1>4
<1>6. p = q
  BY <1>4, <1>5, SeqEqual
<1> QED
  BY <1>2, <1>6 DEF IsPrefix, A, T, p, q, n

LEMMA TextTyped == TextEvents \subseteq TurnEvents
<1> SUFFICES ASSUME NEW e \in TextEvents PROVE e \in TurnEvents
  OBVIOUS
<1>1. <<>> \in Seq(Calls) /\ <<>> \in Seq(Searched)
  OBVIOUS
<1> QED
  BY <1>1 DEF TextEvents, TurnEvents

\* A text, when no call waits.
LEMMA TextTold ==
    ASSUME NEW t, Told(t, {}), NEW e \in TextEvents
    PROVE  LET u == Append(t, e)
           IN  /\ Told(u, {}) /\ Grows(t, u) /\ Begun(u)
               /\ CallsIn(RenderTranscript(u)) = CallsIn(RenderTranscript(t))
               /\ e.kind = "user" => UserSpokeLast(u)
<1> DEFINE u == Append(t, e)
           r == RenderTranscript(t)
           x == RenderEvent(e)
<1>1. /\ e \in TurnEvents /\ e.kind \in {"user", "assistant"} /\ e.calls = <<>>
      /\ e.searches = <<>>
  BY TextTyped DEF TextEvents
<1>2. t \in Seq(TurnEvents) /\ Sound(Mapped(t), {}) /\ Legible(r)
  BY DEF Told
<1>3. u \in Seq(TurnEvents) /\ Mapped(u) = MapEvent(Mapped(t), e)
  BY <1>1, <1>2, AppendProperties, MappedAppend
<1>4. r \in Seq(Parts) /\ RenderTranscript(u) = r \o x
  BY <1>1, <1>2, RenderAppend
<1>5. x \in Seq(Parts) /\ Legible(x) /\ CallsIn(x) = {}
  <2>1. CASE e.kind = "user"
    <3>1. x = <<TextBlock>>
      BY <2>1 DEF RenderEvent
    <3>2. TextBlock \in Parts /\ TextBlock.b = "text"
      BY PartsTyped
    <3> HIDE DEF x
    <3> QED
      BY <3>1, <3>2, LegibleOne
  <2>2. CASE e.kind = "assistant"
    <3>1. Distinct(e.calls) /\ Distinct(e.searches) /\ IdsIn(e.calls) = {} /\ IdsIn(e.searches) = {}
      BY <1>1 DEF Distinct, IdsIn
    <3> QED
      BY <1>1, <2>2, <3>1, SpokenRendered
  <2> QED
    BY <1>1, <2>1, <2>2
<1> HIDE DEF r, x
<1>6. Legible(r \o x) /\ CallsIn(r \o x) = CallsIn(r)
  <2>1. CallsIn(r) \intersect CallsIn(x) = {}
    BY <1>5
  <2>2. Legible(r \o x) /\ CallsIn(r \o x) = CallsIn(r) \union CallsIn(x)
    BY <1>2, <1>4, <1>5, <2>1, LegibleConcat
  <2> QED
    BY <1>5, <2>2
<1> HIDE DEF u
<1> DEFINE next == Mapped(u)
           old == Mapped(t)
<1>7. /\ Sound(next, {}) /\ next.messages # <<>>
      /\ Len(next.messages) > Len(old.messages)
      /\ \A i \in 1..Len(old.messages) : next.messages[i] = old.messages[i]
      /\ e.kind = "user" => next.messages[Len(next.messages)].role = "user"
  <2> HIDE DEF old
  <2>1. Sound(old, {}) /\ next = MapEvent(old, e)
    BY <1>2, <1>3 DEF old
  <2> HIDE DEF next
  <2> QED
    BY <1>1, <2>1, TextMapped
<1>8. Told(u, {})
  BY <1>3, <1>4, <1>6, <1>7 DEF Told
<1>9. Len(old.messages) \in Nat /\ Len(next.messages) \in Nat
  BY <1>2, <1>7, MessagesTyped
<1>10. Len(old.messages) <= Len(next.messages) /\ Len(old.messages) < Len(next.messages)
  BY <1>7, <1>9
<1> QED
  BY <1>4, <1>6, <1>7, <1>8, <1>10
     DEF Grows, Within, Begun, UserSpokeLast, Last, MessagesFromTranscript, u, r

\* The memory that a turn begins with holds no calls.
LEMMA RingTold ==
    ASSUME NEW ring \in Seq(TextEvents)
    PROVE  Told(ring, {}) /\ CallsIn(RenderTranscript(ring)) = {}
<1> DEFINE P == {s \in Seq(TextEvents) : Told(s, {}) /\ CallsIn(RenderTranscript(s)) = {}}
<1>1. <<>> \in P
  <2>1. Mapped(<<>>) = Nothing /\ <<>> \in Seq(TurnEvents) /\ <<>> \in Seq(TextEvents)
    BY MappedNothing
  <2>2. Nothing \in Requests
    <3>1. <<>> \in Seq(Messages)
      OBVIOUS
    <3> QED
      BY <3>1 DEF Nothing, Requests
  <2>3. Sound(Nothing, {})
    <3>1. Nothing.messages = <<>> /\ Nothing.known = {} /\ Nothing.gathers = FALSE
          /\ Len(<<>>) = 0
      BY DEF Nothing
    <3> QED
      BY <2>2, <3>1 DEF Sound
  <2>4. RenderTranscript(<<>>) = <<>>
    <3>1. [i \in DOMAIN <<>> |-> RenderEvent(<<>>[i])] = <<>> /\ <<>> \in Seq(Parts)
      OBVIOUS
    <3> QED
      BY <3>1, FlatOne DEF RenderTranscript
  <2> QED
    BY <2>1, <2>3, <2>4, LegibleOne DEF Told
<1>2. ASSUME NEW s \in P, NEW e \in TextEvents PROVE Append(s, e) \in P
  <2>1. Told(s, {}) /\ CallsIn(RenderTranscript(s)) = {} /\ Append(s, e) \in Seq(TextEvents)
    BY AppendProperties
  <2> QED
    BY <2>1, TextTold
<1>3. P = Seq(TextEvents)
  <2> HIDE DEF P
  <2>1. P \in SUBSET Seq(TextEvents)
    BY DEF P
  <2> QED
    BY <1>1, <1>2, <2>1, Growing
<1> QED
  BY <1>3

LEMMA CallIdsOf == \A calls : {c.id : c \in ToSet(calls)} = IdsIn(calls)
BY DEF ToSet, IdsIn

\* A decision with calls, all of them new.
LEMMA CallsTold ==
    ASSUME NEW t, Told(t, {}), Begun(t), NEW e \in TurnEvents, e.kind = "assistant",
           e.calls # <<>>, Distinct(e.calls), Distinct(e.searches),
           IdsIn(e.calls) \intersect IdsIn(e.searches) = {},
           CallsIn(RenderTranscript(t)) \intersect (IdsIn(e.calls) \union IdsIn(e.searches)) = {}
    PROVE  LET u == Append(t, e)
           IN  /\ Told(u, IdsIn(e.calls)) /\ Grows(t, u) /\ Begun(u)
               /\ CallsIn(RenderTranscript(u)) = CallsIn(RenderTranscript(t))
                      \union IdsIn(e.calls) \union IdsIn(e.searches)
<1> DEFINE u == Append(t, e)
           r == RenderTranscript(t)
           x == RenderEvent(e)
           ids == IdsIn(e.calls)
<1>1. t \in Seq(TurnEvents) /\ Sound(Mapped(t), {}) /\ Legible(r) /\ Mapped(t).messages # <<>>
  BY DEF Told, Begun, MessagesFromTranscript
<1>2. u \in Seq(TurnEvents) /\ Mapped(u) = MapEvent(Mapped(t), e)
  BY <1>1, AppendProperties, MappedAppend
<1>3. r \in Seq(Parts) /\ RenderTranscript(u) = r \o x
  BY <1>1, RenderAppend
<1>4. x \in Seq(Parts) /\ Legible(x) /\ CallsIn(x) = ids \union IdsIn(e.searches)
  BY SpokenRendered
<1>5. CallsIn(r) \intersect CallsIn(x) = {}
  BY <1>4
<1> HIDE DEF r, x, u
<1>6. Legible(r \o x) /\ CallsIn(r \o x) = CallsIn(r) \union CallsIn(x)
  BY <1>1, <1>3, <1>4, <1>5, LegibleConcat
<1> DEFINE next == Mapped(u)
           old == Mapped(t)
<1>7. /\ Sound(next, ids) /\ Len(next.messages) = Len(old.messages) + 1
      /\ \A i \in 1..Len(old.messages) : next.messages[i] = old.messages[i]
  <2> HIDE DEF old
  <2>1. Sound(old, {}) /\ next = MapEvent(old, e) /\ old.messages # <<>>
    BY <1>1, <1>2 DEF old
  <2> HIDE DEF next
  <2> QED
    BY <2>1, CallsMapped, CallIdsOf
<1> HIDE DEF ids
<1>8. Told(u, ids)
  BY <1>2, <1>3, <1>4, <1>6, <1>7 DEF Told
<1>9. Len(old.messages) \in Nat /\ Len(next.messages) \in Nat
  BY <1>1, <1>7, MessagesTyped
<1>10. /\ Len(old.messages) <= Len(next.messages) /\ Len(old.messages) < Len(next.messages)
       /\ Len(next.messages) # 0
  BY <1>7, <1>9
<1>11. next.messages # <<>>
  BY <1>10
<1> QED
  BY <1>3, <1>4, <1>6, <1>7, <1>8, <1>10, <1>11
     DEF Grows, Within, Begun, MessagesFromTranscript, u, r, ids

\* The result of a call that waits.
LEMMA ResultTold ==
    ASSUME NEW t, NEW waiting, Told(t, waiting), Begun(t), NEW e \in TurnEvents,
           e.kind = "tool", e.use \in waiting
    PROVE  LET u == Append(t, e)
           IN  /\ Told(u, waiting \ {e.use}) /\ Begun(u) /\ UserSpokeLast(u)
               /\ CallsIn(RenderTranscript(u)) = CallsIn(RenderTranscript(t))
               /\ \A a : Len(MessagesFromTranscript(a)) \in Nat /\ Grows(a, t) => Grows(a, u)
<1> DEFINE u == Append(t, e)
           r == RenderTranscript(t)
           id == e.use
           rest == waiting \ {id}
<1>1. /\ t \in Seq(TurnEvents) /\ Sound(Mapped(t), waiting) /\ Legible(r)
      /\ Mapped(t).messages # <<>> /\ id \in CallsIn(r)
  BY DEF Told, Begun, MessagesFromTranscript
<1>2. u \in Seq(TurnEvents) /\ Mapped(u) = MapEvent(Mapped(t), e)
  BY <1>1, AppendProperties, MappedAppend
<1>3. r \in Seq(Parts) /\ RenderTranscript(u) = r \o <<Block("result", id)>>
  <2>1. RenderEvent(e) = <<Block("result", id)>>
    BY DEF RenderEvent
  <2> QED
    BY <1>1, <2>1, RenderAppend
<1>4. id \in Ids
  <2>1. waiting \subseteq Ids
    BY <1>1 DEF Sound, Requests
  <2> QED
    BY <2>1
<1> HIDE DEF r, u, id
<1>5. Legible(RenderTranscript(u)) /\ CallsIn(RenderTranscript(u)) = CallsIn(r)
  BY <1>1, <1>3, <1>4, LegibleResult
<1> DEFINE next == Mapped(u)
           old == Mapped(t)
           m == Len(old.messages)
           n == Len(next.messages)
<1>6. /\ Sound(next, rest) /\ next.gathers
      /\ n = IF old.gathers THEN m ELSE m + 1
      /\ \A i \in 1..(IF old.gathers THEN m - 1 ELSE m) : next.messages[i] = old.messages[i]
  <2> HIDE DEF old
  <2>1. Sound(old, waiting) /\ next = MapEvent(old, e) /\ old.messages # <<>> /\ e.use \in waiting
    BY <1>1, <1>2 DEF old
  <2> DEFINE made == MapEvent(old, e)
  <2> HIDE DEF next
  <2>2. /\ Sound(made, waiting \ {e.use}) /\ made.gathers
        /\ Len(made.messages) = IF old.gathers THEN Len(old.messages) ELSE Len(old.messages) + 1
        /\ \A i \in 1..(IF old.gathers THEN Len(old.messages) - 1 ELSE Len(old.messages)) :
              made.messages[i] = old.messages[i]
    BY <2>1, ResultMapped
  <2> HIDE DEF made
  <2>3. next = made
    BY <2>1 DEF made
  <2> QED
    BY <2>2, <2>3 DEF id
<1> HIDE DEF rest
<1>7. Told(u, rest)
  <2>1. waiting \subseteq CallsIn(r) /\ rest \subseteq waiting
    BY DEF Told, rest, r
  <2> QED
    BY <1>2, <1>5, <1>6, <2>1 DEF Told
<1>8. next.messages # <<>> /\ next.messages[n].role = "user"
  BY <1>6 DEF Sound
<1>9. ASSUME NEW a, Len(MessagesFromTranscript(a)) \in Nat, Grows(a, t)
      PROVE  Grows(a, u)
  <2> DEFINE A == MessagesFromTranscript(a)
             k == Len(A)
  <2>1. k \in Nat /\ k < m /\ \A i \in 1..k : old.messages[i] = A[i]
    BY <1>9 DEF Grows, Within, MessagesFromTranscript
  <2>2. m \in Nat /\ n \in Nat
    BY <1>1, <1>6, MessagesTyped
  <2> HIDE DEF A, k, m, n, old, next
  <2>3. k <= n /\ k < n
    BY <1>6, <2>1, <2>2
  <2>4. \A i \in 1..k : i \in 1..(IF old.gathers THEN m - 1 ELSE m)
    BY <2>1, <2>2
  <2>5. \A i \in 1..k : next.messages[i] = A[i]
    BY <1>6, <2>1, <2>4
  <2> QED
    BY <2>3, <2>5 DEF Grows, Within, MessagesFromTranscript, A, k, n, next
<1> QED
  BY <1>5, <1>7, <1>8, <1>9 DEF Begun, UserSpokeLast, Last, MessagesFromTranscript, u, r, rest, id

\* With every call answered and the user last, the request is accepted.
LEMMA ToldIsAccepted ==
    ASSUME NEW t, Told(t, {}), Begun(t), UserSpokeLast(t)
    PROVE  Acceptable(MessagesFromTranscript(t)) /\ Legible(RenderTranscript(t))
<1> DEFINE ms == MessagesFromTranscript(t)
           n == Len(ms)
<1>1. Sound(Mapped(t), {}) /\ ms = Mapped(t).messages
  BY DEF Told, MessagesFromTranscript
<1>2. ms \in Seq(Messages) /\ n \in Nat /\ DOMAIN ms = 1..n
  BY <1>1, MessagesTyped, LenProperties
<1>3. ms # <<>> /\ Last(ms).role = "user"
  BY DEF Begun, UserSpokeLast
<1>4. /\ ms[1].role = "user" /\ IdsOf(ms[1], "tool_result") = {}
      /\ IdsOf(ms[n], "tool_use") = {}
      /\ \A i \in 1..n : Whole(ms[i])
      /\ \A i \in 1..(n - 1) : IdsOf(ms[i], "tool_use") = IdsOf(ms[i + 1], "tool_result")
  BY <1>1, <1>3 DEF Sound
<1> HIDE DEF ms, n
<1>5. \A i \in DOMAIN ms : ms[i].content # <<>> /\ Paired(ms[i].content)
  BY <1>2, <1>4 DEF Whole
<1>6. ASSUME NEW i \in DOMAIN ms
      PROVE  IdsOf(ms[i], "tool_use")
               = IF i = Len(ms) THEN {} ELSE IdsOf(ms[i + 1], "tool_result")
  <2>1. i = n \/ i \in 1..(n - 1)
    BY <1>2
  <2>2. i \in 1..(n - 1) => i # n
    BY <1>2
  <2> QED
    BY <1>4, <2>1, <2>2 DEF n
<1>7. Acceptable(ms)
  BY <1>3, <1>4, <1>5, <1>6 DEF Acceptable, Paired
<1> QED
  BY <1>7 DEF Told, ms

-----------------------------------------------------------------------------
(* What a decision says, read off the answers. *)

SearchContents == [b : {"server_tool_use", "server_tool_result"}, id : SearchIds]
UseContents == [b : {"tool_use"}, id : CallIds \union {None}, does : Tools]
HeardCalls == [id : CallIds \union {None}, does : Tools]
HeardSearches == [id : SearchIds, got : BOOLEAN]
Heard == [reply : Nat, thinking : BOOLEAN, calls : Seq(HeardCalls),
          searches : Seq(HeardSearches)]

\* Picking items of a list, or joining lists, keeps their type.
LEMMA FlatTyped ==
    ASSUME NEW X, NEW n \in Nat, NEW u, DOMAIN u = 1..n, u = [i \in 1..n |-> u[i]],
           \A i \in 1..n : u[i] \in Seq(X)
    PROVE  FlattenSeq(u) \in Seq(X)
<1>1. u \in Seq(Seq(X))
  <2>1. u \in [1..n -> Seq(X)]
    OBVIOUS
  <2> QED
    BY <2>1
<1>2. <<>> \in Seq(X)
  OBVIOUS
<1> QED
  BY <1>1, <1>2, FlatAppend

LEMMA BlocksOfTyped ==
    ASSUME NEW response \in Responses
    PROVE  /\ BlocksOf(response, "server_tool_use") \in Seq(SearchContents)
           /\ BlocksOf(response, "tool_use") \in Seq(UseContents)
           /\ BlocksOf(response, "text") \in Seq(Contents)
           /\ BlocksOf(response, "thinking") \in Seq(Contents)
<1> DEFINE s == response.content
           n == Len(s)
           pick(b) == [i \in DOMAIN s |-> IF s[i].b = b THEN <<s[i]>> ELSE <<>>]
<1>1. s \in Seq(Contents)
  BY DEF Responses
<1>2. n \in Nat /\ DOMAIN s = 1..n /\ \A i \in 1..n : s[i] \in Contents
  BY <1>1, LenProperties, ElementOfSeq
<1>3. ASSUME NEW b, NEW X, \A c \in Contents : c.b = b => c \in X
      PROVE  BlocksOf(response, b) \in Seq(X)
  <2> DEFINE u == pick(b)
  <2>1. DOMAIN u = 1..n /\ u = [i \in 1..n |-> u[i]]
    BY <1>2
  <2>2. \A i \in 1..n : u[i] \in Seq(X)
    <3> TAKE i \in 1..n
    <3> DEFINE c == s[i]
    <3>1. c \in Contents /\ u[i] \in {<<c>>, <<>>} /\ (c.b # b => u[i] = <<>>)
      BY <1>2
    <3>2. c.b = b => c \in X
      BY <1>3, <3>1
    <3> HIDE DEF c, u
    <3>3. <<>> \in Seq(X) /\ (c \in X => <<c>> \in Seq(X))
      OBVIOUS
    <3> QED
      BY <3>1, <3>2, <3>3
  <2>3. BlocksOf(response, b) = FlattenSeq(u)
    BY DEF BlocksOf
  <2> HIDE DEF u, n
  <2> QED
    BY <1>2, <2>1, <2>2, <2>3, FlatTyped
<1>4. /\ \A c \in Contents : c.b = "server_tool_use" => c \in SearchContents
      /\ \A c \in Contents : c.b = "tool_use" => c \in UseContents
  BY DEF Contents, SearchContents, UseContents
<1>5. \A b : \A c \in Contents : c.b = b => c \in Contents
  OBVIOUS
<1> HIDE DEF s, n, pick
<1> QED
  BY <1>3, <1>4, <1>5

LEMMA TurnTyped ==
    ASSUME NEW response \in Responses
    PROVE  /\ TurnFromResponse(response) \in Heard
           /\ response.stop = "refusal" => TurnFromResponse(response).calls = <<>>
<1> DEFINE uses == BlocksOf(response, "server_tool_use")
           got(id) == Some(BlocksOf(response, "server_tool_result"),
                           LAMBDA block : block.id = id)
           tools == BlocksOf(response, "tool_use")
           text == BlocksOf(response, "text")
           thoughts == BlocksOf(response, "thinking")
<1>1. CASE response.stop = "refusal"
  <2>1. TurnFromResponse(response) = [NoTurn EXCEPT !.reply = 1]
    BY <1>1 DEF TurnFromResponse
  <2>2. <<>> \in Seq(HeardCalls) /\ <<>> \in Seq(HeardSearches)
    OBVIOUS
  <2>3. NoTurn \in Heard
    BY <2>2 DEF NoTurn, Heard
  <2>4. [NoTurn EXCEPT !.reply = 1] \in Heard /\ [NoTurn EXCEPT !.reply = 1].calls = NoTurn.calls
    BY <2>3 DEF Heard
  <2> QED
    BY <2>1, <2>4 DEF NoTurn
<1>2. CASE response.stop # "refusal"
  <2> DEFINE words == Len(text) + (IF response.stop = "max_tokens" THEN 1 ELSE 0)
             thought == thoughts # <<>>
             calls == [i \in DOMAIN tools |-> [id |-> tools[i].id, does |-> tools[i].does]]
             searches == [i \in DOMAIN uses |-> [id |-> uses[i].id, got |-> got(uses[i].id)]]
  <2>1. TurnFromResponse(response)
          = [reply |-> words, thinking |-> thought, calls |-> calls, searches |-> searches]
    BY <1>2 DEF TurnFromResponse
  <2>2. words \in Nat /\ thought \in BOOLEAN
    <3>1. Len(text) \in Nat
      BY BlocksOfTyped, LenProperties
    <3> HIDE DEF text
    <3> QED
      BY <3>1
  <2>3. calls \in Seq(HeardCalls)
    <3>1. tools \in Seq(UseContents)
      BY BlocksOfTyped
    <3> HIDE DEF tools
    <3>2. Len(tools) \in Nat /\ DOMAIN tools = 1..Len(tools)
          /\ \A i \in 1..Len(tools) : tools[i] \in UseContents
      BY <3>1, LenProperties, ElementOfSeq
    <3>3. \A i \in 1..Len(tools) : [id |-> tools[i].id, does |-> tools[i].does] \in HeardCalls
      BY <3>2 DEF UseContents, HeardCalls
    <3>4. calls \in [1..Len(tools) -> HeardCalls]
      BY <3>2, <3>3
    <3> HIDE DEF calls
    <3> QED
      BY <3>2, <3>4
  <2>4. searches \in Seq(HeardSearches)
    <3>1. uses \in Seq(SearchContents)
      BY BlocksOfTyped
    <3>2. \A id : got(id) \in BOOLEAN
      BY DEF Some
    <3> HIDE DEF uses, got
    <3>3. Len(uses) \in Nat /\ DOMAIN uses = 1..Len(uses)
          /\ \A i \in 1..Len(uses) : uses[i] \in SearchContents
      BY <3>1, LenProperties, ElementOfSeq
    <3>4. \A i \in 1..Len(uses) : [id |-> uses[i].id, got |-> got(uses[i].id)] \in HeardSearches
      BY <3>2, <3>3 DEF SearchContents, HeardSearches
    <3>5. searches \in [1..Len(uses) -> HeardSearches]
      BY <3>3, <3>4
    <3> HIDE DEF searches
    <3> QED
      BY <3>3, <3>5
  <2> HIDE DEF words, thought, calls, searches
  <2> QED
    BY <1>2, <2>1, <2>2, <2>3, <2>4 DEF Heard
<1> QED
  BY <1>1, <1>2

LEMMA DecideTyped ==
    ASSUME NEW answer \in Answers
    PROVE  Decide(answer) \in Heard
<1> DEFINE n == Len(answer)
           turns == [i \in DOMAIN answer |-> TurnFromResponse(answer[i])]
<1>1. answer \in Seq(Responses) /\ n \in Nat /\ n >= 1 /\ DOMAIN answer = 1..n
  <2>1. answer \in Seq(Responses) /\ n \in 1..(MaxPauseResumes + 1)
    BY TurnAssumption DEF IsChain
  <2> QED
    BY <2>1, LenProperties
<1>2. \A i \in 1..n : answer[i] \in Responses
  BY <1>1, ElementOfSeq
<1>3. DOMAIN turns = 1..n /\ \A i \in 1..n : turns[i] \in Heard
  BY <1>1, <1>2, TurnTyped
<1>4. Last(answer) \in Responses
  <2>1. n \in 1..n
    BY <1>1
  <2> QED
    BY <1>2, <2>1 DEF Last
<1>5. Decide(answer) \in {TurnFromResponse(Last(answer)), MergedTurn(turns)}
  BY DEF Decide
<1> HIDE DEF turns, n
<1>6. MergedTurn(turns) \in Heard
  <2> DEFINE replies == [i \in DOMAIN turns |-> turns[i].reply]
             calls == [i \in DOMAIN turns |-> turns[i].calls]
             searches == [i \in DOMAIN turns |-> turns[i].searches]
             thought == \E i \in DOMAIN turns : turns[i].thinking
  <2>1. MergedTurn(turns) = [reply |-> Total(replies), thinking |-> thought,
                             calls |-> FlattenSeq(calls), searches |-> FlattenSeq(searches)]
    BY DEF MergedTurn
  <2>2. \A i \in 1..n : /\ turns[i].reply \in Nat /\ turns[i].calls \in Seq(HeardCalls)
                        /\ turns[i].searches \in Seq(HeardSearches)
    BY <1>3 DEF Heard
  <2>3. Total(replies) \in Nat
    <3>1. replies \in [1..n -> Nat]
      BY <1>3, <2>2
    <3> HIDE DEF replies
    <3>2. replies \in Seq(Nat)
      BY <1>1, <3>1
    <3> QED
      BY <3>2, TotalIsNat
  <2>4. FlattenSeq(calls) \in Seq(HeardCalls)
    <3>1. DOMAIN calls = 1..n /\ calls = [i \in 1..n |-> calls[i]]
          /\ \A i \in 1..n : calls[i] \in Seq(HeardCalls)
      BY <1>3, <2>2
    <3> HIDE DEF calls
    <3> QED
      BY <1>1, <3>1, FlatTyped
  <2>5. FlattenSeq(searches) \in Seq(HeardSearches)
    <3>1. DOMAIN searches = 1..n /\ searches = [i \in 1..n |-> searches[i]]
          /\ \A i \in 1..n : searches[i] \in Seq(HeardSearches)
      BY <1>3, <2>2
    <3> HIDE DEF searches
    <3> QED
      BY <1>1, <3>1, FlatTyped
  <2>6. thought \in BOOLEAN
    OBVIOUS
  <2> HIDE DEF replies, calls, searches, thought
  <2> QED
    BY <2>1, <2>3, <2>4, <2>5, <2>6 DEF Heard
<1> QED
  BY <1>4, <1>5, <1>6, TurnTyped

\* The ids given are new with each decision: they carry what is left of the
\* budget, and the position.
At(ids, left) == \A id \in ids : id[2] = left

LEMMA CallsNamed ==
    ASSUME NEW s \in Seq(HeardCalls), NEW left \in Nat
    PROVE  LET w == WithIds(s, left)
           IN  /\ w \in Seq(Calls) /\ Distinct(w) /\ At(IdsIn(w), left)
               /\ \A id \in IdsIn(w) : id[1] \in CallIds \union {<<"toolu_gc">>}
<1> DEFINE n == Len(s)
           w == WithIds(s, left)
           id(i) == IF s[i].id = None THEN <<<<"toolu_gc">>, left, i>>
                                      ELSE <<s[i].id, left, i>>
<1>1. n \in Nat /\ DOMAIN s = 1..n /\ \A i \in 1..n : s[i] \in HeardCalls
  BY LenProperties, ElementOfSeq
<1>2. DOMAIN w = 1..n /\ \A i \in 1..n : w[i] = [s[i] EXCEPT !.id = id(i)]
  BY <1>1 DEF WithIds
<1>3. ASSUME NEW i \in 1..n
      PROVE  /\ id(i) \in Ids /\ id(i)[2] = left /\ id(i)[3] = i
             /\ id(i)[1] \in CallIds \union {<<"toolu_gc">>}
             /\ w[i] \in Calls /\ w[i].id = id(i)
  <2>1. s[i].id \in CallIds \union {None} /\ s[i].does \in Tools
        /\ s[i] = [id |-> s[i].id, does |-> s[i].does]
    BY <1>1 DEF HeardCalls
  <2>2. i \in Nat
    BY <1>1
  <2> DEFINE x == s[i].id
             y == id(i)
  <2>3. x = None => y = <<<<"toolu_gc">>, left, i>>
    OBVIOUS
  <2>4. x # None => y = <<x, left, i>> /\ x \in CallIds
    BY <2>1
  <2>5. w[i] = [id |-> y, does |-> s[i].does]
    BY <1>2, <2>1
  <2> HIDE DEF x, y
  <2>6. y \in Ids /\ y[2] = left /\ y[3] = i /\ y[1] \in CallIds \union {<<"toolu_gc">>}
    BY <2>2, <2>3, <2>4 DEF Ids
  <2>7. w[i] \in Calls /\ w[i].id = y
    BY <2>1, <2>5, <2>6 DEF Calls
  <2> QED
    BY <2>6, <2>7 DEF y
<1>4. w = [i \in 1..n |-> w[i]]
  BY <1>1 DEF WithIds
<1> HIDE DEF w, id, n
<1>5. w \in Seq(Calls)
  <2>1. w \in [1..n -> Calls]
    BY <1>2, <1>3, <1>4
  <2> QED
    BY <1>1, <2>1
<1>6. Distinct(w)
  BY <1>2, <1>3 DEF Distinct
<1>7. At(IdsIn(w), left) /\ \A x \in IdsIn(w) : x[1] \in CallIds \union {<<"toolu_gc">>}
  BY <1>2, <1>3 DEF IdsIn, At
<1> QED
  BY <1>5, <1>6, <1>7 DEF w

LEMMA SearchesNamed ==
    ASSUME NEW s \in Seq(HeardSearches), NEW left \in Nat
    PROVE  LET w == WithIds(s, left)
           IN  /\ w \in Seq(Searched) /\ Distinct(w) /\ At(IdsIn(w), left)
               /\ \A id \in IdsIn(w) : id[1] \in SearchIds
<1> DEFINE n == Len(s)
           w == WithIds(s, left)
           id(i) == IF s[i].id = None THEN <<<<"toolu_gc">>, left, i>>
                                      ELSE <<s[i].id, left, i>>
<1>1. n \in Nat /\ DOMAIN s = 1..n /\ \A i \in 1..n : s[i] \in HeardSearches
  BY LenProperties, ElementOfSeq
<1>2. DOMAIN w = 1..n /\ \A i \in 1..n : w[i] = [s[i] EXCEPT !.id = id(i)]
  BY <1>1 DEF WithIds
<1>3. ASSUME NEW i \in 1..n
      PROVE  /\ id(i) \in Ids /\ id(i)[2] = left /\ id(i)[3] = i /\ id(i)[1] \in SearchIds
             /\ w[i] \in Searched /\ w[i].id = id(i)
  <2>1. s[i].id \in SearchIds /\ s[i].got \in BOOLEAN
        /\ s[i] = [id |-> s[i].id, got |-> s[i].got]
    BY <1>1 DEF HeardSearches
  <2>2. i \in Nat /\ s[i].id # None
    BY <1>1, <2>1, ConversationAssumption DEF None
  <2> DEFINE y == id(i)
  <2>3. y = <<s[i].id, left, i>>
    BY <2>2
  <2>4. w[i] = [id |-> y, got |-> s[i].got]
    BY <1>2, <2>1
  <2> HIDE DEF y
  <2>5. y \in Ids /\ y[2] = left /\ y[3] = i /\ y[1] \in SearchIds
    BY <2>1, <2>2, <2>3 DEF Ids
  <2>6. w[i] \in Searched /\ w[i].id = y
    BY <2>1, <2>4, <2>5 DEF Searched
  <2> QED
    BY <2>5, <2>6 DEF y
<1>4. w = [i \in 1..n |-> w[i]]
  BY <1>1 DEF WithIds
<1> HIDE DEF w, id, n
<1>5. w \in Seq(Searched)
  <2>1. w \in [1..n -> Searched]
    BY <1>2, <1>3, <1>4
  <2> QED
    BY <1>1, <2>1
<1>6. Distinct(w)
  BY <1>2, <1>3 DEF Distinct
<1>7. At(IdsIn(w), left) /\ \A x \in IdsIn(w) : x[1] \in SearchIds
  BY <1>2, <1>3 DEF IdsIn, At
<1> QED
  BY <1>5, <1>6, <1>7 DEF w

\* What a decision adds to the transcript.
LEMMA DecisionTyped ==
    ASSUME NEW answer \in Answers, NEW left \in Nat
    PROVE  LET heard == Decide(answer)
               calls == WithIds(heard.calls, left)
               said == [heard EXCEPT !.calls = calls, !.searches = WithIds(@, left)]
               e == Decided(said)
           IN  /\ said.reply \in Nat /\ calls \in Seq(Calls) /\ e \in TurnEvents
               /\ e.kind = "assistant" /\ e.calls = calls
               /\ Distinct(calls) /\ Distinct(e.searches)
               /\ IdsIn(calls) \intersect IdsIn(e.searches) = {}
               /\ At(IdsIn(calls) \union IdsIn(e.searches), left)
<1> DEFINE heard == Decide(answer)
           calls == WithIds(heard.calls, left)
           searches == WithIds(heard.searches, left)
           said == [heard EXCEPT !.calls = calls, !.searches = WithIds(@, left)]
           e == Decided(said)
<1>1. heard \in Heard
  BY DecideTyped
<1> HIDE DEF heard
<1>2. /\ heard.reply \in Nat /\ heard.thinking \in BOOLEAN
      /\ heard.calls \in Seq(HeardCalls) /\ heard.searches \in Seq(HeardSearches)
      /\ heard = [reply |-> heard.reply, thinking |-> heard.thinking,
                  calls |-> heard.calls, searches |-> heard.searches]
  BY <1>1 DEF Heard
<1>3. /\ calls \in Seq(Calls) /\ Distinct(calls) /\ At(IdsIn(calls), left)
      /\ \A id \in IdsIn(calls) : id[1] \in CallIds \union {<<"toolu_gc">>}
  BY <1>2, CallsNamed
<1>4. /\ searches \in Seq(Searched) /\ Distinct(searches) /\ At(IdsIn(searches), left)
      /\ \A id \in IdsIn(searches) : id[1] \in SearchIds
  BY <1>2, SearchesNamed
<1> HIDE DEF calls, searches
<1>5. /\ said.reply = heard.reply /\ said.calls = calls /\ said.searches = searches
      /\ said.thinking = heard.thinking
  <2>1. said = [heard EXCEPT !.calls = calls, !.searches = searches]
    BY DEF searches
  <2> HIDE DEF said
  <2> QED
    BY <1>2, <2>1
<1> HIDE DEF said
<1>6. /\ e.kind = "assistant" /\ e.calls = calls /\ e.searches = searches
      /\ e \in TurnEvents
  <2> DEFINE v == Event("assistant", said.reply)
  <2>1. <<>> \in Seq(Calls) /\ <<>> \in Seq(Searched)
    OBVIOUS
  <2>2. v \in TurnEvents /\ v.kind = "assistant"
    BY <1>2, <1>5, <2>1 DEF Event, TurnEvents
  <2>3. e = [v EXCEPT !.calls = calls, !.searches = searches, !.thinking = heard.thinking]
    BY <1>5 DEF Decided
  <2> HIDE DEF v, e
  <2> QED
    BY <1>2, <1>3, <1>4, <2>2, <2>3 DEF TurnEvents
<1> HIDE DEF e
<1>8. IdsIn(calls) \intersect IdsIn(searches) = {}
  <2>1. (CallIds \union {<<"toolu_gc">>}) \intersect SearchIds = {}
    BY ConversationAssumption
  <2> QED
    BY <1>3, <1>4, <2>1
<1>9. At(IdsIn(calls) \union IdsIn(searches), left)
  BY <1>3, <1>4 DEF At
<1> QED
  BY <1>2, <1>3, <1>4, <1>5, <1>6, <1>8, <1>9 DEF heard, calls, said, e

-----------------------------------------------------------------------------
(* The memory of a session. *)

LEMMA ShrinkTyped ==
    ASSUME NEW ring \in Seq(TextEvents)
    PROVE  Shrink(ring) \in Seq(TextEvents)
<1> DEFINE n == Len(ring)
           texts(m) == [i \in 1..m |-> ring[n - m + i].text]
           Fits(m) == m <= MaxEvents /\ Total(texts(m)) <= MaxChars
           S == {m \in 0..n : Fits(m)}
           kept == Max(S)
<1>1. n \in Nat /\ \A i \in 1..n : ring[i] \in TextEvents
  BY LenProperties, ElementOfSeq
<1>2. 0 \in S
  <2>1. texts(0) = <<>>
    OBVIOUS
  <2>2. <<>> \in Seq(Nat)
    OBVIOUS
  <2>3. Total(texts(0)) = 0
    BY <2>1, <2>2, TotalIsNat
  <2> HIDE DEF texts
  <2>4. 0 \in 0..n /\ 0 <= MaxEvents /\ 0 <= MaxChars
    BY <1>1, ConversationAssumption
  <2> QED
    BY <2>3, <2>4
<1>3. S \subseteq 0..n
  OBVIOUS
<1>4. Shrink(ring) = SubSeq(ring, n - kept + 1, n)
  BY DEF Shrink
<1> HIDE DEF S, n
<1>5. \E top \in S : \A y \in S : top >= y
  <2> DEFINE T == {n - m : m \in S}
  <2>1. T \in SUBSET Nat /\ n - 0 \in T
    BY <1>1, <1>2, <1>3
  <2> HIDE DEF T
  <2>2. PICK low \in T : \A l \in T : low <= l
    BY <2>1, LeastOf
  <2>3. PICK top \in S : low = n - top
    BY DEF T
  <2>4. \A y \in S : n - y \in T
    BY DEF T
  <2>5. \A y \in S : n - top <= n - y
    BY <2>2, <2>3, <2>4
  <2>6. \A y \in S : y \in Int /\ top \in Int
    BY <1>3
  <2> QED
    BY <1>1, <2>5, <2>6
<1>6. kept \in S
  BY <1>5 DEF Max
<1> HIDE DEF kept
<1>7. kept \in 0..n
  BY <1>3, <1>6
<1>8. n - kept + 1 \in Int /\ n \in Int /\ \A i \in (n - kept + 1)..n : i \in 1..n
  BY <1>1, <1>7
<1>9. SubSeq(ring, n - kept + 1, n) \in Seq(TextEvents)
  BY <1>1, <1>8, SubSeqProperties
<1> QED
  BY <1>4, <1>9

LEMMA TextEventTyped ==
    ASSUME NEW kind \in {"user", "assistant"}, NEW text \in Nat
    PROVE  Event(kind, text) \in TextEvents
BY DEF Event, TextEvents

LEMMA RingsTyped ==
    /\ <<>> \in Seq(TextEvents)
    /\ \A ring \in Seq(TextEvents), reply \in Nat :
          RememberTurn(ring, 1, reply) \in Seq(TextEvents)
    /\ \A ring \in Seq(TextEvents) : RememberAssistant(ring, 1) \in Seq(TextEvents)
    /\ \A history \in Histories : Seed(history) \in Seq(TextEvents)
<1>1. ASSUME NEW ring \in Seq(TextEvents), NEW reply \in Nat
      PROVE  RememberTurn(ring, 1, reply) \in Seq(TextEvents)
  <2> DEFINE x == User(1)
             y == Event("assistant", reply)
  <2>1. x \in TextEvents /\ y \in TextEvents
    BY TextEventTyped DEF User
  <2>2. RememberTurn(ring, 1, reply) = Shrink(ring \o <<x, y>>)
    BY DEF RememberTurn
  <2> HIDE DEF x, y
  <2>3. <<x, y>> \in Seq(TextEvents)
    BY <2>1
  <2>4. ring \o <<x, y>> \in Seq(TextEvents)
    BY <2>3, ConcatProperties
  <2> QED
    BY <2>2, <2>4, ShrinkTyped
<1>2. ASSUME NEW ring \in Seq(TextEvents)
      PROVE  RememberAssistant(ring, 1) \in Seq(TextEvents)
  <2>1. Event("assistant", 1) \in TextEvents
    BY TextEventTyped
  <2>2. Append(ring, Event("assistant", 1)) \in Seq(TextEvents)
    BY <2>1, AppendProperties
  <2> QED
    BY <2>2, ShrinkTyped DEF RememberAssistant
<1>3. \A history \in Histories : Seed(history) \in Seq(TextEvents)
  BY TurnAssumption, ShrinkTyped DEF Seed
<1>4. <<>> \in Seq(TextEvents)
  OBVIOUS
<1> QED
  BY <1>1, <1>2, <1>3, <1>4

-----------------------------------------------------------------------------
(* What a turn asks. *)

RingInv == \A k \in Keys : Live(k) => sessions[k].ring \in Seq(TextEvents)

\* While the process runs its modes are known ones.
LoadInv ==
    /\ space.modes \subseteq Modes /\ space.link \in Modes \union {NoMode}
    /\ up => registry.modes \subseteq Modes /\ registry.default \in Modes

Above(ids, left) == \A id \in ids : id[2] \in Nat /\ id[2] > left

\* Before a decision every call is answered, and the ids still to be given are
\* new; before a call the ones that wait are those that remain.
Asks(t) ==
    /\ t.left \in Nat /\ t.left > 0
    /\ Told(t.transcript, {}) /\ Begun(t.transcript) /\ UserSpokeLast(t.transcript)
    /\ Above(CallsIn(RenderTranscript(t.transcript)), t.left)
    /\ Told(t.asked, {}) /\ Within(t.asked, t.transcript)
Calling(t) ==
    /\ t.left \in Nat /\ t.left > 0
    /\ t.calls \in Seq(Calls) /\ t.calls # <<>> /\ Distinct(t.calls)
    /\ Told(t.transcript, IdsIn(t.calls)) /\ Begun(t.transcript)
    /\ Above(CallsIn(RenderTranscript(t.transcript)), t.left - 1)
    /\ Told(t.asked, {}) /\ Grows(t.asked, t.transcript)

TalkInv ==
    /\ turn.stage = "decide" => Asks(turn)
    /\ turn.stage = "calls" => Calling(turn)
    /\ ~Idle => turn.reply \in Nat
    /\ RequestsAccepted

LEMMA TalkKept == TalkInv /\ UNCHANGED turn => TalkInv'
BY DEF TalkInv, Asks, Calling, Idle, RequestsAccepted

LEMMA TalkOver == turn' = NoTurn_ => TalkInv'
BY DEF TalkInv, Idle, RequestsAccepted, NoTurn_

LEMMA BeginTalks ==
    ASSUME NEW k \in Keys, NEW pin \in Modes \union {NoMode}, NEW readable \in BOOLEAN,
           LoadInv, Begin(k, pin, readable), NEW ring \in Seq(TextEvents),
           AfterSpec(Session(k, readable), pin).ring = ring
    PROVE  TalkInv'
<1> DEFINE s == AfterSpec(Session(k, readable), pin)
           mode == SpecMode(s, pin)
           e == User(1)
           t == Append(ring, e)
<1>1. /\ turn'.stage = "decide" /\ turn'.left = TurnLimit(Specs[mode])
      /\ turn'.transcript = t /\ turn'.asked = <<>> /\ turn'.reply = 0
  BY DEF Begin
<1>2. mode \in Modes
  BY DEF Begin, LoadInv, SpecMode
<1>3. TurnLimit(Specs[mode]) \in Nat /\ TurnLimit(Specs[mode]) > 0
  <2> HIDE DEF mode
  <2>1. Specs[mode].limit \in Nat /\ MaxToolCalls \in Nat /\ MaxToolCalls > 0
    BY <1>2, TurnAssumption
  <2>2. TurnLimit(Specs[mode]) = IF Specs[mode].limit > 0 THEN Specs[mode].limit ELSE MaxToolCalls
    BY DEF TurnLimit
  <2> QED
    BY <2>1, <2>2
<1> HIDE DEF mode, s
<1>4. Told(ring, {}) /\ CallsIn(RenderTranscript(ring)) = {}
  BY RingTold
<1>5. e \in TextEvents /\ e.kind = "user"
  BY TextEventTyped DEF User, Event
<1> HIDE DEF e
<1>6. /\ Told(t, {}) /\ Begun(t) /\ UserSpokeLast(t) /\ CallsIn(RenderTranscript(t)) = {}
  BY <1>4, <1>5, TextTold
<1>7. Told(<<>>, {}) /\ Len(MessagesFromTranscript(<<>>)) = 0
  <2>1. <<>> \in Seq(TextEvents)
    OBVIOUS
  <2>2. MessagesFromTranscript(<<>>) = <<>>
    BY MappedNothing DEF MessagesFromTranscript, Nothing
  <2> QED
    BY <2>1, <2>2, RingTold
<1>8. Len(MessagesFromTranscript(t)) \in Nat
  BY <1>6, MessagesTyped DEF Told
<1>9. Within(<<>>, t)
  BY <1>7, <1>8 DEF Within
<1> HIDE DEF t
<1>10. Asks(turn')
  BY <1>1, <1>3, <1>6, <1>7, <1>9 DEF Asks, Above
<1> QED
  BY <1>1, <1>10 DEF TalkInv, Idle, RequestsAccepted

\* The request: the transcript, with a warning before the last decision.
LEMMA WarnedAsks ==
    ASSUME Asks(turn)
    PROVE  /\ Told(Warned, {}) /\ Begun(Warned) /\ UserSpokeLast(Warned)
           /\ Above(CallsIn(RenderTranscript(Warned)), turn.left)
           /\ Told(turn.asked, {}) /\ Within(turn.asked, Warned)
<1> DEFINE t == turn.transcript
           e == User(1)
           a == turn.asked
<1>1. /\ Told(t, {}) /\ Begun(t) /\ UserSpokeLast(t)
      /\ Above(CallsIn(RenderTranscript(t)), turn.left) /\ Told(a, {}) /\ Within(a, t)
  BY DEF Asks
<1>2. CASE turn.left # 1
  BY <1>1, <1>2 DEF Warned
<1>3. CASE turn.left = 1
  <2> DEFINE w == Append(t, e)
  <2>1. Warned = w
    BY <1>3 DEF Warned
  <2>2. e \in TextEvents /\ e.kind = "user"
    BY TextEventTyped DEF User, Event
  <2> HIDE DEF e, t, a
  <2>3. /\ Told(w, {}) /\ Begun(w) /\ UserSpokeLast(w) /\ Grows(t, w)
        /\ CallsIn(RenderTranscript(w)) = CallsIn(RenderTranscript(t))
    BY <1>1, <2>2, TextTold
  <2> HIDE DEF w
  <2>4. /\ Len(MessagesFromTranscript(a)) \in Nat /\ Len(MessagesFromTranscript(t)) \in Nat
        /\ Len(MessagesFromTranscript(w)) \in Nat
    BY <1>1, <2>3, MessagesTyped DEF Told
  <2>5. Within(t, w)
    BY <2>3 DEF Grows
  <2>6. Within(a, w)
    BY <1>1, <2>4, <2>5, WithinMore
  <2> QED
    BY <1>1, <2>1, <2>3, <2>6 DEF a
<1> QED
  BY <1>2, <1>3

LEMMA AskTalks ==
    ASSUME TurnInv, TalkInv, NEW answer \in Answers, Ask(answer)
    PROVE  TalkInv'
<1> DEFINE heard == Decide(answer)
           calls == WithIds(heard.calls, turn.left)
           said == [heard EXCEPT !.calls = calls, !.searches = WithIds(@, turn.left)]
           e == Decided(said)
           stage == IF calls = <<>> THEN "finish" ELSE "calls"
           transcript == IF calls = <<>> THEN Warned ELSE Append(Warned, e)
           events == IF calls = <<>> THEN Append(turn.events, "reply") ELSE turn.events
           reply == said.reply
<1>1. turn.stage = "decide" /\ Asks(turn) /\ DOMAIN turn = Fields
  BY DEF Ask, TurnInv, TalkInv, Idle
<1>2. turn' = [turn EXCEPT !.before = turn.asked, !.asked = Warned, !.stage = stage,
                  !.transcript = transcript, !.calls = calls, !.reply = reply,
                  !.replied = (calls = <<>>), !.events = events]
  BY DEF Ask
<1>3. turn.left \in Nat /\ turn.left > 0
  BY <1>1 DEF Asks
<1>4. /\ reply \in Nat /\ calls \in Seq(Calls) /\ e \in TurnEvents
      /\ e.kind = "assistant" /\ e.calls = calls
      /\ Distinct(calls) /\ Distinct(e.searches)
      /\ IdsIn(calls) \intersect IdsIn(e.searches) = {}
      /\ At(IdsIn(calls) \union IdsIn(e.searches), turn.left)
  BY <1>3, DecisionTyped
<1>5. /\ calls = <<>> => stage = "finish"
      /\ calls # <<>> => stage = "calls" /\ transcript = Append(Warned, e)
  OBVIOUS
<1> HIDE DEF heard, calls, said, e, stage, transcript, events, reply
<1>6. /\ turn'.stage = stage /\ turn'.left = turn.left /\ turn'.transcript = transcript
      /\ turn'.calls = calls /\ turn'.reply = reply /\ turn'.asked = Warned
      /\ turn'.before = turn.asked
  BY <1>1, <1>2 DEF Fields
<1>7. /\ Told(Warned, {}) /\ Begun(Warned) /\ UserSpokeLast(Warned)
      /\ Above(CallsIn(RenderTranscript(Warned)), turn.left)
      /\ Told(turn.asked, {}) /\ Within(turn.asked, Warned)
  BY <1>1, WarnedAsks
<1> DEFINE w == Warned
           a == turn.asked
<1>8. RequestsAccepted'
  <2>1. Acceptable(MessagesFromTranscript(w)) /\ Legible(RenderTranscript(w))
    BY <1>7, ToldIsAccepted
  <2>2. IsPrefix(MessagesFromTranscript(a), MessagesFromTranscript(w))
    <3> HIDE DEF a, w
    <3>1. Sound(Mapped(a), {}) /\ Sound(Mapped(w), {}) /\ Within(a, w)
      BY <1>7 DEF Told, a, w
    <3> QED
      BY <3>1, WithinPrefix
  <2> HIDE DEF a, w
  <2>3. turn'.asked = w /\ turn'.before = a
    BY <1>6 DEF a, w
  <2> QED
    BY <2>1, <2>2, <2>3 DEF RequestsAccepted
<1>9. ASSUME calls # <<>> PROVE Calling(turn')
  <2> DEFINE u == Append(w, e)
             old == CallsIn(RenderTranscript(w))
             made == IdsIn(e.calls) \union IdsIn(e.searches)
  <2>1. /\ Told(w, {}) /\ Begun(w) /\ Above(old, turn.left)
    BY <1>7
  <2>2. e.calls # <<>> /\ Distinct(e.calls) /\ IdsIn(e.calls) \intersect IdsIn(e.searches) = {}
    BY <1>4, <1>9
  <2>3. At(made, turn.left)
    BY <1>4
  <2>4. \A id \in old : id[2] # turn.left
    BY <1>3, <2>1 DEF Above
  <2>5. old \intersect made = {}
    BY <2>3, <2>4 DEF At
  <2> HIDE DEF w
  <2>6. /\ Told(u, IdsIn(e.calls)) /\ Grows(w, u) /\ Begun(u)
        /\ CallsIn(RenderTranscript(u)) = old \union IdsIn(e.calls) \union IdsIn(e.searches)
    BY <1>4, <2>1, <2>2, <2>5, CallsTold
  <2>7. Above(CallsIn(RenderTranscript(u)), turn.left - 1)
    <3>1. \A id \in old : id[2] \in Nat /\ id[2] > turn.left - 1
      BY <1>3, <2>1 DEF Above
    <3>2. \A id \in made : id[2] \in Nat /\ id[2] > turn.left - 1
      BY <1>3, <2>3 DEF At
    <3> HIDE DEF old
    <3> QED
      BY <2>6, <3>1, <3>2 DEF Above
  <2>8. turn'.transcript = u /\ turn'.asked = w
    BY <1>5, <1>6, <1>9 DEF w
  <2> HIDE DEF u
  <2> QED
    BY <1>3, <1>4, <1>6, <1>9, <2>1, <2>2, <2>6, <2>7, <2>8 DEF Calling
<1> QED
  BY <1>4, <1>5, <1>6, <1>8, <1>9 DEF TalkInv

LEMMA NextCall ==
    ASSUME NEW s \in Seq(Calls), s # <<>>, Distinct(s)
    PROVE  /\ Head(s) \in Calls /\ Tail(s) \in Seq(Calls) /\ Distinct(Tail(s))
           /\ Head(s).id \in IdsIn(s) /\ IdsIn(Tail(s)) = IdsIn(s) \ {Head(s).id}
<1> DEFINE n == Len(s)
           r == Tail(s)
<1>1. n \in Nat /\ n > 0 /\ DOMAIN s = 1..n
  BY LenProperties, EmptySeq
<1>2. /\ Head(s) \in Calls /\ r \in Seq(Calls) /\ Len(r) = n - 1 /\ Head(s) = s[1]
      /\ \A i \in 1..(n - 1) : r[i] = s[i + 1]
  <2>1. /\ Head(s) \in Calls /\ r \in Seq(Calls) /\ Len(r) = n - 1
        /\ \A i \in 1..Len(r) : r[i] = s[i + 1]
    BY HeadTailProperties
  <2>2. Head(s) = s[1]
    BY DEF Head
  <2> QED
    BY <2>1, <2>2
<1>3. DOMAIN r = 1..(n - 1)
  BY <1>2, LenProperties
<1> HIDE DEF r, n
<1>4. \A i, j \in 1..n : i # j => s[i].id # s[j].id
  BY <1>1 DEF Distinct
<1>5. Distinct(r)
  <2>1. \A i \in 1..(n - 1) : i + 1 \in 1..n
    BY <1>1
  <2>2. \A i, j \in 1..(n - 1) : i # j => i + 1 # j + 1
    BY <1>1
  <2> QED
    BY <1>2, <1>3, <1>4, <2>1, <2>2 DEF Distinct
<1>6. IdsIn(s) = {s[i].id : i \in 1..n} /\ IdsIn(r) = {r[i].id : i \in 1..(n - 1)}
  BY <1>1, <1>3 DEF IdsIn
<1>7. s[1].id \in IdsIn(s)
  BY <1>1, <1>6
<1>8. IdsIn(r) = IdsIn(s) \ {s[1].id}
  <2>1. ASSUME NEW i \in 1..(n - 1) PROVE r[i].id \in IdsIn(s) /\ r[i].id # s[1].id
    <3>1. i + 1 \in 1..n /\ 1 \in 1..n /\ i + 1 # 1
      BY <1>1
    <3> QED
      BY <1>2, <1>4, <1>6, <3>1
  <2>2. ASSUME NEW i \in 1..n, s[i].id # s[1].id PROVE s[i].id \in IdsIn(r)
    <3>1. i # 1
      BY <2>2
    <3>2. i - 1 \in 1..(n - 1) /\ (i - 1) + 1 = i
      BY <1>1, <3>1
    <3>3. r[i - 1] = s[i]
      BY <1>2, <3>2
    <3> QED
      BY <1>6, <3>2, <3>3
  <2> QED
    BY <1>6, <2>1, <2>2
<1> QED
  BY <1>2, <1>5, <1>7, <1>8 DEF r

LEMMA ResultTyped ==
    ASSUME NEW call \in Calls
    PROVE  /\ Result(call) \in TurnEvents /\ Result(call).kind = "tool"
           /\ Result(call).use = call.id
<1> DEFINE v == Event("tool", 1)
           id == call.id
<1>1. <<>> \in Seq(Calls) /\ <<>> \in Seq(Searched) /\ id \in Ids
  BY DEF Calls
<1>2. v \in TurnEvents /\ v.kind = "tool"
  BY <1>1 DEF Event, TurnEvents
<1>3. Result(call) = [v EXCEPT !.use = id]
  BY DEF Result
<1> HIDE DEF v, id
<1>4. [v EXCEPT !.use = id] \in TurnEvents /\ [v EXCEPT !.use = id].kind = "tool"
      /\ [v EXCEPT !.use = id].use = id
  BY <1>1, <1>2 DEF TurnEvents
<1> QED
  BY <1>3, <1>4 DEF id

\* A call has run: the next one, the next decision, or the end.
LEMMA AnsweredTalks ==
    ASSUME TurnInv, TalkInv, turn.stage = "calls", NEW unavailable, turn' = Answered(unavailable)
    PROVE  TalkInv'
<1> DEFINE calls == turn.calls
           e == Result(Head(calls))
           u == Append(turn.transcript, e)
           a == turn.asked
           events == IF unavailable THEN Append(turn.events, "error") ELSE turn.events
           mid == [turn EXCEPT !.transcript = Append(@, Result(Head(turn.calls))),
                               !.calls = Tail(@),
                               !.events = IF unavailable THEN Append(@, "error") ELSE @]
<1>1. DOMAIN turn = Fields /\ Calling(turn) /\ turn.reply \in Nat /\ RequestsAccepted
  BY DEF TurnInv, TalkInv, Idle
<1>2. /\ mid.stage = "calls" /\ mid.transcript = u /\ mid.calls = Tail(calls)
      /\ mid.left = turn.left /\ mid.reply = turn.reply /\ mid.asked = a
      /\ mid.before = turn.before /\ DOMAIN mid = Fields
  BY <1>1 DEF Fields
<1>3. turn' = AfterCalls(mid)
  BY DEF Answered
<1>4. /\ turn.left \in Nat /\ turn.left > 0
      /\ calls \in Seq(Calls) /\ calls # <<>> /\ Distinct(calls)
      /\ Told(turn.transcript, IdsIn(calls)) /\ Begun(turn.transcript)
      /\ Above(CallsIn(RenderTranscript(turn.transcript)), turn.left - 1)
      /\ Told(a, {}) /\ Grows(a, turn.transcript)
  BY <1>1 DEF Calling
<1> DEFINE rest == Tail(calls)
           t == turn.transcript
<1> HIDE DEF calls, mid, a, t
<1>5. /\ Head(calls) \in Calls /\ rest \in Seq(Calls) /\ Distinct(rest)
      /\ Head(calls).id \in IdsIn(calls) /\ IdsIn(rest) = IdsIn(calls) \ {Head(calls).id}
  BY <1>4, NextCall
<1>6. e \in TurnEvents /\ e.kind = "tool" /\ e.use = Head(calls).id
  BY <1>5, ResultTyped
<1>7. e.use \in IdsIn(calls) /\ IdsIn(rest) = IdsIn(calls) \ {e.use}
  BY <1>5, <1>6
<1> HIDE DEF e, rest
<1>8. Told(t, IdsIn(calls)) /\ Begun(t) /\ Len(MessagesFromTranscript(a)) \in Nat /\ Grows(a, t)
      /\ Above(CallsIn(RenderTranscript(t)), turn.left - 1) /\ u = Append(t, e)
  BY <1>4, MessagesTyped DEF Told, t
<1> HIDE DEF u
<1>9. /\ Told(u, IdsIn(rest)) /\ Begun(u) /\ UserSpokeLast(u)
      /\ CallsIn(RenderTranscript(u)) = CallsIn(RenderTranscript(t)) /\ Grows(a, u)
  <2> DEFINE v == Append(t, e)
  <2>1. /\ Told(v, IdsIn(calls) \ {e.use}) /\ Begun(v) /\ UserSpokeLast(v)
        /\ CallsIn(RenderTranscript(v)) = CallsIn(RenderTranscript(t))
        /\ \A b : Len(MessagesFromTranscript(b)) \in Nat /\ Grows(b, t) => Grows(b, v)
    BY <1>6, <1>7, <1>8, ResultTold
  <2> HIDE DEF v
  <2>2. u = v
    BY <1>8 DEF v
  <2> QED
    BY <1>7, <1>8, <2>1, <2>2
<1>10. Above(CallsIn(RenderTranscript(u)), turn.left - 1)
  BY <1>8, <1>9
<1>11. /\ mid.stage = "calls" /\ mid.transcript = u /\ mid.calls = rest
       /\ mid.left = turn.left /\ mid.reply = turn.reply /\ mid.asked = a
       /\ mid.before = turn.before /\ DOMAIN mid = Fields
  BY <1>2 DEF rest
<1>12. turn'.asked = turn.asked /\ turn'.before = turn.before /\ turn'.reply = turn.reply
       /\ turn'.stage # "idle"
  <2>1. AfterCalls(mid) = mid \/ AfterCalls(mid) = [mid EXCEPT !.stage = "decide", !.left = @ - 1]
        \/ \E r, v : AfterCalls(mid) = [mid EXCEPT !.stage = "finish", !.replied = r, !.events = v]
    BY DEF AfterCalls
  <2> QED
    BY <1>3, <1>11, <2>1 DEF Fields, a
<1>13. RequestsAccepted'
  BY <1>1, <1>12 DEF RequestsAccepted, Idle
<1>14. CASE rest # <<>>
  <2>1. turn' = mid
    BY <1>3, <1>11, <1>14 DEF AfterCalls
  <2>2. Calling(turn')
    BY <1>4, <1>5, <1>9, <1>10, <1>11, <1>14, <2>1 DEF Calling
  <2> QED
    BY <1>1, <1>11, <1>12, <1>13, <2>1, <2>2 DEF TalkInv
<1>15. CASE rest = <<>> /\ turn.left > 1
  <2>1. turn' = [mid EXCEPT !.stage = "decide", !.left = @ - 1]
    BY <1>3, <1>11, <1>15 DEF AfterCalls
  <2>2. /\ turn'.stage = "decide" /\ turn'.left = turn.left - 1 /\ turn'.transcript = u
        /\ turn'.asked = a
    BY <1>11, <2>1 DEF Fields
  <2>3. IdsIn(rest) = {}
    BY <1>15 DEF IdsIn
  <2>4. turn.left - 1 \in Nat /\ turn.left - 1 > 0
    BY <1>4, <1>15
  <2>5. Asks(turn')
    BY <1>4, <1>9, <1>10, <2>2, <2>3, <2>4 DEF Asks, Grows
  <2> QED
    BY <1>1, <1>12, <1>13, <2>2, <2>5 DEF TalkInv
<1>16. CASE rest = <<>> /\ ~(turn.left > 1)
  <2>1. \E r, v : turn' = [mid EXCEPT !.stage = "finish", !.replied = r, !.events = v]
    BY <1>3, <1>11, <1>16 DEF AfterCalls
  <2>2. turn'.stage = "finish"
    BY <1>11, <2>1 DEF Fields
  <2> QED
    BY <1>1, <1>12, <1>13, <2>2 DEF TalkInv
<1> QED
  BY <1>14, <1>15, <1>16

\* The memories of the sessions hold texts.
LEMMA RingSet ==
    ASSUME TurnInv, RingInv, NEW k \in Keys, NEW s, s.ring \in Seq(TextEvents),
           sessions' = [sessions EXCEPT ![k] = s]
    PROVE  RingInv'
<1>1. sessions'[k] = s /\ \A j \in Keys \ {k} : sessions'[j] = sessions[j]
  BY DEF TurnInv
<1> QED
  BY <1>1 DEF RingInv, Live

LEMMA SessionRing ==
    ASSUME TurnInv, RingInv, NEW k \in Keys, NEW readable \in BOOLEAN
    PROVE  /\ Session(k, readable).ring \in Seq(TextEvents)
           /\ Restored(k, readable).ring \in Seq(TextEvents)
<1>1. \A mode : Fresh(mode).ring = <<>>
  BY DEF Fresh
<1>2. Restored(k, readable).ring = <<>>
  BY <1>1 DEF Restored
<1> QED
  BY <1>2, RingsTyped DEF Session, RingInv

LEMMA SameRing ==
    ASSUME NEW s, IsSession(s), NEW pin
    PROVE  AfterSpec(s, pin).ring = s.ring /\ Cleared(s).ring = s.ring
<1>1. Cleared(s).ring = s.ring
  BY DEF Cleared, IsSession, SessionFields
<1>2. CASE pin = NoMode /\ s.mode \notin registry.modes
  BY <1>1, <1>2 DEF AfterSpec, IsSession, SessionFields
<1>3. CASE ~(pin = NoMode /\ s.mode \notin registry.modes)
  BY <1>1, <1>3 DEF AfterSpec
<1> QED
  BY <1>1, <1>2, <1>3

LEMMA TurnRing ==
    ASSUME TurnInv, RingInv, TalkInv, ~Idle,
           \/ \E node \in Nodes : RunEdit(node)
           \/ RunFile \/ RunDraft \/ RunUnavailable \/ Finish \/ Record \/ Raise
    PROVE  RingInv'
<1> DEFINE k == turn.key
           s == sessions[k]
<1>1. k \in Keys /\ IsSession(s) /\ s.ring \in Seq(TextEvents) /\ turn.reply \in Nat
  BY DEF TurnInv, RingInv, TalkInv, Live
<1>2. DOMAIN s = SessionFields
  BY <1>1 DEF IsSession
<1>3. CASE \E node \in Nodes : RunEdit(node)
  <2>1. PICK unsaved : sessions' = [sessions EXCEPT ![k].unsaved = unsaved]
    BY <1>3 DEF RunEdit
  <2> DEFINE t == [s EXCEPT !.unsaved = unsaved]
  <2>2. t.ring = s.ring
    BY <1>2 DEF SessionFields
  <2>3. sessions' = [sessions EXCEPT ![k] = t]
    BY <2>1
  <2> HIDE DEF t, s
  <2> QED
    BY <1>1, <2>2, <2>3, RingSet
<1>4. CASE RunFile
  <2> DEFINE ids == Append(s.outbox, turn.id)
             t == [s EXCEPT !.outbox = ids]
  <2>1. sessions' = [sessions EXCEPT ![k] = t]
    BY <1>4 DEF RunFile
  <2> HIDE DEF ids
  <2>2. t.ring = s.ring
    BY <1>2 DEF SessionFields
  <2> HIDE DEF t, s
  <2> QED
    BY <1>1, <2>1, <2>2, RingSet
<1>5. CASE RunDraft
  <2> DEFINE ids == Append(s.drafted, turn.id)
             t == [s EXCEPT !.drafted = ids]
  <2>1. sessions' = [sessions EXCEPT ![k] = t]
    BY <1>5 DEF RunDraft
  <2> HIDE DEF ids
  <2>2. t.ring = s.ring
    BY <1>2 DEF SessionFields
  <2> HIDE DEF t, s
  <2> QED
    BY <1>1, <2>1, <2>2, RingSet
<1>6. CASE Finish \/ Raise
  <2>1. sessions' = sessions \/ sessions' = [sessions EXCEPT ![k] = Cleared(s)]
    BY <1>6 DEF Finish, Raise
  <2>2. Cleared(s).ring = s.ring
    BY <1>1, SameRing
  <2>3. CASE sessions' = sessions
    BY <2>3 DEF RingInv, Live
  <2> HIDE DEF s
  <2> QED
    BY <1>1, <2>1, <2>2, <2>3, RingSet
<1>7. CASE RunUnavailable
  <2>1. sessions' = sessions
    BY <1>7 DEF RunUnavailable, sessionVars
  <2> QED
    BY <2>1 DEF RingInv, Live
<1>8. CASE Record
  <2> DEFINE ring == RememberTurn(s.ring, 1, turn.reply)
             t == [s EXCEPT !.ring = ring]
  <2>1. sessions' = [sessions EXCEPT ![k] = Remembered(s)] /\ Remembered(s) \in {t, s}
    BY <1>8 DEF Record, Remembered
  <2>2. ring \in Seq(TextEvents)
    BY <1>1, RingsTyped
  <2> HIDE DEF ring
  <2>3. t.ring = ring
    BY <1>2 DEF SessionFields
  <2> HIDE DEF t, s
  <2> QED
    BY <1>1, <2>1, <2>2, <2>3, RingSet
<1> QED
  BY <1>3, <1>4, <1>5, <1>6, <1>7, <1>8

LEMMA CommandRing ==
    ASSUME TurnInv, RingInv, NEW k \in Keys, NEW readable \in BOOLEAN,
           \/ \E mode, reloaded : SwitchMode(k, mode, readable, reloaded)
           \/ Clear(k) \/ NoteScheduledPost(k, readable)
           \/ \E h \in Histories : SeedMemory(k, h, readable)
    PROVE  RingInv'
<1>0. /\ IsSession(Session(k, readable)) /\ IsSession(Restored(k, readable))
      /\ Session(k, readable).ring \in Seq(TextEvents)
      /\ Restored(k, readable).ring \in Seq(TextEvents)
  BY SessionFound, SessionRing
<1>1. CASE \E mode, reloaded : SwitchMode(k, mode, readable, reloaded)
  <2> DEFINE s == Session(k, readable)
             t == IF s.mode \in registry'.modes THEN s
                  ELSE [s EXCEPT !.mode = registry'.default]
  <2>1. \/ \E mode : Persist(k, t, mode)
        \/ sessions' = [sessions EXCEPT ![k] = t]
    BY <1>1 DEF SwitchMode
  <2>2. DOMAIN t = SessionFields /\ t.ring \in Seq(TextEvents)
    <3> DEFINE u == [s EXCEPT !.mode = registry'.default]
    <3>1. DOMAIN s = SessionFields /\ s.ring \in Seq(TextEvents) /\ t \in {s, u}
      BY <1>0 DEF IsSession
    <3> HIDE DEF s, t
    <3>2. DOMAIN u = SessionFields /\ u.ring = s.ring
      BY <3>1 DEF SessionFields
    <3> HIDE DEF u
    <3> QED
      BY <3>1, <3>2
  <2> HIDE DEF s, t
  <2>3. CASE sessions' = [sessions EXCEPT ![k] = t]
    BY <2>2, <2>3, RingSet
  <2>4. CASE \E mode : Persist(k, t, mode)
    <3>1. PICK mode, save :
             sessions' = [sessions EXCEPT ![k] =
                            [t EXCEPT !.mode = mode, !.mirror = mode,
                                      !.unsaved = IF save.saved THEN 0 ELSE @]]
      BY <2>4 DEF Persist
    <3> DEFINE unsaved == IF save.saved THEN 0 ELSE t.unsaved
               u == [t EXCEPT !.mode = mode, !.mirror = mode, !.unsaved = unsaved]
    <3>2. sessions' = [sessions EXCEPT ![k] = u]
      BY <3>1
    <3> HIDE DEF unsaved
    <3>3. u.ring = t.ring
      BY <2>2 DEF SessionFields
    <3> HIDE DEF u
    <3> QED
      BY <2>2, <3>2, <3>3, RingSet
  <2> QED
    BY <2>1, <2>3, <2>4
<1>2. CASE Clear(k)
  <2> DEFINE s == sessions[k]
             t == [s EXCEPT !.ring = <<>>]
  <2>1. Live(k) /\ sessions' = [sessions EXCEPT ![k] = t]
    BY <1>2 DEF Clear
  <2>2. DOMAIN s = SessionFields
    BY <2>1 DEF TurnInv, IsSession
  <2>3. t.ring = <<>>
    BY <2>2 DEF SessionFields
  <2> HIDE DEF t
  <2> QED
    BY <2>1, <2>3, RingsTyped, RingSet
<1>3. CASE NoteScheduledPost(k, readable)
  <2> DEFINE s == Session(k, readable)
             ring == RememberAssistant(s.ring, 1)
             t == [s EXCEPT !.ring = ring]
  <2>1. sessions' = [sessions EXCEPT ![k] = t]
    BY <1>3 DEF NoteScheduledPost
  <2>2. DOMAIN s = SessionFields /\ ring \in Seq(TextEvents)
    BY <1>0, RingsTyped DEF IsSession
  <2> HIDE DEF s, ring
  <2>3. t.ring = ring
    BY <2>2 DEF SessionFields
  <2> HIDE DEF t
  <2> QED
    BY <2>1, <2>2, <2>3, RingSet
<1>4. CASE \E h \in Histories : SeedMemory(k, h, readable)
  <2>1. PICK h \in Histories : SeedMemory(k, h, readable)
    BY <1>4
  <2> DEFINE s == Restored(k, readable)
             ring == Seed(h)
             t == [s EXCEPT !.ring = ring]
  <2>2. sessions' = [sessions EXCEPT ![k] = t]
    BY <2>1 DEF SeedMemory
  <2>3. DOMAIN s = SessionFields /\ ring \in Seq(TextEvents)
    BY <1>0, RingsTyped DEF IsSession
  <2> HIDE DEF s, ring
  <2>4. t.ring = ring
    BY <2>3 DEF SessionFields
  <2> HIDE DEF t
  <2> QED
    BY <2>2, <2>3, <2>4, RingSet
<1> QED
  BY <1>1, <1>2, <1>3, <1>4

\* What is loaded is what the space holds.
LEMMA LoadedKnown ==
    ASSUME LoadInv, Loadable(space)
    PROVE  LoadRegistry(space).modes \subseteq Modes /\ LoadRegistry(space).default \in Modes
<1>1. space.modes \subseteq Modes /\ space.modes # {} /\ space.link \in space.modes \union {NoMode}
  BY DEF LoadInv, Loadable
<1>2. LoadRegistry(space).modes = space.modes
  BY DEF LoadRegistry
<1>3. CASE space.link # NoMode
  BY <1>1, <1>2, <1>3 DEF LoadRegistry
<1>4. CASE space.link = NoMode
  <2> DEFINE S == space.modes
  <2>1. S \in SUBSET Nat /\ \E n : n \in S
    BY <1>1, TurnAssumption
  <2> HIDE DEF S
  <2>2. \E m \in S : \A l \in S : m <= l
    BY <2>1, LeastOf
  <2>3. (CHOOSE m \in S : \A n \in S : m <= n) \in S
    BY <2>2
  <2>4. LoadRegistry(space).default = CHOOSE m \in S : \A n \in S : m <= n
    BY <1>4 DEF LoadRegistry, S
  <2> QED
    BY <1>1, <1>2, <2>3, <2>4 DEF S
<1> QED
  BY <1>3, <1>4

LEMMA LoadStep ==
    ASSUME StampInv, LoadInv, Next
    PROVE  LoadInv'
<1>1. CASE UNCHANGED <<up, space, registry>>
  BY <1>1 DEF LoadInv
<1>2. CASE \E reloaded : Reload(reloaded) /\ UNCHANGED <<up, space>>
  <2>1. registry' = registry \/ (registry' = LoadRegistry(space) /\ Loadable(space))
    BY <1>2 DEF Reload, Reloads
  <2>2. CASE registry' = registry
    BY <1>2, <2>2 DEF LoadInv
  <2>3. CASE registry' = LoadRegistry(space) /\ Loadable(space)
    BY <1>2, <2>3, LoadedKnown DEF LoadInv
  <2> QED
    BY <2>1, <2>2, <2>3
<1>3. CASE \E k, mode, readable, reloaded : SwitchMode(k, mode, readable, reloaded)
  BY <1>2, <1>3 DEF SwitchMode
<1>4. CASE \E reloaded : Tick(reloaded)
  BY <1>2, <1>4 DEF Tick
<1>5. CASE People
  <2>1. UNCHANGED <<up, registry>>
    BY <1>5 DEF People, EditModes, EditLink, DeleteSession, modeVars
  <2>2. space'.modes \subseteq Modes /\ space'.link \in Modes \union {NoMode}
    <3>1. CASE \E edit \in Edits : EditModes(edit.modes, edit.sound)
      <4>1. PICK edit \in Edits : space' = [space EXCEPT !.modes = edit.modes, !.sound = edit.sound,
                                                       !.modesRev = @ + 1]
        BY <3>1 DEF EditModes
      <4>2. edit.modes \subseteq Modes
        BY TurnAssumption
      <4>3. space'.modes = edit.modes /\ space'.link = space.link
        BY <4>1 DEF StampInv
      <4> QED
        BY <4>2, <4>3 DEF LoadInv
    <3>2. CASE \E mode \in Modes \union {NoMode} : EditLink(mode)
      <4>1. PICK mode \in Modes \union {NoMode} :
                space' = [space EXCEPT !.link = mode, !.linkRev = @ + 1]
        BY <3>2 DEF EditLink
      <4>2. space'.modes = space.modes /\ space'.link = mode
        BY <4>1 DEF StampInv
      <4> QED
        BY <4>2 DEF LoadInv
    <3>3. CASE \E k \in Keys : DeleteSession(k)
      BY <3>3 DEF DeleteSession, modeVars, LoadInv
    <3> QED
      BY <1>5, <3>1, <3>2, <3>3 DEF People
  <2> QED
    BY <2>1, <2>2 DEF LoadInv
<1>6. CASE Crash \/ Shutdown
  <2>1. up' = FALSE /\ UNCHANGED space
    BY <1>6 DEF Crash, Shutdown, modeVars
  <2> QED
    BY <2>1 DEF LoadInv
<1>7. CASE Start
  <2>1. UNCHANGED space /\ Loadable(space) /\ registry' = LoadRegistry(space)
    BY <1>7 DEF Start
  <2> QED
    BY <2>1, LoadedKnown DEF LoadInv
<1>8. CASE Turns
  <2>1. UNCHANGED <<up, modeVars>>
    BY <1>8 DEF Turns, Begin, Ask, RunEdit, RunFile, RunDraft, RunUnavailable, Finish,
                Record, Raise
  <2> QED
    BY <1>1, <2>1 DEF modeVars
<1>9. CASE \/ \E k : Clear(k)
           \/ \E k, readable : \/ NoteScheduledPost(k, readable)
                               \/ \E h : SeedMemory(k, h, readable)
  <2>1. UNCHANGED <<up, modeVars>>
    BY <1>9 DEF Clear, NoteScheduledPost, SeedMemory
  <2> QED
    BY <1>1, <2>1 DEF modeVars
<1> QED
  BY <1>3, <1>4, <1>5, <1>6, <1>7, <1>8, <1>9 DEF Next, Commands, Process

LEMMA TalkStep ==
    ASSUME TurnInv, RingInv, LoadInv, TalkInv, Next
    PROVE  RingInv' /\ TalkInv'
<1>1. ASSUME NEW k \in Keys, NEW pin \in Modes \union {NoMode}, NEW readable \in BOOLEAN,
             Begin(k, pin, readable)
      PROVE  RingInv' /\ TalkInv'
  <2> DEFINE s == AfterSpec(Session(k, readable), pin)
  <2>1. IsSession(Session(k, readable)) /\ Session(k, readable).ring \in Seq(TextEvents)
    BY SessionFound, SessionRing
  <2>2. s.ring \in Seq(TextEvents) /\ IsSession(s)
    BY <2>1, SameRing, BegunSession
  <2>3. TalkInv'
    BY <1>1, <2>2, BeginTalks
  <2>4. sessions' = [sessions EXCEPT ![k] = Cleared(s)]
    BY <1>1 DEF Begin
  <2> HIDE DEF s
  <2>5. RingInv'
    BY <2>2, <2>4, SameRing, RingSet
  <2> QED
    BY <2>3, <2>5
<1>2. ASSUME NEW answer \in Answers, Ask(answer) PROVE RingInv' /\ TalkInv'
  <2>1. UNCHANGED sessions
    BY <1>2 DEF Ask, sessionVars
  <2>2. RingInv'
    BY <2>1 DEF RingInv, Live
  <2> QED
    BY <1>2, <2>2, AskTalks
<1>3. CASE (\E node \in Nodes : RunEdit(node)) \/ RunFile \/ RunDraft \/ RunUnavailable
  <2>1. turn.stage = "calls" /\ \E u \in BOOLEAN : turn' = Answered(u)
    BY <1>3 DEF RunEdit, RunFile, RunDraft, RunUnavailable
  <2>2. ~Idle
    BY <2>1 DEF Idle
  <2> QED
    BY <1>3, <2>1, <2>2, AnsweredTalks, TurnRing
<1>4. CASE Finish
  <2>1. turn.stage = "finish" /\ turn' = [turn EXCEPT !.stage = "record", !.events = Outgoing]
    BY <1>4 DEF Finish
  <2>2. ~Idle /\ DOMAIN turn = Fields
    BY <2>1 DEF Idle, TurnInv
  <2> DEFINE sent == Outgoing
  <2> HIDE DEF sent
  <2>3. turn' = [turn EXCEPT !.stage = "record", !.events = sent]
    BY <2>1 DEF sent
  <2>4. /\ turn'.stage = "record" /\ turn'.reply = turn.reply /\ turn'.asked = turn.asked
        /\ turn'.before = turn.before
    BY <2>2, <2>3 DEF Fields
  <2>5. TalkInv'
    BY <2>2, <2>4 DEF TalkInv, RequestsAccepted, Idle
  <2> QED
    BY <1>4, <2>2, <2>5, TurnRing
<1>5. CASE Record \/ Raise
  <2>1. turn' = NoTurn_ /\ ~Idle
    BY <1>5 DEF Record, Raise, Idle
  <2> QED
    BY <1>5, <2>1, TalkOver, TurnRing
<1>6. CASE Commands
  <2>1. \E k \in Keys, readable \in BOOLEAN :
           \/ \E mode, reloaded : SwitchMode(k, mode, readable, reloaded)
           \/ Clear(k) \/ NoteScheduledPost(k, readable)
           \/ \E h \in Histories : SeedMemory(k, h, readable)
    BY <1>6 DEF Commands
  <2>2. UNCHANGED turn
    BY <1>6 DEF Commands, SwitchMode, Clear, NoteScheduledPost, SeedMemory
  <2> QED
    BY <2>1, <2>2, CommandRing, TalkKept
<1>7. CASE People \/ Start \/ \E reloaded \in BOOLEAN : Tick(reloaded)
  <2>1. UNCHANGED <<turn, sessions>>
    BY <1>7 DEF People, EditModes, EditLink, DeleteSession, Start, Tick, sessionVars, recordVars
  <2> QED
    BY <2>1, TalkKept DEF RingInv, Live
<1>8. CASE Crash \/ Shutdown
  <2>1. sessions' = [k \in Keys |-> NoSession] /\ (turn' = NoTurn_ \/ turn' = turn)
    BY <1>8 DEF Crash, Shutdown
  <2>2. RingInv'
    BY <2>1 DEF RingInv, Live
  <2> QED
    BY <2>1, <2>2, TalkKept, TalkOver
<1> QED
  BY <1>1, <1>2, <1>3, <1>4, <1>5, <1>6, <1>7, <1>8 DEF Next, Turns, Process

LEMMA TalkBegins == Init => RingInv /\ LoadInv /\ TalkInv
<1> SUFFICES ASSUME Init PROVE RingInv /\ LoadInv /\ TalkInv
  OBVIOUS
<1>1. RingInv
  BY DEF Init, RingInv, Live
<1>2. LoadInv
  <2>1. up = FALSE /\ space.modes = Modes /\ space.link = NoMode
    BY DEF Init
  <2> QED
    BY <2>1 DEF LoadInv
<1>3. TalkInv
  BY DEF Init, TalkInv, NoTurn_, Idle, RequestsAccepted
<1> QED
  BY <1>1, <1>2, <1>3

-----------------------------------------------------------------------------
(* The invariant. *)

IInv ==
    /\ TurnInv /\ OwnInv /\ CreditInv /\ PromiseInv /\ StampInv
    /\ RingInv /\ LoadInv /\ TalkInv

LEMMA TurnStep ==
    ASSUME TurnInv, OwnInv, Next
    PROVE  TurnInv' /\ OwnInv'
<1>1. ASSUME NEW k \in Keys, NEW pin, NEW readable \in BOOLEAN, Begin(k, pin, readable)
      PROVE  TurnInv' /\ OwnInv'
  BY <1>1, BeginStep
<1>2. ASSUME NEW answer, Ask(answer) PROVE TurnInv' /\ OwnInv'
  BY <1>2, AskStep
<1>3. CASE (\E node \in Nodes : RunEdit(node)) \/ RunFile \/ RunDraft \/ RunUnavailable
  BY <1>3, RunStep
<1>4. CASE Finish
  BY <1>4, FinishStep
<1>5. CASE Record \/ Raise
  BY <1>5, OverStep
<1>6. CASE Commands
  <2>1. \E k \in Keys, readable \in BOOLEAN :
           \/ \E mode, reloaded : SwitchMode(k, mode, readable, reloaded)
           \/ Clear(k) \/ NoteScheduledPost(k, readable)
           \/ \E h : SeedMemory(k, h, readable)
    BY <1>6 DEF Commands
  <2> QED
    BY <2>1, CommandStep
<1>7. CASE People
  <2>1. Spend("edit") /\ UNCHANGED <<turn, sessions, out>>
    BY <1>7 DEF People, EditModes, EditLink, DeleteSession, sessionVars, recordVars
  <2>2. spent' \in [Events -> Nat] /\ spent'["turn"] = spent["turn"]
    BY <2>1, Spent DEF TurnInv, Events
  <2> QED
    BY <2>1, <2>2, QuietStep
<1>8. CASE Crash \/ Shutdown
  BY <1>8, EndStep
<1>9. CASE Start \/ \E reloaded \in BOOLEAN : Tick(reloaded)
  <2>1. UNCHANGED <<turn, sessions, out, spent>>
    BY <1>9 DEF Start, Tick, sessionVars, recordVars
  <2>2. spent' \in [Events -> Nat] /\ spent'["turn"] = spent["turn"]
    BY <2>1 DEF TurnInv
  <2> QED
    BY <2>1, <2>2, QuietStep
<1> QED
  BY <1>1, <1>2, <1>3, <1>4, <1>5, <1>6, <1>7, <1>8, <1>9 DEF Next, Turns, Process

LEMMA InitHolds == Init => IInv
<1> SUFFICES ASSUME Init PROVE IInv
  OBVIOUS
<1>1. TurnInv
  BY DEF Init, TurnInv, Live, Idle, NoTurn_, Events
<1>2. OwnInv
  BY DEF Init, OwnInv, NoTurn_, Working, DeliversOwn
<1>3. CreditInv
  <2>1. journal = <<>> /\ intents = {}
    BY DEF Init
  <2>2. journal \in Seq(Credits)
    BY <2>1
  <2> QED
    BY <2>1, <2>2 DEF CreditInv, CreditedOnce
<1>4. PromiseInv
  BY DEF Init, PromiseInv
<1>5. StampInv
  <2>1. /\ DOMAIN space = {"modes", "sound", "link", "modesRev", "linkRev"}
        /\ space.modesRev = 0 /\ space.linkRev = 0
    BY DEF Init
  <2>2. up = FALSE /\ seen = Stamps(space) /\ watch = Unset /\ registry.at = Stamps(space)
    BY DEF Init, LoadRegistry
  <2> QED
    BY <2>1, <2>2 DEF StampInv, Stamps
<1> QED
  BY <1>1, <1>2, <1>3, <1>4, <1>5, TalkBegins DEF IInv

LEMMA NextKeeps == IInv /\ [Next]_vars => IInv'
<1> SUFFICES ASSUME IInv, [Next]_vars PROVE IInv'
  OBVIOUS
<1>1. CASE Next
  BY <1>1, TurnStep, CreditStep, PromiseStep, StampStep, LoadStep, TalkStep DEF IInv
<1>2. CASE UNCHANGED vars
  <2>1. UNCHANGED <<up, space, seen, watch, registry, missed>>
    BY <1>2 DEF vars, modeVars
  <2>2. UNCHANGED <<store, located, sessions, promised, journal, out, intents, failed, turn, spent>>
    BY <1>2 DEF vars, sessionVars, recordVars
  <2>3. TurnInv' /\ OwnInv'
    BY <2>2, QuietStep DEF IInv, TurnInv
  <2>4. CreditInv'
    BY <2>2, CreditKept DEF IInv, Idle
  <2>5. PromiseInv'
    BY <2>2, PromiseSame DEF IInv
  <2>6. StampInv'
    BY <2>1 DEF IInv, StampInv
  <2>7. RingInv' /\ LoadInv' /\ TalkInv'
    BY <2>1, <2>2, TalkKept DEF IInv, RingInv, LoadInv, Live
  <2> QED
    BY <2>3, <2>4, <2>5, <2>6, <2>7 DEF IInv
<1> QED
  BY <1>1, <1>2

THEOREM Invariant == Spec => []IInv
BY InitHolds, NextKeeps, PTL DEF Spec

\* Every edit the journal drains into an intent node is credited to one turn
\* that recorded: its own, or the next one when its own raised first.  What is
\* in the journal is of the turn that runs or of one that raised, and in no
\* intent yet (MutationJournal.drain, Orchestrator._finish_turn).
THEOREM CreditIsOnce == Spec => []CreditedOnce
<1>1. IInv => CreditedOnce
  BY DEF IInv, CreditInv
<1> QED
  BY <1>1, Invariant, PTL

\* What a turn delivers it made itself, whichever turns of its session raised
\* before it and left files or drafts behind (Orchestrator.handle_message).
THEOREM DeliveryIsOwn == Spec => []DeliversOwn
<1>1. IInv => DeliversOwn
  BY DEF IInv, OwnInv
<1> QED
  BY <1>1, Invariant, PTL

\* A session is in the mode a person was last told, and the modes loaded are
\* those the tick saw, for any history of commands, pinned turns, failed saves,
\* stops and edits of the mode objects: the snapshot holds every mode that was
\* promised (_switch_mode, _persist_mode, _override_spec, ModeConfigWatch).
THEOREM ModesResume == Spec => []ModeResumes
<1>1. IInv => ModeResumes
  BY DEF IInv, PromiseInv, StampInv, ModeResumes
<1> QED
  BY <1>1, Invariant, PTL

\* Every request of a turn is one its API accepts, extends the one before it and
\* shows each call once and before its result, for any answers of the model and
\* whatever the memory dropped: before a decision every call is answered, a
\* decision names its calls anew, and the results that come in are of the calls
\* that wait (messages_from_transcript, render_transcript,
\* Orchestrator.handle_message).
THEOREM RequestsAreAccepted == Spec => []RequestsAccepted
<1>1. IInv => RequestsAccepted
  BY DEF IInv, TalkInv
<1> QED
  BY <1>1, Invariant, PTL
=============================================================================
