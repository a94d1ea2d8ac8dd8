-------------------------- MODULE ChatSurfaceProofs --------------------------
(***************************************************************************)
(* Proofs about ChatSurface, for any answers of the server, any endings    *)
(* and any budget of faults: a turn tells its outcome, each part once and  *)
(* in its order, and its live trace tells the truth and leaves the chat.   *)
(***************************************************************************)
EXTENDS ChatSurface, SequenceTheorems, WellFoundedInduction, TLAPS

Fields == {"stage", "no", "command", "placeholder", "message", "detail", "log", "fates",
           "todo", "left", "plan", "at", "ok", "uncaught", "faults"}
Early == {"open", "start", "think", "calls"}
Stages == Early \union {"deliver", "failed", "close", "degrade", "title", "done"}
Trace == {"processing", "working"}
AllKinds == Kinds \union Trace \union {"summary", "notice", "none", "deleted"}
Messages == [kind : AllKinds, no : Nat, turn : Nat]

TurnType ==
    /\ DOMAIN turn = Fields
    /\ turn.stage \in Stages
    /\ turn.no \in Nat /\ turn.at \in Nat /\ turn.faults \in Nat
    /\ turn.plan \in Seq(Kinds) /\ PiecesFirst(turn.plan)
    /\ turn.uncaught => turn.stage = "done"

ChatType ==
    /\ chat \in Seq(Messages)
    /\ \A i \in DOMAIN chat : chat[i].turn <= turn.no
    /\ turn.placeholder \in 0..Len(chat) /\ turn.message \in 0..Len(chat)

\* A turn holds one message at most: its placeholder, or the trace that took it
\* over.  No other of its messages looks like either.
HeldInv ==
    /\ turn.placeholder = 0 \/ turn.message = 0
    /\ turn.stage = "open" => Mine = {} /\ turn.placeholder = 0 /\ turn.message = 0
    /\ \A p \in {turn.placeholder, turn.message} \ {0} :
          \A i \in Mine : chat[i].kind \in Trace => i = p
    /\ turn.placeholder # 0 /\ ~Over =>
          turn.placeholder \in Mine /\ chat[turn.placeholder].kind = "processing"
    /\ turn.message # 0 /\ ~Over =>
          /\ turn.message \in Mine
          /\ \/ chat[turn.message].kind \in Trace
             \/ turn.stage = "degrade" /\ chat[turn.message].kind = "deleted"

\* The first call that failed to take the trace away is counted.
TraceInv ==
    /\ turn.stage = "degrade" => turn.message # 0 /\ turn.faults >= 1
    /\ TraceLeaves

\* What was said so far are the parts up to the one the turn is at.  A
\* placeholder that is still held has no piece before it.
Told == \E i \in Mine : chat[i].kind = "notice"
OutcomeInv ==
    /\ turn.stage \in Early => turn.plan = <<>> /\ turn.at = 0 /\ Parts = {}
    /\ turn.stage = "deliver" =>
          /\ turn.at <= Len(turn.plan) /\ Delivers(turn.at)
          /\ turn.placeholder # 0 => \A n \in 1..turn.at : turn.plan[n] # "piece"
    /\ turn.stage \in {"close", "degrade", "title", "done"} /\ ~turn.uncaught =>
          Told \/ Delivers(Len(turn.plan))

IInv == TurnType /\ ChatType /\ HeldInv /\ TraceInv /\ OutcomeInv
-----------------------------------------------------------------------------
(* The chat. *)

\* A message of the turn stands at p now, where there was one or at the end.
Put(p, kind, no) ==
    \/ p \in DOMAIN chat /\ chat' = [chat EXCEPT ![p] = Message(kind, no)]
    \/ p = Len(chat) + 1 /\ chat' = Append(chat, Message(kind, no))

LEMMA PutSeen ==
    ASSUME TurnType, ChatType, NEW p, NEW kind \in AllKinds, NEW no \in Nat, Put(p, kind, no)
    PROVE  /\ chat' \in Seq(Messages) /\ Len(chat') \in Nat /\ Len(chat) <= Len(chat')
           /\ DOMAIN chat' = DOMAIN chat \union {p} /\ DOMAIN chat' = 1..Len(chat')
           /\ chat'[p].kind = kind /\ chat'[p].no = no /\ chat'[p].turn = turn.no
           /\ \A i \in DOMAIN chat : i # p => chat'[i] = chat[i]
<1> DEFINE m == Message(kind, no)
<1>1. m \in Messages /\ m.kind = kind /\ m.no = no /\ m.turn = turn.no
  BY DEF Message, Messages, TurnType
<1>2. chat \in Seq(Messages)
  BY DEF ChatType
<1>3. Put(p, kind, no) <=> \/ p \in DOMAIN chat /\ chat' = [chat EXCEPT ![p] = m]
                           \/ p = Len(chat) + 1 /\ chat' = Append(chat, m)
  BY DEF Put
<1> HIDE DEF m
<1>4. CASE p \in DOMAIN chat /\ chat' = [chat EXCEPT ![p] = m]
  <2>1. /\ chat' \in Seq(Messages) /\ Len(chat') = Len(chat)
        /\ DOMAIN chat' = DOMAIN chat /\ chat'[p] = m
        /\ \A i \in DOMAIN chat : i # p => chat'[i] = chat[i]
    BY <1>1, <1>2, <1>4
  <2>2. Len(chat) \in Nat /\ DOMAIN chat = 1..Len(chat)
    BY <1>2
  <2> QED
    BY <1>1, <1>4, <2>1, <2>2
<1>5. CASE p = Len(chat) + 1 /\ chat' = Append(chat, m)
  <2>1. /\ chat' \in Seq(Messages) /\ Len(chat') = Len(chat) + 1 /\ chat'[p] = m
        /\ \A i \in 1..Len(chat) : chat'[i] = chat[i]
        /\ Len(chat) \in Nat /\ DOMAIN chat = 1..Len(chat)
    BY <1>1, <1>2, <1>5
  <2>2. DOMAIN chat' = 1..(Len(chat) + 1)
    BY <2>1
  <2>3. 1..(Len(chat) + 1) = 1..Len(chat) \union {p}
    BY <1>5, <2>1
  <2> QED
    BY <1>1, <2>1, <2>2, <2>3
<1> QED
  BY <1>3, <1>4, <1>5

LEMMA TurnOf ==
    ASSUME ChatType
    PROVE  \A i \in DOMAIN chat : chat[i].turn \in Nat
<1>1. \A i \in DOMAIN chat : chat[i] \in Messages
  BY DEF ChatType
<1> QED
  BY <1>1 DEF Messages

\* The messages of the turn, and its parts, after a message is put.
LEMMA MineThen ==
    ASSUME TurnType, ChatType, NEW p, NEW kind \in AllKinds, NEW no \in Nat, Put(p, kind, no),
           turn'.no = turn.no
    PROVE  /\ Mine' = Mine \union {p}
           /\ kind \in Kinds => Parts' = Parts \union {p}
           /\ kind \notin Kinds => Parts' = Parts \ {p}
           /\ \A i \in DOMAIN chat' : chat'[i].turn <= turn.no
<1>1. /\ DOMAIN chat' = DOMAIN chat \union {p}
      /\ chat'[p].kind = kind /\ chat'[p].no = no /\ chat'[p].turn = turn.no
      /\ \A i \in DOMAIN chat : i # p => chat'[i] = chat[i]
  BY PutSeen
<1>2. Mine' = Mine \union {p}
  BY <1>1 DEF Mine
<1>3. /\ kind \in Kinds => Parts' = Parts \union {p}
      /\ kind \notin Kinds => Parts' = Parts \ {p}
  BY <1>1, <1>2 DEF Parts, Mine
<1>4. turn.no <= turn.no
  BY DEF TurnType
<1>5. \A i \in DOMAIN chat' : chat'[i].turn <= turn.no
  BY <1>1, <1>4 DEF ChatType
<1> QED
  BY <1>2, <1>3, <1>5

LEMMA SameSeen ==
    ASSUME chat' = chat, turn'.no = turn.no
    PROVE  Mine' = Mine /\ Parts' = Parts
<1>1. Mine' = Mine
  BY DEF Mine
<1> QED
  BY <1>1 DEF Parts

\* A message that is no part, put where none is, leaves the parts as they are.
LEMMA PartsStay ==
    ASSUME TurnType, ChatType, turn'.no = turn.no,
           \/ chat' = chat
           \/ \E p : \E kind \in AllKinds \ Kinds : Put(p, kind, 0) /\ p \notin Parts
    PROVE  Parts' = Parts /\ \A i \in Parts : chat'[i] = chat[i]
<1>1. CASE chat' = chat
  BY <1>1, SameSeen
<1>2. ASSUME NEW p, NEW kind \in AllKinds \ Kinds, Put(p, kind, 0), p \notin Parts
      PROVE  Parts' = Parts /\ \A i \in Parts : chat'[i] = chat[i]
  <2>1. Parts' = Parts \ {p}
    BY <1>2, MineThen
  <2>2. \A i \in DOMAIN chat : i # p => chat'[i] = chat[i]
    BY <1>2, PutSeen
  <2> QED
    BY <1>2, <2>1, <2>2 DEF Parts, Mine
<1> QED
  BY <1>1, <1>2

-----------------------------------------------------------------------------
(* What a call may do to the chat. *)

LEMMA SaidPuts ==
    ASSUME TurnType, ChatType, HeldInv, ~Over, NEW kind \in AllKinds, NEW no \in Nat,
           NEW how \in Answers, Takes(Said(kind, no), how)
    PROVE  \/ chat' = chat /\ how # "ok"
           \/ \E p : /\ Put(p, kind, no)
                     /\ \/ p = Len(chat) + 1
                        \/ /\ turn.placeholder # 0 /\ kind \notin {"file", "confirm"}
                           /\ p = turn.placeholder
<1>1. CASE how = "refused"
  BY <1>1 DEF Takes
<1>2. CASE how # "refused" /\ (turn.placeholder = 0 \/ kind \in {"file", "confirm"})
  BY <1>2 DEF Takes, Said, Posted, Put
<1>3. CASE how # "refused" /\ ~(turn.placeholder = 0 \/ kind \in {"file", "confirm"})
  <2>1. turn.placeholder \in DOMAIN chat /\ chat[turn.placeholder].kind = "processing"
    BY <1>3 DEF HeldInv, Mine
  <2>2. chat' = [chat EXCEPT ![turn.placeholder] = Message(kind, no)]
    BY <1>3, <2>1 DEF Takes, Said, Edited
  <2> QED
    BY <1>3, <2>1, <2>2 DEF Put
<1> QED
  BY <1>1, <1>2, <1>3

\* A message put at the end is none that the turn has, or that another has.
LEMMA AtEnd ==
    ASSUME ChatType
    PROVE  Len(chat) + 1 \notin DOMAIN chat /\ Len(chat) \in Nat
BY DEF ChatType

LEMMA TracePuts ==
    ASSUME TurnType, ChatType, HeldInv, ~Over, turn.message # 0, NEW kind \in AllKinds,
           NEW how \in Answers, Takes(Edited(turn.message, kind, 0), how)
    PROVE  /\ \/ chat' = chat
              \/ Put(turn.message, kind, 0)
           /\ how # "refused" =>
                 \/ chat' = chat /\ chat[turn.message].kind = "deleted"
                 \/ Put(turn.message, kind, 0)
           /\ turn.message \notin Parts
<1>1. turn.message \in DOMAIN chat /\ turn.message \notin Parts
  BY DEF HeldInv, Mine, Parts, Trace, Kinds
<1> QED
  BY <1>1 DEF Takes, Edited, Put

\* The turn and the chat after a step that keeps the plan and what is held.
LEMMA ShapeKept ==
    ASSUME TurnType, ChatType, DOMAIN turn' = Fields, turn'.stage \in Stages,
           turn'.no = turn.no, turn'.at \in Nat, turn'.faults \in Nat,
           turn'.plan \in Seq(Kinds), PiecesFirst(turn'.plan),
           turn'.uncaught => turn'.stage = "done",
           turn'.placeholder \in {turn.placeholder, 0},
           turn'.message \in {turn.message, turn.placeholder, 0},
           \/ chat' = chat
           \/ \E p : \E kind \in AllKinds : \E no \in Nat : Put(p, kind, no)
    PROVE  TurnType' /\ ChatType'
<1>1. TurnType'
  BY DEF TurnType, PiecesFirst
<1>2. ChatType'
  <2>1. CASE chat' = chat
    BY <2>1 DEF ChatType
  <2>2. ASSUME NEW p, NEW kind \in AllKinds, NEW no \in Nat, Put(p, kind, no)
        PROVE  ChatType'
    <3>1. /\ chat' \in Seq(Messages) /\ Len(chat') \in Nat /\ Len(chat) <= Len(chat')
          /\ \A i \in DOMAIN chat' : chat'[i].turn <= turn.no
      BY <2>2, PutSeen, MineThen
    <3>2. Len(chat) \in Nat
      BY DEF ChatType
    <3>3. 0..Len(chat) \subseteq 0..Len(chat') /\ 0 \in 0..Len(chat')
      BY <3>1, <3>2
    <3> QED
      BY <3>1, <3>3 DEF ChatType
  <2> QED
    BY <2>1, <2>2
<1> QED
  BY <1>1, <1>2

-----------------------------------------------------------------------------
(* The steps of a turn. *)

LEMMA QuietStep == ASSUME IInv, UNCHANGED <<chat, turn>> PROVE IInv'
BY DEF IInv, TurnType, ChatType, HeldInv, TraceInv, OutcomeInv, Mine, Parts, Over, Told, Delivers,
       TraceLeaves

\* A turn begins with no message of its own.
LEMMA BeginStep ==
    ASSUME IInv, NEW command \in BOOLEAN, RunTurn(command)
    PROVE  IInv'
<1>1. /\ chat' = chat /\ turn.stage = "done"
      /\ turn' = [NoTurn EXCEPT !.no = turn.no + 1, !.command = command,
                                !.plan = IF command THEN <<"piece">> ELSE <<>>,
                                !.stage = IF command THEN "deliver" ELSE "open"]
  BY DEF RunTurn
<1>2. TurnType /\ ChatType /\ turn.no \in Nat
  BY DEF IInv, TurnType
<1>3. /\ DOMAIN turn' = Fields /\ turn'.no = turn.no + 1 /\ turn'.placeholder = 0
      /\ turn'.message = 0 /\ turn'.at = 0 /\ turn'.faults = 0 /\ turn'.uncaught = FALSE
      /\ \/ turn'.stage = "open" /\ turn'.plan = <<>>
         \/ turn'.stage = "deliver" /\ turn'.plan = <<"piece">>
  BY <1>1 DEF NoTurn, Fields
<1>4. turn'.plan \in Seq(Kinds) /\ PiecesFirst(turn'.plan) /\ 0 <= Len(turn'.plan)
  <2>1. CASE turn'.plan = <<>>
    BY <2>1 DEF PiecesFirst
  <2>2. CASE turn'.plan = <<"piece">>
    <3>1. DOMAIN turn'.plan = {1} /\ turn'.plan \in Seq(Kinds) /\ Len(turn'.plan) = 1
      BY <2>2 DEF Kinds
    <3> QED
      BY <3>1 DEF PiecesFirst
  <2> QED
    BY <1>3, <2>1, <2>2
<1>5. Mine' = {} /\ Parts' = {}
  <2>1. \A i \in DOMAIN chat : chat[i].turn \in Nat /\ chat[i].turn <= turn.no
    BY <1>2, TurnOf DEF ChatType
  <2>2. \A i \in DOMAIN chat : chat[i].turn # turn.no + 1
    BY <1>2, <2>1
  <2>3. Mine' = {}
    BY <1>1, <1>3, <2>2 DEF Mine
  <2> QED
    BY <2>3 DEF Parts
<1>6. TurnType'
  BY <1>2, <1>3, <1>4 DEF TurnType, PiecesFirst, Stages, Early
<1>7. ChatType'
  <2>1. \A i \in DOMAIN chat : chat[i].turn <= turn.no + 1
    <3>1. \A i \in DOMAIN chat : chat[i].turn \in Nat /\ chat[i].turn <= turn.no
      BY <1>2, TurnOf DEF ChatType
    <3> QED
      BY <1>2, <3>1
  <2>2. 0 \in 0..Len(chat)
    BY <1>2 DEF ChatType
  <2> QED
    BY <1>1, <1>2, <1>3, <2>1, <2>2 DEF ChatType
<1>8. HeldInv' /\ TraceInv'
  BY <1>3, <1>5 DEF HeldInv, TraceInv, TraceLeaves, Over
<1>9. Delivers(0)'
  BY <1>5 DEF Delivers
<1>10. OutcomeInv'
  BY <1>3, <1>4, <1>5, <1>9 DEF OutcomeInv, Early, Delivers
<1> QED
  BY <1>6, <1>7, <1>8, <1>10 DEF IInv

\* What the turn holds stays held while it says something else, or gives its
\* placeholder up for it.
LEMMA HeldStays ==
    ASSUME TurnType, ChatType, HeldInv, turn'.no = turn.no, turn'.stage # "open",
           turn'.placeholder \in {turn.placeholder, 0}, turn'.message \in {turn.message, 0},
           Over' \/ (~Over /\ turn.stage # "degrade"),
           \/ chat' = chat
           \/ \E p : \E kind \in AllKinds \ Trace : \E no \in Nat :
                 /\ Put(p, kind, no)
                 /\ \/ p = Len(chat) + 1
                    \/ p = turn.placeholder /\ p # 0 /\ (Over' \/ turn'.placeholder = 0)
    PROVE  HeldInv'
<1>1. turn'.placeholder = 0 \/ turn'.message = 0
  BY DEF HeldInv
<1>2. CASE chat' = chat
  <2>1. Mine' = Mine
    BY <1>2, SameSeen
  <2> QED
    BY <1>1, <1>2, <2>1 DEF HeldInv, Over
<1>3. ASSUME NEW p, NEW kind \in AllKinds \ Trace, NEW no \in Nat, Put(p, kind, no),
             \/ p = Len(chat) + 1
             \/ p = turn.placeholder /\ p # 0 /\ (Over' \/ turn'.placeholder = 0)
      PROVE  HeldInv'
  <2>1. Mine' = Mine \union {p}
    BY <1>3, MineThen
  <2>2. /\ chat'[p].kind = kind
        /\ \A i \in DOMAIN chat : i # p => chat'[i] = chat[i]
    BY <1>3, PutSeen
  <2>3. Mine \subseteq DOMAIN chat
    BY DEF Mine
  <2>4. \A i \in Mine' : chat'[i].kind \in Trace => i \in Mine /\ chat[i].kind \in Trace
    BY <1>3, <2>1, <2>2, <2>3
  <2>5. \A q \in {turn'.placeholder, turn'.message} \ {0} :
           \A i \in Mine' : chat'[i].kind \in Trace => i = q
    BY <2>4 DEF HeldInv
  <2>6. ~Over' =>
           /\ turn'.placeholder # 0 => turn'.placeholder \in Mine /\ turn'.placeholder # p
                                       /\ chat[turn'.placeholder].kind = "processing"
           /\ turn'.message # 0 => /\ turn'.message \in Mine /\ turn'.message # p
                                   /\ chat[turn'.message].kind \in Trace
    BY <1>3, <2>3, AtEnd DEF HeldInv
  <2> QED
    BY <1>1, <2>1, <2>2, <2>3, <2>5, <2>6 DEF HeldInv
<1> QED
  BY <1>2, <1>3

\* A turn that fails, or that nobody hears of any more: nothing is claimed of it.
LEMMA BrokenStep ==
    ASSUME IInv, DOMAIN turn' = Fields, turn'.no = turn.no, turn'.at \in Nat, turn'.faults \in Nat,
           turn'.plan \in Seq(Kinds), PiecesFirst(turn'.plan),
           \/ turn'.stage = "failed" /\ ~turn'.uncaught /\ ~Over /\ turn.stage # "degrade"
           \/ turn'.stage = "done" /\ turn'.uncaught,
           turn'.placeholder \in {turn.placeholder, 0}, turn'.message \in {turn.message, 0},
           \/ chat' = chat
           \/ /\ turn'.placeholder = 0 /\ turn'.message = 0
              /\ \E p : \E kind \in AllKinds : \E no \in Nat : Put(p, kind, no)
           \/ \E p : \E kind \in AllKinds \ Trace : \E no \in Nat :
                 /\ Put(p, kind, no)
                 /\ \/ p = Len(chat) + 1
                    \/ p = turn.placeholder /\ p # 0
                       /\ (turn'.stage = "done" \/ turn'.placeholder = 0)
    PROVE  IInv'
<1>1. TurnType /\ ChatType /\ HeldInv
  BY DEF IInv
<1>2. \/ chat' = chat
      \/ \E p : \E kind \in AllKinds : \E no \in Nat : Put(p, kind, no)
  OBVIOUS
<1>3. turn'.stage \in Stages
  BY DEF Stages, Early
<1>4. TurnType' /\ ChatType'
  BY <1>1, <1>2, <1>3, ShapeKept
<1>5. TraceInv' /\ OutcomeInv'
  BY DEF TraceInv, TraceLeaves, OutcomeInv, Over, Early
<1>6. HeldInv'
  <2>1. CASE turn'.placeholder = 0 /\ turn'.message = 0
    BY <2>1 DEF HeldInv
  <2>2. CASE \/ chat' = chat
             \/ \E p : \E kind \in AllKinds \ Trace : \E no \in Nat :
                 /\ Put(p, kind, no)
                 /\ \/ p = Len(chat) + 1
                    \/ p = turn.placeholder /\ p # 0
                       /\ (turn'.stage = "done" \/ turn'.placeholder = 0)
    <3>1. /\ turn'.stage # "open" /\ (turn'.stage = "done" => Over')
          /\ Over' \/ (~Over /\ turn.stage # "degrade")
      BY DEF Over
    <3> QED
      BY <1>1, <2>2, <3>1, HeldStays
  <2> QED
    BY <2>1, <2>2
<1> QED
  BY <1>4, <1>5, <1>6 DEF IInv

LEMMA FailingTurn ==
    ASSUME NEW t, DOMAIN t = Fields, t.faults \in Nat, NEW how
    PROVE  LET f == Failing(t, how) IN
           /\ DOMAIN f = Fields /\ f.stage = "failed" /\ f.no = t.no /\ f.at = t.at
           /\ f.plan = t.plan /\ f.uncaught = t.uncaught /\ f.faults \in Nat
           /\ f.placeholder = t.placeholder /\ f.message = t.message
<1> DEFINE faults == IF how = "ok" THEN t.faults ELSE t.faults + 1
           f == [t EXCEPT !.stage = "failed", !.ok = FALSE, !.log = NoLog, !.fates = <<>>,
                          !.todo = <<>>, !.faults = faults]
<1>1. Failing(t, how) = f
  BY DEF Failing
<1>2. faults \in Nat
  OBVIOUS
<1> HIDE DEF faults
<1>3. /\ DOMAIN f = Fields /\ f.stage = "failed" /\ f.no = t.no /\ f.at = t.at
      /\ f.plan = t.plan /\ f.uncaught = t.uncaught /\ f.faults = faults
      /\ f.placeholder = t.placeholder /\ f.message = t.message
  BY DEF Fields
<1> HIDE DEF f
<1> QED
  BY <1>1, <1>2, <1>3

LEMMA SurrenderedTurn ==
    ASSUME NEW t, DOMAIN t = Fields, NEW kind
    PROVE  LET s == Surrendered(t, kind) IN
           /\ DOMAIN s = Fields /\ s.stage = t.stage /\ s.no = t.no /\ s.at = t.at
           /\ s.plan = t.plan /\ s.uncaught = t.uncaught /\ s.faults = t.faults
           /\ s.message = t.message
           /\ s.placeholder = IF kind \in {"file", "confirm"} THEN t.placeholder ELSE 0
<1> DEFINE s == [t EXCEPT !.placeholder = 0]
<1>1. Surrendered(t, kind) = IF kind \in {"file", "confirm"} THEN t ELSE s
  BY DEF Surrendered
<1>2. /\ DOMAIN s = Fields /\ s.stage = t.stage /\ s.no = t.no /\ s.at = t.at
      /\ s.plan = t.plan /\ s.uncaught = t.uncaught /\ s.faults = t.faults
      /\ s.message = t.message /\ s.placeholder = 0
  BY DEF Fields
<1> HIDE DEF s
<1> QED
  BY <1>1, <1>2

LEMMA CrashStep == ASSUME IInv, Crash PROVE IInv'
<1>1. chat' = chat /\ turn' = [NoTurn EXCEPT !.no = turn.no, !.uncaught = TRUE]
  BY DEF Crash
<1>2. /\ DOMAIN turn' = Fields /\ turn'.no = turn.no /\ turn'.at = 0 /\ turn'.faults = 0
      /\ turn'.plan = <<>> /\ turn'.stage = "done" /\ turn'.uncaught = TRUE
      /\ turn'.placeholder = 0 /\ turn'.message = 0
  BY <1>1 DEF NoTurn, Fields
<1>3. turn'.plan \in Seq(Kinds) /\ PiecesFirst(turn'.plan)
  BY <1>2 DEF PiecesFirst
<1> QED
  BY <1>1, <1>2, <1>3, BrokenStep

LEMMA RaisesStep == ASSUME IInv, Raises PROVE IInv'
<1>1. chat' = chat /\ turn' = Failing(turn, "ok") /\ turn.stage \in {"start", "think", "calls"}
  BY DEF Raises
<1>2. TurnType
  BY DEF IInv
<1>3. /\ DOMAIN turn' = Fields /\ turn'.stage = "failed" /\ turn'.no = turn.no
      /\ turn'.at = turn.at /\ turn'.plan = turn.plan /\ turn'.uncaught = turn.uncaught
      /\ turn'.faults \in Nat /\ turn'.placeholder = turn.placeholder
      /\ turn'.message = turn.message
  BY <1>1, <1>2, FailingTurn DEF TurnType
<1>4. /\ turn'.at \in Nat /\ turn'.plan \in Seq(Kinds) /\ PiecesFirst(turn'.plan)
      /\ ~turn'.uncaught /\ ~Over /\ turn.stage # "degrade"
  BY <1>1, <1>2, <1>3 DEF TurnType, PiecesFirst, Over
<1> QED
  BY <1>1, <1>3, <1>4, BrokenStep

LEMMA RenameStep == ASSUME IInv, NEW usable, NEW how, Rename(usable, how) PROVE IInv'
<1>1. chat' = chat /\ turn.stage = "title" /\ turn' = [turn EXCEPT !.stage = "done"]
  BY DEF Rename
<1>2. TurnType /\ ChatType
  BY DEF IInv
<1>3. /\ DOMAIN turn' = Fields /\ turn'.stage = "done" /\ turn'.no = turn.no
      /\ turn'.at = turn.at /\ turn'.plan = turn.plan /\ turn'.uncaught = turn.uncaught
      /\ turn'.faults = turn.faults /\ turn'.placeholder = turn.placeholder
      /\ turn'.message = turn.message
  BY <1>1, <1>2 DEF TurnType, Fields
<1>4. TurnType' /\ ChatType'
  BY <1>1, <1>2, <1>3 DEF TurnType, ChatType, PiecesFirst, Stages
<1>5. Mine' = Mine /\ Parts' = Parts
  BY <1>1, <1>3, SameSeen
<1>6. HeldInv' /\ TraceInv' /\ OutcomeInv'
  BY <1>1, <1>3, <1>5 DEF IInv, HeldInv, TraceInv, TraceLeaves, OutcomeInv, Over, Told, Delivers,
                          Early
<1> QED
  BY <1>4, <1>6 DEF IInv

\* The first message of a turn is its placeholder.
LEMMA OpenStep == ASSUME IInv, NEW how \in Answers, Open(how) PROVE IInv'
<1>1. /\ turn.stage = "open" /\ Takes(Posted("processing", 0), how)
      /\ turn' = IF how # "ok" THEN Failing(turn, how)
                 ELSE [turn EXCEPT !.placeholder = Len(chat) + 1, !.stage = "start"]
  BY DEF Open
<1>2. TurnType /\ ChatType /\ HeldInv /\ OutcomeInv
  BY DEF IInv
<1>3. /\ Mine = {} /\ turn.placeholder = 0 /\ turn.message = 0 /\ ~Over
      /\ turn.plan = <<>> /\ turn.at = 0 /\ Parts = {}
  BY <1>1, <1>2 DEF HeldInv, OutcomeInv, Early, Over
<1>4. CASE how # "ok"
  <2>1. /\ DOMAIN turn' = Fields /\ turn'.stage = "failed" /\ turn'.no = turn.no
        /\ turn'.at = turn.at /\ turn'.plan = turn.plan /\ turn'.uncaught = turn.uncaught
        /\ turn'.faults \in Nat /\ turn'.placeholder = 0 /\ turn'.message = 0
    BY <1>1, <1>2, <1>3, <1>4, FailingTurn DEF TurnType
  <2>2. turn'.at \in Nat /\ turn'.plan \in Seq(Kinds) /\ PiecesFirst(turn'.plan) /\ ~turn'.uncaught
    BY <1>1, <1>2, <2>1 DEF TurnType, PiecesFirst
  <2>3. chat' = chat \/ \E p : Put(p, "processing", 0)
    BY <1>1 DEF Takes, Posted, Put
  <2>4. "processing" \in AllKinds
    BY DEF AllKinds, Trace
  <2> QED
    BY <1>1, <1>3, <2>1, <2>2, <2>3, <2>4, BrokenStep
<1>5. CASE how = "ok"
  <2> DEFINE p == Len(chat) + 1
  <2>1. Put(p, "processing", 0) /\ "processing" \in AllKinds \ Kinds
    BY <1>1, <1>5 DEF Takes, Posted, Put, AllKinds, Trace, Kinds
  <2>2. Len(chat) \in Nat
    BY <1>2 DEF ChatType
  <2>3. turn' = [turn EXCEPT !.placeholder = p, !.stage = "start"]
    BY <1>1, <1>5
  <2> HIDE DEF p
  <2>4. /\ DOMAIN turn' = Fields /\ turn'.stage = "start" /\ turn'.no = turn.no
        /\ turn'.at = turn.at /\ turn'.plan = turn.plan /\ turn'.uncaught = turn.uncaught
        /\ turn'.faults = turn.faults /\ turn'.placeholder = p /\ turn'.message = 0
    BY <1>2, <1>3, <2>3 DEF TurnType, Fields
  <2>5. /\ chat' \in Seq(Messages) /\ Len(chat') \in Nat /\ DOMAIN chat' = DOMAIN chat \union {p}
        /\ DOMAIN chat' = 1..Len(chat') /\ chat'[p].kind = "processing"
    BY <1>2, <2>1, PutSeen
  <2>6. Mine' = {p} /\ Parts' = {} /\ \A i \in DOMAIN chat' : chat'[i].turn <= turn.no
    BY <1>2, <1>3, <2>1, <2>4, MineThen
  <2>7. p \in 0..Len(chat') /\ 0 \in 0..Len(chat') /\ p # 0
    <3>1. p \in 1..Len(chat')
      BY <2>5
    <3> QED
      BY <2>5, <3>1
  <2>8. TurnType'
    BY <1>2, <2>4, <1>1 DEF TurnType, PiecesFirst, Stages, Early
  <2>9. ChatType' /\ HeldInv' /\ TraceInv' /\ OutcomeInv'
    BY <1>3, <2>4, <2>5, <2>6, <2>7 DEF ChatType, HeldInv, TraceInv, TraceLeaves, OutcomeInv, Over, Early
  <2> QED
    BY <2>8, <2>9 DEF IInv
<1> QED
  BY <1>4, <1>5

\* The trace takes the placeholder over.
LEMMA StartedStep == ASSUME IInv, NEW detail, TurnStarted(detail) PROVE IInv'
<1> DEFINE message == IF detail = "off" THEN 0 ELSE turn.placeholder
           placeholder == IF detail = "off" THEN turn.placeholder ELSE 0
<1>1. /\ chat' = chat /\ turn.stage = "start"
      /\ turn' = [turn EXCEPT !.stage = "think", !.detail = detail, !.message = message,
                              !.placeholder = placeholder]
  BY DEF TurnStarted
<1>2. TurnType /\ ChatType /\ HeldInv
  BY DEF IInv
<1>3. /\ message \in {0, turn.placeholder} /\ placeholder \in {0, turn.placeholder}
      /\ message = 0 \/ placeholder = 0
  OBVIOUS
<1> HIDE DEF message, placeholder
<1>4. /\ DOMAIN turn' = Fields /\ turn'.stage = "think" /\ turn'.no = turn.no
      /\ turn'.at = turn.at /\ turn'.plan = turn.plan /\ turn'.uncaught = turn.uncaught
      /\ turn'.faults = turn.faults /\ turn'.placeholder = placeholder
      /\ turn'.message = message
  BY <1>1, <1>2 DEF TurnType, Fields
<1>5. TurnType'
  BY <1>1, <1>2, <1>4 DEF TurnType, PiecesFirst, Stages, Early
<1>6. ChatType'
  <2>1. 0 \in 0..Len(chat)
    BY <1>2 DEF ChatType
  <2> QED
    BY <1>1, <1>2, <1>3, <1>4, <2>1 DEF ChatType
<1>7. Mine' = Mine /\ Parts' = Parts
  BY <1>1, <1>4, SameSeen
<1>8. HeldInv'
  BY <1>1, <1>2, <1>3, <1>4, <1>7 DEF HeldInv, Over, Trace
<1>9. TraceInv' /\ OutcomeInv'
  BY <1>1, <1>4, <1>7 DEF IInv, TraceInv, TraceLeaves, OutcomeInv, Over, Early
<1> QED
  BY <1>5, <1>6, <1>8, <1>9 DEF IInv

\* A turn that works on: with the plan it has, or with the one it hands over.
WorksOn(t, ending) ==
    /\ DOMAIN t = Fields /\ t.no = turn.no /\ t.at = turn.at /\ t.uncaught = turn.uncaught
    /\ t.faults = turn.faults /\ t.placeholder = turn.placeholder /\ t.message = turn.message
    /\ \/ t.stage \in {"think", "calls"} /\ t.plan = turn.plan
       \/ t.stage = "deliver" /\ t.plan = ending

LEMMA HandedOver ==
    ASSUME NEW t, NEW ending, WorksOn(t, ending)
    PROVE  WorksOn(HandsOver(t, ending), ending)
<1> DEFINE h == [t EXCEPT !.stage = "deliver", !.plan = ending]
<1>1. /\ DOMAIN h = Fields /\ h.no = t.no /\ h.at = t.at /\ h.uncaught = t.uncaught
      /\ h.faults = t.faults /\ h.placeholder = t.placeholder /\ h.message = t.message
      /\ h.stage = "deliver" /\ h.plan = ending
  BY DEF WorksOn, Fields
<1>2. h = HandsOver(t, ending)
  BY DEF HandsOver
<1> HIDE DEF h
<1> QED
  BY <1>1, <1>2 DEF WorksOn

LEMMA NotesStep ==
    ASSUME IInv, turn.stage \in {"think", "calls"}, NEW ending \in Endings, NEW t,
           WorksOn(t, ending), NEW log, NEW how \in Answers, Notes(t, log, how)
    PROVE  IInv'
<1> DEFINE log_ == IF turn.message = 0 THEN NoLog ELSE log
           faults == IF how = "ok" THEN t.faults ELSE t.faults + 1
<1>1. /\ turn' = [t EXCEPT !.log = log_, !.faults = faults]
      /\ \/ turn.message # 0 /\ Takes(Edited(turn.message, "working", 0), how)
         \/ chat' = chat
  BY DEF Notes
<1>2. TurnType /\ ChatType /\ HeldInv /\ ~Over
  BY DEF IInv, Over
<1>3. /\ turn.plan = <<>> /\ turn.at = 0 /\ Parts = {}
  BY DEF IInv, OutcomeInv, Early
<1>4. faults \in Nat
  BY <1>2 DEF TurnType, WorksOn
<1> HIDE DEF log_, faults
<1>5. /\ DOMAIN turn' = Fields /\ turn'.no = turn.no /\ turn'.at = 0 /\ turn'.faults = faults
      /\ turn'.uncaught = turn.uncaught /\ turn'.placeholder = turn.placeholder
      /\ turn'.message = turn.message
      /\ \/ turn'.stage \in {"think", "calls"} /\ turn'.plan = turn.plan
         \/ turn'.stage = "deliver" /\ turn'.plan = ending
  BY <1>1, <1>3 DEF WorksOn, Fields
<1>6. "working" \in AllKinds \ Kinds /\ "working" \in Trace
  BY DEF AllKinds, Trace, Kinds
<1>7. \/ chat' = chat
      \/ turn.message # 0 /\ Put(turn.message, "working", 0)
  BY <1>1, <1>2, <1>6, TracePuts
<1>8. turn'.plan \in Seq(Kinds) /\ PiecesFirst(turn'.plan)
  BY <1>2, <1>5, SurfaceAssumption DEF TurnType
<1>9. TurnType' /\ ChatType'
  <2>1. turn'.stage \in Stages /\ ~turn'.uncaught
    BY <1>2, <1>5 DEF Stages, Early, TurnType
  <2> QED
    BY <1>2, <1>4, <1>5, <1>6, <1>7, <1>8, <2>1, ShapeKept
<1>10. /\ Parts' = {} /\ Mine' = Mine
       /\ turn.placeholder # 0 => chat' = chat
       /\ turn.message # 0 => chat'[turn.message].kind \in Trace
       /\ \A i \in Mine : i # turn.message => chat'[i] = chat[i]
  <2>1. CASE chat' = chat
    <3>1. turn.message # 0 => chat[turn.message].kind \in Trace
      BY <1>2 DEF HeldInv
    <3> QED
      BY <1>3, <1>5, <2>1, <3>1, SameSeen
  <2>2. CASE turn.message # 0 /\ Put(turn.message, "working", 0)
    <3>1. Mine' = Mine \union {turn.message} /\ Parts' = Parts \ {turn.message}
      BY <1>2, <1>5, <1>6, <2>2, MineThen
    <3>2. turn.message \in Mine /\ turn.placeholder = 0
      BY <1>2, <2>2 DEF HeldInv
    <3>3. /\ chat'[turn.message].kind = "working"
          /\ \A i \in DOMAIN chat : i # turn.message => chat'[i] = chat[i]
      BY <1>2, <1>6, <2>2, PutSeen
    <3> QED
      BY <1>3, <1>6, <3>1, <3>2, <3>3 DEF Mine
  <2> QED
    BY <1>7, <2>1, <2>2
<1>11. HeldInv'
  <2>1. \A p \in {turn.placeholder, turn.message} \ {0} :
            \A i \in Mine : chat'[i].kind \in Trace => i = p
    <3>1. \A p \in {turn.placeholder, turn.message} \ {0} :
              \A i \in Mine : chat[i].kind \in Trace => i = p
      BY <1>2 DEF HeldInv
    <3>2. turn.placeholder = 0 \/ turn.message = 0
      BY <1>2 DEF HeldInv
    <3> QED
      BY <1>10, <3>1, <3>2
  <2> QED
    BY <1>2, <1>5, <1>10, <2>1 DEF HeldInv, Over
<1>12. TraceInv'
  BY <1>5 DEF TraceInv, TraceLeaves, Over
<1>13. OutcomeInv'
  <2>1. Delivers(0)'
    BY <1>10 DEF Delivers
  <2>2. 0 <= Len(turn'.plan)
    BY <1>8
  <2> QED
    BY <1>3, <1>5, <1>10, <2>1, <2>2 DEF OutcomeInv, Early, Delivers
<1> QED
  BY <1>9, <1>11, <1>12, <1>13 DEF IInv

LEMMA WorkStep ==
    ASSUME IInv, NEW ending \in Endings, NEW how \in Answers,
           \/ \E d \in Decisions : Decide(d, ending, how)
           \/ \E ok \in {"ok", "failed"} : ToolResult(ok, ending, how)
    PROVE  IInv'
<1>1. DOMAIN turn = Fields
  BY DEF IInv, TurnType
<1>2. ASSUME NEW d \in Decisions, Decide(d, ending, how) PROVE IInv'
  <2> DEFINE from == Len(turn.fates)
             fates == turn.fates \o [i \in 1..d.searches |-> "ok"]
                                 \o [i \in 1..d.calls |-> "running"]
             todo == [i \in 1..d.calls |-> from + d.searches + i]
             next == [turn EXCEPT !.left = @ - 1, !.stage = "calls", !.fates = fates,
                                  !.todo = todo]
             t == IF d.calls = 0 THEN HandsOver(next, ending) ELSE next
             log == NoteDecision(turn.log, d, from)
  <2>1. turn.stage = "think" /\ Notes(t, log, how)
    BY <1>2 DEF Decide
  <2> HIDE DEF fates, todo, log
  <2>2. WorksOn(next, ending)
    BY <1>1 DEF WorksOn, Fields
  <2> HIDE DEF next
  <2>3. WorksOn(t, ending)
    BY <2>2, HandedOver
  <2> HIDE DEF t
  <2> QED
    BY <2>1, <2>3, NotesStep
<1>3. ASSUME NEW ok \in {"ok", "failed"}, ToolResult(ok, ending, how) PROVE IInv'
  <2> DEFINE fates == [turn.fates EXCEPT ![Head(turn.todo)] = ok]
             next == [turn EXCEPT !.fates = fates, !.todo = Tail(@)]
             again == [next EXCEPT !.stage = "think"]
             t == IF next.todo # <<>> THEN next
                  ELSE IF turn.left > 0 THEN again ELSE HandsOver(next, ending)
             log == IF turn.message = 0 THEN NoLog ELSE NoteToolResult(turn.log, ok)
  <2>1. turn.stage = "calls" /\ Notes(t, log, how)
    BY <1>3 DEF ToolResult
  <2> HIDE DEF fates, log
  <2>2. WorksOn(next, ending)
    BY <1>1, <2>1 DEF WorksOn, Fields
  <2> HIDE DEF next
  <2>3. WorksOn(again, ending)
    <3>1. next.plan = turn.plan
      BY <2>2, <1>1, <2>1 DEF next, Fields
    <3> QED
      BY <2>2, <3>1 DEF WorksOn, Fields
  <2> HIDE DEF again
  <2>4. WorksOn(t, ending)
    BY <2>2, <2>3, HandedOver
  <2> HIDE DEF t
  <2> QED
    BY <2>1, <2>4, NotesStep
<1> QED
  BY <1>2, <1>3

\* The next part is said: at the end of the chat, or where the placeholder was,
\* which then is the first part of all.
LEMMA DeliverStep == ASSUME IInv, NEW how \in Answers, Deliver(how) PROVE IInv'
<1> DEFINE no == turn.at + 1
           kind == turn.plan[no]
           next == Surrendered(turn, kind)
<1>1. /\ turn.stage = "deliver" /\ turn.at < Len(turn.plan) /\ Takes(Said(kind, no), how)
      /\ turn' = IF how = "ok" THEN [next EXCEPT !.at = no] ELSE Failing(next, how)
  BY DEF Deliver
<1>2. TurnType /\ ChatType /\ HeldInv /\ ~Over
  BY <1>1 DEF IInv, Over
<1>3. /\ turn.at \in Nat /\ no \in Nat /\ Len(turn.plan) \in Nat
      /\ no \in 1..Len(turn.plan) /\ no \in DOMAIN turn.plan /\ kind \in Kinds
      /\ 1..no = 1..turn.at \union {no}
  <2>1. turn.at \in Nat /\ turn.plan \in Seq(Kinds)
    BY <1>2 DEF TurnType
  <2> QED
    BY <1>1, <2>1
<1>4. /\ Delivers(turn.at)
      /\ turn.placeholder # 0 => \A n \in 1..turn.at : turn.plan[n] # "piece"
      /\ ~turn.uncaught
  BY <1>1 DEF IInv, OutcomeInv, TurnType
<1>5. kind \in AllKinds \ Trace
  BY <1>3 DEF AllKinds, Trace, Kinds
<1>6. \/ chat' = chat /\ how # "ok"
      \/ \E p : /\ Put(p, kind, no)
                /\ \/ p = Len(chat) + 1
                   \/ /\ turn.placeholder # 0 /\ kind \notin {"file", "confirm"}
                      /\ p = turn.placeholder
  BY <1>1, <1>2, <1>3, <1>5, SaidPuts
<1> HIDE DEF no, kind
<1>7. /\ DOMAIN next = Fields /\ next.stage = "deliver" /\ next.no = turn.no
      /\ next.at = turn.at /\ next.plan = turn.plan /\ next.uncaught = turn.uncaught
      /\ next.faults = turn.faults /\ next.message = turn.message
      /\ next.placeholder = IF kind \in {"file", "confirm"} THEN turn.placeholder ELSE 0
  BY <1>1, <1>2, SurrenderedTurn DEF TurnType
<1> HIDE DEF next
<1>8. CASE how # "ok"
  <2>1. /\ DOMAIN turn' = Fields /\ turn'.stage = "failed" /\ turn'.no = turn.no
        /\ turn'.at = turn.at /\ turn'.plan = turn.plan /\ turn'.uncaught = turn.uncaught
        /\ turn'.faults \in Nat /\ turn'.message = turn.message
        /\ turn'.placeholder = IF kind \in {"file", "confirm"} THEN turn.placeholder ELSE 0
    BY <1>1, <1>2, <1>7, <1>8, FailingTurn DEF TurnType
  <2>2. /\ turn'.at \in Nat /\ turn'.plan \in Seq(Kinds) /\ PiecesFirst(turn'.plan)
        /\ ~turn'.uncaught /\ turn.stage # "degrade"
    BY <1>1, <1>2, <1>4, <2>1 DEF TurnType, PiecesFirst
  <2>3. \/ chat' = chat
        \/ \E p : \E k \in AllKinds \ Trace : \E n \in Nat :
              /\ Put(p, k, n)
              /\ p = Len(chat) + 1 \/ (p = turn.placeholder /\ p # 0 /\ turn'.placeholder = 0)
    BY <1>3, <1>5, <1>6, <2>1
  <2> QED
    BY <1>2, <2>1, <2>2, <2>3, BrokenStep
<1>9. CASE how = "ok"
  <2>1. /\ DOMAIN turn' = Fields /\ turn'.stage = "deliver" /\ turn'.no = turn.no
        /\ turn'.at = no /\ turn'.plan = turn.plan /\ turn'.uncaught = turn.uncaught
        /\ turn'.faults = turn.faults /\ turn'.message = turn.message
        /\ turn'.placeholder = IF kind \in {"file", "confirm"} THEN turn.placeholder ELSE 0
    BY <1>1, <1>7, <1>9 DEF Fields
  <2>2. PICK p : /\ Put(p, kind, no)
                 /\ \/ p = Len(chat) + 1
                    \/ /\ turn.placeholder # 0 /\ kind \notin {"file", "confirm"}
                       /\ p = turn.placeholder
    BY <1>6, <1>9
  <2>3. TurnType' /\ ChatType'
    <3>1. /\ turn'.stage \in Stages /\ turn'.at \in Nat /\ turn'.faults \in Nat
          /\ turn'.plan \in Seq(Kinds) /\ PiecesFirst(turn'.plan)
          /\ turn'.uncaught => turn'.stage = "done"
      BY <1>2, <1>3, <1>4, <2>1 DEF TurnType, PiecesFirst, Stages
    <3> QED
      BY <1>2, <1>3, <1>5, <2>1, <2>2, <3>1, ShapeKept
  <2>4. HeldInv'
    <3>1. turn'.stage # "open" /\ turn.stage # "degrade"
      BY <1>1, <2>1
    <3> QED
      BY <1>2, <1>3, <1>5, <2>1, <2>2, <3>1, HeldStays
  <2>5. TraceInv'
    BY <2>1 DEF TraceInv, TraceLeaves, Over
  <2>6. /\ Parts' = Parts \union {p} /\ p \notin Parts
        /\ chat'[p].kind = kind /\ chat'[p].no = no
        /\ \A i \in Parts : chat'[i] = chat[i]
    <3>1. p \notin Parts
      BY <1>2, <2>2, AtEnd DEF HeldInv, Parts, Mine, Kinds
    <3>2. Parts' = Parts \union {p}
      BY <1>2, <1>3, <1>5, <2>1, <2>2, MineThen
    <3>3. /\ chat'[p].kind = kind /\ chat'[p].no = no
          /\ \A i \in DOMAIN chat : i # p => chat'[i] = chat[i]
      BY <1>2, <1>3, <1>5, <2>2, PutSeen
    <3> QED
      BY <3>1, <3>2, <3>3 DEF Parts, Mine
  <2>7. \A i \in Parts : i < p
    <3>1. CASE p = Len(chat) + 1
      <4>1. Len(chat) \in Nat /\ \A i \in Parts : i \in 1..Len(chat)
        BY <1>2 DEF ChatType, Parts, Mine
      <4> QED
        BY <3>1, <4>1
    <3>2. CASE turn.placeholder # 0 /\ kind \notin {"file", "confirm"}
      <4>1. kind = "piece"
        BY <1>3, <3>2 DEF Kinds
      <4>2. turn.at = 0
        <5>1. PiecesFirst(turn.plan)
          BY <1>2 DEF TurnType
        <5>2. \A n \in 1..turn.at : n \in DOMAIN turn.plan /\ n < no
          <6>1. DOMAIN turn.plan = 1..Len(turn.plan)
            BY <1>2 DEF TurnType
          <6> QED
            BY <1>1, <1>3, <6>1 DEF no
        <5>3. \A n \in 1..turn.at : turn.plan[n] = "piece"
          BY <1>3, <4>1, <5>1, <5>2 DEF PiecesFirst, kind
        <5>4. 1..turn.at = {}
          BY <1>4, <3>2, <5>3
        <5> QED
          BY <1>3, <5>4
      <4>3. \A i \in Parts : chat[i].no \in 1..0
        BY <1>4, <4>2 DEF Delivers
      <4> QED
        BY <4>3
    <3> QED
      BY <2>2, <3>1, <3>2
  <2>8. Delivers(turn.at)'
    <3>1. \A i \in Parts' : chat'[i].no \in 1..no /\ chat'[i].kind = turn.plan[chat'[i].no]
      BY <1>3, <1>4, <2>6 DEF Delivers, kind
    <3>2. \A n \in 1..no : \E i \in Parts' : chat'[i].no = n
      BY <1>3, <1>4, <2>6 DEF Delivers
    <3>3. \A i, j \in Parts' : i < j => chat'[i].no < chat'[j].no
      <4> SUFFICES ASSUME NEW i \in Parts', NEW j \in Parts', i < j
                   PROVE  chat'[i].no < chat'[j].no
        OBVIOUS
      <4>1. CASE i \in Parts /\ j \in Parts
        BY <1>4, <2>6, <4>1 DEF Delivers
      <4>2. CASE i \in Parts /\ j = p
        <5>1. chat'[i].no \in 1..turn.at /\ chat'[j].no = no
          BY <1>4, <2>6, <4>2 DEF Delivers
        <5> QED
          BY <1>3, <5>1 DEF no
      <4>3. CASE i = p
        <5>1. i \in Nat /\ j \in Nat
          BY <1>2, <2>6, <2>3 DEF Parts, Mine, ChatType
        <5>2. j < i \/ j = i
          BY <2>6, <2>7, <4>3
        <5> QED
          BY <5>1, <5>2
      <4> QED
        BY <2>6, <4>1, <4>2, <4>3
    <3> QED
      BY <2>1, <3>1, <3>2, <3>3 DEF Delivers
  <2>9. OutcomeInv'
    <3>1. turn'.placeholder # 0 => \A n \in 1..turn'.at : turn'.plan[n] # "piece"
      BY <1>3, <1>4, <2>1 DEF kind
    <3>2. turn'.at <= Len(turn'.plan)
      BY <1>3, <2>1
    <3> QED
      BY <2>1, <2>8, <3>1, <3>2 DEF OutcomeInv, Early
  <2> QED
    BY <2>3, <2>4, <2>5, <2>9 DEF IInv
<1> QED
  BY <1>8, <1>9

-----------------------------------------------------------------------------
(* The end of a turn. *)

\* What was told stays told while another message is put.
LEMMA OutcomeStays ==
    ASSUME TurnType, ChatType, Told \/ Delivers(Len(turn.plan)), turn'.no = turn.no,
           turn'.plan = turn.plan,
           \/ chat' = chat
           \/ \E p : \E kind \in AllKinds \ Kinds :
                 /\ Put(p, kind, 0) /\ p \notin Parts
                 /\ p \in Mine => chat[p].kind # "notice"
    PROVE  (Told \/ Delivers(Len(turn.plan)))'
<1>1. CASE Delivers(Len(turn.plan))
  <2>1. Parts' = Parts /\ \A i \in Parts : chat'[i] = chat[i]
    BY PartsStay
  <2> QED
    BY <1>1, <2>1 DEF Delivers
<1>2. CASE Told
  <2>1. PICK i \in Mine : chat[i].kind = "notice"
    BY <1>2 DEF Told
  <2>2. i \in Mine' /\ chat'[i] = chat[i]
    <3>1. CASE chat' = chat
      BY <2>1, <3>1, SameSeen
    <3>2. ASSUME NEW p, NEW kind \in AllKinds \ Kinds, Put(p, kind, 0),
                 p \in Mine => chat[p].kind # "notice"
          PROVE  i \in Mine' /\ chat'[i] = chat[i]
      <4>1. Mine' = Mine \union {p}
        BY <3>2, MineThen
      <4>2. \A j \in DOMAIN chat : j # p => chat'[j] = chat[j]
        BY <3>2, PutSeen
      <4> QED
        BY <2>1, <3>2, <4>1, <4>2 DEF Mine
    <3> QED
      BY <3>1, <3>2
  <2> QED
    BY <2>1, <2>2 DEF Told
<1> QED
  BY <1>1, <1>2

LEMMA EndingStep ==
    ASSUME TurnType, ChatType, ~turn.uncaught, DOMAIN turn' = Fields,
           turn'.stage \in {"close", "degrade", "title", "done"}, turn'.no = turn.no,
           turn'.at = turn.at, turn'.plan = turn.plan, turn'.uncaught = turn.uncaught,
           turn'.message = turn.message, turn'.placeholder \in {turn.placeholder, 0},
           turn'.faults \in Nat,
           \/ chat' = chat
           \/ \E p : \E kind \in AllKinds : Put(p, kind, 0),
           HeldInv', TraceInv', (Told \/ Delivers(Len(turn.plan)))'
    PROVE  IInv'
<1>1. turn'.stage \in Stages /\ turn'.at \in Nat /\ PiecesFirst(turn'.plan)
      /\ turn'.plan \in Seq(Kinds) /\ ~turn'.uncaught
  BY DEF Stages, TurnType, PiecesFirst
<1>2. TurnType' /\ ChatType'
  <2>1. \/ chat' = chat
        \/ \E p : \E kind \in AllKinds : \E no \in Nat : Put(p, kind, no)
    OBVIOUS
  <2> QED
    BY <1>1, <2>1, ShapeKept
<1>3. OutcomeInv'
  BY DEF OutcomeInv, Early
<1> QED
  BY <1>2, <1>3 DEF IInv

\* The end of the parts, where a placeholder that is still there says so.
LEMMA FinishStep == ASSUME IInv, NEW how \in Answers, Finish(how) PROVE IInv'
<1> DEFINE next == Surrendered(turn, "piece")
<1>1. /\ turn.stage = "deliver" /\ turn.at = Len(turn.plan)
      /\ \/ chat' = chat /\ turn' = [turn EXCEPT !.stage = "close"]
         \/ /\ turn.placeholder # 0 /\ Takes(Said("none", 0), how)
            /\ turn' = IF how = "ok" THEN [next EXCEPT !.stage = "close"]
                       ELSE Failing(next, how)
  BY DEF Finish
<1>2. TurnType /\ ChatType /\ HeldInv /\ ~Over /\ ~turn.uncaught
  BY <1>1 DEF IInv, Over, TurnType
<1>3. Delivers(Len(turn.plan))
  BY <1>1 DEF IInv, OutcomeInv
<1>4. "none" \in AllKinds \ (Kinds \union Trace) /\ 0 \in Nat
  BY DEF AllKinds, Kinds, Trace
<1>5. /\ DOMAIN next = Fields /\ next.stage = "deliver" /\ next.no = turn.no
      /\ next.at = turn.at /\ next.plan = turn.plan /\ next.uncaught = turn.uncaught
      /\ next.faults = turn.faults /\ next.message = turn.message /\ next.placeholder = 0
  BY <1>1, <1>2, SurrenderedTurn DEF TurnType
<1> HIDE DEF next
<1>6. CASE chat' = chat /\ turn' = [turn EXCEPT !.stage = "close"]
  <2>1. /\ DOMAIN turn' = Fields /\ turn'.stage = "close" /\ turn'.no = turn.no
        /\ turn'.at = turn.at /\ turn'.plan = turn.plan /\ turn'.uncaught = turn.uncaught
        /\ turn'.faults = turn.faults /\ turn'.message = turn.message
        /\ turn'.placeholder = turn.placeholder
    BY <1>2, <1>6 DEF TurnType, Fields
  <2>2. HeldInv'
    BY <1>1, <1>2, <1>6, <2>1, HeldStays
  <2>3. TraceInv'
    BY <2>1 DEF TraceInv, TraceLeaves, Over
  <2>4. (Told \/ Delivers(Len(turn.plan)))'
    BY <1>2, <1>3, <1>6, <2>1, OutcomeStays
  <2>5. turn'.faults \in Nat
    BY <1>2, <2>1 DEF TurnType
  <2> QED
    BY <1>2, <1>6, <2>1, <2>2, <2>3, <2>4, <2>5, EndingStep
<1>7. CASE /\ turn.placeholder # 0 /\ Takes(Said("none", 0), how)
           /\ turn' = IF how = "ok" THEN [next EXCEPT !.stage = "close"]
                      ELSE Failing(next, how)
  <2>1. \/ chat' = chat /\ how # "ok"
        \/ \E p : /\ Put(p, "none", 0)
                  /\ p = Len(chat) + 1 \/ (p = turn.placeholder /\ p # 0)
    BY <1>2, <1>4, <1>7, SaidPuts
  <2>2. CASE how # "ok"
    <3>1. /\ DOMAIN turn' = Fields /\ turn'.stage = "failed" /\ turn'.no = turn.no
          /\ turn'.at = turn.at /\ turn'.plan = turn.plan /\ turn'.uncaught = turn.uncaught
          /\ turn'.faults \in Nat /\ turn'.message = turn.message /\ turn'.placeholder = 0
      BY <1>2, <1>5, <1>7, <2>2, FailingTurn DEF TurnType
    <3>2. /\ turn'.at \in Nat /\ turn'.plan \in Seq(Kinds) /\ PiecesFirst(turn'.plan)
          /\ ~turn'.uncaught /\ turn.stage # "degrade"
      BY <1>1, <1>2, <3>1 DEF TurnType, PiecesFirst
    <3>3. \/ chat' = chat
          \/ \E p : \E kind \in AllKinds \ Trace : \E no \in Nat :
                /\ Put(p, kind, no)
                /\ p = Len(chat) + 1 \/ (p = turn.placeholder /\ p # 0 /\ turn'.placeholder = 0)
      BY <1>4, <2>1, <3>1
    <3> QED
      BY <1>2, <3>1, <3>2, <3>3, BrokenStep
  <2>3. CASE how = "ok"
    <3>1. /\ DOMAIN turn' = Fields /\ turn'.stage = "close" /\ turn'.no = turn.no
          /\ turn'.at = turn.at /\ turn'.plan = turn.plan /\ turn'.uncaught = turn.uncaught
          /\ turn'.faults = turn.faults /\ turn'.message = turn.message
          /\ turn'.placeholder = 0
      BY <1>5, <1>7, <2>3 DEF Fields
    <3>2. PICK p : /\ Put(p, "none", 0)
                   /\ p = Len(chat) + 1 \/ (p = turn.placeholder /\ p # 0)
      BY <2>1, <2>3
    <3>3. HeldInv'
      <4>1. \E q : \E kind \in AllKinds \ Trace : \E no \in Nat :
               /\ Put(q, kind, no)
               /\ q = Len(chat) + 1
                  \/ (q = turn.placeholder /\ q # 0 /\ (Over' \/ turn'.placeholder = 0))
        BY <1>4, <3>1, <3>2
      <4> QED
        BY <1>1, <1>2, <3>1, <4>1, HeldStays
    <3>4. TraceInv'
      BY <3>1 DEF TraceInv, TraceLeaves, Over
    <3>5. p \notin Parts /\ (p \in Mine => chat[p].kind # "notice")
      BY <1>2, <3>2, AtEnd DEF HeldInv, Parts, Mine, Kinds
    <3>6. (Told \/ Delivers(Len(turn.plan)))'
      BY <1>2, <1>3, <1>4, <3>1, <3>2, <3>5, OutcomeStays
    <3>7. turn'.faults \in Nat
      BY <1>2, <3>1 DEF TurnType
    <3> QED
      BY <1>2, <1>4, <3>1, <3>2, <3>3, <3>4, <3>6, <3>7, EndingStep
  <2> QED
    BY <2>2, <2>3
<1> QED
  BY <1>1, <1>6, <1>7

LEMMA TellsFailureStep == ASSUME IInv, NEW how \in Answers, TellsFailure(how) PROVE IInv'
<1> DEFINE told == Surrendered(turn, "piece")
<1>1. /\ turn.stage = "failed" /\ Takes(Said("notice", 0), how)
      /\ turn' = IF how = "ok" THEN [told EXCEPT !.stage = "close"]
                 ELSE [turn EXCEPT !.stage = "done", !.uncaught = TRUE, !.faults = @ + 1]
  BY DEF TellsFailure, Closes
<1>2. TurnType /\ ChatType /\ HeldInv /\ ~Over /\ ~turn.uncaught
  BY <1>1 DEF IInv, Over, TurnType
<1>3. "notice" \in AllKinds \ (Kinds \union Trace) /\ 0 \in Nat
  BY DEF AllKinds, Kinds, Trace
<1>4. \/ chat' = chat /\ how # "ok"
      \/ \E p : /\ Put(p, "notice", 0)
                /\ p = Len(chat) + 1 \/ (p = turn.placeholder /\ p # 0)
  BY <1>1, <1>2, <1>3, SaidPuts
<1>5. /\ DOMAIN told = Fields /\ told.stage = "failed" /\ told.no = turn.no
      /\ told.at = turn.at /\ told.plan = turn.plan /\ told.uncaught = turn.uncaught
      /\ told.faults = turn.faults /\ told.message = turn.message /\ told.placeholder = 0
  BY <1>1, <1>2, SurrenderedTurn DEF TurnType
<1> HIDE DEF told
<1>6. CASE how # "ok"
  <2>1. /\ DOMAIN turn' = Fields /\ turn'.stage = "done" /\ turn'.uncaught = TRUE
        /\ turn'.no = turn.no /\ turn'.at = turn.at /\ turn'.plan = turn.plan
        /\ turn'.faults = turn.faults + 1 /\ turn'.message = turn.message
        /\ turn'.placeholder = turn.placeholder
    BY <1>1, <1>2, <1>6 DEF TurnType, Fields
  <2>2. /\ turn'.at \in Nat /\ turn'.faults \in Nat /\ turn'.plan \in Seq(Kinds)
        /\ PiecesFirst(turn'.plan)
    BY <1>2, <2>1 DEF TurnType, PiecesFirst
  <2>3. \/ chat' = chat
        \/ \E p : \E kind \in AllKinds \ Trace : \E no \in Nat :
              /\ Put(p, kind, no)
              /\ \/ p = Len(chat) + 1
                 \/ p = turn.placeholder /\ p # 0
                    /\ (turn'.stage = "done" \/ turn'.placeholder = 0)
    BY <1>3, <1>4, <2>1
  <2> QED
    BY <1>2, <2>1, <2>2, <2>3, BrokenStep
<1>7. CASE how = "ok"
  <2>1. /\ DOMAIN turn' = Fields /\ turn'.stage = "close" /\ turn'.no = turn.no
        /\ turn'.at = turn.at /\ turn'.plan = turn.plan /\ turn'.uncaught = turn.uncaught
        /\ turn'.faults = turn.faults /\ turn'.message = turn.message
        /\ turn'.placeholder = 0
    BY <1>1, <1>5, <1>7 DEF Fields
  <2>2. PICK p : /\ Put(p, "notice", 0)
                 /\ p = Len(chat) + 1 \/ (p = turn.placeholder /\ p # 0)
    BY <1>4, <1>7
  <2>3. HeldInv'
    <3>1. \E q : \E kind \in AllKinds \ Trace : \E no \in Nat :
             /\ Put(q, kind, no)
             /\ q = Len(chat) + 1
                \/ (q = turn.placeholder /\ q # 0 /\ (Over' \/ turn'.placeholder = 0))
      BY <1>3, <2>1, <2>2
    <3> QED
      BY <1>1, <1>2, <2>1, <3>1, HeldStays
  <2>4. TraceInv'
    BY <2>1 DEF TraceInv, TraceLeaves, Over
  <2>5. (Told \/ Delivers(Len(turn.plan)))'
    <3>1. p \in Mine' /\ chat'[p].kind = "notice"
      BY <1>2, <1>3, <2>1, <2>2, MineThen, PutSeen
    <3> QED
      BY <3>1 DEF Told
  <2>6. turn'.faults \in Nat
    BY <1>2, <2>1 DEF TurnType
  <2> QED
    BY <1>2, <1>3, <2>1, <2>2, <2>3, <2>4, <2>5, <2>6, EndingStep
<1> QED
  BY <1>6, <1>7

LEMMA EndedTurn ==
    ASSUME NEW t, DOMAIN t = Fields, Ends(t)
    PROVE  /\ DOMAIN turn' = Fields /\ turn'.stage \in {"title", "done"} /\ turn'.no = t.no
           /\ turn'.at = t.at /\ turn'.plan = t.plan /\ turn'.uncaught = t.uncaught
           /\ turn'.faults = t.faults /\ turn'.message = t.message
           /\ turn'.placeholder = t.placeholder
<1> DEFINE stage == IF TitleDue THEN "title" ELSE "done"
<1>1. turn' = [t EXCEPT !.stage = stage] /\ stage \in {"title", "done"}
  BY DEF Ends
<1> HIDE DEF stage
<1> QED
  BY <1>1 DEF Fields

\* The message of the trace is taken away, or made a summary, or stays as it is.
LEMMA TraceGone ==
    ASSUME TurnType, ChatType, HeldInv, ~Over, turn.message # 0, NEW how \in Answers,
           NEW kind \in {"deleted", "summary"}, Takes(Edited(turn.message, kind, 0), how),
           turn'.no = turn.no
    PROVE  /\ \/ chat' = chat
              \/ \E p : \E k \in AllKinds : Put(p, k, 0)
           /\ Mine' = Mine /\ turn.message \in Mine
           /\ \A i \in Mine : i # turn.message =>
                 chat'[i] = chat[i] /\ chat[i].kind \notin Trace
           /\ chat'[turn.message].kind \in {chat[turn.message].kind, kind}
           /\ how # "refused" => \A i \in Mine' : chat'[i].kind \notin Trace
           /\ Told \/ Delivers(Len(turn.plan)) =>
                 (turn'.plan = turn.plan => (Told \/ Delivers(Len(turn.plan)))')
<1>1. kind \in AllKinds \ (Kinds \union Trace) /\ "deleted" \notin Trace /\ 0 \in Nat
  BY DEF AllKinds, Kinds, Trace
<1>2. /\ chat' = chat \/ Put(turn.message, kind, 0)
      /\ how # "refused" => \/ chat' = chat /\ chat[turn.message].kind = "deleted"
                            \/ Put(turn.message, kind, 0)
      /\ turn.message \notin Parts
  BY <1>1, TracePuts
<1>3. /\ turn.message \in Mine /\ chat[turn.message].kind # "notice"
      /\ \A i \in Mine : i # turn.message => chat[i].kind \notin Trace
  BY DEF HeldInv, Trace
<1>4. /\ Mine' = Mine /\ \A i \in Mine : i # turn.message => chat'[i] = chat[i]
      /\ \/ chat' = chat
         \/ chat'[turn.message].kind = kind
  <2>1. CASE chat' = chat
    BY <2>1, SameSeen
  <2>2. CASE Put(turn.message, kind, 0)
    <3>1. Mine' = Mine \union {turn.message}
      BY <1>1, <2>2, MineThen
    <3>2. /\ chat'[turn.message].kind = kind
          /\ \A i \in DOMAIN chat : i # turn.message => chat'[i] = chat[i]
      BY <1>1, <2>2, PutSeen
    <3> QED
      BY <1>3, <3>1, <3>2 DEF Mine
  <2> QED
    BY <1>2, <2>1, <2>2
<1>5. ASSUME how # "refused" PROVE \A i \in Mine' : chat'[i].kind \notin Trace
  <2>1. chat'[turn.message].kind \notin Trace
    <3>1. CASE chat' = chat /\ chat[turn.message].kind = "deleted"
      BY <1>1, <3>1
    <3>2. CASE Put(turn.message, kind, 0)
      BY <1>1, <3>2, PutSeen
    <3> QED
      BY <1>2, <1>5, <3>1, <3>2
  <2> QED
    BY <1>3, <1>4, <2>1
<1>6. ASSUME Told \/ Delivers(Len(turn.plan)), turn'.plan = turn.plan
      PROVE  (Told \/ Delivers(Len(turn.plan)))'
  BY <1>1, <1>2, <1>3, <1>6, OutcomeStays
<1> QED
  BY <1>1, <1>2, <1>3, <1>4, <1>5, <1>6

\* The trace is deleted, or the turn goes on to say that it is over.
LEMMA CloseStep == ASSUME IInv, NEW how \in Answers, Close(how) PROVE IInv'
<1>1. /\ turn.stage = "close"
      /\ \/ turn.message = 0 /\ Ends(turn) /\ chat' = chat
         \/ /\ turn.message # 0 /\ Takes(Edited(turn.message, "deleted", 0), how)
            /\ \/ how = "ok" /\ Ends(turn)
               \/ /\ how # "ok"
                  /\ turn' = [turn EXCEPT !.stage = "degrade", !.faults = @ + 1]
  BY DEF Close
<1>2. TurnType /\ ChatType /\ HeldInv /\ ~Over /\ ~turn.uncaught /\ DOMAIN turn = Fields
  BY <1>1 DEF IInv, Over, TurnType
<1>3. Told \/ Delivers(Len(turn.plan))
  BY <1>1, <1>2 DEF IInv, OutcomeInv
<1>4. CASE turn.message = 0 /\ Ends(turn) /\ chat' = chat
  <2>1. /\ DOMAIN turn' = Fields /\ turn'.stage \in {"title", "done"} /\ turn'.no = turn.no
        /\ turn'.at = turn.at /\ turn'.plan = turn.plan /\ turn'.uncaught = turn.uncaught
        /\ turn'.faults = turn.faults /\ turn'.message = turn.message
        /\ turn'.placeholder = turn.placeholder
    BY <1>2, <1>4, EndedTurn
  <2>2. Over' /\ turn'.faults \in Nat
    BY <1>2, <2>1 DEF Over, TurnType
  <2>3. HeldInv'
    BY <1>2, <1>4, <2>1, <2>2, HeldStays
  <2>4. TraceInv'
    BY <1>4, <2>1 DEF TraceInv, TraceLeaves
  <2>5. (Told \/ Delivers(Len(turn.plan)))'
    BY <1>2, <1>3, <1>4, <2>1, OutcomeStays
  <2> QED
    BY <1>2, <1>4, <2>1, <2>2, <2>3, <2>4, <2>5, EndingStep
<1>5. CASE turn.message # 0 /\ Takes(Edited(turn.message, "deleted", 0), how)
  <2>1. /\ DOMAIN turn' = Fields /\ turn'.no = turn.no
        /\ turn'.at = turn.at /\ turn'.plan = turn.plan /\ turn'.uncaught = turn.uncaught
        /\ turn'.message = turn.message /\ turn'.placeholder = turn.placeholder
        /\ \/ /\ turn'.stage \in {"title", "done"} /\ how = "ok"
              /\ turn'.faults = turn.faults
           \/ turn'.stage = "degrade" /\ turn'.faults = turn.faults + 1
    <3>1. CASE Ends(turn) /\ how = "ok"
      BY <1>2, <3>1, EndedTurn
    <3>2. CASE turn' = [turn EXCEPT !.stage = "degrade", !.faults = @ + 1]
      BY <1>2, <3>2 DEF Fields
    <3> QED
      BY <1>1, <1>5, <3>1, <3>2
  <2>2. turn'.faults \in Nat /\ (turn'.stage = "degrade" => turn'.faults >= 1)
    BY <1>2, <2>1 DEF TurnType
  <2>3. /\ \/ chat' = chat
           \/ \E k : \E kind \in AllKinds : Put(k, kind, 0)
        /\ Mine' = Mine /\ turn.message \in Mine
        /\ \A i \in Mine : i # turn.message => chat'[i] = chat[i] /\ chat[i].kind \notin Trace
        /\ chat'[turn.message].kind \in {chat[turn.message].kind, "deleted"}
        /\ how # "refused" => \A i \in Mine' : chat'[i].kind \notin Trace
        /\ (Told \/ Delivers(Len(turn.plan)))'
    BY <1>2, <1>3, <1>5, <2>1, TraceGone
  <2>4. turn.placeholder = 0 /\ chat[turn.message].kind \in Trace
    BY <1>1, <1>2, <1>5 DEF HeldInv
  <2>5. HeldInv'
    BY <1>5, <2>1, <2>3, <2>4 DEF HeldInv, Over
  <2>6. TraceInv'
    BY <1>5, <2>1, <2>2, <2>3 DEF TraceInv, TraceLeaves, Over, Trace
  <2> QED
    BY <1>2, <2>1, <2>2, <2>3, <2>5, <2>6, EndingStep
<1> QED
  BY <1>1, <1>4, <1>5

\* A second failure in a row is what it takes to keep the trace.
LEMMA DegradeStep == ASSUME IInv, NEW how \in Answers, Degrade(how) PROVE IInv'
<1> DEFINE faults == IF how = "ok" THEN turn.faults ELSE turn.faults + 1
           t == [turn EXCEPT !.faults = faults]
<1>1. /\ turn.stage = "degrade" /\ Takes(Edited(turn.message, "summary", 0), how) /\ Ends(t)
  BY DEF Degrade
<1>2. /\ TurnType /\ ChatType /\ HeldInv /\ ~Over /\ ~turn.uncaught /\ DOMAIN turn = Fields
      /\ turn.message # 0 /\ turn.faults >= 1 /\ turn.faults \in Nat
  BY <1>1 DEF IInv, TraceInv, Over, TurnType
<1>3. Told \/ Delivers(Len(turn.plan))
  BY <1>1, <1>2 DEF IInv, OutcomeInv
<1>4. faults \in Nat /\ (faults <= 1 => how = "ok")
  BY <1>2
<1> HIDE DEF faults
<1>5. /\ DOMAIN t = Fields /\ t.no = turn.no /\ t.at = turn.at /\ t.plan = turn.plan
      /\ t.uncaught = turn.uncaught /\ t.faults = faults /\ t.message = turn.message
      /\ t.placeholder = turn.placeholder
  BY <1>2 DEF Fields
<1> HIDE DEF t
<1>6. /\ DOMAIN turn' = Fields /\ turn'.stage \in {"title", "done"} /\ turn'.no = turn.no
      /\ turn'.at = turn.at /\ turn'.plan = turn.plan /\ turn'.uncaught = turn.uncaught
      /\ turn'.faults = faults /\ turn'.message = turn.message
      /\ turn'.placeholder = turn.placeholder
  BY <1>1, <1>5, EndedTurn
<1>7. /\ \/ chat' = chat
         \/ \E k : \E kind \in AllKinds : Put(k, kind, 0)
      /\ Mine' = Mine /\ turn.message \in Mine
      /\ \A i \in Mine : i # turn.message => chat'[i] = chat[i] /\ chat[i].kind \notin Trace
      /\ how # "refused" => \A i \in Mine' : chat'[i].kind \notin Trace
      /\ (Told \/ Delivers(Len(turn.plan)))'
  BY <1>1, <1>2, <1>3, <1>6, TraceGone
<1>8. turn.placeholder = 0 /\ Over'
  BY <1>2, <1>6 DEF HeldInv, Over
<1>9. HeldInv'
  BY <1>6, <1>7, <1>8 DEF HeldInv
<1>10. TraceInv'
  BY <1>4, <1>6, <1>7 DEF TraceInv, TraceLeaves, Trace
<1> QED
  BY <1>2, <1>4, <1>6, <1>7, <1>9, <1>10, EndingStep

-----------------------------------------------------------------------------
LEMMA InitHolds == Init => IInv
<1> SUFFICES ASSUME Init PROVE IInv
  OBVIOUS
<1>1. /\ chat = <<>> /\ DOMAIN turn = Fields /\ turn.stage = "done" /\ turn.no = 0
      /\ turn.placeholder = 0 /\ turn.message = 0 /\ turn.plan = <<>> /\ turn.at = 0
      /\ turn.uncaught = FALSE /\ turn.faults = 0
  BY DEF Init, NoTurn, Fields
<1>2. DOMAIN chat = {} /\ chat \in Seq(Messages) /\ Len(chat) = 0
  BY <1>1
<1>3. Mine = {} /\ Parts = {}
  BY <1>2 DEF Mine, Parts
<1>4. TurnType
  BY <1>1 DEF TurnType, PiecesFirst, Stages
<1>5. ChatType /\ HeldInv /\ TraceInv
  BY <1>1, <1>2, <1>3 DEF ChatType, HeldInv, TraceInv, TraceLeaves, Over
<1>6. Delivers(0) /\ Len(turn.plan) = 0
  BY <1>1, <1>3 DEF Delivers
<1>7. OutcomeInv
  BY <1>1, <1>6 DEF OutcomeInv, Early
<1> QED
  BY <1>4, <1>5, <1>7 DEF IInv

LEMMA NextKeeps == IInv /\ [Next]_vars => IInv'
<1> SUFFICES ASSUME IInv, [Next]_vars PROVE IInv'
  OBVIOUS
<1>1. CASE UNCHANGED vars \/ Tick \/ PersonRenames \/ Rescan
  BY <1>1, QuietStep DEF vars, Tick, PersonRenames, Rescan
<1>2. CASE \E command \in BOOLEAN : RunTurn(command)
  BY <1>2, BeginStep
<1>3. CASE \E detail \in Details : TurnStarted(detail)
  BY <1>3, StartedStep
<1>4. CASE Raises \/ Crash
  BY <1>4, RaisesStep, CrashStep
<1>5. ASSUME NEW how \in Answers,
             \/ Open(how) \/ Deliver(how) \/ Finish(how)
             \/ TellsFailure(how) \/ Close(how) \/ Degrade(how)
             \/ \E usable \in BOOLEAN : Rename(usable, how)
      PROVE  IInv'
  BY <1>5, OpenStep, DeliverStep, FinishStep, TellsFailureStep, CloseStep, DegradeStep,
     RenameStep
<1>6. ASSUME NEW how \in Answers, NEW ending \in Endings,
             \/ \E d \in Decisions : Decide(d, ending, how)
             \/ \E ok \in {"ok", "failed"} : ToolResult(ok, ending, how)
      PROVE  IInv'
  BY <1>6, WorkStep
<1> QED
  BY <1>1, <1>2, <1>3, <1>4, <1>5, <1>6 DEF Next

\* What a turn holds in the chat, and what it has said of its parts so far.
THEOREM Invariant == Spec => []IInv
<1>1. Init => IInv
  BY InitHolds
<1>2. IInv /\ [Next]_vars => IInv'
  BY NextKeeps
<1> QED
  BY <1>1, <1>2, PTL DEF Spec

\* A turn whose failure did not leave it has delivered every part of its plan once
\* and in its order, or has told that it failed (run_turn, deliver_events and
\* _maybe_turn): whatever the server refuses or loses, and wherever the turn is
\* when it breaks.
THEOREM OutcomeIsTold == Spec => []OutcomeTold
<1>1. IInv => OutcomeTold
  BY DEF IInv, OutcomeInv, OutcomeTold, Over, Told
<1> QED
  BY <1>1, Invariant, PTL

\* The live trace of a turn that told its outcome is deleted, or made a summary
\* when deleting fails (ChatActivity.close): only two failing calls keep it.
THEOREM TraceIsGone == Spec => []TraceLeaves
<1>1. IInv => TraceLeaves
  BY DEF IInv, TraceInv
<1> QED
  BY <1>1, Invariant, PTL
-----------------------------------------------------------------------------
(* What a list of lists reads as, one after another.  Induction is stated about
   sets, which the provers can instantiate. *)

LEMMA Counting ==
    ASSUME NEW S \in SUBSET Nat, 0 \in S, \A n \in S : n + 1 \in S
    PROVE  S = Nat
<1> SUFFICES ASSUME S # Nat PROVE FALSE
  OBVIOUS
<1>1. Nat \ S # {} /\ Nat \ S \subseteq Nat
  OBVIOUS
<1>2. PICK m \in Nat \ S : \A l \in Nat \ S : ~(<<l, m>> \in OpToRel(<, Nat))
  BY <1>1, WFMin, NatLessThanWellFounded
<1>3. m \in Nat /\ m \notin S /\ m # 0
  BY <1>2
<1>4. m - 1 \in Nat /\ m - 1 < m
  BY <1>3
<1>5. <<m - 1, m>> \in OpToRel(<, Nat)
  BY <1>3, <1>4 DEF OpToRel
<1>6. m - 1 \in S
  BY <1>2, <1>4, <1>5
<1>7. (m - 1) + 1 \in S
  BY <1>6
<1>8. (m - 1) + 1 = m
  BY <1>3
<1> QED
  BY <1>3, <1>7, <1>8

LEMMA Growing ==
    ASSUME NEW X, NEW P \in SUBSET Seq(X), <<>> \in P,
           \A s \in P : \A x \in X : Append(s, x) \in P
    PROVE  P = Seq(X)
<1> DEFINE S == {n \in Nat : \A s \in Seq(X) : Len(s) = n => s \in P}
<1>1. 0 \in S
  <2>1. \A s \in Seq(X) : Len(s) = 0 => s = <<>>
    BY EmptySeq
  <2> QED
    BY <2>1
<1>2. ASSUME NEW n \in S PROVE n + 1 \in S
  <2>1. ASSUME NEW s \in Seq(X), Len(s) = n + 1 PROVE s \in P
    <3>1. s # <<>> /\ n \in Nat
      BY <1>2, <2>1, EmptySeq
    <3>2. PICK r \in Seq(X), x \in X : s = Append(r, x)
      BY <3>1, SequenceEmptyOrAppend
    <3>3. Len(r) \in Nat /\ Len(s) = Len(r) + 1
      BY <3>2, AppendProperties, LenProperties
    <3>4. Len(r) = n
      BY <2>1, <3>1, <3>3
    <3>5. r \in P
      BY <1>2, <3>4
    <3> QED
      BY <3>2, <3>5
  <2> QED
    BY <1>2, <2>1
<1>3. S = Nat
  <2> HIDE DEF S
  <2>1. S \in SUBSET Nat
    BY DEF S
  <2> QED
    BY <1>1, <1>2, <2>1, Counting
<1>4. \A s \in Seq(X) : s \in P
  <2>1. \A s \in Seq(X) : Len(s) \in S
    BY <1>3, LenProperties
  <2> QED
    BY <2>1
<1> QED
  BY <1>4

\* The recursive function of FlattenSeq.
IsFlat(f, lists, n) ==
    f = [i \in 1..n |-> IF i = 1 THEN lists[i] ELSE f[i - 1] \o lists[i]]

LEMMA FlatExists ==
    ASSUME NEW lists
    PROVE  \A n \in Nat \ {0} : \E f : IsFlat(f, lists, n)
<1> DEFINE S == {n \in Nat : n # 0 => \E f : IsFlat(f, lists, n)}
<1>1. 0 \in S
  OBVIOUS
<1>2. ASSUME NEW n \in S PROVE n + 1 \in S
  <2>1. CASE n = 0
    <3> DEFINE g == [i \in 1..1 |-> lists[1]]
    <3>1. IsFlat(g, lists, 1)
      BY DEF IsFlat
    <3>2. n + 1 = 1
      BY <2>1
    <3> HIDE DEF g
    <3> QED
      BY <3>1, <3>2
  <2>2. CASE n # 0
    <3>1. n \in Nat /\ n >= 1
      BY <2>2
    <3>2. PICK f : IsFlat(f, lists, n)
      BY <2>2
    <3> DEFINE g == [i \in 1..(n + 1) |-> IF i = n + 1 THEN f[n] \o lists[i] ELSE f[i]]
    <3>3. \A i \in 1..n : f[i] = IF i = 1 THEN lists[i] ELSE f[i - 1] \o lists[i]
      BY <3>2 DEF IsFlat
    <3>4. \A i \in 1..(n + 1) : g[i] = IF i = 1 THEN lists[i] ELSE g[i - 1] \o lists[i]
      <4> SUFFICES ASSUME NEW i \in 1..(n + 1)
                   PROVE  g[i] = IF i = 1 THEN lists[i] ELSE g[i - 1] \o lists[i]
        OBVIOUS
      <4>1. CASE i = 1
        <5>1. 1 \in 1..n /\ 1 # n + 1
          BY <3>1
        <5> QED
          BY <3>3, <4>1, <5>1
      <4>2. CASE i # 1 /\ i = n + 1
        <5>1. n \in 1..(n + 1) /\ n # n + 1 /\ i - 1 = n
          BY <3>1, <4>2
        <5>2. g[i] = f[n] \o lists[i] /\ g[n] = f[n]
          BY <4>2, <5>1
        <5> HIDE DEF g
        <5> QED
          BY <4>2, <5>1, <5>2
      <4>3. CASE i # 1 /\ i # n + 1
        <5>1. i \in 1..n /\ i - 1 \in 1..(n + 1) /\ i - 1 # n + 1
          BY <3>1, <4>3
        <5>2. g[i] = f[i] /\ g[i - 1] = f[i - 1]
          BY <4>3, <5>1
        <5> HIDE DEF g
        <5> QED
          BY <3>3, <4>3, <5>1, <5>2
      <4> QED
        BY <4>1, <4>2, <4>3
    <3>5. g = [i \in 1..(n + 1) |-> g[i]]
      OBVIOUS
    <3> HIDE DEF g
    <3>6. IsFlat(g, lists, n + 1)
      BY <3>4, <3>5 DEF IsFlat
    <3> QED
      BY <3>1, <3>6
  <2> QED
    BY <2>1, <2>2
<1>3. S = Nat
  <2> HIDE DEF S
  <2>1. S \in SUBSET Nat
    BY DEF S
  <2> QED
    BY <1>1, <1>2, <2>1, Counting
<1> QED
  BY <1>3

LEMMA FlatSteps ==
    ASSUME NEW X, NEW lists \in Seq(X), lists # <<>>
    PROVE  \E f : /\ f[1] = lists[1]
                  /\ \A i \in 2..Len(lists) : f[i] = f[i - 1] \o lists[i]
                  /\ FlattenSeq(lists) = f[Len(lists)]
<1>1. Len(lists) \in Nat \ {0}
  BY EmptySeq
<1> DEFINE f == CHOOSE f : IsFlat(f, lists, Len(lists))
<1>2. IsFlat(f, lists, Len(lists))
  BY <1>1, FlatExists
<1>3. FlattenSeq(lists) = f[Len(lists)]
  BY <1>1 DEF FlattenSeq, IsFlat
<1> HIDE DEF f
<1>4. \A i \in 1..Len(lists) : f[i] = IF i = 1 THEN lists[i] ELSE f[i - 1] \o lists[i]
  BY <1>2 DEF IsFlat
<1>5. 1 \in 1..Len(lists) /\ \A i \in 2..Len(lists) : i \in 1..Len(lists) /\ i # 1
  BY <1>1
<1> QED
  BY <1>3, <1>4, <1>5

LEMMA FlatOne ==
    ASSUME NEW X, NEW b \in Seq(X)
    PROVE  FlattenSeq(<<b>>) = b /\ FlattenSeq(<<>>) = <<>>
<1>1. <<b>> \in Seq(Seq(X)) /\ <<b>> # <<>> /\ <<b>>[1] = b /\ Len(<<b>>) = 1
  OBVIOUS
<1>2. FlattenSeq(<<b>>) = b
  BY <1>1, FlatSteps
<1>3. FlattenSeq(<<>>) = <<>>
  BY DEF FlattenSeq
<1> QED
  BY <1>2, <1>3

LEMMA FlatAppend ==
    ASSUME NEW X, NEW lists \in Seq(Seq(X)), NEW b \in Seq(X)
    PROVE  /\ FlattenSeq(Append(lists, b)) = FlattenSeq(lists) \o b
           /\ FlattenSeq(lists) \in Seq(X)
<1> DEFINE n == Len(lists)
           longer == Append(lists, b)
<1>1. CASE lists = <<>>
  <2>1. Append(lists, b) = <<b>> /\ <<>> \o b = b /\ <<>> \in Seq(X)
    BY <1>1
  <2> QED
    BY <1>1, <2>1, FlatOne
<1>2. CASE lists # <<>>
  <2>1. /\ longer \in Seq(Seq(X)) /\ longer # <<>> /\ n \in Nat /\ n >= 1
        /\ Len(longer) = n + 1 /\ longer[n + 1] = b
        /\ \A i \in 1..n : longer[i] = lists[i] /\ lists[i] \in Seq(X)
    <3>1. n \in Nat /\ n # 0
      BY <1>2, EmptySeq, LenProperties
    <3>2. /\ longer \in Seq(Seq(X)) /\ longer # <<>>
          /\ Len(longer) = n + 1 /\ longer[n + 1] = b
          /\ \A i \in 1..n : longer[i] = lists[i]
      BY AppendProperties
    <3>3. \A i \in 1..n : lists[i] \in Seq(X)
      BY ElementOfSeq
    <3> QED
      BY <3>1, <3>2, <3>3
  <2> HIDE DEF longer
  <2>2. PICK f : /\ f[1] = lists[1]
                 /\ \A i \in 2..n : f[i] = f[i - 1] \o lists[i]
                 /\ FlattenSeq(lists) = f[n]
    BY <1>2, FlatSteps
  <2>3. PICK g : /\ g[1] = longer[1]
                 /\ \A i \in 2..(n + 1) : g[i] = g[i - 1] \o longer[i]
                 /\ FlattenSeq(longer) = g[n + 1]
    BY <2>1, FlatSteps
  <2> HIDE DEF n
  <2> DEFINE S == {i \in Nat : i + 1 <= n => f[i + 1] = g[i + 1] /\ f[i + 1] \in Seq(X)}
  <2>4. 0 \in S
    BY <2>1, <2>2, <2>3
  <2>5. ASSUME NEW i \in S PROVE i + 1 \in S
    <3>1. i \in Nat /\ i + 1 \in Nat
      BY <2>5
    <3>2. SUFFICES ASSUME i + 2 <= n
                   PROVE  f[i + 2] = g[i + 2] /\ f[i + 2] \in Seq(X)
      BY <3>1
    <3>3. f[i + 1] = g[i + 1] /\ f[i + 1] \in Seq(X)
      BY <2>1, <2>5, <3>1, <3>2
    <3>4. i + 2 \in 2..n /\ i + 2 \in 2..(n + 1) /\ i + 2 \in 1..n /\ (i + 2) - 1 = i + 1
      BY <2>1, <3>1, <3>2
    <3>5. f[i + 2] = f[i + 1] \o lists[i + 2] /\ g[i + 2] = g[i + 1] \o longer[i + 2]
      BY <2>2, <2>3, <3>4
    <3>6. longer[i + 2] = lists[i + 2] /\ lists[i + 2] \in Seq(X)
      BY <2>1, <3>4
    <3> QED
      BY <3>3, <3>5, <3>6
  <2>6. S = Nat
    <3> HIDE DEF S
    <3>1. S \in SUBSET Nat
      BY DEF S
    <3> QED
      BY <2>4, <2>5, <3>1, Counting
  <2>7. n - 1 \in Nat /\ (n - 1) + 1 = n
    BY <2>1
  <2>8. f[n] = g[n] /\ f[n] \in Seq(X)
    BY <2>6, <2>7
  <2>9. n + 1 \in 2..(n + 1) /\ (n + 1) - 1 = n
    BY <2>1
  <2>10. g[n + 1] = g[n] \o b
    BY <2>1, <2>3, <2>9
  <2> QED
    BY <2>2, <2>3, <2>8, <2>10 DEF longer
<1> QED
  BY <1>1, <1>2

\* What a list of lists holds is that of its parts, in their order.
LEMMA FlatConcat ==
    ASSUME NEW X, NEW s \in Seq(Seq(X)), NEW t \in Seq(Seq(X))
    PROVE  FlattenSeq(s \o t) = FlattenSeq(s) \o FlattenSeq(t)
<1> DEFINE P == {r \in Seq(Seq(X)) : FlattenSeq(s \o r) = FlattenSeq(s) \o FlattenSeq(r)}
<1>1. <<>> \in P
  <2>1. FlattenSeq(s) \in Seq(X) /\ <<>> \in Seq(X) /\ <<>> \in Seq(Seq(X))
    BY FlatAppend
  <2>2. s \o <<>> = s /\ FlattenSeq(s) \o <<>> = FlattenSeq(s)
    BY <2>1, ConcatEmptySeq
  <2> QED
    BY <2>1, <2>2, FlatOne
<1>2. ASSUME NEW r \in P, NEW b \in Seq(X) PROVE Append(r, b) \in P
  <2>1. r \in Seq(Seq(X)) /\ Append(r, b) \in Seq(Seq(X)) /\ s \o r \in Seq(Seq(X))
    BY <1>2
  <2>2. s \o Append(r, b) = Append(s \o r, b)
    BY <2>1
  <2>3. FlattenSeq(s \o Append(r, b)) = FlattenSeq(s \o r) \o b
    BY <2>1, <2>2, FlatAppend
  <2>4. FlattenSeq(Append(r, b)) = FlattenSeq(r) \o b
    BY <2>1, FlatAppend
  <2>5. FlattenSeq(s) \in Seq(X) /\ FlattenSeq(r) \in Seq(X)
    BY <2>1, FlatAppend
  <2>6. (FlattenSeq(s) \o FlattenSeq(r)) \o b = FlattenSeq(s) \o (FlattenSeq(r) \o b)
    BY <2>5, ConcatAssociative
  <2> QED
    BY <1>2, <2>1, <2>3, <2>4, <2>6
<1>3. P = Seq(Seq(X))
  <2> HIDE DEF P
  <2>1. P \in SUBSET Seq(Seq(X))
    BY DEF P
  <2> QED
    BY <1>1, <1>2, <2>1, Growing
<1> QED
  BY <1>3

-----------------------------------------------------------------------------
(* The log of a turn and what is rendered of it. *)

Fates == {"ok", "failed", "running"}
Calls == [id : Nat, ok : Fates]
Lists == Seq(Seq(Calls))

\* The calls that were announced, in their order, with what became of each.
Announcements(fates) == [i \in 1..Len(fates) |-> [id |-> i, ok |-> fates[i]]]

\* A decision without calls adds no line.
LEMMA ActingFlat ==
    ASSUME NEW lists \in Lists
    PROVE  Acting(lists) \in Lists /\ FlattenSeq(Acting(lists)) = FlattenSeq(lists)
<1> DEFINE Block(b) == IF b = <<>> THEN <<>> ELSE <<b>>
           Blocks(r) == [d \in DOMAIN r |-> Block(r[d])]
           P == {r \in Lists : /\ Blocks(r) \in Seq(Lists) /\ Acting(r) \in Lists
                               /\ FlattenSeq(Acting(r)) = FlattenSeq(r)}
<1>1. \A r : Acting(r) = FlattenSeq(Blocks(r))
  BY DEF Acting
<1>2. \A b \in Seq(Calls) : Block(b) \in Lists
  BY DEF Lists
<1>3. <<>> \in P
  <2>1. Blocks(<<>>) = <<>> /\ <<>> \in Lists /\ <<>> \in Seq(Lists)
    BY DEF Lists
  <2>2. FlattenSeq(<<>>) = <<>>
    BY FlatOne, <2>1 DEF Lists
  <2> QED
    BY <1>1, <2>1, <2>2
<1>4. ASSUME NEW r \in P, NEW b \in Seq(Calls) PROVE Append(r, b) \in P
  <2>1. r \in Lists /\ Blocks(r) \in Seq(Lists) /\ Append(r, b) \in Lists
    BY <1>4 DEF Lists
  <2>2. Blocks(Append(r, b)) = Append(Blocks(r), Block(b))
    <3>1. Len(r) \in Nat /\ DOMAIN r = 1..Len(r) /\ Len(Append(r, b)) = Len(r) + 1
      BY <2>1 DEF Lists
    <3>2. DOMAIN Append(r, b) = 1..(Len(r) + 1)
      BY <2>1, <3>1 DEF Lists
    <3>3. \A i \in 1..Len(r) : Append(r, b)[i] = r[i]
      BY <2>1 DEF Lists
    <3>4. Append(r, b)[Len(r) + 1] = b
      BY <2>1 DEF Lists
    <3>5. Len(Blocks(r)) = Len(r)
      BY <2>1, <3>1
    <3> HIDE DEF Block
    <3>6. Append(Blocks(r), Block(b))
            = [i \in 1..(Len(r) + 1) |-> IF i = Len(r) + 1 THEN Block(b) ELSE Block(r[i])]
      BY <2>1, <3>1, <3>5
    <3> QED
      BY <3>1, <3>2, <3>3, <3>4, <3>6
  <2>3. /\ FlattenSeq(Blocks(Append(r, b))) = FlattenSeq(Blocks(r)) \o Block(b)
        /\ FlattenSeq(Blocks(r)) \in Lists /\ Block(b) \in Lists
        /\ Append(Blocks(r), Block(b)) \in Seq(Lists)
    <3> HIDE DEF Block, Blocks
    <3>1. \A l \in Seq(Lists), c \in Lists :
             /\ FlattenSeq(Append(l, c)) = FlattenSeq(l) \o c /\ FlattenSeq(l) \in Lists
             /\ Append(l, c) \in Seq(Lists)
      BY FlatAppend, AppendProperties DEF Lists
    <3>2. Block(b) \in Lists
      BY <1>2
    <3> QED
      BY <2>1, <2>2, <3>1, <3>2
  <2>4. Acting(Append(r, b)) = Acting(r) \o Block(b) /\ Acting(r) \in Lists
    BY <1>1, <2>3
  <2>5. FlattenSeq(Acting(Append(r, b))) = FlattenSeq(Acting(r)) \o FlattenSeq(Block(b))
    <3> HIDE DEF Block
    <3> QED
      BY <2>3, <2>4, FlatConcat DEF Lists
  <2>6. FlattenSeq(Block(b)) = b
    BY FlatOne
  <2>7. FlattenSeq(Append(r, b)) = FlattenSeq(r) \o b
    BY <2>1, FlatAppend DEF Lists
  <2>8. Acting(r) \o Block(b) \in Lists
    <3> HIDE DEF Block
    <3> QED
      BY <2>3, <2>4, ConcatProperties DEF Lists
  <2> HIDE DEF Block, Blocks
  <2> QED
    BY <1>4, <2>1, <2>2, <2>3, <2>4, <2>5, <2>6, <2>7, <2>8
<1>5. P = Lists
  <2> HIDE DEF P
  <2>1. P \in SUBSET Seq(Seq(Calls))
    BY DEF P, Lists
  <2> QED
    BY <1>3, <1>4, <2>1, Growing DEF Lists
<1> QED
  BY <1>5

\* However much fits, the decisions are cut in two at some place.
LEMMA Least ==
    ASSUME NEW S \in SUBSET Nat, S # {}
    PROVE  Min(S) \in S
<1>1. PICK m \in S : \A l \in S : ~(<<l, m>> \in OpToRel(<, Nat))
  BY WFMin, NatLessThanWellFounded
<1>2. \A l \in S : m <= l
  <2> SUFFICES ASSUME NEW l \in S PROVE m <= l
    OBVIOUS
  <2>1. l \in Nat /\ m \in Nat
    BY <1>1
  <2>2. ASSUME l < m PROVE FALSE
    <3>1. <<l, m>> \in OpToRel(<, Nat)
      BY <2>1, <2>2 DEF OpToRel
    <3> QED
      BY <1>1, <3>1
  <2> QED
    BY <2>1, <2>2
<1> QED
  BY <1>1, <1>2 DEF Min

LEMMA DroppedSome ==
    ASSUME NEW detail, NEW blocks \in Lists
    PROVE  Dropped(detail, blocks) \in 0..Len(blocks)
<1>1. Len(blocks) \in Nat
  BY DEF Lists
<1>2. Earlier(blocks) \subseteq 0..Len(blocks)
  BY <1>1 DEF Earlier
<1>3. Max(Earlier(blocks)) \in Earlier(blocks)
  <2>1. \E m \in Earlier(blocks) : \A y \in Earlier(blocks) : m >= y
    <3>1. CASE Len(blocks) <= 1
      BY <1>1, <3>1 DEF Earlier
    <3>2. CASE Len(blocks) > 1
      <4>1. /\ Len(blocks) - 1 \in Earlier(blocks)
            /\ \A y \in Earlier(blocks) : Len(blocks) - 1 >= y
        BY <1>1, <3>2 DEF Earlier
      <4> QED
        BY <4>1
    <3> QED
      BY <1>1, <3>1, <3>2
  <2> QED
    BY <2>1 DEF Max
<1> DEFINE fits == {s \in Earlier(blocks) : \E rich \in {0, 1} :
                      /\ Size(detail, blocks, s, rich) <= LineLimit
                      /\ s > 0 => rich = 1}
<1>4. Dropped(detail, blocks) = IF fits = {} THEN Max(Earlier(blocks)) ELSE Min(fits)
  BY DEF Dropped
<1>5. fits \subseteq Earlier(blocks) /\ Earlier(blocks) \subseteq Nat
  BY <1>1 DEF Earlier
<1> HIDE DEF fits
<1>6. fits # {} => Min(fits) \in fits
  BY <1>5, Least
<1> QED
  BY <1>2, <1>3, <1>4, <1>5, <1>6

\* What is counted and what is shown are the two ends of the calls.
LEMMA RenderedWhole ==
    ASSUME NEW detail, NEW log, log.decisions \in Lists
    PROVE  \E head \in Seq(Calls) :
              LET seen == Render(detail, log) IN
              /\ seen.counted = Len(head) /\ seen.lines \in Seq(Calls)
              /\ head \o seen.lines = FlattenSeq(log.decisions)
<1> DEFINE blocks == Acting(log.decisions)
           start == Dropped(detail, blocks)
           pre == SubSeq(blocks, 1, start)
           post == SubSeq(blocks, start + 1, Len(blocks))
<1>1. /\ blocks \in Lists /\ FlattenSeq(blocks) = FlattenSeq(log.decisions)
      /\ FlattenSeq(blocks) \in Seq(Calls)
  BY ActingFlat, FlatAppend DEF Lists
<1>2. /\ Render(detail, log).counted
           = IF detail = "minimal" THEN Len(FlattenSeq(blocks)) ELSE Len(FlattenSeq(pre))
      /\ Render(detail, log).lines
           = IF detail = "minimal" THEN <<>> ELSE FlattenSeq(post)
  BY DEF Render, Collapsed
<1> HIDE DEF blocks
<1>3. Len(blocks) \in Nat /\ start \in 0..Len(blocks)
  BY <1>1, DroppedSome DEF Lists
<1> HIDE DEF start
<1>4. pre \in Lists /\ post \in Lists /\ pre \o post = blocks
  <2>1. \A i \in 1..Len(blocks) : blocks[i] \in Seq(Calls)
    BY <1>1, ElementOfSeq DEF Lists
  <2>2. \A i \in 1..start : i \in 1..Len(blocks)
    BY <1>3
  <2>3. \A i \in (start + 1)..Len(blocks) : i \in 1..Len(blocks)
    BY <1>3
  <2>4. pre \in Lists
    BY <1>3, <2>1, <2>2, SubSeqProperties DEF Lists
  <2>5. post \in Lists
    BY <1>3, <2>1, <2>3, SubSeqProperties DEF Lists
  <2>6. pre \o post = SubSeq(blocks, 1, Len(blocks))
    <3>1. /\ 1 \in 1..(Len(blocks) + 1) /\ start \in (1 - 1)..Len(blocks)
          /\ Len(blocks) \in start..Len(blocks) /\ blocks \in Seq(Seq(Calls))
      BY <1>1, <1>3 DEF Lists
    <3> QED
      BY <3>1, ConcatAdjacentSubSeq
  <2>7. SubSeq(blocks, 1, Len(blocks)) = blocks
    BY <1>1, SubSeqFull DEF Lists
  <2> QED
    BY <2>4, <2>5, <2>6, <2>7
<1> HIDE DEF pre, post
<1>5. /\ FlattenSeq(pre) \in Seq(Calls) /\ FlattenSeq(post) \in Seq(Calls)
      /\ FlattenSeq(pre) \o FlattenSeq(post) = FlattenSeq(blocks)
  <2>1. \A l \in Lists : FlattenSeq(l) \in Seq(Calls)
    BY FlatAppend DEF Lists
  <2>2. FlattenSeq(pre \o post) = FlattenSeq(pre) \o FlattenSeq(post)
    BY <1>4, FlatConcat DEF Lists
  <2> QED
    BY <1>4, <2>1, <2>2
<1>6. CASE detail = "minimal"
  <2>1. FlattenSeq(blocks) \o <<>> = FlattenSeq(blocks) /\ <<>> \in Seq(Calls)
    BY <1>1, ConcatEmptySeq
  <2> QED
    BY <1>1, <1>2, <1>6, <2>1
<1>7. CASE detail # "minimal"
  BY <1>1, <1>2, <1>5, <1>7
<1> QED
  BY <1>6, <1>7

\* What is done to every call of every decision is done to the list of them all.
Mapped(h, s) == [i \in DOMAIN s |-> h[s[i]]]

LEMMA MappedType ==
    ASSUME NEW X, NEW h \in [X -> X], NEW s \in Seq(X)
    PROVE  Mapped(h, s) \in Seq(X) /\ Len(Mapped(h, s)) = Len(s)
<1>1. Len(s) \in Nat /\ DOMAIN s = 1..Len(s) /\ \A i \in 1..Len(s) : s[i] \in X
  BY ElementOfSeq, LenProperties
<1> QED
  BY <1>1 DEF Mapped

LEMMA MappedConcat ==
    ASSUME NEW X, NEW h \in [X -> X], NEW s \in Seq(X), NEW t \in Seq(X)
    PROVE  Mapped(h, s \o t) = Mapped(h, s) \o Mapped(h, t)
<1>1. /\ Len(s) \in Nat /\ DOMAIN s = 1..Len(s) /\ \A i \in 1..Len(s) : s[i] \in X
      /\ Len(t) \in Nat /\ DOMAIN t = 1..Len(t) /\ \A i \in 1..Len(t) : t[i] \in X
  BY ElementOfSeq, LenProperties
<1>2. /\ Mapped(h, s) \in Seq(X) /\ Len(Mapped(h, s)) = Len(s)
      /\ Mapped(h, t) \in Seq(X) /\ Len(Mapped(h, t)) = Len(t)
  BY MappedType
<1>3. /\ \A i \in 1..Len(s) : Mapped(h, s)[i] = h[s[i]]
      /\ \A i \in 1..Len(t) : Mapped(h, t)[i] = h[t[i]]
  BY <1>1 DEF Mapped
<1>4. /\ s \o t \in Seq(X) /\ Len(s \o t) = Len(s) + Len(t)
      /\ \A i \in 1..(Len(s) + Len(t)) :
            (s \o t)[i] = IF i <= Len(s) THEN s[i] ELSE t[i - Len(s)]
  BY ConcatProperties
<1>5. /\ Mapped(h, s) \o Mapped(h, t) \in Seq(X)
      /\ Len(Mapped(h, s) \o Mapped(h, t)) = Len(s) + Len(t)
      /\ \A i \in 1..(Len(s) + Len(t)) :
            (Mapped(h, s) \o Mapped(h, t))[i]
               = IF i <= Len(s) THEN Mapped(h, s)[i] ELSE Mapped(h, t)[i - Len(s)]
  <2> DEFINE u == Mapped(h, s)
             v == Mapped(h, t)
  <2> HIDE DEF u, v
  <2>1. u \in Seq(X) /\ v \in Seq(X) /\ Len(u) = Len(s) /\ Len(v) = Len(t)
    BY <1>2 DEF u, v
  <2>2. /\ u \o v \in Seq(X) /\ Len(u \o v) = Len(u) + Len(v)
        /\ \A i \in 1..(Len(u) + Len(v)) :
              (u \o v)[i] = IF i <= Len(u) THEN u[i] ELSE v[i - Len(u)]
    BY <2>1, ConcatProperties
  <2> QED
    BY <2>1, <2>2 DEF u, v
<1>6. /\ Mapped(h, s \o t) \in Seq(X) /\ Len(Mapped(h, s \o t)) = Len(s) + Len(t)
      /\ \A i \in 1..(Len(s) + Len(t)) : Mapped(h, s \o t)[i] = h[(s \o t)[i]]
  <2>1. \A i \in 1..Len(s \o t) : (s \o t)[i] \in X
    BY <1>4, ElementOfSeq
  <2>2. Len(s \o t) \in Nat /\ DOMAIN (s \o t) = 1..Len(s \o t)
    BY <1>4, LenProperties
  <2> QED
    BY <1>4, <2>1, <2>2 DEF Mapped
<1>7. ASSUME NEW i \in 1..(Len(s) + Len(t))
      PROVE  Mapped(h, s \o t)[i] = (Mapped(h, s) \o Mapped(h, t))[i]
  <2>1. CASE i <= Len(s)
    <3>1. i \in 1..Len(s)
      BY <1>1, <2>1
    <3>2. Mapped(h, s)[i] = h[s[i]] /\ (s \o t)[i] = s[i]
      BY <1>3, <1>4, <2>1, <3>1
    <3>3. (Mapped(h, s) \o Mapped(h, t))[i] = Mapped(h, s)[i]
      BY <1>5, <2>1
    <3>4. Mapped(h, s \o t)[i] = h[(s \o t)[i]]
      BY <1>6
    <3> QED
      BY <3>2, <3>3, <3>4
  <2>2. CASE ~(i <= Len(s))
    <3>1. i - Len(s) \in 1..Len(t)
      BY <1>1, <2>2
    <3> QED
      BY <1>3, <1>4, <1>5, <1>6, <2>2, <3>1
  <2> QED
    BY <2>1, <2>2
<1>8. Mapped(h, s \o t) = Mapped(h, s) \o Mapped(h, t)
  BY <1>5, <1>6, <1>7, SeqEqual
<1> QED
  BY <1>8

LEMMA MappedFlat ==
    ASSUME NEW X, NEW h \in [X -> X], NEW lists \in Seq(Seq(X))
    PROVE  LET each == [d \in DOMAIN lists |-> Mapped(h, lists[d])] IN
           each \in Seq(Seq(X)) /\ FlattenSeq(each) = Mapped(h, FlattenSeq(lists))
<1> DEFINE Each(r) == [d \in DOMAIN r |-> Mapped(h, r[d])]
           P == {r \in Seq(Seq(X)) : /\ Each(r) \in Seq(Seq(X))
                                     /\ FlattenSeq(Each(r)) = Mapped(h, FlattenSeq(r))}
<1>1. <<>> \in P
  <2>1. Each(<<>>) = <<>> /\ <<>> \in Seq(Seq(X)) /\ Mapped(h, <<>>) = <<>>
    BY DEF Mapped
  <2>2. FlattenSeq(<<>>) = <<>>
    BY FlatOne, <2>1
  <2> QED
    BY <2>1, <2>2
<1>2. ASSUME NEW r \in P, NEW b \in Seq(X) PROVE Append(r, b) \in P
  <2>1. r \in Seq(Seq(X)) /\ Each(r) \in Seq(Seq(X)) /\ Append(r, b) \in Seq(Seq(X))
    BY <1>2
  <2>2. Each(Append(r, b)) = Append(Each(r), Mapped(h, b))
    <3>1. Len(r) \in Nat /\ DOMAIN r = 1..Len(r) /\ Len(Append(r, b)) = Len(r) + 1
      BY <2>1
    <3>2. DOMAIN Append(r, b) = 1..(Len(r) + 1)
      BY <2>1, <3>1
    <3>3. \A i \in 1..Len(r) : Append(r, b)[i] = r[i]
      BY <2>1
    <3>4. Append(r, b)[Len(r) + 1] = b
      BY <2>1
    <3>5. Len(Each(r)) = Len(r)
      BY <2>1, <3>1
    <3>6. Append(Each(r), Mapped(h, b))
            = [i \in 1..(Len(r) + 1) |-> IF i = Len(r) + 1 THEN Mapped(h, b)
                                         ELSE Mapped(h, r[i])]
      BY <2>1, <3>1, <3>5
    <3> QED
      BY <3>1, <3>2, <3>3, <3>4, <3>6
  <2>3. Mapped(h, b) \in Seq(X)
    BY MappedType
  <2> HIDE DEF Each
  <2>4. FlattenSeq(Each(Append(r, b))) = FlattenSeq(Each(r)) \o Mapped(h, b)
    BY <2>1, <2>2, <2>3, FlatAppend
  <2>5. FlattenSeq(Append(r, b)) = FlattenSeq(r) \o b /\ FlattenSeq(r) \in Seq(X)
    BY <2>1, FlatAppend
  <2>6. Mapped(h, FlattenSeq(r) \o b) = Mapped(h, FlattenSeq(r)) \o Mapped(h, b)
    <3> DEFINE u == FlattenSeq(r)
    <3> HIDE DEF u, P
    <3>1. u \in Seq(X)
      BY <2>5 DEF u
    <3>2. Mapped(h, u \o b) = Mapped(h, u) \o Mapped(h, b)
      BY <1>2, <3>1, MappedConcat
    <3> QED
      BY <3>2 DEF u
  <2>7. Append(Each(r), Mapped(h, b)) \in Seq(Seq(X))
    BY <2>1, <2>3, AppendProperties
  <2> QED
    BY <1>2, <2>1, <2>2, <2>4, <2>5, <2>6, <2>7
<1>3. P = Seq(Seq(X))
  <2> HIDE DEF P
  <2>1. P \in SUBSET Seq(Seq(X))
    BY DEF P
  <2> QED
    BY <1>1, <1>2, <2>1, Growing
<1> QED
  BY <1>3

\* The log of a turn tells what became of its calls: each call that was announced
\* is in it, in its order, and those that wait are the ones the turn still runs.
LoggedAs(log, fates, todo) ==
    /\ log.decisions \in Lists /\ fates \in Seq(Fates)
    /\ FlattenSeq(log.decisions) = Announcements(fates)
    /\ log.pending = todo /\ todo \in Seq(1..Len(fates))

LEMMA AnnouncedConcat ==
    ASSUME NEW f \in Seq(Fates), NEW g \in Seq(Fates)
    PROVE  /\ Announcements(f) \in Seq(Calls)
           /\ Announcements(f \o g) = Announcements(f) \o
                 [i \in 1..Len(g) |-> [id |-> Len(f) + i, ok |-> g[i]]]
<1> DEFINE tail == [i \in 1..Len(g) |-> [id |-> Len(f) + i, ok |-> g[i]]]
<1>1. /\ Len(f) \in Nat /\ \A i \in 1..Len(f) : f[i] \in Fates
      /\ Len(g) \in Nat /\ \A i \in 1..Len(g) : g[i] \in Fates
  BY ElementOfSeq, LenProperties
<1>2. Announcements(f) \in Seq(Calls) /\ Len(Announcements(f)) = Len(f)
  BY <1>1 DEF Announcements, Calls
<1>3. tail \in Seq(Calls) /\ Len(tail) = Len(g)
  BY <1>1 DEF Calls
<1>4. /\ f \o g \in Seq(Fates) /\ Len(f \o g) = Len(f) + Len(g)
      /\ \A i \in 1..(Len(f) + Len(g)) :
            (f \o g)[i] = IF i <= Len(f) THEN f[i] ELSE g[i - Len(f)]
  BY ConcatProperties
<1>5. /\ Announcements(f) \o tail \in Seq(Calls)
      /\ Len(Announcements(f) \o tail) = Len(f) + Len(g)
      /\ \A i \in 1..(Len(f) + Len(g)) : (Announcements(f) \o tail)[i]
            = IF i <= Len(f) THEN Announcements(f)[i] ELSE tail[i - Len(f)]
  <2> DEFINE u == Announcements(f)
  <2> HIDE DEF tail, u
  <2>1. u \in Seq(Calls) /\ tail \in Seq(Calls) /\ Len(u) = Len(f) /\ Len(tail) = Len(g)
    BY <1>2, <1>3 DEF u
  <2>2. /\ u \o tail \in Seq(Calls) /\ Len(u \o tail) = Len(u) + Len(tail)
        /\ \A i \in 1..(Len(u) + Len(tail)) :
              (u \o tail)[i] = IF i <= Len(u) THEN u[i] ELSE tail[i - Len(u)]
    BY <2>1, ConcatProperties
  <2> QED
    BY <2>1, <2>2 DEF u
<1>6. /\ Announcements(f \o g) \in Seq(Calls)
      /\ Len(Announcements(f \o g)) = Len(f) + Len(g)
      /\ \A i \in 1..(Len(f) + Len(g)) :
            Announcements(f \o g)[i] = [id |-> i, ok |-> (f \o g)[i]]
  <2>1. \A i \in 1..Len(f \o g) : (f \o g)[i] \in Fates
    BY <1>4, ElementOfSeq
  <2> QED
    BY <1>1, <1>4, <2>1 DEF Announcements, Calls
<1>7. ASSUME NEW i \in 1..(Len(f) + Len(g))
      PROVE  Announcements(f \o g)[i] = (Announcements(f) \o tail)[i]
  <2>1. CASE i <= Len(f)
    <3>1. i \in 1..Len(f)
      BY <1>1, <2>1
    <3>2. Announcements(f)[i] = [id |-> i, ok |-> f[i]]
      BY <3>1 DEF Announcements
    <3> QED
      BY <1>4, <1>5, <1>6, <2>1, <3>2
  <2>2. CASE ~(i <= Len(f))
    <3>1. i - Len(f) \in 1..Len(g) /\ Len(f) + (i - Len(f)) = i
      BY <1>1, <2>2
    <3>2. tail[i - Len(f)] = [id |-> i, ok |-> g[i - Len(f)]]
      BY <3>1
    <3> HIDE DEF tail
    <3> QED
      BY <1>4, <1>5, <1>6, <2>2, <3>2
  <2> QED
    BY <2>1, <2>2
<1> HIDE DEF tail
<1>8. Announcements(f \o g) = Announcements(f) \o tail
  BY <1>5, <1>6, <1>7, SeqEqual
<1> QED
  BY <1>2, <1>8 DEF tail

LEMMA DecisionLogged ==
    ASSUME NEW log, NEW fates, LoggedAs(log, fates, <<>>), NEW d \in Decisions
    PROVE  LoggedAs(NoteDecision(log, d, Len(fates)),
                    fates \o [i \in 1..d.searches |-> "ok"]
                          \o [i \in 1..d.calls |-> "running"],
                    [i \in 1..d.calls |-> Len(fates) + d.searches + i])
<1> DEFINE n == Len(fates)
           more == [i \in 1..d.searches |-> "ok"]
           run == [i \in 1..d.calls |-> "running"]
           ran == Announced(n, d.searches, "ok")
           runs == Announced(n + d.searches, d.calls, "running")
           todo == [i \in 1..d.calls |-> n + d.searches + i]
           both == fates \o more
           noted == NoteDecision(log, d, n)
<1>1. d.searches \in Nat /\ d.calls \in Nat
  BY SurfaceAssumption
<1>2. fates \in Seq(Fates) /\ n \in Nat /\ log.decisions \in Lists /\ log.pending = <<>>
  BY DEF LoggedAs
<1>3. /\ more \in Seq(Fates) /\ Len(more) = d.searches
      /\ run \in Seq(Fates) /\ Len(run) = d.calls
  BY <1>1 DEF Fates
<1>4. both \in Seq(Fates) /\ Len(both) = n + d.searches
      /\ both \o run \in Seq(Fates) /\ Len(both \o run) = n + d.searches + d.calls
  <2> HIDE DEF n, more, run
  <2>1. both \in Seq(Fates) /\ Len(both) = Len(fates) + Len(more)
    BY <1>2, <1>3, ConcatProperties
  <2> HIDE DEF both
  <2>2. both \o run \in Seq(Fates) /\ Len(both \o run) = Len(both) + Len(run)
    BY <1>3, <2>1, ConcatProperties
  <2> QED
    BY <1>3, <2>1, <2>2 DEF n
<1>5. ran = [i \in 1..Len(more) |-> [id |-> Len(fates) + i, ok |-> more[i]]]
  BY <1>1, <1>3 DEF Announced
<1>6. runs = [i \in 1..Len(run) |-> [id |-> Len(both) + i, ok |-> run[i]]]
  <2> HIDE DEF both
  <2> QED
    BY <1>1, <1>3, <1>4 DEF Announced
<1>7. ran \in Seq(Calls) /\ runs \in Seq(Calls)
  <2>1. ASSUME NEW m \in Nat, NEW j \in Nat, NEW ok \in Fates
        PROVE  Announced(m, j, ok) \in Seq(Calls)
    <3>1. \A i \in 1..j : [id |-> m + i, ok |-> ok] \in Calls
      BY <2>1 DEF Calls
    <3> QED
      BY <3>1 DEF Announced
  <2>2. n + d.searches \in Nat /\ "ok" \in Fates /\ "running" \in Fates
    BY <1>1, <1>2 DEF Fates
  <2> HIDE DEF n
  <2> QED
    BY <1>1, <1>2, <2>1, <2>2
<1>8. noted.decisions = Append(log.decisions, ran \o runs) /\ noted.pending = <<>> \o todo
  BY <1>2 DEF NoteDecision
<1>9. todo \in Seq(1..Len(both \o run)) /\ <<>> \o todo = todo
  <2>1. \A i \in 1..d.calls : n + d.searches + i \in 1..(n + d.searches + d.calls)
    BY <1>1, <1>2
  <2>2. todo \in Seq(1..(n + d.searches + d.calls))
    BY <1>1, <2>1
  <2> HIDE DEF todo
  <2>3. <<>> \o todo = todo
    BY <2>2, ConcatEmptySeq
  <2> QED
    BY <1>4, <2>2, <2>3
<1> HIDE DEF n, more, run, ran, runs, todo, both, noted
<1>10. ran \o runs \in Seq(Calls)
  BY <1>7, ConcatProperties
<1>11. noted.decisions \in Lists
  BY <1>2, <1>8, <1>10, AppendProperties DEF Lists
<1>12. FlattenSeq(noted.decisions) = FlattenSeq(log.decisions) \o (ran \o runs)
  BY <1>2, <1>8, <1>10, FlatAppend DEF Lists
<1>13. FlattenSeq(log.decisions) = Announcements(fates)
  BY DEF LoggedAs
<1>14. Announcements(both) = Announcements(fates) \o ran /\ Announcements(fates) \in Seq(Calls)
  BY <1>2, <1>3, <1>5, AnnouncedConcat DEF both
<1>15. Announcements(both \o run) = Announcements(both) \o runs
  BY <1>3, <1>4, <1>6, AnnouncedConcat
<1>16. (Announcements(fates) \o ran) \o runs = Announcements(fates) \o (ran \o runs)
  BY <1>7, <1>14, ConcatAssociative
<1>17. LoggedAs(noted, both \o run, todo)
  BY <1>4, <1>8, <1>9, <1>11, <1>12, <1>13, <1>14, <1>15, <1>16 DEF LoggedAs
<1> QED
  BY <1>17 DEF n, more, run, todo, both, noted

LEMMA ResultLogged ==
    ASSUME NEW log, NEW fates, NEW todo, LoggedAs(log, fates, todo), todo # <<>>,
           NEW ok \in {"ok", "failed"}
    PROVE  LoggedAs(NoteToolResult(log, ok), [fates EXCEPT ![Head(todo)] = ok], Tail(todo))
<1> DEFINE k == Head(todo)
           new == [fates EXCEPT ![k] = ok]
           h == [c \in Calls |-> IF c.id = k THEN [c EXCEPT !.ok = ok] ELSE c]
           noted == NoteToolResult(log, ok)
           each == [d \in DOMAIN log.decisions |-> Mapped(h, log.decisions[d])]
<1>1. /\ log.decisions \in Lists /\ fates \in Seq(Fates) /\ log.pending = todo
      /\ todo \in Seq(1..Len(fates)) /\ FlattenSeq(log.decisions) = Announcements(fates)
  BY DEF LoggedAs
<1>2. k \in 1..Len(fates) /\ Tail(todo) \in Seq(1..Len(fates))
  BY <1>1, HeadTailProperties
<1>3. new \in Seq(Fates) /\ Len(new) = Len(fates)
      /\ \A i \in 1..Len(fates) : new[i] = IF i = k THEN ok ELSE fates[i]
  <2>1. ok \in Fates
    BY DEF Fates
  <2> HIDE DEF k
  <2> QED
    BY <1>1, <1>2, <2>1
<1>4. h \in [Calls -> Calls]
  BY DEF Calls, Fates
<1>5. noted.decisions = each /\ noted.pending = Tail(todo)
  <2>1. \A d \in DOMAIN log.decisions : \A i \in DOMAIN log.decisions[d] :
            log.decisions[d][i] \in Calls
    BY <1>1 DEF Lists
  <2>2. noted.decisions = [d \in DOMAIN log.decisions |->
           [i \in DOMAIN log.decisions[d] |->
              IF log.decisions[d][i].id = k THEN [log.decisions[d][i] EXCEPT !.ok = ok]
              ELSE log.decisions[d][i]]]
    BY <1>1 DEF NoteToolResult
  <2>3. noted.pending = Tail(todo)
    BY <1>1 DEF NoteToolResult
  <2> HIDE DEF k, noted
  <2> QED
    BY <2>1, <2>2, <2>3 DEF Mapped
<1> HIDE DEF h, each, noted
<1>6. each \in Lists /\ FlattenSeq(each) = Mapped(h, Announcements(fates))
  <2>1. each \in Seq(Seq(Calls)) /\ FlattenSeq(each) = Mapped(h, FlattenSeq(log.decisions))
    BY <1>1, <1>4, MappedFlat DEF each, Lists
  <2> QED
    BY <1>1, <2>1 DEF Lists
<1>7. Mapped(h, Announcements(fates)) = Announcements(new)
  <2>1. \A i \in 1..Len(fates) : /\ [id |-> i, ok |-> fates[i]] \in Calls
                                 /\ h[[id |-> i, ok |-> fates[i]]] = [id |-> i, ok |-> new[i]]
    <3> SUFFICES ASSUME NEW i \in 1..Len(fates)
                 PROVE  /\ [id |-> i, ok |-> fates[i]] \in Calls
                        /\ h[[id |-> i, ok |-> fates[i]]] = [id |-> i, ok |-> new[i]]
      OBVIOUS
    <3>1. [id |-> i, ok |-> fates[i]] \in Calls
      BY <1>1 DEF Calls
    <3> HIDE DEF k, new
    <3>2. h[[id |-> i, ok |-> fates[i]]]
            = IF i = k THEN [id |-> i, ok |-> ok] ELSE [id |-> i, ok |-> fates[i]]
      BY <3>1 DEF h
    <3> QED
      BY <1>3, <3>1, <3>2
  <2> HIDE DEF new
  <2>2. DOMAIN Announcements(fates) = 1..Len(fates)
        /\ \A i \in 1..Len(fates) : Announcements(fates)[i] = [id |-> i, ok |-> fates[i]]
    BY DEF Announcements
  <2>3. Announcements(new) = [i \in 1..Len(fates) |-> [id |-> i, ok |-> new[i]]]
    BY <1>3 DEF Announcements
  <2> QED
    BY <2>1, <2>2, <2>3 DEF Mapped
<1> HIDE DEF k, new
<1>8. LoggedAs(noted, new, Tail(todo))
  BY <1>2, <1>3, <1>5, <1>6, <1>7 DEF LoggedAs
<1> QED
  BY <1>8 DEF k, new, noted

\* While a turn that shows a trace runs, its log is that of its calls, and it waits
\* for the calls that the log has waiting.
LogInv ==
    turn.stage \in Early /\ (turn.message # 0 \/ turn.stage \in {"open", "start"}) =>
        /\ LoggedAs(turn.log, turn.fates, turn.todo)
        /\ turn.stage = "calls" <=> turn.todo # <<>>

\* What an edit shows of the turn.
ShownTrue ==
    shown' # shown /\ shown' # Nothing =>
        /\ shown'.counted + Len(shown'.lines) = Len(turn'.fates)
        /\ \A i \in DOMAIN shown'.lines :
              shown'.lines[i].ok = turn'.fates[shown'.lines[i].id]

LEMMA RenderedTrue ==
    ASSUME NEW log, NEW fates, NEW todo, LoggedAs(log, fates, todo), NEW detail
    PROVE  LET seen == Render(detail, log) IN
           /\ seen.counted + Len(seen.lines) = Len(fates)
           /\ \A i \in DOMAIN seen.lines : seen.lines[i].ok = fates[seen.lines[i].id]
<1> DEFINE lines == Render(detail, log).lines
<1>1. /\ log.decisions \in Lists /\ fates \in Seq(Fates)
      /\ FlattenSeq(log.decisions) = Announcements(fates)
  BY DEF LoggedAs
<1>2. PICK head \in Seq(Calls) :
         /\ Render(detail, log).counted = Len(head) /\ lines \in Seq(Calls)
         /\ head \o lines = Announcements(fates)
  BY <1>1, RenderedWhole
<1> HIDE DEF lines
<1>3. /\ Len(head) \in Nat /\ Len(lines) \in Nat /\ DOMAIN lines = 1..Len(lines)
      /\ Len(head \o lines) = Len(head) + Len(lines)
      /\ \A i \in 1..(Len(head) + Len(lines)) :
            (head \o lines)[i] = IF i <= Len(head) THEN head[i] ELSE lines[i - Len(head)]
  BY <1>2, ConcatProperties, LenProperties
<1>4. /\ Len(fates) \in Nat /\ Len(Announcements(fates)) = Len(fates)
      /\ \A i \in 1..Len(fates) : Announcements(fates)[i] = [id |-> i, ok |-> fates[i]]
  BY <1>1 DEF Announcements
<1>5. Len(head) + Len(lines) = Len(fates)
  BY <1>2, <1>3, <1>4
<1>6. ASSUME NEW i \in DOMAIN lines PROVE lines[i].ok = fates[lines[i].id]
  <2>1. /\ Len(head) + i \in 1..(Len(head) + Len(lines)) /\ ~(Len(head) + i <= Len(head))
        /\ (Len(head) + i) - Len(head) = i
    BY <1>3
  <2>2. (head \o lines)[Len(head) + i] = lines[i]
    BY <1>3, <2>1
  <2>3. lines[i] = [id |-> Len(head) + i, ok |-> fates[Len(head) + i]]
    BY <1>2, <1>4, <1>5, <2>1, <2>2
  <2> QED
    BY <2>3
<1> QED
  BY <1>2, <1>5, <1>6 DEF lines

LEMMA NotesLogged ==
    ASSUME NEW t, NEW log, NEW how, Notes(t, log, how), DOMAIN t = Fields,
           t.message = turn.message, turn.message # 0, LoggedAs(log, t.fates, t.todo),
           t.stage = "deliver" \/ (t.stage = "calls" <=> t.todo # <<>>),
           t.stage \in {"think", "calls", "deliver"}
    PROVE  LogInv' /\ ShownTrue
<1> DEFINE faults == IF how = "ok" THEN t.faults ELSE t.faults + 1
<1>1. /\ turn' = [t EXCEPT !.log = log, !.faults = faults]
      /\ shown' = shown \/ shown' = Render(turn.detail, log)
  BY DEF Notes
<1> HIDE DEF faults
<1>2. /\ turn'.log = log /\ turn'.fates = t.fates /\ turn'.todo = t.todo
      /\ turn'.stage = t.stage
  BY <1>1 DEF Fields
<1>3. LogInv'
  BY <1>2 DEF LogInv, Early
<1>4. ShownTrue
  BY <1>1, <1>2, RenderedTrue DEF ShownTrue
<1> QED
  BY <1>3, <1>4

\* A turn that shows no trace notes nothing.
LEMMA NotesNothing ==
    ASSUME NEW t, NEW log, NEW how, Notes(t, log, how), DOMAIN t = Fields,
           t.message = turn.message, turn.message = 0,
           t.stage \in {"think", "calls", "deliver"}
    PROVE  LogInv' /\ ShownTrue
<1> DEFINE faults == IF how = "ok" THEN t.faults ELSE t.faults + 1
<1>1. turn' = [t EXCEPT !.log = NoLog, !.faults = faults] /\ shown' = shown
  BY DEF Notes
<1> HIDE DEF faults
<1>2. turn'.message = 0 /\ turn'.stage = t.stage
  BY <1>1 DEF Fields
<1> QED
  BY <1>1, <1>2 DEF LogInv, ShownTrue

LEMMA NotesEither ==
    ASSUME NEW t, NEW log, NEW how, Notes(t, log, how), DOMAIN t = Fields,
           t.message = turn.message,
           turn.message # 0 =>
              /\ LoggedAs(log, t.fates, t.todo)
              /\ t.stage = "deliver" \/ (t.stage = "calls" <=> t.todo # <<>>),
           t.stage \in {"think", "calls", "deliver"}
    PROVE  LogInv' /\ ShownTrue
BY NotesLogged, NotesNothing

LEMMA DecideLogs ==
    ASSUME IInv, LogInv, NEW d \in Decisions, NEW ending, NEW how, Decide(d, ending, how)
    PROVE  LogInv' /\ ShownTrue
<1> DEFINE fates == turn.fates \o [i \in 1..d.searches |-> "ok"]
                               \o [i \in 1..d.calls |-> "running"]
           todo == [i \in 1..d.calls |-> Len(turn.fates) + d.searches + i]
           budget == turn.left - 1
           next == [turn EXCEPT !.left = budget, !.stage = "calls", !.fates = fates,
                                !.todo = todo]
           t == IF d.calls = 0 THEN HandsOver(next, ending) ELSE next
           log == NoteDecision(turn.log, d, Len(turn.fates))
<1>1. turn.stage = "think" /\ Notes(t, log, how)
  BY DEF Decide
<1>2. DOMAIN turn = Fields
  BY DEF IInv, TurnType
<1>3. turn.message # 0 => LoggedAs(log, fates, todo)
  <2> SUFFICES ASSUME turn.message # 0 PROVE LoggedAs(log, fates, todo)
    OBVIOUS
  <2>1. LoggedAs(turn.log, turn.fates, <<>>)
    BY <1>1 DEF LogInv, Early
  <2> QED
    BY <2>1, DecisionLogged
<1>4. d.calls \in Nat /\ (d.calls # 0 => todo # <<>>)
  <2>1. d.calls \in Nat
    BY SurfaceAssumption
  <2>2. DOMAIN todo = 1..d.calls
    OBVIOUS
  <2> HIDE DEF todo
  <2>3. d.calls # 0 => 1 \in DOMAIN todo
    BY <2>1, <2>2
  <2> QED
    BY <2>1, <2>3
<1> HIDE DEF fates, todo, log, budget
<1>5. /\ DOMAIN next = Fields /\ next.stage = "calls" /\ next.fates = fates
      /\ next.todo = todo /\ next.message = turn.message
  BY <1>2 DEF Fields
<1> HIDE DEF next
<1>6. /\ DOMAIN t = Fields /\ t.fates = fates /\ t.todo = todo /\ t.message = turn.message
      /\ t.stage = IF d.calls = 0 THEN "deliver" ELSE "calls"
  BY <1>5 DEF HandsOver, Fields
<1> HIDE DEF t
<1> QED
  BY <1>1, <1>3, <1>4, <1>6, NotesEither

LEMMA ResultLogs ==
    ASSUME IInv, LogInv, NEW ok \in {"ok", "failed"}, NEW ending, NEW how,
           ToolResult(ok, ending, how)
    PROVE  LogInv' /\ ShownTrue
<1> DEFINE fates == [turn.fates EXCEPT ![Head(turn.todo)] = ok]
           todo == Tail(turn.todo)
           next == [turn EXCEPT !.fates = fates, !.todo = todo]
           again == [next EXCEPT !.stage = "think"]
           t == IF next.todo # <<>> THEN next
                ELSE IF turn.left > 0 THEN again ELSE HandsOver(next, ending)
           log == IF turn.message = 0 THEN NoLog ELSE NoteToolResult(turn.log, ok)
<1>1. DOMAIN turn = Fields
  BY DEF IInv, TurnType
<1>2. turn.stage = "calls" /\ Notes(t, log, how)
  <2>1. [turn EXCEPT !.fates[Head(turn.todo)] = ok, !.todo = Tail(@)] = next
    BY <1>1 DEF Fields
  <2> QED
    BY <2>1 DEF ToolResult
<1>3. turn.message # 0 => LoggedAs(log, fates, todo)
  <2> SUFFICES ASSUME turn.message # 0 PROVE LoggedAs(log, fates, todo)
    OBVIOUS
  <2>1. LoggedAs(turn.log, turn.fates, turn.todo) /\ turn.todo # <<>>
    BY <1>2 DEF LogInv, Early
  <2> QED
    BY <2>1, ResultLogged
<1> HIDE DEF fates, todo, log
<1>4. /\ DOMAIN next = Fields /\ next.stage = "calls" /\ next.fates = fates
      /\ next.todo = todo /\ next.message = turn.message
  BY <1>1, <1>2 DEF Fields
<1> HIDE DEF next
<1>5. /\ DOMAIN again = Fields /\ again.stage = "think" /\ again.fates = fates
      /\ again.todo = todo /\ again.message = turn.message
  BY <1>4 DEF Fields
<1> HIDE DEF again
<1>6. /\ DOMAIN t = Fields /\ t.fates = fates /\ t.todo = todo /\ t.message = turn.message
      /\ \/ t.stage = "calls" /\ todo # <<>>
         \/ t.stage = "think" /\ todo = <<>>
         \/ t.stage = "deliver"
  BY <1>4, <1>5 DEF HandsOver, Fields
<1> HIDE DEF t
<1> QED
  BY <1>2, <1>3, <1>6, NotesEither

LEMMA EmptyLogged == LoggedAs(NoLog, <<>>, <<>>)
<1>1. NoLog.decisions = <<>> /\ NoLog.pending = <<>> /\ Announcements(<<>>) = <<>>
  BY DEF NoLog, Announcements
<1>2. <<>> \in Lists /\ <<>> \in Seq(Fates) /\ <<>> \in Seq(1..Len(<<>>))
  BY DEF Lists
<1>3. FlattenSeq(<<>>) = <<>>
  BY FlatOne, <1>2 DEF Lists
<1> QED
  BY <1>1, <1>2, <1>3 DEF LoggedAs

LEMMA LogStep ==
    ASSUME IInv, LogInv, [Next]_vars
    PROVE  LogInv' /\ ShownTrue
<1> DEFINE Same == turn' = turn /\ shown' = shown
<1>1. DOMAIN turn = Fields
  BY DEF IInv, TurnType
<1>2. ASSUME Same PROVE LogInv' /\ ShownTrue
  BY <1>2 DEF LogInv, ShownTrue
<1>3. ASSUME turn'.stage \notin Early, shown' = shown PROVE LogInv' /\ ShownTrue
  BY <1>3 DEF LogInv, ShownTrue
<1>4. CASE UNCHANGED vars \/ Tick \/ PersonRenames \/ Rescan
  BY <1>2, <1>4 DEF vars, Tick, PersonRenames, Rescan
<1>5. ASSUME NEW command \in BOOLEAN, RunTurn(command) PROVE LogInv' /\ ShownTrue
  <2>1. /\ turn'.log = NoLog /\ turn'.fates = <<>> /\ turn'.todo = <<>>
        /\ turn'.stage \in {"open", "deliver"} /\ shown' = Nothing
    BY <1>5 DEF RunTurn, NoTurn
  <2> QED
    BY <2>1, EmptyLogged DEF LogInv, ShownTrue, Early
<1>6. ASSUME NEW detail \in Details, TurnStarted(detail) PROVE LogInv' /\ ShownTrue
  <2>1. /\ turn.stage = "start" /\ turn'.log = turn.log /\ turn'.fates = turn.fates
        /\ turn'.todo = turn.todo /\ turn'.stage = "think" /\ shown' = shown
    BY <1>1, <1>6 DEF TurnStarted, Fields
  <2> QED
    BY <2>1 DEF LogInv, ShownTrue, Early
<1>7. ASSUME NEW how \in Answers, Open(how) PROVE LogInv' /\ ShownTrue
  <2>1. shown' = shown /\ turn.stage = "open"
    BY <1>7 DEF Open
  <2>2. CASE how # "ok"
    <3>1. turn' = Failing(turn, how)
      BY <1>7, <2>2 DEF Open
    <3>2. turn'.stage = "failed"
      BY <1>1, <3>1 DEF Failing, Fields
    <3> QED
      BY <1>3, <2>1, <3>2 DEF Early
  <2>3. CASE how = "ok"
    <3>1. turn' = [turn EXCEPT !.placeholder = Len(chat) + 1, !.stage = "start"]
      BY <1>7, <2>3 DEF Open
    <3>2. /\ turn'.log = turn.log /\ turn'.fates = turn.fates
          /\ turn'.todo = turn.todo /\ turn'.stage = "start"
      BY <1>1, <3>1 DEF Fields
    <3> QED
      BY <2>1, <3>2 DEF LogInv, ShownTrue, Early
  <2> QED
    BY <2>2, <2>3
<1>8. ASSUME NEW how \in Answers, NEW ending \in Endings,
             \/ \E d \in Decisions : Decide(d, ending, how)
             \/ \E ok \in {"ok", "failed"} : ToolResult(ok, ending, how)
      PROVE  LogInv' /\ ShownTrue
  BY <1>8, DecideLogs, ResultLogs
<1>9. ASSUME NEW how \in Answers, Deliver(how) \/ Finish(how) \/ TellsFailure(how)
      PROVE  LogInv' /\ ShownTrue
  <2>1. shown' = shown
    BY <1>9 DEF Deliver, Finish, TellsFailure
  <2>2. \A t : DOMAIN t = Fields => Failing(t, how).stage = "failed"
    BY DEF Failing, Fields
  <2>3. \A kind : /\ DOMAIN Surrendered(turn, kind) = Fields
                  /\ Surrendered(turn, kind).stage = turn.stage
    BY <1>1 DEF Surrendered, Fields
  <2>4. turn'.stage \in {"deliver", "close", "failed", "done"}
    <3>1. CASE Deliver(how)
      <4>1. PICK kind, no : turn' = IF how = "ok" THEN [Surrendered(turn, kind) EXCEPT !.at = no]
                                    ELSE Failing(Surrendered(turn, kind), how)
        BY <3>1 DEF Deliver
      <4>2. turn.stage = "deliver"
        BY <3>1 DEF Deliver
      <4> QED
        BY <2>2, <2>3, <4>1, <4>2 DEF Fields
    <3>2. CASE Finish(how)
      <4>1. \/ turn' = [turn EXCEPT !.stage = "close"]
            \/ turn' = [Surrendered(turn, "piece") EXCEPT !.stage = "close"]
            \/ turn' = Failing(Surrendered(turn, "piece"), how)
        BY <3>2 DEF Finish
      <4> QED
        BY <1>1, <2>2, <2>3, <4>1 DEF Fields
    <3>3. CASE TellsFailure(how)
      <4>1. \/ turn' = [Surrendered(turn, "piece") EXCEPT !.stage = "close"]
            \/ turn' = [turn EXCEPT !.stage = "done", !.uncaught = TRUE,
                                    !.faults = turn.faults + 1]
        BY <3>3 DEF TellsFailure, Closes
      <4> QED
        BY <1>1, <2>3, <4>1 DEF Fields
    <3> QED
      BY <1>9, <3>1, <3>2, <3>3
  <2> QED
    BY <1>3, <2>1, <2>4 DEF Early
<1>10. ASSUME NEW how \in Answers, Close(how) \/ Degrade(how)
       PROVE  LogInv' /\ ShownTrue
  <2>1. shown' = shown
    BY <1>10 DEF Close, Degrade
  <2>2. \A t : DOMAIN t = Fields /\ Ends(t) => turn'.stage \in {"title", "done"}
    BY EndedTurn
  <2>3. turn'.stage \in {"title", "done", "degrade"}
    <3>1. CASE Close(how)
      <4>1. \/ Ends(turn)
            \/ turn' = [turn EXCEPT !.stage = "degrade", !.faults = turn.faults + 1]
        BY <3>1 DEF Close
      <4> QED
        BY <1>1, <2>2, <4>1 DEF Fields
    <3>2. CASE Degrade(how)
      <4> DEFINE faults == IF how = "ok" THEN turn.faults ELSE turn.faults + 1
                 t == [turn EXCEPT !.faults = faults]
      <4>1. Ends(t)
        BY <3>2 DEF Degrade
      <4>2. DOMAIN t = Fields
        BY <1>1
      <4> HIDE DEF t
      <4> QED
        BY <2>2, <4>1, <4>2
    <3> QED
      BY <1>10, <3>1, <3>2
  <2> QED
    BY <1>3, <2>1, <2>3 DEF Early
<1>11. ASSUME NEW how \in Answers, \E usable \in BOOLEAN : Rename(usable, how)
       PROVE  LogInv' /\ ShownTrue
  <2>1. turn' = [turn EXCEPT !.stage = "done"] /\ shown' = shown
    BY <1>11 DEF Rename
  <2>2. turn'.stage = "done"
    BY <1>1, <2>1 DEF Fields
  <2> QED
    BY <1>3, <2>1, <2>2 DEF Early
<1>12. CASE Raises \/ Crash
  <2>1. shown' = shown
    BY <1>12 DEF Raises, Crash
  <2>2. turn'.stage \in {"failed", "done"}
    <3>1. CASE Raises
      <4>1. turn' = Failing(turn, "ok")
        BY <3>1 DEF Raises
      <4> QED
        BY <1>1, <4>1 DEF Failing, Fields
    <3>2. CASE Crash
      BY <3>2 DEF Crash, NoTurn
    <3> QED
      BY <1>12, <3>1, <3>2
  <2> QED
    BY <1>3, <2>1, <2>2 DEF Early
<1> HIDE DEF Same
<1> QED
  BY <1>4, <1>5, <1>6, <1>7, <1>8, <1>9, <1>10, <1>11, <1>12 DEF Next

\* Every edit of the trace counts each call that the turn announced, and shows with
\* a call the outcome of that very call (ActivityLog.note_tool_result, render),
\* wherever the lines are cut and whatever searches of the provider stand between.
THEOREM TraceIsTrue == Spec => TraceTrue
<1>1. Init => LogInv
  BY DEF Init, NoTurn, LogInv, Early
<1>2. IInv /\ LogInv /\ [Next]_vars => LogInv' /\ ShownTrue
  BY LogStep
<1>3. ShownTrue => [shown' # shown /\ shown' # Nothing =>
          /\ shown'.counted + Len(shown'.lines) = Len(turn'.fates)
          /\ \A i \in DOMAIN shown'.lines :
                shown'.lines[i].ok = turn'.fates[shown'.lines[i].id]]_vars
  BY DEF ShownTrue
<1> QED
  BY <1>1, <1>2, <1>3, Invariant, PTL DEF Spec, TraceTrue

=============================================================================
