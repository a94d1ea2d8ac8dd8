------------------------ MODULE ChatDeliveryProofs ------------------------
(***************************************************************************)
(* Proofs about how messages of a chat come to be answered.                *)
(*                                                                         *)
(* About ChatDelivery, for every window, replay length, ledger size and    *)
(* budget of faults: type correctness, at most one turn per message (plus  *)
(* one per refused cursor write), turns in posting order, that nothing is  *)
(* skipped that the replay reaches, and that a bot that knows its identity *)
(* never answers itself.                                                   *)
(*                                                                         *)
(* About StreamRoster, for any chats, stream cap, history and budgets: a   *)
(* chat has at most one task that catches it up, and the first messages of *)
(* a chat that was discovered live are not skipped as history.             *)
(***************************************************************************)
EXTENDS ChatDelivery, StreamRoster, SequenceTheorems, FiniteSetTheorems, TLAPS

LeftType == left \in [Events -> Nat]
ChatType == log \in Seq(Kinds) /\ turns \in Seq(Nat) /\ Len(turns) = Len(log)
SentType == sent \in Seq(Nat) /\ sentFile \in Seq(Nat)
CursorType == /\ cursor \in Nat \union {Unplaced}
              /\ cursorFile \in Nat \union {Unplaced}

LEMMA SpendType ==
    ASSUME LeftType, NEW k \in Events, Spend(k)
    PROVE  LeftType' /\ \A j \in Events \ {k} : left'[j] = left[j]
BY DEF LeftType, Spend, Events

LEMMA PostType ==
    ASSUME ChatType, NEW k \in Kinds, Post(k)
    PROVE  ChatType' /\ Len(log') = Len(log) + 1
BY DEF ChatType, Post

LEMMA RememberType ==
    ASSUME SentType, LeftType, NEW id \in Nat, Remember(id)
    PROVE  SentType' /\ LeftType'
<1>1. sent' \in Seq(Nat)
  BY ConstantsAssumption DEF SentType, Remember
<1>2. LeftType'
  BY SpendType DEF Remember, Events, LeftType
<1>q. QED
  BY <1>1, <1>2 DEF SentType, Remember

LEMMA AdvanceType ==
    ASSUME CursorType, LeftType, NEW id \in Nat, Advance(id)
    PROVE  CursorType' /\ LeftType'
<1>1. LeftType'
  BY SpendType DEF Advance, Events, LeftType
<1>q. QED
  BY <1>1 DEF CursorType, Advance, Larger, Unplaced

LEMMA HaltType ==
    ASSUME TypeOK, LeftType', Halt
    PROVE  TypeOK'
<1>1. /\ ChatType /\ ChatType' /\ SentType' /\ CursorType'
      /\ log' = log /\ Len(log) \in Nat
  BY DEF TypeOK, Halt, ChatType, SentType, CursorType, sentVars, cursorVars
<1>2. up' \in BOOLEAN
  BY DEF Halt
<1>3. answered' \subseteq Nat /\ forgiven' \subseteq Nat
  BY DEF Halt, TypeOK
<1>4. /\ stage' = "off" /\ next' = 1 /\ upto' = 0 /\ turn' = "idle"
      /\ cur' = 0 /\ placeholder' = 0 /\ unrec' = 0 /\ lock' = "free"
      /\ sched' = "idle" /\ schedUnrec' = 0
  BY DEF Halt
<1>q. QED
  BY <1>1, <1>2, <1>3, <1>4
  DEF TypeOK, LeftType, ChatType, SentType, CursorType

LEMMA TurnsType ==
    ASSUME ChatType, NEW i \in 1..Len(log), UNCHANGED log,
           turns' = [turns EXCEPT ![i] = @ + 1]
    PROVE  /\ ChatType'
           /\ DOMAIN turns' = DOMAIN turns
           /\ turns'[i] = turns[i] + 1
           /\ \A j \in DOMAIN turns : j # i => turns'[j] = turns[j]
<1>1. turns[i] + 1 \in Nat /\ i \in 1..Len(turns)
  BY DEF ChatType
<1>q. QED
  BY <1>1, ExceptSeq DEF ChatType

\* The state of the model stays in its types.
LEMMA TypeInductive == TypeOK /\ [Next]_vars => TypeOK'
<1> SUFFICES ASSUME TypeOK, [Next]_vars PROVE TypeOK'
  OBVIOUS
<1> USE ConstantsAssumption
<1>0. LeftType /\ ChatType /\ SentType /\ CursorType /\ Len(log) \in Nat
  BY DEF TypeOK, LeftType, ChatType, SentType, CursorType
<1>1. CASE HumanPosts
  <2>1. LeftType'
    BY <1>0, <1>1, SpendType DEF HumanPosts, Events
  <2>2. ChatType' /\ Len(log') = Len(log) + 1
    BY <1>0, <1>1, PostType DEF HumanPosts, Kinds
  <2>q. QED
    BY <1>1, <1>0, <2>1, <2>2
    DEF TypeOK, LeftType, ChatType, SentType, CursorType, HumanPosts,
        cursorVars, sentVars, readVars, turnVars, schedVars
<1>2. CASE Start
  BY <1>2, <1>0
  DEF TypeOK, LeftType, ChatType, SentType, CursorType, Start, cursorVars,
      sentVars, readVars, turnVars, schedVars
<1>3. CASE Hibernate
  <2>1. LeftType'
    BY <1>0, <1>3, SpendType DEF Hibernate, Events
  <2>q. QED
    BY <1>3, <1>0, <2>1
    DEF TypeOK, LeftType, ChatType, SentType, CursorType, Hibernate,
        cursorVars, sentVars, readVars, turnVars, schedVars
<1>4. CASE Wake
  BY <1>4, <1>0
  DEF TypeOK, LeftType, ChatType, SentType, CursorType, Wake, cursorVars,
      sentVars, readVars, turnVars, schedVars
<1>5. CASE SchedMark
  <2>1. LeftType'
    BY <1>0, <1>5, SpendType DEF SchedMark, Events
  <2>q. QED
    BY <1>5, <1>0, <2>1
    DEF TypeOK, LeftType, ChatType, SentType, CursorType, SchedMark,
        cursorVars, sentVars, readVars, turnVars, schedVars
<1>6. CASE FirstRun
  <2>1. CursorType' /\ LeftType'
    BY <1>0, <1>6, AdvanceType
    DEF FirstRun, cursorVars, LeftType, ChatType, SentType, CursorType
  <2>2. forgiven' \subseteq Nat
    <3>1. 1..Len(log) \subseteq Nat
      BY <1>0
    <3>2. CASE log = << >>
      BY <3>2, <1>6 DEF FirstRun, TypeOK
    <3>3. CASE log # << >>
      BY <3>1, <3>3, <1>6 DEF FirstRun, TypeOK
    <3>q. QED
      BY <3>2, <3>3
  <2>q. QED
    BY <1>6, <1>0, <2>1, <2>2
    DEF TypeOK, LeftType, ChatType, SentType, CursorType, FirstRun, cursorVars,
        sentVars, readVars, turnVars, schedVars
<1>7. CASE FetchWindow
  <2>1. forgiven' \subseteq Nat
    <3>1. DOMAIN log \subseteq Nat
      BY <1>0 DEF ChatType
    <3>q. QED
      BY <3>1, <1>7 DEF FetchWindow, TypeOK
  <2>2. next' \in Nat \ {0} /\ upto' = Len(log) /\ stage' = "drain"
    BY <1>7, <1>0 DEF FetchWindow, WindowStart, Larger
  <2>3. UNCHANGED <<log, up, cursor, cursorFile, sent, sentFile, turn, cur,
                    placeholder, unrec, lock, sched, schedUnrec, left, turns,
                    answered>>
    BY <1>7 DEF FetchWindow, cursorVars, sentVars, turnVars, schedVars
  <2>q. QED
    BY <1>0, <2>1, <2>2, <2>3 DEF TypeOK
<1>8. CASE DrainDone
  BY <1>8, <1>0
  DEF TypeOK, LeftType, ChatType, SentType, CursorType, DrainDone, cursorVars,
      sentVars, readVars, turnVars, schedVars
<1>9. CASE Connect
  BY <1>9, <1>0
  DEF TypeOK, LeftType, ChatType, SentType, CursorType, Connect, cursorVars,
      sentVars, readVars, turnVars, schedVars, Larger
<1>10. CASE Drop
  BY <1>10, <1>0
  DEF TypeOK, LeftType, ChatType, SentType, CursorType, Drop, cursorVars,
      sentVars, readVars, turnVars, schedVars, Handed
<1>11. CASE Accept
  <2>2. next \in 1..Len(log)
    BY <1>11 DEF Accept, Handed, TypeOK
  <2>1. CursorType' /\ LeftType' /\ ChatType'
    <3>1. CursorType' /\ LeftType'
      BY <1>0, <1>11, <2>2, AdvanceType DEF Accept, Begin
    <3>2. ChatType'
      BY <1>0, <1>11, <2>2, TurnsType DEF Accept, Begin
    <3>q. QED
      BY <3>1, <3>2
  <2>3. /\ turn' \in {"lock", "open"} /\ cur' = next /\ next' = next + 1
        /\ UNCHANGED <<log, up, stage, upto, sentVars, placeholder, unrec, lock,
                       schedVars, answered, forgiven>>
    BY <1>11 DEF Accept, Begin
  <2>4. next' \in Nat \ {0} /\ cur' \in 1..Len(log') /\ cur' # 0 /\ turn' # "idle"
    BY <2>2, <2>3
  <2>5. UNCHANGED <<log, up, stage, upto, sent, sentFile, placeholder, unrec,
                    lock, sched, schedUnrec, answered, forgiven>>
    BY <2>3 DEF sentVars, schedVars
  <2>6. /\ cur' \in 0..Len(log') /\ (cur' = 0 <=> turn' = "idle")
        /\ turn' \in {"lock", "open"} /\ next' \in Nat \ {0}
    BY <2>3, <2>4
  <2>7. CursorType' /\ LeftType' /\ ChatType' /\ SentType'
    BY <1>0, <2>1, <2>5 DEF SentType
  <2>q. QED
    BY <2>5, <2>6, <2>7
    DEF TypeOK, LeftType, ChatType, SentType, CursorType
<1>12. CASE AcceptFile
  <2>1. next \in 1..Len(log)
    BY <1>12 DEF AcceptFile, Handed, TypeOK
  <2>q. QED
    BY <1>12, <1>0, <2>1
    DEF TypeOK, LeftType, ChatType, SentType, CursorType, AcceptFile,
        cursorVars, sentVars, readVars, turnVars, schedVars, Handed
<1>13. CASE Resolve
  <2>1. CursorType' /\ LeftType' /\ ChatType'
    <3>1. cur \in 1..Len(log)
      BY <1>13 DEF Resolve, TypeOK
    <3>2. CursorType' /\ LeftType'
      BY <1>0, <1>13, <3>1, AdvanceType DEF Resolve, Begin
    <3>3. ChatType'
      BY <1>0, <1>13, <3>1, TurnsType DEF Resolve, Begin
    <3>q. QED
      BY <3>2, <3>3
  <2>2. /\ turn' \in {"lock", "open"} /\ turn = "resolve"
        /\ UNCHANGED <<log, up, readVars, sentVars, cur, placeholder, unrec, lock,
                       schedVars, answered, forgiven>>
    BY <1>13 DEF Resolve, Begin
  <2>q. QED
    BY <1>0, <2>1, <2>2
    DEF TypeOK, LeftType, ChatType, SentType, CursorType, sentVars, readVars,
        schedVars
<1>14. CASE SendLands
  <2>1. ChatType' /\ Len(log') = Len(log) + 1
    BY <1>0, <1>14, PostType DEF SendLands, Kinds
  <2>2. turn # "idle" /\ turn' \in {"opened", "replied", "noticed"}
    BY <1>14 DEF SendLands, WillSend, SendStage
  <2>3. answered' \subseteq Nat /\ unrec' = Len(log')
    BY <1>14, <1>0, <2>1 DEF SendLands, TypeOK
  <2>4. UNCHANGED <<up, stage, next, upto, cursor, cursorFile, sent, sentFile,
                    cur, placeholder, lock, sched, schedUnrec, left, forgiven>>
    BY <1>14 DEF SendLands, readVars, cursorVars, sentVars, schedVars
  <2>5. /\ upto' \in 0..Len(log') /\ cur' \in 0..Len(log') /\ cur' # 0
        /\ placeholder' \in 0..Len(log') /\ schedUnrec' \in 0..Len(log')
        /\ unrec' \in 0..Len(log')
    BY <1>0, <2>1, <2>2, <2>3, <2>4 DEF TypeOK
  <2>6. ChatType' /\ LeftType' /\ SentType' /\ CursorType'
    BY <1>0, <2>1, <2>4 DEF LeftType, SentType, CursorType
  <2>7. /\ up' \in BOOLEAN /\ forgiven' \subseteq Nat
        /\ stage' \in {"off", "fetch", "drain", "connect", "live", "asleep"}
        /\ next' \in Nat \ {0}
        /\ lock' \in {"free", "serve", "sched"}
        /\ sched' \in {"idle", "mark", "post", "posted", "error", "noticed"}
    BY <2>4 DEF TypeOK
  <2>q. QED
    BY <2>2, <2>3, <2>5, <2>6, <2>7
    DEF TypeOK, LeftType, ChatType, SentType, CursorType
<1>15. CASE SendRecorded
  <2>1. SentType' /\ LeftType'
    BY <1>0, <1>15, RememberType DEF SendRecorded, TypeOK
  <2>q. QED
    BY <1>15, <1>0, <2>1
    DEF TypeOK, LeftType, ChatType, SentType, CursorType, SendRecorded,
        cursorVars, sentVars, readVars, turnVars, schedVars, Awaiting
<1>16. CASE TakeLock
  BY <1>16, <1>0
  DEF TypeOK, LeftType, ChatType, SentType, CursorType, TakeLock, cursorVars,
      sentVars, readVars, turnVars, schedVars
<1>17. CASE RunEnds
  BY <1>17, <1>0
  DEF TypeOK, LeftType, ChatType, SentType, CursorType, RunEnds, cursorVars,
      sentVars, readVars, turnVars, schedVars
<1>18. CASE EditDelivers
  BY <1>18, <1>0
  DEF TypeOK, LeftType, ChatType, SentType, CursorType, EditDelivers,
      cursorVars, sentVars, readVars, turnVars, schedVars
<1>19. CASE SchedUnlock
  BY <1>19, <1>0
  DEF TypeOK, LeftType, ChatType, SentType, CursorType, SchedUnlock,
      cursorVars, sentVars, readVars, turnVars, schedVars
<1>20. CASE SchedLands
  <2>1. ChatType' /\ Len(log') = Len(log) + 1
    BY <1>0, <1>20, PostType DEF SchedLands, Kinds
  <2>q. QED
    BY <1>20, <1>0, <2>1
    DEF TypeOK, LeftType, ChatType, SentType, CursorType, SchedLands,
        cursorVars, sentVars, readVars, turnVars, schedVars
<1>21. CASE SchedRecorded
  <2>1. SentType' /\ LeftType'
    BY <1>0, <1>21, RememberType DEF SchedRecorded, TypeOK
  <2>q. QED
    BY <1>21, <1>0, <2>1
    DEF TypeOK, LeftType, ChatType, SentType, CursorType, SchedRecorded,
        cursorVars, sentVars, readVars, turnVars, schedVars
<1>22. CASE Crash
  <2>1. LeftType' /\ Halt
    BY <1>0, <1>22, SpendType DEF Crash, Events
  <2>q. QED
    BY <2>1, HaltType
<1>23. CASE FetchFails
  <2>1. LeftType' /\ Halt
    BY <1>0, <1>23, SpendType DEF FetchFails, Events
  <2>q. QED
    BY <2>1, HaltType
<1>24. CASE StreamDrop
  <2>1. LeftType'
    BY <1>0, <1>24, SpendType DEF StreamDrop, Events
  <2>q. QED
    BY <1>24, <1>0, <2>1
    DEF TypeOK, LeftType, ChatType, SentType, CursorType, StreamDrop,
        cursorVars, sentVars, readVars, turnVars, schedVars
<1>25. CASE SendFails
  <2>1. LeftType'
    BY <1>0, <1>25, SpendType DEF SendFails, Events
  <2>2. CASE turn \in {"error", "noticed"} /\ stage # "live"
    <3>1. Halt
      BY <1>25, <2>2 DEF SendFails, NoticeFails
    <3>q. QED
      BY <2>1, <3>1, HaltType
  <2>3. CASE turn \in {"error", "noticed"} /\ stage = "live"
    <3>1. NoticeFails
      BY <1>25, <2>3 DEF SendFails
    <3>2. /\ stage' = "connect" /\ turn' = "idle" /\ cur' = 0
          /\ placeholder' = 0 /\ unrec' = 0
          /\ UNCHANGED <<log, up, next, upto, cursorVars, sentVars, lock,
                         schedVars, turns, answered, forgiven>>
      BY <2>3, <3>1 DEF NoticeFails
    <3>q. QED
      BY <1>0, <2>1, <3>2
      DEF TypeOK, LeftType, ChatType, SentType, CursorType,
          cursorVars, sentVars, schedVars
  <2>4. CASE turn \notin {"error", "noticed"}
    <3>1. turn # "idle"
      BY <1>25 DEF SendFails, WillSend, Awaiting
    <3>2. /\ turn' = "error" /\ placeholder' = 0 /\ unrec' = 0
          /\ UNCHANGED <<log, up, readVars, cursorVars, sentVars, cur, lock,
                         schedVars, turns, answered, forgiven>>
      BY <1>25, <2>4 DEF SendFails
    <3>q. QED
      BY <1>0, <2>1, <3>1, <3>2
      DEF TypeOK, LeftType, ChatType, SentType, CursorType,
          cursorVars, sentVars, readVars, schedVars
  <2>q. QED
    BY <2>2, <2>3, <2>4
<1>26. CASE ResolveRaises
  <2>1. LeftType'
    BY <1>0, <1>26, SpendType DEF ResolveRaises, Events
  <2>q. QED
    BY <1>26, <1>0, <2>1
    DEF TypeOK, LeftType, ChatType, SentType, CursorType, ResolveRaises,
        cursorVars, sentVars, readVars, turnVars, schedVars
<1>27. CASE SchedFails
  <2>1. LeftType'
    BY <1>0, <1>27, SpendType DEF SchedFails, Events
  <2>q. QED
    BY <1>27, <1>0, <2>1
    DEF TypeOK, LeftType, ChatType, SentType, CursorType, SchedFails,
        cursorVars, sentVars, readVars, turnVars, schedVars
<1>28. CASE UNCHANGED vars
  BY <1>28 DEF TypeOK, vars
<1>q. QED
  BY <1>1, <1>2, <1>3, <1>4, <1>5, <1>6, <1>7, <1>8, <1>9, <1>10, <1>11, <1>12,
     <1>13, <1>14, <1>15, <1>16, <1>17, <1>18, <1>19, <1>20, <1>21, <1>22,
     <1>23, <1>24, <1>25, <1>26, <1>27, <1>28
  DEF Next, ServeTask, ScheduleTask, Faults

LEMMA TypeInit == Init => TypeOK
<1> SUFFICES ASSUME Init PROVE TypeOK
  OBVIOUS
<1>1. /\ log \in Seq(Kinds) /\ Len(log) = History
      /\ turns \in Seq(Nat) /\ Len(turns) = History
  BY ConstantsAssumption DEF Init, Kinds
<1>2. /\ cursor \in Nat \union {Unplaced} /\ cursorFile \in Nat \union {Unplaced}
      /\ sent \in Seq(Nat) /\ sentFile \in Seq(Nat)
  BY DEF Init
<1>3. up \in BOOLEAN
  BY DEF Init
<1>q. QED
  BY <1>1, <1>2, <1>3, ConstantsAssumption DEF Init, TypeOK

\* TypeOK holds in every reachable state, for every value of the constants.
THEOREM TypeCorrect == Spec => []TypeOK
BY TypeInit, TypeInductive, PTL DEF Spec

-----------------------------------------------------------------------------
(* At most one turn per message. *)

\* The inductive invariant, in two parts.  The file never runs ahead of the
\* memory, and a message above the persisted position has been a turn only at
\* the price of a refused write.
CountInv ==
    /\ cursorFile <= cursor
    /\ 0 <= LostWrites
    /\ \A i \in DOMAIN turns :
          turns[i] <= 1 + LostWrites /\ (i > cursorFile => turns[i] <= LostWrites)

\* A message being resolved is still above the cursor, because no other step
\* moves the cursor while a turn is on.
StageInv ==
    /\ turn = "resolve" => cur > cursor
    /\ turn # "idle" => stage \in {"drain", "live"}
    /\ ~up => stage = "off"

\* What most steps are to CountInv: no turn begins and no position is taken.
Quiet ==
    /\ UNCHANGED <<cursorFile, turns>>
    /\ cursor' \in {cursor, cursorFile}
    /\ left'["disk"] <= left["disk"]

LEMMA TurnsDomain ==
    ASSUME TypeOK
    PROVE  /\ DOMAIN turns = 1..Len(log) /\ DOMAIN log = 1..Len(log)
           /\ \A i \in DOMAIN turns : i \in Nat /\ turns[i] \in Nat
<1>1. turns \in Seq(Nat) /\ log \in Seq(Kinds) /\ Len(turns) = Len(log)
  BY DEF TypeOK
<1>q. QED
  BY <1>1

LEMMA DiskType ==
    ASSUME TypeOK
    PROVE  left["disk"] \in Nat /\ Budget["disk"] \in Nat /\ LostWrites \in Int
<1>1. left["disk"] \in Nat /\ Budget["disk"] \in Nat
  BY ConstantsAssumption DEF TypeOK, Events
<1>q. QED
  BY <1>1 DEF LostWrites

LEMMA LeftSteps ==
    ASSUME TypeOK, NEW k \in Events, Spend(k)
    PROVE  left'["disk"] <= left["disk"] /\ (k # "disk" => left'["disk"] = left["disk"])
BY DEF TypeOK, Spend, Events

LEMMA QuietKeepsCount ==
    ASSUME TypeOK, TypeOK', CountInv, Quiet
    PROVE  CountInv'
<1>1. Budget["disk"] \in Nat /\ left["disk"] \in Nat /\ left'["disk"] \in Nat
  BY ConstantsAssumption DEF TypeOK, Events
<1>2. cursorFile' <= cursor'
  BY DEF CountInv, Quiet, TypeOK, Unplaced
<1>3. LostWrites' >= LostWrites /\ LostWrites \in Int /\ LostWrites' \in Int
  BY <1>1 DEF LostWrites, Quiet
<1>4. ASSUME NEW i \in DOMAIN turns'
      PROVE  /\ turns'[i] <= 1 + LostWrites'
             /\ i > cursorFile' => turns'[i] <= LostWrites'
  <2>1. turns[i] \in Nat /\ turns'[i] = turns[i] /\ i \in DOMAIN turns
    BY TurnsDomain DEF Quiet
  <2>q. QED
    BY <1>3, <2>1 DEF CountInv, Quiet
<1>q. QED
  BY <1>2, <1>3, <1>4 DEF CountInv

LEMMA PostKeepsCount ==
    ASSUME TypeOK, CountInv, NEW k \in Kinds, Post(k), UNCHANGED cursorVars,
           left'["disk"] = left["disk"]
    PROVE  CountInv'
<1>1. LostWrites' = LostWrites /\ LostWrites \in Int
  BY DiskType DEF LostWrites
<1>2. ASSUME NEW i \in DOMAIN turns'
      PROVE  /\ turns'[i] <= 1 + LostWrites'
             /\ i > cursorFile' => turns'[i] <= LostWrites'
  <2>1. CASE i \in DOMAIN turns
    <3>1. turns'[i] = turns[i]
      BY <2>1 DEF Post, TypeOK
    <3>q. QED
      BY <1>1, <2>1, <3>1 DEF CountInv, cursorVars
  <2>2. CASE i \notin DOMAIN turns
    <3>1. turns'[i] = 0
      <4>1. turns \in Seq(Nat)
        BY DEF TypeOK
      <4>q. QED
        BY <2>2, <4>1 DEF Post
    <3>q. QED
      BY <1>1, <3>1 DEF CountInv, cursorVars
  <2>q. QED
    BY <2>1, <2>2
<1>q. QED
  BY <1>1, <1>2 DEF CountInv, cursorVars

\* The two outcomes of moving the cursor forward to id.
LEMMA AdvanceCases ==
    ASSUME TypeOK, NEW id \in Nat, id > cursor, Advance(id)
    PROVE  /\ cursor' = id
           /\ \/ cursorFile' = id /\ left' = left
              \/ /\ cursorFile' = cursorFile
                 /\ left'["disk"] = left["disk"] - 1
BY DEF Advance, Larger, TypeOK, Unplaced, Spend, Events

LEMMA BeginKeepsCount ==
    ASSUME TypeOK, CountInv, NEW id \in 1..Len(log), id > cursor, Begin(id),
           UNCHANGED log
    PROVE  CountInv'
<1>1. ChatType /\ turns' = [turns EXCEPT ![id] = @ + 1] /\ Advance(id)
  BY DEF TypeOK, ChatType, Begin
<1>2. /\ ChatType' /\ DOMAIN turns' = DOMAIN turns
      /\ turns'[id] = turns[id] + 1
      /\ \A j \in DOMAIN turns : j # id => turns'[j] = turns[j]
  BY <1>1, TurnsType
<1>3. /\ Budget["disk"] \in Nat /\ left["disk"] \in Nat
      /\ cursor \in Int /\ cursorFile \in Int
      /\ id \in DOMAIN turns /\ \A j \in DOMAIN turns : turns[j] \in Nat /\ j \in Nat
  <2>1. Budget["disk"] \in Nat /\ left["disk"] \in Nat
    BY DiskType
  <2>2. cursor \in Int /\ cursorFile \in Int
    BY DEF TypeOK, Unplaced
  <2>3. id \in DOMAIN turns /\ \A j \in DOMAIN turns : turns[j] \in Nat /\ j \in Nat
    BY TurnsDomain
  <2>q. QED
    BY <2>1, <2>2, <2>3
<1>4. turns[id] <= LostWrites /\ cursorFile < id
  BY <1>3 DEF CountInv
<1>5. CASE cursor' = id /\ cursorFile' = id /\ left' = left
  BY <1>2, <1>3, <1>4, <1>5 DEF CountInv, LostWrites
<1>6. CASE cursor' = id /\ cursorFile' = cursorFile /\ left'["disk"] = left["disk"] - 1
  <2>1. LostWrites' = LostWrites + 1 /\ LostWrites \in Int
    BY <1>3, <1>6 DEF LostWrites
  <2>q. QED
    BY <1>2, <1>3, <1>4, <1>6, <2>1 DEF CountInv
<1>q. QED
  BY <1>1, <1>5, <1>6, AdvanceCases

LEMMA CountInductive == TypeOK /\ CountInv /\ StageInv /\ [Next]_vars => CountInv'
<1> SUFFICES ASSUME TypeOK, CountInv, StageInv, [Next]_vars PROVE CountInv'
  OBVIOUS
<1>0. TypeOK'
  BY TypeInductive
<1>1. CASE HumanPosts
  <2>1. left'["disk"] = left["disk"]
    BY <1>1, LeftSteps DEF HumanPosts, Events
  <2>q. QED
    BY <1>1, <2>1, PostKeepsCount, ConstantsAssumption DEF HumanPosts
<1>2. CASE Start
  <2>1. Quiet
    BY <1>2, DiskType DEF Start, Quiet, cursorVars
  <2>q. QED
    BY <1>0, <2>1, QuietKeepsCount
<1>3. CASE Hibernate
  <2>1. Quiet
    BY <1>3, LeftSteps DEF Hibernate, Quiet, cursorVars, Events
  <2>q. QED
    BY <1>0, <2>1, QuietKeepsCount
<1>4. CASE Wake
  <2>1. Quiet
    BY <1>4, DiskType DEF Wake, Quiet, cursorVars
  <2>q. QED
    BY <1>0, <2>1, QuietKeepsCount
<1>5. CASE SchedMark
  <2>1. Quiet
    BY <1>5, LeftSteps DEF SchedMark, Quiet, cursorVars, Events
  <2>q. QED
    BY <1>0, <2>1, QuietKeepsCount
<1>6. CASE FirstRun
  <2>1. CASE log = << >>
    <3>1. Quiet
      BY <1>6, <2>1 DEF FirstRun, Quiet, cursorVars, TypeOK, Events
    <3>q. QED
      BY <1>0, <3>1, QuietKeepsCount
  <2>2. CASE log # << >>
    <3>1. Len(log) \in Nat /\ Len(log) > cursor /\ Advance(Len(log))
      BY <1>6, <2>2 DEF FirstRun, TypeOK, Unplaced
    <3>2. UNCHANGED turns
      BY <1>6 DEF FirstRun
    <3>3. cursorFile \in Int /\ cursorFile < Len(log)
      BY <3>1 DEF CountInv, TypeOK, Unplaced
    <3>4. CASE cursor' = Len(log) /\ cursorFile' = Len(log) /\ left' = left
      BY <3>1, <3>2, <3>3, <3>4, DiskType, TurnsDomain DEF CountInv, LostWrites
    <3>5. CASE /\ cursor' = Len(log) /\ cursorFile' = cursorFile
               /\ left'["disk"] = left["disk"] - 1
      <4>1. LostWrites' = LostWrites + 1
        BY <3>5, DiskType DEF LostWrites
      <4>q. QED
        BY <3>1, <3>2, <3>3, <3>5, <4>1, DiskType, TurnsDomain DEF CountInv
    <3>q. QED
      BY <3>1, <3>4, <3>5, AdvanceCases
  <2>q. QED
    BY <2>1, <2>2
<1>7. CASE FetchWindow
  <2>1. Quiet
    BY <1>7, DiskType DEF FetchWindow, Quiet, cursorVars
  <2>q. QED
    BY <1>0, <2>1, QuietKeepsCount
<1>8. CASE DrainDone
  <2>1. Quiet
    BY <1>8, DiskType DEF DrainDone, Quiet, cursorVars
  <2>q. QED
    BY <1>0, <2>1, QuietKeepsCount
<1>9. CASE Connect
  <2>1. Quiet
    BY <1>9, DiskType DEF Connect, Quiet, cursorVars
  <2>q. QED
    BY <1>0, <2>1, QuietKeepsCount
<1>10. CASE Drop
  <2>1. Quiet
    BY <1>10, DiskType DEF Drop, Quiet, cursorVars
  <2>q. QED
    BY <1>0, <2>1, QuietKeepsCount
<1>11. CASE Accept
  <2>1. next \in 1..Len(log) /\ next > cursor
    BY <1>11 DEF Accept, Accepts, Handed, TypeOK
  <2>q. QED
    BY <1>11, <2>1, BeginKeepsCount DEF Accept
<1>12. CASE AcceptFile
  <2>1. Quiet
    BY <1>12, DiskType DEF AcceptFile, Quiet, cursorVars
  <2>q. QED
    BY <1>0, <2>1, QuietKeepsCount
<1>13. CASE Resolve
  <2>1. cur \in 1..Len(log) /\ cur > cursor
    BY <1>13 DEF Resolve, StageInv, TypeOK
  <2>q. QED
    BY <1>13, <2>1, BeginKeepsCount DEF Resolve
<1>14. CASE SendLands
  BY <1>14, PostKeepsCount DEF SendLands, Kinds
<1>15. CASE SendRecorded
  <2>1. Quiet
    BY <1>15, LeftSteps, DiskType
    DEF SendRecorded, Remember, Quiet, cursorVars, Events
  <2>q. QED
    BY <1>0, <2>1, QuietKeepsCount
<1>16. CASE TakeLock
  <2>1. Quiet
    BY <1>16, DiskType DEF TakeLock, Quiet, cursorVars
  <2>q. QED
    BY <1>0, <2>1, QuietKeepsCount
<1>17. CASE RunEnds
  <2>1. Quiet
    BY <1>17, DiskType DEF RunEnds, Quiet, cursorVars
  <2>q. QED
    BY <1>0, <2>1, QuietKeepsCount
<1>18. CASE EditDelivers
  <2>1. Quiet
    BY <1>18, DiskType DEF EditDelivers, Quiet, cursorVars
  <2>q. QED
    BY <1>0, <2>1, QuietKeepsCount
<1>19. CASE SchedUnlock
  <2>1. Quiet
    BY <1>19, DiskType DEF SchedUnlock, Quiet, cursorVars
  <2>q. QED
    BY <1>0, <2>1, QuietKeepsCount
<1>20. CASE SchedLands
  BY <1>20, PostKeepsCount DEF SchedLands, Kinds
<1>21. CASE SchedRecorded
  <2>1. Quiet
    BY <1>21, LeftSteps, DiskType
    DEF SchedRecorded, Remember, Quiet, cursorVars, Events
  <2>q. QED
    BY <1>0, <2>1, QuietKeepsCount
<1>22. CASE Crash
  <2>1. Quiet
    BY <1>22, LeftSteps DEF Crash, Halt, Quiet, cursorVars, Events
  <2>q. QED
    BY <1>0, <2>1, QuietKeepsCount
<1>23. CASE FetchFails
  <2>1. Quiet
    BY <1>23, LeftSteps DEF FetchFails, Halt, Quiet, cursorVars, Events
  <2>q. QED
    BY <1>0, <2>1, QuietKeepsCount
<1>24. CASE StreamDrop
  <2>1. Quiet
    BY <1>24, LeftSteps DEF StreamDrop, Quiet, cursorVars, Events
  <2>q. QED
    BY <1>0, <2>1, QuietKeepsCount
<1>25. CASE SendFails
  <2>1. Quiet
    <3>1. left'["disk"] <= left["disk"]
      BY <1>25, LeftSteps DEF SendFails, Events
    <3>2. UNCHANGED <<cursorVars, turns>>
      BY <1>25 DEF SendFails, NoticeFails, Halt
    <3>q. QED
      BY <3>1, <3>2 DEF Quiet, cursorVars
  <2>q. QED
    BY <1>0, <2>1, QuietKeepsCount
<1>26. CASE ResolveRaises
  <2>1. Quiet
    BY <1>26, LeftSteps DEF ResolveRaises, Quiet, cursorVars, Events
  <2>q. QED
    BY <1>0, <2>1, QuietKeepsCount
<1>27. CASE SchedFails
  <2>1. Quiet
    BY <1>27, LeftSteps DEF SchedFails, Quiet, cursorVars, Events
  <2>q. QED
    BY <1>0, <2>1, QuietKeepsCount
<1>28. CASE UNCHANGED vars
  <2>1. Quiet
    BY <1>28, DiskType DEF vars, Quiet
  <2>q. QED
    BY <1>0, <2>1, QuietKeepsCount
<1>q. QED
  BY <1>1, <1>2, <1>3, <1>4, <1>5, <1>6, <1>7, <1>8, <1>9, <1>10, <1>11, <1>12,
     <1>13, <1>14, <1>15, <1>16, <1>17, <1>18, <1>19, <1>20, <1>21, <1>22,
     <1>23, <1>24, <1>25, <1>26, <1>27, <1>28
  DEF Next, ServeTask, ScheduleTask, Faults

LEMMA StageInductive == TypeOK /\ StageInv /\ [Next]_vars => StageInv'
<1> SUFFICES ASSUME TypeOK, StageInv, [Next]_vars PROVE StageInv'
  OBVIOUS
<1>1. CASE HumanPosts
  BY <1>1 DEF StageInv, HumanPosts, readVars, turnVars, cursorVars
<1>2. CASE Start
  BY <1>2 DEF StageInv, Start, readVars, turnVars, cursorVars
<1>3. CASE Hibernate
  BY <1>3 DEF StageInv, Hibernate, readVars, turnVars, cursorVars
<1>4. CASE Wake
  BY <1>4 DEF StageInv, Wake, readVars, turnVars, cursorVars
<1>5. CASE SchedMark
  BY <1>5 DEF StageInv, SchedMark, readVars, turnVars, cursorVars
<1>6. CASE FirstRun
  BY <1>6 DEF StageInv, FirstRun, readVars, turnVars, cursorVars
<1>7. CASE FetchWindow
  BY <1>7 DEF StageInv, FetchWindow, readVars, turnVars, cursorVars
<1>8. CASE DrainDone
  BY <1>8 DEF StageInv, DrainDone, readVars, turnVars, cursorVars
<1>9. CASE Connect
  BY <1>9 DEF StageInv, Connect, readVars, turnVars, cursorVars
<1>10. CASE Drop
  BY <1>10 DEF StageInv, Drop, Handed, readVars, turnVars, cursorVars
<1>11. CASE Accept
  BY <1>11 DEF StageInv, Accept, Begin, Handed, readVars, turnVars, cursorVars
<1>12. CASE AcceptFile
  BY <1>12
  DEF StageInv, AcceptFile, Handed, Accepts, readVars, turnVars, cursorVars
<1>13. CASE Resolve
  BY <1>13 DEF StageInv, Resolve, Begin, readVars, turnVars, cursorVars
<1>14. CASE SendLands
  BY <1>14
  DEF StageInv, SendLands, WillSend, SendStage, readVars, turnVars, cursorVars
<1>15. CASE SendRecorded
  BY <1>15 DEF StageInv, SendRecorded, Awaiting, readVars, turnVars, cursorVars
<1>16. CASE TakeLock
  BY <1>16 DEF StageInv, TakeLock, readVars, turnVars, cursorVars
<1>17. CASE RunEnds
  BY <1>17 DEF StageInv, RunEnds, readVars, turnVars, cursorVars
<1>18. CASE EditDelivers
  BY <1>18 DEF StageInv, EditDelivers, readVars, turnVars, cursorVars
<1>19. CASE SchedUnlock
  BY <1>19 DEF StageInv, SchedUnlock, readVars, turnVars, cursorVars
<1>20. CASE SchedLands
  BY <1>20 DEF StageInv, SchedLands, readVars, turnVars, cursorVars
<1>21. CASE SchedRecorded
  BY <1>21 DEF StageInv, SchedRecorded, readVars, turnVars, cursorVars
<1>22. CASE Crash
  BY <1>22 DEF StageInv, Crash, Halt, readVars, turnVars, cursorVars
<1>23. CASE FetchFails
  BY <1>23 DEF StageInv, FetchFails, Halt, readVars, turnVars, cursorVars
<1>24. CASE StreamDrop
  BY <1>24 DEF StageInv, StreamDrop, readVars, turnVars, cursorVars
<1>25. CASE SendFails
  BY <1>25
  DEF StageInv, SendFails, NoticeFails, Halt, WillSend, Awaiting, readVars,
      turnVars, cursorVars
<1>26. CASE ResolveRaises
  BY <1>26 DEF StageInv, ResolveRaises, readVars, turnVars, cursorVars
<1>27. CASE SchedFails
  BY <1>27 DEF StageInv, SchedFails, readVars, turnVars, cursorVars
<1>28. CASE UNCHANGED vars
  BY <1>28 DEF StageInv, vars
<1>q. QED
  BY <1>1, <1>2, <1>3, <1>4, <1>5, <1>6, <1>7, <1>8, <1>9, <1>10, <1>11, <1>12,
     <1>13, <1>14, <1>15, <1>16, <1>17, <1>18, <1>19, <1>20, <1>21, <1>22,
     <1>23, <1>24, <1>25, <1>26, <1>27, <1>28
  DEF Next, ServeTask, ScheduleTask, Faults

LEMMA OnceInit == Init => CountInv /\ StageInv
<1> SUFFICES ASSUME Init PROVE CountInv /\ StageInv
  OBVIOUS
<1>1. LostWrites = 0
  BY ConstantsAssumption DEF Init, LostWrites, Events
<1>2. cursorFile = cursor /\ cursor \in Int
  BY DEF Init, Unplaced
<1>3. \A i \in DOMAIN turns : turns[i] = 0
  BY DEF Init
<1>q. QED
  BY <1>1, <1>2, <1>3 DEF Init, CountInv, StageInv

LEMMA OnceInvariant == Spec => [](TypeOK /\ CountInv /\ StageInv)
<1>1. Init => TypeOK /\ CountInv /\ StageInv
  BY TypeInit, OnceInit
<1>2. TypeOK /\ CountInv /\ StageInv /\ [Next]_vars => (TypeOK /\ CountInv /\ StageInv)'
  BY TypeInductive, CountInductive, StageInductive
<1>q. QED
  BY <1>1, <1>2, PTL DEF Spec

\* A message is turned into a turn at most once, plus once per refused cursor
\* write, whatever crashes, replays and hibernations happen.
THEOREM OneTurnPerMessage == Spec => []AtMostOneTurn
<1>1. CountInv => AtMostOneTurn
  BY DEF CountInv, AtMostOneTurn
<1>q. QED
  BY OnceInvariant, <1>1, PTL

-----------------------------------------------------------------------------
(* Turns start in posting order. *)

\* Only the two beginnings raise a count, and they raise one count.
LEMMA OnlyBeginCounts ==
    ASSUME TypeOK, StageInv, [Next]_vars, NEW i \in DOMAIN turns, turns'[i] > turns[i]
    PROVE  i > cursor
<1> USE TurnsDomain
<1>1. CASE Accept
  <2>1. ChatType /\ next \in 1..Len(log) /\ next > cursor
    BY <1>1 DEF Accept, Accepts, Handed, TypeOK, ChatType
  <2>2. \A j \in DOMAIN turns : j # next => turns'[j] = turns[j]
    BY <1>1, <2>1, TurnsType DEF Accept, Begin
  <2>q. QED
    BY <2>1, <2>2
<1>2. CASE Resolve
  <2>1. ChatType /\ cur \in 1..Len(log) /\ cur > cursor
    BY <1>2 DEF Resolve, StageInv, TypeOK, ChatType
  <2>2. \A j \in DOMAIN turns : j # cur => turns'[j] = turns[j]
    BY <1>2, <2>1, TurnsType DEF Resolve, Begin
  <2>q. QED
    BY <2>1, <2>2
<1>3. CASE HumanPosts \/ SendLands \/ SchedLands
  <2>1. turns' = Append(turns, 0) /\ turns \in Seq(Nat)
    BY <1>3 DEF HumanPosts, SendLands, SchedLands, Post, TypeOK
  <2>q. QED
    BY <2>1
<1>4. CASE UNCHANGED turns
  BY <1>4
<1>q. QED
  BY <1>1, <1>2, <1>3, <1>4
  DEF Next, ServeTask, ScheduleTask, Faults, vars, Start, Hibernate, Wake,
      SchedMark, FirstRun, FetchWindow, DrainDone, Connect, Drop, AcceptFile,
      SendRecorded, TakeLock, RunEnds, EditDelivers, SchedUnlock,
      SchedRecorded, Crash, FetchFails, StreamDrop, SendFails, NoticeFails, Halt,
      ResolveRaises, SchedFails

\* Turns start in posting order while no cursor write has failed.
THEOREM InOrder == Spec => TurnsInOrder
<1>1. TypeOK /\ CountInv /\ StageInv /\ [Next]_vars => StartsInOrder
  <2> SUFFICES ASSUME TypeOK, CountInv, StageInv, [Next]_vars, LostWrites = 0,
                      NEW i \in DOMAIN turns, turns'[i] > turns[i],
                      NEW j \in DOMAIN turns, j > i
               PROVE  turns[j] = 0
    BY DEF StartsInOrder
  <2>1. i > cursor /\ cursorFile <= cursor
    BY OnlyBeginCounts DEF CountInv
  <2>2. i \in Nat /\ j \in Nat /\ turns[j] \in Nat /\ cursor \in Int /\ cursorFile \in Int
    BY TurnsDomain DEF TypeOK, Unplaced
  <2>3. j > cursorFile
    BY <2>1, <2>2
  <2>q. QED
    BY <2>2, <2>3 DEF CountInv
<1>q. QED
  BY OnceInvariant, <1>1, PTL DEF Spec, TurnsInOrder

-----------------------------------------------------------------------------
(* A bot that knows its identity never answers itself. *)

EchoInv ==
    /\ NeverAnswersItself
    /\ turn = "resolve" => log[cur] # "bot"

LEMMA EchoInductive ==
    ASSUME IdentityKnown, TypeOK, EchoInv, [Next]_vars
    PROVE  EchoInv'
<1> USE TurnsDomain
<1>1. CASE Accept
  <2>1. ChatType /\ next \in 1..Len(log) /\ log[next] # "bot"
    BY <1>1 DEF Accept, Accepts, Handed, TypeOK, ChatType
  <2>2. /\ \A j \in DOMAIN turns : j # next => turns'[j] = turns[j]
        /\ log' = log /\ turn' # "resolve"
    BY <1>1, <2>1, TurnsType DEF Accept, Begin
  <2>q. QED
    BY <2>1, <2>2 DEF EchoInv, NeverAnswersItself
<1>2. CASE Resolve
  <2>1. ChatType /\ cur \in 1..Len(log) /\ log[cur] # "bot"
    BY <1>2 DEF Resolve, EchoInv, TypeOK, ChatType
  <2>2. /\ \A j \in DOMAIN turns : j # cur => turns'[j] = turns[j]
        /\ log' = log /\ turn' # "resolve"
    BY <1>2, <2>1, TurnsType DEF Resolve, Begin
  <2>q. QED
    BY <2>1, <2>2 DEF EchoInv, NeverAnswersItself
<1>3. CASE HumanPosts \/ SendLands \/ SchedLands
  <2>1. PICK k \in Kinds : Post(k)
    BY <1>3, ConstantsAssumption DEF HumanPosts, SendLands, SchedLands, Kinds
  <2>2. /\ log \in Seq(Kinds) /\ turns \in Seq(Nat) /\ Len(turns) = Len(log)
        /\ log' = Append(log, k) /\ turns' = Append(turns, 0)
    BY <2>1 DEF Post, TypeOK
  <2>3. \A i \in DOMAIN log' : \/ i \in DOMAIN log /\ log'[i] = log[i] /\ turns'[i] = turns[i]
                               \/ turns'[i] = 0
    BY <2>2
  <2>4. NeverAnswersItself'
    BY <2>3 DEF EchoInv, NeverAnswersItself
  <2>5. cur' = cur /\ (turn' = "resolve" => turn = "resolve")
    BY <1>3 DEF HumanPosts, SendLands, SchedLands, SendStage, WillSend, turnVars
  <2>6. turn = "resolve" => cur \in DOMAIN log
    BY DEF TypeOK
  <2>q. QED
    BY <2>2, <2>4, <2>5, <2>6 DEF EchoInv
<1>4. CASE AcceptFile
  BY <1>4 DEF AcceptFile, EchoInv, NeverAnswersItself
<1>5. CASE /\ UNCHANGED <<log, turns>>
           /\ \/ turn' # "resolve"
              \/ UNCHANGED <<turn, cur>>
  BY <1>5 DEF EchoInv, NeverAnswersItself
<1>q. QED
  BY <1>1, <1>2, <1>3, <1>4, <1>5
  DEF Next, ServeTask, ScheduleTask, Faults, vars, Start, Hibernate, Wake,
      SchedMark, FirstRun, FetchWindow, DrainDone, Connect, Drop,
      SendRecorded, TakeLock, RunEnds, EditDelivers, SchedUnlock,
      SchedRecorded, Crash, FetchFails, StreamDrop, SendFails, NoticeFails, Halt,
      ResolveRaises, SchedFails, turnVars

\* With a known identity the bot never takes a post of its own for a request.
THEOREM NoSelfAnswer == ASSUME IdentityKnown PROVE Spec => []NeverAnswersItself
<1>1. Init => EchoInv
  BY DEF Init, EchoInv, NeverAnswersItself
<1>2. TypeOK /\ EchoInv /\ [Next]_vars => EchoInv'
  BY EchoInductive
<1>3. EchoInv => NeverAnswersItself
  BY DEF EchoInv
<1>q. QED
  BY <1>1, <1>2, <1>3, TypeCorrect, PTL DEF Spec

-----------------------------------------------------------------------------
(* No request is skipped silently. *)

\* What the sent ledger holds, or is about to, are posts of the bot.
IsPost(id) == id \in DOMAIN log /\ log[id] = "bot"
Ledgers(ids) == \A k \in DOMAIN ids : IsPost(ids[k])
LedgerInv ==
    /\ Ledgers(sent) /\ Ledgers(sentFile)
    /\ Awaiting => IsPost(unrec)
    /\ sched \in {"posted", "noticed"} => IsPost(schedUnrec)

\* A request is taken care of: it became a turn, was given up by the catch-up,
\* or got its notice.
Done(i) == turns[i] > 0 \/ i \in forgiven \union answered
Begun == {"open", "opened", "lock", "run", "reply"}
Reading == stage \in {"drain", "live"}

\* Behind the cursor, and behind what the window or the stream hands over next,
\* every request is taken care of; the one that is handled now may not be yet.
PassInv ==
    /\ cursor <= Len(log)
    /\ \A i \in DOMAIN log : Request(i) /\ i <= cursor => Done(i)
    /\ Reading =>
          /\ next <= Len(log) + 1
          /\ \A i \in DOMAIN log :
                Request(i) /\ i < next => Done(i) \/ (i = cur /\ turn # "idle")
    /\ turn = "resolve" => cur < next
    /\ turn \in Begun => turns[cur] > 0
    /\ turn \in {"replied", "noticed"} => cur \in answered

\* The replay reaches back to every request that is still open when the stream
\* connects.  What it does not reach is lost (C5: "recent history").
ReplayReaches ==
    stage = "connect" =>
        \A i \in DOMAIN log : Request(i) /\ ~Done(i) => i > Len(log) - Replay

\* Posts stay where they are.
LEMMA PostsStay ==
    ASSUME TypeOK, [Next]_vars
    PROVE  \A id : IsPost(id) => id \in DOMAIN log' /\ log'[id] = "bot"
<1>1. log \in Seq(Kinds)
  BY DEF TypeOK
<1>2. log' = log \/ \E kind : log' = Append(log, kind)
  <2>1. CASE HumanPosts \/ SendLands \/ SchedLands
    BY <2>1 DEF HumanPosts, SendLands, SchedLands, Post
  <2>2. CASE UNCHANGED log
    BY <2>2
  <2>q. QED
    BY <2>1, <2>2
    DEF Next, ServeTask, ScheduleTask, Faults, vars, Start, Hibernate, Wake, SchedMark,
        FirstRun, FetchWindow, DrainDone, Connect, Drop, Accept, AcceptFile, Resolve,
        SendRecorded, TakeLock, RunEnds, EditDelivers, SchedUnlock, SchedRecorded,
        Crash, FetchFails, StreamDrop, SendFails, NoticeFails, Halt, ResolveRaises,
        SchedFails
<1>q. QED
  BY <1>1, <1>2 DEF IsPost

LEMMA RememberPosts ==
    ASSUME SentType, NEW id \in Nat, Remember(id), LedgerInv, IsPost(id)
    PROVE  /\ \A k \in DOMAIN sent' : IsPost(sent'[k])
           /\ \A k \in DOMAIN sentFile' : IsPost(sentFile'[k])
<1>1. \A k \in DOMAIN sent' : sent'[k] = id \/ \E j \in DOMAIN sent : sent'[k] = sent[j]
  BY ConstantsAssumption DEF Remember, SentType
<1>2. sentFile' = sentFile \/ sentFile' = sent'
  BY DEF Remember
<1>3. \A k \in DOMAIN sent' : IsPost(sent'[k])
  BY <1>1 DEF LedgerInv, Ledgers
<1>q. QED
  BY <1>2, <1>3 DEF LedgerInv, Ledgers

LEMMA LedgerInductive == TypeOK /\ LedgerInv /\ [Next]_vars => LedgerInv'
<1> SUFFICES ASSUME TypeOK, LedgerInv, [Next]_vars PROVE LedgerInv'
  OBVIOUS
<1>0. \A id : IsPost(id) => id \in DOMAIN log' /\ log'[id] = "bot"
  BY PostsStay
<1>1. /\ \A k \in DOMAIN sent' : IsPost(sent'[k])
      /\ \A k \in DOMAIN sentFile' : IsPost(sentFile'[k])
  <2>1. CASE SendRecorded
    <3>1. SentType /\ unrec \in Nat /\ Remember(unrec) /\ IsPost(unrec)
      BY <2>1 DEF SendRecorded, TypeOK, SentType, LedgerInv
    <3>q. QED
      BY <3>1, RememberPosts
  <2>2. CASE SchedRecorded
    <3>1. SentType /\ schedUnrec \in Nat /\ Remember(schedUnrec) /\ IsPost(schedUnrec)
      BY <2>2 DEF SchedRecorded, TypeOK, SentType, LedgerInv
    <3>q. QED
      BY <3>1, RememberPosts
  <2>3. CASE sentFile' = sentFile /\ sent' \in {sent, sentFile}
    BY <2>3 DEF LedgerInv, Ledgers
  <2>q. QED
    BY <2>1, <2>2, <2>3
    DEF Next, ServeTask, ScheduleTask, Faults, vars, sentVars, HumanPosts, Start,
        Hibernate, Wake, SchedMark, FirstRun, FetchWindow, DrainDone, Connect, Drop,
        Accept, AcceptFile, Resolve, SendLands, TakeLock, RunEnds, EditDelivers,
        SchedUnlock, SchedLands, Crash, FetchFails, StreamDrop, SendFails, NoticeFails,
        Halt, ResolveRaises, SchedFails
<1>2. Awaiting' => unrec' \in DOMAIN log' /\ log'[unrec'] = "bot"
  <2>1. CASE SendLands
    <3>1. log \in Seq(Kinds) /\ log' = Append(log, "bot") /\ unrec' = Len(log) + 1
      BY <2>1 DEF SendLands, Post, TypeOK
    <3>q. QED
      BY <3>1
  <2>2. CASE Awaiting' => Awaiting /\ unrec' = unrec
    BY <1>0, <2>2 DEF LedgerInv
  <2>q. QED
    BY <2>1, <2>2
    DEF Next, ServeTask, ScheduleTask, Faults, vars, turnVars, HumanPosts, Start,
        Hibernate, Wake, SchedMark, FirstRun, FetchWindow, DrainDone, Connect, Drop,
        Accept, AcceptFile, Resolve, Begin, SendRecorded, TakeLock, RunEnds, EditDelivers,
        SchedUnlock, SchedLands, SchedRecorded, Crash, FetchFails, StreamDrop, SendFails,
        NoticeFails, Halt, ResolveRaises, SchedFails, Awaiting
<1>3. sched' \in {"posted", "noticed"} => schedUnrec' \in DOMAIN log' /\ log'[schedUnrec'] = "bot"
  <2>1. CASE SchedLands
    <3>1. log \in Seq(Kinds) /\ log' = Append(log, "bot") /\ schedUnrec' = Len(log) + 1
      BY <2>1 DEF SchedLands, Post, TypeOK
    <3>q. QED
      BY <3>1
  <2>2. CASE \/ UNCHANGED schedVars
             \/ sched' \notin {"posted", "noticed"}
    BY <1>0, <2>2 DEF LedgerInv, schedVars
  <2>q. QED
    BY <2>1, <2>2
    DEF Next, ServeTask, ScheduleTask, Faults, vars, schedVars, HumanPosts, Start,
        Hibernate, Wake, SchedMark, FirstRun, FetchWindow, DrainDone, Connect, Drop,
        Accept, AcceptFile, Resolve, SendLands, SendRecorded, TakeLock, RunEnds,
        EditDelivers, SchedUnlock, SchedRecorded, Crash, FetchFails, StreamDrop,
        SendFails, NoticeFails, Halt, ResolveRaises, SchedFails
<1>4. Ledgers(sent)' /\ Ledgers(sentFile)'
  BY <1>0, <1>1 DEF Ledgers, IsPost
<1>q. QED
  BY <1>2, <1>3, <1>4 DEF LedgerInv, IsPost

\* Steps that leave the chat and the counts, and move a turn only forward.
LEMMA PassSame ==
    ASSUME TypeOK, PassInv, CountInv, UNCHANGED <<log, turns>>,
           forgiven \subseteq forgiven', answered \subseteq answered',
           cursor' \in {cursor, cursorFile},
           Reading' => Reading /\ next' = next,
           \/ /\ turn' = "idle"
              /\ Reading' => turn = "idle" \/ cur \in answered'
           \/ /\ turn # "idle" /\ turn' # "idle" /\ cur' = cur /\ Reading /\ next' = next
              /\ turn' = "resolve" => turn = "resolve"
              /\ turn' \in Begun => turn \in Begun
              /\ turn' \in {"replied", "noticed"} => turn' = turn
    PROVE  PassInv'
<1>1. cursor' <= cursor /\ cursor \in Int /\ cursor' \in Int /\ Len(log) \in Nat
  BY DEF CountInv, TypeOK, Unplaced
<1>2. \A i : Done(i) => turns'[i] > 0 \/ i \in forgiven' \union answered'
  BY DEF Done
<1>3. cursor' <= Len(log)
  BY <1>1 DEF PassInv
<1>4. \A i \in DOMAIN log : Request(i) /\ i <= cursor => Done(i)
  BY DEF PassInv
<1>5. ASSUME NEW i \in DOMAIN log, Request(i), i <= cursor'
      PROVE  turns'[i] > 0 \/ i \in forgiven' \union answered'
  <2>1. i <= cursor
    BY <1>1, <1>5, TurnsDomain
  <2>q. QED
    BY <1>2, <1>4, <1>5, <2>1
<1>6. Reading' =>
          /\ next' <= Len(log) + 1
          /\ \A i \in DOMAIN log : Request(i) /\ i < next' =>
                \/ turns'[i] > 0 \/ i \in forgiven' \union answered'
                \/ i = cur' /\ turn' # "idle"
  BY <1>2 DEF PassInv
<1>q. QED
  BY <1>3, <1>5, <1>6 DEF PassInv, Done, Request, Begun

\* A message lands; a post of the turn that ends it counts as its answer.
LEMMA PassPost ==
    ASSUME TypeOK, PassInv, NEW kind \in Kinds, Post(kind),
           UNCHANGED <<stage, next, cursor, forgiven, cur>>, answered \subseteq answered',
           \/ turn' = turn
           \/ turn = "open" /\ turn' = "opened"
           \/ turn # "idle" /\ turn' \in {"replied", "noticed"} /\ cur \in answered'
    PROVE  PassInv'
<1>1. /\ log \in Seq(Kinds) /\ turns \in Seq(Nat) /\ Len(turns) = Len(log)
      /\ log' = Append(log, kind) /\ turns' = Append(turns, 0)
  BY DEF TypeOK, Post
<1>2. /\ Len(log') = Len(log) + 1 /\ DOMAIN log' = 1..(Len(log) + 1) /\ Len(log) \in Nat
      /\ DOMAIN log = 1..Len(log)
      /\ \A i \in 1..Len(log) : log'[i] = log[i] /\ turns'[i] = turns[i]
  BY <1>1
<1>3. \A i \in DOMAIN log : /\ Done(i) => turns'[i] > 0 \/ i \in forgiven' \union answered'
                            /\ log'[i] \in Kinds \ {"bot", "blank"} => Request(i)
  BY <1>2 DEF Done, Request
<1>4. cursor \in Int /\ cursor <= Len(log) /\ next \in Nat /\ cur \in 0..Len(log)
      /\ (turn # "idle" => cur \in 1..Len(log))
  BY DEF PassInv, TypeOK, Unplaced
<1>5. ASSUME NEW i \in DOMAIN log', log'[i] \in Kinds \ {"bot", "blank"}, i <= cursor'
      PROVE  turns'[i] > 0 \/ i \in forgiven' \union answered'
  <2>1. i \in DOMAIN log /\ i <= cursor
    BY <1>2, <1>4, <1>5
  <2>q. QED
    BY <1>3, <1>5, <2>1 DEF PassInv
<1>6. CASE Reading
  <2>1. next <= Len(log) + 1
    BY <1>6 DEF PassInv
  <2>2. ASSUME NEW i \in DOMAIN log', log'[i] \in Kinds \ {"bot", "blank"}, i < next'
        PROVE  \/ turns'[i] > 0 \/ i \in forgiven' \union answered'
               \/ i = cur' /\ turn' # "idle"
    <3>1. i \in DOMAIN log /\ i < next
      BY <1>2, <1>4, <2>1, <2>2
    <3>q. QED
      BY <1>3, <1>6, <2>2, <3>1 DEF PassInv
  <2>3. next' <= Len(log') + 1
    BY <1>2, <1>4, <2>1
  <2>q. QED
    BY <2>2, <2>3, <1>2, <1>4, <1>5, <1>6 DEF PassInv, Done, Request, Reading, Begun
<1>7. CASE ~Reading
  BY <1>2, <1>4, <1>5, <1>7 DEF PassInv, Done, Request, Reading, Begun
<1>q. QED
  BY <1>6, <1>7

\* The cursor moves to a message that is handled now, and counted.
LEMMA PassBegin ==
    ASSUME TypeOK, TypeOK', PassInv, NEW id \in 1..Len(log), Begin(id), cur' = id,
           UNCHANGED <<log, stage, forgiven, answered>>, Reading, id < next',
           next' = next \/ next' = next + 1, next' <= Len(log) + 1,
           \A i \in DOMAIN log : Request(i) /\ i < next' /\ i # id => Done(i)
    PROVE  PassInv'
<1>1. ChatType /\ turns' = [turns EXCEPT ![id] = @ + 1] /\ Advance(id)
  BY DEF Begin, TypeOK, ChatType
<1>2. /\ DOMAIN turns' = DOMAIN turns /\ turns'[id] = turns[id] + 1
      /\ \A j \in DOMAIN turns : j # id => turns'[j] = turns[j]
  BY <1>1, TurnsType
<1>3. /\ DOMAIN turns = 1..Len(log) /\ DOMAIN log = 1..Len(log)
      /\ \A i \in DOMAIN turns : i \in Nat /\ turns[i] \in Nat
  BY TurnsDomain
<1>4. turns'[id] > 0 /\ \A i \in DOMAIN log : turns[i] > 0 => turns'[i] > 0
  BY <1>2, <1>3
<1>5. \A i \in DOMAIN log : Request(i) /\ i < next' =>
          turns'[i] > 0 \/ i \in forgiven' \union answered'
  BY <1>4 DEF Done
<1>6. cursor' \in {cursor, id} /\ cursor' <= Len(log)
  BY <1>1 DEF Advance, Larger, PassInv, TypeOK, Unplaced
<1>7. ASSUME NEW i \in DOMAIN log, Request(i), i <= cursor'
      PROVE  turns'[i] > 0 \/ i \in forgiven' \union answered'
  <2>1. CASE cursor' = cursor
    BY <1>4, <1>7, <2>1 DEF PassInv, Done
  <2>2. CASE cursor' = id
    <3>1. next' \in Nat /\ i \in Nat /\ i <= id
      BY <1>3, <1>7, <2>2 DEF TypeOK
    <3>2. i < next'
      BY <3>1
    <3>q. QED
      BY <1>5, <1>7, <3>2
  <2>q. QED
    BY <1>6, <2>1, <2>2
<1>8. turn' \in {"lock", "open"}
  BY DEF Begin
<1>q. QED
  BY <1>4, <1>5, <1>6, <1>7, <1>8 DEF PassInv, Done, Request, Begun

\* A message that the gate drops is no request, or lies behind the cursor.
LEMMA PassDrop ==
    ASSUME TypeOK, PassInv, LedgerInv, Drop
    PROVE  PassInv'
<1>1. /\ next \in 1..Len(log) /\ turn = "idle" /\ Reading /\ next' = next + 1
      /\ UNCHANGED <<log, turns, forgiven, answered, cursor, stage, turn, cur>>
  BY DEF Drop, Handed, TypeOK, Reading, cursorVars, turnVars
<1>2. Request(next) => Done(next)
  <2>1. Recorded(next) => log[next] = "bot"
    BY DEF Recorded, LedgerInv, Ledgers, IsPost
  <2>2. ASSUME Request(next) PROVE next <= cursor
    BY <1>1, <2>1, <2>2 DEF Drop, Accepts, Request, Kinds, TypeOK, Unplaced
  <2>q. QED
    BY <1>1, <2>2, TurnsDomain DEF PassInv
<1>3. \A i \in DOMAIN log : Request(i) /\ i < next + 1 => Done(i)
  <2>1. \A i \in DOMAIN log : Request(i) /\ i < next => Done(i)
    BY <1>1 DEF PassInv
  <2>2. \A i \in DOMAIN log : i < next + 1 => i < next \/ i = next
    BY <1>1, TurnsDomain
  <2>q. QED
    BY <1>2, <2>1, <2>2
<1>4. next' <= Len(log) + 1 /\ Len(log) \in Nat
  BY <1>1 DEF TypeOK
<1>5. /\ cursor' <= Len(log)
      /\ \A i \in DOMAIN log : Request(i) /\ i <= cursor' => Done(i)
  BY <1>1 DEF PassInv
<1>q. QED
  BY <1>1, <1>3, <1>4, <1>5 DEF PassInv, Done, Request, Reading, Begun

\* Accepting: all that was handed over before is taken care of.
LEMMA PassAccept ==
    ASSUME TypeOK, TypeOK', PassInv, Accept \/ AcceptFile
    PROVE  PassInv'
<1>1. /\ next \in 1..Len(log) /\ turn = "idle" /\ Reading
      /\ next' = next + 1 /\ cur' = next
      /\ UNCHANGED <<log, stage, forgiven, answered>>
  BY DEF Accept, AcceptFile, Handed, TypeOK, Reading
<1>2. \A i \in DOMAIN log : Request(i) /\ i < next' /\ i # next => Done(i)
  <2>1. \A i \in DOMAIN log : Request(i) /\ i < next => Done(i)
    BY <1>1 DEF PassInv
  <2>2. \A i \in DOMAIN log : i < next + 1 => i < next \/ i = next
    BY <1>1, TurnsDomain
  <2>q. QED
    BY <1>1, <2>1, <2>2
<1>3. next < next' /\ next' <= Len(log) + 1 /\ Len(log) \in Nat
  BY <1>1 DEF TypeOK
<1>4. CASE Accept
  <2>1. Begin(next)
    BY <1>4 DEF Accept
  <2>q. QED
    BY <1>1, <1>2, <1>3, <2>1, PassBegin
<1>5. CASE AcceptFile
  <2>1. turn' = "resolve" /\ UNCHANGED <<cursor, turns>>
    BY <1>5 DEF AcceptFile, cursorVars
  <2>2. /\ cursor' <= Len(log)
        /\ \A i \in DOMAIN log : Request(i) /\ i <= cursor' => Done(i)
    BY <2>1 DEF PassInv
  <2>q. QED
    BY <1>1, <1>2, <1>3, <2>1, <2>2 DEF PassInv, Done, Request, Reading, Begun
<1>q. QED
  BY <1>4, <1>5

\* The catch-up gives up what it does not hand over; the stream starts within
\* what the replay reaches.
LEMMA PassRead ==
    ASSUME TypeOK, StageInv, PassInv, ReplayReaches, FirstRun \/ FetchWindow \/ Connect
    PROVE  PassInv'
<1>1. /\ UNCHANGED <<log, turns, answered, turn, cur>> /\ turn = "idle"
      /\ Len(log) \in Nat /\ cursor \in Int /\ forgiven \subseteq forgiven'
      /\ DOMAIN log = 1..Len(log)
  BY DEF FirstRun, FetchWindow, Connect, turnVars, StageInv, TypeOK, Unplaced
<1>2. \A i \in DOMAIN log : Request(i) /\ i <= cursor => Done(i)
  BY DEF PassInv
<1>3. CASE FirstRun
  <2>1. /\ ~Reading'
        /\ \/ cursor' = cursor
           \/ cursor' = Larger(cursor, Len(log)) /\ forgiven' = forgiven \union 1..Len(log)
    BY <1>3 DEF FirstRun, Reading, Advance, cursorVars
  <2>2. cursor' \in {cursor, Len(log)} /\ cursor' <= Len(log)
    BY <1>1, <2>1 DEF Larger, PassInv
  <2>3. cursor' = cursor \/ DOMAIN log \subseteq forgiven'
    BY <1>1, <2>1
  <2>4. \A i \in DOMAIN log : Request(i) /\ i <= cursor' =>
            turns'[i] > 0 \/ i \in forgiven' \union answered'
    BY <1>1, <1>2, <2>3 DEF Done
  <2>q. QED
    BY <1>1, <2>1, <2>2, <2>4 DEF PassInv, Done, Request, Begun
<1>4. CASE FetchWindow
  <2>1. /\ next' = WindowStart /\ cursor' = cursor
        /\ forgiven' = forgiven \union {i \in DOMAIN log : cursor < i /\ i < WindowStart}
    BY <1>4 DEF FetchWindow, cursorVars
  <2>2. WindowStart \in Nat /\ WindowStart <= Len(log) + 1
    BY <1>1, ConstantsAssumption DEF WindowStart, Larger
  <2>3. \A i \in DOMAIN log : Request(i) /\ i < WindowStart => Done(i) \/ i \in forgiven'
    <3>1. \A i \in DOMAIN log : i <= cursor \/ cursor < i
      BY <1>1
    <3>q. QED
      BY <1>2, <2>1, <3>1
  <2>4. cursor' <= Len(log)
    BY <2>1 DEF PassInv
  <2>q. QED
    BY <1>1, <1>2, <2>1, <2>2, <2>3, <2>4 DEF PassInv, Done, Request, Begun
<1>5. CASE Connect
  <2>1. /\ next' = Larger(1, Len(log) - Replay + 1) /\ UNCHANGED <<cursor, forgiven>>
        /\ stage = "connect"
    BY <1>5 DEF Connect, cursorVars
  <2>2. next' <= Len(log) + 1 /\ (next' = 1 \/ next' = Len(log) - Replay + 1)
    BY <1>1, <2>1, ConstantsAssumption DEF Larger
  <2>3. \A i \in DOMAIN log : Request(i) /\ i < next' => Done(i)
    <3>1. \A i \in DOMAIN log : i < next' => ~(i > Len(log) - Replay)
      BY <1>1, <2>2, ConstantsAssumption
    <3>q. QED
      BY <2>1, <3>1 DEF ReplayReaches
  <2>4. cursor' <= Len(log)
    BY <2>1 DEF PassInv
  <2>q. QED
    BY <1>1, <1>2, <2>1, <2>2, <2>3, <2>4 DEF PassInv, Done, Request, Begun
<1>q. QED
  BY <1>3, <1>4, <1>5

LEMMA PassInductive ==
    ASSUME TypeOK, TypeOK', CountInv, StageInv, LedgerInv, PassInv, ReplayReaches, [Next]_vars
    PROVE  PassInv'
<1>1. CASE FirstRun \/ FetchWindow \/ Connect
  BY <1>1, PassRead
<1>2. CASE Drop
  BY <1>2, PassDrop
<1>3. CASE Accept \/ AcceptFile
  BY <1>3, PassAccept
<1>4. CASE Resolve
  <2>1. /\ turn = "resolve" /\ Begin(cur) /\ cur' = cur /\ cur \in 1..Len(log)
        /\ UNCHANGED <<log, stage, next, forgiven, answered>> /\ Reading
    BY <1>4 DEF Resolve, readVars, TypeOK, StageInv, Reading
  <2>2. cur < next' /\ next' <= Len(log) + 1
    BY <2>1 DEF PassInv
  <2>3. \A i \in DOMAIN log : Request(i) /\ i < next' /\ i # cur => Done(i)
    BY <2>1 DEF PassInv
  <2>q. QED
    BY <2>1, <2>2, <2>3, PassBegin
<1>5. CASE HumanPosts \/ SendLands \/ SchedLands
  <2>1. /\ UNCHANGED <<stage, next, cursor, forgiven, cur>> /\ answered \subseteq answered'
        /\ \E kind \in Kinds : Post(kind)
    BY <1>5, ConstantsAssumption
       DEF HumanPosts, SendLands, SchedLands, readVars, cursorVars, turnVars, Kinds
  <2>2. \/ turn' = turn
        \/ turn = "open" /\ turn' = "opened"
        \/ turn # "idle" /\ turn' \in {"replied", "noticed"} /\ cur \in answered'
    BY <1>5 DEF HumanPosts, SendLands, SchedLands, SendStage, WillSend, turnVars
  <2>q. QED
    BY <2>1, <2>2, PassPost
<1>6. CASE \/ Start \/ Hibernate \/ Wake \/ SchedMark \/ DrainDone \/ SchedUnlock
           \/ SchedRecorded \/ StreamDrop \/ SchedFails \/ Crash \/ FetchFails
           \/ UNCHANGED vars
  <2>1. /\ UNCHANGED <<log, turns, forgiven, answered>> /\ cursor' \in {cursor, cursorFile}
        /\ Reading' => Reading /\ next' = next
        /\ \/ turn' = turn /\ cur' = cur
           \/ turn' = "idle" /\ ~Reading'
    BY <1>6 DEF Start, Hibernate, Wake, SchedMark, DrainDone, SchedUnlock, SchedRecorded,
                StreamDrop, SchedFails, Crash, FetchFails, Halt, vars, Reading, readVars,
                cursorVars, turnVars
  <2>2. turn' = turn /\ turn # "idle" => Reading /\ next' = next
    BY <1>6 DEF Start, Hibernate, Wake, SchedMark, DrainDone, SchedUnlock, SchedRecorded,
                StreamDrop, SchedFails, Crash, FetchFails, Halt, vars, Reading, readVars,
                StageInv
  <2>q. QED
    BY <2>1, <2>2, PassSame
<1>7. CASE SendRecorded
  <2>1. /\ UNCHANGED <<log, turns, forgiven, answered, cursor, stage, next>>
        /\ \/ turn = "opened" /\ turn' = "lock" /\ cur' = cur
           \/ turn \in {"replied", "noticed"} /\ turn' = "idle"
    BY <1>7 DEF SendRecorded, readVars, cursorVars, Awaiting
  <2>2. Reading /\ (turn \in {"replied", "noticed"} => cur \in answered')
    BY <2>1 DEF PassInv, StageInv, Reading
  <2>3. Reading' = Reading
    BY <2>1 DEF Reading
  <2>q. QED
    BY <2>1, <2>2, <2>3, PassSame DEF Begun
<1>8. CASE TakeLock \/ RunEnds \/ ResolveRaises
  <2>1. /\ UNCHANGED <<log, turns, forgiven, answered, cursor, stage, next, cur>>
        /\ \/ turn = "lock" /\ turn' = "run"
           \/ turn = "run" /\ turn' \in {"reply", "error"}
           \/ turn = "resolve" /\ turn' = "error"
    BY <1>8 DEF TakeLock, RunEnds, ResolveRaises, readVars, cursorVars
  <2>2. Reading /\ Reading' = Reading
    BY <2>1 DEF StageInv, Reading
  <2>q. QED
    BY <2>1, <2>2, PassSame DEF Begun
<1>9. CASE EditDelivers
  <2>1. /\ UNCHANGED <<log, turns, forgiven, cursor, stage, next>> /\ turn' = "idle"
        /\ answered' = answered \union {cur}
    BY <1>9 DEF EditDelivers, readVars, cursorVars
  <2>2. Reading' = Reading
    BY <2>1 DEF Reading
  <2>q. QED
    BY <2>1, <2>2, PassSame
<1>10. CASE SendFails
  <2>1. UNCHANGED <<log, turns, forgiven, answered, cursor>> /\ turn # "idle"
    BY <1>10 DEF SendFails, NoticeFails, Halt, cursorVars, WillSend, Awaiting
  <2>2. CASE turn \in {"error", "noticed"}
    <3>1. turn' = "idle" /\ ~Reading'
      BY <1>10, <2>2 DEF SendFails, NoticeFails, Halt, Reading
    <3>q. QED
      BY <2>1, <3>1, PassSame
  <2>3. CASE turn \notin {"error", "noticed"}
    <3>1. turn' = "error" /\ UNCHANGED <<stage, next, cur>>
      BY <1>10, <2>3 DEF SendFails, readVars
    <3>2. Reading /\ Reading' = Reading
      BY <2>1, <3>1 DEF StageInv, Reading
    <3>q. QED
      BY <2>1, <3>1, <3>2, PassSame DEF Begun
  <2>q. QED
    BY <2>2, <2>3
<1>q. QED
  BY <1>1, <1>2, <1>3, <1>4, <1>5, <1>6, <1>7, <1>8, <1>9, <1>10
  DEF Next, ServeTask, ScheduleTask, Faults

\* While the replay reaches back to every request still open when the stream
\* connects, the cursor passes no request that neither became a turn, nor was
\* given up by the catch-up, nor got an error notice, whatever crashes, refused
\* writes, failing calls and hibernations happen (_catch_up, accepts, run_turn).
THEOREM NothingSkipped == Spec /\ []ReplayReaches => []NoSilentSkip
<1>1. Init => LedgerInv /\ PassInv
  <2> SUFFICES ASSUME Init PROVE LedgerInv /\ PassInv
    OBVIOUS
  <2>1. LedgerInv
    BY DEF Init, LedgerInv, Ledgers, Awaiting
  <2>2. /\ cursor \in {0, Unplaced} /\ Len(log) \in Nat /\ DOMAIN log = 1..Len(log)
        /\ turn = "idle" /\ ~Reading
    <3>1. log \in [1..History -> {"text"}] /\ History \in Nat
      BY ConstantsAssumption DEF Init
    <3>2. log \in Seq({"text"})
      BY <3>1
    <3>3. Len(log) \in Nat /\ DOMAIN log = 1..Len(log)
      BY <3>2
    <3>4. cursor \in {0, Unplaced} /\ turn = "idle" /\ ~Reading
      BY DEF Init, Reading
    <3>q. QED
      BY <3>3, <3>4
  <2>3. cursor <= Len(log) /\ \A i \in DOMAIN log : ~(i <= cursor)
    BY <2>2 DEF Unplaced
  <2>q. QED
    BY <2>1, <2>2, <2>3 DEF PassInv, Begun
<1>2. TypeOK /\ LedgerInv /\ [Next]_vars => LedgerInv'
  BY LedgerInductive
<1>3. /\ TypeOK /\ TypeOK' /\ CountInv /\ StageInv /\ LedgerInv /\ PassInv /\ ReplayReaches
      /\ [Next]_vars
      => PassInv'
  BY PassInductive
<1>4. PassInv => NoSilentSkip
  BY DEF PassInv, Done, NoSilentSkip
<1>q. QED
  BY <1>1, <1>2, <1>3, <1>4, OnceInvariant, PTL DEF Spec

-----------------------------------------------------------------------------
(* StreamRoster: who catches a chat up.                                      *)

Tasks == {"none", "fetch", "drain", "idle", "turn"}

\* The part of the types the debts rest on.
TInv ==
    /\ exists \subseteq Chats /\ DOMAIN seen \subseteq Chats /\ owed \subseteq Chats
    /\ task \in [Chats -> Tasks]

\* A chat with a stream owes nothing to the watcher, which drains a chat of the
\* part of its debts that is still to be paid.
DInv ==
    /\ Active \intersect owed = {}
    /\ rest \subseteq owed
    /\ watcher = "drain" => rest # {}

LEMMA FirstOfRest ==
    ASSUME NEW S \in SUBSET Chats, S # {} PROVE FirstOf(S) \in S
<1> DEFINE Below == {1..c : c \in S}
<1>1. S \subseteq Nat
  BY RosterAssumption
<1>2. \A T \in Below : T \in SUBSET Nat /\ IsFiniteSet(T)
  BY <1>1, FS_Interval
<1>3. IsWellFoundedOn(StrictSubsetOrdering(Nat), FiniteSubsetsOf(Nat))
  BY FS_StrictSubsetOrderingWellFounded
<1>4. Below \subseteq FiniteSubsetsOf(Nat) /\ Below # {}
  BY <1>2 DEF FiniteSubsetsOf
<1>5. PICK T \in Below : \A U \in Below : ~(<<U, T>> \in StrictSubsetOrdering(Nat))
  BY <1>3, <1>4, WFMin
<1>6. PICK c \in S : T = 1..c
  OBVIOUS
<1>7. ASSUME NEW d \in S PROVE c <= d
  <2>1. CASE d < c
    <3>1. c \in Nat /\ d \in Nat /\ 1..d \in Below
      BY <1>1
    <3>2. 1..d \subseteq 1..c /\ c \in 1..c /\ c \notin 1..d
      BY <2>1, <3>1
    <3>3. 1..d \in SUBSET Nat /\ 1..c \in SUBSET Nat
      BY <3>1
    <3>4. <<1..d, 1..c>> \in StrictSubsetOrdering(Nat)
      BY <3>2, <3>3 DEF StrictSubsetOrdering
    <3> QED
      BY <1>5, <1>6, <3>1, <3>4
  <2> QED
    BY <1>1, <2>1
<1> QED
  BY <1>7 DEF FirstOf

\* A step that opens no stream, adds no debt and leaves the watcher where it is.
LEMMA NothingOpened ==
    ASSUME TInv, DInv, task' \in [Chats -> Tasks], Active' \subseteq Active,
           UNCHANGED watchVars, exists' \subseteq Chats
    PROVE  TInv' /\ DInv'
BY DEF TInv, DInv, watchVars

LEMMA ServeKeeps ==
    ASSUME TInv, DInv, NEW c \in Chats, Serve(c) PROVE TInv' /\ DInv'
<1>1. UNCHANGED <<watchVars, exists>>
  BY DEF Serve, Fetch, FastForward, FetchMissed, Drain, CatchUpTurn, Replies, Drained,
         TakeLive, TurnEnds, ReactionSeen, Lands, serverVars
<1>2. \/ UNCHANGED task
      \/ task[c] # "none" /\ \E s \in Tasks : task' = [task EXCEPT ![c] = s]
  BY DEF Serve, Fetch, Drain, Drained, TakeLive, TurnEnds, ReactionSeen, Tasks
<1>3. task' \in [Chats -> Tasks] /\ Active' \subseteq Active
  BY <1>2 DEF TInv, Active
<1> QED
  BY <1>1, <1>3, NothingOpened DEF TInv

\* A pass of the watcher pays a debt, or puts it off.
LEMMA PassKeeps ==
    ASSUME TInv, DInv, WatchFetch \/ WatchFails \/ WatchDrain \/ WatchDrained
    PROVE  TInv' /\ DInv'
<1>1. UNCHANGED <<task, seen, exists>>
  BY DEF WatchFetch, FastForward, FetchMissed, WatchFails, WatchDrain, CatchUpTurn, Replies,
         Lands, WatchDrained, serverVars, watchVars
<1>2. owed' \subseteq owed /\ rest' \subseteq rest
  BY DEF WatchFetch, WatchFails, WatchDrain, WatchDrained, watchVars
<1>3. rest' \subseteq owed'
  BY DEF DInv, WatchFetch, WatchFails, WatchDrain, WatchDrained, watchVars
<1>4. watcher' = "drain" => rest' = rest /\ rest # {}
  BY DEF DInv, WatchFetch, WatchFails, WatchDrain, WatchDrained, watchVars
<1> QED
  BY <1>1, <1>2, <1>3, <1>4 DEF TInv, DInv, Active

\* The boot and the listing: a stream is opened for a chat that is then not owed.
LEMMA PlanKeeps ==
    ASSUME TInv, DInv, BootList \/ BootPlan \/ List \/ ListFails \/ Roster
    PROVE  TInv' /\ DInv'
<1>1. CASE BootList \/ List
  <2>1. UNCHANGED <<task, owed, rest, exists>> /\ DOMAIN seen' \subseteq Chats
    BY <1>1 DEF BootList, List, Listing, serverVars, TInv
  <2> QED
    BY <1>1, <2>1 DEF BootList, List, TInv, DInv, Active
<1>2. CASE ListFails
  BY <1>2 DEF ListFails, serverVars, TInv, DInv, Active
<1>3. CASE BootPlan
  <2>1. \A c \in Chats : task'[c] = IF c \in Started(seen) THEN "fetch" ELSE "none"
    BY <1>3 DEF BootPlan
  <2>2. /\ task' \in [Chats -> Tasks] /\ owed' = DOMAIN seen \ Started(seen)
        /\ rest' = owed' /\ watcher' = "owed" /\ DOMAIN seen' = {} /\ UNCHANGED exists
    BY <1>3 DEF BootPlan, StartupDebt, NoListing, serverVars, Tasks
  <2>3. Active' \subseteq Started(seen)
    BY <2>1 DEF Active
  <2> QED
    BY <2>2, <2>3 DEF TInv, DInv
<1>4. CASE Roster
  <2>1. \A c \in Chats : task'[c] = CASE c \in Started(seen) -> "fetch"
                                      [] c \in Stopped(seen) -> "none"
                                      [] OTHER -> task[c]
    BY <1>4 DEF Roster
  <2>2. \A c \in Chats : task'[c] \in Tasks /\ (task'[c] # "none"
            => c \in Started(seen) \/ c \in Active)
    <3>1. Started(seen) \intersect Stopped(seen) = {}
      BY DEF Started, Stopped
    <3>2. \A c \in Chats : task[c] \in Tasks
      BY DEF TInv
    <3> QED
      BY <2>1, <3>1, <3>2 DEF Active, Tasks
  <2>3. task' \in [Chats -> Tasks]
    <3>1. \E f : task' = [c \in Chats |-> f[c]]
      BY <1>4 DEF Roster
    <3> QED
      BY <2>2, <3>1
  <2>4. Active' \subseteq Active \union Started(seen)
    BY <2>2 DEF Active
  <2>5. /\ owed' = owed \ Started(seen) /\ rest' = owed' /\ watcher' = "owed"
        /\ DOMAIN seen' = {} /\ UNCHANGED exists
    BY <1>4 DEF Roster, StillOwed, NoListing, serverVars
  <2> QED
    BY <2>3, <2>4, <2>5 DEF TInv, DInv
<1> QED
  BY <1>1, <1>2, <1>3, <1>4

LEMMA CrashKeeps == ASSUME TInv, DInv, ProcessEnds PROVE TInv' /\ DInv'
<1>1. Active' = {} /\ task' \in [Chats -> Tasks] /\ DOMAIN seen' = {}
  BY DEF ProcessEnds, Active, Tasks, NoListing
<1> QED
  BY <1>1 DEF ProcessEnds, serverVars, TInv, DInv

LEMMA PeopleKeep ==
    ASSUME TInv, DInv, NEW c \in Chats,
           HumanWrites(c) \/ HumanCreates(c) \/ HumanReacts(c) \/ ScheduledTurn(c)
    PROVE  TInv' /\ DInv'
<1>1. UNCHANGED <<task, watchVars>> /\ exists' \subseteq Chats
  BY DEF HumanWrites, HumanCreates, HumanReacts, ScheduledTurn, Lands, serverVars, TInv
<1> QED
  BY <1>1, NothingOpened DEF TInv, Active

LEMMA RosterStarts == RosterInit => TInv /\ DInv
<1> SUFFICES ASSUME RosterInit PROVE TInv /\ DInv
  OBVIOUS
<1> QED
  BY RosterAssumption DEF RosterInit, TInv, DInv, Active, Tasks

LEMMA RosterStep == TInv /\ DInv /\ [RosterNext]_rosterVars => TInv' /\ DInv'
<1> SUFFICES ASSUME TInv, DInv, [RosterNext]_rosterVars PROVE TInv' /\ DInv'
  OBVIOUS
<1>1. CASE UNCHANGED rosterVars
  BY <1>1, NothingOpened DEF rosterVars, watchVars, serverVars, TInv, Active
<1>2. CASE RosterNext
  BY <1>2, ServeKeeps, PassKeeps, PlanKeeps, CrashKeeps, PeopleKeep DEF RosterNext, Watch, Environment
<1> QED
  BY <1>1, <1>2

\* A chat whose stream is up is not caught up by the watcher too, which would take
\* the same messages a second time, whenever the roster wakes it.
THEOREM OneCatchUpEach == RosterSpec => []OneCatchUp
<1>1. TInv /\ DInv => OneCatchUp
  <2> SUFFICES ASSUME TInv, DInv, NEW c \in Active
               PROVE  c \notin owed /\ (watcher = "drain" => c # FirstOf(rest))
    BY DEF OneCatchUp
  <2>1. c \notin owed
    BY DEF DInv
  <2>2. watcher = "drain" => FirstOf(rest) \in owed
    BY FirstOfRest DEF TInv, DInv
  <2> QED
    BY <2>1, <2>2
<1> QED
  BY <1>1, RosterStarts, RosterStep, PTL DEF RosterSpec

-----------------------------------------------------------------------------
(* The promise made to a chat that was discovered live. *)

\* A chat that live discovery has adopted has a position, which a first run lacks.
AInv == adopted \subseteq placed

\* No step takes a position back, and only a first run adds to what was skipped.
PlacesKept ==
    /\ placed \subseteq placed'
    /\ adopted' \ adopted \subseteq placed'
    /\ skipped' \ skipped \subseteq Chats \ placed

LEMMA FastForwardKeeps ==
    ASSUME NEW c \in Chats, FastForward(c), UNCHANGED adopted PROVE PlacesKept
BY DEF FastForward, PlacesKept

LEMMA ServeKeepsPlaces == ASSUME NEW c \in Chats, Serve(c) PROVE PlacesKept
<1>1. CASE Fetch(c)
  BY <1>1, FastForwardKeeps DEF Fetch, FetchMissed, PlacesKept
<1>2. CASE Drain(c) \/ Drained(c) \/ TakeLive(c) \/ TurnEnds(c) \/ ReactionSeen(c)
  BY <1>2 DEF Drain, CatchUpTurn, Drained, TakeLive, TurnEnds, ReactionSeen, PlacesKept
<1> QED
  BY <1>1, <1>2 DEF Serve

LEMMA WatchKeepsPlaces == ASSUME TInv, DInv, Watch \/ WatchFails \/ ListFails PROVE PlacesKept
<1>1. CASE WatchFetch
  <2>1. FirstOf(rest) \in Chats
    BY <1>1, FirstOfRest DEF WatchFetch, TInv, DInv
  <2> QED
    BY <1>1, <2>1, FastForwardKeeps DEF WatchFetch, FetchMissed, PlacesKept
<1>2. CASE WatchDrain \/ WatchDrained \/ List \/ Roster \/ WatchFails \/ ListFails
  BY <1>2 DEF WatchDrain, CatchUpTurn, WatchDrained, List, Roster, Adopt, WatchFails,
              ListFails, PlacesKept
<1> QED
  BY <1>1, <1>2 DEF Watch

LEMMA EachStepKeeps == ASSUME TInv, DInv, [RosterNext]_rosterVars PROVE PlacesKept
<1>1. CASE UNCHANGED rosterVars
  BY <1>1 DEF rosterVars, PlacesKept
<1>2. CASE BootList \/ BootPlan \/ ProcessEnds
  BY <1>2 DEF BootList, BootPlan, ProcessEnds, PlacesKept
<1>3. ASSUME NEW c \in Chats,
             HumanWrites(c) \/ HumanCreates(c) \/ HumanReacts(c) \/ ScheduledTurn(c)
      PROVE  PlacesKept
  BY <1>3 DEF HumanWrites, HumanCreates, HumanReacts, ScheduledTurn, PlacesKept
<1> QED
  BY <1>1, <1>2, <1>3, ServeKeepsPlaces, WatchKeepsPlaces DEF RosterNext, Environment

\* What a person writes into a new chat before the bot subscribes to it is not
\* taken for history, whatever crashes, failures and hibernations come between the
\* discovery and the catch-up, and however late that is.
THEOREM PromiseIsKept == RosterSpec => PromiseKept
<1>1. RosterInit => TInv /\ DInv /\ AInv
  BY RosterStarts DEF RosterInit, AInv
<1>2. TInv /\ DInv /\ AInv /\ [RosterNext]_rosterVars => (TInv /\ DInv /\ AInv)'
  BY RosterStep, EachStepKeeps DEF PlacesKept, AInv
<1>3. TInv /\ DInv /\ AInv /\ [RosterNext]_rosterVars
          => [\A c \in adopted : c \in skipped' => c \in skipped]_rosterVars
  BY EachStepKeeps DEF PlacesKept, AInv
<1> QED
  BY <1>1, <1>2, <1>3, PTL DEF RosterSpec, PromiseKept
=============================================================================
