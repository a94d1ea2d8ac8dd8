-------------------------- MODULE GraphStoreProofs --------------------------
(***************************************************************************)
(* Proofs about GraphStore, for any objects, callers and budgets, with and *)
(* without a turn lock: type correctness with the mutual exclusion of the  *)
(* write lock, that no link of the bot is lost to an overlapping write,    *)
(* and that the index never leads the space; under a turn lock, that no    *)
(* footer shows less than the links, that a resync reports no write of the *)
(* bot, and that the repository implements the port (GraphPort).           *)
(***************************************************************************)
EXTENDS GraphStore, TLAPS

Writing == {"update", "rewrite", "add", "remove", "create"}
Answers == UNION {[S -> Objects] : S \in SUBSET Nodes}
Ops == [kind : Writing \union {"none", "resync"}, node : Nodes \union {"none"},
        ends : SUBSET Nodes, targets : SUBSET Nodes, foot : SUBSET Nodes,
        answer : Answers, patched : Nat]
Stages == Holding \union {"idle", "wait", "fetched"}

ServerType == /\ clock \in Nat /\ store \in [Nodes -> Objects]
              /\ \A n \in Nodes : store[n].stamp <= clock
IndexType == /\ watermark \in 0..clock
             /\ index \in [Nodes -> [held : BOOLEAN, val : Nat, links : SUBSET Nodes]]
             /\ seen \in [Nodes -> 0..clock]
LockType == /\ lock \in Tasks \union {"free"} /\ stage \in [Tasks -> Stages]
            /\ \A t \in Tasks : stage[t] \in Holding <=> lock = t
OpType ==
    /\ op \in [Tasks -> Ops]
    /\ \A t \in Tasks :
        /\ op[t].patched <= clock
        /\ \A n \in DOMAIN op[t].answer : op[t].answer[n].stamp <= clock
        /\ stage[t] \in Holding \union {"wait"} =>
                op[t].kind \in Writing /\ op[t].node \in Nodes
        /\ stage[t] \in {"patch", "rollback"} => op[t].kind = "create"
LeftType == left \in [Events -> Nat]
HistoryType == touched \subseteq Nodes /\ due \in [Tasks -> SUBSET Nodes]
LinkType == inked \subseteq ever
            /\ ever \subseteq Nodes \X Nodes

TInv == /\ ServerType /\ IndexType /\ LockType /\ OpType /\ LeftType
        /\ HistoryType /\ LinkType

LEMMA SpendType ==
    ASSUME LeftType, NEW k \in Events, Spend(k) PROVE LeftType'
BY DEF LeftType, Spend, Events

LEMMA ChangeType ==
    ASSUME ServerType, NEW n \in Nodes, NEW object \in Objects, Change(n, object)
    PROVE  /\ ServerType' /\ clock <= clock'
           /\ store'[n] = [object EXCEPT !.stamp = clock']
           /\ \A m \in Nodes \ {n} : store'[m] = store[m]
           /\ ever' = ever \union LinksOf(n, object)
<1>1. clock' \in Nat /\ clock <= clock'
  BY DEF ServerType, Change, Later
<1>2. [object EXCEPT !.stamp = clock'] \in Objects
  BY <1>1 DEF Objects
<1>3. store' = [store EXCEPT ![n] = [object EXCEPT !.stamp = clock']]
  BY DEF Change
<1>4. \A m \in Nodes : store'[m].stamp <= clock'
  BY <1>1, <1>2, <1>3 DEF ServerType, Objects
<1> QED
  BY <1>1, <1>2, <1>3, <1>4 DEF ServerType, Change

\* Types that only look at the clock survive when it moves on.
LEMMA ClockGrows ==
    ASSUME ServerType, clock' \in Nat, clock <= clock'
    PROVE  /\ IndexType /\ UNCHANGED indexVars => IndexType'
           /\ OpType /\ UNCHANGED <<op, stage>> => OpType'
<1>1. ASSUME IndexType, UNCHANGED indexVars PROVE IndexType'
  BY <1>1 DEF ServerType, IndexType, indexVars
<1>2. ASSUME OpType, UNCHANGED <<op, stage>> PROVE OpType'
  <2>1. \A t \in Tasks : op[t].patched \in Nat
    BY <1>2 DEF OpType, Ops
  <2>2. ASSUME NEW t \in Tasks, NEW n \in DOMAIN op[t].answer
        PROVE  op[t].answer[n].stamp \in Nat
    BY <1>2 DEF OpType, Ops, Answers, Objects
  <2> QED
    BY <1>2, <2>1, <2>2 DEF OpType, ServerType
<1> QED
  BY <1>1, <1>2

LEMMA NoOpType == NoOp \in Ops /\ NoOp.patched = 0 /\ DOMAIN NoOp.answer = {}
<1>1. [n \in {} |-> NoObject] \in [{} -> Objects]
  OBVIOUS
<1> QED
  BY <1>1 DEF NoOp, Ops, Answers
LEMMA LiveType ==
    ASSUME NEW object \in Objects, NEW b \in BOOLEAN
    PROVE  [object EXCEPT !.live = b] \in Objects
BY DEF Objects

LEMMA InitType == Init => TInv
<1> SUFFICES ASSUME Init PROVE TInv
  OBVIOUS
<1> USE ConstantsAssumption
<1>1. NoObject \in Objects /\ Found \in Objects /\ NoObject.stamp = 0 /\ Found.stamp = 1
  BY DEF NoObject, Found, Objects
<1>2. ServerType
  BY <1>1 DEF Init, ServerType
<1>3. IndexType
  BY DEF Init, IndexType
<1>4. LockType
  BY DEF Init, LockType, Stages, Holding
<1>5. OpType
  BY NoOpType DEF Init, OpType, Holding
<1> QED
  BY <1>2, <1>3, <1>4, <1>5 DEF Init, TInv, LeftType, HistoryType, LinkType

(***************************************************************************)
(* Steps that change the store.                                            *)
(***************************************************************************)
LEMMA EverType ==
    ASSUME ServerType, LinkType, NEW n \in Nodes, NEW object \in Objects,
           Change(n, object)
    PROVE  ever \subseteq ever' /\ ever' \subseteq Nodes \X Nodes
BY DEF Change, LinkType, LinksOf, Objects

LEMMA PersonType ==
    ASSUME TInv, NEW n \in Nodes, NEW object \in Objects, Change(n, object),
           Spend("person"), UNCHANGED <<indexVars, callVars, due>>,
           touched' = touched \union {n}, inked' \subseteq ever'
    PROVE  TInv'
<1>1. ServerType' /\ clock' \in Nat /\ clock <= clock'
  BY ChangeType DEF TInv, ServerType
<1>2. IndexType' /\ OpType'
  BY <1>1, ClockGrows DEF TInv, callVars
<1>3. LockType' /\ HistoryType'
  BY DEF TInv, LockType, HistoryType, callVars
<1>4. LeftType'
  BY SpendType DEF TInv, Events
<1>5. LinkType'
  BY EverType DEF TInv, LinkType
<1> QED
  BY <1>1, <1>2, <1>3, <1>4, <1>5 DEF TInv

LEMMA PeopleType == ASSUME TInv, People PROVE TInv'
<1>1. ASSUME NEW n \in Nodes, PersonEdits(n) PROVE TInv'
  <2>1. [store[n] EXCEPT !.val = @ + 1] \in Objects
    BY DEF TInv, ServerType, Objects
  <2> QED
    BY <1>1, <2>1, PersonType, EverType DEF PersonEdits, TInv, LinkType
<1>2. ASSUME NEW n \in Nodes, PersonCreates(n) PROVE TInv'
  <2>1. Found \in Objects
    BY DEF Found, NoObject, Objects
  <2> QED
    BY <1>2, <2>1, PersonType, EverType DEF PersonCreates, TInv, LinkType
<1>3. ASSUME NEW n \in Nodes, PersonDeletes(n) PROVE TInv'
  <2> DEFINE gone == [store[n] EXCEPT !.live = FALSE]
  <2>d. store[n] \in Objects
    BY DEF TInv, ServerType
  <2>a. gone \in Objects
    BY <2>d, LiveType
  <2>c. gone.stamp = store[n].stamp
    BY DEF TInv, ServerType, Objects
  <2>b. store' = [store EXCEPT ![n] = gone] /\ UNCHANGED clock
    BY <1>3 DEF PersonDeletes
  <2> HIDE DEF gone
  <2>1. ServerType'
    BY <2>a, <2>b, <2>c DEF TInv, ServerType
  <2>2. IndexType' /\ LockType' /\ OpType' /\ HistoryType'
    BY <1>3 DEF PersonDeletes, TInv, IndexType, LockType, OpType, HistoryType,
                indexVars, callVars, outsideVars
  <2>3. LeftType' /\ LinkType'
    BY <1>3, SpendType DEF PersonDeletes, TInv, LinkType, Events
  <2> QED
    BY <2>1, <2>2, <2>3 DEF TInv
<1>4. ASSUME NEW n \in Nodes, NEW m \in Nodes, PersonLinks(n, m) PROVE TInv'
  <2> DEFINE object == [store[n] EXCEPT !.links = @ \union {m}]
  <2>1. object \in Objects /\ m \in object.links
    BY DEF TInv, ServerType, Objects
  <2>2. <<n, m>> \in ever' /\ ever \subseteq ever'
    BY <1>4, <2>1, EverType DEF PersonLinks, Change, LinksOf, TInv
  <2> QED
    BY <1>4, <2>1, <2>2, PersonType DEF PersonLinks, TInv, LinkType
<1>5. ASSUME NEW n \in Nodes, NEW m \in Nodes, PersonUnlinks(n, m) PROVE TInv'
  <2>1. [store[n] EXCEPT !.links = @ \ {m}] \in Objects
    BY DEF TInv, ServerType, Objects
  <2> QED
    BY <1>5, <2>1, PersonType, EverType DEF PersonUnlinks, TInv, LinkType
<1> QED
  BY <1>1, <1>2, <1>3, <1>4, <1>5 DEF People

(***************************************************************************)
(* Steps of a caller.                                                      *)
(***************************************************************************)
\* A step of caller t that leaves the server and the index alone.
LEMMA QuietType ==
    ASSUME TInv, UNCHANGED <<clock, store, indexVars, inked, ever>>
    PROVE  ServerType' /\ IndexType' /\ LinkType'
BY DEF TInv, ServerType, IndexType, LinkType, indexVars

\* A step that gives caller t another operation, as of the clock after it.
LEMMA OpStep ==
    ASSUME TInv, ServerType', clock <= clock', NEW t \in Tasks,
           NEW o \in Ops, NEW s \in Stages,
           op' = [op EXCEPT ![t] = o], Goes(t, s),
           o.patched <= clock', \A n \in DOMAIN o.answer : o.answer[n].stamp <= clock',
           s \in Holding \union {"wait"} => o.kind \in Writing /\ o.node \in Nodes,
           s \in {"patch", "rollback"} => o.kind = "create"
    PROVE  OpType'
<1>1. op' \in [Tasks -> Ops] /\ op'[t] = o /\ stage'[t] = s
  BY DEF TInv, OpType, LockType, Goes
<1>2. ASSUME NEW u \in Tasks \ {t} PROVE op'[u] = op[u] /\ stage'[u] = stage[u]
  BY DEF TInv, OpType, LockType, Goes
<1>3. ASSUME NEW u \in Tasks \ {t}
      PROVE  /\ op[u].patched <= clock'
             /\ \A n \in DOMAIN op[u].answer : op[u].answer[n].stamp <= clock'
  <2>1. op[u].patched \in Nat
    BY DEF TInv, OpType, Ops
  <2>2. ASSUME NEW n \in DOMAIN op[u].answer PROVE op[u].answer[n].stamp \in Nat
    BY DEF TInv, OpType, Ops, Answers, Objects
  <2> QED
    BY <2>1, <2>2 DEF TInv, OpType, ServerType
<1> QED
  BY <1>1, <1>2, <1>3 DEF TInv, OpType

LEMMA CallType ==
    ASSUME TInv, NEW t \in Tasks, NEW kind \in Writing, NEW n \in Nodes,
           NEW ends \in SUBSET Nodes, NEW foot \in SUBSET Nodes,
           Call(t, kind, n, ends, foot)
    PROVE  TInv'
<1> DEFINE o == [NoOp EXCEPT !.kind = kind, !.node = n, !.ends = ends, !.foot = foot]
<1>1. o \in Ops /\ o.patched = 0 /\ DOMAIN o.answer = {} /\ o.kind = kind /\ o.node = n
  BY NoOpType DEF Ops
<1>2. op' = [op EXCEPT ![t] = o] /\ Goes(t, "wait")
  BY DEF Call, Goes
<1> HIDE DEF o
<1>3. ServerType' /\ IndexType' /\ LinkType'
  BY QuietType DEF Call
<1>4. OpType'
  <2>1. clock' = clock /\ clock \in Nat
    BY DEF Call, TInv, ServerType
  <2>2. clock <= clock' /\ o.patched <= clock'
    BY <1>1, <2>1
  <2>3. "wait" \in Stages /\ "wait" \notin {"patch", "rollback"}
    BY DEF Stages
  <2> QED
    BY <1>1, <1>2, <1>3, <2>2, <2>3, OpStep
<1>5. LockType'
  BY DEF Call, MayCall, TInv, LockType, Stages, Holding
<1>6. LeftType' /\ HistoryType'
  BY SpendType DEF Call, TInv, HistoryType, outsideVars, Events
<1> QED
  BY <1>3, <1>4, <1>5, <1>6 DEF TInv

LEMMA StartType ==
    ASSUME TInv, NEW t \in Tasks,
           UpdateNode(t) \/ AddLink(t) \/ RemoveLink(t) \/ CreateNode(t)
    PROVE  TInv'
<1>1. Held \subseteq Nodes /\ \A n \in Nodes : index[n].links \in SUBSET Nodes
  BY DEF Held, TInv, IndexType
<1>2. CASE UpdateNode(t)
  BY <1>1, <1>2, CallType DEF UpdateNode, Writing
<1>3. CASE AddLink(t)
  BY <1>1, <1>3, CallType DEF AddLink, Writing
<1>4. CASE RemoveLink(t)
  BY <1>1, <1>4, CallType DEF RemoveLink, Writing
<1>5. CASE CreateNode(t)
  BY <1>1, <1>5, CallType DEF CreateNode, Writing
<1> QED
  BY <1>2, <1>3, <1>4, <1>5

LEMMA LockStep ==
    ASSUME LockType, NEW t \in Tasks, NEW s \in Stages, Goes(t, s),
           \/ lock' = lock /\ (s \in Holding <=> stage[t] \in Holding)
           \/ lock = "free" /\ lock' = t /\ s \in Holding
           \/ stage[t] \in Holding /\ lock' = "free" /\ s \notin Holding
    PROVE  LockType'
BY ConstantsAssumption DEF LockType, Goes

LEMMA OldOp ==
    ASSUME TInv, NEW t \in Tasks
    PROVE  /\ op[t] \in Ops /\ op[t].patched <= clock
           /\ \A n \in DOMAIN op[t].answer :
                /\ n \in Nodes /\ op[t].answer[n] \in Objects
                /\ op[t].answer[n].stamp <= clock
           /\ stage[t] \in Holding \union {"wait"} =>
                op[t].kind \in Writing /\ op[t].node \in Nodes
           /\ stage[t] \in {"patch", "rollback"} => op[t].kind = "create"
           /\ op = [op EXCEPT ![t] = op[t]]
BY DEF TInv, OpType, Ops, Answers

LEMMA EndStep ==
    ASSUME TInv, ServerType', clock <= clock', NEW t \in Tasks, Ends(t),
           \/ stage[t] \in Holding /\ lock' = "free"
           \/ stage[t] \notin Holding /\ lock' = lock
    PROVE  OpType' /\ LockType'
<1>1. "idle" \in Stages /\ "idle" \notin Holding \union {"wait", "patch", "rollback"}
  BY DEF Stages, Holding
<1>2. NoOp.patched <= clock'
  BY NoOpType DEF ServerType
<1>3. op' = [op EXCEPT ![t] = NoOp] /\ Goes(t, "idle")
  BY DEF Ends
<1>4. OpType'
  BY <1>1, <1>2, <1>3, NoOpType, OpStep
<1>5. LockType'
  BY <1>1, <1>3, LockStep DEF TInv
<1> QED
  BY <1>4, <1>5

LEMMA EnterType == ASSUME TInv, NEW t \in Tasks, Enter(t) PROVE TInv'
<1>1. ServerType' /\ IndexType' /\ LinkType' /\ clock <= clock' /\ clock' = clock
  BY QuietType DEF Enter, TInv, ServerType
<1>2. "send" \in Stages /\ "send" \in Holding /\ "send" \notin {"patch", "rollback"}
  BY DEF Stages, Holding
<1>3. Goes(t, "send") /\ op' = [op EXCEPT ![t] = op[t]] /\ stage[t] = "wait"
  BY OldOp DEF Enter
<1>4. OpType'
  BY <1>1, <1>2, <1>3, OldOp, OpStep
<1>5. LockType'
  BY <1>2, LockStep DEF Enter, LockFree, TInv
<1>6. LeftType' /\ HistoryType'
  BY DEF Enter, TInv, LeftType, HistoryType, outsideVars
<1> QED
  BY <1>1, <1>4, <1>5, <1>6 DEF TInv

LEMMA ReadType == ASSUME TInv, NEW t \in Tasks, Read(t) PROVE TInv'
<1> DEFINE o == [op[t] EXCEPT !.targets = store[op[t].node].links, !.foot = Footer(op[t])]
           s == IF op[t].kind = "add" /\ op[t].ends \subseteq o.targets
                THEN "sent" ELSE "send"
<1>1. ServerType' /\ IndexType' /\ LinkType' /\ clock <= clock' /\ clock' = clock
  BY QuietType DEF Read, TInv, ServerType
<1>2. op[t] \in Ops /\ op[t].node \in Nodes
  BY OldOp DEF Read
<1>3. store[op[t].node].links \in SUBSET Nodes /\ Footer(op[t]) \in SUBSET Nodes
  BY <1>2 DEF TInv, ServerType, IndexType, Objects, Footer, Ops
<1>4. /\ o \in Ops /\ o.patched = op[t].patched /\ o.answer = op[t].answer
      /\ o.kind = op[t].kind /\ o.node = op[t].node
  BY <1>2, <1>3 DEF Ops
<1>5. op' = [op EXCEPT ![t] = o]
  BY DEF Read, TInv, OpType
<1>6. Goes(t, s)
  BY <1>5 DEF Read, TInv, OpType
<1>7. s \in Stages /\ s \in Holding /\ s \notin {"patch", "rollback"}
  BY DEF Stages, Holding
<1> HIDE DEF o, s
<1>8. OpType'
  <2>1. o.kind \in Writing /\ o.node \in Nodes
    BY <1>4, OldOp DEF Read
  <2>2. o.patched <= clock' /\ \A n \in DOMAIN o.answer : o.answer[n].stamp <= clock'
    BY <1>1, <1>4, OldOp
  <2> QED
    BY <1>1, <1>4, <1>5, <1>6, <1>7, <2>1, <2>2, OpStep
<1>9. LockType'
  BY <1>6, <1>7, LockStep DEF Read, LockFree, TInv
<1>10. LeftType' /\ HistoryType'
  BY DEF Read, TInv, LeftType, HistoryType, outsideVars
<1> QED
  BY <1>1, <1>8, <1>9, <1>10 DEF TInv

LEMMA ReadFailsType == ASSUME TInv, NEW t \in Tasks, ReadFails(t) PROVE TInv'
<1>1. ServerType' /\ IndexType' /\ LinkType' /\ clock <= clock'
  BY QuietType DEF ReadFails, TInv, ServerType
<1>2. OpType' /\ LockType'
  BY <1>1, EndStep DEF ReadFails, Holding
<1>3. LeftType' /\ HistoryType'
  BY DEF ReadFails, TInv, LeftType, HistoryType, outsideVars
<1> QED
  BY <1>1, <1>2, <1>3 DEF TInv

LEMMA WrittenType ==
    ASSUME ServerType, NEW o \in Ops, o.kind \in Writing, o.node \in Nodes
    PROVE  /\ Written(o) \in Objects
           /\ o.kind = "add" => Written(o).links = o.targets \union o.ends
           /\ o.kind = "remove" => Written(o).links = o.targets \ o.ends
           /\ o.kind \in {"update", "rewrite"} => Written(o).links = store[o.node].links
           /\ o.kind = "create" => Written(o).links = {} /\ Written(o).live
           /\ o.kind # "create" => /\ Written(o).live = store[o.node].live
                                   /\ store[o.node].val <= Written(o).val
<1> DEFINE object == store[o.node]
<1>1. object \in Objects
  BY DEF ServerType
<1>2. o.targets \subseteq Nodes /\ o.ends \subseteq Nodes /\ o.foot \subseteq Nodes
  BY DEF Ops
<1> HIDE DEF object
<1>3. CASE o.kind = "update"
  <2>1. Written(o) = [object EXCEPT !.val = @ + 1]
    BY <1>3 DEF Written, object
  <2> QED
    BY <1>1, <1>3, <2>1 DEF Objects, object
<1>4. CASE o.kind = "rewrite"
  <2>1. Written(o) = [object EXCEPT !.val = @ + 1, !.foot = o.foot]
    BY <1>4 DEF Written, object
  <2>2. object.val + 1 \in Nat
    BY <1>1 DEF Objects
  <2>3. Written(o) \in Objects
    BY <1>1, <1>2, <2>1, <2>2 DEF Objects
  <2>4. /\ Written(o).links = object.links /\ Written(o).live = object.live
        /\ object.val <= Written(o).val
    BY <1>1, <2>1 DEF Objects
  <2> QED
    BY <1>4, <2>3, <2>4 DEF object
<1>5. CASE o.kind = "add"
  <2>1. Written(o) = [object EXCEPT !.links = o.targets \union o.ends, !.foot = o.foot]
    BY <1>5 DEF Written, object
  <2>2. Written(o) \in Objects /\ Written(o).links = o.targets \union o.ends
    BY <1>1, <1>2, <2>1 DEF Objects
  <2>3. Written(o).live = object.live /\ object.val <= Written(o).val
    BY <1>1, <2>1 DEF Objects
  <2> QED
    BY <1>5, <2>2, <2>3 DEF object
<1>6. CASE o.kind = "remove"
  <2>1. Written(o) = [object EXCEPT !.links = o.targets \ o.ends, !.foot = o.foot]
    BY <1>6 DEF Written, object
  <2>2. Written(o) \in Objects /\ Written(o).links = o.targets \ o.ends
    BY <1>1, <1>2, <2>1 DEF Objects
  <2>3. Written(o).live = object.live /\ object.val <= Written(o).val
    BY <1>1, <2>1 DEF Objects
  <2> QED
    BY <1>6, <2>2, <2>3 DEF object
<1>7. CASE o.kind = "create"
  <2>1. Written(o) = [live |-> TRUE, val |-> 1, links |-> {}, foot |-> {}, stamp |-> 0]
    BY <1>7 DEF Written, NoObject
  <2> QED
    BY <1>7, <2>1 DEF Objects
<1> QED
  BY <1>3, <1>4, <1>5, <1>6, <1>7 DEF Writing

\* The links a write makes are among those the space has held.
LEMMA LinksType ==
    ASSUME TInv, NEW o \in Ops, o.kind \in Writing, o.node \in Nodes,
           Change(o.node, Written(o)), NEW known \in BOOLEAN, Links(o, known)
    PROVE  LinkType'
<1>1. Written(o) \in Objects
  BY WrittenType DEF TInv
<1>2. ever' = ever \union LinksOf(o.node, Written(o)) /\ ever' \subseteq Nodes \X Nodes
  BY <1>1, ChangeType, EverType DEF TInv
<1>3. CASE o.kind = "add" /\ known
  <2>1. Edges(o) \subseteq LinksOf(o.node, Written(o))
    BY <1>3, WrittenType DEF Edges, LinksOf, TInv
  <2> QED
    BY <1>2, <1>3, <2>1 DEF Links, TInv, LinkType
<1>4. CASE ~(o.kind = "add" /\ known)
  BY <1>2, <1>4 DEF Links, TInv, LinkType
<1> QED
  BY <1>3, <1>4

LEMMA LandsType == ASSUME TInv, NEW t \in Tasks, Lands(t) PROVE TInv'
<1> DEFINE n == op[t].node
           a == [m \in {n} |-> store'[m]]
           o == [op[t] EXCEPT !.answer = a]
           s == IF op[t].kind = "create" /\ op[t].ends # {} THEN "patch" ELSE "sent"
<1>1. op[t] \in Ops /\ op[t].kind \in Writing /\ n \in Nodes /\ op[t].patched <= clock
  BY OldOp DEF Lands, Holding
<1>2. Change(n, Written(op[t])) /\ Links(op[t], TRUE) /\ stage[t] = "send"
  BY DEF Lands
<1>3. ServerType' /\ clock <= clock' /\ clock \in Nat /\ clock' \in Nat
  BY <1>1, <1>2, WrittenType, ChangeType DEF TInv, ServerType
<1>4. a \in Answers /\ DOMAIN a = {n} /\ a[n] = store'[n]
  <2>1. a \in [{n} -> Objects] /\ {n} \in SUBSET Nodes
    BY <1>1, <1>3 DEF ServerType
  <2> QED
    BY <2>1 DEF Answers
<1> HIDE DEF a
<1>5. o \in Ops /\ o.patched = op[t].patched /\ o.answer = a /\ o.kind = op[t].kind /\ o.node = n
  BY <1>1, <1>4 DEF Ops
<1>6. op' = [op EXCEPT ![t] = o] /\ Goes(t, s)
  BY DEF Lands, TInv, OpType, a
<1>7. s \in Stages /\ s \in Holding /\ (s \in {"patch", "rollback"} => o.kind = "create")
  BY <1>5 DEF Stages, Holding
<1>8. o.patched <= clock'
  BY <1>1, <1>3, <1>5 DEF Ops
<1>9. \A m \in DOMAIN o.answer : o.answer[m].stamp <= clock'
  BY <1>1, <1>3, <1>4, <1>5 DEF ServerType
<1> HIDE DEF o, s
<1>10. OpType'
  BY <1>1, <1>3, <1>5, <1>6, <1>7, <1>8, <1>9, OpStep
<1>11. LockType'
  BY <1>2, <1>6, <1>7, LockStep DEF Lands, TInv, Holding
<1>12. IndexType'
  BY <1>3, ClockGrows DEF Lands, TInv
<1>13. LinkType'
  BY <1>1, <1>2, LinksType
<1>14. LeftType' /\ HistoryType'
  BY DEF Lands, TInv, LeftType, HistoryType, outsideVars
<1> QED
  BY <1>3, <1>10, <1>11, <1>12, <1>13, <1>14 DEF TInv

\* The object as the second write of a composite create makes it.
LEMMA PatchedType ==
    ASSUME ServerType, NEW o \in Ops, o.node \in Nodes
    PROVE  /\ [store[o.node] EXCEPT !.links = o.ends, !.foot = o.ends] \in Objects
           /\ [store[o.node] EXCEPT !.links = o.ends, !.foot = o.ends].links = o.ends
           /\ [store[o.node] EXCEPT !.links = o.ends, !.foot = o.ends].val = store[o.node].val
           /\ [store[o.node] EXCEPT !.links = o.ends, !.foot = o.ends].live = store[o.node].live
<1> DEFINE object == store[o.node]
           new == [object EXCEPT !.links = o.ends, !.foot = o.ends]
<1>1. object \in Objects /\ o.ends \subseteq Nodes
  BY DEF ServerType, Ops
<1> HIDE DEF object
<1>2. new \in Objects
  BY <1>1 DEF Objects
<1>3. new.links = o.ends /\ new.val = object.val /\ new.live = object.live
  BY <1>1 DEF Objects
<1> QED
  BY <1>2, <1>3 DEF object

LEMMA PatchLandsType == ASSUME TInv, NEW t \in Tasks, PatchLands(t) PROVE TInv'
<1> DEFINE n == op[t].node
           new == [store[n] EXCEPT !.links = op[t].ends, !.foot = op[t].ends]
           o == [op[t] EXCEPT !.patched = clock']
<1>1. op[t] \in Ops /\ op[t].kind = "create" /\ n \in Nodes /\ stage[t] = "patch"
  BY OldOp DEF PatchLands, Holding
<1>2. new \in Objects /\ new.links = op[t].ends
  BY <1>1, PatchedType DEF TInv
<1>3. Change(n, new)
  BY DEF PatchLands
<1> HIDE DEF new
<1>4. ServerType' /\ clock <= clock' /\ clock \in Nat /\ clock' \in Nat
  BY <1>1, <1>2, <1>3, ChangeType DEF TInv, ServerType
<1>5. /\ o \in Ops /\ o.patched = clock' /\ o.answer = op[t].answer
      /\ o.kind = op[t].kind /\ o.node = n
  BY <1>1, <1>4 DEF Ops
<1>6. op' = [op EXCEPT ![t] = o] /\ Goes(t, "sent")
  BY DEF PatchLands, TInv, OpType
<1>7. "sent" \in Stages /\ "sent" \in Holding /\ "sent" \notin {"patch", "rollback"}
  BY DEF Stages, Holding
<1>8. o.kind \in Writing /\ o.patched <= clock'
  BY <1>1, <1>4, <1>5 DEF Writing
<1>9. \A m \in DOMAIN o.answer : o.answer[m].stamp <= clock'
  BY <1>4, <1>5, OldOp DEF Objects
<1> HIDE DEF o
<1>10. OpType'
  BY <1>1, <1>4, <1>5, <1>6, <1>7, <1>8, <1>9, OpStep
<1>11. LockType'
  BY <1>1, <1>6, <1>7, LockStep DEF PatchLands, TInv, Holding
<1>12. IndexType'
  BY <1>4, ClockGrows DEF PatchLands, TInv
<1>13. LinkType'
  <2>1. ever' = ever \union LinksOf(n, new) /\ ever' \subseteq Nodes \X Nodes
    BY <1>1, <1>2, <1>3, ChangeType, EverType DEF TInv
  <2>2. Edges(op[t]) \subseteq LinksOf(n, new)
    BY <1>2 DEF Edges, LinksOf
  <2> QED
    BY <2>1, <2>2 DEF PatchLands, TInv, LinkType
<1>14. LeftType' /\ HistoryType'
  BY DEF PatchLands, TInv, LeftType, HistoryType, outsideVars
<1> QED
  BY <1>4, <1>10, <1>11, <1>12, <1>13, <1>14 DEF TInv

LEMMA NewestType ==
    ASSUME ServerType, NEW o \in Ops, NEW n \in DOMAIN o.answer, o.node = n, o.patched <= clock,
           o.answer[n].stamp \in Nat, o.answer[n].stamp <= clock, NEW s \in 0..clock
    PROVE  NewestStamp(o, s) \in 0..clock
BY DEF ServerType, NewestStamp, Larger, Ops

LEMMA ReturnsType == ASSUME TInv, NEW t \in Tasks, Returns(t) PROVE TInv'
<1> DEFINE o == op[t]
           n == op[t].node
<1>1. o \in Ops /\ n \in Nodes /\ stage[t] = "sent" /\ stage[t] \in Holding /\ o.patched <= clock
  BY OldOp DEF Returns, Holding
<1>2. ServerType' /\ LinkType' /\ LeftType' /\ HistoryType' /\ clock <= clock' /\ clock' = clock
  BY DEF Returns, TInv, ServerType, LinkType, LeftType, HistoryType, outsideVars
<1>3. OpType' /\ LockType'
  BY <1>1, <1>2, EndStep DEF Returns
<1>4. ASSUME n \in DOMAIN o.answer
      PROVE  o.answer[n] \in Objects /\ o.answer[n].stamp \in Nat /\ o.answer[n].stamp <= clock
  BY <1>4, OldOp DEF Objects
<1>5. index' \in [Nodes -> [held : BOOLEAN, val : Nat, links : SUBSET Nodes]]
  <2> DEFINE entry == [held |-> TRUE,
                       val |-> IF n \in DOMAIN o.answer THEN o.answer[n].val ELSE index[n].val,
                       links |-> IF o.kind = "remove" THEN index[n].links \ o.ends
                                                      ELSE index[n].links \union o.ends]
  <2>1. index' = [index EXCEPT ![n] = entry]
    BY DEF Returns
  <2>2. index[n].val \in Nat /\ index[n].links \subseteq Nodes /\ o.ends \subseteq Nodes
    BY <1>1 DEF TInv, IndexType, Ops
  <2>3. (IF n \in DOMAIN o.answer THEN o.answer[n].val ELSE index[n].val) \in Nat
    BY <1>4, <2>2 DEF Objects
  <2>4. entry \in [held : BOOLEAN, val : Nat, links : SUBSET Nodes]
    BY <2>2, <2>3
  <2> HIDE DEF entry
  <2> QED
    BY <2>1, <2>4 DEF TInv, IndexType
<1>6. seen' \in [Nodes -> 0..clock] /\ watermark' \in 0..clock
  <2>1. CASE n \in DOMAIN o.answer
    <3>1. /\ seen' = [seen EXCEPT ![n] = NewestStamp(o, seen[n])]
          /\ watermark' = Larger(watermark, NewestStamp(o, 0))
      BY <2>1 DEF Returns
    <3>2. 0 \in 0..clock /\ seen[n] \in 0..clock /\ watermark \in 0..clock
      BY <1>1 DEF TInv, IndexType, ServerType
    <3>3. NewestStamp(o, seen[n]) \in 0..clock /\ NewestStamp(o, 0) \in 0..clock
      BY <1>1, <1>4, <2>1, <3>2, NewestType DEF TInv
    <3> QED
      BY <3>1, <3>2, <3>3 DEF TInv, IndexType, Larger
  <2>2. CASE n \notin DOMAIN o.answer
    BY <2>2 DEF Returns, TInv, IndexType
  <2> QED
    BY <2>1, <2>2
<1> QED
  BY <1>2, <1>3, <1>5, <1>6 DEF TInv, IndexType

LEMMA FailsType == ASSUME TInv, NEW t \in Tasks, Fails(t) PROVE TInv'
<1> DEFINE o == op[t]
<1>1. o \in Ops /\ o.kind \in Writing /\ o.node \in Nodes
  BY OldOp DEF Fails, Holding
<1>2. stage[t] \in Holding /\ Ends(t) /\ lock' = "free" /\ UNCHANGED <<indexVars, due>>
  BY DEF Fails, Holding
<1>3. CASE UNCHANGED <<clock, store, touched, inked, ever>> /\ (UNCHANGED left \/ Spend("net"))
  <2>1. ServerType' /\ IndexType' /\ LinkType' /\ clock <= clock'
    BY <1>2, <1>3, QuietType DEF TInv, ServerType
  <2>2. OpType' /\ LockType'
    BY <1>2, <2>1, EndStep
  <2>3. LeftType' /\ HistoryType'
    BY <1>2, <1>3, SpendType DEF TInv, LeftType, HistoryType, Events
  <2> QED
    BY <2>1, <2>2, <2>3 DEF TInv
<1>4. CASE /\ Spend("net") /\ Change(o.node, Written(o)) /\ Links(o, FALSE)
           /\ touched' = touched \union {o.node}
  <2>1. ServerType' /\ clock' \in Nat /\ clock <= clock'
    BY <1>1, <1>4, WrittenType, ChangeType DEF TInv, ServerType
  <2>2. IndexType'
    BY <1>2, <2>1, ClockGrows DEF TInv
  <2>3. OpType' /\ LockType'
    BY <1>2, <2>1, EndStep
  <2>4. LinkType'
    BY <1>1, <1>4, LinksType
  <2>5. LeftType' /\ HistoryType'
    BY <1>1, <1>2, <1>4, SpendType DEF TInv, HistoryType, Events
  <2> QED
    BY <2>1, <2>2, <2>3, <2>4, <2>5 DEF TInv
<1> QED
  BY <1>3, <1>4 DEF Fails

LEMMA PatchFailsType == ASSUME TInv, NEW t \in Tasks, PatchFails(t) PROVE TInv'
<1> DEFINE n == op[t].node
           new == [store[n] EXCEPT !.links = op[t].ends, !.foot = op[t].ends]
<1>1. op[t] \in Ops /\ op[t].kind = "create" /\ n \in Nodes /\ stage[t] = "patch"
  BY OldOp DEF PatchFails, Holding
<1>2. UNCHANGED <<indexVars, lock, op, outsideVars, inked>> /\ Goes(t, "rollback")
  BY DEF PatchFails
<1>3. ServerType' /\ clock <= clock' /\ clock' \in Nat /\ ever \subseteq ever'
      /\ ever' \subseteq Nodes \X Nodes /\ LeftType'
  <2>1. CASE UNCHANGED <<clock, store, ever>> /\ (UNCHANGED left \/ Spend("net"))
    BY <2>1, SpendType DEF TInv, ServerType, LeftType, LinkType, Events
  <2>2. CASE Spend("net") /\ Change(n, new)
    <3>1. new \in Objects
      BY <1>1, PatchedType DEF TInv
    <3> HIDE DEF new
    <3> QED
      BY <1>1, <2>2, <3>1, ChangeType, EverType, SpendType DEF TInv, ServerType, Events
  <2> QED
    BY <2>1, <2>2 DEF PatchFails
<1>4. IndexType' /\ HistoryType' /\ LinkType'
  BY <1>2, <1>3, ClockGrows DEF TInv, HistoryType, LinkType, outsideVars
<1>5. "rollback" \in Stages /\ "rollback" \in Holding
  BY DEF Stages, Holding
<1>6. LockType'
  BY <1>1, <1>2, <1>5, LockStep DEF TInv, Holding
<1>7. OpType'
  <2>1. op' = [op EXCEPT ![t] = op[t]]
    BY <1>2, OldOp
  <2>2. op[t].patched \in Nat /\ op[t].kind \in Writing
    BY <1>1 DEF Ops, Writing
  <2>3. op[t].patched <= clock' /\ \A m \in DOMAIN op[t].answer : op[t].answer[m].stamp <= clock'
    BY <1>3, <2>2, OldOp DEF TInv, ServerType, Objects
  <2> QED
    BY <1>1, <1>2, <1>3, <1>5, <2>1, <2>2, <2>3, OpStep
<1> QED
  BY <1>3, <1>4, <1>6, <1>7 DEF TInv

LEMMA RollsBackType == ASSUME TInv, NEW t \in Tasks, RollsBack(t) PROVE TInv'
<1> DEFINE n == op[t].node
           gone == [store[n] EXCEPT !.live = FALSE]
<1>1. n \in Nodes /\ stage[t] \in Holding
  BY OldOp DEF RollsBack, Holding
<1>2. /\ lock' = "free" /\ Ends(t) /\ UNCHANGED <<clock, indexVars, due, ever>>
      /\ \/ store' = [store EXCEPT ![n] = gone] /\ UNCHANGED <<left, touched>>
            /\ inked' = inked \ At(n)
         \/ Spend("net") /\ touched' = touched \union {n} /\ UNCHANGED <<store, inked>>
  BY DEF RollsBack
<1>3. store[n] \in Objects /\ gone \in Objects
  BY <1>1, LiveType DEF TInv, ServerType
<1>4. gone.stamp = store[n].stamp
  BY <1>3 DEF Objects
<1> HIDE DEF gone
<1>5. ServerType' /\ clock <= clock'
  BY <1>1, <1>2, <1>3, <1>4 DEF TInv, ServerType
<1>6. IndexType' /\ LinkType'
  BY <1>2 DEF TInv, IndexType, LinkType, indexVars
<1>7. OpType' /\ LockType'
  BY <1>1, <1>2, <1>5, EndStep
<1>8. LeftType' /\ HistoryType'
  BY <1>1, <1>2, SpendType DEF TInv, LeftType, HistoryType, Events
<1> QED
  BY <1>5, <1>6, <1>7, <1>8 DEF TInv

LEMMA FetchType == ASSUME TInv, NEW t \in Tasks, Fetch(t) PROVE TInv'
<1> DEFINE a == [n \in Changed |-> store[n]]
           o == [NoOp EXCEPT !.kind = "resync", !.answer = a]
<1>1. ServerType' /\ IndexType' /\ LinkType' /\ clock <= clock' /\ clock' = clock
  BY QuietType DEF Fetch, TInv, ServerType
<1>2. a \in Answers /\ DOMAIN a = Changed /\ \A n \in Changed : n \in Nodes /\ a[n] = store[n]
  <2>1. Changed \in SUBSET Nodes /\ a \in [Changed -> Objects]
    BY DEF Changed, TInv, ServerType
  <2> QED
    BY <2>1 DEF Answers
<1> HIDE DEF a
<1>3. o \in Ops /\ o.patched = 0 /\ o.answer = a
  BY <1>2, NoOpType DEF Ops
<1>4. op' = [op EXCEPT ![t] = o] /\ Goes(t, "fetched")
  BY DEF Fetch, a
<1>5. "fetched" \in Stages /\ "fetched" \notin Holding \union {"wait", "patch", "rollback"}
  BY DEF Stages, Holding
<1>6. o.patched <= clock' /\ \A n \in DOMAIN o.answer : o.answer[n].stamp <= clock'
  BY <1>1, <1>2, <1>3 DEF TInv, ServerType
<1> HIDE DEF o
<1>7. OpType'
  BY <1>1, <1>3, <1>4, <1>5, <1>6, OpStep
<1>8. LockType'
  BY <1>4, <1>5, LockStep DEF Fetch, MayCall, TInv, Holding
<1>9. LeftType' /\ HistoryType'
  BY SpendType DEF Fetch, TInv, HistoryType, Events
<1> QED
  BY <1>1, <1>7, <1>8, <1>9 DEF TInv

LEMMA ApplyType == ASSUME TInv, NEW t \in Tasks, Apply(t) PROVE TInv'
<1> DEFINE o == op[t]
           fresh == Unseen(o)
<1>1. /\ fresh \subseteq Nodes
      /\ \A n \in fresh : o.answer[n] \in Objects /\ o.answer[n].stamp \in 0..clock
  BY OldOp DEF Unseen, Objects
<1>2. ServerType' /\ LinkType' /\ LeftType' /\ clock <= clock' /\ clock' = clock
  BY DEF Apply, TInv, ServerType, LinkType, LeftType
<1>3. index' \in [Nodes -> [held : BOOLEAN, val : Nat, links : SUBSET Nodes]]
  <2>1. PICK place \in Orders(fresh) :
          index' = [n \in Nodes |->
              IF n \notin fresh THEN index[n]
              ELSE [held |-> TRUE, val |-> o.answer[n].val,
                    links |-> {m \in o.answer[n].links :
                                 \/ index[m].held
                                 \/ m \in fresh /\ place[m] < place[n]}]]
    BY DEF Apply
  <2>2. ASSUME NEW n \in fresh
        PROVE  o.answer[n].val \in Nat /\ o.answer[n].links \subseteq Nodes
    BY <1>1 DEF Objects
  <2> HIDE DEF o, fresh
  <2> QED
    BY <2>1, <2>2 DEF TInv, IndexType
<1>4. seen' \in [Nodes -> 0..clock]
  BY <1>1 DEF Apply, TInv, IndexType
<1>5. watermark' \in 0..clock
  BY <1>1 DEF Apply, Newest, TInv, IndexType
<1>6. OpType' /\ LockType'
  BY <1>2, EndStep DEF Apply, Holding
<1>7. HistoryType'
  BY DEF Apply, TInv, HistoryType
<1> QED
  BY <1>2, <1>3, <1>4, <1>5, <1>6, <1>7 DEF TInv, IndexType

LEMMA RestartType == ASSUME TInv, Restart PROVE TInv'
<1>1. ServerType' /\ LinkType' /\ clock' = clock
  BY DEF Restart, TInv, ServerType, LinkType
<1>2. IndexType'
  <2>1. index' \in [Nodes -> [held : BOOLEAN, val : Nat, links : SUBSET Nodes]]
    BY DEF Restart, Hydrated, TInv, ServerType, Objects
  <2>2. \A n \in Nodes : store[n].stamp \in 0..clock /\ 0 \in 0..clock
    BY DEF TInv, ServerType, Objects
  <2>3. seen' \in [Nodes -> 0..clock]
    BY <2>2 DEF Restart, Hydrated
  <2>4. 0 \in 0..clock
    BY DEF TInv, ServerType
  <2>5. watermark' \in 0..clock
    BY <2>3, <2>4 DEF Restart, Hydrated, Range
  <2> QED
    BY <1>1, <2>1, <2>3, <2>5 DEF IndexType
<1>3. LockType'
  BY ConstantsAssumption DEF Restart, LockType, Stages, Holding
<1>4. OpType'
  BY <1>1, NoOpType DEF Restart, OpType, Holding, ServerType
<1>5. LeftType' /\ HistoryType'
  BY SpendType DEF Restart, TInv, HistoryType, Events
<1> QED
  BY <1>1, <1>2, <1>3, <1>4, <1>5 DEF TInv

LEMMA StepType == TInv /\ [Next]_vars => TInv'
<1> SUFFICES ASSUME TInv, [Next]_vars PROVE TInv'
  OBVIOUS
<1>1. CASE UNCHANGED vars
  BY <1>1 DEF vars, indexVars, callVars, outsideVars, TInv, ServerType,
              IndexType, LockType, OpType, LeftType, HistoryType, LinkType
<1>2. ASSUME NEW t \in Tasks, Write(t) PROVE TInv'
  BY <1>2, StartType, EnterType, ReadType, ReadFailsType, LandsType, FailsType,
     PatchLandsType, PatchFailsType, RollsBackType, ReturnsType DEF Write
<1>3. ASSUME NEW t \in Tasks, Resync(t) PROVE TInv'
  BY <1>3, FetchType, ApplyType DEF Resync
<1> QED
  BY <1>1, <1>2, <1>3, PeopleType, RestartType DEF Next

LEMMA TypesKept == Spec => []TInv
BY InitType, StepType, PTL DEF Spec

\* The type invariant, with it that exactly the caller between taking and giving
\* back the write lock holds it.
THEOREM TypeCorrect == Spec => []TypeOK
<1>1. TInv => TypeOK
  BY DEF TInv, ServerType, IndexType, LockType, LeftType, HistoryType, LinkType,
         TypeOK, Stages
<1> QED
  BY <1>1, TypesKept, PTL

(***************************************************************************)
(* No two calls create one object, and none creates what is there.         *)
(***************************************************************************)
Creating(t) == stage[t] # "idle" /\ op[t].kind = "create"
Unborn == \A t \in Tasks : op[t].kind = "create" /\ stage[t] \in {"wait", "send"}
                            => store[op[t].node] = NoObject
Distinct == \A t, u \in Tasks : t # u /\ Creating(t) /\ Creating(u)
                                 => op[t].node # op[u].node
CInv == Unborn /\ Distinct

\* Where no create begins, and none is reached by a change of the store.
LEMMA CreatesKept ==
    ASSUME TInv, CInv,
           \A t \in Tasks : Creating(t)' => Creating(t) /\ op'[t].node = op[t].node,
           \A t \in Tasks : Creating(t)' /\ stage'[t] \in {"wait", "send"}
                                => /\ stage[t] \in {"wait", "send"}
                                   /\ store'[op[t].node] = store[op[t].node]
    PROVE  CInv'
<1>1. Unborn'
  BY DEF CInv, Unborn, Creating
<1>2. Distinct'
  BY DEF CInv, Distinct
<1> QED
  BY <1>1, <1>2 DEF CInv

\* What is not there is not alive.
LEMMA UnbornDead ==
    ASSUME CInv, NEW t \in Tasks, op[t].kind = "create", stage[t] \in {"wait", "send"}
    PROVE  ~store[op[t].node].live
BY DEF CInv, Unborn, NoObject

LEMMA PeopleCreates == ASSUME TInv, CInv, People PROVE CInv'
<1>1. UNCHANGED <<stage, op>>
  BY DEF People, PersonEdits, PersonCreates, PersonDeletes, PersonLinks, PersonUnlinks,
         callVars
<1>2. PICK n \in Nodes :
        /\ \A m \in Nodes \ {n} : store'[m] = store[m]
        /\ store[n].live \/ \A t \in Tasks : stage[t] # "idle" => op[t].node # n
  BY DEF People, PersonEdits, PersonCreates, PersonDeletes, PersonLinks, PersonUnlinks,
         Change, TInv, ServerType
<1>3. ASSUME NEW t \in Tasks, op[t].kind = "create", stage[t] \in {"wait", "send"}
      PROVE  store'[op[t].node] = store[op[t].node]
  <2>1. op[t].node \in Nodes /\ stage[t] # "idle"
    BY <1>3, OldOp DEF Holding
  <2>2. op[t].node # n
    BY <1>2, <1>3, <2>1, UnbornDead
  <2> QED
    BY <1>2, <2>1, <2>2
<1> QED
  BY <1>1, <1>3, CreatesKept DEF Creating

\* A call of caller t leaves the other callers as they are.
LEMMA Others ==
    ASSUME TInv, NEW t \in Tasks, Write(t) \/ Resync(t), NEW u \in Tasks \ {t}
    PROVE  op'[u] = op[u] /\ stage'[u] = stage[u]
<1>1. /\ \A s : Goes(t, s) => stage'[u] = stage[u]
      /\ \A o : op' = [op EXCEPT ![t] = o] => op'[u] = op[u]
  BY DEF TInv, OpType, LockType, Goes
<1>2. ASSUME NEW kind, NEW n, NEW ends, NEW foot, Call(t, kind, n, ends, foot)
      PROVE  op'[u] = op[u] /\ stage'[u] = stage[u]
  BY <1>2 DEF Call, TInv, OpType, LockType
<1>3. CASE UpdateNode(t) \/ AddLink(t) \/ RemoveLink(t) \/ CreateNode(t)
  BY <1>2, <1>3 DEF UpdateNode, AddLink, RemoveLink, CreateNode
<1>4. CASE Enter(t) \/ ReadFails(t) \/ PatchFails(t) \/ RollsBack(t)
  BY <1>1, <1>4 DEF Enter, ReadFails, PatchFails, RollsBack, Ends
<1>5. CASE Fails(t) \/ Returns(t) \/ Fetch(t) \/ Apply(t)
  BY <1>1, <1>5 DEF Fails, Returns, Fetch, Apply, Ends
<1>6. CASE Read(t)
  BY <1>6 DEF Read, Goes, TInv, OpType, LockType
<1>7. CASE Lands(t)
  BY <1>7 DEF Lands, Goes, TInv, OpType, LockType
<1>8. CASE PatchLands(t)
  BY <1>8 DEF PatchLands, Goes, TInv, OpType, LockType
<1> QED
  BY <1>3, <1>4, <1>5, <1>6, <1>7, <1>8 DEF Write, Resync

LEMMA StartCreates ==
    ASSUME TInv, CInv, NEW t \in Tasks,
           UpdateNode(t) \/ AddLink(t) \/ RemoveLink(t) \/ CreateNode(t)
    PROVE  CInv'
<1>1. \A u \in Tasks \ {t} : op'[u] = op[u] /\ stage'[u] = stage[u]
  BY Others DEF Write
<1>2. ASSUME NEW kind, NEW n, NEW ends, NEW foot, Call(t, kind, n, ends, foot)
      PROVE  op'[t].kind = kind /\ op'[t].node = n /\ UNCHANGED store
  BY <1>2 DEF Call, NoOp, TInv, OpType
<1>3. CASE UpdateNode(t) \/ AddLink(t) \/ RemoveLink(t)
  <2>1. op'[t].kind # "create" /\ UNCHANGED store
    <3>1. CASE UpdateNode(t)
      BY <1>2, <3>1 DEF UpdateNode
    <3>2. CASE AddLink(t)
      BY <1>2, <3>2 DEF AddLink
    <3>3. CASE RemoveLink(t)
      BY <1>2, <3>3 DEF RemoveLink
    <3> QED
      BY <1>3, <3>1, <3>2, <3>3
  <2> QED
    BY <1>1, <2>1, CreatesKept DEF Creating
<1>4. CASE CreateNode(t)
  <2>1. PICK n \in Nodes :
            /\ store[n] = NoObject
            /\ \A u \in Tasks : stage[u] # "idle" => op[u].node # n
            /\ \E ends \in SUBSET Held : Call(t, "create", n, ends, ends)
    BY <1>4 DEF CreateNode
  <2>2. op'[t].node = n /\ UNCHANGED store
    BY <1>2, <2>1
  <2>3. Unborn'
    BY <1>1, <2>1, <2>2 DEF CInv, Unborn
  <2>4. Distinct'
    BY <1>1, <2>1, <2>2 DEF CInv, Distinct, Creating
  <2> QED
    BY <2>3, <2>4 DEF CInv
<1> QED
  BY <1>3, <1>4

\* A step of caller t that begins no create.
LEMMA CallerCreates ==
    ASSUME TInv, CInv, NEW t \in Tasks,
           \A u \in Tasks \ {t} : op'[u] = op[u] /\ stage'[u] = stage[u],
           Creating(t)' => Creating(t) /\ op'[t].node = op[t].node,
           Creating(t)' /\ stage'[t] \in {"wait", "send"}
                => stage[t] \in {"wait", "send"} /\ UNCHANGED store,
           \/ UNCHANGED store
           \/ /\ Creating(t) \/ store[op[t].node].live
              /\ \A n \in Nodes \ {op[t].node} : store'[n] = store[n]
    PROVE  CInv'
<1>1. ASSUME NEW u \in Tasks \ {t}, op[u].kind = "create", stage[u] \in {"wait", "send"}
      PROVE  store'[op[u].node] = store[op[u].node]
  <2>1. op[u].node \in Nodes /\ Creating(u) /\ ~store[op[u].node].live
    BY <1>1, OldOp, UnbornDead DEF Creating, Holding
  <2> QED
    BY <2>1 DEF CInv, Distinct
<1> QED
  BY <1>1, CreatesKept DEF Creating

LEMMA WriteCreates == ASSUME TInv, CInv, NEW t \in Tasks, Write(t) PROVE CInv'
<1>1. \A u \in Tasks \ {t} : op'[u] = op[u] /\ stage'[u] = stage[u]
  BY Others
<1>2. \A s : Goes(t, s) => stage'[t] = s
  BY DEF Goes, TInv, LockType
<1>3. CASE UpdateNode(t) \/ AddLink(t) \/ RemoveLink(t) \/ CreateNode(t)
  BY <1>3, StartCreates
<1>4. CASE Enter(t)
  BY <1>1, <1>2, <1>4, CallerCreates DEF Enter, Creating
<1>5. CASE Read(t)
  <2>1. op'[t].node = op[t].node /\ op'[t].kind = op[t].kind
    BY <1>5, OldOp DEF Read, TInv, OpType, Ops
  <2> QED
    BY <1>1, <1>5, <2>1, CallerCreates DEF Read, Creating
<1>6. CASE ReadFails(t)
  BY <1>1, <1>2, <1>6, CallerCreates DEF ReadFails, Ends, Creating
<1>7. CASE Lands(t)
  <2>1. op'[t].node = op[t].node /\ op'[t].kind = op[t].kind
    BY <1>7, OldOp DEF Lands, TInv, OpType, Ops
  <2>2. /\ Creating(t) \/ store[op[t].node].live
        /\ \A n \in Nodes \ {op[t].node} : store'[n] = store[n]
    BY <1>7 DEF Lands, Reachable, Change, Creating, TInv, ServerType
  <2>3. stage'[t] \notin {"wait", "send"} /\ stage[t] = "send"
    BY <1>2, <1>7 DEF Lands
  <2> QED
    BY <1>1, <2>1, <2>2, <2>3, CallerCreates DEF Creating
<1>8. CASE Fails(t)
  <2>1. \/ UNCHANGED store
        \/ /\ Creating(t) \/ store[op[t].node].live
           /\ \A n \in Nodes \ {op[t].node} : store'[n] = store[n]
    BY <1>8 DEF Fails, Reachable, Change, Creating, TInv, ServerType
  <2>2. stage'[t] = "idle"
    BY <1>2, <1>8 DEF Fails, Ends
  <2> QED
    BY <1>1, <2>1, <2>2, CallerCreates DEF Creating
<1>9. CASE PatchLands(t)
  <2>1. op'[t].node = op[t].node /\ op'[t].kind = op[t].kind
    BY <1>9, OldOp DEF PatchLands, TInv, OpType, Ops
  <2>2. /\ store[op[t].node].live
        /\ \A n \in Nodes \ {op[t].node} : store'[n] = store[n]
    BY <1>9 DEF PatchLands, Change, TInv, ServerType
  <2>3. stage'[t] = "sent" /\ stage[t] = "patch"
    BY <1>2, <1>9 DEF PatchLands
  <2> QED
    BY <1>1, <2>1, <2>2, <2>3, CallerCreates DEF Creating
<1>10. CASE PatchFails(t)
  <2>1. \/ UNCHANGED store
        \/ /\ store[op[t].node].live
           /\ \A n \in Nodes \ {op[t].node} : store'[n] = store[n]
    BY <1>10 DEF PatchFails, Change, TInv, ServerType
  <2>2. stage'[t] = "rollback" /\ stage[t] = "patch" /\ UNCHANGED op
    BY <1>2, <1>10 DEF PatchFails
  <2> QED
    BY <1>1, <2>1, <2>2, CallerCreates DEF Creating
<1>11. CASE RollsBack(t)
  <2>1. Creating(t)
    BY <1>11, OldOp DEF RollsBack, Creating
  <2>2. \A n \in Nodes \ {op[t].node} : store'[n] = store[n]
    BY <1>11 DEF RollsBack, TInv, ServerType
  <2>3. stage'[t] = "idle"
    BY <1>2, <1>11 DEF RollsBack, Ends
  <2> QED
    BY <1>1, <2>1, <2>2, <2>3, CallerCreates DEF Creating
<1>12. CASE Returns(t)
  BY <1>1, <1>2, <1>12, CallerCreates DEF Returns, Ends, Creating
<1> QED
  BY <1>3, <1>4, <1>5, <1>6, <1>7, <1>8, <1>9, <1>10, <1>11, <1>12 DEF Write

LEMMA ResyncCreates == ASSUME TInv, CInv, NEW t \in Tasks, Resync(t) PROVE CInv'
<1>1. \A u \in Tasks \ {t} : op'[u] = op[u] /\ stage'[u] = stage[u]
  BY Others
<1>2. CASE Fetch(t)
  <2>1. op'[t].kind = "resync" /\ UNCHANGED store
    BY <1>2 DEF Fetch, NoOp, TInv, OpType
  <2> QED
    BY <1>1, <2>1, CallerCreates DEF Creating
<1>3. CASE Apply(t)
  <2>1. stage'[t] = "idle" /\ UNCHANGED store
    BY <1>3 DEF Apply, Ends, Goes, TInv, LockType
  <2> QED
    BY <1>1, <2>1, CallerCreates DEF Creating
<1> QED
  BY <1>2, <1>3 DEF Resync

LEMMA CreatesInit == Init => CInv
BY DEF Init, CInv, Unborn, Distinct, Creating, NoOp

LEMMA CreatesStep == TInv /\ CInv /\ [Next]_vars => CInv'
<1> SUFFICES ASSUME TInv, CInv, [Next]_vars PROVE CInv'
  OBVIOUS
<1>1. CASE UNCHANGED vars
  BY <1>1 DEF vars, callVars, CInv, Unborn, Distinct, Creating
<1>2. CASE Restart
  BY <1>2 DEF Restart, CInv, Unborn, Distinct, Creating, NoOp
<1> QED
  BY <1>1, <1>2, PeopleCreates, WriteCreates, ResyncCreates DEF Next

(***************************************************************************)
(* No link of the bot is lost.                                             *)
(***************************************************************************)
\* A link of the bot is in the space, between objects that are alive.
Kept == \A n, m \in Nodes : <<n, m>> \in inked =>
            store[n].live /\ store[m].live /\ m \in store[n].links

\* What a link write has read of the relation, it may still write back.
Reading(t) ==
    stage[t] = "send" /\ op[t].kind \in {"add", "remove"} =>
        \A m \in Nodes : <<op[t].node, m>> \in inked => m \in op[t].targets

\* An object whose links are still to be written has none of the bot's.
Patching(t) ==
    stage[t] = "patch" => \A m \in Nodes : <<op[t].node, m>> \notin inked

KInv == Kept /\ \A t \in Tasks : Reading(t) /\ Patching(t)

LEMMA ChangeKeeps ==
    ASSUME TInv, Kept, NEW n \in Nodes, NEW object \in Objects, Change(n, object),
           object.live,
           \A a \in Nodes \ {n}, b \in Nodes : <<a, b>> \in inked' => <<a, b>> \in inked,
           \A b \in Nodes : <<n, b>> \in inked' => b \in object.links /\ store[b].live
    PROVE  Kept'
<1>1. /\ store'[n].live /\ store'[n].links = object.links
      /\ \A m \in Nodes \ {n} : store'[m] = store[m]
  <2>1. /\ store'[n] = [object EXCEPT !.stamp = clock']
        /\ \A m \in Nodes \ {n} : store'[m] = store[m]
    BY ChangeType DEF TInv
  <2> QED
    BY <2>1 DEF Objects
<1>2. \A m \in Nodes : store[m].live => store'[m].live
  BY <1>1
<1> QED
  BY <1>1, <1>2 DEF Kept

LEMMA DeleteKeeps ==
    ASSUME TInv, Kept, NEW n \in Nodes, store' = [store EXCEPT ![n].live = FALSE],
           inked' = inked \ At(n)
    PROVE  Kept'
<1>1. \A m \in Nodes \ {n} : store'[m] = store[m]
  BY DEF TInv, ServerType
<1>2. \A a, b \in Nodes : <<a, b>> \in inked' => <<a, b>> \in inked /\ a # n /\ b # n
  BY DEF At
<1> QED
  BY <1>1, <1>2 DEF Kept

\* A caller that makes a link of the bot is the only one with the write lock.
LEMMA CallerKeeps ==
    ASSUME TInv, KInv, NEW t \in Tasks,
           \A u \in Tasks \ {t} : op'[u] = op[u] /\ stage'[u] = stage[u],
           inked' \subseteq inked \/ stage[t] \in Holding,
           Kept', Reading(t)', Patching(t)'
    PROVE  KInv'
<1>1. ASSUME NEW u \in Tasks \ {t}, stage[u] \in Holding, stage[t] \in Holding PROVE FALSE
  BY <1>1 DEF TInv, LockType
<1>2. ASSUME NEW u \in Tasks \ {t} PROVE Reading(u)' /\ Patching(u)'
  BY <1>1 DEF KInv, Reading, Patching, Holding
<1> QED
  BY <1>2 DEF KInv

LEMMA PeopleKeep == ASSUME TInv, KInv, People PROVE KInv'
<1>1. ASSUME NEW n \in Nodes, PersonEdits(n) PROVE Kept' /\ inked' \subseteq inked
  <2> DEFINE object == [store[n] EXCEPT !.val = @ + 1]
  <2>1. object \in Objects /\ object.live = store[n].live /\ object.links = store[n].links
    BY DEF TInv, ServerType, Objects
  <2>2. Change(n, object) /\ store[n].live /\ UNCHANGED inked
    BY <1>1 DEF PersonEdits
  <2> HIDE DEF object
  <2> QED
    BY <2>1, <2>2, ChangeKeeps DEF KInv, Kept
<1>2. ASSUME NEW n \in Nodes, PersonCreates(n) PROVE Kept' /\ inked' \subseteq inked
  <2>1. Found \in Objects /\ Found.live
    BY DEF Found, NoObject, Objects
  <2>2. Change(n, Found) /\ ~store[n].live /\ UNCHANGED inked
    BY <1>2 DEF PersonCreates, NoObject
  <2> QED
    BY <2>1, <2>2, ChangeKeeps DEF KInv, Kept
<1>3. ASSUME NEW n \in Nodes, PersonDeletes(n) PROVE Kept' /\ inked' \subseteq inked
  BY <1>3, DeleteKeeps DEF PersonDeletes, KInv
<1>4. ASSUME NEW n \in Nodes, NEW m \in Nodes, PersonLinks(n, m)
      PROVE  Kept' /\ inked' \subseteq inked
  <2> DEFINE object == [store[n] EXCEPT !.links = @ \union {m}]
  <2>1. /\ object \in Objects /\ object.live = store[n].live
        /\ object.links = store[n].links \union {m}
    BY DEF TInv, ServerType, Objects
  <2>2. Change(n, object) /\ store[n].live /\ UNCHANGED inked
    BY <1>4 DEF PersonLinks
  <2> HIDE DEF object
  <2> QED
    BY <2>1, <2>2, ChangeKeeps DEF KInv, Kept
<1>5. ASSUME NEW n \in Nodes, NEW m \in Nodes, PersonUnlinks(n, m)
      PROVE  Kept' /\ inked' \subseteq inked
  <2> DEFINE object == [store[n] EXCEPT !.links = @ \ {m}]
  <2>1. /\ object \in Objects /\ object.live = store[n].live
        /\ object.links = store[n].links \ {m}
    BY DEF TInv, ServerType, Objects
  <2>2. Change(n, object) /\ store[n].live /\ inked' = inked \ {<<n, m>>}
    BY <1>5 DEF PersonUnlinks
  <2> HIDE DEF object
  <2> QED
    BY <2>1, <2>2, ChangeKeeps DEF KInv, Kept
<1>6. UNCHANGED <<stage, op>>
  BY DEF People, PersonEdits, PersonCreates, PersonDeletes, PersonLinks, PersonUnlinks,
         callVars
<1>7. Kept' /\ inked' \subseteq inked
  BY <1>1, <1>2, <1>3, <1>4, <1>5 DEF People
<1> QED
  BY <1>6, <1>7 DEF KInv, Reading, Patching

LEMMA LandsKeeps ==
    ASSUME TInv, CInv, KInv, NEW o \in Ops, o.kind \in Writing, o.node \in Nodes,
           Reachable(o), Change(o.node, Written(o)), NEW known \in BOOLEAN, Links(o, known),
           o.kind = "create" => store[o.node] = NoObject,
           o.kind \in {"add", "remove"} =>
                \A m \in Nodes : <<o.node, m>> \in inked => m \in o.targets
    PROVE  /\ Kept'
           /\ o.kind = "create" => \A m \in Nodes : <<o.node, m>> \notin inked'
<1> DEFINE n == o.node
           object == Written(o)
<1>1. object \in Objects /\ object.live
  BY WrittenType DEF TInv, Reachable
<1>2. CASE o.kind = "create"
  <2>1. \A m \in Nodes : <<n, m>> \notin inked
    BY <1>2 DEF KInv, Kept, NoObject
  <2>2. inked' = inked
    BY <1>2 DEF Links
  <2> QED
    BY <1>1, <2>1, <2>2, ChangeKeeps DEF KInv
<1>3. CASE o.kind = "add"
  <2>1. object.links = o.targets \union o.ends
    BY <1>3, WrittenType DEF TInv
  <2>2. inked' \subseteq inked \union Edges(o)
    BY <1>3 DEF Links
  <2>3. \A m \in Nodes : <<n, m>> \in inked' => m \in object.links /\ store[m].live
    BY <1>3, <2>1, <2>2 DEF Edges, KInv, Kept
  <2>4. \A a \in Nodes \ {n}, b \in Nodes : <<a, b>> \in inked' => <<a, b>> \in inked
    BY <2>2 DEF Edges
  <2> QED
    BY <1>1, <1>3, <2>3, <2>4, ChangeKeeps DEF KInv
<1>4. CASE o.kind = "remove"
  <2>1. object.links = o.targets \ o.ends
    BY <1>4, WrittenType DEF TInv
  <2>2. inked' = inked \ Edges(o)
    BY <1>4 DEF Links
  <2>3. \A m \in Nodes : <<n, m>> \in inked' => m \in object.links /\ store[m].live
    BY <1>4, <2>1, <2>2 DEF Edges, KInv, Kept
  <2> QED
    BY <1>1, <1>4, <2>2, <2>3, ChangeKeeps DEF KInv
<1>5. CASE o.kind \in {"update", "rewrite"}
  <2>1. object.links = store[n].links /\ inked' = inked
    BY <1>5, WrittenType DEF TInv, Links
  <2> QED
    BY <1>1, <1>5, <2>1, ChangeKeeps DEF KInv, Kept
<1> QED
  BY <1>2, <1>3, <1>4, <1>5 DEF Writing

LEMMA WriteKeeps == ASSUME TInv, CInv, KInv, NEW t \in Tasks, Write(t) PROVE KInv'
<1> DEFINE o == op[t]
<1>1. \A u \in Tasks \ {t} : op'[u] = op[u] /\ stage'[u] = stage[u]
  BY Others
<1>2. \A s : Goes(t, s) => stage'[t] = s
  BY DEF Goes, TInv, LockType
<1>3. ASSUME UNCHANGED <<store, inked>> PROVE Kept' /\ inked' \subseteq inked
  BY <1>3 DEF KInv, Kept
<1>4. ASSUME stage'[t] \notin {"send", "patch"} PROVE Reading(t)' /\ Patching(t)'
  BY <1>4 DEF Reading, Patching
<1>5. CASE UpdateNode(t) \/ AddLink(t) \/ RemoveLink(t) \/ CreateNode(t)
  <2>1. ASSUME NEW kind, NEW n, NEW ends, NEW foot, Call(t, kind, n, ends, foot)
        PROVE  stage'[t] = "wait" /\ UNCHANGED <<store, inked>>
    BY <2>1 DEF Call, TInv, LockType
  <2>2. stage'[t] = "wait" /\ UNCHANGED <<store, inked>>
    BY <1>5, <2>1 DEF UpdateNode, AddLink, RemoveLink, CreateNode
  <2> QED
    BY <1>1, <1>3, <1>4, <2>2, CallerKeeps
<1>6. CASE Enter(t)
  <2>1. stage'[t] = "send" /\ UNCHANGED <<store, inked, op>>
    BY <1>2, <1>6 DEF Enter
  <2>2. Reading(t)' /\ Patching(t)'
    BY <1>6, <2>1 DEF Enter, Reading, Patching
  <2> QED
    BY <1>1, <1>3, <2>1, <2>2, CallerKeeps
<1>7. CASE Read(t)
  <2>1. UNCHANGED <<store, inked>> /\ stage'[t] \in {"sent", "send"}
    BY <1>2, <1>7 DEF Read
  <2>2. op'[t].node = o.node /\ op'[t].targets = store[o.node].links /\ o.node \in Nodes
    BY <1>7, OldOp DEF Read, TInv, OpType, Ops
  <2>3. Reading(t)' /\ Patching(t)'
    BY <2>1, <2>2 DEF Reading, Patching, KInv, Kept
  <2> QED
    BY <1>1, <1>3, <2>1, <2>3, CallerKeeps
<1>8. CASE ReadFails(t)
  <2>1. UNCHANGED <<store, inked>> /\ stage'[t] = "idle"
    BY <1>2, <1>8 DEF ReadFails, Ends
  <2> QED
    BY <1>1, <1>3, <1>4, <2>1, CallerKeeps
<1>9. ASSUME stage[t] = "send"
      PROVE  /\ o \in Ops /\ o.kind \in Writing /\ o.node \in Nodes /\ stage[t] \in Holding
             /\ o.kind = "create" => store[o.node] = NoObject
             /\ o.kind \in {"add", "remove"} =>
                    \A m \in Nodes : <<o.node, m>> \in inked => m \in o.targets
  BY <1>9, OldOp DEF Holding, CInv, Unborn, KInv, Reading
<1>10. CASE Lands(t)
  <2>1. stage[t] = "send" /\ Reachable(o) /\ Change(o.node, Written(o)) /\ Links(o, TRUE)
    BY <1>10 DEF Lands
  <2>2. Kept' /\ (o.kind = "create" => \A m \in Nodes : <<o.node, m>> \notin inked')
    BY <1>9, <2>1, LandsKeeps
  <2>3. stage'[t] = "sent" \/ (stage'[t] = "patch" /\ o.kind = "create")
    <3>1. stage'[t] = IF o.kind = "create" /\ o.ends # {} THEN "patch" ELSE "sent"
      BY <1>2, <1>10 DEF Lands
    <3> QED
      BY <3>1
  <2>4. op'[t].node = o.node
    BY <1>10, OldOp DEF Lands, TInv, OpType, Ops
  <2>5. Reading(t)' /\ Patching(t)'
    BY <2>2, <2>3, <2>4 DEF Reading, Patching
  <2> QED
    BY <1>1, <1>9, <2>1, <2>2, <2>5, CallerKeeps
<1>11. CASE Fails(t)
  <2>1. stage[t] = "send" /\ stage'[t] = "idle"
    BY <1>2, <1>11 DEF Fails, Ends
  <2>2. CASE UNCHANGED <<store, inked>>
    BY <1>1, <1>3, <1>4, <2>1, <2>2, CallerKeeps
  <2>3. CASE Reachable(o) /\ Change(o.node, Written(o)) /\ Links(o, FALSE)
    <3>1. Kept'
      BY <1>9, <2>1, <2>3, LandsKeeps
    <3> QED
      BY <1>1, <1>4, <1>9, <2>1, <3>1, CallerKeeps
  <2> QED
    BY <1>11, <2>2, <2>3 DEF Fails
<1>12. ASSUME stage[t] = "patch", store[o.node].live,
              Change(o.node, [store[o.node] EXCEPT !.links = o.ends, !.foot = o.ends]),
              inked' \subseteq inked \union Edges(o)
       PROVE  Kept'
  <2> DEFINE new == [store[o.node] EXCEPT !.links = o.ends, !.foot = o.ends]
  <2>1. o \in Ops /\ o.node \in Nodes /\ \A m \in Nodes : <<o.node, m>> \notin inked
    BY <1>12, OldOp DEF Holding, KInv, Patching
  <2>2. new \in Objects /\ new.links = o.ends /\ new.live
    BY <1>12, <2>1, PatchedType DEF TInv
  <2> HIDE DEF new
  <2>3. \A a \in Nodes \ {o.node}, b \in Nodes : <<a, b>> \in inked' => <<a, b>> \in inked
    BY <1>12 DEF Edges
  <2>4. \A b \in Nodes : <<o.node, b>> \in inked' => b \in new.links /\ store[b].live
    BY <1>12, <2>1, <2>2 DEF Edges
  <2> QED
    BY <1>12, <2>1, <2>2, <2>3, <2>4, ChangeKeeps DEF KInv, new
<1>13. CASE PatchLands(t)
  <2>1. stage'[t] = "sent" /\ stage[t] = "patch" /\ stage[t] \in Holding
    BY <1>2, <1>13 DEF PatchLands, Holding
  <2>2. Kept'
    BY <1>12, <1>13, <2>1 DEF PatchLands
  <2> QED
    BY <1>1, <1>4, <2>1, <2>2, CallerKeeps
<1>14. CASE PatchFails(t)
  <2>1. stage'[t] = "rollback" /\ stage[t] = "patch" /\ UNCHANGED inked
    BY <1>2, <1>14 DEF PatchFails
  <2>2. Kept'
    BY <1>3, <1>12, <1>14, <2>1 DEF PatchFails
  <2> QED
    BY <1>1, <1>4, <2>1, <2>2, CallerKeeps
<1>15. CASE RollsBack(t)
  <2>1. stage'[t] = "idle" /\ o.node \in Nodes
    BY <1>2, <1>15, OldOp DEF RollsBack, Ends, Holding
  <2>2. Kept' /\ inked' \subseteq inked
    BY <1>3, <1>15, <2>1, DeleteKeeps DEF RollsBack, KInv
  <2> QED
    BY <1>1, <1>4, <2>1, <2>2, CallerKeeps
<1>16. CASE Returns(t)
  <2>1. UNCHANGED <<store, inked>> /\ stage'[t] = "idle"
    BY <1>2, <1>16 DEF Returns, Ends
  <2> QED
    BY <1>1, <1>3, <1>4, <2>1, CallerKeeps
<1> QED
  BY <1>5, <1>6, <1>7, <1>8, <1>10, <1>11, <1>13, <1>14, <1>15, <1>16 DEF Write

LEMMA ResyncKeeps == ASSUME TInv, KInv, NEW t \in Tasks, Resync(t) PROVE KInv'
<1>1. \A u \in Tasks \ {t} : op'[u] = op[u] /\ stage'[u] = stage[u]
  BY Others
<1>2. UNCHANGED <<store, inked>> /\ stage'[t] \in {"fetched", "idle"}
  BY DEF Resync, Fetch, Apply, Ends, Goes, TInv, LockType
<1>3. Kept' /\ Reading(t)' /\ Patching(t)'
  BY <1>2 DEF KInv, Kept, Reading, Patching
<1> QED
  BY <1>1, <1>2, <1>3, CallerKeeps

LEMMA KeptStep == TInv /\ CInv /\ KInv /\ [Next]_vars => KInv'
<1> SUFFICES ASSUME TInv, CInv, KInv, [Next]_vars PROVE KInv'
  OBVIOUS
<1>1. CASE UNCHANGED vars
  BY <1>1 DEF vars, callVars, KInv, Kept, Reading, Patching
<1>2. CASE Restart
  BY <1>2 DEF Restart, KInv, Kept, Reading, Patching
<1> QED
  BY <1>1, <1>2, PeopleKeep, WriteKeeps, ResyncKeeps DEF Next

LEMMA KInvHolds == Spec => [](TInv /\ CInv /\ KInv)
<1>1. Init => KInv
  BY DEF Init, KInv, Kept, Reading, Patching
<1> QED
  BY <1>1, InitType, StepType, CreatesInit, CreatesStep, KeptStep, PTL DEF Spec

\* Whatever link writes of the bot overlap, with a turn lock or without one, a
\* link the bot has made stays until somebody removes it.
THEOREM LinksOfBotKept == Spec => []BotLinksKept
<1>1. TInv /\ KInv => BotLinksKept
  BY DEF TInv, LinkType, KInv, Kept, BotLinksKept
<1> QED
  BY <1>1, KInvHolds, PTL

(***************************************************************************)
(* The index never leads the space.                                        *)
(***************************************************************************)
\* Objects that are alive carry a stamp, and their links are on record.
Stored ==
    /\ clock > 0
    /\ \A n \in Nodes : /\ store[n].live => store[n].stamp > 0
                        /\ {n} \X store[n].links \subseteq ever

\* What the server has told a caller, the space has held.
Answered(t) ==
    \A n \in DOMAIN op[t].answer :
        /\ store[n].stamp > 0
        /\ op[t].answer[n].val <= store[n].val
        /\ {n} \X op[t].answer[n].links \subseteq ever

\* So it has what a write that is about to return adds to the index.
Sent(t) ==
    stage[t] = "sent" =>
        /\ store[op[t].node].stamp > 0
        /\ op[t].kind = "remove" \/ {op[t].node} \X op[t].ends \subseteq ever

\* A write of fields makes no links.
Plain(t) == op[t].kind \in {"update", "rewrite"} => op[t].ends = {}

NInv == /\ Stored /\ NeverLeads
        /\ \A t \in Tasks : Answered(t) /\ Sent(t) /\ Plain(t)

\* The space never takes a version, a stamp or a link on record back.
Grown ==
    /\ ever \subseteq ever'
    /\ \A n \in Nodes : /\ store[n].val <= store'[n].val
                        /\ store[n].stamp > 0 => store'[n].stamp > 0

LEMMA ChangeGrows ==
    ASSUME TInv, Stored, NEW n \in Nodes, NEW object \in Objects, Change(n, object),
           store[n].val <= object.val
    PROVE  Stored' /\ Grown /\ store'[n].stamp > 0 /\ {n} \X object.links \subseteq ever'
<1>1. /\ store'[n] = [object EXCEPT !.stamp = clock']
      /\ \A m \in Nodes \ {n} : store'[m] = store[m]
      /\ clock <= clock' /\ clock' \in Nat /\ clock \in Nat
      /\ ever' = ever \union LinksOf(n, object)
  BY ChangeType DEF TInv, ServerType
<1>2. store'[n].stamp = clock' /\ store'[n].val = object.val /\ store'[n].links = object.links
  BY <1>1 DEF Objects
<1>3. clock' > 0
  BY <1>1 DEF Stored
<1>4. {n} \X object.links \subseteq ever'
  BY <1>1 DEF LinksOf
<1>5. Stored'
  BY <1>1, <1>2, <1>3, <1>4 DEF Stored
<1>6. \A m \in Nodes : store[m].val <= store'[m].val
  <2>1. \A m \in Nodes : store[m].val \in Nat
    BY DEF TInv, ServerType, Objects
  <2> QED
    <3>1. store[n].val <= store'[n].val
      BY <1>2
    <3>2. \A m \in Nodes \ {n} : store[m].val <= store'[m].val
      BY <1>1, <2>1
    <3> QED
      BY <3>1, <3>2
<1>7. Grown
  BY <1>1, <1>2, <1>3, <1>6 DEF Grown
<1> QED
  BY <1>2, <1>3, <1>4, <1>5, <1>7

LEMMA SameGrows ==
    ASSUME TInv, Stored, UNCHANGED <<clock, store, ever>> PROVE Stored' /\ Grown
<1>1. \A m \in Nodes : store[m].val <= store[m].val
  BY DEF TInv, ServerType, Objects
<1> QED
  BY <1>1 DEF Stored, Grown

LEMMA DeleteGrows ==
    ASSUME TInv, Stored, NEW n \in Nodes, store' = [store EXCEPT ![n].live = FALSE],
           UNCHANGED <<clock, ever>>
    PROVE  Stored' /\ Grown
<1>1. \A m \in Nodes \ {n} : store'[m] = store[m]
  BY DEF TInv, ServerType
<1>2. store'[n] = [store[n] EXCEPT !.live = FALSE] /\ store[n] \in Objects
  BY DEF TInv, ServerType
<1>3. /\ store'[n].val = store[n].val /\ store'[n].stamp = store[n].stamp
      /\ store'[n].links = store[n].links /\ ~store'[n].live
  BY <1>2 DEF Objects
<1>4. \A m \in Nodes : store[m].val <= store'[m].val
  <2>1. \A m \in Nodes : store[m].val \in Nat
    BY DEF TInv, ServerType, Objects
  <2> QED
    BY <1>1, <1>3, <2>1
<1> QED
  BY <1>1, <1>3, <1>4 DEF Stored, Grown

LEMMA PeopleGrow == ASSUME TInv, Stored, People PROVE Stored' /\ Grown
<1>1. ASSUME NEW n \in Nodes, PersonEdits(n) PROVE Stored' /\ Grown
  <2> DEFINE object == [store[n] EXCEPT !.val = @ + 1]
  <2>1. object \in Objects /\ store[n].val <= object.val
    BY DEF TInv, ServerType, Objects
  <2>2. Change(n, object)
    BY <1>1 DEF PersonEdits
  <2> HIDE DEF object
  <2> QED
    BY <2>1, <2>2, ChangeGrows
<1>2. ASSUME NEW n \in Nodes, PersonCreates(n) PROVE Stored' /\ Grown
  <2>1. Found \in Objects /\ store[n].val <= Found.val
    <3>1. store[n].val = 0
      BY <1>2 DEF PersonCreates, NoObject
    <3>2. Found \in Objects
      BY DEF Found, NoObject, Objects
    <3>3. Found.val = 1
      BY DEF Found, NoObject
    <3> QED
      BY <3>1, <3>2, <3>3
  <2> QED
    BY <1>2, <2>1, ChangeGrows DEF PersonCreates
<1>3. ASSUME NEW n \in Nodes, PersonDeletes(n) PROVE Stored' /\ Grown
  BY <1>3, DeleteGrows DEF PersonDeletes
<1>4. ASSUME NEW n \in Nodes, NEW m \in Nodes, PersonLinks(n, m) PROVE Stored' /\ Grown
  <2> DEFINE object == [store[n] EXCEPT !.links = @ \union {m}]
  <2>1. object \in Objects /\ store[n].val <= object.val
    BY DEF TInv, ServerType, Objects
  <2>2. Change(n, object)
    BY <1>4 DEF PersonLinks
  <2> HIDE DEF object
  <2> QED
    BY <2>1, <2>2, ChangeGrows
<1>5. ASSUME NEW n \in Nodes, NEW m \in Nodes, PersonUnlinks(n, m) PROVE Stored' /\ Grown
  <2> DEFINE object == [store[n] EXCEPT !.links = @ \ {m}]
  <2>1. object \in Objects /\ store[n].val <= object.val
    BY DEF TInv, ServerType, Objects
  <2>2. Change(n, object)
    BY <1>5 DEF PersonUnlinks
  <2> HIDE DEF object
  <2> QED
    BY <2>1, <2>2, ChangeGrows
<1> QED
  BY <1>1, <1>2, <1>3, <1>4, <1>5 DEF People

\* The two writes of a caller, landing.
LEMMA WriteGrows ==
    ASSUME TInv, CInv, Stored, NEW t \in Tasks, stage[t] = "send",
           Change(op[t].node, Written(op[t]))
    PROVE  /\ Stored' /\ Grown /\ store'[op[t].node].stamp > 0
           /\ {op[t].node} \X Written(op[t]).links \subseteq ever'
<1>1. op[t] \in Ops /\ op[t].kind \in Writing /\ op[t].node \in Nodes
  BY OldOp DEF Holding
<1>2. Written(op[t]) \in Objects
  BY <1>1, WrittenType DEF TInv
<1>3. store[op[t].node].val <= Written(op[t]).val
  <2>1. CASE op[t].kind = "create"
    <3>1. store[op[t].node].val = 0
      BY <2>1 DEF CInv, Unborn, NoObject
    <3> QED
      BY <1>2, <3>1 DEF Objects
  <2>2. CASE op[t].kind # "create"
    BY <1>1, <2>2, WrittenType DEF TInv
  <2> QED
    BY <2>1, <2>2
<1> QED
  BY <1>1, <1>2, <1>3, ChangeGrows

LEMMA PatchGrows ==
    ASSUME TInv, Stored, NEW t \in Tasks, stage[t] = "patch",
           Change(op[t].node,
                  [store[op[t].node] EXCEPT !.links = op[t].ends, !.foot = op[t].ends])
    PROVE  /\ Stored' /\ Grown /\ store'[op[t].node].stamp > 0
           /\ {op[t].node} \X op[t].ends \subseteq ever'
<1> DEFINE new == [store[op[t].node] EXCEPT !.links = op[t].ends, !.foot = op[t].ends]
<1>1. op[t] \in Ops /\ op[t].node \in Nodes
  BY OldOp DEF Holding
<1>2. new \in Objects /\ new.links = op[t].ends /\ new.val = store[op[t].node].val
  BY <1>1, PatchedType DEF TInv
<1>3. Change(op[t].node, new)
  OBVIOUS
<1> HIDE DEF new
<1>4. store[op[t].node].val <= new.val
  BY <1>1, <1>2 DEF TInv, ServerType, Objects
<1> QED
  BY <1>1, <1>2, <1>3, <1>4, ChangeGrows

LEMMA CallerGrows ==
    ASSUME TInv, CInv, Stored, NEW t \in Tasks, Write(t) \/ Resync(t) PROVE Stored' /\ Grown
<1>1. CASE UNCHANGED <<clock, store, ever>>
  BY <1>1, SameGrows
<1>2. CASE UpdateNode(t) \/ AddLink(t) \/ RemoveLink(t) \/ CreateNode(t)
  BY <1>1, <1>2 DEF UpdateNode, AddLink, RemoveLink, CreateNode, Call
<1>3. CASE Lands(t) \/ Fails(t)
  BY <1>1, <1>3, WriteGrows DEF Lands, Fails
<1>4. CASE PatchLands(t) \/ PatchFails(t)
  BY <1>1, <1>4, PatchGrows DEF PatchLands, PatchFails
<1>5. CASE RollsBack(t)
  <2>1. op[t].node \in Nodes
    BY <1>5, OldOp DEF RollsBack, Holding
  <2> QED
    BY <1>1, <1>5, <2>1, DeleteGrows DEF RollsBack
<1>6. CASE Enter(t) \/ Read(t) \/ ReadFails(t) \/ Returns(t) \/ Fetch(t) \/ Apply(t)
  BY <1>1, <1>6 DEF Enter, Read, ReadFails, Returns, Fetch, Apply
<1> QED
  BY <1>2, <1>3, <1>4, <1>5, <1>6 DEF Write, Resync

\* What callers and index hold stays true of a space that has grown.
LEMMA AnswersKept ==
    ASSUME TInv, TInv', Grown, NEW t \in Tasks, Answered(t), op'[t].answer = op[t].answer
    PROVE  Answered(t)'
<1>1. ASSUME NEW n \in DOMAIN op[t].answer
      PROVE  /\ store'[n].stamp > 0 /\ op[t].answer[n].val <= store'[n].val
             /\ {n} \X op[t].answer[n].links \subseteq ever'
  <2>1. /\ n \in Nodes /\ op[t].answer[n].val \in Nat
        /\ store[n].val \in Nat /\ store'[n].val \in Nat
    BY OldOp DEF TInv, ServerType, Objects
  <2>2. store[n].stamp > 0 /\ op[t].answer[n].val <= store[n].val
    BY DEF Answered
  <2>3. store'[n].stamp > 0 /\ store[n].val <= store'[n].val
    BY <2>1, <2>2 DEF Grown
  <2> QED
    BY <2>1, <2>2, <2>3 DEF Answered, Grown
<1> QED
  BY <1>1 DEF Answered

LEMMA OthersLead ==
    ASSUME TInv, TInv', NInv, Grown, NEW t \in Tasks, op'[t] = op[t], stage'[t] = stage[t]
    PROVE  Answered(t)' /\ Sent(t)' /\ Plain(t)'
<1>1. Answered(t)'
  BY AnswersKept DEF NInv
<1>2. Sent(t)'
  BY OldOp DEF NInv, Sent, Grown, Holding
<1>3. Plain(t)'
  BY DEF NInv, Plain
<1> QED
  BY <1>1, <1>2, <1>3

LEMMA IndexLeads ==
    ASSUME TInv, TInv', NInv, Grown, UNCHANGED index PROVE NeverLeads'
<1>1. ASSUME NEW n \in Nodes PROVE index[n].val <= store'[n].val
  <2>1. index[n].val \in Nat /\ store[n].val \in Nat /\ store'[n].val \in Nat
    BY DEF TInv, IndexType, ServerType, Objects
  <2> QED
    BY <2>1 DEF NInv, NeverLeads, Grown
<1> QED
  BY <1>1 DEF NInv, NeverLeads, Grown

\* A step of caller t that leaves the index alone.
LEMMA CallerLeads ==
    ASSUME TInv, TInv', CInv, NInv, NEW t \in Tasks, Write(t) \/ Resync(t),
           UNCHANGED index, Answered(t)', Sent(t)', Plain(t)'
    PROVE  NInv'
<1>1. Stored' /\ Grown
  BY CallerGrows DEF NInv
<1>2. \A u \in Tasks \ {t} : Answered(u)' /\ Sent(u)' /\ Plain(u)'
  BY <1>1, Others, OthersLead
<1> QED
  BY <1>1, <1>2, IndexLeads DEF NInv

LEMMA EndLeads ==
    ASSUME TInv, NEW t \in Tasks, Ends(t) PROVE Answered(t)' /\ Sent(t)' /\ Plain(t)'
<1>1. op'[t] = NoOp /\ stage'[t] = "idle"
  BY DEF Ends, Goes, TInv, OpType, LockType
<1> QED
  BY <1>1, NoOpType DEF Answered, Sent, Plain, NoOp

LEMMA LandsLeads ==
    ASSUME TInv, TInv', CInv, NInv, NEW t \in Tasks, Lands(t) PROVE NInv'
<1> DEFINE o == op[t]
           n == op[t].node
<1>1. o \in Ops /\ o.kind \in Writing /\ n \in Nodes /\ stage[t] = "send"
  BY OldOp DEF Lands, Holding
<1>2. /\ Stored' /\ Grown /\ store'[n].stamp > 0
      /\ {n} \X Written(o).links \subseteq ever'
  BY <1>1, WriteGrows DEF Lands, NInv
<1>3. op'[t] = [o EXCEPT !.answer = [m \in {n} |-> store'[m]]]
  BY DEF Lands, TInv, OpType
<1>4. /\ op'[t].kind = o.kind /\ op'[t].node = n /\ op'[t].ends = o.ends
      /\ op'[t].answer = [m \in {n} |-> store'[m]]
  BY <1>1, <1>3 DEF Ops
<1>5. Answered(t)'
  <2>1. store'[n].val \in Nat
    BY <1>1 DEF TInv, ServerType, Objects
  <2>2. {n} \X store'[n].links \subseteq ever'
    BY <1>1, <1>2 DEF Stored
  <2> QED
    BY <1>2, <1>4, <2>1, <2>2 DEF Answered
<1>6. Sent(t)'
  <2>1. stage'[t] = IF o.kind = "create" /\ o.ends # {} THEN "patch" ELSE "sent"
    BY DEF Lands, Goes, TInv, LockType
  <2>2. CASE o.kind = "add"
    <3>1. o.ends \subseteq Written(o).links
      BY <1>1, <2>2, WrittenType DEF TInv
    <3> QED
      BY <1>2, <1>4, <3>1 DEF Sent
  <2>3. CASE o.kind \in {"update", "rewrite", "create"}
    <3>1. o.ends = {} \/ stage'[t] # "sent"
      BY <2>1, <2>3 DEF NInv, Plain
    <3> QED
      BY <1>2, <1>4, <3>1 DEF Sent
  <2>4. CASE o.kind = "remove"
    BY <1>2, <1>4, <2>4 DEF Sent
  <2> QED
    BY <1>1, <2>2, <2>3, <2>4 DEF Writing
<1>7. Plain(t)'
  BY <1>4 DEF NInv, Plain
<1> QED
  BY <1>5, <1>6, <1>7, CallerLeads DEF Write, Lands, indexVars

LEMMA ReturnsLeads ==
    ASSUME TInv, TInv', CInv, NInv, NEW t \in Tasks, Returns(t) PROVE NInv'
<1> DEFINE o == op[t]
           n == op[t].node
<1>1. o \in Ops /\ n \in Nodes /\ stage[t] = "sent"
  BY OldOp DEF Returns, Holding
<1>2. Stored' /\ Grown /\ UNCHANGED <<store, ever>>
  BY CallerGrows DEF Write, Returns, NInv
<1>3. \A u \in Tasks : Answered(u)' /\ Sent(u)' /\ Plain(u)'
  BY <1>2, Others, OthersLead, EndLeads DEF Write, Returns
<1>4. \A m \in Nodes \ {n} : index'[m] = index[m]
  BY DEF Returns, TInv, IndexType
<1>5. /\ index'[n].val = IF n \in DOMAIN o.answer THEN o.answer[n].val ELSE index[n].val
      /\ index'[n].links = IF o.kind = "remove" THEN index[n].links \ o.ends
                                                ELSE index[n].links \union o.ends
  BY <1>1 DEF Returns, TInv, IndexType
<1>6. store[n].stamp > 0 /\ (o.kind = "remove" \/ {n} \X o.ends \subseteq ever)
  BY <1>1 DEF NInv, Sent
<1>7. index'[n].val <= store[n].val
  <2>1. CASE n \in DOMAIN o.answer
    BY <1>5, <2>1 DEF NInv, Answered
  <2>2. CASE n \notin DOMAIN o.answer
    BY <1>1, <1>5, <2>2 DEF NInv, NeverLeads
  <2> QED
    BY <2>1, <2>2
<1>8. {n} \X index'[n].links \subseteq ever
  <2>1. {n} \X index[n].links \subseteq ever
    BY <1>1 DEF NInv, NeverLeads
  <2> QED
    BY <1>5, <1>6, <2>1
<1>9. NeverLeads'
  BY <1>2, <1>4, <1>6, <1>7, <1>8 DEF NInv, NeverLeads
<1> QED
  BY <1>2, <1>3, <1>9 DEF NInv

LEMMA WriteLeads ==
    ASSUME TInv, TInv', CInv, NInv, NEW t \in Tasks, Write(t) PROVE NInv'
<1> DEFINE o == op[t]
<1>1. \A s : Goes(t, s) => stage'[t] = s
  BY DEF Goes, TInv, LockType
<1>2. Stored' /\ Grown
  BY CallerGrows DEF NInv
<1>3. CASE UpdateNode(t) \/ AddLink(t) \/ RemoveLink(t) \/ CreateNode(t)
  <2>1. ASSUME NEW kind, NEW n, NEW ends, NEW foot, Call(t, kind, n, ends, foot),
               kind \in {"update", "rewrite"} => ends = {}
        PROVE  UNCHANGED index /\ Answered(t)' /\ Sent(t)' /\ Plain(t)'
    <3>1. /\ op'[t] = [NoOp EXCEPT !.kind = kind, !.node = n, !.ends = ends, !.foot = foot]
          /\ stage'[t] = "wait" /\ UNCHANGED index
      BY <2>1 DEF Call, indexVars, TInv, OpType, LockType
    <3>2. op'[t].kind = kind /\ op'[t].ends = ends /\ op'[t].answer = NoOp.answer
      BY <3>1 DEF NoOp
    <3> QED
      BY <2>1, <3>1, <3>2, NoOpType DEF Answered, Sent, Plain
  <2>3. UNCHANGED index /\ Answered(t)' /\ Sent(t)' /\ Plain(t)'
    <3>1. CASE UpdateNode(t)
      BY <2>1, <3>1 DEF UpdateNode
    <3>2. CASE AddLink(t)
      BY <2>1, <3>2 DEF AddLink
    <3>3. CASE RemoveLink(t)
      BY <2>1, <3>3 DEF RemoveLink
    <3>4. CASE CreateNode(t)
      BY <2>1, <3>4 DEF CreateNode
    <3> QED
      BY <1>3, <3>1, <3>2, <3>3, <3>4
  <2> QED
    BY <2>3, CallerLeads
<1>4. CASE Enter(t)
  <2>1. UNCHANGED <<index, store, ever, op>> /\ stage'[t] = "send"
    BY <1>1, <1>4 DEF Enter, indexVars
  <2>2. Answered(t)' /\ Sent(t)' /\ Plain(t)'
    BY <2>1 DEF NInv, Answered, Sent, Plain
  <2> QED
    BY <2>1, <2>2, CallerLeads
<1>5. CASE Read(t)
  <2>1. /\ UNCHANGED <<index, store, ever>> /\ o \in Ops /\ o.node \in Nodes
        /\ store[o.node].live /\ o.kind \in {"add", "remove"}
    BY <1>5, OldOp DEF Read, indexVars
  <2>2. /\ op'[t].kind = o.kind /\ op'[t].node = o.node /\ op'[t].ends = o.ends
        /\ op'[t].answer = o.answer /\ op'[t].targets = store[o.node].links
    BY <1>5, <2>1 DEF Read, TInv, OpType, Ops
  <2>3. stage'[t] = "sent" => o.kind = "add" /\ o.ends \subseteq store[o.node].links
    BY <1>1, <1>5, <2>2 DEF Read
  <2>4. Sent(t)'
    BY <2>1, <2>2, <2>3 DEF NInv, Stored, Sent
  <2>5. Answered(t)' /\ Plain(t)'
    BY <2>1, <2>2 DEF NInv, Answered, Plain
  <2> QED
    BY <2>1, <2>4, <2>5, CallerLeads
<1>6. CASE ReadFails(t) \/ Fails(t) \/ RollsBack(t)
  BY <1>6, EndLeads, CallerLeads DEF ReadFails, Fails, RollsBack, indexVars
<1>7. CASE Lands(t)
  BY <1>7, LandsLeads
<1>8. CASE PatchLands(t)
  <2>1. stage[t] = "patch" /\ stage'[t] = "sent" /\ UNCHANGED index
    BY <1>1, <1>8 DEF PatchLands, indexVars
  <2>2. store'[o.node].stamp > 0 /\ {o.node} \X o.ends \subseteq ever'
    BY <1>8, PatchGrows DEF PatchLands, NInv
  <2>3. /\ op'[t].kind = o.kind /\ op'[t].node = o.node /\ op'[t].ends = o.ends
        /\ op'[t].answer = o.answer
    BY <1>8, OldOp DEF PatchLands, TInv, OpType, Ops
  <2>4. Answered(t)'
    BY <1>2, <2>3, AnswersKept DEF NInv
  <2>5. Sent(t)' /\ Plain(t)'
    BY <2>2, <2>3 DEF NInv, Sent, Plain
  <2> QED
    BY <2>1, <2>4, <2>5, CallerLeads
<1>9. CASE PatchFails(t)
  <2>1. stage'[t] = "rollback" /\ UNCHANGED <<index, op>>
    BY <1>1, <1>9 DEF PatchFails, indexVars
  <2>2. Answered(t)'
    BY <1>2, <2>1, AnswersKept DEF NInv
  <2>3. Sent(t)' /\ Plain(t)'
    BY <2>1 DEF NInv, Sent, Plain
  <2> QED
    BY <2>1, <2>2, <2>3, CallerLeads
<1>10. CASE Returns(t)
  BY <1>10, ReturnsLeads
<1> QED
  BY <1>3, <1>4, <1>5, <1>6, <1>7, <1>8, <1>9, <1>10 DEF Write

LEMMA ResyncLeads ==
    ASSUME TInv, TInv', CInv, NInv, NEW t \in Tasks, Resync(t) PROVE NInv'
<1> DEFINE o == op[t]
           fresh == Unseen(o)
<1>1. CASE Fetch(t)
  <2>1. UNCHANGED <<index, store, ever>> /\ stage'[t] = "fetched"
    BY <1>1 DEF Fetch, Goes, indexVars, TInv, LockType
  <2>2. op'[t] = [NoOp EXCEPT !.kind = "resync", !.answer = [n \in Changed |-> store[n]]]
    BY <1>1 DEF Fetch, TInv, OpType
  <2>3. op'[t].kind = "resync" /\ op'[t].answer = [n \in Changed |-> store[n]]
    BY <2>2 DEF NoOp
  <2>4. Answered(t)'
    <3>1. ASSUME NEW n \in Changed
          PROVE  n \in Nodes /\ store[n].live /\ store[n].val \in Nat
      BY DEF Changed, TInv, ServerType, Objects
    <3> QED
      BY <2>1, <2>3, <3>1 DEF NInv, Stored, Answered
  <2>5. Sent(t)' /\ Plain(t)'
    BY <2>1, <2>3 DEF Sent, Plain
  <2> QED
    BY <2>1, <2>4, <2>5, CallerLeads
<1>2. CASE Apply(t)
  <2>1. Stored' /\ Grown /\ UNCHANGED <<store, ever>>
    BY <1>2, CallerGrows DEF Apply, NInv
  <2>2. \A u \in Tasks : Answered(u)' /\ Sent(u)' /\ Plain(u)'
    BY <1>2, <2>1, Others, OthersLead, EndLeads DEF Apply
  <2>3. ASSUME NEW n \in Nodes
        PROVE  \/ index'[n] = index[n]
               \/ /\ n \in DOMAIN o.answer /\ index'[n].val = o.answer[n].val
                  /\ index'[n].links \subseteq o.answer[n].links
    <3>1. PICK place \in Orders(fresh) :
            index' = [m \in Nodes |->
                IF m \notin fresh THEN index[m]
                ELSE [held |-> TRUE, val |-> o.answer[m].val,
                      links |-> {k \in o.answer[m].links :
                                   \/ index[k].held
                                   \/ k \in fresh /\ place[k] < place[m]}]]
      BY <1>2 DEF Apply
    <3>2. n \in fresh => n \in DOMAIN o.answer
      BY DEF Unseen
    <3> HIDE DEF fresh, o
    <3> QED
      BY <3>1, <3>2
  <2>4. NeverLeads'
    BY <2>1, <2>3 DEF NInv, NeverLeads, Answered
  <2> QED
    BY <2>1, <2>2, <2>4 DEF NInv
<1> QED
  BY <1>1, <1>2 DEF Resync

LEMMA RestartLeads == ASSUME TInv, NInv, Restart PROVE NInv'
<1>1. UNCHANGED <<clock, store, ever>>
  BY DEF Restart
<1>2. \A t \in Tasks : op'[t] = NoOp /\ stage'[t] = "idle"
  BY DEF Restart
<1>3. \A t \in Tasks : Answered(t)' /\ Sent(t)' /\ Plain(t)'
  BY <1>2, NoOpType DEF Answered, Sent, Plain, NoOp
<1>4. \A n \in Nodes : store[n].val \in Nat
  BY DEF TInv, ServerType, Objects
<1>5. ASSUME NEW n \in Nodes
      PROVE  /\ index'[n].held = store[n].live /\ index'[n].val <= store[n].val
             /\ index'[n].links \subseteq store[n].links
  BY <1>4 DEF Restart, Hydrated
<1> QED
  BY <1>1, <1>3, <1>5 DEF NInv, Stored, NeverLeads

LEMMA LeadsInit == Init => NInv
<1> SUFFICES ASSUME Init PROVE NInv
  OBVIOUS
<1>1. Found.links = {} /\ Found.val = 1 /\ Found.stamp = 1
  BY DEF Found, NoObject
<1>2. NoObject.links = {} /\ NoObject.val = 0 /\ ~NoObject.live
  BY DEF NoObject
<1>3. Stored /\ NeverLeads
  <2>1. ASSUME NEW n \in Nodes
        PROVE  /\ index[n].held <=> n \in Existing
               /\ index[n].val = IF n \in Existing THEN 1 ELSE 0
               /\ index[n].links = {}
    BY DEF Init
  <2>2. ASSUME NEW n \in Nodes PROVE store[n] = IF n \in Existing THEN Found ELSE NoObject
    BY DEF Init
  <2>3. clock = 1
    BY DEF Init
  <2> QED
    BY <1>1, <1>2, <2>1, <2>2, <2>3 DEF Stored, NeverLeads
<1>4. \A t \in Tasks : Answered(t) /\ Sent(t) /\ Plain(t)
  BY NoOpType DEF Init, Answered, Sent, Plain, NoOp
<1> QED
  BY <1>3, <1>4 DEF NInv

LEMMA LeadsStep == TInv /\ TInv' /\ CInv /\ NInv /\ [Next]_vars => NInv'
<1> SUFFICES ASSUME TInv, TInv', CInv, NInv, [Next]_vars PROVE NInv'
  OBVIOUS
<1>1. CASE UNCHANGED vars
  BY <1>1 DEF vars, callVars, indexVars, NInv, Stored, NeverLeads, Answered, Sent, Plain
<1>2. CASE People
  <2>1. UNCHANGED <<stage, op, index>>
    BY <1>2 DEF People, PersonEdits, PersonCreates, PersonDeletes, PersonLinks,
                PersonUnlinks, callVars, indexVars
  <2> QED
    BY <1>2, <2>1, PeopleGrow, OthersLead, IndexLeads DEF NInv
<1> QED
  BY <1>1, <1>2, WriteLeads, ResyncLeads, RestartLeads DEF Next

\* What the index holds of an object has been in the space: it never runs ahead
\* of a write that failed, that was undone or that has not landed yet.
THEOREM IndexNeverLeads == Spec => []NeverLeads
<1>1. NInv => NeverLeads
  BY DEF NInv
<1> QED
  BY <1>1, InitType, StepType, CreatesInit, CreatesStep, LeadsInit, LeadsStep, PTL DEF Spec

(***************************************************************************)
(* Under a turn lock the repository implements the port.  Without one a    *)
(* late answer may put an older version back into the index.               *)
(***************************************************************************)
\* Objects that are alive, and nodes that are held, have a version.
Versioned == \A n \in Nodes : store[n].live => store[n].val > 0
Shown == \A n \in Nodes : IF index[n].held THEN index[n].val > 0
                                           ELSE index[n].links = {}

\* The turn lock: one call at a time.
OneCall == \A t, u \in Tasks : stage[t] # "idle" /\ stage[u] # "idle" => t = u

Busy(t) == stage[t] \in Holding \union {"wait"}

\* What a call has checked of the index is true until it returns.
Checked(o) ==
    /\ IF o.kind = "create" THEN ~index[o.node].held /\ o.ends \subseteq Held
                            ELSE index[o.node].held
    /\ o.kind = "add" => \E m \in Held : o.ends = {m}
    /\ o.kind = "remove" => \E m \in Nodes : o.ends = {m}

\* What the server has told a caller is not older than the index.
Newer(o) == \A n \in DOMAIN o.answer :
                index[n].val <= o.answer[n].val /\ o.answer[n].val > 0

Ready(t) ==
    /\ Busy(t) => Checked(op[t])
    /\ stage[t] \in {"patch", "sent"} /\ op[t].kind = "create"
            => op[t].node \in DOMAIN op[t].answer
    /\ stage[t] # "idle" => Newer(op[t])

PInv == Versioned /\ Shown /\ OneCall /\ \A t \in Tasks : Ready(t)

\* The only call in progress.
LEMMA Solo ==
    ASSUME Serial, TInv, OneCall, NEW t \in Tasks, Write(t) \/ Resync(t),
           NEW u \in Tasks \ {t}
    PROVE  stage[u] = "idle" /\ stage'[u] = "idle"
<1>1. stage[t] # "idle" \/ MayCall(t)
  BY DEF Write, Resync, UpdateNode, AddLink, RemoveLink, CreateNode, Call, Enter, Read,
         ReadFails, Lands, Fails, PatchLands, PatchFails, RollsBack, Returns, Fetch, Apply
<1>2. stage[u] = "idle"
  BY <1>1 DEF MayCall, Alone, OneCall
<1> QED
  BY <1>2, Others

\* A step of caller t: nothing else is in progress.
LEMMA CallerReady ==
    ASSUME Serial, TInv, PInv, NEW t \in Tasks, Write(t) \/ Resync(t),
           Versioned', Shown', Ready(t)'
    PROVE  PInv'
<1>1. \A u \in Tasks \ {t} : stage'[u] = "idle"
  BY Solo DEF PInv
<1>2. OneCall'
  BY <1>1 DEF OneCall
<1>3. \A u \in Tasks \ {t} : Ready(u)'
  BY <1>1 DEF Ready, Busy, Holding
<1> QED
  BY <1>2, <1>3 DEF PInv

LEMMA ChangeVersion ==
    ASSUME TInv, Versioned, NEW n \in Nodes, NEW object \in Objects, Change(n, object),
           object.live => object.val > 0
    PROVE  Versioned' /\ store'[n].val = object.val
<1>1. /\ store'[n] = [object EXCEPT !.stamp = clock']
      /\ \A m \in Nodes \ {n} : store'[m] = store[m]
  BY ChangeType DEF TInv
<1>2. store'[n].live = object.live /\ store'[n].val = object.val
  BY <1>1 DEF Objects
<1> QED
  BY <1>1, <1>2 DEF Versioned

LEMMA DeleteVersion ==
    ASSUME TInv, Versioned, NEW n \in Nodes, store' = [store EXCEPT ![n].live = FALSE]
    PROVE  Versioned'
<1>1. \A m \in Nodes \ {n} : store'[m] = store[m]
  BY DEF TInv, ServerType
<1>2. ~store'[n].live
  BY DEF TInv, ServerType, Objects
<1> QED
  BY <1>1, <1>2 DEF Versioned

LEMMA PeopleVersion == ASSUME TInv, Versioned, People PROVE Versioned'
<1>1. ASSUME NEW n \in Nodes, PersonEdits(n) PROVE Versioned'
  <2> DEFINE object == [store[n] EXCEPT !.val = @ + 1]
  <2>1. object \in Objects /\ object.val > 0 /\ Change(n, object)
    BY <1>1 DEF PersonEdits, TInv, ServerType, Objects
  <2> HIDE DEF object
  <2> QED
    BY <2>1, ChangeVersion
<1>2. ASSUME NEW n \in Nodes, PersonCreates(n) PROVE Versioned'
  <2>1. Found \in Objects /\ Found.val = 1
    BY DEF Found, NoObject, Objects
  <2> QED
    BY <1>2, <2>1, ChangeVersion DEF PersonCreates
<1>3. ASSUME NEW n \in Nodes, PersonDeletes(n) PROVE Versioned'
  BY <1>3, DeleteVersion DEF PersonDeletes
<1>4. ASSUME NEW n \in Nodes, NEW m \in Nodes, PersonLinks(n, m) PROVE Versioned'
  <2> DEFINE object == [store[n] EXCEPT !.links = @ \union {m}]
  <2>1. object \in Objects /\ object.val = store[n].val /\ Change(n, object) /\ store[n].live
    BY <1>4 DEF PersonLinks, TInv, ServerType, Objects
  <2> HIDE DEF object
  <2> QED
    BY <2>1, ChangeVersion DEF Versioned
<1>5. ASSUME NEW n \in Nodes, NEW m \in Nodes, PersonUnlinks(n, m) PROVE Versioned'
  <2> DEFINE object == [store[n] EXCEPT !.links = @ \ {m}]
  <2>1. object \in Objects /\ object.val = store[n].val /\ Change(n, object) /\ store[n].live
    BY <1>5 DEF PersonUnlinks, TInv, ServerType, Objects
  <2> HIDE DEF object
  <2> QED
    BY <2>1, ChangeVersion DEF Versioned
<1> QED
  BY <1>1, <1>2, <1>3, <1>4, <1>5 DEF People

LEMMA WriteVersion ==
    ASSUME TInv, Versioned, NEW t \in Tasks, stage[t] = "send", Reachable(op[t]),
           Change(op[t].node, Written(op[t]))
    PROVE  Versioned' /\ store'[op[t].node].val > 0
<1> DEFINE o == op[t]
<1>1. o \in Ops /\ o.kind \in Writing /\ o.node \in Nodes
  BY OldOp DEF Holding
<1>2. Written(o) \in Objects
  BY <1>1, WrittenType DEF TInv
<1>3. Written(o).val > 0
  <2>1. CASE o.kind = "create"
    <3>1. Written(o) = [live |-> TRUE, val |-> 1, links |-> {}, foot |-> {}, stamp |-> 0]
      BY <2>1 DEF Written, NoObject
    <3> QED
      BY <3>1
  <2>2. CASE o.kind # "create"
    <3>1. store[o.node].val > 0 /\ store[o.node].val \in Nat
      BY <1>1, <2>2 DEF Reachable, Versioned, TInv, ServerType, Objects
    <3>2. store[o.node].val <= Written(o).val /\ Written(o).val \in Nat
      BY <1>1, <1>2, <2>2, WrittenType DEF TInv, Objects
    <3> QED
      BY <3>1, <3>2
  <2> QED
    BY <2>1, <2>2
<1> QED
  BY <1>1, <1>2, <1>3, ChangeVersion

LEMMA PatchVersion ==
    ASSUME TInv, Versioned, NEW t \in Tasks, stage[t] = "patch", store[op[t].node].live,
           Change(op[t].node,
                  [store[op[t].node] EXCEPT !.links = op[t].ends, !.foot = op[t].ends])
    PROVE  Versioned'
<1> DEFINE new == [store[op[t].node] EXCEPT !.links = op[t].ends, !.foot = op[t].ends]
<1>1. op[t] \in Ops /\ op[t].node \in Nodes
  BY OldOp DEF Holding
<1>2. new \in Objects /\ new.val = store[op[t].node].val /\ Change(op[t].node, new)
  BY <1>1, PatchedType DEF TInv
<1> HIDE DEF new
<1> QED
  BY <1>1, <1>2, ChangeVersion DEF Versioned

LEMMA CallerVersion ==
    ASSUME TInv, Versioned, NEW t \in Tasks, Write(t) \/ Resync(t) PROVE Versioned'
<1>1. CASE UNCHANGED store
  BY <1>1 DEF Versioned
<1>2. CASE UpdateNode(t) \/ AddLink(t) \/ RemoveLink(t) \/ CreateNode(t)
  BY <1>1, <1>2 DEF UpdateNode, AddLink, RemoveLink, CreateNode, Call
<1>3. CASE Lands(t) \/ Fails(t)
  BY <1>1, <1>3, WriteVersion DEF Lands, Fails
<1>4. CASE PatchLands(t) \/ PatchFails(t)
  BY <1>1, <1>4, PatchVersion DEF PatchLands, PatchFails
<1>5. CASE RollsBack(t)
  <2>1. op[t].node \in Nodes
    BY <1>5, OldOp DEF RollsBack, Holding
  <2> QED
    BY <1>1, <1>5, <2>1, DeleteVersion DEF RollsBack
<1>6. CASE Enter(t) \/ Read(t) \/ ReadFails(t) \/ Returns(t) \/ Fetch(t) \/ Apply(t)
  BY <1>1, <1>6 DEF Enter, Read, ReadFails, Returns, Fetch, Apply
<1> QED
  BY <1>2, <1>3, <1>4, <1>5, <1>6 DEF Write, Resync

\* A call that goes on, with the index as it was.
LEMMA StillReady ==
    ASSUME TInv, NEW t \in Tasks, Ready(t), UNCHANGED index, Busy(t)' => Busy(t),
           stage[t] # "idle", op'[t].kind = op[t].kind, op'[t].node = op[t].node,
           op'[t].ends = op[t].ends,
           stage'[t] \in {"patch", "sent"} /\ op[t].kind = "create"
                => op[t].node \in DOMAIN op'[t].answer,
           op'[t].answer = op[t].answer \/ Newer(op'[t])
    PROVE  Ready(t)'
<1>1. Checked(op[t]) => Checked(op[t])'
  BY DEF Checked, Held
<1> QED
  BY <1>1 DEF Ready, Checked, Newer, Held

LEMMA EndReady == ASSUME TInv, NEW t \in Tasks, Ends(t) PROVE Ready(t)'
<1>1. stage'[t] = "idle"
  BY DEF Ends, Goes, TInv, LockType
<1> QED
  BY <1>1 DEF Ready, Busy, Holding

LEMMA StartReady ==
    ASSUME TInv, NInv, NEW t \in Tasks,
           UpdateNode(t) \/ AddLink(t) \/ RemoveLink(t) \/ CreateNode(t)
    PROVE  Ready(t)' /\ UNCHANGED index
<1>1. ASSUME NEW kind, NEW n, NEW ends, NEW foot, Call(t, kind, n, ends, foot)
      PROVE  /\ op'[t].kind = kind /\ op'[t].node = n /\ op'[t].ends = ends
             /\ DOMAIN op'[t].answer = {} /\ stage'[t] = "wait" /\ UNCHANGED index
  <2>1. /\ op'[t] = [NoOp EXCEPT !.kind = kind, !.node = n, !.ends = ends, !.foot = foot]
        /\ stage'[t] = "wait" /\ UNCHANGED index
    BY <1>1 DEF Call, indexVars, TInv, OpType, LockType
  <2>2. /\ op'[t].kind = kind /\ op'[t].node = n /\ op'[t].ends = ends
        /\ op'[t].answer = NoOp.answer
    BY <2>1 DEF NoOp
  <2> QED
    BY <2>1, <2>2, NoOpType
<1>2. ASSUME NEW kind \in Writing, NEW n \in Nodes, NEW ends, NEW foot,
             Call(t, kind, n, ends, foot),
             IF kind = "create" THEN ~index[n].held /\ ends \subseteq Held
                                ELSE index[n].held,
             kind = "add" => \E m \in Held : ends = {m},
             kind = "remove" => \E m \in Nodes : ends = {m}
      PROVE  Ready(t)' /\ UNCHANGED index
  BY <1>1, <1>2 DEF Ready, Checked, Newer, Held
<1>3. CASE UpdateNode(t)
  BY <1>2, <1>3 DEF UpdateNode, Held, Writing
<1>4. CASE AddLink(t)
  BY <1>2, <1>4 DEF AddLink, Held, Writing
<1>5. CASE RemoveLink(t)
  <2>1. PICK n \in Held : \E m \in index[n].links : Call(t, "remove", n, {m}, {})
    BY <1>5 DEF RemoveLink
  <2>2. n \in Nodes /\ index[n].held /\ index[n].links \subseteq Nodes
    BY DEF Held, TInv, IndexType
  <2> QED
    BY <1>2, <2>1, <2>2 DEF Writing
<1>6. CASE CreateNode(t)
  <2>1. PICK n \in Nodes, ends \in SUBSET Held :
            store[n] = NoObject /\ Call(t, "create", n, ends, ends)
    BY <1>6 DEF CreateNode
  <2>2. ~index[n].held
    BY <2>1 DEF NInv, NeverLeads, NoObject
  <2> QED
    BY <1>2, <2>1, <2>2 DEF Writing
<1> QED
  BY <1>3, <1>4, <1>5, <1>6

LEMMA LandsReady ==
    ASSUME TInv, TInv', CInv, NInv, Versioned, NEW t \in Tasks, Ready(t), Lands(t)
    PROVE  Ready(t)' /\ UNCHANGED index
<1> DEFINE o == op[t]
           n == op[t].node
<1>1. o \in Ops /\ n \in Nodes /\ stage[t] = "send" /\ UNCHANGED index
  BY OldOp DEF Lands, Holding, indexVars
<1>2. op'[t] = [o EXCEPT !.answer = [m \in {n} |-> store'[m]]]
  BY DEF Lands, TInv, OpType
<1>3. /\ op'[t].kind = o.kind /\ op'[t].node = n /\ op'[t].ends = o.ends
      /\ op'[t].answer = [m \in {n} |-> store'[m]]
  BY <1>1, <1>2 DEF Ops
<1>4. store'[n].val > 0
  BY <1>1, WriteVersion DEF Lands
<1>5. index[n].val <= store'[n].val
  BY <1>1, LandsLeads DEF NInv, NeverLeads
<1>6. Newer(op'[t])
  BY <1>3, <1>4, <1>5 DEF Newer
<1>7. Busy(t)
  BY <1>1 DEF Busy, Holding
<1> QED
  BY <1>1, <1>3, <1>6, <1>7, StillReady

LEMMA ReturnsIndex ==
    ASSUME TInv, PInv, NEW t \in Tasks, Returns(t)
    PROVE  LET o == op[t]
               n == op[t].node IN
           /\ o \in Ops /\ n \in Nodes /\ Checked(o)
           /\ o.kind = "create" => n \in DOMAIN o.answer
           /\ \E v \in Nat :
                /\ v = IF n \in DOMAIN o.answer THEN o.answer[n].val ELSE index[n].val
                /\ v > 0 /\ index[n].val <= v
                /\ index' = [index EXCEPT ![n] =
                      [held |-> v > 0, val |-> v,
                       links |-> IF o.kind = "remove" THEN index[n].links \ o.ends
                                                      ELSE index[n].links \union o.ends]]
<1> DEFINE o == op[t]
           n == op[t].node
           v == IF n \in DOMAIN o.answer THEN o.answer[n].val ELSE index[n].val
<1>1. o \in Ops /\ n \in Nodes /\ stage[t] = "sent"
  BY OldOp DEF Returns, Holding
<1>2. Checked(o) /\ Newer(o) /\ (o.kind = "create" => n \in DOMAIN o.answer)
  BY <1>1 DEF PInv, Ready, Busy, Holding
<1>3. index[n].val \in Nat /\ (n \in DOMAIN o.answer => o.answer[n].val \in Nat)
  BY <1>1, OldOp DEF TInv, IndexType, Objects
<1>4. n \notin DOMAIN o.answer => index[n].val > 0
  BY <1>1, <1>2 DEF Checked, PInv, Shown
<1>5. v \in Nat /\ v > 0 /\ index[n].val <= v
  BY <1>2, <1>3, <1>4 DEF Newer
<1>6. index' = [index EXCEPT ![n] =
          [held |-> v > 0, val |-> v,
           links |-> IF o.kind = "remove" THEN index[n].links \ o.ends
                                          ELSE index[n].links \union o.ends]]
  BY <1>5 DEF Returns
<1> QED
  BY <1>1, <1>2, <1>5, <1>6

LEMMA ReturnsShown == ASSUME TInv, PInv, NEW t \in Tasks, Returns(t) PROVE Shown'
<1> DEFINE o == op[t]
           n == op[t].node
<1>1. PICK v \in Nat :
        /\ v > 0
        /\ index' = [index EXCEPT ![n] =
              [held |-> v > 0, val |-> v,
               links |-> IF o.kind = "remove" THEN index[n].links \ o.ends
                                              ELSE index[n].links \union o.ends]]
  BY ReturnsIndex
<1>2. n \in Nodes
  BY ReturnsIndex
<1>3. index'[n].held /\ index'[n].val = v
  BY <1>1, <1>2 DEF TInv, IndexType
<1>4. \A m \in Nodes \ {n} : index'[m] = index[m]
  BY <1>1 DEF TInv, IndexType
<1> QED
  BY <1>1, <1>3, <1>4 DEF PInv, Shown

LEMMA WriteReady ==
    ASSUME Serial, TInv, TInv', CInv, NInv, PInv, NEW t \in Tasks, Write(t) PROVE PInv'
<1> DEFINE o == op[t]
<1>1. \A s : Goes(t, s) => stage'[t] = s
  BY DEF Goes, TInv, LockType
<1>2. Versioned'
  BY CallerVersion DEF PInv
<1>3. UNCHANGED index => Shown'
  BY DEF PInv, Shown
<1>4. Ready(t)
  BY DEF PInv
<1>5. CASE UpdateNode(t) \/ AddLink(t) \/ RemoveLink(t) \/ CreateNode(t)
  BY <1>2, <1>3, <1>5, StartReady, CallerReady
<1>6. CASE Enter(t)
  <2>1. /\ UNCHANGED <<index, op>> /\ stage'[t] = "send" /\ stage[t] = "wait"
    BY <1>1, <1>6 DEF Enter, indexVars
  <2>2. Ready(t)'
    BY <1>4, <2>1, StillReady DEF Busy, Holding
  <2> QED
    BY <1>2, <1>3, <2>1, <2>2, CallerReady
<1>7. CASE Read(t)
  <2>1. /\ UNCHANGED index /\ o \in Ops /\ stage[t] = "wait"
        /\ o.kind \in {"add", "remove"}
    BY <1>7, OldOp DEF Read, indexVars
  <2>2. /\ op'[t].kind = o.kind /\ op'[t].node = o.node /\ op'[t].ends = o.ends
        /\ op'[t].answer = o.answer
    BY <1>7, <2>1 DEF Read, TInv, OpType, Ops
  <2>3. Ready(t)'
    BY <1>4, <2>1, <2>2, StillReady DEF Busy
  <2> QED
    BY <1>2, <1>3, <2>1, <2>3, CallerReady
<1>8. CASE ReadFails(t) \/ Fails(t) \/ RollsBack(t)
  <2>1. Ready(t)' /\ UNCHANGED index
    BY <1>8, EndReady DEF ReadFails, Fails, RollsBack, indexVars
  <2> QED
    BY <1>2, <1>3, <2>1, CallerReady
<1>9. CASE Lands(t)
  BY <1>2, <1>3, <1>4, <1>9, LandsReady, CallerReady DEF PInv
<1>10. CASE PatchLands(t)
  <2>1. stage[t] = "patch" /\ stage'[t] = "sent" /\ UNCHANGED index
    BY <1>1, <1>10 DEF PatchLands, indexVars
  <2>2. /\ op'[t].kind = o.kind /\ op'[t].node = o.node /\ op'[t].ends = o.ends
        /\ op'[t].answer = o.answer
    BY <1>10, OldOp DEF PatchLands, TInv, OpType, Ops
  <2>3. o.kind = "create" => o.node \in DOMAIN op'[t].answer
    BY <1>4, <2>1, <2>2 DEF Ready
  <2>4. Ready(t)'
    BY <1>4, <2>1, <2>2, <2>3, StillReady DEF Busy, Holding
  <2> QED
    BY <1>2, <1>3, <2>1, <2>4, CallerReady
<1>11. CASE PatchFails(t)
  <2>1. stage[t] = "patch" /\ stage'[t] = "rollback" /\ UNCHANGED <<index, op>>
    BY <1>1, <1>11 DEF PatchFails, indexVars
  <2>2. Ready(t)'
    BY <1>4, <2>1, StillReady DEF Busy, Holding
  <2> QED
    BY <1>2, <1>3, <2>1, <2>2, CallerReady
<1>12. CASE Returns(t)
  BY <1>2, <1>12, ReturnsShown, EndReady, CallerReady DEF Returns
<1> QED
  BY <1>5, <1>6, <1>7, <1>8, <1>9, <1>10, <1>11, <1>12 DEF Write

\* What a resync makes of each node.
LEMMA ApplyIndex ==
    ASSUME TInv, PInv, NEW t \in Tasks, Apply(t), NEW n \in Nodes
    PROVE  \/ index'[n] = index[n]
           \/ /\ n \in DOMAIN op[t].answer /\ index'[n].held
              /\ index'[n].val = op[t].answer[n].val
              /\ index[n].val <= index'[n].val /\ index'[n].val > 0
              /\ index'[n].links \subseteq op[t].answer[n].links
              /\ \A m \in index'[n].links : index'[m].held
<1> DEFINE o == op[t]
           fresh == Unseen(o)
<1>1. PICK place \in Orders(fresh) :
        index' = [m \in Nodes |->
            IF m \notin fresh THEN index[m]
            ELSE [held |-> TRUE, val |-> o.answer[m].val,
                  links |-> {k \in o.answer[m].links :
                               \/ index[k].held
                               \/ k \in fresh /\ place[k] < place[m]}]]
  BY DEF Apply
<1>2. fresh \subseteq DOMAIN o.answer
  BY DEF Unseen
<1>3. Newer(o)
  BY DEF Apply, PInv, Ready
<1>4. ASSUME NEW m \in DOMAIN o.answer PROVE o.answer[m].links \subseteq Nodes
  BY OldOp DEF Objects
<1> HIDE DEF fresh, o
<1>5. CASE n \in fresh
  <2>1. /\ index'[n].held /\ index'[n].val = o.answer[n].val
        /\ index'[n].links = {k \in o.answer[n].links :
                                \/ index[k].held
                                \/ k \in fresh /\ place[k] < place[n]}
    BY <1>1, <1>5
  <2>2. ASSUME NEW m \in index'[n].links PROVE index'[m].held
    <3>1. m \in Nodes /\ (index[m].held \/ m \in fresh)
      BY <1>2, <1>4, <1>5, <2>1
    <3> QED
      BY <1>1, <3>1
  <2> QED
    BY <1>2, <1>3, <1>5, <2>1, <2>2 DEF Newer, o
<1>6. CASE n \notin fresh
  BY <1>1, <1>6
<1> QED
  BY <1>5, <1>6

LEMMA ResyncReady ==
    ASSUME Serial, TInv, TInv', CInv, NInv, PInv, NEW t \in Tasks, Resync(t) PROVE PInv'
<1>1. Versioned'
  BY CallerVersion DEF PInv
<1>2. CASE Fetch(t)
  <2>1. /\ UNCHANGED <<index, store>> /\ stage'[t] = "fetched"
    BY <1>2 DEF Fetch, Goes, indexVars, TInv, LockType
  <2>2. op'[t] = [NoOp EXCEPT !.kind = "resync", !.answer = [n \in Changed |-> store[n]]]
    BY <1>2 DEF Fetch, TInv, OpType
  <2>3. op'[t].kind = "resync" /\ op'[t].answer = [n \in Changed |-> store[n]]
    BY <2>2 DEF NoOp
  <2>4. \A n \in Changed : index[n].val <= store[n].val /\ store[n].val > 0
    BY DEF Changed, NInv, NeverLeads, PInv, Versioned
  <2>5. Ready(t)'
    BY <2>1, <2>3, <2>4 DEF Ready, Newer, Busy, Holding
  <2>6. Shown'
    BY <2>1 DEF PInv, Shown
  <2> QED
    BY <1>1, <2>5, <2>6, CallerReady
<1>3. CASE Apply(t)
  <2>1. Shown'
    BY <1>3, ApplyIndex DEF PInv, Shown
  <2>2. Ready(t)'
    BY <1>3, EndReady DEF Apply
  <2> QED
    BY <1>1, <2>1, <2>2, CallerReady
<1> QED
  BY <1>2, <1>3 DEF Resync

LEMMA RestartReady == ASSUME TInv, PInv, Restart PROVE PInv'
<1>1. UNCHANGED store /\ \A t \in Tasks : stage'[t] = "idle"
  BY DEF Restart
<1>2. OneCall' /\ \A t \in Tasks : Ready(t)'
  BY <1>1 DEF OneCall, Ready, Busy, Holding
<1>3. Versioned' /\ Shown'
  BY <1>1 DEF PInv, Versioned, Shown, Restart, Hydrated
<1> QED
  BY <1>2, <1>3 DEF PInv

LEMMA ReadyInit == Init => PInv
<1> SUFFICES ASSUME Init PROVE PInv
  OBVIOUS
<1>1. Found.val = 1 /\ ~NoObject.live
  BY DEF Found, NoObject
<1>2. Versioned
  <2>1. \A n \in Nodes : store[n] = IF n \in Existing THEN Found ELSE NoObject
    BY DEF Init
  <2> QED
    BY <1>1, <2>1 DEF Versioned
<1>3. Shown
  <2>1. \A n \in Nodes : /\ index[n].held <=> n \in Existing
                         /\ index[n].val = IF n \in Existing THEN 1 ELSE 0
                         /\ index[n].links = {}
    BY DEF Init
  <2> QED
    BY <2>1 DEF Shown
<1>4. OneCall /\ \A t \in Tasks : Ready(t)
  BY DEF Init, OneCall, Ready, Busy, Holding
<1> QED
  BY <1>2, <1>3, <1>4 DEF PInv

LEMMA ReadyStep ==
    ASSUME Serial PROVE TInv /\ TInv' /\ CInv /\ NInv /\ PInv /\ [Next]_vars => PInv'
<1> SUFFICES ASSUME TInv, TInv', CInv, NInv, PInv, [Next]_vars PROVE PInv'
  OBVIOUS
<1>1. CASE UNCHANGED vars
  BY <1>1 DEF vars, callVars, indexVars, PInv, Versioned, Shown, OneCall, Ready, Busy,
              Checked, Newer, Held
<1>2. CASE People
  <2>1. UNCHANGED <<stage, op, index>>
    BY <1>2 DEF People, PersonEdits, PersonCreates, PersonDeletes, PersonLinks,
                PersonUnlinks, callVars, indexVars
  <2>2. Shown' /\ OneCall' /\ \A t \in Tasks : Ready(t)'
    BY <2>1 DEF PInv, Shown, OneCall, Ready, Busy, Checked, Newer, Held
  <2> QED
    BY <1>2, <2>2, PeopleVersion DEF PInv
<1> QED
  BY <1>1, <1>2, WriteReady, ResyncReady, RestartReady DEF Next

(***************************************************************************)
(* Each step, seen through the port.                                       *)
(***************************************************************************)
\* The store as the port sees it.
Space == [n \in Nodes |-> [held |-> store[n].live, val |-> store[n].val,
                           links |-> store[n].links]]

LEMMA PersistStep ==
    ASSUME TInv', Stored, Stored', NEW n \in Nodes, UNCHANGED index,
           \A m \in Nodes \ {n} : store'[m] = store[m],
           ever \subseteq ever', ever' \subseteq ever \union ({n} \X store'[n].links)
    PROVE  Port!Next
<1>1. \A m \in Nodes \ {n} : Space'[m] = Space[m]
  BY DEF Space
<1>2. \A m \in Nodes : Space'[m].links = store'[m].links /\ store'[m].links \subseteq Nodes
  BY DEF Space, TInv, ServerType, Objects
<1>3. ever' = ever \union {e \in Nodes \X Nodes : e[2] \in Space'[e[1]].links}
  <2>1. {n} \X store'[n].links \subseteq {e \in Nodes \X Nodes : e[2] \in Space'[e[1]].links}
    BY <1>2
  <2>2. ASSUME NEW e \in Nodes \X Nodes, e[2] \in Space'[e[1]].links PROVE e \in ever'
    BY <1>2, <2>2 DEF Stored
  <2> QED
    BY <2>1, <2>2
<1>4. Port!Persist
  BY <1>1, <1>3 DEF Port!Persist, Space
<1> QED
  BY <1>4 DEF Port!Next

LEMMA ChangePersists ==
    ASSUME TInv, TInv', Stored, Stored', NEW n \in Nodes, NEW object \in Objects,
           Change(n, object), UNCHANGED index
    PROVE  Port!Next
<1>1. /\ store'[n] = [object EXCEPT !.stamp = clock']
      /\ \A m \in Nodes \ {n} : store'[m] = store[m]
      /\ ever' = ever \union LinksOf(n, object)
  BY ChangeType DEF TInv
<1>2. store'[n].links = object.links
  BY <1>1 DEF Objects
<1>3. LinksOf(n, object) = {n} \X object.links
  BY DEF LinksOf
<1> QED
  BY <1>1, <1>2, <1>3, PersistStep

LEMMA DeletePersists ==
    ASSUME TInv, TInv', Stored, Stored', NEW n \in Nodes,
           store' = [store EXCEPT ![n].live = FALSE], UNCHANGED <<index, ever>>
    PROVE  Port!Next
<1>1. \A m \in Nodes \ {n} : store'[m] = store[m]
  BY DEF TInv, ServerType
<1> QED
  BY <1>1, PersistStep

LEMMA PeoplePersist == ASSUME TInv, TInv', Stored, People PROVE Port!Next
<1>1. Stored'
  BY PeopleGrow
<1>2. UNCHANGED index
  BY DEF People, PersonEdits, PersonCreates, PersonDeletes, PersonLinks, PersonUnlinks,
         indexVars
<1>3. ASSUME NEW n \in Nodes, PersonEdits(n) PROVE Port!Next
  <2> DEFINE object == [store[n] EXCEPT !.val = @ + 1]
  <2>1. object \in Objects /\ Change(n, object)
    BY <1>3 DEF PersonEdits, TInv, ServerType, Objects
  <2> HIDE DEF object
  <2> QED
    BY <1>1, <1>2, <2>1, ChangePersists
<1>4. ASSUME NEW n \in Nodes, PersonCreates(n) PROVE Port!Next
  <2>1. Found \in Objects
    BY DEF Found, NoObject, Objects
  <2> QED
    BY <1>1, <1>2, <1>4, <2>1, ChangePersists DEF PersonCreates
<1>5. ASSUME NEW n \in Nodes, PersonDeletes(n) PROVE Port!Next
  BY <1>1, <1>2, <1>5, DeletePersists DEF PersonDeletes
<1>6. ASSUME NEW n \in Nodes, NEW m \in Nodes, PersonLinks(n, m) PROVE Port!Next
  <2> DEFINE object == [store[n] EXCEPT !.links = @ \union {m}]
  <2>1. object \in Objects /\ Change(n, object)
    BY <1>6 DEF PersonLinks, TInv, ServerType, Objects
  <2> HIDE DEF object
  <2> QED
    BY <1>1, <1>2, <2>1, ChangePersists
<1>7. ASSUME NEW n \in Nodes, NEW m \in Nodes, PersonUnlinks(n, m) PROVE Port!Next
  <2> DEFINE object == [store[n] EXCEPT !.links = @ \ {m}]
  <2>1. object \in Objects /\ Change(n, object)
    BY <1>7 DEF PersonUnlinks, TInv, ServerType, Objects
  <2> HIDE DEF object
  <2> QED
    BY <1>1, <1>2, <2>1, ChangePersists
<1> QED
  BY <1>3, <1>4, <1>5, <1>6, <1>7 DEF People

\* A step of a caller that leaves the index alone reaches one object or none.
LEMMA CallerPersists ==
    ASSUME TInv, TInv', CInv, NInv, NEW t \in Tasks, Write(t) \/ Resync(t), UNCHANGED index
    PROVE  Port!Next \/ UNCHANGED <<index, store, ever>>
<1>1. Stored /\ Stored'
  BY CallerGrows DEF NInv
<1>2. stage[t] \in Holding => op[t] \in Ops /\ op[t].node \in Nodes /\ op[t].kind \in Writing
  BY OldOp
<1>3. CASE UpdateNode(t) \/ AddLink(t) \/ RemoveLink(t) \/ CreateNode(t)
  BY <1>3 DEF UpdateNode, AddLink, RemoveLink, CreateNode, Call
<1>4. CASE Lands(t) \/ Fails(t)
  <2>1. stage[t] = "send" /\ Written(op[t]) \in Objects /\ op[t].node \in Nodes
    BY <1>2, <1>4, WrittenType DEF Lands, Fails, Holding, TInv
  <2> QED
    BY <1>1, <1>4, <2>1, ChangePersists DEF Lands, Fails
<1>5. CASE PatchLands(t) \/ PatchFails(t)
  <2> DEFINE new == [store[op[t].node] EXCEPT !.links = op[t].ends, !.foot = op[t].ends]
  <2>1. op[t].node \in Nodes /\ new \in Objects
    BY <1>2, <1>5, PatchedType DEF PatchLands, PatchFails, Holding, TInv
  <2>2. Change(op[t].node, new) \/ UNCHANGED <<index, store, ever>>
    BY <1>5 DEF PatchLands, PatchFails
  <2> HIDE DEF new
  <2> QED
    BY <1>1, <2>1, <2>2, ChangePersists
<1>6. CASE RollsBack(t)
  <2>1. op[t].node \in Nodes
    BY <1>2, <1>6 DEF RollsBack, Holding
  <2> QED
    BY <1>1, <1>6, <2>1, DeletePersists DEF RollsBack
<1>7. CASE Enter(t) \/ Read(t) \/ ReadFails(t) \/ Returns(t) \/ Fetch(t) \/ Apply(t)
  BY <1>7 DEF Enter, Read, ReadFails, Returns, Fetch, Apply
<1> QED
  BY <1>3, <1>4, <1>5, <1>6, <1>7 DEF Write, Resync

\* A call that returns is one operation of the port.
LEMMA ReturnsPort ==
    ASSUME TInv, NInv, PInv, NEW t \in Tasks, Returns(t) PROVE Port!Next
<1> DEFINE o == op[t]
           n == op[t].node
           became == IF o.kind = "remove" THEN index[n].links \ o.ends
                                          ELSE index[n].links \union o.ends
<1>1. /\ o \in Ops /\ n \in Nodes /\ Checked(o)
      /\ o.kind = "create" => n \in DOMAIN o.answer
  BY ReturnsIndex
<1>2. PICK v \in Nat :
        /\ v = IF n \in DOMAIN o.answer THEN o.answer[n].val ELSE index[n].val
        /\ v > 0 /\ index[n].val <= v
        /\ index' = [index EXCEPT ![n] = [held |-> v > 0, val |-> v, links |-> became]]
  BY ReturnsIndex
<1>3. v <= store[n].val
  BY <1>1, <1>2 DEF NInv, NeverLeads, Answered
<1>4. v \in index[n].val..store[n].val /\ Space[n].val = store[n].val
  BY <1>1, <1>2, <1>3 DEF TInv, IndexType, ServerType, Objects, Space
<1>5. Port!Becomes(n, became)
  BY <1>2, <1>4 DEF Port!Becomes, Space
<1>6. UNCHANGED <<Space, ever>> /\ stage[t] = "sent"
  BY DEF Returns, Space
<1>7. o.kind \in Writing
  BY <1>6, OldOp DEF Holding
<1>8. o.kind # "remove" => {n} \X o.ends \subseteq ever
  BY <1>6 DEF NInv, Sent
<1>9. /\ o.kind = "create" => ~index[n].held /\ o.ends \subseteq Held
      /\ o.kind # "create" => index[n].held
  BY <1>1 DEF Checked
<1>10. /\ o.kind = "add" => \E m \in Held : o.ends = {m}
       /\ o.kind = "remove" => \E m \in Nodes : o.ends = {m}
  BY <1>1 DEF Checked
<1> HIDE DEF o, n
<1>11. CASE o.kind = "create"
  <2>1. index[n].links = {}
    BY <1>1, <1>9, <1>11 DEF PInv, Shown
  <2>2. became = o.ends
    BY <1>11, <2>1
  <2>3. o.ends \in SUBSET {m \in Nodes : index[m].held} /\ ~index[n].held
    BY <1>9, <1>11 DEF Held
  <2>4. Port!CreateNode(n)
    BY <1>5, <1>8, <1>11, <2>2, <2>3 DEF Port!CreateNode, Port!Stored
  <2> QED
    BY <1>1, <1>6, <2>4 DEF Port!Next, Port!Indexed, Space
<1>12. CASE o.kind \in {"update", "rewrite"}
  <2>1. became = index[n].links
    BY <1>12 DEF NInv, Plain, o
  <2>2. Port!UpdateNode(n)
    BY <1>9, <1>5, <1>12, <2>1 DEF Port!UpdateNode
  <2> QED
    BY <1>1, <1>6, <2>2 DEF Port!Next, Port!Indexed, Space
<1>13. CASE o.kind = "add"
  <2>1. PICK m \in Held : o.ends = {m}
    BY <1>10, <1>13
  <2>2. became = index[n].links \union {m} /\ m \in Nodes /\ index[m].held
    BY <1>13, <2>1 DEF Held
  <2>3. Port!AddLink(n, m)
    BY <1>9, <1>5, <1>8, <1>13, <2>1, <2>2 DEF Port!AddLink, Port!Stored
  <2> QED
    BY <1>1, <1>6, <2>2, <2>3 DEF Port!Next, Port!Indexed, Space
<1>14. CASE o.kind = "remove"
  <2>1. PICK m \in Nodes : o.ends = {m}
    BY <1>10, <1>14
  <2>2. became = index[n].links \ {m}
    BY <1>14, <2>1
  <2>3. Port!RemoveLink(n, m)
    BY <1>9, <1>5, <1>14, <2>2 DEF Port!RemoveLink
  <2> QED
    BY <1>1, <1>6, <2>3 DEF Port!Next, Port!Indexed, Space
<1> QED
  BY <1>7, <1>11, <1>12, <1>13, <1>14 DEF Writing

LEMMA ApplyPort == ASSUME TInv, TInv', NInv, PInv, NEW t \in Tasks, Apply(t) PROVE Port!Next
<1>1. UNCHANGED <<Space, ever>>
  BY DEF Apply, Space
<1>2. ASSUME NEW n \in Nodes, index'[n] # index[n]
      PROVE  /\ index'[n].held /\ index'[n].val \in index[n].val..Space[n].val
             /\ {n} \X index'[n].links \subseteq ever
             /\ \A m \in index'[n].links : index'[m].held
  <2>1. /\ n \in DOMAIN op[t].answer /\ index'[n].held
        /\ index'[n].val = op[t].answer[n].val /\ index[n].val <= index'[n].val
        /\ index'[n].links \subseteq op[t].answer[n].links
        /\ \A m \in index'[n].links : index'[m].held
    BY <1>2, ApplyIndex
  <2>2. op[t].answer[n].val <= store[n].val /\ {n} \X op[t].answer[n].links \subseteq ever
    BY <2>1 DEF NInv, Answered
  <2>3. index[n].val \in Nat /\ index'[n].val \in Nat /\ store[n].val \in Nat
    BY DEF TInv, IndexType, ServerType, Objects
  <2> QED
    BY <2>1, <2>2, <2>3 DEF Space
<1>3. Port!Resync
  BY <1>2 DEF Port!Resync, Port!Stored, Space
<1> QED
  BY <1>1, <1>3 DEF Port!Next, Port!Indexed, Space

LEMMA RestartPort == ASSUME TInv, Restart PROVE Port!Next
<1>1. UNCHANGED <<store, ever>>
  BY DEF Restart
<1>2. index' = [n \in Nodes |->
          [held |-> store[n].live,
           val |-> IF store[n].live THEN store[n].val ELSE 0,
           links |-> IF store[n].live
                     THEN {m \in store[n].links : store[m].live} ELSE {}]]
  BY DEF Restart, Hydrated
<1>3. \A n \in Nodes : store[n].links \subseteq Nodes
  BY DEF TInv, ServerType, Objects
<1>4. index' = Port!Derived(Space)
  BY <1>2, <1>3 DEF Port!Derived, Space
<1>5. Port!Hydrate
  BY <1>4 DEF Port!Hydrate, Space
<1> QED
  BY <1>1, <1>5 DEF Port!Next, Port!Indexed

LEMMA PortInit == Init => Port!Init
<1> SUFFICES ASSUME Init PROVE Port!Init
  OBVIOUS
<1>1. /\ Found.live = TRUE /\ Found.val = 1 /\ Found.links = {}
      /\ NoObject.live = FALSE
  BY DEF Found, NoObject
<1>2. \A n \in Nodes : store[n] = IF n \in Existing THEN Found ELSE NoObject
  BY DEF Init
<1>3. index = [n \in Nodes |-> [held |-> n \in Existing,
                                val |-> IF n \in Existing THEN 1 ELSE 0, links |-> {}]]
  BY DEF Init
<1>4. ASSUME NEW n \in Nodes
      PROVE  /\ Space[n].held \in BOOLEAN /\ (Space[n].held <=> n \in Existing)
             /\ n \in Existing => Space[n].val = 1 /\ Space[n].links = {}
  BY <1>1, <1>2 DEF Space
<1>5. ASSUME NEW n \in Nodes
      PROVE  [held |-> n \in Existing, val |-> IF n \in Existing THEN 1 ELSE 0, links |-> {}]
             = [held |-> Space[n].held, val |-> IF Space[n].held THEN Space[n].val ELSE 0,
                links |-> IF Space[n].held
                          THEN {m \in Space[n].links : Space[m].held} ELSE {}]
  BY <1>4
<1>6. index = Port!Derived(Space)
  BY <1>3, <1>5 DEF Port!Derived
<1> QED
  BY <1>6 DEF Port!Init, Space, Init

LEMMA PortStep ==
    ASSUME Serial
    PROVE  TInv /\ TInv' /\ CInv /\ NInv /\ PInv /\ [Next]_vars => [Port!Next]_Port!vars
<1> SUFFICES ASSUME TInv, TInv', CInv, NInv, PInv, [Next]_vars
             PROVE  Port!Next \/ UNCHANGED <<index, store, ever>>
  BY DEF Port!vars
<1>1. CASE UNCHANGED vars
  BY <1>1 DEF vars, indexVars
<1>2. CASE People
  BY <1>2, PeoplePersist DEF NInv
<1>3. CASE Restart
  BY <1>3, RestartPort
<1>4. ASSUME NEW t \in Tasks, Write(t) \/ Resync(t)
      PROVE  Port!Next \/ UNCHANGED <<index, store, ever>>
  <2>1. CASE Returns(t)
    BY <2>1, ReturnsPort
  <2>2. CASE Apply(t)
    BY <2>2, ApplyPort
  <2>3. CASE ~Returns(t) /\ ~Apply(t)
    <3>1. UNCHANGED index
      BY <1>4, <2>3, StartReady DEF Write, Resync, Enter, Read, ReadFails, Lands, Fails,
         PatchLands, PatchFails, RollsBack, Fetch, indexVars
    <3> QED
      BY <1>4, <3>1, CallerPersists
  <2> QED
    BY <2>1, <2>2, <2>3
<1> QED
  BY <1>1, <1>2, <1>3, <1>4 DEF Next

\* Under the turn lock, the repository over the server keeps the promise of the
\* graph port: a call that returns is one whole operation, a create whose links
\* fail never shows, and a resync or a restart takes nothing back.
THEOREM PortImplemented == ASSUME Serial PROVE Spec => ImplementsPort
<1>1. TInv /\ TInv' /\ CInv /\ NInv /\ PInv /\ [Next]_vars => PInv'
  BY ReadyStep
<1>2. TInv /\ TInv' /\ CInv /\ NInv /\ PInv /\ [Next]_vars => [Port!Next]_Port!vars
  BY PortStep
<1> QED
  BY <1>1, <1>2, InitType, StepType, CreatesInit, CreatesStep, LeadsInit, LeadsStep,
     ReadyInit, PortInit, PTL DEF Spec, ImplementsPort, Port!Spec

(***************************************************************************)
(* Under a turn lock the footer shows every link the bot has made.         *)
(***************************************************************************)
Inked(n) == {m \in Nodes : <<n, m>> \in inked}
Footed == \A n \in Nodes : Inked(n) \subseteq store[n].foot

\* A link whose write has landed, and which the index takes over on return.
Coming(n, m) ==
    \E t \in Tasks : /\ stage[t] = "sent" /\ op[t].kind \in {"add", "create"}
                     /\ op[t].node = n /\ m \in op[t].ends
Indexed == \A n, m \in Nodes : <<n, m>> \in inked =>
                index[m].held /\ (m \in index[n].links \/ Coming(n, m))

\* What a call has drawn from the index or read from the space shows them too,
\* until it is written or applied.
Drawn(t) ==
    /\ stage[t] \in {"wait", "send"} /\ op[t].kind = "rewrite"
            => Inked(op[t].node) \subseteq op[t].foot
    /\ stage[t] = "send" /\ op[t].kind = "add"
            => Inked(op[t].node) \union op[t].ends \subseteq op[t].foot
    /\ stage[t] = "send" /\ op[t].kind = "remove"
            => Inked(op[t].node) \ op[t].ends \subseteq op[t].foot
    /\ stage[t] = "sent" /\ op[t].kind = "remove"
            => Inked(op[t].node) \intersect op[t].ends = {}
    /\ stage[t] = "fetched" =>
            \A n \in DOMAIN op[t].answer : Inked(n) \subseteq op[t].answer[n].links

WInv == Footed /\ Indexed /\ \A t \in Tasks : Drawn(t)

LEMMA ChangeFoots ==
    ASSUME TInv, Footed, NEW n \in Nodes, NEW object \in Objects, Change(n, object),
           \A a \in Nodes \ {n} : Inked(a)' \subseteq Inked(a),
           Inked(n)' \subseteq object.foot
    PROVE  Footed'
<1>1. /\ store'[n] = [object EXCEPT !.stamp = clock']
      /\ \A m \in Nodes \ {n} : store'[m] = store[m]
  BY ChangeType DEF TInv
<1>2. store'[n].foot = object.foot
  BY <1>1 DEF Objects
<1> QED
  BY <1>1, <1>2 DEF Footed

LEMMA FewerFoots ==
    ASSUME TInv, Footed, inked' \subseteq inked, NEW n \in Nodes,
           \/ UNCHANGED store
           \/ store' = [store EXCEPT ![n].live = FALSE]
           \/ \E object \in Objects : Change(n, object) /\ object.foot = store[n].foot
    PROVE  Footed'
<1>1. \A a \in Nodes : Inked(a)' \subseteq Inked(a)
  BY DEF Inked
<1>2. CASE UNCHANGED store
  BY <1>1, <1>2 DEF Footed
<1>3. CASE store' = [store EXCEPT ![n].live = FALSE]
  <2>1. \A m \in Nodes : store'[m].foot = store[m].foot
    BY <1>3 DEF TInv, ServerType, Objects
  <2> QED
    BY <1>1, <2>1 DEF Footed
<1>4. CASE \E object \in Objects : Change(n, object) /\ object.foot = store[n].foot
  BY <1>1, <1>4, ChangeFoots DEF Footed
<1> QED
  BY <1>2, <1>3, <1>4

LEMMA PeopleFoot == ASSUME TInv, KInv, WInv, People PROVE WInv'
<1>1. ASSUME NEW n \in Nodes, PersonEdits(n) PROVE Footed' /\ inked' \subseteq inked
  <2> DEFINE object == [store[n] EXCEPT !.val = @ + 1]
  <2>1. object \in Objects /\ object.foot = store[n].foot /\ Change(n, object)
    BY <1>1 DEF PersonEdits, TInv, ServerType, Objects
  <2>2. UNCHANGED inked
    BY <1>1 DEF PersonEdits
  <2> HIDE DEF object
  <2> QED
    BY <2>1, <2>2, FewerFoots DEF WInv
<1>2. ASSUME NEW n \in Nodes, PersonCreates(n) PROVE Footed' /\ inked' \subseteq inked
  <2>1. Found \in Objects
    BY DEF Found, NoObject, Objects
  <2>2. Change(n, Found) /\ ~store[n].live /\ UNCHANGED inked
    BY <1>2 DEF PersonCreates, NoObject
  <2>3. Inked(n)' = {} /\ \A a \in Nodes : Inked(a)' = Inked(a)
    BY <2>2 DEF Inked, KInv, Kept
  <2> QED
    BY <2>1, <2>2, <2>3, ChangeFoots DEF WInv
<1>3. ASSUME NEW n \in Nodes, PersonDeletes(n) PROVE Footed' /\ inked' \subseteq inked
  BY <1>3, FewerFoots DEF PersonDeletes, WInv
<1>4. ASSUME NEW n \in Nodes, NEW m \in Nodes, PersonLinks(n, m)
      PROVE  Footed' /\ inked' \subseteq inked
  <2> DEFINE object == [store[n] EXCEPT !.links = @ \union {m}]
  <2>1. object \in Objects /\ object.foot = store[n].foot /\ Change(n, object)
    BY <1>4 DEF PersonLinks, TInv, ServerType, Objects
  <2>2. UNCHANGED inked
    BY <1>4 DEF PersonLinks
  <2> HIDE DEF object
  <2> QED
    BY <2>1, <2>2, FewerFoots DEF WInv
<1>5. ASSUME NEW n \in Nodes, NEW m \in Nodes, PersonUnlinks(n, m)
      PROVE  Footed' /\ inked' \subseteq inked
  <2> DEFINE object == [store[n] EXCEPT !.links = @ \ {m}]
  <2>1. object \in Objects /\ object.foot = store[n].foot /\ Change(n, object)
    BY <1>5 DEF PersonUnlinks, TInv, ServerType, Objects
  <2>2. inked' \subseteq inked
    BY <1>5 DEF PersonUnlinks
  <2> HIDE DEF object
  <2> QED
    BY <2>1, <2>2, FewerFoots DEF WInv
<1>6. UNCHANGED <<stage, op, index>>
  BY DEF People, PersonEdits, PersonCreates, PersonDeletes, PersonLinks, PersonUnlinks,
         callVars, indexVars
<1>7. Footed' /\ inked' \subseteq inked
  BY <1>1, <1>2, <1>3, <1>4, <1>5 DEF People
<1>8. Indexed'
  BY <1>6, <1>7 DEF WInv, Indexed, Coming
<1>9. \A n : Inked(n)' \subseteq Inked(n)
  BY <1>7 DEF Inked
<1>10. ASSUME NEW t \in Tasks PROVE Drawn(t)'
  BY <1>6, <1>9 DEF WInv, Drawn
<1> QED
  BY <1>7, <1>8, <1>10 DEF WInv

\* Only the call in progress has links on their way.
LEMMA NoneComing ==
    ASSUME Serial, TInv, PInv, WInv, NEW t \in Tasks, Write(t) \/ Resync(t),
           stage[t] # "sent"
    PROVE  \A n, m \in Nodes : <<n, m>> \in inked => index[m].held /\ m \in index[n].links
<1>1. \A u \in Tasks : stage[u] # "sent"
  BY Solo DEF PInv
<1> QED
  BY <1>1 DEF WInv, Indexed, Coming

LEMMA CallerFoots ==
    ASSUME Serial, TInv, PInv, NEW t \in Tasks, Write(t) \/ Resync(t),
           Footed', Indexed', Drawn(t)'
    PROVE  WInv'
<1>1. \A u \in Tasks \ {t} : stage'[u] = "idle"
  BY Solo DEF PInv
<1>2. \A u \in Tasks \ {t} : Drawn(u)'
  BY <1>1 DEF Drawn
<1> QED
  BY <1>2 DEF WInv

\* A call goes on or fails before its write is answered.
LEMMA StepFoots ==
    ASSUME Serial, TInv, PInv, WInv, NEW t \in Tasks, Write(t) \/ Resync(t),
           stage[t] # "sent", UNCHANGED index, inked' \subseteq inked, Footed', Drawn(t)'
    PROVE  WInv'
<1>1. Indexed'
  BY NoneComing DEF Indexed
<1> QED
  BY <1>1, CallerFoots

LEMMA EndDrawn == ASSUME TInv, NEW t \in Tasks, Ends(t) PROVE Drawn(t)'
<1>1. stage'[t] = "idle"
  BY DEF Ends, Goes, TInv, LockType
<1> QED
  BY <1>1 DEF Drawn

LEMMA StartFoots ==
    ASSUME Serial, TInv, PInv, WInv, NEW t \in Tasks,
           UpdateNode(t) \/ AddLink(t) \/ RemoveLink(t) \/ CreateNode(t)
    PROVE  WInv'
<1>1. ASSUME NEW kind, NEW n, NEW ends, NEW foot, Call(t, kind, n, ends, foot)
      PROVE  /\ op'[t].kind = kind /\ op'[t].node = n /\ op'[t].foot = foot
             /\ stage'[t] = "wait" /\ stage[t] = "idle"
             /\ UNCHANGED <<index, store, inked>>
  <2>1. /\ op'[t] = [NoOp EXCEPT !.kind = kind, !.node = n, !.ends = ends, !.foot = foot]
        /\ stage'[t] = "wait" /\ stage[t] = "idle" /\ UNCHANGED <<index, store, inked>>
    BY <1>1 DEF Call, MayCall, indexVars, TInv, OpType, LockType
  <2> QED
    BY <2>1 DEF NoOp
<1>2. stage'[t] = "wait" /\ stage[t] = "idle" /\ UNCHANGED <<index, store, inked>>
  BY <1>1 DEF UpdateNode, AddLink, RemoveLink, CreateNode
<1>3. op'[t].kind = "rewrite" =>
          \E n \in Nodes : op'[t].node = n /\ op'[t].foot = index[n].links
  <2>1. CASE UpdateNode(t)
    BY <1>1, <2>1 DEF UpdateNode, Held
  <2>2. CASE AddLink(t)
    BY <1>1, <2>2 DEF AddLink
  <2>3. CASE RemoveLink(t)
    BY <1>1, <2>3 DEF RemoveLink
  <2>4. CASE CreateNode(t)
    BY <1>1, <2>4 DEF CreateNode
  <2> QED
    BY <2>1, <2>2, <2>3, <2>4
<1>4. \A n \in Nodes : Inked(n) \subseteq index[n].links
  BY <1>2, NoneComing DEF Inked, Write
<1>5. Drawn(t)'
  BY <1>2, <1>3, <1>4 DEF Drawn, Inked
<1>6. Footed'
  BY <1>2 DEF WInv, Footed, Inked
<1> QED
  BY <1>2, <1>5, <1>6, StepFoots DEF Write

LEMMA ReadFoots == ASSUME Serial, TInv, PInv, WInv, NEW t \in Tasks, Read(t) PROVE WInv'
<1>0. PICK o \in Ops : o = op[t]
  BY OldOp
<1>1. o.node \in Nodes /\ stage[t] = "wait" /\ UNCHANGED <<index, store, inked>>
  BY <1>0, OldOp DEF Read, indexVars
<1>2. /\ op'[t].kind = o.kind /\ op'[t].node = o.node /\ op'[t].ends = o.ends
      /\ op'[t].foot = Footer(o)
  BY <1>0, <1>1 DEF Read, TInv, OpType, Ops
<1>3. /\ o.kind \in {"add", "remove"}
      /\ stage'[t] = "send" \/ (stage'[t] = "sent" /\ o.kind = "add")
  <2>1. /\ o.kind \in {"add", "remove"}
        /\ stage'[t] = IF o.kind = "add" /\ o.ends \subseteq op'[t].targets
                       THEN "sent" ELSE "send"
    BY <1>0 DEF Read, Goes, TInv, LockType
  <2> QED
    BY <2>1
<1>4. Inked(o.node) \subseteq index[o.node].links
  BY <1>1, NoneComing DEF Inked, Write
<1>5. Drawn(t)'
  <2>1. Inked(o.node)' = Inked(o.node)
    BY <1>1 DEF Inked
  <2> QED
    BY <1>2, <1>3, <1>4, <2>1 DEF Drawn, Footer
<1>6. Footed'
  BY <1>1 DEF WInv, Footed, Inked
<1> QED
  BY <1>1, <1>5, <1>6, StepFoots DEF Write

LEMMA WrittenFoot ==
    ASSUME ServerType, NEW o \in Ops, o.kind \in Writing, o.node \in Nodes
    PROVE  /\ o.kind = "update" => Written(o).foot = store[o.node].foot
           /\ o.kind \in {"rewrite", "add", "remove"} => Written(o).foot = o.foot
<1> DEFINE object == store[o.node]
<1>1. object \in Objects
  BY DEF ServerType
<1> HIDE DEF object
<1>2. CASE o.kind = "update"
  BY <1>1, <1>2 DEF Written, Objects, object
<1>3. CASE o.kind = "rewrite"
  BY <1>1, <1>3 DEF Written, Objects, object
<1>4. CASE o.kind = "add"
  BY <1>1, <1>4 DEF Written, Objects, object
<1>5. CASE o.kind = "remove"
  BY <1>1, <1>5 DEF Written, Objects, object
<1>6. CASE o.kind = "create"
  BY <1>6
<1> QED
  BY <1>2, <1>3, <1>4, <1>5, <1>6 DEF Writing

\* The write reaches the store, whether the caller hears of it or not.
LEMMA WriteFoots ==
    ASSUME TInv, CInv, KInv, WInv, NEW t \in Tasks, stage[t] = "send",
           Reachable(op[t]), Change(op[t].node, Written(op[t])),
           NEW known \in BOOLEAN, Links(op[t], known)
    PROVE  Footed'
<1>0. PICK o \in Ops, n \in Nodes : o = op[t] /\ n = o.node
  BY OldOp DEF Holding
<1>1. o.kind \in Writing
  BY <1>0, OldOp DEF Holding
<1>2. Written(o) \in Objects
  BY <1>0, <1>1, WrittenType DEF TInv
<1>3. Drawn(t) /\ Inked(n) \subseteq store[n].foot
  BY DEF WInv, Footed
<1>4. inked' \subseteq inked \/ (o.kind = "add" /\ inked' = inked \union Edges(o))
  BY <1>0 DEF Links
<1>5. \A a \in Nodes \ {n} : Inked(a)' \subseteq Inked(a)
  BY <1>0, <1>4 DEF Inked, Edges
<1>6. Inked(n)' \subseteq Written(o).foot
  <2>1. CASE o.kind = "add"
    <3>1. Inked(n)' \subseteq Inked(n) \union o.ends
      BY <1>4 DEF Inked, Edges
    <3> QED
      BY <1>0, <1>1, <1>3, <2>1, <3>1, WrittenFoot DEF Drawn, TInv
  <2>2. CASE o.kind = "remove"
    <3>1. Inked(n)' \subseteq Inked(n) \ o.ends
      BY <1>0, <2>2 DEF Links, Inked, Edges, KInv, Kept
    <3> QED
      BY <1>0, <1>1, <1>3, <2>2, <3>1, WrittenFoot DEF Drawn, TInv
  <2>3. CASE o.kind = "create"
    <3>1. Inked(n)' = {}
      BY <1>0, <1>4, <2>3, UnbornDead DEF Inked, KInv, Kept
    <3> QED
      BY <3>1
  <2>4. CASE o.kind \in {"update", "rewrite"}
    <3>1. Inked(n)' \subseteq Inked(n)
      BY <1>4, <2>4 DEF Inked
    <3> QED
      BY <1>0, <1>1, <1>3, <2>4, <3>1, WrittenFoot DEF Drawn, TInv
  <2> QED
    BY <1>1, <2>1, <2>2, <2>3, <2>4 DEF Writing
<1> QED
  BY <1>0, <1>2, <1>5, <1>6, ChangeFoots DEF WInv

LEMMA LandsFoots ==
    ASSUME Serial, TInv, CInv, KInv, PInv, WInv, NEW t \in Tasks, Lands(t) PROVE WInv'
<1>0. PICK o \in Ops, n \in Nodes : o = op[t] /\ n = o.node
  BY OldOp DEF Lands, Holding
<1>1. stage[t] = "send" /\ Links(o, TRUE) /\ UNCHANGED index
  BY <1>0 DEF Lands, indexVars
<1>2. op'[t].kind = o.kind /\ op'[t].node = n /\ op'[t].ends = o.ends
  BY <1>0 DEF Lands, TInv, OpType, Ops
<1>3. stage'[t] = "sent" \/ (stage'[t] = "patch" /\ o.kind = "create")
  <2>1. stage'[t] = IF o.kind = "create" /\ o.ends # {} THEN "patch" ELSE "sent"
    BY <1>0 DEF Lands, Goes, TInv, LockType
  <2> QED
    BY <2>1
<1>4. Footed'
  BY <1>0, <1>1, WriteFoots DEF Lands
<1>5. \A a, b \in Nodes : <<a, b>> \in inked => index[b].held /\ b \in index[a].links
  BY <1>1, NoneComing DEF Write
<1>6. CASE o.kind = "add"
  <2>1. \A a, b \in Nodes : <<a, b>> \in inked' => <<a, b>> \in inked \/ (a = n /\ b \in o.ends)
    BY <1>0, <1>1, <1>6 DEF Links, Edges
  <2>2. \A b \in o.ends : index[b].held
    BY <1>0, <1>1, <1>6 DEF PInv, Ready, Busy, Holding, Checked, Held
  <2>3. \A b \in o.ends : Coming(n, b)'
    BY <1>2, <1>3, <1>6 DEF Coming
  <2>4. Indexed'
    BY <1>1, <1>5, <2>1, <2>2, <2>3 DEF Indexed
  <2>5. Drawn(t)'
    BY <1>2, <1>3, <1>6 DEF Drawn
  <2> QED
    BY <1>4, <2>4, <2>5, CallerFoots DEF Write
<1>7. CASE o.kind # "add"
  <2>1. inked' \subseteq inked
    BY <1>1, <1>7 DEF Links
  <2>2. o.kind = "remove" => Inked(n)' \intersect o.ends = {}
    BY <1>0, <1>1 DEF Links, Inked, Edges, KInv, Kept
  <2>3. Drawn(t)'
    BY <1>2, <1>3, <2>2 DEF Drawn
  <2> QED
    BY <1>1, <1>4, <2>1, <2>3, StepFoots DEF Write
<1> QED
  BY <1>6, <1>7

LEMMA PatchFoots ==
    ASSUME TInv, KInv, WInv, NEW t \in Tasks, stage[t] = "patch", store[op[t].node].live,
           Change(op[t].node,
                  [store[op[t].node] EXCEPT !.links = op[t].ends, !.foot = op[t].ends]),
           inked' \subseteq inked \union Edges(op[t])
    PROVE  Footed'
<1>1. PICK o \in Ops, n \in Nodes : o = op[t] /\ n = o.node
  BY OldOp DEF Holding
<1> DEFINE new == [store[n] EXCEPT !.links = o.ends, !.foot = o.ends]
<1>2. new \in Objects /\ new.foot = o.ends
  <2>1. new \in Objects
    BY <1>1, PatchedType DEF TInv
  <2> QED
    BY <1>1, <2>1 DEF Objects, TInv, ServerType
<1>3. Inked(n)' \subseteq o.ends
  BY <1>1 DEF Inked, KInv, Patching, Edges
<1>4. \A a \in Nodes \ {n} : Inked(a)' \subseteq Inked(a)
  BY <1>1 DEF Inked, Edges
<1>5. Change(n, new)
  BY <1>1
<1> HIDE DEF new
<1> QED
  BY <1>1, <1>2, <1>3, <1>4, <1>5, ChangeFoots DEF WInv

LEMMA PatchLandsFoots ==
    ASSUME Serial, TInv, KInv, PInv, WInv, NEW t \in Tasks, PatchLands(t) PROVE WInv'
<1>0. PICK o \in Ops, n \in Nodes : o = op[t] /\ n = o.node
  BY OldOp DEF PatchLands, Holding
<1>1. /\ o.kind = "create" /\ stage[t] = "patch"
      /\ UNCHANGED index /\ inked' = inked \union Edges(o)
  BY <1>0, OldOp DEF PatchLands, indexVars
<1>2. op'[t].kind = o.kind /\ op'[t].node = n /\ op'[t].ends = o.ends /\ stage'[t] = "sent"
  BY <1>0 DEF PatchLands, Goes, TInv, OpType, LockType, Ops
<1>3. Footed'
  BY <1>0, <1>1, PatchFoots DEF PatchLands
<1>4. \A a, b \in Nodes : <<a, b>> \in inked => index[b].held /\ b \in index[a].links
  BY <1>1, NoneComing DEF Write
<1>5. \A b \in o.ends : index[b].held /\ Coming(n, b)'
  <2>1. \A b \in o.ends : index[b].held
    BY <1>0, <1>1 DEF PInv, Ready, Busy, Holding, Checked, Held
  <2> QED
    BY <1>1, <1>2, <2>1 DEF Coming
<1>6. Indexed'
  BY <1>0, <1>1, <1>4, <1>5 DEF Indexed, Edges
<1>7. Drawn(t)'
  BY <1>1, <1>2 DEF Drawn
<1> QED
  BY <1>3, <1>6, <1>7, CallerFoots DEF Write

LEMMA ReturnsFoots ==
    ASSUME Serial, TInv, PInv, WInv, NEW t \in Tasks, Returns(t) PROVE WInv'
<1> DEFINE o == op[t]
           n == op[t].node
<1>1. stage[t] = "sent" /\ UNCHANGED <<store, inked>> /\ n \in Nodes
  BY OldOp DEF Returns, Holding
<1>2. Footed' /\ Drawn(t)'
  BY <1>1, EndDrawn DEF Returns, WInv, Footed, Inked
<1>3. /\ index'[n].held
      /\ index'[n].links = IF o.kind = "remove" THEN index[n].links \ o.ends
                                                ELSE index[n].links \union o.ends
      /\ \A m \in Nodes \ {n} : index'[m] = index[m]
  BY <1>1 DEF Returns, TInv, IndexType
<1>4. \A u \in Tasks : stage[u] = "sent" => u = t
  BY <1>1 DEF PInv, OneCall
<1>5. ASSUME NEW a \in Nodes, NEW b \in Nodes, <<a, b>> \in inked
      PROVE  index'[b].held /\ b \in index'[a].links
  <2>1. index[b].held /\ (b \in index[a].links \/ Coming(a, b))
    BY <1>5 DEF WInv, Indexed
  <2>2. Coming(a, b) => a = n /\ b \in o.ends /\ o.kind # "remove"
    BY <1>4 DEF Coming
  <2>3. a = n /\ o.kind = "remove" => b \notin o.ends
    BY <1>1, <1>5 DEF WInv, Drawn, Inked
  <2> QED
    BY <1>3, <2>1, <2>2, <2>3
<1>6. Indexed'
  BY <1>1, <1>5 DEF Indexed
<1> QED
  BY <1>2, <1>6, CallerFoots DEF Write

LEMMA WriteStepFoots ==
    ASSUME Serial, TInv, CInv, KInv, PInv, WInv, NEW t \in Tasks, Write(t) PROVE WInv'
<1>1. \A s : Goes(t, s) => stage'[t] = s
  BY DEF Goes, TInv, LockType
<1>2. UNCHANGED <<store, inked>> => Footed'
  BY DEF WInv, Footed, Inked
<1>3. CASE UpdateNode(t) \/ AddLink(t) \/ RemoveLink(t) \/ CreateNode(t)
  BY <1>3, StartFoots
<1>4. CASE Enter(t)
  <2>1. /\ UNCHANGED <<index, op, store, inked>> /\ stage'[t] = "send" /\ stage[t] = "wait"
        /\ op[t].kind \in {"update", "rewrite", "create"}
    BY <1>1, <1>4 DEF Enter, indexVars
  <2>2. Drawn(t)'
    BY <2>1 DEF WInv, Drawn, Inked
  <2> QED
    BY <1>2, <2>1, <2>2, StepFoots
<1>5. CASE Read(t)
  BY <1>5, ReadFoots
<1>6. CASE ReadFails(t)
  <2>1. stage[t] = "wait" /\ UNCHANGED <<index, store, inked>> /\ Drawn(t)'
    BY <1>6, EndDrawn DEF ReadFails, indexVars
  <2> QED
    BY <1>2, <2>1, StepFoots
<1>7. CASE Lands(t)
  BY <1>7, LandsFoots
<1>8. CASE Fails(t)
  <2>1. stage[t] = "send" /\ UNCHANGED index /\ Drawn(t)'
    BY <1>8, EndDrawn DEF Fails, indexVars
  <2>2. Footed' /\ inked' \subseteq inked
    <3>1. CASE UNCHANGED <<store, inked>>
      BY <1>2, <3>1
    <3>2. CASE /\ Reachable(op[t]) /\ Change(op[t].node, Written(op[t]))
               /\ Links(op[t], FALSE)
      BY <2>1, <3>2, WriteFoots DEF Links
    <3> QED
      BY <1>8, <3>1, <3>2 DEF Fails
  <2> QED
    BY <2>1, <2>2, StepFoots
<1>9. CASE PatchLands(t)
  BY <1>9, PatchLandsFoots
<1>10. CASE PatchFails(t)
  <2>1. /\ stage[t] = "patch" /\ stage'[t] = "rollback" /\ UNCHANGED <<index, inked>>
    BY <1>1, <1>10 DEF PatchFails, indexVars
  <2>2. Footed'
    BY <1>2, <1>10, <2>1, PatchFoots DEF PatchFails
  <2>3. Drawn(t)'
    BY <2>1 DEF Drawn
  <2> QED
    BY <2>1, <2>2, <2>3, StepFoots
<1>11. CASE RollsBack(t)
  <2>1. stage[t] = "rollback" /\ UNCHANGED index /\ Drawn(t)' /\ op[t].node \in Nodes
    BY <1>11, EndDrawn, OldOp DEF RollsBack, indexVars, Holding
  <2>2. Footed' /\ inked' \subseteq inked
    BY <1>2, <1>11, <2>1, FewerFoots DEF RollsBack, WInv
  <2> QED
    BY <2>1, <2>2, StepFoots
<1>12. CASE Returns(t)
  BY <1>12, ReturnsFoots
<1> QED
  BY <1>3, <1>4, <1>5, <1>6, <1>7, <1>8, <1>9, <1>10, <1>11, <1>12 DEF Write

\* A resync takes over every link to what the index holds.
LEMMA ApplyLinks ==
    ASSUME TInv, NEW t \in Tasks, Apply(t), NEW n \in Nodes
    PROVE  /\ index[n].held => index'[n].held
           /\ \/ index'[n] = index[n]
              \/ /\ n \in DOMAIN op[t].answer
                 /\ \A m \in op[t].answer[n].links :
                        index[m].held => m \in index'[n].links
<1> DEFINE o == op[t]
           fresh == Unseen(o)
<1>1. PICK place \in Orders(fresh) :
        index' = [m \in Nodes |->
            IF m \notin fresh THEN index[m]
            ELSE [held |-> TRUE, val |-> o.answer[m].val,
                  links |-> {k \in o.answer[m].links :
                               \/ index[k].held
                               \/ k \in fresh /\ place[k] < place[m]}]]
  BY DEF Apply
<1>2. fresh \subseteq DOMAIN o.answer
  BY DEF Unseen
<1> HIDE DEF fresh, o
<1>3. CASE n \in fresh
  BY <1>1, <1>2, <1>3 DEF o
<1>4. CASE n \notin fresh
  BY <1>1, <1>4
<1> QED
  BY <1>3, <1>4

LEMMA ResyncFoots ==
    ASSUME Serial, TInv, KInv, PInv, WInv, NEW t \in Tasks, Resync(t) PROVE WInv'
<1>1. CASE Fetch(t)
  <2>1. /\ UNCHANGED <<index, store, inked>> /\ stage[t] = "idle" /\ stage'[t] = "fetched"
    BY <1>1 DEF Fetch, MayCall, Goes, indexVars, TInv, LockType
  <2>2. op'[t] = [NoOp EXCEPT !.kind = "resync", !.answer = [n \in Changed |-> store[n]]]
    BY <1>1 DEF Fetch, TInv, OpType
  <2>3. op'[t].answer = [n \in Changed |-> store[n]]
    BY <2>2 DEF NoOp
  <2>4. \A n \in Changed : Inked(n)' \subseteq store[n].links
    BY <2>1 DEF Changed, Inked, KInv, Kept
  <2>5. Drawn(t)'
    BY <2>1, <2>3, <2>4 DEF Drawn
  <2>6. Footed'
    BY <2>1 DEF WInv, Footed, Inked
  <2> QED
    BY <2>1, <2>5, <2>6, StepFoots
<1>2. CASE Apply(t)
  <2>1. UNCHANGED <<store, inked>> /\ stage[t] = "fetched" /\ Drawn(t)'
    BY <1>2, EndDrawn DEF Apply
  <2>2. Footed'
    BY <2>1 DEF WInv, Footed, Inked
  <2>3. ASSUME NEW a \in Nodes, NEW b \in Nodes, <<a, b>> \in inked
        PROVE  index'[b].held /\ b \in index'[a].links
    <3>1. index[b].held /\ b \in index[a].links
      BY <2>1, <2>3, NoneComing
    <3>2. a \in DOMAIN op[t].answer => b \in op[t].answer[a].links
      BY <2>1, <2>3 DEF WInv, Drawn, Inked
    <3> QED
      BY <1>2, <3>1, <3>2, ApplyLinks
  <2>4. Indexed'
    BY <2>1, <2>3 DEF Indexed
  <2> QED
    BY <2>1, <2>2, <2>4, CallerFoots
<1> QED
  BY <1>1, <1>2 DEF Resync

LEMMA RestartFoots == ASSUME TInv, KInv, WInv, Restart PROVE WInv'
<1>1. UNCHANGED <<store, inked>> /\ \A t \in Tasks : stage'[t] = "idle"
  BY DEF Restart
<1>2. Footed' /\ \A t \in Tasks : Drawn(t)'
  BY <1>1 DEF WInv, Footed, Inked, Drawn
<1>3. \A n \in Nodes :
        /\ index'[n].held = store[n].live
        /\ store[n].live => index'[n].links = {m \in store[n].links : store[m].live}
  BY DEF Restart, Hydrated
<1>4. Indexed'
  BY <1>1, <1>3 DEF Indexed, KInv, Kept
<1> QED
  BY <1>2, <1>4 DEF WInv

LEMMA FootsStep ==
    ASSUME Serial PROVE TInv /\ CInv /\ KInv /\ PInv /\ WInv /\ [Next]_vars => WInv'
<1> SUFFICES ASSUME TInv, CInv, KInv, PInv, WInv, [Next]_vars PROVE WInv'
  OBVIOUS
<1>1. CASE UNCHANGED vars
  BY <1>1 DEF vars, callVars, indexVars, WInv, Footed, Indexed, Coming, Drawn, Inked
<1> QED
  BY <1>1, PeopleFoot, WriteStepFoots, ResyncFoots, RestartFoots DEF Next

\* Under the turn lock the footer of an object shows every link the bot has made on
\* it: a body rewrite draws its footer before it holds the write lock, and nothing
\* that runs in between makes a link (update_node, _footer_markdown).
THEOREM FootersShown == ASSUME Serial PROVE Spec => []FooterKept
<1>1. Init => WInv
  BY DEF Init, WInv, Footed, Indexed, Drawn, Inked
<1>2. TInv /\ CInv /\ KInv /\ PInv /\ WInv /\ [Next]_vars => WInv'
  BY FootsStep
<1>3. TInv /\ TInv' /\ CInv /\ NInv /\ PInv /\ [Next]_vars => PInv'
  BY ReadyStep
<1>4. Init => KInv
  BY DEF Init, KInv, Kept, Reading, Patching
<1>5. TInv /\ WInv => FooterKept
  <2> SUFFICES ASSUME TInv, WInv, NEW e \in inked PROVE e[2] \in store[e[1]].foot
    BY DEF FooterKept
  <2>1. PICK n \in Nodes, m \in Nodes : e = <<n, m>>
    BY DEF TInv, LinkType
  <2> QED
    BY <2>1 DEF WInv, Footed, Inked
<1> QED
  BY <1>1, <1>2, <1>3, <1>4, <1>5, InitType, StepType, CreatesInit, CreatesStep, KeptStep,
     LeadsInit, LeadsStep, ReadyInit, PTL DEF Spec

(***************************************************************************)
(* Under a turn lock a resync reports no write of the bot.                 *)
(***************************************************************************)
\* The call will account for what it has written to n, or n is going.
Pays(t, n) ==
    /\ op[t].node = n
    /\ \/ stage[t] \in {"patch", "rollback"}
       \/ /\ stage[t] = "sent" /\ n \in DOMAIN op[t].answer
          /\ store[n].stamp <= NewestStamp(op[t], 0)

\* What nobody from outside has changed carries a stamp accounted for.
Silent(n) ==
    store[n].live /\ n \notin touched
        => store[n].stamp <= seen[n] \/ \E t \in Tasks : Pays(t, n)

\* So does what a resync has fetched of it.
Heard(t) ==
    stage[t] = "fetched" =>
        \A n \in DOMAIN op[t].answer : n \in touched \/ op[t].answer[n].stamp <= seen[n]

SInv == (\A n \in Nodes : Silent(n)) /\ \A t \in Tasks : Heard(t)

LEMMA LargerOfBoth ==
    ASSUME NEW a \in Nat, NEW b \in Nat
    PROVE  Larger(a, b) \in Nat /\ a <= Larger(a, b) /\ b <= Larger(a, b)
BY DEF Larger

LEMMA NewestOfAll ==
    ASSUME NEW o \in Ops, o.node \in DOMAIN o.answer, NEW before \in Nat
    PROVE  /\ NewestStamp(o, before) \in Nat /\ before <= NewestStamp(o, before)
           /\ NewestStamp(o, 0) <= NewestStamp(o, before)
           /\ o.patched <= NewestStamp(o, before)
           /\ o.answer[o.node].stamp <= NewestStamp(o, before)
<1>1. o.patched \in Nat /\ o.answer[o.node].stamp \in Nat
  BY DEF Ops, Answers, Objects
<1> QED
  BY <1>1 DEF NewestStamp, Larger

LEMMA PeopleSilent == ASSUME TInv, SInv, People PROVE SInv'
<1>1. UNCHANGED <<stage, op, seen>> /\ touched \subseteq touched'
  BY DEF People, PersonEdits, PersonCreates, PersonDeletes, PersonLinks, PersonUnlinks,
         callVars, indexVars, outsideVars
<1>2. PICK n \in Nodes :
        /\ \A m \in Nodes \ {n} : store'[m] = store[m]
        /\ n \in touched' \/ ~store'[n].live
  <2>1. ASSUME NEW n \in Nodes, NEW object, Change(n, object), n \in touched'
        PROVE  \A m \in Nodes \ {n} : store'[m] = store[m]
    BY <2>1 DEF Change, TInv, ServerType
  <2>2. ASSUME NEW n \in Nodes, PersonDeletes(n)
        PROVE  ~store'[n].live /\ \A m \in Nodes \ {n} : store'[m] = store[m]
    BY <2>2 DEF PersonDeletes, TInv, ServerType, Objects
  <2>3. PICK n \in Nodes :
          \/ n \in touched' /\ \E object : Change(n, object)
          \/ PersonDeletes(n)
    BY DEF People, PersonEdits, PersonCreates, PersonLinks, PersonUnlinks
  <2> QED
    BY <2>1, <2>2, <2>3
<1>3. ASSUME NEW m \in Nodes PROVE Silent(m)'
  <2>1. CASE m = n
    BY <1>2, <2>1 DEF Silent
  <2>2. CASE m # n
    <3>1. store'[m] = store[m]
      BY <1>2, <2>2
    <3>2. \A t \in Tasks : Pays(t, m) => Pays(t, m)'
      BY <1>1, <3>1 DEF Pays, NewestStamp, Larger
    <3> QED
      BY <1>1, <3>1, <3>2 DEF SInv, Silent
  <2> QED
    BY <2>1, <2>2
<1>4. \A t \in Tasks : Heard(t)'
  BY <1>1 DEF SInv, Heard
<1> QED
  BY <1>3, <1>4 DEF SInv

\* Before a write lands, every stamp of the bot is accounted for.
LEMMA NonePays ==
    ASSUME Serial, TInv, PInv, SInv, NEW t \in Tasks, Write(t) \/ Resync(t),
           stage[t] \notin {"patch", "rollback", "sent"}
    PROVE  \A n \in Nodes : store[n].live /\ n \notin touched => store[n].stamp <= seen[n]
<1>1. \A u \in Tasks : stage[u] \notin {"patch", "rollback", "sent"}
  BY Solo DEF PInv
<1> QED
  BY <1>1 DEF SInv, Silent, Pays

\* A step of caller t that touches object n alone.
LEMMA CallerSilent ==
    ASSUME Serial, TInv, PInv, SInv, NEW t \in Tasks, Write(t) \/ Resync(t),
           NEW n \in Nodes, n = op[t].node \/ stage[t] \notin Holding,
           \A m \in Nodes \ {n} : store'[m] = store[m] /\ seen'[m] = seen[m],
           touched \subseteq touched', Silent(n)', Heard(t)'
    PROVE  SInv'
<1>1. \A u \in Tasks \ {t} : stage[u] = "idle" /\ stage'[u] = "idle"
  BY Solo DEF PInv
<1>2. ASSUME NEW m \in Nodes \ {n} PROVE Silent(m)'
  <2>1. \A u \in Tasks : ~Pays(u, m)
    BY <1>1 DEF Pays, Holding
  <2> QED
    BY <2>1 DEF SInv, Silent
<1>3. \A u \in Tasks \ {t} : Heard(u)'
  BY <1>1 DEF Heard
<1> QED
  BY <1>2, <1>3 DEF SInv

\* A step before the write, which changes nothing that counts.
LEMMA QuietSilent ==
    ASSUME Serial, TInv, PInv, SInv, NEW t \in Tasks, Write(t) \/ Resync(t),
           stage[t] \notin {"patch", "rollback", "sent"}, UNCHANGED <<store, seen>>,
           touched \subseteq touched', Heard(t)'
    PROVE  SInv'
<1>1. \A n \in Nodes : Silent(n)'
  BY NonePays DEF Silent
<1>2. \A u \in Tasks \ {t} : stage'[u] = "idle"
  BY Solo DEF PInv
<1>3. \A u \in Tasks \ {t} : Heard(u)'
  BY <1>2 DEF Heard
<1> QED
  BY <1>1, <1>3 DEF SInv

LEMMA LandsSilent ==
    ASSUME Serial, TInv, TInv', PInv, SInv, NEW t \in Tasks, Lands(t) PROVE SInv'
<1>1. PICK n \in Nodes : n = op[t].node
  BY OldOp DEF Lands, Holding
<1>2. /\ op'[t] \in Ops /\ op'[t].node = n /\ op'[t].answer = [m \in {n} |-> store'[m]]
      /\ UNCHANGED <<seen, touched>>
  BY <1>1, OldOp DEF Lands, indexVars, outsideVars, TInv, OpType, Ops
<1>3. stage'[t] \in {"patch", "sent"}
  BY DEF Lands, Goes, TInv, LockType
<1>4. \A m \in Nodes \ {n} : store'[m] = store[m]
  BY <1>1 DEF Lands, Change, TInv, ServerType
<1>5. Pays(t, n)'
  <2>1. store'[n].stamp <= NewestStamp(op'[t], 0)
    BY <1>2, NewestOfAll
  <2>2. NewestStamp(op[t], 0)' = NewestStamp(op'[t], 0)
    BY DEF NewestStamp, Larger
  <2> QED
    BY <1>2, <1>3, <2>1, <2>2 DEF Pays
<1>6. Silent(n)' /\ Heard(t)'
  BY <1>3, <1>5 DEF Silent, Heard
<1> QED
  BY <1>1, <1>2, <1>4, <1>6, CallerSilent DEF Write

LEMMA PatchLandsSilent ==
    ASSUME Serial, TInv, TInv', PInv, SInv, NEW t \in Tasks, PatchLands(t) PROVE SInv'
<1>1. PICK n \in Nodes : n = op[t].node
  BY OldOp DEF PatchLands, Holding
<1>2. /\ op'[t] \in Ops /\ op'[t].node = n /\ op'[t].answer = op[t].answer
      /\ op'[t].patched = clock'
      /\ UNCHANGED <<seen, touched>>
  BY <1>1, OldOp DEF PatchLands, indexVars, outsideVars, TInv, OpType, Ops
<1>3. stage'[t] = "sent" /\ stage[t] = "patch"
  BY DEF PatchLands, Goes, TInv, LockType
<1>4. \A m \in Nodes \ {n} : store'[m] = store[m]
  BY <1>1 DEF PatchLands, Change, TInv, ServerType
<1>5. store'[n].stamp = clock'
  BY <1>1 DEF PatchLands, Change, TInv, ServerType, Objects
<1>6. n \in DOMAIN op'[t].answer
  BY <1>1, <1>2, <1>3, OldOp DEF PInv, Ready
<1>7. Pays(t, n)'
  <2>1. store'[n].stamp <= NewestStamp(op'[t], 0)
    BY <1>2, <1>5, <1>6, NewestOfAll
  <2> QED
    BY <1>2, <1>3, <1>6, <2>1 DEF Pays, NewestStamp, Larger
<1>8. Silent(n)' /\ Heard(t)'
  BY <1>3, <1>7 DEF Silent, Heard
<1> QED
  BY <1>1, <1>2, <1>4, <1>8, CallerSilent DEF Write

LEMMA ReturnsSilent ==
    ASSUME Serial, TInv, PInv, SInv, NEW t \in Tasks, Returns(t) PROVE SInv'
<1>1. PICK o \in Ops, n \in Nodes : o = op[t] /\ n = o.node
  BY OldOp DEF Returns, Holding
<1>2. stage[t] = "sent" /\ stage'[t] = "idle" /\ UNCHANGED <<store, touched>>
  BY DEF Returns, Ends, Goes, outsideVars, TInv, LockType
<1>3. seen[n] \in Nat
  BY DEF TInv, ServerType, IndexType
<1>4. Pays(t, n) => n \in DOMAIN o.answer /\ store[n].stamp <= NewestStamp(o, 0)
  BY <1>1, <1>2 DEF Pays
<1>5. \A u \in Tasks \ {t} : ~Pays(u, n)
  BY <1>2 DEF Pays, PInv, OneCall
<1>6. CASE n \in DOMAIN o.answer
  <2>1. seen' = [seen EXCEPT ![n] = NewestStamp(o, seen[n])]
    BY <1>1, <1>6 DEF Returns
  <2>2. seen'[n] = NewestStamp(o, seen[n]) /\ \A m \in Nodes \ {n} : seen'[m] = seen[m]
    BY <2>1 DEF TInv, IndexType
  <2>3. /\ seen[n] <= seen'[n] /\ NewestStamp(o, 0) <= seen'[n]
        /\ NewestStamp(o, 0) \in Nat /\ seen'[n] \in Nat
    BY <1>1, <1>3, <1>6, <2>2, NewestOfAll
  <2>4. store[n].stamp \in Nat
    BY DEF TInv, ServerType, Objects
  <2>5. Silent(n)'
    BY <1>2, <1>3, <1>4, <1>5, <2>3, <2>4 DEF SInv, Silent
  <2> QED
    BY <1>1, <1>2, <2>2, <2>5, CallerSilent DEF Heard, Write
<1>7. CASE n \notin DOMAIN o.answer
  <2>1. UNCHANGED seen
    BY <1>1, <1>7 DEF Returns
  <2>2. Silent(n)'
    BY <1>2, <1>4, <1>5, <1>7, <2>1 DEF SInv, Silent
  <2> QED
    BY <1>1, <1>2, <2>1, <2>2, CallerSilent DEF Heard, Write
<1> QED
  BY <1>6, <1>7

LEMMA WriteSilent ==
    ASSUME Serial, TInv, TInv', PInv, SInv, NEW t \in Tasks, Write(t) PROVE SInv'
<1>1. \A s : Goes(t, s) => stage'[t] = s
  BY DEF Goes, TInv, LockType
<1>2. stage'[t] # "fetched" => Heard(t)'
  BY DEF Heard
<1>3. CASE UpdateNode(t) \/ AddLink(t) \/ RemoveLink(t) \/ CreateNode(t)
  <2>1. ASSUME NEW kind, NEW n, NEW ends, NEW foot, Call(t, kind, n, ends, foot)
        PROVE  stage[t] = "idle" /\ stage'[t] = "wait" /\ UNCHANGED <<store, seen, touched>>
    BY <2>1 DEF Call, MayCall, indexVars, outsideVars, TInv, LockType
  <2>2. stage[t] = "idle" /\ stage'[t] = "wait" /\ UNCHANGED <<store, seen, touched>>
    BY <1>3, <2>1 DEF UpdateNode, AddLink, RemoveLink, CreateNode
  <2> QED
    BY <1>2, <2>2, QuietSilent
<1>4. CASE Enter(t)
  BY <1>1, <1>2, <1>4, QuietSilent DEF Enter, indexVars, outsideVars
<1>5. CASE Read(t)
  BY <1>1, <1>2, <1>5, QuietSilent DEF Read, indexVars, outsideVars
<1>6. CASE ReadFails(t)
  BY <1>1, <1>2, <1>6, QuietSilent DEF ReadFails, Ends, indexVars, outsideVars
<1>7. CASE Lands(t)
  BY <1>7, LandsSilent
<1>8. CASE Fails(t)
  <2>1. stage[t] = "send" /\ stage'[t] = "idle" /\ UNCHANGED seen
    BY <1>1, <1>8 DEF Fails, Ends, indexVars
  <2>2. CASE UNCHANGED <<store, touched>>
    BY <1>2, <2>1, <2>2, QuietSilent
  <2>3. CASE /\ Change(op[t].node, Written(op[t]))
             /\ touched' = touched \union {op[t].node}
    <3>1. PICK n \in Nodes : n = op[t].node
      BY <2>1, OldOp DEF Holding
    <3>2. \A m \in Nodes \ {n} : store'[m] = store[m]
      BY <2>3, <3>1 DEF Change, TInv, ServerType
    <3>3. Silent(n)'
      BY <2>3, <3>1 DEF Silent
    <3> QED
      BY <1>2, <2>1, <2>3, <3>1, <3>2, <3>3, CallerSilent
  <2> QED
    BY <1>8, <2>2, <2>3 DEF Fails
<1>9. CASE PatchLands(t)
  BY <1>9, PatchLandsSilent
<1>10. CASE PatchFails(t)
  <2>1. PICK n \in Nodes : n = op[t].node
    BY <1>10, OldOp DEF PatchFails, Holding
  <2>2. stage'[t] = "rollback" /\ UNCHANGED <<seen, touched, op>>
    BY <1>1, <1>10 DEF PatchFails, indexVars, outsideVars
  <2>3. \A m \in Nodes \ {n} : store'[m] = store[m]
    BY <1>10, <2>1 DEF PatchFails, Change, TInv, ServerType
  <2>4. Silent(n)'
    BY <2>1, <2>2 DEF Silent, Pays
  <2> QED
    BY <1>2, <2>1, <2>2, <2>3, <2>4, CallerSilent
<1>11. CASE RollsBack(t)
  <2>1. PICK n \in Nodes : n = op[t].node
    BY <1>11, OldOp DEF RollsBack, Holding
  <2>2. stage'[t] = "idle" /\ UNCHANGED seen /\ touched \subseteq touched'
    BY <1>1, <1>11 DEF RollsBack, Ends, indexVars
  <2>3. \A m \in Nodes \ {n} : store'[m] = store[m]
    BY <1>11, <2>1 DEF RollsBack, TInv, ServerType
  <2>4. ~store'[n].live \/ n \in touched'
    BY <1>11, <2>1 DEF RollsBack, TInv, ServerType, Objects
  <2>5. Silent(n)'
    BY <2>4 DEF Silent
  <2> QED
    BY <1>2, <2>1, <2>2, <2>3, <2>5, CallerSilent
<1>12. CASE Returns(t)
  BY <1>12, ReturnsSilent
<1> QED
  BY <1>3, <1>4, <1>5, <1>6, <1>7, <1>8, <1>9, <1>10, <1>11, <1>12 DEF Write

\* What a resync is about to report was changed from outside.
LEMMA UnseenTouched ==
    ASSUME TInv, SInv, NEW t \in Tasks, Apply(t) PROVE Unseen(op[t]) \subseteq touched
<1>1. stage[t] = "fetched" /\ Heard(t)
  BY DEF Apply, SInv
<1>2. ASSUME NEW n \in Unseen(op[t]) PROVE n \in touched
  <2>1. n \in DOMAIN op[t].answer /\ op[t].answer[n].stamp > seen[n]
    BY DEF Unseen
  <2>2. op[t].answer[n].stamp \in Nat /\ seen[n] \in Nat
    BY <2>1, OldOp DEF TInv, IndexType, ServerType, Objects
  <2> QED
    BY <1>1, <2>1, <2>2 DEF Heard
<1> QED
  BY <1>2

LEMMA ResyncSilent ==
    ASSUME Serial, TInv, PInv, SInv, NEW t \in Tasks, Resync(t) PROVE SInv'
<1>1. CASE Fetch(t)
  <2>1. /\ stage[t] = "idle" /\ stage'[t] = "fetched"
        /\ UNCHANGED <<store, seen, touched>>
    BY <1>1 DEF Fetch, MayCall, Goes, indexVars, TInv, LockType
  <2>2. op'[t] = [NoOp EXCEPT !.kind = "resync", !.answer = [n \in Changed |-> store[n]]]
    BY <1>1 DEF Fetch, TInv, OpType
  <2>3. op'[t].answer = [n \in Changed |-> store[n]]
    BY <2>2 DEF NoOp
  <2>4. \A n \in Changed : n \in touched \/ store[n].stamp <= seen[n]
    BY <2>1, NonePays DEF Changed
  <2>5. Heard(t)'
    BY <2>1, <2>3, <2>4 DEF Heard
  <2> QED
    BY <2>1, <2>5, QuietSilent
<1>2. CASE Apply(t)
  <2> DEFINE o == op[t]
             fresh == Unseen(op[t])
  <2>1. /\ stage[t] = "fetched" /\ stage'[t] = "idle" /\ UNCHANGED store
        /\ fresh \subseteq touched
    BY <1>2, UnseenTouched DEF Apply, Ends, Goes, TInv, LockType
  <2>2. /\ \A n \in Nodes : seen'[n] = IF n \in fresh THEN o.answer[n].stamp ELSE seen[n]
        /\ touched' = touched \ {n \in fresh : store[n] = o.answer[n]}
    BY <1>2 DEF Apply
  <2> HIDE DEF fresh
  <2>3. ASSUME NEW n \in Nodes, store[n].live, n \notin touched'
        PROVE  store[n].stamp <= seen'[n]
    <3>1. CASE n \in touched
      <4>1. n \in fresh /\ store[n] = o.answer[n]
        BY <2>2, <2>3, <3>1
      <4>2. seen'[n] = store[n].stamp /\ store[n].stamp \in Nat
        BY <2>2, <4>1 DEF TInv, ServerType, Objects
      <4> QED
        BY <4>2
    <3>2. CASE n \notin touched
      <4>1. seen'[n] = seen[n]
        BY <2>1, <2>2, <3>2
      <4> QED
        BY <2>1, <2>3, <3>2, <4>1, NonePays
    <3> QED
      BY <3>1, <3>2
  <2>4. \A n \in Nodes : Silent(n)'
    BY <2>1, <2>3 DEF Silent
  <2>5. \A u \in Tasks : stage'[u] = "idle"
    BY <2>1, Solo DEF PInv
  <2> QED
    BY <2>4, <2>5 DEF SInv, Heard
<1> QED
  BY <1>1, <1>2 DEF Resync

LEMMA RestartSilent == ASSUME TInv, Restart PROVE SInv'
<1>1. UNCHANGED store /\ \A t \in Tasks : stage'[t] = "idle"
  BY DEF Restart
<1>2. \A n \in Nodes : store[n].live => seen'[n] = store[n].stamp /\ store[n].stamp \in Nat
  BY DEF Restart, Hydrated, TInv, ServerType, Objects
<1> QED
  BY <1>1, <1>2 DEF SInv, Silent, Heard

LEMMA SilentStep ==
    ASSUME Serial PROVE TInv /\ TInv' /\ PInv /\ SInv /\ [Next]_vars => SInv'
<1> SUFFICES ASSUME TInv, TInv', PInv, SInv, [Next]_vars PROVE SInv'
  OBVIOUS
<1>1. CASE UNCHANGED vars
  BY <1>1 DEF vars, callVars, indexVars, outsideVars, SInv, Silent, Pays, Heard,
              NewestStamp, Larger
<1> QED
  BY <1>1, PeopleSilent, WriteSilent, ResyncSilent, RestartSilent DEF Next

\* Under the turn lock a resync reports nothing the bot has written itself, with
\* stamps that tie or not: a write accounts for its stamp before the next call may
\* fetch, and a composite create for the newest of its two (_track_watermark).
THEOREM OwnWritesSilent == ASSUME Serial PROVE Spec => SelfWritesSilent
<1>1. Init => SInv
  <2> SUFFICES ASSUME Init PROVE SInv
    OBVIOUS
  <2>1. \A n \in Nodes : store[n].live => n \in Existing /\ store[n].stamp = 1
    BY DEF Init, Found, NoObject
  <2>2. \A n \in Existing : seen[n] = 1
    BY ConstantsAssumption DEF Init
  <2> QED
    BY <2>1, <2>2 DEF Init, SInv, Silent, Heard
<1>2. TInv /\ TInv' /\ PInv /\ SInv /\ [Next]_vars => SInv'
  BY SilentStep
<1>3. TInv /\ TInv' /\ CInv /\ NInv /\ PInv /\ [Next]_vars => PInv'
  BY ReadyStep
<1>4. TInv /\ SInv => [\A t \in Tasks : Apply(t) => Unseen(op[t]) \subseteq touched]_vars
  BY UnseenTouched
<1> QED
  BY <1>1, <1>2, <1>3, <1>4, InitType, StepType, CreatesInit, CreatesStep, LeadsInit,
     LeadsStep, ReadyInit, PTL DEF Spec, SelfWritesSilent
=============================================================================
