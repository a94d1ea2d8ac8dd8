------------------------ MODULE SchemaConfirmProofs ------------------------
(***************************************************************************)
(* Proofs about SchemaConfirm, for any number of drafts, types, budgets    *)
(* and loads of the session: no change of the schema is made twice that is *)
(* known to be made, and none that was cancelled or dismissed; while no    *)
(* second session of the chat has drafts, what is made was shown and       *)
(* approved.                                                               *)
(***************************************************************************)
EXTENDS SchemaConfirm, SequenceTheorems, FiniteSetTheorems, WellFoundedInduction, TLAPS

Stages == {"idle", "seed", "note", "load", "turn", "post", "posted", "wait", "apply"}
Locked == {"load", "turn", "apply"}
Serving == {"turn", "post", "posted", "wait", "apply"}

Proposals == UNION {[S -> Drafts] : S \in SUBSET Nat}
LedgerSet == [next : Nat, pending : Proposals, drafted : SUBSET Nat]

\* Every draft is pending under one id of one ledger, and none that was withdrawn.
Apart ==
    \A s, q \in DOMAIN ledgers :
        \A i \in DOMAIN ledgers[s].pending : \A j \in DOMAIN ledgers[q].pending :
            ledgers[s].pending[i] = ledgers[q].pending[j] => s = q /\ i = j
Live ==
    \A s \in DOMAIN ledgers : \A i \in DOMAIN ledgers[s].pending :
        ledgers[s].pending[i] \in (1..minted) \ withdrawn

LedgersInv ==
    /\ ledgers \in Seq(LedgerSet) /\ session \in 0..Len(ledgers)
    /\ minted \in 0..MaxDrafts /\ withdrawn \subseteq 1..minted
    /\ Apart /\ Live

\* Who is past the lock holds it, who works on proposals has a ledger, and the
\* proposal that is being applied stays pending.
TasksInv ==
    /\ stage \in [Tasks -> Stages] /\ mine \in [Tasks -> Nat]
    /\ \A t \in Tasks : stage[t] \in Locked => lock = t
    /\ \A t \in Tasks : stage[t] \in Serving => mine[t] \in DOMAIN ledgers /\ session # 0
    /\ DOMAIN watch # {} => session # 0
    /\ stage["serve"] = "apply" => job.id \in DOMAIN ledgers[mine["serve"]].pending

MadeInv == landings \in [Drafts -> Nat] /\ known \subseteq Made

PInv == LedgersInv /\ TasksInv /\ MadeInv

-----------------------------------------------------------------------------
(* Ledgers. *)

\* One ledger loses proposals, and what was withdrawn is among them.
LEMMA LedgerShrinks ==
    ASSUME LedgersInv, NEW s \in DOMAIN ledgers, NEW ledger \in LedgerSet,
           ledgers' = [ledgers EXCEPT ![s] = ledger], UNCHANGED <<session, minted>>,
           DOMAIN ledger.pending \subseteq DOMAIN ledgers[s].pending,
           \A i \in DOMAIN ledger.pending : ledger.pending[i] = ledgers[s].pending[i],
           \A d \in withdrawn' : \/ d \in withdrawn
                                 \/ \E i \in DOMAIN ledgers[s].pending \ DOMAIN ledger.pending :
                                        d = ledgers[s].pending[i]
    PROVE  /\ LedgersInv' /\ DOMAIN ledgers' = DOMAIN ledgers
           /\ \A q \in DOMAIN ledgers \ {s} : ledgers'[q] = ledgers[q]
           /\ ledgers'[s] = ledger
<1>1. ledgers \in Seq(LedgerSet) /\ s \in 1..Len(ledgers) /\ DOMAIN ledgers = 1..Len(ledgers)
  BY DEF LedgersInv
<1>2. ledgers' \in Seq(LedgerSet) /\ Len(ledgers') = Len(ledgers)
  BY <1>1, ExceptSeq
<1>3. /\ DOMAIN ledgers' = DOMAIN ledgers /\ ledgers'[s] = ledger
      /\ \A q \in DOMAIN ledgers \ {s} : ledgers'[q] = ledgers[q]
  BY <1>1
<1>4. ASSUME NEW q \in DOMAIN ledgers, NEW i \in DOMAIN ledgers'[q].pending
      PROVE  /\ i \in DOMAIN ledgers[q].pending
             /\ ledgers'[q].pending[i] = ledgers[q].pending[i]
  BY <1>3
<1>5. Apart'
  BY <1>3, <1>4 DEF LedgersInv, Apart
<1>6. Live'
  <2> SUFFICES ASSUME NEW q \in DOMAIN ledgers, NEW i \in DOMAIN ledgers'[q].pending
               PROVE  ledgers'[q].pending[i] \in (1..minted) \ withdrawn'
    BY <1>3 DEF Live
  <2>1. /\ i \in DOMAIN ledgers[q].pending
        /\ ledgers'[q].pending[i] = ledgers[q].pending[i]
        /\ ledgers[q].pending[i] \in (1..minted) \ withdrawn
    BY <1>4 DEF LedgersInv, Live
  <2>2. ASSUME NEW j \in DOMAIN ledgers[s].pending \ DOMAIN ledger.pending
        PROVE  ledgers[q].pending[i] # ledgers[s].pending[j]
    BY <1>3, <2>1 DEF LedgersInv, Apart
  <2> QED
    BY <2>1, <2>2
<1>7. withdrawn' \subseteq 1..minted
  BY DEF LedgersInv, Live
<1> QED
  BY <1>1, <1>2, <1>3, <1>5, <1>6, <1>7 DEF LedgersInv

LEMMA LedgersKept ==
    ASSUME LedgersInv, UNCHANGED <<ledgers, session, minted, withdrawn>>
    PROVE  LedgersInv'
BY DEF LedgersInv, Apart, Live

\* A session that is loaded brings an empty ledger.
LEMMA LedgerAdded ==
    ASSUME LedgersInv, ledgers' = Append(ledgers, NewLedger), session' = Len(ledgers'),
           UNCHANGED <<minted, withdrawn>>
    PROVE  /\ LedgersInv' /\ DOMAIN ledgers \subseteq DOMAIN ledgers'
           /\ Len(ledgers') \in DOMAIN ledgers' /\ session' # 0
           /\ \A s \in DOMAIN ledgers : ledgers'[s] = ledgers[s]
<1>1. NewLedger \in LedgerSet /\ DOMAIN NewLedger.pending = {}
  <2>1. Empty \in [{} -> Drafts] /\ DOMAIN Empty = {}
    BY DEF Empty
  <2>2. Empty \in Proposals
    BY <2>1 DEF Proposals
  <2> HIDE DEF Empty
  <2> QED
    BY <2>1, <2>2 DEF NewLedger, LedgerSet
<1>2. ledgers \in Seq(LedgerSet) /\ DOMAIN ledgers = 1..Len(ledgers) /\ Len(ledgers) \in Nat
  BY DEF LedgersInv
<1>3. /\ ledgers' \in Seq(LedgerSet) /\ Len(ledgers') = Len(ledgers) + 1
      /\ \A s \in 1..Len(ledgers) : ledgers'[s] = ledgers[s]
      /\ ledgers'[Len(ledgers) + 1] = NewLedger
  BY <1>1, <1>2, AppendProperties
<1>4. DOMAIN ledgers' = 1..(Len(ledgers) + 1)
  BY <1>3
<1>5. ASSUME NEW s \in DOMAIN ledgers', NEW i \in DOMAIN ledgers'[s].pending
      PROVE  s \in DOMAIN ledgers /\ ledgers'[s] = ledgers[s]
  BY <1>1, <1>2, <1>3, <1>4
<1>6. Apart' /\ Live'
  BY <1>5 DEF LedgersInv, Apart, Live
<1> QED
  BY <1>2, <1>3, <1>4, <1>6 DEF LedgersInv

\* A draft takes a number no other has had.
LEMMA LedgerDrafts ==
    ASSUME LedgersInv, NEW s \in DOMAIN ledgers, NEW ledger \in LedgerSet, NEW id \in Nat,
           ledgers' = [ledgers EXCEPT ![s] = ledger], minted < MaxDrafts, minted' = minted + 1,
           UNCHANGED <<session, withdrawn>>,
           ledger.pending = [i \in DOMAIN ledgers[s].pending \union {id} |->
                                IF i = id THEN minted' ELSE ledgers[s].pending[i]]
    PROVE  LedgersInv' /\ DOMAIN ledgers' = DOMAIN ledgers
<1>1. /\ ledgers \in Seq(LedgerSet) /\ s \in 1..Len(ledgers) /\ DOMAIN ledgers = 1..Len(ledgers)
      /\ minted \in Nat /\ minted' \in 0..MaxDrafts
  BY ConstantsAssumption DEF LedgersInv
<1>2. ledgers' \in Seq(LedgerSet) /\ Len(ledgers') = Len(ledgers)
  BY <1>1, ExceptSeq
<1>3. /\ DOMAIN ledgers' = DOMAIN ledgers /\ ledgers'[s] = ledger
      /\ \A q \in DOMAIN ledgers \ {s} : ledgers'[q] = ledgers[q]
  BY <1>1
<1>4. ASSUME NEW q \in DOMAIN ledgers, NEW i \in DOMAIN ledgers'[q].pending
      PROVE  \/ q = s /\ i = id /\ ledgers'[q].pending[i] = minted + 1
             \/ /\ i \in DOMAIN ledgers[q].pending
                /\ ledgers'[q].pending[i] = ledgers[q].pending[i]
                /\ ledgers[q].pending[i] \in (1..minted) \ withdrawn
  BY <1>3 DEF LedgersInv, Live
<1>5. Apart'
  BY <1>1, <1>3, <1>4 DEF LedgersInv, Apart
<1>6. withdrawn \subseteq 1..minted
  BY DEF LedgersInv
<1>7. Live'
  BY <1>1, <1>3, <1>4, <1>6 DEF Live
<1> QED
  BY <1>1, <1>2, <1>3, <1>5, <1>6, <1>7 DEF LedgersInv

LEMMA WithoutOne ==
    ASSUME NEW ledger \in LedgerSet, NEW id
    PROVE  /\ Cancelled(ledger, id) \in LedgerSet
           /\ [ledger EXCEPT !.pending = Without(@, id)] \in LedgerSet
           /\ \A other \in {Cancelled(ledger, id), [ledger EXCEPT !.pending = Without(@, id)]} :
                 /\ DOMAIN other.pending = DOMAIN ledger.pending \ {id}
                 /\ \A i \in DOMAIN other.pending : other.pending[i] = ledger.pending[i]
<1>1. ledger.pending \in Proposals
  BY DEF LedgerSet
<1>2. PICK S \in SUBSET Nat : ledger.pending \in [S -> Drafts]
  BY <1>1 DEF Proposals
<1> DEFINE rest == Without(ledger.pending, id)
<1>3. /\ rest \in [S \ {id} -> Drafts] /\ DOMAIN rest = DOMAIN ledger.pending \ {id}
      /\ \A i \in DOMAIN rest : rest[i] = ledger.pending[i]
  BY <1>2 DEF Without, Restrict
<1>4. rest \in Proposals
  BY <1>3 DEF Proposals
<1> HIDE DEF rest
<1>5. [ledger EXCEPT !.pending = rest] \in LedgerSet
  BY <1>4 DEF LedgerSet
<1>6. [ledger EXCEPT !.pending = rest, !.drafted = @ \ {id}] \in LedgerSet
  BY <1>4 DEF LedgerSet
<1>7. \A other \in {[ledger EXCEPT !.pending = rest],
                    [ledger EXCEPT !.pending = rest, !.drafted = @ \ {id}]} :
        other.pending = rest
  BY DEF LedgerSet
<1> QED
  BY <1>3, <1>5, <1>6, <1>7 DEF Cancelled, rest

-----------------------------------------------------------------------------
(* Tasks. *)

LEMMA TaskStep ==
    ASSUME TasksInv, NEW t \in Tasks, NEW next \in Stages,
           stage' = [stage EXCEPT ![t] = next], mine' \in [Tasks -> Nat],
           \A u \in Tasks \ {t} : mine'[u] = mine[u],
           DOMAIN ledgers \subseteq DOMAIN ledgers', session # 0 => session' # 0,
           lock' # lock => lock \in {"free", t},
           next \in Locked => lock' = t,
           next \in Serving => mine'[t] \in DOMAIN ledgers' /\ session' # 0,
           DOMAIN watch' # {} => session' # 0,
           stage'["serve"] = "apply" =>
                job'.id \in DOMAIN ledgers'[mine'["serve"]].pending
    PROVE  TasksInv'
<1>1. stage' \in [Tasks -> Stages] /\ stage'[t] = next
      /\ \A u \in Tasks \ {t} : stage'[u] = stage[u]
  BY DEF TasksInv
<1>2. ASSUME NEW u \in Tasks, stage'[u] \in Locked PROVE lock' = u
  <2>1. CASE u = t
    BY <1>1, <1>2, <2>1
  <2>2. CASE u # t
    <3>1. lock = u /\ u # "free"
      BY <1>1, <1>2, <2>2 DEF TasksInv, Tasks
    <3> QED
      BY <2>2, <3>1
  <2> QED
    BY <2>1, <2>2
<1>3. ASSUME NEW u \in Tasks, stage'[u] \in Serving
      PROVE  mine'[u] \in DOMAIN ledgers' /\ session' # 0
  <2>1. CASE u = t
    BY <1>1, <1>3, <2>1
  <2>2. CASE u # t
    BY <1>1, <1>3, <2>2 DEF TasksInv
  <2> QED
    BY <2>1, <2>2
<1> QED
  BY <1>1, <1>2, <1>3 DEF TasksInv

LEMMA TasksKept ==
    ASSUME TasksInv, UNCHANGED <<stage, mine, lock, job, watch, ledgers, session>>
    PROVE  TasksInv'
BY DEF TasksInv

\* Steps that touch neither ledgers nor the space.
LEMMA CallSteps ==
    ASSUME PInv, NEW t \in Tasks,
           TurnRaises(t) \/ PostLands(t) \/ Watched(t) \/ PostFails(t) \/ Delivered(t)
    PROVE  PInv'
<1>0. /\ LedgersInv /\ TasksInv /\ MadeInv
      /\ UNCHANGED <<landings, known, ledgers, session, minted, withdrawn, mine, job>>
  BY DEF PInv, TurnRaises, PostLands, Watched, PostFails, Delivered, space, historyVars
<1>1. LedgersInv' /\ MadeInv'
  BY <1>0, LedgersKept DEF MadeInv, Made
<1>2. PICK next \in {"idle", "post", "posted"} :
          /\ stage' = [stage EXCEPT ![t] = next]
          /\ lock' = lock \/ (lock' = "free" /\ stage[t] = "turn")
          /\ next # "idle" => stage[t] \in {"turn", "post", "posted"}
          /\ watch' = watch \/ stage[t] = "posted"
  BY DEF TurnRaises, PostLands, Watched, PostFails, Delivered
<1>3. stage'["serve"] = "apply" => stage["serve"] = "apply"
  BY <1>0, <1>2 DEF TasksInv
<1>4. TasksInv'
  <2>1. next \in Stages /\ next \notin Locked /\ "turn" \in Locked
        /\ {"turn", "post", "posted"} \subseteq Serving
    BY DEF Stages, Locked, Serving
  <2>2. lock' # lock => lock = t
    BY <1>0, <1>2, <2>1 DEF TasksInv
  <2>3. next \in Serving => mine[t] \in DOMAIN ledgers /\ session # 0
    BY <1>0, <1>2, <2>1 DEF TasksInv, Serving
  <2>4. DOMAIN watch' # {} => session # 0
    BY <1>0, <1>2, <2>1 DEF TasksInv
  <2>5. stage'["serve"] = "apply" => job'.id \in DOMAIN ledgers'[mine'["serve"]].pending
    BY <1>0, <1>3 DEF TasksInv
  <2>6. mine' \in [Tasks -> Nat]
    BY <1>0 DEF TasksInv
  <2> QED
    BY <1>0, <1>2, <2>1, <2>2, <2>3, <2>4, <2>5, <2>6, TaskStep
<1> QED
  BY <1>1, <1>4 DEF PInv

\* A session is asked for, and there at once or to be loaded.
LEMMA EnterStep ==
    ASSUME PInv, NEW t \in Tasks, NEW next \in {"idle", "turn"},
           NEW loading \in {"seed", "note", "load"}, Enter(t, next, loading),
           DOMAIN ledgers' = DOMAIN ledgers,
           \A s \in DOMAIN ledgers : ledgers'[s].pending = ledgers[s].pending,
           UNCHANGED <<session, job, watch>>,
           IF next = "turn" THEN lock = "free" /\ lock' = t
                            ELSE UNCHANGED lock /\ loading # "load"
    PROVE  TasksInv'
<1>0. /\ LedgersInv /\ TasksInv /\ DOMAIN ledgers = 1..Len(ledgers) /\ session \in Nat
      /\ session # 0 => session \in DOMAIN ledgers
  BY DEF PInv, LedgersInv
<1>1. PICK now \in {next, loading} : /\ stage' = [stage EXCEPT ![t] = now]
                                     /\ now = "turn" => session # 0
                                     /\ mine' = [mine EXCEPT ![t] = session]
  BY DEF Enter
<1>2. now \in Stages /\ (now \in Serving => now = "turn") /\ now # "apply"
      /\ (now \in Locked => next = "turn")
  BY DEF Stages, Serving, Locked
<1>t. stage \in [Tasks -> Stages] /\ mine \in [Tasks -> Nat]
  BY <1>0 DEF TasksInv
<1>3. mine' \in [Tasks -> Nat] /\ mine'[t] = session /\ \A u \in Tasks \ {t} : mine'[u] = mine[u]
  BY <1>0, <1>1, <1>t
<1>4. stage'["serve"] = "apply" => job'.id \in DOMAIN ledgers'[mine'["serve"]].pending
  <2> SUFFICES ASSUME stage'["serve"] = "apply"
               PROVE  job.id \in DOMAIN ledgers'[mine'["serve"]].pending
    OBVIOUS
  <2>1. t # "serve" /\ stage["serve"] = "apply" /\ "serve" \in Tasks
    BY <1>1, <1>2, <1>t DEF Tasks
  <2>2. mine'["serve"] = mine["serve"] /\ mine["serve"] \in DOMAIN ledgers
    BY <1>0, <1>3, <2>1 DEF TasksInv, Serving
  <2> QED
    BY <1>0, <2>1, <2>2 DEF TasksInv
<1>5. /\ lock' # lock => lock \in {"free", t}
      /\ now \in Locked => lock' = t
      /\ now \in Serving => mine'[t] \in DOMAIN ledgers' /\ session' # 0
      /\ DOMAIN watch' # {} => session' # 0
  <2>1. DOMAIN watch # {} => session # 0
    BY <1>0 DEF TasksInv
  <2> QED
    BY <1>0, <1>1, <1>2, <1>3, <2>1
<1> QED
  BY <1>0, <1>1, <1>2, <1>3, <1>4, <1>5, TaskStep

LEMMA SpaceKept == ASSUME MadeInv, UNCHANGED <<landings, known>> PROVE MadeInv'
BY DEF MadeInv, Made

LEMMA LoadSteps ==
    ASSUME PInv, Seed \/ Note \/ \E t \in Tasks : LoadEnds(t) \/ TurnStarts(t)
    PROVE  PInv'
<1>0. LedgersInv /\ TasksInv /\ MadeInv /\ {"serve", "sched"} = Tasks
  BY DEF PInv, Tasks
<1>1. MadeInv'
  BY <1>0, SpaceKept DEF Seed, Note, LoadEnds, TurnStarts, space
<1>2. CASE Seed
  <2>1. UNCHANGED <<ledgers, session, minted, withdrawn, job, watch, lock>>
    BY <1>2 DEF Seed, historyVars
  <2>2. LedgersInv'
    BY <1>0, <2>1, LedgersKept
  <2>3. CASE Enter("serve", "idle", "seed")
    <3>1. TasksInv'
      BY <1>0, <2>1, <2>3, EnterStep
    <3> QED
      BY <1>1, <2>2, <3>1 DEF PInv
  <2>4. CASE UNCHANGED <<stage, mine>>
    <3>1. TasksInv'
      BY <1>0, <2>1, <2>4, TasksKept
    <3> QED
      BY <1>1, <2>2, <3>1 DEF PInv
  <2> QED
    BY <1>2, <2>3, <2>4 DEF Seed
<1>3. CASE Note
  <2>1. UNCHANGED <<ledgers, session, minted, withdrawn, job, watch, lock>>
    BY <1>3 DEF Note, historyVars
  <2>2. LedgersInv'
    BY <1>0, <2>1, LedgersKept
  <2>3. TasksInv'
    BY <1>0, <1>3, <2>1, EnterStep DEF Note
  <2> QED
    BY <1>1, <2>2, <2>3 DEF PInv
<1>4. ASSUME NEW t \in Tasks, TurnStarts(t) PROVE PInv'
  <2>1. /\ UNCHANGED <<session, minted, withdrawn, job, watch>>
        /\ lock = "free" /\ lock' = t /\ Enter(t, "turn", "load")
        /\ ledgers' = (IF session = 0 THEN ledgers
                       ELSE [ledgers EXCEPT ![session].drafted = {}])
    BY <1>4 DEF TurnStarts, historyVars
  <2>2. /\ LedgersInv' /\ DOMAIN ledgers' = DOMAIN ledgers
        /\ \A s \in DOMAIN ledgers : ledgers'[s].pending = ledgers[s].pending
    <3>1. CASE session = 0
      BY <1>0, <2>1, <3>1, LedgersKept
    <3>2. CASE session # 0
      <4> DEFINE ledger == [ledgers[session] EXCEPT !.drafted = {}]
      <4>1. session \in DOMAIN ledgers /\ ledgers[session] \in LedgerSet
        BY <1>0, <3>2 DEF LedgersInv
      <4>2. ledger \in LedgerSet /\ ledger.pending = ledgers[session].pending
        BY <4>1 DEF LedgerSet
      <4>3. ledgers' = [ledgers EXCEPT ![session] = ledger]
        BY <2>1, <3>2
      <4> HIDE DEF ledger
      <4>4. /\ LedgersInv' /\ DOMAIN ledgers' = DOMAIN ledgers
            /\ \A q \in DOMAIN ledgers \ {session} : ledgers'[q] = ledgers[q]
            /\ ledgers'[session] = ledger
        BY <1>0, <2>1, <4>1, <4>2, <4>3, LedgerShrinks
      <4> QED
        BY <4>2, <4>4
    <3> QED
      BY <3>1, <3>2
  <2>3. TasksInv'
    BY <2>1, <2>2, EnterStep
  <2> QED
    BY <1>1, <2>2, <2>3 DEF PInv
<1>5. ASSUME NEW t \in Tasks, LoadEnds(t) PROVE PInv'
  <2>1. PICK next \in {"idle", "turn"} :
            /\ Loaded(t, next) /\ UNCHANGED <<watch, lock, job, minted, withdrawn>>
            /\ next = "turn" => stage[t] = "load"
            /\ stage[t] \in {"seed", "note", "load"}
    BY <1>5 DEF LoadEnds, historyVars
  <2>2. /\ ledgers' = Append(ledgers, NewLedger) /\ session' = Len(ledgers')
        /\ mine' = [mine EXCEPT ![t] = Len(ledgers')]
        /\ stage' = [stage EXCEPT ![t] = next]
    BY <2>1 DEF Loaded
  <2>3. /\ LedgersInv' /\ DOMAIN ledgers \subseteq DOMAIN ledgers'
        /\ Len(ledgers') \in DOMAIN ledgers' /\ session' # 0
        /\ \A s \in DOMAIN ledgers : ledgers'[s] = ledgers[s]
    BY <1>0, <2>1, <2>2, LedgerAdded
  <2>4. stage \in [Tasks -> Stages] /\ mine \in [Tasks -> Nat] /\ Len(ledgers') \in Nat
    BY <1>0, <2>3 DEF TasksInv, LedgersInv
  <2>5. /\ mine' \in [Tasks -> Nat] /\ mine'[t] = Len(ledgers')
        /\ \A u \in Tasks \ {t} : mine'[u] = mine[u]
    BY <2>2, <2>4
  <2>6. next \in Stages /\ (next \in Locked => lock' = t)
    BY <1>0, <2>1 DEF TasksInv, Stages, Locked
  <2>7. stage'["serve"] = "apply" => job'.id \in DOMAIN ledgers'[mine'["serve"]].pending
    <3> SUFFICES ASSUME stage'["serve"] = "apply"
                 PROVE  job.id \in DOMAIN ledgers'[mine'["serve"]].pending
      BY <2>1
    <3>1. t # "serve" /\ stage["serve"] = "apply"
      BY <1>0, <2>2, <2>4
    <3>2. mine'["serve"] = mine["serve"] /\ mine["serve"] \in DOMAIN ledgers
      BY <1>0, <2>5, <3>1 DEF TasksInv, Serving
    <3> QED
      BY <1>0, <2>3, <3>1, <3>2 DEF TasksInv
  <2>8. TasksInv'
    BY <1>0, <2>1, <2>2, <2>3, <2>5, <2>6, <2>7, TaskStep
  <2> QED
    BY <1>1, <2>3, <2>8 DEF PInv
<1> QED
  BY <1>2, <1>3, <1>4, <1>5

\* A step of a turn that changes its ledger: nobody applies a proposal meanwhile.
LEMMA TurnStep ==
    ASSUME TasksInv, NEW t \in Tasks, stage[t] = "turn", NEW next \in {"turn", "post"},
           stage' = [stage EXCEPT ![t] = next],
           IF next = "turn" THEN lock' = lock ELSE lock' = "free",
           UNCHANGED <<mine, watch, session, job>>, DOMAIN ledgers' = DOMAIN ledgers
    PROVE  TasksInv'
<1>1. lock = t /\ stage \in [Tasks -> Stages] /\ mine \in [Tasks -> Nat]
      /\ mine[t] \in DOMAIN ledgers /\ session # 0
  BY DEF TasksInv, Locked, Serving
<1>2. next \in Stages /\ (next \in Locked => lock' = t)
  BY <1>1 DEF Stages, Locked
<1>3. stage'["serve"] # "apply"
  <2>1. stage["serve"] = "apply" => t = "serve"
    BY <1>1 DEF TasksInv, Locked, Tasks
  <2> QED
    BY <1>1, <2>1
<1> QED
  BY <1>1, <1>2, <1>3, TaskStep

LEMMA DraftSteps ==
    ASSUME PInv, NEW t \in Tasks, Draft(t) \/ ToolCancels(t) \/ TurnEnds(t)
    PROVE  PInv'
<1>0. LedgersInv /\ TasksInv /\ MadeInv
  BY DEF PInv
<1>1. MadeInv'
  BY <1>0, SpaceKept DEF Draft, ToolCancels, TurnEnds, space
<1>2. stage[t] = "turn" /\ UNCHANGED <<mine, watch, session, job>>
  BY DEF Draft, ToolCancels, TurnEnds, taskVars
<1>3. stage \in [Tasks -> Stages] /\ mine[t] \in DOMAIN ledgers
      /\ ledgers[mine[t]] \in LedgerSet
  BY <1>0, <1>2 DEF TasksInv, Serving, LedgersInv
<1> DEFINE old == ledgers[mine[t]]
<1>4. ASSUME NEW ledger \in LedgerSet, ledgers' = [ledgers EXCEPT ![mine[t]] = ledger],
             UNCHANGED minted,
             DOMAIN ledger.pending \subseteq DOMAIN old.pending,
             \A i \in DOMAIN ledger.pending : ledger.pending[i] = old.pending[i],
             \A d \in withdrawn' : \/ d \in withdrawn
                                   \/ \E i \in DOMAIN old.pending \ DOMAIN ledger.pending :
                                          d = old.pending[i]
      PROVE  LedgersInv' /\ DOMAIN ledgers' = DOMAIN ledgers
  BY <1>0, <1>2, <1>3, <1>4, LedgerShrinks
<1>5. CASE Draft(t)
  <2> DEFINE id == NextId(Ledger(t))
             ledger == [old EXCEPT
                !.next = @ + 1,
                !.pending = [i \in DOMAIN @ \union {id} |-> IF i = id THEN minted' ELSE @[i]],
                !.drafted = @ \union {id}]
  <2>1. /\ minted < MaxDrafts /\ minted' = minted + 1 /\ UNCHANGED <<withdrawn, stage, lock>>
        /\ ledgers' = [ledgers EXCEPT ![mine[t]] = ledger]
    BY <1>5 DEF Draft, Ledger, taskVars
  <2>2. id \in Nat /\ minted' \in Drafts
    BY <1>0, <1>3, <2>1, ConstantsAssumption DEF NextId, Ledger, LedgerSet, LedgersInv, Drafts
  <2>3. [i \in DOMAIN old.pending \union {id} |-> IF i = id THEN minted' ELSE old.pending[i]]
            \in Proposals
    <3>1. PICK S \in SUBSET Nat : old.pending \in [S -> Drafts]
      BY <1>3 DEF LedgerSet, Proposals
    <3> HIDE DEF id
    <3>2. [i \in DOMAIN old.pending \union {id} |-> IF i = id THEN minted' ELSE old.pending[i]]
              \in [S \union {id} -> Drafts]
      BY <2>2, <3>1
    <3> QED
      BY <2>2, <3>2 DEF Proposals
  <2>4. /\ ledger \in LedgerSet
        /\ ledger.pending = [i \in DOMAIN old.pending \union {id} |->
                                IF i = id THEN minted' ELSE old.pending[i]]
    <3> DEFINE pend == [i \in DOMAIN old.pending \union {id} |->
                            IF i = id THEN minted' ELSE old.pending[i]]
    <3>1. pend \in Proposals /\ old.next + 1 \in Nat /\ old.drafted \union {id} \in SUBSET Nat
      BY <1>3, <2>2, <2>3 DEF LedgerSet
    <3>2. ledger = [old EXCEPT !.next = old.next + 1, !.pending = pend,
                               !.drafted = old.drafted \union {id}]
      OBVIOUS
    <3> HIDE DEF id, pend, ledger
    <3>3. ledger \in LedgerSet /\ ledger.pending = pend
      BY <1>3, <3>1, <3>2 DEF LedgerSet
    <3> QED
      BY <3>3 DEF pend
  <2> HIDE DEF ledger, id
  <2>5. LedgersInv' /\ DOMAIN ledgers' = DOMAIN ledgers
    BY <1>0, <1>2, <1>3, <2>1, <2>2, <2>4, LedgerDrafts
  <2>6. stage' = [stage EXCEPT ![t] = "turn"]
    BY <1>2, <1>3, <2>1
  <2>7. TasksInv'
    BY <1>0, <1>2, <2>1, <2>5, <2>6, TurnStep
  <2> QED
    BY <1>1, <2>5, <2>7 DEF PInv
<1>6. CASE ToolCancels(t)
  <2>1. PICK id \in DOMAIN old.pending :
            /\ ledgers' = [ledgers EXCEPT ![mine[t]] = Cancelled(old, id)]
            /\ withdrawn' = withdrawn \union {old.pending[id]}
    BY <1>6 DEF ToolCancels, Pending, Ledger
  <2>2. UNCHANGED <<minted, stage, lock>>
    BY <1>6 DEF ToolCancels, taskVars
  <2>3. LedgersInv' /\ DOMAIN ledgers' = DOMAIN ledgers
    <3>1. /\ Cancelled(old, id) \in LedgerSet
          /\ DOMAIN Cancelled(old, id).pending = DOMAIN old.pending \ {id}
          /\ \A i \in DOMAIN Cancelled(old, id).pending :
                Cancelled(old, id).pending[i] = old.pending[i]
      BY <1>3, WithoutOne
    <3> DEFINE ledger == Cancelled(old, id)
    <3>2. /\ ledger \in LedgerSet /\ ledgers' = [ledgers EXCEPT ![mine[t]] = ledger]
          /\ DOMAIN ledger.pending = DOMAIN old.pending \ {id}
          /\ \A i \in DOMAIN ledger.pending : ledger.pending[i] = old.pending[i]
      BY <2>1, <3>1
    <3> HIDE DEF ledger
    <3> QED
      BY <1>4, <2>1, <2>2, <3>2
  <2>4. stage' = [stage EXCEPT ![t] = "turn"]
    BY <1>2, <1>3, <2>2
  <2>5. TasksInv'
    BY <1>0, <1>2, <2>2, <2>3, <2>4, TurnStep
  <2> QED
    BY <1>1, <2>3, <2>5 DEF PInv
<1>7. CASE TurnEnds(t)
  <2> DEFINE ledger == [old EXCEPT !.drafted = {}]
  <2>1. /\ ledgers' = [ledgers EXCEPT ![mine[t]] = ledger]
        /\ stage' = [stage EXCEPT ![t] = "post"] /\ lock' = "free"
        /\ UNCHANGED <<minted, withdrawn>>
    BY <1>7 DEF TurnEnds, historyVars
  <2>2. ledger \in LedgerSet /\ ledger.pending = old.pending
    BY <1>3 DEF LedgerSet
  <2> HIDE DEF ledger
  <2>3. LedgersInv' /\ DOMAIN ledgers' = DOMAIN ledgers
    BY <1>4, <2>1, <2>2
  <2>4. TasksInv'
    BY <1>0, <1>2, <2>1, <2>3, TurnStep
  <2> QED
    BY <1>1, <2>3, <2>4 DEF PInv
<1> QED
  BY <1>5, <1>6, <1>7

-----------------------------------------------------------------------------
(* Reactions. *)

\* A step of the serve task that handles a reaction.
LEMMA ServeStep ==
    ASSUME TasksInv, NEW next \in {"idle", "wait", "apply"},
           stage' = [stage EXCEPT !["serve"] = next],
           mine' \in [Tasks -> Nat], mine'["sched"] = mine["sched"],
           DOMAIN ledgers' = DOMAIN ledgers, session' = session,
           \/ lock' = lock /\ next # "apply"
           \/ lock = "free" /\ lock' = "serve"
           \/ stage["serve"] = "apply" /\ lock' = "free" /\ next = "idle",
           next # "idle" => mine'["serve"] \in DOMAIN ledgers,
           DOMAIN watch' \subseteq DOMAIN watch, DOMAIN watch # {} \/ stage["serve"] = "wait" \/ next = "idle",
           next = "apply" => job'.id \in DOMAIN ledgers'[mine'["serve"]].pending
    PROVE  TasksInv'
<1>1. stage \in [Tasks -> Stages] /\ "serve" \in Tasks /\ Tasks \ {"serve"} = {"sched"}
  BY DEF TasksInv, Tasks
<1>2. /\ DOMAIN watch # {} => session # 0
      /\ stage["serve"] = "wait" => session # 0
      /\ stage["serve"] = "apply" => lock = "serve"
  BY <1>1 DEF TasksInv, Serving, Locked
<1>3. /\ next \in Stages /\ (next \in Locked => next = "apply")
      /\ next \in Serving => next # "idle"
  BY DEF Stages, Locked, Serving
<1>4. stage'["serve"] = next
  BY <1>1
<1> QED
  BY <1>1, <1>2, <1>3, <1>4, TaskStep

LEMMA TakenSteps ==
    ASSUME PInv, ReactionTaken \/ ReactionStale \/ ApplyStarts
    PROVE  PInv'
<1>0. LedgersInv /\ TasksInv /\ MadeInv /\ "serve" \in Tasks /\ "sched" \in Tasks
  BY DEF PInv, Tasks
<1>1. UNCHANGED <<landings, known, ledgers, session, minted, withdrawn>>
  BY DEF ReactionTaken, ReactionStale, ApplyStarts, space, historyVars
<1>2. LedgersInv' /\ MadeInv'
  BY <1>0, <1>1, LedgersKept, SpaceKept
<1>3. stage \in [Tasks -> Stages] /\ mine \in [Tasks -> Nat]
  BY <1>0 DEF TasksInv
<1>4. CASE ReactionTaken
  <2>1. UNCHANGED <<lock, watch>>
    BY <1>4 DEF ReactionTaken
  <2>2. CASE UNCHANGED <<job, mine, stage>>
    <3>1. TasksInv'
      BY <1>0, <1>1, <2>1, <2>2, TasksKept
    <3> QED
      BY <1>2, <3>1 DEF PInv
  <2>3. CASE ~UNCHANGED <<job, mine, stage>>
    <3>1. /\ DOMAIN watch # {} /\ mine' = [mine EXCEPT !["serve"] = session]
          /\ stage' = [stage EXCEPT !["serve"] = "wait"]
      BY <1>4, <2>3 DEF ReactionTaken
    <3>2. session # 0
      BY <1>0, <3>1 DEF TasksInv
    <3>3. session \in Nat /\ session \in DOMAIN ledgers
      BY <1>0, <3>2 DEF LedgersInv
    <3>4. mine' \in [Tasks -> Nat] /\ mine'["serve"] = session /\ mine'["sched"] = mine["sched"]
      BY <1>0, <1>3, <3>1, <3>3
    <3>5. TasksInv'
      BY <1>0, <1>1, <2>1, <3>1, <3>3, <3>4, ServeStep
    <3> QED
      BY <1>2, <3>5 DEF PInv
  <2> QED
    BY <2>2, <2>3
<1>5. CASE ReactionStale
  <2>1. /\ UNCHANGED <<lock, mine>> /\ stage' = [stage EXCEPT !["serve"] = "idle"]
        /\ DOMAIN watch' \subseteq DOMAIN watch
    BY <1>5 DEF ReactionStale, JobDone, Unwatched, Without, Restrict
  <2>2. TasksInv'
    BY <1>0, <1>1, <1>3, <2>1, ServeStep
  <2> QED
    BY <1>2, <2>2 DEF PInv
<1>6. CASE ApplyStarts
  <2>1. /\ stage["serve"] = "wait" /\ lock = "free" /\ lock' = "serve"
        /\ job.id \in DOMAIN ledgers[mine["serve"]].pending
        /\ stage' = [stage EXCEPT !["serve"] = "apply"] /\ UNCHANGED <<watch, mine, job>>
    BY <1>6 DEF ApplyStarts, Pending, Ledger
  <2>2. mine["serve"] \in DOMAIN ledgers
    BY <1>0, <2>1 DEF TasksInv, Serving
  <2>3. TasksInv'
    BY <1>0, <1>1, <1>3, <2>1, <2>2, ServeStep
  <2> QED
    BY <1>2, <2>3 DEF PInv
<1> QED
  BY <1>4, <1>5, <1>6

LEMMA DismissStep == ASSUME PInv, Dismissed PROVE PInv'
<1>0. LedgersInv /\ TasksInv /\ MadeInv /\ "serve" \in Tasks /\ "sched" \in Tasks
  BY DEF PInv, Tasks
<1> DEFINE old == ledgers[mine["serve"]]
<1>1. /\ stage["serve"] = "wait" /\ job.id \in DOMAIN old.pending
      /\ ledgers' = [ledgers EXCEPT ![mine["serve"]] = Cancelled(old, job.id)]
      /\ withdrawn' = withdrawn \union {old.pending[job.id]}
      /\ UNCHANGED <<landings, known, session, minted, lock, mine>>
      /\ stage' = [stage EXCEPT !["serve"] = "idle"]
      /\ DOMAIN watch' \subseteq DOMAIN watch
  BY DEF Dismissed, Pending, Ledger, space, JobDone, Unwatched, Without, Restrict
<1>2. /\ stage \in [Tasks -> Stages] /\ mine \in [Tasks -> Nat]
      /\ mine["serve"] \in DOMAIN ledgers /\ old \in LedgerSet
  BY <1>0, <1>1 DEF TasksInv, Serving, LedgersInv
<1>3. LedgersInv' /\ DOMAIN ledgers' = DOMAIN ledgers
  <2>1. /\ Cancelled(old, job.id) \in LedgerSet
        /\ DOMAIN Cancelled(old, job.id).pending = DOMAIN old.pending \ {job.id}
        /\ \A i \in DOMAIN Cancelled(old, job.id).pending :
              Cancelled(old, job.id).pending[i] = old.pending[i]
    BY <1>2, WithoutOne
  <2> DEFINE ledger == Cancelled(old, job.id)
  <2>2. /\ ledger \in LedgerSet /\ ledgers' = [ledgers EXCEPT ![mine["serve"]] = ledger]
        /\ DOMAIN ledger.pending = DOMAIN old.pending \ {job.id}
        /\ \A i \in DOMAIN ledger.pending : ledger.pending[i] = old.pending[i]
    BY <1>1, <2>1
  <2> HIDE DEF ledger
  <2> QED
    BY <1>0, <1>1, <1>2, <2>2, LedgerShrinks
<1>4. TasksInv'
  BY <1>0, <1>1, <1>2, <1>3, ServeStep
<1>5. MadeInv'
  BY <1>0, <1>1, SpaceKept
<1> QED
  BY <1>3, <1>4, <1>5 DEF PInv

\* The change a person confirmed: pending, so drafted and never withdrawn.
LEMMA TheProposal ==
    ASSUME PInv, stage["serve"] = "apply"
    PROVE  /\ mine["serve"] \in DOMAIN ledgers
           /\ ledgers[mine["serve"]] \in LedgerSet
           /\ job.id \in DOMAIN Pending("serve")
           /\ Pending("serve")[job.id] \in Drafts \ withdrawn
<1>0. LedgersInv /\ TasksInv /\ "serve" \in Tasks
  BY DEF PInv, Tasks
<1>1. mine["serve"] \in DOMAIN ledgers /\ job.id \in DOMAIN ledgers[mine["serve"]].pending
  BY <1>0 DEF TasksInv, Serving
<1>2. ledgers[mine["serve"]] \in LedgerSet
  BY <1>0, <1>1 DEF LedgersInv
<1>3. ledgers[mine["serve"]].pending[job.id] \in (1..minted) \ withdrawn
  BY <1>0, <1>1 DEF LedgersInv, Live
<1>4. 1..minted \subseteq Drafts
  BY <1>0, ConstantsAssumption DEF LedgersInv, Drafts
<1> QED
  BY <1>1, <1>2, <1>3, <1>4 DEF Pending, Ledger

\* What an attempt to apply d may do to the space.
Attempts(d) ==
    /\ \/ UNCHANGED <<landings, known>>
       \/ ~Conflicts(d) /\ Lands(d) /\ known' \in {known, known \union {d}}

LEMMA AttemptMade ==
    ASSUME MadeInv, NEW d \in Drafts, Attempts(d)
    PROVE  /\ MadeInv'
           /\ \A e \in known \union (Made \ NewTypes) \union (Drafts \ {d}) :
                 landings'[e] = landings[e]
<1>1. landings \in [Drafts -> Nat] /\ known \subseteq Made /\ Made \subseteq Drafts
  BY DEF MadeInv, Made
<1>2. CASE UNCHANGED <<landings, known>>
  BY <1>2, SpaceKept
<1>3. CASE ~Conflicts(d) /\ Lands(d) /\ known' \in {known, known \union {d}}
  <2>1. landings' \in [Drafts -> Nat] /\ landings'[d] > 0
    <3>1. CASE d \in NewTypes \/ landings[d] = 0
      BY <1>1, <1>3, <3>1 DEF Lands
    <3>2. CASE ~(d \in NewTypes \/ landings[d] = 0)
      BY <1>1, <1>3, <3>2 DEF Lands
    <3> QED
      BY <3>1, <3>2
  <2>2. \A e \in Drafts \ {d} : landings'[e] = landings[e]
    BY <1>1, <1>3 DEF Lands
  <2>3. d \in known \union (Made \ NewTypes) => landings'[d] = landings[d]
    BY <1>1, <1>3 DEF Lands, Conflicts, Made
  <2>4. known' \subseteq Made'
    <3>1. \A e \in Made : e \in Made'
      BY <1>1, <2>1, <2>2 DEF Made
    <3>2. d \in Made'
      BY <2>1 DEF Made
    <3> QED
      BY <1>1, <1>3, <3>1, <3>2
  <2> QED
    BY <1>1, <2>1, <2>2, <2>3, <2>4 DEF MadeInv
<1> QED
  BY <1>2, <1>3 DEF Attempts

LEMMA ApplySteps ==
    ASSUME PInv, Applied \/ ApplyFails
    PROVE  PInv' /\ stage["serve"] = "apply" /\ Attempts(Pending("serve")[job.id])
<1>0. LedgersInv /\ TasksInv /\ MadeInv /\ "serve" \in Tasks /\ "sched" \in Tasks
  BY DEF PInv, Tasks
<1> DEFINE s == mine["serve"]
           old == ledgers[s]
<1>1. /\ stage["serve"] = "apply" /\ lock' = "free"
      /\ stage' = [stage EXCEPT !["serve"] = "idle"]
      /\ UNCHANGED <<session, mine, minted, withdrawn>>
  BY DEF Applied, ApplyFails, JobDone
<1>2. /\ s \in DOMAIN ledgers /\ old \in LedgerSet /\ job.id \in DOMAIN Pending("serve")
      /\ Pending("serve")[job.id] \in Drafts
  BY <1>1, TheProposal
<1>3. stage \in [Tasks -> Stages] /\ mine \in [Tasks -> Nat]
  BY <1>0 DEF TasksInv
<1>4. Attempts(Pending("serve")[job.id])
  BY DEF Applied, ApplyFails, Attempts
<1>5. MadeInv'
  BY <1>0, <1>2, <1>4, AttemptMade
<1>6. DOMAIN watch' \subseteq DOMAIN watch
  BY DEF Applied, ApplyFails, Unwatched, Without, Restrict
<1>7. LedgersInv' /\ DOMAIN ledgers' = DOMAIN ledgers
  <2>1. CASE Applied
    <3> DEFINE ledger == [old EXCEPT !.pending = Without(@, job.id)]
    <3>1. ledgers' = [ledgers EXCEPT ![s] = ledger]
      BY <2>1 DEF Applied
    <3>2. /\ ledger \in LedgerSet
          /\ DOMAIN ledger.pending = DOMAIN old.pending \ {job.id}
          /\ \A i \in DOMAIN ledger.pending : ledger.pending[i] = old.pending[i]
      BY <1>2, WithoutOne
    <3> HIDE DEF ledger
    <3> QED
      BY <1>0, <1>1, <1>2, <3>1, <3>2, LedgerShrinks
  <2>2. CASE ApplyFails
    <3>1. UNCHANGED ledgers
      BY <2>2 DEF ApplyFails
    <3> QED
      BY <1>0, <1>1, <3>1, LedgersKept
  <2> QED
    BY <2>1, <2>2
<1>8. TasksInv'
  BY <1>0, <1>1, <1>3, <1>6, <1>7, ServeStep
<1> QED
  BY <1>1, <1>4, <1>5, <1>7, <1>8 DEF PInv

-----------------------------------------------------------------------------
(* The rest of the environment, and the theorem. *)

LEMMA RestartStep == ASSUME PInv, Restart PROVE PInv'
<1>0. LedgersInv /\ MadeInv
  BY DEF PInv
<1>1. /\ ledgers' = <<>> /\ session' = 0 /\ watch' = Empty /\ lock' = "free"
      /\ stage' = Idle /\ mine' = [t \in Tasks |-> 0] /\ known' = Made
      /\ UNCHANGED <<landings, minted, withdrawn>>
  BY DEF Restart
<1>2. LedgersInv'
  <2>1. ledgers' \in Seq(LedgerSet) /\ Len(ledgers') = 0 /\ DOMAIN ledgers' = {}
    BY <1>1
  <2> QED
    BY <1>0, <1>1, <2>1 DEF LedgersInv, Apart, Live
<1>3. TasksInv'
  <2>1. /\ stage' \in [Tasks -> Stages] /\ \A t \in Tasks : stage'[t] = "idle"
        /\ "serve" \in Tasks /\ mine' \in [Tasks -> Nat]
    BY <1>1 DEF Idle, Stages, Tasks
  <2>2. DOMAIN watch' = {}
    BY <1>1 DEF Empty
  <2> QED
    BY <2>1, <2>2 DEF TasksInv, Locked, Serving
<1>4. MadeInv'
  BY <1>0, <1>1 DEF MadeInv, Made
<1> QED
  BY <1>2, <1>3, <1>4 DEF PInv

LEMMA InitEstablishes == ASSUME Init PROVE PInv
<1>1. LedgersInv
  <2>1. ledgers \in Seq(LedgerSet) /\ Len(ledgers) = 0 /\ DOMAIN ledgers = {}
    BY DEF Init
  <2> QED
    BY <2>1, ConstantsAssumption DEF Init, LedgersInv, Apart, Live
<1>2. TasksInv
  <2>1. /\ stage \in [Tasks -> Stages] /\ \A t \in Tasks : stage[t] = "idle"
        /\ "serve" \in Tasks /\ mine \in [Tasks -> Nat]
    BY DEF Init, Idle, Stages, Tasks
  <2>2. DOMAIN watch = {}
    BY DEF Init, Empty
  <2> QED
    BY <2>1, <2>2 DEF TasksInv, Locked, Serving
<1>3. MadeInv
  BY DEF Init, MadeInv, Made
<1> QED
  BY <1>1, <1>2, <1>3 DEF PInv

\* Steps in which neither a task nor a ledger moves.
Still ==
    \/ \E d \in Drafts : HumanReacts(d)
    \/ Sweep \/ Open \/ StreamDrop \/ Resync \/ UNCHANGED vars

LEMMA StillSteps == ASSUME PInv, Still PROVE PInv'
<1>0. LedgersInv /\ TasksInv /\ MadeInv
  BY DEF PInv
<1>1. UNCHANGED <<landings, ledgers, session, minted, withdrawn, stage, mine, lock, job, watch>>
  BY DEF Still, HumanReacts, Sweep, Open, StreamDrop, Resync, vars, space, taskVars, historyVars
<1>2. known' = known \/ known' = Made
  BY DEF Still, HumanReacts, Sweep, Open, StreamDrop, Resync, vars, space
<1>3. LedgersInv' /\ TasksInv'
  BY <1>0, <1>1, LedgersKept, TasksKept
<1>4. MadeInv'
  BY <1>0, <1>1, <1>2 DEF MadeInv, Made
<1> QED
  BY <1>3, <1>4 DEF PInv

\* Every step is one of those that the lemmas are about.
LEMMA StepCases ==
    ASSUME [Next]_vars
    PROVE  \/ Still \/ Restart \/ Dismissed \/ Applied \/ ApplyFails
           \/ ReactionTaken \/ ReactionStale \/ ApplyStarts
           \/ Seed \/ Note \/ \E t \in Tasks : LoadEnds(t) \/ TurnStarts(t)
           \/ \E t \in Tasks : Draft(t) \/ ToolCancels(t) \/ TurnEnds(t)
           \/ \E t \in Tasks :
                 TurnRaises(t) \/ PostLands(t) \/ Watched(t) \/ PostFails(t) \/ Delivered(t)
BY DEF Next, TurnOf, Reaction, Environment, Still

LEMMA StepPreserves == ASSUME PInv, [Next]_vars PROVE PInv'
BY StepCases, StillSteps, RestartStep, DismissStep, ApplySteps, TakenSteps, LoadSteps,
   DraftSteps, CallSteps

\* Only applying a confirmed draft changes the space.
LEMMA OnlyApplied ==
    ASSUME [Next]_vars, ~(Applied \/ ApplyFails)
    PROVE  UNCHANGED landings
<1>1. CASE Still
  BY <1>1 DEF Still, HumanReacts, Sweep, Open, StreamDrop, Resync, vars, space
<1>2. CASE Restart \/ Dismissed \/ ReactionTaken \/ ReactionStale \/ ApplyStarts
  BY <1>2 DEF Restart, Dismissed, ReactionTaken, ReactionStale, ApplyStarts, space
<1>3. CASE Seed \/ Note \/ \E t \in Tasks : LoadEnds(t) \/ TurnStarts(t)
  BY <1>3 DEF Seed, Note, LoadEnds, TurnStarts, space
<1>4. CASE \E t \in Tasks : Draft(t) \/ ToolCancels(t) \/ TurnEnds(t)
  BY <1>4 DEF Draft, ToolCancels, TurnEnds, space
<1>5. CASE \E t \in Tasks :
              TurnRaises(t) \/ PostLands(t) \/ Watched(t) \/ PostFails(t) \/ Delivered(t)
  BY <1>5 DEF TurnRaises, PostLands, Watched, PostFails, Delivered, space
<1> QED
  BY <1>1, <1>2, <1>3, <1>4, <1>5, StepCases

Once ==
    \A d \in known \union (Made \ NewTypes) \union withdrawn : landings'[d] = landings[d]

LEMMA StepOnce == ASSUME PInv, [Next]_vars PROVE Once
<1>1. CASE Applied \/ ApplyFails
  <2> DEFINE d == Pending("serve")[job.id]
  <2>1. d \in Drafts \ withdrawn /\ Attempts(d)
    BY <1>1, ApplySteps, TheProposal
  <2> HIDE DEF d
  <2>2. \A e \in known \union (Made \ NewTypes) \union (Drafts \ {d}) : landings'[e] = landings[e]
    BY <2>1, AttemptMade DEF PInv
  <2>3. withdrawn \subseteq Drafts
    BY ConstantsAssumption DEF PInv, LedgersInv, Drafts
  <2> QED
    BY <2>1, <2>2, <2>3 DEF Once
<1>2. CASE ~(Applied \/ ApplyFails)
  BY <1>2, OnlyApplied DEF Once
<1> QED
  BY <1>1, <1>2

\* In every behaviour of the chat, whatever fails and however the two tasks,
\* the loads of the session and the reactions interleave, a change that the
\* registry shows, an extension that was made, and a draft that the model
\* cancelled or a person dismissed are not made again: handle_reaction looks the
\* proposal up under the route lock, and apply leaves a failed one pending.
THEOREM AppliedAtMostOnce == Spec => AppliedOnce
<1>1. Init => PInv
  BY InitEstablishes
<1>2. PInv /\ [Next]_vars => PInv'
  BY StepPreserves
<1>3. PInv /\ [Next]_vars => [Once]_vars
  BY StepOnce
<1>4. Spec => [][Once]_vars
  BY <1>1, <1>2, <1>3, PTL DEF Spec
<1> QED
  BY <1>4 DEF AppliedOnce, Once

-----------------------------------------------------------------------------
(* What is applied is what was shown. *)

\* No two sessions of the chat have had drafts since the process started: no load
\* of the session replaces one that a turn has drafted in, or no turn drafts in
\* the new one.
OneDrafted ==
    \A s, q \in DOMAIN ledgers : ledgers[s].next > 1 /\ ledgers[q].next > 1 => s = q

\* The id was given by a session, to draft d and to no other.
Points(id, d) ==
    /\ id \in Nat \ {0}
    /\ \E s \in DOMAIN ledgers : id < ledgers[s].next
    /\ \A s \in DOMAIN ledgers :
          id \in DOMAIN ledgers[s].pending => ledgers[s].pending[id] = d

\* Ids are not used again, and the drafts of a turn are pending until it ends.
NumbersInv ==
    /\ \A s \in DOMAIN ledgers :
          /\ ledgers[s].next >= 1
          /\ \A i \in DOMAIN ledgers[s].pending : 1 <= i /\ i < ledgers[s].next
    /\ \A t \in Tasks : stage[t] = "turn" =>
          ledgers[mine[t]].drafted \subseteq DOMAIN ledgers[mine[t]].pending

\* What is posted, and what is watched, is known by its id.
PostsInv ==
    /\ outgoing \in [Tasks -> Proposals]
    /\ \A t \in Tasks :
          /\ outgoing[t] # Empty => stage[t] \in {"post", "posted"}
          /\ stage[t] = "posted" => outgoing[t] # Empty
          /\ \A id \in DOMAIN outgoing[t] : Points(id, outgoing[t][id])
    /\ DOMAIN watch \subseteq Drafts
    /\ \A d \in DOMAIN watch : Points(watch[d], d)

Frames == Drafts \X SUBSET Emojis

\* The frames tell of thumbs that were held up.
Honest(sent) ==
    /\ sent \in Seq(Frames)
    /\ \A n \in DOMAIN sent : "up" \in sent[n][2] => sent[n][1] \in approved

\* A thumb that is read was held up on that very message.
ThumbsInv ==
    /\ thumbs \in [Drafts -> SUBSET Emojis] /\ Honest(frames)
    /\ \A d \in Drafts : "up" \in thumbs[d] => d \in approved
    /\ stage["serve"] \in {"wait", "apply"} =>
          Points(job.id, job.draft) /\ (job.up => job.draft \in approved)
    /\ stage["serve"] = "apply" => job.up

ShownInv == NumbersInv /\ PostsInv /\ ThumbsInv /\ AppliedAsShown

\* The ledgers go on: no id comes back, and none moves to another draft.
Follows ==
    /\ DOMAIN ledgers \subseteq DOMAIN ledgers'
    /\ \A s \in DOMAIN ledgers' \ DOMAIN ledgers :
          ledgers'[s].next = 1 /\ DOMAIN ledgers'[s].pending = {}
    /\ \A s \in DOMAIN ledgers :
          /\ ledgers'[s].next >= ledgers[s].next
          /\ \A i \in DOMAIN ledgers'[s].pending :
                \/ /\ i \in DOMAIN ledgers[s].pending
                   /\ ledgers'[s].pending[i] = ledgers[s].pending[i]
                \/ i = ledgers[s].next /\ ledgers'[s].next > i

LEMMA LedgerTypes ==
    ASSUME NEW L \in Seq(LedgerSet), NEW s \in DOMAIN L
    PROVE  L[s].next \in Nat /\ DOMAIN L[s].pending \subseteq Nat
<1>1. L[s] \in LedgerSet
  OBVIOUS
<1>2. L[s].next \in Nat /\ L[s].pending \in Proposals
  BY <1>1 DEF LedgerSet
<1>3. PICK S \in SUBSET Nat : L[s].pending \in [S -> Drafts]
  BY <1>2 DEF Proposals
<1> QED
  BY <1>2, <1>3

LEMMA PointsFollow ==
    ASSUME LedgersInv, LedgersInv', OneDrafted', Follows, NEW id, NEW d, Points(id, d)
    PROVE  Points(id, d)'
<1>1. \A s \in DOMAIN ledgers : ledgers[s].next \in Nat
  BY LedgerTypes DEF LedgersInv
<1>2. \A s \in DOMAIN ledgers' : ledgers'[s].next \in Nat
  BY LedgerTypes DEF LedgersInv
<1>3. PICK q \in DOMAIN ledgers : id < ledgers[q].next
  BY DEF Points
<1>4. id \in Nat /\ id >= 1
  BY DEF Points
<1>5. q \in DOMAIN ledgers' /\ id < ledgers'[q].next
  BY <1>1, <1>2, <1>3, <1>4 DEF Follows
<1>6. ASSUME NEW s \in DOMAIN ledgers', id \in DOMAIN ledgers'[s].pending
      PROVE  ledgers'[s].pending[id] = d
  <2>1. s \in DOMAIN ledgers
    BY <1>6 DEF Follows
  <2>2. CASE id \in DOMAIN ledgers[s].pending
                /\ ledgers'[s].pending[id] = ledgers[s].pending[id]
    BY <2>1, <2>2 DEF Points
  <2>3. CASE id = ledgers[s].next /\ ledgers'[s].next > id
    <3>1. ledgers'[s].next > 1 /\ ledgers'[q].next > 1
      BY <1>2, <1>4, <1>5, <1>6, <2>3
    <3>2. s = q
      BY <1>5, <1>6, <3>1 DEF OneDrafted
    <3> QED
      BY <1>1, <1>3, <1>4, <2>3, <3>2
  <2> QED
    BY <1>6, <2>1, <2>2, <2>3 DEF Follows
<1> QED
  BY <1>4, <1>5, <1>6 DEF Points

LEMMA SameFollows == ASSUME LedgersInv, UNCHANGED ledgers PROVE Follows
BY LedgerTypes DEF LedgersInv, Follows

\* One ledger moves on.
LEMMA OneFollows ==
    ASSUME LedgersInv, NEW s \in DOMAIN ledgers, NEW ledger \in LedgerSet,
           ledgers' = [ledgers EXCEPT ![s] = ledger], ledger.next >= ledgers[s].next,
           \A i \in DOMAIN ledger.pending :
              \/ i \in DOMAIN ledgers[s].pending /\ ledger.pending[i] = ledgers[s].pending[i]
              \/ i = ledgers[s].next /\ ledger.next > i
    PROVE  Follows
<1>1. /\ DOMAIN ledgers' = DOMAIN ledgers /\ ledgers'[s] = ledger
      /\ \A q \in DOMAIN ledgers \ {s} : ledgers'[q] = ledgers[q]
  BY DEF LedgersInv
<1>2. \A q \in DOMAIN ledgers : ledgers[q].next >= ledgers[q].next
  BY LedgerTypes DEF LedgersInv
<1> QED
  BY <1>1, <1>2 DEF Follows

\* One ledger loses proposals, or none.
LEMMA LessFollows ==
    ASSUME LedgersInv, NEW s \in DOMAIN ledgers, NEW ledger \in LedgerSet,
           ledgers' = [ledgers EXCEPT ![s] = ledger], ledger.next = ledgers[s].next,
           DOMAIN ledger.pending \subseteq DOMAIN ledgers[s].pending,
           \A i \in DOMAIN ledger.pending : ledger.pending[i] = ledgers[s].pending[i]
    PROVE  Follows
<1>1. ledgers[s].next \in Nat
  BY LedgerTypes DEF LedgersInv
<1>2. ledger.next >= ledgers[s].next
  BY <1>1
<1> QED
  BY <1>2, OneFollows

LEMMA NumbersFollow ==
    ASSUME LedgersInv, LedgersInv', NumbersInv, Follows,
           \A t \in Tasks : stage'[t] = "turn" =>
              ledgers'[mine'[t]].drafted \subseteq DOMAIN ledgers'[mine'[t]].pending
    PROVE  NumbersInv'
<1>1. \A s \in DOMAIN ledgers : ledgers[s].next \in Nat /\ DOMAIN ledgers[s].pending \subseteq Nat
  BY LedgerTypes DEF LedgersInv
<1>2. \A s \in DOMAIN ledgers' : ledgers'[s].next \in Nat
  BY LedgerTypes DEF LedgersInv
<1>3. ASSUME NEW s \in DOMAIN ledgers'
      PROVE  /\ ledgers'[s].next >= 1
             /\ \A i \in DOMAIN ledgers'[s].pending : 1 <= i /\ i < ledgers'[s].next
  <2>1. CASE s \notin DOMAIN ledgers
    BY <1>2, <2>1 DEF Follows
  <2>2. CASE s \in DOMAIN ledgers
    <3>1. ledgers[s].next >= 1 /\ ledgers'[s].next >= ledgers[s].next
      BY <2>2 DEF NumbersInv, Follows
    <3>2. ASSUME NEW i \in DOMAIN ledgers'[s].pending
          PROVE  1 <= i /\ i < ledgers'[s].next
      <4>1. CASE i \in DOMAIN ledgers[s].pending
        <5>1. i \in Nat /\ 1 <= i /\ i < ledgers[s].next
          BY <1>1, <2>2, <4>1 DEF NumbersInv
        <5> QED
          BY <1>1, <1>2, <2>2, <3>1, <5>1
      <4>2. CASE i = ledgers[s].next /\ ledgers'[s].next > i
        BY <1>1, <1>2, <2>2, <3>1, <4>2
      <4> QED
        BY <2>2, <4>1, <4>2 DEF Follows
    <3> QED
      BY <1>1, <1>2, <2>2, <3>1, <3>2
  <2> QED
    BY <2>1, <2>2
<1> QED
  BY <1>3 DEF NumbersInv

\* No turn moves, and no ledger.
LEMMA NumbersKept ==
    ASSUME NumbersInv, UNCHANGED ledgers,
           \A t \in Tasks : stage'[t] = "turn" => stage[t] = "turn" /\ mine'[t] = mine[t]
    PROVE  NumbersInv'
BY DEF NumbersInv

\* What is posted and watched stays, or less is watched.
LEMMA PostsFollow ==
    ASSUME LedgersInv, LedgersInv', OneDrafted', PostsInv, Follows, UNCHANGED outgoing,
           \A d \in DOMAIN watch' : d \in DOMAIN watch /\ watch'[d] = watch[d],
           \A t \in Tasks : outgoing[t] # Empty => stage'[t] \in {"post", "posted"},
           \A t \in Tasks : stage'[t] = "posted" => outgoing[t] # Empty
    PROVE  PostsInv'
<1>1. ASSUME NEW t \in Tasks, NEW id \in DOMAIN outgoing[t]
      PROVE  Points(id, outgoing[t][id])'
  <2>1. Points(id, outgoing[t][id])
    BY DEF PostsInv
  <2> DEFINE d == outgoing[t][id]
  <2>2. \A e : Points(id, e) => Points(id, e)'
    BY PointsFollow
  <2> QED
    BY <2>1, <2>2 DEF Points
<1>2. ASSUME NEW d \in DOMAIN watch' PROVE Points(watch[d], d)'
  <2>1. Points(watch[d], d)
    BY <1>2 DEF PostsInv
  <2> QED
    BY <2>1, PointsFollow DEF Points
<1> QED
  BY <1>1, <1>2 DEF PostsInv

\* The reactions are as they were, or fewer, and nobody new approves.
LEMMA ThumbsFollow ==
    ASSUME LedgersInv, LedgersInv', OneDrafted', ThumbsInv, Follows, UNCHANGED <<thumbs, approved>>,
           frames' \in {frames, <<>>},
           stage'["serve"] \in {"wait", "apply"} =>
              stage["serve"] \in {"wait", "apply"} /\ UNCHANGED job,
           stage'["serve"] = "apply" => job.up
    PROVE  ThumbsInv'
<1>1. Honest(frames)'
  <2>1. CASE frames' = frames
    BY <2>1 DEF ThumbsInv, Honest
  <2>2. CASE frames' = <<>>
    <3>1. DOMAIN frames' = {} /\ frames' \in Seq(Frames)
      BY <2>2
    <3> QED
      BY <3>1 DEF Honest
  <2> QED
    BY <2>1, <2>2
<1>2. ASSUME stage'["serve"] \in {"wait", "apply"}
      PROVE  Points(job.id, job.draft)' /\ (job.up => job.draft \in approved) /\ UNCHANGED job
  <2>1. Points(job.id, job.draft) /\ (job.up => job.draft \in approved) /\ UNCHANGED job
    BY <1>2 DEF ThumbsInv
  <2>2. PICK id, d : id = job.id /\ d = job.draft /\ Points(id, d)
    BY <2>1
  <2>3. Points(id, d)' /\ job'.id = id /\ job'.draft = d
    BY <2>1, <2>2, PointsFollow
  <2>4. Points(job.id, job.draft)'
    BY <2>3 DEF Points
  <2> QED
    BY <2>1, <2>4
<1> QED
  BY <1>1, <1>2 DEF ThumbsInv

\* What was shown stays shown.
LEMMA ShownKept ==
    ASSUME AppliedAsShown, UNCHANGED landings, approved \subseteq approved'
    PROVE  AppliedAsShown'
BY DEF AppliedAsShown

-----------------------------------------------------------------------------
(* Steps that leave the ledgers alone. *)

\* A task that is not posting goes on somewhere else, and no turn begins.
LEMMA TaskMoves ==
    ASSUME PInv, PInv', ShownInv, OneDrafted', NEW t \in Tasks,
           NEW next \in {"idle", "seed", "note", "load"},
           stage' = [stage EXCEPT ![t] = next], outgoing[t] = Empty,
           \A u \in Tasks \ {t} : mine'[u] = mine[u],
           UNCHANGED <<ledgers, outgoing, thumbs, frames, approved, landings>>,
           job' = job \/ t = "serve",
           \A d \in DOMAIN watch' : d \in DOMAIN watch /\ watch'[d] = watch[d]
    PROVE  ShownInv'
<1>1. LedgersInv /\ LedgersInv' /\ NumbersInv /\ PostsInv /\ ThumbsInv /\ AppliedAsShown /\ Follows
  BY SameFollows DEF PInv, ShownInv
<1>2. stage \in [Tasks -> Stages] /\ stage'[t] = next
      /\ \A u \in Tasks \ {t} : stage'[u] = stage[u]
  BY DEF PInv, TasksInv
<1>3. NumbersInv'
  <2>1. \A u \in Tasks : stage'[u] = "turn" => stage[u] = "turn" /\ mine'[u] = mine[u]
    BY <1>2
  <2> QED
    BY <1>1, <2>1, NumbersKept
<1>4. PostsInv'
  <2>1. /\ \A u \in Tasks : outgoing[u] # Empty => stage'[u] \in {"post", "posted"}
        /\ \A u \in Tasks : stage'[u] = "posted" => outgoing[u] # Empty
    BY <1>1, <1>2 DEF PostsInv
  <2> QED
    BY <1>1, <2>1, PostsFollow
<1>5. ThumbsInv'
  <2>1. "serve" \in Tasks
    BY DEF Tasks
  <2>2. stage'["serve"] \in {"wait", "apply"} => stage'["serve"] = stage["serve"] /\ job' = job
    BY <1>2, <2>1
  <2>3. stage["serve"] = "apply" => job.up
    BY <1>1 DEF ThumbsInv
  <2> QED
    BY <1>1, <2>2, <2>3, ThumbsFollow
<1>6. AppliedAsShown'
  BY <1>1, ShownKept
<1> QED
  BY <1>3, <1>4, <1>5, <1>6 DEF ShownInv

LEMMA QuietSteps ==
    ASSUME PInv, PInv', ShownInv, OneDrafted',
           \/ Seed \/ Note \/ ReactionStale \/ Open \/ StreamDrop \/ Resync \/ UNCHANGED vars
           \/ \E t \in Tasks : TurnRaises(t) \/ Delivered(t)
    PROVE  ShownInv'
<1>1. /\ "serve" \in Tasks /\ "sched" \in Tasks /\ stage \in [Tasks -> Stages]
      /\ mine \in [Tasks -> Nat] /\ PostsInv
      /\ \A t \in Tasks : outgoing[t] = Empty \/ stage[t] \in {"post", "posted"}
  BY DEF PInv, TasksInv, Tasks, ShownInv, PostsInv
<1>2. CASE Seed
  <2>1. PICK next \in {"idle", "seed"} : stage' = [stage EXCEPT !["serve"] = next]
    <3>1. CASE Enter("serve", "idle", "seed")
      BY <3>1 DEF Enter
    <3>2. CASE UNCHANGED stage
      <4>1. stage' = [stage EXCEPT !["serve"] = "idle"]
        BY <1>1, <1>2, <3>2 DEF Seed
      <4> QED
        BY <4>1
    <3> QED
      BY <1>2, <3>1, <3>2 DEF Seed
  <2>2. /\ outgoing["serve"] = Empty
        /\ mine' = mine \/ mine' = [mine EXCEPT !["serve"] = session]
        /\ UNCHANGED <<ledgers, outgoing, thumbs, frames, approved, job, landings, watch>>
    BY <1>1, <1>2 DEF Seed, Enter, space, historyVars
  <2>3. \A u \in Tasks \ {"serve"} : mine'[u] = mine[u]
    BY <1>1, <2>2
  <2> QED
    BY <1>1, <2>1, <2>2, <2>3, TaskMoves
<1>3. CASE Note
  <2>1. PICK next \in {"idle", "note"} : stage' = [stage EXCEPT !["sched"] = next]
    BY <1>3 DEF Note, Enter
  <2>2. /\ outgoing["sched"] = Empty /\ mine' = [mine EXCEPT !["sched"] = session]
        /\ UNCHANGED <<ledgers, outgoing, thumbs, frames, approved, job, landings, watch>>
    BY <1>1, <1>3 DEF Note, Enter, space, historyVars, streamVars
  <2>3. \A u \in Tasks \ {"sched"} : mine'[u] = mine[u]
    BY <1>1, <2>2
  <2> QED
    BY <1>1, <2>1, <2>2, <2>3, TaskMoves
<1>4. ASSUME NEW t \in Tasks, TurnRaises(t) \/ Delivered(t) PROVE ShownInv'
  <2>1. /\ stage' = [stage EXCEPT ![t] = "idle"] /\ outgoing[t] = Empty
        /\ UNCHANGED <<ledgers, outgoing, thumbs, frames, approved, job, landings, watch, mine>>
    BY <1>1, <1>4 DEF TurnRaises, Delivered, space, historyVars, streamVars
  <2> QED
    BY <2>1, TaskMoves
<1>5. CASE ReactionStale
  <2>1. /\ stage' = [stage EXCEPT !["serve"] = "idle"] /\ outgoing["serve"] = Empty
        /\ UNCHANGED <<ledgers, outgoing, thumbs, frames, approved, landings, mine>>
    BY <1>1, <1>5 DEF ReactionStale, JobDone, space, streamVars
  <2>2. \A d \in DOMAIN watch' : d \in DOMAIN watch /\ watch'[d] = watch[d]
    BY <1>5 DEF ReactionStale, Unwatched, Without, Restrict
  <2> QED
    BY <1>1, <2>1, <2>2, TaskMoves
<1>6. CASE Open \/ StreamDrop \/ Resync \/ UNCHANGED vars
  <2>1. /\ UNCHANGED <<ledgers, outgoing, thumbs, approved, job, landings, watch, mine, stage>>
        /\ frames' \in {frames, <<>>}
    BY <1>6 DEF Open, StreamDrop, Resync, vars, space, taskVars, historyVars, streamVars
  <2>2. LedgersInv /\ LedgersInv' /\ NumbersInv /\ ThumbsInv /\ AppliedAsShown /\ Follows
    BY <2>1, SameFollows DEF PInv, ShownInv
  <2>3. NumbersInv' /\ AppliedAsShown'
    BY <2>1, <2>2, NumbersKept, ShownKept
  <2>4. PostsInv'
    BY <1>1, <2>1, <2>2, PostsFollow DEF PostsInv
  <2>5. ThumbsInv'
    BY <2>1, <2>2, ThumbsFollow DEF ThumbsInv
  <2> QED
    BY <2>3, <2>4, <2>5 DEF ShownInv
<1> QED
  BY <1>2, <1>3, <1>4, <1>5, <1>6

-----------------------------------------------------------------------------
(* Posting and watching. *)

LEMMA WithoutProposal ==
    ASSUME NEW f \in Proposals, NEW id
    PROVE  /\ Without(f, id) \in Proposals /\ DOMAIN Without(f, id) = DOMAIN f \ {id}
           /\ \A i \in DOMAIN f \ {id} : Without(f, id)[i] = f[i]
<1>1. PICK S \in SUBSET Nat : f \in [S -> Drafts]
  BY DEF Proposals
<1>2. /\ Without(f, id) \in [S \ {id} -> Drafts] /\ DOMAIN Without(f, id) = S \ {id}
      /\ \A i \in S \ {id} : Without(f, id)[i] = f[i]
  BY <1>1 DEF Without, Restrict
<1> QED
  BY <1>1, <1>2 DEF Proposals

LEMMA NoneProposed == Empty \in Proposals /\ DOMAIN Empty = {}
<1>1. Empty \in [{} -> Drafts] /\ DOMAIN Empty = {}
  BY DEF Empty
<1> HIDE DEF Empty
<1> QED
  BY <1>1 DEF Proposals

LEMMA LeastOf ==
    ASSUME NEW S \in SUBSET Nat, NEW n \in S
    PROVE  \E m \in S : \A l \in S : m <= l
<1>1. PICK m \in S : \A l \in S : ~(<<l, m>> \in OpToRel(<, Nat))
  BY WFMin, NatLessThanWellFounded
<1>2. \A p \in Nat \X Nat : p[1] < p[2] => p \in OpToRel(<, Nat)
  BY DEF OpToRel
<1>3. ASSUME NEW l \in S PROVE m <= l
  <2>1. <<l, m>> \in Nat \X Nat /\ (l < m => <<l, m>> \in OpToRel(<, Nat))
    BY <1>2
  <2>2. ~(l < m)
    BY <1>1, <2>1
  <2>3. l \in Nat /\ m \in Nat
    OBVIOUS
  <2> QED
    BY <2>2, <2>3
<1> QED
  BY <1>3

\* The confirm that is posted is one of the turn's own.
LEMMA FirstOf ==
    ASSUME NEW f \in Proposals, f # Empty
    PROVE  /\ First(DOMAIN f) \in DOMAIN f /\ First(DOMAIN f) \in Nat
           /\ f[First(DOMAIN f)] \in Drafts
<1>1. PICK S \in SUBSET Nat : f \in [S -> Drafts]
  BY DEF Proposals
<1>2. S # {}
  <2>1. CASE S = {}
    <3>1. f = [x \in {} |-> 0]
      BY <1>1, <2>1
    <3> QED
      BY <3>1 DEF Empty
  <2> QED
    BY <2>1
<1>3. \E m \in S : \A l \in S : m <= l
  BY <1>2, LeastOf
<1>4. First(S) \in S
  BY <1>3 DEF First
<1> QED
  BY <1>1, <1>4

LEMMA PostingSteps ==
    ASSUME PInv, PInv', ShownInv, OneDrafted', NEW t \in Tasks, PostLands(t) \/ Watched(t) \/ PostFails(t)
    PROVE  ShownInv'
<1>1. /\ LedgersInv /\ LedgersInv' /\ NumbersInv /\ PostsInv /\ ThumbsInv /\ AppliedAsShown
      /\ stage \in [Tasks -> Stages] /\ outgoing \in [Tasks -> Proposals]
  BY DEF PInv, TasksInv, ShownInv, PostsInv
<1>2. UNCHANGED <<ledgers, thumbs, frames, approved, job, landings, mine>>
  BY DEF PostLands, Watched, PostFails, space, historyVars, streamVars
<1>3. PICK next \in {"idle", "post", "posted"} : stage' = [stage EXCEPT ![t] = next]
  BY DEF PostLands, Watched, PostFails
<1>4. stage'[t] = next /\ \A u \in Tasks \ {t} : stage'[u] = stage[u]
  BY <1>1, <1>3
<1>5. Follows
  BY <1>1, <1>2, SameFollows
<1>6. NumbersInv'
  <2>1. \A u \in Tasks : stage'[u] = "turn" => stage[u] = "turn" /\ mine'[u] = mine[u]
    BY <1>2, <1>4
  <2> QED
    BY <1>1, <1>2, <2>1, NumbersKept
<1>7. ThumbsInv'
  <2>1. "serve" \in Tasks
    BY DEF Tasks
  <2>2. stage'["serve"] \in {"wait", "apply"} => stage'["serve"] = stage["serve"]
    BY <1>4, <2>1
  <2>3. stage["serve"] = "apply" => job.up
    BY <1>1 DEF ThumbsInv
  <2> QED
    BY <1>1, <1>2, <1>5, <2>2, <2>3, ThumbsFollow
<1>8. AppliedAsShown'
  BY <1>1, <1>2, ShownKept
<1>9. \A id, d : Points(id, d) => Points(id, d)'
  BY <1>1, <1>5, PointsFollow
<1>10. PostsInv'
  <2>1. CASE PostLands(t)
    <3>1. stage[t] = "post" /\ outgoing[t] # Empty /\ UNCHANGED <<outgoing, watch>>
          /\ stage' = [stage EXCEPT ![t] = "posted"]
      BY <2>1 DEF PostLands
    <3>2. /\ \A u \in Tasks : outgoing[u] # Empty => stage'[u] \in {"post", "posted"}
          /\ \A u \in Tasks : stage'[u] = "posted" => outgoing[u] # Empty
      BY <1>1, <1>4, <3>1 DEF PostsInv
    <3> QED
      BY <1>1, <1>5, <3>1, <3>2, PostsFollow
  <2>2. CASE PostFails(t) \/ Watched(t)
    <3>1. PICK rest \in Proposals :
              /\ outgoing' = [outgoing EXCEPT ![t] = rest]
              /\ \A i \in DOMAIN rest : i \in DOMAIN outgoing[t] /\ rest[i] = outgoing[t][i]
              /\ rest # Empty => next = "post"
              /\ next # "posted"
      <4>1. CASE PostFails(t)
        BY <1>1, <1>3, <1>4, <4>1, NoneProposed DEF PostFails
      <4>2. CASE Watched(t)
        <5>1. outgoing[t] \in Proposals
          BY <1>1
        <5>2. PICK id : outgoing' = [outgoing EXCEPT ![t] = Without(outgoing[t], id)]
          BY <4>2 DEF Watched
        <5>3. next = "post"
          BY <1>1, <1>4, <4>2 DEF Watched
        <5> DEFINE rest == Without(outgoing[t], id)
        <5>4. /\ rest \in Proposals
              /\ \A i \in DOMAIN rest : i \in DOMAIN outgoing[t] /\ rest[i] = outgoing[t][i]
          BY <5>1, WithoutProposal
        <5>5. outgoing' = [outgoing EXCEPT ![t] = rest]
          BY <5>2
        <5> HIDE DEF rest
        <5> QED
          BY <5>3, <5>4, <5>5
      <4> QED
        BY <2>2, <4>1, <4>2
    <3>2. outgoing' \in [Tasks -> Proposals] /\ outgoing'[t] = rest
          /\ \A u \in Tasks \ {t} : outgoing'[u] = outgoing[u]
      BY <1>1, <3>1
    <3>3. \A d \in DOMAIN watch' :
              d \in Drafts /\ \E id : watch'[d] = id /\ Points(id, d)
      <4>1. CASE UNCHANGED watch
        BY <1>1, <4>1 DEF PostsInv
      <4>2. CASE Watched(t)
        <5> DEFINE id == First(DOMAIN outgoing[t])
                   d == outgoing[t][id]
        <5>1. outgoing[t] # Empty /\ outgoing[t] \in Proposals
          BY <1>1, <4>2 DEF Watched, PostsInv
        <5>2. id \in DOMAIN outgoing[t] /\ d \in Drafts
          BY <5>1, FirstOf
        <5>3. Points(id, d)
          BY <1>1, <5>2 DEF PostsInv
        <5>4. watch' = [e \in DOMAIN watch \union {d} |-> IF e = d THEN id ELSE watch[e]]
          BY <4>2 DEF Watched
        <5> HIDE DEF id, d
        <5> QED
          BY <1>1, <5>2, <5>3, <5>4 DEF PostsInv
      <4> QED
        BY <2>2, <4>1, <4>2 DEF PostFails
    <3>4. ASSUME NEW u \in Tasks, NEW id \in DOMAIN outgoing'[u]
          PROVE  \E d : outgoing'[u][id] = d /\ Points(id, d)
      <4>1. id \in DOMAIN outgoing[u] /\ outgoing'[u][id] = outgoing[u][id]
        BY <3>1, <3>2
      <4> QED
        BY <1>1, <4>1 DEF PostsInv
    <3>5. ASSUME NEW u \in Tasks
          PROVE  /\ outgoing'[u] # Empty => stage'[u] \in {"post", "posted"}
                 /\ stage'[u] = "posted" => outgoing'[u] # Empty
      BY <1>1, <1>4, <3>1, <3>2 DEF PostsInv
    <3>6. Empty' = Empty
      BY DEF Empty
    <3> QED
      BY <1>9, <3>2, <3>3, <3>4, <3>5, <3>6 DEF PostsInv
  <2> QED
    BY <2>1, <2>2
<1> QED
  BY <1>6, <1>7, <1>8, <1>10 DEF ShownInv

-----------------------------------------------------------------------------
(* Thumbs and reactions. *)

LEMMA ReactSteps ==
    ASSUME PInv, PInv', ShownInv, OneDrafted', Sweep \/ \E d \in Drafts : HumanReacts(d)
    PROVE  ShownInv'
<1>1. /\ LedgersInv /\ LedgersInv' /\ NumbersInv /\ PostsInv /\ ThumbsInv /\ AppliedAsShown
      /\ thumbs \in [Drafts -> SUBSET Emojis] /\ Honest(frames)
      /\ \A d \in Drafts : "up" \in thumbs[d] => d \in approved
  BY DEF PInv, ShownInv, ThumbsInv
<1>2. UNCHANGED <<ledgers, job, landings, mine, stage, outgoing, watch>>
  BY DEF Sweep, HumanReacts, space, taskVars
<1>3. Follows
  BY <1>1, <1>2, SameFollows
<1>4. NumbersInv'
  BY <1>1, <1>2, NumbersKept
<1>5. PostsInv'
  BY <1>1, <1>2, <1>3, PostsFollow DEF PostsInv
<1>6. /\ thumbs' \in [Drafts -> SUBSET Emojis] /\ Honest(frames)'
      /\ \A d \in Drafts : "up" \in thumbs'[d] => d \in approved'
      /\ approved \subseteq approved'
  <2>1. ASSUME NEW d \in Drafts, HumanReacts(d)
        PROVE  /\ thumbs' \in [Drafts -> SUBSET Emojis] /\ Honest(frames)'
               /\ \A e \in Drafts : "up" \in thumbs'[e] => e \in approved'
               /\ approved \subseteq approved'
    <3>1. PICK S \in SUBSET Emojis : thumbs' = [thumbs EXCEPT ![d] = S]
      <4>1. PICK e \in Emojis :
               thumbs' = [thumbs EXCEPT ![d] = IF e \in @ THEN @ \ {e} ELSE @ \union {e}]
        BY <2>1 DEF HumanReacts
      <4>2. thumbs[d] \in SUBSET Emojis
        BY <1>1
      <4> DEFINE S == IF e \in thumbs[d] THEN thumbs[d] \ {e} ELSE thumbs[d] \union {e}
      <4>3. S \in SUBSET Emojis /\ thumbs' = [thumbs EXCEPT ![d] = S]
        BY <4>1, <4>2
      <4> HIDE DEF S
      <4> QED
        BY <4>3
    <3>2. /\ thumbs' \in [Drafts -> SUBSET Emojis] /\ thumbs'[d] = S
          /\ \A e \in Drafts \ {d} : thumbs'[e] = thumbs[e]
      BY <1>1, <3>1
    <3>3. /\ approved' = IF "up" \in S THEN approved \union {d} ELSE approved
          /\ frames' = frames \/ frames' = Append(frames, <<d, S>>)
      BY <2>1, <3>2 DEF HumanReacts
    <3>4. \A e \in Drafts : "up" \in thumbs'[e] => e \in approved'
      BY <1>1, <3>2, <3>3
    <3>5. Honest(frames)'
      <4>1. CASE frames' = frames
        BY <1>1, <3>3, <4>1 DEF Honest
      <4>2. CASE frames' = Append(frames, <<d, S>>)
        <5> DEFINE f == <<d, S>>
        <5>1. f \in Frames /\ f[1] = d /\ f[2] = S
          BY DEF Frames
        <5>2. frames \in Seq(Frames) /\ frames' = Append(frames, f)
          BY <1>1, <4>2 DEF Honest
        <5> HIDE DEF f
        <5>3. /\ frames' \in Seq(Frames) /\ frames'[Len(frames) + 1] = f
              /\ \A n \in 1..Len(frames) : frames'[n] = frames[n]
              /\ DOMAIN frames = 1..Len(frames) /\ Len(frames') = Len(frames) + 1
              /\ Len(frames) \in Nat /\ DOMAIN frames' = 1..Len(frames')
          BY <5>1, <5>2, AppendProperties
        <5>4. DOMAIN frames' = DOMAIN frames \union {Len(frames) + 1}
          BY <5>3
        <5> QED
          BY <1>1, <3>3, <5>1, <5>3, <5>4 DEF Honest
      <4> QED
        BY <3>3, <4>1, <4>2
    <3> QED
      BY <3>2, <3>3, <3>4, <3>5
  <2>2. CASE Sweep
    <3>1. UNCHANGED <<thumbs, approved>>
      BY <2>2 DEF Sweep, historyVars
    <3>2. PICK order \in [1..Cardinality(Swept) -> Swept] :
              frames' = [i \in DOMAIN order |-> <<order[i], thumbs[order[i]]>>]
      BY <2>2 DEF Sweep
    <3>3. Swept \subseteq Drafts
      BY <1>1 DEF PostsInv, Swept
    <3>4. Cardinality(Swept) \in Nat
      <4>1. IsFiniteSet(Drafts)
        BY FS_Interval, ConstantsAssumption DEF Drafts
      <4> QED
        BY <3>3, <4>1, FS_Subset, FS_CardinalityType
    <3> DEFINE n == Cardinality(Swept)
    <3> HIDE DEF n
    <3>5. \A i \in 1..n : <<order[i], thumbs[order[i]]>> \in Frames
      <4>1. \A i \in 1..n : order[i] \in Drafts
        BY <3>2, <3>3 DEF n
      <4> QED
        BY <1>1, <4>1 DEF Frames
    <3>6. frames' \in [1..n -> Frames]
      BY <3>2, <3>5 DEF n
    <3>7. frames' \in Seq(Frames) /\ DOMAIN frames' = 1..n
      BY <3>4, <3>6 DEF n
    <3>8. \A i \in 1..n : "up" \in frames'[i][2] => frames'[i][1] \in approved
      BY <1>1, <3>2, <3>3 DEF n
    <3>9. Honest(frames)'
      BY <3>1, <3>7, <3>8 DEF Honest
    <3> QED
      BY <1>1, <3>1, <3>9
  <2> QED
    BY <2>1, <2>2
<1>7. ThumbsInv'
  <2>1. ASSUME stage'["serve"] \in {"wait", "apply"}
        PROVE  Points(job.id, job.draft)' /\ (job'.up => job'.draft \in approved')
    <3>1. Points(job.id, job.draft) /\ (job.up => job.draft \in approved)
      BY <1>1, <1>2, <2>1 DEF ThumbsInv
    <3> QED
      BY <1>2, <1>6, <3>1 DEF Points
  <2>2. stage'["serve"] = "apply" => job'.up
    BY <1>1, <1>2 DEF ThumbsInv
  <2> QED
    BY <1>6, <2>1, <2>2 DEF ThumbsInv
<1>8. AppliedAsShown'
  BY <1>1, <1>2, <1>6, ShownKept
<1> QED
  BY <1>4, <1>5, <1>7, <1>8 DEF ShownInv

LEMMA TakeSteps ==
    ASSUME PInv, PInv', ShownInv, OneDrafted', ReactionTaken \/ ApplyStarts
    PROVE  ShownInv'
<1>1. /\ LedgersInv /\ LedgersInv' /\ NumbersInv /\ PostsInv /\ ThumbsInv /\ AppliedAsShown
      /\ stage \in [Tasks -> Stages] /\ mine \in [Tasks -> Nat] /\ "serve" \in Tasks
  BY DEF PInv, TasksInv, ShownInv, Tasks
<1>2. /\ UNCHANGED <<ledgers, landings, outgoing, watch, thumbs, approved>>
      /\ stage["serve"] \in {"idle", "wait"}
      /\ \/ UNCHANGED <<job, mine, stage>>
         \/ /\ \/ stage' = [stage EXCEPT !["serve"] = "wait"]
               \/ stage' = [stage EXCEPT !["serve"] = "apply"]
            /\ mine' = mine \/ mine' = [mine EXCEPT !["serve"] = session]
  BY DEF ReactionTaken, ApplyStarts, space, historyVars
<1>3. /\ \A u \in Tasks \ {"serve"} : stage'[u] = stage[u] /\ mine'[u] = mine[u]
      /\ stage'["serve"] \in {"idle", "wait", "apply"} /\ outgoing["serve"] = Empty
  BY <1>1, <1>2 DEF PostsInv
<1>4. Follows
  BY <1>1, <1>2, SameFollows
<1>5. NumbersInv'
  <2>1. \A u \in Tasks : stage'[u] = "turn" => stage[u] = "turn" /\ mine'[u] = mine[u]
    BY <1>3
  <2> QED
    BY <1>1, <1>2, <2>1, NumbersKept
<1>6. PostsInv'
  <2>1. /\ \A u \in Tasks : outgoing[u] # Empty => stage'[u] \in {"post", "posted"}
        /\ \A u \in Tasks : stage'[u] = "posted" => outgoing[u] # Empty
    BY <1>1, <1>3 DEF PostsInv
  <2> QED
    BY <1>1, <1>2, <1>4, <2>1, PostsFollow
<1>7. AppliedAsShown'
  BY <1>1, <1>2, ShownKept
<1>8. CASE ApplyStarts
  <2>1. stage["serve"] = "wait" /\ UNCHANGED <<job, frames>> /\ job.up
    BY <1>8 DEF ApplyStarts, streamVars
  <2>2. ThumbsInv'
    BY <1>1, <1>2, <1>4, <2>1, ThumbsFollow
  <2> QED
    BY <1>5, <1>6, <1>7, <2>2 DEF ShownInv
<1>9. CASE ReactionTaken
  <2> DEFINE f == Head(frames)
  <2>1. frames # <<>> /\ frames' = Tail(frames) /\ stage["serve"] = "idle"
    BY <1>9 DEF ReactionTaken
  <2>2. Honest(frames)
    BY <1>1 DEF ThumbsInv
  <2>3. /\ f = frames[1] /\ 1 \in DOMAIN frames /\ f \in Frames /\ frames' \in Seq(Frames)
        /\ \A n \in DOMAIN frames' : n + 1 \in DOMAIN frames /\ frames'[n] = frames[n + 1]
    BY <2>1, <2>2, HeadTailProperties DEF Honest
  <2>4. Honest(frames)'
    BY <1>2, <2>2, <2>3 DEF Honest
  <2>5. f[1] \in Drafts /\ ("up" \in f[2] => f[1] \in approved)
    BY <2>2, <2>3 DEF Honest, Frames
  <2>6. \/ UNCHANGED <<job, stage>>
        \/ /\ f[1] \in DOMAIN watch
           /\ job' = [draft |-> f[1], id |-> watch[f[1]], up |-> "up" \in f[2]]
           /\ stage' = [stage EXCEPT !["serve"] = "wait"]
    BY <1>9 DEF ReactionTaken
  <2> HIDE DEF f
  <2>7. ASSUME stage'["serve"] \in {"wait", "apply"}
        PROVE  /\ Points(job.id, job.draft)' /\ (job'.up => job'.draft \in approved')
               /\ stage'["serve"] = "wait"
    <3>0. /\ f[1] \in DOMAIN watch /\ stage' = [stage EXCEPT !["serve"] = "wait"]
          /\ job' = [draft |-> f[1], id |-> watch[f[1]], up |-> "up" \in f[2]]
      BY <2>1, <2>6, <2>7
    <3>1. /\ f[1] \in DOMAIN watch /\ stage'["serve"] = "wait"
          /\ job'.draft = f[1] /\ job'.id = watch[f[1]] /\ (job'.up => "up" \in f[2])
      BY <1>1, <3>0
    <3>2. Points(watch[f[1]], f[1])
      BY <1>1, <3>1 DEF PostsInv
    <3> QED
      BY <1>2, <2>5, <3>1, <3>2 DEF Points
  <2>8. ThumbsInv'
    <3>1. stage'["serve"] # "apply"
      BY <2>7
    <3> QED
      BY <1>1, <1>2, <2>4, <2>7, <3>1 DEF ThumbsInv
  <2> QED
    BY <1>5, <1>6, <1>7, <2>8 DEF ShownInv
<1> QED
  BY <1>8, <1>9

\* A reaction is answered: nobody's turn runs, and what lands is what the message
\* showed whose thumb the task had read.
LEMMA AnswerSteps ==
    ASSUME PInv, PInv', ShownInv, OneDrafted', Dismissed \/ Applied \/ ApplyFails
    PROVE  ShownInv'
<1> DEFINE s == mine["serve"]
           old == ledgers[s]
<1>1. /\ LedgersInv /\ LedgersInv' /\ MadeInv /\ TasksInv /\ NumbersInv /\ PostsInv /\ ThumbsInv
      /\ AppliedAsShown /\ stage \in [Tasks -> Stages] /\ "serve" \in Tasks
  BY DEF PInv, TasksInv, ShownInv, Tasks
<1>2. /\ stage["serve"] \in {"wait", "apply"} /\ (stage["serve"] = "wait" => lock = "free")
      /\ stage' = [stage EXCEPT !["serve"] = "idle"]
      /\ UNCHANGED <<outgoing, thumbs, frames, approved>>
      /\ \A d \in DOMAIN watch' : d \in DOMAIN watch /\ watch'[d] = watch[d]
  BY DEF Dismissed, Applied, ApplyFails, JobDone, streamVars, Unwatched, Without, Restrict
<1>3. /\ s \in DOMAIN ledgers /\ old \in LedgerSet
      /\ stage'["serve"] = "idle" /\ \A u \in Tasks \ {"serve"} : stage'[u] = stage[u]
      /\ \A u \in Tasks : stage'[u] # "turn"
  <2>1. s \in DOMAIN ledgers /\ old \in LedgerSet
    BY <1>1, <1>2 DEF TasksInv, Serving, LedgersInv
  <2>2. stage'["serve"] = "idle" /\ \A u \in Tasks \ {"serve"} : stage'[u] = stage[u]
    BY <1>1, <1>2
  <2>3. \A u \in Tasks : stage[u] = "turn" => u = "serve"
    BY <1>1, <1>2 DEF TasksInv, Locked, Tasks
  <2> QED
    BY <2>1, <2>2, <2>3
<1>4. Follows
  <2>1. CASE ApplyFails
    BY <1>1, <2>1, SameFollows DEF ApplyFails
  <2>2. CASE Applied
    <3> DEFINE ledger == [old EXCEPT !.pending = Without(@, job.id)]
    <3>1. ledgers' = [ledgers EXCEPT ![s] = ledger]
      BY <2>2 DEF Applied
    <3>2. /\ ledger \in LedgerSet
          /\ DOMAIN ledger.pending = DOMAIN old.pending \ {job.id}
          /\ \A i \in DOMAIN ledger.pending : ledger.pending[i] = old.pending[i]
      BY <1>3, WithoutOne
    <3>3. ledger.next = old.next
      BY <1>3 DEF LedgerSet
    <3> HIDE DEF ledger
    <3> QED
      BY <1>1, <1>3, <3>1, <3>2, <3>3, LessFollows
  <2>3. CASE Dismissed
    <3> DEFINE ledger == Cancelled(old, job.id)
    <3>1. ledgers' = [ledgers EXCEPT ![s] = ledger]
      BY <2>3 DEF Dismissed
    <3>2. /\ ledger \in LedgerSet
          /\ DOMAIN ledger.pending = DOMAIN old.pending \ {job.id}
          /\ \A i \in DOMAIN ledger.pending : ledger.pending[i] = old.pending[i]
      BY <1>3, WithoutOne
    <3>3. ledger.next = old.next
      BY <1>3 DEF LedgerSet, Cancelled
    <3> HIDE DEF ledger
    <3> QED
      BY <1>1, <1>3, <3>1, <3>2, <3>3, LessFollows
  <2> QED
    BY <2>1, <2>2, <2>3
<1>5. NumbersInv'
  BY <1>1, <1>3, <1>4, NumbersFollow
<1>6. PostsInv'
  <2>1. /\ \A u \in Tasks : outgoing[u] # Empty => stage'[u] \in {"post", "posted"}
        /\ \A u \in Tasks : stage'[u] = "posted" => outgoing[u] # Empty
    BY <1>1, <1>2, <1>3 DEF PostsInv
  <2> QED
    BY <1>1, <1>2, <1>4, <2>1, PostsFollow
<1>7. ThumbsInv'
  BY <1>1, <1>2, <1>3, <1>4, ThumbsFollow
<1>8. AppliedAsShown'
  <2>1. CASE Dismissed
    BY <1>1, <1>2, <2>1, ShownKept DEF Dismissed, space
  <2>2. CASE Applied \/ ApplyFails
    <3> DEFINE d == Pending("serve")[job.id]
    <3>1. stage["serve"] = "apply" /\ Attempts(d) /\ d \in Drafts
      BY <2>2, ApplySteps, TheProposal
    <3>2. d = old.pending[job.id] /\ job.id \in DOMAIN old.pending
      BY <3>1, TheProposal DEF Pending, Ledger
    <3>3. d = job.draft /\ d \in approved
      BY <1>1, <1>3, <3>1, <3>2 DEF ThumbsInv, Points
    <3> HIDE DEF d
    <3>4. \A e \in Drafts \ {d} : landings'[e] = landings[e]
      BY <1>1, <3>1, AttemptMade
    <3> QED
      BY <1>1, <1>2, <3>3, <3>4 DEF AppliedAsShown
  <2> QED
    BY <2>1, <2>2
<1> QED
  BY <1>5, <1>6, <1>7, <1>8 DEF ShownInv

-----------------------------------------------------------------------------
(* Turns, and the session they work on. *)

\* Nothing is posted or watched, and no reaction is handled, after the step.
LEMMA FreshPosts ==
    ASSUME outgoing' \in [Tasks -> {Empty}], \A t \in Tasks : stage'[t] # "posted",
           DOMAIN watch' = {}
    PROVE  PostsInv'
<1>1. Empty \in Proposals /\ DOMAIN Empty = {} /\ Empty' = Empty
  BY NoneProposed DEF Empty
<1> HIDE DEF Empty
<1>2. outgoing' \in [Tasks -> Proposals] /\ \A t \in Tasks : outgoing'[t] = Empty
  BY <1>1
<1> QED
  BY <1>1, <1>2 DEF PostsInv

LEMMA FreshThumbs ==
    ASSUME ThumbsInv, UNCHANGED <<thumbs, approved>>, frames' \in {frames, <<>>},
           stage'["serve"] \notin {"wait", "apply"}
    PROVE  ThumbsInv'
<1>1. Honest(frames)'
  <2>1. CASE frames' = frames
    BY <2>1 DEF ThumbsInv, Honest
  <2>2. CASE frames' = <<>>
    <3>1. DOMAIN frames' = {} /\ frames' \in Seq(Frames)
      BY <2>2
    <3> QED
      BY <3>1 DEF Honest
  <2> QED
    BY <2>1, <2>2
<1> QED
  BY <1>1 DEF ThumbsInv

LEMMA SessionStarts ==
    ASSUME PInv, PInv', ShownInv, OneDrafted', Restart \/ \E t \in Tasks : LoadEnds(t)
    PROVE  ShownInv'
<1>1. /\ LedgersInv /\ LedgersInv' /\ TasksInv /\ NumbersInv /\ PostsInv /\ ThumbsInv
      /\ AppliedAsShown
  BY DEF PInv, ShownInv
<1>2. CASE Restart
  <2>1. /\ ledgers' = <<>> /\ watch' = Empty /\ stage' = Idle /\ frames' = <<>>
        /\ outgoing' = [t \in Tasks |-> Empty] /\ UNCHANGED <<landings, thumbs, approved>>
    BY <1>2 DEF Restart
  <2>2. /\ DOMAIN ledgers' = {} /\ \A t \in Tasks : stage'[t] = "idle"
        /\ "serve" \in Tasks /\ DOMAIN watch' = {} /\ outgoing' \in [Tasks -> {Empty}]
    BY <2>1 DEF Idle, Empty, Tasks
  <2>3. NumbersInv'
    BY <2>2 DEF NumbersInv
  <2>4. PostsInv' /\ ThumbsInv' /\ AppliedAsShown'
    BY <1>1, <2>1, <2>2, FreshPosts, FreshThumbs, ShownKept
  <2> QED
    BY <2>3, <2>4 DEF ShownInv
<1>3. ASSUME NEW t \in Tasks, LoadEnds(t) PROVE ShownInv'
  <2>1. PICK next \in {"idle", "turn"} :
            /\ ledgers' = Append(ledgers, NewLedger)
            /\ mine' = [mine EXCEPT ![t] = Len(ledgers')]
            /\ stage' = [stage EXCEPT ![t] = next]
            /\ UNCHANGED <<outgoing, thumbs, frames, approved, watch, landings, job>>
    BY <1>3 DEF LoadEnds, Loaded, space, streamVars, historyVars
  <2> DEFINE n == Len(ledgers) + 1
  <2>2. /\ ledgers \in Seq(LedgerSet) /\ Len(ledgers) \in Nat
        /\ DOMAIN ledgers = 1..Len(ledgers)
    BY <1>1 DEF LedgersInv
  <2>3. NewLedger.next = 1 /\ DOMAIN NewLedger.pending = {} /\ NewLedger.drafted = {}
    BY DEF NewLedger, Empty
  <2>4. NewLedger \in LedgerSet
    <3>1. NewLedger = [next |-> 1, pending |-> Empty, drafted |-> {}]
      BY DEF NewLedger
    <3> HIDE DEF NewLedger
    <3> QED
      BY <3>1, NoneProposed DEF LedgerSet
  <2> HIDE DEF NewLedger
  <2>5. /\ Len(ledgers') = n /\ DOMAIN ledgers' = DOMAIN ledgers \union {n}
        /\ n \notin DOMAIN ledgers /\ ledgers'[n] = NewLedger
        /\ \A s \in DOMAIN ledgers : ledgers'[s] = ledgers[s]
    <3>1. /\ Len(ledgers') = n /\ DOMAIN ledgers' = 1..n /\ ledgers'[n] = NewLedger
          /\ \A s \in 1..Len(ledgers) : ledgers'[s] = ledgers[s]
      BY <2>1, <2>2, <2>4, AppendProperties
    <3> QED
      BY <2>2, <3>1
  <2> HIDE DEF n
  <2>6. Follows
    <3>1. \A s \in DOMAIN ledgers : ledgers[s].next >= ledgers[s].next
      BY <1>1, LedgerTypes DEF LedgersInv
    <3> QED
      BY <2>3, <2>5, <3>1 DEF Follows
  <2>7. /\ stage \in [Tasks -> Stages] /\ mine \in [Tasks -> Nat] /\ stage[t] \notin Serving
        /\ outgoing[t] = Empty /\ stage'[t] = next /\ mine'[t] = n
        /\ \A u \in Tasks \ {t} : stage'[u] = stage[u] /\ mine'[u] = mine[u]
    BY <1>1, <1>3, <2>1, <2>5 DEF TasksInv, PostsInv, LoadEnds, Serving
  <2>8. NumbersInv'
    <3>1. ASSUME NEW u \in Tasks, stage'[u] = "turn"
          PROVE  ledgers'[mine'[u]].drafted \subseteq DOMAIN ledgers'[mine'[u]].pending
      <4>1. CASE u = t
        BY <2>3, <2>5, <2>7, <4>1
      <4>2. CASE u # t
        <5>1. stage[u] = "turn" /\ mine'[u] = mine[u] /\ mine[u] \in DOMAIN ledgers
          BY <1>1, <2>7, <3>1, <4>2 DEF TasksInv, Serving
        <5> QED
          BY <1>1, <2>5, <5>1 DEF NumbersInv
      <4> QED
        BY <4>1, <4>2
    <3> QED
      BY <1>1, <2>6, <3>1, NumbersFollow
  <2>9. PostsInv'
    <3>1. /\ \A u \in Tasks : outgoing[u] # Empty => stage'[u] \in {"post", "posted"}
          /\ \A u \in Tasks : stage'[u] = "posted" => outgoing[u] # Empty
      BY <1>1, <2>7 DEF PostsInv
    <3> QED
      BY <1>1, <2>1, <2>6, <3>1, PostsFollow
  <2>10. ThumbsInv'
    <3>1. stage'["serve"] \in {"wait", "apply"} => stage'["serve"] = stage["serve"]
      BY <2>7 DEF Tasks
    <3>2. stage["serve"] = "apply" => job.up
      BY <1>1 DEF ThumbsInv
    <3> QED
      BY <1>1, <2>1, <2>6, <3>1, <3>2, ThumbsFollow
  <2>11. AppliedAsShown'
    BY <1>1, <2>1, ShownKept
  <2> QED
    BY <2>8, <2>9, <2>10, <2>11 DEF ShownInv
<1> QED
  BY <1>2, <1>3

LEMMA StartSteps ==
    ASSUME PInv, PInv', ShownInv, OneDrafted', NEW t \in Tasks, TurnStarts(t)
    PROVE  ShownInv'
<1>1. /\ LedgersInv /\ LedgersInv' /\ TasksInv /\ NumbersInv /\ PostsInv /\ ThumbsInv
      /\ AppliedAsShown /\ stage \in [Tasks -> Stages] /\ mine \in [Tasks -> Nat]
      /\ ledgers \in Seq(LedgerSet) /\ session \in Nat
      /\ session # 0 => session \in DOMAIN ledgers
  BY DEF PInv, TasksInv, ShownInv, LedgersInv
<1>2. /\ stage[t] = "idle" /\ lock = "free"
      /\ stage' = [stage EXCEPT ![t] = IF session = 0 THEN "load" ELSE "turn"]
      /\ mine' = [mine EXCEPT ![t] = session]
      /\ ledgers' = (IF session = 0 THEN ledgers
                     ELSE [ledgers EXCEPT ![session].drafted = {}])
      /\ UNCHANGED <<outgoing, thumbs, frames, approved, watch, landings, job>>
  BY DEF TurnStarts, Enter, space, streamVars, historyVars
<1>3. /\ stage'[t] = IF session = 0 THEN "load" ELSE "turn"
      /\ mine'[t] = session /\ outgoing[t] = Empty
      /\ \A u \in Tasks \ {t} : stage'[u] = stage[u] /\ stage[u] # "turn"
  BY <1>1, <1>2 DEF TasksInv, Locked, Tasks, PostsInv
<1>4. Follows /\ (session # 0 => ledgers'[session].drafted = {})
  <2>1. CASE session = 0
    BY <1>1, <1>2, <2>1, SameFollows
  <2>2. CASE session # 0
    <3> DEFINE ledger == [ledgers[session] EXCEPT !.drafted = {}]
    <3>1. session \in DOMAIN ledgers /\ ledgers[session] \in LedgerSet
      BY <1>1, <2>2
    <3>2. /\ ledger \in LedgerSet /\ ledger.pending = ledgers[session].pending
          /\ ledger.next = ledgers[session].next /\ ledger.drafted = {}
      BY <3>1 DEF LedgerSet
    <3>3. ledgers' = [ledgers EXCEPT ![session] = ledger]
      BY <1>2, <2>2
    <3> HIDE DEF ledger
    <3>4. ledgers'[session] = ledger
      BY <1>1, <3>1, <3>3
    <3> QED
      BY <1>1, <3>1, <3>2, <3>3, <3>4, LessFollows
  <2> QED
    BY <2>1, <2>2
<1>5. NumbersInv'
  <2>1. \A u \in Tasks : stage'[u] = "turn" =>
            ledgers'[mine'[u]].drafted \subseteq DOMAIN ledgers'[mine'[u]].pending
    BY <1>3, <1>4
  <2> QED
    BY <1>1, <1>4, <2>1, NumbersFollow
<1>6. PostsInv'
  <2>1. /\ \A u \in Tasks : outgoing[u] # Empty => stage'[u] \in {"post", "posted"}
        /\ \A u \in Tasks : stage'[u] = "posted" => outgoing[u] # Empty
    BY <1>1, <1>3 DEF PostsInv
  <2> QED
    BY <1>1, <1>2, <1>4, <2>1, PostsFollow
<1>7. ThumbsInv'
  <2>1. "serve" \in Tasks
    BY DEF Tasks
  <2>2. stage'["serve"] \in {"wait", "apply"} => stage'["serve"] = stage["serve"]
    BY <1>3, <2>1
  <2>3. stage["serve"] = "apply" => job.up
    BY <1>1 DEF ThumbsInv
  <2> QED
    BY <1>1, <1>2, <1>4, <2>2, <2>3, ThumbsFollow
<1>8. AppliedAsShown'
  BY <1>1, <1>2, ShownKept
<1> QED
  BY <1>5, <1>6, <1>7, <1>8 DEF ShownInv

\* A step of a turn that changes its ledger and posts nothing.
LEMMA LedgerStep ==
    ASSUME PInv, PInv', ShownInv, OneDrafted', NEW t \in Tasks, stage[t] = "turn",
           UNCHANGED <<stage, mine, outgoing, watch, job, thumbs, frames, approved, landings>>,
           NEW ledger \in LedgerSet, ledgers' = [ledgers EXCEPT ![mine[t]] = ledger],
           ledger.drafted \subseteq DOMAIN ledger.pending, Follows
    PROVE  ShownInv'
<1>1. /\ LedgersInv /\ LedgersInv' /\ TasksInv /\ NumbersInv /\ PostsInv /\ ThumbsInv
      /\ AppliedAsShown
  BY DEF PInv, ShownInv
<1>2. ledgers'[mine[t]] = ledger /\ \A u \in Tasks : stage[u] = "turn" => u = t
  BY <1>1 DEF TasksInv, Locked, Serving
<1>3. NumbersInv'
  BY <1>1, <1>2, NumbersFollow
<1>4. PostsInv'
  BY <1>1, PostsFollow DEF PostsInv
<1>5. ThumbsInv'
  BY <1>1, ThumbsFollow DEF ThumbsInv
<1>6. AppliedAsShown'
  BY <1>1, ShownKept
<1> QED
  BY <1>3, <1>4, <1>5, <1>6 DEF ShownInv

LEMMA DraftedSteps ==
    ASSUME PInv, PInv', ShownInv, OneDrafted', NEW t \in Tasks, Draft(t) \/ ToolCancels(t)
    PROVE  ShownInv'
<1> DEFINE s == mine[t]
           old == ledgers[s]
<1>1. /\ stage[t] = "turn"
      /\ UNCHANGED <<stage, mine, outgoing, watch, job, thumbs, frames, approved, landings>>
  BY DEF Draft, ToolCancels, space, taskVars, streamVars
<1>2. /\ s \in DOMAIN ledgers /\ old \in LedgerSet /\ LedgersInv
      /\ old.drafted \subseteq DOMAIN old.pending
      /\ \A i \in DOMAIN old.pending : i < old.next
  BY <1>1 DEF PInv, TasksInv, Serving, LedgersInv, ShownInv, NumbersInv
<1>3. old.next \in Nat /\ DOMAIN old.pending \subseteq Nat
  BY <1>2, LedgerTypes DEF LedgersInv
<1>4. CASE Draft(t)
  <2> DEFINE id == old.next
             pend == [i \in DOMAIN old.pending \union {id} |->
                         IF i = id THEN minted' ELSE old.pending[i]]
             ledger == [old EXCEPT !.next = id + 1, !.pending = pend,
                                   !.drafted = old.drafted \union {id}]
  <2>1. ledgers' = [ledgers EXCEPT ![s] = ledger]
    BY <1>4 DEF Draft, NextId, Ledger
  <2>2. pend \in Proposals
    <3>1. PICK S \in SUBSET Nat : old.pending \in [S -> Drafts]
      BY <1>2 DEF LedgerSet, Proposals
    <3>2. minted' \in Drafts
      BY <1>2, <1>4, ConstantsAssumption DEF Draft, LedgersInv, Drafts
    <3>3. pend \in [S \union {id} -> Drafts]
      BY <3>1, <3>2
    <3>4. S \union {id} \in SUBSET Nat
      BY <1>3
    <3> QED
      BY <3>3, <3>4 DEF Proposals
  <2>3. /\ DOMAIN pend = DOMAIN old.pending \union {id} /\ id + 1 > id /\ id + 1 \in Nat
        /\ old.drafted \union {id} \in SUBSET Nat
        /\ \A i \in DOMAIN old.pending : pend[i] = old.pending[i]
    BY <1>2, <1>3 DEF LedgerSet
  <2> HIDE DEF pend, id
  <2>4. /\ ledger \in LedgerSet /\ ledger.next = id + 1 /\ ledger.pending = pend
        /\ ledger.drafted = old.drafted \union {id}
    BY <1>2, <2>2, <2>3 DEF LedgerSet
  <2> HIDE DEF ledger
  <2>5. ledger.next >= old.next
    BY <1>3, <2>3, <2>4 DEF id
  <2>6. \A i \in DOMAIN ledger.pending :
            \/ i \in DOMAIN old.pending /\ ledger.pending[i] = old.pending[i]
            \/ i = old.next /\ ledger.next > i
    BY <2>3, <2>4 DEF id
  <2>7. Follows
    BY <1>2, <2>1, <2>4, <2>5, <2>6, OneFollows
  <2>8. ledger.drafted \subseteq DOMAIN ledger.pending
    BY <1>2, <2>3, <2>4
  <2> QED
    BY <1>1, <2>1, <2>4, <2>7, <2>8, LedgerStep
<1>5. CASE ToolCancels(t)
  <2>1. PICK id \in DOMAIN old.pending : ledgers' = [ledgers EXCEPT ![s] = Cancelled(old, id)]
    BY <1>5 DEF ToolCancels, Pending, Ledger
  <2> DEFINE ledger == Cancelled(old, id)
  <2>2. ledgers' = [ledgers EXCEPT ![s] = ledger]
    BY <2>1
  <2>3. /\ ledger \in LedgerSet /\ DOMAIN ledger.pending = DOMAIN old.pending \ {id}
        /\ \A i \in DOMAIN ledger.pending : ledger.pending[i] = old.pending[i]
    BY <1>2, WithoutOne
  <2>4. ledger.next = old.next /\ ledger.drafted = old.drafted \ {id}
    BY <1>2 DEF LedgerSet, Cancelled
  <2> HIDE DEF ledger
  <2>5. Follows
    BY <1>2, <2>2, <2>3, <2>4, LessFollows
  <2>6. ledger.drafted \subseteq DOMAIN ledger.pending
    BY <1>2, <2>3, <2>4
  <2> QED
    BY <1>1, <2>2, <2>3, <2>5, <2>6, LedgerStep
<1> QED
  BY <1>4, <1>5

\* The drafts of the turn are handed over with their ids; the session that will
\* be asked for them is the turn's own.
LEMMA EndSteps ==
    ASSUME PInv, PInv', ShownInv, OneDrafted, OneDrafted', NEW t \in Tasks, TurnEnds(t)
    PROVE  ShownInv'
<1> DEFINE s == mine[t]
           old == ledgers[s]
           confirms == Restrict(old.pending, old.drafted)
           ledger == [old EXCEPT !.drafted = {}]
<1>1. /\ LedgersInv /\ LedgersInv' /\ TasksInv /\ NumbersInv /\ PostsInv /\ ThumbsInv
      /\ AppliedAsShown /\ stage \in [Tasks -> Stages]
  BY DEF PInv, TasksInv, ShownInv
<1>2. /\ stage[t] = "turn" /\ stage' = [stage EXCEPT ![t] = "post"]
      /\ outgoing' = [outgoing EXCEPT ![t] = confirms]
      /\ ledgers' = [ledgers EXCEPT ![s] = ledger]
      /\ UNCHANGED <<mine, watch, job, thumbs, frames, approved, landings>>
  BY DEF TurnEnds, Pending, Ledger, space, streamVars, historyVars
<1>3. /\ s \in DOMAIN ledgers /\ old \in LedgerSet
      /\ old.drafted \subseteq DOMAIN old.pending
      /\ \A i \in DOMAIN old.pending : i < old.next /\ i \in Nat \ {0}
      /\ \A i \in DOMAIN old.pending : \A q \in DOMAIN ledgers \ {s} :
            i \notin DOMAIN ledgers[q].pending
  <2>1. /\ s \in DOMAIN ledgers /\ old \in LedgerSet
        /\ \A q \in DOMAIN ledgers :
              ledgers[q].next \in Nat /\ DOMAIN ledgers[q].pending \subseteq Nat
    BY <1>1, <1>2, LedgerTypes DEF TasksInv, Serving, LedgersInv
  <2>2. old.drafted \subseteq DOMAIN old.pending
    BY <1>1, <1>2 DEF NumbersInv
  <2>3. \A q \in DOMAIN ledgers : \A i \in DOMAIN ledgers[q].pending :
            i < ledgers[q].next /\ i \in Nat \ {0} /\ ledgers[q].next > 1
    BY <1>1, <2>1 DEF NumbersInv
  <2>4. \A i \in DOMAIN old.pending : \A q \in DOMAIN ledgers \ {s} :
            i \notin DOMAIN ledgers[q].pending
    BY <2>1, <2>3 DEF OneDrafted
  <2> QED
    BY <2>1, <2>2, <2>3, <2>4
<1>4. /\ ledger \in LedgerSet /\ ledger.pending = old.pending /\ ledger.next = old.next
      /\ ledger.drafted = {}
  BY <1>3 DEF LedgerSet
<1>5. /\ confirms \in Proposals /\ DOMAIN confirms = old.drafted
      /\ \A i \in old.drafted : confirms[i] = old.pending[i]
  <2>1. PICK S \in SUBSET Nat : old.pending \in [S -> Drafts]
    BY <1>3 DEF LedgerSet, Proposals
  <2>2. old.drafted \subseteq S
    BY <1>3, <2>1
  <2>3. /\ confirms \in [old.drafted -> Drafts]
        /\ \A i \in old.drafted : confirms[i] = old.pending[i]
    BY <2>1, <2>2 DEF Restrict
  <2>4. old.drafted \in SUBSET Nat
    BY <2>2
  <2> QED
    BY <2>3, <2>4 DEF Proposals
<1> HIDE DEF ledger, confirms
<1>6. Follows
  BY <1>1, <1>2, <1>3, <1>4, LessFollows
<1>7. /\ stage'[t] = "post" /\ \A u \in Tasks \ {t} : stage'[u] = stage[u] /\ stage[u] # "turn"
      /\ outgoing' \in [Tasks -> Proposals] /\ outgoing'[t] = confirms
      /\ \A u \in Tasks \ {t} : outgoing'[u] = outgoing[u]
  BY <1>1, <1>2, <1>5 DEF TasksInv, Locked, PostsInv
<1>8. NumbersInv'
  <2>1. \A u \in Tasks : stage'[u] # "turn"
    BY <1>7
  <2> QED
    BY <1>1, <1>6, <2>1, NumbersFollow
<1>9. \A id, d : Points(id, d) => Points(id, d)'
  BY <1>1, <1>6, PointsFollow
<1>10. PostsInv'
  <2>1. \A id \in DOMAIN confirms : Points(id, confirms[id])
    BY <1>3, <1>5 DEF Points
  <2>2. ASSUME NEW u \in Tasks, NEW id \in DOMAIN outgoing'[u]
        PROVE  \E d : outgoing'[u][id] = d /\ Points(id, d)
    <3>1. CASE u = t
      BY <1>7, <2>1, <2>2, <3>1
    <3>2. CASE u # t
      BY <1>1, <1>7, <2>2, <3>2 DEF PostsInv
    <3> QED
      BY <3>1, <3>2
  <2>3. \A d \in DOMAIN watch' : d \in Drafts /\ \E id : watch'[d] = id /\ Points(id, d)
    BY <1>1, <1>2 DEF PostsInv
  <2>4. ASSUME NEW u \in Tasks
        PROVE  /\ outgoing'[u] # Empty => stage'[u] \in {"post", "posted"}
               /\ stage'[u] = "posted" => outgoing'[u] # Empty
    BY <1>1, <1>7 DEF PostsInv
  <2>5. Empty' = Empty
    BY DEF Empty
  <2> QED
    BY <1>7, <1>9, <2>2, <2>3, <2>4, <2>5 DEF PostsInv
<1>11. ThumbsInv'
  <2>1. "serve" \in Tasks
    BY DEF Tasks
  <2>2. stage'["serve"] \in {"wait", "apply"} => stage'["serve"] = stage["serve"]
    BY <1>7, <2>1
  <2>3. stage["serve"] = "apply" => job.up
    BY <1>1 DEF ThumbsInv
  <2> QED
    BY <1>1, <1>2, <1>6, <2>2, <2>3, ThumbsFollow
<1>12. AppliedAsShown'
  BY <1>1, <1>2, ShownKept
<1> QED
  BY <1>8, <1>10, <1>11, <1>12 DEF ShownInv

LEMMA InitShown == ASSUME Init PROVE ShownInv
<1>1. /\ DOMAIN ledgers = {} /\ \A t \in Tasks : stage[t] = "idle" /\ outgoing[t] = Empty
      /\ DOMAIN watch = {} /\ "serve" \in Tasks /\ outgoing = [t \in Tasks |-> Empty]
  BY DEF Init, Idle, Empty, Tasks
<1>2. NumbersInv
  BY <1>1 DEF NumbersInv
<1>3. PostsInv
  <2>1. Empty \in Proposals /\ DOMAIN Empty = {}
    BY NoneProposed
  <2> HIDE DEF Empty
  <2> QED
    BY <1>1, <2>1 DEF PostsInv
<1>4. Honest(frames)
  <2>1. frames \in Seq(Frames) /\ DOMAIN frames = {}
    BY DEF Init
  <2> QED
    BY <2>1 DEF Honest
<1>5. ThumbsInv
  BY <1>1, <1>4 DEF ThumbsInv, Init
<1>6. AppliedAsShown
  BY DEF Init, AppliedAsShown
<1> QED
  BY <1>2, <1>3, <1>5, <1>6 DEF ShownInv

LEMMA StepShown ==
    ASSUME PInv, PInv', ShownInv, OneDrafted, OneDrafted', [Next]_vars
    PROVE  ShownInv'
BY QuietSteps, ReactSteps, PostingSteps, TakeSteps, AnswerSteps, SessionStarts, StartSteps,
   DraftedSteps, EndSteps DEF Next, TurnOf, Reaction, Environment

\* A change of the schema is made only after a person held a thumb up on the very
\* message that shows it, for any drafts, reactions, loads and failures, while one
\* session of the chat at most has had drafts since the process started.  Ids count
\* from one in each session, so a second one with drafts would answer for the
\* messages of the first (_mint_id, handle_reaction, Orchestrator._session).
THEOREM ChangesAreShown == Spec /\ []OneDrafted => []AppliedAsShown
<1>1. Init => PInv /\ ShownInv
  BY InitEstablishes, InitShown
<1>2. PInv /\ [Next]_vars => PInv'
  BY StepPreserves
<1>3. PInv /\ PInv' /\ ShownInv /\ OneDrafted /\ OneDrafted' /\ [Next]_vars => ShownInv'
  BY StepShown
<1>4. ShownInv => AppliedAsShown
  BY DEF ShownInv
<1> QED
  BY <1>1, <1>2, <1>3, <1>4, PTL DEF Spec
=============================================================================
