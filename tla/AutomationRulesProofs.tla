------------------------ MODULE AutomationRulesProofs ------------------------
(***************************************************************************)
(* Proofs about AutomationRules, for any rules, objects, scripts and       *)
(* budgets: a request people make of a rule is taken up at most once, no   *)
(* tick fires on what the engine itself has written, and no script runs    *)
(* that is older than the rule the job has read.                           *)
(***************************************************************************)
EXTENDS AutomationRules, FiniteSetTheorems, SequenceTheorems, WellFoundedInduction, TLAPS

-----------------------------------------------------------------------------
(* The shape of the state, as far as a request is concerned. *)

Typed(f) ==
    /\ DOMAIN f = Nodes
    /\ \A n \in Nodes : "fields" \in DOMAIN f[n]
    /\ \A r \in Rules : "run" \in DOMAIN f[r].fields

IsJob(j) == {"kind", "stage", "queue", "seen", "writes"} \subseteq DOMAIN j

\* The box of rule r is ticked, in the space or in the index.
Ticked(f, r) == f[r].fields["run"] = "true"
Asking(r) == Ticked(store, r) \/ Ticked(index, r)

\* A list of writes to properties, none of them to the box of a rule.
Harmless(list) ==
    /\ list \in Seq(Range(list))
    /\ \A w \in Range(list) : w.field \in Properties

\* What a job has read of a box is still what the index has, until it claims it.
JobInv ==
    /\ IsJob(job)
    /\ job.stage \in {"idle", "test", "attach", "claim", "refuse", "act", "write", "book"}
    /\ job.kind = "none" <=> job.stage = "idle"
    /\ job.stage = "attach" =>
          \A r \in Rules : job.seen[r].fields["run"] = "true" => Ticked(index, r)
    /\ job.stage \in {"claim", "refuse"} => job.queue \subseteq Rules
    /\ job.stage = "claim" => \A r \in job.queue : Ticked(index, r)
    /\ job.stage = "refuse" =>
          job.queue # {} /\ \A r \in job.queue \ {Min(job.queue)} : Ticked(index, r)
    /\ job.stage = "write" => Harmless(job.writes) /\ job.writes # <<>>

TInv ==
    /\ Typed(store) /\ Typed(index) /\ JobInv
    /\ ran \in [Rules -> Nat] /\ asked \in [Rules -> Nat]

\* A ticked box stands for a request that has not been taken up.
Owed(r) == ran[r] + (IF Asking(r) THEN 1 ELSE 0) <= asked[r]
RInv == TInv /\ \A r \in Rules : Owed(r)

-----------------------------------------------------------------------------
(* Facts about data. *)

LEMMA MinInSet == ASSUME NEW S \in SUBSET Nat, S # {} PROVE Min(S) \in S
<1> DEFINE Below == {1..c : c \in S}
<1>2. \A T \in Below : T \in SUBSET Nat /\ IsFiniteSet(T)
  BY FS_Interval
<1>3. IsWellFoundedOn(StrictSubsetOrdering(Nat), FiniteSubsetsOf(Nat))
  BY FS_StrictSubsetOrderingWellFounded
<1>4. Below \subseteq FiniteSubsetsOf(Nat) /\ Below # {}
  BY <1>2 DEF FiniteSubsetsOf
<1>5. PICK T \in Below : \A U \in Below : ~(<<U, T>> \in StrictSubsetOrdering(Nat))
  BY <1>3, <1>4, WFMin
<1>6. PICK c \in S : T = 1..c
  OBVIOUS
<1>7. ASSUME NEW d \in S PROVE c <= d
  <2>1. CASE d < c
    <3>1. c \in Nat /\ d \in Nat /\ 1..d \in Below
      OBVIOUS
    <3>2. 1..d \subseteq 1..c /\ c \in 1..c /\ c \notin 1..d
      BY <2>1, <3>1
    <3>3. 1..d \in SUBSET Nat /\ 1..c \in SUBSET Nat
      BY <3>1
    <3>4. <<1..d, 1..c>> \in StrictSubsetOrdering(Nat)
      BY <3>2, <3>3 DEF StrictSubsetOrdering
    <3> QED
      BY <1>5, <1>6, <3>1, <3>4
  <2> QED
    BY <2>1
<1> QED
  BY <1>7 DEF Min

LEMMA ListOfWrites ==
    ASSUME NEW n \in Nat, NEW list, list = [i \in 1..n |-> list[i]],
           \A i \in 1..n : list[i].field \in Properties
    PROVE  Harmless(list)
BY DEF Harmless, Range

LEMMA RestHarmless ==
    ASSUME NEW list, Harmless(list), list # <<>>
    PROVE  Harmless(Tail(list)) /\ Head(list).field \in Properties
<1>1. /\ list \in Seq(Range(list)) /\ Len(list) \in Nat /\ DOMAIN list = 1..Len(list)
      /\ \A i \in 1..Len(list) : list[i].field \in Properties
  BY DEF Harmless, Range
<1>2. Len(list) >= 1
  BY <1>1
<1>3. Head(list) = list[1]
  BY <1>1, <1>2
<1>4. /\ Tail(list) \in Seq(Range(list)) /\ Len(Tail(list)) = Len(list) - 1
      /\ \A i \in 1..(Len(list) - 1) : Tail(list)[i] = list[i + 1]
  BY <1>1, <1>2, HeadTailProperties
<1>5. DOMAIN Tail(list) = 1..(Len(list) - 1)
  BY <1>1, <1>2, <1>4
<1>6. \A i \in 1..(Len(list) - 1) : Tail(list)[i].field \in Properties
  BY <1>1, <1>2, <1>4
<1> DEFINE rest == Tail(list)
           n == Len(list) - 1
<1>7. n \in Nat /\ rest = [i \in 1..n |-> rest[i]]
  <2>1. n \in Nat /\ rest \in Seq(Range(list)) /\ DOMAIN rest = 1..n
    BY <1>1, <1>2, <1>4, <1>5
  <2> HIDE DEF rest, n
  <2>2. PICK m \in Nat : rest \in [1..m -> Range(list)]
    <3>1. rest \in UNION {[1..m -> Range(list)] : m \in Nat}
      BY <2>1, SeqDef, Zenon
    <3> QED
      BY <3>1
  <2> QED
    BY <2>1, <2>2
<1>8. Harmless(rest)
  <2> HIDE DEF rest, n
  <2> QED
    BY <1>6, <1>7, ListOfWrites DEF rest, n
<1> QED
  BY <1>1, <1>2, <1>3, <1>8

\* A write that does not name the box cannot tick one that was unticked on both
\* sides, but it may bring back what only the index has.
LEMMA WrittenType ==
    ASSUME Typed(store), Typed(index), NEW n \in Nodes, NEW changes
    PROVE  /\ "fields" \in DOMAIN Written(n, changes)
           /\ n \in Rules => "run" \in DOMAIN Written(n, changes).fields
           /\ n \in Rules /\ "run" \notin DOMAIN changes =>
                 Written(n, changes).fields["run"] \in
                    {store[n].fields["run"], index[n].fields["run"]}
BY DEF Typed, Written, Merged, Nodes

-----------------------------------------------------------------------------
(* Steps that leave every request as it is. *)

LEMMA Quiet ==
    ASSUME RInv, Typed(store)', Typed(index)', JobInv', UNCHANGED <<asked, ran>>,
           \A r \in Rules : Asking(r)' => Asking(r)
    PROVE  RInv'
<1>1. TInv'
  BY DEF RInv, TInv
<1>2. ASSUME NEW r \in Rules PROVE Owed(r)'
  <2>1. ran[r] \in Nat /\ asked[r] \in Nat /\ ran'[r] = ran[r] /\ asked'[r] = asked[r]
    BY DEF RInv, TInv
  <2>2. (Asking(r)' => Asking(r)) /\ ran[r] + (IF Asking(r) THEN 1 ELSE 0) <= asked[r]
    BY DEF RInv, Owed
  <2>3. ran'[r] + (IF Asking(r)' THEN 1 ELSE 0) <= asked'[r]
    BY <2>1, <2>2
  <2> QED
    BY <2>3 DEF Owed
<1> QED
  BY <1>1, <1>2 DEF RInv

\* A write that does not name the box, answered or not.
LEMMA WriteStep ==
    ASSUME TInv, NEW n, NEW changes, "run" \notin DOMAIN changes,
           Answered(n, changes) \/ Unanswered(n, changes)
    PROVE  /\ Typed(store)' /\ Typed(index)'
           /\ \A r \in Rules : Asking(r)' => Asking(r)
           /\ \A r \in Rules \ {n} : Ticked(index, r)' = Ticked(index, r)
<1>1. \/ store' = store
      \/ store' = [store EXCEPT ![n] = Written(n, changes)]
  BY DEF Answered, Unanswered
<1>2. \/ index' = index
      \/ index' = [index EXCEPT ![n] = store'[n]] /\ store' = [store EXCEPT ![n] = Written(n, changes)]
  BY DEF Answered, Unanswered
<1>3. Typed(store) /\ Typed(index) /\ Rules \subseteq Nodes
  BY DEF TInv, Nodes
<1>4. n \in Nodes =>
        /\ "fields" \in DOMAIN Written(n, changes)
        /\ n \in Rules => "run" \in DOMAIN Written(n, changes).fields
        /\ n \in Rules => Written(n, changes).fields["run"] \in
                             {store[n].fields["run"], index[n].fields["run"]}
  BY <1>3, WrittenType
<1>5. Typed(store)'
  BY <1>1, <1>3, <1>4 DEF Typed
<1>6. Typed(index)'
  BY <1>2, <1>3, <1>4 DEF Typed
<1>7. ASSUME NEW r \in Rules \ {n}
      PROVE  store'[r] = store[r] /\ index'[r] = index[r]
  BY <1>1, <1>2, <1>3 DEF Typed
<1>8. ASSUME n \in Rules
      PROVE  /\ store'[n].fields["run"] \in {store[n].fields["run"], index[n].fields["run"]}
             /\ index'[n].fields["run"] \in {store[n].fields["run"], index[n].fields["run"]}
  BY <1>1, <1>2, <1>3, <1>4, <1>8 DEF Typed
<1>9. \A r \in Rules : Asking(r)' => Asking(r)
  BY <1>7, <1>8 DEF Asking, Ticked
<1>10. \A r \in Rules \ {n} : Ticked(index, r)' = Ticked(index, r)
  BY <1>7 DEF Ticked
<1> QED
  BY <1>5, <1>6, <1>9, <1>10

LEMMA IdleJob == IsJob(NoJob) /\ NoJob.stage = "idle" /\ NoJob.kind = "none"
BY DEF IsJob, NoJob

LEMMA LoadedJob ==
    ASSUME NEW kind \in {"tick", "run"}, NEW ask, NEW on, NEW view
    PROVE  LET j == Loaded(kind, ask, on, view) IN
           /\ IsJob(j) /\ j.kind = kind /\ j.stage = "attach"
           /\ j.seen = [r \in Rules |-> view[r]]
BY DEF Loaded, IsJob, NoJob

LEMMA TestJob ==
    ASSUME NEW r, NEW name
    PROVE  LET j == AutoTest(r, name) IN
           /\ IsJob(j) /\ j.stage \in {"idle", "test"}
           /\ j.kind = "none" <=> j.stage = "idle"
BY DEF AutoTest, Testing, IsJob, NoJob

\* A job that begins or ends, whatever the index becomes.
LEMMA FreshJob ==
    ASSUME \/ job' = NoJob
           \/ \E r, name : job' = AutoTest(r, name)
           \/ \E kind \in {"tick", "run"} : \E ask, on : job' = Loaded(kind, ask, on, index')
    PROVE  JobInv'
<1>1. CASE job' = NoJob
  BY <1>1, IdleJob DEF JobInv
<1>2. CASE \E r, name : job' = AutoTest(r, name)
  BY <1>2, TestJob DEF JobInv
<1>3. CASE \E kind \in {"tick", "run"} : \E ask, on : job' = Loaded(kind, ask, on, index')
  <2>0. PICK kind \in {"tick", "run"} : \E ask, on : job' = Loaded(kind, ask, on, index')
    BY <1>3
  <2>1. PICK ask, on : job' = Loaded(kind, ask, on, index')
    BY <2>0
  <2>2. /\ IsJob(job') /\ job'.kind = kind /\ job'.stage = "attach"
        /\ job'.seen = [r \in Rules |-> index'[r]]
    BY <2>1, LoadedJob
  <2>3. \A r \in Rules : job'.seen[r] = index'[r]
    BY <2>2
  <2> QED
    BY <2>2, <2>3 DEF JobInv, Ticked
<1> QED
  BY <1>1, <1>2, <1>3

\* The job goes on, and the index with it.
LEMMA JobKept == ASSUME JobInv, UNCHANGED <<index, job>> PROVE JobInv'
BY DEF JobInv, Ticked

\* No job is at work, so that nobody relies on what it has read.
LEMMA JobIdle == ASSUME JobInv, Idle, UNCHANGED job PROVE JobInv'
BY DEF JobInv, Idle

-----------------------------------------------------------------------------
(* People and the other calls of the bot. *)

\* A person who ticks a box that is not ticked asks once more.
LEMMA PersonStep ==
    ASSUME RInv, NEW n, NEW f, NEW value, PersonSets(n, f, value),
           f = "run" => n \in Rules /\ value = "true"
    PROVE  RInv'
<1>1. /\ store' = [store EXCEPT ![n].fields[f] = value, ![n].stamp = @ + 1]
      /\ asked' = IF f = "run" /\ value = "true" THEN [asked EXCEPT ![n] = @ + 1] ELSE asked
      /\ UNCHANGED <<index, job, ran>>
      /\ store[n].fields[f] # value
  BY DEF PersonSets, engineVars
<1>2. TInv /\ Typed(store) /\ Typed(index) /\ JobInv /\ Rules \subseteq Nodes
  BY DEF RInv, TInv, Nodes
<1>3. Typed(store)' /\ Typed(index)' /\ JobInv'
  BY <1>1, <1>2, JobKept DEF Typed
<1>4. CASE f # "run"
  <2>1. ASSUME NEW r \in Rules PROVE Ticked(store, r)' = Ticked(store, r)
    BY <1>1, <1>2, <1>4 DEF Typed, Ticked
  <2>2. \A r \in Rules : Asking(r)' => Asking(r)
    BY <1>1, <2>1 DEF Asking, Ticked
  <2>3. UNCHANGED <<asked, ran>>
    BY <1>1, <1>4
  <2> QED
    BY <1>3, <2>2, <2>3, Quiet
<1>5. CASE f = "run"
  <2>1. n \in Rules /\ value = "true" /\ asked' = [asked EXCEPT ![n] = @ + 1]
    BY <1>1, <1>5
  <2>2. TInv'
    BY <1>1, <1>2, <1>3, <2>1 DEF TInv
  <2>3. ASSUME NEW r \in Rules PROVE Owed(r)'
    <3>1. ran[r] \in Nat /\ asked[r] \in Nat /\ ran'[r] = ran[r]
      BY <1>1, <1>2 DEF TInv
    <3>2. ran[r] + (IF Asking(r) THEN 1 ELSE 0) <= asked[r]
      BY DEF RInv, Owed
    <3>3. CASE r = n
      <4>1. asked'[r] = asked[r] + 1
        BY <1>2, <2>1, <3>3 DEF TInv
      <4>2. ran'[r] + (IF Asking(r)' THEN 1 ELSE 0) <= asked'[r]
        BY <3>1, <3>2, <4>1
      <4> QED
        BY <4>2 DEF Owed
    <3>4. CASE r # n
      <4>1. store'[r] = store[r] /\ index' = index
        BY <1>1, <1>2, <3>4 DEF Typed
      <4>2. Asking(r)' <=> Asking(r)
        BY <4>1 DEF Asking, Ticked
      <4>3. asked'[r] = asked[r]
        BY <2>1, <3>4 DEF RInv, TInv
      <4>4. ran'[r] + (IF Asking(r)' THEN 1 ELSE 0) <= asked'[r]
        BY <3>1, <3>2, <4>2, <4>3
      <4> QED
        BY <4>4 DEF Owed
    <3> QED
      BY <3>3, <3>4
  <2> QED
    BY <2>2, <2>3 DEF RInv
<1> QED
  BY <1>4, <1>5

LEMMA PeopleSteps == ASSUME RInv, People PROVE RInv'
<1>0. TInv /\ Typed(store) /\ Typed(index) /\ JobInv /\ Rules \subseteq Nodes
      /\ Rules \intersect Objects = {}
  BY ConstantsAssumption DEF RInv, TInv, Nodes
<1>1. ASSUME NEW o \in Objects, PersonCreates(o) PROVE RInv'
  <2>1. /\ UNCHANGED <<index, job, asked, ran>>
        /\ \E value \in {"", "true"} :
              store' = [store EXCEPT ![o] =
                 [@ EXCEPT !.live = TRUE, !.stamp = 1, !.fields["done"] = value]]
    BY <1>1 DEF PersonCreates, engineVars, pastVars
  <2>2. Typed(store)' /\ Typed(index)' /\ JobInv'
    BY <1>0, <2>1, JobKept DEF Typed, Nodes
  <2>3. \A r \in Rules : store'[r] = store[r] /\ index'[r] = index[r]
    BY <1>0, <2>1 DEF Typed
  <2>4. \A r \in Rules : Asking(r)' => Asking(r)
    BY <2>3 DEF Asking, Ticked
  <2> QED
    BY <2>1, <2>2, <2>4, Quiet
<1>2. ASSUME NEW r \in Rules, PersonWritesScript(r) PROVE RInv'
  <2>1. /\ UNCHANGED <<index, job, asked, ran>>
        /\ \E fence \in BOOLEAN :
              store' = [store EXCEPT
                  ![r].body = [fence |-> fence, since |-> store[r].stamp + 1],
                  ![r].stamp = @ + 1]
    BY <1>2 DEF PersonWritesScript, engineVars, pastVars
  <2>2. \A n \in Nodes : store'[n].fields = store[n].fields
    BY <1>0, <2>1 DEF Typed
  <2>3. Typed(store)' /\ Typed(index)' /\ JobInv'
    <3>1. DOMAIN store' = Nodes /\ \A n \in Nodes : "fields" \in DOMAIN store'[n]
      BY <1>0, <2>1 DEF Typed
    <3> QED
      BY <1>0, <2>1, <2>2, <3>1, JobKept DEF Typed
  <2>4. \A q \in Rules : Asking(q)' => Asking(q)
    BY <1>0, <2>1, <2>2 DEF Asking, Ticked
  <2> QED
    BY <2>1, <2>3, <2>4, Quiet
<1>3. ASSUME NEW n, NEW f, NEW value, PersonSets(n, f, value),
             \/ f \in Properties
             \/ f \in {"status", "config"}
             \/ n \in Rules /\ f = "run" /\ value = "true"
      PROVE  RInv'
  BY <1>3, PersonStep DEF Properties, Checkboxes
<1>4. CASE \E o \in Objects : PersonCreates(o)
  BY <1>1, <1>4
<1>5. CASE \E o \in Objects, f \in Properties : \E v \in Words[f] : PersonSets(o, f, v)
  BY <1>3, <1>5
<1>6. CASE \E r \in Rules : PersonWritesScript(r)
  BY <1>2, <1>6
<1>7. CASE \E r \in Rules :
             \/ PersonSets(r, "run", "true")
             \/ PersonSets(r, "status",
                   IF IsPaused(StatusOf(r)) THEN "Active" ELSE "Paused")
             \/ \E name \in Rewrites : PersonSets(r, "config", name)
  BY <1>3, <1>7
<1> QED
  BY <1>4, <1>5, <1>6, <1>7 DEF People

\* The index becomes a copy of the space, or stays, and a job begins or ends.
LEMMA CopyStep ==
    ASSUME RInv, UNCHANGED <<store, asked, ran>>, index' = store \/ UNCHANGED index, JobInv'
    PROVE  RInv'
<1>1. Typed(store)' /\ Typed(index)'
  BY DEF RInv, TInv, Typed
<1>2. \A r \in Rules : Asking(r)' => Asking(r)
  BY DEF Asking, Ticked
<1> QED
  BY <1>1, <1>2, Quiet

LEMMA CopySteps ==
    ASSUME RInv, Resync \/ Restart \/ StartTick \/ (\E r \in Rules : \E on : StartRun(r, on))
    PROVE  RInv'
<1>1. CASE Resync
  <2>1. JobInv'
    BY <1>1, JobIdle DEF Resync, RInv, TInv
  <2> QED
    BY <1>1, <2>1, CopyStep DEF Resync, pastVars
<1>2. CASE Restart
  <2>1. JobInv'
    BY <1>2, FreshJob DEF Restart
  <2> QED
    BY <1>2, <2>1, CopyStep DEF Restart
<1>3. CASE StartTick
  <2>1. index' = store /\ job' = Loaded("tick", 0, 0, index')
    BY <1>3 DEF StartTick
  <2>2. JobInv'
    BY <2>1, FreshJob
  <2> QED
    BY <1>3, <2>2, CopyStep DEF StartTick, pastVars
<1>4. CASE \E r \in Rules : \E on : StartRun(r, on)
  <2>0. PICK r \in Rules : \E on : StartRun(r, on)
    BY <1>4
  <2>1. PICK on : StartRun(r, on)
    BY <2>0
  <2>2. /\ job' = NoJob \/ job' = Loaded("run", r, on, index')
        /\ index' = store \/ UNCHANGED index
        /\ UNCHANGED <<store, asked, ran>>
    BY <2>1 DEF StartRun, pastVars
  <2>3. JobInv'
    BY <2>2, FreshJob
  <2> QED
    BY <2>2, <2>3, CopyStep
<1> QED
  BY <1>1, <1>2, <1>3, <1>4

\* A turn or the tool writes an object; no job is at work.
LEMMA CallWrites ==
    ASSUME RInv, NEW n, NEW changes, "run" \notin DOMAIN changes, UNCHANGED <<asked, ran>>,
           \/ /\ store' = [store EXCEPT ![n] = Written(n, changes)]
              /\ index' = [index EXCEPT ![n] = store'[n]]
           \/ Unanswered(n, changes),
           JobInv'
    PROVE  RInv'
<1>1. TInv
  BY DEF RInv
<1>2. Typed(store) /\ Typed(index) /\ Rules \subseteq Nodes
  BY <1>1 DEF TInv, Nodes
<1>3. /\ store' = store \/ store' = [store EXCEPT ![n] = Written(n, changes)]
      /\ \/ index' = index
         \/ /\ index' = [index EXCEPT ![n] = store'[n]]
            /\ store' = [store EXCEPT ![n] = Written(n, changes)]
  BY DEF Unanswered
<1>4. n \in Nodes =>
        /\ "fields" \in DOMAIN Written(n, changes)
        /\ n \in Rules => "run" \in DOMAIN Written(n, changes).fields
        /\ n \in Rules => Written(n, changes).fields["run"] \in
                             {store[n].fields["run"], index[n].fields["run"]}
  BY <1>2, WrittenType
<1>5. Typed(store)' /\ Typed(index)'
  BY <1>2, <1>3, <1>4 DEF Typed
<1>6. ASSUME NEW r \in Rules, Asking(r)' PROVE Asking(r)
  <2>1. CASE r = n
    <3>1. /\ store'[r].fields["run"] \in {store[n].fields["run"], index[n].fields["run"]}
          /\ index'[r].fields["run"] \in {store[n].fields["run"], index[n].fields["run"]}
      BY <1>2, <1>3, <1>4, <2>1 DEF Typed
    <3> QED
      BY <1>6, <2>1, <3>1 DEF Asking, Ticked
  <2>2. CASE r # n
    <3>1. store'[r] = store[r] /\ index'[r] = index[r]
      BY <1>2, <1>3, <2>2 DEF Typed
    <3> QED
      BY <1>6, <3>1 DEF Asking, Ticked
  <2> QED
    BY <2>1, <2>2
<1> QED
  BY <1>5, <1>6, Quiet

LEMMA TurnsSteps == ASSUME RInv, Turns PROVE RInv'
<1>0. TInv /\ Typed(store) /\ Typed(index) /\ JobInv /\ Rules \subseteq Nodes
  BY DEF RInv, TInv, Nodes
<1>1. CASE Command
  BY <1>1, CopySteps DEF Command
<1>2. ASSUME NEW o, NEW f, NEW v, f # "run", TurnWrites(o, f, v) PROVE RInv'
  <2>1. "run" \notin DOMAIN [g \in {f} |-> v]
    BY <1>2
  <2>2. JobInv'
    BY <1>0, <1>2, JobIdle DEF TurnWrites
  <2>3. UNCHANGED <<asked, ran>>
    BY <1>2 DEF TurnWrites
  <2>4. /\ store' = [store EXCEPT ![o] = Written(o, [g \in {f} |-> v])]
        /\ index' = [index EXCEPT ![o] = store'[o]]
    BY <1>2 DEF TurnWrites
  <2> HIDE DEF Written
  <2> QED
    BY <2>1, <2>2, <2>3, <2>4, CallWrites
<1>3. ASSUME NEW r, Test(r) PROVE RInv'
  <2>1. JobInv' /\ UNCHANGED <<store, index, asked, ran>>
    BY <1>3, FreshJob DEF Test, pastVars
  <2> QED
    BY <2>1, CopyStep
<1>4. ASSUME NEW r, NEW paused \in BOOLEAN, SetPaused(r, paused) PROVE RInv'
  <2> DEFINE changes == IF paused THEN [f \in {"status"} |-> "Paused"]
                        ELSE [f \in {"status", "error"} |->
                                 IF f = "status" THEN "Active" ELSE ""]
  <2>1. "run" \notin DOMAIN changes
    OBVIOUS
  <2>2. JobInv' /\ UNCHANGED <<asked, ran>>
    BY <1>0, <1>4, JobIdle DEF SetPaused
  <2>3. \/ /\ store' = [store EXCEPT ![r] = Written(r, changes)]
           /\ index' = [index EXCEPT ![r] = store'[r]]
        \/ Unanswered(r, changes)
    BY <1>4 DEF SetPaused
  <2> HIDE DEF changes
  <2> QED
    BY <2>1, <2>2, <2>3, CallWrites
<1>5. ASSUME NEW r \in Rules, NEW name, Create(r, name) PROVE RInv'
  <2>1. /\ store' = [store EXCEPT ![r] = Saved(name, "Active")]
        /\ index' = [index EXCEPT ![r] = store'[r]]
        /\ job' = AutoTest(r, name)
        /\ UNCHANGED <<asked, ran>>
    BY <1>5 DEF Create, pastVars
  <2>2. LET obj == Saved(name, "Active") IN
        "fields" \in DOMAIN obj /\ "run" \in DOMAIN obj.fields /\ obj.fields["run"] = ""
    BY DEF Saved, NoRule, RuleFields
  <2>3. store'[r] = Saved(name, "Active") /\ index'[r] = Saved(name, "Active")
    BY <1>0, <2>1 DEF Typed
  <2>4. \A q \in Rules \ {r} : store'[q] = store[q] /\ index'[q] = index[q]
    BY <1>0, <2>1 DEF Typed
  <2>5. Typed(store)' /\ Typed(index)'
    BY <1>0, <2>1, <2>2 DEF Typed
  <2>6. \A q \in Rules : Asking(q)' => Asking(q)
    BY <2>2, <2>3, <2>4 DEF Asking, Ticked
  <2>7. JobInv'
    BY <2>1, FreshJob
  <2> QED
    BY <2>1, <2>5, <2>6, <2>7, Quiet
<1>6. ASSUME NEW r \in Rules, NEW name, Update(r, name) PROVE RInv'
  <2> DEFINE now == Written(r, [f \in {"config"} |-> name])
             script == Rule(name).action = "run script"
  <2>1. /\ store' = [store EXCEPT ![r] =
               IF script THEN [now EXCEPT !.body = [fence |-> TRUE, since |-> now.stamp]]
               ELSE now]
        /\ index' = [index EXCEPT ![r] = store'[r]]
        /\ job' = AutoTest(r, name)
        /\ UNCHANGED <<asked, ran>>
    BY <1>6 DEF Update, pastVars
  <2>2. /\ "fields" \in DOMAIN now /\ "run" \in DOMAIN now.fields
        /\ now.fields["run"] \in {store[r].fields["run"], index[r].fields["run"]}
    BY <1>0, WrittenType
  <2> HIDE DEF now, script
  <2>3. "fields" \in DOMAIN store'[r] /\ store'[r].fields = now.fields /\ index'[r] = store'[r]
    BY <1>0, <2>1, <2>2 DEF Typed
  <2>4. \A n \in Nodes \ {r} : store'[n] = store[n] /\ index'[n] = index[n]
    BY <1>0, <2>1 DEF Typed
  <2>5. Typed(store)' /\ Typed(index)'
    <3>1. DOMAIN store' = Nodes /\ DOMAIN index' = Nodes
      BY <1>0, <2>1 DEF Typed
    <3> QED
      BY <1>0, <2>2, <2>3, <2>4, <3>1 DEF Typed
  <2>6. \A q \in Rules : Asking(q)' => Asking(q)
    BY <1>0, <2>2, <2>3, <2>4 DEF Asking, Ticked
  <2>7. JobInv'
    BY <2>1, FreshJob
  <2> QED
    BY <2>1, <2>5, <2>6, <2>7, Quiet
<1>7. CASE \E o \in Objects : \E f \in Properties : \E v \in Words[f] : TurnWrites(o, f, v)
  BY <1>2, <1>7 DEF Properties, Checkboxes
<1>8. CASE \E r \in Rules :
             \/ Test(r) \/ SetPaused(r, TRUE) \/ SetPaused(r, FALSE)
             \/ \E name \in Rewrites : Create(r, name) \/ Update(r, name)
  BY <1>3, <1>4, <1>5, <1>6, <1>8
<1> QED
  BY <1>1, <1>7, <1>8 DEF Turns

-----------------------------------------------------------------------------
(* The steps of a job. *)

\* Steps that write no object.
LEMMA JobReads ==
    ASSUME RInv, DryRun \/ Attach \/ Attached \/ Plan \/ Acted \/ Rebaseline
    PROVE  RInv'
<1>0. JobInv /\ IsJob(job)
  BY DEF RInv, TInv, JobInv
<1>1. UNCHANGED <<store, index, asked, ran>>
  BY DEF DryRun, Attach, Attached, Plan, Acted, Rebaseline, pastVars
<1>2. CASE DryRun
  <2>1. job' = NoJob
    BY <1>2 DEF DryRun, ReadScript
  <2> QED
    BY <1>1, <2>1, FreshJob, CopyStep
<1>3. CASE Attach
  <2>1. IsJob(job') /\ job'.stage = "attach" /\ job'.kind = job.kind /\ job'.seen = job.seen
    BY <1>0, <1>3 DEF Attach, ReadScript, IsJob
  <2>2. job.stage = "attach"
    BY <1>3 DEF Attach
  <2>3. JobInv'
    BY <1>0, <1>1, <2>1, <2>2 DEF JobInv, Ticked
  <2> QED
    BY <1>1, <2>3, CopyStep
<1>4. CASE Attached
  <2>1. job.stage = "attach"
    BY <1>4 DEF Attached
  <2>2. \/ job' = NoJob
        \/ job' = [job EXCEPT !.stage = "claim",
                     !.queue = {r \in Rules : Said(r, "run") = "true"}]
        \/ \E plans : job' = [job EXCEPT !.stage = "act", !.plans = plans]
    BY <1>4 DEF Attached
  <2>3. CASE job' = NoJob
    BY <1>1, <2>3, FreshJob, CopyStep
  <2>4. CASE job' = [job EXCEPT !.stage = "claim",
                       !.queue = {r \in Rules : Said(r, "run") = "true"}]
    <3>1. /\ IsJob(job') /\ job'.stage = "claim" /\ job'.kind = job.kind
          /\ job'.queue = {r \in Rules : Said(r, "run") = "true"}
      BY <1>0, <2>4 DEF IsJob
    <3>2. \A r \in job'.queue : r \in Rules /\ Ticked(index, r)
      BY <1>0, <2>1, <3>1 DEF JobInv, Said
    <3>3. JobInv'
      BY <1>0, <1>1, <2>1, <3>1, <3>2 DEF JobInv, Ticked
    <3> QED
      BY <1>1, <3>3, CopyStep
  <2>5. CASE \E plans : job' = [job EXCEPT !.stage = "act", !.plans = plans]
    <3>1. IsJob(job') /\ job'.stage = "act" /\ job'.kind = job.kind
      BY <1>0, <2>5 DEF IsJob
    <3>2. JobInv'
      BY <1>0, <2>1, <3>1 DEF JobInv
    <3> QED
      BY <1>1, <3>2, CopyStep
  <2> QED
    BY <2>2, <2>3, <2>4, <2>5
<1>5. CASE Plan
  <2>1. IsJob(job') /\ job'.stage = "act" /\ job'.kind = job.kind /\ job.stage = "claim"
    BY <1>0, <1>5 DEF Plan, IsJob
  <2>2. JobInv'
    BY <1>0, <2>1 DEF JobInv
  <2> QED
    BY <1>1, <2>2, CopyStep
<1>6. CASE Acted
  <2>1. IsJob(job') /\ job'.stage = "book" /\ job'.kind = job.kind /\ job.stage = "act"
    BY <1>0, <1>6 DEF Acted, IsJob
  <2>2. JobInv'
    BY <1>0, <2>1 DEF JobInv
  <2> QED
    BY <1>1, <2>2, CopyStep
<1>7. CASE Rebaseline
  <2>1. job' = NoJob
    BY <1>7 DEF Rebaseline
  <2> QED
    BY <1>1, <2>1, FreshJob, CopyStep
<1> QED
  BY <1>2, <1>3, <1>4, <1>5, <1>6, <1>7

\* What a script may queue, once validated, and what the other actions write.
LEMMA ListsHarmless ==
    ASSUME NEW fire, NEW list \in WritesOf(fire),
           \A i \in DOMAIN list : ValidEffect(list[i])
    PROVE  Harmless(list)
<1>1. \A i \in DOMAIN list : list[i].field \in Properties
  BY DEF ValidEffect
<1>2. ASSUME NEW S, NEW n \in Nat, list \in [1..n -> S] PROVE Harmless(list)
  <2>1. list = [i \in 1..n |-> list[i]] /\ DOMAIN list = 1..n
    BY <1>2
  <2> QED
    BY <1>1, <2>1, ListOfWrites
<1>3. ASSUME NEW S, list \in Seq(S) PROVE Harmless(list)
  <2>1. list \in UNION {[1..n -> S] : n \in Nat}
    BY <1>3, SeqDef, Zenon
  <2> QED
    BY <1>2, <2>1
<1> DEFINE c == RuleOf(fire.rule)
<1>4. CASE c.action = "run script"
  <2>1. list \in Effects
    BY <1>4 DEF WritesOf
  <2> QED
    BY <1>3, <2>1, ConstantsAssumption
<1>5. CASE c.action \in {"set now", "set value"}
  <2>1. \E w : list = <<w>>
    BY <1>5 DEF WritesOf
  <2>2. PICK w : list = <<w>>
    BY <2>1
  <2>3. list \in Seq({w})
    BY <2>2
  <2> QED
    BY <1>3, <2>3
<1>6. CASE c.action \notin {"run script", "set now", "set value"}
  <2> DEFINE S == Siblings(fire.rule, fire.obj)
  <2>1. IsFiniteSet(S) /\ Cardinality(S) \in Nat
    <3>1. S \subseteq Objects
      BY DEF Siblings, Live
    <3> HIDE DEF S
    <3> QED
      BY <3>1, FS_Subset, FS_CardinalityType, ConstantsAssumption
  <2>2. PICK others \in InOrder(S) :
            list = [i \in DOMAIN others |-> Write(others[i], c.prop, "false")]
    BY <1>6 DEF WritesOf
  <2>3. others \in [1..Cardinality(S) -> S]
    BY <2>2 DEF InOrder
  <2>4. DOMAIN list = 1..Cardinality(S) /\ list = [i \in 1..Cardinality(S) |-> list[i]]
    BY <2>2, <2>3
  <2> QED
    BY <1>1, <2>1, <2>4, ListOfWrites
<1> QED
  BY <1>4, <1>5, <1>6

LEMMA DoneJob ==
    ASSUME NEW j, NEW ok, IsJob(j)
    PROVE  IsJob(Done(j, ok)) /\ Done(j, ok).stage = "act" /\ Done(j, ok).kind = j.kind
BY DEF IsJob, Done

LEMMA ActStep == ASSUME RInv, Act PROVE RInv'
<1>0. JobInv /\ IsJob(job)
  BY DEF RInv, TInv, JobInv
<1>1. UNCHANGED <<store, index, asked, ran>> /\ job.stage = "act"
  BY DEF Act, pastVars
<1>2. PICK writes \in WritesOf(Head(job.plans)) :
          job' = IF ~\A i \in DOMAIN writes : ValidEffect(writes[i])
                 THEN Done(job, FALSE)
                 ELSE IF writes = <<>> THEN Done(job, TRUE)
                 ELSE [job EXCEPT !.stage = "write", !.writes = writes]
  BY DEF Act
<1>3. CASE \E ok : job' = Done(job, ok)
  <2>1. IsJob(job') /\ job'.stage = "act" /\ job'.kind = job.kind
    BY <1>0, <1>3, DoneJob
  <2>2. JobInv'
    BY <1>0, <1>1, <2>1 DEF JobInv
  <2> QED
    BY <1>1, <2>2, CopyStep
<1>4. CASE /\ \A i \in DOMAIN writes : ValidEffect(writes[i])
           /\ writes # <<>>
           /\ job' = [job EXCEPT !.stage = "write", !.writes = writes]
  <2>1. IsJob(job') /\ job'.stage = "write" /\ job'.kind = job.kind /\ job'.writes = writes
    BY <1>0, <1>4 DEF IsJob
  <2>2. Harmless(writes) /\ writes # <<>>
    BY <1>4, ListsHarmless
  <2>3. JobInv'
    BY <1>0, <1>1, <2>1, <2>2 DEF JobInv
  <2> QED
    BY <1>1, <2>3, CopyStep
<1> QED
  BY <1>2, <1>3, <1>4

LEMMA WriteFieldStep == ASSUME RInv, WriteField PROVE RInv'
<1>0. TInv /\ JobInv /\ IsJob(job)
  BY DEF RInv, TInv, JobInv
<1> DEFINE w == Head(job.writes)
           changes == [f \in {w.field} |-> w.value]
<1>1. job.stage = "write" /\ UNCHANGED <<asked, ran>>
  BY DEF WriteField
<1>2. Harmless(Tail(job.writes)) /\ w.field \in Properties
  BY <1>0, <1>1, RestHarmless DEF JobInv
<1>3. "run" \notin DOMAIN changes
  BY <1>2 DEF Properties, Checkboxes
<1>4. Answered(w.node, changes) \/ Unanswered(w.node, changes)
  BY DEF WriteField
<1>5. /\ Typed(store)' /\ Typed(index)'
      /\ \A r \in Rules : Asking(r)' => Asking(r)
  <2> HIDE DEF w, changes
  <2> QED
    BY <1>0, <1>3, <1>4, WriteStep
<1>6. \/ \E j \in {job, [job EXCEPT !.writes = Tail(@)]} : \E ok : job' = Done(j, ok)
      \/ job' = [job EXCEPT !.writes = Tail(@)] /\ job'.writes # <<>>
  BY DEF WriteField
<1>7. CASE \E j \in {job, [job EXCEPT !.writes = Tail(@)]} : \E ok : job' = Done(j, ok)
  <2>0. PICK j \in {job, [job EXCEPT !.writes = Tail(@)]} : \E ok : job' = Done(j, ok)
    BY <1>7
  <2>1. PICK ok : job' = Done(j, ok)
    BY <2>0
  <2>2. IsJob(j) /\ j.kind = job.kind
    BY <1>0, <2>1 DEF IsJob
  <2>3. IsJob(job') /\ job'.stage = "act" /\ job'.kind = job.kind
    BY <2>1, <2>2, DoneJob
  <2>4. JobInv'
    BY <1>0, <1>1, <2>3 DEF JobInv
  <2> QED
    BY <1>1, <1>5, <2>4, Quiet
<1>8. CASE job' = [job EXCEPT !.writes = Tail(@)] /\ job'.writes # <<>>
  <2>1. /\ IsJob(job') /\ job'.stage = "write" /\ job'.kind = job.kind
        /\ job'.writes = Tail(job.writes)
    BY <1>0, <1>1, <1>8 DEF IsJob
  <2>2. JobInv'
    BY <1>0, <1>1, <1>2, <1>8, <2>1 DEF JobInv
  <2> QED
    BY <1>1, <1>5, <2>2, Quiet
<1> QED
  BY <1>6, <1>7, <1>8

LEMMA BookStep == ASSUME RInv, Book PROVE RInv'
<1>0. TInv /\ JobInv /\ IsJob(job)
  BY DEF RInv, TInv, JobInv
<1>1. PICK r : /\ Answered(r, Settled(r)) \/ Unanswered(r, Settled(r))
               /\ job' = [job EXCEPT !.queue = @ \ {r}]
  BY DEF Book
<1>2. job.stage = "book" /\ UNCHANGED <<asked, ran>>
  BY DEF Book
<1>3. "run" \notin DOMAIN Settled(r)
  BY DEF Settled
<1>4. /\ Typed(store)' /\ Typed(index)'
      /\ \A q \in Rules : Asking(q)' => Asking(q)
  <2> DEFINE changes == Settled(r)
  <2>1. "run" \notin DOMAIN changes /\ (Answered(r, changes) \/ Unanswered(r, changes))
    BY <1>1, <1>3
  <2> HIDE DEF changes
  <2> QED
    BY <1>0, <2>1, WriteStep
<1>5. IsJob(job') /\ job'.stage = "book" /\ job'.kind = job.kind
  BY <1>0, <1>1, <1>2 DEF IsJob
<1>6. JobInv'
  BY <1>0, <1>2, <1>5 DEF JobInv
<1> QED
  BY <1>2, <1>4, <1>6, Quiet

LEMMA RefuseStep == ASSUME RInv, Refuse PROVE RInv'
<1>0. TInv /\ JobInv /\ IsJob(job)
  BY DEF RInv, TInv, JobInv
<1> DEFINE r == Min(job.queue)
           changes == Refusal(r)
<1>1. /\ Answered(r, changes) \/ Unanswered(r, changes)
      /\ job' = [job EXCEPT !.stage = "claim", !.queue = @ \ {r}]
      /\ job.stage = "refuse" /\ UNCHANGED <<asked, ran>>
  BY DEF Refuse
<1>2. "run" \notin DOMAIN changes
  BY DEF Refusal
<1>3. /\ Typed(store)' /\ Typed(index)'
      /\ \A q \in Rules : Asking(q)' => Asking(q)
      /\ \A q \in Rules \ {r} : Ticked(index, q)' = Ticked(index, q)
  <2> HIDE DEF r, changes
  <2> QED
    BY <1>0, <1>1, <1>2, WriteStep
<1>4. /\ IsJob(job') /\ job'.stage = "claim" /\ job'.kind = job.kind
      /\ job'.queue = job.queue \ {r}
  BY <1>0, <1>1 DEF IsJob
<1>5. job.queue \subseteq Rules /\ \A q \in job.queue \ {r} : Ticked(index, q)
  BY <1>0, <1>1 DEF JobInv
<1>6. \A q \in job'.queue : q \in Rules /\ Ticked(index, q)'
  <2> HIDE DEF r
  <2> QED
    BY <1>3, <1>4, <1>5
<1>7. JobInv'
  BY <1>0, <1>1, <1>4, <1>6 DEF JobInv
<1> QED
  BY <1>1, <1>3, <1>7, Quiet

\* The box is unticked on both sides before the request counts as taken up; where
\* the answer is lost it does not.
LEMMA ClaimStep == ASSUME RInv, Claim PROVE RInv'
<1>0. TInv /\ JobInv /\ IsJob(job) /\ Typed(store) /\ Typed(index) /\ Rules \subseteq Nodes
  BY DEF RInv, TInv, JobInv, Nodes
<1>r. PICK r : r = Min(job.queue)
  OBVIOUS
<1>1. job.stage = "claim" /\ job.queue # {} /\ asked' = asked
  BY DEF Claim
<1>2. job.queue \subseteq Rules /\ \A q \in job.queue : Ticked(index, q)
  BY <1>0, <1>1 DEF JobInv
<1>3. r \in job.queue /\ r \in Rules
  BY <1>1, <1>2, <1>r, MinInSet, ConstantsAssumption
<1>4. \/ /\ Answered(r, Untick)
         /\ \/ \E list : job' = [job EXCEPT !.queue = @ \ {r}, !.requested = list]
            \/ \E why : job' = [job EXCEPT !.stage = "refuse", !.why = why]
         /\ ran' = ran \/ ran' = [ran EXCEPT ![r] = @ + 1]
      \/ /\ Unanswered(r, Untick)
         /\ job' = [job EXCEPT !.queue = @ \ {r}]
         /\ UNCHANGED ran
  BY <1>r DEF Claim
<1>5. /\ \/ /\ store' = [store EXCEPT ![r] = Written(r, Untick)]
            /\ index' = [index EXCEPT ![r] = store'[r]]
         \/ /\ store' \in {store, [store EXCEPT ![r] = Written(r, Untick)]}
            /\ index' = index /\ ran' = ran
      /\ ran' = ran \/ ran' = [ran EXCEPT ![r] = @ + 1]
  BY <1>4 DEF Answered, Unanswered
<1>6. /\ "fields" \in DOMAIN Written(r, Untick) /\ "run" \in DOMAIN Written(r, Untick).fields
      /\ Written(r, Untick).fields["run"] = ""
  BY <1>0, <1>3 DEF Written, Merged, Untick, Stored, Typed, Checkboxes
<1>7. Typed(store)' /\ Typed(index)'
  BY <1>0, <1>3, <1>5, <1>6 DEF Typed
<1>8. ASSUME NEW q \in Rules \ {r}
      PROVE  store'[q] = store[q] /\ index'[q] = index[q]
  BY <1>0, <1>5 DEF Typed
<1>9. ASSUME NEW q \in Rules \ {r}
      PROVE  /\ Ticked(index, q)' <=> Ticked(index, q)
             /\ Asking(q)' <=> Asking(q)
  BY <1>8 DEF Ticked, Asking
<1>10. JobInv'
  <2>1. /\ IsJob(job') /\ job'.kind = job.kind
        /\ \/ job'.stage = "claim" /\ job'.queue = job.queue \ {r}
           \/ job'.stage = "refuse" /\ job'.queue = job.queue
    BY <1>0, <1>1, <1>4 DEF IsJob
  <2>2. \A q \in job.queue \ {r} : Ticked(index, q)'
    BY <1>2, <1>9
  <2>3. job'.stage = "refuse" => job'.queue \ {Min(job'.queue)} = job.queue \ {r}
    BY <1>r, <2>1
  <2> QED
    BY <1>0, <1>1, <1>2, <2>1, <2>2, <2>3 DEF JobInv
<1>11. ASSUME NEW q \in Rules PROVE ran'[q] \in Nat /\ Owed(q)'
  <2>1. ran[q] \in Nat /\ asked[q] \in Nat /\ asked'[q] = asked[q] /\ DOMAIN ran = Rules
    BY <1>0, <1>1 DEF TInv
  <2>2. ran[q] + (IF Asking(q) THEN 1 ELSE 0) <= asked[q]
    BY DEF RInv, Owed
  <2>3. CASE q # r
    <3>1. ran'[q] = ran[q]
      BY <1>5, <2>1, <2>3
    <3>2. ran'[q] + (IF Asking(q)' THEN 1 ELSE 0) <= asked'[q]
      BY <1>9, <2>1, <2>2, <2>3, <3>1
    <3> QED
      BY <2>1, <3>1, <3>2 DEF Owed
  <2>4. CASE q = r
    <3>1. Asking(r) /\ ran[r] + 1 <= asked[r]
      BY <1>2, <1>3, <2>2, <2>4 DEF Asking
    <3>2. CASE ran' = ran
      <4>1. ran'[r] + (IF Asking(r)' THEN 1 ELSE 0) <= asked'[r]
        BY <2>1, <2>4, <3>1, <3>2
      <4> QED
        BY <2>1, <2>4, <3>2, <4>1 DEF Owed
    <3>3. CASE ran' # ran
      <4>1. store'[r].fields["run"] = "" /\ index'[r].fields["run"] = ""
        BY <1>0, <1>3, <1>5, <1>6, <3>3 DEF Typed
      <4>2. ~Asking(r)'
        BY <4>1 DEF Asking, Ticked
      <4>3. ran'[r] = ran[r] + 1
        BY <1>3, <1>5, <2>1, <3>3
      <4>4. ran'[r] + (IF Asking(r)' THEN 1 ELSE 0) <= asked'[r]
        BY <2>1, <2>4, <3>1, <4>2, <4>3
      <4> QED
        BY <2>1, <2>4, <4>3, <4>4 DEF Owed
    <3> QED
      BY <3>2, <3>3
  <2> QED
    BY <2>3, <2>4
<1>12. ran' \in [Rules -> Nat] /\ asked' \in [Rules -> Nat]
  BY <1>0, <1>1, <1>3, <1>5 DEF TInv
<1> QED
  BY <1>7, <1>10, <1>11, <1>12 DEF RInv, TInv

-----------------------------------------------------------------------------

LEMMA RequestsInit == Init => RInv
<1> SUFFICES ASSUME Init PROVE RInv
  OBVIOUS
<1>1. PICK start \in Starts :
          store = [n \in Nodes |->
              IF n \in start.objects
              THEN [Absent(n) EXCEPT !.live = TRUE, !.stamp = 1]
              ELSE IF n \in DOMAIN start.rules
              THEN Saved(start.rules[n], "")
              ELSE Absent(n)]
  BY DEF Init
<1>2. /\ index = store /\ job = NoJob
      /\ asked = [r \in Rules |-> 0] /\ ran = [r \in Rules |-> 0]
  BY DEF Init
<1>3. Rules \intersect start.objects = {}
  BY ConstantsAssumption
<1>4. \A n \in Nodes : "fields" \in DOMAIN store[n]
  BY <1>1 DEF Absent, Saved
<1>5. ASSUME NEW r \in Rules
      PROVE  "run" \in DOMAIN store[r].fields /\ store[r].fields["run"] = ""
  <2>1. store[r] \in {Absent(r), Saved(start.rules[r], "")}
    BY <1>1, <1>3 DEF Nodes
  <2>2. "run" \in DOMAIN Absent(r).fields /\ Absent(r).fields["run"] = ""
    BY DEF Absent, NoRule, RuleFields
  <2>3. LET obj == Saved(start.rules[r], "") IN
        "run" \in DOMAIN obj.fields /\ obj.fields["run"] = ""
    BY DEF Saved, NoRule, RuleFields
  <2> QED
    BY <2>1, <2>2, <2>3
<1>6. Typed(store) /\ Typed(index)
  BY <1>1, <1>2, <1>4, <1>5 DEF Typed
<1>7. JobInv
  BY <1>2, IdleJob DEF JobInv
<1>8. \A r \in Rules : ~Asking(r) /\ ran[r] = 0 /\ asked[r] = 0
  BY <1>2, <1>5 DEF Asking, Ticked
<1>9. \A r \in Rules : Owed(r)
  BY <1>8 DEF Owed
<1> QED
  BY <1>2, <1>6, <1>7, <1>9 DEF RInv, TInv

LEMMA RequestsStep == RInv /\ [Next]_vars => RInv'
<1> SUFFICES ASSUME RInv, [Next]_vars PROVE RInv'
  OBVIOUS
<1>1. CASE UNCHANGED vars
  <2>1. UNCHANGED <<store, index, job, asked, ran>>
    BY <1>1 DEF vars, pastVars
  <2>2. JobInv'
    BY <2>1, JobKept DEF RInv, TInv
  <2> QED
    BY <2>1, <2>2, CopyStep
<1> QED
  BY <1>1, PeopleSteps, TurnsSteps, CopySteps, JobReads, ActStep, WriteFieldStep, BookStep,
     RefuseStep, ClaimStep DEF Next, Step

\* A request is taken up at most once, for any rules, scripts and failures: the box
\* is unticked before the rule runs, and although every other write of the engine
\* sends the whole copy back, and may so tick a box again whose unticking got no
\* answer, it never ticks one that has been taken up (_release_request, ADR 058).
THEOREM TakenUpOnce == Spec => []ClaimedOnce
<1>1. RInv => ClaimedOnce
  <2> SUFFICES ASSUME RInv, NEW r \in Rules PROVE ran[r] <= asked[r]
    BY DEF ClaimedOnce
  <2>1. ran[r] \in Nat /\ asked[r] \in Nat
    BY DEF RInv, TInv
  <2>2. ran[r] + (IF Asking(r) THEN 1 ELSE 0) <= asked[r]
    BY DEF RInv, Owed
  <2> QED
    BY <2>1, <2>2
<1> QED
  BY <1>1, RequestsInit, RequestsStep, PTL DEF Spec

-----------------------------------------------------------------------------
(***************************************************************************)
(* A tick fires on nothing the engine has written itself.                  *)
(***************************************************************************)
Busy == {"act", "write", "book"}
Marked == moved \union unheard

\* What the index has of an object the space has too, and no object goes.
Alive ==
    \A o \in Objects : /\ "live" \in DOMAIN store[o]
                       /\ index[o].live => store[o].live

\* A watched value the index lacks was written by others, or got no answer.
Mirrored ==
    \A p \in Pairs : index[p[1]].live /\ p \notin Marked
                        => Value(store, p) = Value(index, p)

\* So was one that has left the baseline, unless a job is at work on it.
Unmoved ==
    job.stage \notin Busy =>
        \A p \in DOMAIN baseline : p \notin Marked => baseline[p] = Value(index, p)

\* What the baseline and a job watch is there to be watched.
Based == \A p \in DOMAIN baseline : p \in Pairs /\ index[p[1]].live
Bound ==
    /\ {"stage", "bound", "seen"} \subseteq DOMAIN job
    /\ \A r \in job.bound : Valid(Said(r, "config"))

HInv == Alive /\ Mirrored /\ Unmoved /\ Based /\ Bound

LEMMA MaxInSet == ASSUME NEW S \in SUBSET Nat, S # {}, IsFiniteSet(S) PROVE Max(S) \in S
<1> DEFINE Above == {{x \in S : x >= c} : c \in S}
<1>1. Above # {} /\ \A T \in Above : T \in FiniteSubsetsOf(Nat)
  <2>1. ASSUME NEW T \in Above PROVE T \in SUBSET Nat /\ IsFiniteSet(T)
    <3>1. T \subseteq S
      OBVIOUS
    <3> QED
      BY <3>1, FS_Subset
  <2> QED
    BY <2>1 DEF FiniteSubsetsOf
<1>2. IsWellFoundedOn(StrictSubsetOrdering(Nat), FiniteSubsetsOf(Nat))
  BY FS_StrictSubsetOrderingWellFounded
<1>3. PICK T \in Above : \A U \in Above : ~(<<U, T>> \in StrictSubsetOrdering(Nat))
  <2>1. Above \subseteq FiniteSubsetsOf(Nat) /\ Above # {}
    BY <1>1
  <2> HIDE DEF Above
  <2> QED
    BY <1>2, <2>1, WFMin
<1>4. PICK c \in S : T = {x \in S : x >= c}
  OBVIOUS
<1>5. ASSUME NEW d \in S PROVE c >= d
  <2>1. CASE d > c
    <3>1. c \in Nat /\ d \in Nat /\ {x \in S : x >= d} \in Above
      OBVIOUS
    <3>2. c \in T /\ c \notin {x \in S : x >= d}
      BY <1>4, <2>1, <3>1
    <3>5. ASSUME NEW x \in S, x >= d PROVE x \in T
      BY <1>4, <2>1, <3>1, <3>5
    <3>3. {x \in S : x >= d} \in SUBSET Nat /\ T \in SUBSET Nat
      BY <1>4
    <3>4. <<{x \in S : x >= d}, T>> \in StrictSubsetOrdering(Nat)
      BY <3>2, <3>3, <3>5 DEF StrictSubsetOrdering
    <3> QED
      BY <1>3, <3>1, <3>4
  <2> QED
    BY <2>1
<1> QED
  BY <1>5 DEF Max

\* What the tick plans has changed since the baseline, and so somebody else changed
\* it or no answer came.
LEMMA PlannedMarked == ASSUME HInv, Plan PROVE Planned \subseteq Marked
<1>1. job.stage \notin Busy
  BY DEF Plan, Busy
<1>2. SUFFICES ASSUME NEW f \in Transitions
               PROVE  <<f.obj, RuleOf(f.rule).watch>> \in Marked
  BY DEF Planned
<1>r. PICK r \in job.bound : \E o \in Chosen(r) : f = Fire(r, o, TRUE)
  BY DEF Transitions
<1>3. PICK o \in Chosen(r) : f = Fire(r, o, TRUE)
  BY <1>r
<1>4. o \in Matches(r)
  <2>1. Matches(r) \in SUBSET Nat /\ IsFiniteSet(Matches(r))
    <3>1. Matches(r) \subseteq Objects
      BY DEF Matches, Live
    <3> QED
      <4>1. Objects \subseteq Nat /\ IsFiniteSet(Objects)
        BY ConstantsAssumption
      <4> QED
        BY <3>1, <4>1, FS_Subset
  <2>2. o \in Matches(r) \/ (Matches(r) # {} /\ o = Max(Matches(r)))
    BY <1>3 DEF Chosen
  <2> QED
    BY <2>1, <2>2, MaxInSet
<1> DEFINE p == <<o, RuleOf(r).watch>>
<1>5. /\ p \in DOMAIN baseline
      /\ ConditionMet(RuleOf(r).when, baseline[p], Value(index, p))
  BY <1>4 DEF Matches, Flipped
<1>6. baseline[p] # Value(index, p)
  <2>1. \A w, a, b : ConditionMet(w, a, b) => a # b
    BY DEF ConditionMet
  <2> QED
    BY <1>5, <2>1
<1>7. p \in Marked
  BY <1>1, <1>5, <1>6 DEF HInv, Unmoved
<1> QED
  BY <1>3, <1>7 DEF Fire

-----------------------------------------------------------------------------
(* Steps by what they change. *)

\* The index keeps what it has of the objects.
LEMMA IndexStays ==
    ASSUME HInv, Bound', baseline' = baseline, Marked \subseteq Marked',
           \A o \in Objects : index'[o] = index[o],
           \A o \in Objects : /\ "live" \in DOMAIN store'[o]
                              /\ store[o].live => store'[o].live,
           \A p \in Pairs : index[p[1]].live /\ p \notin Marked'
                               => Value(store', p) = Value(store, p),
           job'.stage \notin Busy => job.stage \notin Busy
    PROVE  HInv'
<1>1. \A p \in Pairs : p[1] \in Objects
  BY DEF Pairs
<1>2. \A p \in Pairs : Value(index', p) = Value(index, p) /\ index'[p[1]] = index[p[1]]
  BY <1>1 DEF Value
<1>3. Alive'
  BY DEF HInv, Alive
<1>4. Mirrored'
  <2> SUFFICES ASSUME NEW p \in Pairs, index'[p[1]].live, p \notin Marked'
               PROVE  Value(store', p) = Value(index', p)
    BY DEF Mirrored
  <2>1. Value(store, p) = Value(index, p) /\ Value(store', p) = Value(store, p)
    BY <1>2 DEF HInv, Mirrored
  <2> QED
    BY <1>2, <2>1
<1>5. Based'
  BY <1>2 DEF HInv, Based
<1>6. Unmoved'
  <2> SUFFICES ASSUME job'.stage \notin Busy, NEW p \in DOMAIN baseline, p \notin Marked'
               PROVE  baseline[p] = Value(index', p)
    BY DEF Unmoved
  <2>1. baseline[p] = Value(index, p) /\ p \in Pairs
    BY DEF HInv, Unmoved, Based
  <2> QED
    BY <1>2, <2>1
<1> QED
  BY <1>3, <1>4, <1>5, <1>6 DEF HInv

\* The index becomes a copy of the space.
LEMMA IndexCopies ==
    ASSUME HInv, Bound', baseline' = baseline, Marked' = Marked, store' = store,
           index' = store, job'.stage \notin Busy => job.stage \notin Busy
    PROVE  HInv'
<1>1. Alive' /\ Mirrored'
  BY DEF HInv, Alive, Mirrored
<1>2. Based'
  BY DEF HInv, Based, Alive, Pairs
<1>3. Unmoved'
  <2> SUFFICES ASSUME job'.stage \notin Busy, NEW p \in DOMAIN baseline, p \notin Marked
               PROVE  baseline[p] = Value(store, p)
    BY DEF Unmoved
  <2>1. baseline[p] = Value(index, p) /\ p \in Pairs /\ index[p[1]].live
    BY DEF HInv, Unmoved, Based
  <2>2. Value(store, p) = Value(index, p)
    BY <2>1 DEF HInv, Mirrored
  <2> QED
    BY <2>1, <2>2
<1> QED
  BY <1>1, <1>2, <1>3 DEF HInv

\* An object is written, and the index takes it over.
LEMMA IndexTakes ==
    ASSUME HInv, RInv, Bound', baseline' = baseline, Marked \subseteq Marked',
           NEW n, NEW changes,
           store' = [store EXCEPT ![n] = Written(n, changes)],
           index' = [index EXCEPT ![n] = store'[n]],
           job'.stage \notin Busy =>
              /\ job.stage \notin Busy
              /\ n \in Rules \/ Differing \subseteq Marked'
    PROVE  HInv'
<1>0. /\ Typed(store) /\ Typed(index) /\ Objects \subseteq Nodes
      /\ Rules \intersect Objects = {}
      /\ \A p \in Pairs : p[1] \in Objects
  <2>1. Typed(store) /\ Typed(index)
    BY DEF RInv, TInv
  <2>2. Rules \intersect Objects = {}
    BY ConstantsAssumption
  <2> QED
    BY <2>1, <2>2 DEF Nodes, Pairs
<1>1. \A o \in Objects \ {n} : store'[o] = store[o] /\ index'[o] = index[o]
  BY <1>0 DEF Typed
<1>2. n \in Objects =>
         /\ store'[n] = Written(n, changes) /\ index'[n] = store'[n]
         /\ "live" \in DOMAIN store'[n] /\ store'[n].live = store[n].live
  BY <1>0 DEF Typed, Written, HInv, Alive
<1>3. Alive'
  BY <1>1, <1>2 DEF HInv, Alive
<1>4. Mirrored'
  <2> SUFFICES ASSUME NEW p \in Pairs, index'[p[1]].live, p \notin Marked'
               PROVE  Value(store', p) = Value(index', p)
    BY DEF Mirrored
  <2>1. CASE p[1] = n
    BY <1>0, <1>2, <2>1 DEF Value
  <2>2. CASE p[1] # n
    <3>1. store'[p[1]] = store[p[1]] /\ index'[p[1]] = index[p[1]]
      BY <1>0, <1>1, <2>2
    <3>2. Value(store, p) = Value(index, p)
      BY <3>1 DEF HInv, Mirrored
    <3> QED
      BY <3>1, <3>2 DEF Value
  <2> QED
    BY <2>1, <2>2
<1>5. Based'
  <2> SUFFICES ASSUME NEW p \in DOMAIN baseline PROVE p \in Pairs /\ index'[p[1]].live
    BY DEF Based
  <2>1. p \in Pairs /\ index[p[1]].live /\ p[1] \in Objects
    BY <1>0 DEF HInv, Based
  <2>2. store[p[1]].live
    BY <2>1 DEF HInv, Alive
  <2> QED
    BY <1>1, <1>2, <2>1, <2>2
<1>6. Unmoved'
  <2> SUFFICES ASSUME job'.stage \notin Busy, NEW p \in DOMAIN baseline, p \notin Marked'
               PROVE  baseline[p] = Value(index', p)
    BY DEF Unmoved
  <2>1. p \in Pairs /\ index[p[1]].live /\ p[1] \in Objects
    BY <1>0 DEF HInv, Based
  <2>2. baseline[p] = Value(index, p) /\ Value(store, p) = Value(index, p)
    BY <2>1 DEF HInv, Unmoved, Mirrored
  <2>3. CASE p[1] = n
    <3>1. n \in Objects /\ n \notin Rules
      BY <1>0, <2>1, <2>3
    <3>2. Value(store', p) = Value(store, p)
      BY <2>1, <3>1 DEF Differing
    <3>3. Value(index', p) = Value(store', p)
      BY <1>2, <2>3, <3>1 DEF Value
    <3> QED
      BY <2>2, <3>2, <3>3
  <2>4. CASE p[1] # n
    <3>1. index'[p[1]] = index[p[1]]
      BY <1>1, <2>1, <2>4
    <3> QED
      BY <2>2, <3>1 DEF Value
  <2> QED
    BY <2>3, <2>4
<1> QED
  BY <1>3, <1>4, <1>5, <1>6 DEF HInv

\* A rule is written, in the space or on both sides: nobody watches rules.
LEMMA RuleWritten ==
    ASSUME HInv, Bound', baseline' = baseline, Marked \subseteq Marked', NEW r \in Rules,
           \A n \in Nodes \ {r} : store'[n] = store[n] /\ index'[n] = index[n],
           job'.stage \notin Busy => job.stage \notin Busy
    PROVE  HInv'
<1>1. \A o \in Objects : store'[o] = store[o] /\ index'[o] = index[o]
  <2>1. Rules \intersect Objects = {}
    BY ConstantsAssumption
  <2> QED
    BY <2>1 DEF Nodes
<1>2. \A p \in Pairs : Value(store', p) = Value(store, p)
  BY <1>1 DEF Value, Pairs
<1> QED
  BY <1>1, <1>2, IndexStays DEF HInv, Alive

\* A write of the engine, answered or not, while it is at work.
LEMMA EngineWrites ==
    ASSUME HInv, RInv, Bound', NEW n, NEW changes, ByEngine, baseline' = baseline,
           Answered(n, changes) \/ Unanswered(n, changes), job'.stage \in Busy
    PROVE  HInv'
<1>1. Marked \subseteq Marked'
  BY DEF ByEngine, Marked
<1>2. CASE Answered(n, changes)
  BY <1>1, <1>2, IndexTakes DEF Answered
<1>3. CASE Unanswered(n, changes)
  <2>1. index' = index /\ Differing \subseteq Marked'
    BY <1>3 DEF Unanswered, ByEngine, Marked
  <2>2. store' = store \/ store' = [store EXCEPT ![n] = Written(n, changes)]
    BY <1>3 DEF Unanswered
  <2>3. \A o \in Objects : /\ "live" \in DOMAIN store'[o]
                           /\ store[o].live => store'[o].live
    <3>1. DOMAIN store = Nodes /\ Objects \subseteq Nodes
      BY DEF RInv, TInv, Typed, Nodes
    <3> QED
      BY <2>2, <3>1 DEF Written, HInv, Alive
  <2>4. \A p \in Pairs : p \notin Marked' => Value(store', p) = Value(store, p)
    BY <2>1 DEF Differing
  <2> QED
    BY <1>1, <2>1, <2>3, <2>4, IndexStays
<1> QED
  BY <1>2, <1>3

LEMMA BoundFewer ==
    ASSUME Bound, {"stage", "bound", "seen"} \subseteq DOMAIN job',
           job'.bound \subseteq job.bound, job'.seen = job.seen
    PROVE  Bound'
BY DEF Bound, Said

LEMMA LoadedBinds ==
    ASSUME NEW kind, NEW ask, NEW on, NEW view
    PROVE  LET j == Loaded(kind, ask, on, view) IN
           /\ {"stage", "bound", "seen"} \subseteq DOMAIN j
           /\ j.stage = "attach" /\ j.bound \subseteq Rules
           /\ j.seen = [r \in Rules |-> view[r]]
           /\ \A r \in j.bound : Valid(view[r].fields["config"])
BY DEF Loaded, NoJob

LEMMA OtherJobs ==
    ASSUME NEW j, j = NoJob \/ \E r, name : j = AutoTest(r, name)
    PROVE  {"stage", "bound", "seen"} \subseteq DOMAIN j /\ j.bound = {} /\ j.stage \notin Busy
<1>1. CASE j = NoJob
  BY <1>1 DEF NoJob, Busy
<1>2. CASE \E r : j = Testing(r)
  BY <1>2 DEF Testing, NoJob, Busy
<1> QED
  BY <1>1, <1>2 DEF AutoTest

LEMMA BoundAfresh ==
    ASSUME \/ job' = NoJob \/ \E r, name : job' = AutoTest(r, name)
           \/ \E kind, ask, on, view : job' = Loaded(kind, ask, on, view)
    PROVE  Bound' /\ job'.stage \notin Busy
<1>1. CASE job' = NoJob \/ \E r, name : job' = AutoTest(r, name)
  BY <1>1, OtherJobs DEF Bound
<1>2. CASE \E kind, ask, on, view : job' = Loaded(kind, ask, on, view)
  <2>1. PICK kind, ask, on, view : job' = Loaded(kind, ask, on, view)
    BY <1>2
  <2>2. /\ {"stage", "bound", "seen"} \subseteq DOMAIN job'
        /\ job'.stage = "attach" /\ job'.bound \subseteq Rules
        /\ job'.seen = [r \in Rules |-> view[r]]
        /\ \A r \in job'.bound : Valid(view[r].fields["config"])
    BY <2>1, LoadedBinds
  <2>3. \A r \in job'.bound : Valid(job'.seen[r].fields["config"])
    BY <2>2
  <2> QED
    BY <2>2, <2>3 DEF Bound, Said, Busy
<1> QED
  BY <1>1, <1>2

-----------------------------------------------------------------------------
(* One step at a time. *)

LEMMA PeopleMark == ASSUME HInv, RInv, People PROVE HInv'
<1>0. /\ DOMAIN store = Nodes /\ Objects \subseteq Nodes /\ Rules \subseteq Nodes /\ Bound
      /\ \A p \in Pairs : p[1] \in Objects
  BY DEF RInv, TInv, Typed, Nodes, HInv, Pairs
<1>1. ASSUME NEW o \in Objects, PersonCreates(o) PROVE HInv'
  <2>1. /\ UNCHANGED <<index, baseline, job, moved, unheard>> /\ ~store[o].live
        /\ \E value \in {"", "true"} :
              store' = [store EXCEPT ![o] =
                 [@ EXCEPT !.live = TRUE, !.stamp = 1, !.fields["done"] = value]]
    BY <1>1 DEF PersonCreates, engineVars, pastVars
  <2>2. Bound' /\ Marked' = Marked
    BY <1>0, <2>1 DEF Bound, Said, Marked
  <2>3. /\ DOMAIN store'[o] = DOMAIN store[o]
        /\ \A q \in Objects \ {o} : store'[q] = store[q]
    BY <1>0, <2>1
  <2>4. ~index[o].live
    BY <2>1 DEF HInv, Alive
  <2>5. \A q \in Objects : /\ "live" \in DOMAIN store'[q]
                           /\ store[q].live => store'[q].live
    BY <2>1, <2>3 DEF HInv, Alive
  <2>6. \A p \in Pairs : index[p[1]].live => Value(store', p) = Value(store, p)
    BY <1>0, <2>3, <2>4 DEF Value
  <2> QED
    BY <2>1, <2>2, <2>5, <2>6, IndexStays
<1>2. ASSUME NEW r \in Rules, PersonWritesScript(r) PROVE HInv'
  <2>1. /\ UNCHANGED <<index, baseline, job, moved, unheard>>
        /\ \A n \in Nodes \ {r} : store'[n] = store[n]
    BY <1>0, <1>2 DEF PersonWritesScript, engineVars, pastVars
  <2>2. Bound' /\ Marked' = Marked
    BY <1>0, <2>1 DEF Bound, Said, Marked
  <2> QED
    BY <2>1, <2>2, RuleWritten
<1>3. ASSUME NEW n, NEW f, NEW value, PersonSets(n, f, value) PROVE HInv'
  <2>1. /\ store' = [store EXCEPT ![n].fields[f] = value, ![n].stamp = @ + 1]
        /\ UNCHANGED <<index, baseline, job>>
        /\ moved' = moved \union Differing /\ unheard' = unheard
    BY <1>3 DEF PersonSets, engineVars, ByOthers
  <2>2. Bound' /\ Marked \subseteq Marked' /\ Differing \subseteq Marked'
    BY <1>0, <2>1 DEF Bound, Said, Marked
  <2>3. \A q \in Objects : /\ "live" \in DOMAIN store'[q]
                           /\ store[q].live => store'[q].live
    BY <1>0, <2>1 DEF HInv, Alive
  <2>4. \A p \in Pairs : p \notin Marked' => Value(store', p) = Value(store, p)
    BY <2>2 DEF Differing
  <2> QED
    BY <2>1, <2>2, <2>3, <2>4, IndexStays
<1>4. CASE \E o \in Objects : PersonCreates(o)
  BY <1>1, <1>4
<1>5. CASE \E r \in Rules : PersonWritesScript(r)
  BY <1>2, <1>5
<1>6. CASE \E n, f, value : PersonSets(n, f, value)
  BY <1>3, <1>6
<1> QED
  BY <1>4, <1>5, <1>6 DEF People

LEMMA CopiesMark ==
    ASSUME HInv, RInv, Resync \/ Restart \/ StartTick \/ Command
    PROVE  HInv'
<1>0. Bound /\ (Idle => job.stage \notin Busy)
  BY DEF HInv, RInv, TInv, JobInv, Idle, Busy
<1>1. CASE Resync
  <2>1. /\ index' = store /\ UNCHANGED <<store, baseline, job, moved, unheard>>
    BY <1>1 DEF Resync, pastVars
  <2>2. Bound' /\ Marked' = Marked
    BY <1>0, <2>1 DEF Bound, Said, Marked
  <2> QED
    BY <2>1, <2>2, IndexCopies
<1>2. CASE Restart
  <2>1. /\ index' = store /\ store' = store /\ baseline' = NoChanges /\ job' = NoJob
    BY <1>2 DEF Restart
  <2>2. Bound'
    BY <2>1, BoundAfresh
  <2>3. Alive' /\ Mirrored'
    BY <2>1 DEF HInv, Alive, Mirrored
  <2>4. DOMAIN baseline' = {}
    BY <2>1 DEF NoChanges
  <2> QED
    BY <2>2, <2>3, <2>4 DEF HInv, Based, Unmoved
<1>3. ASSUME UNCHANGED <<store, baseline, moved, unheard>>,
             index' = store \/ index' = index, Bound', job'.stage \notin Busy,
             job.stage \notin Busy
      PROVE  HInv'
  <2>1. Marked' = Marked
    BY <1>3 DEF Marked
  <2>2. CASE index' = store
    BY <1>3, <2>1, <2>2, IndexCopies
  <2>3. CASE index' = index
    BY <1>3, <2>1, <2>3, IndexStays DEF HInv, Alive
  <2> QED
    BY <1>3, <2>2, <2>3
<1>4. CASE StartTick
  <2>1. /\ UNCHANGED <<store, baseline, moved, unheard>> /\ index' = store /\ Idle
        /\ job' = Loaded("tick", 0, 0, store)
    BY <1>4 DEF StartTick, pastVars
  <2>2. Bound' /\ job'.stage \notin Busy
    BY <2>1, BoundAfresh
  <2> QED
    BY <1>0, <1>3, <2>1, <2>2
<1>5. CASE Command
  <2>1. PICK r \in Rules, on \in {0} \union Objects : StartRun(r, on)
    BY <1>5 DEF Command
  <2>2. /\ UNCHANGED <<store, baseline, moved, unheard>> /\ Idle
        /\ index' = store \/ index' = index
        /\ job' = NoJob \/ job' = Loaded("run", r, on, index')
    BY <2>1 DEF StartRun, pastVars
  <2>3. Bound' /\ job'.stage \notin Busy
    BY <2>2, BoundAfresh
  <2> QED
    BY <1>0, <1>3, <2>2, <2>3
<1> QED
  BY <1>1, <1>2, <1>4, <1>5

LEMMA TurnsMark == ASSUME HInv, RInv, Turns PROVE HInv'
<1>0. /\ DOMAIN store = Nodes /\ DOMAIN index = Nodes /\ Bound
      /\ Idle => job.stage \notin Busy
  BY DEF HInv, RInv, TInv, Typed, JobInv, Idle, Busy
<1>1. CASE Command
  BY <1>1, CopiesMark
<1>2. ASSUME NEW o, NEW f, NEW v, TurnWrites(o, f, v) PROVE HInv'
  <2> DEFINE changes == [g \in {f} |-> v]
  <2>1. /\ store' = [store EXCEPT ![o] = Written(o, changes)]
        /\ index' = [index EXCEPT ![o] = store'[o]]
        /\ UNCHANGED <<baseline, job>> /\ Idle
        /\ moved' = moved \union Differing /\ unheard' = unheard
    BY <1>2 DEF TurnWrites, ByOthers
  <2>2. Bound' /\ Marked \subseteq Marked' /\ Differing \subseteq Marked'
    BY <1>0, <2>1 DEF Bound, Said, Marked
  <2> HIDE DEF changes
  <2> QED
    BY <1>0, <2>1, <2>2, IndexTakes
<1>3. ASSUME NEW r \in Rules, UNCHANGED <<baseline, moved, unheard>>, Idle,
             \/ UNCHANGED <<store, index>>
             \/ \E object : /\ store' = [store EXCEPT ![r] = object]
                            /\ index' = index \/ index' = [index EXCEPT ![r] = store'[r]],
             UNCHANGED job \/ \E q, name : job' = AutoTest(q, name)
      PROVE  HInv'
  <2>1. Marked' = Marked
    BY <1>3 DEF Marked
  <2>2. Bound' /\ (job'.stage \notin Busy => job.stage \notin Busy)
    <3>1. CASE UNCHANGED job
      BY <1>0, <3>1 DEF Bound, Said
    <3>2. CASE \E q, name : job' = AutoTest(q, name)
      BY <1>0, <1>3, <3>2, BoundAfresh
    <3> QED
      BY <1>3, <3>1, <3>2
  <2>3. \A n \in Nodes \ {r} : store'[n] = store[n] /\ index'[n] = index[n]
    <3>1. CASE UNCHANGED <<store, index>>
      BY <3>1
    <3>2. CASE ~UNCHANGED <<store, index>>
      <4>1. PICK object : /\ store' = [store EXCEPT ![r] = object]
                          /\ index' = index \/ index' = [index EXCEPT ![r] = store'[r]]
        BY <1>3, <3>2
      <4> QED
        BY <1>0, <4>1
    <3> QED
      BY <3>1, <3>2
  <2> QED
    BY <1>3, <2>1, <2>2, <2>3, RuleWritten
<1>4. ASSUME NEW r \in Rules, Test(r) PROVE HInv'
  BY <1>3, <1>4 DEF Test, pastVars
<1>5. ASSUME NEW r \in Rules, NEW paused, SetPaused(r, paused) PROVE HInv'
  <2>1. PICK changes :
            /\ \/ /\ store' = [store EXCEPT ![r] = Written(r, changes)]
                  /\ index' = [index EXCEPT ![r] = store'[r]]
               \/ Unanswered(r, changes)
            /\ UNCHANGED <<baseline, job, moved, unheard>> /\ Idle
    BY <1>5 DEF SetPaused
  <2> QED
    BY <1>3, <2>1 DEF Unanswered
<1>6. ASSUME NEW r \in Rules, NEW name, Create(r, name) PROVE HInv'
  BY <1>3, <1>6 DEF Create, pastVars
<1>7. ASSUME NEW r \in Rules, NEW name, Update(r, name) PROVE HInv'
  <2>1. /\ \E object : store' = [store EXCEPT ![r] = object]
        /\ index' = [index EXCEPT ![r] = store'[r]]
        /\ job' = AutoTest(r, name) /\ UNCHANGED <<baseline, moved, unheard>> /\ Idle
    BY <1>7 DEF Update, pastVars
  <2> QED
    BY <1>3, <2>1
<1>8. CASE \E o \in Objects : \E f \in Properties : \E v \in Words[f] : TurnWrites(o, f, v)
  BY <1>2, <1>8
<1>9. CASE \E r \in Rules :
             \/ Test(r) \/ SetPaused(r, TRUE) \/ SetPaused(r, FALSE)
             \/ \E name \in Rewrites : Create(r, name) \/ Update(r, name)
  BY <1>4, <1>5, <1>6, <1>7, <1>9
<1> QED
  BY <1>1, <1>8, <1>9 DEF Turns

LEMMA JobsMark ==
    ASSUME HInv, RInv, DryRun \/ Attach \/ Attached \/ Plan \/ Act \/ Acted \/ Rebaseline
    PROVE  HInv'
<1>0. Bound /\ {"stage", "bound", "seen"} \subseteq DOMAIN job
  BY DEF HInv, Bound
<1>1. ASSUME UNCHANGED <<store, index, baseline, moved, unheard>>, Bound',
             job'.stage \notin Busy => job.stage \notin Busy
      PROVE  HInv'
  <2>1. Marked' = Marked
    BY <1>1 DEF Marked
  <2> QED
    BY <1>1, <2>1, IndexStays DEF HInv, Alive
<1>2. CASE DryRun
  <2>1. job' = NoJob /\ job.stage = "test"
    BY <1>2 DEF DryRun, ReadScript
  <2>2. Bound' /\ job.stage \notin Busy
    BY <2>1, BoundAfresh DEF Busy
  <2> QED
    BY <1>1, <1>2, <2>2 DEF DryRun, pastVars
<1>3. CASE Attach
  <2>1. /\ {"stage", "bound", "seen"} \subseteq DOMAIN job' /\ job'.stage = job.stage
        /\ job'.bound \subseteq job.bound /\ job'.seen = job.seen
    BY <1>0, <1>3 DEF Attach, ReadScript
  <2> QED
    BY <1>0, <1>1, <1>3, <2>1, BoundFewer DEF Attach, pastVars
<1>4. CASE Attached
  <2>1. /\ job.stage \notin Busy
        /\ \/ job' = NoJob
           \/ \E queue : job' = [job EXCEPT !.stage = "claim", !.queue = queue]
           \/ \E plans : job' = [job EXCEPT !.stage = "act", !.plans = plans]
    BY <1>4 DEF Attached, Busy
  <2>2. Bound'
    <3>1. CASE job' = NoJob
      BY <3>1, BoundAfresh
    <3>2. CASE job' # NoJob
      BY <1>0, <2>1, <3>2, BoundFewer
    <3> QED
      BY <3>1, <3>2
  <2> QED
    BY <1>1, <1>4, <2>1, <2>2 DEF Attached, pastVars
<1>5. CASE Plan
  <2>1. /\ {"stage", "bound", "seen"} \subseteq DOMAIN job'
        /\ job'.bound = job.bound /\ job'.seen = job.seen /\ job'.stage \in Busy
    BY <1>0, <1>5 DEF Plan, Busy
  <2> QED
    BY <1>0, <1>1, <1>5, <2>1, BoundFewer DEF Plan, pastVars
<1>6. CASE Act
  <2>1. \/ \E ok : job' = Done(job, ok)
        \/ \E writes : job' = [job EXCEPT !.stage = "write", !.writes = writes]
    BY <1>6 DEF Act
  <2>2. /\ {"stage", "bound", "seen"} \subseteq DOMAIN job'
        /\ job'.bound = job.bound /\ job'.seen = job.seen /\ job'.stage \in Busy
    BY <1>0, <2>1 DEF Done, Busy
  <2> QED
    BY <1>0, <1>1, <1>6, <2>2, BoundFewer DEF Act, pastVars
<1>7. CASE Acted
  <2>1. /\ {"stage", "bound", "seen"} \subseteq DOMAIN job'
        /\ job'.bound = job.bound /\ job'.seen = job.seen /\ job'.stage \in Busy
    BY <1>0, <1>7 DEF Acted, Busy
  <2> QED
    BY <1>0, <1>1, <1>7, <2>1, BoundFewer DEF Acted, pastVars
<1>8. CASE Rebaseline
  <2>1. /\ baseline' = Rebaselined /\ job' = NoJob /\ UNCHANGED <<store, index>>
        /\ moved' = {p \in moved : Value(store, p) # Value(index, p)}
        /\ unheard' = {p \in unheard : Value(store, p) # Value(index, p)}
    BY <1>8 DEF Rebaseline
  <2>2. Bound'
    BY <2>1, BoundAfresh
  <2>3. Alive'
    BY <2>1 DEF HInv, Alive
  <2>4. Mirrored'
    <3> SUFFICES ASSUME NEW p \in Pairs, index[p[1]].live, p \notin Marked'
                 PROVE  Value(store, p) = Value(index, p)
      BY <2>1 DEF Mirrored, Value
    <3>1. CASE p \in Marked
      BY <2>1, <3>1 DEF Marked
    <3>2. CASE p \notin Marked
      BY <3>2 DEF HInv, Mirrored
    <3> QED
      BY <3>1, <3>2
  <2>5. Based'
    <3> SUFFICES ASSUME NEW p \in Watched PROVE p \in Pairs /\ index[p[1]].live
      BY <2>1 DEF Based, Rebaselined
    <3>1. PICK r \in job.bound : \E o \in Live : Watches(RuleOf(r)) /\ p = <<o, RuleOf(r).watch>>
      BY DEF Watched
    <3>2. PICK o \in Live : Watches(RuleOf(r)) /\ p = <<o, RuleOf(r).watch>>
      BY <3>1
    <3>3. Binds(RuleOf(r))
      BY <1>0, <3>1 DEF Bound, Valid, RuleOf, Rule
    <3>4. RuleOf(r).watch \in Properties \union {"modified"}
      <4> DEFINE c == RuleOf(r)
      <4>1. Binds(c) /\ Watches(c)
        BY <3>2, <3>3
      <4> HIDE DEF c
      <4>2. c.watch \in Properties \union {"modified"}
        BY <4>1 DEF Binds, Watches
      <4> QED
        BY <4>2 DEF c
    <3>5. o \in Objects /\ index[o].live
      BY <3>2 DEF Live
    <3> QED
      BY <3>2, <3>4, <3>5 DEF Pairs
  <2>6. Unmoved'
    <3> SUFFICES ASSUME NEW p \in DOMAIN baseline' PROVE baseline'[p] = Value(index', p)
      BY DEF Unmoved
    <3>1. baseline'[p] = Value(index, p)
      BY <2>1 DEF Rebaselined
    <3> QED
      BY <2>1, <3>1 DEF Value
  <2> QED
    BY <2>2, <2>3, <2>4, <2>5, <2>6 DEF HInv
<1> QED
  BY <1>2, <1>3, <1>4, <1>5, <1>6, <1>7, <1>8

\* Claims and refusals write the rule itself.
LEMMA RequestsMark == ASSUME HInv, RInv, Claim \/ Refuse PROVE HInv'
<1>0. /\ Bound /\ {"stage", "bound", "seen"} \subseteq DOMAIN job
      /\ DOMAIN store = Nodes /\ DOMAIN index = Nodes
  BY DEF HInv, Bound, RInv, TInv, Typed
<1>r. PICK r : r = Min(job.queue)
  OBVIOUS
<1>1. PICK changes : /\ Answered(r, changes) \/ Unanswered(r, changes)
                     /\ ByEngine /\ baseline' = baseline
  BY <1>r DEF Claim, Refuse
<1>2. /\ job.stage \in {"claim", "refuse"}
      /\ \/ \E queue, list : job' = [job EXCEPT !.queue = queue, !.requested = list]
         \/ \E why : job' = [job EXCEPT !.stage = "refuse", !.why = why]
         \/ \E queue : job' = [job EXCEPT !.queue = queue]
         \/ \E queue : job' = [job EXCEPT !.stage = "claim", !.queue = queue]
  BY DEF Claim, Refuse
<1>3. Bound' /\ job.stage \notin Busy
  <2>1. /\ {"stage", "bound", "seen"} \subseteq DOMAIN job'
        /\ job'.bound = job.bound /\ job'.seen = job.seen
    BY <1>0, <1>2
  <2> QED
    BY <1>0, <1>2, <2>1, BoundFewer DEF Busy
<1>4. Marked \subseteq Marked'
  BY <1>1 DEF ByEngine, Marked
<1>5. \A n \in Nodes \ {r} : store'[n] = store[n] /\ index'[n] = index[n]
  <2>1. /\ store' = store \/ store' = [store EXCEPT ![r] = Written(r, changes)]
        /\ index' = index \/ index' = [index EXCEPT ![r] = store'[r]]
    BY <1>1 DEF Answered, Unanswered
  <2> QED
    BY <1>0, <2>1
<1>6. r \in Rules
  <2>1. job.queue \subseteq Rules
    BY <1>2 DEF RInv, TInv, JobInv
  <2>2. job.queue # {}
    BY DEF Claim, Refuse, RInv, TInv, JobInv
  <2>3. Rules \subseteq Nat
    BY ConstantsAssumption
  <2> QED
    BY <1>r, <2>1, <2>2, <2>3, MinInSet
<1> QED
  BY <1>1, <1>3, <1>4, <1>5, <1>6, RuleWritten

LEMMA WritesMark == ASSUME HInv, RInv, WriteField \/ Book PROVE HInv'
<1>0. Bound /\ {"stage", "bound", "seen"} \subseteq DOMAIN job
  BY DEF HInv, Bound
<1>1. PICK n, changes : /\ Answered(n, changes) \/ Unanswered(n, changes)
                        /\ ByEngine /\ baseline' = baseline
  BY DEF WriteField, Book
<1>2. \/ /\ job.stage = "book" /\ \E queue : job' = [job EXCEPT !.queue = queue]
      \/ /\ job.stage = "write"
         /\ LET went == [job EXCEPT !.writes = Tail(@)] IN
            job' = went \/ \E j \in {job, went} : \E ok : job' = Done(j, ok)
  BY DEF WriteField, Book
<1>3. /\ {"stage", "bound", "seen"} \subseteq DOMAIN job'
      /\ job'.bound = job.bound /\ job'.seen = job.seen /\ job'.stage \in Busy
  BY <1>0, <1>2 DEF Done, Busy
<1>4. Bound'
  BY <1>0, <1>3, BoundFewer
<1> QED
  BY <1>1, <1>3, <1>4, EngineWrites

-----------------------------------------------------------------------------

LEMMA MarksInit == Init => HInv
<1> SUFFICES ASSUME Init PROVE HInv
  OBVIOUS
<1>1. PICK start \in Starts :
          store = [n \in Nodes |->
              IF n \in start.objects
              THEN [Absent(n) EXCEPT !.live = TRUE, !.stamp = 1]
              ELSE IF n \in DOMAIN start.rules
              THEN Saved(start.rules[n], "")
              ELSE Absent(n)]
  BY DEF Init
<1>2. index = store /\ baseline = NoChanges /\ job = NoJob
  BY DEF Init
<1>3. \A n \in Nodes : "live" \in DOMAIN store[n]
  BY <1>1 DEF Absent, Saved
<1>4. Alive
  BY <1>2, <1>3 DEF Alive, Nodes
<1>5. Mirrored
  BY <1>2 DEF Mirrored
<1>6. DOMAIN baseline = {}
  BY <1>2 DEF NoChanges
<1>7. Bound
  BY <1>2 DEF Bound, NoJob
<1> QED
  BY <1>4, <1>5, <1>6, <1>7 DEF HInv, Based, Unmoved

LEMMA MarksStep == HInv /\ RInv /\ [Next]_vars => HInv'
<1> SUFFICES ASSUME HInv, RInv, [Next]_vars PROVE HInv'
  OBVIOUS
<1>1. CASE UNCHANGED vars
  <2>1. UNCHANGED <<store, index, baseline, job, moved, unheard>>
    BY <1>1 DEF vars, pastVars
  <2>2. Bound' /\ Marked' = Marked
    BY <2>1 DEF HInv, Bound, Said, Marked
  <2> QED
    BY <2>1, <2>2, IndexStays DEF HInv, Alive
<1> QED
  BY <1>1, PeopleMark, TurnsMark, CopiesMark, JobsMark, RequestsMark, WritesMark
     DEF Next, Step

\* Rules never trigger rules, for any rules, scripts, failures and edits: the values
\* a tick compares are those the index had when the last job ended, and everything
\* that is not in them was written by people or a turn, or by a write of the engine
\* that landed without an answer (_rebaseline, ADR 039).
THEOREM NoCascade == Spec => CascadesUnheard
<1>1. HInv /\ RInv /\ [Next]_vars => [Plan => Planned \subseteq moved \union unheard]_vars
  <2>1. HInv /\ Plan => Planned \subseteq moved \union unheard
    BY PlannedMarked DEF Marked
  <2> QED
    BY <2>1
<1> QED
  BY <1>1, RequestsInit, RequestsStep, MarksInit, MarksStep, PTL DEF Spec, CascadesUnheard

-----------------------------------------------------------------------------
(***************************************************************************)
(* A script that runs is not older than the rule the job has read.         *)
(***************************************************************************)
Whole(f) ==
    \A r \in Rules : /\ {"live", "stamp", "body", "fields"} \subseteq DOMAIN f[r]
                     /\ f[r].stamp \in Nat /\ f[r].body.since \in Nat

\* No copy of a rule is ahead of the space, and no body is younger than its rule.
Aged ==
    /\ DOMAIN store = Nodes /\ DOMAIN index = Nodes
    /\ Whole(store) /\ Whole(index)
    /\ \A r \in Rules : /\ index[r].stamp <= store[r].stamp
                        /\ store[r].body.since <= store[r].stamp
                        /\ index[r].live => store[r].live

\* A cached script is the one in the space, or goes by a stamp that the script in
\* the space is younger than.
Fresh(r) ==
    /\ index[r].live
    /\ scripts[r].stamp \in Nat /\ scripts[r].stamp <= index[r].stamp
    /\ \/ scripts[r].since = store[r].body.since
       \/ scripts[r].stamp < store[r].body.since
Sound == DOMAIN scripts \subseteq Rules /\ \A r \in DOMAIN scripts : Fresh(r)

Reading == {"attach", "claim", "refuse", "act", "write"}
FiresOf(rules) == [rule : rules, obj : Nat, auto : BOOLEAN]

\* The stamps a job has read are those of the index until all scripts are there;
\* the script of a rule it may fire then goes by the stamp it has read.
Attaching ==
    job.stage = "attach" =>
        /\ \A r \in Rules : job.seen[r].stamp = index[r].stamp
        /\ \A r \in job.queue : r \in Rules /\ index[r].live
ScriptRead(r) == r \in DOMAIN scripts /\ scripts[r].stamp = job.seen[r].stamp
Scripted ==
    job.stage \in Reading =>
        \A r \in job.bound : RuleOf(r).action = "run script" =>
            ScriptRead(r) \/ (job.stage = "attach" /\ r \in job.queue)

\* A job fires rules that bind.
Listed ==
    /\ job.stage = "attach" => job.requested = <<>>
    /\ job.stage \in {"claim", "refuse"} => job.requested \in Seq(FiresOf(job.bound))
    /\ job.stage \in {"act", "write"} => job.plans \in Seq(FiresOf(job.bound))
    /\ job.stage = "write" => job.plans # <<>>
Lists ==
    /\ {"ask", "bound", "seen", "requested", "plans"} \subseteq DOMAIN job
    /\ job.bound \subseteq Rules
    /\ job.stage = "test" => job.ask \in Rules /\ index[job.ask].live

JInv == Lists /\ Attaching /\ Scripted /\ Listed
SInv == Aged /\ Sound /\ JInv

-----------------------------------------------------------------------------
(* What a step does to the rules themselves. *)

\* The rule r grows older, or stays as it is, and keeps its body.
Grown(r) ==
    /\ {"live", "stamp", "body", "fields"} \subseteq DOMAIN store'[r]
    /\ {"live", "stamp", "body", "fields"} \subseteq DOMAIN index'[r]
    /\ store'[r].stamp \in Nat /\ store'[r].stamp >= store[r].stamp
    /\ index'[r].stamp \in Nat /\ index'[r].stamp >= index[r].stamp
    /\ index'[r].stamp <= store'[r].stamp
    /\ store'[r].body = store[r].body /\ index'[r].body \in {store[r].body, index[r].body}
    /\ index[r].live => index'[r].live
    /\ index'[r].live => store'[r].live

\* As rule r, and the others with it.
GrownOrNew(r) ==
    /\ {"live", "stamp", "body", "fields"} \subseteq DOMAIN store'[r]
    /\ {"live", "stamp", "body", "fields"} \subseteq DOMAIN index'[r]
    /\ store'[r].stamp \in Nat /\ index'[r].stamp \in Nat
    /\ index'[r].stamp <= store'[r].stamp
    /\ store'[r].body.since \in Nat /\ index'[r].body.since \in Nat
    /\ store'[r].body.since <= store'[r].stamp
    /\ index'[r].live => store'[r].live
    /\ r \in DOMAIN scripts' => Fresh(r)'

LEMMA GrownIsFine ==
    ASSUME SInv, NEW r \in Rules, Grown(r),
           r \in DOMAIN scripts' => r \in DOMAIN scripts /\ scripts'[r] = scripts[r]
    PROVE  GrownOrNew(r)
<1>1. /\ store[r].stamp \in Nat /\ store[r].body.since \in Nat /\ index[r].stamp \in Nat
      /\ index[r].body.since \in Nat /\ store[r].body.since <= store[r].stamp
      /\ r \in DOMAIN scripts => Fresh(r)
  BY DEF SInv, Aged, Whole, Sound
<1>2. ASSUME r \in DOMAIN scripts' PROVE Fresh(r)'
  <2>1. /\ index'[r].live /\ scripts'[r].stamp \in Nat
        /\ scripts[r].stamp <= index[r].stamp
        /\ \/ scripts'[r].since = store'[r].body.since
           \/ scripts'[r].stamp < store'[r].body.since
    BY <1>1, <1>2 DEF Grown, Fresh
  <2>2. scripts'[r].stamp <= index'[r].stamp
    BY <1>1, <1>2, <2>1 DEF Grown
  <2> QED
    BY <2>1, <2>2 DEF Fresh
<1> QED
  BY <1>1, <1>2 DEF Grown, GrownOrNew

LEMMA AllGrown ==
    ASSUME SInv, DOMAIN store' = Nodes, DOMAIN index' = Nodes, DOMAIN scripts' \subseteq Rules,
           \A r \in Rules : GrownOrNew(r)
    PROVE  Aged' /\ Sound'
BY DEF Aged, Whole, Sound, GrownOrNew

LEMMA SameGrown ==
    ASSUME SInv, NEW r \in Rules, store'[r] = store[r], index'[r] \in {index[r], store[r]}
    PROVE  Grown(r)
<1>1. /\ store[r].stamp \in Nat /\ index[r].stamp \in Nat /\ index[r].stamp <= store[r].stamp
      /\ {"live", "stamp", "body", "fields"} \subseteq DOMAIN store[r]
      /\ {"live", "stamp", "body", "fields"} \subseteq DOMAIN index[r]
      /\ index[r].live => store[r].live
  BY DEF SInv, Aged, Whole
<1> QED
  BY <1>1 DEF Grown

\* A write of the bot keeps the body and moves the stamp on.
LEMMA WriteGrown ==
    ASSUME SInv, NEW n, NEW changes, NEW r \in Rules,
           \/ /\ store' = [store EXCEPT ![n] = Written(n, changes)]
              /\ index' = [index EXCEPT ![n] = store'[n]]
           \/ Unanswered(n, changes)
    PROVE  Grown(r) /\ DOMAIN store' = Nodes /\ DOMAIN index' = Nodes
<1>1. /\ store[r].stamp \in Nat /\ index[r].stamp \in Nat /\ index[r].stamp <= store[r].stamp
      /\ {"live", "stamp", "body", "fields"} \subseteq DOMAIN store[r]
      /\ {"live", "stamp", "body", "fields"} \subseteq DOMAIN index[r]
      /\ index[r].live => store[r].live
      /\ DOMAIN store = Nodes /\ DOMAIN index = Nodes /\ r \in Nodes
  BY DEF SInv, Aged, Whole, Nodes
<1>2. /\ {"live", "stamp", "body", "fields"} \subseteq DOMAIN Written(r, changes)
      /\ Written(r, changes).stamp = store[r].stamp + 1
      /\ Written(r, changes).body = store[r].body
      /\ Written(r, changes).live = store[r].live
  BY <1>1 DEF Written
<1>3. /\ store' = store \/ store' = [store EXCEPT ![n] = Written(n, changes)]
      /\ \/ index' = index
         \/ /\ index' = [index EXCEPT ![n] = store'[n]]
            /\ store' = [store EXCEPT ![n] = Written(n, changes)]
  BY DEF Unanswered
<1>4. DOMAIN store' = Nodes /\ DOMAIN index' = Nodes
  BY <1>1, <1>3
<1>5. CASE n = r
  <2>1. /\ store'[r] = store[r] \/ store'[r] = Written(r, changes)
        /\ index'[r] = index[r] \/ (index'[r] = store'[r] /\ store'[r] = Written(r, changes))
    BY <1>1, <1>3, <1>5
  <2> QED
    BY <1>1, <1>2, <1>4, <2>1 DEF Grown
<1>6. CASE n # r
  <2>1. store'[r] = store[r] /\ index'[r] = index[r]
    BY <1>1, <1>3, <1>6
  <2> QED
    BY <1>4, <2>1, SameGrown
<1> QED
  BY <1>5, <1>6

-----------------------------------------------------------------------------
(* People and the other calls of the bot. *)

LEMMA JobStays ==
    ASSUME SInv, UNCHANGED <<index, job, scripts>> PROVE JInv'
BY DEF SInv, JInv, Lists, Attaching, Scripted, ScriptRead, RuleOf, Said, Listed

LEMMA JobRests ==
    ASSUME SInv, RInv, Idle, UNCHANGED job PROVE JInv'
<1>1. job.stage = "idle"
  BY DEF RInv, TInv, JobInv, Idle
<1> QED
  BY <1>1 DEF SInv, JInv, Lists, Attaching, Scripted, Listed, Reading

LEMMA JobAfresh ==
    ASSUME \/ job' = NoJob
           \/ \E r \in Rules : \E name : job' = AutoTest(r, name) /\ index'[r].live
           \/ \E kind, ask, on : job' = Loaded(kind, ask, on, index')
    PROVE  JInv'
<1>1. CASE job' = NoJob
  BY <1>1 DEF JInv, NoJob, Lists, Attaching, Scripted, Listed, Reading
<1>2. ASSUME NEW r \in Rules, job' = Testing(r), index'[r].live PROVE JInv'
  <2>1. /\ job'.stage = "test" /\ job'.ask = r /\ job'.bound = {}
        /\ {"ask", "bound", "seen", "requested", "plans"} \subseteq DOMAIN job'
    BY <1>2 DEF Testing, NoJob
  <2> QED
    BY <1>2, <2>1 DEF JInv, Lists, Attaching, Scripted, Listed, Reading
<1>3. ASSUME NEW kind, NEW ask, NEW on, job' = Loaded(kind, ask, on, index') PROVE JInv'
  <2> DEFINE scanned == {r \in Rules :
                 /\ index'[r].live /\ ~IsPaused(index'[r].fields["status"])
                 /\ ~IsUnconfigured(Config[index'[r].fields["config"]])}
             bound == {r \in scanned : Valid(index'[r].fields["config"])}
  <2>1. /\ job'.stage = "attach" /\ job'.seen = [r \in Rules |-> index'[r]]
        /\ job'.bound = bound /\ job'.requested = <<>>
        /\ job'.queue = {r \in bound : Rule(index'[r].fields["config"]).action = "run script"}
        /\ {"ask", "bound", "seen", "requested", "plans"} \subseteq DOMAIN job'
    BY <1>3 DEF Loaded, NoJob
  <2>2. \A r \in Rules : job'.seen[r] = index'[r]
    BY <2>1
  <2>3. \A r \in bound : r \in Rules /\ index'[r].live
    OBVIOUS
  <2> HIDE DEF bound
  <2>4. Attaching'
    BY <2>1, <2>2, <2>3 DEF Attaching
  <2>5. Scripted'
    BY <2>1, <2>2, <2>3 DEF Scripted, RuleOf, Said
  <2> QED
    BY <2>1, <2>3, <2>4, <2>5 DEF JInv, Lists, Listed
<1>4. CASE \E r \in Rules : \E name : job' = AutoTest(r, name) /\ index'[r].live
  <2>1. PICK r \in Rules : \E name : job' = AutoTest(r, name) /\ index'[r].live
    BY <1>4
  <2> QED
    BY <1>1, <1>2, <2>1 DEF AutoTest
<1> QED
  BY <1>1, <1>3, <1>4

LEMMA PeopleRefresh == ASSUME SInv, RInv, People PROVE SInv'
<1>0. DOMAIN store = Nodes /\ Rules \subseteq Nodes /\ Rules \intersect Objects = {}
  BY ConstantsAssumption DEF SInv, Aged, Nodes
<1>1. /\ UNCHANGED <<index, job, scripts>> /\ DOMAIN store' = Nodes
  BY <1>0 DEF People, PersonCreates, PersonSets, PersonWritesScript, engineVars
<1>2. ASSUME NEW r \in Rules, store'[r] = store[r] PROVE GrownOrNew(r)
  BY <1>1, <1>2, SameGrown, GrownIsFine
<1>3. ASSUME NEW n, NEW f, NEW value, PersonSets(n, f, value), NEW r \in Rules
      PROVE  GrownOrNew(r)
  <2>1. store' = [store EXCEPT ![n].fields[f] = value, ![n].stamp = @ + 1]
    BY <1>3 DEF PersonSets
  <2>2. CASE n # r
    BY <1>0, <1>2, <2>1, <2>2
  <2>3. CASE n = r
    <3>1. /\ {"live", "stamp", "body", "fields"} \subseteq DOMAIN store[r]
          /\ store[r].stamp \in Nat /\ index[r].stamp \in Nat
          /\ index[r].stamp <= store[r].stamp
          /\ index[r].live => store[r].live
          /\ {"live", "stamp", "body", "fields"} \subseteq DOMAIN index[r]
      BY DEF SInv, Aged, Whole
    <3>2. /\ {"live", "stamp", "body", "fields"} \subseteq DOMAIN store'[r]
          /\ store'[r].stamp = store[r].stamp + 1 /\ store'[r].body = store[r].body
          /\ store'[r].live = store[r].live
      BY <1>0, <2>1, <2>3, <3>1
    <3>3. Grown(r)
      BY <1>1, <3>1, <3>2 DEF Grown
    <3> QED
      BY <1>1, <3>3, GrownIsFine
  <2> QED
    BY <2>2, <2>3
<1>4. ASSUME NEW o \in Objects, PersonCreates(o), NEW r \in Rules PROVE GrownOrNew(r)
  <2>1. r # o /\ store'[r] = store[r]
    BY <1>0, <1>4 DEF PersonCreates
  <2> QED
    BY <1>2, <2>1
<1>5. ASSUME NEW q \in Rules, PersonWritesScript(q), NEW r \in Rules PROVE GrownOrNew(r)
  <2>1. PICK fence \in BOOLEAN :
          store' = [store EXCEPT
              ![q].body = [fence |-> fence, since |-> store[q].stamp + 1],
              ![q].stamp = @ + 1]
    BY <1>5 DEF PersonWritesScript
  <2>2. CASE q # r
    BY <1>0, <1>2, <2>1, <2>2
  <2>3. CASE q = r
    <3>1. /\ {"live", "stamp", "body", "fields"} \subseteq DOMAIN store[r]
          /\ store[r].stamp \in Nat /\ index[r].stamp \in Nat
          /\ index[r].stamp <= store[r].stamp
          /\ index[r].live => store[r].live
          /\ {"live", "stamp", "body", "fields"} \subseteq DOMAIN index[r]
          /\ index[r].body.since \in Nat
      BY DEF SInv, Aged, Whole
    <3>2. /\ {"live", "stamp", "body", "fields"} \subseteq DOMAIN store'[r]
          /\ store'[r].stamp = store[r].stamp + 1
          /\ store'[r].body = [fence |-> fence, since |-> store[r].stamp + 1]
          /\ store'[r].live = store[r].live
      BY <1>0, <2>1, <2>3, <3>1
    <3>3. store'[r].body.since = store[r].stamp + 1
      BY <3>2
    <3>4. ASSUME r \in DOMAIN scripts PROVE Fresh(r)'
      <4>1. index[r].live /\ scripts[r].stamp \in Nat /\ scripts[r].stamp <= index[r].stamp
        BY <3>4 DEF SInv, Sound, Fresh
      <4>2. scripts[r].stamp < store'[r].body.since
        BY <3>1, <3>3, <4>1
      <4> QED
        BY <1>1, <4>1, <4>2 DEF Fresh
    <3> QED
      BY <1>1, <3>1, <3>2, <3>3, <3>4 DEF GrownOrNew
  <2> QED
    BY <2>2, <2>3
<1>6. \A r \in Rules : GrownOrNew(r)
  BY <1>3, <1>4, <1>5 DEF People
<1>7. JInv'
  BY <1>1, JobStays
<1>8. DOMAIN index' = Nodes /\ DOMAIN scripts' \subseteq Rules
  BY <1>1 DEF SInv, Aged, Sound
<1> QED
  BY <1>1, <1>6, <1>7, <1>8, AllGrown DEF SInv

\* The scripts stay, and the bot writes an object, or takes the index anew.
LEMMA WriteRefresh ==
    ASSUME SInv, UNCHANGED scripts, JInv', NEW n, NEW changes,
           \/ /\ store' = [store EXCEPT ![n] = Written(n, changes)]
              /\ index' = [index EXCEPT ![n] = store'[n]]
           \/ Unanswered(n, changes)
    PROVE  SInv'
<1>1. ASSUME NEW r \in Rules PROVE GrownOrNew(r)
  BY WriteGrown, GrownIsFine
<1>2. DOMAIN store' = Nodes /\ DOMAIN index' = Nodes
  <2>1. DOMAIN store = Nodes /\ DOMAIN index = Nodes
    BY DEF SInv, Aged
  <2> QED
    BY <2>1 DEF Unanswered
<1> QED
  BY <1>1, <1>2, AllGrown DEF SInv, Sound

LEMMA CopyRefresh ==
    ASSUME SInv, UNCHANGED store, index' = store \/ index' = index, JInv',
           DOMAIN scripts' \subseteq DOMAIN scripts,
           \A r \in DOMAIN scripts' : scripts'[r] = scripts[r]
    PROVE  SInv'
<1>1. ASSUME NEW r \in Rules PROVE GrownOrNew(r)
  BY SameGrown, GrownIsFine
<1>2. DOMAIN store' = Nodes /\ DOMAIN index' = Nodes /\ DOMAIN scripts' \subseteq Rules
  BY DEF SInv, Aged, Sound
<1> QED
  BY <1>1, <1>2, AllGrown DEF SInv

LEMMA CopiesRefresh ==
    ASSUME SInv, RInv, Resync \/ Restart \/ StartTick \/ Command PROVE SInv'
<1>1. CASE Resync
  BY <1>1, JobRests, CopyRefresh DEF Resync
<1>2. CASE Restart
  <2>1. DOMAIN scripts' = {} /\ UNCHANGED store /\ index' = store /\ job' = NoJob
    BY <1>2 DEF Restart, NoChanges
  <2> QED
    BY <2>1, JobAfresh, CopyRefresh
<1>3. CASE StartTick
  <2>1. index' = store /\ job' = Loaded("tick", 0, 0, index') /\ UNCHANGED <<store, scripts>>
    BY <1>3 DEF StartTick
  <2> QED
    BY <2>1, JobAfresh, CopyRefresh
<1>4. CASE Command
  <2>1. PICK r \in Rules, on \in {0} \union Objects : StartRun(r, on)
    BY <1>4 DEF Command
  <2>2. /\ job' = NoJob \/ job' = Loaded("run", r, on, index')
        /\ index' = store \/ index' = index
        /\ UNCHANGED <<store, scripts>>
    BY <2>1 DEF StartRun
  <2> QED
    BY <2>2, JobAfresh, CopyRefresh
<1> QED
  BY <1>1, <1>2, <1>3, <1>4

LEMMA TurnsRefresh == ASSUME SInv, RInv, Turns PROVE SInv'
<1>0. /\ DOMAIN store = Nodes /\ DOMAIN index = Nodes /\ Rules \subseteq Nodes
      /\ DOMAIN scripts \subseteq Rules
  BY DEF SInv, Aged, Sound, Nodes
<1>1. CASE Command
  BY <1>1, CopiesRefresh
<1>2. ASSUME NEW o, NEW f, NEW v, TurnWrites(o, f, v) PROVE SInv'
  <2> DEFINE changes == [g \in {f} |-> v]
  <2>1. /\ store' = [store EXCEPT ![o] = Written(o, changes)]
        /\ index' = [index EXCEPT ![o] = store'[o]]
        /\ UNCHANGED <<scripts, job>> /\ Idle
    BY <1>2 DEF TurnWrites
  <2>2. JInv'
    BY <2>1, JobRests
  <2> HIDE DEF changes
  <2> QED
    BY <2>1, <2>2, WriteRefresh
<1>3. ASSUME NEW r \in Rules, Test(r) PROVE SInv'
  BY <1>3, JobAfresh, CopyRefresh DEF Test
<1>4. ASSUME NEW r, NEW paused \in BOOLEAN, SetPaused(r, paused) PROVE SInv'
  <2> DEFINE changes == IF paused THEN [f \in {"status"} |-> "Paused"]
                        ELSE [f \in {"status", "error"} |->
                                 IF f = "status" THEN "Active" ELSE ""]
  <2>1. /\ \/ /\ store' = [store EXCEPT ![r] = Written(r, changes)]
              /\ index' = [index EXCEPT ![r] = store'[r]]
           \/ Unanswered(r, changes)
        /\ UNCHANGED <<scripts, job>> /\ Idle
    BY <1>4 DEF SetPaused
  <2>2. JInv'
    BY <2>1, JobRests
  <2> HIDE DEF changes
  <2> QED
    BY <2>1, <2>2, WriteRefresh
<1>5. ASSUME NEW r \in Rules, NEW name, Create(r, name) PROVE SInv'
  <2> DEFINE new == Saved(name, "Active")
  <2>1. /\ {"live", "stamp", "body", "fields"} \subseteq DOMAIN new
        /\ new.live = TRUE /\ new.stamp = 1 /\ new.body.since = 1
    BY DEF Saved
  <2> HIDE DEF new
  <2>2. /\ store' = [store EXCEPT ![r] = new]
        /\ index' = [index EXCEPT ![r] = store'[r]]
        /\ job' = AutoTest(r, name) /\ scripts' = scripts /\ ~store[r].live
    BY <1>5 DEF Create, new
  <2>3. store'[r] = new /\ index'[r] = new
    BY <1>0, <2>2
  <2>4. r \notin DOMAIN scripts
    BY <2>2 DEF SInv, Sound, Fresh, Aged
  <2>5. GrownOrNew(r)
    BY <2>1, <2>2, <2>3, <2>4 DEF GrownOrNew
  <2>6. ASSUME NEW q \in Rules, q # r PROVE GrownOrNew(q)
    <3>1. store'[q] = store[q] /\ index'[q] = index[q]
      BY <1>0, <2>2, <2>6
    <3> QED
      BY <2>2, <3>1, SameGrown, GrownIsFine
  <2>7. JInv'
    BY <2>1, <2>2, <2>3, JobAfresh
  <2>8. DOMAIN store' = Nodes /\ DOMAIN index' = Nodes
    BY <1>0, <2>2
  <2> QED
    BY <1>0, <2>2, <2>5, <2>6, <2>7, <2>8, AllGrown DEF SInv
<1>6. ASSUME NEW r \in Rules, NEW name, Update(r, name) PROVE SInv'
  <2> DEFINE now == Written(r, [f \in {"config"} |-> name])
             script == Rule(name).action = "run script"
             new == IF script THEN [now EXCEPT !.body = [fence |-> TRUE, since |-> now.stamp]]
                    ELSE now
  <2>0. /\ {"live", "stamp", "body", "fields"} \subseteq DOMAIN store[r]
        /\ store[r].stamp \in Nat /\ store[r].body.since \in Nat
        /\ index[r].stamp \in Nat /\ index[r].stamp <= store[r].stamp
        /\ store[r].body.since <= store[r].stamp
        /\ index[r].live => store[r].live
    BY DEF SInv, Aged, Whole
  <2>1. /\ {"live", "stamp", "body", "fields"} \subseteq DOMAIN now
        /\ now.stamp = store[r].stamp + 1 /\ now.body = store[r].body
        /\ now.live = store[r].live
    BY <2>0 DEF Written
  <2>2. /\ store' = [store EXCEPT ![r] = new]
        /\ index' = [index EXCEPT ![r] = store'[r]]
        /\ job' = AutoTest(r, name) /\ index[r].live
        /\ scripts' = IF script THEN Restrict(scripts, DOMAIN scripts \ {r}) ELSE scripts
    BY <1>6 DEF Update
  <2> HIDE DEF now
  <2>3. /\ {"live", "stamp", "body", "fields"} \subseteq DOMAIN new
        /\ new.stamp = store[r].stamp + 1 /\ new.live = store[r].live
    BY <2>1
  <2>4. /\ DOMAIN scripts' \subseteq DOMAIN scripts
        /\ \A q \in DOMAIN scripts' : scripts'[q] = scripts[q]
    BY <2>2 DEF Restrict
  <2>5. \/ new.body.since = store[r].stamp + 1 /\ r \notin DOMAIN scripts'
        \/ new.body = store[r].body
    BY <2>1, <2>2 DEF Restrict
  <2> HIDE DEF new
  <2>6. store'[r] = new /\ index'[r] = new
    BY <1>0, <2>2
  <2>7. GrownOrNew(r)
    <3>1. CASE new.body.since = store[r].stamp + 1 /\ r \notin DOMAIN scripts'
      <4>1. new.stamp \in Nat /\ new.body.since \in Nat /\ new.body.since <= new.stamp
        BY <2>0, <2>3, <3>1
      <4> QED
        BY <2>3, <2>6, <3>1, <4>1 DEF GrownOrNew
    <3>2. CASE new.body = store[r].body
      <4>1. new.stamp \in Nat /\ new.stamp >= store[r].stamp /\ new.stamp >= index[r].stamp
        BY <2>0, <2>3
      <4>2. store'[r].body = store[r].body /\ index'[r].body = store[r].body
        BY <2>6, <3>2
      <4>3. Grown(r)
        BY <2>0, <2>3, <2>6, <4>1, <4>2 DEF Grown
      <4> QED
        BY <2>4, <4>3, GrownIsFine
    <3> QED
      BY <2>5, <3>1, <3>2
  <2>8. ASSUME NEW q \in Rules, q # r PROVE GrownOrNew(q)
    <3>1. store'[q] = store[q] /\ index'[q] = index[q]
      BY <1>0, <2>2, <2>8
    <3> QED
      BY <2>4, <3>1, SameGrown, GrownIsFine
  <2>9. JInv'
    BY <2>0, <2>2, <2>3, <2>6, JobAfresh
  <2>10. DOMAIN store' = Nodes /\ DOMAIN index' = Nodes /\ DOMAIN scripts' \subseteq Rules
    BY <1>0, <2>2, <2>4
  <2> QED
    BY <2>7, <2>8, <2>9, <2>10, AllGrown DEF SInv
<1> QED
  BY <1>1, <1>2, <1>3, <1>4, <1>5, <1>6 DEF Turns

-----------------------------------------------------------------------------
(* The steps of a job. *)

\* A script is read, dropped, or left as it is.
LEMMA ScriptsRefresh ==
    ASSUME SInv, UNCHANGED <<store, index>>, NEW r \in Rules, index[r].live,
           \/ scripts' = scripts
           \/ scripts' = Restrict(scripts, DOMAIN scripts \ {r})
           \/ scripts' = [q \in DOMAIN scripts \union {r} |->
                 IF q = r THEN [stamp |-> index[r].stamp, since |-> store[r].body.since]
                 ELSE scripts[q]]
    PROVE  /\ Aged' /\ Sound'
           /\ \A q \in Rules \ {r} : /\ q \in DOMAIN scripts' <=> q \in DOMAIN scripts
                                     /\ q \in DOMAIN scripts => scripts'[q] = scripts[q]
<1>1. DOMAIN scripts \subseteq Rules
  BY DEF SInv, Sound
<1>2. \A q \in Rules \ {r} : /\ q \in DOMAIN scripts' <=> q \in DOMAIN scripts
                             /\ q \in DOMAIN scripts => scripts'[q] = scripts[q]
  BY DEF Restrict
<1>3. DOMAIN scripts' \subseteq Rules
  BY <1>1 DEF Restrict
<1>4. ASSUME NEW q \in Rules, q # r PROVE GrownOrNew(q)
  BY <1>2, <1>4, SameGrown, GrownIsFine
<1>5. GrownOrNew(r)
  <2>1. CASE r \in DOMAIN scripts' => r \in DOMAIN scripts /\ scripts'[r] = scripts[r]
    BY <2>1, SameGrown, GrownIsFine
  <2>2. CASE scripts' = [q \in DOMAIN scripts \union {r} |->
                 IF q = r THEN [stamp |-> index[r].stamp, since |-> store[r].body.since]
                 ELSE scripts[q]]
    <3>1. scripts'[r].stamp = index[r].stamp /\ scripts'[r].since = store[r].body.since
      BY <2>2
    <3>2. /\ {"live", "stamp", "body", "fields"} \subseteq DOMAIN store[r]
          /\ {"live", "stamp", "body", "fields"} \subseteq DOMAIN index[r]
          /\ store[r].stamp \in Nat /\ store[r].body.since \in Nat
          /\ index[r].stamp \in Nat /\ index[r].body.since \in Nat
          /\ index[r].stamp <= store[r].stamp
          /\ store[r].body.since <= store[r].stamp
          /\ index[r].live => store[r].live
      BY DEF SInv, Aged, Whole
    <3>3. Fresh(r)'
      BY <3>1, <3>2 DEF Fresh
    <3> QED
      BY <3>2, <3>3 DEF GrownOrNew
  <2> QED
    BY <2>1, <2>2 DEF Restrict
<1>6. DOMAIN store' = Nodes /\ DOMAIN index' = Nodes
  BY DEF SInv, Aged
<1> QED
  BY <1>2, <1>3, <1>4, <1>5, <1>6, AllGrown

LEMMA AttachRefresh == ASSUME SInv, RInv, Attach PROVE SInv'
<1>r. PICK r : r = Min(job.queue)
  OBVIOUS
<1>1. r \in job.queue /\ r \in Rules /\ index[r].live
  <2>1. job.queue \subseteq Rules /\ job.queue # {} /\ \A q \in job.queue : index[q].live
    BY DEF Attach, SInv, JInv, Attaching
  <2> QED
    BY <1>r, <2>1, MinInSet, ConstantsAssumption
<1>2. /\ job.stage = "attach" /\ UNCHANGED <<store, index>>
      /\ job.bound \subseteq Rules /\ job.requested = <<>>
      /\ {"ask", "bound", "seen", "requested", "plans"} \subseteq DOMAIN job
      /\ \A q \in Rules : job.seen[q].stamp = index[q].stamp
      /\ \A q \in job.queue : q \in Rules /\ index[q].live
  BY DEF Attach, SInv, JInv, Lists, Listed, Attaching
<1>3. \/ /\ job' = [job EXCEPT !.queue = @ \ {r}]
         /\ \/ r \in DOMAIN scripts /\ scripts[r].stamp = index[r].stamp /\ scripts' = scripts
            \/ scripts' = [q \in DOMAIN scripts \union {r} |->
                  IF q = r THEN [stamp |-> index[r].stamp, since |-> store[r].body.since]
                  ELSE scripts[q]]
      \/ /\ job' = [[job EXCEPT !.queue = @ \ {r}] EXCEPT !.bound = @ \ {r},
                                                         !.broken = @ \union {r}]
         /\ scripts' = scripts \/ scripts' = Restrict(scripts, DOMAIN scripts \ {r})
  BY <1>r DEF Attach, ReadScript, Cached
<1>4. /\ Aged' /\ Sound'
      /\ \A q \in Rules \ {r} : /\ q \in DOMAIN scripts' <=> q \in DOMAIN scripts
                                /\ q \in DOMAIN scripts => scripts'[q] = scripts[q]
  BY <1>1, <1>2, <1>3, ScriptsRefresh
<1>5. /\ job'.stage = "attach" /\ job'.queue \subseteq job.queue
      /\ job.queue \ {r} \subseteq job'.queue
      /\ job'.bound \subseteq job.bound /\ job'.seen = job.seen /\ job'.requested = <<>>
      /\ {"ask", "bound", "seen", "requested", "plans"} \subseteq DOMAIN job'
  <2>1. {"stage", "queue"} \subseteq DOMAIN job
    BY DEF RInv, TInv, JobInv, IsJob
  <2> QED
    BY <1>2, <1>3, <2>1
<1>6. r \in job'.bound => r \in DOMAIN scripts' /\ scripts'[r].stamp = job.seen[r].stamp
  <2>1. \/ r \in DOMAIN scripts /\ scripts[r].stamp = index[r].stamp /\ scripts' = scripts
        \/ scripts' = [q \in DOMAIN scripts \union {r} |->
               IF q = r THEN [stamp |-> index[r].stamp, since |-> store[r].body.since]
               ELSE scripts[q]]
        \/ job'.bound = job.bound \ {r}
    BY <1>2, <1>3
  <2>2. job.seen[r].stamp = index[r].stamp
    BY <1>1, <1>2
  <2> QED
    BY <2>1, <2>2
<1>7. Scripted'
  <2> SUFFICES ASSUME NEW q \in job'.bound, (RuleOf(q).action = "run script")'
               PROVE  ScriptRead(q)' \/ q \in job'.queue
    BY <1>5 DEF Scripted
  <2>1. RuleOf(q).action = "run script" /\ q \in job.bound /\ q \in Rules
    BY <1>2, <1>5 DEF RuleOf, Said
  <2>2. ScriptRead(q) \/ q \in job.queue
    BY <1>2, <2>1 DEF SInv, JInv, Scripted, Reading
  <2>3. CASE q = r
    BY <1>5, <1>6, <2>3 DEF ScriptRead
  <2>4. CASE q # r
    BY <1>4, <1>5, <2>1, <2>2, <2>4 DEF ScriptRead
  <2> QED
    BY <2>3, <2>4
<1>8. Attaching' /\ Listed' /\ Lists'
  BY <1>2, <1>5 DEF Attaching, Listed, Lists
<1> QED
  BY <1>4, <1>7, <1>8 DEF SInv, JInv

LEMMA DryRunRefresh == ASSUME SInv, DryRun PROVE SInv'
<1>1. /\ job.ask \in Rules /\ index[job.ask].live /\ UNCHANGED <<store, index>>
      /\ job' = NoJob
  BY DEF DryRun, ReadScript, SInv, JInv, Lists
<1>2. PICK r \in Rules : r = job.ask
  BY <1>1
<1>3. \/ scripts' = scripts
      \/ scripts' = Restrict(scripts, DOMAIN scripts \ {r})
      \/ scripts' = [q \in DOMAIN scripts \union {r} |->
            IF q = r THEN [stamp |-> index[r].stamp, since |-> store[r].body.since]
            ELSE scripts[q]]
  BY <1>2 DEF DryRun, ReadScript
<1>4. Aged' /\ Sound'
  BY <1>1, <1>2, <1>3, ScriptsRefresh
<1> QED
  BY <1>1, <1>4, JobAfresh DEF SInv

\* A job past the attaching reads no stamp and no script again.
LEMMA JobGoesOn ==
    ASSUME SInv, UNCHANGED scripts, job.stage \in Reading \ {"attach"},
           job'.stage \in {"claim", "refuse", "act", "write", "book"},
           {"ask", "bound", "seen", "requested", "plans"} \subseteq DOMAIN job',
           job'.bound = job.bound, job'.seen = job.seen, Listed'
    PROVE  JInv'
<1>1. Scripted'
  <2> SUFFICES ASSUME NEW q \in job.bound, (RuleOf(q).action = "run script")'
               PROVE  ScriptRead(q)'
    BY DEF Scripted
  <2>1. RuleOf(q).action = "run script"
    BY DEF RuleOf, Said
  <2>2. ScriptRead(q)
    BY <2>1 DEF SInv, JInv, Scripted
  <2> QED
    BY <2>2 DEF ScriptRead
<1>2. Lists' /\ Attaching'
  BY DEF SInv, JInv, Lists, Attaching
<1> QED
  BY <1>1, <1>2 DEF JInv

\* The object a request or a run acts on.
LEMMA FirstObject ==
    /\ Live # {} => Min(Live) \in Nat
    /\ Triggers # {} => Max(Triggers) \in Nat
<1>1. Live \subseteq Objects /\ Triggers \subseteq Objects
  BY DEF Live, Triggers
<1>2. Objects \subseteq Nat /\ IsFiniteSet(Objects)
  BY ConstantsAssumption
<1>3. IsFiniteSet(Triggers) /\ Live \in SUBSET Nat /\ Triggers \in SUBSET Nat
  BY <1>1, <1>2, FS_Subset
<1> QED
  BY <1>3, MinInSet, MaxInSet

LEMMA ListOfOne == ASSUME NEW S, NEW x \in S PROVE <<x>> \in Seq(S)
OBVIOUS

LEMMA AttachedRefresh == ASSUME SInv, HInv, RInv, Attached PROVE SInv'
<1>0. /\ {"ask", "bound", "seen", "requested", "plans"} \subseteq DOMAIN job
      /\ {"stage", "queue"} \subseteq DOMAIN job
      /\ job.bound \subseteq Rules /\ job.stage = "attach" /\ job.requested = <<>>
      /\ UNCHANGED <<store, index>> /\ job.queue = {}
  BY DEF Attached, SInv, JInv, Lists, Listed, RInv, TInv, JobInv, IsJob
<1> DEFINE kept == {r \in DOMAIN scripts :
                /\ r \in job.bound \union job.broken
                /\ Valid(Said(r, "config"))
                /\ RuleOf(r).action = "run script"}
<1>1. scripts' = Restrict(scripts, kept)
  BY DEF Attached
<1>2. DOMAIN scripts' = kept /\ \A r \in kept : scripts'[r] = scripts[r]
  BY <1>1 DEF Restrict
<1>3. \/ job' = NoJob
      \/ \E queue : job' = [job EXCEPT !.stage = "claim", !.queue = queue]
      \/ /\ job.ask \in job.bound /\ Max(Triggers) \in Nat
         /\ job' = [job EXCEPT !.stage = "act",
                      !.plans = <<Fire(job.ask, Max(Triggers), FALSE)>>]
  BY FirstObject DEF Attached
<1>4. ASSUME NEW r \in job.bound, RuleOf(r).action = "run script"
      PROVE  r \in kept /\ scripts'[r].stamp = job.seen[r].stamp
  <2>1. ScriptRead(r)
    BY <1>0, <1>4 DEF SInv, JInv, Scripted, Reading
  <2>2. Valid(Said(r, "config"))
    BY DEF HInv, Bound
  <2> QED
    BY <1>2, <1>4, <2>1, <2>2 DEF ScriptRead
<1> HIDE DEF kept
<1>5. ASSUME job' = NoJob PROVE JInv'
  BY <1>5, JobAfresh
<1>6. ASSUME job'.bound = job.bound, job'.seen = job.seen, job'.stage \in {"claim", "act"},
             {"ask", "bound", "seen", "requested", "plans"} \subseteq DOMAIN job', Listed'
      PROVE  JInv'
  <2>1. Scripted'
    <3> SUFFICES ASSUME NEW q \in job.bound, (RuleOf(q).action = "run script")'
                 PROVE  ScriptRead(q)'
      BY <1>6 DEF Scripted
    <3>1. RuleOf(q).action = "run script"
      BY <1>6 DEF RuleOf, Said
    <3> QED
      BY <1>2, <1>4, <1>6, <3>1 DEF ScriptRead
  <2> QED
    BY <1>0, <1>6, <2>1 DEF JInv, Lists, Attaching
<1>7. ASSUME \E queue : job' = [job EXCEPT !.stage = "claim", !.queue = queue]
      PROVE  JInv'
  <2>1. /\ job'.bound = job.bound /\ job'.seen = job.seen /\ job'.stage = "claim"
        /\ job'.requested = <<>>
        /\ {"ask", "bound", "seen", "requested", "plans"} \subseteq DOMAIN job'
    BY <1>0, <1>7
  <2>2. Listed'
    BY <2>1, EmptySeq DEF Listed
  <2> QED
    BY <1>6, <2>1, <2>2
<1>8. ASSUME job.ask \in job.bound, Max(Triggers) \in Nat,
             job' = [job EXCEPT !.stage = "act",
                       !.plans = <<Fire(job.ask, Max(Triggers), FALSE)>>]
      PROVE  JInv'
  <2>1. PICK o \in Nat : o = Max(Triggers)
    BY <1>8
  <2>2. Fire(job.ask, o, FALSE) \in FiresOf(job.bound)
    BY <1>8 DEF Fire, FiresOf
  <2>3. <<Fire(job.ask, o, FALSE)>> \in Seq(FiresOf(job.bound))
    BY <2>2, ListOfOne
  <2>4. /\ job'.bound = job.bound /\ job'.seen = job.seen /\ job'.stage = "act"
        /\ job'.plans = <<Fire(job.ask, o, FALSE)>>
        /\ {"ask", "bound", "seen", "requested", "plans"} \subseteq DOMAIN job'
    BY <1>0, <1>8, <2>1
  <2>5. Listed'
    BY <2>3, <2>4 DEF Listed
  <2> QED
    BY <1>6, <2>4, <2>5
<1>9. JInv'
  BY <1>3, <1>5, <1>7, <1>8
<1>10. DOMAIN scripts' \subseteq DOMAIN scripts /\ \A r \in DOMAIN scripts' : scripts'[r] = scripts[r]
  BY <1>2 DEF kept
<1> QED
  BY <1>0, <1>9, <1>10, CopyRefresh

LEMMA ChosenAlive == ASSUME NEW r PROVE Chosen(r) \subseteq Objects
<1>1. Matches(r) \subseteq Objects
  BY DEF Matches, Live
<1>2. Objects \subseteq Nat /\ IsFiniteSet(Objects)
  BY ConstantsAssumption
<1>3. Matches(r) \in SUBSET Nat /\ IsFiniteSet(Matches(r))
  BY <1>1, <1>2, FS_Subset
<1> QED
  BY <1>1, <1>3, MaxInSet DEF Chosen

\* A tick has finitely many pairs to fire, and each fires a rule that binds.
LEMMA PairsToFire ==
    ASSUME Lists
    PROVE  Transitions \subseteq FiresOf(job.bound) /\ Cardinality(Transitions) \in Nat
<1>1. /\ job.bound \subseteq Rules /\ Objects \subseteq Nat
      /\ IsFiniteSet(Rules) /\ IsFiniteSet(Objects)
  BY ConstantsAssumption DEF Lists
<1>2. ASSUME NEW f \in Transitions
      PROVE  \E r \in job.bound : \E o \in Objects : f = Fire(r, o, TRUE)
  <2>1. PICK r \in job.bound : \E o \in Chosen(r) : f = Fire(r, o, TRUE)
    BY DEF Transitions
  <2> QED
    BY <2>1, ChosenAlive
<1>3. Transitions \subseteq FiresOf(job.bound)
  <2> SUFFICES ASSUME NEW f \in Transitions PROVE f \in FiresOf(job.bound)
    OBVIOUS
  <2>1. PICK r \in job.bound : \E o \in Objects : f = Fire(r, o, TRUE)
    BY <1>2
  <2>2. PICK o \in Nat : f = Fire(r, o, TRUE)
    BY <1>1, <2>1
  <2> QED
    BY <2>2 DEF Fire, FiresOf
<1>4. IsFiniteSet(Transitions)
  <2> DEFINE P == {p \in Rules \X Objects : Fire(p[1], p[2], TRUE) \in Transitions}
             g == [p \in P |-> Fire(p[1], p[2], TRUE)]
  <2>1. IsFiniteSet(P)
    <3>1. IsFiniteSet(Rules \X Objects)
      BY <1>1, FS_Product
    <3>2. P \in SUBSET (Rules \X Objects)
      OBVIOUS
    <3> HIDE DEF P
    <3> QED
      BY <3>1, <3>2, FS_Subset
  <2>2. g \in [P -> Transitions]
    OBVIOUS
  <2>3. \A f \in Transitions : \E p \in P : g[p] = f
    <3> SUFFICES ASSUME NEW f \in Transitions PROVE \E p \in P : g[p] = f
      OBVIOUS
    <3>1. PICK r \in job.bound : \E o \in Objects : f = Fire(r, o, TRUE)
      BY <1>2
    <3>2. PICK o \in Objects : f = Fire(r, o, TRUE)
      BY <3>1
    <3>3. <<r, o>> \in P
      BY <1>1, <3>2
    <3>4. g[<<r, o>>] = f
      BY <3>2, <3>3
    <3> QED
      BY <3>3, <3>4
  <2>4. g \in Surjection(P, Transitions)
    <3> HIDE DEF g, P
    <3> QED
      BY <2>2, <2>3 DEF Surjection
  <2> HIDE DEF g, P
  <2> QED
    BY <2>1, <2>4, FS_Surjection
<1> QED
  BY <1>3, <1>4, FS_CardinalityType

LEMMA PlanRefresh == ASSUME SInv, RInv, Plan PROVE SInv'
<1>1. /\ Lists /\ job.stage = "claim" /\ UNCHANGED <<store, index, scripts>>
      /\ job.requested \in Seq(FiresOf(job.bound))
      /\ {"ask", "bound", "seen", "requested", "plans"} \subseteq DOMAIN job
  BY DEF Plan, SInv, JInv, Lists, Listed
<1>2. PICK fires \in Fires :
          job' = [job EXCEPT !.stage = "act", !.plans = fires \o job.requested]
  BY DEF Plan
<1>3. fires \in Seq(Transitions)
  <2>1. fires \in [1..Cardinality(Transitions) -> Transitions]
    BY DEF Fires
  <2> QED
    BY <1>1, <2>1, PairsToFire
<1>4. fires \in Seq(FiresOf(job.bound))
  BY <1>1, <1>3, PairsToFire, SeqMonotonic
<1>5. fires \o job.requested \in Seq(FiresOf(job.bound))
  BY <1>1, <1>4, ConcatProperties
<1>6. "stage" \in DOMAIN job
  BY DEF RInv, TInv, JobInv, IsJob
<1>7. /\ job'.stage \in {"act"} /\ job'.bound = job.bound /\ job'.seen = job.seen
      /\ job'.plans = fires \o job.requested
      /\ {"ask", "bound", "seen", "requested", "plans"} \subseteq DOMAIN job'
  BY <1>1, <1>2, <1>6
<1>8. Listed'
  BY <1>5, <1>7 DEF Listed
<1>9. JInv'
  BY <1>1, <1>7, <1>8, JobGoesOn DEF Reading
<1> QED
  BY <1>1, <1>9, CopyRefresh

LEMMA DoneList ==
    ASSUME NEW j, NEW ok, {"ask", "bound", "seen", "requested", "plans"} \subseteq DOMAIN j
    PROVE  LET done == Done(j, ok) IN
           /\ done.bound = j.bound /\ done.seen = j.seen
           /\ done.plans = Tail(j.plans)
           /\ {"ask", "bound", "seen", "requested", "plans"} \subseteq DOMAIN done
           /\ "stage" \in DOMAIN j => done.stage = "act"
BY DEF Done

\* A plan is taken off the list while it lasts; Tail needs it to.
LEMMA RestListed ==
    ASSUME NEW S, NEW list \in Seq(S), list # <<>> PROVE Tail(list) \in Seq(S)
BY HeadTailProperties

LEMMA ActRefresh == ASSUME SInv, RInv, Act PROVE SInv'
<1>0. /\ {"ask", "bound", "seen", "requested", "plans"} \subseteq DOMAIN job
      /\ "stage" \in DOMAIN job
      /\ job.stage = "act" /\ UNCHANGED <<store, index, scripts>> /\ job.plans # <<>>
      /\ job.plans \in Seq(FiresOf(job.bound))
  BY DEF Act, SInv, JInv, Lists, Listed, RInv, TInv, JobInv, IsJob
<1>1. \/ \E ok : job' = Done(job, ok)
      \/ \E writes : job' = [job EXCEPT !.stage = "write", !.writes = writes]
  BY DEF Act
<1>2. /\ {"ask", "bound", "seen", "requested", "plans"} \subseteq DOMAIN job'
      /\ job'.bound = job.bound /\ job'.seen = job.seen
      /\ \/ job'.stage = "act" /\ job'.plans = Tail(job.plans)
         \/ job'.stage = "write" /\ job'.plans = job.plans
  <2>1. CASE \E ok : job' = Done(job, ok)
    <3>1. PICK ok : job' = Done(job, ok)
      BY <2>1
    <3> QED
      BY <1>0, <3>1, DoneList
  <2>2. CASE \E writes : job' = [job EXCEPT !.stage = "write", !.writes = writes]
    BY <1>0, <2>2
  <2> QED
    BY <1>1, <2>1, <2>2
<1>3. Tail(job.plans) \in Seq(FiresOf(job.bound))
  BY <1>0, RestListed
<1>4. Listed'
  BY <1>0, <1>2, <1>3 DEF Listed
<1>5. JInv'
  BY <1>0, <1>2, <1>4, JobGoesOn DEF Reading
<1> QED
  BY <1>0, <1>5, CopyRefresh

LEMMA WriteFieldRefresh == ASSUME SInv, RInv, WriteField PROVE SInv'
<1>0. /\ {"ask", "bound", "seen", "requested", "plans"} \subseteq DOMAIN job
      /\ {"stage", "writes"} \subseteq DOMAIN job
      /\ job.stage = "write" /\ UNCHANGED scripts /\ job.plans # <<>>
      /\ job.plans \in Seq(FiresOf(job.bound))
  BY DEF WriteField, SInv, JInv, Lists, Listed, RInv, TInv, JobInv, IsJob
<1>1. PICK n, changes : Answered(n, changes) \/ Unanswered(n, changes)
  BY DEF WriteField
<1>2. \/ \E j \in {job, [job EXCEPT !.writes = Tail(@)]} : \E ok : job' = Done(j, ok)
      \/ job' = [job EXCEPT !.writes = Tail(@)]
  BY DEF WriteField
<1>3. /\ {"ask", "bound", "seen", "requested", "plans"} \subseteq DOMAIN job'
      /\ job'.bound = job.bound /\ job'.seen = job.seen
      /\ \/ job'.stage = "act" /\ job'.plans = Tail(job.plans)
         \/ job'.stage = "write" /\ job'.plans = job.plans
  <2>1. CASE job' = [job EXCEPT !.writes = Tail(@)]
    BY <1>0, <2>1
  <2>2. CASE \E j \in {job, [job EXCEPT !.writes = Tail(@)]} : \E ok : job' = Done(j, ok)
    <3>1. PICK j \in {job, [job EXCEPT !.writes = Tail(@)]} : \E ok : job' = Done(j, ok)
      BY <2>2
    <3>2. /\ {"ask", "bound", "seen", "requested", "plans"} \subseteq DOMAIN j
          /\ "stage" \in DOMAIN j
          /\ j.bound = job.bound /\ j.seen = job.seen /\ j.plans = job.plans
      BY <1>0, <3>1
    <3>3. PICK ok : job' = Done(j, ok)
      BY <3>1
    <3>4. /\ job'.bound = j.bound /\ job'.seen = j.seen
          /\ job'.plans = Tail(j.plans) /\ job'.stage = "act"
          /\ {"ask", "bound", "seen", "requested", "plans"} \subseteq DOMAIN job'
      BY <3>2, <3>3, DoneList
    <3> QED
      BY <3>2, <3>4
  <2> QED
    BY <1>2, <2>1, <2>2
<1>4. Tail(job.plans) \in Seq(FiresOf(job.bound))
  BY <1>0, RestListed
<1>5. Listed'
  BY <1>0, <1>3, <1>4 DEF Listed
<1>6. JInv'
  BY <1>0, <1>3, <1>5, JobGoesOn DEF Reading
<1> QED
  BY <1>0, <1>1, <1>6, WriteRefresh DEF Answered

LEMMA ClaimRefresh == ASSUME SInv, RInv, Claim PROVE SInv'
<1>0. /\ {"ask", "bound", "seen", "requested", "plans"} \subseteq DOMAIN job
      /\ {"stage", "queue"} \subseteq DOMAIN job
      /\ job.stage = "claim" /\ UNCHANGED scripts
      /\ job.requested \in Seq(FiresOf(job.bound))
  BY DEF Claim, SInv, JInv, Lists, Listed, RInv, TInv, JobInv, IsJob
<1>1. PICK r : r = Min(job.queue)
  OBVIOUS
<1>2. Answered(r, Untick) \/ Unanswered(r, Untick)
  BY <1>1 DEF Claim
<1>3. \/ /\ r \in job.bound /\ Live # {}
         /\ job' = [job EXCEPT !.queue = @ \ {r},
                      !.requested = Append(@, Fire(r, Min(Live), FALSE))]
      \/ \E why : job' = [job EXCEPT !.stage = "refuse", !.why = why]
      \/ job' = [job EXCEPT !.queue = @ \ {r}]
  BY <1>1 DEF Claim
<1>4. PICK fire : r \in job.bound /\ Live # {} => fire \in FiresOf(job.bound)
                                                   /\ fire = Fire(r, Min(Live), FALSE)
  <2>1. r \in job.bound /\ Live # {} => Fire(r, Min(Live), FALSE) \in FiresOf(job.bound)
    BY FirstObject DEF Fire, FiresOf
  <2> QED
    BY <2>1
<1>5. \/ /\ fire \in FiresOf(job.bound)
         /\ job' = [job EXCEPT !.queue = @ \ {r}, !.requested = Append(@, fire)]
      \/ \E why : job' = [job EXCEPT !.stage = "refuse", !.why = why]
      \/ job' = [job EXCEPT !.queue = @ \ {r}]
  BY <1>3, <1>4
<1>6. /\ {"ask", "bound", "seen", "requested", "plans"} \subseteq DOMAIN job'
      /\ job'.bound = job.bound /\ job'.seen = job.seen
      /\ job'.stage \in {"claim", "refuse"}
      /\ \/ job'.requested = job.requested
         \/ job'.requested = Append(job.requested, fire) /\ fire \in FiresOf(job.bound)
  BY <1>0, <1>5
<1>7. job'.requested \in Seq(FiresOf(job.bound))
  BY <1>0, <1>6, AppendProperties
<1>8. Listed'
  BY <1>6, <1>7 DEF Listed
<1>9. JInv'
  BY <1>0, <1>6, <1>8, JobGoesOn DEF Reading
<1> QED
  BY <1>0, <1>2, <1>9, WriteRefresh DEF Answered

LEMMA RefuseRefresh == ASSUME SInv, RInv, Refuse PROVE SInv'
<1>0. /\ {"ask", "bound", "seen", "requested", "plans"} \subseteq DOMAIN job
      /\ {"stage", "queue"} \subseteq DOMAIN job
      /\ job.stage = "refuse" /\ UNCHANGED scripts
      /\ job.requested \in Seq(FiresOf(job.bound))
  BY DEF Refuse, SInv, JInv, Lists, Listed, RInv, TInv, JobInv, IsJob
<1>1. /\ \E n, changes : Answered(n, changes) \/ Unanswered(n, changes)
      /\ \E queue : job' = [job EXCEPT !.stage = "claim", !.queue = queue]
  BY DEF Refuse
<1>2. /\ {"ask", "bound", "seen", "requested", "plans"} \subseteq DOMAIN job'
      /\ job'.bound = job.bound /\ job'.seen = job.seen
      /\ job'.stage = "claim" /\ job'.requested = job.requested
  BY <1>0, <1>1
<1>3. Listed'
  BY <1>0, <1>2 DEF Listed
<1>4. JInv'
  BY <1>0, <1>2, <1>3, JobGoesOn DEF Reading
<1>5. PICK n, changes : Answered(n, changes) \/ Unanswered(n, changes)
  BY <1>1
<1> QED
  BY <1>0, <1>4, <1>5, WriteRefresh DEF Answered

\* The bookkeeping reads no script any more.
LEMMA BookingRefresh == ASSUME SInv, RInv, Acted \/ Book \/ Rebaseline PROVE SInv'
<1>0. /\ {"ask", "bound", "seen", "requested", "plans"} \subseteq DOMAIN job
      /\ {"stage", "queue"} \subseteq DOMAIN job
      /\ UNCHANGED scripts
  BY DEF Acted, Book, Rebaseline, SInv, JInv, Lists, RInv, TInv, JobInv, IsJob
<1>1. ASSUME \E queue : \/ job' = [job EXCEPT !.stage = "book", !.queue = queue]
                        \/ job' = [job EXCEPT !.queue = queue] /\ job.stage = "book"
      PROVE  JInv'
  <2>1. /\ {"ask", "bound", "seen", "requested", "plans"} \subseteq DOMAIN job'
        /\ job'.bound = job.bound /\ job'.stage = "book"
    BY <1>0, <1>1
  <2> QED
    BY <2>1 DEF SInv, JInv, Lists, Attaching, Scripted, Reading, Listed
<1>2. CASE Acted
  <2>1. UNCHANGED <<store, index>> /\ JInv'
    BY <1>1, <1>2 DEF Acted
  <2> QED
    BY <1>0, <2>1, CopyRefresh
<1>3. CASE Book
  <2>1. PICK n, changes : Answered(n, changes) \/ Unanswered(n, changes)
    BY <1>3 DEF Book
  <2>2. JInv'
    BY <1>1, <1>3 DEF Book
  <2> QED
    BY <1>0, <2>1, <2>2, WriteRefresh DEF Answered
<1>4. CASE Rebaseline
  <2>1. UNCHANGED <<store, index>> /\ JInv'
    BY <1>4, JobAfresh DEF Rebaseline
  <2> QED
    BY <1>0, <2>1, CopyRefresh
<1> QED
  BY <1>2, <1>3, <1>4

-----------------------------------------------------------------------------

LEMMA SavedWhole ==
    ASSUME NEW name, NEW status
    PROVE  LET new == Saved(name, status) IN
           /\ {"live", "stamp", "body", "fields"} \subseteq DOMAIN new
           /\ new.stamp = 1 /\ new.body.since = 1
BY DEF Saved

LEMMA ScriptsInit == Init => SInv
<1> SUFFICES ASSUME Init PROVE SInv
  OBVIOUS
<1>1. PICK start \in Starts :
          store = [n \in Nodes |->
              IF n \in start.objects
              THEN [Absent(n) EXCEPT !.live = TRUE, !.stamp = 1]
              ELSE IF n \in DOMAIN start.rules
              THEN Saved(start.rules[n], "")
              ELSE Absent(n)]
  BY DEF Init
<1>2. index = store /\ scripts = NoChanges /\ job = NoJob
  BY DEF Init
<1>3. Rules \intersect start.objects = {} /\ Rules \subseteq Nodes
  BY ConstantsAssumption DEF Nodes
<1>4. ASSUME NEW r \in Rules
      PROVE  /\ {"live", "stamp", "body", "fields"} \subseteq DOMAIN store[r]
             /\ store[r].stamp \in Nat /\ store[r].body.since \in Nat
             /\ store[r].body.since <= store[r].stamp
  <2>1. store[r] = Saved(start.rules[r], "") \/ store[r] = Absent(r)
    BY <1>1, <1>3
  <2>2. CASE store[r] = Saved(start.rules[r], "")
    <3> DEFINE new == Saved(start.rules[r], "")
    <3>1. /\ {"live", "stamp", "body", "fields"} \subseteq DOMAIN new
          /\ new.stamp = 1 /\ new.body.since = 1
      BY SavedWhole
    <3>2. store[r] = new
      BY <2>2
    <3> HIDE DEF new
    <3>3. /\ store[r].stamp \in Nat /\ store[r].body.since \in Nat
          /\ store[r].body.since <= store[r].stamp
      BY <3>1, <3>2
    <3> QED
      BY <3>1, <3>2, <3>3
  <2>3. CASE store[r] = Absent(r)
    BY <2>3 DEF Absent, NoScript
  <2> QED
    BY <2>1, <2>2, <2>3
<1>5. Aged
  <2>1. DOMAIN store = Nodes /\ DOMAIN index = Nodes /\ Whole(store) /\ Whole(index)
    BY <1>1, <1>2, <1>4 DEF Whole
  <2>2. ASSUME NEW r \in Rules
        PROVE  /\ index[r].stamp <= store[r].stamp
               /\ store[r].body.since <= store[r].stamp
               /\ index[r].live => store[r].live
    BY <1>2, <1>4
  <2> QED
    BY <2>1, <2>2 DEF Aged
<1>6. Sound
  BY <1>2 DEF Sound, NoChanges
<1>7. JInv
  BY <1>2 DEF JInv, NoJob, Lists, Attaching, Scripted, Listed, Reading
<1> QED
  BY <1>5, <1>6, <1>7 DEF SInv

LEMMA ScriptsStep == SInv /\ HInv /\ RInv /\ [Next]_vars => SInv'
<1> SUFFICES ASSUME SInv, HInv, RInv, [Next]_vars PROVE SInv'
  OBVIOUS
<1>1. CASE UNCHANGED vars
  <2>1. UNCHANGED <<store, index, scripts, job>>
    BY <1>1 DEF vars
  <2> QED
    BY <2>1, JobStays, CopyRefresh
<1> QED
  BY <1>1, PeopleRefresh, TurnsRefresh, CopiesRefresh, DryRunRefresh, AttachRefresh,
     AttachedRefresh, ClaimRefresh, RefuseRefresh, PlanRefresh, ActRefresh,
     WriteFieldRefresh, BookingRefresh DEF Next, Step

\* No cached script outlives an edit the bot has seen: what a rule runs is what its
\* object held when the job began, or later, for any rules, edits, failures, lost
\* answers and jobs (_script_for, which caches by the stamp of another call than the
\* one that fetched the body).
THEOREM ScriptIsFresh == Spec => ScriptFresh
<1>1. ASSUME SInv, Act
      PROVE  LET r == Head(job.plans).rule IN
             RuleOf(r).action = "run script" =>
                 \/ scripts[r].since = store[r].body.since
                 \/ job.seen[r].stamp < store[r].body.since
  <2>0. /\ job.stage = "act" /\ job.plans # <<>>
        /\ job.plans \in Seq(FiresOf(job.bound))
    BY <1>1 DEF Act, SInv, JInv, Listed
  <2>1. Head(job.plans) \in FiresOf(job.bound)
    BY <2>0, HeadTailProperties
  <2>2. PICK r : r = Head(job.plans).rule
    OBVIOUS
  <2>3. r \in job.bound
    BY <2>1, <2>2 DEF FiresOf
  <2>4. SUFFICES ASSUME RuleOf(r).action = "run script"
                 PROVE  \/ scripts[r].since = store[r].body.since
                        \/ job.seen[r].stamp < store[r].body.since
    BY <2>2
  <2>5. ScriptRead(r)
    BY <1>1, <2>0, <2>3, <2>4 DEF SInv, JInv, Scripted, Reading
  <2>6. Fresh(r)
    BY <1>1, <2>5 DEF SInv, Sound, ScriptRead
  <2> QED
    BY <2>5, <2>6 DEF ScriptRead, Fresh
<1>2. SInv /\ HInv /\ RInv /\ [Next]_vars
        => [Act => LET r == Head(job.plans).rule IN
                   RuleOf(r).action = "run script" =>
                       \/ scripts[r].since = store[r].body.since
                       \/ job.seen[r].stamp < store[r].body.since]_vars
  BY <1>1
<1> QED
  BY <1>2, ScriptsInit, ScriptsStep, RequestsInit, RequestsStep, MarksInit, MarksStep, PTL
     DEF Spec, ScriptFresh
=============================================================================
