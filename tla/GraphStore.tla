----------------------------- MODULE GraphStore -----------------------------
(***************************************************************************)
(* The graph repository of one space: the objects of the Anytype server,   *)
(* the derived index of the bot, and the writes and resyncs that keep the  *)
(* two together (infrastructure/anytype/repository.py, sync.py).           *)
(*                                                                         *)
(* Every call to the server is a step of its own: people edit the space    *)
(* between the steps, and so do other calls of the bot where nothing       *)
(* serializes them.  The chat bot runs each call under the turn lock of    *)
(* the space; the MCP server does not.                                     *)
(***************************************************************************)
EXTENDS Integers, FiniteSets, Functions

CONSTANTS
    Nodes,     \* the objects that may ever exist
    Existing,  \* those the space holds when the bot starts
    Tasks,     \* the callers of the repository
    Serial,    \* the callers share a turn lock (_watch_graph, run_turn)
    Ties,      \* two changes may carry the same stamp: it counts seconds (S3)
    Budget,    \* how many calls and environment events of each kind happen
    Together   \* the kinds that may happen in the same behaviour

Events == {"write", "resync", "person", "net", "crash"}

ASSUME ConstantsAssumption ==
    /\ Existing \subseteq Nodes
    /\ Serial \in BOOLEAN /\ Ties \in BOOLEAN
    /\ "free" \notin Tasks
    /\ Budget \in [Events -> Nat]
    /\ Together \subseteq SUBSET Events

VARIABLES
    clock,      \* the server's clock
    store,      \* the objects of the space
    index,      \* GraphIndex: what the bot believes of each object
    seen,       \* _seen_stamps
    watermark,  \* _watermark
    lock,       \* _write_lock: free, or the caller that holds it
    stage,      \* where each caller stands
    op,         \* the call each caller makes, with what it has read so far
    left,       \* calls and events of each kind that may still happen
    touched,    \* history: objects changed from outside, not reported yet
    due,        \* history: those of them each resync has to report
    inked,      \* history: links the bot has made and nobody removed
    ever        \* history: links the space has ever held

indexVars == <<index, seen, watermark>>
callVars == <<lock, stage, op>>
outsideVars == <<touched, due>>
vars == <<clock, store, indexVars, callVars, left, outsideVars, inked,
          ever>>

Happened == {k \in Events : left[k] < Budget[k]}

\* A call or an event of the environment happens, within the bounds.
Spend(kind) ==
    /\ left[kind] > 0
    /\ \E kinds \in Together : Happened \union {kind} \subseteq kinds
    /\ left' = [left EXCEPT ![kind] = @ - 1]

\* An object: alive, the version of its fields, its relation targets, the
\* links its footer shows and the date of its last change.
NoObject == [live |-> FALSE, val |-> 0, links |-> {}, foot |-> {}, stamp |-> 0]
Found == [NoObject EXCEPT !.live = TRUE, !.val = 1, !.stamp = 1]

NoOp == [kind |-> "none", node |-> "none", ends |-> {}, targets |-> {},
         foot |-> {}, answer |-> [n \in {} |-> NoObject], patched |-> 0]

\* sync.load_index: every live object, and the links between them.
Hydrated ==
    /\ index' = [n \in Nodes |->
          [held |-> store[n].live,
           val |-> IF store[n].live THEN store[n].val ELSE 0,
           links |-> IF store[n].live
                     THEN {m \in store[n].links : store[m].live} ELSE {}]]
    /\ seen' = [n \in Nodes |-> IF store[n].live THEN store[n].stamp ELSE 0]
    /\ \E w \in {0} \union Range(seen') :
          watermark' = w /\ \A n \in Nodes : seen'[n] <= w

Init ==
    /\ clock = 1
    /\ store = [n \in Nodes |-> IF n \in Existing THEN Found ELSE NoObject]
    /\ index = [n \in Nodes |->
          [held |-> n \in Existing, val |-> IF n \in Existing THEN 1 ELSE 0,
           links |-> {}]]
    /\ seen = [n \in Nodes |-> IF n \in Existing THEN 1 ELSE 0]
    /\ watermark = IF Existing = {} THEN 0 ELSE 1
    /\ lock = "free" /\ stage = [t \in Tasks |-> "idle"]
    /\ op = [t \in Tasks |-> NoOp]
    /\ left = Budget
    /\ touched = {} /\ due = [t \in Tasks |-> {}]
    /\ inked = {} /\ ever = {}

-----------------------------------------------------------------------------
(* The server. *)

Later == IF Ties THEN {clock, clock + 1} ELSE {clock + 1}
LinksOf(n, object) == {<<n, m>> : m \in object.links}
At(n) == {e \in Nodes \X Nodes : n \in {e[1], e[2]}}

\* The server takes a change and stamps it.
Change(n, object) ==
    /\ clock' \in Later
    /\ store' = [store EXCEPT ![n] = [object EXCEPT !.stamp = clock']]
    /\ ever' = ever \union LinksOf(n, object)

PersonEdits(n) ==
    /\ store[n].live /\ Spend("person")
    /\ Change(n, [store[n] EXCEPT !.val = @ + 1])
    /\ touched' = touched \union {n}
    /\ UNCHANGED <<indexVars, callVars, due, inked>>

PersonLinks(n, m) ==
    /\ n # m /\ store[n].live /\ store[m].live /\ m \notin store[n].links
    /\ Spend("person")
    /\ Change(n, [store[n] EXCEPT !.links = @ \union {m}])
    /\ touched' = touched \union {n}
    /\ UNCHANGED <<indexVars, callVars, due, inked>>

PersonUnlinks(n, m) ==
    /\ store[n].live /\ m \in store[n].links /\ Spend("person")
    /\ Change(n, [store[n] EXCEPT !.links = @ \ {m}])
    /\ touched' = touched \union {n}
    /\ inked' = inked \ {<<n, m>>}
    /\ UNCHANGED <<indexVars, callVars, due>>

PersonCreates(n) ==
    /\ store[n] = NoObject /\ Spend("person")
    /\ \A t \in Tasks : stage[t] # "idle" => op[t].node # n
    /\ Change(n, Found)
    /\ touched' = touched \union {n}
    /\ UNCHANGED <<indexVars, callVars, due, inked>>

\* Archived objects appear in no list and no search (S4).
PersonDeletes(n) ==
    /\ store[n].live /\ Spend("person")
    /\ store' = [store EXCEPT ![n].live = FALSE]
    /\ inked' = inked \ At(n)
    /\ UNCHANGED <<clock, indexVars, callVars, outsideVars, ever>>

-----------------------------------------------------------------------------
(* Calls of the repository. *)

\* Under the turn lock a call waits until no other is in progress.
Alone(t) == \A u \in Tasks : stage[u] = "idle"

MayCall(t) == stage[t] = "idle" /\ (Serial => Alone(t))

Call(t, kind, n, ends, foot) ==
    /\ MayCall(t) /\ Spend("write")
    /\ op' = [op EXCEPT ![t] = [NoOp EXCEPT !.kind = kind, !.node = n,
                                            !.ends = ends, !.foot = foot]]
    /\ stage' = [stage EXCEPT ![t] = "wait"]
    /\ UNCHANGED <<clock, store, indexVars, lock, outsideVars, inked, ever>>

Held == {n \in Nodes : index[n].held}

\* update_node; a new body carries the footer, rendered before the write lock.
UpdateNode(t) ==
    \E n \in Held : \E kind \in {"update", "rewrite"} :
        Call(t, kind, n, {}, index[n].links)

AddLink(t) ==
    \E n \in Held : \E m \in Held \ {n} : Call(t, "add", n, {m}, {})

RemoveLink(t) ==
    \E n \in Held : \E m \in index[n].links : Call(t, "remove", n, {m}, {})

\* create_node: the ends of its links are checked against the index.
CreateNode(t) ==
    \E n \in Nodes : \E ends \in SUBSET Held :
        /\ store[n] = NoObject
        /\ \A u \in Tasks : stage[u] # "idle" => op[u].node # n
        /\ Call(t, "create", n, ends, ends)

Goes(t, next) == stage' = [stage EXCEPT ![t] = next]
Ends(t) == Goes(t, "idle") /\ op' = [op EXCEPT ![t] = NoOp]

LockFree == lock = "free"

\* Mutant of Footer: the edges of the index as they are.
FooterBefore(o) == index[o.node].links

\* _footer_markdown: the edges of the index, with this write's.
Footer(o) ==
    IF o.kind = "add" THEN index[o.node].links \union o.ends
                      ELSE index[o.node].links \ o.ends

\* The write lock is granted to a write that needs no look at the store.
Enter(t) ==
    /\ stage[t] = "wait" /\ op[t].kind \in {"update", "rewrite", "create"}
    /\ LockFree
    /\ lock' = t /\ Goes(t, "send")
    /\ UNCHANGED <<clock, store, indexVars, op, left, outsideVars, inked,
                   ever>>

\* The write lock is granted and the relation is read from the store
\* (_current_state): a link that is there already needs no write.
Read(t) ==
    /\ stage[t] = "wait" /\ op[t].kind \in {"add", "remove"} /\ LockFree
    /\ store[op[t].node].live
    /\ lock' = t
    /\ op' = [op EXCEPT ![t].targets = store[op[t].node].links,
                        ![t].foot = Footer(op[t])]
    /\ Goes(t, IF op[t].kind = "add" /\ op[t].ends \subseteq op'[t].targets
               THEN "sent" ELSE "send")
    /\ UNCHANGED <<clock, store, indexVars, left, outsideVars, inked, ever>>

\* The object is gone, and the read fails.
ReadFails(t) ==
    /\ stage[t] = "wait" /\ op[t].kind \in {"add", "remove"} /\ LockFree
    /\ ~store[op[t].node].live
    /\ Ends(t)
    /\ UNCHANGED <<clock, store, indexVars, lock, left, outsideVars, inked,
                   ever>>

\* The object as a write makes it: a link write sends the whole list.
Written(o) ==
    LET object == store[o.node] IN
    CASE o.kind = "update"  -> [object EXCEPT !.val = @ + 1]
      [] o.kind = "rewrite" -> [object EXCEPT !.val = @ + 1, !.foot = o.foot]
      [] o.kind = "add"     -> [object EXCEPT
                                  !.links = o.targets \union o.ends,
                                  !.foot = o.foot]
      [] o.kind = "remove"  -> [object EXCEPT !.links = o.targets \ o.ends,
                                              !.foot = o.foot]
      [] o.kind = "create"  -> [NoObject EXCEPT !.live = TRUE, !.val = 1]

Edges(o) == {o.node} \X {m \in o.ends : store[m].live}

\* What the links of the space come to when the write has landed; "known" says
\* whether the caller hears of it.
Links(o, known) ==
    inked' = IF o.kind = "add" /\ known THEN inked \union Edges(o)
             ELSE IF o.kind = "remove" THEN inked \ Edges(o) ELSE inked

Reachable(o) == o.kind = "create" \/ store[o.node].live

\* Mutant of Lands: a created object is indexed, links and all, before its
\* links are in the store.
LandsIndexed(t) ==
    LET o == op[t] IN
    /\ stage[t] = "send" /\ Reachable(o)
    /\ Change(o.node, Written(o)) /\ Links(o, TRUE)
    /\ op' = [op EXCEPT ![t].answer = [n \in {o.node} |-> store'[n]]]
    /\ Goes(t, IF o.kind = "create" /\ o.ends # {} THEN "patch" ELSE "sent")
    /\ index' = IF o.kind = "create"
                THEN [index EXCEPT ![o.node] =
                        [held |-> TRUE, val |-> 1, links |-> o.ends]]
                ELSE index
    /\ UNCHANGED <<seen, watermark, lock, left, outsideVars>>

\* The server takes the write and answers with the object.
Lands(t) ==
    LET o == op[t] IN
    /\ stage[t] = "send" /\ Reachable(o)
    /\ Change(o.node, Written(o)) /\ Links(o, TRUE)
    /\ op' = [op EXCEPT ![t].answer = [n \in {o.node} |-> store'[n]]]
    /\ Goes(t, IF o.kind = "create" /\ o.ends # {} THEN "patch" ELSE "sent")
    /\ UNCHANGED <<indexVars, lock, left, outsideVars>>

\* The links of a created object follow in a write of their own.
PatchLands(t) ==
    LET o == op[t] IN
    /\ stage[t] = "patch" /\ store[o.node].live
    /\ Change(o.node, [store[o.node] EXCEPT !.links = o.ends, !.foot = o.ends])
    /\ inked' = inked \union Edges(o)
    /\ op' = [op EXCEPT ![t].patched = clock']
    /\ Goes(t, "sent")
    /\ UNCHANGED <<indexVars, lock, left, outsideVars>>

Larger(a, b) == IF a < b THEN b ELSE a

\* Mutant of NewestStamp: the stamp of the object's own answer, tracked last.
LastStamp(o, before) == o.answer[o.node].stamp

\* _track_watermark keeps the newest stamp of a composite create.
NewestStamp(o, before) ==
    Larger(before, Larger(o.patched, o.answer[o.node].stamp))

\* The answer is folded into the index, and its stamp remembered.
Returns(t) ==
    LET o == op[t]
        answered == o.node \in DOMAIN o.answer IN
    /\ stage[t] = "sent"
    /\ index' = [index EXCEPT ![o.node] =
          [held |-> TRUE,
           val |-> IF answered THEN o.answer[o.node].val ELSE @.val,
           links |-> IF o.kind = "remove" THEN @.links \ o.ends
                                          ELSE @.links \union o.ends]]
    /\ IF answered
       THEN /\ seen' = [seen EXCEPT ![o.node] = NewestStamp(o, @)]
            /\ watermark' = Larger(watermark, NewestStamp(o, 0))
       ELSE UNCHANGED <<seen, watermark>>
    /\ lock' = "free" /\ Ends(t)
    /\ UNCHANGED <<clock, store, left, outsideVars, inked, ever>>

\* The write is refused, or its answer is lost: the index knows nothing of it.
Fails(t) ==
    LET o == op[t] IN
    /\ stage[t] = "send"
    /\ \/ ~Reachable(o) /\ UNCHANGED <<clock, store, left, touched, inked,
                                       ever>>
       \/ Spend("net") /\ UNCHANGED <<clock, store, touched, inked, ever>>
       \/ /\ Spend("net") /\ Reachable(o)
          /\ Change(o.node, Written(o)) /\ Links(o, FALSE)
          /\ touched' = touched \union {o.node}
    /\ lock' = "free" /\ Ends(t)
    /\ UNCHANGED <<indexVars, due>>

\* The links of a created object are refused: the object is to be archived.
PatchFails(t) ==
    LET o == op[t] IN
    /\ stage[t] = "patch"
    /\ \/ ~store[o.node].live /\ UNCHANGED <<clock, store, left, ever>>
       \/ Spend("net") /\ UNCHANGED <<clock, store, ever>>
       \/ /\ Spend("net") /\ store[o.node].live
          /\ Change(o.node, [store[o.node] EXCEPT !.links = o.ends,
                                                  !.foot = o.ends])
    /\ Goes(t, "rollback")
    /\ UNCHANGED <<indexVars, lock, op, outsideVars, inked>>

\* _rollback_create: best effort.
RollsBack(t) ==
    LET n == op[t].node IN
    /\ stage[t] = "rollback"
    /\ \/ /\ store' = [store EXCEPT ![n].live = FALSE]
          /\ inked' = inked \ At(n)
          /\ UNCHANGED <<left, touched>>
       \/ /\ Spend("net") /\ touched' = touched \union {n}
          /\ UNCHANGED <<store, inked>>
    /\ lock' = "free" /\ Ends(t)
    /\ UNCHANGED <<clock, indexVars, due, ever>>

-----------------------------------------------------------------------------
(* Resync, outside the write lock. *)

\* fetch_changes: the live objects changed at or after the watermark.
Changed == {n \in Nodes : store[n].live /\ store[n].stamp >= watermark}

Fetch(t) ==
    /\ MayCall(t) /\ Spend("resync")
    /\ op' = [op EXCEPT ![t] =
          [NoOp EXCEPT !.kind = "resync",
                       !.answer = [n \in Changed |-> store[n]]]]
    /\ Goes(t, "fetched")
    /\ due' = [due EXCEPT ![t] = {n \in touched : store[n].live}]
    /\ UNCHANGED <<clock, store, indexVars, lock, touched, inked, ever>>

\* Stamps accounted for are the bot's own, or were applied before.
Unseen(o) == {n \in DOMAIN o.answer : o.answer[n].stamp > seen[n]}

\* The stamps the next watermark is the largest of.
Newest(o) == {watermark} \union {o.answer[n].stamp : n \in Unseen(o)}

Orders(S) == {r \in [S -> 1..Cardinality(S)] :
                 \A a, b \in S : a # b => r[a] # r[b]}

\* History: what resync u is to report of n is in the answer that t applies.
Older(u, t, n) ==
    /\ n \in DOMAIN op[u].answer
    /\ op[u].answer[n].stamp <= op[t].answer[n].stamp

\* apply_changes: one object after the other; a link to an object the index
\* does not hold yet is dropped.
Apply(t) ==
    LET o == op[t]
        fresh == Unseen(o) IN
    /\ stage[t] = "fetched"
    /\ \E place \in Orders(fresh) :
          index' = [n \in Nodes |->
              IF n \notin fresh THEN index[n]
              ELSE [held |-> TRUE, val |-> o.answer[n].val,
                    links |-> {m \in o.answer[n].links :
                                 \/ index[m].held
                                 \/ m \in fresh /\ place[m] < place[n]}]]
    /\ seen' = [n \in Nodes |->
                  IF n \in fresh THEN o.answer[n].stamp ELSE seen[n]]
    /\ watermark' \in Newest(o) /\ \A s \in Newest(o) : s <= watermark'
    /\ touched' = touched \ {n \in fresh : store[n] = o.answer[n]}
    /\ due' = [u \in Tasks |->
                  IF u = t THEN {} ELSE due[u] \ {n \in fresh : Older(u, t, n)}]
    /\ Ends(t)
    /\ UNCHANGED <<clock, store, lock, left, inked, ever>>

\* The process is killed and started again; the start hydrates.
Restart ==
    /\ Spend("crash") /\ Hydrated
    /\ lock' = "free" /\ stage' = [t \in Tasks |-> "idle"]
    /\ op' = [t \in Tasks |-> NoOp]
    /\ touched' = {} /\ due' = [t \in Tasks |-> {}]
    /\ UNCHANGED <<clock, store, inked, ever>>

-----------------------------------------------------------------------------

People ==
    \E n \in Nodes :
        \/ PersonEdits(n) \/ PersonCreates(n) \/ PersonDeletes(n)
        \/ \E m \in Nodes : PersonLinks(n, m) \/ PersonUnlinks(n, m)

Write(t) ==
    \/ UpdateNode(t) \/ AddLink(t) \/ RemoveLink(t) \/ CreateNode(t)
    \/ Enter(t) \/ Read(t) \/ ReadFails(t) \/ Lands(t) \/ Fails(t)
    \/ PatchLands(t) \/ PatchFails(t) \/ RollsBack(t) \/ Returns(t)

Resync(t) == Fetch(t) \/ Apply(t)

Next ==
    \/ \E t \in Tasks : Write(t) \/ Resync(t)
    \/ People \/ Restart

Spec == Init /\ [][Next]_vars

-----------------------------------------------------------------------------
(* Properties. *)

Objects == [live : BOOLEAN, val : Nat, links : SUBSET Nodes,
            foot : SUBSET Nodes, stamp : Nat]

Holding == {"send", "patch", "rollback", "sent"}

TypeOK ==
    /\ clock \in Nat /\ watermark \in 0..clock
    /\ store \in [Nodes -> Objects]
    /\ index \in [Nodes -> [held : BOOLEAN, val : Nat, links : SUBSET Nodes]]
    /\ seen \in [Nodes -> 0..clock]
    /\ lock \in Tasks \union {"free"}
    /\ stage \in [Tasks -> Holding \union {"idle", "wait", "fetched"}]
    /\ \A t \in Tasks : stage[t] \in Holding <=> lock = t
    /\ left \in [Events -> Nat]
    /\ touched \subseteq Nodes /\ due \in [Tasks -> SUBSET Nodes]
    /\ inked \subseteq ever
    /\ ever \subseteq Nodes \X Nodes

\* A link the bot has made stays in the space until somebody removes it,
\* whatever other link writes of the bot overlap with it (ADR 009: concurrent
\* link mutations on one node all take effect).
BotLinksKept == \A e \in inked : e[2] \in store[e[1]].links

\* The footer of an object shows every link the bot has made on it.
FooterKept == \A e \in inked : e[2] \in store[e[1]].foot

\* The index never leads: what it holds has been in the space.
NeverLeads ==
    \A n \in Nodes :
        /\ index[n].held => store[n].stamp > 0
        /\ index[n].val <= store[n].val
        /\ {n} \X index[n].links \subseteq ever

\* A resync reports no write of the bot itself: the rules that watch for
\* people's edits would fire on it.
SelfWritesSilent ==
    [][\A t \in Tasks : Apply(t) => Unseen(op[t]) \subseteq touched]_vars

\* A resync reports every object that was changed from outside when it asked.
EditsReported ==
    [][\A t \in Tasks :
          Apply(t) => due[t] \subseteq Unseen(op[t])]_vars

-----------------------------------------------------------------------------

Port == INSTANCE GraphPort WITH
            graph <- index,
            space <- [n \in Nodes |-> [held |-> store[n].live,
                                       val |-> store[n].val,
                                       links |-> store[n].links]],
            ever <- ever

\* The repository over the server keeps the promise of the port, which the
\* in-memory repository keeps by awaiting nothing: each step is one write to
\* the store or one call's whole effect on the index.  A create whose links
\* fail, an answer that is lost, and a restart are not exempt.
ImplementsPort == Port!Spec
=============================================================================
