------------------------------ MODULE GraphPort ------------------------------
(***************************************************************************)
(* What every graph repository promises its callers                        *)
(* (ports/graph_repository.py): a store, and a graph derived from it that  *)
(* may lag the store and never leads it.  The in-memory repository         *)
(* (infrastructure/memory/fake_repository.py) is the executable form of    *)
(* the promise: it awaits nothing, so each call is one step of the graph.  *)
(* Persisting is a step of its own here, because the store goes first.     *)
(***************************************************************************)
EXTENDS Integers

CONSTANT Nodes

VARIABLES
    graph,   \* GraphIndex: held nodes, their version and outgoing links
    space,   \* the store: the same of the objects it holds
    ever     \* the links the store has ever held

vars == <<graph, space, ever>>

\* What hydrate makes of the store.
Derived(objects) ==
    [n \in Nodes |->
        [held |-> objects[n].held,
         val |-> IF objects[n].held THEN objects[n].val ELSE 0,
         links |-> IF objects[n].held
                   THEN {m \in objects[n].links : objects[m].held} ELSE {}]]

Init == graph = Derived(space) /\ ever = {}

\* A write, of this repository or of a person, reaches the store: one object.
Persist ==
    /\ \E n \in Nodes : \A m \in Nodes \ {n} : space'[m] = space[m]
    /\ ever' = ever \union {e \in Nodes \X Nodes : e[2] \in space'[e[1]].links}
    /\ UNCHANGED graph

\* A node as it may be indexed: no newer than the store.
Becomes(n, links) ==
    \E v \in graph[n].val..space[n].val :
        graph' = [graph EXCEPT ![n] = [held |-> v > 0, val |-> v,
                                       links |-> links]]

Stored(n, links) == {n} \X links \subseteq ever

\* The node appears with all its links, or not at all: a create whose links
\* fail is taken back before anybody sees it.
CreateNode(n) ==
    \E ends \in SUBSET {m \in Nodes : graph[m].held} :
        ~graph[n].held /\ Stored(n, ends) /\ Becomes(n, ends)

UpdateNode(n) == graph[n].held /\ Becomes(n, graph[n].links)

AddLink(n, m) ==
    /\ graph[n].held /\ graph[m].held /\ Stored(n, {m})
    /\ Becomes(n, graph[n].links \union {m})

RemoveLink(n, m) == graph[n].held /\ Becomes(n, graph[n].links \ {m})

\* Changes made elsewhere come in: nodes appear or advance, none goes.
Resync ==
    \A n \in Nodes :
        \/ graph'[n] = graph[n]
        \/ /\ graph'[n].held /\ graph'[n].val \in graph[n].val..space[n].val
           /\ Stored(n, graph'[n].links)
           /\ \A m \in graph'[n].links : graph'[m].held

Hydrate == graph' = Derived(space)

Indexed ==
    \/ \E n \in Nodes :
          \/ CreateNode(n) \/ UpdateNode(n)
          \/ \E m \in Nodes : AddLink(n, m) \/ RemoveLink(n, m)
    \/ Resync \/ Hydrate

Next ==
    \/ Persist
    \/ Indexed /\ UNCHANGED <<space, ever>>

Spec == Init /\ [][Next]_vars
=============================================================================
