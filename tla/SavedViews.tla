------------------------------ MODULE SavedViews ------------------------------
(***************************************************************************)
(* The saved views of Anytype's sets, compiled into queries of the index   *)
(* (infrastructure/anytype/view_catalog.py, the view routes of client.py,  *)
(* Querier.run_view of application/querier.py), against the server as      *)
(* mock_server.py has it.                                                  *)
(*                                                                         *)
(* The store defines a view and the index runs it: that is right only when *)
(* the compiled query means what the store means by the view, so a view    *)
(* that cannot be translated is left out of the catalog.                   *)
(*                                                                         *)
(* A set is [name, source, views], a view [name, full, filters, sorts]     *)
(* with its name after its set's as full; filters and sorts name a         *)
(* property by the key the view leaks.                                     *)
(***************************************************************************)
EXTENDS GraphReads

CONSTANTS
    Sets,           \* the sets of the space, as people configured them
    PropertyKeys,   \* property id -> key, of GET /properties
    SnakeOf,        \* built-in key in camel case -> in snake case
    InternalKeys    \* what reads as an internal relation key

NoSource == ""
TrueWord == <<20>>     \* the word a ticked box is shown as

Conditions ==
    [eq |-> "eq", equal |-> "eq", neq |-> "neq", not_equal |-> "neq",
     greater |-> "gt", less |-> "lt", greater_or_equal |-> "gte",
     less_or_equal |-> "lte", like |-> "contains", contains |-> "contains",
     empty |-> "missing", not_empty |-> "exists", exists |-> "exists"]

\* ---------------------------------------------------------- compilation ----
FieldKey(leaf) ==
    IF leaf.key \in DOMAIN PropertyKeys THEN PropertyKeys[leaf.key]
    ELSE IF leaf.key \in DOMAIN SnakeOf THEN SnakeOf[leaf.key] ELSE leaf.key

\* An internal key means something only when it is some property's key.
Unresolved(field) == field \in InternalKeys /\ field \notin Range(PropertyKeys)

Translatable(leaf) ==
    /\ leaf.key # "" /\ ~Unresolved(FieldKey(leaf))
    /\ leaf.condition \in DOMAIN Conditions
    /\ ~leaf.isList

\* Ticked and unticked travel as (in)equality with nothing.
CompileFilter(leaf) ==
    LET op == Conditions[leaf.condition]
        box == leaf.format = "checkbox" /\ leaf.value.word = <<>>
    IN IF box /\ op \in {"eq", "neq"}
       THEN [field |-> FieldKey(leaf), op |-> IF op = "eq" THEN "neq" ELSE "eq",
             value |-> Value(None, TrueWord)]
       ELSE [field |-> FieldKey(leaf), op |-> op, value |-> leaf.value]

\* A sort by a key nothing resolves is dropped: one tiebreaker less.
CompileSorts(sorts) ==
    LET kept == SelectSeq(sorts, LAMBDA s : ~Unresolved(FieldKey(s)))
    IN [i \in 1..Len(kept) |->
           [field |-> FieldKey(kept[i]), descending |-> kept[i].descending]]

CanCompile(view) ==
    /\ \A leaf \in view.filters : Translatable(leaf)
    /\ \A i \in 1..Len(view.sorts) : view.sorts[i].key # ""

CompileView(view, type) ==
    [type |-> type, anchor |-> None, labels |-> {}, limit |-> 1, hidden |-> {},
     where |-> {CompileFilter(leaf) : leaf \in view.filters},
     orderBy |-> CompileSorts(view.sorts)]

\* --------------------------------------------------------- the endpoints ----
\* All pages of an endpoint: a page is cut at an offset, and the next starts
\* behind what came.
RECURSIVE Paginate(_, _, _)
Paginate(items, offset, size) ==
    LET page == SubSeq(items, offset + 1, Min({offset + size, Len(items)}))
        more == offset + Len(page) < Len(items)
    IN IF page = <<>> \/ ~more THEN page
       ELSE page \o Paginate(items, offset + Len(page), size)

PageLimit == 1

\* What the server runs a view over: the objects of the set's source.  The
\* endpoint of a set without a source answers 500.
SampleViewObjects(g, set) ==
    IF set.source = NoSource THEN [failed |-> TRUE, types |-> {}]
    ELSE [failed |-> FALSE,
          types |-> {g.node[n].type : n \in {m \in DOMAIN g.node :
                                                g.node[m].type = set.source}}]

\* -------------------------------------------------------------- catalog ----
\* The views that run: those whose source type a sampled object tells and
\* whose definition compiles.  One that fails is left out, not the others.
Listed(g, set, view) ==
    /\ ~SampleViewObjects(g, set).failed
    /\ SampleViewObjects(g, set).types # {}
    /\ CanCompile(view)

Catalog(g) ==
    UNION {{[set |-> set.name, view |-> view.name, full |-> view.full,
             of |-> [source |-> set.source, filters |-> view.filters],
             query |-> CompileView(view, CHOOSE t \in SampleViewObjects(g, set).types :
                                             TRUE)] :
                view \in {v \in Range(Paginate(set.views, 0, PageLimit)) :
                             Listed(g, set, v)}} : set \in Sets}

\* A saved view by the name of its set, its own, or both: one must match.
Named(views, name) == {v \in views : name \in {v.set, v.view, v.full}}

RunView(g, view, limit) ==
    RunQuery(g, [view.query EXCEPT !.limit = limit, !.hidden = Infra])

\* --------------------------------------------- what the store means by it ----
\* The leaf of a view as Anytype reads it: a box that is not ticked is not
\* there, and what is not there differs from everything.
Fulfils(node, leaf) ==
    LET v == FieldValue(node, FieldKey(leaf))
        ticked == v.here /\ v.word = TrueWord
    IN IF leaf.format = "checkbox" /\ leaf.value.word = <<>>
       THEN leaf.condition \in {"neq", "not_equal", "not_empty", "exists"} <=> ticked
       ELSE Matches(node, [field |-> FieldKey(leaf), value |-> leaf.value,
                           op |-> Conditions[leaf.condition]])

Meant(g, of) ==
    {n \in DOMAIN g.node : /\ g.node[n].type = of.source
                           /\ \A leaf \in of.filters : Fulfils(g.node[n], leaf)}
=============================================================================
