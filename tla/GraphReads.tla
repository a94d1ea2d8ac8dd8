------------------------------ MODULE GraphReads ------------------------------
(***************************************************************************)
(* What the read tools compute over the graph index: domain/graph.py,      *)
(* traversal.py, pathfinding.py, query.py and overview.py, and the use     *)
(* cases over them (explorer.py, querier.py, node_reader.py).              *)
(*                                                                         *)
(* A graph is [node |-> a function from the ids it holds to node records,  *)
(* edges |-> a sequence of edges].  The index keeps its edges in sets that *)
(* yield them in any order: the sequence is the order one call happens to  *)
(* see.  A string is a sequence of letters (numbers), case folded.         *)
(***************************************************************************)
EXTENDS Integers, SequencesExt

CONSTANT
    QueryCap       \* MAX_LIMIT of query.py

None == 0          \* an absent timeline value or number
AnyTime == -1      \* as_of not given, or include_future
MAX_DEPTH == 3

Infra == {"Capture", "Intent", "SessionContext", "ActivityMode"}

\* ------------------------------------------------------------ strings ----
Before(s, t) ==
    \E i \in 1..Len(t) :
        /\ SubSeq(s, 1, i - 1) = SubSeq(t, 1, i - 1)
        /\ Len(s) >= i - 1
        /\ Len(s) = i - 1 \/ s[i] < t[i]

Within(part, whole) ==
    \E i \in 0..(Len(whole) - Len(part)) :
        SubSeq(whole, i + 1, i + Len(part)) = part

\* -------------------------------------------------------------- graph ----
Holds(g, n) == n \in DOMAIN g.node

UpsertNode(g, n, value) ==
    [g EXCEPT !.node = [m \in DOMAIN g.node \union {n} |->
                            IF m = n THEN value ELSE g.node[m]]]

\* Both ends must be held (the caller's guard); a self loop is no edge.
AddEdge(g, e) ==
    IF e.src = e.dst \/ e \in Range(g.edges) THEN g
    ELSE [g EXCEPT !.edges = Append(@, e)]

RemoveEdge(g, e) == [g EXCEPT !.edges = SelectSeq(@, LAMBDA f : f # e)]

RemoveNode(g, n) ==
    [node |-> [m \in DOMAIN g.node \ {n} |-> g.node[m]],
     edges |-> SelectSeq(g.edges, LAMBDA e : n \notin {e.src, e.dst})]

\* The edges at a node: those it holds first, then those that point at it.
Edges(g, n, labels) ==
    SelectSeq(g.edges, LAMBDA e : e.src = n /\ e.label \in labels)
    \o SelectSeq(g.edges, LAMBDA e : e.dst = n /\ e.label \in labels)

Other(e, n) == IF e.src = n THEN e.dst ELSE e.src

Degree(g, n) == Len(SelectSeq(g.edges, LAMBDA e : n \in {e.src, e.dst}))

ByName(g, a, b) ==
    \/ Before(g.node[a].name, g.node[b].name)
    \/ g.node[a].name = g.node[b].name /\ a < b

\* An exact name wins outright; only without one do parts of names count,
\* and only those are capped.
FindByName(g, name, type, limit, roles) ==
    LET pool == {n \in DOMAIN g.node :
                    /\ g.node[n].role \in Infra => g.node[n].role \in roles
                    /\ type = "" \/ g.node[n].type = type}
        sorted(s) == SetToSortSeq(s, LAMBDA a, b : ByName(g, a, b))
        exact == {n \in pool : g.node[n].name = name}
        partly == sorted({n \in pool : Within(name, g.node[n].name)})
    IN CASE name = <<>> -> <<>>
         [] name # <<>> /\ exact # {} -> sorted(exact)
         [] OTHER -> SubSeq(partly, 1, IF Len(partly) < limit THEN Len(partly)
                                       ELSE limit)

\* What an identifier names: an id at once, else the one node of that name.
\* The answer holds the candidates: one resolves, none and several do not.
Resolve(g, ident, roles) ==
    IF Holds(g, ident.id) THEN <<ident.id>>
    ELSE FindByName(g, ident.name, "", 10, roles)

\* ---------------------------------------------------------- traversal ----
Identifiers(node) == {node.type, node.role} \ {""}

Admits(node, q) ==
    /\ node.role \notin q.hidden
    /\ Identifiers(node) \cap q.exclude = {}
    /\ q.include # {} => Identifiers(node) \cap q.include # {}
    /\ ~(/\ q.asOf # AnyTime /\ node.role = "Event"
         /\ node.time # None /\ node.time > q.asOf)

DepthCap(q) == IF q.depth < 0 THEN 0
               ELSE IF q.depth > MAX_DEPTH THEN MAX_DEPTH ELSE q.depth

\* Mutant of Meet: the start counts against the limit.
MeetCountingStart(g, q, from, s, e) ==
    LET n == Other(e, from.id)
        hit == [id |-> n, depth |-> from.depth + 1]
        seen == [s EXCEPT !.seen = @ \union {n}]
    IN CASE s.truncated \/ n \in s.seen -> s
         [] n \notin s.seen /\ ~s.truncated /\ ~Admits(g.node[n], q) -> seen
         [] OTHER ->
              IF Len(s.hits) >= q.limit
              THEN [seen EXCEPT !.truncated = TRUE]
              ELSE [seen EXCEPT !.hits = Append(@, hit), !.queue = Append(@, hit)]

\* One neighbour met by the walk: seen once, pruned, cut off or a hit.
Meet(g, q, from, s, e) ==
    LET n == Other(e, from.id)
        hit == [id |-> n, depth |-> from.depth + 1]
        seen == [s EXCEPT !.seen = @ \union {n}]
    IN CASE s.truncated \/ n \in s.seen -> s
         [] n \notin s.seen /\ ~s.truncated /\ ~Admits(g.node[n], q) -> seen
         [] OTHER ->
              IF Len(s.hits) - 1 >= q.limit
              THEN [seen EXCEPT !.truncated = TRUE]
              ELSE [seen EXCEPT !.hits = Append(@, hit), !.queue = Append(@, hit)]

RECURSIVE Broaden(_, _, _)
Broaden(g, q, s) ==
    IF s.queue = <<>> \/ s.truncated THEN s
    ELSE LET from == Head(s.queue)
             rest == [s EXCEPT !.queue = Tail(@)]
         IN Broaden(g, q, IF from.depth = DepthCap(q) THEN rest
                          ELSE FoldLeft(LAMBDA r, e : Meet(g, q, from, r, e),
                                        rest, Edges(g, from.id, q.labels)))

Explore(g, q) ==
    LET start == [id |-> q.start, depth |-> 0]
        done == Broaden(g, q, [hits |-> <<start>>, seen |-> {q.start},
                               queue |-> <<start>>, truncated |-> FALSE])
    IN [hits |-> done.hits, truncated |-> done.truncated]

\* -------------------------------------------------------- pathfinding ----
\* A breadth first search over undirected edges.  The queue holds the way
\* to each node reached, which the code keeps as came_from and retraces.
RECURSIVE Seek(_, _, _, _)
Seek(g, q, seen, queue) ==
    IF queue = <<>> THEN <<>>
    ELSE LET way == Head(queue)
             at == way[Len(way)]
             next == FoldLeft(
                 LAMBDA r, e :
                     LET n == Other(e, at)
                     IN IF n \in r.seen \/ r.found # <<>> THEN r
                        ELSE [seen |-> r.seen \union {n},
                              queue |-> Append(r.queue, Append(way, n)),
                              found |-> IF n = q.target THEN Append(way, n)
                                        ELSE <<>>],
                 [seen |-> seen, queue |-> Tail(queue), found |-> <<>>],
                 Edges(g, at, q.labels))
         IN CASE Len(way) - 1 = q.maxLength -> Seek(g, q, seen, Tail(queue))
              [] Len(way) - 1 # q.maxLength /\ next.found # <<>> -> next.found
              [] OTHER -> Seek(g, q, next.seen, next.queue)

FindPath(g, q) ==
    IF q.source = q.target THEN <<q.source>>
    ELSE Seek(g, q, {q.source}, <<<<q.source>>>>)

\* -------------------------------------------------------------- query ----
\* A field's value is a string, and a number where it reads as one.
Absent == [number |-> None, word |-> <<>>, here |-> FALSE]
Value(number, word) == [number |-> number, word |-> word, here |-> TRUE]

FieldValue(node, field) ==
    CASE field = "name" -> Value(None, node.name)
      [] field = "story_time" -> IF node.time = None THEN Absent
                                 ELSE Value(node.time, <<node.time>>)
      [] OTHER -> IF field \in DOMAIN node.fields THEN node.fields[field]
                  ELSE Absent

Numeric(a, b) == a.number # None /\ b.number # None
Less(a, b) == IF Numeric(a, b) THEN a.number < b.number
              ELSE Before(a.word, b.word)
Equal(a, b) == IF Numeric(a, b) THEN a.number = b.number ELSE a.word = b.word

\* A value that is missing matches only "missing" and "neq".
Matches(node, p) ==
    LET v == FieldValue(node, p.field)
    IN CASE p.op = "missing" -> ~v.here
         [] p.op = "exists" -> v.here
         [] p.op = "neq" -> ~v.here \/ ~Equal(v, p.value)
         [] p.op = "eq" -> v.here /\ Equal(v, p.value)
         [] p.op = "contains" -> v.here /\ Within(p.value.word, v.word)
         [] p.op = "lt" -> v.here /\ Less(v, p.value)
         [] p.op = "lte" -> v.here /\ ~Less(p.value, v)
         [] p.op = "gt" -> v.here /\ Less(p.value, v)
         [] p.op = "gte" -> v.here /\ ~Less(v, p.value)

\* The nodes asked about: the neighbours of an anchor, each once, or all.
Candidates(g, q) ==
    LET pool == IF q.anchor = None THEN DOMAIN g.node
                ELSE {Other(e, q.anchor) :
                          e \in Range(Edges(g, q.anchor, q.labels))}
    IN {n \in pool : /\ g.node[n].role \notin q.hidden
                     /\ q.type = "" \/ q.type \in Identifiers(g.node[n])}

UnknownFields(g, q, candidates) ==
    ({p.field : p \in q.where} \union {k.field : k \in Range(q.orderBy)})
    \ ({"name", "story_time"}
       \union UNION {DOMAIN g.node[n].fields : n \in candidates})

\* Mutant of Ahead: a descending key turns absent values round as well.
AheadTurned(a, b, key) ==
    LET up(v, w) == v.here /\ (w.here => Less(v, w))
    IN IF key.descending THEN up(b, a) ELSE up(a, b)

\* How two values of a sort key compare: absent ones last, whichever way.
Ahead(a, b, key) ==
    \/ a.here /\ ~b.here
    \/ a.here /\ b.here /\ (IF key.descending THEN Less(b, a) ELSE Less(a, b))

Sooner(g, a, b, orderBy) ==
    LET va(i) == FieldValue(g.node[a], orderBy[i].field)
        vb(i) == FieldValue(g.node[b], orderBy[i].field)
        decides(i) == Ahead(va(i), vb(i), orderBy[i])
                      \/ Ahead(vb(i), va(i), orderBy[i])
        keys == {i \in 1..Len(orderBy) : decides(i)}
    IN IF keys = {} THEN ByName(g, a, b)
       ELSE LET k == Min(keys) IN Ahead(va(k), vb(k), orderBy[k])

Refused == [refused |-> TRUE, hits |-> <<>>, matched |-> 0, truncated |-> FALSE]

RunQuery(g, q) ==
    LET limit == Max({1, Min({q.limit, QueryCap})})
        candidates == Candidates(g, q)
        ordered == SetToSortSeq({n \in candidates :
                                     \A p \in q.where : Matches(g.node[n], p)},
                                LAMBDA a, b : Sooner(g, a, b, q.orderBy))
        hits == SubSeq(ordered, 1, Min({limit, Len(ordered)}))
    IN IF candidates # {} /\ UnknownFields(g, q, candidates) # {} THEN Refused
       ELSE [refused |-> FALSE, hits |-> hits, matched |-> Len(ordered),
             truncated |-> Len(ordered) > Len(hits)]

\* ----------------------------------------------- overview and one node ----
Overview(g, hubLimit) ==
    LET story == {n \in DOMAIN g.node : g.node[n].role \notin Infra}
        ranked == SetToSortSeq(story, LAMBDA a, b :
                     \/ Degree(g, a) > Degree(g, b)
                     \/ Degree(g, a) = Degree(g, b) /\ ByName(g, a, b))
    IN [total |-> Cardinality(story),
        counts |-> {<<t, Cardinality({n \in story : g.node[n].type = t})>> :
                        t \in {g.node[n].type : n \in story}},
        hubs |-> SubSeq(ranked, 1, Min({hubLimit, Len(ranked)}))]

\* The intents that link a node, the latest first (their generated_at is
\* their time here).
ReferencingIntents(g, n) ==
    SetToSortSeq({Other(e, n) : e \in {f \in Range(g.edges) :
                      /\ f.dst = n /\ f.label = "intent"
                      /\ g.node[f.src].role = "Intent"}},
                 LAMBDA a, b : \/ g.node[a].time > g.node[b].time
                               \/ g.node[a].time = g.node[b].time /\ a < b)

\* A node as it is shown: bookkeeping neighbours only to who may see them.
NodeView(g, n, labels, provenance, visible) ==
    LET intents == ReferencingIntents(g, n)
    IN [edges |-> {e \in Range(Edges(g, n, labels)) :
                     LET role == g.node[Other(e, n)].role
                     IN role \in Infra => role \in visible},
        intents |-> SubSeq(intents, 1, Min({provenance, Len(intents)})),
        count |-> Len(intents)]
=============================================================================
