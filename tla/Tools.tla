-------------------------------- MODULE Tools --------------------------------
(***************************************************************************)
(* The tools a model calls on the graph (interface/tools.py): the reads    *)
(* over the index, find_node with its resync, the working memory of the    *)
(* session, composite writes, and the document behind a node.  In the bot  *)
(* a turn makes its calls one by one; the MCP server lets them overlap.    *)
(*                                                                         *)
(* What people do elsewhere waits in the store until a resync or a start   *)
(* brings it in.                                                           *)
(***************************************************************************)
EXTENDS Ranking, WorkingMemory, Wire, SavedViews

CONSTANTS
    Callers, Serial,     \* who calls, and whether one call ends the other
    Starts,              \* graphs to start from, with the kinds of steps
                         \* taken there and how many of each: the bounds
    Newcomers,           \* id -> node: what may be created
    Names,               \* names asked for
    FlushEvery,          \* write calls after which the session is saved
    SpaceTypes,          \* the node types of the space's registry
    Explores, Paths, NodeQueries,   \* arguments of the read tools
    Texts, Summaries, FieldValues   \* what is written to the document

VARIABLES
    graph,      \* GraphIndex
    staged,     \* ids a person created that no resync has brought in
    gone,       \* ids a person deleted; the index keeps them (S4)
    embedded,   \* the semantic index
    session,    \* SessionState
    saved,      \* its last snapshot, and the writes since
    starts,     \* how often the process started
    call,       \* caller -> the find_node call it is in
    answer,     \* what a read tool answered in this step, with what was asked
    page,       \* the document object in the store
    meant,      \* what its last writes meant it to hold
    left        \* steps left of each kind

vars == <<graph, staged, gone, embedded, session, saved, starts, call, answer,
          page, meant, left>>
others == <<saved, starts, page, meant>>

Idle == [step |-> "idle", name |-> <<>>, known |-> {}]
NoAnswer == [kind |-> "none"]

Init ==
    /\ \E s \in Starts : graph = s.graph /\ left = s.left
    /\ staged = {} /\ gone = {}
    /\ embedded = Refresh(<<>>, graph, {}, TRUE)
    /\ session = EmptySession
    /\ saved = [snapshot |-> ToSnapshot(EmptySession), writes |-> 0]
    /\ starts = 0
    /\ call = [c \in Callers |-> Idle]
    /\ answer = NoAnswer
    /\ page = [summary |-> <<>>, markdown |-> <<>>, links |-> {}, fields |-> <<>>]
    /\ meant = [body |-> <<>>, links |-> {}, fields |-> <<>>]

Spend(kind) ==
    /\ kind \in DOMAIN left /\ left[kind] > 0
    /\ left' = [left EXCEPT ![kind] = @ - 1]

MayCall(c) ==
    /\ call[c] = Idle
    /\ Serial => \A d \in Callers : call[d] = Idle

\* ---------------------------------------------------- people and resync ----
PersonCreates ==
    /\ Spend("person")
    /\ \E n \in DOMAIN Newcomers \ (DOMAIN graph.node \union staged) :
          staged' = staged \union {n}
    /\ UNCHANGED <<graph, gone, embedded, session, call, others>>
    /\ answer' = NoAnswer

PersonDeletes ==
    /\ Spend("delete")
    /\ \E n \in DOMAIN graph.node \ gone : gone' = gone \union {n}
    /\ UNCHANGED <<graph, staged, embedded, session, call, others>>
    /\ answer' = NoAnswer

Grown(g, new) ==
    [g EXCEPT !.node = [n \in DOMAIN g.node \union new |->
                           IF n \in DOMAIN g.node THEN g.node[n] ELSE Newcomers[n]]]

\* The one way changes come in: the index first, then its embeddings.
ResyncOutOfBand ==
    /\ graph' = Grown(graph, staged)
    /\ embedded' = Refresh(embedded, graph', staged, FALSE)
    /\ staged' = {}

ContextResync ==
    /\ Spend("resync")
    /\ \E c \in Callers : MayCall(c)
    /\ ResyncOutOfBand
    /\ UNCHANGED <<gone, session, call, others>>
    /\ answer' = NoAnswer

\* ------------------------------------------------------------ find_node ----
Found(name, known, hits, fuzzy) ==
    [kind |-> "find", name |-> name, known |-> known, hits |-> hits,
     fuzzy |-> fuzzy]

FindLimit == 3
ByNameNow(g, name) == FindByName(g, name, "", FindLimit, {})

FindNode(c) ==
    /\ Spend("find") /\ MayCall(c)
    /\ \E name \in Names :
          LET hits == ByNameNow(graph, name)
              known == DOMAIN graph.node \union staged
          IN IF hits # <<>>
             THEN answer' = Found(name, known, hits, <<>>) /\ UNCHANGED call
             ELSE /\ call' = [call EXCEPT ![c] = [step |-> "resync",
                                   name |-> name, known |-> known]]
                  /\ answer' = NoAnswer
    /\ UNCHANGED <<graph, staged, gone, embedded, session, others>>

\* Mutant of FindResyncs: what the resync brought in is not looked up.
FindResyncsOnly(c) ==
    /\ call[c].step = "resync"
    /\ ResyncOutOfBand
    /\ call' = [call EXCEPT ![c].step = "missed"]
    /\ answer' = NoAnswer
    /\ UNCHANGED <<gone, session, left, others>>

\* A miss may be stale: the index is brought up to date, and only if that
\* brought something is the name looked up again.
FindResyncs(c) ==
    /\ call[c].step = "resync"
    /\ ResyncOutOfBand
    /\ call' = [call EXCEPT ![c].step = IF staged # {} THEN "again" ELSE "missed"]
    /\ answer' = NoAnswer
    /\ UNCHANGED <<gone, session, left, others>>

\* Without a match by name the input is taken for a description.
FindEnds(c) ==
    /\ call[c].step \in {"again", "missed"}
    /\ LET hits == IF call[c].step = "again" THEN ByNameNow(graph, call[c].name)
                   ELSE <<>>
           fuzzy == IF hits = <<>> THEN Rank(graph, embedded, {}, FindLimit)
                    ELSE <<>>
       IN answer' = Found(call[c].name, call[c].known, hits, fuzzy)
    /\ call' = [call EXCEPT ![c] = Idle]
    /\ UNCHANGED <<graph, staged, gone, embedded, session, left, others>>

\* ----------------------------------------------------------- read tools ----
Visit(n) == session' = Touch(session, n)

Reads(c) ==
    /\ Spend("read") /\ MayCall(c)
    /\ UNCHANGED <<graph, staged, gone, embedded, call, others>>

\* An id, or a name that is not ambiguous, and nothing by meaning.
Identified ==
    {[id |-> n, name |-> <<>>] : n \in DOMAIN graph.node}
    \union {[id |-> None, name |-> name] : name \in Names}

GetNode(c) ==
    /\ Reads(c)
    /\ \E ident \in Identified :
          LET named == Resolve(graph, ident, {})
              n == named[1]
          IN IF Len(named) = 1
             THEN /\ answer' = [kind |-> "node", view |-> NodeView(graph, n,
                                   DOMAIN LabelSimilarity, 2, {})]
                  /\ Visit(n)
             ELSE answer' = NoAnswer /\ UNCHANGED session

\* The node to start from: as given, else what the session is at.  The
\* default may be a node that went with a restart: the call fails then.
Start(given) == IF given # None THEN given ELSE DefaultStart(session)

ExploreTool(c) ==
    /\ Reads(c)
    /\ \E q \in Explores :
          LET from == Start(q.start)
              asked == [q EXCEPT !.start = from]
          IN IF Holds(graph, from)
             THEN /\ answer' = [kind |-> "explore", q |-> asked,
                                result |-> Explore(graph, asked)]
                  /\ Visit(from)
             ELSE answer' = NoAnswer /\ UNCHANGED session

FindPathTool(c) ==
    /\ Reads(c)
    /\ \E q \in Paths :
          LET from == Start(q.source)
              asked == [q EXCEPT !.source = from]
          IN IF Holds(graph, from) /\ Holds(graph, q.target)
             THEN /\ answer' = [kind |-> "path", q |-> asked,
                                way |-> FindPath(graph, asked)]
                  /\ Visit(from)
             ELSE answer' = NoAnswer /\ UNCHANGED session

Roles == Infra \union {"Event"}

\* A type filter that names nothing is a slip, and told as one: the space's
\* types, the roles, and what some node carries are known.
KnownType(type) ==
    type \in SpaceTypes \union Roles
             \union UNION {Identifiers(graph.node[n]) : n \in DOMAIN graph.node}

\* Bookkeeping is hidden unless its type is asked for; an Activity Mode
\* stays hidden even then.
QueryTool(c) ==
    /\ Reads(c)
    /\ \E q \in NodeQueries :
          LET asked == [q EXCEPT !.hidden = IF q.type \in Infra THEN {} ELSE Infra]
          IN /\ q.anchor # None => Holds(graph, q.anchor)
             /\ answer' =
                   IF q.type # "" /\ (~KnownType(q.type) \/ q.type = "ActivityMode")
                   THEN NoAnswer
                   ELSE [kind |-> "query", q |-> asked,
                         result |-> RunQuery(graph, asked)]
    /\ UNCHANGED session

ViewNames == UNION {{set.name} \union UNION {{v.name, v.full} : v \in Range(set.views)} :
                        set \in Sets}

QueryView(c) ==
    /\ Reads(c)
    /\ \E name \in ViewNames, limit \in {1, 25} :
          LET named == Named(Catalog(graph), name)
              v == CHOOSE w \in named : TRUE
          IN answer' = IF Cardinality(named) # 1 THEN NoAnswer
                       ELSE [kind |-> "view", of |-> v.of,
                             q |-> [v.query EXCEPT !.limit = limit],
                             result |-> RunView(graph, v, limit)]
    /\ UNCHANGED session

ContextOverview(c) ==
    /\ Reads(c)
    /\ answer' = [kind |-> "overview", overview |-> Overview(graph, 2)]
    /\ UNCHANGED session

\* ------------------------------------------------------- working memory ----
Remembers(c) ==
    /\ Spend("memory") /\ MayCall(c)
    /\ UNCHANGED <<graph, staged, gone, embedded, call, starts, page, meant>>
    /\ answer' = NoAnswer

ContextHold(c) ==
    /\ Remembers(c)
    /\ \E n \in DOMAIN graph.node, detail \in {"full", "summaries"} :
          session' = Hold(session, n, detail)
    /\ UNCHANGED saved

\* A held node that no longer exists can still be let go.
ContextRelease(c) ==
    /\ Remembers(c)
    /\ \E n \in {session.held[i].id : i \in 1..Len(session.held)} :
          session' = Release(session, n)
    /\ UNCHANGED saved

ContextClear(c) ==
    /\ Remembers(c)
    /\ session' = Clear(session)
    /\ UNCHANGED saved

Flushed == saved' = [snapshot |-> ToSnapshot(session'), writes |-> 0]

NoteMutation ==
    IF saved.writes + 1 >= FlushEvery THEN Flushed
    ELSE saved' = [saved EXCEPT !.writes = @ + 1]

\* A note is saved at once, everything else when the turn ends.
ContextNote(c) ==
    /\ Remembers(c)
    /\ \E text \in {"", "plan"} : session' = [session EXCEPT !.scratchpad = text]
    /\ Flushed

EndTurn(c) == Remembers(c) /\ UNCHANGED session /\ Flushed

\* A new process: the index from the store, every node embedded, the
\* session from its snapshot.
Restart ==
    /\ Spend("restart")
    /\ graph' = FoldLeft(RemoveNode, Grown(graph, staged), SetToSeq(gone))
    /\ staged' = {} /\ gone' = {}
    /\ embedded' = Refresh(embedded, graph', {}, TRUE)
    /\ session' = FromSnapshot(saved.snapshot)
    /\ starts' = starts + 1
    /\ call' = [c \in Callers |-> Idle]
    /\ answer' = NoAnswer
    /\ UNCHANGED <<saved, page, meant>>

\* ---------------------------------------------------------------- writes ----
Denies(node) == node.role \in Infra \/ (node.role = "Event" /\ node.time = None)

Linked(g, edges) == FoldLeft(AddEdge, g, SetToSeq(edges))

\* A composite create: node and links, all or nothing; the targets enter
\* the trail, the new node last.
CreateNode(n, targets) ==
    LET ends == SetToSeq(targets)
        edges == {[src |-> n, label |-> "ally", dst |-> m] : m \in targets}
    IN /\ ~Denies(Newcomers[n])
       /\ graph' = Linked(UpsertNode(graph, n, Newcomers[n]), edges)
       /\ session' = [session EXCEPT !.recent =
                         Record(FoldLeft(Record, @, ends), n)]

CreateNodeTool(c) ==
    /\ Spend("create") /\ MayCall(c)
    /\ \E n \in DOMAIN Newcomers \ (DOMAIN graph.node \union staged),
          targets \in SUBSET DOMAIN graph.node :
          Cardinality(targets) <= 2 /\ CreateNode(n, targets)
    /\ NoteMutation
    /\ UNCHANGED <<staged, gone, embedded, call, starts, page, meant>>
    /\ answer' = NoAnswer

\* update_node: links one by one after the fields.  When one of them fails,
\* what went before stays, and neither trail nor count of writes moves.
UpdateNodeTool(c) ==
    /\ Spend("create") /\ MayCall(c)
    /\ \E n \in DOMAIN graph.node, m \in DOMAIN graph.node,
          old \in SUBSET Range(graph.edges), failed \in BOOLEAN :
          /\ ~Denies(graph.node[n]) /\ Cardinality(old) <= 1
          /\ LET added == AddEdge(graph, [src |-> n, label |-> "ally", dst |-> m])
             IN IF failed THEN graph' \in {graph, added} /\ UNCHANGED <<session, saved>>
                ELSE /\ graph' = FoldLeft(RemoveEdge, added, SetToSeq(old))
                     /\ Visit(n) /\ NoteMutation
    /\ UNCHANGED <<staged, gone, embedded, call, starts, page, meant>>
    /\ answer' = NoAnswer

\* ---------------------------------------------------------- the document ----
\* One object: its summary, body and field go in one write; a change of its
\* links rewrites the footer, with the body as the store has it.
Written(c) ==
    /\ Spend("page") /\ MayCall(c)
    /\ UNCHANGED <<graph, staged, gone, embedded, session, saved, starts, call>>
    /\ answer' = NoAnswer

UpdateBody(c) ==
    /\ Written(c)
    /\ \E body \in Texts :
          LET sent == ComposeBody(body, RenderFooter(page.links))
          IN /\ page' = [page EXCEPT !.markdown = Imported(sent)]
             /\ meant' = [meant EXCEPT !.body = body]

UpdateSummary(c) ==
    /\ Written(c)
    /\ \E summary \in Summaries : page' = [page EXCEPT !.summary = summary]
    /\ UNCHANGED meant

UpdateField(c) ==
    /\ Written(c)
    /\ \E f \in FieldValues :
          LET entry == NativeEntry(f.format, f.text)
          IN IF entry.rejected THEN UNCHANGED <<page, meant>>
             ELSE /\ page' = [page EXCEPT !.fields = <<[format |-> f.format,
                                                       raw |-> entry.raw]>>]
                  /\ meant' = [meant EXCEPT !.fields = <<f>>]

\* add_link and remove_link: targets and footer in one PATCH.
PatchLinks(c) ==
    /\ Written(c)
    /\ \E m \in 1..2 :
          LET links == IF m \in page.links THEN page.links \ {m}
                       ELSE page.links \union {m}
              body == FooterMarkdown(page, links)
          IN /\ page' = [page EXCEPT !.links = links,
                            !.markdown = IF body = <<>> THEN @
                                         ELSE Imported(body[1])]
             /\ meant' = [meant EXCEPT !.links = links]

\* edit_document: the body is read, a section of it replaced, and it is
\* written back as a body like any other.
EditDocument(c) ==
    /\ Written(c)
    /\ LET body == BodyAndFooterOf(page).body
           last == [body EXCEPT ![Len(body)] = Line("text", "edited")]
       IN /\ body # <<>>
          /\ page' = [page EXCEPT !.markdown =
                         Imported(ComposeBody(last, RenderFooter(page.links)))]
          /\ meant' = [meant EXCEPT !.body = last]

Next ==
    \/ PersonCreates \/ PersonDeletes \/ ContextResync \/ Restart
    \/ \E c \in Callers :
          \/ FindNode(c) \/ FindResyncs(c) \/ FindEnds(c)
          \/ GetNode(c) \/ ExploreTool(c) \/ FindPathTool(c)
          \/ QueryTool(c) \/ QueryView(c) \/ ContextOverview(c)
          \/ ContextHold(c) \/ ContextRelease(c) \/ ContextClear(c)
          \/ ContextNote(c) \/ EndTurn(c)
          \/ CreateNodeTool(c) \/ UpdateNodeTool(c)
          \/ UpdateBody(c) \/ UpdateSummary(c) \/ UpdateField(c)
          \/ PatchLinks(c) \/ EditDocument(c)

Spec == Init /\ [][Next]_vars

\* ------------------------------------------------------------ properties ----
\* The nodes within k edges of those in s, through admitted nodes only.
RECURSIVE Reach(_, _, _)
Reach(q, s, k) ==
    IF k = 0 THEN s
    ELSE Reach(q, s \union {n \in DOMAIN graph.node :
                    /\ Admits(graph.node[n], q)
                    /\ \E e \in Range(graph.edges) :
                          /\ e.label \in q.labels
                          /\ n \in {e.src, e.dst} /\ Other(e, n) \in s}, k - 1)

\* explore tells every node within its depth once, at its true distance and
\* the nearest first, and says so when the limit cut some off
\* (traversal.explore: pruning, the marking of what was seen, the limit).
ExploreExact ==
    answer.kind = "explore" =>
        LET q == answer.q
            hits == answer.result.hits
            told == {hits[i].id : i \in 1..Len(hits)}
            all == Reach(q, {q.start}, DepthCap(q))
        IN /\ told \subseteq all /\ IsInjective(hits)
           /\ Cardinality(told) = Len(hits)
           /\ \A i \in 1..Len(hits) :
                 /\ hits[i].id \in Reach(q, {q.start}, hits[i].depth)
                 /\ hits[i].depth > 0 =>
                       hits[i].id \notin Reach(q, {q.start}, hits[i].depth - 1)
                 /\ i > 1 => hits[i - 1].depth <= hits[i].depth
           /\ answer.result.truncated <=> (Cardinality(all) - 1 > q.limit)
           /\ ~answer.result.truncated => told = all

\* find_path gives a shortest way along edges of the labels asked for, and
\* none exactly when there is none of at most max_length edges
\* (pathfinding.find_path and _reconstruct).
PathShortest ==
    answer.kind = "path" =>
        LET q == answer.q
            way == answer.way
            joined(a, b) == \E e \in Range(graph.edges) :
                               e.label \in q.labels /\ {e.src, e.dst} = {a, b}
            near[k \in 0..5] ==
                IF k = 0 THEN {q.source}
                ELSE near[k - 1] \union {n \in DOMAIN graph.node :
                         \E m \in near[k - 1] : joined(m, n)}
        IN IF way = <<>> THEN q.target \notin near[q.maxLength]
           ELSE /\ way[1] = q.source /\ Last(way) = q.target
                /\ \A i \in 1..(Len(way) - 1) : joined(way[i], way[i + 1])
                /\ Len(way) - 1 <= q.maxLength
                /\ \A k \in 0..(Len(way) - 2) : q.target \notin near[k]

\* Both walks over the graph, whatever order its edges come in.
WalksExact == ExploreExact /\ PathShortest

\* A query tells the best of all that match: nothing left out comes before a
\* node told, nodes without the sort field come last in either direction,
\* and the counts say what was cut (query.run_query).  A saved view tells
\* what Anytype means by its filters, boxes that are not ticked included
\* (view_catalog.compile_view).
QueryExact ==
    answer.kind \in {"query", "view"} /\ ~answer.result.refused =>
        LET q == answer.q
            hits == answer.result.hits
            told == Range(hits)
            match == IF answer.kind = "view"
                     THEN Meant(graph, answer.of) \intersect Story(graph)
                     ELSE {n \in Candidates(graph, q) :
                              \A p \in q.where : Matches(graph.node[n], p)}
            lacks(n) == q.orderBy # <<>>
                        /\ ~FieldValue(graph.node[n], q.orderBy[1].field).here
        IN /\ told \subseteq match
           /\ answer.result.matched = Cardinality(match)
           /\ answer.result.truncated <=> (told # match)
           /\ Len(hits) = Min({Cardinality(match), Max({1, Min({q.limit, QueryCap})})})
           /\ \A i, j \in 1..Len(hits) :
                 i < j => ~Sooner(graph, hits[j], hits[i], q.orderBy)
           /\ \A n \in match \ told, m \in told :
                 /\ ~Sooner(graph, n, m, q.orderBy)
                 /\ lacks(m) => lacks(n)

\* A saved view of the catalog runs: it "only lists views that run with the
\* store's own meaning" (view_catalog.py, V5).  One that asks for a box that
\* no object has ticked does not: the index has no such field, and the query
\* takes it for a slip.
ViewsRun == answer.kind = "view" => ~answer.result.refused

\* find_node says that nothing has a name only when nothing in the store had
\* it when it was asked: a false miss makes the model create the node twice.
\* What it offers by meaning is offered only then, with its reason, and is
\* no bookkeeping node (tools.find_node_tool, Ranker.rank).
FindHonest ==
    answer.kind = "find" =>
        LET node(n) == IF Holds(graph, n) THEN graph.node[n] ELSE Newcomers[n]
            fuzzy == answer.fuzzy
        IN /\ answer.hits = <<>> /\ answer.name # <<>> =>
                 \A n \in answer.known : node(n).role \notin Infra =>
                                             ~Within(answer.name, node(n).name)
           /\ \A i \in 1..Len(fuzzy) :
                 /\ node(fuzzy[i].id).role \notin Infra
                 /\ fuzzy[i].score >= Weights.finalThreshold
                 /\ fuzzy[i].evidence # <<>>
                 /\ i > 1 => fuzzy[i - 1].score >= fuzzy[i].score

Flat(lines) == Stripped(Imported(lines))

\* Whatever is written to a document in whatever order, its body reads back
\* as last written (a heading on its first line aside), never with a summary
\* or a footer grown into it; its links and its field read back, and the
\* in-memory repository says the same of the field, an unticked box aside
\* (mapping.body_and_footer_of, compose_body, property_entry, field_value).
PageKept ==
    LET now == BodyAndFooterOf(page)
    IN /\ Flat(now.body) = Flat(meant.body)
       /\ Spoken(now.footer) = RenderFooter(meant.links)
       /\ ToEdges(1, [links |-> page.links, ally |-> page.links])
             = {[src |-> 1, label |-> "ally", dst |-> m] : m \in meant.links}
       /\ page.fields # <<>> =>
             LET f == meant.fields[1]
                 shown == FieldText(f.format, page.fields[1].raw)
             IN \/ shown = NormalizeValue(f.format, f.text)
                \/ shown = <<>> /\ NormalizeValue(f.format, f.text) = <<"false">>
=============================================================================
