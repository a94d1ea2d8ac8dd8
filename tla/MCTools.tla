------------------------------- MODULE MCTools -------------------------------
(* Small instances of Tools for TLC. *)
EXTENDS Tools

Node(name, type, role, time, fields, modified) ==
    [name |-> name, type |-> type, role |-> role, time |-> time,
     fields |-> fields, modified |-> modified]

NoFields == [f \in {} |-> Absent]
Rated(number, word) == [f \in {"rating"} |-> Value(number, word)]
Done == [f \in {"rating", "done"} |-> IF f = "done" THEN Value(None, TrueWord)
                                      ELSE Value(9, <<9>>)]

\* Two names share a part, one node has no rating, one a word for it, one a
\* ticked box, one is an event, and two are bookkeeping.  A rating is a number
\* for all nodes that are sorted by it but the word: numbers and words mixed
\* have no order (_compare is not transitive on "9", "10" and "1a").
Cast ==
    (1 :> Node(<<1>>, "person", "", None, Done, 1)) @@
    (2 :> Node(<<1, 2>>, "person", "", None, Rated(10, <<1, 0>>), 3)) @@
    (3 :> Node(<<3>>, "beast", "", None, NoFields, 2)) @@
    (4 :> Node(<<4>>, "Event", "Event", 5, Rated(None, <<10>>), 0)) @@
    (5 :> Node(<<5>>, "Capture", "Capture", 7, NoFields, 0)) @@
    (6 :> Node(<<1, 6>>, "Intent", "Intent", 8, NoFields, 0))

Edge(src, label, dst) == [src |-> src, label |-> label, dst |-> dst]

\* A square with a pendant and a spoke; a chain past the depth; a capture and
\* an intent between two nodes.
Square == {Edge(1, "ally", 2), Edge(2, "ally", 3), Edge(3, "links", 4), Edge(4, "ally", 1)}
Chain == {Edge(1, "ally", 2), Edge(3, "ally", 2), Edge(3, "ally", 4), Edge(4, "links", 5)}
Through == {Edge(5, "links", 1), Edge(5, "links", 3), Edge(6, "intent", 1), Edge(6, "intent", 2)}

WorldOf(edges) == {[node |-> Cast, edges |-> order] : order \in SetToSeqs(edges)}
MCWorlds == WorldOf(Square) \union WorldOf(Chain) \union WorldOf(Through)

\* What a person or the model creates: of a name not in the graph, of a part
\* of one, an event without a time and a bookkeeping node.
MCNewcomers ==
    (7 :> Node(<<7>>, "person", "", None, NoFields, 9)) @@
    (8 :> Node(<<7, 8>>, "person", "", None, NoFields, 9)) @@
    (9 :> Node(<<9>>, "Event", "Event", None, NoFields, 9))

MCNames == {<<1>>, <<7>>, <<8>>, <<>>}

MCSimilarity ==
    (<<1>> :> 700) @@ (<<1, 2>> :> 300) @@ (<<3>> :> 100) @@ (<<4>> :> 250)
    @@ (<<7>> :> 900) @@ (<<7, 8>> :> 150) @@ (<<9>> :> 0)
MCLabels == ("ally" :> 600) @@ ("links" :> 200) @@ ("intent" :> 0)
MCWeights ==
    [seedThreshold |-> 200, sessionBonus |-> 250, labelFloor |-> 350,
     linksPrior |-> 300, capturePrior |-> 600, intentPrior |-> 400,
     fanoutCap |-> 20, expansionCap |-> 4, propagation |-> 600, iterations |-> 2,
     finalThreshold |-> 50, recency |-> 100]

Every == DOMAIN MCLabels
Look(start, depth, limit) ==
    [start |-> start, depth |-> depth, limit |-> limit, labels |-> Every,
     include |-> {}, exclude |-> {}, asOf |-> AnyTime,
     hidden |-> {"Capture", "Intent", "SessionContext"}]
MCExplores ==
    {Look(start, depth, limit) : start \in {None, 1, 2}, depth \in {-1, 1, 3, 5},
                                 limit \in {0, 1, 2, 25}}
    \union {[Look(2, 3, 25) EXCEPT !.labels = {"ally"}],
            [Look(2, 3, 25) EXCEPT !.include = {"person", "beast", "Capture"},
                                   !.hidden = {}],
            [Look(1, 2, 25) EXCEPT !.exclude = {"beast"}],
            [Look(3, 2, 1) EXCEPT !.asOf = 4], [Look(3, 2, 25) EXCEPT !.asOf = 5],
            [Look(1, 2, 3) EXCEPT !.hidden = {}]}

Way(source, target, labels, maxLength) ==
    [source |-> source, target |-> target, labels |-> labels,
     maxLength |-> maxLength]
MCPaths ==
    {Way(source, target, Every, maxLength) :
        source \in {1, 2}, target \in {2, 4, 5}, maxLength \in 0..4}
    \union {Way(None, 4, Every, 4), Way(1, 3, {"ally"}, 4), Way(3, 6, Every, 4)}

Asks(type, anchor, where, orderBy, limit) ==
    [type |-> type, anchor |-> anchor, labels |-> Every, where |-> where,
     orderBy |-> orderBy, limit |-> limit, hidden |-> {}]
Is(field, op, value) == [field |-> field, op |-> op, value |-> value]
By(key, descending) == [key |-> key, field |-> key, descending |-> descending]
MCNodeQueries ==
    {Asks("", anchor, {}, orderBy, limit) :
        anchor \in {None, 1, 3}, limit \in {0, 1, 2, 25},
        orderBy \in {<<>>, <<By("rating", FALSE)>>, <<By("rating", TRUE)>>,
                     <<By("story_time", TRUE), By("name", TRUE)>>}}
    \union {Asks("person", None, {Is("rating", op, Value(10, <<1, 0>>))}, <<>>, 25) :
               op \in {"lt", "lte", "gt", "gte", "eq", "neq"}}
    \union {Asks("", None, {Is("rating", op, Value(None, <<10>>))}, <<>>, 25) :
               op \in {"missing", "exists", "contains", "neq"}}
    \union {Asks("beast", None, {Is("rating", "eq", Value(9, <<9>>))}, <<>>, 25),
            Asks("ghost", None, {Is("rating", "eq", Value(9, <<9>>))}, <<>>, 25),
            Asks("Capture", None, {}, <<>>, 25), Asks("ActivityMode", None, {}, <<>>, 25),
            Asks("ship", None, {Is("rating", "eq", Value(9, <<9>>))}, <<>>, 25),
            Asks("Event", 3, {}, <<By("rating", FALSE)>>, 1)}

\* Sets over people, over beasts, over nothing that is there and without a
\* source.  The people's views: boxes ticked and not, a number, a sort by a
\* built-in key and by an internal one; and views that do not compile.
Leaf(key, condition, value, format) ==
    [key |-> key, condition |-> condition, value |-> value, format |-> format,
     isList |-> FALSE]
Nothing == Value(None, <<>>)
Box(condition) == {Leaf("id-done", condition, Nothing, "checkbox")}
View(name, full, filters, sorts) ==
    [name |-> name, full |-> full, filters |-> filters, sorts |-> sorts]
MCSets ==
    {[name |-> "cast", source |-> "person", views |-> <<
        View("open", "cast/open", Box("eq"), <<>>),
        View("closed", "cast/closed", Box("neq"), <<By("rating", TRUE)>>),
        View("all", "cast/all", {}, <<By("6a4d", TRUE), By("rating", FALSE)>>),
        View("rated", "cast/rated", {Leaf("rating", "greater", Value(9, <<9>>), "text")},
             <<By("storyTime", FALSE)>>),
        View("hex", "cast/hex", {Leaf("6a4d", "eq", Nothing, "text")}, <<>>),
        View("odd", "cast/odd", {Leaf("rating", "in_last", Nothing, "text")}, <<>>),
        View("list", "cast/list", {[Leaf("rating", "eq", Nothing, "text")
                                        EXCEPT !.isList = TRUE]}, <<>>),
        View("bare", "cast/bare", {Leaf("", "eq", Nothing, "text")}, <<>>)>>],
     [name |-> "zoo", source |-> "beast", views |-> <<
        View("tame", "zoo/tame", Box("eq"), <<>>),
        View("fed", "zoo/fed", {Leaf("name", "not_empty", Nothing, "text")}, <<>>)>>],
     [name |-> "log", source |-> "Capture", views |-> <<View("rows", "log/rows", {}, <<>>)>>],
     [name |-> "void", source |-> "ship", views |-> <<View("ships", "void/ships", {}, <<>>)>>],
     [name |-> "shell", source |-> "", views |-> <<View("none", "shell/none", {}, <<>>)>>]}
MCKeys == "id-done" :> "done"
MCSnake == "storyTime" :> "story_time"

\* Bodies that start with a heading, end in blanks, repeat the summary or
\* hold a rule; fields that read back in another form, or are refused.
Para == Line("text", "one")
MCTexts == {<<>>, <<Para, Blank>>, <<Line("heading", "Top"), Blank, Para>>,
            <<Para, Rule>>}
MCSummaries == {<<>>, <<Para>>, <<Para, Line("text", "two")>>}
Put(format, text) == [format |-> format, text |-> text]
MCFieldValues ==
    {Put("checkbox", <<"yes">>), Put("checkbox", <<"no">>), Put("checkbox", <<"perhaps">>),
     Put("number", <<"5.0">>), Put("number", <<"five">>),
     Put("select", <<"a", Comma, "b">>), Put("select", <<>>),
     Put("multi_select", <<"a", Comma, "b">>), Put("multi_select", <<>>),
     Put("date", <<2>>), Put("date", <<2, 1, 3>>), Put("date", <<2, 1>>),
     Put("text", <<"a">>)}

At1 == [node |-> Cast, edges |-> <<Edge(1, "ally", 2), Edge(5, "links", 1)>>]
Starting(worlds, plans) == {[graph |-> w, left |-> p] : w \in worlds, p \in plans}
MCStarts ==
    Starting(MCWorlds, {[read |-> 1]})
    \union Starting({At1},
        {[memory |-> 4, restart |-> 1],
         [memory |-> 2, read |-> 1, restart |-> 1, delete |-> 1],
         [create |-> 2, restart |-> 1],
         [create |-> 1, read |-> 1],
         [find |-> 2, person |-> 2, resync |-> 1],
         [page |-> 4]})
=============================================================================
