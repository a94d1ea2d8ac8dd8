------------------------------- MODULE Ranking -------------------------------
(***************************************************************************)
(* Semantic ranking (application/ranker.py) and the projection of the      *)
(* graph into embeddings it reads (application/semantic_projector.py,      *)
(* infrastructure/semantic/memory_index.py and sqlite_index.py).           *)
(*                                                                         *)
(* Scores and weights are thousandths.  A vector is what it is compared    *)
(* for: Similarity[word] of a node's text, LabelSimilarity of a label.     *)
(***************************************************************************)
EXTENDS GraphReads

CONSTANTS
    Similarity,        \* corpus text (a word) -> its likeness to the query
    LabelSimilarity,   \* label -> its likeness to the query
    Weights            \* RankingWeights

RecallK == 30
Times(a, b) == (a * b) \div 1000

\* 1 / log2(2 + n), for n neighbours.
DegreeNorm(n) == <<1000, 631, 500, 431, 387, 356, 333>>[Min({n, 6}) + 1]

Story(g) == {n \in DOMAIN g.node : g.node[n].role \notin Infra}

\* ---------------------------------------------------------- projection ----
\* The text a node is found by; the index holds the text it last embedded.
CorpusText(node) == node.name

Prune(index, live) == [n \in DOMAIN index \intersect live |-> index[n]]

\* refresh: what changed is embedded again; a full pass prunes as well.
Refresh(index, g, changed, full) ==
    LET touched == IF full THEN Story(g) ELSE changed \intersect Story(g)
        fresh == [n \in DOMAIN index \union touched |->
                     IF n \in touched THEN CorpusText(g.node[n]) ELSE index[n]]
    IN IF full THEN Prune(fresh, Story(g)) ELSE fresh

\* The nearest entries, those below the threshold left out.
Recall(index) ==
    LET near == SetToSortSeq(
            {n \in DOMAIN index : Similarity[index[n]] >= Weights.seedThreshold},
            LAMBDA a, b : \/ Similarity[index[a]] > Similarity[index[b]]
                          \/ Similarity[index[a]] = Similarity[index[b]] /\ a < b)
    IN Range(SubSeq(near, 1, Min({RecallK, Len(near)})))

\* ------------------------------------------------------------- ranking ----
\* Recalled nodes, and those the session was at, with their energy.
Seeds(g, index, session) ==
    LET recalled == Recall(index) \intersect Story(g)
        energy(n) == (IF n \in recalled THEN Similarity[index[n]] ELSE 0)
                     + (IF n \in session THEN Weights.sessionBonus ELSE 0)
    IN [n \in recalled \union (session \intersect Story(g)) |-> energy(n)]

EdgeWeight(g, label, target) ==
    LET conduction == Weights.labelFloor
                      + Times(1000 - Weights.labelFloor, LabelSimilarity[label])
        prior == IF label = "links" THEN Weights.linksPrior ELSE 1000
    IN Times(Times(conduction, prior), DegreeNorm(Degree(g, target)))

\* Seen through a capture or an intent: its other ends, unless it is a hub.
LookThrough(g, origin, infra) ==
    LET role == g.node[infra].role
        others == SelectSeq([i \in 1..Len(Edges(g, infra, DOMAIN LabelSimilarity)) |->
                                Other(Edges(g, infra, DOMAIN LabelSimilarity)[i], infra)],
                            LAMBDA n : n # origin /\ g.node[n].role \notin Infra)
        prior == CASE role = "Capture" -> Weights.capturePrior
                   [] role = "Intent" -> Weights.intentPrior
                   [] OTHER -> 0
    IN IF prior = 0 \/ others = <<>> \/ Len(others) > Weights.fanoutCap THEN <<>>
       ELSE [i \in 1..Len(others) |->
                [from |-> origin, to |-> others[i],
                 weight |-> Times(prior, DegreeNorm(Len(others))),
                 why |-> <<role, origin>>]]

\* What one edge of a seed conducts.
Conduits(g, seed, e) ==
    LET n == Other(e, seed)
    IN IF g.node[n].role \in Infra THEN LookThrough(g, seed, n)
       ELSE <<[from |-> seed, to |-> n, weight |-> EdgeWeight(g, e.label, n),
               why |-> <<e.label, seed>>]>>

\* A conduit recruits its target, while the candidates are not too many.
Recruit(s, conduit) ==
    IF conduit.to \in s.candidates
    THEN [s EXCEPT !.conduits = Append(@, conduit)]
    ELSE IF Cardinality(s.candidates) >= Weights.expansionCap THEN s
    ELSE [candidates |-> s.candidates \union {conduit.to},
          conduits |-> Append(s.conduits, conduit)]

Expand(g, seeds) ==
    LET ordered == SetToSortSeq(DOMAIN seeds, LAMBDA a, b :
                       \/ seeds[a] > seeds[b]
                       \/ seeds[a] = seeds[b] /\ a < b)
        labels == DOMAIN LabelSimilarity
    IN FoldLeft(LAMBDA s, seed :
                    FoldLeft(LAMBDA r, e : FoldLeft(Recruit, r, Conduits(g, seed, e)),
                             s, Edges(g, seed, labels)),
                [candidates |-> DOMAIN seeds, conduits |-> <<>>], ordered)

\* One round of spreading: every candidate's base, and what flows in.
Flow(scores, conduit) ==
    Times(Times(Weights.propagation, conduit.weight), scores[conduit.from])

Base(seeds, n) == IF n \in DOMAIN seeds THEN seeds[n] ELSE 0

Spread(seeds, expanded, scores) ==
    [n \in expanded.candidates |->
        Base(seeds, n) + FoldLeft(LAMBDA sum, c : IF c.to = n
                                      THEN sum + Flow(scores, c) ELSE sum,
                                  0, expanded.conduits)]

RECURSIVE Rounds(_, _, _, _)
Rounds(seeds, expanded, scores, k) ==
    IF k = 0 THEN scores
    ELSE Rounds(seeds, expanded, Spread(seeds, expanded, scores), k - 1)

\* The latest changed get the most of the bonus, the first of them none.
Recency(g, candidates, n) ==
    LET stamped == {m \in candidates : g.node[m].modified > 0}
        earlier == {m \in stamped : g.node[m].modified < g.node[n].modified}
    IN IF n \notin stamped THEN 0
       ELSE IF stamped = {n} THEN Weights.recency
       ELSE (Weights.recency * Cardinality(earlier)) \div (Cardinality(stamped) - 1)

\* Why a hit is one: its own match, then what flowed in, the strongest
\* first; three reasons at most.
Evidence(seeds, expanded, scores, bonus, n) ==
    LET flows == {c \in Range(expanded.conduits) : c.to = n /\ Flow(scores, c) > 0}
        amount(w) == Max({Flow(scores, c) : c \in {d \in flows : d.why = w}})
        whys == SetToSortSeq({c.why : c \in flows},
                             LAMBDA v, w : amount(v) > amount(w))
        reasons == (IF n \in DOMAIN seeds THEN <<<<"matched", n>>>> ELSE <<>>)
                   \o whys
                   \o (IF bonus > 0 THEN <<<<"recent", n>>>> ELSE <<>>)
    IN SubSeq(reasons, 1, Min({3, Len(reasons)}))

\* Without seeds nothing is guessed; below the last threshold nothing told.
Rank(g, index, session, limit) ==
    LET seeds == Seeds(g, index, session)
        expanded == Expand(g, seeds)
        bonus(n) == Recency(g, expanded.candidates, n)
        start == [n \in expanded.candidates |-> Base(seeds, n)]
        before == Rounds(seeds, expanded, start, Weights.iterations - 1)
        spread == Spread(seeds, expanded, before)
        scores == [n \in expanded.candidates |-> spread[n] + bonus(n)]
        told == SetToSortSeq(
            {n \in expanded.candidates : scores[n] >= Weights.finalThreshold},
            LAMBDA a, b : \/ scores[a] > scores[b]
                          \/ scores[a] = scores[b] /\ ByName(g, a, b))
    IN IF DOMAIN seeds = {} THEN <<>>
       ELSE [i \in 1..Min({limit, Len(told)}) |->
                [id |-> told[i], score |-> scores[told[i]],
                 evidence |-> Evidence(seeds, expanded, before, bonus(told[i]),
                                       told[i])]]
=============================================================================
