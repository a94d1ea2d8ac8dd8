----------------------------- MODULE ProsePage -----------------------------
(***************************************************************************)
(* What the prose page says of a document (orchestrator/prose_bridge.py):  *)
(* for each block of the body who wrote it and its badge, for each word    *)
(* its author, status and intent, and where the comments stand.  All of it *)
(* is derived from the log, never stored; the body is the store's, which   *)
(* the log may lag behind.                                                 *)
(***************************************************************************)
EXTENDS RevisionLog

\* word_token_authors: who typed each word of the final body.  A word a block
\* has from the one it replaced keeps its author, the others get that of the
\* revision; a block that comes back as it was keeps its own.
WordAuthors(log) ==
    LET authored(texts, acc, e) ==
            LET hashes == ApplyOps(acc.hashes, e.ops)
                entering(h) ==
                    LET from == Closest(texts, h, Removed(acc, e))
                        old == CHOOSE g \in from : TRUE
                    IN  IF from = {} THEN Uniform(Words(texts, h), e.by)
                        ELSE Inherit(acc.state[old], Words(texts, old), Words(texts, h), e.by)
            IN  IF ~Advances(acc, e) THEN acc
                ELSE [acc EXCEPT !.hashes = hashes, !.started = TRUE,
                        !.state = [h \in DOMAIN @ \union Range(hashes) |->
                                    IF h \in DOMAIN @ THEN @[h] ELSE entering(h)]]
        walked(texts) == Fold(LAMBDA acc, e : authored(texts, acc, e), Empty, log)
    IN  With(With(TextsOf(log), walked), LAMBDA acc : Restrict(acc.state, Range(acc.hashes)))

\* blame: the last revision that put each block into the body.
Blame(log) ==
    LET brought(acc, e) ==
            LET hashes == ApplyOps(acc.hashes, e.ops)
                fresh == Range(hashes) \ Range(acc.hashes)
            IN  IF ~Advances(acc, e) THEN acc
                ELSE [acc EXCEPT !.hashes = hashes, !.started = TRUE,
                        !.state = [h \in fresh |-> [by |-> e.by, seq |-> e.seq]] @@ @]
        walked == Fold(brought, Empty, log)
    IN  Restrict(walked.state, Range(walked.hashes))

\* badges_of: a block is approved, or a person's, only if every word is; one
\* locked word makes it locked.
Badge(state) ==
    LET every(value) == state.status # <<>> /\ Range(state.status) = {value}
        said == SelectSeq(<<"locked", "needs_change", "minor_revisions">>,
                          LAMBDA value : value \in Range(state.intent))
    IN  [status |-> IF every("approved") THEN "approved"
                    ELSE IF every("human") THEN "human" ELSE "raw_ai",
         intent |-> IF said = <<>> THEN "flexible" ELSE Head(said)]

Neutral == [status |-> "raw_ai", intent |-> "flexible"]

\* _segment_rows: the row of a block as the store has it.  A block whose words
\* are not those of the log has no words marked.
Segment(text, blame, authors, states) ==
    LET h == HashOf[text]
        words == WordsOf[text]
        fits(values) == DOMAIN values = DOMAIN words
        said(what) == IF h \in DOMAIN states /\ fits(states[h][what]) THEN states[h][what]
                      ELSE Uniform(words, Neutral[what])
    IN  [badge |-> IF h \in DOMAIN states THEN Badge(states[h]) ELSE Neutral,
         blame |-> IF h \in DOMAIN blame THEN {blame[h]} ELSE {},
         words |-> IF h \notin DOMAIN authors \/ ~fits(authors[h]) THEN <<>>
                   ELSE [k \in DOMAIN words |-> [author |-> authors[h][k],
                            status |-> said("status")[k], intent |-> said("intent")[k]]]]

\* _comment_rows: the first block that carries the anchor, 0 for a comment that
\* came loose; words the block does not have give way to the whole of it.
CommentRow(c, body) ==
    LET at == {i \in DOMAIN body : HashOf[body[i]] = c.hash}
    IN  IF at = {} THEN [id |-> c.id, block |-> 0, words |-> {}]
        ELSE [id |-> c.id, block |-> Min(at),
              words |-> IF c.words \subseteq DOMAIN WordsOf[body[Min(at)]] THEN c.words ELSE {}]

\* _doc_payload
Page(log, body) ==
    LET rows(blame, authors, states) ==
            [i \in DOMAIN body |-> Segment(body[i], blame, authors, states)]
        comments == LiveComments(log)
    IN  [segments |->
            With(Blame(log), LAMBDA blame :
                With(WordAuthors(log), LAMBDA authors :
                    With(TokenStates(log), LAMBDA states : rows(blame, authors, states)))),
         comments |-> [i \in DOMAIN comments |-> CommentRow(comments[i], body)]]
=============================================================================
