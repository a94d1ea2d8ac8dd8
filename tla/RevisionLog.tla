---------------------------- MODULE RevisionLog ----------------------------
(***************************************************************************)
(* The revision log of one tracked document (domain/revisions.py): what is *)
(* written for a new body, what the log is read back as (the hash sequence *)
(* of the body, the review state of its words, its comments), how a        *)
(* pending human revision rolls up, and what compaction keeps.             *)
(*                                                                         *)
(* A block of a body is a text; HashOf is its identity, the hash of the    *)
(* normalized text, and WordsOf its tokens, the words of the raw text.     *)
(* The words of a text are distinct.                                       *)
(***************************************************************************)
EXTENDS Integers, Sequences, SequencesExt, FiniteSetsExt, Functions

CONSTANTS
    Texts,      \* the texts a block may have
    HashOf,     \* text -> hash
    WordsOf,    \* text -> its words
    Resembles,  \* pairs <<old, new>> of hashes that difflib calls one block edited
    Interval,   \* every so many revisions stores the full hash list
    Cap         \* entries a log may have before it is compacted

ASSUME LogAssumption ==
    /\ HashOf \in [Texts -> STRING]
    /\ \A t \in Texts : IsInjective(WordsOf[t])
    /\ Interval \in Nat \ {0} /\ Cap \in Nat \ {0}

Hashes(body) == [i \in DOMAIN body |-> HashOf[body[i]]]

\* op(value), the value computed once: TLC computes the argument of an operator
\* again wherever an action uses it.
With(value, op(_)) == CHOOSE r \in {op(v) : v \in {value}} : TRUE

\* FoldLeft in that manner.
Fold(op(_, _), base, s) ==
    LET sofar[i \in 0..Len(s)] ==
            IF i = 0 THEN base ELSE With(sofar[i - 1], LAMBDA acc : op(acc, s[i]))
    IN  sofar[Len(s)]

IsRevision(e) == e.kind \in {"keyframe", "delta"}
IsRecord(e) == IsRevision(e) \/ e.kind = "truncated"

\* What an entry says of block texts, and what a log does: the last says it.
TextsOf(log) ==
    LET saying(h) == {i \in DOMAIN log : IsRevision(log[i]) /\ h \in DOMAIN log[i].new}
        named == UNION {DOMAIN log[i].new : i \in {j \in DOMAIN log : IsRevision(log[j])}}
    IN  [h \in named |-> log[Max(saying(h))].new[h]]

LastSeq(log) ==
    LET seqs == {log[i].seq : i \in {j \in DOMAIN log : IsRevision(log[j])}}
    IN  IF seqs = {} THEN 0 ELSE Max(seqs)

(***************************************************************************)
(* Writing a revision                                                      *)
(***************************************************************************)
\* A delta keeps blocks of the sequence before it, by position, and names the
\* others.  Which of several equal blocks is kept makes no difference to what
\* the delta reads back as.
OpsBetween(old, new) ==
    [k \in DOMAIN new |->
        LET at == {i \in DOMAIN old : old[i] = new[k]}
        IN  IF at = {} THEN [keep |-> 0, emit |-> new[k]]
                       ELSE [keep |-> Min(at), emit |-> ""]]

ApplyOps(old, ops) ==
    LET kept == SelectSeq(ops, LAMBDA op : op.keep = 0 \/ op.keep \in DOMAIN old)
    IN  [k \in DOMAIN kept |->
            IF kept[k].keep = 0 THEN kept[k].emit ELSE old[kept[k].keep]]

\* The body a log says was there last.
CurrentHashes(log) ==
    LET read(old, e) == IF IsRevision(e) THEN ApplyOps(old, e.ops) ELSE old
        keyframes == {i \in DOMAIN log : log[i].kind = "keyframe"}
    IN  IF keyframes = {} THEN <<>>
        ELSE Fold(read, <<>>, SubSeq(log, Min(keyframes), Len(log)))

\* The texts of a body that the log does not have, or not as they are now; of
\* two texts with one hash the last is kept.
NewBlocks(body, known) ==
    LET changed == {i \in DOMAIN body : \/ HashOf[body[i]] \notin DOMAIN known
                                        \/ known[HashOf[body[i]]] # body[i]}
    IN  [h \in {HashOf[body[i]] : i \in changed} |->
            body[Max({i \in changed : HashOf[body[i]] = h})]]

Same(log, body) ==
    /\ Hashes(body) = CurrentHashes(log)
    /\ NewBlocks(body, TextsOf(log)) = <<>>

NextRecord(log, body, by) ==
    LET seq == LastSeq(log) + 1
        full == seq = 1 \/ seq % Interval = 0
    IN  [kind |-> IF full THEN "keyframe" ELSE "delta", seq |-> seq, by |-> by,
         ops |-> OpsBetween(IF full THEN <<>> ELSE CurrentHashes(log), Hashes(body)),
         new |-> NewBlocks(body, TextsOf(log))]

\* The last entry is a human revision that the next one may replace, and what
\* is left of the log without it can still be read.
Coalesces(log) ==
    /\ log # <<>>
    /\ IsRevision(Last(log)) /\ Last(log).by = "human"
    /\ LET rest == Front(log)
       IN  \/ \A i \in DOMAIN rest : ~IsRecord(rest[i])
           \/ \E i \in DOMAIN rest : rest[i].kind = "keyframe"

(***************************************************************************)
(* Reading the log: every entry in file order                              *)
(***************************************************************************)
Empty == [hashes |-> <<>>, started |-> FALSE, state |-> <<>>, comments |-> <<>>]

Advances(acc, e) == e.kind = "keyframe" \/ (e.kind = "delta" /\ acc.started)
Removed(acc, e) == Range(acc.hashes) \ Range(ApplyOps(acc.hashes, e.ops))

\* The words of a block; one whose text the log has lost has none.
Words(texts, h) == IF h \in DOMAIN texts THEN WordsOf[texts[h]] ELSE <<>>

\* The removed block that block h is an edit of, as a set.
Closest(texts, h, removed) ==
    LET kin == {g \in removed \intersect DOMAIN texts :
                    h \in DOMAIN texts /\ <<g, h>> \in Resembles}
    IN  IF kin = {} THEN {} ELSE {CHOOSE g \in kin : TRUE}

\* Words found in the ancestor keep what it had for them.
Inherit(base, old, new, fill) ==
    [j \in DOMAIN new |->
        LET at == {i \in DOMAIN old : old[i] = new[j]}
        IN  IF at = {} \/ DOMAIN base # DOMAIN old THEN fill ELSE base[Min(at)]]

\* A mark covers the words of its range that the block has; {} is the whole
\* block.
Marked(values, value, range) ==
    [i \in DOMAIN values |-> IF range = {} \/ i \in range THEN value ELSE values[i]]

Uniform(words, value) == [i \in DOMAIN words |-> value]

\* token_states: the status and the intent of every word of every block seen.
Review(texts, acc, e) ==
    LET hashes == ApplyOps(acc.hashes, e.ops)
        removed == Removed(acc, e) \intersect DOMAIN acc.state
        words(h) == Words(texts, h)
        typed == IF e.by = "human" THEN "human" ELSE "raw_ai"
        entering(h) ==
            LET from == Closest(texts, h, removed)
                old == CHOOSE g \in from : TRUE
            IN  IF from = {}
                THEN [status |-> Uniform(words(h), typed),
                      intent |-> Uniform(words(h), "flexible")]
                ELSE [status |-> Inherit(acc.state[old].status, words(old), words(h), typed),
                      intent |-> Inherit(acc.state[old].intent, words(old), words(h), "flexible")]
    IN  CASE e.kind = "mark" /\ e.hash \in Range(acc.hashes) ->
                [acc EXCEPT !.state[e.hash][e.what] = Marked(@, e.value, e.range)]
          [] Advances(acc, e) ->
                [acc EXCEPT !.hashes = hashes, !.started = TRUE,
                            !.state = [h \in DOMAIN @ \union Range(hashes) |->
                                        IF h \in DOMAIN @ THEN @[h] ELSE entering(h)]]
          [] OTHER -> acc

TokenStates(log) ==
    LET reviewed(texts) == Fold(LAMBDA acc, e : Review(texts, acc, e), Empty, log)
        final(acc) == [h \in Range(acc.hashes) |-> acc.state[h]]
    IN  With(With(TextsOf(log), reviewed), final)

\* The longest stretches of words that agree with a test.
Runs(words, test(_)) ==
    {SubSeq(words, i, j) : <<i, j>> \in
        {p \in (1..Len(words)) \X (1..Len(words)) :
            /\ p[1] <= p[2]
            /\ \A k \in p[1]..p[2] : test(k)
            /\ p[1] - 1 \in DOMAIN words => ~test(p[1] - 1)
            /\ p[2] + 1 \in DOMAIN words => ~test(p[2] + 1)}}

\* locked_runs and missing_locked: the stretches of locked words that a body
\* does not have word for word.
LockedRuns(log) ==
    LET words(h) == Words(TextsOf(log), h)
        runs(states) ==
            UNION {Runs(words(h), LAMBDA k : states[h].intent[k] = "locked") :
                    h \in {g \in DOMAIN states : DOMAIN states[g].intent = DOMAIN words(g)}}
    IN  With(TokenStates(log), runs)

WordsOfBody(body) == FlattenSeq([i \in DOMAIN body |-> WordsOf[body[i]]])

Occurs(run, words) ==
    \E i \in 0..(Len(words) - Len(run)) : SubSeq(words, i + 1, i + Len(run)) = run

Missing(runs, body) == {run \in runs : ~Occurs(run, WordsOfBody(body))}

(***************************************************************************)
(* Comments.  "words" is the set of commented words of the anchor; {} is   *)
(* the whole block.                                                        *)
(***************************************************************************)
Slice(range, words) == range \intersect DOMAIN words

\* Only the first and the last commented word are written down.
Bounds(words) == IF words = {} THEN {} ELSE Min(words)..Max(words)

Attach(texts, c) ==
    LET fresh == c.words = {} /\ c.range # {} /\ c.anchor = c.home
    IN  [c EXCEPT !.attached = TRUE,
                  !.words = IF fresh THEN Slice(c.range, Words(texts, c.anchor)) ELSE @]

\* A comment rides a revision: it follows its words into the block theirs
\* became, or that block as a whole when the words are gone, and comes loose
\* when no block took its place.
Ride(texts, acc, e, c) ==
    LET hashes == ApplyOps(acc.hashes, e.ops)
        follow == SelectSeq(hashes, LAMBDA h : /\ h \notin Range(acc.hashes)
                                               /\ c.anchor \in Closest(texts, h, Removed(acc, e)))
        into(h) == {j \in DOMAIN Words(texts, h) :
                      \E i \in c.words : /\ i \in DOMAIN Words(texts, c.anchor)
                                         /\ Words(texts, c.anchor)[i] = Words(texts, h)[j]}
        carrying == SelectSeq(follow, LAMBDA h : into(h) # {})
    IN  CASE c.state = "resolved" \/ (c.attached /\ c.anchor \in Range(hashes)) -> c
          [] ~c.attached -> IF c.anchor \in Range(hashes) THEN Attach(texts, c) ELSE c
          [] OTHER ->
                IF follow = <<>> THEN [c EXCEPT !.attached = FALSE]
                ELSE IF carrying = <<>>
                     THEN [c EXCEPT !.anchor = Head(follow), !.words = {}]
                     ELSE [c EXCEPT !.anchor = Head(carrying), !.words = into(Head(carrying))]

Transition(c, e) ==
    CASE c.id # e.id \/ c.state = "resolved" -> c
      [] e.kind = "comment_state" -> [c EXCEPT !.state = e.value]
      [] OTHER -> [c EXCEPT !.text = e.text,
                            !.state = IF @ = "addressed" THEN "open" ELSE @]

Discuss(texts, acc, e) ==
    LET known == {acc.comments[i].id : i \in DOMAIN acc.comments}
        born == [id |-> e.id, home |-> e.hash, range |-> e.range, text |-> e.text,
                 state |-> "open", anchor |-> e.hash, words |-> {}, attached |-> FALSE]
        each(change(_)) == [i \in DOMAIN acc.comments |-> change(acc.comments[i])]
    IN  CASE e.kind = "comment" /\ e.id \notin known ->
                [acc EXCEPT !.comments = Append(@,
                    IF e.hash \in Range(acc.hashes) THEN Attach(texts, born) ELSE born)]
          [] e.kind \in {"comment_state", "comment_edit"} ->
                [acc EXCEPT !.comments = each(LAMBDA c : Transition(c, e))]
          [] Advances(acc, e) ->
                [acc EXCEPT !.comments = each(LAMBDA c : Ride(texts, acc, e, c)),
                            !.hashes = ApplyOps(@, e.ops), !.started = TRUE]
          [] OTHER -> acc

FoldComments(log, texts) ==
    Fold(LAMBDA acc, e : Discuss(texts, acc, e), Empty, log).comments

Unresolved(comments) == SelectSeq(comments, LAMBDA c : c.state # "resolved")

\* comment_states: what the page and the context block show of each comment.
LiveComments(log) ==
    LET shown(c) == [id |-> c.id, text |-> c.text, state |-> c.state,
                     hash |-> IF c.attached THEN c.anchor ELSE "",
                     words |-> IF c.attached THEN Bounds(c.words) ELSE {}]
        live(texts) == Unresolved(FoldComments(log, texts))
    IN  With(With(TextsOf(log), live), LAMBDA cs : [i \in DOMAIN cs |-> shown(cs[i])])

(***************************************************************************)
(* Compaction                                                              *)
(***************************************************************************)
\* Where the kept part starts: at the first keyframe that makes the rest fit,
\* or at the last one.
Cut(log) ==
    LET later == {i \in 2..Len(log) : log[i].kind = "keyframe"}
        fitting == {i \in later : Len(log) - i + 1 <= Cap}
    IN  IF fitting # {} THEN Min(fitting) ELSE Max(later)

\* The texts that went with the dropped records and are still referred to.
Recarried(log, kept) ==
    LET named == UNION {Range(CurrentHashes(SubSeq(kept, 1, n))) : n \in DOMAIN kept}
        lost == (named \intersect DOMAIN TextsOf(log)) \ DOMAIN TextsOf(kept)
    IN  [h \in lost |-> TextsOf(log)[h]]

\* Mutant of HoistedMarks: locks are not carried over.
HoistedStatus(dropped, first) ==
    SelectSeq(dropped, LAMBDA e : /\ e.kind = "mark" /\ e.what = "status"
                                  /\ e.hash \in Range(ApplyOps(<<>>, first.ops)))

HoistedMarks(dropped, first) ==
    SelectSeq(dropped, LAMBDA e : e.kind = "mark" /\ e.hash \in Range(ApplyOps(<<>>, first.ops)))

\* Comments are written anew, as they stand at the first kept keyframe.
HoistedComments(dropped, first, kept) ==
    LET there == {kept[i].id : i \in {j \in DOMAIN kept : kept[j].kind = "comment"}}
        era == Append(dropped, first)
        lines(c) ==
            LET line == [kind |-> "comment", id |-> c.id, hash |-> c.anchor,
                         text |-> c.text, range |-> Bounds(c.words)]
                addressed == [kind |-> "comment_state", id |-> c.id, value |-> "addressed"]
            IN  IF c.state = "addressed" THEN <<line, addressed>> ELSE <<line>>
        rewritten(all) ==
            LET live == SelectSeq(Unresolved(all), LAMBDA c : c.id \notin there)
            IN  FlattenSeq([i \in DOMAIN live |-> lines(live[i])])
    IN  With(With(TextsOf(era), LAMBDA texts : FoldComments(era, texts)), rewritten)

\* Mutant of Opening: texts that went with the dropped records are gone.
OpeningBare(kept, again) == Head(kept)

\* The keyframe the kept part opens with.
Opening(kept, again) ==
    [Head(kept) EXCEPT !.new = [h \in DOMAIN @ \union DOMAIN again |->
                                    IF h \in DOMAIN @ THEN @[h] ELSE again[h]]]

Shortened(dropped, kept) ==
    LET records == {i \in DOMAIN dropped : IsRecord(dropped[i])}
        marker == [kind |-> "truncated", by |-> "model",
                   seq |-> Max({dropped[i].seq : i \in records})]
        joined(first) == <<marker, first>> \o HoistedMarks(dropped, first)
                            \o HoistedComments(dropped, first, kept) \o Tail(kept)
    IN  With(Opening(kept, Recarried(dropped \o kept, kept)), joined)

Compact(log) ==
    LET split(k) == With(SubSeq(log, 1, k - 1), LAMBDA dropped :
                        With(SubSeq(log, k, Len(log)), LAMBDA kept : Shortened(dropped, kept)))
    IN  IF Len(log) <= Cap \/ \A i \in 2..Len(log) : log[i].kind # "keyframe" THEN log
        ELSE With(Cut(log), split)
=============================================================================
