---------------------------- MODULE NodeHistory ----------------------------
(***************************************************************************)
(* The revision history of one tracked document                            *)
(* (application/node_historian.py) and everything that writes to it: the   *)
(* turn boundary, the change tick, the prose page and the rebuild at       *)
(* startup.  People edit the document in Anytype while any of them works;  *)
(* they themselves take turns under the route lock.                        *)
(*                                                                         *)
(* The log is read and written as RevisionLog says.  Beside every log go,  *)
(* as history, "full", the same log had it never been compacted, and       *)
(* "made", the body its last revision was made from.                       *)
(***************************************************************************)
EXTENDS ProsePage, FiniteSets

CONSTANTS
    Bodies,    \* what the document may be made to say
    Marks,     \* the marks the page offers: what, value, range of words
    Notes,     \* texts of new comments
    Rewordings, \* and what they may be changed to
    Sections,  \* the texts the model splices into a document
    Budget,    \* how many environment events of each kind may happen
    Together   \* the kinds that may happen in the same behaviour

Events == {"edit", "turn", "patch", "splice", "save", "mark", "note", "resync",
           "crash", "fault", "twin"}
Blank == [log |-> <<>>, full |-> <<>>, made |-> <<>>]
Based(side, pair) == [side |-> side, log |-> pair.log, full |-> pair.full, made |-> pair.made]
None == Based(0, Blank)   \* no baseline

ASSUME ConstantsAssumption ==
    /\ Bodies \subseteq Seq(Texts)
    /\ Budget \in [Events -> Nat] /\ Together \subseteq SUBSET Events

VARIABLES
    body,      \* the document in the store
    dirty,     \* the next resync reports it changed
    sidecars,  \* the gc_node_history objects that name it: log and full
    base,      \* NodeHistorian._baselines for it: which sidecar, log and full
    up,        \* the bot runs
    holder,    \* who holds the route lock
    stage,     \* and how far it is
    seen,      \* the body it fetched, or is about to write
    touched,   \* the mutation journal names the document
    left,      \* environment events of each kind that may still happen
    acked,     \* history: the full log as the bot last knew it written
    owed       \* history: the model changed the body, nothing failed since

vars == <<body, dirty, sidecars, base, up, holder, stage, seen, touched,
          left, acked, owed>>

Init ==
    /\ body = <<>> /\ dirty = FALSE /\ sidecars = <<>> /\ base = None
    /\ up = TRUE /\ holder = "nobody" /\ stage = "work" /\ seen = <<>>
    /\ touched = FALSE
    /\ left = Budget
    /\ acked = <<>> /\ owed = FALSE

Happened == {k \in Events : left[k] < Budget[k]}
Spend(k) ==
    /\ left[k] > 0
    /\ \E kinds \in Together : Happened \union {k} \subseteq kinds
    /\ left' = [left EXCEPT ![k] = @ - 1]

Release == holder' = "nobody" /\ stage' = "work" /\ seen' = <<>>
At(who, where) == up /\ holder = who /\ stage = where

(***************************************************************************)
(* The document                                                            *)
(***************************************************************************)
\* Someone edits the document in Anytype.
HumanEdits(new) ==
    /\ new # body
    /\ Spend("edit")
    /\ body' = new /\ dirty' = TRUE
    /\ UNCHANGED <<sidecars, base, up, holder, stage, seen, touched, acked, owed>>

\* edit_body: one block is replaced, deleted, or gets another one after it; top
\* stands before the first.  An anchor has to name exactly one block.
EditBody(old, action, at, text) ==
    CASE action = "replace" -> [old EXCEPT ![at] = text]
      [] action = "insert_after" -> InsertAt(old, at + 1, text)
      [] action = "delete" -> RemoveAt(old, at)

ResolveAnchor(old) ==
    {i \in DOMAIN old : \A j \in DOMAIN old : HashOf[old[j]] = HashOf[old[i]] => j = i}

SectionEdits(old) ==
    {EditBody(old, e[1], e[2], e[3]) : e \in
        ({"replace"} \X ResolveAnchor(old) \X Sections)
          \union ({"insert_after"} \X (ResolveAnchor(old) \union {0}) \X Sections)
          \union ({"delete"} \X ResolveAnchor(old) \X {""})}

StartTurn ==
    /\ At("nobody", "work")
    /\ Spend("turn")
    /\ holder' = "turn"
    /\ UNCHANGED <<body, dirty, sidecars, base, up, stage, seen, touched, acked, owed>>

\* NodeWriter.update_node: the guard looks at the baseline, the write puts the
\* whole body down and takes the store's new version of the object into the
\* index.  A write without a body (a new summary) does the latter alone.
Guarded(new) == Missing(LockedRuns(base.log), new) = {}

ModelWrites(new) ==
    /\ At("turn", "work")
    /\ new # body => Guarded(new)
    /\ Spend("patch")
    /\ body' = new /\ dirty' = FALSE /\ touched' = TRUE
    /\ owed' = (owed \/ new # body)
    /\ UNCHANGED <<sidecars, base, up, holder, stage, seen, acked>>

\* DocumentEditor.edit: the body is fetched and spliced, then written whole as
\* any other; what people typed in between is overwritten.
ModelSplices ==
    /\ At("turn", "work")
    /\ Spend("splice")
    /\ seen' \in SectionEdits(body) /\ stage' = "splice"
    /\ UNCHANGED <<body, dirty, sidecars, base, up, holder, touched, acked, owed>>

SpliceLands ==
    /\ At("turn", "splice")
    /\ stage' = "work" /\ seen' = <<>>
    /\ IF Guarded(seen)
       THEN /\ body' = seen /\ dirty' = FALSE /\ touched' = TRUE
            /\ owed' = (owed \/ seen # body)
       ELSE UNCHANGED <<body, dirty, touched, owed>>
    /\ UNCHANGED <<sidecars, base, up, holder, left, acked>>

\* _finish_turn: the journal is drained, and the document is recorded if it
\* was in it.
EndTurn ==
    /\ At("turn", "work")
    /\ touched' = FALSE
    /\ IF touched THEN stage' = "fetch" /\ UNCHANGED <<holder, seen>> ELSE Release
    /\ UNCHANGED <<body, dirty, sidecars, base, up, left, acked, owed>>

\* The turn fails before it gets there; the journal keeps its record.
AbortTurn ==
    /\ At("turn", "work")
    /\ Spend("fault")
    /\ Release
    /\ owed' = FALSE
    /\ UNCHANGED <<body, dirty, sidecars, base, up, touched, acked>>

\* One change tick: the resync, and the history listener for what it reports.
Tick ==
    /\ At("nobody", "work") /\ dirty
    /\ dirty' = FALSE
    /\ holder' = "tick" /\ stage' = "fetch"
    /\ UNCHANGED <<body, sidecars, base, up, seen, touched, left, acked, owed>>

\* Every other resync of the shared index: the periodic one, those of a turn.
Resync ==
    /\ At("nobody", "work") \/ At("turn", "work")
    /\ dirty
    /\ Spend("resync")
    /\ dirty' = FALSE
    /\ UNCHANGED <<body, sidecars, base, up, holder, stage, seen, touched, acked, owed>>

(***************************************************************************)
(* Recording                                                               *)
(***************************************************************************)
Author == IF holder = "turn" THEN "model" ELSE "human"

\* _record, first half: the store is asked for the body; one that has nothing
\* new in it ends the matter.
Fetch ==
    /\ up /\ stage = "fetch"
    /\ IF Same(base.log, body) THEN Release /\ owed' = (owed /\ Author # "model")
       ELSE stage' = "write" /\ seen' = body /\ UNCHANGED <<holder, owed>>
    /\ UNCHANGED <<body, dirty, sidecars, base, up, touched, left, acked>>

\* _record, second half.  A pending human revision gives way to the next one,
\* and is gone altogether when the body is back to what it was before.
Rolls(log) == Author = "human" /\ Coalesces(log)
Trimmed(log, rolls) == IF rolls THEN Front(log) ELSE log

Revised(before) ==
    LET rolls == Rolls(before.log)
        onto == Trimmed(before.log, rolls)
        ontoFull == Trimmed(before.full, rolls)
        extended(record) == [log |-> Compact(Append(onto, record)),
                             full |-> Append(ontoFull, record), made |-> seen]
    IN  IF rolls /\ Same(onto, seen) THEN [log |-> onto, full |-> ontoFull, made |-> seen]
        ELSE With(NextRecord(onto, seen, Author), extended)

Kept(b) == [log |-> b.log, full |-> b.full, made |-> b.made]

Written(pair) ==
    sidecars' = IF base = None THEN Append(sidecars, pair)
                ELSE [sidecars EXCEPT ![base.side] = pair]
Adopted(pair) ==
    /\ base' = Based(IF base = None THEN Len(sidecars) + 1 ELSE base.side, pair)
    /\ acked' = pair.full

Record ==
    /\ up /\ stage = "write"
    /\ \E pair \in {Revised(Kept(base))} : Written(pair) /\ Adopted(pair)
    /\ owed' = (owed /\ Author # "model")
    /\ Release
    /\ UNCHANGED <<body, dirty, up, touched, left>>

\* A call of it fails, and the recording is given up; at startup the process
\* with it.  The write may have landed all the same.
RecordFails ==
    /\ up /\ stage \in {"fetch", "write"}
    /\ \/ Spend("fault") /\ UNCHANGED sidecars
       \/ /\ stage = "write"
          /\ Spend(IF base = None THEN "twin" ELSE "fault")
          /\ \E pair \in {Revised(Kept(base))} : Written(pair)
    /\ up' = (holder # "boot")
    /\ base' = IF holder = "boot" THEN None ELSE base
    /\ Release
    /\ owed' = FALSE
    /\ UNCHANGED <<body, dirty, touched, acked>>

(***************************************************************************)
(* The prose page                                                          *)
(***************************************************************************)
\* _fetch_checked: the page's base token is a digest of the document's hashes,
\* and a page with another is told to reload; so what the page shows, the hashes
\* of it, is the document's body.
\* save_body: the check, then the write, then the recording.
StartSave(new) ==
    /\ At("nobody", "work") /\ base # None /\ new # body
    /\ Spend("save")
    /\ holder' = "page" /\ stage' = "patch" /\ seen' = new
    /\ UNCHANGED <<body, dirty, sidecars, base, up, touched, acked, owed>>

\* Mutant of SavePatch: the write of the page is left for the ticks to find.
SavePatchUnrecorded ==
    /\ At("page", "patch")
    /\ body' = seen /\ dirty' = FALSE
    /\ Release
    /\ UNCHANGED <<sidecars, base, up, touched, left, acked, owed>>

SavePatch ==
    /\ At("page", "patch")
    /\ body' = seen /\ dirty' = FALSE
    /\ stage' = "fetch"
    /\ UNCHANGED <<sidecars, base, up, holder, seen, touched, left, acked, owed>>

\* record_marks: a selection is one gesture of the page.  Every block must be
\* in the recorded body, and blocks that are marked so already drop out.
MarkLines(picked, m) ==
    LET changing(states) ==
            {h \in {HashOf[body[i]] : i \in picked} :
                Marked(states[h][m.what], m.value, m.range) # states[h][m.what]}
        lines(order) ==
            [i \in DOMAIN order |-> [kind |-> "mark", what |-> m.what, hash |-> order[i],
                                     value |-> m.value, range |-> m.range]]
    IN  With(SetToSeq(With(TokenStates(base.log), changing)), lines)

\* _validate_anchor: the block is in the recorded body and has those words.
Anchored(h, range) ==
    /\ h \in Range(CurrentHashes(base.log))
    /\ range \subseteq DOMAIN Words(TextsOf(base.log), h)

MarkGestures ==
    {MarkLines(p[1], p[2]) : p \in {q \in (SUBSET DOMAIN body) \X Marks :
        \A i \in q[1] : Anchored(HashOf[body[i]], q[2].range)}} \ {<<>>}

\* record_comment, set_comment_state and edit_comment; the id stands for the
\* digest of time, author, block and text.
NewComments ==
    {<<[kind |-> "comment", id |-> <<left["note"], left["fault"]>>, hash |-> h, text |-> t, range |-> r]>> :
        <<h, t, r>> \in {q \in Range(Hashes(body)) \X Notes \X {m.range : m \in Marks} :
                            Anchored(q[1], q[3])}}

StateLine(c, value) == <<[kind |-> "comment_state", id |-> c.id, value |-> value]>>
EditLine(c, text) == <<[kind |-> "comment_edit", id |-> c.id, text |-> text]>>

Comments == Range(LiveComments(base.log))
Resolutions == {StateLine(c, "resolved") : c \in Comments}
Edits == {EditLine(p[1], p[2]) : p \in {q \in Comments \X Rewordings : q[1].text # q[2]}}
Addressings == {StateLine(c, "addressed") : c \in {d \in Comments : d.state # "addressed"}}

\* _write_log: the whole log goes to the sidecar, then into the baseline.
Annotated(lines) == [log |-> Compact(base.log \o lines), full |-> base.full \o lines,
                     made |-> base.made]

Annotate(lines) ==
    /\ \E pair \in {Annotated(lines)} : Written(pair) /\ Adopted(pair)
    /\ UNCHANGED <<body, dirty, up, holder, stage, seen, touched, owed>>

Mark == At("nobody", "work") /\ base # None /\ \E g \in MarkGestures : Spend("mark") /\ Annotate(g)

Comment ==
    /\ At("nobody", "work") /\ base # None
    /\ \E g \in NewComments \union Resolutions \union Edits : Spend("note") /\ Annotate(g)

\* edit_document's address_comment, in a turn.
Address ==
    /\ At("turn", "work") /\ base # None
    /\ \E g \in Addressings : Spend("note") /\ Annotate(g)

\* A write of the page that lands while its caller is told that it failed.
AnnotateFails ==
    /\ At("nobody", "work") /\ base # None
    /\ Spend("fault")
    /\ \E g \in MarkGestures \union NewComments \union Resolutions : Written(Annotated(g))
    /\ UNCHANGED <<body, dirty, base, up, holder, stage, seen, touched, acked, owed>>

(***************************************************************************)
(* Crash and restart                                                       *)
(***************************************************************************)
Crash ==
    /\ up /\ Spend("crash")
    /\ up' = FALSE /\ base' = None /\ touched' = FALSE 
    /\ Release
    /\ owed' = FALSE
    /\ UNCHANGED <<body, dirty, sidecars, acked>>

\* hydrate, then rebuild: of several sidecars the first in the index is kept,
\* and a document that has one is compared with it.
Rebuild ==
    /\ ~up
    /\ up' = TRUE /\ dirty' = FALSE
    /\ \/ /\ sidecars = <<>>
          /\ UNCHANGED <<base, holder, stage, acked>>
       \/ \E s \in DOMAIN sidecars :
            /\ base' = Based(s, sidecars[s])
            /\ holder' = "boot" /\ stage' = "fetch"
            /\ acked' = IF Len(sidecars) = 1 THEN sidecars[s].full ELSE acked
    /\ UNCHANGED <<body, sidecars, seen, touched, left, owed>>

(***************************************************************************)
(* The system                                                              *)
(***************************************************************************)
Next ==
    \/ \E new \in Bodies : HumanEdits(new) \/ ModelWrites(new) \/ StartSave(new)
    \/ StartTurn \/ ModelSplices \/ SpliceLands \/ EndTurn \/ AbortTurn
    \/ Tick \/ Resync \/ Fetch \/ Record \/ RecordFails
    \/ SavePatch \/ Mark \/ Comment \/ Address \/ AnnotateFails
    \/ Crash \/ Rebuild

\* The watchers' loops never end and what they await answers or fails; a turn
\* comes to its end; a process that died is started again.
Fairness ==
    /\ WF_vars(Tick) /\ WF_vars(EndTurn) /\ WF_vars(SpliceLands)
    /\ WF_vars(Fetch) /\ WF_vars(Record) /\ WF_vars(SavePatch)
    /\ WF_vars(Rebuild)

Spec == Init /\ [][Next]_vars /\ Fairness

(***************************************************************************)
(* Properties                                                              *)
(***************************************************************************)
Logs == {Kept(sidecars[s]) : s \in DOMAIN sidecars}

TypeOK ==
    /\ Range(body) \subseteq Texts \union Sections
    /\ {dirty, up, touched, owed} \subseteq BOOLEAN
    /\ base # None => up /\ base.side \in 1..Len(sidecars)
    /\ holder \in {"nobody", "turn", "tick", "page", "boot"}
    /\ stage \in {"work", "splice", "patch", "fetch", "write"}
    /\ holder = "nobody" => stage = "work"
    /\ stage = "patch" => holder = "page"
    /\ stage = "splice" => holder = "turn"
    /\ left \in [Events -> Nat]

LogReads(p) ==
    /\ CurrentHashes(p.log) = CurrentHashes(p.full)
    /\ \A h \in Range(CurrentHashes(p.full)) :
            h \in DOMAIN TextsOf(p.log) /\ TextsOf(p.log)[h] = TextsOf(p.full)[h]
    /\ \A i \in DOMAIN p.log : IsRevision(p.log[i]) =>
            \E j \in DOMAIN p.full :
                /\ IsRevision(p.full[j]) /\ p.full[j].seq = p.log[i].seq
                /\ CurrentHashes(SubSeq(p.log, 1, i)) = CurrentHashes(SubSeq(p.full, 1, j))

\* What the page puts together from folds of its own belongs together: every
\* block and every word of the recorded body has an author, a word counts as a
\* person's exactly if no model wrote it, no badge hides a lock or a word of the
\* model, and every attached comment stands on words of the body.
PageReads(p, page) ==
    /\ \A i \in DOMAIN p.made :
        LET row == page.segments[i]
        IN  /\ row.blame # {} /\ DOMAIN row.words = DOMAIN WordsOf[p.made[i]]
            /\ \A word \in Range(row.words) :
                /\ word.status # "approved" => (word.status = "human" <=> word.author = "human")
                /\ row.badge.status = "human" => word.author = "human"
                /\ word.intent = "locked" => row.badge.intent = "locked"
    /\ \A i \in DOMAIN page.comments :
        LET c == LiveComments(p.log)[i]
        IN  c.hash # "" => page.comments[i].block # 0 /\ page.comments[i].words = c.words

\* What a sidecar holds reads back as the document that was recorded, after
\* any number of roll-ups and compactions: the last body with every text, and
\* the blocks of each revision that is still there; and the page made of it
\* says of the recorded body what the log does.
ReadsBack ==
    \A p \in Logs : LogReads(p) /\ \E page \in {Page(p.log, p.made)} : PageReads(p, page)

\* The words a lock was put on, as they read when it was, of each block that
\* stayed in the recorded body since, has them still, and whose intent nobody
\* marked again.
PromisedRuns(full) ==
    LET locks == {i \in DOMAIN full :
                    /\ full[i].kind = "mark" /\ full[i].what = "intent"
                    /\ full[i].value = "locked"
                    /\ \A j \in (i + 1)..Len(full) :
                        /\ full[i].hash \in Range(CurrentHashes(SubSeq(full, 1, j)))
                        /\ ~(full[j].kind = "mark" /\ full[j].what = "intent"
                                /\ full[j].hash = full[i].hash)}
        words(i) == WordsOf[TextsOf(SubSeq(full, 1, i))[full[i].hash]]
        range(i) == IF full[i].range = {} THEN DOMAIN words(i) ELSE full[i].range
        run(i) == SubSeq(words(i), Min(range(i)), Max(range(i)))
        now(i) == WordsOf[TextsOf(full)[full[i].hash]]
    IN  {run(i) : i \in {j \in locks : Occurs(run(j), now(j))}}

\* The model never drops locked words: a write of a turn leaves word for word
\* what was locked, through restarts, compaction and the text being rewritten.
LockedWordsKept ==
    [][(SpliceLands \/ \E new \in Bodies : ModelWrites(new)) /\ Len(sidecars) < 2
            /\ body' # body
        => Missing(PromisedRuns(acked), body') = {}]_vars

\* Once the document has a history, whatever it is made to say is recorded, if
\* no call fails and no other resync takes the change away; and the model's text
\* is not put down as written by people: a human revision is never made while
\* one of the model is due (record_turn, record_human_edits).
Behind == base # None /\ ~Same(base.log, body)
UpToDate == base # None /\ Same(base.log, body)
Calm == Happened \intersect {"fault", "twin", "resync"} = {}
EditRecorded ==
    /\ (Behind /\ Calm) ~> (UpToDate \/ ~Calm)
    /\ [][Record /\ Author = "human" => ~owed]_vars

\* Every block that a revision still in the log names has its text there: the
\* code loses one whose text was refreshed in a pending revision, compacted
\* meanwhile, that the next one replaces.
TextsSurvive ==
    \A p \in Logs : \A i \in DOMAIN p.log :
        Range(CurrentHashes(SubSeq(p.log, 1, i))) \subseteq DOMAIN TextsOf(p.log)

=============================================================================
