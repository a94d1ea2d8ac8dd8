---------------------------- MODULE WorkingMemory ----------------------------
(***************************************************************************)
(* What a session remembers between calls (domain/session.py): the nodes   *)
(* the model holds, the trail of those it touched, its scratchpad.  Lists  *)
(* have the most recent entry first.                                       *)
(***************************************************************************)
EXTENDS GraphReads

CONSTANTS
    FullSlots, SummarySlots, RecentSize    \* caps of the session

ASSUME SlotsAssumption == FullSlots \in Nat \ {0} /\ SummarySlots \in Nat \ {0}

EmptySession == [project |-> "", held |-> <<>>, recent |-> <<>>,
                 scratchpad |-> "", mode |-> ""]

Entry(n, detail) == [id |-> n, detail |-> detail]
At(held, detail) == {i \in 1..Len(held) : held[i].detail = detail}

\* The oldest full entries are demoted, then the oldest summaries dropped.
EnforceCaps(held) ==
    LET rank(i, of) == Cardinality({j \in of : j <= i})
        demoted == [i \in 1..Len(held) |->
                       IF rank(i, At(held, "full")) > FullSlots
                       THEN Entry(held[i].id, "summaries") ELSE held[i]]
        kept == {i \in 1..Len(held) :
                    \/ demoted[i].detail = "full"
                    \/ rank(i, At(demoted, "summaries")) <= SummarySlots}
    IN [i \in 1..Cardinality(kept) |->
           demoted[CHOOSE j \in kept : rank(j, kept) = i]]

Without(held, n) == SelectSeq(held, LAMBDA e : e.id # n)

Hold(s, n, detail) ==
    [s EXCEPT !.held = EnforceCaps(<<Entry(n, detail)>> \o Without(@, n))]

Release(s, n) == [s EXCEPT !.held = Without(@, n)]
Clear(s) == [s EXCEPT !.held = <<>>]

\* A ring of distinct ids: what is touched again moves to the front.
Record(recent, n) ==
    IF recent # <<>> /\ Head(recent) = n THEN recent
    ELSE LET moved == <<n>> \o SelectSeq(recent, LAMBDA m : m # n)
         IN SubSeq(moved, 1, Min({Len(moved), RecentSize}))

Touch(s, n) == [s EXCEPT !.recent = Record(@, n)]

DefaultStart(s) ==
    IF s.held # <<>> THEN Head(s.held).id
    ELSE IF s.recent # <<>> THEN Head(s.recent) ELSE None

\* The stored form: plain lists.
ToSnapshot(s) ==
    [version |-> 2, project |-> s.project, scratchpad |-> s.scratchpad,
     mode |-> s.mode, held |-> s.held, recent |-> s.recent]

RestoreDetail(detail) == IF detail \in {"summaries", "full"} THEN detail
                         ELSE "summaries"

\* The ring is filled from its oldest id on.
RestoreRecent(items) ==
    FoldLeft(LAMBDA r, n : SubSeq(<<n>> \o r, 1, Min({Len(r) + 1, RecentSize})),
             <<>>, Reverse(items))

FromSnapshot(data) ==
    LET entries == SelectSeq(data.held, LAMBDA e : e.id # None)
    IN [project |-> data.project, scratchpad |-> data.scratchpad,
        mode |-> data.mode, recent |-> RestoreRecent(data.recent),
        held |-> EnforceCaps([i \in 1..Len(entries) |->
                     Entry(entries[i].id, RestoreDetail(entries[i].detail))])]
=============================================================================
