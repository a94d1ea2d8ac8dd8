--------------------------------- MODULE Wire ---------------------------------
(***************************************************************************)
(* How a node travels between the adapter and Anytype                      *)
(* (infrastructure/anytype/mapping.py, domain/fields.py, the field entries *)
(* of repository.py), against the server as mock_server.py has it.         *)
(*                                                                         *)
(* Markdown is a sequence of lines.  A line is a record: its text, and     *)
(* whether it is a heading, a rule or blank.                               *)
(***************************************************************************)
EXTENDS Integers, SequencesExt

Line(kind, text) == [kind |-> kind, text |-> text, to |-> 0]
LinkTo(target) == [kind |-> "link", text |-> "", to |-> target]
Rule == Line("rule", "---")
ConnectionsHeading == Line("heading", "Connections (auto)")
Blank == Line("blank", "")

\* ------------------------------------------------------------- the body ----
\* rstrip: trailing blank lines go.
RECURSIVE Stripped(_)
Stripped(lines) ==
    IF lines # <<>> /\ Last(lines).kind = "blank"
    THEN Stripped(Front(lines)) ELSE lines

\* One line per outgoing relation, ordered.
RenderFooter(connections) ==
    IF connections = {} THEN <<>>
    ELSE <<Rule, ConnectionsHeading>>
         \o SetToSortSeq({LinkTo(c) : c \in connections},
                         LAMBDA a, b : a.to < b.to)

\* The body and the footer below it; the rule above the heading is its own.
SplitFooter(lines) ==
    LET headings == {i \in 1..Len(lines) : lines[i] = ConnectionsHeading}
        first == Min(headings)
        start == IF first > 1 /\ lines[first - 1].kind = "rule" THEN first - 1
                 ELSE first
    IN IF headings = {} THEN [body |-> lines, footer |-> <<>>]
       ELSE [body |-> Stripped(SubSeq(lines, 1, start - 1)),
             footer |-> Stripped(SubSeq(lines, start, Len(lines)))]

ComposeBody(body, footer) ==
    IF footer = <<>> THEN body
    ELSE IF Stripped(body) = <<>> THEN footer
    ELSE Stripped(body) \o <<Blank>> \o footer

Spoken(lines) == SelectSeq(lines, LAMBDA l : l.kind # "blank")
FootersEqual(a, b) == Spoken(a) = Spoken(b)

\* The server's side: a PATCH flattens a heading on the first line (A9), a
\* GET puts the summary on a line before the body (A8).
Imported(lines) ==
    IF lines # <<>> /\ lines[1].kind = "heading"
    THEN [lines EXCEPT ![1].kind = "text"] ELSE lines

Exported(obj) ==
    IF obj.summary = <<>> THEN obj.markdown ELSE obj.summary \o obj.markdown

\* Mutant of BodyAndFooterOf: the summary is taken for the body's first lines.
BodyWithSummary(obj) == SplitFooter(Exported(obj))

\* What the adapter makes of it: the summary's lines off, then the footer.
BodyAndFooterOf(obj) ==
    LET got == Exported(obj)
    IN SplitFooter(IF obj.summary # <<>> /\ IsPrefix(obj.summary, got)
                   THEN SubSeq(got, Len(obj.summary) + 1, Len(got)) ELSE got)

\* The body that rides a relation patch, or none when the footer stands.
FooterMarkdown(obj, connections) ==
    LET footer == RenderFooter(connections)
        now == BodyAndFooterOf(obj)
    IN IF FootersEqual(footer, now.footer) THEN <<>>
       ELSE <<ComposeBody(now.body, footer)>>

\* ----------------------------------------------------------- the fields ----
\* A field's text is a sequence of words and commas.
Comma == ","
Words(text) == SelectSeq(text, LAMBDA w : w # Comma)

Joined(words) ==
    [i \in 1..(IF words = <<>> THEN 0 ELSE 2 * Len(words) - 1) |->
        IF i % 2 = 1 THEN words[(i + 1) \div 2] ELSE Comma]

Ticked == {"true", "yes", "1"}
Unticked == {"false", "no", "0"}

Rejected == [rejected |-> TRUE]

\* A date is a day, or a day, an hour and the zone's offset (an hour without
\* a zone is refused); it is stored as the instant in UTC.
DateAccepted(text) == Len(text) \in {1, 3}
Instant(text) ==
    24 * text[1] + (IF Len(text) = 3 THEN text[2] - text[3] ELSE 0)

\* The entry a write sends; "5.0" and "5" are one number.
NativeEntry(format, text) ==
    CASE format = "checkbox" ->
           IF Len(text) = 1 /\ text[1] \in Ticked \union Unticked
           THEN [rejected |-> FALSE, raw |-> <<text[1] \in Ticked>>] ELSE Rejected
      [] format = "number" ->
           IF Len(text) = 1 /\ text[1] \in {"5", "5.0"}
           THEN [rejected |-> FALSE, raw |-> <<5>>] ELSE Rejected
      [] format = "select" ->
           IF text = <<>> THEN Rejected
           ELSE [rejected |-> FALSE, raw |-> <<text>>]
      [] format = "multi_select" -> [rejected |-> FALSE, raw |-> Words(text)]
      [] format = "date" ->
           IF DateAccepted(text) THEN [rejected |-> FALSE, raw |-> <<Instant(text)>>]
           ELSE Rejected
      [] OTHER -> [rejected |-> FALSE, raw |-> text]

\* What the index shows of a stored value; an unticked box is no field.
FieldText(format, raw) ==
    CASE format = "checkbox" -> IF raw = <<TRUE>> THEN <<"true">> ELSE <<>>
      [] format = "number" -> IF raw = <<5>> THEN <<"5">> ELSE <<>>
      [] format = "select" -> IF raw = <<>> THEN <<>> ELSE raw[1]
      [] format = "multi_select" -> Joined(raw)
      [] OTHER -> raw

\* The same write on the in-memory repository.
NormalizeValue(format, text) ==
    CASE format = "checkbox" -> IF text[1] \in Ticked THEN <<"true">> ELSE <<"false">>
      [] format = "number" -> <<"5">>
      [] format = "date" -> <<Instant(text)>>
      [] format = "multi_select" -> Joined(Words(text))
      [] OTHER -> text

\* ------------------------------------------------------------ relations ----
Denied == {"backlinks", "creator", "last_modified_by", "gc_default_mode"}

\* The generic links relation mirrors the others: what they hold it loses.
ToEdges(source, relations) ==
    LET keys == DOMAIN relations \ Denied
        semantic == UNION {relations[k] : k \in keys \ {"links"}}
    IN UNION {{[src |-> source, label |-> k, dst |-> t] :
                   t \in relations[k] \ (IF k = "links" THEN semantic ELSE {})} :
              k \in keys}

=============================================================================
