-------------------------- MODULE InMemoryVocabulary --------------------------
(***************************************************************************)
(* The vocabulary contract of the repository port, twice: what the adapter *)
(* decides about a name that a write, a proposal or the tool boundary asks *)
(* for (Vocabulary), and what the in-memory repository decides, which the  *)
(* tests and the evaluations stand on                                      *)
(* (infrastructure/memory/fake_repository.py).  Its catalog is what the    *)
(* registry knows of the space, its attachments what it knows of the       *)
(* types; it looks a name up once, among scalars and relations together.   *)
(***************************************************************************)
EXTENDS Vocabulary

AnyType == "(any type)"
Redirect(e) == [do |-> "redirect", to |-> e.key]

\* What an approval error teaches: the type's own vocabulary, and that of the
\* space which is not on it.
Lesson(own, space) ==
    [do |-> "approval",
     fields |-> KeysOf({e \in own : e.format # "objects"}),
     relations |-> KeysOf({e \in own : e.format = "objects"}),
     others |-> KeysOf(space) \ KeysOf(own)]

-----------------------------------------------------------------------------
(* The adapter's answers. *)

\* _raise_unknown_field: a relation in scope is pointed to, not taught.
AdapterRefusal(r, n) ==
    IF ScopedRelation(r, n) # {} THEN Redirect(First(ScopedRelation(r, n)))
    ELSE Lesson(Attached(r.on), known.space)

AdapterField(r, item) ==
    LET plan == FieldPlan(r, item)
    IN IF plan.do = "approval" THEN AdapterRefusal(r, item.name) ELSE plan

\* relation_label_for
AdapterLabel(r, n) == KeysOf(ScopedRelation(r, n))

Shown == DOMAIN known.types \ Range(InfraTypes)

\* field_catalog
AdapterCatalog ==
    LET own(t) == KeysOf({e \in Attached(t) : e.format # "objects"})
        scalars == KeysOf({e \in known.space : e.format # "objects"})
    IN (UNION {{t} \X own(t) : t \in Shown})
       \union ({AnyType} \X (scalars \ UNION {own(t) : t \in Shown}))

-----------------------------------------------------------------------------
(* The in-memory repository's. *)

\* _spec_for
SpecFor(n) == {e \in known.space : Called(e, n)}

\* _relation_spec_for
RelationSpecFor(n) == {e \in SpecFor(n) : e.format = "objects"}

SameSpec(a, b) == a.key = b.key
OwnSpecs(t) == Attached(t)

\* Mutant of Admits: what the object carries is forgotten.
AdmitsAttached(r, e) ==
    \/ r.on \in Range(InfraTypes)
    \/ \E own \in OwnSpecs(r.on) : SameSpec(own, e)

\* _admits: the type's own, and what the object of an update carries.
Admits(r, e) ==
    \/ r.on \in Range(InfraTypes)
    \/ \E own \in OwnSpecs(r.on) : SameSpec(own, e)
    \/ r.kind \in {"link", "update"} /\ e.key \in carried[r.on]

\* _resolve_fields: a relation is never a field; a declaration licenses what
\* the type lacks, in the format it has.
MemoryField(r, item) ==
    LET spec == First(SpecFor(item.name))
        declared == item.declared \notin {None, "objects"}
        lesson == Lesson(OwnSpecs(r.on), known.space)
    IN IF SpecFor(item.name) = {}
       THEN IF declared THEN Mint(item, item.declared) ELSE lesson
       ELSE IF spec.format = "objects"
       THEN IF Admits(r, spec) THEN Redirect(spec) ELSE lesson
       ELSE IF ~Admits(r, spec) /\ ~declared THEN lesson
       ELSE IF declared /\ item.declared # spec.format THEN Refuse("conflict")
       ELSE Use(spec, item)

\* _resolve_link_label
MemoryLink(r, item) ==
    LET specs == RelationSpecFor(item.name)
    IN IF \E e \in specs : Admits(r, e) THEN Use(First(specs), item)
       ELSE IF item.declared # "objects" THEN Refuse("approval")
       ELSE IF specs # {} THEN Use(First(specs), item)
       ELSE Mint(item, "objects")

\* _adopt_property_draft
MemoryEntry(item) ==
    LET specs == SpecFor(item.name)
    IN IF RelationSpecFor(item.name) # {}
       THEN IF item.declared # "objects" THEN Refuse("conflict")
            ELSE Use(First(RelationSpecFor(item.name)), item)
       ELSE IF specs = {} THEN Mint(item, item.declared)
       ELSE IF First(specs).format # item.declared THEN Refuse("conflict")
       ELSE Use(First(specs), item)

\* relation_label_for
MemoryLabel(r, n) == KeysOf({e \in RelationSpecFor(n) : Admits(r, e)})

\* field_catalog
MemoryCatalog ==
    LET buckets == [t \in Shown |-> {e \in OwnSpecs(t) : e.format # "objects"}]
        claimed == UNION Range(buckets)
    IN {p \in Shown \X Keys : \E e \in buckets[p[1]] : e.key = p[2]}
       \union {<<AnyType, e.key>> : e \in {s \in known.space :
                  s.format # "objects" /\ \A c \in claimed : ~SameSpec(c, s)}}

-----------------------------------------------------------------------------

\* A name that two properties of the space go by: the answer is whichever
\* comes first, in either backend.
Ambiguous(n) == \E a, b \in SpecFor(n) : a # b

\* The registry reads the types before the properties, and may hold two
\* states of one; the in-memory repository holds each once.
Coherent == \A t \in DOMAIN known.types : \A e \in known.types[t] :
                \E s \in known.space : /\ s.key = e.key /\ s.name = e.name
                                       /\ s.format = e.format

Taken(plan) == IF plan.do \in {"use", "mint"} THEN <<plan.do, plan.entry.key>> ELSE plan

Asked == {[kind |-> kind, on |-> t] : kind \in {"create", "update"},
                                      t \in DOMAIN known.types}
Named == {item \in Items : item.option = None /\ ~Ambiguous(item.name)}

SameDecisions == Coherent =>
    /\ \A r \in Asked, item \in Named :
          /\ Taken(AdapterField(r, item)) = Taken(MemoryField(r, item))
          /\ Taken(LinkPlan(r, item)) = Taken(MemoryLink(r, item))
          /\ AdapterLabel(r, item.name) = MemoryLabel(r, item.name)
          /\ item.declared # None => Taken(EntryPlan(item)) = Taken(MemoryEntry(item))
    /\ AdapterCatalog = MemoryCatalog

\* Whatever the space has become, the two repositories decide alike about
\* every name on every type, with and without a declaration: which property a
\* field, a link or a proposal takes, what is refused and what the refusal
\* teaches, what is offered (_resolve_fields and _resolve_link_label of the
\* in-memory repository: "mirroring the adapter").
BackendsAgree ==
    /\ SameDecisions
    /\ [][known' # known \/ carried' # carried => SameDecisions']_vars

\* Nothing that a person has to approve leaves anything behind: the port
\* promises an error "before any persistence" for creates too.  But a create
\* makes the relations it declares before it looks its fields up.
RefusedLeavesNothing ==
    \A c \in Calls : op[c].stage = "rejected" => ~op[c].minted
=============================================================================
