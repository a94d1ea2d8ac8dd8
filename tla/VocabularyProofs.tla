-------------------------- MODULE VocabularyProofs --------------------------
(***************************************************************************)
(* Proofs about the vocabulary of a space, for any types, keys, names,     *)
(* formats, options, spaces, requests and budgets: an update that is       *)
(* refused has made nothing; the fields of a type stay, and a start in     *)
(* which nobody acts ends in a whole space; the adapter and the in-memory  *)
(* repository decide alike.                                                *)
(*                                                                         *)
(* The first part is about the two repositories and one state: what a      *)
(* registry has to be like for them to agree.  The second follows every    *)
(* step of a call, of the start, of a resync and of people, and keeps the  *)
(* invariant VocabularyInv, of which all three theorems are consequences.  *)
(***************************************************************************)
EXTENDS InMemoryVocabulary, SequenceTheorems, TLAPS

-----------------------------------------------------------------------------
(* What the registry holds: a property once, and keys of the space.          *)

IsEntry(e) == e = Entry(e.key, e.name, e.format, e.id)
Keyed(entries) == \A e \in entries : IsEntry(e) /\ e.key \in Keys
Once(entries) == \A a, b \in entries : a.key = b.key => a = b

KnownInv ==
    /\ DOMAIN known = {"space", "types", "stage"}
    /\ Keyed(known.space) /\ Once(known.space)
    /\ \A t \in DOMAIN known.types : Keyed(known.types[t])

-----------------------------------------------------------------------------
(* The two repositories decide alike.                                        *)

\* Any of a set of entries will do.
LEMMA FirstIn == ASSUME NEW S, S # {} PROVE First(S) \in S
BY DEF First

\* The entries of a name that are relations, or those that are not.
Meant(entries, n, relation) ==
    {e \in entries : Called(e, n) /\ (e.format = "objects" <=> relation)}

ScopedMeant(r, n, relation) ==
    Scoped(r, Meant(known.space, n, relation), Meant(Attached(r.on), n, relation))

LEMMA MeantBy ==
    ASSUME NEW r, NEW n
    PROVE  /\ ScopedRelation(r, n) = ScopedMeant(r, n, TRUE)
           /\ ScopedField(r, n) = ScopedMeant(r, n, FALSE)
<1>1. \A entries : /\ Relations(entries, n) = Meant(entries, n, TRUE)
                   /\ Scalars(entries, n) = Meant(entries, n, FALSE)
  BY DEF Relations, Scalars, Meant
<1> QED
  BY <1>1 DEF ScopedRelation, ScopedField, ScopedMeant

\* Where a name means one property, what the adapter finds in scope is the
\* property that the in-memory repository admits.
LEMMA SameScope ==
    ASSUME KnownInv, Coherent, NEW r \in Asked, NEW n, ~Ambiguous(n),
           NEW s \in SpecFor(n), NEW relation \in BOOLEAN
    PROVE  /\ \A e \in ScopedMeant(r, n, relation) : e.key = s.key /\ e.format = s.format
           /\ ScopedMeant(r, n, relation) # {}
                <=> (s.format = "objects" <=> relation) /\ Admits(r, s)
<1> DEFINE T == known.types[r.on]
           Fits(e) == e.format = "objects" <=> relation
           Space == Meant(known.space, n, relation)
           Own == Meant(Attached(r.on), n, relation)
<1>1. /\ r.on \in DOMAIN known.types /\ r.kind \in {"create", "update"}
      /\ Attached(r.on) = T /\ OwnSpecs(r.on) = T
  BY DEF Asked, Attached, OwnSpecs
<1>2. s \in known.space /\ Called(s, n)
  BY DEF SpecFor
<1>3. \A e \in known.space : Called(e, n) => e = s
  BY DEF SpecFor, Ambiguous
<1>4. \A e \in T : Called(e, n) => e.key = s.key /\ e.format = s.format
  BY <1>1, <1>3 DEF Coherent, Called
<1>5. \A e \in T : e.key = s.key => Called(e, n) /\ e.format = s.format
  <2> SUFFICES ASSUME NEW e \in T, e.key = s.key
               PROVE  Called(e, n) /\ e.format = s.format
    OBVIOUS
  <2>1. PICK x \in known.space : x.key = e.key /\ x.name = e.name /\ x.format = e.format
    BY <1>1 DEF Coherent
  <2>2. x = s
    BY <1>2, <2>1 DEF KnownInv, Once
  <2> QED
    BY <1>2, <2>1, <2>2 DEF Called
<1>6. Own # {} <=> Fits(s) /\ \E own \in T : SameSpec(own, s)
  BY <1>1, <1>4, <1>5 DEF Meant, SameSpec
<1>7. \A e \in Space : e = s
  BY <1>3 DEF Meant
<1>8. Fits(s) <=> s \in Space
  BY <1>2 DEF Meant
<1>9. \A e \in Own : e.key = s.key /\ e.format = s.format
  BY <1>1, <1>4 DEF Meant
<1>10. ScopedMeant(r, n, relation) = Scoped(r, Space, Own)
  BY DEF ScopedMeant
<1> HIDE DEF T, Fits, Space, Own
<1>11. CASE r.on \in Range(InfraTypes)
  BY <1>10, <1>11, <1>7, <1>8 DEF Scoped, Admits, Fits
<1>12. CASE r.on \notin Range(InfraTypes) /\ Own # {}
  BY <1>10, <1>12, <1>1, <1>6, <1>9 DEF Scoped, Admits, Fits
<1>13. CASE r.on \notin Range(InfraTypes) /\ Own = {}
  <2>1. Scoped(r, Space, Own)
            = {e \in Space : r.kind \in {"link", "update"} /\ e.key \in carried[r.on]}
    BY <1>13 DEF Scoped
  <2>2. Fits(s) => (Admits(r, s) <=>
            r.kind \in {"link", "update"} /\ s.key \in carried[r.on])
    BY <1>13, <1>1, <1>6 DEF Admits
  <2> QED
    BY <1>10, <2>1, <2>2, <1>7, <1>8 DEF Fits
<1> QED
  BY <1>11, <1>12, <1>13

\* A name that means nothing is nowhere in scope.
LEMMA NoScope ==
    ASSUME Coherent, NEW r \in Asked, NEW n, SpecFor(n) = {}, NEW relation \in BOOLEAN
    PROVE  ScopedMeant(r, n, relation) = {}
<1>1. r.on \in DOMAIN known.types /\ Attached(r.on) = known.types[r.on]
  BY DEF Asked, Attached
<1>2. \A e \in known.space : ~Called(e, n)
  BY DEF SpecFor
<1>3. \A e \in Attached(r.on) : ~Called(e, n)
  BY <1>1, <1>2 DEF Coherent, Called
<1>4. Meant(known.space, n, relation) = {} /\ Meant(Attached(r.on), n, relation) = {}
  BY <1>2, <1>3 DEF Meant
<1> QED
  BY <1>4 DEF ScopedMeant, Scoped

\* One property or none.
LEMMA OneSpec ==
    ASSUME NEW n, ~Ambiguous(n), NEW s \in SpecFor(n)
    PROVE  /\ SpecFor(n) = {s} /\ First(SpecFor(n)) = s
           /\ RelationSpecFor(n) = IF s.format = "objects" THEN {s} ELSE {}
           /\ Relations(known.space, n) = IF s.format = "objects" THEN {s} ELSE {}
           /\ Scalars(known.space, n) = IF s.format = "objects" THEN {} ELSE {s}
<1>1. SpecFor(n) = {s}
  BY DEF Ambiguous
<1>2. First({s}) = s
  BY DEF First
<1>3. /\ Relations(known.space, n) = {e \in SpecFor(n) : e.format = "objects"}
      /\ Scalars(known.space, n) = {e \in SpecFor(n) : e.format # "objects"}
  BY DEF Relations, Scalars, SpecFor
<1> QED
  BY <1>1, <1>2, <1>3 DEF RelationSpecFor

LEMMA NoSpec ==
    ASSUME NEW n, SpecFor(n) = {}
    PROVE  /\ RelationSpecFor(n) = {}
           /\ Relations(known.space, n) = {} /\ Scalars(known.space, n) = {}
BY DEF SpecFor, RelationSpecFor, Relations, Scalars

LEMMA FirstOfOne == ASSUME NEW s PROVE First({s}) = s
BY DEF First

LEMMA SameFieldDecision ==
    ASSUME KnownInv, Coherent, NEW r \in Asked, NEW item \in Named
    PROVE  Taken(AdapterField(r, item)) = Taken(MemoryField(r, item))
<1> DEFINE n == item.name
           Fields == ScopedField(r, n)
           Links == ScopedRelation(r, n)
<1>1. ~Ambiguous(n) /\ Attached(r.on) = OwnSpecs(r.on)
  BY DEF Named, OwnSpecs
<1>2. CASE SpecFor(n) = {}
  <2>1. Fields = {} /\ Links = {}
    BY <1>2, NoScope, MeantBy
  <2>2. Relations(known.space, n) = {} /\ Scalars(known.space, n) = {}
    BY <1>2, NoSpec
  <2>3. CASE item.declared \in {None, "objects"}
    <3>1. AdapterField(r, item) = Lesson(Attached(r.on), known.space)
      BY <2>1, <2>3 DEF AdapterField, FieldPlan, Refuse, AdapterRefusal
    <3> QED
      BY <3>1, <1>1, <1>2, <2>3 DEF MemoryField
  <2>4. CASE item.declared \notin {None, "objects"}
    <3>1. AdapterField(r, item) = Mint(item, item.declared)
      BY <2>1, <2>2, <2>4 DEF AdapterField, FieldPlan, Mint
    <3> QED
      BY <3>1, <1>2, <2>4 DEF MemoryField
  <2> QED
    BY <2>3, <2>4
<1>3. ASSUME NEW s \in SpecFor(n)
      PROVE  Taken(AdapterField(r, item)) = Taken(MemoryField(r, item))
  <2>0. ScopedField(r, n) = ScopedMeant(r, n, FALSE)
        /\ ScopedRelation(r, n) = ScopedMeant(r, n, TRUE)
    BY MeantBy
  <2>m. \A relation \in BOOLEAN :
          /\ \A e \in ScopedMeant(r, n, relation) : e.key = s.key /\ e.format = s.format
          /\ ScopedMeant(r, n, relation) # {}
               <=> (s.format = "objects" <=> relation) /\ Admits(r, s)
    BY <1>1, <1>3, SameScope
  <2>1. /\ \A e \in Fields : e.key = s.key /\ e.format = s.format
        /\ Fields # {} <=> s.format # "objects" /\ Admits(r, s)
    BY <2>0, <2>m
  <2>2. /\ \A e \in Links : e.key = s.key /\ e.format = s.format
        /\ Links # {} <=> s.format = "objects" /\ Admits(r, s)
    BY <2>0, <2>m
  <2>3. /\ First(SpecFor(n)) = s /\ SpecFor(n) # {}
        /\ Relations(known.space, n) = IF s.format = "objects" THEN {s} ELSE {}
        /\ Scalars(known.space, n) = IF s.format = "objects" THEN {} ELSE {s}
    BY <1>1, <1>3, OneSpec
  <2> HIDE DEF n, Fields, Links
  <2>4. /\ Fields # {} => First(Fields).key = s.key /\ First(Fields).format = s.format
        /\ Links # {} => First(Links).key = s.key
    BY <2>1, <2>2, FirstIn
  <2> DEFINE M == MemoryField(r, item)
             A == AdapterField(r, item)
             P == FieldPlan(r, item)
             L == Lesson(OwnSpecs(r.on), known.space)
             Bare == item.declared \in {None, "objects"}
  <2>5. /\ P.do = "approval" => A = IF Links # {} THEN Redirect(First(Links)) ELSE L
        /\ P.do # "approval" => A = P
    BY <1>1 DEF AdapterField, AdapterRefusal, n, Links
  <2>6. CASE s.format = "objects"
    <3>1. P = Refuse("approval")
      BY <2>1, <2>3, <2>6 DEF FieldPlan, n, Fields
    <3>2. M = IF Admits(r, s) THEN Redirect(s) ELSE L
      BY <2>3, <2>6 DEF MemoryField, n
    <3>3. Links # {} => Redirect(First(Links)) = Redirect(s)
      BY <2>4 DEF Redirect
    <3>4. A = M
      BY <2>2, <2>5, <2>6, <3>1, <3>2, <3>3 DEF Refuse
    <3> QED
      BY <3>4
  <2>7. CASE s.format # "objects" /\ ~Admits(r, s) /\ Bare
    <3>1. P = Refuse("approval") /\ Links = {}
      BY <2>1, <2>2, <2>7 DEF FieldPlan, n, Fields
    <3>2. M = L
      BY <2>3, <2>7 DEF MemoryField, n
    <3> QED
      BY <2>5, <3>1, <3>2 DEF Refuse
  <2>8. CASE s.format # "objects" /\ ~(~Admits(r, s) /\ Bare)
    <3>1. PICK e : /\ e.key = s.key /\ e.format = s.format
                   /\ P = IF item.declared \in {None, "objects", e.format}
                          THEN Use(e, item) ELSE Refuse("conflict")
      <4>1. CASE Fields # {}
        <5>1. P = IF item.declared \in {None, "objects", First(Fields).format}
                  THEN Use(First(Fields), item) ELSE Refuse("conflict")
          BY <4>1 DEF FieldPlan, n, Fields
        <5> QED
          BY <5>1, <4>1, <2>4
      <4>2. CASE Fields = {}
        <5>1. ~Bare /\ Scalars(known.space, n) = {s} /\ Relations(known.space, n) = {}
          BY <4>2, <2>1, <2>3, <2>8
        <5>2. P = IF item.declared \in {None, "objects", s.format}
                  THEN Use(s, item) ELSE Refuse("conflict")
          BY <4>2, <5>1, FirstOfOne DEF FieldPlan, n, Fields
        <5> QED
          BY <5>2
      <4> QED
        BY <4>1, <4>2
    <3>2. M = IF ~Bare /\ item.declared # s.format THEN Refuse("conflict")
              ELSE Use(s, item)
      BY <2>3, <2>8 DEF MemoryField, n
    <3>3. P.do # "approval"
      BY <3>1 DEF Use, Refuse
    <3>4. /\ Taken(Use(e, item)) = Taken(Use(s, item))
      BY <3>1 DEF Use, Taken
    <3> QED
      BY <2>5, <3>1, <3>2, <3>3, <3>4
  <2> QED
    BY <2>6, <2>7, <2>8
<1> QED
  BY <1>2, <1>3

LEMMA SameLinkDecision ==
    ASSUME KnownInv, Coherent, NEW r \in Asked, NEW item \in Named
    PROVE  /\ Taken(LinkPlan(r, item)) = Taken(MemoryLink(r, item))
           /\ AdapterLabel(r, item.name) = MemoryLabel(r, item.name)
<1> DEFINE n == item.name
           Links == ScopedRelation(r, n)
<1>1. ~Ambiguous(n)
  BY DEF Named
<1>2. Links = ScopedMeant(r, n, TRUE)
  BY MeantBy
<1>3. CASE SpecFor(n) = {}
  <2>1. Links = {} /\ RelationSpecFor(n) = {} /\ Relations(known.space, n) = {}
    BY <1>2, <1>3, NoScope, NoSpec
  <2> QED
    BY <2>1 DEF LinkPlan, MemoryLink, AdapterLabel, MemoryLabel, KeysOf
<1>4. ASSUME NEW s \in SpecFor(n)
      PROVE  /\ Taken(LinkPlan(r, item)) = Taken(MemoryLink(r, item))
             /\ AdapterLabel(r, item.name) = MemoryLabel(r, item.name)
  <2>1. /\ \A e \in ScopedMeant(r, n, TRUE) : e.key = s.key
        /\ ScopedMeant(r, n, TRUE) # {} <=> (s.format = "objects" <=> TRUE) /\ Admits(r, s)
    BY <1>1, <1>4, SameScope
  <2>2. /\ RelationSpecFor(n) = IF s.format = "objects" THEN {s} ELSE {}
        /\ Relations(known.space, n) = IF s.format = "objects" THEN {s} ELSE {}
    BY <1>1, <1>4, OneSpec
  <2>3. /\ \A e \in Links : e.key = s.key
        /\ Links # {} <=> s.format = "objects" /\ Admits(r, s)
    BY <1>2, <2>1
  <2> HIDE DEF n, Links
  <2>4. Links # {} => First(Links).key = s.key
    BY <2>3, FirstIn
  <2>5. CASE Links # {}
    <3>1. LinkPlan(r, item) = Use(First(Links), item)
      BY <2>5 DEF LinkPlan, n, Links
    <3>2. MemoryLink(r, item) = Use(s, item)
      BY <2>2, <2>3, <2>5, FirstOfOne DEF MemoryLink, n
    <3>3. Taken(Use(First(Links), item)) = Taken(Use(s, item))
      BY <2>4, <2>5 DEF Use, Taken
    <3>4. KeysOf(Links) = {s.key}
      BY <2>3, <2>5 DEF KeysOf
    <3>5. {e \in RelationSpecFor(n) : Admits(r, e)} = {s}
      BY <2>2, <2>3, <2>5
    <3>6. KeysOf({s}) = {s.key}
      BY DEF KeysOf
    <3> QED
      BY <3>1, <3>2, <3>3, <3>4, <3>5, <3>6 DEF AdapterLabel, MemoryLabel, n, Links
  <2>6. CASE Links = {}
    <3>1. \A e \in RelationSpecFor(n) : ~Admits(r, e)
      BY <2>2, <2>3, <2>6
    <3>2. LinkPlan(r, item) = MemoryLink(r, item)
      BY <2>2, <2>6, <3>1 DEF LinkPlan, MemoryLink, n, Links
    <3>3. {e \in RelationSpecFor(n) : Admits(r, e)} = {}
      BY <3>1
    <3> QED
      BY <3>2, <3>3, <2>6 DEF AdapterLabel, MemoryLabel, n, Links
  <2> QED
    BY <2>5, <2>6
<1> QED
  BY <1>3, <1>4

LEMMA SameEntryDecision ==
    ASSUME NEW item PROVE Taken(EntryPlan(item)) = Taken(MemoryEntry(item))
<1> DEFINE n == item.name
<1>1. Relations(known.space, n) = RelationSpecFor(n)
  BY DEF Relations, RelationSpecFor, SpecFor
<1>2. RelationSpecFor(n) = {} => Scalars(known.space, n) = SpecFor(n)
  BY DEF Scalars, RelationSpecFor, SpecFor
<1> QED
  BY <1>1, <1>2 DEF EntryPlan, MemoryEntry

LEMMA SameCatalog == ASSUME KnownInv PROVE AdapterCatalog = MemoryCatalog
<1> DEFINE scalar(t) == {e \in Attached(t) : e.format # "objects"}
           own(t) == KeysOf(scalar(t))
           free == {e \in known.space : e.format # "objects"}
           buckets == [t \in Shown |-> {e \in OwnSpecs(t) : e.format # "objects"}]
           claimed == UNION Range(buckets)
<1>1. \A t \in Shown : scalar(t) \subseteq known.types[t] /\ t \in DOMAIN known.types
  BY DEF Shown, Attached
<1>2. \A t \in Shown : own(t) \subseteq Keys
  BY <1>1 DEF KnownInv, Keyed, KeysOf
<1>3. DOMAIN buckets = Shown /\ \A t \in Shown : buckets[t] = scalar(t)
  BY DEF OwnSpecs
<1>4. UNION {{t} \X own(t) : t \in Shown}
        = {p \in Shown \X Keys : \E e \in buckets[p[1]] : e.key = p[2]}
  <2> HIDE DEF buckets, scalar
  <2>1. ASSUME NEW p \in Shown \X Keys, \E e \in buckets[p[1]] : e.key = p[2]
        PROVE  p \in UNION {{t} \X own(t) : t \in Shown}
    <3>1. p[1] \in Shown /\ p[2] \in own(p[1]) /\ p = <<p[1], p[2]>>
      BY <2>1, <1>3 DEF KeysOf
    <3>2. p \in {p[1]} \X own(p[1])
      BY <3>1
    <3> QED
      BY <3>1, <3>2
  <2>2. ASSUME NEW t \in Shown, NEW p \in {t} \X own(t)
        PROVE  p \in {q \in Shown \X Keys : \E e \in buckets[q[1]] : e.key = q[2]}
    <3>1. p = <<t, p[2]>> /\ p[2] \in own(t) /\ p[1] = t
      OBVIOUS
    <3>2. \E e \in buckets[p[1]] : e.key = p[2]
      BY <3>1, <1>3 DEF KeysOf
    <3>3. p \in Shown \X Keys
      BY <3>1, <1>2
    <3> QED
      BY <3>2, <3>3
  <2> QED
    BY <2>1, <2>2
<1>5. \A c : c \in claimed <=> \E t \in Shown : c \in scalar(t)
  BY <1>3 DEF Range
<1> HIDE DEF buckets, claimed, scalar
<1>6. KeysOf(free) \ UNION {own(t) : t \in Shown}
        = KeysOf({s \in free : \A c \in claimed : ~SameSpec(c, s)})
  BY <1>5 DEF KeysOf, SameSpec
<1>7. {AnyType} \X KeysOf({s \in free : \A c \in claimed : ~SameSpec(c, s)})
        = {<<AnyType, e.key>> : e \in {s \in free : \A c \in claimed : ~SameSpec(c, s)}}
  BY DEF KeysOf
<1>8. {s \in free : \A c \in claimed : ~SameSpec(c, s)}
        = {s \in known.space : s.format # "objects" /\ \A c \in claimed : ~SameSpec(c, s)}
  OBVIOUS
<1> DEFINE offered == UNION {{t} \X own(t) : t \in Shown}
           listed == {p \in Shown \X Keys : \E e \in buckets[p[1]] : e.key = p[2]}
           rest == {AnyType} \X (KeysOf(free) \ UNION {own(t) : t \in Shown})
           over == {<<AnyType, e.key>> : e \in {s \in known.space :
                      s.format # "objects" /\ \A c \in claimed : ~SameSpec(c, s)}}
<1>9. offered = listed
  BY <1>4
<1>10. rest = over
  BY <1>6, <1>7, <1>8
<1>11. AdapterCatalog = offered \union rest
  BY DEF AdapterCatalog, scalar
<1>12. MemoryCatalog = listed \union over
  BY DEF MemoryCatalog, buckets, claimed
<1> HIDE DEF offered, listed, rest, over
<1> QED
  BY <1>9, <1>10, <1>11, <1>12

\* In every state in which the registry holds each property once the two
\* repositories answer alike.
LEMMA DecisionsAreSame == KnownInv => SameDecisions
BY SameFieldDecision, SameLinkDecision, SameEntryDecision, SameCatalog DEF SameDecisions

-----------------------------------------------------------------------------
(* The schema of the space, whoever changes it.                              *)

SchemaInv ==
    /\ DOMAIN props \subseteq Keys
    /\ \A t \in DOMAIN types : types[t] \subseteq DOMAIN props
    /\ tags \in [Keys -> [Options -> Nat]]

LeftInv == left \in [DOMAIN Budget -> Nat]

LEMMA PutTypeKeeps ==
    ASSUME SchemaInv, NEW t, NEW entries, KeysOf(entries) \subseteq Keys,
           PutType(t, entries)
    PROVE  /\ SchemaInv'
           /\ DOMAIN props' = DOMAIN props \union KeysOf(entries)
           /\ \A k \in DOMAIN props : props'[k] = props[k]
           /\ DOMAIN types' = DOMAIN types \union {t}
           /\ types'[t] = KeysOf(entries)
           /\ \A u \in DOMAIN types \ {t} : types'[u] = types[u]
           /\ tags' = tags
<1>1. /\ DOMAIN props' = DOMAIN props \union KeysOf(entries)
      /\ \A k \in DOMAIN props : props'[k] = props[k]
      /\ DOMAIN types' = DOMAIN types \union {t}
      /\ types'[t] = KeysOf(entries)
      /\ \A u \in DOMAIN types \ {t} : types'[u] = types[u]
      /\ tags' = tags
  BY DEF PutType, Minted
<1> QED
  BY <1>1 DEF SchemaInv

LEMMA PostPropertyKeeps ==
    ASSUME SchemaInv, NEW entry, entry.key \in Keys, PostProperty(entry)
    PROVE  /\ SchemaInv'
           /\ DOMAIN props' = DOMAIN props \union {entry.key}
           /\ props'[entry.key].format = entry.format
           /\ \A k \in DOMAIN props : props'[k] = props[k]
           /\ UNCHANGED <<types, tags>>
<1>1. KeysOf({entry}) = {entry.key} /\ entry.key \notin DOMAIN props
  BY DEF KeysOf, PostProperty
<1>3. props'[entry.key].format = entry.format
  <2>1. PICK e : e = CHOOSE x \in {entry} : x.key = entry.key
    OBVIOUS
  <2>2. e = entry
    BY <2>1
  <2>3. props'[entry.key] = [name |-> e.name, format |-> e.format, id |-> deleted[entry.key] + 1]
    BY <1>1, <2>1 DEF PostProperty, Minted
  <2> QED
    BY <2>2, <2>3
<1>2. /\ DOMAIN props' = DOMAIN props \union {entry.key}
      /\ \A k \in DOMAIN props : props'[k] = props[k]
      /\ UNCHANGED <<types, tags>>
  BY <1>1 DEF PostProperty, Minted
<1> QED
  BY <1>2, <1>3 DEF SchemaInv

LEMMA DeletePropertyKeeps ==
    ASSUME SchemaInv, NEW k, DeleteProperty(k)
    PROVE  /\ SchemaInv'
           /\ DOMAIN props' = DOMAIN props \ {k}
           /\ \A j \in DOMAIN props \ {k} : props'[j] = props[j]
           /\ DOMAIN types' = DOMAIN types
<1>1. /\ DOMAIN props' = DOMAIN props \ {k}
      /\ \A j \in DOMAIN props \ {k} : props'[j] = props[j]
      /\ DOMAIN types' = DOMAIN types
      /\ \A t \in DOMAIN types : types'[t] = types[t] \ {k}
  BY DEF DeleteProperty, Restrict
<1>2. tags' \in [Keys -> [Options -> Nat]]
  BY DEF SchemaInv, DeleteProperty
<1> QED
  BY <1>1, <1>2 DEF SchemaInv

LEMMA PostTagKeeps ==
    ASSUME SchemaInv, NEW k, NEW o, PostTag(k, o)
    PROVE  SchemaInv' /\ UNCHANGED <<props, types>>
<1>1. tags' \in [Keys -> [Options -> Nat]]
  <2>1. tags' = [tags EXCEPT ![k] = [tags[k] EXCEPT ![o] = @ + 1]]
    BY DEF PostTag
  <2>2. ASSUME k \in Keys PROVE [tags[k] EXCEPT ![o] = @ + 1] \in [Options -> Nat]
    <3>1. tags[k] \in [Options -> Nat]
      BY <2>2 DEF SchemaInv
    <3>2. ASSUME NEW f \in [Options -> Nat]
          PROVE  [f EXCEPT ![o] = @ + 1] \in [Options -> Nat]
      <4>1. \A x \in Options : (IF x = o THEN f[o] + 1 ELSE f[x]) \in Nat
        OBVIOUS
      <4>2. [f EXCEPT ![o] = @ + 1] = [x \in Options |-> IF x = o THEN f[o] + 1 ELSE f[x]]
        OBVIOUS
      <4> QED
        BY <4>1, <4>2
    <3> QED
      BY <3>1, <3>2
  <2> QED
    BY <2>1, <2>2 DEF SchemaInv
<1> QED
  BY <1>1 DEF PostTag, SchemaInv

LEMMA PersonEditsKeep ==
    ASSUME SchemaInv, PersonEditsSchema
    PROVE  SchemaInv' /\ DOMAIN types' = DOMAIN types
<1>1. ASSUME NEW t \in Types, NEW k \in Keys, NEW n \in Names, NEW f \in Formats,
             PersonAdds(t, k, n, f)
      PROVE  SchemaInv' /\ DOMAIN types' = DOMAIN types
  <2>1. KeysOf({Entry(k, n, f, 0)}) = {k}
    BY DEF KeysOf, Entry
  <2>2. DOMAIN props' = DOMAIN props \union {k}
    BY <1>1, <2>1 DEF PersonAdds, Minted
  <2>3. /\ DOMAIN types' = DOMAIN types /\ tags' = tags
        /\ \A u \in DOMAIN types : types'[u] \subseteq types[u] \union {k}
    BY <1>1 DEF PersonAdds
  <2> QED
    BY <2>2, <2>3 DEF SchemaInv
<1>2. ASSUME NEW t \in Types, NEW k \in Keys,
             PersonAttaches(t, k) \/ PersonDetaches(t, k)
      PROVE  SchemaInv' /\ DOMAIN types' = DOMAIN types
  <2>1. /\ DOMAIN types' = DOMAIN types /\ UNCHANGED <<props, tags>>
        /\ \A u \in DOMAIN types : types'[u] \subseteq types[u] \union DOMAIN props
    BY <1>2 DEF PersonAttaches, PersonDetaches
  <2> QED
    BY <2>1 DEF SchemaInv
<1> QED
  BY <1>1, <1>2, DeletePropertyKeeps DEF PersonEditsSchema, PersonDeletes

LEMMA SpendKeeps == ASSUME LeftInv, NEW kind, Spend(kind) PROVE LeftInv'
<1>1. left' = [left EXCEPT ![kind] = left[kind] - 1] /\ left[kind] > 0
  BY DEF Spend
<1>2. \A k \in DOMAIN Budget : left'[k] \in Nat
  <2> SUFFICES ASSUME NEW k \in DOMAIN Budget PROVE left'[k] \in Nat
    OBVIOUS
  <2>1. left[k] \in Nat /\ DOMAIN left = DOMAIN Budget
    BY DEF LeftInv
  <2>2. left'[k] = IF k = kind THEN left[kind] - 1 ELSE left[k]
    BY <1>1, <2>1
  <2> QED
    BY <1>1, <2>1, <2>2
<1>3. left' = [k \in DOMAIN Budget |-> left'[k]]
  BY <1>1 DEF LeftInv
<1> QED
  BY <1>2, <1>3 DEF LeftInv

LEMMA PersonSpends == ASSUME LeftInv, Spend("person") PROVE left'.person # left.person
<1>1. "person" \in DOMAIN Budget
  BY SchemaAssumption
<1>2. left["person"] \in Nat /\ left'["person"] = left["person"] - 1
  BY <1>1 DEF LeftInv, Spend
<1> QED
  BY <1>2

LEMMA HeardKeeps == ASSUME LeftInv, NEW reply, Heard(reply) PROVE LeftInv'
BY SpendKeeps DEF Heard, LeftInv

LEMMA EntriesOfKeys ==
    ASSUME NEW keys
    PROVE  /\ KeysOf(EntriesOf(keys)) = keys /\ Once(EntriesOf(keys))
           /\ \A e \in EntriesOf(keys) : IsEntry(e)
           /\ keys \subseteq Keys => Keyed(EntriesOf(keys))
<1> DEFINE of(k) == Entry(k, props[k].name, props[k].format, props[k].id)
<1>1. \A k : of(k).key = k /\ IsEntry(of(k))
  BY DEF Entry, IsEntry
<1>2. EntriesOf(keys) = {of(k) : k \in keys}
  BY DEF EntriesOf
<1> HIDE DEF of
<1> QED
  BY <1>1, <1>2 DEF KeysOf, Once, Keyed

-----------------------------------------------------------------------------
(* What a call plans.                                                        *)

IsPlan(p) ==
    /\ p = [do |-> p.do, entry |-> p.entry, option |-> p.option, name |-> p.name]
    /\ p.do \in {"use", "mint"}
    /\ IsEntry(p.entry) /\ p.entry.key \in Keys

Refused(p) == p.do \in {"approval", "conflict"}

\* A list of plans in which nothing is refused.
Planned(plans) ==
    plans \in Seq(Range(plans)) /\ \A p \in Range(plans) : IsPlan(p)

LEMMA UseIsPlan ==
    ASSUME NEW entries, Keyed(entries), NEW e \in entries, NEW item
    PROVE  IsPlan(Use(e, item))
BY DEF Keyed, IsPlan, Use

LEMMA MintIsPlan ==
    ASSUME NEW item \in Items, NEW format
    PROVE  IsPlan(Mint(item, format))
<1>1. Slug[item.name] \in Keys
  BY SchemaAssumption DEF Items
<1> DEFINE e == Entry(Slug[item.name], item.name, format, 0)
<1>2. IsEntry(e) /\ e.key = Slug[item.name]
  BY DEF IsEntry, Entry
<1>3. Mint(item, format) = [do |-> "mint", entry |-> e, option |-> item.option,
                            name |-> item.name]
  BY DEF Mint
<1> HIDE DEF e
<1> QED
  BY <1>1, <1>2, <1>3 DEF IsPlan

LEMMA RefuseIsRefused ==
    ASSUME NEW why \in {"approval", "conflict"} PROVE Refused(Refuse(why))
BY DEF Refused, Refuse

\* What a name is looked up among is what the registry holds.
LEMMA ScopeIsKnown ==
    ASSUME KnownInv, NEW r, NEW n
    PROVE  /\ Keyed(ScopedRelation(r, n)) /\ Keyed(ScopedField(r, n))
           /\ Keyed(Relations(known.space, n)) /\ Keyed(Scalars(known.space, n))
<1>1. Keyed(known.space) /\ Keyed(Attached(r.on))
  BY DEF KnownInv, Attached, Keyed
<1>2. \A entries : Keyed(entries)
        => Keyed(Relations(entries, n)) /\ Keyed(Scalars(entries, n))
  BY DEF Relations, Scalars, Keyed
<1>3. \A space, own : Keyed(space) /\ Keyed(own) => Keyed(Scoped(r, space, own))
  BY DEF Scoped, Keyed
<1> QED
  BY <1>1, <1>2, <1>3 DEF ScopedRelation, ScopedField

LEMMA LinkPlanned ==
    ASSUME KnownInv, NEW r, NEW item \in Items
    PROVE  IsPlan(LinkPlan(r, item)) \/ LinkPlan(r, item) = Refuse("approval")
<1> DEFINE scoped == ScopedRelation(r, item.name)
           space == Relations(known.space, item.name)
<1>1. Keyed(scoped) /\ Keyed(space)
  BY ScopeIsKnown
<1>2. /\ scoped # {} => IsPlan(Use(First(scoped), item))
      /\ space # {} => IsPlan(Use(First(space), item))
  BY <1>1, FirstIn, UseIsPlan
<1>3. IsPlan(Mint(item, "objects"))
  BY MintIsPlan
<1>4. LinkPlan(r, item) =
        IF scoped # {} THEN Use(First(scoped), item)
        ELSE IF item.declared # "objects" THEN Refuse("approval")
        ELSE IF space # {} THEN Use(First(space), item)
        ELSE Mint(item, "objects")
  BY DEF LinkPlan
<1> HIDE DEF scoped, space
<1> QED
  BY <1>2, <1>3, <1>4

LEMMA FieldPlanned ==
    ASSUME KnownInv, NEW r, NEW item \in Items
    PROVE  IsPlan(FieldPlan(r, item)) \/ Refused(FieldPlan(r, item))
<1> DEFINE scoped == ScopedField(r, item.name)
           space == Scalars(known.space, item.name)
           Agreed(e) == IF item.declared \in {None, "objects", e.format}
                        THEN Use(e, item) ELSE Refuse("conflict")
<1>1. Keyed(scoped) /\ Keyed(space)
  BY ScopeIsKnown
<1>2. \A e \in scoped \union space : IsPlan(Agreed(e)) \/ Refused(Agreed(e))
  BY <1>1, UseIsPlan, RefuseIsRefused
<1>3. IsPlan(Mint(item, item.declared)) /\ Refused(Refuse("approval"))
  BY MintIsPlan, RefuseIsRefused
<1>4. \/ scoped # {} /\ FieldPlan(r, item) = Agreed(First(scoped))
      \/ FieldPlan(r, item) = Refuse("approval")
      \/ space # {} /\ FieldPlan(r, item) = Agreed(First(space))
      \/ FieldPlan(r, item) = Mint(item, item.declared)
  BY DEF FieldPlan
<1> HIDE DEF scoped, space, Agreed
<1> QED
  BY <1>2, <1>3, <1>4, FirstIn

LEMMA EntryPlanned ==
    ASSUME KnownInv, NEW item \in Items
    PROVE  IsPlan(EntryPlan(item)) \/ Refused(EntryPlan(item))
<1> DEFINE edge == Relations(known.space, item.name)
           space == Scalars(known.space, item.name)
<1>1. Keyed(edge) /\ Keyed(space)
  BY ScopeIsKnown
<1>2. /\ edge # {} => IsPlan(Use(First(edge), item))
      /\ space # {} => IsPlan(Use(First(space), item))
  BY <1>1, FirstIn, UseIsPlan
<1>3. IsPlan(Mint(item, item.declared)) /\ Refused(Refuse("conflict"))
  BY MintIsPlan, RefuseIsRefused
<1>4. \/ EntryPlan(item) = Refuse("conflict")
      \/ edge # {} /\ EntryPlan(item) = Use(First(edge), item)
      \/ space # {} /\ EntryPlan(item) = Use(First(space), item)
      \/ EntryPlan(item) = Mint(item, item.declared)
  BY DEF EntryPlan
<1> HIDE DEF edge, space
<1> QED
  BY <1>2, <1>3, <1>4

LEMMA PlannedOf ==
    ASSUME NEW S, NEW plans \in Seq(S), \A p \in S : IsPlan(p)
    PROVE  Planned(plans)
<1>1. Range(plans) \subseteq S
  BY ElementOfSeq DEF Range
<1>2. plans \in Seq(Range(plans))
  BY ElementOfSeq, LenProperties, SeqDef DEF Range
<1> QED
  BY <1>1, <1>2 DEF Planned

\* A list that passes the check is a plan for every item.
LEMMA CheckedPlans ==
    ASSUME NEW n \in Nat, NEW plans, DOMAIN plans = 1..n, plans = [i \in 1..n |-> plans[i]],
           \A i \in 1..n : IsPlan(plans[i]) \/ Refused(plans[i]),
           Checked(plans)
    PROVE  Planned(plans)
<1>1. \A i \in 1..n : IsPlan(plans[i])
  BY DEF Checked, Refusals, Range, Refused
<1>2. \A p \in Range(plans) : IsPlan(p)
  BY <1>1 DEF Range
<1>3. plans \in Seq(Range(plans))
  BY SeqDef DEF Range
<1> QED
  BY <1>2, <1>3 DEF Planned

LEMMA FieldPlansPlanned ==
    ASSUME KnownInv, NEW r, r.fields \in Seq(Items), Checked(FieldPlans(r))
    PROVE  Planned(FieldPlans(r))
<1> DEFINE n == Len(r.fields)
<1>1. n \in Nat /\ DOMAIN r.fields = 1..n /\ \A i \in 1..n : r.fields[i] \in Items
  BY LenProperties, ElementOfSeq
<1>2. /\ FieldPlans(r) = [i \in 1..n |-> FieldPlan(r, r.fields[i])]
      /\ \A i \in 1..n : FieldPlans(r)[i] = FieldPlan(r, r.fields[i])
  BY <1>1 DEF FieldPlans
<1>3. \A i \in 1..n : IsPlan(FieldPlans(r)[i]) \/ Refused(FieldPlans(r)[i])
  BY <1>1, <1>2, FieldPlanned
<1> HIDE DEF n
<1> QED
  BY <1>1, <1>2, <1>3, CheckedPlans

LEMMA EntryPlansPlanned ==
    ASSUME KnownInv, NEW items \in SUBSET Items, Refusals(EntryPlans(items)) = {}
    PROVE  \A p \in EntryPlans(items) : IsPlan(p)
BY EntryPlanned DEF EntryPlans, Refusals, Refused

LEMMA ItemsOf == ASSUME NEW items \in Seq(Items) PROVE Range(items) \subseteq Items
BY ElementOfSeq DEF Range

LEMMA PlannedHead ==
    ASSUME NEW plans, Planned(plans), plans # <<>>
    PROVE  /\ IsPlan(Head(plans)) /\ Planned(Tail(plans))
           /\ Refusals({Head(plans)}) = {}
           /\ Planned(<<[Head(plans) EXCEPT !.do = "use"]>> \o Tail(plans))
<1> DEFINE S == Range(plans)
           p == Head(plans)
           q == [p EXCEPT !.do = "use"]
<1>1. plans \in Seq(S) /\ \A x \in S : IsPlan(x)
  BY DEF Planned
<1> HIDE DEF S
<1>2. p \in S /\ Tail(plans) \in Seq(S)
  BY <1>1, HeadTailProperties
<1>3. IsPlan(p) /\ Planned(Tail(plans))
  BY <1>1, <1>2, PlannedOf
<1>4. IsPlan(q)
  <2> HIDE DEF p
  <2>1. q = [do |-> "use", entry |-> p.entry, option |-> p.option, name |-> p.name]
    BY <1>3 DEF IsPlan
  <2> QED
    BY <1>3, <2>1 DEF IsPlan
<1>5. Refusals({p}) = {}
  BY <1>3 DEF Refusals, IsPlan
<1>6. <<q>> \o Tail(plans) \in Seq(S \union {q})
  <2>1. <<q>> \in Seq(S \union {q}) /\ Tail(plans) \in Seq(S \union {q})
    BY <1>2
  <2> QED
    BY <2>1, ConcatProperties
<1>7. Planned(<<q>> \o Tail(plans))
  <2> HIDE DEF q, p
  <2>1. \A x \in S \union {q} : IsPlan(x)
    BY <1>1, <1>4
  <2> QED
    BY <1>6, <2>1, PlannedOf
<1> QED
  BY <1>3, <1>5, <1>7

-----------------------------------------------------------------------------
(* The calls, one by one.                                                    *)

CallFields == {"kind", "stage", "on", "links", "fields", "plans", "next", "uses", "options",
               "read", "tries", "minted", "cause"}

Linked(o) ==
    /\ o.kind \in {"create", "link"}
    /\ o.links \in Seq(Items) /\ o.fields \in Seq(Items)

\* What a call holds at each of its stages; one that extends a type has the
\* fields it reads and the plans it makes of them.
CallInv(o) ==
    /\ DOMAIN o = CallFields
    /\ o.stage = "waiting" =>
          \/ o.next = "links" /\ Linked(o)
          \/ o.next = "write"
          \/ /\ o.next = "patch" /\ o.kind = "type"
             /\ Keyed(o.read) /\ \A p \in o.plans : IsPlan(p)
          \/ o.next = "read" /\ o.kind = "attach" /\ o.fields \in Seq(Items)
    /\ o.stage \in {"links", "mintlink"} => Linked(o)
    /\ o.stage = "mintlink" => o.links # <<>> /\ Keyed(o.read) /\ o.read # {}
    /\ o.stage \in {"fields", "mintfield", "newoption"} => Planned(o.fields)
    /\ o.stage \in {"mintfield", "newoption"} => o.fields # <<>>
    /\ o.stage = "read" => o.kind = "attach" /\ o.fields \in Seq(Items)
    /\ o.stage = "patch" => Keyed(o.read) /\ \A p \in o.plans : IsPlan(p)
    /\ o.stage = "rejected" /\ o.kind = "update" => ~o.minted

CallsInv == op = [c \in Calls |-> op[c]] /\ \A c \in Calls : CallInv(op[c])

\* The stages that only the holder of the lock is at.
Locked == {"links", "mintlink", "read", "patch"}
LockInv == \A c \in Calls : op[c].stage \in Locked => lock = c

Others(c) == \A d \in Calls \ {c} : op'[d] = op[d]

LEMMA CallMoves ==
    ASSUME CallsInv, LockInv, NEW c \in Calls, NEW r, CallInv(r), Set(c, r),
           r.stage \in Locked => lock' = c,
           \/ lock' = lock
           \/ (lock = c /\ lock' = None)
           \/ (lock = None /\ lock' = c)
    PROVE  CallsInv' /\ LockInv' /\ Others(c) /\ op'[c] = r
<1>1. op' = [d \in Calls |-> IF d = c THEN r ELSE op[d]]
  BY DEF CallsInv, Set
<1>2. op'[c] = r /\ Others(c)
  BY <1>1 DEF Others
<1>3. CallsInv'
  BY <1>1 DEF CallsInv
<1>4. ASSUME NEW d \in Calls, op'[d].stage \in Locked PROVE lock' = d
  <2>1. CASE d = c
    BY <1>2, <1>4, <2>1
  <2>2. CASE d # c
    <3>1. lock = d
      BY <1>2, <1>4, <2>2 DEF Others, LockInv
    <3>2. d # None
      BY VocabularyAssumption
    <3> QED
      BY <2>2, <3>1, <3>2
  <2> QED
    BY <2>1, <2>2
<1> QED
  BY <1>2, <1>3, <1>4 DEF LockInv

LEMMA EndsKeeps ==
    ASSUME CallsInv, LockInv, NEW c \in Calls,
           NEW outcome \in {"done", "rejected", "failed"}, NEW cause,
           Ends(c, outcome, cause), outcome = "rejected" => op[c].kind # "update"
    PROVE  CallsInv' /\ LockInv' /\ Others(c) /\ op'[c].stage = outcome
<1>1. PICK r : r = [Done(outcome) EXCEPT !.kind = op[c].kind, !.cause = cause,
                      !.minted = op[c].minted, !.tries = op[c].tries]
  OBVIOUS
<1>2. /\ DOMAIN r = CallFields /\ r.stage = outcome /\ r.kind = op[c].kind
  BY <1>1 DEF Done, CallFields
<1>3. CallInv(r)
  BY <1>2 DEF CallInv
<1>4. Set(c, r) /\ (lock' = lock \/ (lock = c /\ lock' = None))
  <2>1. Set(c, r)
    BY <1>1 DEF Ends
  <2>2. lock' = IF lock = c THEN None ELSE lock
    BY DEF Ends, Freed
  <2> QED
    BY <2>1, <2>2
<1>5. r.stage \notin Locked
  BY <1>2 DEF Locked
<1> QED
  BY <1>2, <1>3, <1>4, <1>5, CallMoves

LEMMA BeginKeeps ==
    ASSUME CallsInv, LockInv, KnownInv, NEW c \in Calls, Begin(c)
    PROVE  /\ CallsInv' /\ LockInv' /\ Others(c)
           /\ op'[c].stage \in {"waiting", "fields", "rejected"}
           /\ op'[c].stage = "waiting" /\ op'[c].next = "read"
                => op'[c].on \in DOMAIN known.types
<1>1. PICK r \in Requests :
        LET o == [Done("waiting") EXCEPT !.kind = r.kind, !.on = r.on,
                      !.links = r.links, !.fields = r.fields]
        IN \/ /\ r.kind = "update" /\ Checked(FieldPlans(r))
              /\ Set(c, [o EXCEPT !.stage = "fields", !.fields = FieldPlans(r)])
           \/ Set(c, [o EXCEPT !.stage = "rejected"])
           \/ r.kind \in {"create", "link"} /\ Set(c, [o EXCEPT !.next = "links"])
           \/ /\ r.kind = "type" /\ Refusals(EntryPlans(Range(r.fields))) = {}
              /\ Set(c, [o EXCEPT !.next = "patch",
                                  !.plans = EntryPlans(Range(r.fields))])
           \/ /\ r.kind = "attach" /\ Set(c, [o EXCEPT !.next = "read"])
              /\ r.on \in DOMAIN known.types
  BY VocabularyAssumption DEF Begin, Checked
<1>2. r.links \in Seq(Items) /\ r.fields \in Seq(Items)
  BY VocabularyAssumption
<1>3. PICK o : o = [Done("waiting") EXCEPT !.kind = r.kind, !.on = r.on,
                      !.links = r.links, !.fields = r.fields]
  OBVIOUS
<1>4. /\ DOMAIN o = CallFields /\ o.stage = "waiting" /\ o.kind = r.kind
      /\ o.links = r.links /\ o.fields = r.fields /\ ~o.minted /\ o.read = {}
      /\ o.on = r.on
  BY <1>3 DEF Done, CallFields
<1>5. Keyed({})
  BY DEF Keyed
<1>6. PICK s : /\ Set(c, s) /\ CallInv(s) /\ s.stage \in {"waiting", "fields", "rejected"}
               /\ s.stage = "waiting" /\ s.next = "read" => s.on \in DOMAIN known.types
  <2>1. CASE r.kind = "update" /\ Checked(FieldPlans(r))
             /\ Set(c, [o EXCEPT !.stage = "fields", !.fields = FieldPlans(r)])
    <3>1. PICK s : s = [o EXCEPT !.stage = "fields", !.fields = FieldPlans(r)]
      OBVIOUS
    <3>2. DOMAIN s = CallFields /\ s.stage = "fields" /\ s.fields = FieldPlans(r)
      BY <1>4, <3>1 DEF CallFields
    <3>3. Planned(FieldPlans(r))
      BY <1>2, <2>1, FieldPlansPlanned
    <3> QED
      BY <2>1, <3>1, <3>2, <3>3 DEF CallInv
  <2>2. CASE Set(c, [o EXCEPT !.stage = "rejected"])
    <3>1. PICK s : s = [o EXCEPT !.stage = "rejected"]
      OBVIOUS
    <3>2. DOMAIN s = CallFields /\ s.stage = "rejected" /\ ~s.minted
      BY <1>4, <3>1 DEF CallFields
    <3> QED
      BY <2>2, <3>1, <3>2 DEF CallInv
  <2>3. CASE r.kind \in {"create", "link"} /\ Set(c, [o EXCEPT !.next = "links"])
    <3>1. PICK s : s = [o EXCEPT !.next = "links"]
      OBVIOUS
    <3>2. /\ DOMAIN s = CallFields /\ s.stage = "waiting" /\ s.next = "links"
          /\ s.kind = r.kind /\ s.links = r.links /\ s.fields = r.fields
      BY <1>4, <3>1 DEF CallFields
    <3> QED
      BY <1>2, <2>3, <3>1, <3>2 DEF CallInv, Linked
  <2>4. CASE /\ r.kind = "type" /\ Refusals(EntryPlans(Range(r.fields))) = {}
             /\ Set(c, [o EXCEPT !.next = "patch", !.plans = EntryPlans(Range(r.fields))])
    <3>1. PICK s : s = [o EXCEPT !.next = "patch", !.plans = EntryPlans(Range(r.fields))]
      OBVIOUS
    <3>2. /\ DOMAIN s = CallFields /\ s.stage = "waiting" /\ s.next = "patch"
          /\ s.kind = "type" /\ s.plans = EntryPlans(Range(r.fields)) /\ s.read = {}
      BY <1>4, <2>4, <3>1 DEF CallFields
    <3>3. \A p \in EntryPlans(Range(r.fields)) : IsPlan(p)
      BY <1>2, <2>4, ItemsOf, EntryPlansPlanned
    <3> QED
      BY <1>5, <2>4, <3>1, <3>2, <3>3 DEF CallInv
  <2>5. CASE /\ r.kind = "attach" /\ Set(c, [o EXCEPT !.next = "read"])
             /\ r.on \in DOMAIN known.types
    <3>1. PICK s : s = [o EXCEPT !.next = "read"]
      OBVIOUS
    <3>2. /\ DOMAIN s = CallFields /\ s.stage = "waiting" /\ s.next = "read"
          /\ s.kind = "attach" /\ s.fields = r.fields /\ s.on = r.on
      BY <1>4, <2>5, <3>1 DEF CallFields
    <3> QED
      BY <1>2, <2>5, <3>1, <3>2 DEF CallInv
  <2> QED
    BY <1>1, <1>3, <2>1, <2>2, <2>3, <2>4, <2>5
<1>7. lock' = lock /\ s.stage \notin Locked
  BY <1>6 DEF Begin, Locked
<1> QED
  BY <1>6, <1>7, CallMoves

LEMMA AcquireKeeps ==
    ASSUME CallsInv, LockInv, NEW c \in Calls, Acquire(c)
    PROVE  /\ CallsInv' /\ LockInv' /\ Others(c)
           /\ op[c].stage = "waiting" /\ op'[c].stage = op[c].next
           /\ op'[c].kind = op[c].kind /\ op'[c].on = op[c].on
           /\ op'[c].stage = "patch" => op'[c].kind = "type"
           /\ op'[c].stage \in {"links", "write", "patch", "read"}
<1>1. PICK o : o = op[c]
  OBVIOUS
<1>2. PICK s : s = [o EXCEPT !.stage = o.next]
  OBVIOUS
<1>3. Set(c, s) /\ o.stage = "waiting" /\ CallInv(o) /\ lock = None /\ lock' = c
  BY <1>1, <1>2 DEF Acquire, Free, CallsInv
<1>4. /\ DOMAIN s = CallFields /\ s.stage = o.next /\ s.kind = o.kind
      /\ s.links = o.links /\ s.fields = o.fields /\ s.read = o.read
      /\ s.plans = o.plans /\ s.on = o.on
  BY <1>2, <1>3 DEF CallInv, CallFields
<1>5. /\ CallInv(s) /\ (s.stage = "patch" => s.kind = "type")
      /\ s.stage \in {"links", "write", "patch", "read"}
  BY <1>3, <1>4 DEF CallInv, Linked
<1> QED
  BY <1>1, <1>3, <1>4, <1>5, CallMoves

LEMMA ResolveLinkKeeps ==
    ASSUME CallsInv, LockInv, KnownInv, NEW c \in Calls, ResolveLink(c)
    PROVE  /\ CallsInv' /\ LockInv' /\ Others(c)
           /\ op'[c].stage \in {"fields", "rejected", "links", "mintlink"}
<1>1. PICK o : o = op[c]
  OBVIOUS
<1>2. CallInv(o) /\ o.stage = "links" /\ lock = c /\ DOMAIN o = CallFields /\ Linked(o)
  BY <1>1 DEF ResolveLink, CallsInv, LockInv, Locked, CallInv
<1>3. o.kind # "update"
  BY <1>2 DEF Linked
<1>4. CASE Ends(c, "rejected", None)
  BY <1>1, <1>3, <1>4, EndsKeeps
<1>5. CASE /\ o.links = <<>> /\ Checked(FieldPlans(o))
           /\ Set(c, [o EXCEPT !.stage = "fields", !.fields = FieldPlans(o)])
           /\ UNCHANGED lock
  <2>1. PICK s : s = [o EXCEPT !.stage = "fields", !.fields = FieldPlans(o)]
    OBVIOUS
  <2>2. DOMAIN s = CallFields /\ s.stage = "fields" /\ s.fields = FieldPlans(o)
    BY <1>2, <2>1 DEF CallFields
  <2>3. Planned(FieldPlans(o))
    BY <1>2, <1>5, FieldPlansPlanned DEF Linked
  <2>4. CallInv(s) /\ s.stage \notin Locked
    BY <2>2, <2>3 DEF CallInv, Locked
  <2> QED
    BY <1>5, <2>1, <2>2, <2>4, CallMoves
<1>6. CASE /\ o.links # <<>> /\ UNCHANGED lock
           /\ \E key : Set(c, [o EXCEPT !.links = Tail(@), !.uses = @ \union {key}])
  <2>1. PICK key : Set(c, [o EXCEPT !.links = Tail(@), !.uses = @ \union {key}])
    BY <1>6
  <2>2. PICK s : s = [o EXCEPT !.links = Tail(@), !.uses = @ \union {key}]
    OBVIOUS
  <2>3. /\ DOMAIN s = CallFields /\ s.stage = "links" /\ s.kind = o.kind
        /\ s.links = Tail(o.links) /\ s.fields = o.fields
    BY <1>2, <2>2 DEF CallFields
  <2>4. Tail(o.links) \in Seq(Items)
    BY <1>2, <1>6, HeadTailProperties DEF Linked
  <2>5. CallInv(s)
    BY <1>2, <2>3, <2>4 DEF CallInv, Linked
  <2> QED
    BY <1>2, <1>6, <2>1, <2>2, <2>3, <2>5, CallMoves
<1>7. CASE /\ o.links # <<>> /\ UNCHANGED lock
           /\ IsPlan(LinkPlan(o, Head(o.links)))
           /\ Set(c, [o EXCEPT !.stage = "mintlink",
                               !.read = {LinkPlan(o, Head(o.links)).entry}])
  <2>1. PICK e : e = LinkPlan(o, Head(o.links)).entry
    OBVIOUS
  <2>2. PICK s : s = [o EXCEPT !.stage = "mintlink", !.read = {e}]
    OBVIOUS
  <2>3. /\ DOMAIN s = CallFields /\ s.stage = "mintlink" /\ s.kind = o.kind
        /\ s.links = o.links /\ s.fields = o.fields /\ s.read = {e}
    BY <1>2, <2>2 DEF CallFields
  <2>4. Keyed({e})
    BY <1>7, <2>1 DEF IsPlan, Keyed
  <2>5. CallInv(s)
    BY <1>2, <1>7, <2>3, <2>4 DEF CallInv, Linked
  <2>6. Set(c, s)
    BY <1>7, <2>1, <2>2
  <2> QED
    BY <1>2, <1>7, <2>3, <2>5, <2>6, CallMoves
<1>8. CASE o.links # <<>>
  <2> DEFINE plan == LinkPlan(o, Head(o.links))
  <2>1. Head(o.links) \in Items
    BY <1>2, <1>8, HeadTailProperties DEF Linked
  <2>2. IsPlan(plan) \/ plan = Refuse("approval")
    BY <2>1, LinkPlanned
  <2>3. plan = Refuse("approval") => plan.do = "approval"
    BY DEF Refuse
  <2>4. \/ plan.do = "approval" /\ Ends(c, "rejected", None)
        \/ /\ plan.do # "approval" /\ UNCHANGED lock
           /\ Set(c, [o EXCEPT !.links = Tail(@), !.uses = @ \union {plan.entry.key}])
        \/ /\ plan.do # "approval" /\ UNCHANGED lock
           /\ Set(c, [o EXCEPT !.stage = "mintlink", !.read = {plan.entry}])
    BY <1>1, <1>8 DEF ResolveLink
  <2> QED
    BY <1>4, <1>6, <1>7, <1>8, <2>2, <2>3, <2>4
<1>9. CASE o.links = <<>>
  <2>1. \/ Ends(c, "rejected", None)
        \/ /\ Checked(FieldPlans(o)) /\ UNCHANGED lock
           /\ Set(c, [o EXCEPT !.stage = "fields", !.fields = FieldPlans(o)])
    BY <1>1, <1>9 DEF ResolveLink
  <2> QED
    BY <1>4, <1>5, <1>9, <2>1
<1> QED
  BY <1>8, <1>9

LEMMA TakeFieldKeeps ==
    ASSUME CallsInv, LockInv, NEW c \in Calls, TakeField(c)
    PROVE  /\ CallsInv' /\ LockInv' /\ Others(c)
           /\ op'[c].stage \in {"waiting", "write", "fields", "mintfield", "newoption"}
           /\ op'[c].stage = "waiting" => op'[c].next = "write"
<1>1. PICK o : o = op[c]
  OBVIOUS
<1>2. /\ CallInv(o) /\ o.stage = "fields" /\ DOMAIN o = CallFields /\ Planned(o.fields)
      /\ lock' = lock
  BY <1>1 DEF TakeField, CallsInv, CallInv
<1>3. PICK s : /\ Set(c, s) /\ CallInv(s)
               /\ s.stage \in {"waiting", "write", "fields", "mintfield", "newoption"}
               /\ s.stage = "waiting" => s.next = "write"
  <2>1. CASE \/ Set(c, [o EXCEPT !.stage = "waiting", !.next = "write"])
             \/ Set(c, [o EXCEPT !.stage = "write"])
    <3>1. PICK s : /\ Set(c, s)
                   /\ \/ s = [o EXCEPT !.stage = "waiting", !.next = "write"]
                      \/ s = [o EXCEPT !.stage = "write"]
      BY <2>1
    <3>2. DOMAIN s = CallFields /\ (s.stage = "write" \/ (s.stage = "waiting" /\ s.next = "write"))
      BY <1>2, <3>1 DEF CallFields
    <3> QED
      BY <3>1, <3>2 DEF CallInv
  <2>2. CASE /\ o.fields # <<>>
             /\ \/ Set(c, [o EXCEPT !.stage = "mintfield"])
                \/ Set(c, [o EXCEPT !.stage = "newoption"])
    <3>1. PICK s : /\ Set(c, s)
                   /\ \/ s = [o EXCEPT !.stage = "mintfield"]
                      \/ s = [o EXCEPT !.stage = "newoption"]
      BY <2>2
    <3>2. /\ DOMAIN s = CallFields /\ s.stage \in {"mintfield", "newoption"}
          /\ s.fields = o.fields
      BY <1>2, <3>1 DEF CallFields
    <3> QED
      BY <1>2, <2>2, <3>1, <3>2 DEF CallInv
  <2>3. CASE /\ o.fields # <<>>
             /\ \E key, options : Set(c, [o EXCEPT !.fields = Tail(@),
                   !.uses = @ \union {key}, !.options = @ \union options])
    <3>1. PICK key, options : Set(c, [o EXCEPT !.fields = Tail(@),
                   !.uses = @ \union {key}, !.options = @ \union options])
      BY <2>3
    <3>2. PICK s : s = [o EXCEPT !.fields = Tail(@), !.uses = @ \union {key},
                                 !.options = @ \union options]
      OBVIOUS
    <3>3. DOMAIN s = CallFields /\ s.stage = "fields" /\ s.fields = Tail(o.fields)
      BY <1>2, <3>2 DEF CallFields
    <3>4. Planned(Tail(o.fields))
      BY <1>2, <2>3, PlannedHead
    <3> QED
      BY <3>1, <3>2, <3>3, <3>4 DEF CallInv
  <2>4. o.fields # <<>> => Refusals({Head(o.fields)}) = {}
    BY <1>2, PlannedHead
  <2>5. \/ Set(c, [o EXCEPT !.stage = "waiting", !.next = "write"])
        \/ Set(c, [o EXCEPT !.stage = "write"])
        \/ o.fields # <<>> /\ Set(c, [o EXCEPT !.stage = "mintfield"])
        \/ o.fields # <<>> /\ Set(c, [o EXCEPT !.stage = "newoption"])
        \/ /\ o.fields # <<>>
           /\ \E key, options : Set(c, [o EXCEPT !.fields = Tail(@),
                   !.uses = @ \union {key}, !.options = @ \union options])
    <3>1. CASE o.fields = <<>>
      BY <1>1, <3>1 DEF TakeField
    <3>2. CASE o.fields # <<>>
      <4> DEFINE plan == Head(o.fields)
      <4>1. \/ Set(c, [o EXCEPT !.stage = "mintfield"])
            \/ Set(c, [o EXCEPT !.stage = "newoption"])
            \/ Set(c, [o EXCEPT !.fields = Tail(@), !.uses = @ \union {plan.entry.key},
                         !.options = @ \union ({plan.option} \ {None})])
        BY <1>1, <2>4, <3>2 DEF TakeField
      <4> QED
        BY <3>2, <4>1
    <3> QED
      BY <3>1, <3>2
  <2> QED
    BY <2>1, <2>2, <2>3, <2>5
<1>4. s.stage \notin Locked
  BY <1>3 DEF Locked
<1> QED
  BY <1>2, <1>3, <1>4, CallMoves

-----------------------------------------------------------------------------
(* What the calls do to the space and to the registry.                       *)

LEMMA RegisteredKeeps ==
    ASSUME KnownInv, NEW entry, IsEntry(entry), entry.key \in Keys, NEW id,
           known' = Registered([entry EXCEPT !.id = id])
    PROVE  KnownInv'
<1>1. PICK e : e = [entry EXCEPT !.id = id]
  OBVIOUS
<1>2. IsEntry(e) /\ e.key = entry.key
  BY <1>1 DEF IsEntry, Entry
<1>3. /\ DOMAIN known' = {"space", "types", "stage"}
      /\ known'.types = known.types
      /\ known'.space = {x \in known.space : x.key # e.key} \union {e}
  BY <1>1 DEF KnownInv, Registered
<1>4. Keyed(known'.space) /\ Once(known'.space)
  BY <1>2, <1>3 DEF KnownInv, Keyed, Once
<1> QED
  BY <1>3, <1>4 DEF KnownInv

LEMMA AdoptedKeeps ==
    ASSUME KnownInv, NEW t, NEW entries, Keyed(entries), Once(entries),
           known' = Adopted(t, entries)
    PROVE  KnownInv'
<1>1. /\ DOMAIN known' = {"space", "types", "stage"}
      /\ known'.space = known.space
            \union {e \in entries : e.key \notin KeysOf(known.space)}
      /\ known'.types = [u \in DOMAIN known.types \union {t} |->
                            IF u = t THEN entries ELSE known.types[u]]
  BY DEF KnownInv, Adopted
<1>2. Keyed(known'.space) /\ Once(known'.space)
  BY <1>1 DEF KnownInv, Keyed, Once, KeysOf
<1>3. \A u \in DOMAIN known'.types : Keyed(known'.types[u])
  BY <1>1 DEF KnownInv
<1> QED
  BY <1>1, <1>2, <1>3 DEF KnownInv

\* All that a step of a call relies on and keeps.
ServedInv == CallsInv /\ LockInv /\ KnownInv /\ SchemaInv /\ LeftInv

LEMMA CreateKeeps ==
    ASSUME ServedInv, NEW c \in Calls, NEW entry, NEW o,
           IsEntry(entry), entry.key \in Keys,
           Create(c, entry, o), CallInv([o EXCEPT !.minted = TRUE]),
           o.stage \in Locked => lock = c, "minted" \in DOMAIN o
    PROVE  ServedInv' /\ Others(c) /\ types' = types /\ op'[c].stage \in {"failed", o.stage}
<1>1. CASE Ends(c, "failed", "exists")
           /\ UNCHANGED <<schemaVars, left, known, settling, unsettled>>
  <2>1. SchemaInv' /\ KnownInv' /\ LeftInv' /\ types' = types
    BY <1>1 DEF ServedInv, SchemaInv, KnownInv, LeftInv, schemaVars
  <2> QED
    BY <1>1, <2>1, EndsKeeps DEF ServedInv
<1>2. ASSUME NEW reply \in Replies, Heard(reply), entry.key \notin DOMAIN props,
             IF reply = "refused" THEN UNCHANGED schemaVars ELSE PostProperty(entry),
             \/ /\ reply = "answered" /\ UNCHANGED lock
                /\ Set(c, [o EXCEPT !.minted = TRUE])
                /\ known' = Registered([entry EXCEPT !.id = props'[entry.key].id])
             \/ Ends(c, "failed", "net") /\ UNCHANGED known
      PROVE  ServedInv' /\ Others(c) /\ types' = types /\ op'[c].stage \in {"failed", o.stage}
  <2>1. SchemaInv' /\ types' = types
    <3>1. CASE UNCHANGED schemaVars
      BY <3>1 DEF schemaVars, ServedInv, SchemaInv
    <3>2. CASE PostProperty(entry)
      BY <3>2, PostPropertyKeeps DEF ServedInv
    <3> QED
      BY <1>2, <3>1, <3>2
  <2>2. LeftInv'
    BY <1>2, HeardKeeps DEF ServedInv
  <2>3. CASE /\ UNCHANGED lock /\ Set(c, [o EXCEPT !.minted = TRUE])
             /\ known' = Registered([entry EXCEPT !.id = props'[entry.key].id])
    <3>1. PICK s : s = [o EXCEPT !.minted = TRUE]
      OBVIOUS
    <3>2. CallInv(s) /\ Set(c, s) /\ s.stage = o.stage
      BY <2>3, <3>1
    <3>3. CallsInv' /\ LockInv' /\ Others(c) /\ op'[c] = s
      BY <2>3, <3>2, CallMoves DEF ServedInv
    <3>4. KnownInv'
      BY <2>3, RegisteredKeeps DEF ServedInv
    <3> QED
      BY <2>1, <2>2, <3>2, <3>3, <3>4 DEF ServedInv
  <2>4. CASE Ends(c, "failed", "net") /\ UNCHANGED known
    <3>1. CallsInv' /\ LockInv' /\ Others(c) /\ op'[c].stage = "failed"
      BY <2>4, EndsKeeps DEF ServedInv
    <3>2. KnownInv'
      BY <2>4 DEF ServedInv, KnownInv
    <3> QED
      BY <2>1, <2>2, <3>1, <3>2 DEF ServedInv
  <2> QED
    BY <1>2, <2>3, <2>4
<1>3. \/ Ends(c, "failed", "exists") /\ UNCHANGED <<schemaVars, left, known, settling, unsettled>>
      \/ /\ entry.key \notin DOMAIN props
         /\ \E reply \in Replies :
              /\ Heard(reply)
              /\ IF reply = "refused" THEN UNCHANGED schemaVars ELSE PostProperty(entry)
              /\ \/ /\ reply = "answered" /\ UNCHANGED lock
                    /\ Set(c, [o EXCEPT !.minted = TRUE])
                    /\ known' = Registered([entry EXCEPT !.id = props'[entry.key].id])
                 \/ Ends(c, "failed", "net") /\ UNCHANGED known
  BY DEF Create
<1> QED
  BY <1>1, <1>2, <1>3

LEMMA MintLinkKeeps ==
    ASSUME ServedInv, NEW c \in Calls, MintLink(c)
    PROVE  ServedInv' /\ Others(c) /\ types' = types /\ op'[c].stage \in {"failed", "links"}
<1>1. PICK o : o = op[c]
  OBVIOUS
<1>2. PICK e : e = First(o.read)
  OBVIOUS
<1>3. PICK r : r = [o EXCEPT !.stage = "links", !.links = Tail(@),
                             !.uses = @ \union {e.key}, !.read = {}]
  OBVIOUS
<1>4. /\ CallInv(o) /\ DOMAIN o = CallFields /\ o.stage = "mintlink" /\ Linked(o)
      /\ o.links # <<>> /\ Keyed(o.read) /\ o.read # {} /\ lock = c
  BY <1>1 DEF MintLink, ServedInv, CallsInv, CallInv, LockInv, Locked
<1>5. IsEntry(e) /\ e.key \in Keys
  BY <1>2, <1>4, FirstIn DEF Keyed
<1>6. Create(c, e, r)
  BY <1>1, <1>2, <1>3 DEF MintLink
<1>7. /\ DOMAIN r = CallFields /\ r.stage = "links" /\ r.kind = o.kind
      /\ r.links = Tail(o.links) /\ r.fields = o.fields
  BY <1>3, <1>4 DEF CallFields
<1>8. CallInv([r EXCEPT !.minted = TRUE])
  <2>1. PICK s : s = [r EXCEPT !.minted = TRUE]
    OBVIOUS
  <2>2. /\ DOMAIN s = CallFields /\ s.stage = "links" /\ s.kind = o.kind
        /\ s.links = Tail(o.links) /\ s.fields = o.fields
    BY <1>7, <2>1 DEF CallFields
  <2>3. Tail(o.links) \in Seq(Items)
    BY <1>4, HeadTailProperties DEF Linked
  <2> QED
    BY <1>4, <2>1, <2>2, <2>3 DEF CallInv, Linked
<1>9. "minted" \in DOMAIN r
  BY <1>7 DEF CallFields
<1> QED
  BY <1>4, <1>5, <1>6, <1>7, <1>8, <1>9, CreateKeeps

LEMMA MintFieldKeeps ==
    ASSUME ServedInv, NEW c \in Calls, MintField(c)
    PROVE  ServedInv' /\ Others(c) /\ types' = types /\ op'[c].stage \in {"failed", "fields"}
<1>1. PICK o : o = op[c]
  OBVIOUS
<1>2. PICK plan : plan = Head(o.fields)
  OBVIOUS
<1>3. PICK r : r = [o EXCEPT !.stage = "fields",
                             !.fields = <<[plan EXCEPT !.do = "use"]>> \o Tail(@)]
  OBVIOUS
<1>4. /\ CallInv(o) /\ DOMAIN o = CallFields /\ o.stage = "mintfield"
      /\ Planned(o.fields) /\ o.fields # <<>>
  BY <1>1 DEF MintField, ServedInv, CallsInv, CallInv
<1>5. IsPlan(plan) /\ Planned(<<[plan EXCEPT !.do = "use"]>> \o Tail(o.fields))
  BY <1>2, <1>4, PlannedHead
<1>6. Create(c, plan.entry, r)
  BY <1>1, <1>2, <1>3 DEF MintField
<1>7. /\ DOMAIN r = CallFields /\ r.stage = "fields"
      /\ r.fields = <<[plan EXCEPT !.do = "use"]>> \o Tail(o.fields)
  BY <1>3, <1>4 DEF CallFields
<1>8. CallInv([r EXCEPT !.minted = TRUE])
  <2>1. PICK s : s = [r EXCEPT !.minted = TRUE]
    OBVIOUS
  <2>2. DOMAIN s = CallFields /\ s.stage = "fields" /\ s.fields = r.fields
    BY <1>7, <2>1 DEF CallFields
  <2>3. Planned(s.fields)
    BY <1>5, <1>7, <2>2
  <2> QED
    BY <2>1, <2>2, <2>3 DEF CallInv
<1>9. "minted" \in DOMAIN r /\ r.stage \notin Locked
  BY <1>7 DEF CallFields, Locked
<1> QED
  BY <1>5, <1>6, <1>7, <1>8, <1>9, CreateKeeps DEF IsPlan

\* A new option is none of the properties or types.
LEMMA NewOptionKeeps ==
    ASSUME ServedInv, NEW c \in Calls, NewOption(c)
    PROVE  ServedInv' /\ Others(c) /\ types' = types /\ op'[c].stage \in {"failed", "fields"}
<1>1. PICK o : o = op[c]
  OBVIOUS
<1>2. PICK plan : plan = Head(o.fields)
  OBVIOUS
<1>3. /\ CallInv(o) /\ DOMAIN o = CallFields /\ o.stage = "newoption"
      /\ Planned(o.fields) /\ o.fields # <<>>
  BY <1>1 DEF NewOption, ServedInv, CallsInv, CallInv
<1>4. PICK reply \in Replies :
        /\ Heard(reply)
        /\ UNCHANGED schemaVars \/ PostTag(plan.entry.key, plan.option)
        /\ \/ /\ Set(c, [o EXCEPT !.stage = "fields", !.fields = Tail(@),
                               !.uses = @ \union {plan.entry.key},
                               !.options = @ \union {plan.option}])
              /\ UNCHANGED lock
           \/ Ends(c, "failed", "net")
  BY <1>1, <1>2 DEF NewOption
<1>5. SchemaInv' /\ types' = types
  <2>1. CASE UNCHANGED schemaVars
    BY <2>1 DEF schemaVars, ServedInv, SchemaInv
  <2>2. CASE PostTag(plan.entry.key, plan.option)
    BY <2>2, PostTagKeeps DEF ServedInv
  <2> QED
    BY <1>4, <2>1, <2>2
<1>6. LeftInv' /\ KnownInv'
  BY <1>4, HeardKeeps DEF ServedInv, NewOption, KnownInv
<1>7. CallsInv' /\ LockInv' /\ Others(c) /\ op'[c].stage \in {"failed", "fields"}
  <2>1. CASE Ends(c, "failed", "net")
    BY <2>1, EndsKeeps DEF ServedInv
  <2>2. CASE /\ Set(c, [o EXCEPT !.stage = "fields", !.fields = Tail(@),
                               !.uses = @ \union {plan.entry.key},
                               !.options = @ \union {plan.option}])
             /\ UNCHANGED lock
    <3>1. PICK s : s = [o EXCEPT !.stage = "fields", !.fields = Tail(@),
                               !.uses = @ \union {plan.entry.key},
                               !.options = @ \union {plan.option}]
      OBVIOUS
    <3>2. DOMAIN s = CallFields /\ s.stage = "fields" /\ s.fields = Tail(o.fields)
      BY <1>3, <3>1 DEF CallFields
    <3>3. Planned(Tail(o.fields))
      BY <1>3, PlannedHead
    <3>4. CallInv(s) /\ s.stage \notin Locked
      BY <3>2, <3>3 DEF CallInv, Locked
    <3> QED
      BY <2>2, <3>1, <3>2, <3>4, CallMoves DEF ServedInv
  <2> QED
    BY <1>4, <2>1, <2>2
<1> QED
  BY <1>5, <1>6, <1>7 DEF ServedInv

LEMMA WriteKeeps ==
    ASSUME ServedInv, NEW c \in Calls, Write(c)
    PROVE  /\ ServedInv' /\ Others(c) /\ types' = types
           /\ op'[c].stage \in {"done", "failed", "write"}
<1>1. PICK o : o = op[c]
  OBVIOUS
<1>2. CallInv(o) /\ DOMAIN o = CallFields /\ o.stage = "write"
  BY <1>1 DEF Write, ServedInv, CallsInv, CallInv
<1>3. /\ UNCHANGED <<schemaVars, known>>
      /\ \/ UNCHANGED left
         \/ \E reply \in Replies : Heard(reply)
      /\ \/ \E cause : Ends(c, "done", cause) \/ Ends(c, "failed", cause)
         \/ Set(c, [o EXCEPT !.tries = @ + 1]) /\ UNCHANGED lock
  BY <1>1 DEF Write
<1>4. SchemaInv' /\ KnownInv' /\ types' = types
  BY <1>3 DEF ServedInv, SchemaInv, KnownInv, schemaVars
<1>5. LeftInv'
  BY <1>3, HeardKeeps DEF ServedInv, LeftInv
<1>6. CallsInv' /\ LockInv' /\ Others(c) /\ op'[c].stage \in {"done", "failed", "write"}
  <2>1. CASE \E cause : Ends(c, "done", cause) \/ Ends(c, "failed", cause)
    BY <2>1, EndsKeeps DEF ServedInv
  <2>2. CASE Set(c, [o EXCEPT !.tries = @ + 1]) /\ UNCHANGED lock
    <3>1. PICK s : s = [o EXCEPT !.tries = @ + 1]
      OBVIOUS
    <3>2. DOMAIN s = CallFields /\ s.stage = "write"
      BY <1>2, <3>1 DEF CallFields
    <3>3. CallInv(s) /\ s.stage \notin Locked
      BY <3>2 DEF CallInv, Locked
    <3> QED
      BY <2>2, <3>1, <3>2, <3>3, CallMoves DEF ServedInv
  <2> QED
    BY <1>3, <2>1, <2>2
<1> QED
  BY <1>4, <1>5, <1>6 DEF ServedInv

\* The calls that extend a type name one that the space has; no type leaves it.
Reads(o) == o.stage = "read" \/ (o.stage = "waiting" /\ o.next = "read")
PlacedInv ==
    /\ DOMAIN known.types \subseteq DOMAIN types
    /\ DOMAIN resync.types \subseteq DOMAIN types
    /\ \A c \in Calls : Reads(op[c]) => op[c].on \in DOMAIN types

LEMMA ReadFieldsKeeps ==
    ASSUME ServedInv, PlacedInv, NEW c \in Calls, ReadFields(c)
    PROVE  /\ ServedInv' /\ Others(c) /\ types' = types
           /\ op'[c].stage \in {"rejected", "done", "patch"}
           /\ op'[c].stage = "patch" => KeysOf(op'[c].read) = types[op'[c].on]
<1>1. PICK o : o = op[c]
  OBVIOUS
<1>2. PICK fields : fields = EntriesOf(types[o.on])
  OBVIOUS
<1>3. /\ CallInv(o) /\ DOMAIN o = CallFields /\ o.stage = "read" /\ lock = c
      /\ o.kind = "attach" /\ o.fields \in Seq(Items) /\ o.on \in DOMAIN types
  BY <1>1 DEF ReadFields, ServedInv, CallsInv, CallInv, LockInv, Locked, PlacedInv, Reads
<1>4. KeysOf(fields) = types[o.on] /\ Keyed(fields)
  <2>1. types[o.on] \subseteq Keys
    BY <1>3 DEF ServedInv, SchemaInv
  <2> QED
    BY <1>2, <2>1, EntriesOfKeys
<1>5. SchemaInv' /\ KnownInv' /\ LeftInv' /\ types' = types
  BY DEF ReadFields, ServedInv, SchemaInv, KnownInv, LeftInv, schemaVars
<1>6. PICK plans : plans = EntryPlans({i \in Range(o.fields) :
                             {e \in fields : Called(e, i.name)} = {}})
  OBVIOUS
<1>7. \/ \E outcome \in {"rejected", "done"} : Ends(c, outcome, None)
      \/ /\ Refusals(plans) = {} /\ UNCHANGED lock
         /\ Set(c, [o EXCEPT !.stage = "patch", !.plans = plans, !.read = fields])
  BY <1>1, <1>2, <1>6 DEF ReadFields
<1>8. CASE \E outcome \in {"rejected", "done"} : Ends(c, outcome, None)
  <2>1. op[c].kind # "update"
    BY <1>1, <1>3
  <2> QED
    BY <1>5, <1>8, <2>1, EndsKeeps DEF ServedInv
<1>9. CASE /\ Refusals(plans) = {} /\ UNCHANGED lock
           /\ Set(c, [o EXCEPT !.stage = "patch", !.plans = plans, !.read = fields])
  <2>1. PICK s : s = [o EXCEPT !.stage = "patch", !.plans = plans, !.read = fields]
    OBVIOUS
  <2>2. /\ DOMAIN s = CallFields /\ s.stage = "patch" /\ s.plans = plans
        /\ s.read = fields /\ s.on = o.on
    BY <1>3, <2>1 DEF CallFields
  <2>3. {i \in Range(o.fields) : {e \in fields : Called(e, i.name)} = {}} \subseteq Items
    BY <1>3, ItemsOf
  <2>4. \A p \in plans : IsPlan(p)
    BY <1>6, <1>9, <2>3, EntryPlansPlanned DEF ServedInv
  <2>5. CallInv(s)
    BY <1>4, <2>2, <2>4 DEF CallInv
  <2>6. CallsInv' /\ LockInv' /\ Others(c) /\ op'[c] = s
    BY <1>3, <1>9, <2>1, <2>5, CallMoves DEF ServedInv
  <2> QED
    BY <1>4, <1>5, <2>2, <2>6 DEF ServedInv
<1> QED
  BY <1>7, <1>8, <1>9

LEMMA SentKeys ==
    ASSUME NEW o, Keyed(o.read), \A p \in o.plans : IsPlan(p)
    PROVE  KeysOf(Sent(o)) \subseteq Keys /\ KeysOf(o.read) \subseteq KeysOf(Sent(o))
<1> DEFINE bare(e) == [e EXCEPT !.id = 0]
<1>1. \A e \in o.read : bare(e).key = e.key /\ e.key \in Keys
  BY DEF Keyed, IsEntry, Entry
<1>2. \A p \in o.plans : p.entry.key \in Keys
  BY DEF IsPlan
<1>3. Sent(o) = {bare(e) : e \in o.read} \union {p.entry : p \in o.plans}
  BY DEF Sent
<1> HIDE DEF bare
<1>4. \A x \in Sent(o) : x.key \in Keys
  BY <1>1, <1>2, <1>3
<1>5. \A e \in o.read : bare(e) \in Sent(o)
  BY <1>3
<1> QED
  BY <1>1, <1>4, <1>5 DEF KeysOf

LEMMA PatchTypeKeeps ==
    ASSUME ServedInv, NEW c \in Calls, PatchType(c)
    PROVE  /\ ServedInv' /\ Others(c) /\ lock = c
           /\ op'[c].stage \in {"failed", "options"}
           /\ DOMAIN known'.types \subseteq DOMAIN known.types \union DOMAIN types'
           /\ \/ types' = types
              \/ /\ DOMAIN types' = DOMAIN types \union {op[c].on}
                 /\ KeysOf(op[c].read) \subseteq types'[op[c].on]
                 /\ \A u \in DOMAIN types \ {op[c].on} : types'[u] = types[u]
<1>1. PICK o : o = op[c]
  OBVIOUS
<1>2. /\ CallInv(o) /\ DOMAIN o = CallFields /\ o.stage = "patch" /\ lock = c
      /\ Keyed(o.read) /\ \A p \in o.plans : IsPlan(p)
  BY <1>1 DEF PatchType, ServedInv, CallsInv, CallInv, LockInv, Locked
<1>3. KeysOf(Sent(o)) \subseteq Keys /\ KeysOf(o.read) \subseteq KeysOf(Sent(o))
  BY <1>2, SentKeys
<1> DEFINE entries == {[key |-> k, name |-> props'[k].name, format |-> props'[k].format,
                        id |-> props'[k].id] : k \in KeysOf(Sent(o))}
<1>4. \/ Ends(c, "failed", "exists") /\ UNCHANGED <<schemaVars, left, known>>
      \/ \E reply \in Replies :
           /\ Heard(reply)
           /\ IF reply = "refused" THEN UNCHANGED schemaVars ELSE PutType(o.on, Sent(o))
           /\ \/ Ends(c, "failed", "net") /\ UNCHANGED known
              \/ /\ reply = "answered" /\ UNCHANGED lock
                 /\ \E minted : Set(c, [o EXCEPT !.stage = "options", !.minted = minted])
                 /\ known' = Adopted(o.on, entries)
  BY <1>1 DEF PatchType
<1>5. Keyed(entries) /\ Once(entries)
  <2> DEFINE of(k) == [key |-> k, name |-> props'[k].name, format |-> props'[k].format,
                       id |-> props'[k].id]
  <2>1. \A k : of(k).key = k /\ IsEntry(of(k))
    BY DEF IsEntry, Entry
  <2>2. entries = {of(k) : k \in KeysOf(Sent(o))}
    OBVIOUS
  <2> HIDE DEF of
  <2> QED
    BY <1>3, <2>1, <2>2 DEF Keyed, Once
<1> HIDE DEF entries
<1>6. CASE Ends(c, "failed", "exists") /\ UNCHANGED <<schemaVars, left, known>>
  <2>1. SchemaInv' /\ KnownInv' /\ LeftInv' /\ types' = types
    BY <1>6 DEF ServedInv, SchemaInv, KnownInv, LeftInv, schemaVars
  <2> QED
    BY <1>2, <1>6, <2>1, EndsKeeps DEF ServedInv
<1>7. ASSUME NEW reply \in Replies, Heard(reply),
             IF reply = "refused" THEN UNCHANGED schemaVars ELSE PutType(o.on, Sent(o)),
             \/ Ends(c, "failed", "net") /\ UNCHANGED known
             \/ /\ reply = "answered" /\ UNCHANGED lock
                /\ \E minted : Set(c, [o EXCEPT !.stage = "options", !.minted = minted])
                /\ known' = Adopted(o.on, entries)
      PROVE  /\ ServedInv' /\ Others(c) /\ op'[c].stage \in {"failed", "options"}
             /\ DOMAIN known'.types \subseteq DOMAIN known.types \union DOMAIN types'
             /\ \/ types' = types
                \/ /\ DOMAIN types' = DOMAIN types \union {o.on}
                   /\ KeysOf(o.read) \subseteq types'[o.on]
                   /\ \A u \in DOMAIN types \ {o.on} : types'[u] = types[u]
  <2>1. /\ SchemaInv'
        /\ reply = "answered" => o.on \in DOMAIN types'
        /\ \/ types' = types
           \/ /\ DOMAIN types' = DOMAIN types \union {o.on}
              /\ KeysOf(o.read) \subseteq types'[o.on]
              /\ \A u \in DOMAIN types \ {o.on} : types'[u] = types[u]
    <3>1. CASE reply = "refused" /\ UNCHANGED schemaVars
      BY <3>1 DEF schemaVars, ServedInv, SchemaInv
    <3>2. CASE reply # "refused" /\ PutType(o.on, Sent(o))
      BY <1>3, <3>2, PutTypeKeeps DEF ServedInv
    <3> QED
      BY <1>7, <3>1, <3>2
  <2>2. LeftInv'
    BY <1>7, HeardKeeps DEF ServedInv
  <2>3. CASE Ends(c, "failed", "net") /\ UNCHANGED known
    <3>1. KnownInv'
      BY <2>3 DEF ServedInv, KnownInv
    <3> QED
      BY <2>1, <2>2, <2>3, <3>1, EndsKeeps DEF ServedInv
  <2>4. CASE /\ reply = "answered" /\ UNCHANGED lock
             /\ \E minted : Set(c, [o EXCEPT !.stage = "options", !.minted = minted])
             /\ known' = Adopted(o.on, entries)
    <3>1. PICK minted : Set(c, [o EXCEPT !.stage = "options", !.minted = minted])
      BY <2>4
    <3>2. PICK s : s = [o EXCEPT !.stage = "options", !.minted = minted]
      OBVIOUS
    <3>3. DOMAIN s = CallFields /\ s.stage = "options"
      BY <1>2, <3>2 DEF CallFields
    <3>4. CallInv(s) /\ s.stage \notin Locked
      BY <3>3 DEF CallInv, Locked
    <3>5. CallsInv' /\ LockInv' /\ Others(c) /\ op'[c] = s
      BY <2>4, <3>1, <3>2, <3>4, CallMoves DEF ServedInv
    <3>6. KnownInv'
      BY <1>5, <2>4, AdoptedKeeps DEF ServedInv
    <3>7. DOMAIN known'.types = DOMAIN known.types \union {o.on}
      BY <2>4 DEF ServedInv, KnownInv, Adopted
    <3> QED
      BY <2>1, <2>2, <2>4, <3>3, <3>5, <3>6, <3>7 DEF ServedInv
  <2> QED
    BY <1>7, <2>3, <2>4
<1> QED
  BY <1>1, <1>2, <1>4, <1>6, <1>7

LEMMA SeedOptionsKeeps ==
    ASSUME ServedInv, NEW c \in Calls, SeedOptions(c)
    PROVE  /\ ServedInv' /\ types' = types
           /\ Others(c) /\ (op'[c].stage \in {"done", "failed"} \/ op'[c] = op[c])
<1>1. /\ \/ UNCHANGED <<schemaVars, left>>
         \/ /\ \E reply \in Replies : Heard(reply)
            /\ UNCHANGED schemaVars \/ \E k, o : PostTag(k, o)
      /\ known' = known
      /\ \/ \E cause : Ends(c, "done", cause) \/ Ends(c, "failed", cause)
         \/ UNCHANGED <<op, lock>>
  BY DEF SeedOptions
<1>2. SchemaInv' /\ types' = types
  <2>1. CASE UNCHANGED schemaVars
    BY <2>1 DEF schemaVars, ServedInv, SchemaInv
  <2>2. CASE \E k, o : PostTag(k, o)
    BY <2>2, PostTagKeeps DEF ServedInv
  <2> QED
    BY <1>1, <2>1, <2>2
<1>3. LeftInv' /\ KnownInv'
  BY <1>1, HeardKeeps DEF ServedInv, LeftInv, KnownInv
<1>4. CASE \E cause : Ends(c, "done", cause) \/ Ends(c, "failed", cause)
  BY <1>2, <1>3, <1>4, EndsKeeps DEF ServedInv
<1>5. CASE UNCHANGED <<op, lock>>
  BY <1>2, <1>3, <1>5 DEF ServedInv, CallsInv, LockInv, Others
<1> QED
  BY <1>1, <1>4, <1>5

-----------------------------------------------------------------------------
(* Nothing is lost between the read of a type and its write.                 *)

\* What a type has that the bot has not read is what people put there since.
Accounted(t, entries) ==
    t \in DOMAIN types => \A k \in types[t] \ KeysOf(entries) : <<t, k>> \in late

AttachInv ==
    \A c \in Calls : op[c].stage = "patch" /\ op[c].kind = "attach"
        => Accounted(op[c].on, op[c].read)

RetrofitInv == start.stage = "retrofit" => Accounted(Type, start.fields)

\* While the bot does not serve no call is under way.
QuietInv == start.stage # "serving" => \A c \in Calls : Idle(c)

LEMMA CallStepIsServed ==
    ASSUME QuietInv, NEW c \in Calls, Begin(c) \/ Steps(c)
    PROVE  /\ start.stage = "serving" /\ UNCHANGED <<startVars, resync, peopleVars>>
           /\ LeftInv => left'.person = left.person
<1>1. Steps(c) => ~Idle(c)
  BY DEF Steps, Acquire, ResolveLink, MintLink, TakeField, MintField, NewOption, Write,
         ReadFields, PatchType, SeedOptions, Idle
<1>2. start.stage = "serving"
  BY <1>1 DEF QuietInv, Begin, Served
<1>3. UNCHANGED <<startVars, resync, peopleVars>>
  BY DEF Begin, Steps, Acquire, ResolveLink, MintLink, Create, TakeField, MintField,
         NewOption, Write, ReadFields, PatchType, SeedOptions
<1>4. \/ Spend("call") \/ UNCHANGED left
      \/ \E reply \in Replies : Heard(reply)
  <2>1. \A e, o : Create(c, e, o) => UNCHANGED left \/ \E reply \in Replies : Heard(reply)
    BY DEF Create
  <2> QED
    BY <2>1 DEF Begin, Steps, Acquire, ResolveLink, MintLink, TakeField, MintField,
         NewOption, Write, ReadFields, PatchType, SeedOptions
<1>5. ASSUME LeftInv PROVE left'.person = left.person
  <2>1. "person" \in DOMAIN left
    BY <1>5, SchemaAssumption DEF LeftInv
  <2>2. UNCHANGED left \/ Spend("call") \/ Spend("net")
    BY <1>4 DEF Heard
  <2> QED
    BY <2>1, <2>2 DEF Spend
<1> QED
  BY <1>2, <1>3, <1>5

LEMMA CallStepKeeps ==
    ASSUME ServedInv, PlacedInv, AttachInv, QuietInv, NEW c \in Calls, Begin(c) \/ Steps(c)
    PROVE  /\ ServedInv' /\ PlacedInv' /\ AttachInv'
           /\ DOMAIN types \subseteq DOMAIN types'
           /\ \A t \in DOMAIN types : t \in BetweenReadAndWrite =>
                 \A k \in types[t] \ types'[t] : <<t, k>> \in late
<1>1. /\ start.stage = "serving"
      /\ UNCHANGED <<startVars, resync, peopleVars>>
  BY CallStepIsServed
<1>2. late' = late /\ resync' = resync
  BY <1>1 DEF peopleVars
<1>3. CASE PatchType(c)
  <2>1. /\ ServedInv' /\ Others(c) /\ lock = c /\ op'[c].stage \in {"failed", "options"}
        /\ DOMAIN known'.types \subseteq DOMAIN known.types \union DOMAIN types'
        /\ \/ types' = types
           \/ /\ DOMAIN types' = DOMAIN types \union {op[c].on}
              /\ KeysOf(op[c].read) \subseteq types'[op[c].on]
              /\ \A u \in DOMAIN types \ {op[c].on} : types'[u] = types[u]
    BY <1>3, PatchTypeKeeps
  <2>2. \A d \in Calls \ {c} : op[d].stage \notin Locked
    BY <2>1 DEF ServedInv, LockInv
  <2>3. PlacedInv'
    <3>1. DOMAIN types \subseteq DOMAIN types'
      BY <2>1
    <3>2. \A d \in Calls : Reads(op'[d]) => op'[d] = op[d]
      BY <2>1 DEF Reads, Others
    <3> QED
      BY <1>2, <2>1, <3>1, <3>2 DEF PlacedInv
  <2>4. AttachInv'
    BY <2>1, <2>2 DEF AttachInv, Others, Locked
  <2>5. \A t \in BetweenReadAndWrite : t = op[c].on /\ op[c].stage = "patch" /\ op[c].kind = "attach"
    BY <1>1, <2>2 DEF BetweenReadAndWrite, Locked
  <2>6. ASSUME NEW t \in DOMAIN types, t \in BetweenReadAndWrite, NEW k \in types[t] \ types'[t]
        PROVE  <<t, k>> \in late
    <3>1. Accounted(t, op[c].read) /\ KeysOf(op[c].read) \subseteq types'[t]
      BY <2>1, <2>5, <2>6 DEF AttachInv
    <3> QED
      BY <3>1 DEF Accounted
  <2> QED
    BY <2>1, <2>3, <2>4, <2>6
<1>4. CASE ~PatchType(c)
  <2>1. /\ ServedInv' /\ Others(c) /\ types' = types
        /\ Reads(op'[c]) => op'[c].on \in DOMAIN types
        /\ op'[c].stage = "patch" /\ op'[c].kind = "attach"
              => Accounted(op'[c].on, op'[c].read)
    <3>1. CASE Begin(c)
      <4>1. types' = types /\ SchemaInv' /\ KnownInv' /\ LeftInv'
        BY <3>1, SpendKeeps DEF Begin, schemaVars, ServedInv, SchemaInv, KnownInv, LeftInv
      <4> QED
        BY <3>1, <4>1, BeginKeeps DEF ServedInv, Reads, PlacedInv
    <3>2. CASE Acquire(c)
      <4>1. types' = types /\ SchemaInv' /\ KnownInv' /\ LeftInv'
        BY <3>2 DEF Acquire, schemaVars, ServedInv, SchemaInv, KnownInv, LeftInv
      <4> QED
        BY <3>2, <4>1, AcquireKeeps DEF ServedInv, Reads, PlacedInv
    <3>3. CASE ResolveLink(c) \/ TakeField(c)
      <4>1. types' = types /\ SchemaInv' /\ KnownInv' /\ LeftInv'
        BY <3>3 DEF ResolveLink, TakeField, schemaVars, ServedInv, SchemaInv, KnownInv, LeftInv
      <4> QED
        BY <3>3, <4>1, ResolveLinkKeeps, TakeFieldKeeps DEF ServedInv, Reads
    <3>4. CASE MintLink(c) \/ MintField(c) \/ NewOption(c) \/ Write(c)
      BY <3>4, MintLinkKeeps, MintFieldKeeps, NewOptionKeeps, WriteKeeps DEF Reads
    <3>5. CASE ReadFields(c)
      BY <3>5, ReadFieldsKeeps DEF Reads, Accounted
    <3>6. CASE SeedOptions(c)
      <4>1. op[c].stage = "options"
        BY <3>6 DEF SeedOptions
      <4> QED
        BY <3>6, <4>1, SeedOptionsKeeps DEF Reads
    <3> QED
      BY <1>4, <3>1, <3>2, <3>3, <3>4, <3>5, <3>6 DEF Steps
  <2>2. DOMAIN known'.types = DOMAIN known.types
    <3>1. \A e : Registered(e).types = known.types
      BY DEF ServedInv, KnownInv, Registered
    <3> QED
      BY <1>4, <3>1 DEF Begin, Steps, Acquire, ResolveLink, MintLink, Create, TakeField,
            MintField, NewOption, Write, ReadFields, SeedOptions
  <2>3. PlacedInv'
    BY <1>2, <2>1, <2>2 DEF PlacedInv, Others
  <2>4. AttachInv'
    BY <1>2, <2>1 DEF AttachInv, Others, Accounted
  <2> QED
    BY <2>1, <2>3, <2>4
<1> QED
  BY <1>3, <1>4

-----------------------------------------------------------------------------
(* The start.                                                                *)

StartFields == {"stage", "at", "known", "shown", "fields"}
Typing == {"types", "explain", "retrofit"}
Seeded == {"modes", "seed", "await", "link", "relink", "load"}
Provided == {"options"} \union Seeded
Typed == {"props"} \union Provided
Healthy == Typing \union Typed

StartInv ==
    /\ DOMAIN start = StartFields
    /\ start.shown \subseteq DOMAIN types
    /\ Keyed(start.fields)
    /\ start.stage \in Typing => start.at \in 1..Len(InfraTypes)

\* What a start in which no person acts has seen to, type by type.
Whole(t) == t \in DOMAIN types /\ (t \in start.shown => Inline[t] \subseteq types[t])
Healed == \A k \in DOMAIN Selects \intersect DOMAIN props : props[k].format = "select"

CalmInv == calm =>
    /\ start.stage \in {"heal"} \union Healthy => start.known = DOMAIN props
    /\ start.stage \in Healthy => Healed
    /\ start.stage \in Typing => \A i \in 1..(start.at - 1) : Whole(InfraTypes[i])
    /\ start.stage = "explain" => Whole(Type)
    /\ start.stage = "retrofit" => KeysOf(start.fields) \subseteq DOMAIN props
    /\ start.stage \in Typed => \A i \in 1..Len(InfraTypes) : Whole(InfraTypes[i])
    /\ start.stage \in Provided => DOMAIN FormatOf \subseteq DOMAIN props
    /\ start.stage \in Seeded => Unseeded = {}

\* All that a step of the start relies on and keeps.
SpaceInv == SchemaInv /\ LeftInv /\ StartInv /\ CalmInv /\ RetrofitInv

LEMMA InfraTypesAre ==
    /\ InfraTypes \in Seq(Types) /\ Len(InfraTypes) \in Nat /\ Len(InfraTypes) >= 1
    /\ \A i \in 1..Len(InfraTypes) : InfraTypes[i] \in Range(InfraTypes)
    /\ \A t \in Range(InfraTypes) : /\ \E i \in 1..Len(InfraTypes) : t = InfraTypes[i]
                                    /\ Inline[t] \subseteq DOMAIN FormatOf
<1>1. InfraTypes \in Seq(Types) /\ InfraTypes # <<>>
  BY StartAssumption
<1>2. Len(InfraTypes) \in Nat /\ Len(InfraTypes) >= 1
  BY <1>1, LenProperties, EmptySeq
<1>3. DOMAIN InfraTypes = 1..Len(InfraTypes)
  BY <1>1, LenProperties
<1>4. \A t \in Range(InfraTypes) : Inline[t] \subseteq DOMAIN FormatOf
  BY StartAssumption
<1> QED
  BY <1>1, <1>2, <1>3, <1>4 DEF Range

LEMMA FormatsAre ==
    /\ DOMAIN FormatOf \subseteq Keys
    /\ DOMAIN Selects \subseteq DOMAIN FormatOf
    /\ \A k \in DOMAIN Selects : FormatOf[k] = "select" /\ Selects[k] \subseteq Options
<1> DEFINE S == {k \in DOMAIN FormatOf : FormatOf[k] = "select"}
<1>1. Selects \in [S -> SUBSET Options]
  BY StartAssumption
<1>2. DOMAIN FormatOf \subseteq Keys
  BY StartAssumption
<1> QED
  BY <1>1, <1>2

LEMMA InfraEntry ==
    ASSUME NEW k
    PROVE  IsEntry(Infra(k)) /\ Infra(k).key = k /\ Infra(k).format = FormatOf[k]
BY DEF Infra, Entry, IsEntry

LEMMA DownKeeps ==
    ASSUME SchemaInv', LeftInv', start' = NoRead
    PROVE  SpaceInv'
<1>1. /\ DOMAIN start' = StartFields /\ start'.stage = "down" /\ start'.shown = {}
      /\ start'.fields = {}
  BY DEF NoRead, StartFields
<1> QED
  BY <1>1 DEF SpaceInv, StartInv, CalmInv, RetrofitInv, Keyed, Typing, Healthy, Typed,
              Provided, Seeded

LEMMA LaunchKeeps ==
    ASSUME SpaceInv, Launch PROVE SpaceInv' /\ UNCHANGED <<types, left>>
<1>1. /\ DOMAIN start' = StartFields /\ start'.stage = "list" /\ start'.shown = {}
      /\ start'.fields = {}
  BY DEF Launch, NoRead, StartFields
<1>2. SchemaInv' /\ LeftInv' /\ UNCHANGED <<types, left>>
  BY DEF Launch, SpaceInv, SchemaInv, LeftInv, schemaVars
<1> QED
  BY <1>1, <1>2 DEF SpaceInv, StartInv, CalmInv, RetrofitInv, Keyed, Typing, Healthy, Typed,
              Provided, Seeded

\* What a step of the start does to the types, besides what it keeps.
Retains ==
    /\ SpaceInv' /\ DOMAIN types \subseteq DOMAIN types'
    /\ start.stage = "retrofit" =>
          \A k \in types[Type] \ types'[Type] : k \notin KeysOf(start.fields)

LEMMA ListKeeps == ASSUME SpaceInv, List PROVE Retains
<1>1. /\ DOMAIN start' = StartFields /\ start'.stage = "heal" /\ start'.shown = DOMAIN types
      /\ start'.fields = start.fields /\ start'.known = DOMAIN props /\ start.stage = "list"
  BY DEF List, After, SpaceInv, StartInv, StartFields
<1>2. SchemaInv' /\ LeftInv' /\ UNCHANGED <<types, props>>
  BY DEF List, SpaceInv, SchemaInv, LeftInv, schemaVars
<1> QED
  BY <1>1, <1>2 DEF Retains, SpaceInv, StartInv, CalmInv, RetrofitInv, Typing, Healthy,
              Typed, Provided, Seeded

LEMMA GoesTo ==
    ASSUME StartInv, NEW stage, Goes(stage)
    PROVE  /\ DOMAIN start' = StartFields /\ start'.stage = stage /\ start'.at = 1
           /\ start'.known = start.known /\ start'.shown = start.shown
           /\ start'.fields = start.fields
BY DEF StartInv, Goes, StartFields

LEMMA HealKeeps == ASSUME SpaceInv, Heal PROVE Retains
<1>1. start.stage = "heal" /\ calm' = calm
  BY DEF Heal
<1>2. CASE Unhealed = {} /\ Goes(After.heal) /\ UNCHANGED <<schemaVars, left>>
  <2>1. Goes("types")
    BY <1>2 DEF After
  <2>2. SchemaInv' /\ LeftInv' /\ UNCHANGED <<types, props>>
    BY <1>2 DEF SpaceInv, SchemaInv, LeftInv, schemaVars
  <2>3. /\ DOMAIN start' = StartFields /\ start'.stage = "types" /\ start'.at = 1
        /\ start'.known = start.known /\ start'.shown = start.shown
        /\ start'.fields = start.fields
    BY <2>1, GoesTo DEF SpaceInv
  <2>4. StartInv'
    BY <2>2, <2>3, InfraTypesAre DEF SpaceInv, StartInv, Typing
  <2>5. calm => Healed'
    <3>1. calm => start.known = DOMAIN props
      BY <1>1 DEF SpaceInv, CalmInv
    <3> QED
      BY <1>2, <2>2, <3>1 DEF Unhealed, Healed
  <2>6. CalmInv'
    BY <1>1, <2>2, <2>3, <2>5 DEF SpaceInv, CalmInv, Typing, Healthy, Typed, Provided, Seeded
  <2> QED
    BY <1>1, <2>2, <2>3, <2>4, <2>6 DEF Retains, SpaceInv, RetrofitInv
<1>3. ASSUME NEW k \in Unhealed, NEW reply \in Replies, Heard(reply),
             IF reply = "refused" THEN UNCHANGED schemaVars ELSE DeleteProperty(k),
             IF reply = "answered" THEN start' = [start EXCEPT !.known = Forgotten(k)] ELSE Down
      PROVE  Retains
  <2>1. SchemaInv' /\ LeftInv' /\ DOMAIN types' = DOMAIN types
        /\ (reply = "answered" => DOMAIN props' = DOMAIN props \ {k})
    <3>1. CASE reply = "refused" /\ UNCHANGED schemaVars
      BY <1>3, <3>1, HeardKeeps DEF SpaceInv, SchemaInv, schemaVars
    <3>2. CASE reply # "refused" /\ DeleteProperty(k)
      BY <1>3, <3>2, HeardKeeps, DeletePropertyKeeps DEF SpaceInv
    <3> QED
      BY <1>3, <3>1, <3>2
  <2>2. CASE Down
    BY <1>1, <2>1, <2>2, DownKeeps DEF Down, Retains
  <2>3. CASE reply = "answered" /\ start' = [start EXCEPT !.known = start.known \ {k}]
    <3>1. /\ DOMAIN start' = StartFields /\ start'.stage = "heal"
          /\ start'.known = start.known \ {k} /\ start'.shown = start.shown
          /\ start'.fields = start.fields
      BY <1>1, <2>3 DEF SpaceInv, StartInv, StartFields
    <3>2. StartInv'
      BY <2>1, <3>1 DEF SpaceInv, StartInv, Typing
    <3>3. CalmInv'
      BY <1>1, <2>1, <2>3, <3>1 DEF SpaceInv, CalmInv, Typing, Healthy, Typed, Provided, Seeded
    <3> QED
      BY <1>1, <2>1, <3>1, <3>2, <3>3 DEF Retains, SpaceInv, RetrofitInv
  <2> QED
    BY <1>3, <2>2, <2>3 DEF Forgotten
<1> QED
  BY <1>2, <1>3 DEF Heal

\* The types are taken one after the other, the properties when there is none left.
LEMMA NextTypeKeeps ==
    ASSUME SpaceInv, SchemaInv', LeftInv', start.stage \in Typing,
           DOMAIN types \subseteq DOMAIN types', calm' = calm, NEW known_, NextType(known_),
           calm => known_ = DOMAIN props' /\ Healed'
                   /\ \A i \in 1..start.at : Whole(InfraTypes[i])'
    PROVE  SpaceInv'
<1>1. start.at \in 1..Len(InfraTypes) /\ Len(InfraTypes) \in Nat
  BY InfraTypesAre DEF SpaceInv, StartInv
<1>2. /\ DOMAIN start' = StartFields
      /\ start'.shown = start.shown /\ start'.known = known_ /\ start'.fields = {}
      /\ \/ start'.stage = "types" /\ start.at < Len(InfraTypes) /\ start'.at = start.at + 1
         \/ start'.stage = "props" /\ start.at = Len(InfraTypes)
  <2>1. CASE start.at = Len(InfraTypes)
    BY <2>1 DEF NextType, After, SpaceInv, StartInv, StartFields
  <2>2. CASE start.at # Len(InfraTypes)
    <3>1. start.at < Len(InfraTypes)
      BY <1>1, <2>2
    <3> QED
      BY <2>2, <3>1 DEF NextType, SpaceInv, StartInv, StartFields
  <2> QED
    BY <2>1, <2>2
<1>3. StartInv'
  <2>1. start'.stage \in Typing => start'.at \in 1..Len(InfraTypes)
    BY <1>1, <1>2 DEF Typing
  <2>2. Keyed(start'.fields)
    BY <1>2 DEF Keyed
  <2>3. start'.shown \subseteq DOMAIN types'
    BY <1>2 DEF SpaceInv, StartInv
  <2> QED
    BY <1>2, <2>1, <2>2, <2>3 DEF StartInv
<1>4. CalmInv'
  <2> SUFFICES ASSUME calm PROVE CalmInv'
    BY DEF CalmInv
  <2>1. start'.known = DOMAIN props' /\ Healed'
    BY <1>2
  <2>2. start'.stage \in {"types", "props"}
    BY <1>2
  <2>3. start'.stage = "types" => \A i \in 1..(start'.at - 1) : Whole(InfraTypes[i])'
    BY <1>1, <1>2
  <2>4. start'.stage = "props" => \A i \in 1..Len(InfraTypes) : Whole(InfraTypes[i])'
    BY <1>1, <1>2
  <2> QED
    BY <2>1, <2>2, <2>3, <2>4 DEF CalmInv, Typing, Healthy, Typed, Provided, Seeded
<1>5. RetrofitInv'
  BY <1>2 DEF RetrofitInv
<1> QED
  BY <1>3, <1>4, <1>5 DEF SpaceInv

\* The type that the start is at.
LEMMA TypeIs ==
    ASSUME SpaceInv, start.stage \in Typing
    PROVE  /\ start.at \in 1..Len(InfraTypes) /\ Type = InfraTypes[start.at]
           /\ Inline[Type] \subseteq DOMAIN FormatOf /\ Inline[Type] \subseteq Keys
           /\ \A k \in Inline[Type] : k \in DOMAIN Selects => FormatOf[k] = "select"
           /\ \A i \in 1..start.at : i \in 1..(start.at - 1) \/ i = start.at
<1>1. start.at \in 1..Len(InfraTypes) /\ Type = InfraTypes[start.at]
  BY DEF SpaceInv, StartInv, Type
<1>2. Inline[Type] \subseteq DOMAIN FormatOf
  BY <1>1, InfraTypesAre
<1>3. \A i \in 1..start.at : i \in 1..(start.at - 1) \/ i = start.at
  BY <1>1, InfraTypesAre
<1> QED
  BY <1>1, <1>2, <1>3, FormatsAre

\* A write of a type by its fields' keys, new ones in the format the bot gives them,
\* leaves the selects selects.
LEMMA PutHeals ==
    ASSUME SchemaInv, Healed, NEW t, NEW entries, PutType(t, entries),
           \A e \in entries : e.key \notin DOMAIN props /\ e.key \in DOMAIN Selects
                                => e.format = "select"
    PROVE  Healed'
<1>1. props' = Minted(entries)
  BY DEF PutType
<1> SUFFICES ASSUME NEW k \in DOMAIN Selects, k \in DOMAIN props'
             PROVE  props'[k].format = "select"
  BY DEF Healed
<1>2. CASE k \in DOMAIN props
  BY <1>1, <1>2 DEF Minted, Healed
<1>3. CASE k \notin DOMAIN props
  <2>1. k \in KeysOf(entries) /\ \E x \in entries : x.key = k
    BY <1>1, <1>3 DEF Minted, KeysOf
  <2>2. PICK e : e = CHOOSE x \in entries : x.key = k
    OBVIOUS
  <2>3. e \in entries /\ e.key = k
    BY <2>1, <2>2
  <2>4. props'[k] = [name |-> e.name, format |-> e.format, id |-> deleted[k] + 1]
    BY <1>1, <1>3, <2>1, <2>2 DEF Minted
  <2> QED
    BY <1>3, <2>3, <2>4
<1> QED
  BY <1>2, <1>3

LEMMA InfraEntries ==
    ASSUME NEW S
    PROVE  /\ KeysOf({Infra(k) : k \in S}) = S
           /\ \A e \in {Infra(k) : k \in S} : e.key \in S /\ e.format = FormatOf[e.key]
<1> DEFINE of(k) == Infra(k)
<1>1. \A k : of(k).key = k /\ of(k).format = FormatOf[k]
  BY InfraEntry
<1>2. {Infra(k) : k \in S} = {of(k) : k \in S}
  OBVIOUS
<1> HIDE DEF of
<1>3. KeysOf({of(k) : k \in S}) = S
  BY <1>1 DEF KeysOf
<1>4. \A e \in {of(k) : k \in S} : e.key \in S /\ e.format = FormatOf[e.key]
  BY <1>1
<1>5. PICK made : made = {of(k) : k \in S}
  OBVIOUS
<1>6. KeysOf(made) = S /\ \A e \in made : e.key \in S /\ e.format = FormatOf[e.key]
  BY <1>3, <1>4, <1>5
<1>7. made = {Infra(k) : k \in S}
  BY <1>2, <1>5
<1> QED
  BY <1>6, <1>7

LEMMA CreateTypeKeeps == ASSUME SpaceInv, CreateType PROVE Retains
<1> DEFINE lacking == Inline[Type] \ start.known
           entries == {Infra(k) : k \in lacking}
<1>1. start.stage = "types" /\ Type \notin start.shown /\ calm' = calm
  BY DEF CreateType
<1>2. start.stage \in Typing
  BY <1>1 DEF Typing
<1>3. KeysOf(entries) = lacking /\ \A e \in entries : e.key \in lacking /\ e.format = FormatOf[e.key]
  BY InfraEntries
<1>4. PICK reply \in Replies :
        /\ Heard(reply)
        /\ IF reply = "refused" THEN UNCHANGED schemaVars ELSE PutType(Type, entries)
        /\ IF reply # "answered" THEN Down
           ELSE IF Type \in Explained
           THEN start' = [start EXCEPT !.stage = "explain", !.known = Created]
           ELSE NextType(Created)
  BY DEF CreateType
<1> HIDE DEF entries
<1>t. PICK made : made = Type
  OBVIOUS
<1>5. LeftInv'
  BY <1>4, HeardKeeps DEF SpaceInv
<1>6. CASE reply = "refused"
  <2>1. SchemaInv' /\ types' = types
    BY <1>4, <1>6 DEF SpaceInv, SchemaInv, schemaVars
  <2> QED
    BY <1>1, <1>4, <1>5, <1>6, <2>1, DownKeeps DEF Down, Retains
<1>7. CASE reply # "refused"
  <2>1. PutType(Type, entries)
    BY <1>4, <1>7
  <2>2. KeysOf(entries) \subseteq Keys
    BY <1>2, <1>3, TypeIs
  <2>3. /\ SchemaInv'
        /\ DOMAIN props' = DOMAIN props \union lacking
        /\ DOMAIN types' = DOMAIN types \union {made}
        /\ \A u \in DOMAIN types \ {made} : types'[u] = types[u]
        /\ made \notin start.shown
    BY <1>1, <1>3, <1>t, <2>1, <2>2, PutTypeKeeps DEF SpaceInv
  <2>4. CASE Down
    BY <1>1, <1>5, <2>3, <2>4, DownKeeps DEF Down, Retains
  <2>5. calm => Created = DOMAIN props' /\ Healed'
    <3> SUFFICES ASSUME calm PROVE Created = DOMAIN props' /\ Healed'
      OBVIOUS
    <3>1. start.known = DOMAIN props /\ Healed
      BY <1>2 DEF SpaceInv, CalmInv, Healthy
    <3>2. \A e \in entries : e.key \notin DOMAIN props /\ e.key \in DOMAIN Selects
                                => e.format = "select"
      BY <1>2, <1>3, TypeIs
    <3>3. Healed'
      BY <2>1, <3>1, <3>2, PutHeals DEF SpaceInv
    <3>4. Created = DOMAIN props'
      BY <2>3, <3>1 DEF Created
    <3> QED
      BY <3>3, <3>4
  <2>6. ASSUME start'.shown = start.shown, NEW t, Whole(t) PROVE Whole(t)'
    BY <2>3, <2>6 DEF Whole
  <2>7. start'.shown = start.shown => Whole(made)'
    BY <2>3 DEF Whole
  <2>8. CASE start' = [start EXCEPT !.stage = "explain", !.known = Created]
    <3>1. /\ DOMAIN start' = StartFields /\ start'.stage = "explain" /\ start'.at = start.at
          /\ start'.known = Created /\ start'.shown = start.shown
          /\ start'.fields = start.fields
      BY <2>8 DEF SpaceInv, StartInv, StartFields
    <3>2. StartInv'
      BY <1>1, <2>3, <3>1 DEF SpaceInv, StartInv, Typing
    <3>3. CalmInv'
      <4> SUFFICES ASSUME calm PROVE CalmInv'
        BY <1>1 DEF CalmInv
      <4>1. start'.known = DOMAIN props' /\ Healed'
        BY <2>5, <3>1
      <4>2. \A i \in 1..(start.at - 1) : Whole(InfraTypes[i])
        BY <1>2 DEF SpaceInv, CalmInv
      <4>3. \A i \in 1..(start'.at - 1) : Whole(InfraTypes[i])'
        BY <2>6, <3>1, <4>2
      <4>4. Whole(made)' /\ Type' = made
        BY <1>t, <2>7, <3>1 DEF Type
      <4> QED
        BY <3>1, <4>1, <4>3, <4>4 DEF CalmInv, Typing, Healthy, Typed, Provided, Seeded
    <3> QED
      BY <1>1, <1>5, <2>3, <3>1, <3>2, <3>3 DEF Retains, SpaceInv, RetrofitInv
  <2>9. CASE NextType(Created)
    <3>1. start'.shown = start.shown
      BY <2>9 DEF NextType, SpaceInv, StartInv, StartFields
    <3>2. ASSUME calm, NEW i \in 1..start.at PROVE Whole(InfraTypes[i])'
      <4>1. CASE i \in 1..(start.at - 1)
        <5>1. Whole(InfraTypes[i])
          BY <1>2, <3>2, <4>1 DEF SpaceInv, CalmInv
        <5> QED
          BY <2>6, <3>1, <5>1
      <4>2. CASE i = start.at
        BY <1>2, <1>t, <2>7, <3>1, <4>2, TypeIs
      <4> QED
        BY <1>2, <4>1, <4>2, TypeIs
    <3>3. SpaceInv'
      BY <1>1, <1>2, <1>5, <2>3, <2>5, <2>9, <3>2, NextTypeKeeps
    <3> QED
      BY <1>1, <2>3, <3>3 DEF Retains
  <2> QED
    BY <1>4, <2>4, <2>8, <2>9
<1> QED
  BY <1>6, <1>7

LEMMA ExplainKeeps == ASSUME SpaceInv, Explain PROVE Retains
<1>1. start.stage = "explain" /\ calm' = calm /\ UNCHANGED schemaVars /\ NextType(start.known)
  BY DEF Explain
<1>2. start.stage \in Typing
  BY <1>1 DEF Typing
<1>3. \E reply : Heard(reply)
  BY DEF Explain
<1>4. SchemaInv' /\ LeftInv' /\ UNCHANGED <<types, props>>
  BY <1>1, <1>3, HeardKeeps DEF SpaceInv, SchemaInv, schemaVars
<1>t. PICK made : made = Type
  OBVIOUS
<1>5. start'.shown = start.shown
  BY <1>1 DEF NextType, SpaceInv, StartInv, StartFields
<1>6. ASSUME NEW t, Whole(t) PROVE Whole(t)'
  BY <1>4, <1>5, <1>6 DEF Whole
<1>7. calm => start.known = DOMAIN props' /\ Healed'
  BY <1>1, <1>4 DEF SpaceInv, CalmInv, Healed, Healthy, Typing
<1>8. ASSUME calm, NEW i \in 1..start.at PROVE Whole(InfraTypes[i])'
  <2>1. CASE i \in 1..(start.at - 1)
    BY <1>2, <1>6, <1>8, <2>1 DEF SpaceInv, CalmInv
  <2>2. CASE i = start.at
    <3>1. Whole(made)
      BY <1>1, <1>8, <1>t DEF SpaceInv, CalmInv
    <3>2. Whole(made)'
      BY <1>6, <3>1
    <3> QED
      BY <1>2, <1>t, <2>2, <3>2, TypeIs
  <2> QED
    BY <1>2, <2>1, <2>2, TypeIs
<1>9. SpaceInv'
  BY <1>1, <1>2, <1>4, <1>7, <1>8, NextTypeKeeps
<1> QED
  BY <1>1, <1>4, <1>9 DEF Retains

LEMMA ReadTypeKeeps == ASSUME SpaceInv, ReadType PROVE Retains
<1>1. start.stage = "types" /\ calm' = calm /\ UNCHANGED <<schemaVars, left>>
      /\ Type \in start.shown
  BY DEF ReadType
<1>2. start.stage \in Typing
  BY <1>1 DEF Typing
<1>4. SchemaInv' /\ LeftInv' /\ UNCHANGED <<types, props>>
  BY <1>1 DEF SpaceInv, SchemaInv, LeftInv, schemaVars
<1>t. PICK made : made = Type
  OBVIOUS
<1>5. calm => start.known = DOMAIN props' /\ Healed'
  BY <1>1, <1>4 DEF SpaceInv, CalmInv, Healed, Healthy, Typing
<1>6. CASE Inline[Type] \subseteq types[Type] /\ NextType(start.known)
  <2>1. start'.shown = start.shown
    BY <1>6 DEF NextType, SpaceInv, StartInv, StartFields
  <2>2. ASSUME NEW t, Whole(t) PROVE Whole(t)'
    BY <1>4, <2>1, <2>2 DEF Whole
  <2>3. ASSUME calm, NEW i \in 1..start.at PROVE Whole(InfraTypes[i])'
    <3>1. CASE i \in 1..(start.at - 1)
      BY <1>2, <2>2, <2>3, <3>1 DEF SpaceInv, CalmInv
    <3>2. CASE i = start.at
      <4>1. Whole(made)
        BY <1>1, <1>6, <1>t DEF SpaceInv, StartInv, Whole
      <4>2. Whole(made)'
        BY <2>2, <4>1
      <4> QED
        BY <1>2, <1>t, <3>2, <4>2, TypeIs
    <3> QED
      BY <1>2, <3>1, <3>2, TypeIs
  <2>4. SpaceInv'
    BY <1>1, <1>2, <1>4, <1>5, <1>6, <2>3, NextTypeKeeps
  <2> QED
    BY <1>1, <1>4, <2>4 DEF Retains
<1>7. CASE start' = [start EXCEPT !.stage = "retrofit", !.fields = EntriesOf(types[Type])]
  <2>1. /\ DOMAIN start' = StartFields /\ start'.stage = "retrofit" /\ start'.at = start.at
        /\ start'.shown = start.shown /\ start'.known = start.known
        /\ start'.fields = EntriesOf(types[made])
    BY <1>7, <1>t DEF SpaceInv, StartInv, StartFields
  <2>2. /\ KeysOf(start'.fields) = types[made] /\ Keyed(start'.fields)
        /\ types[made] \subseteq DOMAIN props
    <3>1. types[made] \subseteq Keys /\ types[made] \subseteq DOMAIN props
      BY <1>1, <1>t DEF SpaceInv, StartInv, SchemaInv
    <3> QED
      BY <2>1, <3>1, EntriesOfKeys
  <2>3. StartInv'
    BY <1>2, <1>4, <2>1, <2>2 DEF SpaceInv, StartInv, Typing
  <2>4. Type' = made
    BY <1>t, <2>1 DEF Type
  <2>5. RetrofitInv'
    BY <1>4, <2>2, <2>4 DEF RetrofitInv, Accounted
  <2>6. CalmInv'
    <3> SUFFICES ASSUME calm PROVE CalmInv'
      BY <1>1 DEF CalmInv
    <3>1. \A i \in 1..(start.at - 1) : Whole(InfraTypes[i])
      BY <1>2 DEF SpaceInv, CalmInv
    <3>2. ASSUME NEW t, Whole(t) PROVE Whole(t)'
      BY <1>4, <2>1, <3>2 DEF Whole
    <3>3. \A i \in 1..(start'.at - 1) : Whole(InfraTypes[i])'
      BY <2>1, <3>1, <3>2
    <3> QED
      BY <1>4, <1>5, <2>1, <2>2, <3>3 DEF CalmInv, Typing, Healthy, Typed, Provided, Seeded
  <2> QED
    BY <1>1, <1>4, <2>3, <2>5, <2>6 DEF Retains, SpaceInv
<1> QED
  BY <1>6, <1>7 DEF ReadType

LEMMA ResentKeys ==
    ASSUME StartInv
    PROVE  /\ KeysOf(Resent) = KeysOf(start.fields) \union Inline[Type]
           /\ \A e \in Resent : e.key \notin KeysOf(start.fields)
                                => e.key \in Inline[Type] /\ e.format = FormatOf[e.key]
           /\ KeysOf(start.fields) \subseteq Keys
<1> DEFINE bare(e) == [e EXCEPT !.id = 0]
           new == {Infra(k) : k \in Inline[Type] \ KeysOf(start.fields)}
<1>1. \A e \in start.fields : bare(e).key = e.key /\ e.key \in Keys
  BY DEF StartInv, Keyed, IsEntry, Entry
<1>2. /\ KeysOf(new) = Inline[Type] \ KeysOf(start.fields)
      /\ \A e \in new : e.key \in Inline[Type] /\ e.format = FormatOf[e.key]
  BY InfraEntries
<1>3. Resent = {bare(e) : e \in start.fields} \union new
  BY DEF Resent
<1> HIDE DEF bare, new
<1>4. PICK sent : sent = Resent
  OBVIOUS
<1>5. \A e \in start.fields : bare(e) \in sent /\ e.key \in KeysOf(start.fields)
  BY <1>3, <1>4 DEF KeysOf
<1>6. \A x \in sent : x \in new \/ \E e \in start.fields : x = bare(e)
  BY <1>3, <1>4
<1>7. new \subseteq sent
  BY <1>3, <1>4
<1>8. KeysOf(sent) = KeysOf(start.fields) \union Inline[Type]
  <2>1. \A x \in sent : x.key \in KeysOf(start.fields) \union Inline[Type]
    BY <1>1, <1>2, <1>5, <1>6
  <2>2. KeysOf(start.fields) \subseteq KeysOf(sent)
    BY <1>1, <1>5 DEF KeysOf
  <2>3. Inline[Type] \subseteq KeysOf(sent)
    BY <1>2, <1>7, <2>2 DEF KeysOf
  <2> QED
    BY <2>1, <2>2, <2>3 DEF KeysOf
<1>9. \A e \in sent : e.key \notin KeysOf(start.fields)
                          => e.key \in Inline[Type] /\ e.format = FormatOf[e.key]
  BY <1>1, <1>2, <1>5, <1>6
<1> QED
  BY <1>1, <1>4, <1>8, <1>9 DEF KeysOf

LEMMA RetrofitKeeps == ASSUME SpaceInv, Retrofit PROVE Retains
<1>1. start.stage = "retrofit" /\ calm' = calm
  BY DEF Retrofit
<1>2. start.stage \in Typing
  BY <1>1 DEF Typing
<1>t. PICK made : made = Type
  OBVIOUS
<1>3. /\ KeysOf(Resent) = KeysOf(start.fields) \union Inline[Type]
      /\ \A e \in Resent : e.key \notin KeysOf(start.fields)
                                => e.key \in Inline[Type] /\ e.format = FormatOf[e.key]
      /\ KeysOf(start.fields) \subseteq Keys
  BY ResentKeys DEF SpaceInv
<1>4. CASE Down /\ UNCHANGED <<schemaVars, left>>
  <2>1. SchemaInv' /\ LeftInv' /\ types' = types
    BY <1>4 DEF SpaceInv, SchemaInv, LeftInv, schemaVars
  <2> QED
    BY <1>4, <2>1, DownKeeps DEF Down, Retains
<1>5. ASSUME NEW reply \in Replies, Heard(reply),
             IF reply = "refused" THEN UNCHANGED schemaVars ELSE PutType(Type, Resent),
             IF reply = "answered" THEN NextType(start.known \union Inline[Type]) ELSE Down
      PROVE  Retains
  <2>1. LeftInv'
    BY <1>5, HeardKeeps DEF SpaceInv
  <2>2. CASE reply = "refused"
    <3>1. SchemaInv' /\ types' = types
      BY <1>5, <2>2 DEF SpaceInv, SchemaInv, schemaVars
    <3> QED
      BY <1>5, <2>1, <2>2, <3>1, DownKeeps DEF Down, Retains
  <2>3. CASE reply # "refused"
    <3>1. PutType(Type, Resent)
      BY <1>5, <2>3
    <3>2. KeysOf(Resent) \subseteq Keys
      BY <1>2, <1>3, TypeIs
    <3>3. /\ SchemaInv'
          /\ DOMAIN props' = DOMAIN props \union KeysOf(Resent)
          /\ DOMAIN types' = DOMAIN types \union {made}
          /\ \A u \in DOMAIN types \ {made} : types'[u] = types[u]
          /\ types'[made] = KeysOf(start.fields) \union Inline[made]
      BY <1>3, <1>t, <3>1, <3>2, PutTypeKeeps DEF SpaceInv
    <3>4. \A k \in types[Type] \ types'[Type] : k \notin KeysOf(start.fields)
      <4>1. CASE reply = "answered"
        BY <1>t, <3>3
      <4> QED
        BY <1>t, <3>3
    <3>5. CASE Down
      BY <2>1, <3>3, <3>4, <3>5, DownKeeps DEF Down, Retains
    <3>6. CASE NextType(start.known \union Inline[Type])
      <4>1. calm => start.known \union Inline[Type] = DOMAIN props' /\ Healed'
        <5> SUFFICES ASSUME calm
                     PROVE  start.known \union Inline[Type] = DOMAIN props' /\ Healed'
          OBVIOUS
        <5>1. start.known = DOMAIN props /\ Healed /\ KeysOf(start.fields) \subseteq DOMAIN props
          BY <1>1, <1>2 DEF SpaceInv, CalmInv, Healthy
        <5>2. \A e \in Resent : e.key \notin DOMAIN props /\ e.key \in DOMAIN Selects
                                => e.format = "select"
          BY <1>2, <1>3, <5>1, TypeIs
        <5>3. Healed'
          BY <3>1, <5>1, <5>2, PutHeals DEF SpaceInv
        <5> QED
          BY <1>3, <3>3, <5>1, <5>3
      <4>2. start'.shown = start.shown
        BY <3>6 DEF NextType, SpaceInv, StartInv, StartFields
      <4>3. Whole(made)'
        BY <3>3 DEF Whole
      <4>4. ASSUME NEW t, Whole(t) PROVE Whole(t)'
        BY <3>3, <4>2, <4>3, <4>4 DEF Whole
      <4>5. ASSUME calm, NEW i \in 1..start.at PROVE Whole(InfraTypes[i])'
        <5>1. CASE i \in 1..(start.at - 1)
          BY <1>2, <4>4, <4>5, <5>1 DEF SpaceInv, CalmInv
        <5>2. CASE i = start.at
          BY <1>2, <1>t, <4>3, <5>2, TypeIs
        <5> QED
          BY <1>2, <5>1, <5>2, TypeIs
      <4>6. SpaceInv'
        BY <1>1, <1>2, <2>1, <3>3, <3>6, <4>1, <4>5, NextTypeKeeps
      <4> QED
        BY <3>3, <3>4, <4>6 DEF Retains
    <3> QED
      BY <1>5, <3>5, <3>6
  <2> QED
    BY <2>2, <2>3
<1> QED
  BY <1>4, <1>5 DEF Retrofit

LEMMA CreatePropertyKeeps == ASSUME SpaceInv, CreateProperty PROVE Retains
<1>1. start.stage = "props" /\ calm' = calm
  BY DEF CreateProperty
<1>2. ASSUME start'.shown = start.shown, \A t \in DOMAIN types : t \in DOMAIN types' /\ types'[t] = types[t],
             NEW t, Whole(t)
      PROVE  Whole(t)'
  BY <1>2 DEF Whole
<1>3. CASE Unmade = {} /\ Goes(After.props) /\ UNCHANGED <<schemaVars, left>>
  <2>1. Goes("options")
    BY <1>3 DEF After
  <2>2. SchemaInv' /\ LeftInv' /\ UNCHANGED <<types, props>>
    BY <1>3 DEF SpaceInv, SchemaInv, LeftInv, schemaVars
  <2>3. /\ DOMAIN start' = StartFields /\ start'.stage = "options" /\ start'.at = 1
        /\ start'.known = start.known /\ start'.shown = start.shown
        /\ start'.fields = start.fields
    BY <2>1, GoesTo DEF SpaceInv
  <2>4. StartInv'
    BY <2>2, <2>3 DEF SpaceInv, StartInv, Typing
  <2>5. CalmInv'
    <3> SUFFICES ASSUME calm PROVE CalmInv'
      BY <1>1 DEF CalmInv
    <3>1. /\ start.known = DOMAIN props /\ Healed
          /\ \A i \in 1..Len(InfraTypes) : Whole(InfraTypes[i])
      BY <1>1 DEF SpaceInv, CalmInv, Healthy, Typed
    <3>2. DOMAIN FormatOf \subseteq DOMAIN props'
      BY <1>3, <2>2, <3>1 DEF Unmade
    <3>3. \A i \in 1..Len(InfraTypes) : Whole(InfraTypes[i])'
      BY <1>2, <2>2, <2>3, <3>1
    <3>4. Healed'
      BY <2>2, <3>1 DEF Healed
    <3> QED
      BY <2>2, <2>3, <3>1, <3>2, <3>3, <3>4 DEF CalmInv, Typing, Healthy, Typed, Provided, Seeded
  <2> QED
    BY <1>1, <2>2, <2>3, <2>4, <2>5 DEF Retains, SpaceInv, RetrofitInv
<1>4. CASE Down /\ UNCHANGED <<schemaVars, left>>
  <2>1. SchemaInv' /\ LeftInv' /\ types' = types
    BY <1>4 DEF SpaceInv, SchemaInv, LeftInv, schemaVars
  <2> QED
    BY <1>1, <1>4, <2>1, DownKeeps DEF Down, Retains
<1>5. ASSUME NEW k \in Unmade, NEW reply \in Replies, Heard(reply), k \notin DOMAIN props,
             IF reply = "refused" THEN UNCHANGED schemaVars ELSE PostProperty(Infra(k)),
             IF reply = "answered" THEN start' = [start EXCEPT !.known = @ \union {k}] ELSE Down
      PROVE  Retains
  <2>1. LeftInv'
    BY <1>5, HeardKeeps DEF SpaceInv
  <2>2. CASE reply = "refused"
    <3>1. SchemaInv' /\ types' = types
      BY <1>5, <2>2 DEF SpaceInv, SchemaInv, schemaVars
    <3> QED
      BY <1>1, <1>5, <2>1, <2>2, <3>1, DownKeeps DEF Down, Retains
  <2>3. CASE reply # "refused"
    <3>1. k \in DOMAIN FormatOf /\ k \in Keys
      BY <1>5, FormatsAre DEF Unmade
    <3>2. PostProperty(Infra(k)) /\ Infra(k).key = k /\ Infra(k).format = FormatOf[k]
      BY <1>5, <2>3, InfraEntry
    <3>3. /\ SchemaInv' /\ types' = types /\ DOMAIN props' = DOMAIN props \union {k}
          /\ props'[k].format = FormatOf[k]
          /\ \A j \in DOMAIN props : props'[j] = props[j]
      BY <3>1, <3>2, PostPropertyKeeps DEF SpaceInv
    <3>4. CASE Down
      BY <1>1, <2>1, <3>3, <3>4, DownKeeps DEF Down, Retains
    <3>5. CASE start' = [start EXCEPT !.known = @ \union {k}]
      <4>1. /\ DOMAIN start' = StartFields /\ start'.stage = "props"
            /\ start'.known = start.known \union {k} /\ start'.shown = start.shown
            /\ start'.fields = start.fields
        BY <1>1, <3>5 DEF SpaceInv, StartInv, StartFields
      <4>2. StartInv'
        BY <3>3, <4>1 DEF SpaceInv, StartInv, Typing
      <4>3. CalmInv'
        <5> SUFFICES ASSUME calm PROVE CalmInv'
          BY <1>1 DEF CalmInv
        <5>1. /\ start.known = DOMAIN props /\ Healed
              /\ \A i \in 1..Len(InfraTypes) : Whole(InfraTypes[i])
          BY <1>1 DEF SpaceInv, CalmInv, Healthy, Typed
        <5>2. \A i \in 1..Len(InfraTypes) : Whole(InfraTypes[i])'
          BY <1>2, <3>3, <4>1, <5>1
        <5>3. Healed'
          BY <3>1, <3>3, <5>1, FormatsAre DEF Healed
        <5> QED
          BY <3>3, <4>1, <5>1, <5>2, <5>3 DEF CalmInv, Typing, Healthy, Typed, Provided, Seeded
      <4> QED
        BY <1>1, <2>1, <3>3, <4>1, <4>2, <4>3 DEF Retains, SpaceInv, RetrofitInv
    <3> QED
      BY <1>5, <3>4, <3>5
  <2> QED
    BY <2>2, <2>3
<1> QED
  BY <1>3, <1>4, <1>5 DEF CreateProperty

LEMMA SeedOptionKeeps == ASSUME SpaceInv, SeedOption PROVE Retains
<1>1. start.stage = "options" /\ calm' = calm
  BY DEF SeedOption
<1>2. ASSUME start'.shown = start.shown, UNCHANGED <<props, types>>, calm,
             start'.known = start.known, start'.stage = "options" \/ Unseeded' = {},
             start'.stage \in {"options", "modes"}
      PROVE  CalmInv'
  <2>1. /\ start.known = DOMAIN props /\ Healed /\ DOMAIN FormatOf \subseteq DOMAIN props
        /\ \A i \in 1..Len(InfraTypes) : Whole(InfraTypes[i])
    BY <1>1, <1>2 DEF SpaceInv, CalmInv, Healthy, Typed, Provided
  <2>2. \A i \in 1..Len(InfraTypes) : Whole(InfraTypes[i])'
    BY <1>2, <2>1 DEF Whole
  <2>3. Healed'
    BY <1>2, <2>1 DEF Healed
  <2> QED
    BY <1>2, <2>1, <2>2, <2>3 DEF CalmInv, Typing, Healthy, Typed, Provided, Seeded
<1>3. CASE Unseeded = {} /\ Goes(After.options) /\ UNCHANGED <<schemaVars, left>>
  <2>1. Goes("modes")
    BY <1>3 DEF After
  <2>2. SchemaInv' /\ LeftInv' /\ UNCHANGED <<types, props>>
    BY <1>3 DEF SpaceInv, SchemaInv, LeftInv, schemaVars
  <2>3. /\ DOMAIN start' = StartFields /\ start'.stage = "modes" /\ start'.at = 1
        /\ start'.known = start.known /\ start'.shown = start.shown
        /\ start'.fields = start.fields
    BY <2>1, GoesTo DEF SpaceInv
  <2>4. StartInv'
    BY <2>2, <2>3 DEF SpaceInv, StartInv, Typing
  <2>5. Unseeded' = {}
    BY <1>3 DEF Unseeded, schemaVars
  <2>6. CalmInv'
    BY <1>1, <1>2, <2>2, <2>3, <2>5 DEF CalmInv
  <2> QED
    BY <1>1, <2>2, <2>3, <2>4, <2>6 DEF Retains, SpaceInv, RetrofitInv
<1>4. ASSUME NEW reply \in Replies, Heard(reply), NEW k, NEW o,
             IF reply = "refused" THEN UNCHANGED schemaVars ELSE PostTag(k, o),
             IF reply = "answered" THEN UNCHANGED start ELSE Down
      PROVE  Retains
  <2>1. LeftInv'
    BY <1>4, HeardKeeps DEF SpaceInv
  <2>2. SchemaInv' /\ UNCHANGED <<types, props>>
    <3>1. CASE reply = "refused"
      BY <1>4, <3>1 DEF SpaceInv, SchemaInv, schemaVars
    <3>2. CASE reply # "refused"
      BY <1>4, <3>2, PostTagKeeps DEF SpaceInv
    <3> QED
      BY <3>1, <3>2
  <2>3. CASE Down
    BY <1>1, <2>1, <2>2, <2>3, DownKeeps DEF Down, Retains
  <2>4. CASE UNCHANGED start
    <3>1. StartInv'
      BY <2>2, <2>4 DEF SpaceInv, StartInv
    <3>2. CalmInv'
      BY <1>1, <1>2, <2>2, <2>4 DEF CalmInv
    <3> QED
      BY <1>1, <2>1, <2>2, <2>4, <3>1, <3>2 DEF Retains, SpaceInv, RetrofitInv
  <2> QED
    BY <1>4, <2>3, <2>4
<1> QED
  BY <1>3, <1>4 DEF SeedOption

\* The modes are none of the schema.
LEMMA TailKeeps ==
    ASSUME SpaceInv, start.stage \in Seeded, UNCHANGED schemaVars, calm' = calm, LeftInv',
           \/ Down
           \/ /\ DOMAIN start' = StartFields /\ start'.stage \in Seeded \union {"serving"}
              /\ start'.known = start.known /\ start'.shown = start.shown
              /\ start'.fields = start.fields
    PROVE  Retains
<1>1. SchemaInv' /\ UNCHANGED <<types, props, tags>>
  BY DEF SpaceInv, SchemaInv, schemaVars
<1>2. start.stage # "retrofit"
  BY DEF Seeded
<1>3. CASE Down
  BY <1>1, <1>2, <1>3, DownKeeps DEF Down, Retains
<1>4. CASE /\ DOMAIN start' = StartFields /\ start'.stage \in Seeded \union {"serving"}
           /\ start'.known = start.known /\ start'.shown = start.shown
           /\ start'.fields = start.fields
  <2>1. StartInv'
    BY <1>1, <1>4 DEF SpaceInv, StartInv, Typing, Seeded
  <2>2. RetrofitInv'
    BY <1>4 DEF RetrofitInv, Seeded
  <2>3. CalmInv'
    <3> SUFFICES ASSUME calm, start'.stage \in Seeded PROVE CalmInv'
      BY <1>4 DEF CalmInv, Typing, Healthy, Typed, Provided, Seeded
    <3>1. /\ start.known = DOMAIN props /\ Healed /\ DOMAIN FormatOf \subseteq DOMAIN props
          /\ Unseeded = {} /\ \A i \in 1..Len(InfraTypes) : Whole(InfraTypes[i])
      BY DEF SpaceInv, CalmInv, Healthy, Typed, Provided
    <3>2. \A i \in 1..Len(InfraTypes) : Whole(InfraTypes[i])'
      BY <1>1, <1>4, <3>1 DEF Whole
    <3>3. Healed' /\ Unseeded' = {}
      BY <1>1, <3>1 DEF Healed, Unseeded
    <3> QED
      BY <1>1, <1>4, <3>1, <3>2, <3>3 DEF CalmInv, Typing, Seeded
  <2> QED
    BY <1>1, <1>2, <2>1, <2>2, <2>3 DEF Retains, SpaceInv
<1> QED
  BY <1>3, <1>4

LEMMA LateStepsKeep ==
    ASSUME SpaceInv, FindModes \/ Seed \/ Await \/ ReadLink \/ Link \/ Load
    PROVE  Retains
<1>1. start.stage \in Seeded /\ UNCHANGED schemaVars /\ calm' = calm
  BY DEF FindModes, Seed, Await, ReadLink, Link, Load, Seeded
<1>2. LeftInv'
  <2>1. UNCHANGED left \/ Spend("net") \/ \E reply \in Replies : Heard(reply)
    BY DEF FindModes, Seed, Await, ReadLink, Link, Load
  <2> QED
    BY <2>1, SpendKeeps, HeardKeeps DEF SpaceInv, LeftInv
<1>3. \/ Down
      \/ \E stage \in Seeded \union {"serving"} : Goes(stage)
      \/ start.stage = "seed" /\ start' = [start EXCEPT !.at = @ + 1]
  <2>1. {"seed", "load", "await", "link", "relink", "serving"} \subseteq Seeded \union {"serving"}
    BY DEF Seeded
  <2> QED
    BY <2>1 DEF FindModes, Seed, Await, ReadLink, Link, Load, Then
<1>4. CASE \E stage \in Seeded \union {"serving"} : Goes(stage)
  BY <1>1, <1>2, <1>4, GoesTo, TailKeeps DEF SpaceInv
<1>5. CASE start.stage = "seed" /\ start' = [start EXCEPT !.at = @ + 1]
  <2>1. /\ DOMAIN start' = StartFields /\ start'.stage = start.stage
        /\ start'.known = start.known /\ start'.shown = start.shown
        /\ start'.fields = start.fields
    BY <1>5 DEF SpaceInv, StartInv, StartFields
  <2> QED
    BY <1>1, <1>2, <2>1, TailKeeps
<1> QED
  BY <1>1, <1>2, <1>3, <1>4, <1>5, TailKeeps

LEMMA StartingKeeps == ASSUME SpaceInv, Starting PROVE Retains
BY ListKeeps, HealKeeps, CreateTypeKeeps, ExplainKeeps, ReadTypeKeeps, RetrofitKeeps,
   CreatePropertyKeeps, SeedOptionKeeps, LateStepsKeep DEF Starting

LEMMA StartingServes ==
    ASSUME StartInv, Starting
    PROVE  /\ start.stage # "serving"
           /\ start'.stage = "serving" => start.stage = "load" /\ UNCHANGED schemaVars
<1>1. start.stage # "serving"
  BY DEF Starting, List, Heal, CreateType, Explain, ReadType, Retrofit, CreateProperty,
         SeedOption, FindModes, Seed, Await, ReadLink, Link, Load
<1>2. NoRead.stage = "down"
  BY DEF NoRead
<1>3. ASSUME NEW k, NextType(k) PROVE start'.stage \in {"types", "props"}
  BY <1>3 DEF NextType, After, StartInv, StartFields
<1>4. ASSUME NEW stage, Goes(stage) PROVE start'.stage = stage
  BY <1>4, GoesTo
<1>5. CASE List
  BY <1>5 DEF List, After, StartInv, StartFields
<1>6. CASE Heal
  <2>1. Goes("types") \/ Down \/ (start.stage = "heal" /\ \E k : start' = [start EXCEPT !.known = Forgotten(k)])
    BY <1>6 DEF Heal, After
  <2> QED
    BY <1>1, <1>2, <1>4, <2>1 DEF Down, StartInv, StartFields
<1>7. CASE CreateType
  <2>1. \/ Down \/ \E k : NextType(k)
        \/ start' = [start EXCEPT !.stage = "explain", !.known = Created]
    BY <1>7 DEF CreateType
  <2> QED
    BY <1>1, <1>2, <1>3, <2>1 DEF Down, StartInv, StartFields
<1>8. CASE Explain
  BY <1>3, <1>8 DEF Explain
<1>9. CASE ReadType
  <2>1. \/ \E k : NextType(k)
        \/ start' = [start EXCEPT !.stage = "retrofit", !.fields = EntriesOf(types[Type])]
    BY <1>9 DEF ReadType
  <2> QED
    BY <1>1, <1>3, <2>1 DEF StartInv, StartFields
<1>10. CASE Retrofit
  <2>1. Down \/ \E k : NextType(k)
    BY <1>10 DEF Retrofit
  <2> QED
    BY <1>1, <1>2, <1>3, <2>1 DEF Down
<1>11. CASE CreateProperty
  <2>1. \/ Goes("options") \/ Down
        \/ start.stage = "props" /\ \E k : start' = [start EXCEPT !.known = @ \union {k}]
    BY <1>11 DEF CreateProperty, After
  <2> QED
    BY <1>1, <1>2, <1>4, <2>1 DEF Down, StartInv, StartFields
<1>12. CASE SeedOption
  <2>1. Goes("modes") \/ Down \/ (start.stage = "options" /\ UNCHANGED start)
    BY <1>12 DEF SeedOption, After
  <2> QED
    BY <1>1, <1>2, <1>4, <2>1 DEF Down
<1>13. CASE FindModes \/ Seed \/ Await \/ ReadLink \/ Link
  <2>1. \/ Down \/ \E stage \in Seeded : Goes(stage)
        \/ start.stage = "seed" /\ start' = [start EXCEPT !.at = @ + 1]
    <3>1. {"seed", "load", "await", "link", "relink"} \subseteq Seeded
      BY DEF Seeded
    <3> QED
      BY <1>13, <3>1 DEF FindModes, Seed, Await, ReadLink, Link, Then
  <2> QED
    BY <1>1, <1>2, <1>4, <2>1 DEF Down, StartInv, StartFields, Seeded
<1>14. CASE Load
  BY <1>14 DEF Load
<1> QED
  BY <1>1, <1>5, <1>6, <1>7, <1>8, <1>9, <1>10, <1>11, <1>12, <1>13, <1>14 DEF Starting

-----------------------------------------------------------------------------
(* All together.                                                             *)

Registry(r) ==
    /\ DOMAIN r = {"space", "types", "stage"}
    /\ Keyed(r.space) /\ Once(r.space)
    /\ \A t \in DOMAIN r.types : Keyed(r.types[t])

VocabularyInv ==
    /\ ServedInv /\ PlacedInv /\ AttachInv /\ QuietInv /\ SpaceInv /\ Registry(resync)

LEMMA NothingIs == Registry(Nothing) /\ DOMAIN Nothing.types = {}
<1>1. DOMAIN <<>> = {}
  OBVIOUS
<1>2. Nothing.space = {} /\ Nothing.types = <<>> /\ DOMAIN Nothing = {"space", "types", "stage"}
  BY DEF Nothing
<1> QED
  BY <1>1, <1>2 DEF Registry, Keyed, Once

LEMMA SchemaIs ==
    ASSUME SchemaInv
    PROVE  Registry(Schema) /\ DOMAIN Schema.types = DOMAIN types
<1>1. /\ Schema.space = EntriesOf(DOMAIN props) /\ DOMAIN Schema = {"space", "types", "stage"}
      /\ Schema.types = [t \in DOMAIN types |-> EntriesOf(types[t])]
  BY DEF Schema
<1>2. DOMAIN props \subseteq Keys /\ \A t \in DOMAIN types : types[t] \subseteq Keys
  BY DEF SchemaInv
<1>3. /\ DOMAIN Schema.types = DOMAIN types
      /\ \A t \in DOMAIN types : Schema.types[t] = EntriesOf(types[t])
  BY <1>1
<1> QED
  BY <1>1, <1>2, <1>3, EntriesOfKeys DEF Registry

LEMMA AllIdle ==
    ASSUME \A c \in Calls : Idle(c)
    PROVE  AttachInv /\ QuietInv /\ \A c \in Calls : ~Reads(op[c]) /\ op[c].stage \notin Locked
BY DEF AttachInv, QuietInv, Idle, Reads, Locked

LEMMA IdleCalls ==
    ASSUME op' = [c \in Calls |-> Done("idle")]
    PROVE  CallsInv' /\ LockInv' /\ \A c \in Calls : Idle(c)'
<1>1. DOMAIN Done("idle") = CallFields /\ Done("idle").stage = "idle"
  BY DEF Done, CallFields
<1>2. CallInv(Done("idle"))
  BY <1>1 DEF CallInv
<1>3. \A c \in Calls : op'[c] = Done("idle")
  OBVIOUS
<1>4. \A c \in Calls : CallInv(op'[c]) /\ op'[c].stage = "idle"
  BY <1>1, <1>2, <1>3
<1> QED
  BY <1>4 DEF CallsInv, LockInv, Locked, Idle

LEMMA VocabularyInit == Init => VocabularyInv
<1> SUFFICES ASSUME Init PROVE VocabularyInv
  OBVIOUS
<1>1. DOMAIN Done("idle") = CallFields /\ Done("idle").stage = "idle"
  BY DEF Done, CallFields
<1>2. CallInv(Done("idle"))
  BY <1>1 DEF CallInv
<1>3. op = [c \in Calls |-> Done("idle")]
  BY DEF Init
<1>4. \A c \in Calls : op[c] = Done("idle")
  BY <1>3
<1>5. \A c \in Calls : CallInv(op[c]) /\ op[c].stage = "idle"
  BY <1>1, <1>2, <1>4
<1>6. CallsInv /\ LockInv /\ \A c \in Calls : Idle(c)
  BY <1>3, <1>5 DEF CallsInv, LockInv, Locked, Idle
<1>7. PICK space \in Spaces :
        /\ types = space.types /\ DOMAIN props = DOMAIN space.props
        /\ tags = [k \in Keys |-> [o \in Options |-> 0]] /\ left = Budget
  BY VocabularyAssumption DEF Init, StartInit, InitServing, SchemaInit
<1>8. SchemaInv
  BY <1>7, SchemaAssumption DEF SchemaInv
<1>9. LeftInv
  BY <1>7, SchemaAssumption DEF LeftInv
<1>10. /\ DOMAIN start = StartFields /\ start.stage \in {"down", "serving"}
       /\ start.shown = {} /\ start.fields = {}
  BY DEF Init, StartInit, InitServing, NoRead, StartFields
<1>11. SpaceInv
  BY <1>8, <1>9, <1>10 DEF SpaceInv, StartInv, CalmInv, RetrofitInv, Keyed, Typing, Healthy,
                           Typed, Provided, Seeded
<1>12. resync = Nothing /\ (known = Nothing \/ known = Schema)
  BY DEF Init
<1>13. KnownInv /\ DOMAIN known.types \subseteq DOMAIN types
  <2>1. CASE known = Nothing
    BY <2>1, NothingIs DEF Registry, KnownInv
  <2>2. CASE known = Schema
    BY <1>8, <2>2, SchemaIs DEF Registry, KnownInv
  <2> QED
    BY <1>12, <2>1, <2>2
<1>14. Registry(resync) /\ PlacedInv
  BY <1>6, <1>12, <1>13, NothingIs, AllIdle DEF PlacedInv
<1> QED
  BY <1>6, <1>8, <1>9, <1>11, <1>13, <1>14, AllIdle DEF VocabularyInv, ServedInv

\* What a step does to a type whose fields the bot has read and not yet written.
Kept ==
    \A t \in DOMAIN types : t \in BetweenReadAndWrite /\ left'.person = left.person =>
       \A k \in types[t] \ types'[t] : <<t, k>> \in late

LEMMA StartStep == ASSUME VocabularyInv, Start PROVE VocabularyInv' /\ Kept
<1>1. Retains /\ start.stage # "serving"
      /\ (start'.stage = "serving" => UNCHANGED schemaVars)
  BY StartingKeeps, StartingServes DEF VocabularyInv, SpaceInv, Start
<1>2. UNCHANGED <<op, lock, resync, late>>
  BY DEF Start, peopleVars
<1>3. \A c \in Calls : Idle(c)
  BY <1>1 DEF VocabularyInv, QuietInv
<1>4. CallsInv' /\ LockInv' /\ AttachInv' /\ QuietInv' /\ Registry(resync')
  <2>1. \A c \in Calls : Idle(c)'
    BY <1>2, <1>3 DEF Idle
  <2> QED
    BY <1>2, <1>3, <2>1 DEF VocabularyInv, ServedInv, CallsInv, LockInv, AttachInv, QuietInv, Idle
<1>5. SpaceInv' /\ SchemaInv' /\ LeftInv' /\ DOMAIN types \subseteq DOMAIN types'
  BY <1>1 DEF Retains, SpaceInv
<1>6. KnownInv' /\ DOMAIN known'.types \subseteq DOMAIN types'
  <2>1. CASE start'.stage = "serving" /\ known' = Schema
    BY <1>5, <2>1, SchemaIs DEF VocabularyInv, ServedInv, Registry, KnownInv
  <2>2. CASE known' = known
    BY <1>5, <2>2 DEF VocabularyInv, ServedInv, PlacedInv, KnownInv
  <2> QED
    BY <2>1, <2>2 DEF Start
<1>7. PlacedInv'
  BY <1>2, <1>3, <1>5, <1>6, AllIdle DEF VocabularyInv, PlacedInv
<1>8. Kept
  <2> SUFFICES ASSUME NEW t \in DOMAIN types, t \in BetweenReadAndWrite,
                      NEW k \in types[t] \ types'[t]
               PROVE  <<t, k>> \in late
    BY DEF Kept
  <2>1. start.stage = "retrofit" /\ t = Type
    BY <1>3 DEF BetweenReadAndWrite, Idle
  <2>2. k \notin KeysOf(start.fields) /\ Accounted(Type, start.fields)
    BY <1>1, <2>1 DEF Retains, VocabularyInv, SpaceInv, RetrofitInv
  <2> QED
    BY <2>1, <2>2 DEF Accounted
<1> QED
  BY <1>4, <1>5, <1>6, <1>7, <1>8 DEF VocabularyInv, ServedInv

LEMMA LaunchedStep == ASSUME VocabularyInv, Launched PROVE VocabularyInv' /\ Kept
<1>1. SpaceInv' /\ UNCHANGED <<types, left>> /\ SchemaInv' /\ LeftInv'
  BY LaunchKeeps DEF VocabularyInv, Launched, SpaceInv
<1>2. UNCHANGED <<known, op, lock, resync, late>> /\ start.stage = "down"
  BY DEF Launched, Launch, callVars, peopleVars
<1>3. \A c \in Calls : Idle(c)
  BY <1>2 DEF VocabularyInv, QuietInv
<1>4. QuietInv' /\ AttachInv'
  BY <1>2, <1>3 DEF QuietInv, AttachInv, Idle
<1>5. ServedInv' /\ PlacedInv' /\ Registry(resync')
  BY <1>1, <1>2 DEF VocabularyInv, ServedInv, CallsInv, LockInv, KnownInv, PlacedInv
<1> QED
  BY <1>1, <1>4, <1>5 DEF VocabularyInv, Kept

LEMMA CrashStep == ASSUME VocabularyInv, Crash PROVE VocabularyInv' /\ Kept
<1>1. UNCHANGED schemaVars /\ UNCHANGED <<types, late>> /\ start' = NoRead /\ Spend("crash")
  BY DEF Crash, Killed, Down, schemaVars, peopleVars
<1>2. SchemaInv' /\ LeftInv'
  BY <1>1, SpendKeeps DEF VocabularyInv, ServedInv, SchemaInv, schemaVars
<1>3. SpaceInv'
  BY <1>1, <1>2, DownKeeps
<1>4. CallsInv' /\ LockInv' /\ \A c \in Calls : Idle(c)'
  BY IdleCalls DEF Crash
<1>5. known' = Nothing /\ resync' = Nothing
  BY DEF Crash
<1>6. KnownInv' /\ Registry(resync') /\ DOMAIN known'.types = {} /\ DOMAIN resync'.types = {}
  BY <1>5, NothingIs DEF Registry, KnownInv
<1>7. AttachInv' /\ QuietInv' /\ PlacedInv'
  BY <1>4, <1>6 DEF AttachInv, QuietInv, PlacedInv, Idle, Reads
<1> QED
  BY <1>1, <1>2, <1>3, <1>4, <1>6, <1>7 DEF VocabularyInv, ServedInv, Kept

LEMMA PeopleStep == ASSUME VocabularyInv, People PROVE VocabularyInv' /\ Kept
<1>1. /\ Spend("person") /\ calm' = FALSE /\ UNCHANGED <<known, op, lock, resync, start>>
      /\ PersonEditsSchema \/ UNCHANGED schemaVars
  BY DEF People, Person
<1>2. SchemaInv' /\ DOMAIN types' = DOMAIN types
  <2>1. CASE UNCHANGED schemaVars
    BY <2>1 DEF VocabularyInv, ServedInv, SchemaInv, schemaVars
  <2> QED
    BY <1>1, <2>1, PersonEditsKeep DEF VocabularyInv, ServedInv
<1>3. LeftInv' /\ left'.person # left.person
  BY <1>1, SpendKeeps, PersonSpends DEF VocabularyInv, ServedInv
<1>4. ASSUME NEW t \in BetweenReadAndWrite, NEW entries, Accounted(t, entries)
      PROVE  Accounted(t, entries)'
  <2> SUFFICES ASSUME t \in DOMAIN types, NEW k \in types'[t], k \notin KeysOf(entries)
               PROVE  <<t, k>> \in late'
    BY <1>2 DEF Accounted
  <2>1. CASE k \in types[t]
    BY <1>4, <2>1 DEF Accounted, People
  <2>2. CASE k \notin types[t]
    <3>1. k \in Keys
      BY <1>2 DEF SchemaInv
    <3> QED
      BY <1>2, <2>2, <3>1 DEF People
  <2> QED
    BY <2>1, <2>2
<1>5. AttachInv'
  <2>1. ASSUME NEW c \in Calls, op[c].stage = "patch", op[c].kind = "attach"
        PROVE  Accounted(op[c].on, op[c].read)'
    <3>1. PICK t, entries : t = op[c].on /\ entries = op[c].read
      OBVIOUS
    <3>2. t \in BetweenReadAndWrite /\ Accounted(t, entries)
      BY <2>1, <3>1 DEF VocabularyInv, AttachInv, BetweenReadAndWrite
    <3>3. op'[c].on = t /\ op'[c].read = entries
      BY <1>1, <3>1
    <3> QED
      BY <1>4, <3>2, <3>3
  <2> QED
    BY <1>1, <2>1 DEF AttachInv
<1>6. RetrofitInv'
  <2>1. ASSUME start.stage = "retrofit" PROVE Accounted(Type, start.fields)'
    <3>1. PICK t, entries : t = Type /\ entries = start.fields
      OBVIOUS
    <3>2. t \in BetweenReadAndWrite /\ Accounted(t, entries)
      BY <2>1, <3>1 DEF VocabularyInv, SpaceInv, RetrofitInv, BetweenReadAndWrite
    <3>3. Type' = t /\ start'.fields = entries
      BY <1>1, <3>1 DEF Type
    <3> QED
      BY <1>4, <3>2, <3>3
  <2> QED
    BY <1>1, <2>1 DEF RetrofitInv
<1>7. SpaceInv'
  BY <1>1, <1>2, <1>3, <1>6 DEF VocabularyInv, SpaceInv, StartInv, CalmInv
<1>8. ServedInv' /\ PlacedInv' /\ QuietInv' /\ Registry(resync')
  BY <1>1, <1>2, <1>3 DEF VocabularyInv, ServedInv, CallsInv, LockInv, KnownInv, PlacedInv,
                          QuietInv, Idle
<1> QED
  BY <1>3, <1>5, <1>7, <1>8 DEF VocabularyInv, Kept

LEMMA ResyncStep ==
    ASSUME VocabularyInv, ListTypes \/ ListProperties \/ Replace
    PROVE  VocabularyInv' /\ Kept
<1>1. UNCHANGED <<schemaVars, types, startVars, op, lock, late>>
  BY DEF ListTypes, ListProperties, Replace, schemaVars, peopleVars
<1>2. LeftInv' /\ SchemaInv' /\ SpaceInv'
  <2>1. Spend("resync") \/ UNCHANGED left
    BY DEF ListTypes, ListProperties, Replace
  <2>2. LeftInv'
    BY <2>1, SpendKeeps DEF VocabularyInv, ServedInv, LeftInv
  <2>3. SchemaInv' /\ StartInv' /\ CalmInv' /\ RetrofitInv'
    BY <1>1 DEF VocabularyInv, ServedInv, SpaceInv, SchemaInv, StartInv, CalmInv, RetrofitInv,
                Whole, Healed, Unseeded, Type, Accounted, schemaVars, startVars
  <2> QED
    BY <2>2, <2>3 DEF SpaceInv
<1>3. KnownInv' /\ Registry(resync')
      /\ DOMAIN known'.types \subseteq DOMAIN types /\ DOMAIN resync'.types \subseteq DOMAIN types
  <2>0. /\ KnownInv /\ Registry(resync) /\ SchemaInv
        /\ DOMAIN known.types \subseteq DOMAIN types /\ DOMAIN resync.types \subseteq DOMAIN types
    BY DEF VocabularyInv, ServedInv, PlacedInv
  <2>s. Registry(Schema) /\ DOMAIN Schema.types = DOMAIN types
    BY <2>0, SchemaIs
  <2>1. CASE ListTypes
    <3>1. resync' = [Nothing EXCEPT !.stage = "types", !.types = Schema.types] /\ known' = known
      BY <2>1 DEF ListTypes
    <3>2. /\ DOMAIN resync' = {"space", "types", "stage"} /\ resync'.space = {}
          /\ resync'.types = Schema.types
      BY <3>1 DEF Nothing
    <3> QED
      BY <2>0, <2>s, <3>1, <3>2 DEF Registry, KnownInv, Keyed, Once
  <2>2. CASE ListProperties
    <3>1. /\ DOMAIN resync' = {"space", "types", "stage"} /\ resync'.space = Schema.space
          /\ resync'.types = resync.types /\ known' = known
      BY <2>0, <2>2 DEF ListProperties, Registry
    <3> QED
      BY <2>0, <2>s, <3>1 DEF Registry, KnownInv
  <2>3. CASE Replace
    <3>1. /\ DOMAIN known' = {"space", "types", "stage"} /\ known'.space = resync.space
          /\ known'.types = resync.types /\ resync' = Nothing
      BY <2>0, <2>3 DEF Replace, Registry
    <3> QED
      BY <2>0, <3>1, NothingIs DEF Registry, KnownInv
  <2> QED
    BY <2>1, <2>2, <2>3
<1>4. CallsInv' /\ LockInv' /\ AttachInv' /\ QuietInv' /\ PlacedInv'
  BY <1>1, <1>3 DEF VocabularyInv, ServedInv, CallsInv, LockInv, AttachInv, QuietInv, PlacedInv,
                    Accounted, Idle, startVars
<1> QED
  BY <1>1, <1>2, <1>3, <1>4 DEF VocabularyInv, ServedInv, Kept

LEMMA CallStep ==
    ASSUME VocabularyInv, NEW c \in Calls, Begin(c) \/ Steps(c)
    PROVE  VocabularyInv' /\ Kept
<1>1. /\ start.stage = "serving" /\ UNCHANGED <<startVars, resync, peopleVars>>
  BY CallStepIsServed DEF VocabularyInv
<1>2. /\ ServedInv' /\ PlacedInv' /\ AttachInv' /\ DOMAIN types \subseteq DOMAIN types'
      /\ \A t \in DOMAIN types : t \in BetweenReadAndWrite =>
            \A k \in types[t] \ types'[t] : <<t, k>> \in late
  BY CallStepKeeps DEF VocabularyInv
<1>3. start' = start /\ calm' = calm /\ resync' = resync
  BY <1>1 DEF startVars
<1>4. StartInv' /\ CalmInv' /\ RetrofitInv' /\ QuietInv'
  BY <1>1, <1>2, <1>3 DEF VocabularyInv, SpaceInv, StartInv, CalmInv, RetrofitInv, QuietInv,
                          Typing, Healthy, Typed, Provided, Seeded
<1> QED
  BY <1>2, <1>3, <1>4 DEF VocabularyInv, ServedInv, SpaceInv, Kept

LEMMA StutterStep == ASSUME VocabularyInv, UNCHANGED vars PROVE VocabularyInv'
<1>1. UNCHANGED <<props, types, tags, left, start, calm, known, op, lock, resync, late>>
  BY DEF vars, schemaVars, startVars, callVars, peopleVars
<1>2. CallsInv' /\ LockInv' /\ KnownInv' /\ SchemaInv' /\ LeftInv'
  BY <1>1 DEF VocabularyInv, ServedInv, CallsInv, LockInv, KnownInv, SchemaInv, LeftInv
<1>3. StartInv' /\ CalmInv' /\ RetrofitInv'
  BY <1>1 DEF VocabularyInv, SpaceInv, StartInv, CalmInv, RetrofitInv, Whole, Healed, Unseeded,
              Type, Accounted
<1>4. PlacedInv' /\ AttachInv' /\ QuietInv' /\ Registry(resync')
  BY <1>1 DEF VocabularyInv, PlacedInv, AttachInv, QuietInv, Accounted, Idle
<1> QED
  BY <1>2, <1>3, <1>4 DEF VocabularyInv, ServedInv, SpaceInv

LEMMA VocabularyStep == VocabularyInv /\ [Next]_vars => VocabularyInv'
BY StartStep, LaunchedStep, CrashStep, PeopleStep, ResyncStep, CallStep, StutterStep DEF Next

\* The invariant of every behaviour.
THEOREM VocabularyKeeps == Spec => []VocabularyInv
<1>1. VocabularyInv /\ [Next]_vars => VocabularyInv'
  BY VocabularyStep
<1> QED
  BY VocabularyInit, <1>1, PTL DEF Spec

LEMMA NextKeeps == VocabularyInv /\ Next => Kept
BY StartStep, LaunchedStep, CrashStep, PeopleStep, ResyncStep, CallStep DEF Next

\* A start in which no person acted comes to serve in a space that is whole.
LEMMA ServesWhole ==
    ASSUME VocabularyInv, Next, start.stage # "serving", start'.stage = "serving", calm
    PROVE  /\ Range(InfraTypes) \subseteq DOMAIN types
           /\ DOMAIN FormatOf \subseteq DOMAIN props
           /\ \A k \in DOMAIN Selects :
                 /\ props[k].format = "select"
                 /\ \A o \in Selects[k] : tags[k][o] > 0
           /\ \A t \in start.shown \intersect Range(InfraTypes) : Inline[t] \subseteq types[t]
<1>1. Start
  <2>1. ~Launched /\ ~Crash
    <3>1. [NoRead EXCEPT !.stage = "list"].stage = "list" /\ NoRead.stage = "down"
      BY DEF NoRead
    <3> QED
      BY <3>1 DEF Launched, Launch, Crash, Killed, Down
  <2>2. ~People /\ ~ListTypes /\ ~ListProperties /\ ~Replace
    BY DEF People, Person, PersonEditsSchema, ListTypes, ListProperties, Replace, startVars
  <2>3. \A c \in Calls : ~(Begin(c) \/ Steps(c))
    BY CallStepIsServed DEF VocabularyInv
  <2> QED
    BY <2>1, <2>2, <2>3 DEF Next
<1>2. start.stage = "load"
  BY <1>1, StartingServes DEF VocabularyInv, SpaceInv, Start
<1>3. /\ Healed /\ DOMAIN FormatOf \subseteq DOMAIN props /\ Unseeded = {}
      /\ \A i \in 1..Len(InfraTypes) : Whole(InfraTypes[i])
  BY <1>2 DEF VocabularyInv, SpaceInv, CalmInv, Healthy, Typed, Provided, Seeded
<1>4. \A t \in Range(InfraTypes) : Whole(t)
  BY <1>3, InfraTypesAre
<1>5. ASSUME NEW k \in DOMAIN Selects
      PROVE  props[k].format = "select" /\ \A o \in Selects[k] : tags[k][o] > 0
  <2>1. k \in DOMAIN props /\ k \in Keys /\ Selects[k] \subseteq Options
    BY <1>3, FormatsAre
  <2>2. \A o \in Options : tags[k][o] \in Nat
    BY <2>1 DEF VocabularyInv, SpaceInv, SchemaInv
  <2>3. ASSUME NEW o \in Selects[k] PROVE tags[k][o] # 0
    <3>1. <<k, o>> \in (DOMAIN Selects) \X Options
      BY <2>1
    <3> QED
      BY <1>3, <2>1, <3>1 DEF Unseeded
  <2> QED
    BY <1>3, <2>1, <2>2, <2>3 DEF Healed
<1> QED
  BY <1>3, <1>4, <1>5 DEF Whole

\* A field that is refused, for want of approval or for a conflict, is refused
\* before the update has created anything for the other fields.
\* (_resolve_field_entries in repository.py)
THEOREM RefusalsMintNothing == Spec => []ApprovalMintsNothing
<1>1. VocabularyInv => ApprovalMintsNothing
  BY DEF VocabularyInv, ServedInv, CallsInv, CallInv, ApprovalMintsNothing
<1> QED
  BY VocabularyKeeps, <1>1, PTL

\* No write of a type takes off a field but one that a person put there between
\* the read and the write, and a start in which nobody acts leaves the space
\* with every type, property, format and option the bot relies on, however
\* many starts before it failed or were killed, and after whatever people did.
\* (ensure_schema, _retrofit_type_fields, add_type_properties; quirk A11)
THEOREM SpaceStaysWhole == Spec => SchemaWhole
<1>1. VocabularyInv /\ [Next]_vars =>
        [\A t \in DOMAIN types :
          t \in BetweenReadAndWrite /\ left'.person = left.person =>
             \A k \in types[t] \ types'[t] : <<t, k>> \in late]_vars
  BY NextKeeps DEF Kept
<1>2. VocabularyInv /\ [Next]_vars =>
        [start.stage # "serving" /\ start'.stage = "serving" /\ calm =>
           /\ Range(InfraTypes) \subseteq DOMAIN types
           /\ DOMAIN FormatOf \subseteq DOMAIN props
           /\ \A k \in DOMAIN Selects :
                 /\ props[k].format = "select"
                 /\ \A o \in Selects[k] : tags[k][o] > 0
           /\ \A t \in start.shown \intersect Range(InfraTypes) :
                 Inline[t] \subseteq types[t]]_vars
  BY ServesWhole
<1> QED
  BY VocabularyKeeps, <1>1, <1>2, PTL DEF Spec, SchemaWhole, FieldsKept

\* Whatever the space and the registry have become, the adapter and the
\* in-memory repository take the same property for every name that is not
\* ambiguous, refuse the same and offer the same.
\* (_resolve_fields and _resolve_link_label of both repositories)
THEOREM BothBackendsAgree == Spec => BackendsAgree
<1>1. VocabularyInv => SameDecisions
  BY DecisionsAreSame DEF VocabularyInv, ServedInv
<1>2. Spec => []SameDecisions
  BY VocabularyKeeps, <1>1, PTL
<1>3. SameDecisions' => [known' # known \/ carried' # carried => SameDecisions']_vars
  OBVIOUS
<1> QED
  BY <1>2, <1>3, PTL DEF BackendsAgree
=============================================================================
