------------------------------ MODULE Vocabulary ------------------------------
(***************************************************************************)
(* How the calls of the repository extend the vocabulary of the space      *)
(* while it serves: properties and relations that a write declares,        *)
(* options of selects, types and their fields                              *)
(* (infrastructure/anytype/repository.py, with the registry of             *)
(* registry.py).  Calls run concurrently; the write lock covers what the   *)
(* code has it cover.                                                      *)
(***************************************************************************)
EXTENDS SpaceStart

CONSTANTS
    Calls,      \* the calls that may be in flight
    Requests,   \* what they may ask for
    Window,     \* how many writes a fresh relation or option is refused for
    Attempts,   \* how often such a write is tried
    Serving     \* the spaces in which the bot may serve from the beginning

None == "none"

\* What a call asks for under one name: a format if it declares one, an option
\* if it gives one.
Items == [name : Names, declared : Formats \union {None},
          option : Options \union {None}]

ASSUME VocabularyAssumption ==
    /\ Window \in Nat /\ Attempts \in Nat \ {0} /\ Serving \subseteq Spaces
    /\ None \notin Calls
    /\ \A r \in Requests :
          /\ r.kind \in {"update", "create", "link", "type", "attach"}
          /\ r.on \in Types
          /\ r.links \in Seq(Items) /\ r.fields \in Seq(Items)

VARIABLES
    known,      \* the registry: the properties of the space, those of the types
    carried,    \* the properties with a value, of the object of each type
    settling,   \* writes the server still refuses, by key and by option
    unsettled,  \* keys and options the bot made and has not proven usable
    op,         \* the calls
    lock,       \* the call in the critical section of _writer
    resync,     \* what a resync has read of the schema
    late,       \* history: properties that people put on a type between the
                \* bot's read of it and its write
    moved       \* history: properties that people put on a type or took off it

peopleVars == <<late, moved>>
callVars == <<known, carried, settling, unsettled, op, lock, resync, peopleVars>>
vars == <<schemaVars, left, startVars, callVars>>

Done(outcome) ==
    [kind |-> "none", stage |-> outcome, on |-> None, links |-> <<>>,
     fields |-> <<>>, plans |-> {}, next |-> None, uses |-> {}, options |-> {},
     read |-> {}, tries |-> 0, minted |-> FALSE, cause |-> None]

Nothing == [space |-> {}, types |-> <<>>, stage |-> "idle"]
Schema == [space |-> EntriesOf(DOMAIN props),
           types |-> [t \in DOMAIN types |-> EntriesOf(types[t])],
           stage |-> "idle"]

\* The bot may also serve from the beginning, in a space that is whole.
InitServing ==
    /\ SchemaInit(Serving)
    /\ start = [NoRead EXCEPT !.stage = "serving"]
    /\ modes = Range(SeedModes) /\ default = {} /\ context = 1 /\ calm = TRUE
    /\ explained = [t \in Explained |-> 1]

Init ==
    /\ \/ StartInit /\ known = Nothing
       \/ InitServing /\ known = Schema
    /\ carried = [t \in Types |-> {}]
    /\ settling = [x \in Keys \union Options |-> 0] /\ unsettled = {}
    /\ op = [c \in Calls |-> Done("idle")] /\ lock = None
    /\ resync = Nothing /\ late = {} /\ moved = {}

-----------------------------------------------------------------------------
(* The registry. *)

Called(e, n) == e.name = n \/ e.key = Slug[n]
Relations(entries, n) == {e \in entries : Called(e, n) /\ e.format = "objects"}
Scalars(entries, n) == {e \in entries : Called(e, n) /\ e.format # "objects"}
Attached(t) == IF t \in DOMAIN known.types THEN known.types[t] ELSE {}
First(entries) == CHOOSE e \in entries : TRUE

Registered(e) ==
    [known EXCEPT !.space = {x \in @ : x.key # e.key} \union {e}]
Adopted(t, entries) ==
    [known EXCEPT
        !.space = @ \union {e \in entries : e.key \notin KeysOf(@)},
        !.types = [u \in DOMAIN @ \union {t} |->
                      IF u = t THEN entries ELSE @[u]]]

Use(e, item) ==
    [do |-> "use", entry |-> e, option |-> item.option, name |-> item.name]
Mint(item, format) ==
    [do |-> "mint", entry |-> Entry(Slug[item.name], item.name, format, 0),
     option |-> item.option, name |-> item.name]
Refuse(why) == [do |-> why]

\* What a name means on a type without a declaration: what the type has, and
\* on an object that exists what it carries; on a type of the bot's own,
\* whatever the space has.
Scoped(r, space, own) ==
    IF r.on \in Range(InfraTypes) THEN space
    ELSE IF own # {} THEN own
    ELSE {e \in space : r.kind \in {"link", "update"} /\ e.key \in carried[r.on]}

\* _scoped_relation_key
ScopedRelation(r, n) ==
    Scoped(r, Relations(known.space, n), Relations(Attached(r.on), n))

\* _scoped_field_property
ScopedField(r, n) ==
    Scoped(r, Scalars(known.space, n), Scalars(Attached(r.on), n))

\* _resolve_relation: with a declaration whatever the space has, or a new
\* relation.
LinkPlan(r, item) ==
    LET scoped == ScopedRelation(r, item.name)
        space == Relations(known.space, item.name)
    IN IF scoped # {} THEN Use(First(scoped), item)
       ELSE IF item.declared # "objects" THEN Refuse("approval")
       ELSE IF space # {} THEN Use(First(space), item)
       ELSE Mint(item, "objects")

\* _resolve_field_entries: the same for scalars, whose format must agree and
\* whose name must not be a relation's.
FieldPlan(r, item) ==
    LET scoped == ScopedField(r, item.name)
        space == Scalars(known.space, item.name)
        Agreed(e) == IF item.declared \in {None, "objects", e.format}
                     THEN Use(e, item) ELSE Refuse("conflict")
    IN IF scoped # {} THEN Agreed(First(scoped))
       ELSE IF item.declared \in {None, "objects"} THEN Refuse("approval")
       ELSE IF Relations(known.space, item.name) # {} THEN Refuse("approval")
       ELSE IF space # {} THEN Agreed(First(space))
       ELSE Mint(item, item.declared)

\* _property_entry: what a proposed property of a type becomes.
EntryPlan(item) ==
    LET edge == Relations(known.space, item.name)
        space == Scalars(known.space, item.name)
    IN IF edge # {} THEN IF item.declared # "objects" THEN Refuse("conflict")
                         ELSE Use(First(edge), item)
       ELSE IF space # {}
       THEN IF First(space).format # item.declared THEN Refuse("conflict")
            ELSE Use(First(space), item)
       ELSE Mint(item, item.declared)

Refusals(plans) == {p \in plans : p.do \in {"approval", "conflict"}}

-----------------------------------------------------------------------------
(* Calls. *)

Set(c, r) == op' = [op EXCEPT ![c] = r]
Served == start.stage = "serving"

\* Mutant of Freed: the lock stays with a call that failed.
FreedOnSuccess(c, outcome) ==
    IF lock = c /\ outcome = "done" THEN None ELSE lock

Freed(c, outcome) == IF lock = c THEN None ELSE lock

Ends(c, outcome, cause) ==
    /\ Set(c, [Done(outcome) EXCEPT !.kind = op[c].kind, !.cause = cause,
                 !.minted = op[c].minted, !.tries = op[c].tries])
    /\ lock' = Freed(c, outcome)

Idle(c) == op[c].stage \in {"idle", "done", "rejected", "failed"}

FieldPlans(r) == [i \in DOMAIN r.fields |-> FieldPlan(r, r.fields[i])]

\* A set: the order in which a type gets its properties is left out.
EntryPlans(items) == {EntryPlan(i) : i \in items}

\* Mutant of Checked: only the first field is checked before the work begins.
CheckedFirst(plans) == plans = <<>> \/ Refusals({Head(plans)}) = {}

\* All fields are looked up before anything is created.
Checked(plans) == Refusals(Range(plans)) = {}

\* What a call does before its first request: update_node looks its fields up
\* outside the lock, create_type its properties.
Begin(c) ==
    /\ Served /\ Idle(c) /\ Spend("call")
    /\ \E r \in Requests :
          LET o == [Done("waiting") EXCEPT !.kind = r.kind, !.on = r.on,
                      !.links = r.links, !.fields = r.fields]
          IN /\ r.kind \in {"create", "link", "update"} => r.on \in DOMAIN known.types
             /\ CASE r.kind = "update" ->
                     IF Checked(FieldPlans(r))
                     THEN Set(c, [o EXCEPT !.stage = "fields",
                                           !.fields = FieldPlans(r)])
                     ELSE Set(c, [o EXCEPT !.stage = "rejected"])
                  [] r.kind \in {"create", "link"} ->
                     Set(c, [o EXCEPT !.next = "links"])
                  [] r.kind = "type" ->
                     IF r.on \in DOMAIN known.types
                        \/ Refusals(EntryPlans(Range(r.fields))) # {}
                     THEN Set(c, [o EXCEPT !.stage = "rejected"])
                     ELSE Set(c, [o EXCEPT !.next = "patch",
                                     !.plans = EntryPlans(Range(r.fields))])
                  [] r.kind = "attach" ->
                     IF r.on \notin DOMAIN known.types
                     THEN Set(c, [o EXCEPT !.stage = "rejected"])
                     ELSE Set(c, [o EXCEPT !.next = "read"])
    /\ UNCHANGED <<schemaVars, startVars, known, carried, settling, unsettled,
                   lock, resync, peopleVars>>

Free == lock = None

\* _writer
Acquire(c) ==
    /\ op[c].stage = "waiting" /\ Free
    /\ lock' = c /\ Set(c, [op[c] EXCEPT !.stage = op[c].next])
    /\ UNCHANGED <<schemaVars, startVars, left, known, carried, settling,
                   unsettled, resync, peopleVars>>

\* The links of create_node and add_link, one by one.
ResolveLink(c) ==
    LET o == op[c] IN
    /\ o.stage = "links"
    /\ IF o.links = <<>>
       THEN LET plans == FieldPlans(o) IN
            IF Checked(plans)
            THEN /\ Set(c, [o EXCEPT !.stage = "fields", !.fields = plans])
                 /\ UNCHANGED lock
            ELSE Ends(c, "rejected", None)
       ELSE LET plan == LinkPlan(o, Head(o.links)) IN
            IF plan.do = "approval" THEN Ends(c, "rejected", None)
            ELSE IF plan.do = "use"
            THEN /\ Set(c, [o EXCEPT !.links = Tail(@),
                              !.uses = @ \union {plan.entry.key}])
                 /\ UNCHANGED lock
            ELSE /\ Set(c, [o EXCEPT !.stage = "mintlink",
                                     !.read = {plan.entry}])
                 /\ UNCHANGED lock
    /\ UNCHANGED <<schemaVars, startVars, left, known, carried, settling,
                   unsettled, resync, peopleVars>>

\* _create_property_checked: POST /properties.  A key that exists is an error
\* of its own; what the server minted without an answer stays unregistered.
Create(c, entry, o) ==
    /\ \/ /\ entry.key \in DOMAIN props /\ Ends(c, "failed", "exists")
          /\ UNCHANGED <<schemaVars, left, known, settling, unsettled>>
       \/ /\ entry.key \notin DOMAIN props
          /\ \E reply \in Replies :
             /\ Heard(reply)
             /\ IF reply = "refused" THEN UNCHANGED <<schemaVars, settling>>
                ELSE /\ PostProperty(entry)
                     /\ settling' = IF entry.format = "objects"
                                    THEN [settling EXCEPT ![entry.key] = Window]
                                    ELSE settling
             /\ IF reply = "answered"
                THEN /\ Set(c, [o EXCEPT !.minted = TRUE])
                     /\ known' = Registered(
                           [entry EXCEPT !.id = props'[entry.key].id])
                     /\ unsettled' = IF entry.format = "objects"
                                     THEN unsettled \union {entry.key}
                                     ELSE unsettled
                     /\ UNCHANGED lock
                ELSE Ends(c, "failed", "net") /\ UNCHANGED <<known, unsettled>>
    /\ UNCHANGED <<startVars, carried, resync, peopleVars>>

MintLink(c) ==
    LET e == First(op[c].read) IN
    /\ op[c].stage = "mintlink"
    /\ Create(c, e, [op[c] EXCEPT !.stage = "links", !.links = Tail(@),
                                  !.uses = @ \union {e.key}, !.read = {}])

\* The fields one by one: a new property is made, an option looked up; none
\* that is refused is left here after the check.
TakeField(c) ==
    LET o == op[c] IN
    /\ o.stage = "fields"
    /\ IF o.fields = <<>>
       THEN /\ IF o.kind = "update"
               THEN Set(c, [o EXCEPT !.stage = "waiting", !.next = "write"])
               ELSE Set(c, [o EXCEPT !.stage = "write"])
       ELSE LET plan == Head(o.fields) IN
            IF Refusals({plan}) # {} THEN Set(c, [o EXCEPT !.stage = "rejected"])
            ELSE IF plan.do = "mint"
            THEN Set(c, [o EXCEPT !.stage = "mintfield"])
            ELSE IF plan.entry.format = "select" /\ plan.option # None
                    /\ tags[plan.entry.key][plan.option] = 0
            THEN Set(c, [o EXCEPT !.stage = "newoption"])
            ELSE Set(c, [o EXCEPT !.fields = Tail(@),
                      !.uses = @ \union {plan.entry.key},
                      !.options = @ \union ({plan.option} \ {None})])
    /\ UNCHANGED <<schemaVars, startVars, left, known, carried, settling,
                   unsettled, lock, resync, peopleVars>>

MintField(c) ==
    LET plan == Head(op[c].fields) IN
    /\ op[c].stage = "mintfield"
    /\ Create(c, plan.entry,
              [op[c] EXCEPT !.stage = "fields",
                  !.fields = <<[plan EXCEPT !.do = "use"]>> \o Tail(@)])

\* create_tag of _resolve_tag.
NewOption(c) ==
    LET plan == Head(op[c].fields) IN
    /\ op[c].stage = "newoption"
    /\ \E reply \in Replies :
          LET lands == reply # "refused" /\ plan.entry.key \in DOMAIN props IN
          /\ Heard(reply)
          /\ IF ~lands THEN UNCHANGED <<schemaVars, settling>>
             ELSE /\ PostTag(plan.entry.key, plan.option)
                  /\ settling' = [settling EXCEPT ![plan.option] = Window]
          /\ IF lands /\ reply = "answered"
             THEN /\ Set(c, [op[c] EXCEPT !.stage = "fields",
                               !.fields = Tail(@),
                               !.uses = @ \union {plan.entry.key},
                               !.options = @ \union {plan.option}])
                  /\ unsettled' = unsettled \union {plan.option}
                  /\ UNCHANGED lock
             ELSE Ends(c, "failed", "net") /\ UNCHANGED unsettled
    /\ UNCHANGED <<startVars, known, carried, resync, peopleVars>>

Tries(o) == o.tries < Attempts - 1

\* What the server still refuses of all that a write refers to: a fresh option
\* is no option yet, a fresh relation no property.
Closed(o) == {x \in o.uses \union o.options : settling[x] > 0}

\* The write of the object, tried again while what it refers to is fresh
\* (_patch_relations, _send_tolerating_fresh_tags).
Write(c) ==
    LET o == op[c]
        named == o.uses \union o.options
        closed == Closed(o)
    IN
    /\ o.stage = "write"
    /\ \/ /\ ~(o.uses \subseteq DOMAIN props)
          /\ Ends(c, "failed", "gone")
          /\ UNCHANGED <<left, carried, settling, unsettled>>
       \/ /\ o.uses \subseteq DOMAIN props /\ closed # {}
          /\ settling' = [x \in DOMAIN settling |->
                IF x \in closed THEN settling[x] - 1 ELSE settling[x]]
          /\ IF /\ \/ closed \intersect Options # {} /\
                        unsettled \intersect Options # {}
                   \/ closed \subseteq Keys /\ unsettled \intersect named # {}
                /\ Tries(o)
             THEN /\ Set(c, [o EXCEPT !.tries = @ + 1]) /\ UNCHANGED lock
             ELSE Ends(c, "failed", "settling")
          /\ UNCHANGED <<left, carried, unsettled>>
       \/ /\ o.uses \subseteq DOMAIN props /\ closed = {}
          /\ \E reply \in Replies :
                /\ Heard(reply)
                /\ carried' = IF reply = "refused" THEN carried
                              ELSE [carried EXCEPT ![o.on] = @ \union o.uses]
                /\ IF reply = "answered"
                   THEN Ends(c, "done", None)
                        /\ unsettled' = (unsettled \ named) \ Options
                   ELSE Ends(c, "failed", "net") /\ UNCHANGED unsettled
          /\ UNCHANGED settling
    /\ UNCHANGED <<schemaVars, startVars, known, resync, peopleVars>>
-----------------------------------------------------------------------------
(* Types. *)

\* add_type_properties reads the type under the lock: what it has by that name
\* in that format needs nothing.
ReadFields(c) ==
    LET o == op[c]
        fields == EntriesOf(types[o.on])
        Held(item) == {e \in fields : Called(e, item.name)}
        plans == EntryPlans({i \in Range(o.fields) : Held(i) = {}})
    IN
    /\ o.stage = "read"
    /\ IF \/ \E i \in Range(o.fields) : \E e \in Held(i) :
                e.format # i.declared
          \/ Refusals(plans) # {}
       THEN Ends(c, "rejected", None)
       ELSE IF plans = {} THEN Ends(c, "done", None)
       ELSE /\ Set(c, [o EXCEPT !.stage = "patch", !.plans = plans,
                                !.read = fields])
            /\ UNCHANGED lock
    /\ UNCHANGED <<schemaVars, startVars, left, known, carried, settling,
                   unsettled, resync, peopleVars>>

\* The fields of the type by their key, those that join it by their id too.
Sent(o) == {[e EXCEPT !.id = 0] : e \in o.read}
             \union {p.entry : p \in o.plans}

\* create_type and update_type; the answer joins the registry (_adopt_type).
PatchType(c) ==
    LET o == op[c]
        carriedNow == IF o.on \in DOMAIN types THEN types[o.on] ELSE {} IN
    /\ o.stage = "patch"
    /\ \/ /\ ReuseConflict(Sent(o), carriedNow)
          /\ Ends(c, "failed", "exists")
          /\ UNCHANGED <<schemaVars, left, known>>
       \/ /\ ~ReuseConflict(Sent(o), carriedNow)
          /\ \E reply \in Replies :
             /\ Heard(reply)
             /\ IF reply = "refused" THEN UNCHANGED schemaVars
                                     ELSE PutType(o.on, Sent(o))
             /\ IF reply # "answered"
                THEN Ends(c, "failed", "net") /\ UNCHANGED known
                ELSE /\ Set(c, [o EXCEPT !.stage = "options",
                          !.minted = ~(KeysOf(Sent(o)) \subseteq DOMAIN props)])
                     /\ known' = Adopted(o.on,
                           {[key |-> k, name |-> props'[k].name,
                             format |-> props'[k].format,
                             id |-> props'[k].id] : k \in KeysOf(Sent(o))})
                     /\ UNCHANGED lock
    /\ UNCHANGED <<startVars, carried, settling, unsettled, resync, peopleVars>>

\* _seed_property_options: the options that the selects lack.
SeedOptions(c) ==
    LET o == op[c]
        lacking == {p \in o.plans :
            /\ p.option # None /\ p.entry.format = "select"
            /\ p.entry.key \in DOMAIN props
            /\ tags[p.entry.key][p.option] = 0}
    IN
    /\ o.stage = "options"
    /\ IF lacking = {}
       THEN Ends(c, "done", None) /\ UNCHANGED <<schemaVars, left, settling>>
       ELSE LET p == First(lacking) IN
            \E reply \in Replies :
               /\ Heard(reply)
               /\ IF reply = "refused" THEN UNCHANGED <<schemaVars, settling>>
                  ELSE /\ PostTag(p.entry.key, p.option)
                       /\ settling' = [settling EXCEPT ![p.option] = Window]
               /\ IF reply = "answered" THEN UNCHANGED <<op, lock>>
                                        ELSE Ends(c, "failed", "net")
    /\ UNCHANGED <<startVars, known, carried, unsettled, resync, peopleVars>>

-----------------------------------------------------------------------------
(* resync: the types are listed, then the properties, and the registry is    *)
(* replaced.                                                                 *)

ListTypes ==
    /\ Served /\ resync.stage = "idle" /\ Spend("resync")
    /\ resync' = [Nothing EXCEPT !.stage = "types", !.types = Schema.types]
    /\ UNCHANGED <<schemaVars, startVars, known, carried, settling, unsettled,
                   op, lock, peopleVars>>

ListProperties ==
    /\ resync.stage = "types"
    /\ resync' = [resync EXCEPT !.stage = "properties", !.space = Schema.space]
    /\ UNCHANGED <<schemaVars, startVars, left, known, carried, settling,
                   unsettled, op, lock, peopleVars>>

Replace ==
    /\ resync.stage = "properties"
    /\ known' = [resync EXCEPT !.stage = "idle"] /\ resync' = Nothing
    /\ UNCHANGED <<schemaVars, startVars, left, carried, settling, unsettled,
                   op, lock, peopleVars>>

-----------------------------------------------------------------------------

\* A start that comes through hydrates the registry; a kill takes the calls
\* and everything that was in memory.
Start ==
    /\ Starting
    /\ known' = IF start'.stage = "serving" THEN Schema ELSE known
    /\ UNCHANGED <<carried, settling, unsettled, op, lock, resync, peopleVars>>

Launched == Launch /\ UNCHANGED callVars

Crash ==
    /\ Killed
    /\ known' = Nothing /\ unsettled' = {} /\ lock' = None
    /\ op' = [c \in Calls |-> Done("idle")] /\ resync' = Nothing
    /\ UNCHANGED <<carried, settling, peopleVars>>

BetweenReadAndWrite ==
    {op[c].on : c \in {d \in Calls : /\ op[d].stage = "patch"
                                     /\ op[d].kind = "attach"}}
      \union (IF start.stage = "retrofit" THEN {Type} ELSE {})

People ==
    /\ Person
    /\ late' = late \union {p \in BetweenReadAndWrite \X Keys :
                               /\ p[1] \in DOMAIN types'
                               /\ p[2] \in types'[p[1]]
                               /\ p[1] \in DOMAIN types =>
                                     p[2] \notin types[p[1]]}
    /\ moved' = moved \union {p \in (DOMAIN types) \X Keys :
                   (p[2] \in types[p[1]]) # (p[2] \in types'[p[1]])}
    /\ UNCHANGED <<known, carried, settling, unsettled, op, lock, resync>>

Steps(c) ==
    \/ Acquire(c) \/ ResolveLink(c) \/ MintLink(c) \/ TakeField(c)
    \/ MintField(c) \/ NewOption(c) \/ Write(c)
    \/ ReadFields(c) \/ PatchType(c) \/ SeedOptions(c)

Next ==
    \/ Launched \/ Start \/ Crash \/ People
    \/ ListTypes \/ ListProperties \/ Replace
    \/ \E c \in Calls : Begin(c) \/ Steps(c)

\* The supervisor launches the process again; the event loop goes on.
Fairness ==
    /\ WF_vars(Launched) /\ WF_vars(Start)
    /\ \A c \in Calls : WF_vars(Steps(c))
    /\ WF_vars(ListProperties \/ Replace)

Spec == Init /\ [][Next]_vars /\ Fairness

-----------------------------------------------------------------------------
(* What must hold. *)

\* No write of a type takes off a field, unless a person put it there between
\* the read and the write: neither a retrofit of the start nor any of several
\* calls that extend the same type.
\* (_retrofit_type_fields, add_type_properties; quirk A11)
FieldsKept ==
    [][\A t \in DOMAIN types :
          t \in BetweenReadAndWrite /\ left'.person = left.person =>
             \A k \in types[t] \ types'[t] : <<t, k>> \in late]_vars

\* A space in which the bot serves has everything the bot keeps its objects
\* with: after a start in which no person changed anything, all types and all
\* properties are there, the selects are selects with all their options, and
\* the types the start found carry all their fields.
\* And it stays whole under the calls that extend a type (FieldsKept).
\* (ensure_schema and _heal_select_formats in schema_bootstrap.py)
SchemaWhole ==
    /\ FieldsKept
    /\ [][start.stage # "serving" /\ start'.stage = "serving" /\ calm =>
           /\ Range(InfraTypes) \subseteq DOMAIN types
           /\ DOMAIN FormatOf \subseteq DOMAIN props
           /\ \A k \in DOMAIN Selects :
                 /\ props[k].format = "select"
                 /\ \A o \in Selects[k] : tags[k][o] > 0
           /\ \A t \in start.shown \intersect Range(InfraTypes) :
                 Inline[t] \subseteq types[t]]_vars

\* A field that needs a person's approval, or that is in conflict, is refused
\* before the update has created anything for the other fields.
\* (_resolve_field_entries in repository.py)
ApprovalMintsNothing ==
    \A c \in Calls : op[c].stage = "rejected" /\ op[c].kind = "update" =>
        ~op[c].minted

\* Every call ends, and the lock is free again.
CallsEnd == \A c \in Calls : ~Idle(c) ~> Idle(c) /\ lock # c

\* The modes and the Space Context are as load_registry requires them.
Loadable ==
    context <= 1 /\ Cardinality(default) <= 1 /\ default \subseteq modes

\* Whatever failed or was killed before, the bot serves again, unless people
\* moved a relation of its own between types.
\* (ensure_schema: "Safe to re-run"; README.md:34)
StartRecovers ==
    <>[](Loadable /\ \A p \in moved :
            p[2] \in DOMAIN FormatOf => FormatOf[p[2]] # "objects")
        => []<>Served

\* The same with a relation off its type: the retrofit, which names it by its
\* key alone, is refused at every start.
\* (_retrofit_type_fields; quirk A11)
AlwaysRecovers == <>[]Loadable => []<>Served
=============================================================================
