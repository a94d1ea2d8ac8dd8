------------------------------ MODULE SpaceStart ------------------------------
(***************************************************************************)
(* How the bot starts in a space: ensure_schema provisions the types, the  *)
(* properties and the options it keeps its own objects with                *)
(* (infrastructure/anytype/schema_bootstrap.py), a space without Activity  *)
(* Modes gets the starter set (mode_seeder.py), and the modes are loaded   *)
(* (orchestrator/modes.py).  A start that fails ends the process, and the  *)
(* supervisor launches it again.                                           *)
(***************************************************************************)
EXTENDS SpaceSchema

CONSTANTS
    InfraTypes,   \* INFRA_TYPES, in their order
    Inline,       \* the properties each of them is created with
    FormatOf,     \* the formats of all the properties the bot provides
    Selects,      \* SELECT_OPTIONS of the selects among them
    Explained,    \* the types that come with an object that explains them
    SeedModes,    \* the modes of the starter set, the default one first
    OwnModes,     \* modes that people make
    Example       \* the Example Mode of the starter set

ContextType == Last(InfraTypes)

ASSUME StartAssumption ==
    /\ InfraTypes \in Seq(Types) \ {<<>>} /\ Range(SeedModes) # {}
    /\ Inline \in [Range(InfraTypes) -> SUBSET DOMAIN FormatOf]
    /\ FormatOf \in [DOMAIN FormatOf -> Formats]
    /\ DOMAIN FormatOf \subseteq Keys \ Range(Slug)
    /\ Selects \in [{k \in DOMAIN FormatOf : FormatOf[k] = "select"}
                       -> SUBSET Options]
    /\ Explained \subseteq Range(InfraTypes)

VARIABLES
    start,     \* where the process stands, with what it has read
    modes,     \* the Activity Mode objects that are not archived
    context,   \* how many Space Context objects there are
    default,   \* the modes the Space Context links
    explained, \* history: how often each explaining object was made
    calm       \* history: no person has acted since the process was launched

startVars == <<start, modes, context, default, explained, calm>>
storeVars == <<modes, context, default, explained>>

NoRead == [stage |-> "down", at |-> 1, known |-> {}, shown |-> {},
           fields |-> {}]

StartInit ==
    /\ SchemaInit(Spaces)
    /\ start = NoRead
    /\ modes = {} /\ default = {} /\ calm = TRUE
    /\ context = IF ContextType \in DOMAIN types THEN 1 ELSE 0
    /\ explained = [t \in Explained |-> 0]

\* Mutant of After: the properties come before the types.
AfterTwisted == [list |-> "heal", heal |-> "props", props |-> "types",
                 types |-> "options", options |-> "modes"]

After == [list |-> "heal", heal |-> "types", types |-> "props",
          props |-> "options", options |-> "modes"]

Goes(stage) == start' = [start EXCEPT !.stage = stage, !.at = 1]
Down == start' = NoRead
Then(reply, stage) == IF reply = "answered" THEN Goes(stage) ELSE Down

Infra(key) == Entry(key, "infra", FormatOf[key], 0)

-----------------------------------------------------------------------------
(* ensure_schema *)

Launch ==
    /\ start.stage = "down"
    /\ start' = [NoRead EXCEPT !.stage = "list"]
    /\ calm' = TRUE
    /\ UNCHANGED <<schemaVars, storeVars, left>>

\* Two listings; a select of the bot's under another format is deleted, to be
\* made again (_heal_select_formats).
List ==
    /\ start.stage = "list"
    /\ start' = [start EXCEPT !.stage = After.list, !.shown = DOMAIN types,
                              !.known = DOMAIN props]
    /\ UNCHANGED <<schemaVars, storeVars, calm, left>>

Unhealed == {k \in start.known \intersect DOMAIN Selects :
                k \in DOMAIN props /\ props[k].format # "select"}

\* Mutant of Forgotten: the listing still holds the deleted property.
ForgottenNot(k) == start.known

Forgotten(k) == start.known \ {k}

Heal ==
    /\ start.stage = "heal"
    /\ IF Unhealed = {}
       THEN Goes(After.heal) /\ UNCHANGED <<schemaVars, left>>
       ELSE \E k \in Unhealed, reply \in Replies :
          /\ Heard(reply)
          /\ IF reply = "refused" THEN UNCHANGED schemaVars
                                  ELSE DeleteProperty(k)
          /\ IF reply = "answered"
             THEN start' = [start EXCEPT !.known = Forgotten(k)] ELSE Down
    /\ UNCHANGED <<storeVars, calm>>

Type == InfraTypes[start.at]
NextType(known) ==
    start' = [start EXCEPT
        !.stage = IF start.at = Len(InfraTypes) THEN After.types ELSE "types",
        !.at = IF start.at = Len(InfraTypes) THEN 1 ELSE start.at + 1,
        !.known = known, !.fields = {}]

Created == start.known \union Inline[Type]

\* A type the space lacks comes with those of its properties that the space
\* lacks as well, and some with an object that explains them, if it can be
\* made.
CreateType ==
    LET entries == {Infra(k) : k \in Inline[Type] \ start.known} IN
    /\ start.stage = "types" /\ Type \notin start.shown
    /\ \E reply \in Replies :
          /\ Heard(reply)
          /\ IF reply = "refused" THEN UNCHANGED schemaVars
                                  ELSE PutType(Type, entries)
          /\ IF reply # "answered" THEN Down
             ELSE IF Type \in Explained THEN
                start' = [start EXCEPT !.stage = "explain", !.known = Created]
             ELSE NextType(Created)
    /\ UNCHANGED <<storeVars, calm>>

Explain ==
    /\ start.stage = "explain"
    /\ \E reply \in Replies :
          /\ Heard(reply)
          /\ IF reply = "refused" THEN UNCHANGED <<explained, context>>
             ELSE /\ explained' = [explained EXCEPT ![Type] = @ + 1]
                  /\ context' = IF Type = ContextType THEN context + 1
                                                      ELSE context
          /\ NextType(start.known)
    /\ UNCHANGED <<schemaVars, modes, default, calm>>

\* _retrofit_type_fields: the fields of the type are read, and sent again with
\* those it lacks.
ReadType ==
    /\ start.stage = "types" /\ Type \in start.shown
    /\ IF Inline[Type] \subseteq types[Type] THEN NextType(start.known)
       ELSE start' = [start EXCEPT !.stage = "retrofit",
                                   !.fields = EntriesOf(types[Type])]
    /\ UNCHANGED <<schemaVars, storeVars, calm, left>>

\* Each by its key alone.
Resent ==
    {[e EXCEPT !.id = 0] : e \in start.fields}
      \union {Infra(k) : k \in Inline[Type] \ KeysOf(start.fields)}

Retrofit ==
    /\ start.stage = "retrofit"
    /\ \/ /\ ReuseConflict(Resent, types[Type])
          /\ Down /\ UNCHANGED <<schemaVars, left>>
       \/ /\ ~ReuseConflict(Resent, types[Type])
          /\ \E reply \in Replies :
                /\ Heard(reply)
                /\ IF reply = "refused" THEN UNCHANGED schemaVars
                                        ELSE PutType(Type, Resent)
                /\ IF reply = "answered"
                   THEN NextType(start.known \union Inline[Type]) ELSE Down
    /\ UNCHANGED <<storeVars, calm>>

Unmade == DOMAIN FormatOf \ start.known

\* What no type has brought along is made by itself, in the order of the code;
\* here in any.
CreateProperty ==
    /\ start.stage = "props"
    /\ IF Unmade = {} THEN Goes(After.props) /\ UNCHANGED <<schemaVars, left>>
       ELSE \E k \in Unmade :
          \/ k \in DOMAIN props /\ Down /\ UNCHANGED <<schemaVars, left>>
          \/ \E reply \in Replies :
                /\ Heard(reply) /\ k \notin DOMAIN props
                /\ IF reply = "refused" THEN UNCHANGED schemaVars
                                        ELSE PostProperty(Infra(k))
                /\ IF reply = "answered"
                   THEN start' = [start EXCEPT !.known = @ \union {k}]
                   ELSE Down
    /\ UNCHANGED <<storeVars, calm>>

Unseeded == {c \in (DOMAIN Selects) \X Options :
                /\ c[1] \in DOMAIN props /\ c[2] \in Selects[c[1]]
                /\ tags[c[1]][c[2]] = 0}

\* _seed_select_options: options that are missing.
SeedOption ==
    /\ start.stage = "options"
    /\ IF Unseeded = {} THEN Goes(After.options) /\ UNCHANGED <<schemaVars, left>>
       ELSE LET c == CHOOSE x \in Unseeded : TRUE IN
          \E reply \in Replies :
             /\ Heard(reply)
             /\ IF reply = "refused" THEN UNCHANGED schemaVars
                                     ELSE PostTag(c[1], c[2])
             /\ IF reply = "answered" THEN UNCHANGED start ELSE Down
    /\ UNCHANGED <<storeVars, calm>>

-----------------------------------------------------------------------------
(* seed_activity_modes, and the load of the modes. *)

\* A space with any Activity Mode is left alone.
FindModes ==
    /\ start.stage = "modes"
    /\ Goes(IF modes = {} THEN "seed" ELSE "load")
    /\ UNCHANGED <<schemaVars, storeVars, calm, left>>

Kit == Append(SeedModes, Example)

\* The modes of the starter set one by one, the example last.
Seed ==
    /\ start.stage = "seed"
    /\ \E reply \in Replies :
          /\ Heard(reply)
          /\ modes' = IF reply = "refused" THEN modes
                      ELSE modes \union {Kit[start.at]}
          /\ IF reply # "answered" THEN Down
             ELSE IF start.at < Len(Kit)
             THEN start' = [start EXCEPT !.at = @ + 1]
             ELSE Goes("await")
    /\ UNCHANGED <<schemaVars, context, default, explained, calm>>

\* _await_searchable gives up in the end.
Await ==
    /\ start.stage = "await"
    /\ \/ Goes("link") /\ UNCHANGED left
       \/ Spend("net") /\ Down
    /\ UNCHANGED <<schemaVars, storeVars, calm>>

\* _link_default: without a Space Context, or with a link on it, no write.
ReadLink ==
    /\ start.stage = "link"
    /\ Goes(IF context = 0 \/ default # {} THEN "load" ELSE "relink")
    /\ UNCHANGED <<schemaVars, storeVars, calm, left>>

Link ==
    /\ start.stage = "relink"
    /\ \E reply \in Replies :
          /\ Heard(reply)
          /\ default' = IF reply = "refused" \/ context = 0 THEN default
                        ELSE {Head(SeedModes)}
          /\ Then(reply, "load")
    /\ UNCHANGED <<schemaVars, modes, context, explained, calm>>

\* load_registry: there are modes, and at most one Space Context, which links
\* at most one mode.
Loads ==
    /\ modes # {} /\ context <= 1
    /\ Cardinality(default) <= 1 /\ default \subseteq modes

\* The repository takes the schema over (hydrate) and the bot serves.
Load ==
    /\ start.stage = "load"
    /\ IF Loads THEN Goes("serving") ELSE Down
    /\ UNCHANGED <<schemaVars, storeVars, calm, left>>

\* The process is killed.
Killed ==
    /\ start.stage # "down" /\ Spend("crash") /\ Down
    /\ UNCHANGED <<schemaVars, storeVars, calm>>

PersonEditsModes ==
    \/ \E m \in OwnModes \ modes : modes' = modes \union {m}
                                   /\ UNCHANGED <<context, default>>
    \/ \E m \in modes : modes' = modes \ {m} /\ UNCHANGED <<context, default>>
    \/ /\ context > 0 /\ UNCHANGED <<modes, context>>
       /\ \E links \in SUBSET modes : links # default /\ default' = links
    \/ /\ ContextType \in DOMAIN types /\ context < 2
       /\ context' = context + 1 /\ UNCHANGED <<modes, default>>
    \/ /\ context > 0 /\ context' = context - 1
       /\ default' = {} /\ UNCHANGED modes

Person ==
    /\ Spend("person") /\ calm' = FALSE
    /\ \/ PersonEditsSchema /\ UNCHANGED <<start, storeVars>>
       \/ PersonEditsModes /\ UNCHANGED <<schemaVars, start, explained>>

Starting ==
    \/ List \/ Heal \/ CreateType \/ Explain \/ ReadType \/ Retrofit
    \/ CreateProperty \/ SeedOption \/ FindModes \/ Seed \/ Await
    \/ ReadLink \/ Link \/ Load
=============================================================================
