----------------------------- MODULE SpaceSchema -----------------------------
(***************************************************************************)
(* The schema of one Anytype space as the server keeps it: the properties, *)
(* the types that carry them and the options of the selects, with the      *)
(* requests that change them and the people who edit them meanwhile.  The  *)
(* server is the one the repository's mock documents                       *)
(* (infrastructure/anytype/mock_server.py, quirks A11, A12 and A14).       *)
(***************************************************************************)
EXTENDS Integers, FiniteSetsExt, SequencesExt, Functions

CONSTANTS
    Types,      \* the types that may exist
    Keys,       \* the keys of properties that may exist
    Names,      \* what people and the model call properties
    Slug,       \* the key the bot gives to a property it names
    Formats,    \* the formats in play, "select" and "objects" among them
    Options,    \* the options a select may have
    Spaces,     \* the spaces the server may hold at first
    Budget,     \* how many events of each kind happen
    Together    \* the kinds that may happen in the same behaviour

ASSUME SchemaAssumption ==
    /\ {"select", "objects"} \subseteq Formats
    /\ Slug \in [Names -> Keys]
    /\ \A s \in Spaces :
          /\ DOMAIN s.props \subseteq Keys /\ DOMAIN s.types \subseteq Types
          /\ \A t \in DOMAIN s.types : s.types[t] \subseteq DOMAIN s.props
    /\ Budget \in [{"person", "call", "resync", "net", "crash"} -> Nat]
    /\ Together \subseteq SUBSET DOMAIN Budget

VARIABLES
    props,     \* the properties: key -> name, format, id
    types,     \* the types: type -> the keys of its properties
    tags,      \* the options of each select, and how many bear each name
    deleted,   \* how often a property of each key was deleted
    left       \* events of each kind that may still happen

schemaVars == <<props, types, tags, deleted>>

Spend(kind) ==
    /\ left[kind] > 0
    /\ \E kinds \in Together :
          {k \in DOMAIN Budget : left[k] < Budget[k]} \union {kind}
             \subseteq kinds
    /\ left' = [left EXCEPT ![kind] = @ - 1]

SchemaInit(spaces) ==
    /\ \E space \in spaces :
          /\ types = space.types
          /\ props = [k \in DOMAIN space.props |->
                [name |-> space.props[k].name,
                 format |-> space.props[k].format, id |-> 1]]
    /\ tags = [k \in Keys |-> [o \in Options |-> 0]]
    /\ deleted = [k \in Keys |-> 0]
    /\ left = Budget

-----------------------------------------------------------------------------
(* The requests.  An entry names a property by its key, and by its id too    *)
(* where it has one; 0 stands for none.                                      *)

Entry(key, name, format, id) ==
    [key |-> key, name |-> name, format |-> format, id |-> id]
KeysOf(entries) == {e.key : e \in entries}
EntriesOf(keys) ==
    {Entry(k, props[k].name, props[k].format, props[k].id) : k \in keys}

\* A relation of the space that the type lacks is refused without its id (A11).
ReuseConflict(entries, carried) ==
    \E e \in entries :
        /\ e.key \in DOMAIN props \ carried
        /\ props[e.key].format = "objects"
        /\ e.id # props[e.key].id

\* Keys the space lacks become properties of it; the others stay (A12).
Minted(entries) ==
    [k \in DOMAIN props \union KeysOf(entries) |->
        IF k \in DOMAIN props THEN props[k]
        ELSE LET e == CHOOSE x \in entries : x.key = k IN
             [name |-> e.name, format |-> e.format, id |-> deleted[k] + 1]]

\* POST and PATCH of a type: the list it gets is the list it has (A11).
PutType(t, entries) ==
    /\ props' = Minted(entries)
    /\ types' = [u \in DOMAIN types \union {t} |->
                    IF u = t THEN KeysOf(entries) ELSE types[u]]
    /\ UNCHANGED <<tags, deleted>>

\* POST of a property, whose key must be free (A14).
PostProperty(entry) ==
    /\ entry.key \notin DOMAIN props
    /\ props' = Minted({entry})
    /\ UNCHANGED <<types, tags, deleted>>

\* Deleting takes the property off its types and frees its key.
DeleteProperty(k) ==
    /\ props' = Restrict(props, DOMAIN props \ {k})
    /\ types' = [t \in DOMAIN types |-> types[t] \ {k}]
    /\ tags' = [tags EXCEPT ![k] = [o \in Options |-> 0]]
    /\ deleted' = [deleted EXCEPT ![k] = @ + 1]

\* An option gets an id of its own whatever its name: twins are possible.
PostTag(k, o) ==
    /\ tags' = [tags EXCEPT ![k][o] = @ + 1]
    /\ UNCHANGED <<props, types, deleted>>

\* What the bot hears of a request it makes: a refused one is not carried out,
\* one whose answer is lost is.
Replies == {"answered", "refused", "lost"}
Heard(reply) == IF reply = "answered" THEN UNCHANGED left ELSE Spend("net")

-----------------------------------------------------------------------------
(* People, in the Anytype UI: the keys of their properties are arbitrary. *)

PersonAdds(t, k, n, f) ==
    /\ t \in DOMAIN types /\ k \notin DOMAIN props \union Range(Slug)
    /\ props' = Minted({Entry(k, n, f, 0)})
    /\ types' = [types EXCEPT ![t] = @ \union {k}]
    /\ UNCHANGED <<tags, deleted>>

PersonAttaches(t, k) ==
    /\ t \in DOMAIN types /\ k \in DOMAIN props \ types[t]
    /\ types' = [types EXCEPT ![t] = @ \union {k}]
    /\ UNCHANGED <<props, tags, deleted>>

PersonDetaches(t, k) ==
    /\ t \in DOMAIN types /\ k \in types[t]
    /\ types' = [types EXCEPT ![t] = @ \ {k}]
    /\ UNCHANGED <<props, tags, deleted>>

PersonDeletes(k) == k \in DOMAIN props /\ DeleteProperty(k)

PersonEditsSchema ==
    \/ \E t \in Types, k \in Keys, n \in Names, f \in Formats :
          PersonAdds(t, k, n, f)
    \/ \E t \in Types, k \in Keys : PersonAttaches(t, k) \/ PersonDetaches(t, k)
    \/ \E k \in Keys : PersonDeletes(k)
=============================================================================
