--------------------------- MODULE AutomationRules ---------------------------
(***************************************************************************)
(* The automation rules of one space (application/rule_engine.py,          *)
(* domain/rules.py): rule objects that people and the model write, the     *)
(* baseline of watched values the engine keeps in memory, and the jobs     *)
(* that fire rules - the change tick and the /run command.                 *)
(*                                                                         *)
(* A job holds the turn lock of the space, so the other jobs and the tools *)
(* of a turn wait for it; people do not, and every write of a job is a     *)
(* step of its own.  A write sends all the fields the index holds of the   *)
(* object, and an empty field is not among them.                           *)
(***************************************************************************)
EXTENDS Integers, FiniteSetsExt, SequencesExt, Functions

CONSTANTS
    Rules,     \* the rule objects that may ever exist, in the order of names
    Objects,   \* the objects they watch, in the order of ids
    Config,    \* what the config fields of a rule may say, by a short name
    Starts,    \* the rules the space may start with, and the objects
    Rewrites,  \* the configs people and the tool write
    Effects,   \* the lists of writes a script may queue
    Words,     \* what people and turns type into a field of an object
    Budget,    \* how many events of each kind happen
    Together   \* the kinds that may happen in the same behaviour

Nodes == Rules \union Objects
Checkboxes == {"done"}
Properties == Checkboxes \union {"note"}
Conditions == {"to true", "to false", "changed", "manual"}
Actions == {"set now", "set value", "uncheck others", "run script"}
Events == {"person", "again", "turn", "tool", "command", "resync", "net",
           "lost", "crash"}

ASSUME ConstantsAssumption ==
    /\ Rules \subseteq Nat /\ IsFiniteSet(Rules)
    /\ Objects \subseteq Nat /\ IsFiniteSet(Objects)
    /\ Rules \intersect Objects = {}
    /\ \A start \in Starts : /\ start.objects \subseteq Objects
                             /\ DOMAIN start.rules \subseteq Rules
                             /\ Range(start.rules) \subseteq DOMAIN Config
    /\ Rewrites \union {""} \subseteq DOMAIN Config
    /\ Effects \subseteq Seq([node : Nat, field : STRING, value : STRING])
    /\ Budget \in [Events -> Nat] /\ Together \subseteq SUBSET Events

VARIABLES
    store,     \* the objects of the space, rules among them
    index,     \* what the bot believes of each
    baseline,  \* _snapshot: the watched values at the end of the last job
    scripts,   \* _scripts: the script of a rule, with the stamp it goes by
    job,       \* the job that holds the turn lock, with what it has read
    left,      \* events of each kind that may still happen
    moved,     \* history: watched values changed by others than the engine
    unheard,   \* history: values of a write of the engine with no answer
    asked,     \* history: how often people asked for a run of each rule
    ran,       \* history: how often such a request was taken up
    told       \* history: rules the tool has called paused

pastVars == <<moved, unheard, asked, ran, told>>
vars == <<store, index, baseline, scripts, job, left, pastVars>>

Spend(kind) ==
    /\ left[kind] > 0
    /\ \E kinds \in Together :
          {k \in Events : left[k] < Budget[k]} \union {kind} \subseteq kinds
    /\ left' = [left EXCEPT ![kind] = @ - 1]

\* People act, and may act again.
PersonMay == Spend("person") \/ (left["person"] = 0 /\ Spend("again"))

-----------------------------------------------------------------------------
(* What a rule says. *)

\* parse_rule_fields fills in what the exclusive action leaves open.
Completed(c) ==
    IF c.action = "uncheck others"
    THEN [c EXCEPT !.when = "to true",
                   !.prop = IF @ = "" THEN c.watch ELSE @]
    ELSE c

Parses(c) ==
    /\ c.target # "" /\ c.action \in Actions
    /\ c.action = "uncheck others" => c.when \in {"", "to true"}
    /\ Completed(c).when \in Conditions
    /\ Completed(c).when # "manual" => c.watch # ""
    /\ c.action # "run script" => Completed(c).prop # ""
    /\ c.action = "set value" => c.value # ""

\* _bind: the properties exist, and the built-in stamp is only watched.
Binds(c) ==
    /\ \/ c.watch \in Properties \union {""}
       \/ c.watch = "modified" /\ c.when = "changed"
    /\ c.action # "run script" => c.prop \in Properties
    /\ c.action = "uncheck others" => {c.watch, c.prop} \subseteq Checkboxes
    /\ c.action = "set value" /\ c.prop \in Checkboxes
          => c.value \in {"true", "false"}

IsUnconfigured(c) == c.target = "" /\ c.watch = ""
IsPaused(status) == status = "Paused"
Valid(name) ==
    LET c == Config[name] IN Parses(c) /\ Binds(Completed(c))
Rule(name) == Completed(Config[name])
Watches(c) == c.watch # ""

\* condition_met: no transition satisfies "manual".
ConditionMet(when, before, after) ==
    \/ when = "to true" /\ after = "true" /\ before # "true"
    \/ when = "to false" /\ before = "true" /\ after # "true"
    \/ when = "changed" /\ before # after

-----------------------------------------------------------------------------
(* Objects, and the writes of the bot. *)

RuleFields == {"config", "status", "run", "error"}
NoRule == [f \in RuleFields |-> ""]
NoFields == [p \in Properties |-> ""]
NoScript == [fence |-> FALSE, since |-> 0]
Absent(n) == [live |-> FALSE, stamp |-> 0, body |-> NoScript,
              fields |-> IF n \in Rules THEN NoRule ELSE NoFields]
\* A rule object as it is first saved, with a script if its action is one.
Saved(name, status) ==
    [live |-> TRUE, stamp |-> 1,
     body |-> [fence |-> Rule(name).action = "run script", since |-> 1],
     fields |-> [NoRule EXCEPT !["config"] = name, !["status"] = status]]
NoChanges == [f \in {} |-> ""]

\* An unticked box is absent, like any empty value.
Stored(f, value) == IF f \in Checkboxes /\ value = "false" THEN "" ELSE value

\* The full merged map: the fields the index holds go with the changed ones.
Merged(copy, now, changes) ==
    [f \in DOMAIN now |->
        IF f \in DOMAIN changes THEN Stored(f, changes[f])
        ELSE IF copy[f] # "" THEN copy[f] ELSE now[f]]

Written(n, changes) ==
    [store[n] EXCEPT !.fields = Merged(index[n].fields, @, changes),
                     !.stamp = @ + 1]

\* update_node: the server takes the write, and its answer goes to the index.
Answered(n, changes) ==
    /\ store' = [store EXCEPT ![n] = Written(n, changes)]
    /\ index' = [index EXCEPT ![n] = store'[n]]
    /\ UNCHANGED left

\* It is refused, or it lands and the answer is lost: the caller sees an error.
Unanswered(n, changes) ==
    /\ \/ Spend("net") /\ UNCHANGED store
       \/ Spend("lost") /\ store' = [store EXCEPT ![n] = Written(n, changes)]
    /\ UNCHANGED index

Pairs == Objects \X (Properties \union {"modified"})
Value(copy, p) ==
    IF p[2] = "modified" THEN copy[p[1]].stamp ELSE copy[p[1]].fields[p[2]]

\* History: what the step changes, as a rule could watch it.
Differing == {p \in Pairs : Value(store', p) # Value(store, p)}
ByOthers == moved' = moved \union Differing /\ UNCHANGED unheard
ByEngine ==
    /\ unheard' = IF index' = index THEN unheard \union Differing ELSE unheard
    /\ UNCHANGED moved

-----------------------------------------------------------------------------
(* People, and the other calls of the bot. *)

Idle == job.kind = "none"
NoJob == [kind |-> "none", stage |-> "idle", ask |-> 0, on |-> 0,
          seen |-> NoChanges,
          bound |-> {}, broken |-> {}, queue |-> {}, why |-> "",
          requested |-> <<>>, plans |-> <<>>, writes |-> <<>>,
          fired |-> {}, failed |-> {}]

Init ==
    /\ \E start \in Starts :
          store = [n \in Nodes |->
              IF n \in start.objects
              THEN [Absent(n) EXCEPT !.live = TRUE, !.stamp = 1]
              ELSE IF n \in DOMAIN start.rules
              THEN Saved(start.rules[n], "")
              ELSE Absent(n)]
    /\ index = store
    /\ baseline = NoChanges /\ scripts = NoChanges
    /\ job = NoJob /\ left = Budget
    /\ moved = {} /\ unheard = {} /\ told = {}
    /\ asked = [r \in Rules |-> 0] /\ ran = [r \in Rules |-> 0]

engineVars == <<index, baseline, scripts, job>>

PersonSets(n, f, value) ==
    /\ store[n].live /\ store[n].fields[f] # value /\ PersonMay
    /\ store' = [store EXCEPT ![n].fields[f] = value, ![n].stamp = @ + 1]
    /\ asked' = IF f = "run" /\ value = "true"
                THEN [asked EXCEPT ![n] = @ + 1] ELSE asked
    /\ told' = IF f = "status" THEN told \ {n} ELSE told
    /\ ByOthers
    /\ UNCHANGED <<engineVars, ran>>

\* The script of a rule is the first code fence in its body, if there is one;
\* the bodies of other rules are never read.
PersonWritesScript(r) ==
    /\ store[r].live /\ PersonMay
    /\ Rule(store[r].fields["config"]).action = "run script"
    /\ \E fence \in BOOLEAN :
          store' = [store EXCEPT
              ![r].body = [fence |-> fence, since |-> store[r].stamp + 1],
              ![r].stamp = @ + 1]
    /\ UNCHANGED <<engineVars, pastVars>>

PersonCreates(o) ==
    /\ ~store[o].live /\ PersonMay
    /\ \E value \in {"", "true"} :
          store' = [store EXCEPT ![o] =
              [@ EXCEPT !.live = TRUE, !.stamp = 1, !.fields["done"] = value]]
    /\ UNCHANGED <<engineVars, pastVars>>

\* A resync outside the change tick (_watch_graph, the context tool).
Resync ==
    /\ Idle /\ Spend("resync") /\ index' = store
    /\ UNCHANGED <<store, baseline, scripts, job, pastVars>>

\* A turn of the bot writes a property of an object.
TurnWrites(o, f, value) ==
    /\ Idle /\ index[o].live /\ index[o].fields[f] # value
    /\ Spend("turn")
    /\ store' = [store EXCEPT ![o] = Written(o, [g \in {f} |-> value])]
    /\ index' = [index EXCEPT ![o] = store'[o]]
    /\ ByOthers
    /\ UNCHANGED <<baseline, scripts, job, asked, ran, told>>

\* A dry run of a saved rule, which only reads its script.
Testing(r) == [NoJob EXCEPT !.kind = "test", !.stage = "test", !.ask = r]
\* _script_auto_test: a script that was just saved is run dry at once.
AutoTest(r, name) ==
    IF Rule(name).action = "run script" THEN Testing(r) ELSE NoJob

\* create: the config is validated before anything is written.
Create(r, name) ==
    /\ Idle /\ ~store[r].live /\ Valid(name) /\ Spend("tool")
    /\ store' = [store EXCEPT ![r] = Saved(name, "Active")]
    /\ index' = [index EXCEPT ![r] = store'[r]]
    /\ job' = AutoTest(r, name)
    /\ UNCHANGED <<baseline, scripts, pastVars>>

\* update: the same, and a new script drops the cached one.
Update(r, name) ==
    /\ Idle /\ index[r].live /\ Valid(name) /\ Spend("tool")
    /\ LET now == Written(r, [f \in {"config"} |-> name])
           script == Rule(name).action = "run script" IN
       /\ store' = [store EXCEPT ![r] =
             IF script THEN [now EXCEPT !.body = [fence |-> TRUE,
                                                  since |-> now.stamp]]
             ELSE now]
       /\ scripts' = IF script THEN Restrict(scripts, DOMAIN scripts \ {r})
                               ELSE scripts
    /\ index' = [index EXCEPT ![r] = store'[r]]
    /\ job' = AutoTest(r, name)
    /\ UNCHANGED <<baseline, pastVars>>

\* test: the tool runs a saved rule dry, paused or not.
Test(r) ==
    /\ Idle /\ index[r].live /\ Valid(index[r].fields["config"])
    /\ Spend("tool")
    /\ job' = AutoTest(r, index[r].fields["config"])
    /\ UNCHANGED <<store, index, baseline, scripts, pastVars>>

\* set_paused: an error of the write is logged, and the tool answers as if it
\* had landed.
SetPaused(r, paused) ==
    LET changes == IF paused THEN [f \in {"status"} |-> "Paused"]
                   ELSE [f \in {"status", "error"} |->
                            IF f = "status" THEN "Active" ELSE ""] IN
    /\ Idle /\ index[r].live /\ left["tool"] > 0
    /\ \/ /\ Spend("tool")
          /\ store' = [store EXCEPT ![r] = Written(r, changes)]
          /\ index' = [index EXCEPT ![r] = store'[r]]
       \/ Unanswered(r, changes)
    /\ told' = IF paused THEN told \union {r} ELSE told \ {r}
    /\ UNCHANGED <<baseline, scripts, job, moved, unheard, asked, ran>>

\* The process is killed and started again: the baseline is gone.
Restart ==
    /\ Spend("crash")
    /\ index' = store /\ baseline' = NoChanges /\ scripts' = NoChanges
    /\ job' = NoJob
    /\ moved' = {} /\ unheard' = {}
    /\ UNCHANGED <<store, asked, ran, told>>

-----------------------------------------------------------------------------
(* A job begins: the rules are loaded from the index. *)

Live == {o \in Objects : index[o].live}
\* _load_rules: what binds, what does not, and the scripts to attach.  The
\* fields are those of the moment, whatever the job writes later.
Loaded(kind, ask, on, view) ==
    LET scanned == {r \in Rules :
            /\ view[r].live /\ ~IsPaused(view[r].fields["status"])
            /\ ~IsUnconfigured(Config[view[r].fields["config"]])}
        bound == {r \in scanned : Valid(view[r].fields["config"])} IN
    [NoJob EXCEPT
        !.kind = kind, !.ask = ask, !.on = on, !.stage = "attach",
        !.seen = [r \in Rules |-> view[r]],
        !.bound = bound, !.broken = scanned \ bound,
        !.queue = {r \in bound :
            Rule(view[r].fields["config"]).action = "run script"}]

\* The change tick resyncs first; where that fails there is no tick.
StartTick ==
    /\ Idle
    /\ index' = store /\ job' = Loaded("tick", 0, 0, store)
    /\ UNCHANGED <<store, baseline, scripts, left, pastVars>>

\* /run <rule> on <object>: the index is resynced first, and where that fails
\* it is good enough as it is; a paused rule is refused.
StartRun(r, on) ==
    /\ Idle /\ left["command"] > 0
    /\ \/ Spend("command") /\ index' = store
       \/ /\ left["net"] > 0 /\ UNCHANGED index
          /\ \E kinds \in Together :
                {k \in Events : left[k] < Budget[k]} \union {"command", "net"}
                   \subseteq kinds
          /\ left' = [left EXCEPT !["command"] = @ - 1, !["net"] = @ - 1]
    /\ index'[r].live
    /\ job' = IF IsPaused(index'[r].fields["status"]) THEN NoJob
              ELSE Loaded("run", r, on, index')
    /\ UNCHANGED <<store, baseline, scripts, pastVars>>

\* Mutant of Cached: a script once read stays.
CachedForever(r) == r \in DOMAIN scripts

Cached(r) == r \in DOMAIN scripts /\ scripts[r].stamp = index[r].stamp

\* _script_for: the body is read unless the cached script is of this stamp;
\* the job goes on by whether there is a script.
ReadScript(r, found, missing) ==
    \/ Cached(r) /\ job' = found /\ UNCHANGED <<scripts, left>>
    \/ /\ ~Cached(r) /\ store[r].body.fence
       /\ scripts' = [q \in DOMAIN scripts \union {r} |->
             IF q = r THEN [stamp |-> index[r].stamp,
                            since |-> store[r].body.since]
             ELSE scripts[q]]
       /\ job' = found /\ UNCHANGED left
    \/ /\ ~Cached(r) /\ ~store[r].body.fence
       /\ scripts' = Restrict(scripts, DOMAIN scripts \ {r})
       /\ job' = missing /\ UNCHANGED left
    \/ ~Cached(r) /\ Spend("net") /\ job' = missing /\ UNCHANGED scripts

\* dry_run: the script is cached like that of a real run.
DryRun ==
    /\ job.stage = "test" /\ ReadScript(job.ask, NoJob, NoJob)
    /\ UNCHANGED <<store, index, baseline, pastVars>>

\* _attach_scripts: a rule without a script is broken.
Attach ==
    LET r == Min(job.queue)
        attached == [job EXCEPT !.queue = @ \ {r}]
        demoted == [attached EXCEPT !.bound = @ \ {r},
                                    !.broken = @ \union {r}] IN
    /\ job.stage = "attach" /\ job.queue # {}
    /\ ReadScript(r, attached, demoted)
    /\ UNCHANGED <<store, index, baseline, pastVars>>

Said(r, f) == job.seen[r].fields[f]
RuleOf(r) == Rule(Said(r, "config"))
Fire(r, o, auto) == [rule |-> r, obj |-> o, auto |-> auto]

\* _resolve_trigger: the object that was named, or the first one.
Triggers ==
    IF job.on \in Objects THEN Live \intersect {job.on}
    ELSE {o \in Live : \A p \in Live : o <= p}

\* Scripts of rules that run none any more are forgotten.  A tick goes on to
\* the requests people have ticked; a run without its rule, or without an
\* object to run on, ends in an error.
Attached ==
    LET ask == job.ask IN
    /\ job.stage = "attach" /\ job.queue = {}
    /\ scripts' = Restrict(scripts, {r \in DOMAIN scripts :
          /\ r \in job.bound \union job.broken
          /\ Valid(Said(r, "config"))
          /\ RuleOf(r).action = "run script"})
    /\ job' = IF job.kind = "tick"
              THEN [job EXCEPT !.stage = "claim",
                      !.queue = {r \in Rules : Said(r, "run") = "true"}]
              ELSE IF ask \in job.bound /\ Triggers # {}
              THEN [job EXCEPT !.stage = "act",
                      !.plans = <<Fire(ask, Max(Triggers), FALSE)>>]
              ELSE NoJob
    /\ UNCHANGED <<store, index, baseline, left, pastVars>>

-----------------------------------------------------------------------------
(* Requests: boxes that people have ticked on a rule. *)

\* Mutant of Untick: the box stays.
UntickForgotten == NoChanges

Untick == [f \in {"run"} |-> ""]

\* _release_request: the box is unticked before the rule runs; where that
\* fails the rule does not run.
Claim ==
    LET r == Min(job.queue)
        paused == IsPaused(Said(r, "status"))
        runs == ~paused /\ r \in job.bound /\ Live # {} IN
    /\ job.stage = "claim" /\ job.queue # {}
    /\ \/ /\ Answered(r, Untick)
          /\ job' = IF runs
                THEN [job EXCEPT !.queue = @ \ {r},
                        !.requested = Append(@, Fire(r, Min(Live), FALSE))]
                ELSE [job EXCEPT !.stage = "refuse",
                        !.why = IF paused THEN "paused" ELSE "broken"]
          /\ ran' = IF runs THEN [ran EXCEPT ![r] = @ + 1] ELSE ran
       \/ /\ Unanswered(r, Untick)
          /\ job' = [job EXCEPT !.queue = @ \ {r}]
          /\ UNCHANGED ran
    /\ ByEngine
    /\ UNCHANGED <<baseline, scripts, asked, told>>

\* _refuse: the status of a paused rule is left alone.
Refusal(r) ==
    IF job.why # "paused" /\ Said(r, "status") # "Error"
    THEN [f \in {"error", "status"} |->
             IF f = "error" THEN "refused" ELSE "Error"]
    ELSE [f \in {"error"} |-> "refused"]

Refuse ==
    LET r == Min(job.queue) IN
    /\ job.stage = "refuse"
    /\ Answered(r, Refusal(r)) \/ Unanswered(r, Refusal(r))
    /\ job' = [job EXCEPT !.stage = "claim", !.queue = @ \ {r}]
    /\ ByEngine
    /\ UNCHANGED <<baseline, scripts, asked, ran, told>>

-----------------------------------------------------------------------------
(* Transitions. *)

\* The watched value was seen before, and has made the transition since.
Flipped(r, o) ==
    LET p == <<o, RuleOf(r).watch>> IN
    /\ p \in DOMAIN baseline
    /\ ConditionMet(RuleOf(r).when, baseline[p], Value(index, p))

Matches(r) == {o \in Live : Flipped(r, o)}

\* Of several flips of an exclusive box the last object wins.
Chosen(r) ==
    IF RuleOf(r).action = "uncheck others" /\ Matches(r) # {}
    THEN {Max(Matches(r))} ELSE Matches(r)

Before(a, b) ==
    \/ a.rule < b.rule
    \/ a.rule = b.rule /\ a.obj < b.obj

Transitions ==
    UNION {{Fire(r, o, TRUE) : o \in Chosen(r)} :
              r \in {q \in job.bound : Watches(RuleOf(q))}}

\* The one order they fire in.
Fires ==
    {s \in [1..Cardinality(Transitions) -> Transitions] :
        \A i, j \in DOMAIN s : i < j => Before(s[i], s[j])}

Plan ==
    /\ job.stage = "claim" /\ job.queue = {}
    /\ \E fires \in Fires :
          job' = [job EXCEPT !.stage = "act", !.plans = fires \o job.requested]
    /\ UNCHANGED <<store, index, baseline, scripts, left, pastVars>>

-----------------------------------------------------------------------------
(* Actions. *)

Write(n, f, value) == [node |-> n, field |-> f, value |-> value]

\* The boxes that are ticked when the action begins.
Siblings(r, o) ==
    {s \in Live \ {o} : index[s].fields[RuleOf(r).prop] = "true"}

\* The list of the members of S in the order of ids.
InOrder(S) ==
    {s \in [1..Cardinality(S) -> S] : \A i, j \in DOMAIN s : i < j => s[i] < s[j]}

\* _validated_effects: known objects that are no rules, known properties,
\* values of their formats.
ValidEffect(w) ==
    /\ w.node \in Live /\ w.field \in Properties
    /\ w.field \in Checkboxes => w.value \in {"true", "false"}

\* The writes of an action; a script queues what it likes.
WritesOf(fire) ==
    LET c == RuleOf(fire.rule) IN
    CASE c.action = "run script" -> Effects
      [] c.action = "set now" -> {<<Write(fire.obj, c.prop, "now")>>}
      [] c.action = "set value" -> {<<Write(fire.obj, c.prop, c.value)>>}
      [] OTHER ->
            {[i \in DOMAIN others |-> Write(others[i], c.prop, "false")] :
                others \in InOrder(Siblings(fire.rule, fire.obj))}

\* The action of the first plan is over.
Done(j, ok) ==
    LET r == Head(j.plans).rule IN
    [j EXCEPT !.stage = "act", !.plans = Tail(@), !.writes = <<>>,
              !.fired = IF ok THEN @ \union {r} ELSE @,
              !.failed = IF ok THEN @ ELSE @ \union {r}]

\* All effects are validated before any is written.
Act ==
    /\ job.stage = "act" /\ job.plans # <<>>
    /\ \E writes \in WritesOf(Head(job.plans)) :
          job' = IF ~\A i \in DOMAIN writes : ValidEffect(writes[i])
                 THEN Done(job, FALSE)
                 ELSE IF writes = <<>> THEN Done(job, TRUE)
                 ELSE [job EXCEPT !.stage = "write", !.writes = writes]
    /\ UNCHANGED <<store, index, baseline, scripts, left, pastVars>>

\* _write_field; after a write that failed the rest is not attempted, and
\* what was written stays.
WriteField ==
    LET w == Head(job.writes)
        changes == [f \in {w.field} |-> w.value] IN
    /\ job.stage = "write"
    /\ \/ /\ Answered(w.node, changes)
          /\ LET went == [job EXCEPT !.writes = Tail(@)] IN
             job' = IF went.writes = <<>> THEN Done(went, TRUE) ELSE went
       \/ Unanswered(w.node, changes) /\ job' = Done(job, FALSE)
    /\ ByEngine
    /\ UNCHANGED <<baseline, scripts, asked, ran, told>>

-----------------------------------------------------------------------------
(* Bookkeeping, and the next baseline. *)

\* Mutant of Healed: the status of a rule that works again is left.
NeverHealed(r) == FALSE

\* The config of a rule in error parses again.
Healed(r) == r \in job.bound /\ Said(r, "status") = "Error"

\* The fields to settle, by what the job saw of the rule when it began.
Settled(r) ==
    IF r \in job.broken
    THEN [f \in {g \in {"status", "error"} :
                    Said(r, g) # (IF g = "status" THEN "Error" ELSE "broken")}
            |-> IF f = "status" THEN "Error" ELSE "broken"]
    ELSE LET failed == r \in job.failed /\ Said(r, "error") # "failed"
             clears == r \in job.fired \ job.failed /\ Said(r, "error") # "" IN
         [f \in {g \in {"status", "error"} :
                    Healed(r) \/ (g = "error" /\ (failed \/ clears))}
            |-> IF f = "status" THEN "Active"
                ELSE IF failed THEN "failed" ELSE ""]

\* Rules with something to write: a fire is stamped in any case.
ToBook ==
    {r \in IF job.kind = "run" THEN {job.ask}
           ELSE job.bound \union job.broken :
       \/ Settled(r) # NoChanges
       \/ r \in (job.fired \ job.failed) \ job.broken}

Acted ==
    /\ job.stage = "act" /\ job.plans = <<>> /\ ToBook # {}
    /\ job' = [job EXCEPT !.stage = "book", !.queue = ToBook]
    /\ UNCHANGED <<store, index, baseline, scripts, left, pastVars>>

\* _write_rule_fields: an error is logged; broken rules come first.
Book ==
    LET broken == job.queue \intersect job.broken
        r == Min(IF broken # {} THEN broken ELSE job.queue) IN
    /\ job.stage = "book" /\ job.queue # {}
    /\ Answered(r, Settled(r)) \/ Unanswered(r, Settled(r))
    /\ job' = [job EXCEPT !.queue = @ \ {r}]
    /\ ByEngine
    /\ UNCHANGED <<baseline, scripts, asked, ran, told>>

Watched ==
    {<<o, RuleOf(r).watch>> :
        o \in Live, r \in {q \in job.bound : Watches(RuleOf(q))}}

\* Mutant of Rebaselined: the values the job began with stay.
OldValues == [p \in Watched |->
    IF p \in DOMAIN baseline THEN baseline[p] ELSE Value(index, p)]

\* _rebaseline, over every bound rule and from the index as it is now.
Rebaselined == [p \in Watched |-> Value(index, p)]

Rebaseline ==
    /\ \/ job.stage = "book" /\ job.queue = {}
       \/ job.stage = "act" /\ job.plans = <<>> /\ ToBook = {}
    /\ baseline' = Rebaselined
    /\ job' = NoJob
    /\ moved' = {p \in moved : Value(store, p) # Value(index, p)}
    /\ unheard' = {p \in unheard : Value(store, p) # Value(index, p)}
    /\ UNCHANGED <<store, index, scripts, left, asked, ran, told>>

-----------------------------------------------------------------------------

StatusOf(r) == store[r].fields["status"]

Step ==
    \/ StartTick \/ DryRun \/ Attach \/ Attached \/ Claim \/ Refuse \/ Plan \/ Act
    \/ WriteField \/ Acted \/ Book \/ Rebaseline

People ==
    \/ \E o \in Objects : \/ PersonCreates(o)
                          \/ \E f \in Properties : \E v \in Words[f] :
                                PersonSets(o, f, v)
    \/ \E r \in Rules :
          \/ PersonWritesScript(r)
          \/ PersonSets(r, "run", "true")
          \/ PersonSets(r, "status",
                IF IsPaused(StatusOf(r)) THEN "Active" ELSE "Paused")
          \/ \E name \in Rewrites : PersonSets(r, "config", name)

\* _run_rule: a command that names no rule, or no object, only answers.
Command == \E r \in Rules, on \in {0} \union Objects : StartRun(r, on)

Turns ==
    \/ Command
    \/ \E o \in Objects : \E f \in Properties : \E v \in Words[f] :
          TurnWrites(o, f, v)
    \/ \E r \in Rules :
          \/ Test(r) \/ SetPaused(r, TRUE) \/ SetPaused(r, FALSE)
          \/ \E name \in Rewrites : Create(r, name) \/ Update(r, name)

Next == Step \/ People \/ Turns \/ Resync \/ Restart

\* The change tick sleeps and runs again for as long as the bot lives.
Spec == Init /\ [][Next]_vars /\ WF_vars(Step)

-----------------------------------------------------------------------------
(* Properties. *)

TypeOK ==
    /\ DOMAIN store = Nodes /\ DOMAIN index = Nodes
    /\ \A n \in Nodes : index[n].stamp <= store[n].stamp
    /\ DOMAIN baseline \subseteq Pairs
    /\ DOMAIN scripts \subseteq Rules
    /\ job.kind \in {"none", "tick", "run", "test"}
    /\ job.bound \intersect job.broken = {}
    /\ moved \subseteq Pairs /\ told \subseteq Rules

\* What the tick is about to fire because a value has changed.
Planned == {<<f.obj, RuleOf(f.rule).watch>> : f \in Transitions}

\* Rules never trigger rules (ADR 039): a tick fires only on what people or a
\* turn have changed since the last baseline, or on a write of the engine
\* itself whose answer it never got.
CascadesUnheard == [][Plan => Planned \subseteq moved \union unheard]_vars

\* A request is taken up at most once, whatever fails: the box is unticked
\* before the rule runs (ADR 058).
ClaimedOnce == \A r \in Rules : ran[r] <= asked[r]

\* A script that runs is the one its rule had when the job began, or a later
\* one: the cache never outlives an edit the bot has seen.
ScriptFresh ==
    [][Act => LET r == Head(job.plans).rule IN
         RuleOf(r).action = "run script" =>
            \/ scripts[r].since = store[r].body.since
            \/ job.seen[r].stamp < store[r].body.since]_vars

\* Every request is taken up or refused in the end, and every rule ends up with
\* the status its config deserves, whatever failed on the way.
RulesSettle ==
    <>[](\A r \in Rules :
            LET name == store[r].fields["config"] IN
            /\ store[r].fields["run"] = ""
            /\ /\ store[r].live /\ ~IsPaused(StatusOf(r))
               /\ ~IsUnconfigured(Config[name])
               => (StatusOf(r) = "Error" <=>
                      \/ ~Valid(name)
                      \/ /\ Rule(name).action = "run script"
                         /\ ~store[r].body.fence))

\* A rule the tool has called paused does not fire until it is resumed.
PausedDoesNotFire ==
    [][Plan => \A i \in DOMAIN job'.plans : job'.plans[i].rule \notin told]_vars
=============================================================================
