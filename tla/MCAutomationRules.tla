-------------------------- MODULE MCAutomationRules --------------------------
(* Small instances of AutomationRules for TLC. *)
EXTENDS AutomationRules

Says(watch, when, action, prop, value) ==
    [target |-> "task", watch |-> watch, when |-> when, action |-> action,
     prop |-> prop, value |-> value]

MCConfig ==
    ("" :> [Says("", "", "", "", "") EXCEPT !.target = ""]) @@
    ("note it" :> Says("done", "to true", "set value", "note", "a")) @@
    ("tick it" :> Says("note", "changed", "set value", "done", "true")) @@
    ("only one" :> Says("done", "", "uncheck others", "", "")) @@
    ("by hand" :> Says("", "manual", "set value", "note", "b")) @@
    ("any edit" :> Says("modified", "changed", "set now", "note", "")) @@
    ("script" :> Says("done", "to true", "run script", "", "")) @@
    ("off" :> Says("done", "to false", "set value", "note", "")) @@
    ("wrong" :> Says("ghost", "changed", "set value", "note", "a"))

\* Pairs of rules that write what the other one watches, or that share a box,
\* or that run by hand, from a script, on any edit, or not at all.
MCStarts ==
    {[rules |-> <<"note it", "tick it">>, objects |-> {11}],
     [rules |-> <<"only one", "note it">>, objects |-> {11, 12}],
     [rules |-> <<"script", "">>, objects |-> {11, 12}],
     [rules |-> <<"by hand", "any edit">>, objects |-> {11}],
     [rules |-> <<"off">>, objects |-> {}]}
MCRewrites == {"wrong", "script"}

\* Nothing, two writes, and a write that is refused after one that is not.
MCEffects ==
    {<<>>, <<Write(11, "note", "a"), Write(12, "done", "true")>>,
     <<Write(11, "note", "a"), Write(1, "note", "a")>>}

MCWords == [done |-> {"", "true"}, note |-> {"b"}]

\* One event of each kind, and people act once more in between.
MCBudget == [k \in Events |-> 1]
MCTogether ==
    {{"person", "again"}, {"person", "net"}, {"person", "lost"},
     {"person", "command", "resync"}, {"person", "command", "net"},
     {"person", "tool", "net"}, {"tool", "command"},
     {"person", "turn"}, {"person", "crash"}}
=============================================================================
