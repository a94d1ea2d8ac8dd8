---------------------------- MODULE MCChatSurface ----------------------------
(* Small instances of ChatSurface: budgets, and what a driver may do. *)
EXTENDS ChatSurface

CONSTANTS Turns, Faults, Raising, Persons, Crashes

MCBudget == [turn |-> Turns, fault |-> Faults, raise |-> Raising,
             person |-> Persons, rescan |-> Persons, crash |-> Crashes]

\* Calls that fail with a turn that raises; people and crashes with a second
\* turn.
MCTogether == {{"turn", "fault", "raise"}, {"turn", "person", "rescan", "crash"}}

\* A decision that only searched, one that only called, both, and a reply.
MCDecisions == {[searches |-> 0, calls |-> 0], [searches |-> 0, calls |-> 2],
                [searches |-> 1, calls |-> 1], [searches |-> 1, calls |-> 0]}

\* A reply of no text, of two pieces, and one with a file and a proposal.
MCEndings == {<<>>, <<"piece", "piece">>, <<"piece", "file", "confirm">>}
=============================================================================
