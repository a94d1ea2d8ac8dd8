-------------------------- MODULE MCSchemaConfirm --------------------------
(* Small instances of SchemaConfirm: one budget of environment events a run. *)
EXTENDS SchemaConfirm

CONSTANTS Seeds, Turns, Prompts, Notes, Reactions, Drops, Restarts, Net

MCBudget == [seed |-> Seeds, turn |-> Turns, sched |-> Prompts, note |-> Notes,
             react |-> Reactions, drop |-> Drops, crash |-> Restarts,
             net |-> Net]

\* Two turns never meet a load of the session by another task.
OneLoader == {{"turn", "sched", "react", "net"},
              {"turn", "sched", "react", "drop"},
              {"turn", "sched", "react", "crash"},
              {"seed", "turn", "note", "react", "drop"},
              {"seed", "turn", "react", "drop", "net"},
              {"sched", "note", "react", "drop", "crash"}}

Anything == {Events}
=============================================================================
