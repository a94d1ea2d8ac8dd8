---------------------------- MODULE MCGraphStore ----------------------------
(* Small instances of GraphStore: one budget of calls and events a run. *)
EXTENDS GraphStore, TLC

CONSTANTS Writes, Resyncs, Persons, Net, Restarts

MCBudget == [write |-> Writes, resync |-> Resyncs, person |-> Persons,
             net |-> Net, crash |-> Restarts]

Anything == {Events}

\* The callers, and the objects the space starts with, are interchangeable; the
\* runs that use this check no liveness.
Interchangeable == Permutations(Tasks) \union Permutations(Existing)
=============================================================================
