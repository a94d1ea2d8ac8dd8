------------------------- MODULE MCScheduledEvents -------------------------
(* Small instances of ScheduledEvents: one budget of environment events a run. *)
EXTENDS ScheduledEvents, TLC

CONSTANTS Human, Turns, Crashes, Net

MCBudget == [human |-> Human, turn |-> Turns, crash |-> Crashes, net |-> Net]

MCTogether == {{"human", "turn", "net"}, {"human", "crash"},
               {"turn", "crash", "net"}}
=============================================================================
