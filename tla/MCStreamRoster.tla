--------------------------- MODULE MCStreamRoster ---------------------------
(* Small instances of StreamRoster: one budget of environment events a run. *)
EXTENDS StreamRoster, TLC

CONSTANTS Human, NewChats, Sched, Confirms, Crashes, Net

MCBudget == [human |-> Human, chat |-> NewChats, sched |-> Sched,
             confirm |-> Confirms, crash |-> Crashes, net |-> Net]

\* At most three kinds of events in one behaviour.
MCTogether == {{"human", "chat"}, {"human", "crash"}, {"human", "sched"},
               {"human", "confirm"}, {"human", "net"},
               {"sched", "confirm", "crash"}, {"chat", "confirm", "net"}}
=============================================================================
