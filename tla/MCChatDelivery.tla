-------------------------- MODULE MCChatDelivery --------------------------
(* Small instances of ChatDelivery: one budget of environment events a run. *)
EXTENDS ChatDelivery, TLC

CONSTANTS Human, Sched, Crashes, Sleeps, Net, Disk, Odd

MCBudget == [human |-> Human, sched |-> Sched, crash |-> Crashes,
             sleep |-> Sleeps, net |-> Net, disk |-> Disk, odd |-> Odd]

\* Faults that meet in the same code, in one run: restarts over ledgers that
\* lag, restarts beside failing calls, and failing calls beside a reminder and
\* a hibernation.
MCTogether == {{"human", "crash", "disk"}, {"human", "crash", "net", "odd"},
               {"human", "net", "sched", "sleep"}}
=============================================================================
