--------------------------- MODULE MCNodeHistory ---------------------------
(* Small instances of NodeHistory: a document of one or two short blocks.  *)
EXTENDS NodeHistory, TLC

CONSTANTS Human, Turns, Patches, Splices, Saves, Marking, Noting, Resyncs, Crashes, Faults, Twins

\* "dawn came" and "dawn came" reflowed, edited to "dawn broke", with a
\* heading mark, and a block that has nothing to do with it.
MCTexts == {"dawn came", "dawn  came", "dawn broke", "# dawn came", "# end", "end"}
MCHashOf == [t \in MCTexts |->
    CASE t = "dawn broke" -> "broke" [] t \in {"end", "# end"} -> "end" [] OTHER -> "came"]
MCWordsOf == [t \in MCTexts |->
    CASE t = "dawn broke" -> <<"dawn", "broke">>
      [] t = "end" -> <<"end">> [] t = "# end" -> <<"#", "end">>
      [] t = "# dawn came" -> <<"#", "dawn", "came">>
      [] OTHER -> <<"dawn", "came">>]
MCResembles == {<<"came", "broke">>, <<"broke", "came">>}

Plain == {<<"dawn came">>, <<"dawn  came", "end">>, <<"dawn broke", "end">>}
Heading == {<<"dawn came">>, <<"# dawn came">>, <<"# end">>}

LockFirst == [what |-> "intent", value |-> "locked", range |-> {1}]
Unlock == [what |-> "intent", value |-> "flexible", range |-> {}]
Approve == [what |-> "status", value |-> "approved", range |-> {}]

MCBudget == [edit |-> Human, turn |-> Turns, patch |-> Patches, splice |-> Splices,
             save |-> Saves, mark |-> Marking, note |-> Noting, resync |-> Resyncs,
             crash |-> Crashes, fault |-> Faults, twin |-> Twins]
MCMarks == {LockFirst, Unlock, Approve}
OnlyLock == {LockFirst}
Anything == {Events}
TextEvents == {{"edit", "turn", "splice", "mark"}}
MCTogether == {{"edit", "turn", "patch", "mark", "crash"},
               {"edit", "turn", "patch", "save", "crash"},
               {"edit", "turn", "patch", "resync", "fault"},
               {"edit", "turn", "splice", "mark"}, {"edit", "turn", "splice", "resync"},
               {"edit", "save", "mark"}, {"edit", "mark", "fault"},
               {"edit", "turn", "note"}, {"edit", "note", "crash"},
               {"edit", "twin", "crash"}}
=============================================================================
