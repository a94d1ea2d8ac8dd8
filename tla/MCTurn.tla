-------------------------------- MODULE MCTurn --------------------------------
(* Small instances of Turn for TLC. *)
EXTENDS Turn

\* A mode that writes, with a budget of its own, and one that only reads and
\* whose replies are captured.
MCSpecs == <<[mutating |-> TRUE, capture |-> FALSE, limit |-> 0],
             [mutating |-> FALSE, capture |-> TRUE, limit |-> 1]>>

MCCallIds == {<<"a">>}
MCSearchIds == {<<"s">>}
Use(id, does) == [b |-> "tool_use", id |-> id, does |-> does]
Ends(content) == [stop |-> "end_turn", content |-> content]
Pauses(content) == [stop |-> "pause_turn", content |-> content]

\* A reply, a long one, none, a refusal; calls of each kind, with and without
\* text, and searches whose result comes, comes after a pause, or never does.
MCAnswers ==
    {<<Ends(<<TextBlock>>)>>,
     <<Ends(<<TextBlock, Block("thinking", None), TextBlock>>)>>,
     <<Pauses(<<Use(<<"a">>, "edit")>>), [stop |-> "refusal", content |-> <<>>]>>,
     <<Ends(<<Use(<<"a">>, "edit"), Use(None, "file")>>)>>,
     <<Pauses(<<Block("server_tool_use", <<"s">>)>>),
       Ends(<<Block("server_tool_result", <<"s">>), Use(<<"a">>, "edit"), TextBlock>>)>>,
     <<Ends(<<Block("server_tool_use", <<"s">>), Block("server_tool_result", <<"s">>),
              Use(None, "draft")>>)>>}

\* A history cut in the middle of a turn, with a reminder after it.
MCHistories == {<<Event("assistant", 2), User(1), Event("assistant", 1), Event("assistant", 1)>>}

\* One mode goes, all go, one cannot be read.
MCEdits == {[modes |-> {2}, sound |-> TRUE], [modes |-> {1, 2}, sound |-> FALSE],
            [modes |-> {}, sound |-> TRUE]}

MCTogether == {{"turn", "crash"}, {"turn", "seed"}, {"turn", "command"},
               {"command", "edit", "crash"}, {"edit", "turn"}}
\* The chats are alike, and every property is an invariant.
Chats == Permutations(Keys)

MCBudget == [e \in Events |-> CASE e = "turn" -> 2 [] OTHER -> 1]
=============================================================================
