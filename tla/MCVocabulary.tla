---------------------------- MODULE MCVocabulary ----------------------------
(* A space with a Mode type, an Intent type and the Space Context, and a      *)
(* native type; small vocabularies.                                           *)
EXTENDS InMemoryVocabulary, TLC

Prop(name, format) == [name |-> name, format |-> format]

MCInfraTypes == <<"mode", "context">>
MCInline == [mode |-> {"detail"}, context |-> {"link"}]
MCFormatOf == [detail |-> "select", link |-> "objects"]
MCSelects == [detail |-> {"minimal"}]
MCSeedModes == <<"capture">>
MCSlug == [knows |-> "knows", done |-> "done"]
MCBudget == [person |-> 1, call |-> 2, resync |-> 1, net |-> 1, crash |-> 1]
MCTogether == {{"person", "net"}, {"net", "crash"}, {"call", "person"},
               {"call", "resync"}, {"call", "net"}, {"call", "crash"}}

Fresh == [props |-> <<>>, types |-> <<>>]
Old == [props |-> [detail |-> Prop("infra", "text"),
                   theirs |-> Prop("done", "text")],
        types |-> [mode |-> {"detail", "theirs"}]]
Odd == [props |-> [detail |-> Prop("infra", "text")], types |-> <<>>]
Whole == [props |-> [detail |-> Prop("infra", "select"),
                     link |-> Prop("infra", "objects"),
                     theirs |-> Prop("knows", "objects"),
                     mood |-> Prop("mood", "select")],
          types |-> [mode |-> {"detail"}, context |-> {"link"},
                     task |-> {"theirs"}]]

MCSpaces == {Fresh, Old, Odd, Whole}
MCServing == {Whole}

Item(name, declared, option) ==
    [name |-> name, declared |-> declared, option |-> option]
Request(kind, on, links, fields) ==
    [kind |-> kind, on |-> on, links |-> links, fields |-> fields]

MCRequests ==
    { Request("update", "task", <<>>, <<Item("done", "select", "low")>>),
      Request("update", "task", <<>>, <<Item("done", "text", None),
                                        Item("knows", "text", None)>>),
      Request("create", "task", <<Item("knows", None, None)>>,
                                <<Item("done", "text", None)>>),
      Request("link", "task", <<Item("done", "objects", None)>>, <<>>),
      Request("attach", "task", <<>>, <<Item("done", "select", "low")>>),
      Request("type", "city", <<>>, <<Item("knows", "objects", None)>>) }

\* A create that declares a relation, with a field that nothing licenses.
MCMintRequests ==
    { Request("create", "task", <<Item("done", "objects", None)>>,
                                <<Item("knows", None, None)>>) }
=============================================================================
