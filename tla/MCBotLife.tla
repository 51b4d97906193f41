----------------------------- MODULE MCBotLife ------------------------------
(***************************************************************************)
(* The host is an alias; the name server answers with its canonical name   *)
(* and addresses in this or the other order, with an address of its own    *)
(* in another section, with too little, or with an error.                  *)
(***************************************************************************)
EXTENDS BotLife

MCNames == {"irc", "edge", "ns"}
MCAddrs == {"a", "b", "n", "h"}

MCCanonical == [n \in MCNames |-> IF n = "irc" THEN "edge" ELSE n]
MCAddrsOf == [irc |-> {}, edge |-> {"a", "b"}, ns |-> {"n"}]

MCHostsFiles == {<< >>, <<[ipAddr |-> "n", names |-> {"ns"}], [ipAddr |-> "h", names |-> {"irc"}]>>}

Alias == [section |-> "answer", type |-> "CNAME", name |-> "irc", data |-> "edge"]
Address(a) == [section |-> "answer", type |-> "A", name |-> "edge", data |-> a]
Server == [section |-> "authority", type |-> "NS", name |-> "edge", data |-> "ns"]
Glue == [section |-> "additional", type |-> "A", name |-> "ns", data |-> "n"]

MCReplies ==
    [code : {"Good"},
     records : {<<Alias, Address("a"), Address("b")>>, <<Alias, Address("b"), Server, Glue>>,
                <<Address("a"), Alias>>, <<Alias, Server, Glue>>, << >>}]
    \cup {[code |-> "NameError", records |-> << >>]}
=============================================================================
