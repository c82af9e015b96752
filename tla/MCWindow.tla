------------------------------- MODULE MCWindow -------------------------------
(***************************************************************************)
(* The window of TLC's runs: five tabs on pages of at most two rows, three *)
(* requests of which one is malformed, two hosts and two environments,     *)
(* three releases, three recorded rows and an import that is cut short.    *)
(***************************************************************************)
EXTENDS Window

CONSTANTS plain, broken, elsewhere, unparsable, h1, h2

MCMaxTabs   == [p \in Parts |-> IF p = "strip" THEN 5 ELSE 2]
MCDrafts    == {plain, broken, elsewhere}
MCMalformed == {broken}
MCCommands  == MCDrafts \cup {unparsable}
MCRecordable ==
    {[category |-> "GET", host |-> "a", method |-> "GET", headers |-> {"host"}, data |-> FALSE],
     [category |-> "POST", host |-> "b", method |-> "POST", headers |-> {"json", "content-length"}, data |-> TRUE],
     [category |-> "OTHER", host |-> "a", method |-> "TRACE", headers |-> {":path"}, data |-> FALSE]}
MCDraftHost == [d \in MCDrafts |-> IF d = plain THEN h1 ELSE IF d = elsewhere THEN h2 ELSE None]
=============================================================================
