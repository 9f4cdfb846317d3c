--------------------------------- MODULE MCCli ---------------------------------
(***************************************************************************)
(* Cli for TLC: an agent with a home provider and an agnostic one, and     *)
(* three provider ids, of which models.dev may lack each and may have one  *)
(* malformed.                                                              *)
(***************************************************************************)
EXTENDS Cli

CONSTANTS home, agnostic, stranger, sound, shaky, unheard

MCAgents == {home, agnostic}
MCHome == [a \in MCAgents |-> IF a = home THEN {sound, shaky} ELSE {}]
MCStrangers == {stranger}
MCProviders == {sound, shaky, unheard}
MCProviderLists == {<<>>, <<sound>>, <<shaky>>, <<unheard, sound>>}
MCContents == {[known |-> {sound, shaky}, drifted |-> {}],
               [known |-> {sound, shaky}, drifted |-> {shaky}],
               [known |-> {sound}, drifted |-> {}],
               [known |-> {unheard}, drifted |-> {}]}
=============================================================================
