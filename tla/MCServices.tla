----------------------------- MODULE MCServices -----------------------------
(***************************************************************************)
(* Services for TLC: two home-provider agents and an agnostic one, and     *)
(* three provider ids, of which models.dev may have two and may have one   *)
(* malformed.                                                              *)
(***************************************************************************)
EXTENDS Services

CONSTANTS home, wide, agnostic, stranger, sound, shaky, unheard

MCAgents == {home, wide, agnostic}
MCHome == [a \in MCAgents |-> IF a = home THEN {sound}
                              ELSE IF a = wide THEN {sound, shaky} ELSE {}]
MCStrangers == {stranger}
MCProviders == {sound, shaky, unheard}
MCProviderLists == {<<>>, <<sound>>, <<shaky, sound, shaky>>, <<sound, unheard>>,
                    <<unheard, shaky>>}
MCContents == {[known |-> {sound, shaky}, drifted |-> {}],
               [known |-> {sound, shaky}, drifted |-> {shaky}],
               [known |-> {sound}, drifted |-> {}],
               [known |-> {shaky}, drifted |-> {}]}
OnlyModelsList == {"modelsList"}
=============================================================================
