----------------------- MODULE ConnectionExhaustionMC -----------------------
(***************************************************************************)
(* Small instances of ConnectionExhaustion for TLC.                        *)
(***************************************************************************)
EXTENDS ConnectionExhaustion, TLC

CONSTANTS a1, a2, plain, withDB

MCAttacks == {a1, a2}

\* redis://host:6379 and redis://host:6379/0
MCURLs == {plain, withDB}
MCIsPrefix == {<<plain, plain>>, <<withDB, withDB>>, <<plain, withDB>>}

\* Two executions against the same target, and against two URLs of one server.
SameURL == [a \in Attacks |-> plain]
PrefixURLs == a1 :> plain @@ a2 :> withDB

AttackSymmetry == Permutations(Attacks)
=============================================================================
