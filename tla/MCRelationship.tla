--------------------------- MODULE MCRelationship ---------------------------
(***************************************************************************)
(* An instance of Relationship for TLC.                                    *)
(***************************************************************************)
EXTENDS Relationship, TLC

CONSTANTS ann, bob

\* Two levels of the engine, one of the chat, below what a relationship takes.
MCEngineLevels == {[level |-> 0, score |-> 0], [level |-> 3, score |-> 2]}
MCChatLevels   == {[level |-> 1, score |-> 0]}
MCMessagePoints == [never |-> {1}, today |-> {1, 0, -1}, days |-> {-2}, week |-> {-2}]
MCOpeningCoins == [u \in Users |-> IF u = ann THEN 3 ELSE 0]

OnePair == {{ann, bob}}

Symmetry == Permutations(Calls)
=============================================================================
