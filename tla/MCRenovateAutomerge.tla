-------------------------- MODULE MCRenovateAutomerge --------------------------
(* Two heads of the bot and one with a commit of somebody else. *)
EXTENDS RenovateAutomerge

CONSTANTS b1, b2, h1

MCBotHeads == {b1, b2}
MCOtherHeads == {h1}
MCMaxActs == [a \in Actors |-> IF a = "bot" THEN 3 ELSE 2]
MCShortActs == [a \in Actors |-> 2]
=============================================================================
