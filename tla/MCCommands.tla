------------------------------ MODULE MCCommands ------------------------------
(* Small instances of the commands.                                            *)
EXTENDS Commands

TwoPerCall   == [i \in Items |-> IF i = "chest" THEN 2 ELSE 0]

Prices       == <<2, 2, 1, 3>>
Purses       == <<"gold", "valor", "valor", "valor">>
TwoBuffs     == <<2, 1, 2, 1>>
MaestroRanks == <<0, 1, 7, 0>>

RecipeLength == [q \in Daily |-> IF q = "recipe" THEN 3 ELSE 2]
Fulfils      == [q \in Daily |-> IF q = "recipe" THEN 1 ELSE 2]
===============================================================================
