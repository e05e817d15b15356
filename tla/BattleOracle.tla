---------------------------- MODULE BattleOracle ----------------------------
(***************************************************************************)
(* What the ToE bridge promises the code that calls it, with no queue, no  *)
(* tabs and no clock (the contract of BattleEngine.calc and calc_batch in  *)
(* battle/engine.py): every queued battle is answered at most once, every  *)
(* slot of a batch is filled at most once, and a slot holds either the     *)
(* answer given to its own battle or a failure.                            *)
(***************************************************************************)
EXTENDS Naturals

CONSTANTS
  Battles,       \* the battles ever queued
  Answers,       \* what a simulation can return
  NoAnswer,      \* not one of them
  Faults         \* the ways a slot can fail

VARIABLES
  answered,      \* the answer given to each battle
  slot,          \* how each battle's slot was filled
  reported       \* the answer its caller was handed

oracleVars == <<answered, slot, reported>>

OracleInit ==
  /\ answered = [b \in Battles |-> NoAnswer]
  /\ slot = [b \in Battles |-> "none"]
  /\ reported = [b \in Battles |-> NoAnswer]

Answer(b, a) ==
  /\ answered[b] = NoAnswer
  /\ answered' = [answered EXCEPT ![b] = a]
  /\ UNCHANGED <<slot, reported>>

Report(b) ==
  /\ slot[b] = "none" /\ answered[b] # NoAnswer
  /\ slot' = [slot EXCEPT ![b] = "result"]
  /\ reported' = [reported EXCEPT ![b] = answered[b]]
  /\ UNCHANGED answered

(* One failure may settle several slots of a batch together.               *)
Fail(S, fault) ==
  /\ \A b \in S : slot[b] = "none"
  /\ slot' = [b \in Battles |-> IF b \in S THEN fault ELSE slot[b]]
  /\ UNCHANGED <<answered, reported>>

OracleNext ==
  \/ \E b \in Battles : \E a \in Answers : Answer(b, a)
  \/ \E b \in Battles : Report(b)
  \/ \E S \in SUBSET Battles : \E fault \in Faults : Fail(S, fault)

OracleSpec == OracleInit /\ [][OracleNext]_oracleVars
=============================================================================
