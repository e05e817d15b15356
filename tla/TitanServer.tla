---------------------------- MODULE TitanServer ----------------------------
(***************************************************************************)
(* The game server's side of the Titan Arena, as commands/titan_arena.py   *)
(* uses it: a tier of rivals, the best score against each (a worse battle  *)
(* never lowers it), and the season that may end at any moment. The tier's *)
(* rivals are other ones in every tier, so an id of an older tier is       *)
(* unknown to it. Another session of the same player may play meanwhile.   *)
(***************************************************************************)
EXTENDS Naturals, FiniteSets

CONSTANTS
  Rivals,        \* the rivals of one tier
  MaxTier,       \* maxTier
  Full,          \* the score of a cleared rival (attack_score_threshold)
  RaidTiers,     \* the tiers the server reports canRaid for
  Shared         \* whether the season may end and another session play

Tiers == 1 .. MaxTier

ASSUME ServerAssumption ==
  /\ MaxTier \in Nat \ {0}
  /\ Full \in Nat \ {0}
  /\ RaidTiers \subseteq Tiers
  /\ IsFiniteSet(Rivals)
  /\ Shared \in BOOLEAN

VARIABLES
  tier,
  score,         \* attackScore of every rival of the tier
  closed,        \* status is "peace_time" or "disabled", no longer "battle"
  finished       \* the top tier has been completed

serverVars == <<tier, score, closed, finished>>

ServerTypeOK ==
  /\ tier \in Tiers
  /\ score \in [Rivals -> 0 .. Full]
  /\ closed \in BOOLEAN
  /\ finished \in BOOLEAN

ServerInit ==
  /\ tier \in Tiers
  /\ score \in [Rivals -> 0 .. Full]
  /\ closed \in BOOLEAN
  /\ finished = FALSE

Left == {r \in Rivals : score[r] < Full}

(* A battle of tier k against r can still be fought.                       *)
Open(k, r) == ~closed /\ tier = k /\ r \in Left

(* The scores reached against the rivals that were fought, Full for a win.  *)
Bank(reached) ==
  score' = [r \in Rivals |-> IF r \in DOMAIN reached /\ reached[r] > score[r]
                             THEN reached[r] ELSE score[r]]

Completable == ~closed /\ ~finished /\ Left = {}

Advance ==
  IF tier = MaxTier
  THEN finished' = TRUE /\ UNCHANGED <<tier, score>>
  ELSE /\ tier' = tier + 1
       /\ score' = [r \in Rivals |-> 0]
       /\ UNCHANGED finished

-----------------------------------------------------------------------------
(* What the run does not do itself.                                        *)
SomeoneClears(r) ==
  /\ Shared /\ Open(tier, r)
  /\ score' = [score EXCEPT ![r] = Full]
  /\ UNCHANGED <<tier, closed, finished>>

SomeoneCompletes ==
  /\ Shared /\ Completable
  /\ Advance
  /\ UNCHANGED closed

SeasonEnds ==
  /\ Shared /\ ~closed
  /\ closed' = TRUE
  /\ UNCHANGED <<tier, score, finished>>
=============================================================================
