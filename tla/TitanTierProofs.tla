-------------------------- MODULE TitanTierProofs --------------------------
(***************************************************************************)
(* Proofs about the Titan Arena tier loop, for every finite set of rivals, *)
(* every number of tiers and every value of the options and limits.        *)
(***************************************************************************)
EXTENDS TitanTier, FiniteSetTheorems, TLAPS

(* While a battle is fought or its end is confirmed there is a rival.      *)
FightsSomeone == pc \in {"battle", "confirm"} => cur \in Rivals

(* A loop that still runs has met neither of its limits.                   *)
RoomLeft == pc \notin Ends => idle < MaxIdlePasses /\ errs < MaxBridgeErrors

TypeInv ==
  /\ TypeOK
  /\ FightsSomeone
  /\ RoomLeft
  /\ still <= passes

-----------------------------------------------------------------------------
(* What the assumptions say of the numbers.                                *)
LEMMA Limits ==
  /\ MaxTier \in Nat \ {0}
  /\ Full \in Nat \ {0}
  /\ Plan \in Nat \ {0}
  /\ MaxPasses \in Nat \ {0}
  /\ MaxBridgeErrors \in Nat \ {0}
  /\ MaxIdlePasses \in Nat \ {0}
BY ServerAssumption, TierAssumption

-----------------------------------------------------------------------------
(* The server.                                                             *)

LEMMA LeftType ==
  ASSUME ServerTypeOK
  PROVE  /\ Left \in SUBSET Rivals
         /\ Cardinality(Rivals) \in Nat
         /\ Cardinality(Left) \in 0 .. Cardinality(Rivals)
<1>1. Left \in SUBSET Rivals
  BY DEF Left
<1>2. IsFiniteSet(Rivals)
  BY ServerAssumption
<1>3. /\ IsFiniteSet(Left)
      /\ Cardinality(Left) <= Cardinality(Rivals)
  BY <1>1, <1>2, FS_Subset
<1>4. Cardinality(Left) \in Nat /\ Cardinality(Rivals) \in Nat
  BY <1>2, <1>3, FS_CardinalityType
<1>. QED  BY <1>1, <1>3, <1>4

(* A status has the types of the status in use and of the summary.         *)
LEMMA StatusType ==
  ASSUME ServerTypeOK
  PROVE  /\ Status \in [tier : Keys, left : SUBSET Rivals]
         /\ Remaining \in [tier : Keys, left : 0 .. Cardinality(Rivals)]
         /\ [tier |-> tier, left |-> 0]
              \in [tier : Keys, left : 0 .. Cardinality(Rivals)]
         /\ tier \in Keys
BY LeftType DEF Status, Remaining, ServerTypeOK, Keys

(* Whoever fights whom, scores keep their type and are never lowered.      *)
LEMMA BankRaises ==
  ASSUME ServerTypeOK, NEW S \in SUBSET Rivals, NEW reached \in [S -> 0 .. Full],
         Bank(reached)
  PROVE  /\ score' \in [Rivals -> 0 .. Full]
         /\ \A r \in Rivals : score'[r] >= score[r]
         /\ \A r \in S : score'[r] >= reached[r]
<1>. USE ServerAssumption DEF ServerTypeOK
<1>1. DOMAIN reached = S
  OBVIOUS
<1>2. score' = [r \in Rivals |-> IF r \in S /\ reached[r] > score[r]
                                 THEN reached[r] ELSE score[r]]
  BY <1>1 DEF Bank
<1>. QED  BY <1>2

LEMMA AdvanceType ==
  ASSUME ServerTypeOK, Advance
  PROVE  /\ tier' \in Tiers
         /\ score' \in [Rivals -> 0 .. Full]
         /\ finished' \in BOOLEAN
<1>. USE ServerAssumption DEF ServerTypeOK, Tiers
<1>1. CASE tier = MaxTier
  BY <1>1 DEF Advance
<1>2. CASE tier # MaxTier
  <2>1. tier + 1 \in 1 .. MaxTier
    BY <1>2
  <2>. QED  BY <1>2, <2>1 DEF Advance
<1>. QED  BY <1>1, <1>2

LEMMA FightsType ==
  ASSUME NEW S \in SUBSET Rivals, NEW reached \in Fights(S)
  PROVE  \E V \in SUBSET Rivals : V \subseteq S /\ reached \in [V -> 0 .. Full]
BY DEF Fights

-----------------------------------------------------------------------------
(* The steps keep every type. What a step leaves alone keeps its type, so  *)
(* each step below says only what it changes.                              *)

LEMMA Unmoved ==
  ASSUME TypeInv
  PROVE  /\ UNCHANGED serverVars => ServerTypeOK'
         /\ UNCHANGED runVars => RunTypeOK' /\ idle' = idle /\ passes' = passes
         /\ UNCHANGED raidVars => RaidTypeOK'
         /\ UNCHANGED passVars => PassTypeOK' /\ errs' = errs /\ cur' = cur
         /\ UNCHANGED claim => ClaimTypeOK'
         /\ UNCHANGED history => HistoryTypeOK' /\ still' = still
BY DEF TypeInv, TypeOK, serverVars, runVars, raidVars, passVars, claim,
       history, marks, ServerTypeOK, RunTypeOK, RaidTypeOK, PassTypeOK,
       ClaimTypeOK, HistoryTypeOK

LEMMA InitType == Init => TypeInv
<1>. SUFFICES ASSUME Init PROVE TypeInv
  OBVIOUS
<1>1. ServerTypeOK
  BY Limits DEF Init, ServerInit, ServerTypeOK
<1>2. Cardinality(Rivals) \in Nat
  BY ServerAssumption, FS_CardinalityType
<1>3. Standing \in [tier : Tiers, score : [Rivals -> 0 .. Full],
                    finished : BOOLEAN]
  BY <1>1 DEF Standing, ServerTypeOK
<1>4. TypeOK
  <2>1. /\ seen \in [tier : Keys, left : SUBSET Rivals]
        /\ raid \in [tier : Keys, rivals : SUBSET Rivals]
        /\ report \in [tier : Keys, left : 0 .. Cardinality(Rivals)]
    BY <1>2, Limits DEF Init, Keys, NoTier
  <2>2. /\ banked \in [Rivals -> -1 .. MaxStars]
        /\ mark \in [tier : Tiers, score : [Rivals -> 0 .. Full],
                     finished : BOOLEAN]
    BY <1>3, TierAssumption, Limits DEF Init
  <2>25. landed \in [tier : Keys, best : [Rivals -> -1 .. MaxStars]]
    BY TierAssumption DEF Init, Keys, NoTier
  <2>3. raidWon \in BOOLEAN /\ tried \in BOOLEAN /\ earned \in BOOLEAN
    BY Zenon DEF Init
  <2>. QED
    BY <1>1, <2>1, <2>2, <2>25, <2>3, Limits
    DEF Init, TypeOK, RunTypeOK, RaidTypeOK, PassTypeOK, ClaimTypeOK,
        HistoryTypeOK, Keys, NoTier
<1>. QED  BY <1>4, Limits DEF Init, TypeInv, FightsSomeone, RoomLeft

LEMMA NewPassType ==
  ASSUME NEW S \in SUBSET Rivals, NewPass(S)
  PROVE  PassTypeOK' /\ errs' < MaxBridgeErrors
<1>1. /\ todo' = S /\ cur' = NoRival /\ attempt' = 0 /\ errs' = 0
      /\ wins' = {} /\ tried' = FALSE /\ earned' = FALSE
  BY DEF NewPass
<1>2. tried' \in BOOLEAN /\ earned' \in BOOLEAN
  BY <1>1, Zenon
<1>. QED  BY <1>1, <1>2, Limits DEF PassTypeOK

LEMMA BeginType ==
  ASSUME NEW S \in [tier : Keys, left : SUBSET Rivals], BeginRivals(S)
  PROVE  pc' = "fighting" /\ PassTypeOK' /\ errs' < MaxBridgeErrors
BY NewPassType DEF BeginRivals, Go

LEMMA NextAttemptType ==
  ASSUME TypeOK, NextAttempt
  PROVE  /\ todo' \in SUBSET Rivals
         /\ cur' \in Rivals \cup {NoRival}
         /\ attempt' \in 0 .. Plan
BY TierAssumption DEF NextAttempt, LeaveRival, TypeOK, PassTypeOK

LEMMA RecordType ==
  ASSUME TypeOK, NEW v \in BOOLEAN, Record(v)
  PROVE  /\ pc' \in {"ranked", "fighting"}
         /\ todo' \in SUBSET Rivals
         /\ cur' \in Rivals \cup {NoRival}
         /\ attempt' \in 0 .. Plan
         /\ errs' = 0
         /\ tried' = TRUE
<1>1. CASE v /\ StopOnFirstLoss
  BY <1>1, TierAssumption DEF Record, LeaveRival, TypeOK, PassTypeOK, Go
<1>2. CASE ~(v /\ StopOnFirstLoss)
  BY <1>2, NextAttemptType DEF Record, Go
<1>. QED  BY <1>1, <1>2

LEMMA SuppressType ==
  ASSUME TypeOK, Suppress
  PROVE  noRaid' \in Keys /\ shut' \in SUBSET Tiers
BY DEF Suppress, TypeOK, RunTypeOK, HistoryTypeOK

LEMMA AfterRaidType ==
  ASSUME TypeOK, RoomLeft, pc \notin Ends, NEW w \in BOOLEAN, AfterRaid(w)
  PROVE  /\ raidWon' \in BOOLEAN
         /\ pc' \in {"refresh", "fighting"}
         /\ PassTypeOK'
         /\ errs' < MaxBridgeErrors
<1>1. seen \in [tier : Keys, left : SUBSET Rivals]
  BY DEF TypeOK, RunTypeOK
<1>2. CASE w
  BY <1>2 DEF AfterRaid, passVars, PassTypeOK, TypeOK, Go, RoomLeft
<1>3. CASE ~w
  BY <1>1, <1>3, BeginType DEF AfterRaid
<1>. QED  BY <1>2, <1>3

(* The top of a pass.                                                      *)
LEMMA TopType ==
  ASSUME TypeInv, CapReached \/ StatusFails \/ ReadStatus
  PROVE  TypeInv'
<1>0. /\ ServerTypeOK /\ RunTypeOK /\ HistoryTypeOK /\ still <= passes
      /\ errs \in Nat
  BY DEF TypeInv, TypeOK, PassTypeOK
<1>1. CASE CapReached
  BY <1>0, <1>1, Unmoved
  DEF CapReached, TypeInv, TypeOK, FightsSomeone, RoomLeft, Ends, Go
<1>2. CASE StatusFails
  <2>1. RunTypeOK' /\ still <= passes'
    BY <1>0, <1>2, Limits DEF StatusFails, RunTypeOK, HistoryTypeOK
  <2>. QED
    BY <1>0, <1>2, <2>1, Unmoved
    DEF StatusFails, TypeInv, TypeOK, FightsSomeone, RoomLeft, Ends, Go, history, marks
<1>3. CASE ReadStatus
  <2>1. Standing \in [tier : Tiers, score : [Rivals -> 0 .. Full],
                      finished : BOOLEAN]
    BY <1>0 DEF Standing, ServerTypeOK
  <2>2. HistoryTypeOK' /\ still' <= passes'
    BY <1>0, <1>3, <2>1, Limits DEF ReadStatus, RunTypeOK, HistoryTypeOK
  <2>3. ServerTypeOK' /\ ClaimTypeOK'
    BY <1>3, Unmoved DEF ReadStatus
  <2>4. idle < MaxIdlePasses /\ errs < MaxBridgeErrors /\ idle' = idle
    BY <1>3 DEF ReadStatus, TypeInv, RoomLeft, Ends
  <2>5. CASE closed
    <3>1. RunTypeOK' /\ pc' = "closed"
      BY <1>0, <1>3, <2>5, StatusType, Limits DEF ReadStatus, RunTypeOK, Go
    <3>2. RaidTypeOK' /\ PassTypeOK'
      BY <1>3, <2>5, Unmoved DEF ReadStatus, raidVars
    <3>. QED
      BY <2>2, <2>3, <3>1, <3>2
      DEF TypeInv, TypeOK, FightsSomeone, RoomLeft, Ends
  <2>6. CASE ~closed
    <3>1. /\ report' = Remaining /\ seen' = Status
          /\ BanksOfTier
          /\ noRaid' = IF noRaid = tier THEN noRaid ELSE NoTier
          /\ raidWon' = FALSE
          /\ \/ Go("raid") /\ NewPass({})
             \/ BeginRivals(Status)
      BY <1>3, <2>6 DEF ReadStatus
    <3>2. banked' \in [Rivals -> -1 .. MaxStars]
      BY <1>0, <3>1, TierAssumption, Limits DEF BanksOfTier, RunTypeOK
    <3>3. RunTypeOK'
      BY <1>0, <1>3, <3>1, <3>2, StatusType, Limits
      DEF ReadStatus, RunTypeOK, Keys, NoTier
    <3>4. RaidTypeOK'
      <4>1. raid' = raid /\ raid \in [tier : Keys, rivals : SUBSET Rivals]
        BY <1>3 DEF ReadStatus, TypeInv, TypeOK, RaidTypeOK
      <4>2. raidWon' \in BOOLEAN
        BY <3>1, Zenon
      <4>. QED  BY <4>1, <4>2 DEF RaidTypeOK
    <3>5. PassTypeOK' /\ errs' < MaxBridgeErrors /\ pc' \in {"raid", "fighting"}
      <4>1. CASE Go("raid") /\ NewPass({})
        BY <4>1, NewPassType DEF Go
      <4>2. CASE BeginRivals(Status)
        BY <1>0, <4>2, BeginType, StatusType
      <4>. QED  BY <3>1, <4>1, <4>2
    <3>. QED
      BY <2>2, <2>3, <2>4, <3>3, <3>4, <3>5
      DEF TypeInv, TypeOK, FightsSomeone, RoomLeft
  <2>. QED  BY <2>5, <2>6
<1>. QED  BY <1>1, <1>2, <1>3

(* The raid. None of its steps counts passes, and those that lead to the   *)
(* rivals start with no errors.                                            *)
LEMMA RaidBeginsType ==
  ASSUME TypeInv, RaidRefused \/ RaidUnverified
  PROVE  TypeInv'
<1>1. /\ Suppress /\ BeginRivals(seen)
      /\ UNCHANGED <<serverVars, passes, idle, seen, doneKey, banked, report,
                     raidVars, claim, heard, marks, landed>>
      /\ pc \in {"raid", "raiding"}
  BY DEF RaidRefused, RaidUnverified
<1>2. TypeOK /\ seen \in [tier : Keys, left : SUBSET Rivals]
  BY DEF TypeInv, TypeOK, RunTypeOK
<1>3. pc' = "fighting" /\ PassTypeOK' /\ errs' < MaxBridgeErrors
  BY <1>1, <1>2, BeginType
<1>4. RunTypeOK' /\ HistoryTypeOK'
  BY <1>1, <1>2, SuppressType DEF TypeOK, RunTypeOK, HistoryTypeOK, marks
<1>. QED
  BY <1>1, <1>3, <1>4, Unmoved
  DEF TypeInv, TypeOK, FightsSomeone, RoomLeft, Ends, marks

LEMMA StartRaidType ==
  ASSUME TypeInv, StartRaid
  PROVE  TypeInv'
<1>1. [tier |-> tier, rivals |-> Left] \in [tier : Keys, rivals : SUBSET Rivals]
  BY LeftType, StatusType DEF TypeInv, TypeOK
<1>2. RaidTypeOK'
  BY <1>1 DEF StartRaid, TypeInv, TypeOK, RaidTypeOK
<1>. QED
  BY <1>2, Unmoved
  DEF StartRaid, TypeInv, TypeOK, FightsSomeone, RoomLeft, Ends, Go, runVars

LEMMA BridgeDeadType ==
  ASSUME TypeInv, RaidBridgeDead
  PROVE  TypeInv'
BY Unmoved
DEF RaidBridgeDead, TypeInv, TypeOK, FightsSomeone, RoomLeft, Ends, Go

(* A battle reaches between 0 and Full against a rival of the raid.        *)
LEMMA RaidBankType ==
  ASSUME TypeInv, NEW reached \in Fights(raid.rivals),
         Bank(reached) \/ UNCHANGED score
  PROVE  score' \in [Rivals -> 0 .. Full]
<1>1. ServerTypeOK /\ raid.rivals \in SUBSET Rivals
  BY DEF TypeInv, TypeOK, RaidTypeOK
<1>2. PICK V \in SUBSET Rivals : reached \in [V -> 0 .. Full]
  BY <1>1, FightsType
<1>3. CASE Bank(reached)
  BY <1>1, <1>2, <1>3, BankRaises
<1>4. CASE UNCHANGED score
  BY <1>1, <1>4 DEF ServerTypeOK
<1>. QED  BY <1>3, <1>4

LEMMA ScoreType ==
  ASSUME TypeInv, score' \in [Rivals -> 0 .. Full],
         UNCHANGED <<tier, closed, finished>>
  PROVE  ServerTypeOK'
BY DEF TypeInv, TypeOK, ServerTypeOK

LEMMA EndRaidFailsType ==
  ASSUME TypeInv, NEW reached \in Fights(raid.rivals), EndRaidFails(reached)
  PROVE  TypeInv'
<1>1. /\ pc = "raiding" /\ Suppress /\ AfterRaid(WonIn(reached))
      /\ UNCHANGED <<tier, closed, finished, passes, idle, seen, doneKey,
                     banked, report, raid, claim, heard, marks, landed>>
      /\ Bank(reached) \/ UNCHANGED score
  BY DEF EndRaidFails
<1>2. ServerTypeOK'
  BY <1>1, RaidBankType, ScoreType
<1>3. TypeOK /\ RoomLeft /\ pc \notin Ends /\ WonIn(reached) \in BOOLEAN
  BY <1>1 DEF TypeInv, Ends, WonIn
<1>4. /\ raidWon' \in BOOLEAN /\ pc' \in {"refresh", "fighting"}
      /\ PassTypeOK' /\ errs' < MaxBridgeErrors
  BY <1>1, <1>3, AfterRaidType
<1>5. RunTypeOK' /\ HistoryTypeOK'
  BY <1>1, <1>3, SuppressType DEF TypeOK, RunTypeOK, HistoryTypeOK, marks
<1>6. RaidTypeOK' /\ ClaimTypeOK'
  BY <1>1, <1>4, Unmoved DEF TypeInv, TypeOK, RaidTypeOK
<1>. QED
  BY <1>1, <1>2, <1>3, <1>4, <1>5, <1>6
  DEF TypeInv, TypeOK, FightsSomeone, RoomLeft, marks

(* After a raid or a fresh status: either CompleteTier or the rivals.      *)
LEMMA RaidJudgedType ==
  ASSUME TypeInv, ServerTypeOK', UNCHANGED <<runVars, raid, history>>,
         pc \notin Ends, NEW w \in BOOLEAN,
         \/ /\ \E occasion \in {"echo", "status"} : Claim(seen.tier, occasion)
            /\ raidWon' \in {raidWon, FALSE}
         \/ AfterRaid(w) /\ UNCHANGED claim
  PROVE  TypeInv'
<1>1. /\ RunTypeOK' /\ HistoryTypeOK' /\ still' <= passes'
      /\ idle' = idle /\ idle < MaxIdlePasses /\ errs < MaxBridgeErrors
  BY Unmoved DEF TypeInv, RoomLeft
<1>2. CASE /\ \E occasion \in {"echo", "status"} : Claim(seen.tier, occasion)
           /\ raidWon' \in {raidWon, FALSE}
  <2>1. /\ pc' = "claiming" /\ UNCHANGED passVars /\ at' = seen.tier
        /\ why' \in {"echo", "status"}
    BY <1>2 DEF Claim, Go
  <2>2. PassTypeOK' /\ errs' = errs
    BY <2>1, Unmoved
  <2>3. ClaimTypeOK'
    BY <2>1 DEF ClaimTypeOK, TypeInv, TypeOK, RunTypeOK
  <2>4. RaidTypeOK'
    <3>1. raidWon' \in BOOLEAN
      BY <1>2 DEF TypeInv, TypeOK, RaidTypeOK
    <3>. QED  BY <3>1 DEF TypeInv, TypeOK, RaidTypeOK
  <2>. QED
    BY <1>1, <2>1, <2>2, <2>3, <2>4
    DEF TypeInv, TypeOK, FightsSomeone, RoomLeft
<1>3. CASE AfterRaid(w) /\ UNCHANGED claim
  <2>1. /\ raidWon' \in BOOLEAN /\ pc' \in {"refresh", "fighting"}
        /\ PassTypeOK' /\ errs' < MaxBridgeErrors
    BY <1>3, AfterRaidType DEF TypeInv
  <2>2. RaidTypeOK' /\ ClaimTypeOK'
    BY <1>3, <2>1, Unmoved DEF TypeInv, TypeOK, RaidTypeOK
  <2>. QED
    BY <1>1, <2>1, <2>2
    DEF TypeInv, TypeOK, FightsSomeone, RoomLeft
<1>. QED  BY <1>2, <1>3

LEMMA EndRaidType ==
  ASSUME TypeInv, NEW reached \in Fights(raid.rivals),
         EndRaidEchoed(reached) \/ EndRaidUnechoed(reached)
  PROVE  TypeInv'
<1>1. /\ pc = "raiding" /\ Bank(reached)
      /\ UNCHANGED <<tier, closed, finished>>
      /\ UNCHANGED <<runVars, raid, history>>
  BY DEF EndRaidEchoed, EndRaidUnechoed
<1>2. ServerTypeOK'
  BY <1>1, RaidBankType, ScoreType
<1>3. WonIn(reached) \in BOOLEAN /\ pc \notin Ends
  BY <1>1 DEF WonIn, Ends
<1>4. CASE EndRaidEchoed(reached)
  <2>1. \/ Claim(seen.tier, "echo") /\ UNCHANGED raidWon
        \/ AfterRaid(WonIn(reached)) /\ UNCHANGED claim
    BY <1>4 DEF EndRaidEchoed
  <2>. QED  BY <1>1, <1>2, <1>3, <2>1, RaidJudgedType
<1>5. CASE EndRaidUnechoed(reached)
  <2>1. /\ raidWon' = WonIn(reached) /\ pc' = "raidcheck"
        /\ UNCHANGED passVars /\ UNCHANGED claim
    BY <1>5 DEF EndRaidUnechoed, Go
  <2>2. RaidTypeOK'
    BY <1>1, <1>3, <2>1 DEF TypeInv, TypeOK, RaidTypeOK
  <2>. QED
    BY <1>1, <1>2, <1>3, <2>1, <2>2, Unmoved
    DEF TypeInv, TypeOK, FightsSomeone, RoomLeft
<1>. QED  BY <1>4, <1>5

LEMMA CheckRaidType ==
  ASSUME TypeInv, CheckRaid
  PROVE  TypeInv'
<1>1. /\ pc = "raidcheck" /\ UNCHANGED serverVars
      /\ UNCHANGED <<runVars, raid, history>>
      /\ \/ Claim(seen.tier, "status") /\ raidWon' = FALSE
         \/ AfterRaid(raidWon) /\ UNCHANGED claim
  BY DEF CheckRaid
<1>2. ServerTypeOK' /\ raidWon \in BOOLEAN /\ pc \notin Ends
  BY <1>1, Unmoved DEF TypeInv, TypeOK, RaidTypeOK, Ends
<1>. QED  BY <1>1, <1>2, RaidJudgedType

LEMMA CheckRaidFailsType ==
  ASSUME TypeInv, CheckRaidFails
  PROVE  TypeInv'
<1>1. /\ pc = "raidcheck" /\ Suppress /\ AfterRaid(raidWon)
      /\ UNCHANGED <<serverVars, passes, idle, seen, doneKey, banked, report,
                     raid, claim, heard, marks, landed>>
  BY DEF CheckRaidFails
<1>2. TypeOK /\ RoomLeft /\ pc \notin Ends /\ raidWon \in BOOLEAN
  BY <1>1 DEF TypeInv, TypeOK, RaidTypeOK, Ends
<1>3. /\ raidWon' \in BOOLEAN /\ pc' \in {"refresh", "fighting"}
      /\ PassTypeOK' /\ errs' < MaxBridgeErrors
  BY <1>1, <1>2, AfterRaidType
<1>4. RunTypeOK' /\ HistoryTypeOK'
  BY <1>1, <1>2, SuppressType DEF TypeOK, RunTypeOK, HistoryTypeOK, marks
<1>5. RaidTypeOK' /\ ClaimTypeOK' /\ ServerTypeOK'
  BY <1>1, <1>3, Unmoved DEF TypeInv, TypeOK, RaidTypeOK
<1>. QED
  BY <1>1, <1>2, <1>3, <1>4, <1>5
  DEF TypeInv, TypeOK, FightsSomeone, RoomLeft, marks

LEMMA RefreshType ==
  ASSUME TypeInv, Refresh \/ RefreshFails
  PROVE  TypeInv'
<1>1. /\ pc = "refresh"
      /\ UNCHANGED <<serverVars, passes, idle, noRaid, doneKey, banked,
                     raidVars, claim, history>>
  BY DEF Refresh, RefreshFails, runVars
<1>2. /\ ServerTypeOK /\ RunTypeOK /\ idle < MaxIdlePasses
      /\ errs < MaxBridgeErrors /\ seen \in [tier : Keys, left : SUBSET Rivals]
  BY <1>1 DEF TypeInv, TypeOK, RoomLeft, Ends, RunTypeOK
<1>3. CASE Go("top") /\ UNCHANGED <<seen, report, passVars>>
  <2>1. RunTypeOK'
    BY <1>1, <1>2, <1>3 DEF RunTypeOK
  <2>. QED
    BY <1>1, <1>2, <1>3, <2>1, Unmoved
    DEF TypeInv, TypeOK, FightsSomeone, RoomLeft, Go
<1>4. CASE seen' = Status /\ report' = Remaining /\ BeginRivals(Status)
  <2>1. pc' = "fighting" /\ PassTypeOK' /\ errs' < MaxBridgeErrors
    BY <1>2, <1>4, BeginType, StatusType
  <2>2. RunTypeOK'
    BY <1>1, <1>2, <1>4, StatusType DEF RunTypeOK
  <2>. QED
    BY <1>1, <1>2, <2>1, <2>2, Unmoved
    DEF TypeInv, TypeOK, FightsSomeone, RoomLeft
<1>5. CASE BeginRivals(seen) /\ UNCHANGED <<seen, report>>
  <2>1. pc' = "fighting" /\ PassTypeOK' /\ errs' < MaxBridgeErrors
    BY <1>2, <1>5, BeginType
  <2>2. RunTypeOK'
    BY <1>1, <1>2, <1>5 DEF RunTypeOK
  <2>. QED
    BY <1>1, <1>2, <2>1, <2>2, Unmoved
    DEF TypeInv, TypeOK, FightsSomeone, RoomLeft
<1>. QED  BY <1>3, <1>4, <1>5 DEF Refresh, RefreshFails, runVars

-----------------------------------------------------------------------------
(* The rivals. Of the run they change no more than what is banked, and     *)
(* they stay in the pass or leave for one of its ends.                     *)

LEMMA RivalStepType ==
  ASSUME TypeInv, ServerTypeOK', PassTypeOK', pc \notin Ends,
         UNCHANGED <<passes, idle, seen, noRaid, doneKey, report>>,
         banked' \in [Rivals -> -1 .. MaxStars],
         UNCHANGED raidVars, UNCHANGED claim, HistoryTypeOK', UNCHANGED marks,
         \/ pc' \in {"fighting", "ranked"} /\ errs' < MaxBridgeErrors
         \/ /\ pc' \in {"battle", "confirm"} /\ errs' < MaxBridgeErrors
            /\ cur' \in Rivals
         \/ pc' = "bridge"
  PROVE  TypeInv'
<1>1. RaidTypeOK' /\ ClaimTypeOK' /\ still' = still
  BY Unmoved DEF marks
<1>2. RunTypeOK' /\ idle' < MaxIdlePasses /\ still' <= passes'
  BY <1>1 DEF TypeInv, TypeOK, RunTypeOK, RoomLeft
<1>. QED
  BY <1>1, <1>2 DEF TypeInv, TypeOK, FightsSomeone, RoomLeft, Ends

LEMMA PickType ==
  ASSUME TypeInv,
         \/ \E r \in Rivals : PickRival(r)
         \/ RivalsDone \/ StartBattle \/ BeatenAlready
  PROVE  TypeInv'
<1>1. /\ pc = "fighting" /\ UNCHANGED serverVars /\ UNCHANGED runVars
      /\ UNCHANGED raidVars /\ UNCHANGED claim /\ UNCHANGED history
      /\ HistoryTypeOK' /\ UNCHANGED marks
  BY Unmoved DEF history, PickRival, RivalsDone, StartBattle, BeatenAlready
<1>2. /\ PassTypeOK /\ RunTypeOK /\ ServerTypeOK' /\ pc \notin Ends
      /\ errs < MaxBridgeErrors
  BY <1>1, Unmoved DEF TypeInv, TypeOK, RoomLeft, Ends
<1>3. /\ UNCHANGED <<passes, idle, seen, noRaid, doneKey, report>>
      /\ banked' \in [Rivals -> -1 .. MaxStars]
  BY <1>1, <1>2 DEF runVars, RunTypeOK
<1>4. ASSUME NEW r \in Rivals, PickRival(r)
      PROVE  PassTypeOK' /\ pc' = "fighting" /\ errs' < MaxBridgeErrors
  BY <1>1, <1>2, <1>4, Limits DEF PickRival, PassTypeOK
<1>5. CASE RivalsDone
  BY <1>1, <1>2, <1>3, <1>5, Unmoved, RivalStepType DEF RivalsDone, Go
<1>6. CASE StartBattle
  <2>1. PassTypeOK' /\ errs' = errs /\ cur' = cur /\ cur \in Rivals
    BY <1>2, <1>6, Unmoved DEF StartBattle, PassTypeOK
  <2>. QED  BY <1>1, <1>2, <1>3, <1>6, <2>1, RivalStepType DEF StartBattle, Go
<1>7. CASE BeatenAlready
  <2>1. PassTypeOK' /\ errs' < MaxBridgeErrors /\ cur' \in Rivals
    BY <1>2, <1>7, Limits DEF BeatenAlready, PassTypeOK
  <2>. QED  BY <1>1, <1>2, <1>3, <1>7, <2>1, RivalStepType DEF BeatenAlready, Go
<1>. QED  BY <1>1, <1>2, <1>3, <1>4, <1>5, <1>6, <1>7, RivalStepType

(* An entry in rival_results, of a win or not.                             *)
LEMMA EntryType ==
  ASSUME TypeInv, NEW v \in BOOLEAN, Record(v),
         wins' \in SUBSET Rivals, earned' \in BOOLEAN
  PROVE  /\ PassTypeOK' /\ errs' < MaxBridgeErrors
         /\ pc' \in {"ranked", "fighting"}
<1>1. /\ pc' \in {"ranked", "fighting"}
      /\ todo' \in SUBSET Rivals
      /\ cur' \in Rivals \cup {NoRival}
      /\ attempt' \in 0 .. Plan
      /\ errs' = 0
      /\ tried' = TRUE
  BY RecordType DEF TypeInv
<1>2. tried' \in BOOLEAN
  BY <1>1, Zenon
<1>. QED  BY <1>1, <1>2, Limits DEF PassTypeOK

LEMMA LossType ==
  ASSUME TypeInv,
         \/ StartBattleRefused \/ DummyLoss
         \/ \E est \in Estimates : Abandon(est)
  PROVE  TypeInv'
<1>1. /\ pc \in {"fighting", "battle"}
      /\ UNCHANGED serverVars /\ UNCHANGED runVars
      /\ UNCHANGED raidVars /\ UNCHANGED claim /\ UNCHANGED history
      /\ HistoryTypeOK' /\ UNCHANGED marks
      /\ wins' = wins /\ earned' = earned
      /\ \E v \in BOOLEAN : Record(v)
  BY Unmoved DEF history, StartBattleRefused, DummyLoss, Abandon
<1>2. RunTypeOK /\ PassTypeOK /\ ServerTypeOK' /\ pc \notin Ends
  BY <1>1, Unmoved DEF TypeInv, TypeOK, Ends
<1>3. /\ UNCHANGED <<passes, idle, seen, noRaid, doneKey, report>>
      /\ banked' \in [Rivals -> -1 .. MaxStars]
  BY <1>1, <1>2 DEF runVars, RunTypeOK
<1>4. wins' \in SUBSET Rivals /\ earned' \in BOOLEAN
  BY <1>1, <1>2 DEF PassTypeOK
<1>5. /\ PassTypeOK' /\ errs' < MaxBridgeErrors
      /\ pc' \in {"ranked", "fighting"}
  BY <1>1, <1>4, EntryType
<1>. QED  BY <1>1, <1>2, <1>3, <1>5, RivalStepType

LEMMA LeaveType ==
  ASSUME TypeInv,
         StartBattleRaises \/ (\E heardOf \in BOOLEAN : Confirm(heardOf))
  PROVE  TypeInv'
<1>1. /\ pc \in {"fighting", "confirm"} /\ pc' = "fighting"
      /\ UNCHANGED serverVars /\ UNCHANGED runVars
      /\ UNCHANGED raidVars /\ UNCHANGED claim /\ UNCHANGED history
      /\ HistoryTypeOK' /\ UNCHANGED marks
      /\ LeaveRival /\ errs' = errs /\ earned' = earned /\ tried' = TRUE
      /\ wins' = wins \/ (wins' = wins \cup {cur} /\ pc = "confirm")
  BY Unmoved DEF history, StartBattleRaises, Confirm, Go
<1>2. /\ RunTypeOK /\ PassTypeOK /\ ServerTypeOK' /\ pc \notin Ends
      /\ errs < MaxBridgeErrors /\ (pc = "confirm" => cur \in Rivals)
  BY <1>1, Unmoved DEF TypeInv, TypeOK, Ends, RoomLeft, FightsSomeone
<1>3. /\ UNCHANGED <<passes, idle, seen, noRaid, doneKey, report>>
      /\ banked' \in [Rivals -> -1 .. MaxStars]
  BY <1>1, <1>2 DEF runVars, RunTypeOK
<1>4. PassTypeOK'
  <2>1. tried' \in BOOLEAN
    BY <1>1, Zenon
  <2>. QED  BY <1>1, <1>2, <2>1, Limits DEF PassTypeOK, LeaveRival
<1>. QED  BY <1>1, <1>2, <1>3, <1>4, RivalStepType

LEMMA BridgeErrorType ==
  ASSUME TypeInv, BridgeError
  PROVE  TypeInv'
<1>1. /\ pc = "battle"
      /\ UNCHANGED serverVars /\ UNCHANGED runVars
      /\ UNCHANGED raidVars /\ UNCHANGED claim /\ UNCHANGED history
      /\ HistoryTypeOK' /\ UNCHANGED marks
      /\ UNCHANGED <<wins, tried, earned>> /\ errs' = errs + 1
  BY Unmoved DEF history, BridgeError
<1>2. /\ TypeOK /\ RunTypeOK /\ PassTypeOK /\ ServerTypeOK' /\ pc \notin Ends
      /\ errs < MaxBridgeErrors
  BY <1>1, Unmoved DEF TypeInv, TypeOK, Ends, RoomLeft
<1>3. /\ UNCHANGED <<passes, idle, seen, noRaid, doneKey, report>>
      /\ banked' \in [Rivals -> -1 .. MaxStars]
  BY <1>1, <1>2 DEF runVars, RunTypeOK
<1>4. CASE errs + 1 >= MaxBridgeErrors
  <2>1. pc' = "bridge" /\ UNCHANGED <<todo, cur, attempt>>
    BY <1>4 DEF BridgeError, Go
  <2>2. PassTypeOK'
    BY <1>1, <1>2, <2>1, Limits DEF PassTypeOK
  <2>. QED  BY <1>1, <1>2, <1>3, <2>1, <2>2, RivalStepType
<1>5. CASE ~(errs + 1 >= MaxBridgeErrors)
  <2>1. pc' = "fighting" /\ NextAttempt
    BY <1>5 DEF BridgeError, Go
  <2>2. errs' \in 0 .. MaxBridgeErrors /\ errs' < MaxBridgeErrors
    BY <1>1, <1>2, <1>5, Limits DEF PassTypeOK
  <2>3. PassTypeOK'
    BY <1>1, <1>2, <2>1, <2>2, NextAttemptType DEF PassTypeOK
  <2>. QED  BY <1>1, <1>2, <1>3, <2>1, <2>2, <2>3, RivalStepType
<1>. QED  BY <1>4, <1>5

(* An EndBattle raises the score of the rival it names, if it is banked.   *)
LEMMA BattleBankType ==
  ASSUME TypeInv, pc = "battle", NEW reached \in 0 .. Full,
         \/ Bank([r \in {cur} |-> reached])
         \/ UNCHANGED score
  PROVE  score' \in [Rivals -> 0 .. Full]
<1>1. ServerTypeOK /\ cur \in Rivals
  BY DEF TypeInv, TypeOK, FightsSomeone
<1>2. CASE Bank([r \in {cur} |-> reached])
  <2>1. {cur} \in SUBSET Rivals /\ [r \in {cur} |-> reached] \in [{cur} -> 0 .. Full]
    BY <1>1
  <2>. QED  BY <1>1, <1>2, <2>1, BankRaises
<1>3. CASE UNCHANGED score
  BY <1>1, <1>3 DEF ServerTypeOK
<1>. QED  BY <1>2, <1>3

(* An improving loss that lands is noted for its tier.                     *)
LEMMA LandsType ==
  ASSUME TypeInv, pc = "battle", NEW est \in Estimates,
         \/ Lands(est)
         \/ UNCHANGED <<score, landed>>
  PROVE  /\ score' \in [Rivals -> 0 .. Full]
         /\ landed' \in [tier : Keys, best : [Rivals -> -1 .. MaxStars]]
<1>1. /\ landed \in [tier : Keys, best : [Rivals -> -1 .. MaxStars]]
      /\ tier \in Keys /\ cur \in Rivals
      /\ est.score \in 0 .. Full /\ est.stars \in -1 .. MaxStars
  BY TierAssumption
  DEF TypeInv, TypeOK, HistoryTypeOK, ServerTypeOK, FightsSomeone, Keys, Estimates
<1>2. score' \in [Rivals -> 0 .. Full]
  BY <1>1, BattleBankType DEF Lands
<1>3. LandedIn(tier) \in [Rivals -> -1 .. MaxStars]
  BY <1>1, TierAssumption DEF LandedIn
<1>4. CASE Lands(est) /\ Improves(est)
  <2>1. landed' = [tier |-> tier,
                   best |-> [LandedIn(tier) EXCEPT ![cur] =
                               IF est.stars > @ THEN est.stars ELSE @]]
    BY <1>4 DEF Lands
  <2>2. landed'.best \in [Rivals -> -1 .. MaxStars]
    <3>. HIDE DEF LandedIn
    <3>. QED  BY <1>1, <1>3, <2>1
  <2>. QED  BY <1>1, <1>2, <2>1, <2>2
<1>5. CASE ~(Lands(est) /\ Improves(est))
  BY <1>1, <1>2, <1>5 DEF Lands
<1>. QED  BY <1>4, <1>5

LEMMA EndBattleType ==
  ASSUME TypeInv, NEW est \in Estimates, EndBattle(est)
  PROVE  TypeInv'
<1>1. /\ pc = "battle" /\ Lands(est)
      /\ UNCHANGED <<tier, closed, finished>>
      /\ UNCHANGED <<passes, idle, seen, noRaid, doneKey, report>>
      /\ UNCHANGED raidVars /\ UNCHANGED claim
      /\ UNCHANGED <<shut, heard, marks>>
  BY DEF EndBattle
<1>2. /\ RunTypeOK /\ PassTypeOK /\ ServerTypeOK' /\ pc \notin Ends
      /\ cur \in Rivals /\ HistoryTypeOK'
  BY <1>1, LandsType, ScoreType
  DEF TypeInv, TypeOK, HistoryTypeOK, Ends, FightsSomeone, marks
<1>3. banked' \in [Rivals -> -1 .. MaxStars]
  <2>1. CASE Improves(est)
    <3>1. banked' = [banked EXCEPT ![cur] = est.stars]
      BY <2>1 DEF EndBattle
    <3>2. est.stars \in -1 .. MaxStars
      BY TierAssumption DEF Estimates
    <3>. QED  BY <1>2, <3>1, <3>2 DEF RunTypeOK
  <2>2. CASE ~Improves(est)
    BY <1>2, <2>2 DEF EndBattle, RunTypeOK
  <2>. QED  BY <2>1, <2>2
<1>4. earned' \in BOOLEAN
  <2>1. earned' = (earned \/ est.score > score[cur])
    BY DEF EndBattle
  <2>2. earned \in BOOLEAN
    BY <1>2 DEF PassTypeOK
  <2>. QED  BY <2>1, <2>2, Zenon
<1>5. CASE Win(est)
  <2>1. /\ wins' = wins \cup {cur} /\ tried' = TRUE /\ errs' = 0
        /\ LeaveRival /\ pc' = "fighting"
    BY <1>5 DEF EndBattle, Go
  <2>2. tried' \in BOOLEAN
    BY <2>1, Zenon
  <2>3. PassTypeOK'
    BY <1>2, <1>4, <2>1, <2>2, Limits DEF PassTypeOK, LeaveRival
  <2>4. errs' < MaxBridgeErrors
    BY <2>1, Limits
  <2>. QED  BY <1>1, <1>2, <1>3, <2>1, <2>3, <2>4, RivalStepType
<1>6. CASE ~Win(est)
  <2>1. Record(TRUE) /\ wins' = wins
    BY <1>6 DEF EndBattle
  <2>2. wins' \in SUBSET Rivals
    BY <1>2, <2>1 DEF PassTypeOK
  <2>3. /\ PassTypeOK' /\ errs' < MaxBridgeErrors
        /\ pc' \in {"ranked", "fighting"}
    BY <1>4, <2>1, <2>2, EntryType
  <2>. QED  BY <1>1, <1>2, <1>3, <2>3, RivalStepType
<1>. QED  BY <1>5, <1>6

LEMMA EndBattleFailsType ==
  ASSUME TypeInv, NEW est \in Estimates,
         EndBattleFails(est) \/ InvalidBattle(est)
  PROVE  TypeInv'
<1>1. /\ pc = "battle"
      /\ UNCHANGED <<tier, closed, finished>>
      /\ Lands(est) \/ UNCHANGED <<score, landed>>
      /\ UNCHANGED runVars
      /\ UNCHANGED raidVars /\ UNCHANGED claim
      /\ UNCHANGED <<shut, heard, marks>>
      /\ wins' = wins /\ earned' = earned
      /\ \/ Record(FALSE)
         \/ /\ errs' = 0 /\ NextAttempt /\ tried' = tried /\ pc' = "fighting"
  BY DEF EndBattleFails, InvalidBattle, serverVars, history, Go
<1>2. /\ TypeOK /\ RunTypeOK /\ PassTypeOK /\ ServerTypeOK' /\ pc \notin Ends
      /\ HistoryTypeOK'
  BY <1>1, LandsType, ScoreType DEF TypeInv, TypeOK, HistoryTypeOK, Ends, marks
<1>3. /\ UNCHANGED <<passes, idle, seen, noRaid, doneKey, report>>
      /\ banked' \in [Rivals -> -1 .. MaxStars]
  BY <1>1, <1>2 DEF runVars, RunTypeOK
<1>4. wins' \in SUBSET Rivals /\ earned' \in BOOLEAN
  BY <1>1, <1>2 DEF PassTypeOK
<1>5. /\ PassTypeOK' /\ errs' < MaxBridgeErrors
      /\ pc' \in {"ranked", "fighting"}
  <2>1. CASE Record(FALSE)
    BY <1>4, <2>1, EntryType
  <2>2. CASE errs' = 0 /\ NextAttempt /\ tried' = tried /\ pc' = "fighting"
    <3>1. tried' \in BOOLEAN
      BY <1>2, <2>2 DEF PassTypeOK
    <3>. QED
      BY <1>2, <1>4, <2>2, <3>1, NextAttemptType, Limits DEF PassTypeOK
  <2>. QED  BY <1>1, <2>1, <2>2
<1>. QED  BY <1>1, <1>2, <1>3, <1>5, RivalStepType

-----------------------------------------------------------------------------
(* CompleteTier and the ends of a run.                                     *)

LEMMA ClaimType ==
  ASSUME TypeOK, NEW k \in Keys,
         NEW occasion \in {"recheck", "earned", "pass"}, Claim(k, occasion)
  PROVE  pc' = "claiming" /\ ClaimTypeOK' /\ UNCHANGED passVars
BY DEF Claim, ClaimTypeOK, Go

LEMMA NoteIdleType ==
  ASSUME TypeOK, idle < MaxIdlePasses, NoteIdle("stuck")
  PROVE  /\ idle' \in 0 .. MaxIdlePasses
         /\ \/ pc' = "top" /\ idle' < MaxIdlePasses
            \/ pc' = "stuck"
<1>1. idle' = idle + 1 /\ idle \in Nat
  BY DEF NoteIdle, TypeOK, RunTypeOK
<1>2. CASE idle + 1 >= MaxIdlePasses
  BY <1>1, <1>2, Limits DEF NoteIdle, Go
<1>3. CASE ~(idle + 1 >= MaxIdlePasses)
  BY <1>1, <1>3, Limits DEF NoteIdle, Go
<1>. QED  BY <1>2, <1>3

(* A step of the loop that keeps the pass and leaves for the next call or  *)
(* for an end of the run.                                                  *)
LEMMA LoopStepType ==
  ASSUME TypeInv, ServerTypeOK', PassTypeOK', ClaimTypeOK', HistoryTypeOK',
         UNCHANGED raidVars, UNCHANGED <<passes, seen, banked, still>>,
         noRaid' \in Keys, doneKey' \in Keys, idle' \in 0 .. MaxIdlePasses,
         report' \in [tier : Keys, left : 0 .. Cardinality(Rivals)],
         \/ /\ pc' \in {"top", "fighting", "claiming", "final"}
            /\ idle' < MaxIdlePasses /\ errs' < MaxBridgeErrors
         \/ pc' \in Ends
  PROVE  TypeInv'
<1>1. RaidTypeOK' /\ RunTypeOK' /\ still' <= passes'
  BY Unmoved DEF TypeInv, TypeOK, RunTypeOK
<1>. QED
  BY <1>1 DEF TypeInv, TypeOK, FightsSomeone, RoomLeft, Ends

LEMMA AfterCompleteType ==
  ASSUME TypeInv, pc = "claiming", NEW ok \in BOOLEAN, AfterComplete(ok)
  PROVE  /\ noRaid' \in Keys /\ idle' \in 0 .. MaxIdlePasses
         /\ report' \in [tier : Keys, left : 0 .. Cardinality(Rivals)]
         /\ PassTypeOK'
         /\ \/ /\ pc' \in {"top", "fighting", "final"}
               /\ idle' < MaxIdlePasses /\ errs' < MaxBridgeErrors
            \/ pc' \in {"finished", "stuck"}
<1>1. /\ TypeOK /\ RunTypeOK /\ PassTypeOK /\ ClaimTypeOK /\ ServerTypeOK
      /\ idle < MaxIdlePasses /\ errs < MaxBridgeErrors
      /\ seen \in [tier : Keys, left : SUBSET Rivals]
  BY DEF TypeInv, TypeOK, RoomLeft, Ends, RunTypeOK
<1>2. UNCHANGED passVars => PassTypeOK' /\ errs' = errs
  BY Unmoved
<1>3. 0 \in 0 .. MaxIdlePasses /\ 0 < MaxIdlePasses
  BY Limits
<1>4. /\ idle \in 0 .. MaxIdlePasses /\ noRaid \in Keys /\ at \in Keys
      /\ report \in [tier : Keys, left : 0 .. Cardinality(Rivals)]
  BY <1>1 DEF RunTypeOK, ClaimTypeOK
<1>5. CASE noRaid' = at /\ BeginRivals(seen) /\ UNCHANGED <<idle, report>>
  BY <1>1, <1>4, <1>5, BeginType
<1>6. CASE Progress /\ UNCHANGED <<noRaid, report, passVars>>
  BY <1>1, <1>2, <1>3, <1>4, <1>6 DEF Progress, Go
<1>7. CASE /\ pc' \in {"top", "finished", "final"}
           /\ UNCHANGED <<idle, noRaid, report, passVars>>
  BY <1>1, <1>2, <1>4, <1>7
<1>8. CASE /\ report' = [tier |-> at, left |-> 0] /\ pc' = "finished"
           /\ UNCHANGED <<idle, noRaid, passVars>>
  BY <1>1, <1>2, <1>4, <1>8, LeftType
<1>9. CASE NoteIdle("stuck") /\ UNCHANGED <<noRaid, report, passVars>>
  BY <1>1, <1>2, <1>4, <1>9, NoteIdleType
<1>. QED  BY <1>5, <1>6, <1>7, <1>8, <1>9 DEF AfterComplete, Go

LEMMA CompleteType ==
  ASSUME TypeInv, CompleteTier \/ CompleteTierFails
  PROVE  TypeInv'
<1>1. /\ pc = "claiming" /\ (AfterComplete(TRUE) \/ AfterComplete(FALSE))
      /\ UNCHANGED <<passes, seen, banked>> /\ UNCHANGED raidVars
      /\ UNCHANGED claim /\ UNCHANGED <<marks, landed>>
      /\ UNCHANGED serverVars \/ (Advance /\ UNCHANGED closed)
      /\ doneKey' = at \/ doneKey' = doneKey
      /\ shut' = shut \/ shut' = shut \cup ({at} \cap Tiers)
      /\ heard' = heard \/ heard' = heard \cup ({at} \cap Tiers)
  BY DEF CompleteTier, CompleteTierFails
<1>2. ServerTypeOK'
  <2>1. ServerTypeOK /\ (UNCHANGED serverVars => ServerTypeOK')
    BY Unmoved DEF TypeInv, TypeOK
  <2>2. CASE Advance /\ UNCHANGED closed
    BY <2>1, <2>2, AdvanceType DEF ServerTypeOK
  <2>. QED  BY <1>1, <2>1, <2>2
<1>3. HistoryTypeOK' /\ ClaimTypeOK' /\ doneKey' \in Keys /\ still' = still
  BY <1>1, Unmoved
  DEF TypeInv, TypeOK, HistoryTypeOK, ClaimTypeOK, RunTypeOK, marks
<1>4. /\ noRaid' \in Keys /\ idle' \in 0 .. MaxIdlePasses
      /\ report' \in [tier : Keys, left : 0 .. Cardinality(Rivals)]
      /\ PassTypeOK'
      /\ \/ /\ pc' \in {"top", "fighting", "final"}
            /\ idle' < MaxIdlePasses /\ errs' < MaxBridgeErrors
         \/ pc' \in {"finished", "stuck"}
  BY <1>1, AfterCompleteType
<1>. QED  BY <1>1, <1>2, <1>3, <1>4, LoopStepType DEF Ends

LEMMA AskType ==
  ASSUME TypeInv, AskToComplete \/ Recheck \/ RecheckFails
  PROVE  TypeInv'
<1>1. /\ pc = "ranked" /\ UNCHANGED serverVars /\ UNCHANGED raidVars
      /\ UNCHANGED <<passes, seen, banked, noRaid, doneKey>>
      /\ UNCHANGED history /\ UNCHANGED passVars
      /\ report' = report \/ report' = Remaining
      /\ \/ /\ UNCHANGED claim /\ UNCHANGED idle
            /\ pc' \in {"finished", "stuck"}
         \/ NoteIdle("stuck") /\ UNCHANGED claim
         \/ /\ UNCHANGED idle
            /\ \E occasion \in {"recheck", "earned", "pass"} :
                 Claim(tier, occasion) \/ Claim(seen.tier, occasion)
  BY DEF AskToComplete, Recheck, RecheckFails, runVars, Claim, Go
<1>2. /\ TypeOK /\ RunTypeOK /\ ServerTypeOK /\ idle < MaxIdlePasses
      /\ errs < MaxBridgeErrors
      /\ tier \in Keys /\ seen.tier \in Keys
  BY <1>1, StatusType DEF TypeInv, TypeOK, RoomLeft, Ends, RunTypeOK
<1>3. /\ ServerTypeOK' /\ PassTypeOK' /\ HistoryTypeOK' /\ still' = still
      /\ errs' < MaxBridgeErrors /\ noRaid' \in Keys /\ doneKey' \in Keys
      /\ report' \in [tier : Keys, left : 0 .. Cardinality(Rivals)]
  BY <1>1, <1>2, Unmoved, StatusType DEF RunTypeOK
<1>4. CASE /\ UNCHANGED claim /\ UNCHANGED idle
           /\ pc' \in {"finished", "stuck"}
  <2>1. ClaimTypeOK' /\ idle' \in 0 .. MaxIdlePasses
    BY <1>2, <1>4, Unmoved DEF RunTypeOK
  <2>. QED  BY <1>1, <1>3, <1>4, <2>1, LoopStepType DEF Ends
<1>5. CASE NoteIdle("stuck") /\ UNCHANGED claim
  <2>1. ClaimTypeOK'
    BY <1>5, Unmoved
  <2>2. /\ idle' \in 0 .. MaxIdlePasses
        /\ \/ pc' = "top" /\ idle' < MaxIdlePasses
           \/ pc' = "stuck"
    BY <1>2, <1>5, NoteIdleType
  <2>. QED  BY <1>1, <1>3, <2>1, <2>2, LoopStepType DEF Ends
<1>6. CASE /\ UNCHANGED idle
           /\ \E occasion \in {"recheck", "earned", "pass"} :
                Claim(tier, occasion) \/ Claim(seen.tier, occasion)
  <2>1. pc' = "claiming" /\ ClaimTypeOK'
    BY <1>2, <1>6, ClaimType
  <2>2. idle' \in 0 .. MaxIdlePasses /\ idle' < MaxIdlePasses
    BY <1>2, <1>6 DEF RunTypeOK
  <2>. QED  BY <1>1, <1>3, <2>1, <2>2, LoopStepType
<1>. QED  BY <1>1, <1>4, <1>5, <1>6

LEMMA EndType ==
  ASSUME TypeInv, Finalize \/ FinalizeBlind \/ SessionLost \/ Interrupted
  PROVE  TypeInv'
<1>1. /\ pc' \in {"finished", "raised", "interrupted"}
      /\ UNCHANGED raidVars /\ UNCHANGED passVars /\ UNCHANGED claim
      /\ UNCHANGED history
      /\ UNCHANGED <<passes, idle, seen, noRaid, doneKey, banked>>
      /\ UNCHANGED serverVars \/ (Advance /\ UNCHANGED closed)
  BY DEF Finalize, FinalizeBlind, SessionLost, Interrupted, runVars, Go
<1>2. RunTypeOK /\ ServerTypeOK
  BY DEF TypeInv, TypeOK
<1>3. ServerTypeOK'
  <2>1. CASE Advance /\ UNCHANGED closed
    BY <1>2, <2>1, AdvanceType DEF ServerTypeOK
  <2>. QED  BY <1>1, <2>1, Unmoved
<1>4. report' \in [tier : Keys, left : 0 .. Cardinality(Rivals)]
  <2>1. CASE report' = report
    BY <1>2, <2>1 DEF RunTypeOK
  <2>2. CASE report' \in {[tier |-> tier, left |-> 0], Remaining}
    BY <1>2, <2>2, StatusType
  <2>3. CASE FinalizeBlind
    <3>1. /\ report.left \in 0 .. Cardinality(Rivals) /\ report.tier \in Keys
          /\ Cardinality(Rivals) \in Nat
      BY <1>2, LeftType DEF RunTypeOK
    <3>2. Cardinality(wins) \in Nat
      <4>1. wins \in SUBSET Rivals
        BY DEF TypeInv, TypeOK, PassTypeOK
      <4>. QED  BY <4>1, FS_Subset, FS_CardinalityType, ServerAssumption
    <3>3. PICK n \in 0 .. Cardinality(Rivals) : report' = [report EXCEPT !.left = n]
      BY <2>3, <3>1, <3>2 DEF FinalizeBlind
    <3>. QED  BY <1>2, <3>3 DEF RunTypeOK
  <2>4. \/ report' = report \/ FinalizeBlind
        \/ report' \in {[tier |-> tier, left |-> 0], Remaining}
    BY DEF Finalize, SessionLost, Interrupted, runVars
  <2>. QED  BY <2>1, <2>2, <2>3, <2>4
<1>5. /\ PassTypeOK' /\ ClaimTypeOK' /\ HistoryTypeOK' /\ still' = still
      /\ noRaid' \in Keys /\ doneKey' \in Keys /\ idle' \in 0 .. MaxIdlePasses
  BY <1>1, <1>2, Unmoved DEF RunTypeOK
<1>. QED  BY <1>1, <1>3, <1>4, <1>5, LoopStepType DEF Ends

LEMMA ElsewhereType ==
  ASSUME TypeInv, Elsewhere
  PROVE  TypeInv'
<1>1. /\ UNCHANGED pc /\ UNCHANGED runVars /\ UNCHANGED raidVars
      /\ UNCHANGED passVars /\ UNCHANGED claim /\ UNCHANGED history
  BY DEF Elsewhere
<1>2. ServerTypeOK'
  <2>1. ServerTypeOK
    BY DEF TypeInv, TypeOK
  <2>2. ASSUME NEW r \in Rivals, SomeoneClears(r) PROVE ServerTypeOK'
    BY <2>1, <2>2, Limits DEF SomeoneClears, ServerTypeOK
  <2>3. CASE SomeoneCompletes
    BY <2>1, <2>3, AdvanceType DEF SomeoneCompletes, ServerTypeOK
  <2>4. CASE SeasonEnds
    <3>1. closed' \in BOOLEAN
      BY <2>4, Zenon DEF SeasonEnds
    <3>. QED  BY <2>1, <2>4, <3>1 DEF SeasonEnds, ServerTypeOK
  <2>. QED  BY <2>2, <2>3, <2>4 DEF Elsewhere
<1>. QED
  BY <1>1, <1>2, Unmoved DEF TypeInv, TypeOK, FightsSomeone, RoomLeft

LEMMA TypeStep ==
  ASSUME TypeInv, [Next]_vars
  PROVE  TypeInv'
<1>1. CASE RaidStep
  BY <1>1, RaidBeginsType, StartRaidType, BridgeDeadType, EndRaidFailsType,
     EndRaidType, CheckRaidType, CheckRaidFailsType, RefreshType
  DEF RaidStep
<1>2. CASE RivalStep
  BY <1>2, PickType, LossType, LeaveType, BridgeErrorType, EndBattleType,
     EndBattleFailsType
  DEF RivalStep
<1>3. CASE LoopStep
  BY <1>3, TopType, AskType, CompleteType, EndType DEF LoopStep
<1>4. CASE Elsewhere
  BY <1>4, ElsewhereType
<1>5. CASE UNCHANGED vars
  BY <1>5, Unmoved DEF vars, TypeInv, TypeOK, FightsSomeone, RoomLeft
<1>. QED  BY <1>1, <1>2, <1>3, <1>4, <1>5 DEF Next

(* Every variable of the tier loop keeps its type: the attempts stay       *)
(* within the plan, the errors and idle passes within their limits and the *)
(* passes within the cap.                                                  *)
THEOREM LoopTyped == Spec => []TypeOK
<1>1. TypeInv /\ [Next]_vars => TypeInv'
  BY TypeStep
<1>2. TypeInv => TypeOK
  BY DEF TypeInv
<1>. QED  BY InitType, <1>1, <1>2, PTL DEF Spec
=============================================================================
