-------------------------- MODULE TitanTierClaims --------------------------
(***************************************************************************)
(* Proofs that the tier loop tells the truth about its rivals, does not    *)
(* repeat itself, leaves no tier behind and does not spin, for every set   *)
(* of rivals, number of tiers and options.                                 *)
(***************************************************************************)
EXTENDS TitanTierProofs

-----------------------------------------------------------------------------
(* What any step may do to the server: scores of a tier only rise, and a   *)
(* tier that can be completed may be.                                      *)
ServerMove ==
  \/ /\ tier' = tier /\ finished' = finished
     /\ \A r \in Rivals : score'[r] >= score[r]
  \/ Completable /\ Advance

LEMMA ScoresType ==
  ASSUME TypeInv
  PROVE  /\ tier \in Nat
         /\ \A r \in Rivals : score[r] \in 0 .. Full
BY Limits DEF TypeInv, TypeOK, ServerTypeOK, Tiers

LEMMA StandingStill ==
  ASSUME TypeInv, UNCHANGED <<tier, finished, score>>
  PROVE  ServerMove
BY ScoresType DEF ServerMove

LEMMA ServerMoves ==
  ASSUME TypeInv, [Next]_vars
  PROVE  ServerMove
<1>1. ServerTypeOK /\ raid.rivals \in SUBSET Rivals
  BY DEF TypeInv, TypeOK, RaidTypeOK
<1>2. ASSUME NEW reached \in Fights(raid.rivals), Bank(reached),
             UNCHANGED <<tier, finished>>
      PROVE  ServerMove
  <2>1. PICK V \in SUBSET Rivals : reached \in [V -> 0 .. Full]
    BY <1>1, <1>2, FightsType
  <2>. QED  BY <1>1, <1>2, <2>1, BankRaises DEF ServerMove
<1>3. ASSUME pc = "battle", NEW est \in Estimates,
             Bank([r \in {cur} |-> est.score]), UNCHANGED <<tier, finished>>
      PROVE  ServerMove
  <2>1. {cur} \in SUBSET Rivals /\ [r \in {cur} |-> est.score] \in [{cur} -> 0 .. Full]
    BY <1>3 DEF TypeInv, FightsSomeone, Estimates
  <2>. QED  BY <1>1, <1>3, <2>1, BankRaises DEF ServerMove
<1>4. CASE RaidStep
  <2>1. ASSUME NEW reached \in Fights(raid.rivals),
               \/ EndRaidFails(reached) \/ EndRaidEchoed(reached)
               \/ EndRaidUnechoed(reached)
        PROVE  ServerMove
    <3>1. /\ UNCHANGED <<tier, finished>>
          /\ Bank(reached) \/ UNCHANGED score
      BY <2>1 DEF EndRaidFails, EndRaidEchoed, EndRaidUnechoed
    <3>. QED  BY <1>2, <3>1, StandingStill
  <2>2. CASE \/ RaidRefused \/ StartRaid \/ RaidBridgeDead \/ RaidUnverified
             \/ CheckRaid \/ CheckRaidFails \/ Refresh \/ RefreshFails
    <3>1. UNCHANGED serverVars
      BY <2>2
      DEF RaidRefused, StartRaid, RaidBridgeDead, RaidUnverified, CheckRaid,
          CheckRaidFails, Refresh, RefreshFails
    <3>. QED  BY <3>1, StandingStill DEF serverVars
  <2>. QED  BY <1>4, <2>1, <2>2 DEF RaidStep
<1>5. CASE RivalStep
  <2>1. ASSUME NEW est \in Estimates, EndBattle(est) \/ EndBattleFails(est)
        PROVE  ServerMove
    <3>1. /\ pc = "battle" /\ UNCHANGED <<tier, finished>>
          /\ Bank([r \in {cur} |-> est.score]) \/ UNCHANGED score
      BY <2>1 DEF EndBattle, EndBattleFails, Lands
    <3>. QED  BY <1>3, <3>1, StandingStill
  <2>2. CASE \/ \E r \in Rivals : PickRival(r)
             \/ RivalsDone \/ StartBattle \/ StartBattleRefused
             \/ StartBattleRaises \/ BeatenAlready
             \/ \E heardOf \in BOOLEAN : Confirm(heardOf)
             \/ BridgeError \/ DummyLoss
             \/ \E est \in Estimates : Abandon(est) \/ InvalidBattle(est)
    <3>1. UNCHANGED serverVars
      BY <2>2
      DEF PickRival, RivalsDone, StartBattle, StartBattleRefused,
          StartBattleRaises, BeatenAlready, Confirm, BridgeError, DummyLoss,
          Abandon, InvalidBattle
    <3>. QED  BY <3>1, StandingStill DEF serverVars
  <2>. QED  BY <1>5, <2>1, <2>2 DEF RivalStep
<1>6. CASE LoopStep
  <2>1. UNCHANGED serverVars \/ (Completable /\ Advance)
    BY <1>6
    DEF LoopStep, CapReached, StatusFails, ReadStatus, AskToComplete, Recheck,
        RecheckFails, CompleteTier, CompleteTierFails, Finalize,
        FinalizeBlind, SessionLost, Interrupted
  <2>. QED  BY <2>1, StandingStill DEF serverVars, ServerMove
<1>7. CASE Elsewhere
  <2>1. ASSUME NEW r \in Rivals, SomeoneClears(r) PROVE ServerMove
    BY <1>1, <2>1, ScoresType DEF SomeoneClears, ServerMove, ServerTypeOK
  <2>2. CASE SomeoneCompletes
    BY <2>2 DEF SomeoneCompletes, ServerMove
  <2>3. CASE SeasonEnds
    BY <2>3, StandingStill DEF SeasonEnds
  <2>. QED  BY <1>7, <2>1, <2>2, <2>3 DEF Elsewhere
<1>8. CASE UNCHANGED vars
  BY <1>8, StandingStill DEF vars, serverVars
<1>. QED  BY <1>4, <1>5, <1>6, <1>7, <1>8 DEF Next

(* What follows for a tier and its rivals.                                 *)
LEMMA TiersRise ==
  ASSUME TypeInv, TypeInv', ServerMove
  PROVE  /\ tier' = tier \/ tier' = tier + 1
         /\ tier' = tier => /\ Left' \subseteq Left
                            /\ \A r \in Rivals : score'[r] >= score[r]
<1>1. /\ tier \in Nat /\ Full \in Nat
      /\ \A r \in Rivals : score[r] \in 0 .. Full /\ score'[r] \in 0 .. Full
  <2>1. ServerTypeOK /\ ServerTypeOK'
    BY DEF TypeInv, TypeOK
  <2>. QED  BY <2>1, Limits DEF ServerTypeOK, Tiers
<1>2. CASE \A r \in Rivals : score'[r] >= score[r]
  BY <1>1, <1>2 DEF ServerMove, Advance, Left
<1>3. CASE Advance
  BY <1>1, <1>3 DEF Advance, Left
<1>. QED  BY <1>2, <1>3 DEF ServerMove

-----------------------------------------------------------------------------
(* The run against the server. The status in use is never ahead of the     *)
(* server, and a rival said to be beaten up stays so in its tier.          *)
StatusIsPast == seen.tier <= tier

BeatenStays == pc = "confirm" /\ tier = seen.tier => cur \notin Left

RealInv ==
  /\ TypeInv
  /\ StatusIsPast
  /\ BeatenStays
  /\ WinsAreReal
  /\ BankedHasLanded

(* How the status in use, the wins and the banks of a run may change.      *)
RunMove ==
  \/ /\ seen' = seen /\ banked' = banked /\ wins' \in {wins, {}}
     /\ UNCHANGED landed \/ \E est \in Estimates : EndBattleFails(est)
  \/ /\ seen' = Status /\ wins' = {} /\ UNCHANGED <<serverVars, landed>>
     /\ \/ banked' = banked /\ tier = seen.tier
        \/ banked' = [r \in Rivals |-> -1]
  \/ /\ pc = "confirm" /\ wins' = wins \cup {cur}
     /\ seen' = seen /\ banked' = banked /\ UNCHANGED <<serverVars, landed>>
  \/ \E est \in Estimates : EndBattle(est)

LEMMA RunMoves ==
  ASSUME TypeInv, [Next]_vars
  PROVE  RunMove
<1>1. CASE RaidStep
  <2>1. ASSUME NEW w, AfterRaid(w) PROVE wins' \in {wins, {}}
    BY <2>1 DEF AfterRaid, BeginRivals, NewPass, passVars
  <2>2. ASSUME NEW k, NEW occasion, Claim(k, occasion) PROVE wins' = wins
    BY <2>2 DEF Claim, passVars
  <2>3. CASE \E reached \in Fights(raid.rivals) :
               \/ EndRaidFails(reached) \/ EndRaidEchoed(reached)
               \/ EndRaidUnechoed(reached)
    BY <2>1, <2>2, <2>3
    DEF EndRaidFails, EndRaidEchoed, EndRaidUnechoed, passVars, runVars, RunMove, history
  <2>4. CASE CheckRaid \/ CheckRaidFails
    BY <2>1, <2>2, <2>4 DEF CheckRaid, CheckRaidFails, runVars, RunMove, history, passVars
  <2>5. CASE RaidRefused \/ StartRaid \/ RaidBridgeDead \/ RaidUnverified
    BY <2>5
    DEF RaidRefused, StartRaid, RaidBridgeDead, RaidUnverified, BeginRivals,
        NewPass, passVars, runVars, RunMove, history
  <2>6. CASE Refresh \/ RefreshFails
    BY <2>6
    DEF Refresh, RefreshFails, BeginRivals, NewPass, passVars, runVars, RunMove, history
  <2>. QED  BY <1>1, <2>3, <2>4, <2>5, <2>6 DEF RaidStep
<1>2. CASE RivalStep
  <2>1. CASE \E heardOf \in BOOLEAN : Confirm(heardOf)
    BY <2>1 DEF Confirm, runVars, RunMove, history, passVars
  <2>2. CASE \E est \in Estimates : EndBattle(est)
    BY <2>2 DEF RunMove, history, passVars
  <2>3. CASE \/ \E r \in Rivals : PickRival(r)
             \/ RivalsDone \/ StartBattle \/ StartBattleRefused
             \/ StartBattleRaises \/ BeatenAlready \/ BridgeError \/ DummyLoss
             \/ \E est \in Estimates :
                  Abandon(est) \/ InvalidBattle(est) \/ EndBattleFails(est)
    BY <2>3
    DEF PickRival, RivalsDone, StartBattle, StartBattleRefused,
        StartBattleRaises, BeatenAlready, BridgeError, DummyLoss, Abandon,
        InvalidBattle, EndBattleFails, runVars, passVars, RunMove, history
  <2>. QED  BY <1>2, <2>1, <2>2, <2>3 DEF RivalStep
<1>3. CASE LoopStep
  <2>1. CASE ReadStatus
    BY <2>1
    DEF ReadStatus, BanksOfTier, BeginRivals, NewPass, passVars, RunMove, history
  <2>2. CASE CompleteTier \/ CompleteTierFails
    BY <2>2
    DEF CompleteTier, CompleteTierFails, AfterComplete, BeginRivals, NewPass,
        passVars, Progress, RunMove, history, passVars
  <2>3. CASE \/ CapReached \/ StatusFails \/ AskToComplete \/ Recheck
             \/ RecheckFails \/ Finalize \/ FinalizeBlind \/ SessionLost
             \/ Interrupted
    BY <2>3
    DEF CapReached, StatusFails, AskToComplete, Recheck, RecheckFails,
        Finalize, FinalizeBlind, SessionLost, Interrupted, Claim, runVars,
        passVars, RunMove, history
  <2>. QED  BY <1>3, <2>1, <2>2, <2>3 DEF LoopStep
<1>4. CASE Elsewhere \/ UNCHANGED vars
  BY <1>4 DEF Elsewhere, vars, runVars, passVars, RunMove, history
<1>. QED  BY <1>1, <1>2, <1>3, <1>4 DEF Next

(* Where each part of the loop leads.                                      *)
LEMMA RaidLeads ==
  ASSUME RaidStep
  PROVE  pc' \in {"raiding", "raidcheck", "refresh", "fighting", "claiming",
                  "top", "bridge"}
<1>1. ASSUME NEW w, AfterRaid(w) PROVE pc' \in {"refresh", "fighting"}
  BY <1>1 DEF AfterRaid, BeginRivals, Go
<1>2. ASSUME NEW k, NEW occasion, Claim(k, occasion) PROVE pc' = "claiming"
  BY <1>2 DEF Claim, Go
<1>3. CASE \E reached \in Fights(raid.rivals) :
             \/ EndRaidFails(reached) \/ EndRaidEchoed(reached)
             \/ EndRaidUnechoed(reached)
  BY <1>1, <1>2, <1>3 DEF EndRaidFails, EndRaidEchoed, EndRaidUnechoed, Go
<1>4. CASE CheckRaid \/ CheckRaidFails
  BY <1>1, <1>2, <1>4 DEF CheckRaid, CheckRaidFails
<1>5. CASE \/ RaidRefused \/ StartRaid \/ RaidBridgeDead \/ RaidUnverified
           \/ Refresh \/ RefreshFails
  BY <1>5
  DEF RaidRefused, StartRaid, RaidBridgeDead, RaidUnverified, Refresh,
      RefreshFails, BeginRivals, Go
<1>. QED  BY <1>3, <1>4, <1>5 DEF RaidStep

LEMMA RivalLeads ==
  ASSUME RivalStep, ~BeatenAlready
  PROVE  pc' \in {"fighting", "battle", "ranked", "bridge"}
<1>1. ASSUME NEW v, Record(v) PROVE pc' \in {"ranked", "fighting"}
  BY <1>1 DEF Record, Go
<1>2. CASE \E est \in Estimates :
             \/ Abandon(est) \/ EndBattle(est) \/ InvalidBattle(est)
             \/ EndBattleFails(est)
  BY <1>1, <1>2 DEF Abandon, EndBattle, InvalidBattle, EndBattleFails, Go
<1>3. CASE StartBattleRefused \/ DummyLoss
  BY <1>1, <1>3 DEF StartBattleRefused, DummyLoss
<1>4. CASE \/ \E r \in Rivals : PickRival(r)
           \/ RivalsDone \/ StartBattle \/ StartBattleRaises \/ BridgeError
           \/ \E heardOf \in BOOLEAN : Confirm(heardOf)
  BY <1>4
  DEF PickRival, RivalsDone, StartBattle, StartBattleRaises, BridgeError,
      Confirm, Go
<1>. QED  BY <1>2, <1>3, <1>4 DEF RivalStep

LEMMA LoopLeads ==
  ASSUME LoopStep
  PROVE  pc' \in {"top", "raid", "fighting", "claiming", "final"} \cup Ends
<1>1. CASE CompleteTier \/ CompleteTierFails
  BY <1>1
  DEF CompleteTier, CompleteTierFails, AfterComplete, BeginRivals, Progress,
      NoteIdle, Ends, Go
<1>2. CASE ReadStatus
  BY <1>2 DEF ReadStatus, BeginRivals, Ends, Go
<1>3. CASE \/ CapReached \/ StatusFails \/ AskToComplete \/ Recheck
           \/ RecheckFails \/ Finalize \/ FinalizeBlind \/ SessionLost
           \/ Interrupted
  BY <1>3
  DEF CapReached, StatusFails, AskToComplete, Recheck, RecheckFails, Finalize,
      FinalizeBlind, SessionLost, Interrupted, Claim, NoteIdle, Ends, Go
<1>. QED  BY <1>1, <1>2, <1>3 DEF LoopStep

LEMMA ConfirmStays ==
  ASSUME [Next]_vars, pc' = "confirm", ~BeatenAlready
  PROVE  pc = "confirm" /\ seen' = seen /\ cur' = cur
<1>1. Elsewhere \/ UNCHANGED vars
  BY RaidLeads, RivalLeads, LoopLeads DEF Next, Ends
<1>. QED  BY <1>1 DEF Elsewhere, vars, runVars, passVars

LEMMA InitReal == Init => RealInv
BY InitType, ScoresType
DEF Init, RealInv, StatusIsPast, BeatenStays, WinsAreReal, BankedHasLanded,
    LandedIn, NoTier

(* A loss that lands raises what has landed of the tier in use.            *)
LEMMA LandsGrow ==
  ASSUME RealInv, pc = "battle", NEW est \in Estimates, Lands(est),
         tier = seen.tier, UNCHANGED seen
  PROVE  /\ \A r \in Rivals : banked[r] <= LandedIn(seen.tier)'[r]
         /\ Improves(est) => est.stars <= LandedIn(seen.tier)'[cur]
<1>1. /\ landed \in [tier : Keys, best : [Rivals -> -1 .. MaxStars]]
      /\ cur \in Rivals /\ est.stars \in 0 .. MaxStars /\ MaxStars \in Nat
      /\ banked \in [Rivals -> -1 .. MaxStars]
      /\ \A r \in Rivals : banked[r] <= LandedIn(tier)[r]
  BY TierAssumption
  DEF RealInv, TypeInv, TypeOK, HistoryTypeOK, RunTypeOK, FightsSomeone, Estimates,
      BankedHasLanded
<1>2. LandedIn(tier) \in [Rivals -> -1 .. MaxStars]
  BY <1>1 DEF LandedIn
<1>3. CASE ~Improves(est)
  BY <1>1, <1>3 DEF Lands, LandedIn
<1>4. CASE Improves(est)
  <2>. DEFINE best == LandedIn(tier)
  <2>1. landed' = [tier |-> tier,
                   best |-> [best EXCEPT ![cur] = IF est.stars > @ THEN est.stars ELSE @]]
    BY <1>4 DEF Lands
  <2>2. LandedIn(seen.tier)' =
          [best EXCEPT ![cur] = IF est.stars > @ THEN est.stars ELSE @]
    BY <2>1 DEF LandedIn
  <2>3. best \in [Rivals -> -1 .. MaxStars] /\ \A r \in Rivals : banked[r] <= best[r]
    BY <1>1, <1>2
  <2>. HIDE DEF best
  <2>. QED  BY <1>1, <2>2, <2>3
<1>. QED  BY <1>3, <1>4

(* What EndBattle banks is what it remembers, and a win is one.            *)
LEMMA EndBattleReal ==
  ASSUME RealInv, TypeInv', NEW est \in Estimates, EndBattle(est)
  PROVE  WinsAreReal' /\ BankedHasLanded' /\ StatusIsPast'
<1>1. /\ pc = "battle" /\ Lands(est) /\ Bank([r \in {cur} |-> est.score])
      /\ UNCHANGED <<tier, seen>> /\ tier = seen.tier
  BY DEF EndBattle, Lands, Open
<1>2. /\ cur \in Rivals /\ ServerTypeOK /\ banked \in [Rivals -> -1 .. MaxStars]
      /\ \A r \in Rivals : score[r] \in 0 .. Full /\ score'[r] \in 0 .. Full
  BY <1>1
  DEF RealInv, TypeInv, TypeOK, RunTypeOK, FightsSomeone, ServerTypeOK
<1>3. /\ \A r \in Rivals : score'[r] >= score[r]
      /\ score'[cur] >= est.score
  <2>1. {cur} \in SUBSET Rivals /\ [r \in {cur} |-> est.score] \in [{cur} -> 0 .. Full]
    BY <1>2 DEF Estimates
  <2>. QED  BY <1>1, <1>2, <2>1, BankRaises
<1>4. WinsAreReal'
  <2>1. \/ wins' = wins
        \/ wins' = wins \cup {cur} /\ est.score = Full
    BY DEF EndBattle, Win
  <2>2. est.score = Full => cur \notin Left'
    BY <1>2, <1>3, Limits DEF Left
  <2>3. Left' \subseteq Left
    BY <1>2, <1>3, Limits DEF Left
  <2>. QED  BY <1>1, <2>1, <2>2, <2>3 DEF RealInv, WinsAreReal
<1>5. BankedHasLanded'
  <2>1. /\ \A r \in Rivals : banked[r] <= LandedIn(seen.tier)'[r]
        /\ Improves(est) => est.stars <= LandedIn(seen.tier)'[cur]
    BY <1>1, LandsGrow DEF RealInv
  <2>2. CASE Improves(est)
    <3>1. banked' = [banked EXCEPT ![cur] = est.stars]
      BY <2>2 DEF EndBattle
    <3>. QED  BY <1>2, <2>1, <2>2, <3>1 DEF BankedHasLanded
  <2>3. CASE ~Improves(est)
    BY <2>1, <2>3 DEF EndBattle, BankedHasLanded
  <2>. QED  BY <2>2, <2>3
<1>6. StatusIsPast'
  BY <1>1 DEF RealInv, StatusIsPast
<1>. QED  BY <1>4, <1>5, <1>6

LEMMA RealStep ==
  ASSUME RealInv, [Next]_vars
  PROVE  RealInv'
<1>1. TypeInv /\ TypeInv' /\ ServerMove /\ RunMove
  BY TypeStep, ServerMoves, RunMoves DEF RealInv
<1>2. /\ tier' = tier \/ tier' = tier + 1
      /\ tier' = tier => /\ Left' \subseteq Left
                         /\ \A r \in Rivals : score'[r] >= score[r]
  BY <1>1, TiersRise
<1>3. /\ tier \in Nat /\ seen.tier \in Nat /\ seen'.tier \in Nat
      /\ banked \in [Rivals -> -1 .. MaxStars]
      /\ \A r \in Rivals : score[r] \in 0 .. Full /\ score'[r] \in 0 .. Full
  BY <1>1, Limits
  DEF TypeInv, TypeOK, RunTypeOK, ServerTypeOK, Keys, Tiers, NoTier
<1>4. /\ StatusIsPast /\ BeatenStays /\ WinsAreReal /\ BankedHasLanded
  BY DEF RealInv
<1>5. StatusIsPast' /\ WinsAreReal' /\ BankedHasLanded'
  <2>1. CASE /\ seen' = seen /\ banked' = banked /\ wins' \in {wins, {}}
             /\ UNCHANGED landed \/ \E est \in Estimates : EndBattleFails(est)
    <3>1. tier' = seen'.tier => tier' = tier /\ tier = seen.tier
      BY <1>2, <1>3, <1>4, <2>1 DEF StatusIsPast
    <3>2. StatusIsPast'
      BY <1>2, <1>3, <1>4, <2>1 DEF StatusIsPast
    <3>3. WinsAreReal'
      BY <1>2, <1>4, <2>1, <3>1 DEF WinsAreReal
    <3>4. BankedHasLanded'
      <4>1. CASE UNCHANGED landed
        BY <1>4, <2>1, <4>1 DEF BankedHasLanded, LandedIn
      <4>2. ASSUME NEW est \in Estimates, EndBattleFails(est), ~UNCHANGED landed
            PROVE  BankedHasLanded'
        <5>1. pc = "battle" /\ Lands(est) /\ tier = seen.tier
          BY <4>2 DEF EndBattleFails, Open
        <5>. QED  BY <2>1, <5>1, LandsGrow DEF BankedHasLanded
      <4>. QED  BY <2>1, <4>1, <4>2
    <3>. QED  BY <3>2, <3>3, <3>4
  <2>2. CASE /\ seen' = Status /\ wins' = {} /\ UNCHANGED <<serverVars, landed>>
             /\ \/ banked' = banked /\ tier = seen.tier
                \/ banked' = [r \in Rivals |-> -1]
    <3>1. /\ seen'.tier = tier /\ tier' = tier /\ wins' = {}
          /\ LandedIn(seen.tier)' = LandedIn(tier)
      BY <2>2 DEF Status, serverVars, LandedIn
    <3>2. \A r \in Rivals : LandedIn(tier)[r] >= -1
      BY <1>1 DEF TypeInv, TypeOK, HistoryTypeOK, LandedIn
    <3>3. BankedHasLanded'
      BY <1>4, <2>2, <3>1, <3>2 DEF BankedHasLanded
    <3>. QED  BY <1>3, <3>1, <3>3 DEF StatusIsPast, WinsAreReal
  <2>3. CASE /\ pc = "confirm" /\ wins' = wins \cup {cur}
             /\ seen' = seen /\ banked' = banked /\ UNCHANGED <<serverVars, landed>>
    <3>1. Left' = Left
      BY <2>3 DEF serverVars, Left
    <3>. QED
      BY <1>4, <2>3, <3>1
      DEF serverVars, StatusIsPast, BeatenStays, WinsAreReal, BankedHasLanded,
          LandedIn
  <2>4. CASE \E est \in Estimates : EndBattle(est)
    BY <1>1, <2>4, EndBattleReal
  <2>. QED  BY <1>1, <2>1, <2>2, <2>3, <2>4 DEF RunMove
<1>6. BeatenStays'
  <2>1. CASE BeatenAlready
    BY <2>1 DEF BeatenAlready, BeatenStays, serverVars, Left, Go
  <2>2. CASE pc' = "confirm" /\ ~BeatenAlready
    <3>1. pc = "confirm" /\ seen' = seen /\ cur' = cur
      BY <2>2, ConfirmStays
    <3>. QED
      BY <1>2, <1>3, <1>4, <3>1 DEF StatusIsPast, BeatenStays
  <2>. QED  BY <2>1, <2>2 DEF BeatenStays
<1>. QED  BY <1>1, <1>5, <1>6 DEF RealInv

(* A win in rival_results is a rival the server has cleared.               *)
THEOREM WinsHold == Spec => []WinsAreReal
<1>1. RealInv /\ [Next]_vars => RealInv'
  BY RealStep
<1>2. RealInv => WinsAreReal
  BY DEF RealInv
<1>. QED  BY InitReal, <1>1, <1>2, PTL DEF Spec

(* What the run remembers to have banked has landed, in the tier in use.   *)
THEOREM BanksHold == Spec => []BankedHasLanded
<1>1. RealInv /\ [Next]_vars => RealInv'
  BY RealStep
<1>2. RealInv => BankedHasLanded
  BY DEF RealInv
<1>. QED  BY InitReal, <1>1, <1>2, PTL DEF Spec

-----------------------------------------------------------------------------
(* Nothing is sent twice. The keys a run keeps are of tiers it has met;    *)
(* the top tier is the last one; a tier that is shut or completed is known *)
(* by one of the two keys or left behind; and in a pass over a completed   *)
(* tier there is nothing to do.                                            *)
KeysArePast ==
  /\ noRaid <= tier /\ doneKey <= tier /\ at <= tier

TopIsLast ==
  /\ finished => Left = {} /\ tier = MaxTier
  /\ doneKey = tier => finished

ShutIsKnown == \A k \in shut : k = noRaid \/ k = doneKey \/ k < tier

HeardIsKnown == \A k \in heard : k < tier \/ k = doneKey

Raiding ==
  \/ pc \in {"raid", "raiding", "raidcheck"}
  \/ pc = "claiming" /\ why \in {"echo", "status"}

RaidIsOpen ==
  /\ Raiding => noRaid = NoTier
  /\ Raiding /\ pc = "claiming" => at = seen.tier

InPass ==
  Raiding \/ pc \in {"refresh", "fighting", "battle", "confirm", "ranked"}

NothingToDo ==
  pc \in {"fighting", "ranked"} /\ cur = NoRival /\ todo = {} /\ ~tried

HeardIsIdle == InPass /\ seen.tier \in heard => NothingToDo

OnceInv ==
  /\ TypeInv /\ StatusIsPast
  /\ KeysArePast /\ TopIsLast /\ ShutIsKnown /\ HeardIsKnown
  /\ RaidIsOpen /\ HeardIsIdle
  /\ NothingSentTwice

Keep == <<noRaid, doneKey, shut, heard>>

LEMMA InitOnce == Init => OnceInv
<1>. SUFFICES ASSUME Init PROVE OnceInv
  OBVIOUS
<1>1. TypeInv /\ tier \in Nat \ {0}
  BY InitType, Limits DEF TypeInv, TypeOK, ServerTypeOK, Tiers
<1>2. /\ pc = "top" /\ seen.tier = 0 /\ noRaid = 0 /\ doneKey = 0 /\ at = 0
      /\ shut = {} /\ heard = {} /\ ~finished
  BY DEF Init, ServerInit, NoTier
<1>. QED
  BY <1>1, <1>2
  DEF OnceInv, StatusIsPast, KeysArePast, TopIsLast, ShutIsKnown,
      HeardIsKnown, RaidIsOpen, Raiding, HeardIsIdle, InPass,
      NothingSentTwice

(* What the server does keeps the last tier last.                          *)
LEMMA TopStep ==
  ASSUME TypeInv, TypeInv', KeysArePast, TopIsLast, ServerMove
  PROVE  /\ tier' >= tier
         /\ finished' => Left' = {} /\ tier' = MaxTier
         /\ doneKey = tier' => finished'
<1>1. /\ tier' = tier \/ tier' = tier + 1
      /\ tier' = tier => Left' \subseteq Left
  BY TiersRise
<1>2. tier \in Nat /\ doneKey \in Nat /\ MaxTier \in Nat
  BY Limits
  DEF TypeInv, TypeOK, ServerTypeOK, RunTypeOK, Keys, Tiers, NoTier
<1>3. CASE tier' = tier /\ finished' = finished
  BY <1>1, <1>2, <1>3 DEF TopIsLast
<1>4. CASE Completable /\ Advance
  BY <1>1, <1>2, <1>4 DEF TopIsLast, KeysArePast, Completable, Advance
<1>. QED  BY <1>1, <1>2, <1>3, <1>4 DEF ServerMove

(* A step that leaves the keys of a run alone.                             *)
LEMMA KeysKept ==
  ASSUME OnceInv, TypeInv', ServerMove, UNCHANGED Keep, at' <= tier'
  PROVE  KeysArePast' /\ TopIsLast' /\ ShutIsKnown' /\ HeardIsKnown'
<1>1. /\ tier' >= tier
      /\ finished' => Left' = {} /\ tier' = MaxTier
      /\ doneKey = tier' => finished'
  BY TopStep DEF OnceInv
<1>2. /\ tier \in Nat /\ tier' \in Nat /\ noRaid \in Nat /\ doneKey \in Nat
      /\ shut \subseteq Nat /\ heard \subseteq Nat
  BY Limits
  DEF OnceInv, TypeInv, TypeOK, ServerTypeOK, RunTypeOK, HistoryTypeOK, Keys,
      Tiers, NoTier
<1>3. KeysArePast /\ ShutIsKnown /\ HeardIsKnown
  BY DEF OnceInv
<1>4. KeysArePast' /\ TopIsLast'
  BY <1>1, <1>2, <1>3 DEF Keep, KeysArePast, TopIsLast
<1>5. ShutIsKnown'
  BY <1>1, <1>2, <1>3 DEF Keep, ShutIsKnown
<1>6. HeardIsKnown'
  BY <1>1, <1>2, <1>3 DEF Keep, HeardIsKnown
<1>. QED  BY <1>4, <1>5, <1>6

LEMMA OnceTypes ==
  ASSUME TypeInv
  PROVE  /\ tier \in Nat \ {0} /\ seen.tier \in Nat /\ noRaid \in Nat
         /\ doneKey \in Nat /\ at \in Nat
         /\ shut \subseteq Nat \ {0} /\ heard \subseteq Nat \ {0}
BY Limits
DEF TypeInv, TypeOK, ServerTypeOK, RunTypeOK, ClaimTypeOK, HistoryTypeOK,
    Keys, Tiers, NoTier

LEMMA NextTier ==
  ASSUME TypeInv'
  PROVE  tier' \in Nat
BY Limits DEF TypeInv, TypeOK, ServerTypeOK, Tiers

(* A completed tier is the last one, and with it the season is finished.   *)
LEMMA HeardIsLast ==
  ASSUME OnceInv, tier \in heard
  PROVE  doneKey = tier /\ Left = {}
BY OnceTypes DEF OnceInv, HeardIsKnown, TopIsLast

(* The top of a pass: the suppression and the key are of the tier that is  *)
(* seen, or they do not count any more.                                    *)
LEMMA ReadOnce ==
  ASSUME OnceInv, TypeInv', ReadStatus
  PROVE  OnceInv'
<1>1. /\ UNCHANGED serverVars /\ UNCHANGED <<doneKey, shut, heard, at, why>>
      /\ tier' = tier /\ Left' = Left /\ pc = "top"
  BY DEF ReadStatus, serverVars, claim, Left
<1>2. /\ tier \in Nat \ {0} /\ noRaid \in Nat /\ doneKey \in Nat
      /\ shut \subseteq Nat \ {0} /\ heard \subseteq Nat \ {0}
      /\ KeysArePast /\ TopIsLast /\ ShutIsKnown /\ HeardIsKnown
  BY OnceTypes DEF OnceInv
<1>3. CASE closed
  <2>1. pc' = "closed" /\ UNCHANGED <<noRaid, seen>>
    BY <1>3 DEF ReadStatus, Go
  <2>. QED
    BY <1>1, <1>2, <2>1
    DEF OnceInv, StatusIsPast, KeysArePast, TopIsLast, ShutIsKnown,
        HeardIsKnown, RaidIsOpen, Raiding, HeardIsIdle, InPass,
        NothingSentTwice, serverVars
<1>4. CASE ~closed
  <2>1. /\ seen' = Status /\ seen'.tier = tier
        /\ noRaid' = IF noRaid = tier THEN noRaid ELSE NoTier
        /\ \/ pc' = "raid" /\ MayRaid
           \/ pc' = "fighting" /\ NewPass(Left)
    BY <1>4 DEF ReadStatus, BeginRivals, Status, Go
  <2>2. noRaid' <= tier /\ StatusIsPast' /\ KeysArePast' /\ TopIsLast'
    BY <1>1, <1>2, <2>1
    DEF StatusIsPast, KeysArePast, TopIsLast, NoTier, serverVars
  <2>3. ShutIsKnown' /\ HeardIsKnown'
    BY <1>1, <1>2, <2>1
    DEF ShutIsKnown, HeardIsKnown, KeysArePast
  <2>4. RaidIsOpen'
    BY <2>1 DEF RaidIsOpen, Raiding, MayRaid
  <2>5. HeardIsIdle' /\ NothingSentTwice'
    <3>1. CASE pc' = "raid" /\ MayRaid
      <4>1. noRaid' = 0 /\ noRaid # tier /\ doneKey # tier
        BY <1>2, <2>1, <3>1 DEF MayRaid, NoTier
      <4>2. tier \notin shut /\ tier \notin heard
        BY <1>2, <4>1 DEF ShutIsKnown, HeardIsKnown
      <4>. QED
        BY <1>1, <2>1, <3>1, <4>2 DEF HeardIsIdle, NothingSentTwice
    <3>2. CASE pc' = "fighting" /\ NewPass(Left)
      <4>1. tier \in heard => Left = {}
        BY HeardIsLast
      <4>2. todo' = Left /\ cur' = NoRival /\ ~tried'
        BY <3>2 DEF NewPass
      <4>. QED
        BY <1>1, <2>1, <3>2, <4>1, <4>2
        DEF HeardIsIdle, NothingToDo, NothingSentTwice
    <3>. QED  BY <2>1, <3>1, <3>2
  <2>. QED
    BY <2>2, <2>3, <2>4, <2>5 DEF OnceInv
<1>. QED  BY <1>3, <1>4

(* The raid, when it is given up.                                          *)
LEMMA SuppressOnce ==
  ASSUME OnceInv, TypeInv', ServerMove,
         \/ RaidRefused \/ RaidUnverified \/ CheckRaidFails
         \/ \E reached \in Fights(raid.rivals) : EndRaidFails(reached)
  PROVE  OnceInv'
<1>1. /\ pc \in {"raid", "raiding", "raidcheck"} /\ Suppress
      /\ UNCHANGED <<tier, doneKey, heard, seen, at, why>>
      /\ pc' \in {"refresh", "fighting"}
  <2>1. ASSUME NEW w, AfterRaid(w) PROVE pc' \in {"refresh", "fighting"}
    BY <2>1 DEF AfterRaid, BeginRivals, Go
  <2>2. CASE RaidRefused \/ RaidUnverified
    BY <2>2 DEF RaidRefused, RaidUnverified, BeginRivals, Go, serverVars, claim
  <2>3. CASE CheckRaidFails
    BY <2>1, <2>3 DEF CheckRaidFails, serverVars, claim
  <2>4. CASE \E reached \in Fights(raid.rivals) : EndRaidFails(reached)
    BY <2>1, <2>4 DEF EndRaidFails, claim
  <2>. QED  BY <2>2, <2>3, <2>4
<1>2. /\ noRaid' = seen.tier /\ shut' = shut \cup ({seen.tier} \cap Tiers)
      /\ noRaid = 0 /\ seen.tier \notin heard
  BY <1>1
  DEF OnceInv, RaidIsOpen, Raiding, NoTier, HeardIsIdle, InPass, NothingToDo,
      Suppress
<1>3. /\ tier \in Nat \ {0} /\ shut \subseteq Nat \ {0}
      /\ KeysArePast /\ ShutIsKnown /\ HeardIsKnown /\ StatusIsPast
  BY OnceTypes DEF OnceInv
<1>4. TopIsLast'
  BY <1>1, TopStep DEF OnceInv, TopIsLast
<1>5. KeysArePast' /\ StatusIsPast'
  BY <1>1, <1>2, <1>3 DEF KeysArePast, StatusIsPast
<1>6. ShutIsKnown' /\ HeardIsKnown'
  BY <1>1, <1>2, <1>3 DEF ShutIsKnown, HeardIsKnown
<1>7. RaidIsOpen' /\ HeardIsIdle' /\ NothingSentTwice'
  BY <1>1, <1>2
  DEF RaidIsOpen, Raiding, HeardIsIdle, NothingSentTwice
<1>. QED  BY <1>4, <1>5, <1>6, <1>7 DEF OnceInv

(* The raid, while it goes on, or leads to CompleteTier.                   *)
LEMMA RaidOnce ==
  ASSUME OnceInv, TypeInv', ServerMove,
         \/ StartRaid \/ RaidBridgeDead \/ CheckRaid \/ Refresh \/ RefreshFails
         \/ \E reached \in Fights(raid.rivals) :
              EndRaidEchoed(reached) \/ EndRaidUnechoed(reached)
  PROVE  OnceInv'
<1>1. /\ pc \in {"raid", "raiding", "raidcheck", "refresh"}
      /\ UNCHANGED Keep /\ tier' = tier
      /\ \/ seen' = seen
         \/ seen'.tier = tier /\ tier = seen.tier
      /\ \/ pc' \in {"raiding", "raidcheck"} /\ Raiding /\ UNCHANGED claim
         \/ /\ pc' \in {"refresh", "fighting", "bridge", "top"}
            /\ UNCHANGED claim
         \/ Raiding /\ pc' = "claiming" /\ at' = seen.tier /\ seen' = seen
  <2>1. ASSUME NEW w, AfterRaid(w) PROVE pc' \in {"refresh", "fighting"}
    BY <2>1 DEF AfterRaid, BeginRivals, Go
  <2>2. ASSUME NEW k, NEW occasion, Claim(k, occasion)
        PROVE  pc' = "claiming" /\ at' = k
    BY <2>2 DEF Claim, Go
  <2>3. CASE StartRaid \/ RaidBridgeDead
    BY <2>3
    DEF StartRaid, RaidBridgeDead, Go, Keep, runVars, history, serverVars,
        Raiding
  <2>4. CASE CheckRaid
    BY <2>1, <2>2, <2>4
    DEF CheckRaid, Keep, runVars, history, serverVars, Raiding
  <2>5. CASE Refresh \/ RefreshFails
    BY <2>5
    DEF Refresh, RefreshFails, BeginRivals, Go, Keep, runVars, history,
        serverVars, Status
  <2>6. CASE \E reached \in Fights(raid.rivals) :
               EndRaidEchoed(reached) \/ EndRaidUnechoed(reached)
    BY <2>1, <2>2, <2>6
    DEF EndRaidEchoed, EndRaidUnechoed, Go, Keep, runVars, history, Raiding
  <2>. QED  BY <2>3, <2>4, <2>5, <2>6
<1>2. /\ StatusIsPast' /\ at' <= tier' /\ seen'.tier = seen.tier
      /\ tier \in Nat
  BY <1>1, OnceTypes DEF OnceInv, StatusIsPast, KeysArePast, claim
<1>3. KeysArePast' /\ TopIsLast' /\ ShutIsKnown' /\ HeardIsKnown'
  BY <1>1, <1>2, KeysKept
<1>4. seen.tier \notin heard /\ heard' = heard /\ noRaid' = noRaid
  BY <1>1 DEF OnceInv, HeardIsIdle, InPass, Raiding, NothingToDo, Keep
<1>5. RaidIsOpen'
  BY <1>1, <1>4 DEF OnceInv, RaidIsOpen, Raiding
<1>6. HeardIsIdle' /\ NothingSentTwice'
  BY <1>1, <1>2, <1>4 DEF HeardIsIdle, NothingSentTwice
<1>. QED  BY <1>2, <1>3, <1>5, <1>6 DEF OnceInv

(* The rivals of a completed tier are none.                                *)
LEMMA RivalOnce ==
  ASSUME OnceInv, TypeInv', ServerMove, RivalStep
  PROVE  OnceInv'
<1>1. /\ pc \in {"fighting", "battle", "confirm"}
      /\ UNCHANGED Keep /\ tier' = tier /\ seen' = seen /\ UNCHANGED claim
      /\ pc' \in {"fighting", "battle", "confirm", "ranked", "bridge"}
  <2>1. pc' \in {"fighting", "battle", "confirm", "ranked", "bridge"}
    BY RivalLeads DEF BeatenAlready, Go
  <2>. QED
    BY <2>1
    DEF RivalStep, PickRival, RivalsDone, StartBattle, StartBattleRefused,
        StartBattleRaises, BeatenAlready, Confirm, BridgeError, DummyLoss,
        Abandon, EndBattle, InvalidBattle, EndBattleFails, Keep, runVars,
        history, serverVars
<1>2. StatusIsPast' /\ at' <= tier'
  BY <1>1 DEF OnceInv, StatusIsPast, KeysArePast, claim
<1>3. KeysArePast' /\ TopIsLast' /\ ShutIsKnown' /\ HeardIsKnown'
  BY <1>1, <1>2, KeysKept
<1>4. RaidIsOpen' /\ NothingSentTwice'
  BY <1>1 DEF RaidIsOpen, Raiding, NothingSentTwice
<1>5. HeardIsIdle'
  <2>1. CASE seen.tier \in heard
    <3>1. NothingToDo
      BY <1>1, <2>1 DEF OnceInv, HeardIsIdle, InPass
    <3>2. RivalsDone
      BY <3>1
      DEF NothingToDo, RivalStep, PickRival, RivalsDone, StartBattle,
          StartBattleRefused, StartBattleRaises, BeatenAlready, Confirm,
          BridgeError, DummyLoss, Abandon, EndBattle, InvalidBattle,
          EndBattleFails
    <3>. QED
      BY <3>1, <3>2 DEF RivalsDone, NothingToDo, HeardIsIdle, passVars, Go
  <2>2. CASE seen.tier \notin heard
    BY <1>1, <2>2 DEF HeardIsIdle, Keep
  <2>. QED  BY <2>1, <2>2
<1>. QED  BY <1>2, <1>3, <1>4, <1>5 DEF OnceInv

(* A pass that has fought asks for the tier it has seen, one that has not  *)
(* for the tier of a fresh status, unless its key is of that tier.         *)
LEMMA AskOnce ==
  ASSUME OnceInv, TypeInv', ServerMove, AskToComplete \/ Recheck \/ RecheckFails
  PROVE  OnceInv'
<1>1. /\ pc = "ranked" /\ UNCHANGED Keep /\ tier' = tier /\ seen' = seen
      /\ \/ pc' \in {"finished", "stuck", "top"} /\ UNCHANGED claim
         \/ /\ pc' = "claiming" /\ why' \in {"recheck", "earned", "pass"}
            /\ \/ at' = seen.tier /\ tried
               \/ at' = tier /\ doneKey # tier
  BY DEF AskToComplete, Recheck, RecheckFails, Claim, NoteIdle, Go, Keep,
         runVars, history, serverVars
<1>2. StatusIsPast' /\ at' <= tier' /\ tier \in Nat
  BY <1>1, OnceTypes DEF OnceInv, StatusIsPast, KeysArePast, claim
<1>3. KeysArePast' /\ TopIsLast' /\ ShutIsKnown' /\ HeardIsKnown'
  BY <1>1, <1>2, KeysKept
<1>4. RaidIsOpen' /\ HeardIsIdle'
  BY <1>1 DEF RaidIsOpen, Raiding, HeardIsIdle, InPass
<1>5. NothingSentTwice'
  <2>1. tried => seen.tier \notin heard
    BY <1>1 DEF OnceInv, HeardIsIdle, InPass, NothingToDo
  <2>2. doneKey # tier => tier \notin heard
    BY HeardIsLast
  <2>. QED  BY <1>1, <2>1, <2>2 DEF NothingSentTwice, Keep
<1>. QED  BY <1>2, <1>3, <1>4, <1>5 DEF OnceInv

(* CompleteTier: the tier is left behind, or it was the last.              *)
LEMMA CompleteOnce ==
  ASSUME OnceInv, TypeInv', ServerMove, CompleteTier
  PROVE  OnceInv'
<1>1. /\ pc = "claiming" /\ Completable /\ Advance
      /\ doneKey' = at /\ seen' = seen /\ at' = at /\ noRaid' = noRaid
      /\ heard' = heard \cup ({at} \cap Tiers)
      /\ shut' = shut \cup ({at} \cap Tiers)
      /\ pc' \in {"top", "finished", "final", "stuck"}
  BY DEF CompleteTier, AfterComplete, Progress, NoteIdle, Go, claim
<1>2. /\ tier \in Nat \ {0} /\ doneKey \in Nat /\ noRaid \in Nat /\ at \in Nat
      /\ seen.tier \in Nat /\ tier' >= tier
      /\ shut \subseteq Nat \ {0} /\ heard \subseteq Nat \ {0}
      /\ StatusIsPast /\ KeysArePast /\ ShutIsKnown /\ HeardIsKnown /\ TopIsLast
      /\ finished' => Left' = {} /\ tier' = MaxTier
      /\ tier' \in Nat
  BY OnceTypes, TopStep, NextTier DEF OnceInv
<1>3. doneKey < tier \/ doneKey < tier'
  BY <1>1, <1>2 DEF Completable, TopIsLast, KeysArePast
<1>4. tier' = tier => finished'
  BY <1>1, <1>2 DEF Advance
<1>5. StatusIsPast' /\ KeysArePast' /\ TopIsLast'
  BY <1>1, <1>2, <1>4 DEF StatusIsPast, KeysArePast, TopIsLast
<1>6. ShutIsKnown' /\ HeardIsKnown'
  BY <1>1, <1>2, <1>3 DEF ShutIsKnown, HeardIsKnown
<1>7. RaidIsOpen' /\ HeardIsIdle' /\ NothingSentTwice'
  BY <1>1
  DEF RaidIsOpen, Raiding, HeardIsIdle, InPass, NothingSentTwice
<1>. QED  BY <1>5, <1>6, <1>7 DEF OnceInv

LEMMA CompleteFailsOnce ==
  ASSUME OnceInv, TypeInv', ServerMove, CompleteTierFails
  PROVE  OnceInv'
<1>1. /\ pc = "claiming" /\ seen' = seen /\ doneKey' = doneKey
      /\ heard' = heard /\ UNCHANGED claim
  BY DEF CompleteTierFails
<1>2. /\ tier \in Nat \ {0} /\ noRaid \in Nat /\ at \in Nat
      /\ shut \subseteq Nat \ {0} /\ tier' >= tier
      /\ StatusIsPast /\ KeysArePast /\ ShutIsKnown /\ HeardIsKnown
      /\ finished' => Left' = {} /\ tier' = MaxTier
      /\ doneKey = tier' => finished'
      /\ tier' \in Nat /\ doneKey \in Nat /\ seen.tier \in Nat
      /\ heard \subseteq Nat \ {0} /\ KeysArePast
  BY OnceTypes, TopStep, NextTier DEF OnceInv
<1>3. CASE why \in {"echo", "status"}
  <2>1. /\ noRaid' = at /\ shut' = shut \cup ({at} \cap Tiers)
        /\ pc' = "fighting"
    BY <1>3 DEF CompleteTierFails, AfterComplete, BeginRivals, Go
  <2>2. noRaid = 0 /\ at = seen.tier /\ seen.tier \notin heard
    BY <1>1, <1>3
    DEF OnceInv, RaidIsOpen, Raiding, NoTier, HeardIsIdle, InPass, NothingToDo
  <2>3. StatusIsPast' /\ KeysArePast' /\ TopIsLast'
    BY <1>1, <1>2, <2>1
    DEF StatusIsPast, KeysArePast, TopIsLast, claim
  <2>4. ShutIsKnown' /\ HeardIsKnown'
    BY <1>1, <1>2, <2>1, <2>2 DEF ShutIsKnown, HeardIsKnown
  <2>5. RaidIsOpen' /\ HeardIsIdle' /\ NothingSentTwice'
    BY <1>1, <2>1, <2>2
    DEF RaidIsOpen, Raiding, HeardIsIdle, NothingSentTwice
  <2>. QED  BY <2>3, <2>4, <2>5 DEF OnceInv
<1>4. CASE why \notin {"echo", "status"}
  <2>1. /\ UNCHANGED Keep
        /\ pc' \in {"top", "finished", "final", "stuck"}
    BY <1>1, <1>4
    DEF CompleteTierFails, AfterComplete, Progress, NoteIdle, Go, Keep
  <2>2. StatusIsPast' /\ at' <= tier'
    BY <1>1, <1>2 DEF StatusIsPast, KeysArePast, claim
  <2>3. KeysArePast' /\ TopIsLast' /\ ShutIsKnown' /\ HeardIsKnown'
    BY <2>1, <2>2, KeysKept
  <2>4. RaidIsOpen' /\ HeardIsIdle' /\ NothingSentTwice'
    BY <2>1 DEF RaidIsOpen, Raiding, HeardIsIdle, InPass, NothingSentTwice
  <2>. QED  BY <2>2, <2>3, <2>4 DEF OnceInv
<1>. QED  BY <1>3, <1>4

(* Ends of a run and what happens elsewhere.                               *)
LEMMA EndOnce ==
  ASSUME OnceInv, TypeInv', ServerMove,
         \/ CapReached \/ StatusFails \/ Finalize \/ FinalizeBlind
         \/ SessionLost \/ Interrupted \/ Elsewhere \/ UNCHANGED vars
  PROVE  OnceInv'
<1>1. /\ UNCHANGED Keep /\ seen' = seen /\ UNCHANGED claim
      /\ \/ pc' \in Ends
         \/ UNCHANGED <<pc, cur, todo, tried>>
  BY DEF CapReached, StatusFails, Finalize, FinalizeBlind, SessionLost,
         Interrupted, Elsewhere, vars, runVars, passVars, history, Keep, Go,
         Ends
<1>2. /\ StatusIsPast' /\ at' <= tier'
  <2>1. tier' >= tier
    BY TopStep DEF OnceInv
  <2>2. tier' \in Nat
    BY NextTier
  <2>. QED
    BY <1>1, <2>1, <2>2, OnceTypes
    DEF OnceInv, StatusIsPast, KeysArePast, claim
<1>3. KeysArePast' /\ TopIsLast' /\ ShutIsKnown' /\ HeardIsKnown'
  BY <1>1, <1>2, KeysKept
<1>4. RaidIsOpen' /\ HeardIsIdle' /\ NothingSentTwice'
  BY <1>1
  DEF OnceInv, RaidIsOpen, Raiding, HeardIsIdle, InPass, NothingToDo,
      NothingSentTwice, Keep, claim, Ends
<1>. QED  BY <1>2, <1>3, <1>4 DEF OnceInv

LEMMA OnceStep ==
  ASSUME OnceInv, [Next]_vars
  PROVE  OnceInv'
<1>1. TypeInv' /\ ServerMove
  BY TypeStep, ServerMoves DEF OnceInv
<1>2. CASE RaidStep
  BY <1>1, <1>2, SuppressOnce, RaidOnce DEF RaidStep
<1>3. CASE RivalStep
  BY <1>1, <1>3, RivalOnce
<1>4. CASE LoopStep
  BY <1>1, <1>4, ReadOnce, AskOnce, CompleteOnce, CompleteFailsOnce, EndOnce
  DEF LoopStep
<1>5. CASE Elsewhere \/ UNCHANGED vars
  BY <1>1, <1>5, EndOnce
<1>. QED  BY <1>2, <1>3, <1>4, <1>5 DEF Next

(* A tier whose raid was given up, or that is completed, is not raided     *)
(* again, and no tier is completed twice.                                  *)
THEOREM SentOnce == Spec => []NothingSentTwice
<1>1. OnceInv /\ [Next]_vars => OnceInv'
  BY OnceStep
<1>2. OnceInv => NothingSentTwice
  BY DEF OnceInv
<1>. QED  BY InitOnce, <1>1, <1>2, PTL DEF Spec

-----------------------------------------------------------------------------
(* The summary. What it says is of the present tier or of an earlier one;  *)
(* that nothing is left of the present one stays true, because scores of a *)
(* tier only rise; and only a finished season leads to the last look.      *)
TrueInv ==
  /\ report.tier <= tier
  /\ ~closed /\ report = [tier |-> tier, left |-> 0] => Left = {}
  /\ pc = "final" => finished

LEMMA InitTrue == Init => TrueInv
<1>. SUFFICES ASSUME Init PROVE TrueInv
  OBVIOUS
<1>1. /\ tier \in Nat \ {0} /\ pc = "top" /\ report = [tier |-> 0, left |-> 0]
  BY InitType, Limits
  DEF Init, NoTier, TypeInv, TypeOK, ServerTypeOK, Tiers
<1>2. report.tier = 0
  BY <1>1
<1>. QED  BY <1>1, <1>2 DEF TrueInv

(* How a step may change the summary.                                      *)
ReportMove ==
  \/ report' = report
  \/ UNCHANGED serverVars /\ report' = Remaining
  \/ UNCHANGED serverVars /\ closed /\ report' = [tier |-> tier, left |-> 0]
  \/ CompleteTier /\ at = MaxTier /\ report' = [tier |-> at, left |-> 0]
  \/ UNCHANGED serverVars /\ pc = "final" /\ report'.tier = report.tier

LEMMA ReportMoves ==
  ASSUME TypeInv, [Next]_vars
  PROVE  ReportMove
<1>1. CASE RaidStep
  BY <1>1
  DEF RaidStep, RaidRefused, StartRaid, RaidBridgeDead, RaidUnverified,
      EndRaidFails, EndRaidEchoed, EndRaidUnechoed, CheckRaid, CheckRaidFails,
      Refresh, RefreshFails, runVars, ReportMove
<1>2. CASE RivalStep
  BY <1>2
  DEF RivalStep, PickRival, RivalsDone, StartBattle, StartBattleRefused,
      StartBattleRaises, BeatenAlready, Confirm, BridgeError, DummyLoss,
      Abandon, EndBattle, InvalidBattle, EndBattleFails, runVars, ReportMove
<1>3. CASE LoopStep
  <2>1. CASE CompleteTier \/ CompleteTierFails
    BY <2>1 DEF CompleteTier, CompleteTierFails, AfterComplete, ReportMove
  <2>2. CASE ReadStatus \/ Recheck \/ Finalize
    BY <2>2 DEF ReadStatus, Recheck, Finalize, ReportMove
  <2>3. CASE FinalizeBlind
    <3> DEFINE left == IF report.left > Cardinality(wins)
                       THEN report.left - Cardinality(wins) ELSE 0
    <3>1. report' = [report EXCEPT !.left = left]
      BY <2>3 DEF FinalizeBlind
    <3>2. report'.tier = report.tier
      BY <3>1 DEF TypeInv, TypeOK, RunTypeOK
    <3>. QED  BY <2>3, <3>2 DEF FinalizeBlind, ReportMove
  <2>4. CASE \/ CapReached \/ StatusFails \/ AskToComplete \/ RecheckFails
             \/ SessionLost \/ Interrupted
    BY <2>4
    DEF CapReached, StatusFails, AskToComplete, RecheckFails, SessionLost,
        Interrupted, runVars, ReportMove
  <2>. QED  BY <1>3, <2>1, <2>2, <2>3, <2>4 DEF LoopStep
<1>4. CASE Elsewhere \/ UNCHANGED vars
  BY <1>4 DEF Elsewhere, vars, runVars, ReportMove
<1>. QED  BY <1>1, <1>2, <1>3, <1>4 DEF Next

(* A season that has ended stays so.                                       *)
LEMMA ClosedStays ==
  ASSUME [Next]_vars, closed
  PROVE  closed'
<1>1. CASE RaidStep
  BY <1>1
  DEF RaidStep, RaidRefused, StartRaid, RaidBridgeDead, RaidUnverified,
      EndRaidFails, EndRaidEchoed, EndRaidUnechoed, CheckRaid, CheckRaidFails,
      Refresh, RefreshFails, serverVars
<1>2. CASE RivalStep
  BY <1>2
  DEF RivalStep, PickRival, RivalsDone, StartBattle, StartBattleRefused,
      StartBattleRaises, BeatenAlready, Confirm, BridgeError, DummyLoss,
      Abandon, EndBattle, InvalidBattle, EndBattleFails, serverVars
<1>3. CASE LoopStep
  BY <1>3
  DEF LoopStep, CapReached, StatusFails, ReadStatus, AskToComplete, Recheck,
      RecheckFails, CompleteTier, CompleteTierFails, Finalize, FinalizeBlind,
      SessionLost, Interrupted, serverVars
<1>4. CASE Elsewhere \/ UNCHANGED vars
  BY <1>4
  DEF Elsewhere, SomeoneClears, SomeoneCompletes, SeasonEnds, vars, serverVars
<1>. QED  BY <1>1, <1>2, <1>3, <1>4 DEF Next

(* The last look follows the completion of the top tier.                   *)
LEMMA FinalIsLast ==
  ASSUME OnceInv, TrueInv, [Next]_vars, ServerMove, pc' = "final"
  PROVE  finished'
<1>1. tier \in 1 .. MaxTier /\ at <= tier /\ at \in Nat /\ MaxTier \in Nat
  BY OnceTypes, Limits
  DEF OnceInv, KeysArePast, TypeInv, TypeOK, ServerTypeOK, Tiers
<1>2. CASE CompleteTier \/ CompleteTierFails
  <2>1. CompleteTier /\ at = MaxTier
    BY <1>2
    DEF CompleteTier, CompleteTierFails, AfterComplete, BeginRivals, Progress,
        NoteIdle, Go
  <2>. QED  BY <1>1, <2>1 DEF CompleteTier, Advance
<1>3. CASE pc = "final" /\ ~CompleteTier
  BY <1>3 DEF TrueInv, ServerMove, Advance
<1>4. CASE ~(CompleteTier \/ CompleteTierFails)
  <2>1. pc = "final"
    <3>1. ~RaidStep
      BY RaidLeads
    <3>2. ~RivalStep
      BY RivalLeads DEF BeatenAlready, Go
    <3>3. ~LoopStep
      BY <1>4
      DEF LoopStep, CapReached, StatusFails, ReadStatus, AskToComplete,
          Recheck, RecheckFails, Finalize, FinalizeBlind, SessionLost,
          Interrupted, BeginRivals, Claim, NoteIdle, Go
    <3>4. Elsewhere \/ UNCHANGED vars
      BY <3>1, <3>2, <3>3 DEF Next
    <3>. QED  BY <3>4 DEF Elsewhere, vars
  <2>. QED  BY <1>3, <1>4, <2>1
<1>. QED  BY <1>2, <1>4

LEMMA TrueStep ==
  ASSUME OnceInv, TrueInv, [Next]_vars
  PROVE  TrueInv'
<1>1. TypeInv /\ TypeInv' /\ ServerMove /\ ReportMove
  BY TypeStep, ServerMoves, ReportMoves DEF OnceInv
<1>2. /\ tier' = tier \/ tier' = tier + 1
      /\ tier' = tier => Left' \subseteq Left
      /\ closed => closed'
  BY <1>1, TiersRise, ClosedStays
<1>3. /\ tier \in Nat /\ tier' \in Nat
      /\ report.tier \in Nat /\ report'.tier \in Nat /\ at \in Nat /\ at <= tier
  BY <1>1, OnceTypes, NextTier, Limits
  DEF OnceInv, KeysArePast, TypeInv, TypeOK, RunTypeOK, Keys, Tiers, NoTier
<1>4. pc' = "final" => finished'
  BY <1>1, FinalIsLast
<1>5. CASE report' = report
  <2>1. report' = [tier |-> tier', left |-> 0] =>
          tier' = tier /\ report = [tier |-> tier, left |-> 0]
    BY <1>2, <1>3, <1>5 DEF TrueInv
  <2>. QED  BY <1>2, <1>3, <1>4, <1>5, <2>1 DEF TrueInv
<1>6. CASE UNCHANGED serverVars /\ report' = Remaining
  <2>1. report'.tier = tier /\ report'.left = Cardinality(Left)
    BY <1>6 DEF Remaining
  <2>2. Cardinality(Left) = 0 => Left = {}
    BY <1>1, LeftType, FS_Subset, FS_EmptySet, ServerAssumption
    DEF TypeInv, TypeOK
  <2>3. Left' = Left /\ tier' = tier /\ closed' = closed
    BY <1>6 DEF serverVars, Left
  <2>. QED  BY <1>3, <1>4, <2>1, <2>2, <2>3 DEF TrueInv
<1>7. CASE UNCHANGED serverVars /\ closed /\ report' = [tier |-> tier, left |-> 0]
  BY <1>3, <1>4, <1>7 DEF TrueInv, serverVars
<1>8. CASE CompleteTier /\ at = MaxTier /\ report' = [tier |-> at, left |-> 0]
  <2>1. /\ tier \in 1 .. MaxTier /\ MaxTier \in Nat /\ Completable /\ Advance
    BY <1>1, <1>8, Limits DEF CompleteTier, TypeInv, TypeOK, ServerTypeOK, Tiers
  <2>2. tier = MaxTier /\ tier' = tier /\ Left' = Left /\ Left = {}
    BY <1>3, <1>8, <2>1 DEF Advance, Completable, Left
  <2>. QED  BY <1>3, <1>4, <1>8, <2>2 DEF TrueInv
<1>9. CASE UNCHANGED serverVars /\ pc = "final" /\ report'.tier = report.tier
  <2>1. Left = {} /\ Left' = Left /\ tier' = tier
    BY <1>9 DEF OnceInv, TopIsLast, TrueInv, serverVars, Left
  <2>. QED  BY <1>4, <1>9, <2>1 DEF TrueInv
<1>. QED  BY <1>1, <1>5, <1>6, <1>7, <1>8, <1>9 DEF ReportMove

(* A summary that says nothing is left of the tier is right, whichever     *)
(* status, raid or count of wins it was taken from.                        *)
THEOREM ReportsHold == Spec => []ReportIsTrue
<1>1. Init => OnceInv /\ TrueInv
  BY InitOnce, InitTrue
<1>2. OnceInv /\ TrueInv /\ [Next]_vars => OnceInv' /\ TrueInv'
  BY OnceStep, TrueStep
<1>3. OnceInv /\ TrueInv => ReportIsTrue
  BY DEF TrueInv, ReportIsTrue
<1>. QED  BY <1>1, <1>2, <1>3, PTL DEF Spec

-----------------------------------------------------------------------------
(* The tier that is not left behind. While every call succeeds and nobody  *)
(* else plays, the snapshot less the pass's wins is what the server has    *)
(* left, and nobody has left the rivals still to fight; so that the loop   *)
(* stops before CompleteTier only where a rival is left, or after it.      *)
Calm == ~Flaky /\ ~Shared /\ ~closed

InRivals == pc \in {"fighting", "battle", "ranked"}

UpToDate ==
  /\ pc \in {"raid", "raiding"} \/ (pc = "raidcheck" /\ ~raidWon) =>
        Left = seen.left
  /\ InRivals => /\ Left = seen.left \ wins
                 /\ todo \subseteq Left /\ cur \in todo \cup {NoRival}
                 /\ tried => seen.left # {}
  /\ InRivals \/ pc \in {"raid", "raiding", "raidcheck", "refresh"} =>
        tier = seen.tier

BehindInv ==
  Calm =>
    /\ UpToDate
    /\ pc # "confirm"
    /\ pc = "raiding" => raid = [tier |-> tier, rivals |-> Left] /\ Left # {}
    /\ pc = "raidcheck" => ~finished
    /\ pc = "claiming" => IF why \in {"echo", "status"} THEN Completable
                          ELSE why = "recheck" \/ Rivals # {}
    /\ pc \in {"finished", "stuck", "bridge"} => ~Completable

LEMMA InitBehind == Init => BehindInv
BY DEF Init, BehindInv, UpToDate, InRivals

(* What a set of battles leaves.                                           *)
LEMMA BankLeaves ==
  ASSUME ServerTypeOK, NEW V \in SUBSET Rivals, NEW reached \in [V -> 0 .. Full],
         Bank(reached)
  PROVE  Left' = Left \ {r \in V : reached[r] = Full}
<1>1. /\ DOMAIN reached = V /\ Full \in Nat \ {0}
      /\ \A r \in Rivals : score[r] \in 0 .. Full
  BY Limits DEF ServerTypeOK
<1>2. \A r \in Rivals : score'[r] = IF r \in V /\ reached[r] > score[r]
                                    THEN reached[r] ELSE score[r]
  BY <1>1 DEF Bank
<1>3. \A r \in Rivals : score'[r] < Full <=>
         score[r] < Full /\ ~(r \in V /\ reached[r] = Full)
  BY <1>1, <1>2
<1>. QED  BY <1>3 DEF Left

(* A pass begins with what is left.                                        *)
LEMMA BeginsUpToDate ==
  ASSUME NEW s, BeginRivals(s), s.left = Left, Left' = Left,
         seen' = s, tier' = seen'.tier
  PROVE  BehindInv'
BY DEF BeginRivals, NewPass, Go, BehindInv, UpToDate, InRivals

LEMMA RaidBehind ==
  ASSUME OnceInv, BehindInv, Calm, RaidStep
  PROVE  BehindInv'
<1>1. ServerTypeOK /\ (finished => Left = {})
  BY DEF OnceInv, TypeInv, TypeOK, TopIsLast
<1>2. CASE RaidRefused \/ RaidUnverified
  BY <1>2, BeginsUpToDate
  DEF RaidRefused, RaidUnverified, BehindInv, UpToDate, serverVars, Left
<1>3. CASE StartRaid
  BY <1>3
  DEF StartRaid, Go, BehindInv, UpToDate, InRivals, serverVars, runVars, Left
<1>4. CASE RaidBridgeDead
  BY <1>4
  DEF RaidBridgeDead, Go, BehindInv, UpToDate, InRivals, serverVars, Left,
      Completable
<1>5. ASSUME NEW reached \in Fights(raid.rivals),
             \/ EndRaidFails(reached) \/ EndRaidEchoed(reached)
             \/ EndRaidUnechoed(reached)
      PROVE  BehindInv'
  <2>1. /\ pc = "raiding" /\ raid.tier = tier /\ raid.rivals = Left /\ Left # {}
        /\ Left = seen.left /\ tier = seen.tier /\ RaidOpen
    BY <1>5
    DEF EndRaidFails, EndRaidEchoed, EndRaidUnechoed, BehindInv, UpToDate,
        RaidOpen, Calm
  <2>2. ~EndRaidFails(reached)
    BY <2>1 DEF EndRaidFails, Calm
  <2>3. Bank(reached) /\ UNCHANGED <<tier, closed, finished, seen>>
    BY <1>5, <2>2 DEF EndRaidEchoed, EndRaidUnechoed, runVars
  <2>4. raid.rivals \in SUBSET Rivals
    BY <2>1, <1>1, LeftType
  <2>5. PICK V \in SUBSET Rivals : reached \in [V -> 0 .. Full] /\ V \subseteq Left
    BY <2>1, <2>4, FightsType DEF Fights
  <2>6. Left' = Left \ {r \in V : reached[r] = Full}
    BY <1>1, <2>3, <2>5, BankLeaves
  <2>7. ~WonIn(reached) => Left' = Left
    BY <2>5, <2>6 DEF WonIn
  <2>8. ~finished
    BY <1>1, <2>1
  <2>9. ASSUME AfterRaid(WonIn(reached)) PROVE BehindInv'
    <3>1. CASE WonIn(reached)
      BY <2>1, <2>3, <2>9, <3>1
      DEF AfterRaid, Go, BehindInv, UpToDate, InRivals
    <3>2. CASE ~WonIn(reached)
      BY <2>1, <2>3, <2>7, <2>9, <3>2, BeginsUpToDate DEF AfterRaid
    <3>. QED  BY <3>1, <3>2
  <2>10. CASE EndRaidEchoed(reached)
    <3>1. CASE \A r \in raid.rivals : score'[r] >= Full
      <4>1. pc' = "claiming" /\ why' = "echo"
        BY <2>10, <3>1 DEF EndRaidEchoed, Claim, Go
      <4>2. \A r \in Left' : r \in raid.rivals /\ score'[r] < Full
        BY <2>1, <2>6 DEF Left
      <4>3. Full \in Nat /\ \A r \in Rivals : score'[r] \in 0 .. Full
        BY <1>1, <2>3, <2>5, BankRaises, Limits
      <4>4. \A r \in Left' : r \in Rivals
        BY DEF Left
      <4>5. Left' = {}
        BY <3>1, <4>2, <4>3, <4>4
      <4>. QED  BY <2>3, <2>8, <4>1, <4>5
                DEF BehindInv, UpToDate, InRivals, Completable, Calm
    <3>2. CASE ~\A r \in raid.rivals : score'[r] >= Full
      BY <2>9, <2>10, <3>2 DEF EndRaidEchoed
    <3>. QED  BY <3>1, <3>2
  <2>11. CASE EndRaidUnechoed(reached)
    BY <2>1, <2>3, <2>7, <2>8, <2>11
    DEF EndRaidUnechoed, Go, BehindInv, UpToDate, InRivals
  <2>. QED  BY <1>5, <2>2, <2>10, <2>11
<1>6. CASE CheckRaid
  <2>1. /\ pc = "raidcheck" /\ UNCHANGED serverVars /\ UNCHANGED seen /\ ~finished
        /\ tier = seen.tier /\ (~raidWon => Left = seen.left)
    BY <1>6 DEF CheckRaid, runVars, BehindInv, UpToDate
  <2>2. CASE Left = {}
    BY <1>6, <2>1, <2>2
    DEF CheckRaid, Claim, Go, BehindInv, UpToDate, InRivals, Completable, Calm,
        serverVars, Left
  <2>3. CASE Left # {} /\ raidWon
    BY <1>6, <2>1, <2>3
    DEF CheckRaid, AfterRaid, Go, BehindInv, UpToDate, InRivals, serverVars
  <2>4. CASE Left # {} /\ ~raidWon
    BY <1>6, <2>1, <2>4, BeginsUpToDate DEF CheckRaid, AfterRaid, serverVars, Left
  <2>. QED  BY <2>2, <2>3, <2>4
<1>7. CASE Refresh
  <2>1. tier = seen.tier /\ ~closed
    BY <1>7 DEF Refresh, BehindInv, UpToDate, Calm
  <2>. QED  BY <1>7, <2>1, BeginsUpToDate DEF Refresh, Status, serverVars, Left
<1>8. CASE CheckRaidFails \/ RefreshFails
  BY <1>8 DEF CheckRaidFails, RefreshFails, Calm
<1>. QED  BY <1>2, <1>3, <1>4, <1>5, <1>6, <1>7, <1>8 DEF RaidStep

(* A rival that is still to fight is left.                                 *)
LEMMA FightsLeft ==
  ASSUME OnceInv, BehindInv, Calm, pc \in {"fighting", "battle"}, cur # NoRival
  PROVE  /\ cur \in todo /\ cur \in Left /\ Open(seen.tier, cur)
         /\ seen.left # {}
BY DEF BehindInv, UpToDate, InRivals, Calm, Open

(* A step to another rival or attempt, of a rival that is not won.         *)
LEMMA OnToTheNext ==
  ASSUME BehindInv, Calm, InRivals, Left' = Left, UNCHANGED <<tier, seen, wins>>,
         pc' \in {"fighting", "battle", "ranked"},
         \/ UNCHANGED <<todo, cur>>
         \/ todo' = todo \ {cur} /\ cur' = NoRival
         \/ todo' = todo /\ cur' \in todo,
         tried' => tried \/ seen.left # {}
  PROVE  BehindInv'
<1>1. /\ Left = seen.left \ wins /\ todo \subseteq Left
      /\ cur \in todo \cup {NoRival} /\ (tried => seen.left # {})
      /\ tier = seen.tier
  BY DEF BehindInv, UpToDate
<1>2. /\ Left' = seen'.left \ wins' /\ todo' \subseteq Left'
      /\ cur' \in todo' \cup {NoRival} /\ (tried' => seen'.left # {})
      /\ tier' = seen'.tier
  BY <1>1
<1>. QED  BY <1>2 DEF BehindInv, UpToDate, InRivals

LEMMA RivalBehind ==
  ASSUME OnceInv, BehindInv, Calm, RivalStep
  PROVE  BehindInv'
<1>1. /\ ServerTypeOK /\ NoRival \notin Rivals /\ FightsSomeone
      /\ pc = "battle" => cur # NoRival
  BY TierAssumption
  DEF OnceInv, TypeInv, TypeOK, FightsSomeone
<1>2. ASSUME NEW v, Record(v)
      PROVE  /\ pc' \in {"fighting", "ranked"} /\ tried'
             /\ \/ UNCHANGED <<todo, cur>>
                \/ todo' = todo \ {cur} /\ cur' = NoRival
  BY <1>2 DEF Record, NextAttempt, LeaveRival, Go
<1>3. CASE (\E r \in Rivals : PickRival(r)) \/ RivalsDone \/ StartBattle
  BY <1>3, OnToTheNext
  DEF PickRival, RivalsDone, StartBattle, Go, InRivals, serverVars, runVars,
      passVars, Left
<1>4. CASE StartBattleRefused \/ StartBattleRaises \/ BeatenAlready
  BY <1>4, FightsLeft
  DEF StartBattleRefused, StartBattleRaises, BeatenAlready, Open, Calm
<1>5. ASSUME NEW heardOf \in BOOLEAN, Confirm(heardOf) PROVE FALSE
  BY <1>5 DEF Confirm, BehindInv
<1>6. CASE DummyLoss
  <2>1. Left' = Left /\ UNCHANGED <<tier, seen, wins>>
    BY <1>6 DEF DummyLoss, serverVars, runVars, Left
  <2>. QED  BY <1>1, <1>2, <1>6, <2>1, FightsLeft, OnToTheNext
            DEF DummyLoss, InRivals
<1>7. CASE BridgeError
  <2>1. Left' = Left /\ UNCHANGED <<tier, seen, wins, tried>> /\ pc = "battle"
    BY <1>7 DEF BridgeError, serverVars, runVars, Left
  <2>2. cur \in Left
    BY <1>1, <2>1, FightsLeft
  <2>3. CASE pc' = "bridge"
    BY <2>1, <2>2, <2>3 DEF BehindInv, UpToDate, InRivals, Completable
  <2>4. CASE pc' = "fighting" /\ NextAttempt
    BY <2>1, <2>4, OnToTheNext DEF NextAttempt, LeaveRival, InRivals
  <2>. QED  BY <1>7, <2>3, <2>4 DEF BridgeError, Go
<1>8. ASSUME NEW est \in Estimates, Abandon(est) PROVE BehindInv'
  <2>1. Left' = Left /\ UNCHANGED <<tier, seen, wins>>
    BY <1>8 DEF Abandon, serverVars, runVars, Left
  <2>. QED  BY <1>1, <1>2, <1>8, <2>1, FightsLeft, OnToTheNext
            DEF Abandon, InRivals
<1>9. ASSUME NEW est \in Estimates, InvalidBattle(est) PROVE BehindInv'
  <2>1. Left' = Left /\ UNCHANGED <<tier, seen, wins>> /\ pc = "battle"
    BY <1>9 DEF InvalidBattle, serverVars, runVars, Left
  <2>2. \/ pc' = "fighting" /\ NextAttempt /\ tried' = tried
        \/ Record(FALSE)
    BY <1>9 DEF InvalidBattle, Go
  <2>3. seen.left # {}
    BY <1>1, <2>1, FightsLeft
  <2>4. /\ pc' \in {"fighting", "battle", "ranked"}
        /\ \/ UNCHANGED <<todo, cur>>
           \/ todo' = todo \ {cur} /\ cur' = NoRival
    BY <1>2, <2>2 DEF NextAttempt, LeaveRival
  <2>. QED  BY <2>1, <2>3, <2>4, OnToTheNext DEF InRivals
<1>10. ASSUME NEW est \in Estimates, EndBattleFails(est) PROVE FALSE
  BY <1>1, <1>10, FightsLeft DEF EndBattleFails, Calm
<1>11. ASSUME NEW est \in Estimates, EndBattle(est) PROVE BehindInv'
  <2> DEFINE fought == [r \in {cur} |-> est.score]
  <2>1. /\ pc = "battle" /\ cur \in todo /\ cur \in Left /\ seen.left # {}
        /\ Bank(fought) /\ UNCHANGED <<tier, closed, seen>>
    BY <1>1, <1>11, FightsLeft DEF EndBattle, Lands
  <2>2. {cur} \in SUBSET Rivals /\ fought \in [{cur} -> 0 .. Full]
    BY <2>1 DEF Left, Estimates
  <2>3. Left' = Left \ {r \in {cur} : fought[r] = Full}
    BY <1>1, <2>1, <2>2, BankLeaves
  <2>4. CASE Win(est)
    <3>1. Left' = Left \ {cur}
      BY <2>3, <2>4 DEF Win
    <3>2. /\ wins' = wins \cup {cur} /\ tried' = TRUE /\ pc' = "fighting"
          /\ todo' = todo \ {cur} /\ cur' = NoRival
      BY <1>11, <2>4 DEF EndBattle, LeaveRival, Go
    <3>3. Left = seen.left \ wins /\ todo \subseteq Left /\ tier = seen.tier
      BY <2>1 DEF BehindInv, UpToDate, InRivals
    <3>4. /\ Left' = seen'.left \ wins' /\ todo' \subseteq Left'
          /\ tier' = seen'.tier /\ seen'.left # {}
      BY <2>1, <3>1, <3>2, <3>3
    <3>. QED  BY <3>2, <3>4 DEF BehindInv, UpToDate, InRivals
  <2>5. CASE ~Win(est)
    <3>1. Left' = Left
      BY <2>3, <2>5 DEF Win
    <3>2. Record(TRUE) /\ wins' = wins
      BY <1>11, <2>5 DEF EndBattle
    <3>. QED  BY <1>2, <2>1, <3>1, <3>2, OnToTheNext DEF InRivals
  <2>. QED  BY <2>4, <2>5
<1>. QED
  BY <1>3, <1>4, <1>5, <1>6, <1>7, <1>8, <1>9, <1>10, <1>11 DEF RivalStep

LEMMA LoopBehind ==
  ASSUME OnceInv, TrueInv, BehindInv, Calm, LoopStep
  PROVE  BehindInv'
<1>1. /\ ServerTypeOK /\ (finished => Left = {}) /\ (doneKey = tier => finished)
      /\ tier \in 1 .. MaxTier /\ MaxTier \in Nat /\ Full \in Nat \ {0}
      /\ at \in Nat /\ at <= tier /\ seen.left \subseteq Rivals
  BY Limits, OnceTypes
  DEF OnceInv, TypeInv, TypeOK, RunTypeOK, TopIsLast, KeysArePast, ServerTypeOK,
      Tiers
<1>2. CASE CapReached \/ Interrupted
  BY <1>2 DEF CapReached, Interrupted, Go, BehindInv, UpToDate, InRivals
<1>3. CASE StatusFails \/ RecheckFails \/ SessionLost
  BY <1>3 DEF StatusFails, RecheckFails, SessionLost, Calm
<1>4. CASE ReadStatus
  <2>1. /\ seen' = Status /\ UNCHANGED serverVars
        /\ \/ pc' = "raid"
           \/ BeginRivals(Status)
    BY <1>4 DEF ReadStatus, Calm, Go
  <2>2. Left' = Left /\ Status.left = Left /\ tier' = Status.tier
    BY <2>1 DEF Status, serverVars, Left
  <2>3. CASE pc' = "raid"
    BY <2>1, <2>2, <2>3 DEF BehindInv, UpToDate, InRivals
  <2>. QED  BY <2>1, <2>2, <2>3, BeginsUpToDate
<1>5. CASE AskToComplete
  <2>1. /\ Left = seen.left \ wins /\ seen.left # {} /\ UNCHANGED serverVars
    BY <1>5 DEF AskToComplete, BehindInv, UpToDate, InRivals
  <2>2. Left' = Left
    BY <2>1 DEF serverVars, Left
  <2>3. CASE pc' = "stuck" /\ wins = {}
    BY <2>1, <2>2, <2>3 DEF BehindInv, UpToDate, InRivals, Completable
  <2>4. CASE pc' = "claiming" /\ why' \in {"earned", "pass"}
    BY <1>1, <2>1, <2>4 DEF BehindInv, UpToDate, InRivals
  <2>. QED  BY <1>5, <2>3, <2>4 DEF AskToComplete, Claim, Go
<1>6. CASE Recheck
  <2>1. UNCHANGED serverVars /\ Left' = Left /\ finished' = finished
    BY <1>6 DEF Recheck, serverVars, Left
  <2>2. CASE pc' = "claiming" /\ why' = "recheck"
    BY <2>2 DEF BehindInv, UpToDate, InRivals
  <2>3. CASE pc' \in {"top", "stuck", "finished"} /\ (Left = {} => doneKey = tier)
    BY <1>1, <2>1, <2>3 DEF BehindInv, UpToDate, InRivals, Completable
  <2>. QED  BY <1>6, <2>2, <2>3 DEF Recheck, Claim, NoteIdle, Go
<1>7. CASE CompleteTier
  <2>1. tier = MaxTier => finished'
    BY <1>7 DEF CompleteTier, Advance
  <2>2. tier # MaxTier => Left' = Rivals
    BY <1>1, <1>7 DEF CompleteTier, Advance, Left
  <2>3. at = MaxTier => tier = MaxTier
    BY <1>1
  <2>4. \/ pc' \in {"top", "final"}
        \/ pc' = "finished" /\ at = MaxTier
        \/ pc' = "stuck" /\ why \in {"earned", "pass"}
    BY <1>7 DEF CompleteTier, AfterComplete, Progress, NoteIdle, Go
  <2>5. why \in {"earned", "pass"} => Rivals # {}
    BY <1>7 DEF CompleteTier, BehindInv
  <2>. QED
    BY <2>1, <2>2, <2>3, <2>4, <2>5
    DEF BehindInv, UpToDate, InRivals, Completable
<1>8. CASE CompleteTierFails
  <2>1. ~Completable /\ UNCHANGED serverVars /\ pc = "claiming"
    BY <1>8 DEF CompleteTierFails, Calm
  <2>2. why \notin {"echo", "status"}
    BY <2>1 DEF BehindInv
  <2>3. pc' \in {"top", "finished", "final", "stuck"}
    BY <1>8, <2>2
    DEF CompleteTierFails, AfterComplete, Progress, NoteIdle, Go
  <2>4. ~Completable'
    BY <2>1 DEF Completable, serverVars, Left
  <2>. QED  BY <2>3, <2>4 DEF BehindInv, UpToDate, InRivals
<1>9. CASE Finalize \/ FinalizeBlind
  <2>1. finished' /\ pc' = "finished"
    BY <1>9 DEF Finalize, FinalizeBlind, TrueInv, serverVars, Go
  <2>. QED  BY <2>1 DEF BehindInv, UpToDate, InRivals, Completable
<1>. QED
  BY <1>2, <1>3, <1>4, <1>5, <1>6, <1>7, <1>8, <1>9 DEF LoopStep

LEMMA BehindStep ==
  ASSUME OnceInv, TrueInv, BehindInv, [Next]_vars
  PROVE  BehindInv'
<1>1. CASE ~Calm'
  BY <1>1 DEF BehindInv, Calm
<1>2. CASE Calm'
  <2>1. Calm
    BY <1>2, ClosedStays DEF Calm
  <2>2. CASE Elsewhere
    BY <2>1, <2>2
    DEF Elsewhere, SomeoneClears, SomeoneCompletes, SeasonEnds, Calm
  <2>3. CASE UNCHANGED vars
    BY <2>3
    DEF vars, serverVars, runVars, raidVars, passVars, claim, BehindInv, Calm,
        UpToDate, InRivals, Completable, Left
  <2>. QED  BY <2>1, <2>2, <2>3, RaidBehind, RivalBehind, LoopBehind DEF Next
<1>. QED  BY <1>1, <1>2

(* A run no call of which fails, and that has the arena for itself, never  *)
(* stops in a tier it could have completed.                                *)
THEOREM NoneLeftBehind == Spec => []NoTierLeftBehind
<1>1. Init => OnceInv /\ TrueInv /\ BehindInv
  BY InitOnce, InitTrue, InitBehind
<1>2. OnceInv /\ TrueInv /\ BehindInv /\ [Next]_vars =>
        OnceInv' /\ TrueInv' /\ BehindInv'
  BY OnceStep, TrueStep, BehindStep
<1>3. BehindInv => NoTierLeftBehind
  BY DEF BehindInv, Calm, NoTierLeftBehind, Completable
<1>. QED  BY <1>1, <1>2, <1>3, PTL DEF Spec

-----------------------------------------------------------------------------
(* No spinning. The server at the last pass's status is never ahead of the *)
(* present one, so that a server which has moved since stays moved until   *)
(* the next status. While it has not, every pass counts as idle, but for   *)
(* the one whose EndRaid failed, after which its tier is raided no more.   *)
Moved == mark # Standing

MarkIsPast ==
  /\ mark.tier <= tier
  /\ mark.tier = tier => \A r \in Rivals : mark.score[r] <= score[r]
  /\ mark.finished => finished

Playing ==
  pc \in {"raid", "raiding", "raidcheck", "refresh", "fighting", "battle",
          "confirm", "ranked", "claiming"}

AtTop ==
  still <= idle + (IF noRaid = tier THEN MaxIdlePasses ELSE 0)

InThePass ==
  /\ seen = Status /\ wins = {} /\ ~earned
  /\ still <= idle + 1 +
       (IF noRaid = tier /\ ~raidWon THEN MaxIdlePasses ELSE 0)
  /\ raidWon => noRaid = tier
  /\ pc = "refresh" => raidWon
  /\ pc = "raiding" => raid.rivals \subseteq Left
  /\ pc \in {"fighting", "battle"} => todo \subseteq Left
                                      /\ cur \in todo \cup {NoRival}
  /\ pc # "confirm"
  /\ pc = "claiming" => why # "earned"

AsFound == (pc = "top" => AtTop) /\ (Playing => InThePass)

SpinInv ==
  /\ MarkIsPast
  /\ NoIdleSpinning
  /\ ~Moved => AsFound

LEMMA InitSpin == Init => SpinInv
<1>. SUFFICES ASSUME Init PROVE SpinInv
  OBVIOUS
<1>1. TypeInv
  BY InitType
<1>2. pc = "top" /\ still = 0 /\ idle = 0 /\ mark = Standing
  BY DEF Init
<1>3. tier \in Nat /\ MaxIdlePasses \in Nat
  BY <1>1, ScoresType, Limits
<1>4. MarkIsPast
  BY <1>1, <1>2, <1>3, ScoresType DEF MarkIsPast, Standing
<1>. QED
  BY <1>2, <1>3, <1>4 DEF SpinInv, AsFound, NoIdleSpinning, AtTop, Playing

LEMMA MarksMove ==
  ASSUME [Next]_vars
  PROVE  ReadStatus \/ UNCHANGED marks
<1>1. CASE RaidStep
  BY <1>1
  DEF RaidStep, RaidRefused, StartRaid, RaidBridgeDead, RaidUnverified,
      EndRaidFails, EndRaidEchoed, EndRaidUnechoed, CheckRaid, CheckRaidFails,
      Refresh, RefreshFails, history
<1>2. CASE RivalStep
  BY <1>2
  DEF RivalStep, PickRival, RivalsDone, StartBattle, StartBattleRefused,
      StartBattleRaises, BeatenAlready, Confirm, BridgeError, DummyLoss,
      Abandon, EndBattle, InvalidBattle, EndBattleFails, history
<1>3. CASE LoopStep
  BY <1>3
  DEF LoopStep, CapReached, StatusFails, AskToComplete, Recheck, RecheckFails,
      CompleteTier, CompleteTierFails, Finalize, FinalizeBlind, SessionLost,
      Interrupted, history
<1>4. CASE Elsewhere \/ UNCHANGED vars
  BY <1>4 DEF Elsewhere, vars, history
<1>. QED  BY <1>1, <1>2, <1>3, <1>4 DEF Next

LEMMA MarkStep ==
  ASSUME TypeInv, MarkIsPast, [Next]_vars
  PROVE  MarkIsPast'
<1>1. TypeInv' /\ ServerMove
  BY TypeStep, ServerMoves
<1>2. /\ tier \in Nat /\ tier' \in Nat /\ mark.tier \in Nat /\ mark'.tier \in Nat
      /\ \A r \in Rivals : /\ score[r] \in Nat /\ score'[r] \in Nat
                           /\ mark.score[r] \in Nat /\ mark'.score[r] \in Nat
  BY <1>1, Limits
  DEF TypeInv, TypeOK, ServerTypeOK, HistoryTypeOK, Tiers
<1>3. CASE UNCHANGED marks
  <2>1. /\ tier' = tier \/ tier' = tier + 1
        /\ tier' = tier => \A r \in Rivals : score'[r] >= score[r]
    BY <1>1, TiersRise
  <2>2. finished => finished'
    BY <1>1 DEF ServerMove, Completable
  <2>3. mark' = mark
    BY <1>3 DEF marks
  <2>. QED  BY <1>2, <2>1, <2>2, <2>3 DEF MarkIsPast
<1>4. CASE ReadStatus
  BY <1>2, <1>4 DEF ReadStatus, MarkIsPast, Standing, serverVars
<1>. QED  BY <1>3, <1>4, MarksMove

(* A step after which the server still stands as the pass found it.        *)
LEMMA StandsStill ==
  ASSUME TypeInv, MarkIsPast, [Next]_vars, UNCHANGED marks, ~Moved'
  PROVE  ~Moved /\ UNCHANGED <<tier, score, finished>> /\ Left' = Left
<1>1. TypeInv' /\ ServerMove /\ mark' = mark
  BY TypeStep, ServerMoves DEF marks
<1>2. /\ tier \in Nat /\ tier' \in Nat
      /\ score \in [Rivals -> 0 .. Full] /\ score' \in [Rivals -> 0 .. Full]
      /\ \A r \in Rivals : score[r] \in Nat /\ score'[r] \in Nat
  BY <1>1, Limits DEF TypeInv, TypeOK, ServerTypeOK, Tiers
<1>3. mark.tier = tier' /\ mark.score = score' /\ mark.finished = finished'
  BY <1>1 DEF Moved, Standing
<1>4. tier' = tier
  BY <1>1, <1>2, <1>3, TiersRise DEF MarkIsPast
<1>5. ~(Completable /\ Advance)
  BY <1>2, <1>3, <1>4 DEF Completable, Advance, MarkIsPast
<1>6. finished' = finished /\ \A r \in Rivals : score'[r] >= score[r]
  BY <1>1, <1>5 DEF ServerMove
<1>7. \A r \in Rivals : score'[r] = score[r]
  BY <1>2, <1>3, <1>4, <1>6 DEF MarkIsPast
<1>8. score' = score
  BY <1>2, <1>7
<1>9. Standing' = Standing
  BY <1>4, <1>6, <1>8 DEF Standing
<1>. QED  BY <1>1, <1>4, <1>6, <1>8, <1>9 DEF Moved, Left

LEMMA SpinTypes ==
  ASSUME OnceInv
  PROVE  /\ tier \in Nat \ {0} /\ idle \in Nat /\ still \in Nat
         /\ MaxIdlePasses \in Nat \ {0}
         /\ pc \notin Ends => idle + 1 <= MaxIdlePasses
         /\ Full \in Nat \ {0} /\ ServerTypeOK
         /\ \A r \in Rivals : score[r] \in Nat
         /\ raid.rivals \in SUBSET Rivals /\ raidWon \in BOOLEAN
         /\ seen = [tier |-> seen.tier, left |-> seen.left]
         /\ NoRival \notin Rivals
BY Limits, OnceTypes, TierAssumption
DEF OnceInv, TypeInv, TypeOK, RunTypeOK, RaidTypeOK, HistoryTypeOK, RoomLeft,
    ServerTypeOK

(* A pass that begins anew with its rivals.                                *)
LEMMA BeginsQuiet ==
  ASSUME NEW s, BeginRivals(s), s.left = Left, Left' = Left,
         seen' = Status', raidWon' => noRaid' = tier',
         still' <= idle' + 1 +
           (IF noRaid' = tier' /\ ~raidWon' THEN MaxIdlePasses ELSE 0)
  PROVE  InThePass' /\ pc' # "top"
BY DEF BeginRivals, NewPass, Go, InThePass

LEMMA RaidSpin ==
  ASSUME OnceInv, AsFound, RaidStep, Left' = Left,
         UNCHANGED <<tier, score, finished, marks>>
  PROVE  AsFound'
<1>1. /\ Playing /\ InThePass /\ seen.tier = tier /\ seen.left = Left
      /\ seen' = seen => seen' = Status'
  BY DEF RaidStep, RaidRefused, StartRaid, RaidBridgeDead, RaidUnverified,
         EndRaidFails, EndRaidEchoed, EndRaidUnechoed, CheckRaid,
         CheckRaidFails, Refresh, RefreshFails, Playing, AsFound, InThePass,
         Status
<1>2. pc \in {"raid", "raiding", "raidcheck"} => noRaid = NoTier /\ noRaid # tier
  BY SpinTypes DEF OnceInv, RaidIsOpen, Raiding, NoTier
<1>3. pc \in {"raid", "raiding", "raidcheck"} => still <= idle + 1 /\ ~raidWon
  BY <1>1, <1>2, SpinTypes DEF InThePass
<1>4. UNCHANGED <<idle, still>>
  BY DEF RaidStep, RaidRefused, StartRaid, RaidBridgeDead, RaidUnverified,
         EndRaidFails, EndRaidEchoed, EndRaidUnechoed, CheckRaid,
         CheckRaidFails, Refresh, RefreshFails, runVars, marks
<1>5. CASE RaidRefused \/ RaidUnverified
  <2>1. /\ UNCHANGED <<seen, raidWon>> /\ noRaid' = tier' /\ BeginRivals(seen)
        /\ pc \in {"raid", "raiding"}
    BY <1>1, <1>5 DEF RaidRefused, RaidUnverified, Suppress, raidVars
  <2>2. InThePass' /\ pc' # "top"
    BY <1>1, <1>3, <1>4, <2>1, SpinTypes, BeginsQuiet
  <2>. QED  BY <2>2 DEF AsFound
<1>6. CASE StartRaid
  <2>1. /\ pc' = "raiding" /\ raid'.rivals = Left
        /\ UNCHANGED <<seen, noRaid, raidWon, wins, earned, why>>
    BY <1>6 DEF StartRaid, Go, runVars, passVars, claim
  <2>. QED  BY <1>1, <1>4, <2>1 DEF AsFound, InThePass
<1>7. CASE RaidBridgeDead
  BY <1>7 DEF RaidBridgeDead, Go, AsFound, Playing
<1>8. ASSUME NEW w \in BOOLEAN, AfterRaid(w), seen' = seen, w => noRaid' = tier',
             still <= idle + 1 +
               (IF noRaid' = tier' /\ ~w THEN MaxIdlePasses ELSE 0)
      PROVE  AsFound'
  <2>1. CASE w
    BY <1>1, <1>4, <1>8, <2>1
    DEF AfterRaid, Go, AsFound, InThePass, passVars
  <2>2. CASE ~w
    BY <1>1, <1>4, <1>8, <2>2, BeginsQuiet DEF AfterRaid, AsFound
  <2>. QED  BY <2>1, <2>2
<1>9. ASSUME NEW reached \in Fights(raid.rivals),
             \/ EndRaidFails(reached) \/ EndRaidEchoed(reached)
             \/ EndRaidUnechoed(reached)
      PROVE  AsFound'
  <2>1. /\ pc = "raiding" /\ raid.rivals \subseteq Left /\ UNCHANGED seen
    BY <1>1, <1>9
    DEF EndRaidFails, EndRaidEchoed, EndRaidUnechoed, InThePass, runVars
  <2>2. PICK V \in SUBSET raid.rivals : reached \in [V -> 0 .. Full]
    BY DEF Fights
  <2>3. WonIn(reached) \in BOOLEAN
    BY DEF WonIn
  <2>4. ASSUME Bank(reached) PROVE ~WonIn(reached)
    <3>1. ASSUME NEW r \in V, reached[r] = Full PROVE FALSE
      <4>1. r \in Rivals /\ score[r] < Full /\ r \in DOMAIN reached
        BY <2>1, <2>2, <3>1 DEF Left
      <4>2. score'[r] = Full
        BY <2>4, <3>1, <4>1, SpinTypes DEF Bank
      <4>3. score'[r] = score[r]
        OBVIOUS
      <4>. QED  BY <4>1, <4>2, <4>3, SpinTypes
    <3>. QED  BY <2>2, <3>1 DEF WonIn
  <2>5. CASE EndRaidFails(reached)
    <3>1. noRaid' = tier' /\ AfterRaid(WonIn(reached))
      BY <1>1, <2>5 DEF EndRaidFails, Suppress
    <3>. QED  BY <1>3, <1>8, <2>1, <2>3, <3>1, SpinTypes
  <2>6. CASE EndRaidEchoed(reached)
    <3>1. noRaid' = noRaid /\ ~WonIn(reached)
      BY <2>4, <2>6 DEF EndRaidEchoed, runVars
    <3>2. CASE AfterRaid(WonIn(reached))
      BY <1>3, <1>8, <2>1, <2>3, <3>1, <3>2, SpinTypes
    <3>3. CASE Claim(seen.tier, "echo") /\ UNCHANGED raidWon
      BY <1>1, <1>3, <1>4, <2>1, <3>1, <3>3
      DEF Claim, Go, passVars, AsFound, InThePass
    <3>. QED  BY <2>6, <3>2, <3>3 DEF EndRaidEchoed
  <2>7. CASE EndRaidUnechoed(reached)
    <3>1. /\ UNCHANGED <<noRaid, wins, earned>> /\ raidWon' = FALSE
          /\ pc' = "raidcheck"
      BY <2>3, <2>4, <2>7 DEF EndRaidUnechoed, runVars, passVars, Go
    <3>. QED  BY <1>1, <1>3, <1>4, <2>1, <3>1, SpinTypes DEF AsFound, InThePass
  <2>. QED  BY <1>9, <2>5, <2>6, <2>7
<1>10. CASE CheckRaid
  <2>1. /\ pc = "raidcheck" /\ UNCHANGED <<seen, noRaid>>
        /\ \/ AfterRaid(raidWon)
           \/ Claim(seen.tier, "status") /\ raidWon' = FALSE
    BY <1>10 DEF CheckRaid, runVars
  <2>2. CASE AfterRaid(raidWon)
    BY <1>3, <1>8, <2>1, <2>2, SpinTypes
  <2>3. CASE Claim(seen.tier, "status") /\ raidWon' = FALSE
    BY <1>1, <1>3, <1>4, <2>1, <2>3 DEF Claim, Go, passVars, AsFound, InThePass
  <2>. QED  BY <2>1, <2>2, <2>3
<1>11. CASE CheckRaidFails
  <2>1. pc = "raidcheck" /\ UNCHANGED seen /\ noRaid' = tier' /\ AfterRaid(raidWon)
    BY <1>1, <1>11 DEF CheckRaidFails, Suppress
  <2>. QED  BY <1>3, <1>8, <2>1, SpinTypes
<1>12. CASE Refresh \/ RefreshFails
  <2>1. /\ pc = "refresh" /\ UNCHANGED <<noRaid, raidWon>>
        /\ \/ pc' = "top"
           \/ BeginRivals(Status) /\ seen' = Status
           \/ BeginRivals(seen) /\ seen' = seen
    BY <1>12 DEF Refresh, RefreshFails, runVars, raidVars, Go
  <2>2. raidWon /\ noRaid = tier /\ still <= idle + 1
    BY <1>1, <2>1, SpinTypes DEF InThePass
  <2>3. CASE pc' = "top"
    BY <1>4, <2>1, <2>2, <2>3, SpinTypes DEF AsFound, AtTop, Playing
  <2>4. CASE BeginRivals(Status) /\ seen' = Status
    <3>1. Status.left = Left /\ Status' = Status
      BY DEF Status
    <3>. QED  BY <1>4, <2>1, <2>2, <2>4, <3>1, BeginsQuiet, SpinTypes
              DEF AsFound
  <2>5. CASE BeginRivals(seen) /\ seen' = seen
    BY <1>1, <1>4, <2>1, <2>2, <2>5, BeginsQuiet, SpinTypes DEF AsFound
  <2>. QED  BY <2>1, <2>3, <2>4, <2>5
<1>. QED
  BY <1>5, <1>6, <1>7, <1>9, <1>10, <1>11, <1>12 DEF RaidStep

LEMMA RivalSpin ==
  ASSUME OnceInv, AsFound, RivalStep, Left' = Left,
         UNCHANGED <<tier, score, finished, marks>>
  PROVE  AsFound'
<1>1. /\ Playing /\ InThePass /\ pc \in {"fighting", "battle"}
      /\ todo \subseteq Left /\ cur \in todo \cup {NoRival}
      /\ UNCHANGED <<idle, still, seen, noRaid, raidWon>> /\ Status' = Status
  BY DEF RivalStep, PickRival, RivalsDone, StartBattle, StartBattleRefused,
         StartBattleRaises, BeatenAlready, Confirm, BridgeError, DummyLoss,
         Abandon, EndBattle, InvalidBattle, EndBattleFails, runVars, raidVars,
         marks, AsFound, Playing, InThePass, Status
<1>2. ASSUME wins' = {}, ~earned', pc' \in {"fighting", "battle", "ranked"},
             \/ UNCHANGED <<todo, cur>>
             \/ todo' = todo \ {cur} /\ cur' = NoRival
             \/ todo' = todo /\ cur' \in todo
      PROVE  AsFound'
  BY <1>1, <1>2 DEF AsFound, InThePass
<1>3. ASSUME NEW v, Record(v)
      PROVE  /\ pc' \in {"fighting", "ranked"}
             /\ \/ UNCHANGED <<todo, cur>>
                \/ todo' = todo \ {cur} /\ cur' = NoRival
  BY <1>3 DEF Record, NextAttempt, LeaveRival, Go
<1>4. wins = {} /\ ~earned
  BY <1>1 DEF InThePass
<1>5. CASE \/ \E r \in Rivals : PickRival(r)
           \/ RivalsDone \/ StartBattle \/ StartBattleRaises
  BY <1>1, <1>2, <1>4, <1>5
  DEF PickRival, RivalsDone, StartBattle, StartBattleRaises, LeaveRival, Go,
      passVars
<1>6. CASE BeatenAlready
  BY <1>1, <1>6 DEF BeatenAlready
<1>7. ASSUME NEW heardOf \in BOOLEAN, Confirm(heardOf) PROVE FALSE
  BY <1>1, <1>7 DEF Confirm
<1>8. CASE StartBattleRefused \/ DummyLoss
  BY <1>2, <1>3, <1>4, <1>8 DEF StartBattleRefused, DummyLoss
<1>9. CASE BridgeError
  <2>1. CASE pc' = "bridge"
    BY <2>1 DEF AsFound, Playing
  <2>2. CASE pc' = "fighting" /\ NextAttempt
    BY <1>2, <1>4, <1>9, <2>2 DEF BridgeError, NextAttempt, LeaveRival
  <2>. QED  BY <1>9, <2>1, <2>2 DEF BridgeError, Go
<1>10. ASSUME NEW est \in Estimates, Abandon(est) \/ EndBattleFails(est)
       PROVE  AsFound'
  BY <1>2, <1>3, <1>4, <1>10 DEF Abandon, EndBattleFails
<1>11. ASSUME NEW est \in Estimates, InvalidBattle(est) PROVE AsFound'
  <2>1. CASE Record(FALSE)
    BY <1>2, <1>3, <1>4, <1>11, <2>1 DEF InvalidBattle
  <2>2. CASE pc' = "fighting" /\ NextAttempt
    BY <1>2, <1>4, <1>11, <2>2 DEF InvalidBattle, NextAttempt, LeaveRival
  <2>. QED  BY <1>11, <2>1, <2>2 DEF InvalidBattle, Go
<1>12. ASSUME NEW est \in Estimates, EndBattle(est) PROVE AsFound'
  <2>1. /\ cur \in Rivals /\ score[cur] < Full
        /\ Bank([r \in {cur} |-> est.score]) /\ est.score \in 0 .. Full
    BY <1>12 DEF EndBattle, Lands, Open, Left, Estimates
  <2>2. est.score <= score[cur]
    <3>1. score'[cur] = IF est.score > score[cur] THEN est.score ELSE score[cur]
      BY <2>1 DEF Bank
    <3>2. score'[cur] = score[cur]
      OBVIOUS
    <3>. QED  BY <2>1, <3>1, <3>2, SpinTypes
  <2>3. ~Win(est) /\ ~(est.score > score[cur])
    BY <2>1, <2>2, SpinTypes DEF Win
  <2>4. Record(TRUE) /\ wins' = wins /\ ~earned'
    BY <1>4, <1>12, <2>3 DEF EndBattle
  <2>. QED  BY <1>2, <1>3, <1>4, <2>4
<1>. QED
  BY <1>5, <1>6, <1>7, <1>8, <1>9, <1>10, <1>11, <1>12 DEF RivalStep

LEMMA LoopSpin ==
  ASSUME OnceInv, AsFound, LoopStep, ~ReadStatus, Left' = Left,
         UNCHANGED <<tier, score, finished, marks>>
  PROVE  AsFound'
<1>1. /\ still' = still /\ Status' = Status
      /\ Playing => InThePass
  BY DEF marks, Status, AsFound
<1>2. CASE \/ CapReached \/ StatusFails \/ RecheckFails \/ Finalize
           \/ FinalizeBlind \/ SessionLost \/ Interrupted
  BY <1>2
  DEF CapReached, StatusFails, RecheckFails, Finalize, FinalizeBlind,
      SessionLost, Interrupted, Go, AsFound, Playing
<1>3. CASE AskToComplete
  <2>1. /\ InThePass /\ UNCHANGED <<seen, idle, noRaid, raidWon, wins, earned>>
    BY <1>1, <1>3
    DEF AskToComplete, Claim, Playing, runVars, raidVars, passVars
  <2>2. CASE pc' = "stuck"
    BY <2>2 DEF AsFound, Playing
  <2>3. CASE pc' = "claiming" /\ why' = "pass"
    BY <1>1, <2>1, <2>3 DEF AsFound, InThePass
  <2>. QED  BY <1>3, <2>1, <2>2, <2>3 DEF AskToComplete, Claim, Go, InThePass
<1>4. CASE Recheck
  <2>1. InThePass /\ UNCHANGED <<seen, noRaid, raidWon, wins, earned>>
    BY <1>1, <1>4 DEF Recheck, Claim, Playing, raidVars, passVars
  <2>2. CASE pc' \in {"stuck", "finished"}
    BY <2>2 DEF AsFound, Playing
  <2>3. CASE pc' = "claiming" /\ why' = "recheck" /\ idle' = idle
    BY <1>1, <2>1, <2>3 DEF AsFound, InThePass
  <2>4. CASE pc' = "top" /\ idle' = idle + 1
    BY <1>1, <2>1, <2>4, SpinTypes DEF AsFound, AtTop, Playing, InThePass
  <2>. QED  BY <1>4, <2>2, <2>3, <2>4 DEF Recheck, Claim, NoteIdle, Go
<1>5. CASE CompleteTier
  BY <1>5, SpinTypes DEF CompleteTier, Completable, Advance
<1>6. CASE CompleteTierFails
  <2>1. /\ pc = "claiming" /\ InThePass /\ why # "earned" /\ wins = {}
        /\ UNCHANGED <<seen, raidWon>>
    BY <1>1, <1>6 DEF CompleteTierFails, Playing, InThePass, raidVars
  <2>2. seen.tier = tier /\ seen.left = Left
    BY <2>1 DEF InThePass, Status
  <2>3. CASE why \in {"echo", "status"}
    <3>1. noRaid' = at /\ BeginRivals(seen) /\ idle' = idle
      BY <1>6, <2>3 DEF CompleteTierFails, AfterComplete
    <3>2. at = tier /\ noRaid # tier
      BY <2>1, <2>2, <2>3, SpinTypes DEF OnceInv, RaidIsOpen, Raiding, NoTier
    <3>3. still <= idle + 1 /\ ~raidWon
      BY <2>1, <3>2, SpinTypes DEF InThePass
    <3>4. seen' = Status'
      BY <1>1, <2>1 DEF InThePass
    <3>. QED
      BY <1>1, <2>1, <2>2, <3>1, <3>2, <3>3, <3>4, BeginsQuiet, SpinTypes
      DEF AsFound
  <2>4. CASE why \notin {"echo", "status"}
    <3>1. /\ noRaid' = noRaid
          /\ \/ pc' = "finished" \/ pc' = "stuck"
             \/ pc' = "top" /\ idle' = idle + 1
             \/ pc' = "top" /\ idle' = 0 /\ raidWon
      BY <1>6, <2>1, <2>4
      DEF CompleteTierFails, AfterComplete, Progress, NoteIdle, Go
    <3>2. CASE pc' \in {"finished", "stuck"}
      BY <3>2 DEF AsFound, Playing
    <3>3. CASE pc' = "top" /\ idle' = idle + 1
      BY <1>1, <2>1, <3>1, <3>3, SpinTypes DEF AsFound, AtTop, Playing, InThePass
    <3>4. CASE pc' = "top" /\ idle' = 0 /\ raidWon
      BY <1>1, <2>1, <3>1, <3>4, SpinTypes
      DEF AsFound, AtTop, Playing, InThePass, Ends
    <3>. QED  BY <3>1, <3>2, <3>3, <3>4
  <2>. QED  BY <2>3, <2>4
<1>. QED  BY <1>2, <1>3, <1>4, <1>5, <1>6 DEF LoopStep

(* A status: a server that stands still is counted, any other is not.      *)
LEMMA ReadSpin ==
  ASSUME OnceInv, SpinInv, ReadStatus
  PROVE  NoIdleSpinning' /\ (~Moved' => AsFound')
<1>1. pc = "top" /\ idle' = idle /\ idle + 1 <= MaxIdlePasses
  BY SpinTypes DEF ReadStatus, Ends
<1>2. UNCHANGED <<tier, score, finished>> /\ Left' = Left /\ Status' = Status
  BY DEF ReadStatus, serverVars, Left, Status
<1>3. still' <= idle + 1 + (IF noRaid = tier THEN MaxIdlePasses ELSE 0)
  <2>1. CASE Moved
    BY <1>1, <2>1, SpinTypes DEF ReadStatus, Moved
  <2>2. CASE ~Moved
    BY <1>1, <2>2, SpinTypes DEF ReadStatus, Moved, SpinInv, AsFound, AtTop
  <2>. QED  BY <2>1, <2>2
<1>4. NoIdleSpinning'
  <2>1. still' \in Nat
    BY SpinTypes DEF ReadStatus
  <2>. QED  BY <1>1, <1>3, <2>1, SpinTypes DEF NoIdleSpinning
<1>5. CASE closed
  <2>1. pc' = "closed"
    BY <1>5 DEF ReadStatus, Go
  <2>. QED  BY <1>4, <2>1 DEF AsFound, Playing
<1>6. CASE ~closed
  <2>1. /\ seen' = Status /\ raidWon' = FALSE
        /\ noRaid' = IF noRaid = tier THEN noRaid ELSE NoTier
        /\ \/ pc' = "raid" /\ wins' = {} /\ earned' = FALSE
           \/ BeginRivals(Status)
    BY <1>6 DEF ReadStatus, NewPass, Go
  <2>2. noRaid' = tier' <=> noRaid = tier
    BY <1>2, <2>1, SpinTypes DEF NoTier
  <2>3. CASE pc' = "raid" /\ wins' = {} /\ earned' = FALSE
    <3>1. InThePass'
      BY <1>1, <1>2, <1>3, <2>1, <2>2, <2>3, SpinTypes DEF InThePass
    <3>. QED  BY <1>4, <2>3, <3>1 DEF AsFound
  <2>4. CASE BeginRivals(Status)
    <3>1. Status.left = Left /\ (raidWon' => noRaid' = tier')
      BY <2>1 DEF Status
    <3>2. still' <= idle' + 1 +
            (IF noRaid' = tier' /\ ~raidWon' THEN MaxIdlePasses ELSE 0)
      BY <1>1, <1>3, <2>1, <2>2
    <3>. QED  BY <1>2, <1>4, <2>1, <2>4, <3>1, <3>2, BeginsQuiet DEF AsFound
  <2>. QED  BY <2>1, <2>3, <2>4
<1>. QED  BY <1>4, <1>5, <1>6

LEMMA SpinStep ==
  ASSUME OnceInv, SpinInv, [Next]_vars
  PROVE  SpinInv'
<1>1. TypeInv /\ MarkIsPast'
  BY MarkStep DEF OnceInv, SpinInv
<1>2. CASE ReadStatus
  BY <1>1, <1>2, ReadSpin DEF SpinInv
<1>3. CASE ~ReadStatus
  <2>1. UNCHANGED marks
    BY <1>3, MarksMove
  <2>2. NoIdleSpinning'
    BY <2>1 DEF SpinInv, NoIdleSpinning, marks
  <2>3. ASSUME ~Moved' PROVE AsFound'
    <3>1. /\ ~Moved /\ UNCHANGED <<tier, score, finished>> /\ Left' = Left
      BY <1>1, <2>1, <2>3, StandsStill DEF SpinInv
    <3>2. AsFound
      BY <3>1 DEF SpinInv
    <3>3. CASE Elsewhere \/ UNCHANGED vars
      BY <2>1, <3>1, <3>2, <3>3
      DEF Elsewhere, vars, runVars, raidVars, passVars, claim, history, marks,
          AsFound, AtTop, Playing, InThePass, Status
    <3>. QED  BY <1>3, <2>1, <3>1, <3>2, <3>3, RaidSpin, RivalSpin, LoopSpin
              DEF Next
  <2>. QED  BY <1>1, <2>2, <2>3 DEF SpinInv
<1>. QED  BY <1>2, <1>3

(* Against a server that stands still a run ends after so many passes.     *)
THEOREM RunsEnd == Spec => []NoIdleSpinning
<1>1. Init => OnceInv /\ SpinInv
  BY InitOnce, InitSpin
<1>2. OnceInv /\ SpinInv /\ [Next]_vars => OnceInv' /\ SpinInv'
  BY OnceStep, SpinStep
<1>3. SpinInv => NoIdleSpinning
  BY DEF SpinInv
<1>. QED  BY <1>1, <1>2, <1>3, PTL DEF Spec
=============================================================================
