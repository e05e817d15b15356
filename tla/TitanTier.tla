----------------------------- MODULE TitanTier -----------------------------
(***************************************************************************)
(* hw-genie toe run: the Titan Arena tier loop                             *)
(* (commands/titan_arena.py, run_titan_arena_tier) with its raid           *)
(* (_run_raid), its rivals (_run_rivals, run_titan_arena, _end_battle) and *)
(* CompleteTier (_complete_tier), against the server of TitanServer.       *)
(*                                                                         *)
(* Every call to the server is a step of its own, so that the season's     *)
(* end or another session may come between a status and its use. A call    *)
(* may fail before or after the server has carried it out (HWClient.call   *)
(* retries, and the retry is refused). The engine is the JS bridge: its    *)
(* simulations may fail, or answer with a dummy loss.                      *)
(*                                                                         *)
(* The order of the rivals (score, wall, power), which titans fight and    *)
(* the daily reward, which is asked for after every CompleteTier and never *)
(* read, are left out.                                                     *)
(***************************************************************************)
EXTENDS TitanServer, Integers

CONSTANTS
  NoRival,
  Plan,               \* attempts per rival: teams * seeds, or --max-attempts
  EndOnLoss,          \* end_on_loss: a loss is submitted like a win
  BankBest,           \* bank_best_loss: otherwise, one that improves is
  MaxStars,           \* the stars an estimate may have
  StopOnFirstLoss,    \* stop_on_first_loss
  MaxPasses,          \* max_passes
  MaxBridgeErrors,    \* MAX_CONSECUTIVE_BRIDGE_TIMEOUTS
  MaxIdlePasses,      \* MAX_CONSECUTIVE_NO_PROGRESS_PASSES
  Flaky               \* whether calls to the server may fail

ASSUME TierAssumption ==
  /\ NoRival \notin Rivals
  /\ Plan \in Nat \ {0}
  /\ MaxStars \in Nat
  /\ MaxPasses \in Nat \ {0}
  /\ MaxBridgeErrors \in Nat \ {0}
  /\ MaxIdlePasses \in Nat \ {0}
  /\ {EndOnLoss, BankBest, StopOnFirstLoss, Flaky} \subseteq BOOLEAN

VARIABLES
  pc,            \* the call the loop is about to make, or how it ended
  passes,
  idle,          \* no_progress_passes
  seen,          \* the status in use: its tier and its remaining targets
  noRaid,        \* raid_disabled_tier
  doneKey,       \* completed_tier_key
  banked,        \* banked_best_by_rival, -1 = nothing; its tier is seen.tier
  report,        \* final_tier and remaining_rivals of the summary
  raid,          \* the raid in progress: its tier and its rivals
  raidWon,       \* raid_won
  todo,          \* rivals of this pass still to fight
  cur,           \* the one being fought
  attempt,       \* attempt_no
  errs,          \* bridge_errors
  wins,          \* rivals this pass has recorded a win for
  tried,         \* rival_results is not empty
  earned,        \* an EndBattle of this pass raised a score
  at, why,       \* CompleteTier: the tier it is meant for, and its occasion
  shut,          \* history: tiers whose raid was given up or that were won
  heard,         \* history: tiers whose CompleteTier is known to be done
  mark, still,   \* history: the server at the last pass, and for how many
  landed         \* history: the best losses the server was sent, and their tier

runVars  == <<passes, idle, seen, noRaid, doneKey, banked, report>>
raidVars == <<raid, raidWon>>
passVars == <<todo, cur, attempt, errs, wins, tried, earned>>
claim    == <<at, why>>
marks    == <<mark, still>>
history  == <<shut, heard, marks, landed>>
vars     == <<serverVars, pc, runVars, raidVars, passVars, claim, history>>

NoTier == 0
Keys   == Tiers \cup {NoTier}
Ends   == {"closed", "finished", "stuck", "bridge", "capped", "interrupted",
           "raised"}

RunTypeOK ==
  /\ passes \in 0 .. MaxPasses
  /\ idle \in 0 .. MaxIdlePasses
  /\ seen \in [tier : Keys, left : SUBSET Rivals]
  /\ noRaid \in Keys
  /\ doneKey \in Keys
  /\ banked \in [Rivals -> -1 .. MaxStars]
  /\ report \in [tier : Keys, left : 0 .. Cardinality(Rivals)]

RaidTypeOK ==
  /\ raid \in [tier : Keys, rivals : SUBSET Rivals]
  /\ raidWon \in BOOLEAN

PassTypeOK ==
  /\ todo \in SUBSET Rivals
  /\ cur \in Rivals \cup {NoRival}
  /\ attempt \in 0 .. Plan
  /\ errs \in 0 .. MaxBridgeErrors
  /\ wins \in SUBSET Rivals
  /\ tried \in BOOLEAN
  /\ earned \in BOOLEAN

ClaimTypeOK ==
  /\ at \in Keys
  /\ why \in {"none", "echo", "status", "recheck", "earned", "pass"}

HistoryTypeOK ==
  /\ shut \in SUBSET Tiers
  /\ heard \in SUBSET Tiers
  /\ mark \in [tier : Tiers, score : [Rivals -> 0 .. Full], finished : BOOLEAN]
  /\ still \in 0 .. MaxPasses
  /\ landed \in [tier : Keys, best : [Rivals -> -1 .. MaxStars]]

TypeOK ==
  /\ ServerTypeOK
  /\ pc \in {"top", "raid", "raiding", "raidcheck", "refresh", "fighting",
             "battle", "confirm", "ranked", "claiming", "final"} \cup Ends
  /\ RunTypeOK /\ RaidTypeOK /\ PassTypeOK /\ ClaimTypeOK /\ HistoryTypeOK

Standing == [tier |-> tier, score |-> score, finished |-> finished]

Init ==
  /\ ServerInit
  /\ pc = "top" /\ passes = 0 /\ idle = 0
  /\ seen = [tier |-> NoTier, left |-> {}]
  /\ noRaid = NoTier /\ doneKey = NoTier
  /\ banked = [r \in Rivals |-> -1]
  /\ report = [tier |-> NoTier, left |-> 0]
  /\ raid = [tier |-> NoTier, rivals |-> {}] /\ raidWon = FALSE
  /\ todo = {} /\ cur = NoRival /\ attempt = 0 /\ errs = 0
  /\ wins = {} /\ tried = FALSE /\ earned = FALSE
  /\ at = NoTier /\ why = "none"
  /\ shut = {} /\ heard = {}
  /\ mark = Standing /\ still = 0
  /\ landed = [tier |-> NoTier, best |-> [r \in Rivals |-> -1]]

-----------------------------------------------------------------------------
(* Helpers.                                                                *)

Go(p) == pc' = p

Status == [tier |-> tier, left |-> Left]       \* of a titanArenaGetStatus
Remaining == [tier |-> tier, left |-> Cardinality(Left)]

(* The lists and counters of one pass, and the start of _run_rivals.       *)
NewPass(targets) ==
  /\ todo' = targets
  /\ cur' = NoRival /\ attempt' = 0 /\ errs' = 0
  /\ wins' = {} /\ tried' = FALSE /\ earned' = FALSE

BeginRivals(status) == Go("fighting") /\ NewPass(status.left)

(* No further raid in the tier of the status in use.                       *)
Suppress ==
  /\ noRaid' = seen.tier
  /\ shut' = shut \cup ({seen.tier} \cap Tiers)

NoteIdleForever(stop) ==         \* fault: the count is never looked at
  /\ idle' = IF idle < MaxIdlePasses THEN idle + 1 ELSE idle
  /\ Go("top")

NoteIdle(stop) ==
  /\ idle' = idle + 1
  /\ IF idle + 1 >= MaxIdlePasses THEN Go(stop) ELSE Go("top")

-----------------------------------------------------------------------------
(* The top of a pass.                                                      *)

CapReached ==
  /\ pc = "top" /\ passes = MaxPasses
  /\ Go("capped")
  /\ UNCHANGED <<serverVars, runVars, raidVars, passVars, claim, history>>

StatusFails ==
  /\ pc = "top" /\ passes < MaxPasses /\ Flaky
  /\ Go("raised")
  /\ passes' = passes + 1
  /\ UNCHANGED <<serverVars, idle, seen, noRaid, doneKey, banked, report,
                 raidVars, passVars, claim, history>>

BanksKept == banked' = banked        \* fault: an old tier's banks stay

BanksOfTier ==
  banked' = IF tier = seen.tier THEN banked ELSE [r \in Rivals |-> -1]

MayRaidAgain == noRaid' = NoTier     \* fault: a won tier is raided again

MayRaid == noRaid' = NoTier /\ doneKey # tier

ReadStatus ==
  /\ pc = "top" /\ passes < MaxPasses
  /\ passes' = passes + 1
  /\ mark' = Standing
  /\ still' = IF mark = Standing THEN still + 1 ELSE 0
  /\ UNCHANGED <<serverVars, idle, doneKey, raid, claim, shut, heard, landed>>
  /\ IF closed
     THEN /\ Go("closed")
          /\ report' = [tier |-> tier, left |-> 0]
          /\ UNCHANGED <<seen, noRaid, banked, raidWon, passVars>>
     ELSE /\ report' = Remaining
          /\ seen' = Status
          /\ BanksOfTier
          /\ noRaid' = IF noRaid = tier THEN noRaid ELSE NoTier
          /\ raidWon' = FALSE
          /\ IF tier \in RaidTiers /\ MayRaid
             THEN Go("raid") /\ NewPass({})
             ELSE BeginRivals(Status)

-----------------------------------------------------------------------------
(* The raid.                                                               *)

(* StartRaid fails, or its payload cannot be simulated.                    *)
RaidRefused ==
  /\ pc = "raid"
  /\ Flaky \/ closed \/ tier \notin RaidTiers \/ Left = {}
  /\ Suppress
  /\ BeginRivals(seen)
  /\ UNCHANGED <<serverVars, passes, idle, seen, doneKey, banked, report,
                 raidVars, claim, heard, marks, landed>>

StartRaid ==
  /\ pc = "raid" /\ ~closed /\ tier \in RaidTiers /\ Left # {}
  /\ raid' = [tier |-> tier, rivals |-> Left]
  /\ Go("raiding")
  /\ UNCHANGED <<serverVars, runVars, raidWon, passVars, claim, history>>

(* Not one battle of the batch was answered.                               *)
RaidBridgeDead ==
  /\ pc = "raiding" /\ Cardinality(raid.rivals) >= MaxBridgeErrors
  /\ Go("bridge")
  /\ UNCHANGED <<serverVars, runVars, raidVars, passVars, claim, history>>

(* Dummies, skipped rivals and too few errors to call the bridge dead.     *)
RaidUnverified ==
  /\ pc = "raiding"
  /\ Suppress
  /\ BeginRivals(seen)
  /\ UNCHANGED <<serverVars, passes, idle, seen, doneKey, banked, report,
                 raidVars, claim, heard, marks, landed>>

(* A raid that did not complete the tier: look again if it won anything.   *)
AfterRaid(won) ==
  /\ raidWon' = won
  /\ IF won THEN Go("refresh") /\ UNCHANGED passVars ELSE BeginRivals(seen)

Claim(k, occasion) ==
  /\ at' = k /\ why' = occasion
  /\ Go("claiming")
  /\ UNCHANGED passVars

Fights(S) == UNION {[V -> 0 .. Full] : V \in SUBSET S \ {{}}}
WonIn(reached) == \E r \in DOMAIN reached : reached[r] = Full
RaidOpen == ~closed /\ tier = raid.tier

(* EndRaid with the verified battles; the server may have banked them even *)
(* if the call fails.                                                      *)
EndRaidFails(reached) ==
  /\ pc = "raiding"
  /\ Flaky \/ ~RaidOpen
  /\ \/ UNCHANGED score
     \/ RaidOpen /\ Bank(reached)
  /\ Suppress
  /\ AfterRaid(WonIn(reached))
  /\ UNCHANGED <<tier, closed, finished, passes, idle, seen, doneKey, banked,
                 report, raid, claim, heard, marks, landed>>

(* The reply echoes the score of every rival of the raid.                  *)
EndRaidEchoed(reached) ==
  /\ pc = "raiding" /\ RaidOpen /\ DOMAIN reached = raid.rivals
  /\ Bank(reached)
  /\ IF \A r \in raid.rivals : score'[r] >= Full
     THEN Claim(seen.tier, "echo") /\ UNCHANGED raidWon
     ELSE AfterRaid(WonIn(reached)) /\ UNCHANGED claim
  /\ UNCHANGED <<tier, closed, finished, runVars, raid, history>>

EndRaidUnechoed(reached) ==
  /\ pc = "raiding" /\ RaidOpen
  /\ Bank(reached)
  /\ raidWon' = WonIn(reached)
  /\ Go("raidcheck")
  /\ UNCHANGED <<tier, closed, finished, runVars, raid, passVars, claim,
                 history>>

(* Without a full echo a fresh status decides.                             *)
CheckRaid ==
  /\ pc = "raidcheck" /\ ~closed
  /\ IF Left = {}
     THEN Claim(seen.tier, "status") /\ raidWon' = FALSE
     ELSE AfterRaid(raidWon) /\ UNCHANGED claim
  /\ UNCHANGED <<serverVars, runVars, raid, history>>

CheckRaidFails ==
  /\ pc = "raidcheck"
  /\ Flaky \/ closed
  /\ Suppress
  /\ AfterRaid(raidWon)
  /\ UNCHANGED <<serverVars, passes, idle, seen, doneKey, banked, report,
                 raid, claim, heard, marks, landed>>

(* After a raid with a win the rivals it has cleared leave the snapshot.   *)
Refresh ==
  /\ pc = "refresh"
  /\ IF closed \/ tier # seen.tier
     THEN Go("top") /\ UNCHANGED <<seen, report, passVars>>
     ELSE /\ seen' = Status
          /\ report' = Remaining
          /\ BeginRivals(Status)
  /\ UNCHANGED <<serverVars, passes, idle, noRaid, doneKey, banked, raidVars,
                 claim, history>>

RefreshFails ==
  /\ pc = "refresh" /\ Flaky
  /\ BeginRivals(seen)
  /\ UNCHANGED <<serverVars, runVars, raidVars, claim, history>>

-----------------------------------------------------------------------------
(* The rivals: an attempt plan for every target of the status in use.      *)

PickRival(r) ==
  /\ pc = "fighting" /\ cur = NoRival /\ r \in todo
  /\ cur' = r /\ attempt' = 1
  /\ UNCHANGED <<serverVars, pc, runVars, raidVars, todo, errs, wins, tried,
                 earned, claim, history>>

RivalsDone ==
  /\ pc = "fighting" /\ cur = NoRival /\ todo = {}
  /\ Go("ranked")
  /\ UNCHANGED <<serverVars, runVars, raidVars, passVars, claim, history>>

LeaveRival ==
  /\ todo' = todo \ {cur}
  /\ cur' = NoRival /\ attempt' = 0

NextAttemptOneTooMany ==         \* fault: the plan is overrun by one
  IF attempt <= Plan
  THEN attempt' = attempt + 1 /\ UNCHANGED <<todo, cur>>
  ELSE LeaveRival

NextAttempt ==
  IF attempt < Plan
  THEN attempt' = attempt + 1 /\ UNCHANGED <<todo, cur>>
  ELSE LeaveRival

(* An attempt that leaves an entry without a win in rival_results; only a  *)
(* verified one may stop the loop.                                         *)
Record(verified) ==
  /\ tried' = TRUE /\ errs' = 0
  /\ IF verified /\ StopOnFirstLoss
     THEN Go("ranked") /\ LeaveRival
     ELSE Go("fighting") /\ NextAttempt

StartBattle ==
  /\ pc = "fighting" /\ cur # NoRival /\ Open(seen.tier, cur)
  /\ Go("battle")
  /\ UNCHANGED <<serverVars, runVars, raidVars, passVars, claim, history>>

StartBattleRefused ==
  /\ pc = "fighting" /\ cur # NoRival
  /\ Flaky \/ closed \/ tier # seen.tier
  /\ Record(FALSE)
  /\ UNCHANGED <<serverVars, runVars, raidVars, wins, earned, claim, history>>

(* An exception, a lost session above all: the rival is left.              *)
StartBattleRaises ==
  /\ pc = "fighting" /\ cur # NoRival /\ Flaky
  /\ tried' = TRUE
  /\ LeaveRival
  /\ UNCHANGED <<serverVars, pc, runVars, raidVars, errs, wins, earned, claim,
                 history>>

(* "beaten up already": the snapshot is stale. Only if a fresh status      *)
(* confirms it is the rival recorded as won; one that is not in the status *)
(* counts as cleared.                                                      *)
BeatenAlready ==
  /\ pc = "fighting" /\ cur # NoRival
  /\ ~closed /\ tier = seen.tier /\ cur \notin Left
  /\ Go("confirm")
  /\ errs' = 0
  /\ UNCHANGED <<serverVars, runVars, raidVars, todo, cur, attempt, wins,
                 tried, earned, claim, history>>

Confirm(heardOf) ==
  /\ pc = "confirm"
  /\ heardOf \/ Flaky
  /\ wins' = IF heardOf /\ (closed \/ tier # seen.tier \/ cur \notin Left)
             THEN wins \cup {cur} ELSE wins
  /\ tried' = TRUE
  /\ LeaveRival
  /\ Go("fighting")
  /\ UNCHANGED <<serverVars, runVars, raidVars, errs, earned, claim, history>>

BridgeError ==
  /\ pc = "battle"
  /\ errs' = errs + 1
  /\ IF errs + 1 >= MaxBridgeErrors
     THEN Go("bridge") /\ UNCHANGED <<todo, cur, attempt>>
     ELSE Go("fighting") /\ NextAttempt
  /\ UNCHANGED <<serverVars, runVars, raidVars, wins, tried, earned, claim,
                 history>>

DummyLoss ==
  /\ pc = "battle"
  /\ Record(FALSE)
  /\ UNCHANGED <<serverVars, runVars, raidVars, wins, earned, claim, history>>

(* A verified simulation: what the server makes of the battle, Full of it  *)
(* for a win, and the stars the engine gives it (est), which for a loss    *)
(* need not go together.                                                   *)
Estimates == [score : 0 .. Full, stars : 0 .. MaxStars]

Win(est) == est.score = Full

Improves(est) ==
  ~Win(est) /\ ~EndOnLoss /\ BankBest /\ est.stars > banked[cur]

Submits(est) == Win(est) \/ EndOnLoss \/ Improves(est)

(* The most stars of the improving losses that have landed in tier k.      *)
LandedIn(k) == IF landed.tier = k THEN landed.best ELSE [r \in Rivals |-> -1]

Lands(est) ==
  /\ Bank([r \in {cur} |-> est.score])
  /\ IF Improves(est)
     THEN landed' = [tier |-> tier,
                     best |-> [LandedIn(tier) EXCEPT ![cur] =
                                 IF est.stars > @ THEN est.stars ELSE @]]
     ELSE UNCHANGED landed

Abandon(est) ==
  /\ pc = "battle" /\ ~Submits(est)
  /\ Record(TRUE)
  /\ UNCHANGED <<serverVars, runVars, raidVars, wins, earned, claim, history>>

EndBattle(est) ==
  /\ pc = "battle" /\ Submits(est) /\ Open(seen.tier, cur)
  /\ Lands(est)
  /\ earned' = (earned \/ est.score > score[cur])
  /\ banked' = IF Improves(est) THEN [banked EXCEPT ![cur] = est.stars]
               ELSE banked
  /\ IF Win(est)
     THEN /\ wins' = wins \cup {cur}
          /\ tried' = TRUE /\ errs' = 0
          /\ LeaveRival
          /\ Go("fighting")
     ELSE Record(TRUE) /\ UNCHANGED wins
  /\ UNCHANGED <<tier, closed, finished, passes, idle, seen, noRaid, doneKey,
                 report, raidVars, claim, shut, heard, marks>>

(* The server recomputes another battle: a fresh seed, while one is left.  *)
InvalidBattle(est) ==
  /\ pc = "battle" /\ Submits(est)
  /\ IF attempt < Plan
     THEN /\ errs' = 0
          /\ Go("fighting")
          /\ NextAttempt
          /\ UNCHANGED tried
     ELSE Record(FALSE)
  /\ UNCHANGED <<serverVars, runVars, raidVars, wins, earned, claim, history>>

EndBattleFailsWins(est) ==     \* fault: the local estimate counts as a win
  /\ pc = "battle" /\ Submits(est)
  /\ Flaky \/ ~Open(seen.tier, cur)
  /\ UNCHANGED score
  /\ Record(FALSE)
  /\ wins' = IF Win(est) THEN wins \cup {cur} ELSE wins
  /\ UNCHANGED <<tier, closed, finished, runVars, raidVars, earned, claim,
                 history>>

(* EndBattle fails, before or after the server has banked the battle.      *)
EndBattleFails(est) ==
  /\ pc = "battle" /\ Submits(est)
  /\ Flaky \/ ~Open(seen.tier, cur)
  /\ \/ UNCHANGED <<score, landed>>
     \/ Open(seen.tier, cur) /\ Lands(est)
  /\ Record(FALSE)
  /\ UNCHANGED <<tier, closed, finished, runVars, raidVars, wins, earned,
                 claim, shut, heard, marks>>

-----------------------------------------------------------------------------
(* After the rivals of a pass.                                             *)

AskToComplete ==
  /\ pc = "ranked" /\ tried
  /\ IF wins = {} /\ seen.tier \notin RaidTiers
     THEN IF earned /\ ~StopOnFirstLoss
          THEN Claim(seen.tier, "earned")
          ELSE Go("stuck") /\ UNCHANGED <<claim, passVars>>
     ELSE Claim(seen.tier, "pass")
  /\ UNCHANGED <<serverVars, runVars, raidVars, history>>

TrustSnapshot ==                 \* fault: no fresh status, nothing to do
  /\ pc = "ranked" /\ ~tried
  /\ Go("finished")
  /\ UNCHANGED <<serverVars, runVars, raidVars, passVars, claim, history>>

(* No results: look at a fresh status before there is nothing to do.       *)
Recheck ==
  /\ pc = "ranked" /\ ~tried /\ ~closed
  /\ report' = Remaining
  /\ IF Left = {} /\ doneKey # tier
     THEN Claim(tier, "recheck") /\ UNCHANGED idle
     ELSE /\ IF Left = {} THEN Go("finished") /\ UNCHANGED idle
             ELSE NoteIdle("stuck")
          /\ UNCHANGED <<claim, passVars>>
  /\ UNCHANGED <<serverVars, passes, seen, noRaid, doneKey, banked, raidVars,
                 history>>

RecheckFailsEmpty ==             \* fault: no status means nothing is left
  /\ pc = "ranked" /\ ~tried
  /\ Flaky \/ closed
  /\ report' = [tier |-> seen.tier, left |-> 0]
  /\ Go("finished")
  /\ UNCHANGED <<serverVars, passes, idle, seen, noRaid, doneKey, banked,
                 raidVars, passVars, claim, history>>

RecheckFails ==
  /\ pc = "ranked" /\ ~tried
  /\ Flaky \/ closed
  /\ Go("finished")
  /\ UNCHANGED <<serverVars, runVars, raidVars, passVars, claim, history>>

-----------------------------------------------------------------------------
(* CompleteTier.                                                           *)

(* What the loop makes of its outcome, by the occasion.                    *)
Progress == idle' = 0 /\ Go("top")

AfterComplete(ok) ==
  LET top == at = MaxTier
  IN  \/ /\ why \in {"echo", "status"} /\ ~ok
         /\ noRaid' = at
         /\ BeginRivals(seen)
         /\ UNCHANGED <<idle, report>>
      \/ /\ why \in {"echo", "status"} /\ ok /\ ~top
         /\ Progress
         /\ UNCHANGED <<noRaid, report, passVars>>
      \/ /\ why = "echo" /\ ok /\ top
         /\ Go("top")
         /\ UNCHANGED <<idle, noRaid, report, passVars>>
      \/ /\ why = "status" /\ ok /\ top
         /\ report' = [tier |-> at, left |-> 0]
         /\ Go("finished")
         /\ UNCHANGED <<idle, noRaid, passVars>>
      \/ /\ why = "recheck"
         /\ IF ok /\ ~top THEN Progress ELSE Go("finished") /\ UNCHANGED idle
         /\ UNCHANGED <<noRaid, report, passVars>>
      \/ /\ why \in {"earned", "pass"}
         /\ IF ok /\ top THEN Go("final") /\ UNCHANGED idle
            ELSE IF why = "earned" \/ wins # {} \/ raidWon THEN Progress
            ELSE NoteIdle("stuck")
         /\ UNCHANGED <<noRaid, report, passVars>>

CompleteTier ==
  /\ pc = "claiming" /\ Completable
  /\ Advance
  /\ doneKey' = at
  /\ heard' = heard \cup ({at} \cap Tiers)
  /\ shut' = shut \cup ({at} \cap Tiers)
  /\ AfterComplete(TRUE)
  /\ UNCHANGED <<closed, passes, seen, banked, raidVars, claim, marks,
                 landed>>

(* NotAvailable, or the call fails, before or after the server did it.     *)
CompleteTierFails ==
  /\ pc = "claiming"
  /\ \/ (Flaky \/ ~Completable) /\ UNCHANGED serverVars
     \/ Flaky /\ Completable /\ Advance /\ UNCHANGED closed
  /\ shut' = IF why \in {"echo", "status"} THEN shut \cup ({at} \cap Tiers)
             ELSE shut
  /\ AfterComplete(FALSE)
  /\ UNCHANGED <<passes, seen, doneKey, banked, raidVars, claim, heard, marks,
                 landed>>

(* _refresh_final_remaining.                                               *)
Finalize ==
  /\ pc = "final"
  /\ report' = IF closed THEN [tier |-> tier, left |-> 0] ELSE Remaining
  /\ Go("finished")
  /\ UNCHANGED <<serverVars, passes, idle, seen, noRaid, doneKey, banked,
                 raidVars, passVars, claim, history>>

(* Without a status, or with the season disabled: the last count less      *)
(* this pass's wins.                                                       *)
FinalizeBlind ==
  /\ pc = "final"
  /\ Flaky \/ closed
  /\ report' = [report EXCEPT !.left =
                  IF @ > Cardinality(wins) THEN @ - Cardinality(wins) ELSE 0]
  /\ Go("finished")
  /\ UNCHANGED <<serverVars, passes, idle, seen, noRaid, doneKey, banked,
                 raidVars, passVars, claim, history>>

(* A lost session is raised through the loop, from a call of the raid,     *)
(* from CompleteTier or from the daily reward after it.                    *)
SessionLost ==
  /\ pc \in {"raid", "raiding", "claiming"} /\ Flaky
  /\ \/ UNCHANGED serverVars
     \/ pc = "claiming" /\ Completable /\ Advance /\ UNCHANGED closed
  /\ Go("raised")
  /\ UNCHANGED <<runVars, raidVars, passVars, claim, history>>

(* Ctrl+C is noticed between two calls.                                    *)
Interrupted ==
  /\ \/ pc \in {"top", "raiding", "fighting", "battle", "ranked"}
     \/ pc = "claiming" /\ why \in {"echo", "status"}
  /\ Go("interrupted")
  /\ UNCHANGED <<serverVars, runVars, raidVars, passVars, claim, history>>

-----------------------------------------------------------------------------
RaidStep ==
  \/ RaidRefused \/ StartRaid \/ RaidBridgeDead \/ RaidUnverified
  \/ \E reached \in Fights(raid.rivals) :
       \/ EndRaidFails(reached) \/ EndRaidEchoed(reached)
       \/ EndRaidUnechoed(reached)
  \/ CheckRaid \/ CheckRaidFails \/ Refresh \/ RefreshFails

RivalStep ==
  \/ \E r \in Rivals : PickRival(r)
  \/ RivalsDone
  \/ StartBattle \/ StartBattleRefused \/ StartBattleRaises \/ BeatenAlready
  \/ \E heardOf \in BOOLEAN : Confirm(heardOf)
  \/ BridgeError \/ DummyLoss
  \/ \E est \in Estimates :
       \/ Abandon(est) \/ EndBattle(est) \/ InvalidBattle(est)
       \/ EndBattleFails(est)

LoopStep ==
  \/ CapReached \/ StatusFails \/ ReadStatus
  \/ AskToComplete \/ Recheck \/ RecheckFails
  \/ CompleteTier \/ CompleteTierFails \/ Finalize \/ FinalizeBlind
  \/ SessionLost \/ Interrupted

Elsewhere ==
  /\ \/ \E r \in Rivals : SomeoneClears(r)
     \/ SomeoneCompletes \/ SeasonEnds
  /\ UNCHANGED <<pc, runVars, raidVars, passVars, claim, history>>

Next == RaidStep \/ RivalStep \/ LoopStep \/ Elsewhere

Spec == Init /\ [][Next]_vars

-----------------------------------------------------------------------------
(* Properties.                                                             *)

(* A tier whose raid was given up, or that is known to be completed, is    *)
(* not raided again, and CompleteTier is not sent for a tier it has        *)
(* already succeeded for, however often the tier is seen again (the        *)
(* suppression and completed_tier_key of run_titan_arena_tier).            *)
NothingSentTwice ==
  /\ pc = "raid" => seen.tier \notin shut
  /\ pc = "claiming" => at \notin heard

(* A win in rival_results is a rival the server has cleared, although the  *)
(* snapshot was stale, the battle's reply was lost or another session      *)
(* cleared the rival first (_decide_attempt_action, _is_already_cleared).  *)
WinsAreReal == tier = seen.tier => wins \cap Left = {}

(* A loss is left unsubmitted as no better than one that was banked only   *)
(* if the server was sent a loss with as many stars against the same rival *)
(* of the same tier: what is remembered outlasts neither its tier nor a    *)
(* lost reply (banked_best_by_rival, best_banked_stars).                   *)
BankedHasLanded == \A r \in Rivals : banked[r] <= LandedIn(seen.tier)[r]

(* A summary that says nothing is left is right, whichever status, raid    *)
(* or count of wins it was taken from (remaining_rivals and                *)
(* _refresh_final_remaining).                                              *)
ReportIsTrue ==
  pc \in {"finished", "stuck"} /\ ~closed /\ report = [tier |-> tier, left |-> 0]
    => Left = {}

(* A run never goes on and on against a server that stands still: only so  *)
(* many passes in a row find tier and scores as the last one did. They are *)
(* twice the limit, for a raid whose EndRaid failed counts as progress     *)
(* once more in its tier (no_progress_passes and raid_won).                *)
NoIdleSpinning == still <= 2 * MaxIdlePasses

(* A run no call of which fails, and that has the arena for itself, never  *)
(* stops in a tier whose rivals are all cleared without completing it, nor *)
(* does one that gives up on a dead bridge.                                *)
NoTierLeftBehind ==
  ~Flaky /\ ~Shared /\ pc \in {"finished", "stuck", "bridge"} => ~Completable
=============================================================================
