------------------------------- MODULE Commands -------------------------------
(* One run of hw-genie (main.py): the command that argparse picked, against the *)
(* game, and the exit code that main makes of it. Each command is a module of   *)
(* its own; they share the variables and what a lost request or reply can do    *)
(* (GameCall). What a script that starts hw-genie may rely on is stated here.    *)
EXTENDS FiniteSets, Integers

CONSTANTS
    MaxRetries, Flaky,                                                \* GameCall
    Heroes, Weak, MaxLevel, MaxCoins, Limit, Others,                  \* ElementGift
    Rounds, Coins, MaxGames, OpenBeforeCoins, Kills,                  \* SeersGame
    Items, Known, PerCall, MaxRounds, MaxStock, Inside,               \* Consumables
    Slots, Price, Purse, Copies, Rank, Gold, Funds,                  \* Shops
    Missions, Cost, ItemCost, Stamina, Potions, MaxIterations,                  \* Raids
    Daily, Recipe, Guild, Enabled, Steps, Reach, Shop, Excluded,      \* Quests
    Fallbacks, Reruns, OtherRuns,
    Ranks, Top, Retries, Drifts                                       \* Arena

ASSUME CallAssumption == MaxRetries \in Nat /\ Flaky \in BOOLEAN

ASSUME GiftAssumption == /\ IsFiniteSet(Heroes) /\ Heroes \subseteq Nat /\ Weak \subseteq Heroes
                         /\ MaxLevel \in Nat \ {0} /\ MaxCoins \in Nat
                         /\ Limit \in Nat /\ Others \in Nat

ASSUME SeersAssumption == Rounds \in Nat \ {0} /\ Coins \in Nat /\ MaxGames \in Nat
                          /\ OpenBeforeCoins \in BOOLEAN /\ Kills \in Nat

ASSUME ConsumablesAssumption ==
    /\ IsFiniteSet(Items) /\ Known \subseteq Items /\ PerCall \in [Items -> Nat]
    /\ "none" \notin Items
    /\ MaxRounds \in Nat \ {0} /\ MaxStock \in Nat /\ Inside \in Nat

ASSUME ShopAssumption ==
    /\ Slots \in Nat /\ Funds \in Nat
    /\ Price \in [1..Slots -> Nat \ {0}] /\ Copies \in [1..Slots -> Nat \ {0}]
    /\ Rank \in [1..Slots -> 0..11]
    /\ \A m, n \in 1..Slots : m < n /\ Rank[m] > 0 /\ Rank[n] > 0 => Rank[m] < Rank[n]

ASSUME RaidsAssumption == /\ IsFiniteSet(Missions) /\ Cost \in Nat \ {0} /\ ItemCost \in Nat \ {0}
                          /\ Stamina \in Nat /\ Potions \in Nat /\ MaxIterations \in Nat

ASSUME QuestsAssumption ==
    /\ Recipe \in Daily /\ Enabled \subseteq Daily /\ Shop \subseteq Daily \ {Recipe}
    /\ Steps \in [Daily -> Nat \ {0}] /\ \A q \in Daily : Reach[q] \in 1..Steps[q]
    /\ Excluded \subseteq Daily \union Guild /\ Daily \intersect Guild = {}
    /\ Fallbacks \in Nat /\ Reruns \in Nat /\ OtherRuns \in Nat

ASSUME ArenaAssumption == Ranks \in Nat /\ Top \in 0..Ranks /\ Retries \in Nat /\ Drifts \in Nat

VARIABLES command,       \* the subcommand of the run
          pc, game, run  \* the command's program counter, the server, what the command knows

vars == <<command, pc, game, run>>

TheGift       == INSTANCE ElementGift
TheSeersGame  == INSTANCE SeersGame
TheConsumable == INSTANCE Consumables
TheShop       == INSTANCE Shops
TheRaid       == INSTANCE Raids
TheQuests     == INSTANCE Quests
TheArena      == INSTANCE Arena

Init == \/ command = "gift" /\ TheGift!Init
        \/ command = "seers-game" /\ TheSeersGame!Init
        \/ command = "consumable" /\ TheConsumable!Init
        \/ command = "shop" /\ TheShop!Init
        \/ command = "raid" /\ TheRaid!Init
        \/ command = "quests" /\ TheQuests!Init
        \/ command = "arena" /\ TheArena!Init

Next == /\ \/ command = "gift" /\ TheGift!Next
           \/ command = "seers-game" /\ TheSeersGame!Next
           \/ command = "consumable" /\ TheConsumable!Next
           \/ command = "shop" /\ TheShop!Next
           \/ command = "raid" /\ TheRaid!Next
           \/ command = "quests" /\ TheQuests!Next
           \/ command = "arena" /\ TheArena!Next
        /\ UNCHANGED command

Spec == Init /\ [][Next]_vars

-------------------------------------------------------------------------------
(* Exit codes: HWAuthError is main's, the rest is each cmd_ function's. *)

GiftFailsOnError == run.error \/ run.auth

GiftFails == run.error \/ run.failed # {} \/ run.auth

\* A purchase that fails fails neither `shop` nor `asgard-shop`, and a shop that cannot be
\* read only the latter.
ShopFails == run.raised \/ (run.kind \in {"Osh", "Maestro", "other"} /\ run.error)

SeersFails == run.failed \/ run.raised

ConsumableFails == run.raised \/ \E i \in Items : run.status[i] = "error"

\* Whatever the raids came to, the commands have done what they could.
RaidFails == run.raised

QuestsFail == run.failures # {} \/ run.raised

ArenaFails == run.outcome \in {"refused", "raised"}

ExitZero == /\ pc = "done"
            /\ CASE command = "gift" -> ~GiftFails
                 [] command = "seers-game" -> ~SeersFails
                 [] command = "consumable" -> ~ConsumableFails
                 [] command = "shop" -> ~ShopFails
                 [] command = "raid" -> ~RaidFails
                 [] command = "quests" -> ~QuestsFail
                 [] command = "arena" -> ~ArenaFails

-------------------------------------------------------------------------------
\* The types of whichever module is at work.
TypeOK == CASE command = "gift" -> TheGift!GiftTypeOK
            [] command = "seers-game" -> TheSeersGame!SeersTypeOK
            [] command = "consumable" -> TheConsumable!ConsumablesTypeOK
            [] command = "shop" -> TheShop!ShopsTypeOK
            [] command = "raid" -> TheRaid!RaidsTypeOK
            [] command = "quests" -> TheQuests!QuestsTypeOK
            [] command = "arena" -> TheArena!ArenaTypeOK

\* An exit code of 0 means that the work is done on the server, whatever was lost, retried,
\* spent by another session, or left behind by an earlier process that was killed. `gift`
\* has carried out its whole plan: `up` has maxed every hero it planned, `reset` stripped it
\* (is_failure); `seers-game` has left no game open (it resumes); `consumable run` has left
\* nothing of its targets over, although boxes contain boxes and rounds are limited; `quests`
\* has claimed all it set out to claim, except where no answer showed a quest fulfilled or
\* the player keeps the reward.
ExitZeroIsDone ==
    ExitZero => /\ command = "gift" /\ ~run.dry => TheGift!PlanCarriedOut
                /\ command = "seers-game" => ~game.active
                /\ command = "consumable" => \A i \in Items : game.stock[i] = 0
                /\ command = "quests" /\ ~run.dry => TheQuests!AllClaimed

\* What a command reports at any time has happened on the server, although a lost reply may
\* hide more. The coins `gift` reports without having read the game again are no more than
\* its calls moved (spent_estimate, _drop_refund); rewards of `seers-game` are counted once
\* per game although every answer repeats the earlier ones (_merge_rewards); nothing is
\* counted as consumed that is not used up, except of an item with an answer that could not
\* be read, which counts as complete (_actual_consumed); a mission reported as done
\* today is raided (run_hero_raid); a quest reported as claimed is claimed.
ReportedIsReal == /\ command = "gift" => TheGift!ReportIsFloor
                  /\ command = "seers-game" => TheSeersGame!RewardsCountedOnce
                  /\ command = "consumable" => TheConsumable!ConsumedIsReal
                  /\ command = "raid" => TheRaid!ReportedRaidsAreReal
                  /\ command = "quests" => TheQuests!ClaimedIsReal

\* No retry of a lost start and no resumed game makes `seers-game` pay for more games than
\* --max-games allows.
PaidWithinLimit == command = "seers-game" => TheSeersGame!PaidWithinLimit

\* The docstring of run_consumable_use: a transient failure is tried again in the next round.
TransientIsRetried == command = "consumable" => TheConsumable!TransientIsRetried

\* The budget a shop run keeps of coins or gold it could read is never less than the game has
\* left of them, however often a lost purchase was made twice: such a budget makes the run
\* skip no slot that could be paid (_purchase_gold_buffs, run_asgard_shop). Gold that could
\* not be read counts as none: then the run passes over buffs that could be paid.
BudgetIsCeiling == command = "shop" => TheShop!BudgetIsCeiling

\* A shop run in which no purchase fails buys what a dry run that read the same would have
\* listed, although the two are computed by different code (_plan_gold_buffs and
\* _purchase_gold_buffs).
DryRunForetells == command = "shop" => TheShop!DryRunForetells

\* The daily routine never spends stamina on item raids that its hero raids went short of.
HeroesComeFirst == command = "raid" => TheRaid!HeroesComeFirst

\* In one cycle, however many runs it sees, the guild's gift recipe is run to its end once,
\* by the daily quest or by the guild phase, unless a call went unanswered, the server's day
\* could not be read or the note was not written (recipe_executed_in_daily,
\* _guild_ran_recipe_today); and the glyph material is spent once, although the server's flag
\* may lag, unless a call went unanswered, the time of the reset could not be read, last_run_at
\* was not written or another process was at it at the same time.
OncePerCycle == command = "quests" => TheQuests!RecipeOncePerCycle /\ TheQuests!GlyphOncePerCycle

\* However long the wait for the candidate list, only a rank that moves after the target's
\* place was last read can make an arena attack hit somebody who is not above (the second
\* fetch_own_place of run_arena_attack, topGet of the snapshot attack); and unless it works
\* from a snapshot, it attacks only while the target is in the latest list, the one list the
\* server accepts.
AttacksAreAllowed == command = "arena" => TheArena!AttacksGoUp /\ TheArena!AttackedFromLatestList

\* One `arena attack` spends at most one attempt, and none when it says that it sent no
\* attack (max_retries=0).
AttemptSpentOnce == command = "arena" => TheArena!AttemptSpentOnce

===============================================================================
