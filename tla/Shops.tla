--------------------------------- MODULE Shops ---------------------------------
(* Buying down a queue: `shop` (commands/hero_shopping.py), which tries every    *)
(* wanted slot and leaves a shop whose currency has run out, and `asgard-shop`    *)
(* (commands/asgard_shop.py), which keeps a budget of its own beside the game's.  *)
EXTENDS Integers, Sequences, FiniteSetsExt, GameCall

CONSTANTS Slots,    \* how many slots, numbered in the order in which they are bought
          Price,    \* [Offers -> Nat \ {0}]
          Purse,    \* what each costs: [Offers -> Purses], one currency per shop
          Copies,   \* buyLimit: [Offers -> Nat \ {0}]
          Rank,     \* MAESTRO_PRIORITY: [Offers -> 0..11]; 0 for none
          Gold,     \* the purse of gold, which a read of the player shows
          Funds     \* most of each currency

Offers == 1..Slots

Purses == {Purse[o] : o \in Offers}

VARIABLES pc,    \* "look", "buy", "done"
          game,  \* the server: funds, copies left
          run    \* queue, budget, results

vars == <<pc, game, run>>

Init == /\ pc = "look"
        /\ game \in [funds : [Purses -> 0..Funds], left : {Copies}]
        /\ \E kind \in {"souls", "Osh", "Maestro", "other"}, gold \in BOOLEAN, dry \in BOOLEAN :
             /\ kind \in {"souls", "other"} => ~dry /\ gold
             /\ run = [kind |-> kind, gold |-> gold, dry |-> dry, queue |-> <<>>,
                       budget |-> game.funds, unread |-> {}, short |-> {}, bought |-> <<>>, planned |-> <<>>,
                       failed |-> FALSE, error |-> FALSE, raised |-> FALSE]

-------------------------------------------------------------------------------
(* What to buy *)

Repeat(o, n) == [i \in 1..n |-> o]

\* In the order of the offers, left[o] copies of each.
Queue(S, left) ==
    LET upto[n \in 0..Slots] ==
            IF n = 0 THEN <<>> ELSE upto[n - 1] \o Repeat(n, IF n \in S THEN left[n] ELSE 0)
    IN upto[Slots]

Total(S) == MapThenSumSet(LAMBDA o : Price[o], S)

\* S is 1, A is 2, B is 3.
InClass(S, c) == {o \in S : Rank[o] \in CASE c = 1 -> 1..6 [] c = 2 -> 7..9 [] c = 3 -> 10..11}

\* As many of class S as can be, the best ranked of them; then A, then B; then the cheapest.
Score(S) == LET count(c) == Cardinality(InClass(S, c))
                ranks(c) == MapThenSumSet(LAMBDA o : Rank[o], InClass(S, c))
            IN <<count(1), -ranks(1), count(2), -ranks(2), count(3), -ranks(3), -Total(S)>>

Better(a, b) == \E n \in DOMAIN a : a[n] > b[n] /\ \A m \in 1..(n - 1) : a[m] = b[m]

MaestroPlan(left, coins) ==
    LET ranked == {o \in Offers : Purse[o] # Gold /\ Rank[o] > 0 /\ left[o] > 0}
        plans == {S \in SUBSET ranked : Total(S) <= coins}
    IN CHOOSE S \in plans : \A T \in plans : ~Better(Score(T), Score(S))

\* The slots of one kind of run; gold comes first, as run_asgard_shop buys it first, and
\* only of gold buffs it buys every copy that is left.
Wanted(kind, gold, g) ==
    LET once(S) == Queue({o \in S : g.left[o] > 0}, [o \in Offers |-> 1])
        goods == {o \in Offers : Purse[o] # Gold}
        buffs == IF gold THEN {o \in Offers : Purse[o] = Gold} ELSE {}
    IN CASE kind = "souls" -> once(Offers)
         [] kind = "Osh" -> Queue(buffs, g.left) \o once(goods)
         [] kind = "Maestro" ->
              LET coins == Min({g.funds[p] : p \in Purses \ {Gold}})
              IN Queue(buffs, g.left) \o once(MaestroPlan(g.left, coins))
         [] OTHER -> <<>>

\* The dry run: what the budget allows, one slot after the other.
Listed(acc, o) == IF acc.funds[Purse[o]] < Price[o] THEN acc
                  ELSE [funds |-> [acc.funds EXCEPT ![Purse[o]] = @ - Price[o]],
                        list |-> Append(acc.list, o)]

Affordable(queue, funds) ==
    LET upto[n \in 0..Len(queue)] ==
            IF n = 0 THEN [funds |-> funds, list |-> <<>>] ELSE Listed(upto[n - 1], queue[n])
    IN upto[Len(queue)].list

-------------------------------------------------------------------------------
\* Coins that the shop's answer lacks and the gold of a player whose status could not be
\* read count as none, and the run goes on with that.
Shown(funds, unread) == [p \in Purses |-> IF p \in unread THEN 0 ELSE funds[p]]

Unreadable == IF Flaky /\ run.kind \in {"Osh", "Maestro"} THEN SUBSET Purses ELSE {{}}

\* One reading of the shop, of the coins and, for gold, of the player.
Look == /\ pc = "look"
        /\ \E unread \in Unreadable :
             LET funds == Shown(game.funds, unread)
                 queue == Wanted(run.kind, run.gold, [game EXCEPT !.funds = funds])
             IN /\ run' = [run EXCEPT !.queue = queue, !.budget = funds, !.unread = unread,
                                      !.planned = Affordable(queue, funds)]
                /\ pc' = IF run.dry \/ queue = <<>> THEN "done" ELSE "buy"
        /\ UNCHANGED game

LookFails == /\ pc = "look" /\ Flaky
             /\ \E auth \in BOOLEAN : run' = [run EXCEPT !.error = ~auth, !.raised = auth]
             /\ pc' = "done"
             /\ UNCHANGED game

-------------------------------------------------------------------------------
Sold(g, o) == IF g.left[o] = 0 \/ g.funds[Purse[o]] < Price[o] THEN g
              ELSE [funds |-> [g.funds EXCEPT ![Purse[o]] = @ - Price[o]],
                    left |-> [g.left EXCEPT ![o] = @ - 1]]

At(o) == pc = "buy" /\ run.queue # <<>> /\ o = Head(run.queue)

TooDearByOne(o) == \/ Purse[o] \in run.short
                   \/ run.kind # "souls" /\ run.budget[Purse[o]] <= Price[o]

\* A purse in which the server found too little is not tried again; asgard-shop also looks
\* at its own budget.
TooDear(o) == \/ Purse[o] \in run.short
              \/ run.kind # "souls" /\ run.budget[Purse[o]] < Price[o]

Skip(o) == /\ At(o) /\ TooDear(o)
           /\ run' = [run EXCEPT !.queue = Tail(@)]
           /\ UNCHANGED <<pc, game>>

Buy(o) == /\ At(o) /\ ~TooDear(o)
          /\ \E g \in Arrivals(LAMBDA x : Sold(x, o), game) :
               /\ Sold(g, o) # g
               /\ game' = Sold(g, o)
          /\ run' = [run EXCEPT !.queue = Tail(@), !.bought = Append(@, o),
                                !.budget[Purse[o]] = @ - Price[o]]
          /\ UNCHANGED pc

\* NotEnough, or the slot is sold out, or anything else.
Refused(o) == /\ At(o) /\ ~TooDear(o)
              /\ \E g \in Arrivals(LAMBDA x : Sold(x, o), game), short \in BOOLEAN :
                   /\ Flaky \/ Sold(g, o) = g
                   /\ short <=> g.funds[Purse[o]] < Price[o]
                   /\ game' = g
                   /\ run' = [run EXCEPT !.queue = Tail(@), !.failed = TRUE,
                                         !.short = IF short THEN @ \union {Purse[o]} ELSE @]
              /\ UNCHANGED pc

UnansweredPaid(o) == /\ At(o) /\ ~TooDear(o)
                     /\ game' \in Losses(LAMBDA x : Sold(x, o), game)
                     /\ run' = [run EXCEPT !.queue = Tail(@), !.failed = TRUE,
                                           !.budget[Purse[o]] = @ - Price[o]]
                     /\ UNCHANGED pc

Unanswered(o) == /\ At(o) /\ ~TooDear(o)
                 /\ game' \in Losses(LAMBDA x : Sold(x, o), game)
                 /\ run' = [run EXCEPT !.queue = Tail(@), !.failed = TRUE]
                 /\ UNCHANGED pc

Unauthorized(o) == /\ At(o) /\ ~TooDear(o) /\ Flaky
                   /\ game' \in Arrivals(LAMBDA x : Sold(x, o), game)
                   /\ run' = [run EXCEPT !.raised = TRUE]
                   /\ pc' = "done"

SoldUp == /\ pc = "buy" /\ run.queue = <<>>
          /\ pc' = "done"
          /\ UNCHANGED <<game, run>>

Next == \/ Look \/ LookFails \/ SoldUp
        \/ \E o \in Offers : \/ Skip(o) \/ Buy(o) \/ Refused(o) \/ Unanswered(o) \/ Unauthorized(o)

Spec == Init /\ [][Next]_vars

-------------------------------------------------------------------------------
ShopsTypeOK ==
    /\ pc \in {"look", "buy", "done"}
    /\ game \in [funds : [Purses -> 0..Funds], left : [Offers -> Nat]]
    /\ run.queue \in Seq(Offers) /\ run.bought \in Seq(Offers) /\ run.planned \in Seq(Offers)
    /\ run.budget \in [Purses -> Int] /\ run.short \subseteq Purses
    /\ run.unread \subseteq Purses
    /\ {run.failed, run.error, run.raised, run.gold, run.dry} \subseteq BOOLEAN

\* The budget a run keeps of funds it could read is never less than the game has left of
\* them, however often a lost purchase was made twice: such a budget makes a run skip no
\* slot that could be paid (_purchase_gold_buffs, run_asgard_shop).
BudgetIsCeiling ==
    pc = "buy" => \A p \in Purses \ run.unread : run.budget[p] >= game.funds[p]

\* A run in which no purchase fails buys what a dry run that read the same would have
\* listed, although the two are computed by different code (_plan_gold_buffs and
\* _purchase_gold_buffs).
DryRunForetells ==
    pc = "done" /\ run.kind \in {"Osh", "Maestro"} /\ ~run.dry
      /\ ~run.failed /\ ~run.error /\ ~run.raised => run.bought = run.planned
===============================================================================
