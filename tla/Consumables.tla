------------------------------ MODULE Consumables ------------------------------
(* `consumable use` (commands/consumables.py over core/inventory.py): rounds of  *)
(* reading the inventory and using up what it shows, since boxes may contain     *)
(* boxes, until nothing usable is left or MaxRounds have been made.              *)
EXTENDS FiniteSetsExt, Naturals, GameCall

CONSTANTS Items,      \* the targets
          Known,      \* those with a registered method
          PerCall,    \* max_amount: [Items -> Nat], 0 for no limit
          MaxRounds,  \* MAX_USE_ROUNDS
          MaxStock,   \* most of an item at the start
          Inside      \* items that all boxes together contain

VARIABLES pc,    \* "inventory", "use", "done"
          game,  \* the server: stock of each item, items still inside boxes; used so far
          run    \* the round's reading, the item at hand, results

vars == <<pc, game, run>>

None == "none"

Init == /\ pc = "inventory"
        /\ game \in [stock : [Items -> 0..MaxStock], inside : {Inside}, used : {[i \in Items |-> 0]}]
        /\ run = [round |-> 0, pending |-> {}, read |-> [i \in Items |-> 0],
                  item |-> None, left |-> 0, failed |-> {},
                  status |-> [i \in Items |-> "skipped"], consumed |-> [i \in Items |-> 0],
                  refused |-> {}, unread |-> {}, raised |-> FALSE]

-------------------------------------------------------------------------------
Amount(i, left) == IF PerCall[i] = 0 THEN left ELSE Min({PerCall[i], left})

\* Opening k of an item brings s items to light, of whatever kind.
Open(g, i, k, j, s) ==
    [stock |-> [[g.stock EXCEPT ![i] = @ - k] EXCEPT ![j] = @ + s],
     inside |-> g.inside - s, used |-> [g.used EXCEPT ![i] = @ + k]]

\* A lost use is taken to have been complete and to have brought nothing to light.
UsedUp(g, i, n) == Open(g, i, Min({n, g.stock[i]}), i, 0)

-------------------------------------------------------------------------------
LastRoundLate == run.round > MaxRounds

LastRound == run.round >= MaxRounds

\* All targets are read at once; what failed for good is not tried again.
Fetch ==
    /\ pc = "inventory"
    /\ LET pending == {i \in Items \ run.failed : game.stock[i] > 0}
           last == LastRound
       IN /\ run' = [run EXCEPT !.round = @ + 1, !.pending = pending, !.read = game.stock,
                                !.status = [i \in Items |-> IF last /\ i \in pending
                                                            THEN "error" ELSE @[i]]]
          /\ pc' = IF pending = {} \/ last THEN "done" ELSE "use"
    /\ UNCHANGED game

\* InventoryReadError or HWAuthError ends the command.
Raise(g) == /\ game' = g
            /\ run' = [run EXCEPT !.raised = TRUE]
            /\ pc' = "done"

FetchFails == pc = "inventory" /\ Flaky /\ Raise(game)

NextRound == /\ pc = "use" /\ run.pending = {} /\ run.item = None
             /\ pc' = "inventory"
             /\ UNCHANGED <<game, run>>

UnknownMethod(i) == /\ pc = "use" /\ run.item = None /\ i \in run.pending \ Known
                    /\ run' = [run EXCEPT !.pending = @ \ {i}, !.failed = @ \union {i},
                                          !.refused = @ \union {i}, !.status[i] = "error"]
                    /\ UNCHANGED <<pc, game>>

Take(i) == /\ pc = "use" /\ run.item = None /\ i \in run.pending \intersect Known
           /\ run' = [run EXCEPT !.pending = @ \ {i}, !.item = i, !.left = run.read[i]]
           /\ UNCHANGED <<pc, game>>

InHand(i) == pc = "use" /\ run.item = i

\* An answer that cannot be read counts as complete: rather too much than a use that is
\* reported as none.
ActualConsumed(asked, used, told) == IF told THEN used ELSE asked

\* The server may use fewer than asked, and its answer may not say how many.
UseChunk(i) ==
    /\ InHand(i)
    /\ LET n == Amount(i, run.left) IN
       \E g \in Arrivals(LAMBDA x : UsedUp(x, i, n), game) :
         \E k \in 1..Min({n, g.stock[i]}), j \in Items, s \in 0..g.inside, told \in BOOLEAN :
           /\ game' = Open(g, i, k, j, s)
           /\ run' = [run EXCEPT !.left = @ - n, !.consumed[i] = @ + ActualConsumed(n, k, told),
                                 !.unread = IF told THEN @ ELSE @ \union {i},
                                 !.item = IF run.left = n THEN None ELSE i,
                                 !.status[i] = IF run.left = n THEN "success" ELSE @]
    /\ UNCHANGED pc

\* use_consumable makes an ERROR of whatever is no success, a call that was not answered
\* included; an ERROR is final.
GiveUp(i, g, refused) ==
    /\ game' = g
    /\ run' = [run EXCEPT !.item = None, !.failed = @ \union {i}, !.status[i] = "error",
                          !.refused = IF refused THEN @ \union {i} ELSE @]
    /\ UNCHANGED pc

UseRefused(i) ==
    /\ InHand(i)
    /\ \E g \in Arrivals(LAMBDA x : UsedUp(x, i, Amount(i, run.left)), game) :
         (Flaky \/ g.stock[i] = 0) /\ GiveUp(i, g, TRUE)

UseUnanswered(i) ==
    /\ InHand(i)
    /\ \E g \in Losses(LAMBDA x : UsedUp(x, i, Amount(i, run.left)), game) : GiveUp(i, g, FALSE)

UseUnauthorized(i) ==
    /\ InHand(i) /\ Flaky
    /\ \E g \in Arrivals(LAMBDA x : UsedUp(x, i, Amount(i, run.left)), game) : Raise(g)

Next == \/ Fetch \/ FetchFails \/ NextRound
        \/ \E i \in Items : \/ UnknownMethod(i) \/ Take(i) \/ UseChunk(i)
                            \/ UseRefused(i) \/ UseUnanswered(i) \/ UseUnauthorized(i)

Spec == Init /\ [][Next]_vars

-------------------------------------------------------------------------------
ConsumablesTypeOK ==
    /\ pc \in {"inventory", "use", "done"}
    /\ game \in [stock : [Items -> Nat], inside : 0..Inside, used : [Items -> Nat]]
    /\ run \in [round : 0..(MaxRounds + 1), pending : SUBSET Items, read : [Items -> Nat],
                item : Items \union {None}, left : Nat, failed : SUBSET Items,
                status : [Items -> {"skipped", "success", "error"}],
                consumed : [Items -> Nat], refused : SUBSET Items, unread : SUBSET Items,
                raised : BOOLEAN]

\* Of an item whose answers could all be read, nothing is counted as consumed that the
\* server has not used up, however many it used of those asked for and however often a lost
\* call used them (_actual_consumed).
ConsumedIsReal == \A i \in Items \ run.unread : run.consumed[i] <= game.used[i]

\* Docstring of run_consumable_use: permanent errors are not retried, but a transient one
\* is, in the next round. So an item is given up only after a refusal.
TransientIsRetried == run.failed \subseteq run.refused
===============================================================================
