--------------------------- MODULE CommandsClaims ---------------------------
(***************************************************************************)
(* What the commands say of their work, for every value of the constants:  *)
(* what they report as done is done, exit code 0 leaves nothing undone,    *)
(* and what is to be done once a day is done once.  A section for each     *)
(* command defines the command's records, its inductive invariant, and     *)
(* what the calls, heard of or not, make of the game; the last section     *)
(* puts the commands together.                                             *)
(***************************************************************************)
EXTENDS CommandsProofs, FiniteSetTheorems, WellFoundedInduction

------------------------------------------------------------------------------
\* Element gift: what the report says, and what exit code 0 says.

Gifts == [level : [Heroes -> 0..MaxLevel], coins : Nat, others : 0..Others]

GiftRuns == [mode : {"up", "reset"}, dry : BOOLEAN, plan : SUBSET Heroes, todo : SUBSET Heroes,
             read : [Heroes -> 0..MaxLevel], balance : Nat, changed : SUBSET Heroes,
             failed : SUBSET Heroes, error : BOOLEAN, auth : BOOLEAN, priced : Nat,
             coins : Nat, moved : Nat]

GiftClean == run.failed = {} /\ ~run.error /\ ~run.auth

GiftGoal == IF run.mode = "up" THEN MaxLevel ELSE 0

\* A call that is priced or refunded has moved as much. While nothing has failed, every hero
\* who is no longer to be done is at the goal, from which nobody but a reset takes a hero; and
\* nobody lowers a level below what was read, so what was missing then is enough.
GiftInv ==
    /\ pc \in {"read", "work", "report", "done"} /\ game \in Gifts /\ run \in GiftRuns
    /\ run.priced <= run.moved
    /\ run.mode = "reset" => run.coins <= run.moved
    /\ pc = "read" => run.plan = {}
    /\ pc \in {"read", "work"} => ~run.error /\ ~run.auth
    /\ pc = "work" /\ run.mode = "up" => \A h \in Heroes : run.read[h] <= game.level[h]
    /\ ~run.dry /\ GiftClean =>
          \A h \in run.plan : (pc = "work" => h \notin run.todo) => game.level[h] = GiftGoal

GiftInvariant == command = "gift" => GiftInv

LEMMA GiftInit == Init => GiftInvariant
<1>. SUFFICES ASSUME Init, command = "gift" PROVE GiftInv
  BY DEF GiftInvariant
<1>1. TheGift!Init
  BY DEF Init
<1>2. PICK mode \in {"up", "reset"}, dry \in BOOLEAN : run = TheGift!Blank(mode, dry)
  BY <1>1 DEF TheGift!Init
<1>3. pc = "read" /\ game \in Gifts
  <2>1. game \in [level : [Heroes -> 0..MaxLevel], coins : 0..MaxCoins, others : {Others}]
    BY <1>1 DEF TheGift!Init
  <2>2. 0..MaxCoins \subseteq Nat /\ Others \in 0..Others
    BY GiftAssumption
  <2>. QED  BY <1>1, <2>1, <2>2 DEF TheGift!Init, Gifts
<1>4. run \in GiftRuns /\ run.plan = {} /\ run.error = FALSE /\ run.auth = FALSE /\ run.priced = 0 /\ run.coins = 0 /\ run.moved = 0
  BY <1>2, GiftAssumption DEF TheGift!Blank, GiftRuns
<1>. QED  BY <1>3, <1>4 DEF GiftInv

\* The calls.
LEMMA LesserOf ==
  ASSUME NEW a \in Nat, NEW b \in Nat
  PROVE  LET m == TheGift!Min({a, b}) IN
         m \in Nat /\ m <= a /\ m <= b /\ m \in {a, b}
<1>1. \E x \in {a, b} : \A y \in {a, b} : x =< y
  <2>1. CASE a <= b
    BY <2>1
  <2>2. CASE b <= a
    BY <2>2
  <2>. QED  BY <2>1, <2>2
<1>. QED  BY <1>1 DEF TheGift!Min

LEMMA RoomFor ==
  ASSUME NEW g \in Gifts, NEW h \in Heroes
  PROVE  LET room == TheGift!Room(g, h) IN
         room \in Nat /\ room <= MaxLevel - g.level[h] /\ room <= g.coins
<1>1. MaxLevel - g.level[h] \in Nat /\ g.coins \in Nat
  BY GiftAssumption DEF Gifts
<1>. QED  BY <1>1, LesserOf DEF TheGift!Room

LEMMA Raises ==
  ASSUME NEW g \in Gifts, NEW h \in Heroes, NEW k \in Nat,
         k <= MaxLevel - g.level[h], k <= g.coins
  PROVE  LET r == TheGift!Raise(g, h, k) IN
         /\ r \in Gifts /\ r.coins = g.coins - k /\ r.others = g.others
         /\ r.level[h] = g.level[h] + k
         /\ \A i \in Heroes \ {h} : r.level[i] = g.level[i]
<1> DEFINE r == TheGift!Raise(g, h, k)
           up == [g.level EXCEPT ![h] = @ + k]
<1>1. g.level[h] + k \in 0..MaxLevel /\ g.coins - k \in Nat
  BY GiftAssumption DEF Gifts
<1>2. up \in [Heroes -> 0..MaxLevel] /\ up[h] = g.level[h] + k
      /\ \A i \in Heroes \ {h} : up[i] = g.level[i]
  BY <1>1 DEF Gifts
<1>3. r = [g EXCEPT !.level = up, !.coins = g.coins - k]
  BY DEF TheGift!Raise, Gifts
<1> HIDE DEF up
<1>4. r = [level |-> up, coins |-> g.coins - k, others |-> g.others]
  BY <1>3 DEF Gifts
<1>. QED  BY <1>1, <1>2, <1>4 DEF Gifts

LEMMA Strips ==
  ASSUME NEW g \in Gifts, NEW h \in Heroes
  PROVE  LET r == TheGift!Strip(g, h) IN
         /\ r \in Gifts /\ r.coins = g.coins + g.level[h] /\ r.others = g.others
         /\ r.level[h] = 0
         /\ \A i \in Heroes \ {h} : r.level[i] = g.level[i]
<1> DEFINE r == TheGift!Strip(g, h)
           down == [g.level EXCEPT ![h] = 0]
<1>1. 0 \in 0..MaxLevel /\ g.level[h] \in Nat /\ g.coins + g.level[h] \in Nat
  BY GiftAssumption DEF Gifts
<1>2. down \in [Heroes -> 0..MaxLevel] /\ down[h] = 0
      /\ \A i \in Heroes \ {h} : down[i] = g.level[i]
  BY <1>1 DEF Gifts
<1>3. r = [g EXCEPT !.level = down, !.coins = g.coins + g.level[h]]
  BY DEF TheGift!Strip, Gifts
<1> HIDE DEF down
<1>4. r = [level |-> down, coins |-> g.coins + g.level[h], others |-> g.others]
  BY <1>3 DEF Gifts
<1>. QED  BY <1>1, <1>2, <1>4 DEF Gifts

\* What a call of `up` leaves, heard of or not: nobody's level falls, and no coins come back.
Grown(g, h) == /\ g \in Gifts /\ g.coins <= game.coins
               /\ \A i \in Heroes : game.level[i] <= g.level[i]
               /\ \A i \in Heroes \ {h} : g.level[i] = game.level[i]

LEMMA LevelUpsGrow ==
  ASSUME game \in Gifts, run \in GiftRuns, NEW h \in Heroes, NEW g, Grown(g, h)
  PROVE  Grown(TheGift!LevelUps(g, h), h)
<1> DEFINE k == TheGift!Min({TheGift!Asked(h), TheGift!Room(g, h)})
<1>1. g \in Gifts /\ TheGift!Room(g, h) \in Nat /\ TheGift!Asked(h) \in Nat
  BY RoomFor, GiftAssumption DEF Grown, TheGift!Asked, GiftRuns
<1>2. k \in Nat /\ k <= TheGift!Room(g, h)
  BY <1>1, LesserOf
<1>3. k <= MaxLevel - g.level[h] /\ k <= g.coins
  <2>1. MaxLevel - g.level[h] \in Nat /\ g.coins \in Nat
    BY <1>1, GiftAssumption DEF Gifts
  <2>. QED  BY <1>1, <1>2, <2>1, RoomFor
<1> HIDE DEF k
<1>4. LET r == TheGift!Raise(g, h, k) IN
        /\ r \in Gifts /\ r.coins = g.coins - k
        /\ r.level[h] = g.level[h] + k
        /\ \A i \in Heroes \ {h} : r.level[i] = g.level[i]
  BY <1>1, <1>2, <1>3, Raises
<1>5. TheGift!LevelUps(g, h) = TheGift!Raise(g, h, k)
  BY DEF TheGift!LevelUps, k
<1> DEFINE r == TheGift!Raise(g, h, k)
<1>6. g.coins \in Nat /\ game.coins \in Nat /\ g.level[h] \in Nat /\ game.level[h] \in Nat
      /\ \A i \in Heroes : game.level[i] \in Nat
  BY <1>1 DEF Gifts
<1>7. r \in Gifts /\ r.coins <= game.coins /\ game.level[h] <= r.level[h]
      /\ \A i \in Heroes \ {h} : r.level[i] = game.level[i]
  BY <1>2, <1>4, <1>6 DEF Grown
<1> HIDE DEF r
<1>. QED  BY <1>5, <1>6, <1>7 DEF Grown, r

LEMMA UpArrives ==
  ASSUME game \in Gifts, run \in GiftRuns, NEW h \in Heroes
  PROVE  /\ \A g \in TheGift!Arrivals(LAMBDA x : TheGift!LevelUps(x, h), game) : Grown(g, h)
         /\ \A g \in TheGift!Losses(LAMBDA x : TheGift!LevelUps(x, h), game) : Grown(g, h)
<1>1. Grown(game, h)
  BY DEF Grown, Gifts
<1>2. Grown(TheGift!LevelUps(game, h), h)
  BY <1>1, LevelUpsGrow
<1>3. Grown(TheGift!LevelUps(TheGift!LevelUps(game, h), h), h)
  BY <1>2, LevelUpsGrow
<1>. QED  BY <1>1, <1>2, <1>3 DEF TheGift!Arrivals, TheGift!Losses

LEMMA DropArrives ==
  ASSUME game \in Gifts, NEW h \in Heroes
  PROVE  /\ \A g \in TheGift!Arrivals(LAMBDA x : TheGift!Strip(x, h), game) : g \in Gifts
         /\ \A g \in TheGift!Losses(LAMBDA x : TheGift!Strip(x, h), game) : g \in Gifts
<1>1. TheGift!Strip(game, h) \in Gifts
  BY Strips
<1>2. TheGift!Strip(TheGift!Strip(game, h), h) \in Gifts
  BY <1>1, Strips
<1>. QED  BY <1>1, <1>2 DEF TheGift!Arrivals, TheGift!Losses

LEMMA GiftMoved ==
  ASSUME game \in Gifts, NEW g \in Gifts
  PROVE  /\ TheGift!Moved(g) \in Nat
         /\ g.coins <= game.coins => TheGift!Moved(g) = game.coins - g.coins
         /\ g.coins > game.coins => TheGift!Moved(g) = g.coins - game.coins
<1>1. game.coins \in Nat /\ g.coins \in Nat
  BY DEF Gifts
<1>. QED  BY <1>1 DEF TheGift!Moved

\* A hero that fails: the run is not clean any more.
LEMMA GiftBreaks ==
  ASSUME GiftInv, pc = "work", NEW h \in Heroes, game' \in Gifts,
         run.mode = "up" => Grown(game', h),
         run' \in GiftRuns, h \in run'.failed, run'.moved >= run.moved,
         run'.priced = run.priced, run'.coins = run.coins, run'.mode = run.mode,
         run'.read = run.read,
         pc' \in {"work", "report"}, pc' = "work" => ~run'.auth /\ ~run'.error
  PROVE  GiftInv'
<1>1. run \in GiftRuns /\ game \in Gifts
  BY DEF GiftInv
<1>2. ~GiftClean'
  BY DEF GiftClean
<1>3. run'.priced <= run'.moved /\ (run'.mode = "reset" => run'.coins <= run'.moved)
  BY <1>1 DEF GiftInv, GiftRuns
<1>4. run'.mode = "up" => \A i \in Heroes : run'.read[i] <= game'.level[i]
  <2>. SUFFICES ASSUME run.mode = "up", NEW i \in Heroes PROVE run.read[i] <= game'.level[i]
    OBVIOUS
  <2>1. run.read[i] <= game.level[i] /\ game.level[i] <= game'.level[i]
    BY DEF GiftInv, Grown
  <2>2. run.read[i] \in Nat /\ game.level[i] \in Nat /\ game'.level[i] \in Nat
    BY <1>1 DEF GiftRuns, Gifts
  <2>. QED  BY <2>1, <2>2
<1>5. pc' = "read" => run'.plan = {}
  OBVIOUS
<1>. QED  BY <1>2, <1>3, <1>4, <1>5 DEF GiftInv

\* The same, of what the code does.
LEMMA GiftFailing ==
  ASSUME GiftInv, pc = "work", NEW h \in Heroes, NEW g \in Gifts,
         run.mode = "up" => Grown(g, h),
         NEW why \in {"hero", "stop", "auth"}, TheGift!Fail(h, g, why)
  PROVE  GiftInv'
<1> DEFINE moved == run.moved + TheGift!Moved(g)
           failed == run.failed \union {h}
           todo == run.todo \ {h}
           auth == why = "auth"
           error == why # "hero"
<1>1. run \in GiftRuns /\ game \in Gifts
  BY DEF GiftInv
<1>2. moved \in Nat /\ moved >= run.moved /\ failed \in SUBSET Heroes /\ h \in failed
      /\ todo \in SUBSET Heroes /\ auth \in BOOLEAN /\ error \in BOOLEAN
  BY <1>1, GiftMoved DEF GiftRuns
<1>3. game' = g
      /\ run' = [run EXCEPT !.todo = todo, !.failed = failed, !.moved = moved, !.auth = auth,
                            !.error = error]
  BY <1>1 DEF GiftRuns, TheGift!Fail
<1>4. pc' \in {"work", "report"} /\ (pc' = "work" => ~auth /\ ~error)
  BY DEF TheGift!Fail
<1> HIDE DEF moved, failed, todo, auth, error
<1>5. run' \in GiftRuns /\ run'.failed = failed /\ run'.moved = moved /\ run'.auth = auth
      /\ run'.error = error /\ run'.priced = run.priced /\ run'.coins = run.coins
      /\ run'.mode = run.mode /\ run'.read = run.read
  BY <1>1, <1>2, <1>3 DEF GiftRuns
<1>6. (pc' = "work" => ~run'.auth /\ ~run'.error) /\ h \in run'.failed
      /\ run'.moved >= run.moved /\ game' \in Gifts /\ (run.mode = "up" => Grown(game', h))
  BY <1>2, <1>3, <1>4, <1>5
<1>. QED  BY <1>4, <1>5, <1>6, GiftBreaks

LEMMA GiftUpStops ==
  ASSUME GiftInv, NEW h \in Heroes,
         TheGift!HeroPartly(h) \/ TheGift!HeroLost(h)
  PROVE  GiftInv'
<1>1. pc = "work" /\ game \in Gifts /\ run \in GiftRuns
  BY DEF GiftInv, TheGift!HeroPartly, TheGift!HeroLost, TheGift!Turn
<1>2. CASE TheGift!HeroLost(h)
  <2>1. PICK g \in TheGift!Losses(LAMBDA x : TheGift!LevelUps(x, h), game) :
          TheGift!Fail(h, g, "stop")
    BY <1>2 DEF TheGift!HeroLost
  <2>2. Grown(g, h)
    BY <1>1, UpArrives
  <2>3. g \in Gifts
    BY <2>2 DEF Grown
  <2>. QED  BY <1>1, <2>1, <2>2, <2>3, GiftFailing
<1>3. CASE TheGift!HeroPartly(h)
  <2>1. PICK g \in TheGift!Arrivals(LAMBDA x : TheGift!LevelUps(x, h), game) :
          \E k \in 0..TheGift!Room(g, h) : \E why \in {"hero", "stop", "auth"} :
            TheGift!Fail(h, TheGift!Raise(g, h, k), why)
    BY <1>3 DEF TheGift!HeroPartly
  <2>2. PICK k \in 0..TheGift!Room(g, h), why \in {"hero", "stop", "auth"} :
          TheGift!Fail(h, TheGift!Raise(g, h, k), why)
    BY <2>1
  <2>3. Grown(g, h)
    BY <1>1, UpArrives
  <2>4. g \in Gifts /\ k \in Nat /\ k <= MaxLevel - g.level[h] /\ k <= g.coins
    <3>1. g \in Gifts /\ TheGift!Room(g, h) \in Nat
      BY <2>3, RoomFor DEF Grown
    <3>2. MaxLevel - g.level[h] \in Nat /\ g.coins \in Nat
      BY <3>1, GiftAssumption DEF Gifts
    <3>. QED  BY <3>1, <3>2, RoomFor
  <2> DEFINE r == TheGift!Raise(g, h, k)
  <2>5. r \in Gifts /\ r.coins = g.coins - k /\ r.level[h] = g.level[h] + k
        /\ \A i \in Heroes \ {h} : r.level[i] = g.level[i]
    BY <2>4, Raises
  <2>6. TheGift!Fail(h, r, why)
    BY <2>2
  <2> HIDE DEF r
  <2>7. g.coins \in Nat /\ game.coins \in Nat /\ g.level[h] \in Nat
        /\ \A i \in Heroes : game.level[i] \in Nat
    BY <1>1, <2>4 DEF Gifts
  <2>8. r.coins <= game.coins /\ game.level[h] <= r.level[h]
        /\ \A i \in Heroes \ {h} : r.level[i] = game.level[i]
    BY <2>3, <2>4, <2>5, <2>7 DEF Grown
  <2>9. Grown(r, h)
    BY <2>5, <2>7, <2>8 DEF Grown
  <2>. QED  BY <1>1, <2>5, <2>6, <2>9, GiftFailing
<1>. QED  BY <1>2, <1>3

LEMMA GiftDropStops ==
  ASSUME GiftInv, NEW h \in Heroes,
         TheGift!DropFails(h) \/ TheGift!DropUnauthorized(h)
  PROVE  GiftInv'
<1>1. pc = "work" /\ run.mode = "reset" /\ game \in Gifts /\ run \in GiftRuns
      /\ ~run.error /\ ~run.auth
  BY DEF GiftInv, TheGift!DropFails, TheGift!DropUnauthorized, TheGift!Turn
<1>2. CASE TheGift!DropFails(h)
  <2>1. PICK g \in TheGift!Losses(LAMBDA x : TheGift!Strip(x, h), game) :
          TheGift!Fail(h, g, "hero")
    BY <1>2 DEF TheGift!DropFails
  <2>2. g \in Gifts
    BY <1>1, DropArrives
  <2>. QED  BY <1>1, <2>1, <2>2, GiftFailing
<1>3. CASE TheGift!DropUnauthorized(h)
  <2>1. PICK g \in TheGift!Arrivals(LAMBDA x : TheGift!Strip(x, h), game) :
          /\ game' = g
          /\ run' = [run EXCEPT !.failed = @ \union {h}, !.todo = @ \ {h}, !.auth = TRUE,
                                !.moved = @ + TheGift!Moved(g)]
          /\ pc' = "report"
    BY <1>3 DEF TheGift!DropUnauthorized
  <2>2. g \in Gifts
    BY <1>1, DropArrives
  <2> DEFINE moved == run.moved + TheGift!Moved(g)
             failed == run.failed \union {h}
             todo == run.todo \ {h}
  <2>3. moved \in Nat /\ moved >= run.moved /\ failed \in SUBSET Heroes /\ h \in failed
        /\ todo \in SUBSET Heroes
    BY <1>1, <2>2, GiftMoved DEF GiftRuns
  <2>4. run' = [run EXCEPT !.failed = failed, !.todo = todo, !.auth = TRUE, !.moved = moved]
    BY <1>1, <2>1 DEF GiftRuns
  <2> HIDE DEF moved, failed, todo
  <2>5. run' \in GiftRuns /\ run'.failed = failed /\ run'.moved = moved
        /\ run'.priced = run.priced /\ run'.coins = run.coins
        /\ run'.mode = run.mode /\ run'.read = run.read
    BY <1>1, <2>3, <2>4 DEF GiftRuns
  <2>. QED  BY <1>1, <2>1, <2>2, <2>3, <2>5, GiftBreaks
<1>. QED  BY <1>2, <1>3

\* A hero that is done: at the goal, and the others stay where they are.
LEMMA GiftSettles ==
  ASSUME GiftInv, pc = "work", NEW h \in Heroes, NEW g \in Gifts,
         run.mode = "up" => Grown(g, h), \A i \in Heroes \ {h} : g.level[i] = game.level[i],
         g.level[h] = GiftGoal, NEW priced \in Nat, NEW refund \in Nat,
         priced <= TheGift!Moved(g), refund <= TheGift!Moved(g),
         TheGift!Settle(h, g, priced, refund)
  PROVE  GiftInv'
<1> DEFINE todo == run.todo \ {h}
           changed == run.changed \union {h}
           bill == run.priced + priced
           coins == run.coins + refund
           moved == run.moved + TheGift!Moved(g)
<1>1. run \in GiftRuns /\ game \in Gifts /\ TheGift!Moved(g) \in Nat
  BY GiftMoved DEF GiftInv
<1>2. moved \in Nat /\ bill \in Nat /\ coins \in Nat /\ todo \in SUBSET Heroes
      /\ changed \in SUBSET Heroes /\ bill <= moved
      /\ (run.mode = "reset" => coins <= moved)
  BY <1>1 DEF GiftInv, GiftRuns
<1>3. game' = g /\ pc' = pc
      /\ run' = [run EXCEPT !.todo = todo, !.changed = changed, !.priced = bill,
                            !.coins = coins, !.moved = moved]
  BY <1>1 DEF GiftRuns, TheGift!Settle
<1>4. \A i \in Heroes : i \notin todo => i = h \/ i \notin run.todo
  OBVIOUS
<1> HIDE DEF todo, changed, bill, coins, moved
<1>5. run' \in GiftRuns /\ run'.priced = bill /\ run'.coins = coins /\ run'.moved = moved
      /\ run'.todo = todo /\ run'.plan = run.plan /\ run'.failed = run.failed
      /\ run'.error = run.error /\ run'.auth = run.auth /\ run'.mode = run.mode
      /\ run'.read = run.read /\ run'.dry = run.dry
  BY <1>1, <1>2, <1>3 DEF GiftRuns
<1>6. run'.mode = "up" => \A i \in Heroes : run'.read[i] <= game'.level[i]
  <2>. SUFFICES ASSUME run.mode = "up", NEW i \in Heroes PROVE run.read[i] <= g.level[i]
    BY <1>3, <1>5
  <2>1. run.read[i] <= game.level[i] /\ game.level[i] <= g.level[i]
    BY DEF GiftInv, Grown
  <2>2. run.read[i] \in Nat /\ game.level[i] \in Nat /\ g.level[i] \in Nat
    BY <1>1 DEF GiftRuns, Gifts
  <2>. QED  BY <2>1, <2>2
<1>7. ~run'.dry /\ GiftClean' => \A i \in run'.plan : i \notin run'.todo => game'.level[i] = GiftGoal'
  <2>. SUFFICES ASSUME ~run.dry, GiftClean, NEW i \in run.plan, i \notin todo
                PROVE  g.level[i] = GiftGoal
    BY <1>3, <1>5 DEF GiftClean, GiftGoal
  <2>1. i \in Heroes
    BY <1>1 DEF GiftRuns
  <2>2. CASE i = h
    BY <2>2
  <2>3. CASE i # h
    <3>1. game.level[i] = GiftGoal
      BY <1>4, <2>1, <2>3 DEF GiftInv
    <3>. QED  BY <2>1, <2>3, <3>1
  <2>. QED  BY <2>2, <2>3
<1>8. ~run'.error /\ ~run'.auth
  BY <1>5 DEF GiftInv
<1>. QED  BY <1>2, <1>3, <1>5, <1>6, <1>7, <1>8 DEF GiftInv

\* The batch came to its end: what was missing when the plan was made was enough.
LEMMA GiftMaxes ==
  ASSUME GiftInv, NEW h \in Heroes, TheGift!HeroMaxed(h) PROVE GiftInv'
<1>1. pc = "work" /\ game \in Gifts /\ run \in GiftRuns /\ run.mode = "up"
  BY DEF GiftInv, TheGift!HeroMaxed, TheGift!Turn
<1>2. PICK g \in TheGift!Arrivals(LAMBDA x : TheGift!LevelUps(x, h), game) :
        /\ TheGift!Room(g, h) >= TheGift!Asked(h)
        /\ TheGift!Settle(h, TheGift!Raise(g, h, TheGift!Asked(h)), TheGift!Asked(h), 0)
  BY DEF TheGift!HeroMaxed
<1>3. Grown(g, h)
  BY <1>1, UpArrives
<1> DEFINE k == TheGift!Asked(h)
           r == TheGift!Raise(g, h, k)
<1>4. g \in Gifts /\ k \in Nat /\ k <= MaxLevel - g.level[h] /\ k <= g.coins
  <2>1. g \in Gifts /\ TheGift!Room(g, h) \in Nat
    BY <1>3, RoomFor DEF Grown
  <2>2. MaxLevel - g.level[h] \in Nat /\ g.coins \in Nat
    BY <2>1, GiftAssumption DEF Gifts
  <2>3. k \in Nat
    BY <1>1, GiftAssumption DEF TheGift!Asked, GiftRuns
  <2>. QED  BY <1>2, <2>1, <2>2, <2>3, RoomFor
<1>5. g.coins \in Nat /\ game.coins \in Nat /\ g.level[h] \in Nat /\ run.read[h] \in Nat
      /\ MaxLevel \in Nat /\ \A i \in Heroes : game.level[i] \in Nat
  BY <1>1, <1>4, GiftAssumption DEF Gifts, GiftRuns
<1>6. k = MaxLevel - run.read[h] /\ run.read[h] <= game.level[h]
  BY <1>1 DEF TheGift!Asked, GiftInv
<1>7. TheGift!Settle(h, r, k, 0)
  BY <1>2
<1> HIDE DEF k
<1>8. r \in Gifts /\ r.coins = g.coins - k /\ r.level[h] = g.level[h] + k
      /\ \A i \in Heroes \ {h} : r.level[i] = g.level[i]
  BY <1>4, Raises
<1> HIDE DEF r
<1>9. r.coins <= game.coins /\ game.level[h] <= r.level[h] /\ r.level[h] = MaxLevel
      /\ k <= game.coins - r.coins
      /\ \A i \in Heroes \ {h} : r.level[i] = game.level[i]
  BY <1>3, <1>4, <1>5, <1>6, <1>8 DEF Grown
<1>10. Grown(r, h) /\ r.level[h] = GiftGoal
  BY <1>1, <1>5, <1>8, <1>9 DEF Grown, GiftGoal
<1>11. k <= TheGift!Moved(r) /\ 0 <= TheGift!Moved(r) /\ 0 \in Nat
  BY <1>1, <1>8, <1>9, GiftMoved
<1>. QED  BY <1>1, <1>4, <1>7, <1>8, <1>9, <1>10, <1>11, GiftSettles

LEMMA GiftDrops ==
  ASSUME GiftInv, NEW h \in Heroes, TheGift!GiftDropped(h) PROVE GiftInv'
<1>1. pc = "work" /\ game \in Gifts /\ run \in GiftRuns /\ run.mode = "reset"
  BY DEF GiftInv, TheGift!GiftDropped, TheGift!Turn
<1>2. game.level[h] \in Nat /\ game.coins \in Nat
  BY <1>1 DEF Gifts
<1> DEFINE r == TheGift!Strip(game, h)
<1>3. PICK refund \in {game.level[h], 0} : TheGift!Settle(h, r, 0, refund)
  BY DEF TheGift!GiftDropped
<1>4. r \in Gifts /\ r.coins = game.coins + game.level[h] /\ r.level[h] = 0
      /\ \A i \in Heroes \ {h} : r.level[i] = game.level[i]
  BY <1>1, Strips
<1> HIDE DEF r
<1>5. r.level[h] = GiftGoal /\ ~(run.mode = "up")
  BY <1>1, <1>4 DEF GiftGoal
<1>6. TheGift!Moved(r) = game.level[h]
  BY <1>1, <1>2, <1>4, GiftMoved
<1>7. refund \in Nat /\ refund <= TheGift!Moved(r) /\ 0 \in Nat /\ 0 <= TheGift!Moved(r)
  BY <1>2, <1>3, <1>6
<1>. QED  BY <1>1, <1>3, <1>4, <1>5, <1>7, GiftSettles

\* Reading, and what ends a run.
LEMMA GiftReads ==
  ASSUME GiftInv, TheGift!Read \/ TheGift!ReadFails \/ TheGift!Declined PROVE GiftInv'
<1>1. run \in GiftRuns /\ game \in Gifts /\ game' = game
  BY DEF GiftInv, TheGift!Read, TheGift!ReadFails, TheGift!Declined
<1>2. CASE TheGift!Read
  <2>1. PICK plan \in SUBSET Heroes :
          /\ run' = [run EXCEPT !.plan = plan, !.todo = plan, !.read = game.level,
                                !.balance = game.coins]
          /\ pc' = IF plan = {} \/ run.dry THEN "done" ELSE "work"
    <3>1. TheGift!PlanUp(game.level, game.coins) \in SUBSET Heroes
      BY DEF TheGift!PlanUp
    <3>2. TheGift!PlanReset(game.level) \in SUBSET Heroes
      BY GiftAssumption DEF TheGift!PlanReset
    <3>. QED  BY <1>2, <3>1, <3>2 DEF TheGift!Read
  <2> DEFINE level == game.level
             coins == game.coins
  <2>2. level \in [Heroes -> 0..MaxLevel] /\ coins \in Nat
    BY <1>1 DEF Gifts
  <2>3. run' = [run EXCEPT !.plan = plan, !.todo = plan, !.read = level, !.balance = coins]
    BY <2>1
  <2>4. \A h \in Heroes : level[h] <= game.level[h]
    BY <1>1 DEF Gifts
  <2> HIDE DEF level, coins
  <2>5. run' \in GiftRuns /\ run'.plan = plan /\ run'.todo = plan /\ run'.read = level
        /\ run'.dry = run.dry /\ run'.mode = run.mode /\ run'.failed = run.failed
        /\ run'.error = run.error /\ run'.auth = run.auth /\ run'.priced = run.priced
        /\ run'.coins = run.coins /\ run'.moved = run.moved
    BY <1>1, <2>2, <2>3 DEF GiftRuns
  <2>6. (pc' = "done" /\ (plan = {} \/ run.dry)) \/ pc' = "work"
    BY <2>1
  <2>7. pc = "read"
    BY <1>2 DEF TheGift!Read
  <2>8. ~run.error /\ ~run.auth
    BY <2>7 DEF GiftInv
  <2>. QED  BY <1>1, <2>4, <2>5, <2>6, <2>8 DEF GiftInv, GiftClean
<1>3. CASE TheGift!ReadFails
  <2>1. PICK auth \in BOOLEAN, error \in BOOLEAN :
          run' = [run EXCEPT !.error = error, !.auth = auth] /\ (auth \/ error) /\ pc' = "done"
    <3>1. PICK auth \in BOOLEAN : run' = [run EXCEPT !.error = ~auth, !.auth = auth]
      BY <1>3 DEF TheGift!ReadFails
    <3> DEFINE error == ~auth
    <3>2. run' = [run EXCEPT !.error = error, !.auth = auth] /\ error \in BOOLEAN
          /\ (auth \/ error) /\ pc' = "done"
      BY <1>3, <3>1 DEF TheGift!ReadFails
    <3> HIDE DEF error
    <3>. QED  BY <3>2
  <2>2. run' \in GiftRuns /\ run'.error = error /\ run'.auth = auth
        /\ run'.priced = run.priced /\ run'.coins = run.coins /\ run'.moved = run.moved
        /\ run'.mode = run.mode
    BY <1>1, <2>1 DEF GiftRuns
  <2>. QED  BY <1>1, <2>1, <2>2 DEF GiftInv, GiftClean
<1>4. CASE TheGift!Declined
  <2>1. run' = [run EXCEPT !.error = TRUE] /\ pc' = "done"
    BY <1>4 DEF TheGift!Declined
  <2>2. run' \in GiftRuns /\ run'.error = TRUE
        /\ run'.priced = run.priced /\ run'.coins = run.coins /\ run'.moved = run.moved
        /\ run'.mode = run.mode
    BY <1>1, <2>1 DEF GiftRuns
  <2>. QED  BY <1>1, <2>1, <2>2 DEF GiftInv, GiftClean
<1>. QED  BY <1>2, <1>3, <1>4

\* The report changes no more than the coins it names, and in `up` these are no floor's.
LEMMA GiftReports ==
  ASSUME GiftInv, TheGift!Report \/ TheGift!ReportBlind PROVE GiftInv'
<1>1. run \in GiftRuns /\ game \in Gifts /\ game' = game /\ pc' = "done"
      /\ (pc = "report" \/ (pc = "work" /\ run.todo = {}))
  BY DEF GiftInv, TheGift!Report, TheGift!ReportBlind, TheGift!Finished
<1>2. ~run.dry /\ GiftClean => \A h \in run.plan : game.level[h] = GiftGoal
  BY <1>1 DEF GiftInv
<1>3. CASE run.mode = "reset"
  <2>1. run' = run
    BY <1>3 DEF TheGift!Report, TheGift!ReportBlind
  <2>. QED  BY <1>1, <1>2, <2>1 DEF GiftInv, GiftClean, GiftGoal
<1>4. CASE run.mode # "reset"
  <2>1. PICK coins \in Nat : run' = [run EXCEPT !.coins = coins]
    <3>1. run.balance \in Nat /\ game.coins \in Nat /\ run.priced \in Nat
      BY <1>1 DEF GiftRuns, Gifts
    <3>2. (IF game.coins < run.balance THEN run.balance - game.coins ELSE 0) \in Nat
      BY <3>1
    <3>. QED  BY <1>4, <3>1, <3>2 DEF TheGift!Report, TheGift!ReportBlind
  <2>2. run' \in GiftRuns /\ run'.mode = run.mode /\ run'.priced = run.priced
        /\ run'.moved = run.moved /\ run'.dry = run.dry /\ run'.plan = run.plan
        /\ run'.failed = run.failed /\ run'.error = run.error /\ run'.auth = run.auth
    BY <1>1, <2>1 DEF GiftRuns
  <2>. QED  BY <1>1, <1>2, <1>4, <2>2 DEF GiftInv, GiftClean, GiftGoal
<1>. QED  BY <1>3, <1>4

\* The other session takes coins, or raises a hero while this run raises heroes too.
LEMMA GiftElsewhere == ASSUME GiftInv, TheGift!Interfere PROVE GiftInv'
<1>1. run \in GiftRuns /\ game \in Gifts /\ run' = run /\ pc' = pc /\ game.others > 0
      /\ game.coins > 0
  BY DEF GiftInv, TheGift!Interfere
<1> DEFINE others == game.others - 1
           coins == game.coins - 1
<1>2. others \in 0..Others /\ coins \in Nat /\ game.level \in [Heroes -> 0..MaxLevel]
      /\ game = [level |-> game.level, coins |-> game.coins, others |-> game.others]
  BY <1>1, GiftAssumption DEF Gifts
<1>3. /\ game' \in Gifts
      /\ \A i \in Heroes : game.level[i] <= game'.level[i]
      /\ run.mode = "reset" => game'.level = game.level
  <2>1. CASE game' = [game EXCEPT !.others = @ - 1, !.coins = @ - 1]
    <3>1. game' = [level |-> game.level, coins |-> coins, others |-> others]
      BY <1>1, <2>1 DEF Gifts
    <3> HIDE DEF others, coins
    <3>2. game' \in Gifts /\ game'.level = game.level
      BY <1>2, <3>1 DEF Gifts
    <3>. QED  BY <1>2, <3>2
  <2>2. CASE \E h \in Heroes : /\ run.mode = "up" /\ TheGift!Room(game, h) > 0
                               /\ game' = [TheGift!Raise(game, h, 1) EXCEPT !.others = @ - 1]
    <3>1. PICK h \in Heroes : /\ run.mode = "up" /\ TheGift!Room(game, h) > 0
                              /\ game' = [TheGift!Raise(game, h, 1) EXCEPT !.others = @ - 1]
      BY <2>2
    <3> DEFINE r == TheGift!Raise(game, h, 1)
    <3>2. 1 <= MaxLevel - game.level[h] /\ 1 <= game.coins /\ 1 \in Nat
      <4>1. MaxLevel - game.level[h] \in Nat /\ game.coins \in Nat
        BY <1>1, GiftAssumption DEF Gifts
      <4>. QED  BY <1>1, <3>1, <4>1, RoomFor
    <3>3. r \in Gifts /\ r.others = game.others /\ r.level[h] = game.level[h] + 1
          /\ \A i \in Heroes \ {h} : r.level[i] = game.level[i]
      BY <1>1, <3>2, Raises
    <3>4. game' = [r EXCEPT !.others = @ - 1]
      BY <3>1
    <3> HIDE DEF r
    <3>5. game' = [level |-> r.level, coins |-> r.coins, others |-> others]
      BY <3>3, <3>4 DEF Gifts
    <3>6. r.level \in [Heroes -> 0..MaxLevel] /\ r.coins \in Nat
      BY <3>3 DEF Gifts
    <3> HIDE DEF others
    <3>7. game' \in Gifts /\ game'.level = r.level
      BY <1>2, <3>5, <3>6 DEF Gifts
    <3>8. \A i \in Heroes : game.level[i] \in Nat
      BY <1>1 DEF Gifts
    <3>. QED  BY <3>1, <3>3, <3>7, <3>8
  <2>. QED  BY <2>1, <2>2 DEF TheGift!Interfere
<1>4. \A i \in Heroes : /\ run.read[i] \in Nat /\ game.level[i] \in 0..MaxLevel
                        /\ game'.level[i] \in 0..MaxLevel
  BY <1>1, <1>3 DEF Gifts, GiftRuns
<1>5. pc = "work" /\ run.mode = "up" => \A i \in Heroes : run.read[i] <= game'.level[i]
  <2>. SUFFICES ASSUME pc = "work", run.mode = "up", NEW i \in Heroes
                PROVE  run.read[i] <= game'.level[i]
    OBVIOUS
  <2>1. run.read[i] <= game.level[i] /\ game.level[i] <= game'.level[i]
    BY <1>3 DEF GiftInv
  <2>. QED  BY <1>4, <2>1
<1>6. \A i \in Heroes : game.level[i] = GiftGoal => game'.level[i] = GiftGoal
  <2>. SUFFICES ASSUME NEW i \in Heroes, game.level[i] = GiftGoal
                PROVE  game'.level[i] = GiftGoal
    OBVIOUS
  <2>1. CASE run.mode = "up"
    BY <1>3, <1>4, <2>1, GiftAssumption DEF GiftGoal
  <2>2. CASE run.mode # "up"
    BY <1>1, <1>3, <2>2 DEF GiftRuns
  <2>. QED  BY <2>1, <2>2
<1>7. GiftGoal' = GiftGoal /\ (GiftClean' <=> GiftClean) /\ run.plan \subseteq Heroes
  BY <1>1 DEF GiftGoal, GiftClean, GiftRuns
<1>. QED  BY <1>1, <1>3, <1>5, <1>6, <1>7 DEF GiftInv

LEMMA GiftSteps == ASSUME GiftInvariant, [Next]_vars PROVE GiftInvariant'
<1>. SUFFICES ASSUME command' = "gift" PROVE GiftInv'
  BY DEF GiftInvariant
<1>1. command = "gift" /\ GiftInv
  BY DEF GiftInvariant, Next, vars
<1>2. CASE TheGift!Next
  BY <1>1, <1>2, GiftElsewhere, GiftReads, GiftReports, GiftMaxes, GiftUpStops, GiftDrops,
     GiftDropStops DEF TheGift!Next
<1>3. CASE Next
  BY <1>1, <1>2, <1>3 DEF Next
<1>4. CASE UNCHANGED vars
  BY <1>1, <1>4 DEF vars, GiftInv, GiftClean, GiftGoal
<1>. QED  BY <1>3, <1>4

LEMMA GiftAlways == Spec => []GiftInvariant
BY GiftInit, GiftSteps, PTL DEF Spec

\* What the invariant says of the properties' parts.
LEMMA GiftIsTyped == ASSUME GiftInvariant, command = "gift" PROVE TheGift!GiftTypeOK
BY DEF GiftInvariant, GiftInv, TheGift!GiftTypeOK, Gifts, GiftRuns

LEMMA GiftIsReal == ASSUME GiftInvariant, command = "gift" PROVE TheGift!ReportIsFloor
BY DEF GiftInvariant, GiftInv, TheGift!ReportIsFloor

LEMMA GiftIsDone ==
  ASSUME GiftInvariant, command = "gift", ExitZero, ~run.dry PROVE TheGift!PlanCarriedOut
<1>1. pc = "done" /\ GiftClean
  BY DEF ExitZero, GiftFails, GiftClean
<1>. QED  BY <1>1 DEF GiftInvariant, GiftInv, GiftGoal, TheGift!PlanCarriedOut

------------------------------------------------------------------------------
\* Seer's game: what is counted, and what is left open.

SeersGames == [active : BOOLEAN, round : 0..(Rounds + 1), snap : 0..Rounds, coins : 0..Coins,
               opened : 0..Coins, earned : Nat, kills : 0..Kills]

SeersRuns == [left : 0..Rounds, played : Nat, failed : BOOLEAN, raised : BOOLEAN,
              rewards : Nat, pending : 0..Rounds]

\* A game opened was paid for, and a game holds a reward for every round behind it.
Sound(g) == /\ g \in SeersGames
            /\ g.opened + g.coins <= Coins
            /\ IF g.round = 0 THEN ~g.active /\ g.snap = 0 ELSE g.snap = g.round - 1

\* What the open game still holds.
Held(g) == IF g.active THEN g.snap ELSE 0

\* While a game goes on, what it holds comes on top of what is counted already; and so does
\* what an error would count of it.
CountInv ==
    /\ pc \in {"look", "start", "play", "done", "killed"} /\ Sound(game) /\ run \in SeersRuns
    /\ run.rewards <= game.earned
    /\ pc \in {"look", "start", "play"} => run.rewards + Held(game) <= game.earned
    /\ pc = "play" => run.rewards + run.pending <= game.earned
    /\ pc = "start" => ~game.active
    /\ pc = "done" /\ OpenBeforeCoins => run.failed \/ run.raised \/ ~game.active

CountInvariant == command = "seers-game" => CountInv

LEMMA CountInit == Init => CountInvariant
<1>. SUFFICES ASSUME Init, command = "seers-game" PROVE CountInv
  BY DEF CountInvariant
<1>1. TheSeersGame!Init
  BY DEF Init
<1>2. PICK c \in 0..Coins, r \in 0..(Rounds + 1) :
        game = [active |-> r > 0, round |-> r, snap |-> IF r > 0 THEN r - 1 ELSE 0,
                coins |-> c, opened |-> 0, earned |-> IF r > 0 THEN r - 1 ELSE 0,
                kills |-> Kills]
  BY <1>1 DEF TheSeersGame!Init
<1> DEFINE active == r > 0
           snap == IF r > 0 THEN r - 1 ELSE 0
<1>3. active \in BOOLEAN /\ snap \in 0..Rounds /\ snap \in Nat /\ 0 \in 0..Coins
      /\ Kills \in 0..Kills /\ 0 + c <= Coins
      /\ (IF r = 0 THEN ~active /\ snap = 0 ELSE snap = r - 1)
  BY SeersAssumption
<1>4. game = [active |-> active, round |-> r, snap |-> snap, coins |-> c, opened |-> 0,
              earned |-> snap, kills |-> Kills]
  BY <1>2
<1> HIDE DEF active, snap
<1>5. Sound(game) /\ game.earned = snap /\ Held(game) <= game.earned /\ Held(game) \in Nat
  BY <1>3, <1>4 DEF Sound, SeersGames, Held
<1>6. pc = "look" /\ run = TheSeersGame!Fresh
  BY <1>1 DEF TheSeersGame!Init
<1>7. run \in SeersRuns /\ run.rewards = 0
  BY <1>6, SeersAssumption DEF SeersRuns, TheSeersGame!Fresh
<1>. QED  BY <1>3, <1>5, <1>6, <1>7 DEF CountInv

\* The calls.
LEMMA Opening ==
  ASSUME NEW g, Sound(g)
  PROVE  LET h == TheSeersGame!Opened(g) IN
         /\ Sound(h) /\ h.earned = g.earned /\ TheSeersGame!Opened(h) = h
         /\ ~g.active => Held(h) = 0
<1> DEFINE h == TheSeersGame!Opened(g)
           coins == g.coins - 1
           opened == g.opened + 1
<1>1. CASE g.active \/ g.coins = 0
  BY <1>1 DEF TheSeersGame!Opened, Held
<1>2. CASE ~(g.active \/ g.coins = 0)
  <2>1. g \in SeersGames /\ coins \in 0..Coins /\ opened \in 0..Coins /\ opened + coins <= Coins
        /\ 1 \in 0..(Rounds + 1) /\ 0 \in 0..Rounds
    BY <1>2, SeersAssumption DEF Sound, SeersGames
  <2>2. h = [g EXCEPT !.active = TRUE, !.round = 1, !.snap = 0, !.coins = coins,
                      !.opened = opened]
    BY <1>2, <2>1 DEF TheSeersGame!Opened, SeersGames
  <2> HIDE DEF coins, opened
  <2>3. h = [active |-> TRUE, round |-> 1, snap |-> 0, coins |-> coins, opened |-> opened,
             earned |-> g.earned, kills |-> g.kills]
    BY <2>1, <2>2 DEF SeersGames
  <2>4. h \in SeersGames /\ h.active /\ h.snap = 0 /\ h.round = 1 /\ h.earned = g.earned
        /\ h.opened = opened /\ h.coins = coins
    BY <2>1, <2>3 DEF SeersGames
  <2> HIDE DEF h
  <2>5. TheSeersGame!Opened(h) = h
    BY <2>4 DEF TheSeersGame!Opened
  <2>6. Sound(h) /\ Held(h) = 0
    BY <2>1, <2>4 DEF Sound, Held
  <2>. QED  BY <2>4, <2>5, <2>6 DEF h
<1>. QED  BY <1>1, <1>2

LEMMA Playing ==
  ASSUME NEW g, Sound(g)
  PROVE  LET h == TheSeersGame!Played(g) IN
         /\ Sound(h) /\ h.earned >= g.earned
         /\ Held(h) - Held(g) = h.earned - g.earned
         /\ h # g => h.active /\ g.active
<1> DEFINE h == TheSeersGame!Played(g)
           round == g.round + 1
           snap == g.snap + 1
           earned == g.earned + 1
<1>1. g \in SeersGames /\ g.earned \in Nat /\ g.snap \in Nat
  BY DEF Sound, SeersGames
<1>2. CASE ~g.active \/ g.round > Rounds
  BY <1>1, <1>2 DEF TheSeersGame!Played, Held
<1>3. CASE ~(~g.active \/ g.round > Rounds)
  <2>1. round \in 0..(Rounds + 1) /\ snap \in 0..Rounds /\ earned \in Nat /\ snap = round - 1
        /\ round # 0
    BY <1>1, <1>3, SeersAssumption DEF Sound, SeersGames
  <2>2. h = [g EXCEPT !.round = round, !.snap = snap, !.earned = earned]
    BY <1>1, <1>3 DEF TheSeersGame!Played, SeersGames
  <2>3. earned = g.earned + 1 /\ snap = g.snap + 1
    OBVIOUS
  <2> HIDE DEF round, snap, earned
  <2>4. h \in SeersGames /\ h.active = g.active /\ h.snap = snap /\ h.round = round
        /\ h.earned = earned /\ h.opened = g.opened /\ h.coins = g.coins
    BY <1>1, <2>1, <2>2 DEF SeersGames
  <2> HIDE DEF h
  <2>5. Sound(h)
    BY <2>1, <2>4 DEF Sound
  <2>6. Held(h) - Held(g) = h.earned - g.earned /\ h.earned >= g.earned /\ h.active
    BY <1>1, <1>3, <2>3, <2>4 DEF Held
  <2>. QED  BY <1>3, <2>5, <2>6 DEF h
<1>. QED  BY <1>2, <1>3

LEMMA Closing ==
  ASSUME NEW g, Sound(g)
  PROVE  LET h == TheSeersGame!Closed(g) IN
         /\ Sound(h) /\ h.earned = g.earned
         /\ h # g => ~h.active /\ g.active
<1> DEFINE h == TheSeersGame!Closed(g)
<1>1. g \in SeersGames
  BY DEF Sound
<1>2. CASE ~g.active \/ g.round <= Rounds
  BY <1>1, <1>2 DEF TheSeersGame!Closed
<1>3. CASE ~(~g.active \/ g.round <= Rounds)
  <2>1. h = [g EXCEPT !.active = FALSE]
    BY <1>3 DEF TheSeersGame!Closed
  <2>2. h \in SeersGames /\ h.active = FALSE /\ h.snap = g.snap /\ h.round = g.round
        /\ h.earned = g.earned /\ h.opened = g.opened /\ h.coins = g.coins
    BY <1>1, <2>1 DEF SeersGames
  <2> HIDE DEF h
  <2>3. g.round # 0
    BY <1>3 DEF Sound
  <2>4. Sound(h)
    BY <2>2, <2>3 DEF Sound
  <2>. QED  BY <1>3, <2>2, <2>4 DEF h
<1>. QED  BY <1>2, <1>3

LEMMA HeldIsNat == ASSUME NEW g, Sound(g) PROVE Held(g) \in Nat /\ g.snap \in Nat /\ g.earned \in Nat
BY DEF Sound, SeersGames, Held

LEMMA CountLooks ==
  ASSUME CountInv,
         TheSeersGame!Resume \/ TheSeersGame!NothingOpen \/ TheSeersGame!LookFails
           \/ TheSeersGame!Enough
  PROVE  CountInv'
<1>1. Sound(game) /\ game \in SeersGames /\ run \in SeersRuns /\ game' = game
      /\ run.rewards \in Nat
  BY DEF CountInv, Sound, SeersRuns, TheSeersGame!Resume, TheSeersGame!NothingOpen,
         TheSeersGame!LookFails, TheSeersGame!Enough
<1>2. Sound(game') /\ Held(game') = Held(game) /\ game'.earned = game.earned
      /\ game'.active = game.active
  BY <1>1
<1>3. CASE TheSeersGame!Resume
  <2> DEFINE left == Rounds + 1 - game.round
             pending == game.snap
  <2>1. pc = "look" /\ pc' = "play" /\ game.active
        /\ run' = [run EXCEPT !.left = left, !.pending = pending]
    BY <1>3 DEF TheSeersGame!Resume
  <2>2. left \in 0..Rounds /\ pending \in 0..Rounds /\ pending = Held(game)
    BY <1>1, <2>1, SeersAssumption DEF Sound, SeersGames, Held
  <2> HIDE DEF left, pending
  <2>3. run' \in SeersRuns /\ run'.rewards = run.rewards /\ run'.pending = pending
    BY <1>1, <2>1, <2>2 DEF SeersRuns
  <2>. QED  BY <1>2, <2>1, <2>2, <2>3 DEF CountInv
<1>4. CASE TheSeersGame!NothingOpen
  BY <1>2, <1>4 DEF CountInv, TheSeersGame!NothingOpen
<1>5. CASE TheSeersGame!Enough
  BY <1>2, <1>5 DEF CountInv, TheSeersGame!Enough
<1>6. CASE TheSeersGame!LookFails
  <2>1. PICK failed \in BOOLEAN, raised \in BOOLEAN :
          run' = [run EXCEPT !.failed = failed, !.raised = raised] /\ (failed \/ raised)
    <3>1. PICK auth \in BOOLEAN : run' = [run EXCEPT !.failed = ~auth, !.raised = auth]
      BY <1>6 DEF TheSeersGame!LookFails
    <3> DEFINE failed == ~auth
    <3>2. run' = [run EXCEPT !.failed = failed, !.raised = auth] /\ failed \in BOOLEAN
          /\ (failed \/ auth)
      BY <3>1
    <3> HIDE DEF failed
    <3>. QED  BY <3>2
  <2>2. run' \in SeersRuns /\ run'.rewards = run.rewards /\ (run'.failed \/ run'.raised)
    BY <1>1, <2>1 DEF SeersRuns
  <2>3. pc' = "done"
    BY <1>6 DEF TheSeersGame!LookFails
  <2>. QED  BY <1>2, <2>2, <2>3 DEF CountInv
<1>. QED  BY <1>3, <1>4, <1>5, <1>6

\* An end with an error: what is counted by then is there.
LEMMA CountEnds ==
  ASSUME CountInv, Sound(game'), game'.earned >= game.earned, run' \in SeersRuns,
         run'.rewards = run.rewards
           \/ (pc = "play" /\ run'.rewards = run.rewards + run.pending),
         run'.failed \/ run'.raised \/ ~game'.active \/ ~OpenBeforeCoins, pc' = "done"
  PROVE  CountInv'
<1>1. run.rewards \in Nat /\ run.pending \in Nat /\ game.earned \in Nat /\ game'.earned \in Nat
  BY HeldIsNat DEF CountInv, SeersRuns
<1>2. run'.rewards <= game'.earned
  BY <1>1 DEF CountInv
<1>. QED  BY <1>2 DEF CountInv

LEMMA CountStarts ==
  ASSUME CountInv, TheSeersGame!Start \/ TheSeersGame!StartRefused PROVE CountInv'
<1>1. Sound(game) /\ run \in SeersRuns /\ pc = "start" /\ ~game.active
      /\ run.rewards <= game.earned /\ run.rewards \in Nat
  BY DEF CountInv, SeersRuns, TheSeersGame!Start, TheSeersGame!StartRefused
<1> DEFINE O(g) == TheSeersGame!Opened(g)
<1>2. /\ Sound(O(game)) /\ O(game).earned = game.earned /\ Held(O(game)) = 0
      /\ game.earned \in Nat
  BY <1>1, Opening, HeldIsNat
<1>3. CASE TheSeersGame!Start
  <2>1. game' = O(game) /\ run' = [run EXCEPT !.left = Rounds, !.pending = 0] /\ pc' = "play"
    BY <1>3 DEF TheSeersGame!Start
  <2>2. run' \in SeersRuns /\ run'.rewards = run.rewards /\ run'.pending = 0
    <3>1. 0 \in 0..Rounds /\ Rounds \in 0..Rounds
      BY SeersAssumption
    <3>. QED  BY <1>1, <2>1, <3>1 DEF SeersRuns
  <2> HIDE DEF O
  <2>. QED  BY <1>1, <1>2, <2>1, <2>2 DEF CountInv
<1>4. CASE TheSeersGame!StartRefused
  <2>1. game' \in {game, O(game)}
    BY <1>4 DEF TheSeersGame!StartRefused, TheSeersGame!Arrivals
  <2>2. \/ TheSeersGame!NotEnough(game') /\ run' = run
        \/ run' = [run EXCEPT !.failed = TRUE]
    BY <1>4 DEF TheSeersGame!StartRefused
  <2>3. pc' = "done"
    BY <1>4 DEF TheSeersGame!StartRefused
  <2> HIDE DEF O
  <2>4. Sound(game') /\ game'.earned >= game.earned
    BY <1>1, <1>2, <2>1
  <2>5. run' \in SeersRuns /\ run'.rewards = run.rewards
        /\ (run'.failed \/ ~game'.active \/ ~OpenBeforeCoins)
    BY <1>1, <2>2 DEF SeersRuns, TheSeersGame!NotEnough
  <2>. QED  BY <2>3, <2>4, <2>5, CountEnds
<1>. QED  BY <1>3, <1>4

LEMMA CountPlays ==
  ASSUME CountInv, TheSeersGame!Play \/ TheSeersGame!Finish PROVE CountInv'
<1>1. Sound(game) /\ run \in SeersRuns /\ pc = "play"
      /\ run.rewards + Held(game) <= game.earned /\ run.rewards \in Nat /\ run.played \in Nat
      /\ Held(game) \in Nat /\ game.earned \in Nat /\ game.snap \in Nat
  BY HeldIsNat
  DEF CountInv, SeersRuns, TheSeersGame!Play, TheSeersGame!Finish, TheSeersGame!AllPlayed
<1> DEFINE P(g) == TheSeersGame!Played(g)
<1>2. CASE TheSeersGame!Play
  <2>1. PICK g \in {game, P(game)} :
          /\ P(g) # g /\ game' = P(g)
          /\ run' = [run EXCEPT !.left = @ - 1, !.pending = P(g).snap]
    BY <1>2 DEF TheSeersGame!Play, TheSeersGame!Arrivals
  <2>2. pc' = "play" /\ run.left > 0
    BY <1>1, <1>2 DEF TheSeersGame!Play
  <2>3. /\ Sound(P(game)) /\ P(game).earned \in Nat /\ Held(P(game)) \in Nat
        /\ Held(P(game)) - Held(game) = P(game).earned - game.earned
    BY <1>1, Playing, HeldIsNat
  <2>4. Sound(g) /\ g.earned \in Nat /\ Held(g) \in Nat
        /\ Held(g) - Held(game) = g.earned - game.earned
    <3> HIDE DEF P
    <3>. QED  BY <1>1, <2>1, <2>3
  <2>5. /\ Sound(game') /\ game'.active
        /\ Held(game') - Held(g) = game'.earned - g.earned
    BY <2>1, <2>4, Playing
  <2>6. game'.earned \in Nat /\ Held(game') \in Nat /\ Held(game') = game'.snap
        /\ game'.snap \in 0..Rounds
    BY <2>5, HeldIsNat DEF Held, Sound, SeersGames
  <2> DEFINE left == run.left - 1
             snap == game'.snap
  <2>7. left \in 0..Rounds
    BY <1>1, <2>2, SeersAssumption DEF SeersRuns
  <2>8. run' = [run EXCEPT !.left = left, !.pending = snap]
    BY <1>1, <2>1 DEF SeersRuns
  <2>9. run.rewards + Held(game') <= game'.earned
    BY <1>1, <2>4, <2>5, <2>6
  <2>10. snap \in 0..Rounds /\ snap = Held(game')
    BY <2>6
  <2> HIDE DEF P, left, snap
  <2>11. run' \in SeersRuns /\ run'.rewards = run.rewards /\ run'.pending = snap
    BY <1>1, <2>7, <2>8, <2>10 DEF SeersRuns
  <2>12. run'.rewards <= game'.earned
    BY <1>1, <2>6, <2>9, <2>11
  <2>. QED  BY <2>2, <2>5, <2>9, <2>10, <2>11, <2>12 DEF CountInv
<1>3. CASE TheSeersGame!Finish
  <2>1. game' = TheSeersGame!Closed(game) /\ TheSeersGame!Closed(game) # game /\ pc' = "start"
        /\ run' = [run EXCEPT !.played = @ + 1, !.rewards = @ + game.snap]
    BY <1>3 DEF TheSeersGame!Finish
  <2>2. Sound(game') /\ game'.earned = game.earned /\ ~game'.active /\ game.active
    BY <1>1, <2>1, Closing
  <2> DEFINE played == run.played + 1
             rewards == run.rewards + game.snap
  <2>3. rewards \in Nat /\ played \in Nat /\ rewards = run.rewards + Held(game)
    BY <1>1, <2>2 DEF Held
  <2>4. run' = [run EXCEPT !.played = played, !.rewards = rewards]
    BY <1>1, <2>1 DEF SeersRuns
  <2> HIDE DEF played, rewards
  <2>5. run' \in SeersRuns /\ run'.rewards = rewards
    BY <1>1, <2>3, <2>4 DEF SeersRuns
  <2>6. Held(game') = 0
    BY <2>2 DEF Held
  <2>. QED  BY <1>1, <2>1, <2>2, <2>3, <2>5, <2>6 DEF CountInv
<1>. QED  BY <1>2, <1>3

LEMMA CountFails ==
  ASSUME CountInv, TheSeersGame!Refused \/ TheSeersGame!Raises PROVE CountInv'
<1>1. Sound(game) /\ run \in SeersRuns /\ pc' = "done" /\ game.earned \in Nat
  BY HeldIsNat DEF CountInv, TheSeersGame!Refused, TheSeersGame!Raises
<1> DEFINE O(g) == TheSeersGame!Opened(g)
           P(g) == TheSeersGame!Played(g)
           C(g) == TheSeersGame!Closed(g)
<1>2. game' \in {game, O(game), O(O(game)), P(game), P(P(game)), C(game), C(C(game))}
  BY DEF TheSeersGame!Refused, TheSeersGame!Raises, TheSeersGame!Arrivals, TheSeersGame!Losses
<1>3. \A g : Sound(g) => /\ Sound(O(g)) /\ O(g).earned >= g.earned
                         /\ Sound(P(g)) /\ P(g).earned >= g.earned
                         /\ Sound(C(g)) /\ C(g).earned >= g.earned /\ g.earned \in Nat
  <2>. SUFFICES ASSUME NEW g, Sound(g)
                PROVE  /\ Sound(O(g)) /\ O(g).earned >= g.earned
                       /\ Sound(P(g)) /\ P(g).earned >= g.earned
                       /\ Sound(C(g)) /\ C(g).earned >= g.earned /\ g.earned \in Nat
    OBVIOUS
  <2>. QED  BY Opening, Playing, Closing, HeldIsNat
<1> HIDE DEF O, P, C
<1>4. Sound(game') /\ game'.earned >= game.earned
  BY <1>1, <1>2, <1>3
<1>5. CASE TheSeersGame!Refused
  <2> DEFINE rewards == run.rewards + run.pending
  <2>1. pc = "play" /\ run' = [run EXCEPT !.failed = TRUE, !.rewards = rewards]
    BY <1>1, <1>5 DEF TheSeersGame!Refused, SeersRuns
  <2>2. rewards \in Nat /\ rewards = run.rewards + run.pending
    BY <1>1 DEF SeersRuns
  <2> HIDE DEF rewards
  <2>3. run' \in SeersRuns /\ run'.rewards = rewards /\ run'.failed = TRUE
    BY <1>1, <2>1, <2>2 DEF SeersRuns
  <2>. QED  BY <1>1, <1>4, <2>1, <2>2, <2>3, CountEnds
<1>6. CASE TheSeersGame!Raises
  <2>1. run' = [run EXCEPT !.raised = TRUE]
    BY <1>6 DEF TheSeersGame!Raises
  <2>2. run' \in SeersRuns /\ run'.rewards = run.rewards /\ run'.raised = TRUE
    BY <1>1, <2>1 DEF SeersRuns
  <2>. QED  BY <1>1, <1>4, <2>2, CountEnds
<1>. QED  BY <1>5, <1>6

\* A killed process forgets what it counted; the game remembers.
LEMMA CountDies ==
  ASSUME CountInv, TheSeersGame!Killed \/ TheSeersGame!Rerun PROVE CountInv'
<1>1. Sound(game) /\ game \in SeersGames /\ run \in SeersRuns
  BY DEF CountInv, Sound
<1>2. CASE TheSeersGame!Killed
  <2> DEFINE kills == game.kills - 1
  <2>1. kills \in 0..Kills
    BY <1>1, <1>2, SeersAssumption DEF TheSeersGame!Killed, SeersGames
  <2>2. game' = [game EXCEPT !.kills = kills] /\ pc' = "killed" /\ run' = run
    BY <1>1, <1>2 DEF TheSeersGame!Killed, SeersGames
  <2> HIDE DEF kills
  <2>3. /\ game' \in SeersGames /\ game'.opened = game.opened /\ game'.coins = game.coins
        /\ game'.round = game.round /\ game'.active = game.active /\ game'.snap = game.snap
        /\ game'.earned = game.earned
    BY <1>1, <2>1, <2>2 DEF SeersGames
  <2>4. Sound(game')
    BY <1>1, <2>3 DEF Sound
  <2>. QED  BY <2>2, <2>3, <2>4 DEF CountInv
<1>3. CASE TheSeersGame!Rerun
  <2> DEFINE earned == IF game.active THEN game.snap ELSE 0
  <2>1. game' = [game EXCEPT !.opened = 0, !.earned = earned] /\ pc' = "look"
        /\ run' = TheSeersGame!Fresh
    BY <1>3 DEF TheSeersGame!Rerun
  <2>2. earned \in Nat /\ 0 \in 0..Coins /\ earned = Held(game)
    BY <1>1, HeldIsNat, SeersAssumption DEF Held
  <2> HIDE DEF earned
  <2>3. /\ game' \in SeersGames /\ game'.opened = 0 /\ game'.coins = game.coins
        /\ game'.round = game.round /\ game'.active = game.active /\ game'.snap = game.snap
        /\ game'.earned = earned
    BY <1>1, <2>1, <2>2 DEF SeersGames
  <2>4. Sound(game') /\ Held(game') = earned
    BY <1>1, <2>2, <2>3, SeersAssumption DEF Sound, Held, SeersGames
  <2>5. run' \in SeersRuns /\ run'.rewards = 0
    BY <2>1, SeersAssumption DEF SeersRuns, TheSeersGame!Fresh
  <2>. QED  BY <2>1, <2>2, <2>3, <2>4, <2>5 DEF CountInv
<1>. QED  BY <1>2, <1>3

LEMMA CountSteps == ASSUME CountInvariant, [Next]_vars PROVE CountInvariant'
<1>. SUFFICES ASSUME command' = "seers-game" PROVE CountInv'
  BY DEF CountInvariant
<1>1. command = "seers-game" /\ CountInv
  BY DEF CountInvariant, Next, vars
<1>2. CASE TheSeersGame!Next
  BY <1>1, <1>2, CountLooks, CountStarts, CountPlays, CountFails, CountDies DEF TheSeersGame!Next
<1>3. CASE Next
  BY <1>1, <1>2, <1>3 DEF Next
<1>4. CASE UNCHANGED vars
  BY <1>1, <1>4 DEF vars, CountInv
<1>. QED  BY <1>3, <1>4

LEMMA CountAlways == Spec => []CountInvariant
BY CountInit, CountSteps, PTL DEF Spec

LEMMA SeersIsTyped == ASSUME CountInvariant, command = "seers-game" PROVE TheSeersGame!SeersTypeOK
BY DEF CountInvariant, CountInv, Sound, TheSeersGame!SeersTypeOK, SeersGames, SeersRuns

LEMMA SeersIsReal ==
  ASSUME CountInvariant, command = "seers-game" PROVE TheSeersGame!RewardsCountedOnce
BY DEF CountInvariant, CountInv, TheSeersGame!RewardsCountedOnce

LEMMA SeersIsDone ==
  ASSUME CountInvariant, command = "seers-game", ExitZero, OpenBeforeCoins PROVE ~game.active
BY DEF ExitZero, SeersFails, CountInvariant, CountInv

------------------------------------------------------------------------------
\* Consumables: what is counted as consumed, and what is left over.

Stores == [stock : [Items -> Nat], inside : 0..Inside, used : [Items -> Nat]]

UseRuns == [round : 0..(MaxRounds + 1), pending : SUBSET Items, read : [Items -> Nat],
            item : Items \union {TheConsumable!None}, left : Nat, failed : SUBSET Items,
            status : [Items -> {"skipped", "success", "error"}],
            consumed : [Items -> Nat], refused : SUBSET Items, unread : SUBSET Items,
            raised : BOOLEAN]

\* What was given up stays so: it is neither to be used nor in hand. A run that ends of
\* itself has found nothing left of what it has not given up, or says so.
UseInv ==
    /\ pc \in {"inventory", "use", "done"} /\ game \in Stores /\ run \in UseRuns
    /\ \A i \in Items \ run.unread : run.consumed[i] <= game.used[i]
    /\ pc # "done" => run.round <= MaxRounds
    /\ pc = "inventory" => run.item = TheConsumable!None
    /\ run.item \notin run.pending
    /\ \A i \in run.failed : i \notin run.pending /\ run.item # i /\ run.status[i] = "error"
    /\ pc = "done" => \/ run.raised
                      \/ \E i \in Items : run.status[i] = "error"
                      \/ \A i \in Items : game.stock[i] = 0

UseInvariant == command = "consumable" => UseInv

LEMMA UseInit == Init => UseInvariant
<1>. SUFFICES ASSUME Init, command = "consumable" PROVE UseInv
  BY DEF UseInvariant
<1>1. TheConsumable!Init
  BY DEF Init
<1> DEFINE zero == [i \in Items |-> 0]
           skipped == [i \in Items |-> "skipped"]
<1>2. zero \in [Items -> Nat] /\ skipped \in [Items -> {"skipped", "success", "error"}]
      /\ \A i \in Items : zero[i] = 0
  OBVIOUS
<1>3. pc = "inventory"
      /\ game \in [stock : [Items -> 0..MaxStock], inside : {Inside}, used : {zero}]
      /\ run = [round |-> 0, pending |-> {}, read |-> zero,
                item |-> TheConsumable!None, left |-> 0, failed |-> {},
                status |-> skipped, consumed |-> zero, refused |-> {}, unread |-> {},
                raised |-> FALSE]
  BY <1>1 DEF TheConsumable!Init
<1> HIDE DEF zero, skipped
<1>4. game \in Stores /\ game.used = zero
  <2>1. PICK stock \in [Items -> 0..MaxStock] :
          game = [stock |-> stock, inside |-> Inside, used |-> zero]
    BY <1>3
  <2>2. stock \in [Items -> Nat] /\ Inside \in 0..Inside
    BY ConsumablesAssumption
  <2>. QED  BY <1>2, <2>1, <2>2 DEF Stores
<1>5. run \in UseRuns /\ run.consumed = zero /\ run.round = 0 /\ run.failed = {}
      /\ run.pending = {} /\ run.item = TheConsumable!None
  BY <1>2, <1>3, ConsumablesAssumption DEF UseRuns
<1>6. 0 <= MaxRounds
  BY ConsumablesAssumption
<1>. QED  BY <1>2, <1>3, <1>4, <1>5, <1>6 DEF UseInv

\* The calls.
LEMMA LesserUse ==
  ASSUME NEW a \in Nat, NEW b \in Nat
  PROVE  LET m == TheConsumable!Min({a, b}) IN m \in Nat /\ m <= a /\ m <= b
<1>1. TheConsumable!Min({a, b}) = TheGift!Min({a, b})
  BY DEF TheConsumable!Min, TheGift!Min
<1>. QED  BY <1>1, LesserOf

LEMMA AmountIsLeft ==
  ASSUME NEW i \in Items, NEW left \in Nat
  PROVE  TheConsumable!Amount(i, left) \in Nat /\ TheConsumable!Amount(i, left) <= left
<1>1. PerCall[i] \in Nat
  BY ConsumablesAssumption
<1>. QED  BY <1>1, LesserUse DEF TheConsumable!Amount

LEMMA Opens ==
  ASSUME NEW g \in Stores, NEW i \in Items, NEW j \in Items, NEW k \in Nat, k <= g.stock[i],
         NEW s \in 0..g.inside
  PROVE  LET h == TheConsumable!Open(g, i, k, j, s) IN
         /\ h \in Stores /\ h.used[i] = g.used[i] + k
         /\ \A x \in Items \ {i} : h.used[x] = g.used[x]
<1> DEFINE stock == [[g.stock EXCEPT ![i] = @ - k] EXCEPT ![j] = @ + s]
           used == [g.used EXCEPT ![i] = @ + k]
           inside == g.inside - s
<1>1. g.stock \in [Items -> Nat] /\ g.used \in [Items -> Nat] /\ g.inside \in 0..Inside
      /\ s \in Nat
  BY ConsumablesAssumption DEF Stores
<1>2. inside \in 0..Inside
  BY <1>1, ConsumablesAssumption
<1>3. stock \in [Items -> Nat]
  <2> DEFINE less == [g.stock EXCEPT ![i] = @ - k]
  <2>1. g.stock[i] - k \in Nat
    BY <1>1
  <2>2. less \in [Items -> Nat]
    BY <1>1, <2>1
  <2> HIDE DEF less
  <2>3. less[j] + s \in Nat
    BY <1>1, <2>2
  <2>4. [less EXCEPT ![j] = @ + s] \in [Items -> Nat]
    BY <2>2, <2>3
  <2>. QED  BY <2>4 DEF less
<1>4. used \in [Items -> Nat] /\ used[i] = g.used[i] + k
      /\ \A x \in Items \ {i} : used[x] = g.used[x]
  BY <1>1
<1>5. TheConsumable!Open(g, i, k, j, s) = [stock |-> stock, inside |-> inside, used |-> used]
  BY DEF TheConsumable!Open
<1> HIDE DEF stock, inside, used
<1>. QED  BY <1>2, <1>3, <1>4, <1>5 DEF Stores

\* What a call leaves, heard of or not, has used up no less than before.
Later(g) == g \in Stores /\ \A i \in Items : game.used[i] <= g.used[i]

LEMMA UsedLater ==
  ASSUME game \in Stores, NEW g, Later(g), NEW i \in Items, NEW n \in Nat
  PROVE  Later(TheConsumable!UsedUp(g, i, n))
<1> DEFINE k == TheConsumable!Min({n, g.stock[i]})
           h == TheConsumable!Open(g, i, k, i, 0)
<1>1. g \in Stores /\ g.stock[i] \in Nat /\ 0 \in 0..g.inside
  BY ConsumablesAssumption DEF Later, Stores
<1>2. k \in Nat /\ k <= g.stock[i]
  BY <1>1, LesserUse
<1>3. h = TheConsumable!UsedUp(g, i, n)
  BY DEF TheConsumable!UsedUp
<1> HIDE DEF k
<1>4. h \in Stores /\ h.used[i] = g.used[i] + k /\ \A x \in Items \ {i} : h.used[x] = g.used[x]
  BY <1>1, <1>2, Opens
<1> HIDE DEF h
<1>5. \A x \in Items : game.used[x] \in Nat /\ g.used[x] \in Nat /\ game.used[x] <= g.used[x]
  BY <1>1 DEF Later, Stores
<1>. QED  BY <1>2, <1>3, <1>4, <1>5 DEF Later

LEMMA UseArrives ==
  ASSUME game \in Stores, NEW i \in Items, NEW n \in Nat
  PROVE  /\ \A g \in TheConsumable!Arrivals(LAMBDA x : TheConsumable!UsedUp(x, i, n), game) : Later(g)
         /\ \A g \in TheConsumable!Losses(LAMBDA x : TheConsumable!UsedUp(x, i, n), game) : Later(g)
<1>1. Later(game)
  BY DEF Later, Stores
<1>2. Later(TheConsumable!UsedUp(game, i, n))
  BY <1>1, UsedLater
<1>3. Later(TheConsumable!UsedUp(TheConsumable!UsedUp(game, i, n), i, n))
  BY <1>2, UsedLater
<1>. QED  BY <1>1, <1>2, <1>3 DEF TheConsumable!Arrivals, TheConsumable!Losses

\* Steps that consume nothing, or nothing that is counted.
LEMMA UseKeeps ==
  ASSUME UseInv, Later(game'), run' \in UseRuns, run'.consumed = run.consumed,
         run'.unread = run.unread
  PROVE  \A i \in Items \ run'.unread : run'.consumed[i] <= game'.used[i]
<1>. SUFFICES ASSUME NEW i \in Items \ run.unread PROVE run.consumed[i] <= game'.used[i]
  OBVIOUS
<1>1. run.consumed[i] <= game.used[i] /\ game.used[i] <= game'.used[i]
  BY DEF UseInv, Later
<1>2. run.consumed[i] \in Nat /\ game.used[i] \in Nat /\ game'.used[i] \in Nat
  BY DEF UseInv, Later, UseRuns, Stores
<1>. QED  BY <1>1, <1>2

LEMMA UseReads == ASSUME UseInv, TheConsumable!Fetch PROVE UseInv'
<1>1. game \in Stores /\ run \in UseRuns /\ pc = "inventory" /\ game' = game
      /\ run.round \in 0..MaxRounds /\ run.round + 1 \in 0..(MaxRounds + 1)
  <2>1. pc = "inventory" /\ game' = game
    BY DEF TheConsumable!Fetch
  <2>. QED  BY <2>1, ConsumablesAssumption DEF UseInv, UseRuns
<1>2. Later(game')
  BY <1>1 DEF Later, Stores
<1> DEFINE pending == {i \in Items \ run.failed : game.stock[i] > 0}
           last == TheConsumable!LastRound
           round == run.round + 1
           read == game.stock
           status == [i \in Items |-> IF last /\ i \in pending THEN "error" ELSE run.status[i]]
<1>3. run' = [run EXCEPT !.round = round, !.pending = pending, !.read = read,
                         !.status = status]
  BY <1>1 DEF UseRuns, TheConsumable!Fetch
<1>4. pc' = IF pending = {} \/ last THEN "done" ELSE "use"
  BY DEF TheConsumable!Fetch
<1>5. /\ round \in 0..(MaxRounds + 1) /\ (~last => round <= MaxRounds)
      /\ pending \in SUBSET Items /\ read \in [Items -> Nat]
      /\ status \in [Items -> {"skipped", "success", "error"}]
  BY <1>1, ConsumablesAssumption DEF UseRuns, Stores, TheConsumable!LastRound
<1>6. \A i \in Items : status[i] = IF last /\ i \in pending THEN "error" ELSE run.status[i]
  OBVIOUS
<1>7. \A i \in Items : i \in pending <=> i \notin run.failed /\ game.stock[i] > 0
  OBVIOUS
<1> HIDE DEF pending, last, round, read, status
<1>8. /\ run' \in UseRuns /\ run'.round = round /\ run'.pending = pending
      /\ run'.status = status /\ run'.consumed = run.consumed /\ run'.unread = run.unread /\ run'.failed = run.failed
      /\ run'.item = run.item /\ run'.raised = run.raised
  BY <1>1, <1>3, <1>5 DEF UseRuns
<1>9. \A i \in run'.failed : i \notin run'.pending /\ run'.item # i /\ run'.status[i] = "error"
  <2>. SUFFICES ASSUME NEW i \in run.failed
                PROVE  i \notin pending /\ run.item # i /\ status[i] = "error"
    BY <1>8
  <2>1. i \in Items
    BY <1>1 DEF UseRuns
  <2>. QED  BY <1>6, <1>7, <2>1 DEF UseInv
<1>10. run'.item \notin run'.pending
  <2>. SUFFICES ASSUME run.item \in pending PROVE FALSE
    BY <1>8
  <2>1. run.item = "none"
    BY <1>1 DEF UseInv, TheConsumable!None
  <2>. QED  BY <1>5, <2>1, ConsumablesAssumption
<1>11. pc' = "done" => \/ \E i \in Items : run'.status[i] = "error"
                       \/ \A i \in Items : game'.stock[i] = 0
  <2>. SUFFICES ASSUME pc' = "done", \A i \in Items : status[i] # "error", NEW i \in Items
                PROVE  game.stock[i] = 0
    BY <1>1, <1>8
  <2>1. i \notin run.failed
    BY <1>6 DEF UseInv
  <2>2. i \notin pending
    BY <1>4, <1>5, <1>6
  <2>3. game.stock[i] \in Nat
    BY <1>1 DEF Stores
  <2>. QED  BY <1>7, <2>1, <2>2, <2>3
<1>. QED  BY <1>1, <1>2, <1>4, <1>5, <1>8, <1>9, <1>10, <1>11, UseKeeps DEF UseInv

LEMMA UseTurns ==
  ASSUME UseInv,
         \/ TheConsumable!FetchFails \/ TheConsumable!NextRound
         \/ \E i \in Items : TheConsumable!UnknownMethod(i) \/ TheConsumable!Take(i)
  PROVE  UseInv'
<1>1. game \in Stores /\ run \in UseRuns /\ game' = game
  BY DEF UseInv, TheConsumable!FetchFails, TheConsumable!NextRound, TheConsumable!Raise,
         TheConsumable!UnknownMethod, TheConsumable!Take
<1>2. Later(game') /\ TheConsumable!None \notin Items
  BY <1>1, ConsumablesAssumption DEF Later, Stores, TheConsumable!None
<1>3. CASE TheConsumable!FetchFails
  <2>1. run' = [run EXCEPT !.raised = TRUE] /\ pc' = "done"
    BY <1>3 DEF TheConsumable!FetchFails, TheConsumable!Raise
  <2>2. run' \in UseRuns /\ run'.raised = TRUE /\ run'.consumed = run.consumed /\ run'.unread = run.unread
        /\ run'.item = run.item /\ run'.pending = run.pending /\ run'.failed = run.failed
        /\ run'.status = run.status
    BY <1>1, <2>1 DEF UseRuns
  <2>. QED  BY <1>1, <1>2, <2>1, <2>2, UseKeeps DEF UseInv
<1>4. CASE TheConsumable!NextRound
  BY <1>1, <1>4 DEF UseInv, TheConsumable!NextRound
<1>5. ASSUME NEW i \in Items, TheConsumable!UnknownMethod(i) PROVE UseInv'
  <2> DEFINE pending == run.pending \ {i}
             failed == run.failed \union {i}
             refused == run.refused \union {i}
             status == [run.status EXCEPT ![i] = "error"]
  <2>1. pc = "use" /\ pc' = "use" /\ run.item = TheConsumable!None
        /\ run' = [run EXCEPT !.pending = pending, !.failed = failed, !.refused = refused,
                              !.status = status]
    BY <1>1, <1>5 DEF TheConsumable!UnknownMethod, UseRuns
  <2>2. pending \in SUBSET Items /\ failed \in SUBSET Items /\ refused \in SUBSET Items
        /\ status \in [Items -> {"skipped", "success", "error"}] /\ status[i] = "error"
        /\ \A x \in Items \ {i} : status[x] = run.status[x]
    BY <1>1 DEF UseRuns
  <2>3. \A x \in failed : x = i \/ x \in run.failed
    OBVIOUS
  <2>4. i \notin pending /\ pending \subseteq run.pending
    OBVIOUS
  <2> HIDE DEF pending, failed, refused, status
  <2>5. run' \in UseRuns /\ run'.pending = pending /\ run'.failed = failed
        /\ run'.status = status /\ run'.consumed = run.consumed /\ run'.unread = run.unread /\ run'.item = run.item
        /\ run'.round = run.round
    BY <1>1, <2>1, <2>2 DEF UseRuns
  <2>6. \A x \in failed : x \notin pending /\ run.item # x /\ status[x] = "error"
    <3>. SUFFICES ASSUME NEW x \in failed
                  PROVE  x \notin pending /\ run.item # x /\ status[x] = "error"
      OBVIOUS
    <3>1. CASE x = i
      BY <1>2, <2>1, <2>2, <2>4, <3>1
    <3>2. CASE x # i
      BY <2>2, <2>3, <2>4, <3>2 DEF UseInv
    <3>. QED  BY <3>1, <3>2
  <2>. QED  BY <1>1, <1>2, <2>1, <2>4, <2>5, <2>6, UseKeeps DEF UseInv
<1>6. ASSUME NEW i \in Items, TheConsumable!Take(i) PROVE UseInv'
  <2> DEFINE pending == run.pending \ {i}
             left == run.read[i]
  <2>1. pc = "use" /\ pc' = "use" /\ i \in run.pending
        /\ run' = [run EXCEPT !.pending = pending, !.item = i, !.left = left]
    BY <1>1, <1>6 DEF TheConsumable!Take, UseRuns
  <2>2. pending \in SUBSET Items /\ left \in Nat /\ i \notin pending
        /\ pending \subseteq run.pending
    BY <1>1 DEF UseRuns
  <2> HIDE DEF pending, left
  <2>3. run' \in UseRuns /\ run'.pending = pending /\ run'.failed = run.failed
        /\ run'.status = run.status /\ run'.consumed = run.consumed /\ run'.unread = run.unread /\ run'.item = i
        /\ run'.round = run.round
    BY <1>1, <2>1, <2>2 DEF UseRuns
  <2>4. \A x \in run.failed : x \notin pending /\ i # x /\ run.status[x] = "error"
    BY <2>1, <2>2 DEF UseInv
  <2>. QED  BY <1>1, <1>2, <2>1, <2>2, <2>3, <2>4, UseKeeps DEF UseInv
<1>. QED  BY <1>3, <1>4, <1>5, <1>6

LEMMA UseEnds ==
  ASSUME UseInv, NEW i \in Items, TheConsumable!InHand(i), NEW g, Later(g),
         \/ \E refused \in BOOLEAN : TheConsumable!GiveUp(i, g, refused)
         \/ TheConsumable!Raise(g)
  PROVE  UseInv'
<1>1. game' = g /\ game' \in Stores /\ run \in UseRuns /\ pc = "use" /\ run.item = i
      /\ Later(game') /\ TheConsumable!None \notin Items
  BY ConsumablesAssumption
  DEF UseInv, Later, TheConsumable!GiveUp, TheConsumable!Raise, TheConsumable!InHand,
      TheConsumable!None
<1>2. CASE TheConsumable!Raise(g)
  <2>1. run' = [run EXCEPT !.raised = TRUE] /\ pc' = "done"
    BY <1>2 DEF TheConsumable!Raise
  <2>2. run' \in UseRuns /\ run'.raised = TRUE /\ run'.consumed = run.consumed /\ run'.unread = run.unread
        /\ run'.item = run.item /\ run'.pending = run.pending /\ run'.failed = run.failed
        /\ run'.status = run.status
    BY <1>1, <2>1 DEF UseRuns
  <2>. QED  BY <1>1, <2>1, <2>2, UseKeeps DEF UseInv
<1>3. ASSUME NEW no \in BOOLEAN, TheConsumable!GiveUp(i, g, no) PROVE UseInv'
  <2> DEFINE failed == run.failed \union {i}
             refused == IF no THEN run.refused \union {i} ELSE run.refused
             status == [run.status EXCEPT ![i] = "error"]
  <2>1. pc' = "use"
        /\ run' = [run EXCEPT !.item = TheConsumable!None, !.failed = failed,
                              !.status = status, !.refused = refused]
    BY <1>1, <1>3 DEF TheConsumable!GiveUp, UseRuns
  <2>2. failed \in SUBSET Items /\ refused \in SUBSET Items
        /\ status \in [Items -> {"skipped", "success", "error"}] /\ status[i] = "error"
        /\ \A x \in Items \ {i} : status[x] = run.status[x]
    BY <1>1 DEF UseRuns
  <2>3. \A x \in failed : x = i \/ x \in run.failed
    OBVIOUS
  <2>4. i \notin run.pending /\ run.pending \subseteq Items
    BY <1>1 DEF UseInv, UseRuns
  <2> HIDE DEF failed, refused, status
  <2>5. run' \in UseRuns /\ run'.pending = run.pending /\ run'.failed = failed
        /\ run'.status = status /\ run'.consumed = run.consumed /\ run'.unread = run.unread
        /\ run'.item = TheConsumable!None /\ run'.round = run.round
    BY <1>1, <2>1, <2>2 DEF UseRuns
  <2>6. \A x \in failed : /\ x \notin run.pending /\ TheConsumable!None # x
                          /\ status[x] = "error"
    <3>. SUFFICES ASSUME NEW x \in failed
                  PROVE  x \notin run.pending /\ TheConsumable!None # x /\ status[x] = "error"
      OBVIOUS
    <3>1. CASE x = i
      BY <1>1, <2>2, <2>4, <3>1
    <3>2. CASE x # i
      BY <1>1, <2>2, <2>3, <3>2 DEF UseInv
    <3>. QED  BY <3>1, <3>2
  <2>. QED  BY <1>1, <2>1, <2>4, <2>5, <2>6, UseKeeps DEF UseInv
<1>. QED  BY <1>2, <1>3

LEMMA UseChunks ==
  ASSUME UseInv, NEW i \in Items, TheConsumable!UseChunk(i) PROVE UseInv'
<1> DEFINE n == TheConsumable!Amount(i, run.left)
<1>1. game \in Stores /\ run \in UseRuns /\ pc = "use" /\ run.item = i
      /\ TheConsumable!None \notin Items /\ run.left \in Nat
  BY ConsumablesAssumption
  DEF UseInv, UseRuns, TheConsumable!UseChunk, TheConsumable!InHand, TheConsumable!None
<1>2. n \in Nat /\ n <= run.left
  BY <1>1, AmountIsLeft
<1>3. PICK g \in TheConsumable!Arrivals(LAMBDA x : TheConsumable!UsedUp(x, i, n), game) :
        \E k \in 1..TheConsumable!Min({n, g.stock[i]}), j \in Items, s \in 0..g.inside,
           told \in BOOLEAN :
          /\ game' = TheConsumable!Open(g, i, k, j, s)
          /\ run' = [run EXCEPT !.left = @ - n,
                                !.consumed[i] = @ + TheConsumable!ActualConsumed(n, k, told),
                                !.unread = IF told THEN @ ELSE @ \union {i},
                                !.item = IF run.left = n THEN TheConsumable!None ELSE i,
                                !.status[i] = IF run.left = n THEN "success" ELSE @]
  BY DEF TheConsumable!UseChunk
<1>4. Later(g)
  BY <1>1, <1>2, UseArrives
<1> HIDE DEF n
<1>5. PICK k \in 1..TheConsumable!Min({n, g.stock[i]}), j \in Items, s \in 0..g.inside,
           told \in BOOLEAN :
        /\ game' = TheConsumable!Open(g, i, k, j, s)
        /\ run' = [run EXCEPT !.left = @ - n,
                              !.consumed[i] = @ + TheConsumable!ActualConsumed(n, k, told),
                              !.unread = IF told THEN @ ELSE @ \union {i},
                              !.item = IF run.left = n THEN TheConsumable!None ELSE i,
                              !.status[i] = IF run.left = n THEN "success" ELSE @]
  BY <1>3
<1>6. g \in Stores /\ k \in Nat /\ k <= g.stock[i]
  <2>1. g \in Stores /\ g.stock[i] \in Nat
    BY <1>4 DEF Later, Stores
  <2>2. k \in 1..TheConsumable!Min({n, g.stock[i]})
    OBVIOUS
  <2>3. LET m == TheConsumable!Min({n, g.stock[i]}) IN m \in Nat /\ m <= g.stock[i]
    BY <1>2, <2>1, LesserUse
  <2>. QED  BY <2>1, <2>2, <2>3
<1>7. game' \in Stores /\ game'.used[i] = g.used[i] + k
      /\ \A x \in Items \ {i} : game'.used[x] = g.used[x]
  BY <1>5, <1>6, Opens
<1> DEFINE left == run.left - n
           c == TheConsumable!ActualConsumed(n, k, told)
           consumed == [run.consumed EXCEPT ![i] = @ + c]
           unread == IF told THEN run.unread ELSE run.unread \union {i}
           item == IF run.left = n THEN TheConsumable!None ELSE i
           status == [run.status EXCEPT ![i] = IF run.left = n THEN "success" ELSE @]
<1>8. run' = [run EXCEPT !.left = left, !.consumed = consumed, !.unread = unread,
                         !.item = item, !.status = status]
  BY <1>1, <1>5 DEF UseRuns
<1>counted. c \in Nat /\ (told => c = k)
  BY <1>2, <1>6 DEF TheConsumable!ActualConsumed
<1> HIDE DEF c
<1>9. /\ left \in Nat /\ consumed \in [Items -> Nat]
      /\ consumed[i] = run.consumed[i] + c
      /\ \A x \in Items \ {i} : consumed[x] = run.consumed[x]
      /\ unread \in SUBSET Items /\ run.unread \subseteq unread /\ (i \notin unread => told)
  BY <1>1, <1>2, <1>counted DEF UseRuns
<1>10. /\ item \in {i, TheConsumable!None}
       /\ status \in [Items -> {"skipped", "success", "error"}]
       /\ \A x \in Items \ {i} : status[x] = run.status[x]
  BY <1>1 DEF UseRuns
<1> HIDE DEF left, consumed, unread, item, status
<1>11. /\ run' \in UseRuns /\ run'.consumed = consumed /\ run'.unread = unread
       /\ run'.item = item /\ run'.status = status /\ run'.pending = run.pending /\ run'.failed = run.failed
       /\ run'.round = run.round
  BY <1>1, <1>8, <1>9, <1>10 DEF UseRuns
<1>12. \A x \in Items \ unread : consumed[x] <= game'.used[x]
  <2>. SUFFICES ASSUME NEW x \in Items \ unread PROVE consumed[x] <= game'.used[x]
    OBVIOUS
  <2>1. run.consumed[x] <= game.used[x] /\ game.used[x] <= g.used[x]
        /\ run.consumed[x] \in Nat /\ game.used[x] \in Nat /\ g.used[x] \in Nat
    BY <1>1, <1>4, <1>6, <1>9 DEF UseInv, Later, UseRuns, Stores
  <2>. QED  BY <1>6, <1>7, <1>9, <1>counted, <2>1
<1>13. item \notin run.pending
  BY <1>1, <1>10 DEF UseInv, UseRuns
<1>14. \A x \in run.failed : x \notin run.pending /\ item # x /\ status[x] = "error"
  <2>. SUFFICES ASSUME NEW x \in run.failed
                PROVE  x \notin run.pending /\ item # x /\ status[x] = "error"
    OBVIOUS
  <2>1. x \in Items /\ x # i /\ x \notin run.pending /\ run.status[x] = "error"
    BY <1>1 DEF UseInv, UseRuns
  <2>. QED  BY <1>1, <1>10, <2>1
<1>15. pc' = "use"
  BY <1>1 DEF TheConsumable!UseChunk
<1>. QED  BY <1>1, <1>7, <1>11, <1>12, <1>13, <1>14, <1>15 DEF UseInv

LEMMA UseFails ==
  ASSUME UseInv, NEW i \in Items,
         TheConsumable!UseRefused(i) \/ TheConsumable!UseUnanswered(i)
           \/ TheConsumable!UseUnauthorized(i)
  PROVE  UseInv'
<1> DEFINE n == TheConsumable!Amount(i, run.left)
<1>1. TheConsumable!InHand(i) /\ game \in Stores /\ run.left \in Nat
  BY DEF UseInv, UseRuns, TheConsumable!UseRefused, TheConsumable!UseUnanswered,
         TheConsumable!UseUnauthorized
<1>2. n \in Nat
  BY <1>1, AmountIsLeft
<1>3. CASE TheConsumable!UseUnanswered(i)
  <2>1. PICK g \in TheConsumable!Losses(LAMBDA x : TheConsumable!UsedUp(x, i, n), game) :
          TheConsumable!GiveUp(i, g, FALSE)
    BY <1>3 DEF TheConsumable!UseUnanswered
  <2>2. Later(g)
    BY <1>1, <1>2, UseArrives
  <2>. QED  BY <1>1, <2>1, <2>2, UseEnds
<1>4. CASE TheConsumable!UseRefused(i)
  <2>1. PICK g \in TheConsumable!Arrivals(LAMBDA x : TheConsumable!UsedUp(x, i, n), game) :
          TheConsumable!GiveUp(i, g, TRUE)
    BY <1>4 DEF TheConsumable!UseRefused
  <2>2. Later(g)
    BY <1>1, <1>2, UseArrives
  <2>. QED  BY <1>1, <2>1, <2>2, UseEnds
<1>5. CASE TheConsumable!UseUnauthorized(i)
  <2>1. PICK g \in TheConsumable!Arrivals(LAMBDA x : TheConsumable!UsedUp(x, i, n), game) :
          TheConsumable!Raise(g)
    BY <1>5 DEF TheConsumable!UseUnauthorized
  <2>2. Later(g)
    BY <1>1, <1>2, UseArrives
  <2>. QED  BY <1>1, <2>1, <2>2, UseEnds
<1>. QED  BY <1>3, <1>4, <1>5

LEMMA UseSteps == ASSUME UseInvariant, [Next]_vars PROVE UseInvariant'
<1>. SUFFICES ASSUME command' = "consumable" PROVE UseInv'
  BY DEF UseInvariant
<1>1. command = "consumable" /\ UseInv
  BY DEF UseInvariant, Next, vars
<1>2. CASE TheConsumable!Next
  BY <1>1, <1>2, UseReads, UseTurns, UseChunks, UseFails DEF TheConsumable!Next
<1>3. CASE Next
  BY <1>1, <1>2, <1>3 DEF Next
<1>4. CASE UNCHANGED vars
  BY <1>1, <1>4 DEF vars, UseInv
<1>. QED  BY <1>3, <1>4

LEMMA UseAlways == Spec => []UseInvariant
BY UseInit, UseSteps, PTL DEF Spec

LEMMA UseIsTyped ==
  ASSUME UseInvariant, command = "consumable" PROVE TheConsumable!ConsumablesTypeOK
BY DEF UseInvariant, UseInv, TheConsumable!ConsumablesTypeOK, Stores, UseRuns

LEMMA UseIsReal == ASSUME UseInvariant, command = "consumable" PROVE TheConsumable!ConsumedIsReal
BY DEF UseInvariant, UseInv, TheConsumable!ConsumedIsReal

LEMMA UseIsDone ==
  ASSUME UseInvariant, command = "consumable", ExitZero
  PROVE  \A i \in Items : game.stock[i] = 0
BY DEF ExitZero, ConsumableFails, UseInvariant, UseInv

------------------------------------------------------------------------------
\* Raids: what is reported as done today.

Staminas == [stamina : Nat, potions : 0..Potions, raided : SUBSET Missions]

RaidRuns == [kind : {"hero", "item", "daily"}, recovery : BOOLEAN, mission : BOOLEAN,
             todo : SUBSET Missions, seen : SUBSET Missions, recovered : SUBSET Missions,
             result : [Missions -> Outcomes], iterations : 0..MaxIterations, raised : BOOLEAN]

Reported == {"skipped", "success", "limit"}

\* Nobody takes a raid back: what was read as raided, or found to be, remains so.
TodayInv ==
    /\ pc \in {"status", "raid", "stones", "item", "shop", "done"}
    /\ game \in Staminas /\ run \in RaidRuns
    /\ run.seen \subseteq game.raided
    /\ \A m \in Missions : run.result[m] \in Reported => m \in game.raided

TodayInvariant == command = "raid" => TodayInv

LEMMA TodayInit == Init => TodayInvariant
<1>. SUFFICES ASSUME Init, command = "raid" PROVE TodayInv
  BY DEF TodayInvariant
<1>1. TheRaid!Init
  BY DEF Init
<1> DEFINE none == [m \in Missions |-> "none"]
<1>2. none \in [Missions -> Outcomes] /\ \A m \in Missions : none[m] \notin Reported
  BY DEF Outcomes, Reported
<1>3. pc = "status" /\ game \in Staminas
  <2>1. 0..Stamina \subseteq Nat /\ Potions \in 0..Potions
    BY RaidsAssumption
  <2>. QED  BY <1>1, <2>1 DEF TheRaid!Init, Staminas
<1>4. PICK kind \in {"hero", "item", "daily"}, recovery, mission \in BOOLEAN :
        run = [kind |-> kind, recovery |-> recovery, mission |-> mission, todo |-> Missions,
               seen |-> {}, recovered |-> {}, result |-> none, iterations |-> 0,
               raised |-> FALSE]
  BY <1>1 DEF TheRaid!Init
<1> HIDE DEF none
<1>5. run \in RaidRuns /\ run.seen = {} /\ run.result = none
  BY <1>2, <1>4, RaidsAssumption DEF RaidRuns
<1>. QED  BY <1>2, <1>3, <1>5 DEF TodayInv

\* The calls: none takes a raid back.
Onward(g) == g \in Staminas /\ game.raided \subseteq g.raided

LEMMA RaidingOn ==
  ASSUME NEW g, Onward(g), NEW m \in Missions
  PROVE  /\ Onward(TheRaid!Raided(g, m))
         /\ TheRaid!Raided(g, m) # g => m \in TheRaid!Raided(g, m).raided
<1> DEFINE h == TheRaid!Raided(g, m)
           stamina == g.stamina - Cost
           raided == g.raided \union {m}
<1>1. g \in Staminas /\ game.raided \subseteq g.raided
  BY DEF Onward
<1>2. CASE g.stamina < Cost \/ m \in g.raided
  BY <1>1, <1>2 DEF TheRaid!Raided, Onward
<1>3. CASE ~(g.stamina < Cost \/ m \in g.raided)
  <2>1. stamina \in Nat /\ raided \in SUBSET Missions
    BY <1>1, <1>3, RaidsAssumption DEF Staminas
  <2>2. h = [g EXCEPT !.stamina = stamina, !.raided = raided]
    BY <1>1, <1>3 DEF TheRaid!Raided, Staminas
  <2>3. m \in raided /\ g.raided \subseteq raided
    OBVIOUS
  <2> HIDE DEF stamina, raided
  <2>4. h \in Staminas /\ h.raided = raided
    BY <1>1, <2>1, <2>2 DEF Staminas
  <2>. QED  BY <1>1, <2>3, <2>4 DEF Onward
<1>. QED  BY <1>2, <1>3

LEMMA DrinkingOn == ASSUME NEW g, Onward(g) PROVE Onward(TheRaid!Drunk(g))
<1> DEFINE h == TheRaid!Drunk(g)
           stamina == g.stamina + 1
           potions == g.potions - 1
<1>1. g \in Staminas /\ game.raided \subseteq g.raided
  BY DEF Onward
<1>2. CASE g.potions = 0
  BY <1>2 DEF TheRaid!Drunk
<1>3. CASE g.potions # 0
  <2>1. stamina \in Nat /\ potions \in 0..Potions
    BY <1>1, <1>3, RaidsAssumption DEF Staminas
  <2>2. h = [g EXCEPT !.potions = potions, !.stamina = stamina]
    BY <1>1, <1>3 DEF TheRaid!Drunk, Staminas
  <2> HIDE DEF stamina, potions
  <2>3. h \in Staminas /\ h.raided = g.raided
    BY <1>1, <2>1, <2>2 DEF Staminas
  <2>. QED  BY <1>1, <2>3 DEF Onward
<1>. QED  BY <1>2, <1>3

LEMMA ItemsOn == ASSUME NEW g, Onward(g) PROVE Onward(TheRaid!ItemRaided(g))
<1> DEFINE h == TheRaid!ItemRaided(g)
           stamina == g.stamina - ItemCost
<1>1. g \in Staminas /\ game.raided \subseteq g.raided
  BY DEF Onward
<1>2. CASE g.stamina < ItemCost
  BY <1>2 DEF TheRaid!ItemRaided
<1>3. CASE ~(g.stamina < ItemCost)
  <2>1. stamina \in Nat
    BY <1>1, <1>3, RaidsAssumption DEF Staminas
  <2>2. h = [g EXCEPT !.stamina = stamina]
    BY <1>1, <1>3 DEF TheRaid!ItemRaided, Staminas
  <2> HIDE DEF stamina
  <2>3. h \in Staminas /\ h.raided = g.raided
    BY <1>1, <2>1, <2>2 DEF Staminas
  <2>. QED  BY <1>1, <2>3 DEF Onward
<1>. QED  BY <1>2, <1>3

LEMMA RaidArrives ==
  ASSUME TodayInv, NEW m \in Missions
  PROVE  /\ \A g \in TheRaid!Arrivals(LAMBDA x : TheRaid!Raided(x, m), game) : Onward(g)
         /\ \A g \in TheRaid!Losses(LAMBDA x : TheRaid!Raided(x, m), game) : Onward(g)
<1>1. Onward(game)
  BY DEF TodayInv, Onward
<1>2. Onward(TheRaid!Raided(game, m))
  BY <1>1, RaidingOn
<1>3. Onward(TheRaid!Raided(TheRaid!Raided(game, m), m))
  BY <1>2, RaidingOn
<1>. QED  BY <1>1, <1>2, <1>3 DEF TheRaid!Arrivals, TheRaid!Losses

LEMMA DrinkArrives ==
  ASSUME NEW g, Onward(g)
  PROVE  /\ \A h \in TheRaid!Arrivals(TheRaid!Drunk, g) : Onward(h)
         /\ \A h \in TheRaid!Losses(TheRaid!Drunk, g) : Onward(h)
<1>1. Onward(TheRaid!Drunk(g))
  BY DrinkingOn
<1>2. Onward(TheRaid!Drunk(TheRaid!Drunk(g)))
  BY <1>1, DrinkingOn
<1>. QED  BY <1>1, <1>2 DEF TheRaid!Arrivals, TheRaid!Losses

LEMMA ItemsArrive ==
  ASSUME TodayInv
  PROVE  /\ \A g \in TheRaid!Arrivals(TheRaid!ItemRaided, game) : Onward(g)
         /\ \A g \in TheRaid!Losses(TheRaid!ItemRaided, game) : Onward(g)
<1>1. Onward(game)
  BY DEF TodayInv, Onward
<1>2. Onward(TheRaid!ItemRaided(game))
  BY <1>1, ItemsOn
<1>3. Onward(TheRaid!ItemRaided(TheRaid!ItemRaided(game)))
  BY <1>2, ItemsOn
<1>. QED  BY <1>1, <1>2, <1>3 DEF TheRaid!Arrivals, TheRaid!Losses

\* One mission is dealt with, or something else happens.
LEMMA TodayResult ==
  ASSUME TodayInv, Onward(game'), NEW m \in Missions, NEW status \in Outcomes,
         status \in Reported => m \in game'.raided,
         run' = TheRaid!Result(m, status), pc' = pc
  PROVE  TodayInv'
<1> DEFINE results == [run.result EXCEPT ![m] = status]
           rest == run.todo \ {m}
<1>1. run \in RaidRuns /\ game' \in Staminas /\ game.raided \subseteq game'.raided
  BY DEF TodayInv, Onward
<1>2. results \in [Missions -> Outcomes] /\ rest \in SUBSET Missions
      /\ results[m] = status /\ \A k \in Missions \ {m} : results[k] = run.result[k]
  BY <1>1 DEF RaidRuns
<1>3. run' = [run EXCEPT !.todo = rest, !.result = results]
  BY DEF TheRaid!Result
<1> HIDE DEF results, rest
<1>4. run' \in RaidRuns /\ run'.result = results /\ run'.seen = run.seen
  BY <1>1, <1>2, <1>3 DEF RaidRuns
<1>. QED  BY <1>1, <1>2, <1>4 DEF TodayInv

LEMMA TodayElse ==
  ASSUME TodayInv, Onward(game'), run' \in RaidRuns, run'.result = run.result,
         run'.seen \subseteq game'.raided,
         pc' \in {"status", "raid", "stones", "item", "shop", "done"}
  PROVE  TodayInv'
BY DEF TodayInv, Onward

LEMMA TodayRaids ==
  ASSUME TodayInv, NEW m \in Missions,
         TheRaid!SkipRaided(m) \/ TheRaid!Raid(m) \/ TheRaid!LimitReached(m) \/ TheRaid!RaidFails(m)
  PROVE  TodayInv'
<1>1. game \in Staminas /\ Onward(game) /\ run.seen \subseteq game.raided /\ pc' = pc
  BY DEF TodayInv, Onward, TheRaid!SkipRaided, TheRaid!Raid, TheRaid!LimitReached, TheRaid!RaidFails
<1>2. {"skipped", "success", "limit", "error"} \subseteq Outcomes /\ "error" \notin Reported
  BY DEF Outcomes, Reported
<1>3. CASE TheRaid!SkipRaided(m)
  <2>1. m \in run.seen /\ game' = game /\ run' = TheRaid!Result(m, "skipped")
    BY <1>3 DEF TheRaid!SkipRaided
  <2>. QED  BY <1>1, <1>2, <2>1, TodayResult
<1>4. CASE TheRaid!Raid(m)
  <2>1. PICK g \in TheRaid!Arrivals(LAMBDA x : TheRaid!Raided(x, m), game) :
          TheRaid!Raided(g, m) # g /\ game' = TheRaid!Raided(g, m)
    BY <1>4 DEF TheRaid!Raid
  <2>2. Onward(g)
    BY RaidArrives
  <2>3. Onward(game') /\ m \in game'.raided
    BY <2>1, <2>2, RaidingOn
  <2>4. run' = TheRaid!Result(m, "success")
    BY <1>4 DEF TheRaid!Raid
  <2>. QED  BY <1>1, <1>2, <2>3, <2>4, TodayResult
<1>5. CASE TheRaid!LimitReached(m)
  <2>1. PICK g \in TheRaid!Arrivals(LAMBDA x : TheRaid!Raided(x, m), game) :
          m \in g.raided /\ game' = g
    BY <1>5 DEF TheRaid!LimitReached
  <2>2. Onward(g)
    BY RaidArrives
  <2>3. run' = TheRaid!Result(m, "limit")
    BY <1>5 DEF TheRaid!LimitReached
  <2>. QED  BY <1>1, <1>2, <2>1, <2>2, <2>3, TodayResult
<1>6. CASE TheRaid!RaidFails(m)
  <2>1. game' \in TheRaid!Losses(LAMBDA x : TheRaid!Raided(x, m), game)
    BY <1>6 DEF TheRaid!RaidFails
  <2>2. Onward(game')
    BY <2>1, RaidArrives
  <2>3. run' = TheRaid!Result(m, "error")
    BY <1>6 DEF TheRaid!RaidFails
  <2>. QED  BY <1>1, <1>2, <2>2, <2>3, TodayResult
<1>. QED  BY <1>3, <1>4, <1>5, <1>6

LEMMA TodayShort ==
  ASSUME TodayInv, NEW m \in Missions, TheRaid!StaminaShort(m) PROVE TodayInv'
<1>1. pc' = pc /\ "stamina" \in Outcomes /\ "stamina" \notin Reported /\ run \in RaidRuns
      /\ run.seen \subseteq game.raided
      /\ pc \in {"status", "raid", "stones", "item", "shop", "done"}
  BY DEF TodayInv, Outcomes, Reported, TheRaid!StaminaShort
<1>2. PICK g \in TheRaid!Arrivals(LAMBDA x : TheRaid!Raided(x, m), game) :
        \/ game' = g /\ run' = TheRaid!Result(m, "stamina")
        \/ /\ \E h \in TheRaid!Arrivals(TheRaid!Drunk, g) : game' = TheRaid!Drunk(h)
           /\ run' = [run EXCEPT !.recovered = @ \union {m}]
        \/ /\ game' \in TheRaid!Losses(TheRaid!Drunk, g) \union {g}
           /\ run' = TheRaid!Result(m, "stamina")
  BY DEF TheRaid!StaminaShort
<1>3. Onward(g)
  BY RaidArrives
<1>4. CASE game' = g /\ run' = TheRaid!Result(m, "stamina")
  BY <1>1, <1>3, <1>4, TodayResult
<1>5. CASE /\ \E h \in TheRaid!Arrivals(TheRaid!Drunk, g) : game' = TheRaid!Drunk(h)
           /\ run' = [run EXCEPT !.recovered = @ \union {m}]
  <2>1. PICK h \in TheRaid!Arrivals(TheRaid!Drunk, g) : game' = TheRaid!Drunk(h)
    BY <1>5
  <2>2. Onward(game')
    BY <1>3, <2>1, DrinkArrives, DrinkingOn
  <2> DEFINE recovered == run.recovered \union {m}
  <2>3. recovered \in SUBSET Missions /\ run' = [run EXCEPT !.recovered = recovered]
    BY <1>1, <1>5 DEF RaidRuns
  <2> HIDE DEF recovered
  <2>4. run' \in RaidRuns /\ run'.result = run.result /\ run'.seen = run.seen
    BY <1>1, <2>3 DEF RaidRuns
  <2>5. run'.seen \subseteq game'.raided
    BY <1>1, <2>2, <2>4 DEF Onward
  <2>. QED  BY <1>1, <2>2, <2>4, <2>5, TodayElse
<1>6. CASE /\ game' \in TheRaid!Losses(TheRaid!Drunk, g) \union {g}
           /\ run' = TheRaid!Result(m, "stamina")
  <2>1. Onward(game')
    BY <1>3, <1>6, DrinkArrives
  <2>. QED  BY <1>1, <1>6, <2>1, TodayResult
<1>. QED  BY <1>2, <1>4, <1>5, <1>6

LEMMA TodayMoves ==
  ASSUME TodayInv,
         TheRaid!ReadStatus \/ TheRaid!GoStraightToItems \/ TheRaid!RaidsDone \/ TheRaid!Stones
           \/ TheRaid!Unauthorized \/ TheRaid!ItemRaid \/ TheRaid!ItemRaidEnds \/ TheRaid!GoShopping
  PROVE  TodayInv'
<1>1. run \in RaidRuns /\ run.seen \subseteq game.raided /\ Onward(game)
      /\ game.raided \in SUBSET Missions
  BY DEF TodayInv, Onward, Staminas
<1>2. Onward(game')
  <2>1. CASE TheRaid!ItemRaid
    <3>1. PICK g \in TheRaid!Arrivals(TheRaid!ItemRaided, game) : game' = TheRaid!ItemRaided(g)
      BY <2>1 DEF TheRaid!ItemRaid
    <3>. QED  BY <3>1, ItemsArrive, ItemsOn
  <2>2. CASE TheRaid!ItemRaidEnds
    BY <1>1, <2>2, ItemsArrive DEF TheRaid!ItemRaidEnds
  <2>3. CASE TheRaid!Unauthorized
    <3>1. ASSUME NEW m \in Missions, NEW g \in TheRaid!Arrivals(LAMBDA x : TheRaid!Raided(x, m), game),
                 game' \in {g} \union TheRaid!Arrivals(TheRaid!Drunk, g)
          PROVE  Onward(game')
      <4>1. Onward(g)
        BY RaidArrives
      <4>. QED  BY <3>1, <4>1, DrinkArrives
    <3>2. ASSUME game' \in {game} \union TheRaid!Arrivals(TheRaid!ItemRaided, game)
          PROVE  Onward(game')
      BY <1>1, <3>2, ItemsArrive
    <3>. QED  BY <2>3, <3>1, <3>2 DEF TheRaid!Unauthorized
  <2>4. CASE ~TheRaid!ItemRaid /\ ~TheRaid!ItemRaidEnds /\ ~TheRaid!Unauthorized
    <3>1. game' = game
      BY <2>4 DEF TheRaid!ReadStatus, TheRaid!GoStraightToItems, TheRaid!RaidsDone,
                  TheRaid!Stones, TheRaid!GoShopping
    <3>. QED  BY <1>1, <3>1
  <2>. QED  BY <2>1, <2>2, <2>3, <2>4
<1>3. pc' \in {"status", "raid", "stones", "item", "shop", "done"}
  BY DEF TodayInv, TheRaid!ReadStatus, TheRaid!GoStraightToItems, TheRaid!RaidsDone,
         TheRaid!Stones, TheRaid!Unauthorized, TheRaid!ItemRaid, TheRaid!ItemRaidEnds,
         TheRaid!GoShopping, TheRaid!AfterItems
<1>4. run' \in RaidRuns /\ run'.result = run.result /\ run'.seen \subseteq game.raided
  <2>1. CASE TheRaid!ReadStatus
    <3>1. PICK seen \in {game.raided, {}} : run' = [run EXCEPT !.seen = seen]
      BY <2>1 DEF TheRaid!ReadStatus
    <3>2. seen \in SUBSET Missions /\ seen \subseteq game.raided
      BY <1>1, <3>1
    <3>3. run' \in RaidRuns /\ run'.result = run.result /\ run'.seen = seen
      BY <1>1, <3>1, <3>2 DEF RaidRuns
    <3>. QED  BY <3>2, <3>3
  <2>2. CASE TheRaid!ItemRaid
    <3> DEFINE iterations == run.iterations + 1
    <3>1. run.iterations < MaxIterations /\ run' = [run EXCEPT !.iterations = iterations]
      BY <1>1, <2>2 DEF TheRaid!ItemRaid, RaidRuns
    <3>2. iterations \in 0..MaxIterations
      BY <1>1, <3>1, RaidsAssumption DEF RaidRuns
    <3> HIDE DEF iterations
    <3>. QED  BY <1>1, <3>1, <3>2 DEF RaidRuns
  <2>3. CASE TheRaid!Unauthorized
    <3>1. run' = [run EXCEPT !.raised = TRUE]
      BY <2>3 DEF TheRaid!Unauthorized
    <3>. QED  BY <1>1, <3>1 DEF RaidRuns
  <2>4. CASE ~TheRaid!ReadStatus /\ ~TheRaid!ItemRaid /\ ~TheRaid!Unauthorized
    <3>1. run' = run
      BY <2>4 DEF TheRaid!GoStraightToItems, TheRaid!RaidsDone,
                  TheRaid!Stones, TheRaid!ItemRaidEnds, TheRaid!GoShopping
    <3>. QED  BY <1>1, <3>1
  <2>. QED  BY <2>1, <2>2, <2>3, <2>4
<1>5. run'.seen \subseteq game'.raided
  BY <1>2, <1>4 DEF Onward
<1>. QED  BY <1>2, <1>3, <1>4, <1>5, TodayElse

LEMMA TodaySteps == ASSUME TodayInvariant, [Next]_vars PROVE TodayInvariant'
<1>. SUFFICES ASSUME command' = "raid" PROVE TodayInv'
  BY DEF TodayInvariant
<1>1. command = "raid" /\ TodayInv
  BY DEF TodayInvariant, Next, vars
<1>2. CASE TheRaid!Next
  BY <1>1, <1>2, TodayRaids, TodayShort, TodayMoves DEF TheRaid!Next
<1>3. CASE Next
  BY <1>1, <1>2, <1>3 DEF Next
<1>4. CASE UNCHANGED vars
  BY <1>1, <1>4 DEF vars, TodayInv
<1>. QED  BY <1>3, <1>4

LEMMA TodayAlways == Spec => []TodayInvariant
BY TodayInit, TodaySteps, PTL DEF Spec

LEMMA RaidIsTyped == ASSUME TodayInvariant, command = "raid" PROVE TheRaid!RaidsTypeOK
BY DEF TodayInvariant, TodayInv, TheRaid!RaidsTypeOK, Staminas, RaidRuns, Outcomes

LEMMA RaidIsReal == ASSUME TodayInvariant, command = "raid" PROVE TheRaid!ReportedRaidsAreReal
BY DEF TodayInvariant, TodayInv, TheRaid!ReportedRaidsAreReal, Reported

------------------------------------------------------------------------------
\* Quests: what is reported as claimed, what is left out, and what is done once a cycle.

QuestGames == [state : [TheQuests!AllQuests -> {"active", "claimable", "done"}],
               recipeToday : BOOLEAN, glyphToday : BOOLEAN, recipes : Nat, enchanted : Nat,
               lost : BOOLEAN, unguarded : SUBSET {"recipe", "glyph"}, reruns : 0..Reruns,
               others : 0..OtherRuns]

QuestRuns == [on : BOOLEAN, dry : BOOLEAN, claims : SUBSET TheQuests!AllQuests,
              after : {"target", "glyph"}, targets : SUBSET Daily, q : Daily, step : Nat,
              try : 0..Fallbacks, claimed : BOOLEAN, active : BOOLEAN, doneToday : BOOLEAN,
              inDaily : BOOLEAN, plan : SUBSET TheQuests!AllQuests,
              succeeded : SUBSET (TheQuests!AllQuests \union {"glyph"}),
              failures : SUBSET (TheQuests!AllQuests \union {"questGetAll", "guild", "glyph"}),
              undetected : SUBSET Daily, raised : BOOLEAN]

GameFields == {"state", "recipeToday", "glyphToday", "recipes", "enchanted", "lost", "unguarded",
               "reruns", "others"}

RunFields == {"on", "dry", "claims", "after", "targets", "q", "step", "try", "claimed", "active",
              "doneToday", "inDaily", "plan", "succeeded", "failures", "undetected", "raised"}

\* g, or the run, differs from what it was in the fields F at most.
But(g, h, F) == h \in QuestGames /\ \A f \in GameFields \ F : h[f] = g[f]

Only(F) == run' \in QuestRuns /\ \A f \in RunFields \ F : run'[f] = run[f]

QuestTyped == pc \in TheQuests!Phases /\ game \in QuestGames /\ run \in QuestRuns

\* What is done stays done.
Kept(g) == g \in QuestGames
           /\ \A q \in TheQuests!AllQuests : game.state[q] = "done" => g.state[q] = "done"

Within == {"step", "next", "farm"}

\* The run's lists: a target at hand is no longer in the list, and the list is empty when the
\* guild's turn comes.
Listed ==
    /\ pc = "fetch" => run.plan = {} /\ run.targets = {} /\ run.after = "target"
    /\ pc \in Within => run.q \notin run.targets
    /\ pc \in {"guild", "recipe", "refetch"} \/ run.after = "glyph" => run.targets = {}

\* What of the plan is still ahead of the run.
Pending == CASE pc = "claim" -> run.claims \union run.targets
             [] pc = "target" -> run.targets
             [] pc \in Within -> run.targets \union {run.q}
             [] OTHER -> {}

\* While nothing has failed, what was planned is done, given up with a reason, or still ahead.
Covered ==
    ~run.dry /\ run.failures = {} /\ ~run.raised =>
        /\ run.plan \subseteq run.succeeded \union run.undetected \union Excluded \union Pending
        /\ pc \in Within /\ run.claimed => run.q \in run.succeeded \union Excluded

\* The guard is up once the material is spent.
GlyphGuarded ==
    ~game.lost /\ "glyph" \notin game.unguarded /\ game.others = OtherRuns =>
        /\ game.enchanted <= 1
        /\ game.enchanted = 1 => game.glyphToday
        /\ pc = "enchant" => ~game.glyphToday

RecipeState == game.state[Recipe]

\* The recipe has ended in the daily phase and is about to be noted.
Ended == pc \in {"next", "farm"} /\ run.q = Recipe /\ run.step = Steps[Recipe]

\* The step that fulfils the quest is still to come.
Ahead == run.step < Reach[Recipe] \/ (pc = "step" /\ run.step = Reach[Recipe])

\* A recipe that was run to its end has fulfilled its quest on the way and is noted before
\* anything else is called; so neither the daily phase nor the guild's takes it up again.
RecipeGuarded ==
    ~game.lost /\ "recipe" \notin game.unguarded =>
        /\ game.recipes <= 1
        /\ game.recipes = 0 \/ (RecipeState # "active" /\ (game.recipeToday \/ Ended))
        /\ Recipe \in run.targets => RecipeState = "active"
        /\ TheQuests!GuildDue /\ (pc \in {"target", "guild", "recipe"} \union Within
                                    \/ (pc = "claim" /\ run.after = "target")) =>
              game.recipes = 0 \/ Ended
        /\ pc \in Within /\ run.q = Recipe =>
              /\ game.recipes = 0 \/ Ended
              /\ RecipeState = "active" <=> Ahead
              /\ pc = "farm" => run.step = Reach[Recipe]
              /\ ~Ahead /\ pc # "farm" => run.claimed
        /\ pc = "recipe" => TheQuests!GuildDue /\ (run.step > Reach[Recipe] => RecipeState # "active")

------------------------------------------------------------------------------
\* The game.

LEMMA RecipeFacts ==
  /\ Recipe \in Daily /\ Recipe \notin Guild /\ Recipe \notin Shop
  /\ Daily \subseteq TheQuests!AllQuests /\ Guild \subseteq TheQuests!AllQuests
  /\ \A q \in Daily : Steps[q] \in Nat \ {0} /\ Reach[q] \in Nat \ {0} /\ Reach[q] <= Steps[q]
  /\ Excluded \subseteq TheQuests!AllQuests
  /\ 0 \in 0..Fallbacks /\ 1 \in Nat
BY QuestsAssumption DEF TheQuests!AllQuests

LEMMA Doing ==
  ASSUME NEW g \in QuestGames, NEW q \in Daily, NEW j \in Nat
  PROVE  LET h == TheQuests!Did(g, q, j) IN
         /\ But(g, h, {"state", "recipes"})
         /\ \A x \in TheQuests!AllQuests \ {q} : h.state[x] = g.state[x]
         /\ h.state[q] = IF j = Reach[q] /\ g.state[q] = "active" THEN "claimable" ELSE g.state[q]
         /\ h.recipes = IF q = Recipe /\ j = Steps[q] THEN g.recipes + 1 ELSE g.recipes
<1> DEFINE h == TheQuests!Did(g, q, j)
           new == IF j = Reach[q] /\ g.state[q] = "active" THEN "claimable" ELSE g.state[q]
           state == [g.state EXCEPT ![q] = new]
           recipes == IF q = Recipe /\ j = Steps[q] THEN g.recipes + 1 ELSE g.recipes
<1>1. q \in TheQuests!AllQuests /\ g.state \in [TheQuests!AllQuests -> {"active", "claimable", "done"}]
      /\ g.recipes \in Nat
  BY RecipeFacts DEF QuestGames
<1>2. new \in {"active", "claimable", "done"} /\ recipes \in Nat
  BY <1>1
<1>3. h = [g EXCEPT !.state = state, !.recipes = recipes]
  BY <1>1 DEF TheQuests!Did, QuestGames
<1> HIDE DEF new
<1>4. /\ state \in [TheQuests!AllQuests -> {"active", "claimable", "done"}]
      /\ state[q] = new /\ \A x \in TheQuests!AllQuests \ {q} : state[x] = g.state[x]
  BY <1>1, <1>2
<1> HIDE DEF state, recipes
<1>5. h \in QuestGames /\ h.state = state /\ h.recipes = recipes
  <2>1. state \in [TheQuests!AllQuests -> {"active", "claimable", "done"}] /\ recipes \in Nat
    BY <1>2, <1>4
  <2> HIDE DEF h
  <2>2. h.state = state /\ h.recipes = recipes
    BY <1>3 DEF QuestGames
  <2>3. h \in QuestGames
    BY <1>3, <2>1 DEF QuestGames
  <2>. QED  BY <2>2, <2>3
<1>6. \A f \in GameFields \ {"state", "recipes"} : h[f] = g[f]
  BY <1>3 DEF QuestGames, GameFields
<1>. QED  BY <1>4, <1>5, <1>6 DEF But, new, recipes

LEMMA Farming ==
  ASSUME NEW g \in QuestGames, NEW q \in TheQuests!AllQuests
  PROVE  LET h == TheQuests!Farmed(g, q) IN
         /\ But(g, h, {"state"})
         /\ \A x \in TheQuests!AllQuests \ {q} : h.state[x] = g.state[x]
         /\ h.state[q] = IF g.state[q] = "claimable" THEN "done" ELSE g.state[q]
<1> DEFINE h == TheQuests!Farmed(g, q)
           new == IF g.state[q] = "claimable" THEN "done" ELSE g.state[q]
           state == [g.state EXCEPT ![q] = new]
<1>1. g.state \in [TheQuests!AllQuests -> {"active", "claimable", "done"}]
  BY DEF QuestGames
<1>2. new \in {"active", "claimable", "done"}
  BY <1>1
<1>3. h = [g EXCEPT !.state = state]
  BY <1>1 DEF TheQuests!Farmed, QuestGames
<1> HIDE DEF new
<1>4. /\ state \in [TheQuests!AllQuests -> {"active", "claimable", "done"}]
      /\ state[q] = new /\ \A x \in TheQuests!AllQuests \ {q} : state[x] = g.state[x]
  BY <1>1, <1>2
<1> HIDE DEF state
<1>5. But(g, h, {"state"}) /\ h.state = state
  BY <1>3, <1>4 DEF But, QuestGames, GameFields
<1>. QED  BY <1>4, <1>5 DEF new

LEMMA Enchanting ==
  ASSUME NEW g \in QuestGames
  PROVE  LET h == TheQuests!Enchanted(g) IN
         But(g, h, {"enchanted"}) /\ h.enchanted = g.enchanted + 1
<1> DEFINE h == TheQuests!Enchanted(g)
           enchanted == g.enchanted + 1
<1>1. enchanted \in Nat
  BY DEF QuestGames
<1>2. h = [g EXCEPT !.enchanted = enchanted]
  BY DEF TheQuests!Enchanted, QuestGames
<1> HIDE DEF enchanted
<1>3. But(g, h, {"enchanted"}) /\ h.enchanted = enchanted
  BY <1>1, <1>2 DEF But, QuestGames, GameFields
<1>. QED  BY <1>3 DEF enchanted

LEMMA Unguarding ==
  ASSUME NEW g \in QuestGames, NEW works \in SUBSET {"recipe", "glyph"}
  PROVE  LET h == TheQuests!Unguarded(g, works) IN
         But(g, h, {"unguarded"}) /\ h.unguarded = g.unguarded \union works
<1> DEFINE h == TheQuests!Unguarded(g, works)
           unguarded == g.unguarded \union works
<1>1. unguarded \in SUBSET {"recipe", "glyph"}
  BY DEF QuestGames
<1>2. h = [g EXCEPT !.unguarded = unguarded]
  BY DEF TheQuests!Unguarded
<1> HIDE DEF unguarded
<1>3. But(g, h, {"unguarded"}) /\ h.unguarded = unguarded
  BY <1>1, <1>2 DEF But, QuestGames, GameFields
<1>. QED  BY <1>3 DEF unguarded

\* Marked as lost, unless nothing was done.
LEMMA NotingLoss ==
  ASSUME game \in QuestGames, NEW g \in QuestGames
  PROVE  LET h == TheQuests!Noting(g) IN
         But(g, h, {"lost"}) /\ h.state = g.state /\ (~h.lost => h = game)
<1> DEFINE h == TheQuests!Noting(g)
           lost == g.lost \/ g # game
<1>1. lost \in BOOLEAN /\ h = [g EXCEPT !.lost = lost] /\ (~lost => g = game /\ g.lost = FALSE)
  BY DEF TheQuests!Noting, QuestGames
<1> HIDE DEF lost
<1>2. But(g, h, {"lost"}) /\ h.lost = lost /\ h.state = g.state
  BY <1>1 DEF But, QuestGames, GameFields
<1>3. ASSUME ~lost PROVE h = game
  BY <1>1, <1>3 DEF QuestGames
<1>. QED  BY <1>2, <1>3

------------------------------------------------------------------------------
\* What each step changes.

\* What was not heard of is marked, and is all that may have happened.
Unheard == /\ game' \in QuestGames /\ Kept(game')
           /\ ~game'.lost => game' = game

LEMMA KeptSelf == ASSUME game \in QuestGames PROVE Kept(game)
BY DEF Kept

LEMMA DoingKeeps ==
  ASSUME game \in QuestGames, NEW g, Kept(g), NEW q \in Daily, NEW j \in Nat
  PROVE  Kept(TheQuests!Did(g, q, j))
<1> DEFINE h == TheQuests!Did(g, q, j)
<1>1. g \in QuestGames
  BY DEF Kept
<1>2. /\ h \in QuestGames
      /\ \A x \in TheQuests!AllQuests \ {q} : h.state[x] = g.state[x]
      /\ h.state[q] = IF j = Reach[q] /\ g.state[q] = "active" THEN "claimable" ELSE g.state[q]
  BY <1>1, Doing DEF But
<1> HIDE DEF h
<1>3. \A x \in TheQuests!AllQuests : game.state[x] = "done" => h.state[x] = "done"
  <2>. SUFFICES ASSUME NEW x \in TheQuests!AllQuests, game.state[x] = "done"
                PROVE  h.state[x] = "done"
    OBVIOUS
  <2>1. g.state[x] = "done"
    BY DEF Kept
  <2>. QED  BY <1>2, <2>1
<1>. QED  BY <1>2, <1>3 DEF Kept, h

LEMMA FarmingKeeps ==
  ASSUME game \in QuestGames, NEW g, Kept(g), NEW q \in TheQuests!AllQuests
  PROVE  Kept(TheQuests!Farmed(g, q))
<1> DEFINE h == TheQuests!Farmed(g, q)
<1>1. g \in QuestGames
  BY DEF Kept
<1>2. /\ h \in QuestGames
      /\ \A x \in TheQuests!AllQuests \ {q} : h.state[x] = g.state[x]
      /\ h.state[q] = IF g.state[q] = "claimable" THEN "done" ELSE g.state[q]
  BY <1>1, Farming DEF But
<1> HIDE DEF h
<1>3. \A x \in TheQuests!AllQuests : game.state[x] = "done" => h.state[x] = "done"
  <2>. SUFFICES ASSUME NEW x \in TheQuests!AllQuests, game.state[x] = "done"
                PROVE  h.state[x] = "done"
    OBVIOUS
  <2>1. g.state[x] = "done"
    BY DEF Kept
  <2>. QED  BY <1>2, <2>1
<1>. QED  BY <1>2, <1>3 DEF Kept, h

LEMMA EnchantingKeeps ==
  ASSUME game \in QuestGames, NEW g, Kept(g) PROVE Kept(TheQuests!Enchanted(g))
<1> DEFINE h == TheQuests!Enchanted(g)
<1>1. g \in QuestGames
  BY DEF Kept
<1>2. But(g, h, {"enchanted"})
  BY <1>1, Enchanting
<1>3. h \in QuestGames /\ h.state = g.state
  BY <1>2 DEF But, GameFields
<1> HIDE DEF h
<1>. QED  BY <1>3 DEF Kept, h

\* Noting marks all that may have happened.
LEMMA NotingUnheard ==
  ASSUME game \in QuestGames, NEW g, Kept(g)
  PROVE  Kept(TheQuests!Noting(g)) /\ (game' = TheQuests!Noting(g) => Unheard)
<1> DEFINE h == TheQuests!Noting(g)
<1>1. g \in QuestGames
  BY DEF Kept
<1>2. But(g, h, {"lost"}) /\ h.state = g.state /\ (~h.lost => h = game)
  BY <1>1, NotingLoss
<1> HIDE DEF h
<1>3. Kept(h)
  BY <1>1, <1>2 DEF Kept, But
<1>4. game' = h => Unheard
  BY <1>2, <1>3 DEF Unheard, But
<1>. QED  BY <1>3, <1>4 DEF h

LEMMA SameUnheard == ASSUME game \in QuestGames, game' = game PROVE Unheard
BY KeptSelf DEF Unheard

\* The states that unheard attempts leave.
LEMMA StepsArrive ==
  ASSUME game \in QuestGames, NEW q \in Daily, NEW j \in Nat
  PROVE  /\ \A g \in TheQuests!Arrivals(LAMBDA x : TheQuests!Did(x, q, j), game) : Kept(g)
         /\ \A g \in TheQuests!Losses(LAMBDA x : TheQuests!Did(x, q, j), game) : Kept(g)
<1> DEFINE D(g) == TheQuests!Did(g, q, j)
<1>1. Kept(game)
  BY KeptSelf
<1>2. Kept(D(game))
  BY <1>1, DoingKeeps
<1>3. Kept(D(D(game)))
  BY <1>2, DoingKeeps
<1>4. \A g \in TheQuests!Arrivals(LAMBDA x : TheQuests!Did(x, q, j), game) : g = game \/ g = D(game)
  BY DEF TheQuests!Arrivals
<1>5. \A g \in TheQuests!Losses(LAMBDA x : TheQuests!Did(x, q, j), game) :
        g = game \/ g = D(game) \/ g = D(D(game))
  BY DEF TheQuests!Arrivals, TheQuests!Losses
<1>. QED  BY <1>1, <1>2, <1>3, <1>4, <1>5

LEMMA ClaimsArrive ==
  ASSUME game \in QuestGames, NEW q \in TheQuests!AllQuests
  PROVE  \A g \in TheQuests!Arrivals(LAMBDA x : TheQuests!Farmed(x, q), game)
                  \union TheQuests!Losses(LAMBDA x : TheQuests!Farmed(x, q), game) : Kept(g)
<1> DEFINE D(g) == TheQuests!Farmed(g, q)
<1>1. Kept(game)
  BY KeptSelf
<1>2. Kept(D(game))
  BY <1>1, FarmingKeeps
<1>3. Kept(D(D(game)))
  BY <1>2, FarmingKeeps
<1>. QED  BY <1>1, <1>2, <1>3 DEF TheQuests!Arrivals, TheQuests!Losses

LEMMA GlyphsArrive ==
  ASSUME game \in QuestGames
  PROVE  /\ \A g \in TheQuests!Arrivals(TheQuests!Enchanted, game) : Kept(g)
         /\ \A g \in TheQuests!Losses(TheQuests!Enchanted, game) : Kept(g)
<1>1. Kept(game)
  BY KeptSelf
<1>2. Kept(TheQuests!Enchanted(game))
  BY <1>1, EnchantingKeeps
<1>3. Kept(TheQuests!Enchanted(TheQuests!Enchanted(game)))
  BY <1>2, EnchantingKeeps
<1>. QED  BY <1>1, <1>2, <1>3 DEF TheQuests!Arrivals, TheQuests!Losses

------------------------------------------------------------------------------
\* The inductive invariant.

Real == \A q \in run.succeeded \ {"glyph"} : game.state[q] = "done"

QuestInv == QuestTyped /\ Real /\ Listed /\ Covered /\ GlyphGuarded /\ RecipeGuarded

QuestInvariant == command = "quests" => QuestInv

\* A run that starts.
LEMMA QuestStarts ==
  ASSUME NEW r \in TheQuests!Runs
  PROVE  /\ r \in QuestRuns /\ r.plan = {} /\ r.targets = {} /\ r.after = "target"
         /\ r.succeeded = {} /\ ~r.active
<1>1. PICK on \in BOOLEAN, dry \in BOOLEAN : r = TheQuests!Fresh(on, dry)
  BY DEF TheQuests!Runs
<1>. QED  BY <1>1, RecipeFacts DEF TheQuests!Fresh, QuestRuns

LEMMA QuestInit == Init => QuestInvariant
<1>. SUFFICES ASSUME Init, command = "quests" PROVE QuestInv
  BY DEF QuestInvariant
<1>1. TheQuests!Init
  BY DEF Init
<1>2. /\ game \in QuestGames /\ game.recipes = 0 /\ game.enchanted = 0
      /\ game.state \in [TheQuests!AllQuests -> {"active", "claimable"}]
  <2>1. Reruns \in 0..Reruns /\ OtherRuns \in 0..OtherRuns /\ 0 \in Nat
    BY QuestsAssumption
  <2>2. PICK state \in [TheQuests!AllQuests -> {"active", "claimable"}],
             recipeToday \in BOOLEAN, glyphToday \in BOOLEAN :
          game = [state |-> state, recipeToday |-> recipeToday, glyphToday |-> glyphToday,
                  recipes |-> 0, enchanted |-> 0, lost |-> FALSE, unguarded |-> {},
                  reruns |-> Reruns, others |-> OtherRuns]
    BY <1>1 DEF TheQuests!Init
  <2>3. state \in [TheQuests!AllQuests -> {"active", "claimable", "done"}]
    OBVIOUS
  <2>. QED  BY <2>1, <2>2, <2>3 DEF QuestGames
<1>3. /\ run \in QuestRuns /\ run.plan = {} /\ run.targets = {} /\ run.after = "target"
      /\ run.succeeded = {} /\ ~run.active
  BY <1>1, QuestStarts DEF TheQuests!Init
<1>4. pc = "fetch"
  BY <1>1 DEF TheQuests!Init
<1>5. QuestTyped /\ Real /\ Listed
  BY <1>2, <1>3, <1>4 DEF QuestTyped, TheQuests!Phases, Real, Listed, Within
<1>6. Covered /\ GlyphGuarded
  BY <1>2, <1>3, <1>4 DEF Covered, GlyphGuarded, Within
<1>7. RecipeGuarded
  BY <1>2, <1>3, <1>4 DEF RecipeGuarded, Within, TheQuests!GuildDue
<1>. QED  BY <1>5, <1>6, <1>7 DEF QuestInv

LEMMA QuestReruns == ASSUME QuestInv, TheQuests!Rerun PROVE QuestInv'
<1>1. /\ pc = "done" /\ pc' = "fetch" /\ game.reruns > 0
      /\ game' = [game EXCEPT !.reruns = game.reruns - 1]
      /\ game \in QuestGames
  BY DEF TheQuests!Rerun, QuestInv, QuestTyped, QuestGames
<1>2. But(game, game', {"reruns"})
  <2> DEFINE reruns == game.reruns - 1
  <2>1. reruns \in 0..Reruns
    BY <1>1, QuestsAssumption DEF QuestGames
  <2>2. game' = [game EXCEPT !.reruns = reruns]
    BY <1>1
  <2> HIDE DEF reruns
  <2>. QED  BY <1>1, <2>1, <2>2 DEF But, QuestGames, GameFields
<1>3. /\ run' \in QuestRuns /\ run'.plan = {} /\ run'.targets = {} /\ run'.after = "target"
      /\ run'.succeeded = {} /\ ~run'.active
  BY QuestStarts DEF TheQuests!Rerun
<1>4. QuestTyped' /\ Real' /\ Listed'
  BY <1>1, <1>2, <1>3 DEF QuestTyped, TheQuests!Phases, Real, Listed, Within, But
<1>5. Covered'
  BY <1>1, <1>3 DEF Covered, Within
<1>6. GlyphGuarded'
  BY <1>1, <1>2 DEF QuestInv, GlyphGuarded, But, GameFields
<1>7. RecipeGuarded'
  BY <1>1, <1>2, <1>3 DEF QuestInv, RecipeGuarded, RecipeState, Ended, Within,
                          TheQuests!GuildDue, But, GameFields
<1>. QED  BY <1>4, <1>5, <1>6, <1>7 DEF QuestInv

LEMMA GuildMovesOn ==
  ASSUME QuestInv, NEW q \in Guild, TheQuests!GuildAdvances(q) PROVE QuestInv'
<1>1. game \in QuestGames /\ run \in QuestRuns /\ pc' = pc /\ run' = run
      /\ game.state[q] = "active"
  BY DEF TheQuests!GuildAdvances, QuestInv, QuestTyped
<1>2. /\ But(game, game', {"state"}) /\ \A x \in TheQuests!AllQuests \ {q} : game'.state[x] = game.state[x]
  <2> DEFINE state == [game.state EXCEPT ![q] = "claimable"]
  <2>1. state \in [TheQuests!AllQuests -> {"active", "claimable", "done"}]
        /\ \A x \in TheQuests!AllQuests \ {q} : state[x] = game.state[x]
    BY <1>1, RecipeFacts DEF QuestGames
  <2>2. game' = [game EXCEPT !.state = state]
    BY <1>1 DEF TheQuests!GuildAdvances, QuestGames
  <2> HIDE DEF state
  <2>3. But(game, game', {"state"}) /\ game'.state = state
    BY <1>1, <2>1, <2>2 DEF But, QuestGames, GameFields
  <2>. QED  BY <2>1, <2>3
<1>3. QuestTyped' /\ Listed' /\ Covered' /\ GlyphGuarded'
  BY <1>1, <1>2 DEF QuestInv, QuestTyped, Listed, Covered, Pending, GlyphGuarded, But, GameFields
<1>4. Real'
  BY <1>1, <1>2 DEF QuestInv, Real, QuestRuns
<1>5. RecipeState' = RecipeState /\ Ended' = Ended /\ Ahead' = Ahead
  BY <1>1, <1>2, RecipeFacts DEF RecipeState, Ended, Ahead
<1>6. RecipeGuarded'
  <2>1. RecipeGuarded
    BY DEF QuestInv
  <2>. QED  BY <1>1, <1>2, <1>5, <2>1 DEF RecipeGuarded, TheQuests!GuildDue, But, GameFields
<1>. QED  BY <1>3, <1>4, <1>6 DEF QuestInv

LEMMA OthersRun == ASSUME QuestInv, TheQuests!OtherRun PROVE QuestInv'
<1>1. game \in QuestGames /\ game.others > 0 /\ pc' = pc /\ run' = run
  BY DEF TheQuests!OtherRun, QuestInv, QuestTyped
<1>2. But(game, game', {"enchanted", "others", "glyphToday"}) /\ game'.others # OtherRuns
  <2> DEFINE g == TheQuests!Enchanted(game)
             others == game.others - 1
  <2>1. But(game, g, {"enchanted"})
    BY <1>1, Enchanting
  <2>2. g.others = game.others /\ g \in QuestGames
    BY <2>1 DEF But, GameFields
  <2>3. others \in 0..OtherRuns /\ others # OtherRuns
    BY <1>1, QuestsAssumption DEF QuestGames
  <2>4. game' = [g EXCEPT !.others = others, !.glyphToday = TRUE]
    BY <2>2 DEF TheQuests!OtherRun, QuestGames
  <2> HIDE DEF g, others
  <2>5. But(g, game', {"others", "glyphToday"}) /\ game'.others = others
    BY <2>2, <2>3, <2>4 DEF But, QuestGames, GameFields
  <2>. QED  BY <2>1, <2>3, <2>5 DEF But
<1>3. game'.state = game.state /\ game'.lost = game.lost /\ game'.unguarded = game.unguarded
      /\ game'.recipes = game.recipes /\ game'.recipeToday = game.recipeToday
      /\ game' \in QuestGames
  BY <1>2 DEF But, GameFields
<1>4. QuestTyped' /\ Listed' /\ Covered' /\ Real' /\ GlyphGuarded'
  BY <1>1, <1>2, <1>3 DEF QuestInv, QuestTyped, Listed, Covered, Pending, Real, GlyphGuarded
<1>5. RecipeState' = RecipeState /\ Ended' = Ended /\ Ahead' = Ahead
  BY <1>1, <1>3 DEF RecipeState, Ended, Ahead
<1>6. RecipeGuarded'
  <2>1. RecipeGuarded
    BY DEF QuestInv
  <2>. QED  BY <1>1, <1>3, <1>5, <2>1 DEF RecipeGuarded, TheQuests!GuildDue
<1>. QED  BY <1>4, <1>6 DEF QuestInv

------------------------------------------------------------------------------
\* Steps that end the command.

LEMMA QuestEnds ==
  ASSUME QuestInv, Kept(game'), GlyphGuarded', RecipeGuarded',
         run' \in QuestRuns, run'.plan = run.plan, run'.targets = run.targets,
         run'.after = run.after, run'.succeeded = run.succeeded,
         pc' = "done", run'.failures # {} \/ run'.raised \/ run.plan = {}
  PROVE  QuestInv'
<1>1. QuestTyped' /\ Listed'
  BY DEF QuestInv, QuestTyped, Listed, TheQuests!Phases, Within, Kept
<1>2. Real'
  BY DEF QuestInv, QuestTyped, Real, Kept, QuestRuns
<1>3. Covered'
  BY DEF Covered, Within
<1>. QED  BY <1>1, <1>2, <1>3 DEF QuestInv

\* By a failure.
LEMMA QuestFails ==
  ASSUME QuestInv, Unheard, ~Ended,
         run' \in QuestRuns, run'.plan = run.plan, run'.targets = run.targets,
         run'.after = run.after, run'.succeeded = run.succeeded,
         pc' = "done", run'.failures # {} \/ run'.raised \/ run.plan = {}
  PROVE  QuestInv'
<1>1. game' \in QuestGames /\ Kept(game') /\ (~game'.lost => game' = game)
  BY DEF Unheard
<1>2. GlyphGuarded'
  BY <1>1 DEF QuestInv, GlyphGuarded
<1>3. RecipeGuarded'
  <2>1. CASE game'.lost
    BY <2>1 DEF RecipeGuarded
  <2>2. CASE ~game'.lost
    <3>1. RecipeGuarded /\ game' = game
      BY <1>1, <2>2 DEF QuestInv
    <3>2. RecipeState' = RecipeState
      BY <3>1 DEF RecipeState
    <3>. QED  BY <3>1, <3>2 DEF RecipeGuarded, Within
  <2>. QED  BY <2>1, <2>2
<1>. QED  BY <1>1, <1>2, <1>3, QuestEnds

\* With work done and not written down.
LEMMA NoteLost ==
  ASSUME QuestInv, NEW work \in {"recipe", "glyph"}, NEW after, Kept(after),
         TheQuests!WriteFails(after, work),
         ~after.lost =>
            /\ ~game.lost /\ after.unguarded = game.unguarded /\ after.others = game.others
            /\ work = "recipe" => /\ after.enchanted = game.enchanted
                                  /\ after.glyphToday = game.glyphToday
            /\ work = "glyph" => /\ after.state = game.state /\ after.recipes = game.recipes
                                 /\ after.recipeToday = game.recipeToday /\ ~Ended
  PROVE  QuestInv'
<1>1. /\ run \in QuestRuns /\ game' = TheQuests!Unguarded(after, {work}) /\ pc' = "done"
      /\ run' = [run EXCEPT !.raised = TRUE] /\ after \in QuestGames
  BY DEF TheQuests!WriteFails, TheQuests!Goto, QuestInv, QuestTyped, Kept
<1>2. But(after, game', {"unguarded"}) /\ game'.unguarded = after.unguarded \union {work}
  BY <1>1, Unguarding
<1>3. /\ game' \in QuestGames /\ game'.state = after.state /\ game'.recipes = after.recipes
      /\ game'.recipeToday = after.recipeToday /\ game'.lost = after.lost
      /\ game'.others = after.others /\ game'.enchanted = after.enchanted
      /\ game'.glyphToday = after.glyphToday
  BY <1>2 DEF But, GameFields
<1>4. Kept(game')
  BY <1>3 DEF Kept
<1>5. /\ run' \in QuestRuns /\ run'.plan = run.plan /\ run'.targets = run.targets
      /\ run'.after = run.after /\ run'.succeeded = run.succeeded /\ run'.raised
  BY <1>1 DEF QuestRuns
<1>6. GlyphGuarded'
  BY <1>1, <1>2, <1>3 DEF QuestInv, GlyphGuarded
<1>7. RecipeGuarded'
  <2>1. CASE work = "recipe" \/ game'.lost
    BY <1>2, <2>1 DEF RecipeGuarded
  <2>2. CASE work = "glyph" /\ ~game'.lost
    <3>1. RecipeGuarded /\ RecipeState' = RecipeState /\ ~Ended
      BY <1>3, <2>2 DEF QuestInv, RecipeState
    <3>. QED  BY <1>1, <1>2, <1>3, <1>5, <2>2, <3>1 DEF RecipeGuarded, Within
  <2>. QED  BY <2>1, <2>2
<1>. QED  BY <1>1, <1>4, <1>5, <1>6, <1>7, QuestEnds

LEMMA FailureMarked ==
  ASSUME run \in QuestRuns, NEW q \in TheQuests!AllQuests \union {"questGetAll", "guild", "glyph"},
         run' = [run EXCEPT !.failures = run.failures \union {q}]
  PROVE  Only({"failures"}) /\ run'.failures # {}
<1> DEFINE failures == run.failures \union {q}
<1>1. failures \in SUBSET (TheQuests!AllQuests \union {"questGetAll", "guild", "glyph"})
      /\ failures # {}
  BY DEF QuestRuns
<1>2. run' = [run EXCEPT !.failures = failures]
  OBVIOUS
<1> HIDE DEF failures
<1>. QED  BY <1>1, <1>2 DEF Only, QuestRuns, RunFields

LEMMA ListFails == ASSUME QuestInv, TheQuests!FetchFails PROVE QuestInv'
<1>1. /\ game \in QuestGames /\ run \in QuestRuns /\ game' = game /\ pc = "fetch" /\ pc' = "done"
      /\ run.plan = {}
  BY DEF QuestInv, QuestTyped, Listed, TheQuests!FetchFails, TheQuests!Goto
<1>2. Unheard
  BY <1>1, SameUnheard
<1>3. PICK failures \in {{"questGetAll"}, run.failures} : run' = [run EXCEPT !.failures = failures]
  BY DEF TheQuests!FetchFails, TheQuests!Goto
<1>4. failures \in SUBSET (TheQuests!AllQuests \union {"questGetAll", "guild", "glyph"})
  BY <1>1, <1>3 DEF QuestRuns
<1>5. run' \in QuestRuns /\ run'.plan = run.plan /\ run'.targets = run.targets
      /\ run'.after = run.after /\ run'.succeeded = run.succeeded
  BY <1>1, <1>3, <1>4 DEF QuestRuns
<1>6. ~Ended
  BY <1>1 DEF Ended
<1>. QED  BY <1>1, <1>2, <1>5, <1>6, QuestFails

LEMMA GlyphGivesUp ==
  ASSUME QuestInv, TheQuests!GlyphFails \/ TheQuests!EnchantFails PROVE QuestInv'
<1>1. game \in QuestGames /\ run \in QuestRuns /\ pc \in {"glyph", "enchant"} /\ pc' = "done"
      /\ run' = [run EXCEPT !.failures = run.failures \union {"glyph"}]
  BY DEF QuestInv, QuestTyped, TheQuests!GlyphFails, TheQuests!EnchantFails, TheQuests!Goto
<1>2. Unheard
  <2>1. CASE TheQuests!GlyphFails
    BY <1>1, <2>1, SameUnheard DEF TheQuests!GlyphFails
  <2>2. CASE TheQuests!EnchantFails
    <3>1. PICK g \in {game} \union TheQuests!Losses(TheQuests!Enchanted, game) :
            game' = TheQuests!Noting(g)
      BY <2>2 DEF TheQuests!EnchantFails
    <3>2. Kept(g)
      BY <1>1, KeptSelf, GlyphsArrive
    <3>. QED  BY <1>1, <3>1, <3>2, NotingUnheard
  <2>. QED  BY <2>1, <2>2
<1>3. Only({"failures"}) /\ run'.failures # {}
  BY <1>1, FailureMarked
<1>4. run' \in QuestRuns /\ run'.plan = run.plan /\ run'.targets = run.targets
      /\ run'.after = run.after /\ run'.succeeded = run.succeeded
  BY <1>3 DEF Only, RunFields
<1>5. ~Ended
  BY <1>1 DEF Ended
<1>. QED  BY <1>1, <1>2, <1>3, <1>4, <1>5, QuestFails

LEMMA AuthEnds ==
  ASSUME QuestInv, NEW phase \in {"fetch", "claim", "farm", "refetch", "glyph", "enchant"},
         TheQuests!Raises(phase)
  PROVE  QuestInv'
<1>1. game \in QuestGames /\ run \in QuestRuns /\ pc = phase /\ pc' = "done"
      /\ run' = [run EXCEPT !.raised = TRUE]
  BY DEF QuestInv, QuestTyped, TheQuests!Raises, TheQuests!Goto
<1>2. /\ run' \in QuestRuns /\ run'.plan = run.plan /\ run'.targets = run.targets
      /\ run'.after = run.after /\ run'.succeeded = run.succeeded /\ run'.raised
  BY <1>1 DEF QuestRuns
<1> DEFINE works == IF phase = "farm" /\ run.q = Recipe /\ run.step = Steps[Recipe]
                    THEN {"recipe"} ELSE {}
<1>3. works \in SUBSET {"recipe", "glyph"} /\ (Ended => works = {"recipe"}) /\ "glyph" \notin works
  BY <1>1 DEF Ended
<1>4. PICK g : Kept(g) /\ game' = TheQuests!Unguarded(TheQuests!Noting(g), works)
  <2>1. CASE game' = TheQuests!Unguarded(TheQuests!Noting(game), works)
    BY <1>1, <2>1, KeptSelf
  <2>2. ASSUME NEW q \in TheQuests!AllQuests,
               NEW g \in TheQuests!Arrivals(LAMBDA x : TheQuests!Farmed(x, q), game),
               game' = TheQuests!Unguarded(TheQuests!Noting(g), works)
        PROVE  \E h : Kept(h) /\ game' = TheQuests!Unguarded(TheQuests!Noting(h), works)
    <3>1. Kept(g)
      BY <1>1, ClaimsArrive
    <3>. QED  BY <2>2, <3>1
  <2>3. ASSUME NEW g \in TheQuests!Arrivals(TheQuests!Enchanted, game),
               game' = TheQuests!Unguarded(TheQuests!Noting(g), works)
        PROVE  \E h : Kept(h) /\ game' = TheQuests!Unguarded(TheQuests!Noting(h), works)
    <3>1. Kept(g)
      BY <1>1, GlyphsArrive
    <3>. QED  BY <2>3, <3>1
  <2>. QED  BY <2>1, <2>2, <2>3 DEF TheQuests!Raises
<1> DEFINE noted == TheQuests!Noting(g)
<1>5. Kept(noted) /\ noted \in QuestGames /\ (~noted.lost => noted = game)
  BY <1>1, <1>4, NotingLoss, NotingUnheard DEF Kept
<1>6. game' = TheQuests!Unguarded(noted, works)
  BY <1>4
<1> HIDE DEF works, noted
<1>7. But(noted, game', {"unguarded"}) /\ game'.unguarded = noted.unguarded \union works
  BY <1>3, <1>5, <1>6, Unguarding
<1>8. /\ game' \in QuestGames /\ game'.state = noted.state /\ game'.recipes = noted.recipes
      /\ game'.recipeToday = noted.recipeToday /\ game'.lost = noted.lost
      /\ game'.others = noted.others /\ game'.enchanted = noted.enchanted
      /\ game'.glyphToday = noted.glyphToday
  BY <1>7 DEF But, GameFields
<1>9. Kept(game')
  BY <1>5, <1>8 DEF Kept
<1>10. GlyphGuarded'
  BY <1>1, <1>3, <1>5, <1>7, <1>8 DEF QuestInv, GlyphGuarded
<1>11. RecipeGuarded'
  <2>1. CASE Ended \/ game'.lost
    BY <1>3, <1>7, <2>1 DEF RecipeGuarded
  <2>2. CASE ~Ended /\ ~game'.lost
    <3>1. RecipeGuarded /\ RecipeState' = RecipeState /\ noted = game
      BY <1>5, <1>8, <2>2 DEF QuestInv, RecipeState
    <3>. QED  BY <1>1, <1>2, <1>7, <1>8, <2>2, <3>1 DEF RecipeGuarded, Within
  <2>. QED  BY <2>1, <2>2
<1>. QED  BY <1>1, <1>2, <1>9, <1>10, <1>11, QuestEnds

------------------------------------------------------------------------------
\* Steps that leave the game alone.

LEMMA QuestSame ==
  ASSUME QuestInv, game' = game, run' \in QuestRuns, pc' \in TheQuests!Phases,
         run'.succeeded = run.succeeded
  PROVE  QuestTyped' /\ Real' /\ (pc' # "enchant" => GlyphGuarded')
<1>1. QuestTyped' /\ Real'
  BY DEF QuestInv, QuestTyped, Real
<1>2. pc' # "enchant" => GlyphGuarded'
  BY DEF QuestInv, GlyphGuarded
<1>. QED  BY <1>1, <1>2

LEMMA GlyphTurns ==
  ASSUME QuestInv, TheQuests!GlyphSkipped \/ TheQuests!GlyphDue PROVE QuestInv'
<1>1. PICK works \in SUBSET {"recipe", "glyph"} :
        /\ game' = TheQuests!Unguarded(game, works) /\ "recipe" \notin works
        /\ pc' = "enchant" /\ "glyph" \notin works => ~game.glyphToday
        /\ run' = run /\ run \in QuestRuns /\ game \in QuestGames
        /\ pc = "glyph" /\ pc' \in {"done", "enchant"}
  <2>1. run \in QuestRuns /\ game \in QuestGames
    BY DEF QuestInv, QuestTyped
  <2>2. CASE TheQuests!GlyphSkipped
    <3>1. game' = TheQuests!Unguarded(game, {})
      BY <2>1, <2>2 DEF TheQuests!GlyphSkipped, TheQuests!Unguarded, QuestGames
    <3>. QED  BY <2>1, <2>2, <3>1 DEF TheQuests!GlyphSkipped, TheQuests!Goto
  <2>3. CASE TheQuests!GlyphDue
    <3>1. PICK blind \in BOOLEAN :
            /\ ~TheQuests!GlyphRanToday(blind)
            /\ game' = TheQuests!Unguarded(game, IF blind THEN {"glyph"} ELSE {})
      BY <2>3 DEF TheQuests!GlyphDue, TheQuests!Blinds
    <3>2. pc = "glyph" /\ pc' = "enchant" /\ run' = run
      BY <2>3 DEF TheQuests!GlyphDue, TheQuests!Goto
    <3>3. CASE blind
      BY <2>1, <3>1, <3>2, <3>3
    <3>4. CASE ~blind
      BY <2>1, <3>1, <3>2, <3>4 DEF TheQuests!GlyphRanToday
    <3>. QED  BY <3>3, <3>4
  <2>. QED  BY <2>2, <2>3
<1>2. But(game, game', {"unguarded"}) /\ game'.unguarded = game.unguarded \union works
  BY <1>1, Unguarding
<1>3. /\ game' \in QuestGames /\ game'.state = game.state /\ game'.recipes = game.recipes
      /\ game'.recipeToday = game.recipeToday /\ game'.lost = game.lost
      /\ game'.others = game.others /\ game'.enchanted = game.enchanted
      /\ game'.glyphToday = game.glyphToday
  BY <1>2 DEF But, GameFields
<1>4. QuestTyped' /\ Real' /\ Listed' /\ Covered'
  BY <1>1, <1>3 DEF QuestInv, QuestTyped, Real, Listed, Covered, Pending, Within, TheQuests!Phases
<1>5. GlyphGuarded'
  BY <1>1, <1>2, <1>3 DEF QuestInv, GlyphGuarded
<1>6. RecipeGuarded'
  BY <1>1, <1>2, <1>3 DEF QuestInv, RecipeGuarded, RecipeState, Ended, Within
<1>. QED  BY <1>4, <1>5, <1>6 DEF QuestInv

\* Everything that was to be claimed, or carried out, has had its turn.
LEMMA QuestPhases ==
  ASSUME QuestInv, TheQuests!ClaimsDone \/ TheQuests!TargetsDone \/ TheQuests!GuildSkipped
  PROVE  QuestInv'
<1>1. /\ game' = game /\ run' = run /\ run \in QuestRuns
      /\ \/ pc = "claim" /\ run.claims = {} /\ pc' = run.after
         \/ pc = "target" /\ run.targets = {} /\ pc' = "guild"
         \/ pc = "guild" /\ pc' = "glyph"
  BY DEF QuestInv, QuestTyped, TheQuests!ClaimsDone, TheQuests!TargetsDone,
         TheQuests!GuildSkipped, TheQuests!Goto
<1>2. run.after \in {"target", "glyph"}
  BY <1>1 DEF QuestRuns
<1>3. QuestTyped' /\ Real' /\ GlyphGuarded'
  BY <1>1, <1>2, QuestSame DEF TheQuests!Phases
<1>4. Listed'
  BY <1>1, <1>2 DEF QuestInv, Listed, Within
<1>5. Covered'
  <2>1. Listed /\ Covered
    BY DEF QuestInv
  <2>. QED  BY <1>1, <1>2, <2>1 DEF Covered, Listed, Pending, Within
<1>6. RecipeGuarded'
  <2>1. RecipeGuarded
    BY DEF QuestInv
  <2>. QED  BY <1>1, <1>2, <2>1 DEF RecipeGuarded, RecipeState, Ended, Within, TheQuests!GuildDue
<1>. QED  BY <1>3, <1>4, <1>5, <1>6 DEF QuestInv

LEMMA QuestTarget ==
  ASSUME QuestInv, NEW q \in Daily, TheQuests!Target(q) PROVE QuestInv'
<1>1. PICK first \in TheQuests!FirstSteps(q) :
        /\ pc = "target" /\ q \in run.targets /\ game' = game /\ pc' = "step" /\ run \in QuestRuns
        /\ run' = [run EXCEPT !.targets = run.targets \ {q}, !.q = q, !.step = first, !.try = 0,
                              !.claimed = FALSE]
  BY DEF TheQuests!Target, TheQuests!Goto, QuestInv, QuestTyped
<1>2. first \in Nat /\ (q = Recipe => first = 1)
  BY RecipeFacts DEF TheQuests!FirstSteps
<1> DEFINE targets == run.targets \ {q}
<1>3. targets \in SUBSET Daily /\ q \notin targets /\ run.targets = targets \union {q}
  BY <1>1 DEF QuestRuns
<1>4. run' = [run EXCEPT !.targets = targets, !.q = q, !.step = first, !.try = 0, !.claimed = FALSE]
  BY <1>1
<1> HIDE DEF targets
<1>5. /\ Only({"targets", "q", "step", "try", "claimed"})
      /\ run'.targets = targets /\ run'.q = q /\ run'.step = first /\ ~run'.claimed
  <2>1. run \in QuestRuns /\ 0 \in 0..Fallbacks /\ targets \in SUBSET Daily /\ first \in Nat
    BY <1>1, <1>2, <1>3, RecipeFacts
  <2>2. run' \in QuestRuns
    BY <1>4, <2>1 DEF QuestRuns
  <2>3. \A f \in RunFields \ {"targets", "q", "step", "try", "claimed"} : run'[f] = run[f]
    BY <1>4, <2>1 DEF QuestRuns, RunFields
  <2>4. run'.targets = targets /\ run'.q = q /\ run'.step = first /\ ~run'.claimed
    BY <1>4, <2>1 DEF QuestRuns
  <2>. QED  BY <2>2, <2>3, <2>4 DEF Only
<1>6. run' \in QuestRuns /\ run'.succeeded = run.succeeded /\ run'.plan = run.plan
      /\ run'.after = run.after /\ run'.undetected = run.undetected /\ run'.dry = run.dry
      /\ run'.failures = run.failures /\ run'.raised = run.raised /\ run'.active = run.active
      /\ run'.inDaily = run.inDaily /\ run'.doneToday = run.doneToday
  BY <1>5 DEF Only, RunFields
<1>7. QuestTyped' /\ Real' /\ GlyphGuarded'
  BY <1>1, <1>6, QuestSame DEF TheQuests!Phases
<1>8. Listed'
  BY <1>1, <1>3, <1>5, <1>6 DEF QuestInv, Listed, Within
<1>9. Covered'
  <2>1. Covered
    BY DEF QuestInv
  <2>. QED  BY <1>1, <1>3, <1>5, <1>6, <2>1 DEF Covered, Pending, Within
<1>10. RecipeGuarded'
  <2>1. RecipeGuarded
    BY DEF QuestInv
  <2>2. Recipe \in run'.targets => Recipe \in run.targets
    BY <1>3, <1>5
  <2>3. Reach[Recipe] \in Nat \ {0}
    BY RecipeFacts
  <2>4. q = Recipe => Ahead'
    BY <1>1, <1>2, <1>5, <2>3 DEF Ahead
  <2>5. RecipeState' = RecipeState /\ ~Ended' /\ ~Ended
    BY <1>1 DEF RecipeState, Ended
  <2>. QED  BY <1>1, <1>5, <1>6, <2>1, <2>2, <2>4, <2>5 DEF RecipeGuarded, Within, TheQuests!GuildDue
<1>. QED  BY <1>7, <1>8, <1>9, <1>10 DEF QuestInv

LEMMA GuildBegins == ASSUME QuestInv, TheQuests!GuildStarts PROVE QuestInv'
<1>1. /\ pc = "guild" /\ TheQuests!GuildDue /\ game' = game /\ pc' = "recipe" /\ run \in QuestRuns
      /\ run' = [run EXCEPT !.step = 1]
  BY DEF TheQuests!GuildStarts, TheQuests!Goto, QuestInv, QuestTyped
<1>2. Only({"step"}) /\ run'.step = 1
  BY <1>1 DEF Only, QuestRuns, RunFields
<1>3. run' \in QuestRuns /\ run'.succeeded = run.succeeded /\ run'.plan = run.plan
      /\ run'.after = run.after /\ run'.undetected = run.undetected /\ run'.dry = run.dry
      /\ run'.failures = run.failures /\ run'.raised = run.raised /\ run'.active = run.active
      /\ run'.inDaily = run.inDaily /\ run'.doneToday = run.doneToday /\ run'.targets = run.targets
  BY <1>2 DEF Only, RunFields
<1>4. QuestTyped' /\ Real' /\ GlyphGuarded'
  BY <1>1, <1>3, QuestSame DEF TheQuests!Phases
<1>5. Listed' /\ Covered'
  BY <1>1, <1>3 DEF QuestInv, Listed, Covered, Pending, Within
<1>6. RecipeGuarded'
  <2>1. RecipeGuarded
    BY DEF QuestInv
  <2>2. ~(run'.step > Reach[Recipe])
    BY <1>2, RecipeFacts
  <2>3. RecipeState' = RecipeState /\ ~Ended' /\ ~Ended
    BY <1>1 DEF RecipeState, Ended
  <2>. QED  BY <1>1, <1>3, <2>1, <2>2, <2>3 DEF RecipeGuarded, Within, TheQuests!GuildDue
<1>. QED  BY <1>4, <1>5, <1>6 DEF QuestInv

LEMMA GuildLooks ==
  ASSUME QuestInv, TheQuests!Refetch \/ TheQuests!RefetchFails PROVE QuestInv'
<1>1. /\ pc = "refetch" /\ game' = game /\ run \in QuestRuns /\ run.targets = {} /\ game \in QuestGames
  BY DEF TheQuests!Refetch, TheQuests!RefetchFails, QuestInv, QuestTyped, Listed
<1>2. RecipeGuarded /\ RecipeState' = RecipeState /\ ~Ended
  BY <1>1 DEF QuestInv, RecipeState, Ended
<1>3. CASE TheQuests!Refetch
  <2> DEFINE reached == TheQuests!ToClaim(Guild)
             plan == run.plan \union reached
  <2>1. pc' = "claim" /\ run' = [run EXCEPT !.claims = reached, !.plan = plan, !.after = "glyph"]
    BY <1>3 DEF TheQuests!Refetch, TheQuests!Goto
  <2>2. reached \in SUBSET TheQuests!AllQuests /\ plan \in SUBSET TheQuests!AllQuests
        /\ plan = run.plan \union reached
    BY <1>1, RecipeFacts DEF TheQuests!ToClaim, TheQuests!InState, QuestRuns
  <2> HIDE DEF reached, plan
  <2>3. /\ Only({"claims", "plan", "after"}) /\ run'.claims = reached /\ run'.plan = plan
        /\ run'.after = "glyph"
    BY <1>1, <2>1, <2>2 DEF Only, QuestRuns, RunFields
  <2>4. run' \in QuestRuns /\ run'.succeeded = run.succeeded
        /\ run'.undetected = run.undetected /\ run'.dry = run.dry
        /\ run'.failures = run.failures /\ run'.raised = run.raised /\ run'.targets = run.targets
    BY <2>3 DEF Only, RunFields
  <2>5. QuestTyped' /\ Real' /\ GlyphGuarded'
    BY <1>1, <2>1, <2>4, QuestSame DEF TheQuests!Phases
  <2>6. Listed' /\ Covered'
    BY <1>1, <2>1, <2>2, <2>3, <2>4 DEF QuestInv, Listed, Covered, Pending, Within
  <2>7. RecipeGuarded'
    BY <1>1, <1>2, <2>1, <2>3, <2>4 DEF RecipeGuarded, Within
  <2>. QED  BY <2>5, <2>6, <2>7 DEF QuestInv
<1>4. CASE TheQuests!RefetchFails
  <2>1. pc' = "glyph" /\ run' = [run EXCEPT !.failures = run.failures \union {"guild"}]
    BY <1>4 DEF TheQuests!RefetchFails, TheQuests!Goto
  <2>2. Only({"failures"}) /\ run'.failures # {}
    BY <1>1, <2>1, FailureMarked
  <2>3. run' \in QuestRuns /\ run'.succeeded = run.succeeded /\ run'.targets = run.targets
    BY <2>2 DEF Only, RunFields
  <2>4. QuestTyped' /\ Real' /\ GlyphGuarded'
    BY <1>1, <2>1, <2>3, QuestSame DEF TheQuests!Phases
  <2>5. Listed' /\ Covered'
    BY <1>1, <2>1, <2>2, <2>3 DEF Listed, Covered, Within
  <2>6. RecipeGuarded'
    BY <1>1, <1>2, <2>1, <2>3 DEF RecipeGuarded, Within
  <2>. QED  BY <2>4, <2>5, <2>6 DEF QuestInv
<1>. QED  BY <1>3, <1>4

\* The last step of a target is followed by the next target, and by the recipe's note.
LEMMA QuestNextStep == ASSUME QuestInv, TheQuests!NextStep PROVE QuestInv'
<1>1. pc = "next" /\ run \in QuestRuns /\ game \in QuestGames /\ run.q \in Daily /\ run.step \in Nat
      /\ Covered /\ RecipeGuarded /\ Listed
  BY DEF TheQuests!NextStep, QuestInv, QuestTyped, QuestRuns
<1>2. CASE run.claimed /\ run.q # Recipe
  <2>1. pc' = "target" /\ run' = run /\ game' = game
    BY <1>2 DEF TheQuests!NextStep, TheQuests!Goto
  <2>2. QuestTyped' /\ Real' /\ GlyphGuarded'
    BY <1>1, <2>1, QuestSame DEF TheQuests!Phases
  <2>3. Listed' /\ Covered'
    BY <1>1, <1>2, <2>1 DEF Listed, Covered, Pending, Within
  <2>4. RecipeGuarded'
    BY <1>1, <1>2, <2>1 DEF RecipeGuarded, RecipeState, Ended, Within, TheQuests!GuildDue
  <2>. QED  BY <2>2, <2>3, <2>4 DEF QuestInv
<1>3. CASE (~run.claimed \/ run.q = Recipe) /\ run.step < Steps[run.q]
  <2> DEFINE step == run.step + 1
  <2>1. pc' = "step" /\ game' = game /\ run' = [run EXCEPT !.step = step, !.try = 0]
    BY <1>1, <1>3, RecipeFacts DEF TheQuests!NextStep, TheQuests!Goto
  <2>2. step \in Nat /\ step = run.step + 1
    BY <1>1
  <2> HIDE DEF step
  <2>3. Only({"step", "try"}) /\ run'.step = step
    BY <1>1, <2>1, <2>2, RecipeFacts DEF Only, QuestRuns, RunFields
  <2>4. run' \in QuestRuns /\ run'.succeeded = run.succeeded /\ run'.plan = run.plan
        /\ run'.after = run.after /\ run'.undetected = run.undetected /\ run'.dry = run.dry
        /\ run'.failures = run.failures /\ run'.raised = run.raised /\ run'.active = run.active
        /\ run'.inDaily = run.inDaily /\ run'.doneToday = run.doneToday
        /\ run'.targets = run.targets /\ run'.q = run.q /\ run'.claimed = run.claimed
    BY <2>3 DEF Only, RunFields
  <2>5. QuestTyped' /\ Real' /\ GlyphGuarded'
    BY <1>1, <2>1, <2>4, QuestSame DEF TheQuests!Phases
  <2>6. Listed' /\ Covered'
    BY <1>1, <2>1, <2>4 DEF Listed, Covered, Pending, Within
  <2>7. RecipeState' = RecipeState /\ (run.q = Recipe => ~Ended) /\ ~Ended' /\ (Ahead' <=> Ahead)
    BY <1>1, <1>3, <2>1, <2>2, <2>3, RecipeFacts DEF RecipeState, Ended, Ahead
  <2>8. ~Ended
    BY <2>7 DEF Ended
  <2>9. RecipeGuarded'
    BY <1>1, <2>1, <2>4, <2>7, <2>8 DEF RecipeGuarded, Within, TheQuests!GuildDue
  <2>. QED  BY <2>5, <2>6, <2>9 DEF QuestInv
<1>4. CASE run.q = Recipe /\ run.step = Steps[Recipe] /\ TheQuests!WriteFails(game, "recipe")
  BY <1>1, <1>4, KeptSelf, NoteLost
<1>5. CASE /\ ~run.claimed \/ run.q = Recipe
           /\ run.step = Steps[run.q] /\ ~(run.q = Recipe /\ TheQuests!WriteFails(game, "recipe"))
  <2> DEFINE inDaily == run.inDaily \/ run.q = Recipe
             undetected == IF run.claimed THEN run.undetected ELSE run.undetected \union {run.q}
             recipeToday == game.recipeToday \/ run.q = Recipe
  <2>1. /\ pc' = "target" /\ run' = [run EXCEPT !.inDaily = inDaily, !.undetected = undetected]
        /\ game' = [game EXCEPT !.recipeToday = recipeToday]
    BY <1>1, <1>5, RecipeFacts DEF TheQuests!NextStep, TheQuests!Goto
  <2>2. /\ inDaily \in BOOLEAN /\ (inDaily <=> run.inDaily \/ run.q = Recipe)
        /\ undetected \in SUBSET Daily /\ run.undetected \subseteq undetected
        /\ run.claimed \/ run.q \in undetected
        /\ recipeToday \in BOOLEAN /\ (recipeToday <=> game.recipeToday \/ run.q = Recipe)
    BY <1>1 DEF QuestRuns, QuestGames
  <2> HIDE DEF inDaily, undetected, recipeToday
  <2>3. Only({"inDaily", "undetected"}) /\ run'.inDaily = inDaily /\ run'.undetected = undetected
    BY <1>1, <2>1, <2>2 DEF Only, QuestRuns, RunFields
  <2>4. run' \in QuestRuns /\ run'.succeeded = run.succeeded /\ run'.plan = run.plan
        /\ run'.after = run.after /\ run'.dry = run.dry
        /\ run'.failures = run.failures /\ run'.raised = run.raised /\ run'.active = run.active
        /\ run'.doneToday = run.doneToday /\ run'.targets = run.targets
    BY <2>3 DEF Only, RunFields
  <2>5. But(game, game', {"recipeToday"}) /\ game'.recipeToday = recipeToday
    BY <1>1, <2>1, <2>2 DEF But, QuestGames, GameFields
  <2>6. /\ game' \in QuestGames /\ game'.state = game.state /\ game'.recipes = game.recipes
        /\ game'.lost = game.lost /\ game'.unguarded = game.unguarded /\ game'.others = game.others
        /\ game'.enchanted = game.enchanted /\ game'.glyphToday = game.glyphToday
    BY <2>5 DEF But, GameFields
  <2>7. QuestTyped' /\ Real' /\ GlyphGuarded'
    BY <2>1, <2>4, <2>6 DEF QuestInv, QuestTyped, Real, GlyphGuarded, TheQuests!Phases
  <2>8. Listed' /\ Covered'
    BY <1>1, <1>5, <2>1, <2>2, <2>3, <2>4 DEF Listed, Covered, Pending, Within
  <2>9. RecipeState' = RecipeState /\ (Ended <=> run.q = Recipe) /\ ~Ended'
    BY <1>1, <1>5, <2>1, <2>6 DEF RecipeState, Ended
  <2>10. RecipeGuarded'
    BY <1>1, <2>1, <2>2, <2>3, <2>4, <2>5, <2>6, <2>9 DEF RecipeGuarded, Within, TheQuests!GuildDue
  <2>. QED  BY <2>7, <2>8, <2>10 DEF QuestInv
<1>. QED  BY <1>2, <1>3, <1>4, <1>5 DEF TheQuests!NextStep

------------------------------------------------------------------------------
\* Fetching and claiming.

LEMMA QuestFetch == ASSUME QuestInv, TheQuests!Fetch PROVE QuestInv'
<1> DEFINE wanted == TheQuests!InState(Daily, "active") \intersect Enabled
           claims == TheQuests!ToClaim(TheQuests!AllQuests)
           active == run.on /\ TheQuests!InState(Guild, "active") # {}
<1>1. PICK blocked \in TheQuests!ShopProblems, blind \in BOOLEAN :
        /\ pc' = IF run.dry THEN "glyph" ELSE "claim"
        /\ run' = [run EXCEPT !.claims = claims, !.targets = wanted \ blocked, !.active = active,
                              !.plan = claims \union wanted, !.failures = wanted \intersect blocked,
                              !.doneToday = active /\ TheQuests!GuildRanToday(blind)]
        /\ game' = TheQuests!Unguarded(game, IF active /\ blind THEN {"recipe"} ELSE {})
  <2>1. \E blocked \in TheQuests!ShopProblems, blind \in BOOLEAN :
          /\ TheQuests!Goto(IF run.dry THEN "glyph" ELSE "claim",
                            [run EXCEPT !.claims = claims, !.targets = wanted \ blocked,
                                        !.active = active, !.plan = claims \union wanted,
                                        !.failures = wanted \intersect blocked,
                                        !.doneToday = active /\ TheQuests!GuildRanToday(blind)])
          /\ game' = TheQuests!Unguarded(game, IF active /\ blind THEN {"recipe"} ELSE {})
    BY DEF TheQuests!Fetch, TheQuests!Blinds
  <2> HIDE DEF wanted, claims, active
  <2>. QED  BY <2>1 DEF TheQuests!Goto
<1>2. pc = "fetch" /\ game \in QuestGames /\ run \in QuestRuns /\ Listed /\ RecipeGuarded /\ Real
      /\ GlyphGuarded /\ run.after = "target"
  BY DEF TheQuests!Fetch, QuestInv, QuestTyped, Listed
<1> DEFINE targets == wanted \ blocked
           plan == claims \union wanted
           failures == wanted \intersect blocked
           doneToday == active /\ TheQuests!GuildRanToday(blind)
           works == IF active /\ blind THEN {"recipe"} ELSE {}
<1>3. run' = [run EXCEPT !.claims = claims, !.targets = targets, !.active = active, !.plan = plan,
                         !.failures = failures, !.doneToday = doneToday]
      /\ game' = TheQuests!Unguarded(game, works)
  BY <1>1
<1>4. /\ claims \in SUBSET TheQuests!AllQuests /\ wanted \in SUBSET Daily /\ targets \in SUBSET Daily
      /\ plan \in SUBSET TheQuests!AllQuests /\ failures \in SUBSET TheQuests!AllQuests
      /\ active \in BOOLEAN /\ doneToday \in BOOLEAN /\ works \in SUBSET {"recipe", "glyph"}
      /\ plan = claims \union wanted /\ (failures = {} => targets = wanted)
      /\ Recipe \in targets => RecipeState = "active"
      /\ active /\ ~doneToday /\ "recipe" \notin works => ~game.recipeToday
  BY <1>2, RecipeFacts DEF TheQuests!ToClaim, TheQuests!InState, TheQuests!GuildRanToday, RecipeState,
                           QuestGames, QuestRuns
<1> HIDE DEF wanted, claims, active, targets, plan, failures, doneToday, works
<1>5. /\ Only({"claims", "targets", "active", "plan", "failures", "doneToday"})
      /\ run'.claims = claims /\ run'.targets = targets /\ run'.active = active /\ run'.plan = plan
      /\ run'.failures = failures /\ run'.doneToday = doneToday
  <2>1. run \in QuestRuns /\ claims \in SUBSET TheQuests!AllQuests /\ targets \in SUBSET Daily
        /\ plan \in SUBSET TheQuests!AllQuests /\ failures \in SUBSET TheQuests!AllQuests
        /\ active \in BOOLEAN /\ doneToday \in BOOLEAN
    BY <1>2, <1>4
  <2>2. run' \in QuestRuns
    BY <1>3, <2>1 DEF QuestRuns
  <2>3. \A f \in RunFields \ {"claims", "targets", "active", "plan", "failures", "doneToday"} :
           run'[f] = run[f]
    BY <1>3, <2>1 DEF QuestRuns, RunFields
  <2>4. /\ run'.claims = claims /\ run'.targets = targets /\ run'.active = active
        /\ run'.plan = plan /\ run'.failures = failures /\ run'.doneToday = doneToday
    BY <1>3, <2>1 DEF QuestRuns
  <2>. QED  BY <2>2, <2>3, <2>4 DEF Only
<1>6. run' \in QuestRuns /\ run'.after = run.after /\ run'.dry = run.dry
      /\ run'.succeeded = run.succeeded /\ run'.inDaily = run.inDaily
  BY <1>5 DEF Only, RunFields
<1>7. But(game, game', {"unguarded"}) /\ game'.unguarded = game.unguarded \union works
  BY <1>2, <1>3, <1>4, Unguarding
<1>8. /\ game' \in QuestGames /\ game'.state = game.state /\ game'.recipes = game.recipes
      /\ game'.lost = game.lost /\ game'.recipeToday = game.recipeToday /\ game'.others = game.others
      /\ game'.enchanted = game.enchanted /\ game'.glyphToday = game.glyphToday
  BY <1>7 DEF But, GameFields
<1>9. QuestTyped' /\ Real' /\ GlyphGuarded'
  BY <1>1, <1>2, <1>6, <1>7, <1>8 DEF QuestTyped, Real, GlyphGuarded, TheQuests!Phases
<1>10. Listed' /\ Covered'
  BY <1>1, <1>2, <1>4, <1>5, <1>6 DEF Listed, Covered, Pending, Within
<1>11. RecipeState' = RecipeState /\ ~Ended /\ ~Ended'
  BY <1>1, <1>2, <1>8 DEF RecipeState, Ended
<1>12. RecipeGuarded'
  BY <1>1, <1>2, <1>4, <1>5, <1>6, <1>7, <1>8, <1>11 DEF RecipeGuarded, Within, TheQuests!GuildDue
<1>. QED  BY <1>9, <1>10, <1>12 DEF QuestInv

\* A claim, made or not: the run goes back to its list, or on with the target.
LEMMA AfterClaim ==
  ASSUME QuestTyped, NEW q \in TheQuests!AllQuests, TheQuests!Farming(q),
         NEW r \in QuestRuns, r.claims = run.claims, r.claimed = run.claimed, r.q = run.q,
         r.targets = run.targets, r.plan = run.plan, r.after = run.after, r.step = run.step,
         r.active = run.active, r.inDaily = run.inDaily, r.doneToday = run.doneToday,
         r.dry = run.dry, r.raised = run.raised, r.undetected = run.undetected,
         TheQuests!AfterFarm(r, q)
  PROVE  /\ pc \in {"claim", "farm"} /\ pc' = (IF pc = "farm" THEN "next" ELSE "claim")
         /\ (pc = "farm" => q = run.q)
         /\ run' \in QuestRuns /\ run'.claims = run.claims \ {q}
         /\ run'.claimed = (run.claimed \/ pc = "farm")
         /\ run'.q = run.q /\ run'.step = run.step /\ run'.targets = run.targets
         /\ run'.plan = run.plan /\ run'.after = run.after /\ run'.active = run.active
         /\ run'.inDaily = run.inDaily /\ run'.doneToday = run.doneToday
         /\ run'.dry = run.dry /\ run'.raised = run.raised /\ run'.undetected = run.undetected
         /\ run'.succeeded = r.succeeded /\ run'.failures = r.failures
<1> DEFINE claims == run.claims \ {q}
           claimed == run.claimed \/ pc = "farm"
<1>1. claims \in SUBSET TheQuests!AllQuests /\ claimed \in BOOLEAN
  BY DEF QuestTyped, QuestRuns
<1>2. run' = [r EXCEPT !.claims = claims, !.claimed = claimed]
      /\ pc' = (IF pc = "farm" THEN "next" ELSE "claim")
  BY DEF TheQuests!AfterFarm, TheQuests!Goto
<1> HIDE DEF claims, claimed
<1>3. /\ run' \in QuestRuns /\ run'.claims = claims /\ run'.claimed = claimed
      /\ \A f \in RunFields \ {"claims", "claimed"} : run'[f] = r[f]
  BY <1>1, <1>2 DEF QuestRuns, RunFields
<1>4. /\ run'.q = r.q /\ run'.step = r.step /\ run'.targets = r.targets
      /\ run'.plan = r.plan /\ run'.after = r.after /\ run'.active = r.active
      /\ run'.inDaily = r.inDaily /\ run'.doneToday = r.doneToday
      /\ run'.dry = r.dry /\ run'.raised = r.raised /\ run'.undetected = r.undetected
      /\ run'.succeeded = r.succeeded /\ run'.failures = r.failures
  BY <1>3 DEF RunFields
<1>. QED  BY <1>2, <1>3, <1>4 DEF claims, claimed, TheQuests!Farming

\* Whatever state the quest claimed is in: the recipe's guard holds on.
LEMMA ClaimsGuarded ==
  ASSUME QuestInv, pc \in {"claim", "farm"}, pc' = (IF pc = "farm" THEN "next" ELSE "claim"),
         run'.q = run.q, run'.step = run.step, run'.targets = run.targets, run'.after = run.after,
         run'.claimed = (run.claimed \/ pc = "farm"),
         run'.active = run.active, run'.inDaily = run.inDaily, run'.doneToday = run.doneToday,
         ~game'.lost /\ "recipe" \notin game'.unguarded =>
            /\ ~game.lost /\ "recipe" \notin game.unguarded /\ game'.recipes = game.recipes
            /\ game'.recipeToday = game.recipeToday
            /\ (RecipeState' = "active" <=> RecipeState = "active")
  PROVE  RecipeGuarded'
<1>. SUFFICES ASSUME ~game'.lost, "recipe" \notin game'.unguarded PROVE RecipeGuarded'
  BY DEF RecipeGuarded
<1>1. RecipeGuarded
  BY DEF QuestInv
<1>2. Ended' <=> Ended
  BY DEF Ended
<1>3. pc = "farm" /\ run.q = Recipe => run.step = Reach[Recipe]
  BY <1>1 DEF RecipeGuarded, Within
<1>4. Reach[Recipe] \in Nat
  BY RecipeFacts
<1>5. pc = "farm" /\ run.q = Recipe => ~Ahead' /\ ~Ahead
  BY <1>3, <1>4 DEF Ahead
<1>. QED  BY <1>1, <1>2, <1>5 DEF RecipeGuarded, Within, TheQuests!GuildDue

LEMMA QuestClaims ==
  ASSUME QuestInv, NEW q \in TheQuests!AllQuests, TheQuests!Claim(q) PROVE QuestInv'
<1> DEFINE succeeded == run.succeeded \union {q}
           r == [run EXCEPT !.succeeded = succeeded]
<1>1. /\ QuestTyped /\ game \in QuestGames /\ run \in QuestRuns /\ game.state[q] = "claimable"
      /\ game' = TheQuests!Farmed(game, q) /\ TheQuests!Farming(q) /\ TheQuests!AfterFarm(r, q)
  BY DEF QuestInv, QuestTyped, TheQuests!Claim
<1>2. succeeded \in SUBSET (TheQuests!AllQuests \union {"glyph"}) /\ succeeded = run.succeeded \union {q}
  BY <1>1 DEF QuestRuns
<1> HIDE DEF succeeded
<1>3. /\ r \in QuestRuns /\ r.claims = run.claims /\ r.claimed = run.claimed /\ r.q = run.q
      /\ r.targets = run.targets /\ r.plan = run.plan /\ r.after = run.after /\ r.step = run.step
      /\ r.active = run.active /\ r.inDaily = run.inDaily /\ r.doneToday = run.doneToday
      /\ r.dry = run.dry /\ r.raised = run.raised /\ r.undetected = run.undetected
      /\ r.succeeded = succeeded /\ r.failures = run.failures
  BY <1>1, <1>2 DEF QuestRuns
<1> HIDE DEF r
<1>4. /\ pc \in {"claim", "farm"} /\ pc' = (IF pc = "farm" THEN "next" ELSE "claim")
      /\ (pc = "farm" => q = run.q)
      /\ run' \in QuestRuns /\ run'.claims = run.claims \ {q}
      /\ run'.claimed = (run.claimed \/ pc = "farm")
      /\ run'.q = run.q /\ run'.step = run.step /\ run'.targets = run.targets
      /\ run'.plan = run.plan /\ run'.after = run.after /\ run'.active = run.active
      /\ run'.inDaily = run.inDaily /\ run'.doneToday = run.doneToday
      /\ run'.dry = run.dry /\ run'.raised = run.raised /\ run'.undetected = run.undetected
      /\ run'.succeeded = succeeded /\ run'.failures = run.failures
  BY <1>1, <1>3, AfterClaim
<1>5. /\ But(game, game', {"state"})
      /\ \A x \in TheQuests!AllQuests \ {q} : game'.state[x] = game.state[x]
      /\ game'.state[q] = "done"
  BY <1>1, Farming
<1>6. /\ game' \in QuestGames /\ game'.recipes = game.recipes /\ game'.lost = game.lost
      /\ game'.recipeToday = game.recipeToday /\ game'.others = game.others /\ game'.unguarded = game.unguarded
      /\ game'.enchanted = game.enchanted /\ game'.glyphToday = game.glyphToday
  BY <1>5 DEF But, GameFields
<1>7. QuestTyped' /\ GlyphGuarded'
  BY <1>4, <1>6 DEF QuestInv, QuestTyped, GlyphGuarded, TheQuests!Phases
<1>8. Real'
  BY <1>1, <1>2, <1>4, <1>5 DEF QuestInv, Real, QuestRuns
<1>9. Listed' /\ Covered'
  <2>1. Listed /\ Covered
    BY DEF QuestInv
  <2>. QED  BY <1>2, <1>4, <2>1 DEF Listed, Covered, Pending, Within
<1>10. RecipeState' = "active" <=> RecipeState = "active"
  BY <1>1, <1>5, RecipeFacts DEF RecipeState
<1>11. RecipeGuarded'
  BY <1>4, <1>6, <1>10, ClaimsGuarded
<1>. QED  BY <1>7, <1>8, <1>9, <1>11 DEF QuestInv

LEMMA QuestClaimFails ==
  ASSUME QuestInv, NEW q \in TheQuests!AllQuests, TheQuests!ClaimFails(q) PROVE QuestInv'
<1> DEFINE failures == run.failures \union {q}
           r == [run EXCEPT !.failures = failures]
<1>1. /\ QuestTyped /\ game \in QuestGames /\ run \in QuestRuns
      /\ TheQuests!Farming(q) /\ TheQuests!AfterFarm(r, q)
  BY DEF QuestInv, QuestTyped, TheQuests!ClaimFails
<1>2. failures \in SUBSET (TheQuests!AllQuests \union {"questGetAll", "guild", "glyph"})
      /\ failures # {}
  BY <1>1 DEF QuestRuns
<1> HIDE DEF failures
<1>3. /\ r \in QuestRuns /\ r.claims = run.claims /\ r.claimed = run.claimed /\ r.q = run.q
      /\ r.targets = run.targets /\ r.plan = run.plan /\ r.after = run.after /\ r.step = run.step
      /\ r.active = run.active /\ r.inDaily = run.inDaily /\ r.doneToday = run.doneToday
      /\ r.dry = run.dry /\ r.raised = run.raised /\ r.undetected = run.undetected
      /\ r.succeeded = run.succeeded /\ r.failures = failures
  BY <1>1, <1>2 DEF QuestRuns
<1> HIDE DEF r
<1>4. /\ pc \in {"claim", "farm"} /\ pc' = (IF pc = "farm" THEN "next" ELSE "claim")
      /\ run' \in QuestRuns /\ run'.claimed = (run.claimed \/ pc = "farm")
      /\ run'.q = run.q /\ run'.step = run.step /\ run'.targets = run.targets
      /\ run'.plan = run.plan /\ run'.after = run.after /\ run'.active = run.active
      /\ run'.inDaily = run.inDaily /\ run'.doneToday = run.doneToday
      /\ run'.succeeded = run.succeeded /\ run'.failures = failures
  BY <1>1, <1>3, AfterClaim
<1>5. Unheard
  <2>1. PICK g \in TheQuests!Arrivals(LAMBDA x : TheQuests!Farmed(x, q), game)
                     \union TheQuests!Losses(LAMBDA x : TheQuests!Farmed(x, q), game) :
          game' = TheQuests!Noting(g)
    BY DEF TheQuests!ClaimFails
  <2>2. Kept(g)
    BY <1>1, ClaimsArrive
  <2>. QED  BY <1>1, <2>1, <2>2, NotingUnheard
<1>6. game' \in QuestGames /\ Kept(game') /\ (~game'.lost => game' = game)
  BY <1>5 DEF Unheard
<1>7. QuestTyped' /\ Listed' /\ Covered'
  BY <1>2, <1>4, <1>6 DEF QuestInv, QuestTyped, Listed, Covered, TheQuests!Phases, Within
<1>8. Real'
  BY <1>1, <1>4, <1>6 DEF QuestInv, Real, Kept, QuestRuns
<1>9. GlyphGuarded'
  BY <1>4, <1>6 DEF QuestInv, GlyphGuarded
<1>10. ~game'.lost => RecipeState' = RecipeState
  BY <1>6 DEF RecipeState
<1>11. RecipeGuarded'
  BY <1>4, <1>6, <1>10, ClaimsGuarded
<1>. QED  BY <1>7, <1>8, <1>9, <1>11 DEF QuestInv

------------------------------------------------------------------------------
\* Carrying out the steps.

\* A step that is answered, after attempts that may have arrived.
LEMMA StepCarried ==
  ASSUME game \in QuestGames, NEW q \in Daily, NEW j \in Nat, NEW g, Kept(g),
         But(TheQuests!Did(g, q, j), game', {"lost", "recipeToday"}),
         ~game'.lost => g = game /\ ~g.lost
  PROVE  /\ game' \in QuestGames /\ Kept(game')
         /\ ~game'.lost =>
               /\ ~game.lost /\ game'.unguarded = game.unguarded /\ game'.others = game.others
               /\ game'.enchanted = game.enchanted /\ game'.glyphToday = game.glyphToday
               /\ \A x \in TheQuests!AllQuests \ {q} : game'.state[x] = game.state[x]
               /\ game'.state[q] = IF j = Reach[q] /\ game.state[q] = "active" THEN "claimable"
                                                                         ELSE game.state[q]
               /\ game'.recipes = IF q = Recipe /\ j = Steps[q] THEN game.recipes + 1
                                                                ELSE game.recipes
<1> DEFINE d == TheQuests!Did(g, q, j)
<1>1. g \in QuestGames /\ Kept(d)
  BY DoingKeeps DEF Kept
<1>2. /\ But(g, d, {"state", "recipes"})
      /\ \A x \in TheQuests!AllQuests \ {q} : d.state[x] = g.state[x]
      /\ d.state[q] = IF j = Reach[q] /\ g.state[q] = "active" THEN "claimable" ELSE g.state[q]
      /\ d.recipes = IF q = Recipe /\ j = Steps[q] THEN g.recipes + 1 ELSE g.recipes
  BY <1>1, Doing
<1>3. But(d, game', {"lost", "recipeToday"})
  OBVIOUS
<1> HIDE DEF d
<1>4. d \in QuestGames /\ d.unguarded = g.unguarded /\ d.others = g.others /\ d.enchanted = g.enchanted
      /\ d.glyphToday = g.glyphToday
  BY <1>2 DEF But, GameFields
<1>5. /\ game' \in QuestGames /\ game'.state = d.state /\ game'.recipes = d.recipes
      /\ game'.unguarded = d.unguarded /\ game'.others = d.others /\ game'.enchanted = d.enchanted
      /\ game'.glyphToday = d.glyphToday
  BY <1>3 DEF But, GameFields
<1>6. Kept(game')
  BY <1>1, <1>5 DEF Kept
<1>7. CASE game'.lost
  BY <1>5, <1>6, <1>7
<1>8. CASE ~game'.lost
  BY <1>2, <1>4, <1>5, <1>6, <1>8
<1>. QED  BY <1>7, <1>8

LEMMA QuestStepDone == ASSUME QuestInv, TheQuests!StepDone PROVE QuestInv'
<1>1. /\ pc = "step" /\ game \in QuestGames /\ run \in QuestRuns /\ run.q \in Daily /\ run.step \in Nat
      /\ Listed /\ Covered /\ RecipeGuarded /\ GlyphGuarded /\ Real
  BY DEF TheQuests!StepDone, QuestInv, QuestTyped, QuestRuns
<1>2. PICK g \in TheQuests!Arrivals(LAMBDA x : TheQuests!Did(x, run.q, run.step), game) :
        LET after == TheQuests!Did(g, run.q, run.step) IN
         /\ game' = [after EXCEPT !.lost = @ \/ g # game]
         /\ \E reached \in IF after.state[run.q] # "claimable" THEN {FALSE}
                           ELSE IF g.state[run.q] = "active" THEN {TRUE} ELSE BOOLEAN :
              IF ~reached \/ run.claimed THEN TheQuests!Goto("next", run)
              ELSE IF run.q \in Excluded THEN TheQuests!Goto("next", [run EXCEPT !.claimed = TRUE])
              ELSE TheQuests!Goto("farm", run)
  BY DEF TheQuests!StepDone
<1> DEFINE after == TheQuests!Did(g, run.q, run.step)
           lost == after.lost \/ g # game
<1>3. Kept(g) /\ g \in QuestGames
  BY <1>1, <1>2, StepsArrive DEF Kept
<1>4. after \in QuestGames /\ after.lost = g.lost /\ after.recipeToday = g.recipeToday
  BY <1>1, <1>3, Doing DEF But, GameFields
<1>5. lost \in BOOLEAN /\ (~lost => g = game /\ ~g.lost) /\ game' = [after EXCEPT !.lost = lost]
  BY <1>2, <1>4 DEF QuestGames
<1>6. PICK reached \in BOOLEAN :
        /\ after.state[run.q] # "claimable" => ~reached
        /\ after.state[run.q] = "claimable" /\ g.state[run.q] = "active" => reached
        /\ IF ~reached \/ run.claimed THEN TheQuests!Goto("next", run)
           ELSE IF run.q \in Excluded THEN TheQuests!Goto("next", [run EXCEPT !.claimed = TRUE])
           ELSE TheQuests!Goto("farm", run)
  BY <1>2
<1>7. game'.state = after.state
  BY <1>4, <1>5 DEF QuestGames
<1> HIDE DEF lost
<1>8. But(after, game', {"lost", "recipeToday"}) /\ game'.lost = lost
      /\ game'.recipeToday = after.recipeToday
  BY <1>4, <1>5 DEF But, QuestGames, GameFields
<1>9. ~game'.lost => g = game /\ ~g.lost
  BY <1>5, <1>8
<1>10. /\ game' \in QuestGames /\ Kept(game')
       /\ ~game'.lost =>
             /\ ~game.lost /\ game'.unguarded = game.unguarded /\ game'.others = game.others
             /\ game'.enchanted = game.enchanted /\ game'.glyphToday = game.glyphToday
             /\ \A x \in TheQuests!AllQuests \ {run.q} : game'.state[x] = game.state[x]
             /\ game'.state[run.q] =
                  IF run.step = Reach[run.q] /\ game.state[run.q] = "active" THEN "claimable"
                                                                     ELSE game.state[run.q]
             /\ game'.recipes = IF run.q = Recipe /\ run.step = Steps[run.q] THEN game.recipes + 1
                                                                        ELSE game.recipes
  BY <1>1, <1>3, <1>8, <1>9, StepCarried
<1>11. ~game'.lost => game'.recipeToday = game.recipeToday /\ (game.state[run.q] = "active"
                        /\ game'.state[run.q] = "claimable" => reached)
  BY <1>4, <1>6, <1>7, <1>8, <1>9, <1>10
<1> HIDE DEF after
<1>12. /\ Only({"claimed"}) /\ pc' \in {"next", "farm"}
       /\ run'.claimed => run.claimed \/ run.q \in Excluded
       /\ run.claimed => run'.claimed
       /\ pc' = "farm" => reached /\ ~run'.claimed
       /\ pc' = "next" /\ ~run'.claimed => ~reached
       /\ run.claimed => pc' = "next"
  <2>1. CASE ~reached \/ run.claimed
    <3>1. pc' = "next" /\ run' = run
      BY <1>6, <2>1 DEF TheQuests!Goto
    <3>. QED  BY <1>1, <2>1, <3>1 DEF Only
  <2>2. CASE reached /\ ~run.claimed /\ run.q \in Excluded
    <3>1. pc' = "next" /\ run' = [run EXCEPT !.claimed = TRUE]
      BY <1>6, <2>2 DEF TheQuests!Goto
    <3>2. Only({"claimed"}) /\ run'.claimed
      BY <1>1, <3>1 DEF Only, QuestRuns, RunFields
    <3>. QED  BY <2>2, <3>1, <3>2
  <2>3. CASE reached /\ ~run.claimed /\ run.q \notin Excluded
    <3>1. pc' = "farm" /\ run' = run
      BY <1>6, <2>3 DEF TheQuests!Goto
    <3>. QED  BY <1>1, <2>3, <3>1 DEF Only
  <2>. QED  BY <2>1, <2>2, <2>3
<1>13. run' \in QuestRuns /\ run'.succeeded = run.succeeded /\ run'.plan = run.plan
      /\ run'.after = run.after /\ run'.undetected = run.undetected /\ run'.dry = run.dry
      /\ run'.failures = run.failures /\ run'.raised = run.raised /\ run'.active = run.active
      /\ run'.inDaily = run.inDaily /\ run'.doneToday = run.doneToday
      /\ run'.targets = run.targets /\ run'.q = run.q /\ run'.step = run.step
  BY <1>12 DEF Only, RunFields
<1>14. QuestTyped' /\ GlyphGuarded'
  BY <1>1, <1>10, <1>12, <1>13 DEF QuestTyped, GlyphGuarded, TheQuests!Phases
<1>15. Real'
  BY <1>1, <1>10, <1>13 DEF Real, Kept, QuestRuns
<1>16. Listed' /\ Covered'
  BY <1>1, <1>12, <1>13 DEF Listed, Covered, Pending, Within
<1>17. RecipeGuarded'
  <2>. SUFFICES ASSUME ~game'.lost, "recipe" \notin game'.unguarded PROVE RecipeGuarded'
    BY DEF RecipeGuarded
  <2>1. ~game.lost /\ "recipe" \notin game.unguarded /\ game.recipes \in Nat /\ Recipe \in TheQuests!AllQuests
        /\ game'.recipeToday = game.recipeToday /\ ~Ended
    BY <1>1, <1>10, <1>11, RecipeFacts DEF QuestGames, Ended
  <2>2. CASE run.q # Recipe
    <3>1. RecipeState' = RecipeState /\ game'.recipes = game.recipes /\ ~Ended'
      BY <1>10, <1>13, <2>1, <2>2 DEF RecipeState, Ended
    <3>. QED  BY <1>1, <1>12, <1>13, <2>1, <2>2, <3>1 DEF RecipeGuarded, Within, TheQuests!GuildDue
  <2>3. CASE run.q = Recipe
    <3>1. /\ game.recipes = 0 /\ (RecipeState = "active" <=> Ahead) /\ (~Ahead => run.claimed)
          /\ Recipe \notin run.targets /\ Reach[Recipe] \in Nat /\ Steps[Recipe] \in Nat
          /\ Reach[Recipe] <= Steps[Recipe]
      BY <1>1, <2>1, <2>3, RecipeFacts DEF RecipeGuarded, Listed, Within
    <3>2. CASE run.step < Reach[Recipe]
      <4>1. RecipeState' = "active" /\ game'.recipes = 0 /\ ~Ended' /\ Ahead' /\ Ahead
        BY <1>1, <1>10, <1>13, <2>3, <3>1, <3>2 DEF RecipeState, Ended, Ahead
      <4>2. pc' = "next"
        BY <1>4, <1>6, <1>7, <1>12, <2>3, <4>1 DEF RecipeState
      <4>. QED  BY <1>1, <1>12, <1>13, <2>1, <2>3, <3>1, <4>1, <4>2 DEF RecipeGuarded, Within, TheQuests!GuildDue
    <3>3. CASE run.step = Reach[Recipe]
      <4>1. RecipeState = "active" /\ RecipeState' = "claimable" /\ reached /\ ~Ahead'
        BY <1>1, <1>10, <1>11, <1>12, <1>13, <2>3, <3>1, <3>3 DEF RecipeState, Ahead
      <4>2. game'.recipes <= 1 /\ (game'.recipes = 0 \/ Ended')
        BY <1>10, <1>12, <1>13, <2>3, <3>1 DEF Ended
      <4>. QED  BY <1>1, <1>12, <1>13, <2>1, <2>3, <3>1, <3>3, <4>1, <4>2
              DEF RecipeGuarded, Within, TheQuests!GuildDue
    <3>4. CASE run.step > Reach[Recipe]
      <4>1. RecipeState # "active" /\ RecipeState' = RecipeState /\ run.claimed /\ ~Ahead'
        BY <1>1, <1>10, <1>12, <1>13, <2>3, <3>1, <3>4 DEF RecipeState, Ahead
      <4>2. game'.recipes <= 1 /\ (game'.recipes = 0 \/ Ended')
        BY <1>10, <1>12, <1>13, <2>3, <3>1 DEF Ended
      <4>. QED  BY <1>1, <1>12, <1>13, <2>1, <2>3, <3>1, <4>1, <4>2
              DEF RecipeGuarded, Within, TheQuests!GuildDue
    <3>. QED  BY <1>1, <3>1, <3>2, <3>3, <3>4
  <2>. QED  BY <2>2, <2>3
<1>. QED  BY <1>14, <1>15, <1>16, <1>17 DEF QuestInv

\* A step that is tried again, or given up, or the recipe of the guild.
LEMMA QuestStepMisses ==
  ASSUME QuestInv, TheQuests!StepFallsBack \/ TheQuests!StepFails \/ TheQuests!RecipeFails
  PROVE  QuestInv'
<1>1. /\ game \in QuestGames /\ run \in QuestRuns /\ run.q \in Daily /\ run.step \in Nat
      /\ Listed /\ Covered /\ RecipeGuarded /\ GlyphGuarded /\ Real /\ Recipe \in Daily
  BY RecipeFacts DEF QuestInv, QuestTyped, QuestRuns
<1>2. CASE TheQuests!StepFallsBack
  <2> DEFINE try == run.try + 1
  <2>1. pc = "step" /\ pc' = "step" /\ run.try < Fallbacks /\ run' = [run EXCEPT !.try = try]
    BY <1>1, <1>2 DEF TheQuests!StepFallsBack, TheQuests!Goto
  <2>2. try \in 0..Fallbacks
    BY <1>1, <2>1, QuestsAssumption DEF QuestRuns
  <2> HIDE DEF try
  <2>3. Only({"try"})
    BY <1>1, <2>1, <2>2 DEF Only, QuestRuns, RunFields
  <2>4. run' \in QuestRuns /\ run'.succeeded = run.succeeded /\ run'.plan = run.plan
        /\ run'.after = run.after /\ run'.undetected = run.undetected /\ run'.dry = run.dry
        /\ run'.failures = run.failures /\ run'.raised = run.raised /\ run'.active = run.active
        /\ run'.inDaily = run.inDaily /\ run'.doneToday = run.doneToday /\ run'.claimed = run.claimed
        /\ run'.targets = run.targets /\ run'.q = run.q /\ run'.step = run.step
    BY <2>3 DEF Only, RunFields
  <2>5. Unheard
    <3>1. PICK g : Kept(g) /\ game' = TheQuests!Noting(g)
      <4>1. PICK g \in TheQuests!Arrivals(LAMBDA x : TheQuests!Did(x, run.q, run.step), game)
                         \union TheQuests!Losses(LAMBDA x : TheQuests!Did(x, run.q, run.step), game) :
              game' = TheQuests!Noting(g)
        BY <1>2 DEF TheQuests!StepFallsBack
      <4>. QED  BY <1>1, <4>1, StepsArrive
    <3>. QED  BY <1>1, <3>1, NotingUnheard
  <2>6. game' \in QuestGames /\ Kept(game') /\ (~game'.lost => game' = game)
    BY <2>5 DEF Unheard
  <2>7. QuestTyped' /\ Listed' /\ Covered' /\ GlyphGuarded'
    BY <1>1, <2>1, <2>4, <2>6 DEF QuestTyped, Listed, Covered, Pending, GlyphGuarded, Within,
                                  TheQuests!Phases
  <2>8. Real'
    BY <1>1, <2>4, <2>6 DEF Real, Kept, QuestRuns
  <2>9. RecipeGuarded'
    <3>1. CASE game'.lost
      BY <3>1 DEF RecipeGuarded
    <3>2. CASE ~game'.lost
      <4>1. game' = game /\ RecipeState' = RecipeState /\ (Ended' <=> Ended) /\ (Ahead' <=> Ahead)
        BY <2>1, <2>4, <2>6, <3>2 DEF RecipeState, Ended, Ahead
      <4>. QED  BY <1>1, <2>1, <2>4, <4>1 DEF RecipeGuarded, Within, TheQuests!GuildDue
    <3>. QED  BY <3>1, <3>2
  <2>. QED  BY <2>7, <2>8, <2>9 DEF QuestInv
<1>3. CASE TheQuests!StepFails \/ TheQuests!RecipeFails
  <2>1. PICK q \in Daily : TRUE
    BY <1>1
  <2>2. PICK m \in TheQuests!AllQuests \union {"questGetAll", "guild", "glyph"} :
          /\ \/ pc = "step" /\ pc' = "target"
             \/ pc = "recipe" /\ pc' = "glyph"
          /\ run' = [run EXCEPT !.failures = run.failures \union {m}]
    BY <1>1, <1>3, RecipeFacts DEF TheQuests!StepFails, TheQuests!RecipeFails, TheQuests!Goto
  <2>3. Unheard
    <3>1. PICK g : Kept(g) /\ game' = TheQuests!Noting(g)
      <4>1. CASE TheQuests!StepFails
        <5>1. PICK g \in {game} \union TheQuests!Losses(LAMBDA x : TheQuests!Did(x, run.q, run.step), game) :
                game' = TheQuests!Noting(g)
          BY <4>1 DEF TheQuests!StepFails
        <5>. QED  BY <1>1, <5>1, KeptSelf, StepsArrive
      <4>2. CASE TheQuests!RecipeFails
        <5>1. PICK g \in {game} \union TheQuests!Losses(LAMBDA x : TheQuests!Did(x, Recipe, run.step), game) :
                game' = TheQuests!Noting(g)
          BY <4>2 DEF TheQuests!RecipeFails
        <5>. QED  BY <1>1, <5>1, KeptSelf, StepsArrive
      <4>. QED  BY <1>3, <4>1, <4>2
    <3>. QED  BY <1>1, <3>1, NotingUnheard
  <2>4. Only({"failures"}) /\ run'.failures # {}
    BY <1>1, <2>2, FailureMarked
  <2>5. run' \in QuestRuns /\ run'.succeeded = run.succeeded /\ run'.after = run.after
        /\ run'.active = run.active /\ run'.inDaily = run.inDaily /\ run'.doneToday = run.doneToday
        /\ run'.targets = run.targets
    BY <2>4 DEF Only, RunFields
  <2>6. game' \in QuestGames /\ Kept(game') /\ (~game'.lost => game' = game)
    BY <2>3 DEF Unheard
  <2>7. QuestTyped' /\ Listed' /\ Covered' /\ GlyphGuarded'
    BY <1>1, <2>2, <2>4, <2>5, <2>6 DEF QuestTyped, Listed, Covered, GlyphGuarded, Within,
                                        TheQuests!Phases
  <2>8. Real'
    BY <1>1, <2>5, <2>6 DEF Real, Kept, QuestRuns
  <2>9. RecipeGuarded'
    <3>1. CASE game'.lost
      BY <3>1 DEF RecipeGuarded
    <3>2. CASE ~game'.lost
      <4>1. game' = game /\ RecipeState' = RecipeState /\ ~Ended
        BY <2>2, <2>6, <3>2 DEF RecipeState, Ended
      <4>. QED  BY <1>1, <2>2, <2>5, <4>1 DEF RecipeGuarded, Within, TheQuests!GuildDue
    <3>. QED  BY <3>1, <3>2
  <2>. QED  BY <2>7, <2>8, <2>9 DEF QuestInv
<1>. QED  BY <1>2, <1>3

\* Of the recipe's steps, the last one noted.
LEMMA RecipeGoesOn ==
  ASSUME QuestInv, pc = "recipe",
         NEW g \in TheQuests!Arrivals(LAMBDA x : TheQuests!Did(x, Recipe, run.step), game),
         game' = [TheQuests!Did(g, Recipe, run.step) EXCEPT
                    !.lost = @ \/ g # game, !.recipeToday = @ \/ run.step = Steps[Recipe]],
         IF run.step = Steps[Recipe] THEN TheQuests!Goto("refetch", run)
         ELSE TheQuests!Goto("recipe", [run EXCEPT !.step = @ + 1])
  PROVE  QuestInv'
<1>1. /\ pc = "recipe" /\ game \in QuestGames /\ run \in QuestRuns /\ run.step \in Nat
      /\ Recipe \in Daily /\ Recipe \in TheQuests!AllQuests
      /\ Listed /\ Covered /\ RecipeGuarded /\ GlyphGuarded /\ Real /\ run.targets = {}
      /\ Reach[Recipe] \in Nat /\ Steps[Recipe] \in Nat /\ Reach[Recipe] <= Steps[Recipe]
  BY RecipeFacts DEF QuestInv, QuestTyped, QuestRuns, Listed
<1> DEFINE last == run.step = Steps[Recipe]
<1>2. /\ game' = [TheQuests!Did(g, Recipe, run.step) EXCEPT !.lost = @ \/ g # game,
                                                            !.recipeToday = @ \/ last]
      /\ IF last THEN TheQuests!Goto("refetch", run)
         ELSE TheQuests!Goto("recipe", [run EXCEPT !.step = @ + 1])
  OBVIOUS
<1> DEFINE after == TheQuests!Did(g, Recipe, run.step)
           lost == after.lost \/ g # game
           today == after.recipeToday \/ last
<1>3. Kept(g) /\ g \in QuestGames
  <2>1. \A h \in TheQuests!Arrivals(LAMBDA x : TheQuests!Did(x, Recipe, run.step), game) : Kept(h)
    BY <1>1, StepsArrive
  <2>. QED  BY <2>1 DEF Kept
<1>4. after \in QuestGames /\ after.lost = g.lost /\ after.recipeToday = g.recipeToday
  <2>1. But(g, after, {"state", "recipes"})
    BY <1>1, <1>3, Doing
  <2> HIDE DEF after
  <2>2. {"lost", "recipeToday"} \subseteq GameFields \ {"state", "recipes"}
    BY DEF GameFields
  <2>. QED  BY <2>1, <2>2 DEF But
<1>5. /\ lost \in BOOLEAN /\ (~lost => g = game /\ ~g.lost) /\ today \in BOOLEAN /\ (last => today)
      /\ (g.recipeToday => today)
      /\ game' = [after EXCEPT !.lost = lost, !.recipeToday = today]
  BY <1>2, <1>4 DEF QuestGames
<1> HIDE DEF lost, today
<1>6. But(after, game', {"lost", "recipeToday"}) /\ game'.lost = lost /\ game'.recipeToday = today
  BY <1>4, <1>5 DEF But, QuestGames, GameFields
<1>7. ~game'.lost => g = game /\ ~g.lost
  BY <1>5, <1>6
<1>8. /\ game' \in QuestGames /\ Kept(game')
      /\ ~game'.lost =>
             /\ ~game.lost /\ game'.unguarded = game.unguarded /\ game'.others = game.others
             /\ game'.enchanted = game.enchanted /\ game'.glyphToday = game.glyphToday
             /\ game'.state[Recipe] =
                  IF run.step = Reach[Recipe] /\ game.state[Recipe] = "active" THEN "claimable"
                                                                     ELSE game.state[Recipe]
             /\ game'.recipes = IF last THEN game.recipes + 1 ELSE game.recipes
  BY <1>1, <1>3, <1>6, <1>7, StepCarried
<1>9. ~game'.lost => (game.recipeToday => game'.recipeToday) /\ (last => game'.recipeToday)
  BY <1>5, <1>6, <1>7
<1> HIDE DEF after
<1>10. /\ Only({"step"}) /\ (last => pc' = "refetch")
       /\ ~last => pc' = "recipe" /\ run'.step = run.step + 1
  <2>1. CASE last
    <3>1. pc' = "refetch" /\ run' = run
      BY <1>2, <2>1 DEF TheQuests!Goto
    <3>. QED  BY <1>1, <2>1, <3>1 DEF Only
  <2>2. CASE ~last
    <3> DEFINE step == run.step + 1
    <3>1. pc' = "recipe" /\ run' = [run EXCEPT !.step = step]
      BY <1>1, <1>2, <2>2 DEF TheQuests!Goto, QuestRuns
    <3>2. step \in Nat
      BY <1>1
    <3> HIDE DEF step
    <3>3. Only({"step"}) /\ run'.step = step
      BY <1>1, <3>1, <3>2 DEF Only, QuestRuns, RunFields
    <3>. QED  BY <2>2, <3>1, <3>3 DEF step
  <2>. QED  BY <2>1, <2>2
<1>11. run' \in QuestRuns /\ run'.succeeded = run.succeeded /\ run'.plan = run.plan
      /\ run'.after = run.after /\ run'.undetected = run.undetected /\ run'.dry = run.dry
      /\ run'.failures = run.failures /\ run'.raised = run.raised /\ run'.active = run.active
      /\ run'.inDaily = run.inDaily /\ run'.doneToday = run.doneToday
      /\ run'.targets = run.targets
  BY <1>10 DEF Only, RunFields
<1>12. QuestTyped' /\ GlyphGuarded'
  BY <1>1, <1>8, <1>10, <1>11 DEF QuestTyped, GlyphGuarded, TheQuests!Phases
<1>13. Real'
  BY <1>1, <1>8, <1>11 DEF Real, Kept, QuestRuns
<1>14. Listed' /\ Covered'
  BY <1>1, <1>10, <1>11 DEF Listed, Covered, Pending, Within
<1>15. RecipeGuarded'
  <2>. SUFFICES ASSUME ~game'.lost, "recipe" \notin game'.unguarded PROVE RecipeGuarded'
    BY DEF RecipeGuarded
  <2>1. ~game.lost /\ "recipe" \notin game.unguarded /\ game.recipes \in Nat /\ ~Ended /\ ~Ended'
    BY <1>1, <1>8, <1>10 DEF QuestGames, Ended
  <2>2. TheQuests!GuildDue /\ game.recipes = 0 /\ (run.step > Reach[Recipe] => RecipeState # "active")
    BY <1>1, <2>1 DEF RecipeGuarded
  <2>3. TheQuests!GuildDue' /\ pc' \notin Within \union {"claim"}
    BY <1>10, <1>11, <2>2 DEF TheQuests!GuildDue, Within
  <2>4. CASE last
    <3>1. game'.recipes = 1 /\ game'.recipeToday /\ RecipeState' # "active"
      BY <1>1, <1>8, <1>9, <2>2, <2>4 DEF RecipeState
    <3>. QED  BY <1>1, <1>10, <1>11, <2>3, <2>4, <3>1 DEF RecipeGuarded
  <2>5. CASE ~last
    <3>1. game'.recipes = 0 /\ (run'.step > Reach[Recipe] => RecipeState' # "active")
      BY <1>1, <1>8, <1>10, <2>2, <2>5 DEF RecipeState
    <3>. QED  BY <1>1, <1>10, <1>11, <2>3, <2>5, <3>1 DEF RecipeGuarded
  <2>. QED  BY <2>4, <2>5
<1>. QED  BY <1>12, <1>13, <1>14, <1>15 DEF QuestInv

LEMMA QuestRecipeStep == ASSUME QuestInv, TheQuests!RecipeStep PROVE QuestInv'
<1>1. /\ pc = "recipe" /\ game \in QuestGames /\ run \in QuestRuns /\ run.step \in Nat
      /\ Recipe \in Daily
  BY RecipeFacts DEF TheQuests!RecipeStep, QuestInv, QuestTyped, QuestRuns
<1> DEFINE last == run.step = Steps[Recipe]
           After(g) == TheQuests!Did(g, Recipe, run.step)
           Noted(g) == [After(g) EXCEPT !.lost = @ \/ g # game]
<1>2. PICK g \in TheQuests!Arrivals(LAMBDA x : TheQuests!Did(x, Recipe, run.step), game) :
         \/ ~last /\ game' = Noted(g) /\ TheQuests!Goto("recipe", [run EXCEPT !.step = @ + 1])
         \/ last /\ game' = [Noted(g) EXCEPT !.recipeToday = TRUE] /\ TheQuests!Goto("refetch", run)
         \/ last /\ TheQuests!WriteFails(Noted(g), "recipe")
  BY DEF TheQuests!RecipeStep
<1> DEFINE after == After(g)
           lost == after.lost \/ g # game
           noted == [after EXCEPT !.lost = lost]
<1>3. Kept(g) /\ g \in QuestGames
  BY <1>1, <1>2, StepsArrive DEF Kept
<1>4. Kept(after) /\ after \in QuestGames /\ But(g, after, {"state", "recipes"})
  BY <1>1, <1>3, Doing, DoingKeeps DEF Kept
<1>5. noted = Noted(g)
  OBVIOUS
<1> HIDE DEF after
<1>6. /\ after.lost = g.lost /\ after.others = g.others /\ after.enchanted = g.enchanted
      /\ after.glyphToday = g.glyphToday /\ after.unguarded = g.unguarded
  BY <1>4 DEF But, GameFields
<1>7. lost \in BOOLEAN /\ (~lost => g = game /\ ~g.lost)
  BY <1>4, <1>6 DEF QuestGames
<1>8. noted = [after EXCEPT !.lost = lost]
  OBVIOUS
<1> HIDE DEF lost, noted
<1>9. But(after, noted, {"lost"}) /\ noted.lost = lost
  BY <1>4, <1>7, <1>8 DEF But, QuestGames, GameFields
<1>10. /\ noted \in QuestGames /\ noted.state = after.state /\ noted.others = after.others
       /\ noted.enchanted = after.enchanted /\ noted.glyphToday = after.glyphToday
       /\ noted.unguarded = after.unguarded
  BY <1>9 DEF But, GameFields
<1>11. CASE last /\ TheQuests!WriteFails(Noted(g), "recipe")
  <2>1. Kept(noted)
    BY <1>4, <1>10 DEF Kept
  <2>2. ~noted.lost => /\ ~game.lost /\ noted.unguarded = game.unguarded
                       /\ noted.others = game.others /\ noted.enchanted = game.enchanted
                       /\ noted.glyphToday = game.glyphToday
    BY <1>6, <1>7, <1>9, <1>10
  <2>3. TheQuests!WriteFails(noted, "recipe")
    BY <1>5, <1>11
  <2>. QED  BY <2>1, <2>2, <2>3, NoteLost
<1>12. CASE ~(last /\ TheQuests!WriteFails(Noted(g), "recipe"))
  <2>1. /\ game' = IF last THEN [noted EXCEPT !.recipeToday = TRUE] ELSE noted
        /\ IF last THEN TheQuests!Goto("refetch", run)
           ELSE TheQuests!Goto("recipe", [run EXCEPT !.step = @ + 1])
    BY <1>2, <1>5, <1>12
  <2>2. game' = [after EXCEPT !.lost = lost, !.recipeToday = after.recipeToday \/ last]
    BY <1>4, <1>8, <2>1 DEF QuestGames
  <2>3. game' = [After(g) EXCEPT !.lost = @ \/ g # game,
                                 !.recipeToday = @ \/ run.step = Steps[Recipe]]
    BY <2>2 DEF after, lost
  <2> HIDE DEF last, After
  <2>. QED  BY <1>1, <1>2, <2>1, <2>3, RecipeGoesOn DEF last, After
<1>. QED  BY <1>11, <1>12

\* The glyph activity, noted.
LEMMA GlyphGoesOn ==
  ASSUME QuestInv, pc = "enchant", NEW g \in TheQuests!Arrivals(TheQuests!Enchanted, game),
         game' = [TheQuests!Enchanted(g) EXCEPT !.lost = @ \/ g # game, !.glyphToday = TRUE],
         TheQuests!Goto("done", [run EXCEPT !.succeeded = @ \union {"glyph"}])
  PROVE  QuestInv'
<1> DEFINE succeeded == run.succeeded \union {"glyph"}
<1>1. /\ pc = "enchant" /\ pc' = "done" /\ game \in QuestGames /\ run \in QuestRuns
      /\ run' = [run EXCEPT !.succeeded = succeeded]
      /\ Listed /\ Covered /\ RecipeGuarded /\ GlyphGuarded /\ Real
  BY DEF TheQuests!Goto, QuestInv, QuestTyped
<1>2. game' = [TheQuests!Enchanted(g) EXCEPT !.lost = @ \/ g # game, !.glyphToday = TRUE]
  OBVIOUS
<1> DEFINE after == TheQuests!Enchanted(g)
           lost == after.lost \/ g # game
<1>3. Kept(g) /\ g \in QuestGames
  BY <1>1, <1>2, GlyphsArrive DEF Kept
<1>4. /\ Kept(after) /\ after \in QuestGames /\ after.enchanted = g.enchanted + 1
      /\ after.state = g.state /\ after.lost = g.lost /\ after.recipes = g.recipes
      /\ after.recipeToday = g.recipeToday /\ after.unguarded = g.unguarded /\ after.others = g.others
  BY <1>1, <1>3, Enchanting, EnchantingKeeps DEF But, GameFields
<1>5. lost \in BOOLEAN /\ (~lost => g = game /\ ~g.lost)
      /\ game' = [after EXCEPT !.lost = lost, !.glyphToday = TRUE]
  BY <1>2, <1>4 DEF QuestGames
<1> HIDE DEF after, lost
<1>6. /\ game' \in QuestGames /\ game'.state = after.state /\ game'.recipes = after.recipes
      /\ game'.enchanted = after.enchanted /\ game'.glyphToday /\ game'.lost = lost
      /\ game'.recipeToday = after.recipeToday /\ game'.unguarded = after.unguarded
      /\ game'.others = after.others
  BY <1>4, <1>5 DEF QuestGames
<1>7. Kept(game')
  BY <1>4, <1>6 DEF Kept
<1>8. succeeded \in SUBSET (TheQuests!AllQuests \union {"glyph"})
      /\ succeeded \ {"glyph"} = run.succeeded \ {"glyph"} /\ run.succeeded \subseteq succeeded
  BY <1>1 DEF QuestRuns
<1> HIDE DEF succeeded
<1>9. Only({"succeeded"}) /\ run'.succeeded = succeeded
  BY <1>1, <1>8 DEF Only, QuestRuns, RunFields
<1>10. run' \in QuestRuns /\ run'.plan = run.plan /\ run'.targets = run.targets
      /\ run'.after = run.after /\ run'.undetected = run.undetected /\ run'.dry = run.dry
      /\ run'.failures = run.failures /\ run'.raised = run.raised
  BY <1>9 DEF Only, RunFields
<1>11. QuestTyped' /\ Listed' /\ Covered'
  BY <1>1, <1>6, <1>8, <1>9, <1>10 DEF QuestTyped, Listed, Covered, Pending, Within, TheQuests!Phases
<1>12. Real'
  BY <1>1, <1>7, <1>8, <1>9 DEF Real, Kept, QuestRuns
<1>13. GlyphGuarded'
  <2>. SUFFICES ASSUME ~game'.lost, "glyph" \notin game'.unguarded, game'.others = OtherRuns
                PROVE  GlyphGuarded'
    BY DEF GlyphGuarded
  <2>1. g = game /\ ~game.lost /\ "glyph" \notin game.unguarded /\ game.others = OtherRuns
    BY <1>4, <1>5, <1>6
  <2>2. game.enchanted <= 1 /\ game.enchanted # 1 /\ game.enchanted \in Nat
    BY <1>1, <2>1 DEF GlyphGuarded, QuestGames
  <2>3. game'.enchanted = 1
    BY <1>4, <1>6, <2>1, <2>2
  <2>. QED  BY <1>1, <1>6, <2>3 DEF GlyphGuarded
<1>14. RecipeGuarded'
  <2>. SUFFICES ASSUME ~game'.lost, "recipe" \notin game'.unguarded PROVE RecipeGuarded'
    BY DEF RecipeGuarded
  <2>1. g = game /\ ~game.lost /\ "recipe" \notin game.unguarded /\ ~Ended /\ ~Ended'
    BY <1>1, <1>4, <1>5, <1>6 DEF Ended
  <2>2. RecipeState' = RecipeState /\ game'.recipes = game.recipes
        /\ game'.recipeToday = game.recipeToday
    BY <1>4, <1>6, <2>1 DEF RecipeState
  <2>. QED  BY <1>1, <1>10, <2>1, <2>2 DEF RecipeGuarded, Within
<1>. QED  BY <1>11, <1>12, <1>13, <1>14 DEF QuestInv

LEMMA GlyphEnchants == ASSUME QuestInv, TheQuests!Enchant PROVE QuestInv'
<1>1. pc = "enchant" /\ game \in QuestGames
  BY DEF TheQuests!Enchant, QuestInv, QuestTyped
<1> DEFINE After(g) == [TheQuests!Enchanted(g) EXCEPT !.lost = @ \/ g # game]
<1>2. PICK g \in TheQuests!Arrivals(TheQuests!Enchanted, game) :
        \/ /\ game' = [After(g) EXCEPT !.glyphToday = TRUE]
           /\ TheQuests!Goto("done", [run EXCEPT !.succeeded = @ \union {"glyph"}])
        \/ TheQuests!WriteFails(After(g), "glyph")
  BY DEF TheQuests!Enchant
<1> DEFINE spent == TheQuests!Enchanted(g)
           lost == spent.lost \/ g # game
           after == [spent EXCEPT !.lost = lost]
<1>3. Kept(g) /\ g \in QuestGames
  BY <1>1, <1>2, GlyphsArrive DEF Kept
<1>4. Kept(spent) /\ spent \in QuestGames /\ But(g, spent, {"enchanted"})
  BY <1>1, <1>3, Enchanting, EnchantingKeeps DEF Kept
<1>5. After(g) = after
  OBVIOUS
<1> HIDE DEF spent
<1>6. /\ spent.lost = g.lost /\ spent.others = g.others /\ spent.state = g.state
      /\ spent.recipes = g.recipes /\ spent.recipeToday = g.recipeToday
      /\ spent.unguarded = g.unguarded
  BY <1>4 DEF But, GameFields
<1>7. lost \in BOOLEAN /\ (~lost => g = game /\ ~g.lost)
  BY <1>4, <1>6 DEF QuestGames
<1>8. after = [spent EXCEPT !.lost = lost]
  OBVIOUS
<1>9. CASE TheQuests!WriteFails(After(g), "glyph")
  <2> HIDE DEF lost, after
  <2>1. But(spent, after, {"lost"}) /\ after.lost = lost
    BY <1>4, <1>7, <1>8 DEF But, QuestGames, GameFields
  <2>2. /\ after \in QuestGames /\ after.state = spent.state /\ after.others = spent.others
        /\ after.recipes = spent.recipes /\ after.recipeToday = spent.recipeToday
        /\ after.unguarded = spent.unguarded
    BY <2>1 DEF But, GameFields
  <2>3. Kept(after)
    BY <1>4, <2>2 DEF Kept
  <2>4. ~after.lost => /\ ~game.lost /\ after.unguarded = game.unguarded
                       /\ after.others = game.others /\ after.state = game.state
                       /\ after.recipes = game.recipes /\ after.recipeToday = game.recipeToday
    BY <1>6, <1>7, <2>1, <2>2
  <2>5. TheQuests!WriteFails(after, "glyph")
    BY <1>5, <1>9
  <2>6. ~Ended
    BY <1>1 DEF Ended
  <2>. QED  BY <2>3, <2>4, <2>5, <2>6, NoteLost
<1>10. CASE ~TheQuests!WriteFails(After(g), "glyph")
  <2>1. game' = [TheQuests!Enchanted(g) EXCEPT !.lost = @ \/ g # game, !.glyphToday = TRUE]
        /\ TheQuests!Goto("done", [run EXCEPT !.succeeded = @ \union {"glyph"}])
    BY <1>2, <1>10, <1>4 DEF QuestGames, spent
  <2>. QED  BY <1>1, <1>2, <2>1, GlyphGoesOn
<1>. QED  BY <1>9, <1>10

------------------------------------------------------------------------------
LEMMA QuestSteps == ASSUME QuestInvariant, [Next]_vars PROVE QuestInvariant'
<1>. SUFFICES ASSUME command' = "quests" PROVE QuestInv'
  BY DEF QuestInvariant
<1>1. command = "quests" /\ QuestInv
  BY DEF QuestInvariant, Next, vars
<1>2. ASSUME TheQuests!Next PROVE QuestInv'
  <2>1. ASSUME NEW q \in TheQuests!AllQuests, TheQuests!Claim(q) \/ TheQuests!ClaimFails(q)
        PROVE  QuestInv'
    BY <1>1, <2>1, QuestClaims, QuestClaimFails
  <2>2. ASSUME NEW q \in Daily, TheQuests!Target(q) PROVE QuestInv'
    BY <1>1, <2>2, QuestTarget
  <2>3. ASSUME NEW q \in Guild, TheQuests!GuildAdvances(q) PROVE QuestInv'
    BY <1>1, <2>3, GuildMovesOn
  <2>4. ASSUME NEW phase \in {"fetch", "claim", "farm", "refetch", "glyph", "enchant"},
               TheQuests!Raises(phase)
        PROVE  QuestInv'
    BY <1>1, <2>4, AuthEnds
  <2>5. CASE \/ TheQuests!Fetch \/ TheQuests!FetchFails \/ TheQuests!ClaimsDone
             \/ TheQuests!TargetsDone \/ TheQuests!GuildSkipped \/ TheQuests!GuildStarts
    BY <1>1, <2>5, QuestFetch, ListFails, QuestPhases, GuildBegins
  <2>6. CASE \/ TheQuests!StepDone \/ TheQuests!StepFallsBack \/ TheQuests!StepFails
             \/ TheQuests!NextStep \/ TheQuests!RecipeStep \/ TheQuests!RecipeFails
    BY <1>1, <2>6, QuestStepDone, QuestStepMisses, QuestNextStep, QuestRecipeStep
  <2>7. CASE \/ TheQuests!Refetch \/ TheQuests!RefetchFails \/ TheQuests!GlyphSkipped
             \/ TheQuests!GlyphDue \/ TheQuests!GlyphFails \/ TheQuests!Enchant
             \/ TheQuests!EnchantFails \/ TheQuests!Rerun \/ TheQuests!OtherRun
    BY <1>1, <2>7, GuildLooks, GlyphTurns, GlyphGivesUp, GlyphEnchants, QuestReruns, OthersRun
  <2>. QED  BY <1>2, <2>1, <2>2, <2>3, <2>4, <2>5, <2>6, <2>7 DEF TheQuests!Next
<1>3. CASE Next
  BY <1>1, <1>2, <1>3 DEF Next
<1>4. CASE UNCHANGED vars
  <2>1. UNCHANGED <<pc, game, run>> /\ QuestInv
    BY <1>1, <1>4 DEF vars
  <2>2. QuestTyped' /\ Real' /\ Listed' /\ Covered' /\ GlyphGuarded'
    BY <2>1 DEF QuestInv, QuestTyped, Real, Listed, Covered, Pending, GlyphGuarded
  <2>3. RecipeGuarded'
    BY <2>1 DEF QuestInv, RecipeGuarded, RecipeState, Ended, Ahead, TheQuests!GuildDue
  <2>. QED  BY <2>2, <2>3 DEF QuestInv
<1>. QED  BY <1>3, <1>4

LEMMA QuestAlways == Spec => []QuestInvariant
BY QuestInit, QuestSteps, PTL DEF Spec

LEMMA QuestIsTyped == ASSUME QuestInvariant, command = "quests" PROVE TheQuests!QuestsTypeOK
BY DEF QuestInvariant, QuestInv, QuestTyped, QuestGames, QuestRuns, TheQuests!QuestsTypeOK

LEMMA QuestIsReal == ASSUME QuestInvariant, command = "quests" PROVE TheQuests!ClaimedIsReal
BY DEF QuestInvariant, QuestInv, Real, TheQuests!ClaimedIsReal

LEMMA QuestIsDone ==
  ASSUME QuestInvariant, command = "quests", pc = "done", run.failures = {}, ~run.raised, ~run.dry
  PROVE  TheQuests!AllClaimed
BY DEF QuestInvariant, QuestInv, Covered, Pending, Within, TheQuests!AllClaimed

\* However many runs the cycle sees, and whichever phase carries it out, the guild's recipe is
\* run to its end once and the glyph material is spent once, but for what the runs could not
\* hear of, read or write down (recipe_executed_in_daily, _guild_ran_recipe_today, last_run_at).
THEOREM OnceACycle == Spec => []OncePerCycle
<1>1. ASSUME QuestInvariant PROVE OncePerCycle
  <2>. SUFFICES ASSUME command = "quests"
                PROVE  TheQuests!RecipeOncePerCycle /\ TheQuests!GlyphOncePerCycle
    BY DEF OncePerCycle
  <2>1. QuestInv /\ game \in QuestGames
    BY <1>1 DEF QuestInvariant, QuestInv, QuestTyped
  <2>2. game.recipes \in Nat /\ game.enchanted \in Nat /\ game.others \in 0..OtherRuns
    BY <2>1 DEF QuestGames
  <2>3. TheQuests!RecipeOncePerCycle
    BY <2>1, <2>2 DEF QuestInv, RecipeGuarded, TheQuests!RecipeOncePerCycle
  <2>4. TheQuests!GlyphOncePerCycle
    BY <2>1, <2>2, QuestsAssumption DEF QuestInv, GlyphGuarded, TheQuests!GlyphOncePerCycle
  <2>. QED  BY <2>3, <2>4
<1>. QED  BY QuestAlways, <1>1, PTL

-------------------------------------------------------------------------------
\* Shops: what a dry run foretells.  Queue and Affordable are defined step by step; the first
\* lemmas say that such a definition has a value, and of what type.

\* Of any natural numbers, one is the least.
LEMMA LeastOf ==
  ASSUME NEW T, T \subseteq Nat, T # {}
  PROVE  \E n \in T : \A m \in T : n <= m
<1> DEFINE D == {0..n : n \in T}
<1>1. IsWellFoundedOn(StrictSubsetOrdering(Nat), FiniteSubsetsOf(Nat))
  BY FS_StrictSubsetOrderingWellFounded
<1>2. D \subseteq FiniteSubsetsOf(Nat)
  <2>1. \A n \in Nat : IsFiniteSet(0..n)
    BY FS_Interval
  <2>2. \A n \in Nat : 0..n \in SUBSET Nat
    OBVIOUS
  <2>. QED  BY <2>1, <2>2 DEF FiniteSubsetsOf
<1>3. D # {}
  OBVIOUS
<1>4. \E x \in D : \A y \in D : <<y, x>> \notin StrictSubsetOrdering(Nat)
  <2> HIDE DEF D
  <2>. QED  BY <1>1, <1>2, <1>3, WFMin
<1>5. PICK n \in T : \A m \in T : <<0..m, 0..n>> \notin StrictSubsetOrdering(Nat)
  BY <1>4
<1>6. ASSUME NEW m \in T, m < n PROVE FALSE
  <2>1. 0..m \subseteq Nat /\ 0..n \subseteq Nat /\ 0..m \subseteq 0..n
    BY <1>6
  <2>2. n \in 0..n /\ n \notin 0..m
    BY <1>6
  <2>. QED  BY <1>5, <2>1, <2>2 DEF StrictSubsetOrdering
<1>. QED  BY <1>5, <1>6

LEMMA Induct ==
  ASSUME NEW S, 0 \in S, \A n \in Nat : n \in S => n + 1 \in S
  PROVE  Nat \subseteq S
<1>. SUFFICES ASSUME Nat \ S # {} PROVE FALSE
  OBVIOUS
<1>1. PICK n \in Nat \ S : \A m \in Nat \ S : n <= m
  BY LeastOf
<1>2. n - 1 \in Nat /\ n - 1 \in S
  BY <1>1
<1>. QED  BY <1>1, <1>2

Iterates(f, N, first, step) == f[0] = first /\ \A n \in 1..N : f[n] = step[<<n, f[n - 1]>>]

StepsIn(step, N, T) == \A n \in 1..N : \A q \in T : step[<<n, q>>] \in T

LEMMA Stepwise ==
  ASSUME NEW N \in Nat, NEW T, NEW first \in T, NEW step, StepsIn(step, N, T)
  PROVE  \E f \in [0..N -> T] : Iterates(f, N, first, step)
<1> DEFINE Good == {m \in Nat : m <= N => \E f \in [0..m -> T] : Iterates(f, m, first, step)}
<1>1. 0 \in Good
  <2> DEFINE f == [n \in 0..0 |-> first]
  <2>1. f \in [0..0 -> T] /\ f[0] = first /\ 1..0 = {}
    OBVIOUS
  <2> HIDE DEF f
  <2>. QED  BY <2>1 DEF Iterates
<1>2. ASSUME NEW m \in Nat, m \in Good PROVE m + 1 \in Good
  <2>. SUFFICES ASSUME m + 1 <= N
                PROVE  \E h \in [0..(m + 1) -> T] : Iterates(h, m + 1, first, step)
    OBVIOUS
  <2>1. PICK f \in [0..m -> T] : Iterates(f, m, first, step)
    BY <1>2
  <2> DEFINE last == step[<<m + 1, f[m]>>]
             h == [n \in 0..(m + 1) |-> IF n = m + 1 THEN last ELSE f[n]]
  <2>2. last \in T
    <3>1. m + 1 \in 1..N /\ f[m] \in T
      BY <2>1
    <3>. QED  BY <3>1 DEF StepsIn
  <2> HIDE DEF last
  <2>3. h \in [0..(m + 1) -> T]
    BY <2>1, <2>2
  <2>4. h[m + 1] = last /\ \A n \in 0..m : h[n] = f[n]
    OBVIOUS
  <2> HIDE DEF h
  <2>5. h[0] = first
    BY <2>1, <2>4 DEF Iterates
  <2>6. ASSUME NEW n \in 1..(m + 1) PROVE h[n] = step[<<n, h[n - 1]>>]
    <3>1. n - 1 \in 0..m
      OBVIOUS
    <3>2. h[n - 1] = f[n - 1]
      BY <2>4, <3>1
    <3>3. CASE n = m + 1
      <4>1. n - 1 = m
        BY <3>3
      <4>. QED  BY <2>4, <3>2, <3>3, <4>1 DEF last
    <3>4. CASE n # m + 1
      <4>1. n \in 1..m /\ n \in 0..m
        BY <3>4
      <4>. QED  BY <2>1, <2>4, <3>2, <4>1 DEF Iterates
    <3>. QED  BY <3>3, <3>4
  <2>. QED  BY <2>3, <2>5, <2>6 DEF Iterates
<1>3. \A n \in Nat : n \in Good => n + 1 \in Good
  BY <1>2
<1>4. N \in Good
  <2> HIDE DEF Good
  <2>. QED  BY <1>1, <1>3, Induct
<1>. QED  BY <1>4

LEMMA Stays ==
  ASSUME NEW N \in Nat, NEW T, NEW u, u[0] \in T,
         \A n \in 1..N : u[n - 1] \in T => u[n] \in T
  PROVE  \A n \in 0..N : u[n] \in T
<1> DEFINE Good == {m \in Nat : m <= N => u[m] \in T}
<1>1. 0 \in Good
  OBVIOUS
<1>2. ASSUME NEW m \in Nat, m \in Good PROVE m + 1 \in Good
  <2>. SUFFICES ASSUME m + 1 <= N PROVE u[m + 1] \in T
    OBVIOUS
  <2>1. m + 1 \in 1..N /\ (m + 1) - 1 = m /\ u[m] \in T
    BY <1>2
  <2>. QED  BY <2>1
<1>3. \A n \in 0..N : n \in Good
  <2> HIDE DEF Good
  <2>. QED  BY <1>1, <1>2, Induct
<1>. QED  BY <1>3

LEMMA QueueListsOffers ==
  ASSUME NEW S, NEW left \in [TheShop!Offers -> Nat]
  PROVE  TheShop!Queue(S, left) \in Seq(TheShop!Offers)
<1> DEFINE T == Seq(TheShop!Offers)
           some(n) == TheShop!Repeat(n, IF n \in S THEN left[n] ELSE 0)
           step == [x \in (1..Slots) \X T |-> x[2] \o some(x[1])]
           IsUpto(f) == f = [n \in 0..Slots |-> IF n = 0 THEN <<>> ELSE f[n - 1] \o some(n)]
<1>1. \A n \in 1..Slots : some(n) \in T
  BY ShopAssumption DEF TheShop!Offers, TheShop!Repeat
<1> HIDE DEF some
<1>2. ASSUME NEW n \in 1..Slots, NEW q \in T
      PROVE  step[<<n, q>>] = q \o some(n) /\ q \o some(n) \in T
  <2>1. some(n) \in T
    BY <1>1
  <2>2. q \o some(n) \in T
    BY <2>1
  <2>3. <<n, q>> \in (1..Slots) \X T
    OBVIOUS
  <2>. QED  BY <2>2, <2>3
<1>3. StepsIn(step, Slots, T)
  BY <1>2 DEF StepsIn
<1>4. Slots \in Nat /\ <<>> \in T
  BY ShopAssumption
<1> HIDE DEF step, T
<1>5. PICK f \in [0..Slots -> T] : Iterates(f, Slots, <<>>, step)
  BY <1>3, <1>4, Stepwise
<1>6. ASSUME NEW n \in 1..Slots PROVE f[n] = f[n - 1] \o some(n)
  <2>1. f[n - 1] \in T
    BY <1>4, <1>5
  <2>. QED  BY <1>2, <1>5, <2>1 DEF Iterates
<1>7. IsUpto(f)
  BY <1>4, <1>5, <1>6 DEF Iterates
<1> DEFINE u == CHOOSE g : IsUpto(g)
<1>8. IsUpto(u)
  BY <1>7
<1>9. TheShop!Queue(S, left) = u[Slots]
  BY DEF TheShop!Queue, some
<1> HIDE DEF u
<1>10. u[0] \in T
  BY <1>4, <1>8
<1>11. ASSUME NEW n \in 1..Slots, u[n - 1] \in T PROVE u[n] \in T
  <2>1. u[n] = u[n - 1] \o some(n)
    <3>1. n \in 0..Slots /\ n # 0
      BY <1>4
    <3>. QED  BY <1>8, <3>1
  <2>. QED  BY <1>2, <1>11, <2>1
<1>12. \A n \in 0..Slots : u[n] \in T
  BY <1>4, <1>10, <1>11, Stays
<1>. QED  BY <1>4, <1>9, <1>12 DEF T

ShopGames == [funds : [TheShop!Purses -> 0..Funds], left : [TheShop!Offers -> Nat]]

Listings == [funds : Balances, list : Seq(TheShop!Offers)]

\* From this budget, and with this already listed, the dry run lists what is planned.
Leads(after, queue, budget, bought, planned) ==
    /\ after[0] = [funds |-> budget, list |-> bought]
    /\ \A n \in 1..Len(queue) : after[n] = TheShop!Listed(after[n - 1], queue[n])
    /\ after[Len(queue)].list = planned

LEMMA ListedIsListing ==
  ASSUME NEW acc \in Listings, NEW o \in TheShop!Offers PROVE TheShop!Listed(acc, o) \in Listings
<1>1. Purse[o] \in TheShop!Purses /\ Price[o] \in Nat
  BY ShopAssumption DEF TheShop!Purses, TheShop!Offers
<1> DEFINE less == [acc.funds EXCEPT ![Purse[o]] = @ - Price[o]]
<1>2. less \in Balances
  BY <1>1 DEF Listings, Balances
<1>3. Append(acc.list, o) \in Seq(TheShop!Offers)
  BY DEF Listings
<1>4. TheShop!Listed(acc, o) \in {acc, [funds |-> less, list |-> Append(acc.list, o)]}
  BY DEF TheShop!Listed
<1> HIDE DEF less
<1>. QED  BY <1>2, <1>3, <1>4 DEF Listings

LEMMA AffordableIsLed ==
  ASSUME NEW queue \in Seq(TheShop!Offers), NEW funds \in Balances
  PROVE  /\ TheShop!Affordable(queue, funds) \in Seq(TheShop!Offers)
         /\ \E after \in [0..Len(queue) -> Listings] :
               Leads(after, queue, funds, <<>>, TheShop!Affordable(queue, funds))
<1> DEFINE N == Len(queue)
           first == [funds |-> funds, list |-> <<>>]
           step == [x \in (1..N) \X Listings |-> TheShop!Listed(x[2], queue[x[1]])]
           IsUpto(f) == f = [n \in 0..N |-> IF n = 0 THEN first
                                            ELSE TheShop!Listed(f[n - 1], queue[n])]
<1>1. N \in Nat /\ \A n \in 1..N : queue[n] \in TheShop!Offers
  OBVIOUS
<1>2. first \in Listings
  BY DEF Listings
<1>3. ASSUME NEW n \in 1..N, NEW q \in Listings
      PROVE  /\ step[<<n, q>>] = TheShop!Listed(q, queue[n])
             /\ TheShop!Listed(q, queue[n]) \in Listings
  <2>1. TheShop!Listed(q, queue[n]) \in Listings
    BY <1>1, ListedIsListing
  <2>2. <<n, q>> \in (1..N) \X Listings
    OBVIOUS
  <2>. QED  BY <2>1, <2>2
<1>4. StepsIn(step, N, Listings)
  BY <1>3 DEF StepsIn
<1>5. TheShop!Affordable(queue, funds) = (CHOOSE g : IsUpto(g))[N].list
  BY DEF TheShop!Affordable
<1> HIDE DEF N, first, step
<1>6. PICK f \in [0..N -> Listings] : Iterates(f, N, first, step)
  BY <1>1, <1>2, <1>4, Stepwise
<1>7. ASSUME NEW n \in 1..N PROVE f[n] = TheShop!Listed(f[n - 1], queue[n])
  <2>1. f[n - 1] \in Listings
    BY <1>1, <1>6
  <2>. QED  BY <1>3, <1>6, <2>1 DEF Iterates
<1>8. IsUpto(f)
  BY <1>1, <1>6, <1>7 DEF Iterates
<1> DEFINE u == CHOOSE g : IsUpto(g)
<1>9. IsUpto(u)
  BY <1>8
<1>10. TheShop!Affordable(queue, funds) = u[N].list
  BY <1>5
<1> HIDE DEF u
<1>11. u[0] = first
  BY <1>1, <1>9
<1>12. ASSUME NEW n \in 1..N PROVE u[n] = TheShop!Listed(u[n - 1], queue[n])
  <2>1. n \in 0..N /\ n # 0
    BY <1>1
  <2>. QED  BY <1>9, <2>1
<1>13. \A n \in 0..N : u[n] \in Listings
  <2>1. u[0] \in Listings
    BY <1>2, <1>11
  <2>2. \A n \in 1..N : u[n - 1] \in Listings => u[n] \in Listings
    BY <1>3, <1>12
  <2>. QED  BY <1>1, <2>1, <2>2, Stays
<1>14. u \in [0..N -> Listings] /\ u[N] \in Listings
  BY <1>1, <1>9, <1>13
<1>15. Leads(u, queue, funds, <<>>, TheShop!Affordable(queue, funds))
  BY <1>10, <1>11, <1>12 DEF Leads, N, first
<1>16. u[N].list \in Seq(TheShop!Offers)
  BY <1>14 DEF Listings
<1>. QED  BY <1>10, <1>14, <1>15, <1>16 DEF N
ShopRuns == [kind : {"souls", "Osh", "Maestro", "other"}, gold : BOOLEAN, dry : BOOLEAN,
             queue : Seq(TheShop!Offers), budget : Balances,
             unread : SUBSET TheShop!Purses, short : SUBSET TheShop!Purses,
             bought : Seq(TheShop!Offers), planned : Seq(TheShop!Offers),
             failed : BOOLEAN, error : BOOLEAN, raised : BOOLEAN]

\* As long as nothing has failed, the rest of the queue makes of what is bought what the dry
\* run lists.
Foretold(r) == /\ r.short = {}
               /\ \E after \in [0..Len(r.queue) -> Listings] :
                     Leads(after, r.queue, r.budget, r.bought, r.planned)

DryInv == /\ pc \in {"look", "buy", "done"} /\ game \in ShopGames /\ run \in ShopRuns
          /\ pc = "look" => ~run.failed /\ run.short = {} /\ run.bought = <<>>
          /\ pc = "buy" /\ run.kind # "souls" /\ ~run.failed => Foretold(run)
          /\ pc = "done" => TheShop!DryRunForetells

DryInvariant == command = "shop" => DryInv

LEMMA DryInit == Init => DryInvariant
<1>. SUFFICES ASSUME Init, command = "shop" PROVE DryInv
  BY DEF DryInvariant
<1>1. TheShop!Init
  BY DEF Init
<1>2. pc = "look" /\ game \in [funds : [TheShop!Purses -> 0..Funds], left : {Copies}]
  BY <1>1 DEF TheShop!Init
<1>3. game \in ShopGames
  <2>1. Copies \in [TheShop!Offers -> Nat]
    BY ShopAssumption DEF TheShop!Offers
  <2>. QED  BY <1>2, <2>1 DEF ShopGames
<1>4. PICK kind \in {"souls", "Osh", "Maestro", "other"}, gold \in BOOLEAN, dry \in BOOLEAN :
        run = [kind |-> kind, gold |-> gold, dry |-> dry, queue |-> <<>>,
               budget |-> game.funds, unread |-> {}, short |-> {}, bought |-> <<>>, planned |-> <<>>,
               failed |-> FALSE, error |-> FALSE, raised |-> FALSE]
  BY <1>1 DEF TheShop!Init
<1>5. game.funds \in Balances
  BY <1>3, ShopAssumption DEF ShopGames, Balances
<1>6. <<>> \in Seq(TheShop!Offers)
  OBVIOUS
<1>7. run \in ShopRuns
  BY <1>4, <1>5, <1>6 DEF ShopRuns
<1>8. ~run.failed /\ run.short = {} /\ run.bought = <<>>
  BY <1>4
<1>. QED  BY <1>2, <1>3, <1>7, <1>8 DEF DryInv

\* A sale needs a copy and the price.
LEMMA SaleInShop ==
  ASSUME NEW g \in ShopGames, NEW o \in TheShop!Offers PROVE TheShop!Sold(g, o) \in ShopGames
<1>. SUFFICES ASSUME g.left[o] # 0, ~(g.funds[Purse[o]] < Price[o])
              PROVE  TheShop!Sold(g, o) \in ShopGames
  BY DEF TheShop!Sold
<1>1. Purse[o] \in TheShop!Purses /\ Price[o] \in Nat /\ Funds \in Nat
  BY ShopAssumption DEF TheShop!Purses, TheShop!Offers
<1> DEFINE less == [g.funds EXCEPT ![Purse[o]] = @ - Price[o]]
           left == [g.left EXCEPT ![o] = @ - 1]
<1>2. less \in [TheShop!Purses -> 0..Funds]
  <2>1. g.funds \in [TheShop!Purses -> 0..Funds]
    BY DEF ShopGames
  <2>2. g.funds[Purse[o]] - Price[o] \in 0..Funds
    BY <1>1, <2>1
  <2>. QED  BY <1>1, <2>1, <2>2
<1>3. left \in [TheShop!Offers -> Nat]
  BY DEF ShopGames
<1>4. TheShop!Sold(g, o) = [funds |-> less, left |-> left]
  BY DEF TheShop!Sold
<1> HIDE DEF less, left
<1>. QED  BY <1>2, <1>3, <1>4 DEF ShopGames

LEMMA SalesInShop ==
  ASSUME game \in ShopGames, NEW o \in TheShop!Offers
  PROVE  /\ TheShop!Sold(game, o) \in ShopGames
         /\ TheShop!Sold(TheShop!Sold(game, o), o) \in ShopGames
BY SaleInShop

LEMMA DryLooks == ASSUME DryInv, TheShop!Look PROVE DryInv'
<1>. PICK unread \in TheShop!Unreadable :
           LET funds == TheShop!Shown(game.funds, unread)
               queue == TheShop!Wanted(run.kind, run.gold, [game EXCEPT !.funds = funds])
           IN /\ run' = [run EXCEPT !.queue = queue, !.budget = funds, !.unread = unread,
                                    !.planned = TheShop!Affordable(queue, funds)]
              /\ pc' = IF run.dry \/ queue = <<>> THEN "done" ELSE "buy"
  BY DEF TheShop!Look
<1> DEFINE funds == TheShop!Shown(game.funds, unread)
           seen == [game EXCEPT !.funds = funds]
           queue == TheShop!Wanted(run.kind, run.gold, seen)
           planned == TheShop!Affordable(queue, funds)
<1>1. /\ game \in ShopGames /\ run \in ShopRuns /\ pc = "look" /\ game' = game
      /\ ~run.failed /\ run.short = {} /\ run.bought = <<>>
  BY DEF DryInv, TheShop!Look
<1>2. /\ run' = [run EXCEPT !.queue = queue, !.budget = funds, !.unread = unread,
                            !.planned = planned]
      /\ pc' = IF run.dry \/ queue = <<>> THEN "done" ELSE "buy"
      /\ unread \subseteq TheShop!Purses
  BY DEF TheShop!Unreadable
<1>3. funds \in Balances
  BY <1>1, ShopAssumption DEF ShopGames, Balances, TheShop!Shown
<1> HIDE DEF funds
<1>4. queue \in Seq(TheShop!Offers)
  <2>1. seen.left \in [TheShop!Offers -> Nat]
    BY <1>1 DEF ShopGames
  <2> HIDE DEF seen
  <2>2. [o \in TheShop!Offers |-> 1] \in [TheShop!Offers -> Nat]
    OBVIOUS
  <2>3. \A S : /\ TheShop!Queue(S, seen.left) \in Seq(TheShop!Offers)
               /\ TheShop!Queue(S, [o \in TheShop!Offers |-> 1]) \in Seq(TheShop!Offers)
    BY <2>1, <2>2, QueueListsOffers
  <2>. QED  BY <1>1, <2>3 DEF TheShop!Wanted, ShopRuns
<1> HIDE DEF queue
<1>5. /\ planned \in Seq(TheShop!Offers)
      /\ \E after \in [0..Len(queue) -> Listings] :
            Leads(after, queue, funds, <<>>, planned)
  BY <1>3, <1>4, AffordableIsLed
<1> HIDE DEF planned
<1>6. /\ run' \in ShopRuns /\ ~run'.failed /\ run'.short = {} /\ run'.bought = <<>>
      /\ run'.queue = queue /\ run'.budget = funds /\ run'.planned = planned
      /\ run'.dry = run.dry /\ run'.kind = run.kind
  <2>1. /\ ~run'.failed /\ run'.short = {} /\ run'.bought = <<>>
        /\ run'.queue = queue /\ run'.budget = funds /\ run'.planned = planned
        /\ run'.dry = run.dry /\ run'.kind = run.kind
    BY <1>1, <1>2 DEF ShopRuns
  <2>2. /\ run \in ShopRuns /\ unread \in SUBSET TheShop!Purses
        /\ queue \in Seq(TheShop!Offers) /\ planned \in Seq(TheShop!Offers)
        /\ run' = [run EXCEPT !.queue = queue, !.budget = funds, !.unread = unread,
                              !.planned = planned]
    BY <1>1, <1>2, <1>4, <1>5
  <2>3. run' \in ShopRuns
    BY <1>3, <2>2 DEF ShopRuns
  <2>. QED  BY <2>1, <2>3
<1>7. Foretold(run')
  BY <1>5, <1>6 DEF Foretold
<1>8. pc' = "done" => TheShop!DryRunForetells'
  <2>. SUFFICES ASSUME ~run.dry, pc' = "done" PROVE run'.bought = run'.planned
    BY <1>6 DEF TheShop!DryRunForetells
  <2>1. queue = <<>>
    BY <1>2
  <2>. QED  BY <1>5, <1>6, <2>1 DEF Leads
<1>9. pc' \in {"buy", "done"} /\ Foretold(run)'
  BY <1>2, <1>7 DEF Foretold, Leads, Listings, Balances, TheShop!Purses, TheShop!Offers
<1>10. game' \in ShopGames
  BY <1>1
<1>. QED  BY <1>6, <1>8, <1>9, <1>10 DEF DryInv

\* The rest of the queue starts from what the dry run makes of its head.
LEMMA LeadsOn ==
  ASSUME NEW queue \in Seq(TheShop!Offers), queue # <<>>, NEW budget, NEW bought, NEW planned,
         NEW after \in [0..Len(queue) -> Listings], Leads(after, queue, budget, bought, planned)
  PROVE  LET head == TheShop!Listed([funds |-> budget, list |-> bought], Head(queue)) IN
         \E rest \in [0..Len(Tail(queue)) -> Listings] :
            Leads(rest, Tail(queue), head.funds, head.list, planned)
<1> DEFINE N == Len(Tail(queue))
           rest == [n \in 0..N |-> after[n + 1]]
           head == TheShop!Listed([funds |-> budget, list |-> bought], Head(queue))
<1>1. /\ N \in Nat /\ Len(queue) = N + 1 /\ queue[1] = Head(queue)
      /\ \A n \in 1..N : Tail(queue)[n] = queue[n + 1]
  OBVIOUS
<1>2. /\ after[0] = [funds |-> budget, list |-> bought]
      /\ \A n \in 1..(N + 1) : after[n] = TheShop!Listed(after[n - 1], queue[n])
      /\ after[N + 1].list = planned
  BY <1>1 DEF Leads
<1>3. \A n \in 0..N : n + 1 \in 1..(N + 1) /\ n + 1 \in 0..(N + 1) /\ (n + 1) - 1 = n
  BY <1>1
<1>4. rest \in [0..N -> Listings]
  <2>1. \A n \in 0..N : after[n + 1] \in Listings
    BY <1>1, <1>3
  <2>. QED  BY <2>1
<1>5. after[1] = head
  <2>1. 1 \in 1..(N + 1) /\ 1 - 1 = 0
    BY <1>1
  <2>. QED  BY <1>1, <1>2, <2>1
<1> HIDE DEF head
<1>6. rest[0] = head /\ head \in Listings
  <2>1. 0 \in 0..N /\ 0 + 1 = 1 /\ 1 \in 0..(N + 1)
    BY <1>1
  <2>. QED  BY <1>1, <1>5, <2>1
<1>7. rest[0] = [funds |-> head.funds, list |-> head.list]
  BY <1>6 DEF Listings
<1>8. ASSUME NEW n \in 1..N PROVE rest[n] = TheShop!Listed(rest[n - 1], Tail(queue)[n])
  <2>1. n \in 0..N /\ n - 1 \in 0..N /\ (n - 1) + 1 = n /\ n + 1 \in 1..(N + 1)
    BY <1>1
  <2>2. after[n + 1] = TheShop!Listed(after[n], queue[n + 1])
    <3>1. (n + 1) - 1 = n
      OBVIOUS
    <3>. QED  BY <1>2, <2>1, <3>1
  <2>3. rest[n] = after[n + 1] /\ rest[n - 1] = after[n]
    BY <2>1
  <2>. QED  BY <1>1, <2>2, <2>3
<1>9. rest[N].list = planned
  BY <1>1, <1>2
<1> HIDE DEF rest
<1>10. Leads(rest, Tail(queue), head.funds, head.list, planned)
  BY <1>7, <1>8, <1>9 DEF Leads, N
<1>. QED  BY <1>4, <1>10 DEF N, head

LEMMA ForetoldOn ==
  ASSUME run \in ShopRuns, run.queue # <<>>, Foretold(run), NEW r \in ShopRuns,
         r.short = {}, r.queue = Tail(run.queue), r.planned = run.planned,
         NEW head,
         head = TheShop!Listed([funds |-> run.budget, list |-> run.bought], Head(run.queue)),
         r.budget = head.funds, r.bought = head.list
  PROVE  Foretold(r)
<1>1. run.queue \in Seq(TheShop!Offers)
  BY DEF ShopRuns
<1>2. PICK after \in [0..Len(run.queue) -> Listings] :
        Leads(after, run.queue, run.budget, run.bought, run.planned)
  BY DEF Foretold
<1>. QED  BY <1>1, <1>2, LeadsOn DEF Foretold

\* A slot that is passed over, or bought, or not.
LEMMA DryTakes ==
  ASSUME DryInv, NEW o \in TheShop!Offers,
         TheShop!Skip(o) \/ TheShop!Buy(o) \/ TheShop!Refused(o) \/ TheShop!Unanswered(o)
  PROVE  DryInv'
<1>1. /\ game \in ShopGames /\ run \in ShopRuns /\ pc = "buy" /\ pc' = "buy"
      /\ run.queue # <<>> /\ o = Head(run.queue)
  BY DEF DryInv, TheShop!Skip, TheShop!Buy, TheShop!Refused, TheShop!Unanswered, TheShop!At
<1> DEFINE once == TheShop!Sold(game, o)
           twice == TheShop!Sold(once, o)
<1>2. game' \in ShopGames
  <2>1. game' \in {game, once, twice}
    BY DEF TheShop!Skip, TheShop!Buy, TheShop!Refused, TheShop!Unanswered, TheShop!Arrivals,
           TheShop!Losses
  <2>. QED  BY <1>1, <2>1, SalesInShop
<1>3. /\ Tail(run.queue) \in Seq(TheShop!Offers) /\ Append(run.bought, o) \in Seq(TheShop!Offers)
      /\ Purse[o] \in TheShop!Purses /\ Price[o] \in Nat
  BY <1>1, ShopAssumption DEF ShopRuns, TheShop!Purses, TheShop!Offers
<1> DEFINE less == [run.budget EXCEPT ![Purse[o]] = @ - Price[o]]
           acc == [funds |-> run.budget, list |-> run.bought]
<1>4. less \in Balances
  BY <1>1, <1>3 DEF ShopRuns, Balances
<1>5. CASE TheShop!Skip(o)
  <2>1. run' = [run EXCEPT !.queue = Tail(@)]
    BY <1>5 DEF TheShop!Skip
  <2>2. /\ run' \in ShopRuns /\ run'.failed = run.failed /\ run'.kind = run.kind
        /\ run'.short = run.short /\ run'.queue = Tail(run.queue) /\ run'.budget = run.budget
        /\ run'.bought = run.bought /\ run'.planned = run.planned
    BY <1>1, <1>3, <2>1 DEF ShopRuns
  <2>3. ASSUME run.kind # "souls", ~run.failed PROVE Foretold(run')
    <3>1. Foretold(run)
      BY <1>1, <2>3 DEF DryInv
    <3>2. run.budget[Purse[o]] < Price[o]
      BY <1>5, <2>3, <3>1 DEF TheShop!Skip, TheShop!TooDear, Foretold
    <3>3. acc = TheShop!Listed(acc, o)
      BY <3>2 DEF TheShop!Listed
    <3>4. run'.short = {} /\ run'.budget = acc.funds /\ run'.bought = acc.list
      BY <2>2, <3>1 DEF Foretold
    <3>. QED  BY <1>1, <2>2, <3>1, <3>3, <3>4, ForetoldOn
  <2>4. run'.kind # "souls" /\ ~run'.failed => Foretold(run')
    BY <2>2, <2>3
  <2>. QED  BY <1>1, <1>2, <2>2, <2>4 DEF DryInv, Foretold
<1>6. CASE TheShop!Buy(o)
  <2>1. run' = [run EXCEPT !.queue = Tail(@), !.bought = Append(@, o), !.budget = less]
    BY <1>6 DEF TheShop!Buy
  <2>2. /\ run' \in ShopRuns /\ run'.failed = run.failed /\ run'.kind = run.kind
        /\ run'.short = run.short /\ run'.queue = Tail(run.queue) /\ run'.budget = less
        /\ run'.bought = Append(run.bought, o) /\ run'.planned = run.planned
    <3> HIDE DEF less
    <3>. QED  BY <1>1, <1>3, <1>4, <2>1 DEF ShopRuns
  <2>3. ASSUME run.kind # "souls", ~run.failed PROVE Foretold(run')
    <3>1. Foretold(run)
      BY <1>1, <2>3 DEF DryInv
    <3>2. ~(run.budget[Purse[o]] < Price[o])
      BY <1>6, <2>3 DEF TheShop!Buy, TheShop!TooDear
    <3> DEFINE next == [funds |-> less, list |-> Append(run.bought, o)]
    <3>3. next = TheShop!Listed(acc, o)
      BY <3>2 DEF TheShop!Listed
    <3>4. run'.short = {} /\ run'.budget = next.funds /\ run'.bought = next.list
      BY <2>2, <3>1 DEF Foretold
    <3> HIDE DEF next
    <3>. QED  BY <1>1, <2>2, <3>1, <3>3, <3>4, ForetoldOn
  <2>4. run'.kind # "souls" /\ ~run'.failed => Foretold(run')
    BY <2>2, <2>3
  <2>. QED  BY <1>1, <1>2, <2>2, <2>4 DEF DryInv, Foretold
<1>7. CASE TheShop!Refused(o) \/ TheShop!Unanswered(o)
  <2>1. \E short \in SUBSET TheShop!Purses :
           run' = [run EXCEPT !.queue = Tail(@), !.failed = TRUE, !.short = short]
    <3>1. CASE TheShop!Refused(o)
      <4>1. PICK short \in BOOLEAN :
              run' = [run EXCEPT !.queue = Tail(@), !.failed = TRUE,
                                 !.short = IF short THEN @ \union {Purse[o]} ELSE @]
        BY <3>1 DEF TheShop!Refused
      <4> DEFINE S == IF short THEN run.short \union {Purse[o]} ELSE run.short
      <4>2. S \in SUBSET TheShop!Purses
        BY <1>1, <1>3 DEF ShopRuns
      <4>3. run' = [run EXCEPT !.queue = Tail(@), !.failed = TRUE, !.short = S]
        BY <4>1
      <4>. QED  BY <4>2, <4>3
    <3>2. CASE TheShop!Unanswered(o)
      <4>1. run' = [run EXCEPT !.queue = Tail(@), !.failed = TRUE]
        BY <3>2 DEF TheShop!Unanswered
      <4>2. run' = [run EXCEPT !.queue = Tail(@), !.failed = TRUE, !.short = run.short]
        BY <1>1, <4>1 DEF ShopRuns
      <4>. QED  BY <1>1, <4>2 DEF ShopRuns
    <3>. QED  BY <1>7, <3>1, <3>2
  <2>2. run' \in ShopRuns /\ run'.failed
    BY <1>1, <1>3, <2>1 DEF ShopRuns
  <2>. QED  BY <1>1, <1>2, <2>2 DEF DryInv
<1>. QED  BY <1>5, <1>6, <1>7

LEMMA DryEnds ==
  ASSUME DryInv,
         \/ TheShop!LookFails \/ TheShop!SoldUp
         \/ \E o \in TheShop!Offers : TheShop!Unauthorized(o)
  PROVE  DryInv'
<1>1. game \in ShopGames /\ run \in ShopRuns /\ pc' = "done"
  BY DEF DryInv, TheShop!LookFails, TheShop!SoldUp, TheShop!Unauthorized
<1>2. CASE TheShop!LookFails
  <2>1. PICK auth \in BOOLEAN : run' = [run EXCEPT !.error = ~auth, !.raised = auth]
    BY <1>2 DEF TheShop!LookFails
  <2>2. run' \in ShopRuns /\ (run'.error \/ run'.raised) /\ game' = game
    BY <1>1, <1>2, <2>1 DEF ShopRuns, TheShop!LookFails
  <2>. QED  BY <1>1, <2>2 DEF DryInv, TheShop!DryRunForetells
<1>3. CASE TheShop!SoldUp
  <2>1. pc = "buy" /\ run.queue = <<>> /\ run' = run /\ game' = game
    BY <1>3 DEF TheShop!SoldUp
  <2>2. ASSUME run.kind # "souls", ~run.failed PROVE run.bought = run.planned
    <3>1. PICK after \in [0..Len(run.queue) -> Listings] :
            Leads(after, run.queue, run.budget, run.bought, run.planned)
      BY <2>1, <2>2 DEF DryInv, Foretold
    <3>. QED  BY <2>1, <3>1 DEF Leads
  <2>. QED  BY <1>1, <2>1, <2>2 DEF DryInv, TheShop!DryRunForetells
<1>4. ASSUME NEW o \in TheShop!Offers, TheShop!Unauthorized(o) PROVE DryInv'
  <2>1. game' \in {game, TheShop!Sold(game, o)}
    BY <1>4 DEF TheShop!Unauthorized, TheShop!Arrivals
  <2>2. game' \in ShopGames
    BY <1>1, <2>1, SalesInShop
  <2>3. run' \in ShopRuns /\ run'.raised
    BY <1>1, <1>4 DEF ShopRuns, TheShop!Unauthorized
  <2>. QED  BY <1>1, <2>2, <2>3 DEF DryInv, TheShop!DryRunForetells
<1>. QED  BY <1>2, <1>3, <1>4

LEMMA DrySteps == ASSUME DryInvariant, [Next]_vars PROVE DryInvariant'
<1>. SUFFICES ASSUME command' = "shop" PROVE DryInv'
  BY DEF DryInvariant
<1>1. command = "shop" /\ DryInv
  BY DEF DryInvariant, Next, vars
<1>2. CASE TheShop!Next
  BY <1>1, <1>2, DryLooks, DryTakes, DryEnds DEF TheShop!Next
<1>3. CASE Next
  BY <1>1, <1>2, <1>3 DEF Next
<1>4. CASE UNCHANGED vars
  BY <1>1, <1>4 DEF vars, DryInv, Foretold, TheShop!DryRunForetells
<1>. QED  BY <1>3, <1>4

LEMMA DryAlways == Spec => []DryInvariant
BY DryInit, DrySteps, PTL DEF Spec

LEMMA ShopIsTyped == ASSUME DryInvariant, command = "shop" PROVE TheShop!ShopsTypeOK
<1>1. DryInv
  BY DEF DryInvariant
<1>. QED  BY <1>1 DEF DryInv, ShopGames, ShopRuns, Balances, TheShop!ShopsTypeOK

\* run_asgard_shop: whatever the stock, the prices and the purses, a run in which no
\* purchase fails buys what a dry run that read the same would list.
THEOREM BuysAsPlanned == Spec => []DryRunForetells
<1>1. ASSUME DryInvariant PROVE DryRunForetells
  <2>. SUFFICES ASSUME command = "shop" PROVE TheShop!DryRunForetells
    BY DEF DryRunForetells
  <2>1. DryInv
    BY <1>1 DEF DryInvariant
  <2>. QED  BY <2>1 DEF DryInv, TheShop!DryRunForetells
<1>. QED  BY DryAlways, <1>1, PTL

-------------------------------------------------------------------------------
\* The commands together: what a report and an exit code of 0 stand for.

LEMMA ArenaIsTyped == ASSUME AimInvariant, command = "arena" PROVE TheArena!ArenaTypeOK
<1>1. AimInv
  BY DEF AimInvariant
<1>. QED  BY <1>1 DEF AimInv, Aims, Sights, TheArena!ArenaTypeOK

OneOfThem == command \in {"gift", "seers-game", "consumable", "shop", "raid", "quests", "arena"}

\* Whatever command is at work, what it keeps of the game and of its own run has its type.
THEOREM CommandsAreTyped == Spec => []TypeOK
<1>1. /\ OneOfThem
      /\ GiftInvariant /\ CountInvariant /\ UseInvariant /\ DryInvariant /\ TodayInvariant
      /\ QuestInvariant /\ AimInvariant
      => TypeOK
  BY GiftIsTyped, SeersIsTyped, UseIsTyped, ShopIsTyped, RaidIsTyped, QuestIsTyped, ArenaIsTyped
     DEF TypeOK, OneOfThem
<1>2. Init => OneOfThem
  BY DEF Init, OneOfThem
<1>3. OneOfThem /\ [Next]_vars => OneOfThem'
  BY DEF Next, vars, OneOfThem
<1>4. Spec => []OneOfThem
  BY <1>2, <1>3, PTL DEF Spec
<1>5. Spec => []AimInvariant
  BY AimInit, AimSteps, PTL DEF Spec
<1>. QED  BY <1>1, <1>4, <1>5, GiftAlways, CountAlways, UseAlways, DryAlways, TodayAlways,
             QuestAlways, PTL

\* Whatever is lost, retried or left behind by a killed process, what a command reports has
\* happened on the server (spent_estimate, _merge_rewards, _actual_consumed, run_hero_raid,
\* the claimed list of the quests).
THEOREM ReportsAreReal == Spec => []ReportedIsReal
<1>1. ASSUME GiftInvariant, CountInvariant, UseInvariant, TodayInvariant, QuestInvariant
      PROVE  ReportedIsReal
  BY <1>1, GiftIsReal, SeersIsReal, UseIsReal, RaidIsReal, QuestIsReal DEF ReportedIsReal
<1>. QED  BY <1>1, GiftAlways, CountAlways, UseAlways, TodayAlways, QuestAlways, PTL

\* An exit code of 0 means that the command's work is done on the server, if the server looks
\* for an open game before it counts the coins: a start that was lost leaves a game open, and
\* a refusal for want of coins would hide it.
THEOREM ZeroMeansDone == ASSUME OpenBeforeCoins PROVE Spec => []ExitZeroIsDone
<1>1. ASSUME GiftInvariant, CountInvariant, UseInvariant, QuestInvariant
      PROVE  ExitZeroIsDone
  <2>1. ASSUME ExitZero, command = "gift", ~run.dry PROVE TheGift!PlanCarriedOut
    BY <1>1, <2>1, GiftIsDone
  <2>2. ASSUME ExitZero, command = "seers-game" PROVE ~game.active
    BY <1>1, <2>2, SeersIsDone
  <2>3. ASSUME ExitZero, command = "consumable" PROVE \A i \in Items : game.stock[i] = 0
    BY <1>1, <2>3, UseIsDone
  <2>4. ASSUME ExitZero, command = "quests", ~run.dry PROVE TheQuests!AllClaimed
    <3>1. pc = "done" /\ run.failures = {} /\ ~run.raised
      BY <2>4 DEF ExitZero, QuestsFail
    <3>. QED  BY <1>1, <2>4, <3>1, QuestIsDone
  <2>. QED  BY <2>1, <2>2, <2>3, <2>4 DEF ExitZeroIsDone
<1>. QED  BY <1>1, GiftAlways, CountAlways, UseAlways, QuestAlways, PTL

=============================================================================
