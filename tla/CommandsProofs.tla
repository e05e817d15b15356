--------------------------- MODULE CommandsProofs ---------------------------
(***************************************************************************)
(* Safety of the commands, for every value of their constants: one section *)
(* for each command, and in it the inductive invariant the property rests  *)
(* on.  game, run and pc have a shape of their own in every command, so an *)
(* invariant says which fields it speaks of and nothing of the others.     *)
(***************************************************************************)
EXTENDS Commands, Sequences, TLAPS

------------------------------------------------------------------------------
\* Arena: the one attempt.

Spent == {"win", "loss", "unread", "unknown"}

\* The one request ends the command.
ArenaInv == /\ "attacks" \in DOMAIN game /\ "outcome" \in DOMAIN run
            /\ pc # "done" => game.attacks = 0 /\ run.outcome = "none"
            /\ pc = "done" => game.attacks <= IF run.outcome \in Spent THEN 1 ELSE 0

ArenaInvariant == command = "arena" => ArenaInv

LEMMA ArenaInit == Init => ArenaInvariant
<1>. SUFFICES ASSUME Init, command = "arena" PROVE ArenaInv
  BY DEF ArenaInvariant
<1>1. TheArena!Init
  BY DEF Init
<1>2. pc = "status"
  BY <1>1 DEF TheArena!Init
<1>3. "attacks" \in DOMAIN game /\ game.attacks = 0
  BY <1>1 DEF TheArena!Init
<1>4. "outcome" \in DOMAIN run /\ run.outcome = "none"
  BY <1>1 DEF TheArena!Init
<1>. QED  BY <1>2, <1>3, <1>4 DEF ArenaInv

\* Where a read leads: on, or to an end without an attack.
LEMMA ArenaGoesOn ==
  ASSUME ArenaInv, pc # "done", "attacks" \in DOMAIN game', game'.attacks = game.attacks,
         NEW r, "outcome" \in DOMAIN r, r.outcome = run.outcome,
         NEW next, next # "done", TheArena!Goto(next, r)
  PROVE  ArenaInv'
BY DEF TheArena!Goto, ArenaInv

LEMMA ArenaStops ==
  ASSUME ArenaInv, pc # "done", "attacks" \in DOMAIN game', game'.attacks = game.attacks,
         NEW r, "outcome" \in DOMAIN r,
         NEW outcome, outcome \notin Spent, TheArena!End(outcome, r)
  PROVE  ArenaInv'
<1>1. pc' = "done" /\ run' = [r EXCEPT !.outcome = outcome]
  BY DEF TheArena!End, TheArena!Goto
<1>2. "outcome" \in DOMAIN run' /\ run'.outcome = outcome
  BY <1>1
<1>. QED  BY <1>1, <1>2 DEF ArenaInv

LEMMA ArenaCompares ==
  ASSUME ArenaInv, pc # "done", "attacks" \in DOMAIN game', game'.attacks = game.attacks,
         NEW r, "outcome" \in DOMAIN r, r.outcome = run.outcome, NEW place, NEW own,
         NEW next, next # "done", TheArena!IfAbove(place, own, next, r)
  PROVE  ArenaInv'
<1>1. "refused" \notin Spent
  BY DEF Spent
<1>. QED  BY <1>1, ArenaGoesOn, ArenaStops DEF TheArena!IfAbove

LEMMA ArenaReads ==
  ASSUME ArenaInv,
         TheArena!ReadFails \/ TheArena!Status \/ TheArena!Own \/ TheArena!OwnAgain
           \/ TheArena!CheckRange \/ TheArena!Stopped \/ TheArena!Unauthorized
  PROVE  ArenaInv'
<1>1. pc # "done" /\ game' = game
  BY DEF TheArena!ReadFails, TheArena!Status, TheArena!Own, TheArena!OwnAgain,
         TheArena!CheckRange, TheArena!Stopped, TheArena!Unauthorized, TheArena!Reads
<1>2. /\ "attacks" \in DOMAIN game' /\ game'.attacks = game.attacks
      /\ "outcome" \in DOMAIN run
  BY <1>1 DEF ArenaInv
<1>3. {"refused", "raised", "stopped", "dry"} \intersect Spent = {}
  BY DEF Spent
<1>4. \A own : LET r == [run EXCEPT !.own = own] IN
                 "outcome" \in DOMAIN r /\ r.outcome = run.outcome
  BY <1>2
<1>5. CASE TheArena!ReadFails \/ TheArena!Stopped \/ TheArena!Unauthorized
  BY <1>1, <1>2, <1>3, <1>5, ArenaStops
  DEF TheArena!ReadFails, TheArena!Stopped, TheArena!Unauthorized
<1>6. CASE TheArena!Status
  <2>1. TheArena!Goto("top", [run EXCEPT !.own = game.own])
    BY <1>6 DEF TheArena!Status
  <2>. QED  BY <1>1, <1>2, <1>4, <2>1, ArenaGoesOn
<1>7. CASE TheArena!Own
  <2>1. \E next \in {"range", "find"} :
          TheArena!IfAbove(run.known, game.own, next, [run EXCEPT !.own = game.own])
    BY <1>7 DEF TheArena!Own
  <2>. QED  BY <1>1, <1>2, <1>4, <2>1, ArenaCompares
<1>8. CASE TheArena!OwnAgain
  <2>1. TheArena!IfAbove(run.known, game.own, "range", [run EXCEPT !.own = game.own])
    BY <1>8 DEF TheArena!OwnAgain
  <2>. QED  BY <1>1, <1>2, <1>4, <2>1, ArenaCompares
<1>9. CASE TheArena!CheckRange
  BY <1>1, <1>2, <1>3, <1>9, ArenaStops, ArenaGoesOn DEF TheArena!CheckRange
<1>. QED  BY <1>5, <1>6, <1>7, <1>8, <1>9

LEMMA ArenaLooks ==
  ASSUME ArenaInv, TheArena!TopGet \/ \E phase \in {"resolve", "find"} : TheArena!FindEnemies(phase)
  PROVE  ArenaInv'
<1>1. pc # "done" /\ "refused" \notin Spent
  BY DEF TheArena!TopGet, TheArena!FindEnemies, Spent
<1>2. "attacks" \in DOMAIN game /\ "outcome" \in DOMAIN run
  BY DEF ArenaInv
<1>3. CASE TheArena!TopGet
  <2>1. game' = [game EXCEPT !.drifted = FALSE]
    BY <1>3 DEF TheArena!TopGet
  <2>2. "attacks" \in DOMAIN game' /\ game'.attacks = game.attacks
    BY <1>2, <2>1
  <2>3. PICK own : LET r == [run EXCEPT !.own = own]
                       seen == [r EXCEPT !.known = game.place]
                   IN \/ \E next \in {"range", "own"} : TheArena!IfAbove(game.place, own, next, seen)
                      \/ TheArena!Goto("ownAgain", seen)
                      \/ TheArena!End("refused", r)
                      \/ TheArena!Goto("resolve", r)
    BY <1>3 DEF TheArena!TopGet, TheArena!SeesPlace
  <2> DEFINE r == [run EXCEPT !.own = own]
             seen == [r EXCEPT !.known = game.place]
  <2>4. "outcome" \in DOMAIN r /\ r.outcome = run.outcome
    BY <1>2
  <2> HIDE DEF r
  <2>5. "outcome" \in DOMAIN seen /\ seen.outcome = run.outcome
    BY <2>4
  <2> HIDE DEF seen
  <2>6. \/ \E next \in {"range", "own"} : TheArena!IfAbove(game.place, own, next, seen)
        \/ TheArena!Goto("ownAgain", seen)
        \/ TheArena!End("refused", r)
        \/ TheArena!Goto("resolve", r)
    BY <2>3 DEF r, seen
  <2>. QED  BY <1>1, <2>2, <2>4, <2>5, <2>6, ArenaCompares, ArenaGoesOn, ArenaStops
<1>4. ASSUME NEW phase \in {"resolve", "find"}, TheArena!FindEnemies(phase) PROVE ArenaInv'
  <2>1. PICK in \in BOOLEAN :
          /\ game' = [game EXCEPT !.listed = in, !.drifted = @ /\ ~in]
          /\ IF in
             THEN LET r == [TheArena!SeesPlace(run) EXCEPT !.captured = TRUE, !.tries = 0] IN
                  IF phase = "resolve" THEN TheArena!IfAbove(game.place, run.own, "own", r)
                                       ELSE TheArena!Goto("ownAgain", r)
             ELSE IF run.tries < Retries
                  THEN TheArena!Goto(phase, [run EXCEPT !.tries = @ + 1])
                  ELSE TheArena!End("refused", run)
    BY <1>4 DEF TheArena!FindEnemies
  <2>2. "attacks" \in DOMAIN game' /\ game'.attacks = game.attacks
    BY <1>2, <2>1
  <2>3. CASE in
    <3> DEFINE known == [run EXCEPT !.known = game.place]
               r == [known EXCEPT !.captured = TRUE, !.tries = 0]
    <3>1. "outcome" \in DOMAIN known /\ known.outcome = run.outcome
      BY <1>2
    <3>2. TheArena!IfAbove(game.place, run.own, "own", r) \/ TheArena!Goto("ownAgain", r)
      BY <2>1, <2>3 DEF TheArena!SeesPlace
    <3> HIDE DEF known
    <3>3. "outcome" \in DOMAIN r /\ r.outcome = run.outcome
      BY <3>1
    <3> HIDE DEF r
    <3>. QED  BY <1>1, <2>2, <3>2, <3>3, ArenaCompares, ArenaGoesOn
  <2>4. CASE ~in
    <3> DEFINE r == [run EXCEPT !.tries = @ + 1]
    <3>1. "outcome" \in DOMAIN r /\ r.outcome = run.outcome
      BY <1>2
    <3>2. TheArena!Goto(phase, r) \/ TheArena!End("refused", run)
      BY <2>1, <2>4
    <3> HIDE DEF r
    <3>. QED  BY <1>1, <1>2, <2>2, <3>1, <3>2, ArenaGoesOn, ArenaStops
  <2>. QED  BY <2>3, <2>4
<1>. QED  BY <1>3, <1>4

LEMMA ArenaDrifts ==
  ASSUME ArenaInv, TheArena!Drift PROVE ArenaInv'
<1>1. PICK own \in 1..Ranks, place \in 1..Ranks :
        game' = [game EXCEPT !.own = own, !.place = place, !.drifts = @ - 1, !.drifted = TRUE]
  BY DEF TheArena!Drift
<1>2. "attacks" \in DOMAIN game' /\ game'.attacks = game.attacks
  BY <1>1 DEF ArenaInv
<1>. QED  BY <1>2 DEF ArenaInv, TheArena!Drift

\* The request is sent once: an answer, or none, is the end.
LEMMA ArenaAttacks ==
  ASSUME ArenaInv, TheArena!Attack \/ TheArena!OutcomeUnknown PROVE ArenaInv'
<1>1. "attacks" \in DOMAIN game /\ "outcome" \in DOMAIN run /\ game.attacks = 0
  BY DEF ArenaInv, TheArena!Attack, TheArena!OutcomeUnknown
<1>2. game' = TheArena!Attacked(game) \/ game' = game
  BY DEF TheArena!Attack, TheArena!OutcomeUnknown, TheArena!Unknown, TheArena!LossesOfOne
<1>3. "attacks" \in DOMAIN game' /\ game'.attacks <= 1
  <2>1. CASE game' = TheArena!Attacked(game)
    <3> DEFINE down == game.sentDown \/ game.place >= game.own
    <3>1. game' = [game EXCEPT !.attacks = game.attacks + 1, !.sentDown = down]
      BY <2>1 DEF TheArena!Attacked
    <3> HIDE DEF down
    <3>2. "attacks" \in DOMAIN game' /\ game'.attacks = game.attacks + 1
      BY <1>1, <3>1
    <3>. QED  BY <1>1, <3>2
  <2>2. CASE game' = game
    BY <1>1, <2>2
  <2>. QED  BY <1>2, <2>1, <2>2
<1>4. PICK outcome \in Spent : pc' = "done" /\ run' = [run EXCEPT !.outcome = outcome]
  BY DEF TheArena!Attack, TheArena!OutcomeUnknown, TheArena!End, TheArena!Goto, Spent
<1>5. "outcome" \in DOMAIN run' /\ run'.outcome = outcome
  BY <1>1, <1>4
<1>. QED  BY <1>3, <1>4, <1>5 DEF ArenaInv

LEMMA ArenaSteps == ASSUME ArenaInvariant, [Next]_vars PROVE ArenaInvariant'
<1>. SUFFICES ASSUME command' = "arena" PROVE ArenaInv'
  BY DEF ArenaInvariant
<1>1. command = "arena" /\ ArenaInv
  BY DEF ArenaInvariant, Next, vars
<1>2. CASE TheArena!Next
  BY <1>1, <1>2, ArenaReads, ArenaLooks, ArenaDrifts, ArenaAttacks DEF TheArena!Next
<1>3. CASE Next
  BY <1>1, <1>2, <1>3 DEF Next
<1>4. CASE UNCHANGED vars
  BY <1>1, <1>4 DEF vars, ArenaInv
<1>. QED  BY <1>3, <1>4

\* run_arena_attack: whatever is lost and however ranks and lists move, one command spends one
\* attempt at most, and none unless it reports an outcome of it.
THEOREM OneAttempt == Spec => []AttemptSpentOnce
<1>1. ArenaInvariant => AttemptSpentOnce
  BY DEF ArenaInvariant, ArenaInv, AttemptSpentOnce, TheArena!AttemptSpentOnce, Spent
<1>2. Init => ArenaInvariant
  BY ArenaInit
<1>3. ArenaInvariant /\ [Next]_vars => ArenaInvariant'
  BY ArenaSteps
<1>. QED  BY <1>1, <1>2, <1>3, PTL DEF Spec

------------------------------------------------------------------------------
\* Arena: whom the attack hits.

Aims == [own : 1..Ranks, place : 1..Ranks, listed : BOOLEAN, attacks : Nat, drifts : 0..Drifts,
         drifted : BOOLEAN, sentDown : BOOLEAN]

Sights == [snapshot : BOOLEAN, force : BOOLEAN, dry : BOOLEAN, own : 0..Ranks, known : 0..Ranks,
           captured : BOOLEAN, tries : 0..Retries,
           outcome : {"none", "refused", "raised", "dry", "win", "loss", "unread", "stopped",
                      "unknown"}]

\* While no rank has moved since the target's place was read, the place is the one known and,
\* once it has been compared last, above one's own; and what is attacked is in the list.
AimInv ==
    /\ pc \in {"status", "top", "resolve", "own", "find", "ownAgain", "range", "send", "done"}
    /\ game \in Aims /\ run \in Sights
    /\ ~game.drifted =>
          /\ pc \in {"own", "ownAgain", "range", "send"} => run.known = game.place
          /\ pc \in {"range", "send"} => game.place < game.own
    /\ game.sentDown => game.drifted /\ pc = "done"
    /\ pc \in {"status", "top", "resolve", "find"} => ~run.captured
    /\ ~run.snapshot =>
          /\ pc \in {"ownAgain", "range", "send"} => game.listed
          /\ pc = "own" /\ run.captured => game.listed

AimInvariant == command = "arena" => AimInv

LEMMA AimInit == Init => AimInvariant
<1>. SUFFICES ASSUME Init, command = "arena" PROVE AimInv
  BY DEF AimInvariant
<1>1. TheArena!Init
  BY DEF Init
<1>2. /\ pc = "status"
      /\ game \in [own : 1..Ranks, place : 1..Ranks, listed : BOOLEAN, attacks : {0},
                   drifts : {Drifts}, drifted : {FALSE}, sentDown : {FALSE}]
  BY <1>1 DEF TheArena!Init
<1>3. game \in Aims /\ ~game.sentDown
  <2>1. PICK own \in 1..Ranks, place \in 1..Ranks, listed \in BOOLEAN :
          game = [own |-> own, place |-> place, listed |-> listed, attacks |-> 0,
                  drifts |-> Drifts, drifted |-> FALSE, sentDown |-> FALSE]
    BY <1>2
  <2>2. Drifts \in 0..Drifts /\ 0 \in Nat
    BY ArenaAssumption
  <2>. QED  BY <2>1, <2>2 DEF Aims
<1>4. PICK snapshot, force, dry \in BOOLEAN :
        run = [snapshot |-> snapshot, force |-> force, dry |-> dry, own |-> 0, known |-> 0,
               captured |-> FALSE, tries |-> 0, outcome |-> "none"]
  BY <1>1 DEF TheArena!Init
<1>5. 0 \in 0..Ranks /\ 0 \in 0..Retries
  BY ArenaAssumption
<1>6. run \in Sights /\ ~run.captured
  BY <1>4, <1>5 DEF Sights
<1>. QED  BY <1>2, <1>3, <1>6 DEF AimInv

\* Where a read leads.
LEMMA AimStops ==
  ASSUME AimInv, pc # "done", NEW r \in Sights,
         NEW outcome \in {"refused", "raised", "dry", "stopped"}, TheArena!End(outcome, r),
         game' \in Aims, ~game'.sentDown
  PROVE  AimInv'
<1>1. pc' = "done" /\ run' = [r EXCEPT !.outcome = outcome]
  BY DEF TheArena!End, TheArena!Goto
<1>2. run' \in Sights
  BY <1>1 DEF Sights
<1>. QED  BY <1>1, <1>2 DEF AimInv

LEMMA AimMoves ==
  ASSUME AimInv, TheArena!Drift PROVE AimInv'
<1>1. PICK own \in 1..Ranks, place \in 1..Ranks :
        game' = [game EXCEPT !.own = own, !.place = place, !.drifts = @ - 1, !.drifted = TRUE]
  BY DEF TheArena!Drift
<1>2. game \in Aims /\ game.drifts - 1 \in 0..Drifts
  BY ArenaAssumption DEF AimInv, Aims, TheArena!Drift
<1>3. game' \in Aims /\ game'.drifted = TRUE /\ game'.listed = game.listed
      /\ game'.sentDown = game.sentDown
  <2>1. game' = [own |-> own, place |-> place, listed |-> game.listed, attacks |-> game.attacks,
                 drifts |-> game.drifts - 1, drifted |-> TRUE, sentDown |-> game.sentDown]
    BY <1>1, <1>2 DEF Aims
  <2>. QED  BY <1>1, <1>2, <2>1 DEF Aims
<1>4. pc' = pc /\ run' = run /\ pc # "done"
  BY DEF TheArena!Drift
<1>. QED  BY <1>3, <1>4 DEF AimInv

LEMMA AimReads ==
  ASSUME AimInv,
         TheArena!ReadFails \/ TheArena!Status \/ TheArena!Own \/ TheArena!OwnAgain
           \/ TheArena!CheckRange \/ TheArena!Stopped \/ TheArena!Unauthorized
  PROVE  AimInv'
<1>1. pc # "done" /\ game' = game
  BY DEF TheArena!ReadFails, TheArena!Status, TheArena!Own, TheArena!OwnAgain,
         TheArena!CheckRange, TheArena!Stopped, TheArena!Unauthorized, TheArena!Reads
<1>2. game \in Aims /\ run \in Sights /\ ~game'.sentDown
  BY <1>1 DEF AimInv
<1> DEFINE r == [run EXCEPT !.own = game.own]
<1>3. /\ r \in Sights /\ r.own = game.own /\ r.known = run.known /\ r.captured = run.captured
      /\ r.snapshot = run.snapshot
  BY <1>2 DEF Aims, Sights
<1>4. CASE TheArena!ReadFails \/ TheArena!Stopped \/ TheArena!Unauthorized
  <2>1. \E outcome \in {"refused", "raised", "dry", "stopped"} : TheArena!End(outcome, run)
    BY <1>4 DEF TheArena!ReadFails, TheArena!Stopped, TheArena!Unauthorized
  <2>. QED  BY <1>1, <1>2, <2>1, AimStops
<1>5. CASE TheArena!Status
  <2>1. pc = "status" /\ pc' = "top" /\ run' = r
    BY <1>5 DEF TheArena!Status, TheArena!Goto, TheArena!Reads
  <2> HIDE DEF r
  <2>. QED  BY <1>1, <1>3, <2>1 DEF AimInv
<1>6. CASE TheArena!Own \/ TheArena!OwnAgain
  <2>1. PICK next \in {"range", "find"} :
          /\ TheArena!IfAbove(run.known, game.own, next, r)
          /\ pc \in {"own", "ownAgain"}
          /\ next = "find" => ~run.captured
          /\ pc = "own" /\ next = "range" => run.captured
    BY <1>6 DEF TheArena!Own, TheArena!OwnAgain, TheArena!Reads
  <2> HIDE DEF r
  <2>2. CASE run.known >= game.own
    <3>1. TheArena!End("refused", r)
      BY <2>1, <2>2 DEF TheArena!IfAbove
    <3>. QED  BY <1>1, <1>2, <1>3, <3>1, AimStops
  <2>3. CASE ~(run.known >= game.own)
    <3>1. pc' = next /\ run' = r
      BY <2>1, <2>3 DEF TheArena!IfAbove, TheArena!Goto
    <3>2. run.known < game.own
      BY <1>2, <2>3 DEF Aims, Sights
    <3>. QED  BY <1>1, <1>3, <2>1, <3>1, <3>2 DEF AimInv
  <2>. QED  BY <2>2, <2>3
<1>7. CASE TheArena!CheckRange
  <2>1. \/ \E outcome \in {"refused", "dry"} : TheArena!End(outcome, run)
        \/ TheArena!Goto("send", run)
    BY <1>7 DEF TheArena!CheckRange
  <2>2. CASE TheArena!Goto("send", run)
    <3>1. pc = "range" /\ pc' = "send" /\ run' = run
      BY <1>7, <2>2 DEF TheArena!CheckRange, TheArena!Reads, TheArena!Goto
    <3>. QED  BY <1>1, <3>1 DEF AimInv
  <2>. QED  BY <1>1, <1>2, <2>1, <2>2, AimStops
<1>. QED  BY <1>4, <1>5, <1>6, <1>7

\* What topGet or a refresh shows is where the target is now.
LEMMA AimLooks ==
  ASSUME AimInv, TheArena!TopGet \/ \E phase \in {"resolve", "find"} : TheArena!FindEnemies(phase)
  PROVE  AimInv'
<1>1. /\ game \in Aims /\ run \in Sights
      /\ pc \in {"top", "resolve", "find"} /\ ~run.captured /\ ~game.sentDown
  BY DEF AimInv, TheArena!TopGet, TheArena!FindEnemies
<1>2. CASE TheArena!TopGet
  <2>1. game' = [game EXCEPT !.drifted = FALSE]
    BY <1>2 DEF TheArena!TopGet
  <2>2. /\ game' \in Aims /\ game'.place = game.place /\ game'.own = game.own
        /\ ~game'.sentDown
    BY <1>1, <2>1 DEF Aims
  <2>3. PICK own \in {game.own} \union IF run.snapshot THEN {} ELSE {run.own} :
          LET r == [run EXCEPT !.own = own]
              seen == [r EXCEPT !.known = game.place]
          IN \/ TheArena!IfAbove(game.place, own, IF run.snapshot THEN "range" ELSE "own", seen)
             \/ run.snapshot /\ TheArena!Goto("ownAgain", seen)
             \/ run.snapshot /\ TheArena!End("refused", r)
             \/ ~run.snapshot /\ TheArena!Goto("resolve", r)
    BY <1>2 DEF TheArena!TopGet, TheArena!SeesPlace
  <2> DEFINE r == [run EXCEPT !.own = own]
             seen == [r EXCEPT !.known = game.place]
  <2>4. own \in 0..Ranks /\ game.place \in 0..Ranks /\ (run.snapshot => own = game.own)
    BY <1>1, <2>3, ArenaAssumption DEF Aims, Sights
  <2>5. /\ r \in Sights /\ r.own = own /\ ~r.captured /\ r.snapshot = run.snapshot
    BY <1>1, <2>4 DEF Sights
  <2>6. /\ seen \in Sights /\ seen.known = game.place /\ ~seen.captured
        /\ seen.snapshot = run.snapshot
    BY <2>4, <2>5 DEF Sights
  <2>7. \/ TheArena!IfAbove(game.place, own, IF run.snapshot THEN "range" ELSE "own", seen)
        \/ run.snapshot /\ TheArena!Goto("ownAgain", seen)
        \/ run.snapshot /\ TheArena!End("refused", r)
        \/ ~run.snapshot /\ TheArena!Goto("resolve", r)
    BY <2>3
  <2> HIDE DEF r, seen
  <2>8. ASSUME TheArena!End("refused", r) \/ TheArena!End("refused", seen) PROVE AimInv'
    BY <1>1, <2>2, <2>5, <2>6, <2>8, AimStops
  <2>9. ASSUME run.snapshot, TheArena!Goto("ownAgain", seen) PROVE AimInv'
    BY <2>2, <2>6, <2>9 DEF TheArena!Goto, AimInv
  <2>10. ASSUME TheArena!Goto("resolve", r) PROVE AimInv'
    BY <2>2, <2>5, <2>10 DEF TheArena!Goto, AimInv
  <2>11. ASSUME TheArena!IfAbove(game.place, own, IF run.snapshot THEN "range" ELSE "own", seen)
         PROVE  AimInv'
    <3>1. CASE game.place >= own
      BY <2>8, <2>11, <3>1 DEF TheArena!IfAbove
    <3>2. CASE ~(game.place >= own)
      <4>1. pc' = (IF run.snapshot THEN "range" ELSE "own") /\ run' = seen
        BY <2>11, <3>2 DEF TheArena!IfAbove, TheArena!Goto
      <4>2. game.place < own
        BY <2>4, <3>2
      <4>. QED  BY <2>2, <2>4, <2>6, <4>1, <4>2 DEF AimInv
    <3>. QED  BY <3>1, <3>2
  <2>. QED  BY <2>7, <2>8, <2>9, <2>10, <2>11
<1>3. ASSUME NEW phase \in {"resolve", "find"}, TheArena!FindEnemies(phase) PROVE AimInv'
  <2>1. PICK in \in BOOLEAN :
          /\ game' = [game EXCEPT !.listed = in, !.drifted = @ /\ ~in]
          /\ IF in
             THEN LET r == [TheArena!SeesPlace(run) EXCEPT !.captured = TRUE, !.tries = 0] IN
                  IF phase = "resolve" THEN TheArena!IfAbove(game.place, run.own, "own", r)
                                       ELSE TheArena!Goto("ownAgain", r)
             ELSE IF run.tries < Retries
                  THEN TheArena!Goto(phase, [run EXCEPT !.tries = @ + 1])
                  ELSE TheArena!End("refused", run)
    BY <1>3 DEF TheArena!FindEnemies
  <2>2. /\ game' \in Aims /\ game'.place = game.place /\ game'.own = game.own
        /\ ~game'.sentDown /\ game'.listed = in
    BY <1>1, <2>1 DEF Aims
  <2>3. CASE in
    <3> DEFINE known == [run EXCEPT !.known = game.place]
               r == [known EXCEPT !.captured = TRUE, !.tries = 0]
    <3>1. known \in Sights /\ known.known = game.place /\ known.snapshot = run.snapshot
      <4>1. game.place \in 0..Ranks
        BY <1>1, ArenaAssumption DEF Aims
      <4>. QED  BY <1>1, <4>1 DEF Sights
    <3>2. TheArena!IfAbove(game.place, run.own, "own", r) \/ TheArena!Goto("ownAgain", r)
      BY <2>1, <2>3 DEF TheArena!SeesPlace
    <3> HIDE DEF known
    <3>3. r \in Sights /\ r.known = game.place /\ r.snapshot = run.snapshot
      <4>1. 0 \in 0..Retries
        BY ArenaAssumption
      <4>. QED  BY <3>1, <4>1 DEF Sights
    <3> HIDE DEF r
    <3>4. CASE TheArena!Goto("ownAgain", r) \/ TheArena!Goto("own", r)
      BY <2>2, <2>3, <3>3, <3>4 DEF TheArena!Goto, AimInv
    <3>5. CASE TheArena!End("refused", r)
      BY <1>1, <2>2, <3>3, <3>5, AimStops
    <3>. QED  BY <3>2, <3>4, <3>5 DEF TheArena!IfAbove
  <2>4. CASE ~in
    <3> DEFINE r == [run EXCEPT !.tries = @ + 1]
    <3>1. run.tries < Retries => r \in Sights /\ ~r.captured /\ r.snapshot = run.snapshot
      BY <1>1, ArenaAssumption DEF Sights
    <3>2. (TheArena!Goto(phase, r) /\ run.tries < Retries) \/ TheArena!End("refused", run)
      BY <2>1, <2>4
    <3> HIDE DEF r
    <3>3. CASE TheArena!Goto(phase, r) /\ run.tries < Retries
      BY <2>2, <3>1, <3>3 DEF TheArena!Goto, AimInv
    <3>. QED  BY <1>1, <2>2, <3>2, <3>3, AimStops
  <2>. QED  BY <2>3, <2>4
<1>. QED  BY <1>2, <1>3

LEMMA AimFires ==
  ASSUME AimInv, TheArena!Attack \/ TheArena!OutcomeUnknown PROVE AimInv'
<1>1. game \in Aims /\ run \in Sights /\ pc = "send"
  BY DEF AimInv, TheArena!Attack, TheArena!OutcomeUnknown
<1>2. game' = TheArena!Attacked(game) \/ game' = game
  BY DEF TheArena!Attack, TheArena!OutcomeUnknown, TheArena!Unknown, TheArena!LossesOfOne
<1>3. PICK outcome \in {"win", "loss", "unread", "unknown"} :
        pc' = "done" /\ run' = [run EXCEPT !.outcome = outcome]
  BY DEF TheArena!Attack, TheArena!OutcomeUnknown, TheArena!End, TheArena!Goto
<1>4. run' \in Sights
  BY <1>1, <1>3 DEF Sights
<1>5. game' \in Aims /\ (game'.sentDown => game'.drifted)
  <2>1. CASE game' = TheArena!Attacked(game)
    <3> DEFINE down == game.sentDown \/ game.place >= game.own
    <3>1. down \in BOOLEAN /\ (down => game.drifted)
      BY <1>1 DEF Aims, AimInv
    <3>2. game' = [game EXCEPT !.attacks = game.attacks + 1, !.sentDown = down]
      BY <2>1 DEF TheArena!Attacked
    <3> HIDE DEF down
    <3>3. game' \in Aims /\ game'.sentDown = down /\ game'.drifted = game.drifted
      <4>1. game' = [own |-> game.own, place |-> game.place, listed |-> game.listed,
                     attacks |-> game.attacks + 1, drifts |-> game.drifts,
                     drifted |-> game.drifted, sentDown |-> down]
        BY <1>1, <3>2 DEF Aims
      <4>. QED  BY <1>1, <3>1, <4>1 DEF Aims
    <3>. QED  BY <3>1, <3>3
  <2>. QED  BY <1>1, <1>2, <2>1 DEF AimInv
<1>. QED  BY <1>3, <1>4, <1>5 DEF AimInv

LEMMA AimSteps == ASSUME AimInvariant, [Next]_vars PROVE AimInvariant'
<1>. SUFFICES ASSUME command' = "arena" PROVE AimInv'
  BY DEF AimInvariant
<1>1. command = "arena" /\ AimInv
  BY DEF AimInvariant, Next, vars
<1>2. CASE TheArena!Next
  BY <1>1, <1>2, AimMoves, AimReads, AimLooks, AimFires DEF TheArena!Next
<1>3. CASE Next
  BY <1>1, <1>2, <1>3 DEF Next
<1>4. CASE UNCHANGED vars
  BY <1>1, <1>4 DEF vars, AimInv
<1>. QED  BY <1>3, <1>4

\* run_arena_attack: whatever the ranks do while the command waits for the list, it hits nobody
\* who was not above when last read, and nobody who is not in the latest list.
THEOREM AimHolds == Spec => []AttacksAreAllowed
<1>1. AimInvariant => AttacksAreAllowed
  BY DEF AimInvariant, AimInv, AttacksAreAllowed, TheArena!AttacksGoUp,
         TheArena!AttackedFromLatestList
<1>2. Init => AimInvariant
  BY AimInit
<1>3. AimInvariant /\ [Next]_vars => AimInvariant'
  BY AimSteps
<1>. QED  BY <1>1, <1>2, <1>3, PTL DEF Spec

------------------------------------------------------------------------------
\* Seer's game: the paid games.

\* A game is only started while one more may be; a lost start ends the run.
SeersInv ==
    /\ {"active", "opened"} \subseteq DOMAIN game /\ "played" \in DOMAIN run
    /\ game.opened \in Nat /\ run.played \in Nat
    /\ MaxGames # 0 => game.opened <= MaxGames
    /\ pc = "look" => game.opened = 0 /\ run.played = 0
    /\ pc = "start" => game.opened <= run.played
    /\ pc = "play" => game.opened <= run.played + 1

SeersInvariant == command = "seers-game" => SeersInv

LEMMA SeersInit == Init => SeersInvariant
<1>. SUFFICES ASSUME Init, command = "seers-game" PROVE SeersInv
  BY DEF SeersInvariant
<1>1. TheSeersGame!Init
  BY DEF Init
<1>2. pc = "look" /\ run.played = 0 /\ "played" \in DOMAIN run
  BY <1>1 DEF TheSeersGame!Init, TheSeersGame!Fresh
<1>3. {"active", "opened"} \subseteq DOMAIN game /\ game.opened = 0
  BY <1>1 DEF TheSeersGame!Init
<1>. QED  BY <1>2, <1>3, SeersAssumption DEF SeersInv

\* What the calls do to the number of games opened.
LEMMA PlayOpensNone ==
  ASSUME NEW g, {"active", "opened"} \subseteq DOMAIN g
  PROVE  /\ {"active", "opened"} \subseteq DOMAIN TheSeersGame!Played(g)
         /\ TheSeersGame!Played(g).opened = g.opened
BY DEF TheSeersGame!Played

LEMMA CloseOpensNone ==
  ASSUME NEW g, {"active", "opened"} \subseteq DOMAIN g
  PROVE  /\ {"active", "opened"} \subseteq DOMAIN TheSeersGame!Closed(g)
         /\ TheSeersGame!Closed(g).opened = g.opened
BY DEF TheSeersGame!Closed

LEMMA OpenOpensOne ==
  ASSUME NEW g, {"active", "opened"} \subseteq DOMAIN g, g.opened \in Nat
  PROVE  /\ {"active", "opened"} \subseteq DOMAIN TheSeersGame!Opened(g)
         /\ TheSeersGame!Opened(g).opened \in {g.opened, g.opened + 1}
         /\ TheSeersGame!Opened(TheSeersGame!Opened(g)) = TheSeersGame!Opened(g)
<1> DEFINE h == TheSeersGame!Opened(g)
<1>1. CASE g.active \/ g.coins = 0
  BY <1>1 DEF TheSeersGame!Opened
<1>2. CASE ~(g.active \/ g.coins = 0)
  <2>1. h = [g EXCEPT !.active = TRUE, !.round = 1, !.snap = 0, !.coins = @ - 1, !.opened = @ + 1]
    BY <1>2 DEF TheSeersGame!Opened
  <2>2. DOMAIN h = DOMAIN g /\ h.active = TRUE /\ h.opened = g.opened + 1
    BY <2>1
  <2>3. h.active
    BY <2>2
  <2> HIDE DEF h
  <2>4. TheSeersGame!Opened(h) = h
    BY <2>3 DEF TheSeersGame!Opened
  <2>. QED  BY <2>2, <2>4 DEF h
<1>. QED  BY <1>1, <1>2

\* A step of the loop that starts no game.
LEMMA NoGameMore ==
  ASSUME SeersInv, {"active", "opened"} \subseteq DOMAIN game', game'.opened = game.opened,
         "played" \in DOMAIN run', run'.played = run.played,
         pc' \in {pc, "done", "killed"} \/ (pc = "look" /\ pc' \in {"start", "play"})
  PROVE  SeersInv'
BY DEF SeersInv

LEMMA SeersLooks ==
  ASSUME SeersInv,
         TheSeersGame!Resume \/ TheSeersGame!NothingOpen \/ TheSeersGame!LookFails
           \/ TheSeersGame!Enough \/ TheSeersGame!Killed
  PROVE  SeersInv'
<1>1. {"active", "opened"} \subseteq DOMAIN game /\ "played" \in DOMAIN run
  BY DEF SeersInv
<1>2. \/ game' = game
      \/ game' = [game EXCEPT !.kills = @ - 1]
  BY DEF TheSeersGame!Resume, TheSeersGame!NothingOpen, TheSeersGame!LookFails,
         TheSeersGame!Enough, TheSeersGame!Killed
<1>3. {"active", "opened"} \subseteq DOMAIN game' /\ game'.opened = game.opened
  BY <1>1, <1>2
<1>4. \/ run' = run
      \/ run' = [run EXCEPT !.left = Rounds + 1 - game.round, !.pending = game.snap]
      \/ \E auth \in BOOLEAN : run' = [run EXCEPT !.failed = ~auth, !.raised = auth]
  BY DEF TheSeersGame!Resume, TheSeersGame!NothingOpen, TheSeersGame!LookFails,
         TheSeersGame!Enough, TheSeersGame!Killed
<1>5. "played" \in DOMAIN run' /\ run'.played = run.played
  BY <1>1, <1>4
<1>6. pc' \in {pc, "done", "killed"} \/ (pc = "look" /\ pc' \in {"start", "play"})
  BY DEF TheSeersGame!Resume, TheSeersGame!NothingOpen, TheSeersGame!LookFails,
         TheSeersGame!Enough, TheSeersGame!Killed
<1>. QED  BY <1>3, <1>5, <1>6, NoGameMore

LEMMA SeersPlays ==
  ASSUME SeersInv, pc = "play",
         TheSeersGame!Play \/ TheSeersGame!Refused \/ TheSeersGame!Raises
  PROVE  SeersInv'
<1>1. {"active", "opened"} \subseteq DOMAIN game /\ "played" \in DOMAIN run
  BY DEF SeersInv
<1> DEFINE P(g) == TheSeersGame!Played(g)
           C(g) == TheSeersGame!Closed(g)
<1>2. game' \in {game, P(game), P(P(game)), C(game), C(C(game))}
  BY DEF TheSeersGame!Play, TheSeersGame!Refused, TheSeersGame!Raises,
         TheSeersGame!Arrivals, TheSeersGame!Losses
<1>3. {"active", "opened"} \subseteq DOMAIN game' /\ game'.opened = game.opened
  <2>1. \A g : {"active", "opened"} \subseteq DOMAIN g =>
                 /\ {"active", "opened"} \subseteq DOMAIN P(g) /\ P(g).opened = g.opened
                 /\ {"active", "opened"} \subseteq DOMAIN C(g) /\ C(g).opened = g.opened
    BY PlayOpensNone, CloseOpensNone
  <2> HIDE DEF P, C
  <2>. QED  BY <1>1, <1>2, <2>1
<1>4. \/ \E snap : run' = [run EXCEPT !.left = @ - 1, !.pending = snap]
      \/ run' = [run EXCEPT !.failed = TRUE, !.rewards = @ + run.pending]
      \/ run' = [run EXCEPT !.raised = TRUE]
  BY DEF TheSeersGame!Play, TheSeersGame!Refused, TheSeersGame!Raises
<1>5. "played" \in DOMAIN run' /\ run'.played = run.played
  BY <1>1, <1>4
<1>6. pc' \in {pc, "done"}
  BY DEF TheSeersGame!Play, TheSeersGame!Refused, TheSeersGame!Raises
<1>. QED  BY <1>3, <1>5, <1>6, NoGameMore

LEMMA SeersFinishes ==
  ASSUME SeersInv, TheSeersGame!Finish PROVE SeersInv'
<1>1. /\ {"active", "opened"} \subseteq DOMAIN game /\ "played" \in DOMAIN run
      /\ run.played \in Nat /\ game.opened \in Nat
  BY DEF SeersInv
<1>2. pc = "play" /\ pc' = "start"
  BY DEF TheSeersGame!Finish, TheSeersGame!AllPlayed
<1>3. {"active", "opened"} \subseteq DOMAIN game' /\ game'.opened = game.opened
  BY <1>1, CloseOpensNone DEF TheSeersGame!Finish
<1>4. run' = [run EXCEPT !.played = @ + 1, !.rewards = @ + game.snap]
  BY DEF TheSeersGame!Finish
<1>5. "played" \in DOMAIN run' /\ run'.played = run.played + 1
  BY <1>1, <1>4
<1>. QED  BY <1>1, <1>2, <1>3, <1>5 DEF SeersInv

\* One more game is opened, and no more than one, whether the run hears of it or not.
LEMMA SeersStarts ==
  ASSUME SeersInv, pc = "start",
         TheSeersGame!Start \/ TheSeersGame!StartRefused \/ TheSeersGame!Raises
  PROVE  SeersInv'
<1>1. /\ {"active", "opened"} \subseteq DOMAIN game /\ "played" \in DOMAIN run
      /\ run.played \in Nat /\ game.opened \in Nat /\ game.opened <= run.played
      /\ MaxGames # 0 => game.opened <= MaxGames
  BY DEF SeersInv
<1>2. MaxGames # 0 => run.played < MaxGames
  BY DEF TheSeersGame!Start, TheSeersGame!StartRefused, TheSeersGame!Raises, TheSeersGame!MayStart
<1> DEFINE O(g) == TheSeersGame!Opened(g)
<1>3. game' \in {game, O(game), O(O(game))}
  BY DEF TheSeersGame!Start, TheSeersGame!StartRefused, TheSeersGame!Raises,
         TheSeersGame!Arrivals, TheSeersGame!Losses
<1>4. /\ {"active", "opened"} \subseteq DOMAIN game'
      /\ game'.opened \in {game.opened, game.opened + 1}
  BY <1>1, <1>3, OpenOpensOne
<1>5. \/ run' = [run EXCEPT !.left = Rounds, !.pending = 0]
      \/ run' = [run EXCEPT !.failed = TRUE]
      \/ run' = [run EXCEPT !.raised = TRUE]
      \/ run' = run
  BY DEF TheSeersGame!Start, TheSeersGame!StartRefused, TheSeersGame!Raises
<1>6. "played" \in DOMAIN run' /\ run'.played = run.played
  BY <1>1, <1>5
<1>7. pc' \in {"play", "done"}
  BY DEF TheSeersGame!Start, TheSeersGame!StartRefused, TheSeersGame!Raises
<1>. QED  BY <1>1, <1>2, <1>4, <1>6, <1>7, SeersAssumption DEF SeersInv

LEMMA SeersReruns ==
  ASSUME SeersInv, TheSeersGame!Rerun PROVE SeersInv'
<1>1. {"active", "opened"} \subseteq DOMAIN game
  BY DEF SeersInv
<1>2. \E n : game' = [game EXCEPT !.opened = 0, !.earned = n]
  BY DEF TheSeersGame!Rerun
<1>3. {"active", "opened"} \subseteq DOMAIN game' /\ game'.opened = 0
  BY <1>1, <1>2
<1>4. pc' = "look" /\ "played" \in DOMAIN run' /\ run'.played = 0
  BY DEF TheSeersGame!Rerun, TheSeersGame!Fresh
<1>. QED  BY <1>3, <1>4, SeersAssumption DEF SeersInv

LEMMA SeersSteps == ASSUME SeersInvariant, [Next]_vars PROVE SeersInvariant'
<1>. SUFFICES ASSUME command' = "seers-game" PROVE SeersInv'
  BY DEF SeersInvariant
<1>1. command = "seers-game" /\ SeersInv
  BY DEF SeersInvariant, Next, vars
<1>2. CASE TheSeersGame!Raises
  BY <1>1, <1>2, SeersPlays, SeersStarts DEF TheSeersGame!Raises
<1>3. CASE TheSeersGame!Start \/ TheSeersGame!StartRefused
  BY <1>1, <1>3, SeersStarts DEF TheSeersGame!Start, TheSeersGame!StartRefused
<1>4. CASE TheSeersGame!Play \/ TheSeersGame!Refused
  BY <1>1, <1>4, SeersPlays DEF TheSeersGame!Play, TheSeersGame!Refused
<1>5. CASE TheSeersGame!Next
  BY <1>1, <1>2, <1>3, <1>4, <1>5, SeersLooks, SeersFinishes, SeersReruns DEF TheSeersGame!Next
<1>6. CASE Next
  BY <1>1, <1>5, <1>6 DEF Next
<1>7. CASE UNCHANGED vars
  BY <1>1, <1>7 DEF vars, SeersInv
<1>. QED  BY <1>6, <1>7

\* run_seers_game: for every limit, one run opens no more paid games than max_games, whatever is
\* lost, sent twice, resumed or killed.
THEOREM GamesWithinLimit == Spec => []PaidWithinLimit
<1>1. SeersInvariant => PaidWithinLimit
  BY DEF SeersInvariant, SeersInv, PaidWithinLimit, TheSeersGame!PaidWithinLimit
<1>2. Init => SeersInvariant
  BY SeersInit
<1>3. SeersInvariant /\ [Next]_vars => SeersInvariant'
  BY SeersSteps
<1>. QED  BY <1>1, <1>2, <1>3, PTL DEF Spec

------------------------------------------------------------------------------
\* Shops: the budget.

Balances == [TheShop!Purses -> Int]

\* What is bought is taken off both, and what is lost off the game's alone. Which of the
\* funds could not be read is settled at the start.
ShopInv == /\ {"funds", "left"} \subseteq DOMAIN game /\ game.funds \in Balances
           /\ {"budget", "unread"} \subseteq DOMAIN run /\ run.budget \in Balances
           /\ pc = "buy" => \A p \in TheShop!Purses \ run.unread :
                               run.budget[p] >= game.funds[p]

ShopInvariant == command = "shop" => ShopInv

LEMMA ShopInit == Init => ShopInvariant
<1>. SUFFICES ASSUME Init, command = "shop" PROVE ShopInv
  BY DEF ShopInvariant
<1>1. TheShop!Init
  BY DEF Init
<1>2. pc = "look" /\ game \in [funds : [TheShop!Purses -> 0..Funds], left : {Copies}]
  BY <1>1 DEF TheShop!Init
<1>3. {"funds", "left"} \subseteq DOMAIN game /\ game.funds \in Balances
  BY <1>2 DEF Balances
<1>4. {"budget", "unread"} \subseteq DOMAIN run /\ run.budget = game.funds
  BY <1>1 DEF TheShop!Init
<1>. QED  BY <1>2, <1>3, <1>4 DEF ShopInv

\* A sale lowers one balance by the price, or does nothing.
LEMMA Sales ==
  ASSUME NEW o \in TheShop!Offers, NEW g, {"funds", "left"} \subseteq DOMAIN g, g.funds \in Balances
  PROVE  LET h == TheShop!Sold(g, o) IN
         /\ {"funds", "left"} \subseteq DOMAIN h /\ h.funds \in Balances
         /\ \A p \in TheShop!Purses : h.funds[p] <= g.funds[p]
         /\ h # g => \A p \in TheShop!Purses :
                        h.funds[p] = IF p = Purse[o] THEN g.funds[p] - Price[o] ELSE g.funds[p]
<1> DEFINE h == TheShop!Sold(g, o)
           less == [g.funds EXCEPT ![Purse[o]] = @ - Price[o]]
<1>1. CASE h = g
  <2>1. \A p \in TheShop!Purses : g.funds[p] \in Int
    BY DEF Balances
  <2>. QED  BY <1>1, <2>1
<1>2. CASE h # g
  <2>1. h = [funds |-> less, left |-> [g.left EXCEPT ![o] = @ - 1]]
    BY <1>2 DEF TheShop!Sold
  <2>2. {"funds", "left"} \subseteq DOMAIN h /\ h.funds = less
    BY <2>1
  <2>3. Price[o] \in Nat /\ Purse[o] \in TheShop!Purses
    BY ShopAssumption DEF TheShop!Purses, TheShop!Offers
  <2>4. \A p \in TheShop!Purses :
           /\ g.funds[p] \in Int
           /\ less[p] = IF p = Purse[o] THEN g.funds[p] - Price[o] ELSE g.funds[p]
    BY DEF Balances
  <2>5. less \in Balances
    BY <2>3, <2>4 DEF Balances
  <2> HIDE DEF h, less
  <2>. QED  BY <2>2, <2>3, <2>4, <2>5 DEF h
<1>. QED  BY <1>1, <1>2

\* Sold twice at most, of which the run does not hear.
LEMMA SalesUnheard ==
  ASSUME ShopInv, NEW o \in TheShop!Offers,
         NEW g \in {game, TheShop!Sold(game, o), TheShop!Sold(TheShop!Sold(game, o), o)}
  PROVE  /\ {"funds", "left"} \subseteq DOMAIN g /\ g.funds \in Balances
         /\ \A p \in TheShop!Purses : g.funds[p] <= game.funds[p]
<1> DEFINE h == TheShop!Sold(game, o)
           i == TheShop!Sold(h, o)
<1>1. {"funds", "left"} \subseteq DOMAIN game /\ game.funds \in Balances
  BY DEF ShopInv
<1>2. /\ {"funds", "left"} \subseteq DOMAIN h /\ h.funds \in Balances
      /\ \A p \in TheShop!Purses : h.funds[p] <= game.funds[p]
  BY <1>1, Sales
<1> HIDE DEF h
<1>3. /\ {"funds", "left"} \subseteq DOMAIN i /\ i.funds \in Balances
      /\ \A p \in TheShop!Purses : i.funds[p] <= h.funds[p]
  BY <1>2, Sales
<1> HIDE DEF i
<1>4. \A p \in TheShop!Purses : game.funds[p] \in Int /\ h.funds[p] \in Int /\ i.funds[p] \in Int
  BY <1>1, <1>2, <1>3 DEF Balances
<1>5. g \in {game, h, i}
  BY DEF h, i
<1>. QED  BY <1>1, <1>2, <1>3, <1>4, <1>5

\* A purchase that is not confirmed leaves the budget alone.
LEMMA ShopKeepsBudget ==
  ASSUME ShopInv, pc \in {"look", "buy"}, NEW o \in TheShop!Offers,
         game' \in {game, TheShop!Sold(game, o), TheShop!Sold(TheShop!Sold(game, o), o)},
         {"budget", "unread"} \subseteq DOMAIN run', run'.budget = run.budget,
         run'.unread = run.unread, pc' = "buy" => pc = "buy"
  PROVE  ShopInv'
<1>1. /\ {"funds", "left"} \subseteq DOMAIN game' /\ game'.funds \in Balances
      /\ \A p \in TheShop!Purses : game'.funds[p] <= game.funds[p]
  BY SalesUnheard
<1>2. \A p \in TheShop!Purses : /\ game.funds[p] \in Int /\ game'.funds[p] \in Int
                                /\ run.budget[p] \in Int
  BY <1>1 DEF ShopInv, Balances
<1>3. Balances' = Balances /\ (TheShop!Purses)' = TheShop!Purses
  BY DEF Balances, TheShop!Purses, TheShop!Offers
<1>. QED  BY <1>1, <1>2, <1>3 DEF ShopInv

LEMMA ShopLooks ==
  ASSUME ShopInv, TheShop!Look \/ TheShop!LookFails \/ TheShop!SoldUp PROVE ShopInv'
<1>1. /\ {"funds", "left"} \subseteq DOMAIN game /\ game.funds \in Balances
      /\ {"budget", "unread"} \subseteq DOMAIN run /\ run.budget \in Balances
      /\ game' = game
  BY DEF ShopInv, TheShop!Look, TheShop!LookFails, TheShop!SoldUp
<1>2. Balances' = Balances /\ (TheShop!Purses)' = TheShop!Purses
  BY DEF Balances, TheShop!Purses, TheShop!Offers
<1>3. CASE TheShop!Look
  <2>1. PICK unread \in TheShop!Unreadable :
          \E queue, planned :
             run' = [run EXCEPT !.queue = queue, !.budget = TheShop!Shown(game.funds, unread),
                                !.unread = unread, !.planned = planned]
    BY <1>3 DEF TheShop!Look
  <2> DEFINE shown == TheShop!Shown(game.funds, unread)
  <2>2. shown \in Balances /\ \A p \in TheShop!Purses \ unread : shown[p] = game.funds[p]
    BY <1>1 DEF TheShop!Shown, Balances
  <2> HIDE DEF shown
  <2>3. {"budget", "unread"} \subseteq DOMAIN run' /\ run'.budget = shown /\ run'.unread = unread
    BY <1>1, <2>1 DEF shown
  <2>4. \A p \in TheShop!Purses \ unread : shown[p] >= game.funds[p]
    BY <1>1, <2>2 DEF Balances
  <2>. QED  BY <1>1, <1>2, <2>2, <2>3, <2>4 DEF ShopInv
<1>4. CASE TheShop!LookFails \/ TheShop!SoldUp
  <2>1. run' = run \/ \E auth : run' = [run EXCEPT !.error = ~auth, !.raised = auth]
    BY <1>4 DEF TheShop!LookFails, TheShop!SoldUp
  <2>2. {"budget", "unread"} \subseteq DOMAIN run' /\ run'.budget = run.budget
    BY <1>1, <2>1
  <2>3. pc' = "done"
    BY <1>4 DEF TheShop!LookFails, TheShop!SoldUp
  <2>. QED  BY <1>1, <1>2, <2>2, <2>3 DEF ShopInv
<1>. QED  BY <1>3, <1>4

LEMMA ShopGoesOn ==
  ASSUME ShopInv, NEW o \in TheShop!Offers,
         TheShop!Skip(o) \/ TheShop!Refused(o) \/ TheShop!Unanswered(o) \/ TheShop!Unauthorized(o)
  PROVE  ShopInv'
<1>1. {"budget", "unread"} \subseteq DOMAIN run
  BY DEF ShopInv
<1> DEFINE once == TheShop!Sold(game, o)
           twice == TheShop!Sold(once, o)
<1>2. game' \in {game, once, twice}
  BY DEF TheShop!Skip, TheShop!Refused, TheShop!Unanswered, TheShop!Unauthorized,
         TheShop!Arrivals, TheShop!Losses
<1>3. \/ run' = [run EXCEPT !.queue = Tail(@)]
      \/ run' = [run EXCEPT !.queue = Tail(@), !.failed = TRUE]
      \/ \E S : run' = [run EXCEPT !.queue = Tail(@), !.failed = TRUE, !.short = S]
      \/ run' = [run EXCEPT !.raised = TRUE]
  BY DEF TheShop!Skip, TheShop!Refused, TheShop!Unanswered, TheShop!Unauthorized
<1>4. {"budget", "unread"} \subseteq DOMAIN run'
      /\ run'.budget = run.budget /\ run'.unread = run.unread
  BY <1>1, <1>3
<1>5. pc = "buy"
  BY DEF TheShop!Skip, TheShop!Refused, TheShop!Unanswered, TheShop!Unauthorized, TheShop!At
<1>. QED  BY <1>2, <1>4, <1>5, ShopKeepsBudget

\* The purchase that is confirmed is paid for in both, however many were made before it.
LEMMA ShopBuys ==
  ASSUME ShopInv, NEW o \in TheShop!Offers, TheShop!Buy(o) PROVE ShopInv'
<1>1. /\ {"budget", "unread"} \subseteq DOMAIN run /\ run.budget \in Balances
      /\ game.funds \in Balances
      /\ \A p \in TheShop!Purses \ run.unread : run.budget[p] >= game.funds[p]
  BY DEF ShopInv, TheShop!Buy, TheShop!At
<1>2. PICK g \in {game, TheShop!Sold(game, o)} :
        TheShop!Sold(g, o) # g /\ game' = TheShop!Sold(g, o)
  BY DEF TheShop!Buy, TheShop!Arrivals
<1>3. /\ {"funds", "left"} \subseteq DOMAIN g /\ g.funds \in Balances
      /\ \A p \in TheShop!Purses : g.funds[p] <= game.funds[p]
  BY <1>2, SalesUnheard
<1>4. /\ {"funds", "left"} \subseteq DOMAIN game' /\ game'.funds \in Balances
      /\ \A p \in TheShop!Purses :
            game'.funds[p] = IF p = Purse[o] THEN g.funds[p] - Price[o] ELSE g.funds[p]
  BY <1>2, <1>3, Sales
<1> DEFINE less == [run.budget EXCEPT ![Purse[o]] = @ - Price[o]]
<1>5. Price[o] \in Nat /\ Purse[o] \in TheShop!Purses
  BY ShopAssumption DEF TheShop!Purses, TheShop!Offers
<1>6. \A p \in TheShop!Purses :
         less[p] = IF p = Purse[o] THEN run.budget[p] - Price[o] ELSE run.budget[p]
  BY <1>1 DEF Balances
<1>7. \A p \in TheShop!Purses :
         run.budget[p] \in Int /\ g.funds[p] \in Int /\ game.funds[p] \in Int
  BY <1>1, <1>3 DEF Balances
<1>8. less \in Balances
  BY <1>1, <1>5, <1>7 DEF Balances
<1>9. run' = [run EXCEPT !.queue = Tail(@), !.bought = Append(@, o), !.budget = less]
  BY DEF TheShop!Buy
<1> HIDE DEF less
<1>10. {"budget", "unread"} \subseteq DOMAIN run' /\ run'.budget = less /\ run'.unread = run.unread
  BY <1>1, <1>9
<1>11. \A p \in TheShop!Purses \ run.unread : less[p] >= game'.funds[p]
  BY <1>1, <1>3, <1>4, <1>5, <1>6, <1>7
<1>12. Balances' = Balances /\ (TheShop!Purses)' = TheShop!Purses
  BY DEF Balances, TheShop!Purses, TheShop!Offers
<1>. QED  BY <1>4, <1>8, <1>10, <1>11, <1>12 DEF ShopInv

LEMMA ShopSteps == ASSUME ShopInvariant, [Next]_vars PROVE ShopInvariant'
<1>. SUFFICES ASSUME command' = "shop" PROVE ShopInv'
  BY DEF ShopInvariant
<1>1. command = "shop" /\ ShopInv
  BY DEF ShopInvariant, Next, vars
<1>2. CASE TheShop!Next
  BY <1>1, <1>2, ShopLooks, ShopGoesOn, ShopBuys DEF TheShop!Next
<1>3. CASE Next
  BY <1>1, <1>2, <1>3 DEF Next
<1>4. CASE UNCHANGED vars
  BY <1>1, <1>4 DEF vars, ShopInv, Balances, TheShop!Purses, TheShop!Offers
<1>. QED  BY <1>3, <1>4

\* run_asgard_shop and run_hero_shopping: for every stock, price and purse, the budget a run
\* keeps of the funds it could read is at least what the game has left of them, however often
\* a purchase it did not hear of was made.
THEOREM BudgetHolds == Spec => []BudgetIsCeiling
<1>1. ShopInvariant => BudgetIsCeiling
  BY DEF ShopInvariant, ShopInv, BudgetIsCeiling, TheShop!BudgetIsCeiling
<1>2. Init => ShopInvariant
  BY ShopInit
<1>3. ShopInvariant /\ [Next]_vars => ShopInvariant'
  BY ShopSteps
<1>. QED  BY <1>1, <1>2, <1>3, PTL DEF Spec

------------------------------------------------------------------------------
\* Raids: heroes before items.

Outcomes == {"none", "skipped", "success", "stamina", "limit", "error"}

\* A mission leaves the list with a result; item raids come after the list, and in a daily
\* routine only if no result is a lack of stamina.
RaidInv ==
    /\ {"kind", "todo", "result", "iterations"} \subseteq DOMAIN run
    /\ run.result \in [Missions -> Outcomes] /\ run.iterations \in Nat
    /\ \A m \in Missions \ run.todo : run.result[m] # "none"
    /\ pc \in {"status", "raid", "stones"} => run.iterations = 0
    /\ pc \in {"stones", "item", "shop"} /\ run.kind # "item" => run.todo = {}
    /\ run.kind = "daily" /\ (pc = "item" \/ run.iterations > 0) =>
          \A m \in Missions : run.result[m] \notin {"none", "stamina"}

RaidInvariant == command = "raid" => RaidInv

LEMMA RaidInit == Init => RaidInvariant
<1>. SUFFICES ASSUME Init, command = "raid" PROVE RaidInv
  BY DEF RaidInvariant
<1>1. TheRaid!Init
  BY DEF Init
<1>2. pc = "status"
  BY <1>1 DEF TheRaid!Init
<1>3. /\ {"kind", "todo", "result", "iterations"} \subseteq DOMAIN run
      /\ run.todo = Missions /\ run.iterations = 0
      /\ run.result = [m \in Missions |-> "none"]
  BY <1>1 DEF TheRaid!Init
<1>4. run.result \in [Missions -> Outcomes] /\ Missions \ run.todo = {}
  BY <1>3 DEF Outcomes
<1>. QED  BY <1>2, <1>3, <1>4 DEF RaidInv

\* One mission is dealt with.
LEMMA MissionDone ==
  ASSUME RaidInv, NEW m \in Missions, pc = "raid", pc' = pc, NEW status \in Outcomes,
         status # "none", run' = TheRaid!Result(m, status)
  PROVE  RaidInv'
<1> DEFINE results == [run.result EXCEPT ![m] = status]
           rest == run.todo \ {m}
<1>1. /\ {"kind", "todo", "result", "iterations"} \subseteq DOMAIN run
      /\ run.result \in [Missions -> Outcomes] /\ run.iterations = 0
  BY DEF RaidInv
<1>2. run' = [run EXCEPT !.todo = rest, !.result = results]
  BY DEF TheRaid!Result
<1>3. results \in [Missions -> Outcomes]
  BY <1>1
<1>4. \A k \in Missions \ rest : results[k] # "none"
  BY <1>1 DEF RaidInv
<1> HIDE DEF results, rest
<1>5. /\ {"kind", "todo", "result", "iterations"} \subseteq DOMAIN run'
      /\ run'.kind = run.kind /\ run'.iterations = 0
      /\ run'.todo = rest /\ run'.result = results
  BY <1>1, <1>2
<1>. QED  BY <1>3, <1>4, <1>5 DEF RaidInv

\* Item raids are out of reach of a daily routine whose heroes went short.
LEMMA RaidMoves ==
  ASSUME RaidInv, TheRaid!Next PROVE RaidInv'
<1>0. /\ {"kind", "todo", "result", "iterations"} \subseteq DOMAIN run
      /\ run.result \in [Missions -> Outcomes] /\ run.iterations \in Nat
  BY DEF RaidInv
<1>1. CASE TheRaid!ReadStatus
  <2>1. PICK seen : run' = [run EXCEPT !.seen = seen]
    BY <1>1 DEF TheRaid!ReadStatus
  <2>2. /\ {"kind", "todo", "result", "iterations"} \subseteq DOMAIN run'
        /\ run'.kind = run.kind /\ run'.todo = run.todo
        /\ run'.result = run.result /\ run'.iterations = run.iterations
    BY <1>0, <2>1
  <2>3. pc = "status" /\ pc' = "raid"
    BY <1>1 DEF TheRaid!ReadStatus
  <2>. QED  BY <2>2, <2>3 DEF RaidInv
<1>2. CASE TheRaid!GoStraightToItems \/ TheRaid!RaidsDone \/ TheRaid!ItemRaidEnds \/ TheRaid!GoShopping
  <2>1. run' = run
    BY <1>2 DEF TheRaid!GoStraightToItems, TheRaid!RaidsDone, TheRaid!ItemRaidEnds, TheRaid!GoShopping
  <2>. QED  BY <1>0, <1>2, <2>1
            DEF RaidInv, TheRaid!GoStraightToItems, TheRaid!RaidsDone, TheRaid!ItemRaidEnds,
                TheRaid!GoShopping, TheRaid!AfterItems
<1>3. CASE TheRaid!Stones
  <2>1. run' = run /\ pc = "stones"
    BY <1>3 DEF TheRaid!Stones
  <2>2. CASE pc' = "done"
    BY <1>0, <2>1, <2>2 DEF RaidInv
  <2>3. CASE pc' # "done"
    <3>1. /\ run.kind # "hero" /\ pc' \in {"item", "shop"}
          /\ \A m \in Missions : run.result[m] # "stamina"
      BY <1>3, <2>3 DEF TheRaid!Stones
    <3>2. run.kind # "item" => run.todo = {}
      BY <2>1 DEF RaidInv
    <3>3. run.kind = "daily" => \A m \in Missions : run.result[m] \notin {"none", "stamina"}
      BY <3>1, <3>2 DEF RaidInv
    <3>. QED  BY <2>1, <3>1, <3>2, <3>3 DEF RaidInv
  <2>. QED  BY <2>2, <2>3
<1>4. CASE TheRaid!Unauthorized
  <2>1. run' = [run EXCEPT !.raised = TRUE] /\ pc' = "done"
    BY <1>4 DEF TheRaid!Unauthorized
  <2>2. /\ {"kind", "todo", "result", "iterations"} \subseteq DOMAIN run'
        /\ run'.kind = run.kind /\ run'.todo = run.todo
        /\ run'.result = run.result /\ run'.iterations = run.iterations
    BY <1>0, <2>1
  <2>. QED  BY <2>1, <2>2 DEF RaidInv
<1>5. CASE TheRaid!ItemRaid
  <2>1. run' = [run EXCEPT !.iterations = @ + 1] /\ pc = "item" /\ pc' = "item"
    BY <1>5 DEF TheRaid!ItemRaid
  <2>2. /\ {"kind", "todo", "result", "iterations"} \subseteq DOMAIN run'
        /\ run'.kind = run.kind /\ run'.todo = run.todo
        /\ run'.result = run.result /\ run'.iterations = run.iterations + 1
    BY <1>0, <2>1
  <2>. QED  BY <1>0, <2>1, <2>2 DEF RaidInv
<1>6. ASSUME NEW m \in Missions,
             TheRaid!SkipRaided(m) \/ TheRaid!Raid(m) \/ TheRaid!LimitReached(m) \/ TheRaid!RaidFails(m)
      PROVE  RaidInv'
  <2>1. pc = "raid" /\ pc' = pc
    BY <1>6 DEF TheRaid!SkipRaided, TheRaid!Raid, TheRaid!LimitReached, TheRaid!RaidFails, TheRaid!Turn
  <2>2. \E status \in {"skipped", "success", "limit", "error"} : run' = TheRaid!Result(m, status)
    BY <1>6 DEF TheRaid!SkipRaided, TheRaid!Raid, TheRaid!LimitReached, TheRaid!RaidFails
  <2>. QED  BY <2>1, <2>2, MissionDone DEF Outcomes
<1>7. ASSUME NEW m \in Missions, TheRaid!StaminaShort(m) PROVE RaidInv'
  <2>1. pc = "raid" /\ pc' = pc
    BY <1>7 DEF TheRaid!StaminaShort, TheRaid!Turn
  <2>2. CASE run' = TheRaid!Result(m, "stamina")
    BY <2>1, <2>2, MissionDone DEF Outcomes
  <2>3. CASE run' = [run EXCEPT !.recovered = @ \union {m}]
    <3>1. /\ {"kind", "todo", "result", "iterations"} \subseteq DOMAIN run'
          /\ run'.kind = run.kind /\ run'.todo = run.todo
          /\ run'.result = run.result /\ run'.iterations = run.iterations
      BY <1>0, <2>3
    <3>. QED  BY <2>1, <3>1 DEF RaidInv
  <2>. QED  BY <1>7, <2>2, <2>3 DEF TheRaid!StaminaShort
<1>. QED  BY <1>1, <1>2, <1>3, <1>4, <1>5, <1>6, <1>7 DEF TheRaid!Next

LEMMA RaidSteps == ASSUME RaidInvariant, [Next]_vars PROVE RaidInvariant'
<1>. SUFFICES ASSUME command' = "raid" PROVE RaidInv'
  BY DEF RaidInvariant
<1>1. command = "raid" /\ RaidInv
  BY DEF RaidInvariant, Next, vars
<1>2. CASE TheRaid!Next
  BY <1>1, <1>2, RaidMoves
<1>3. CASE Next
  BY <1>1, <1>2, <1>3 DEF Next
<1>4. CASE UNCHANGED vars
  BY <1>1, <1>4 DEF vars, RaidInv
<1>. QED  BY <1>3, <1>4

\* run_daily_raid leaves the stamina to the item raids only when every hero mission has a result
\* and none is a lack of stamina: for every set of missions, budget and loss.
THEOREM HeroesFirst == Spec => []HeroesComeFirst
<1>1. RaidInvariant => HeroesComeFirst
  BY DEF RaidInvariant, RaidInv, HeroesComeFirst, TheRaid!HeroesComeFirst
<1>2. Init => RaidInvariant
  BY RaidInit
<1>3. RaidInvariant /\ [Next]_vars => RaidInvariant'
  BY RaidSteps
<1>. QED  BY <1>1, <1>2, <1>3, PTL DEF Spec
==============================================================================
