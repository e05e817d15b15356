---------------------------------- MODULE Arena ----------------------------------
(* `arena attack` (commands/arena.py): resolve a target, read one's own rank, wait  *)
(* until the target is in the rotating list of candidates, check the range, and     *)
(* send one attack. All players' ranks may move between any two of these requests.  *)
EXTENDS Naturals, GameCall

CONSTANTS Ranks,    \* lowest rank there is; 1 is the top
          Top,      \* ranks that topGet shows
          Retries,  \* --candidate-retries
          Drifts    \* how often ranks move during a run

VARIABLES pc,    \* "status", "top", "resolve", "own", "find", "ownAgain", "range", "send", "done"
          game,  \* the server: both ranks, candidate list, attacks carried out
          run    \* what the run has read

vars == <<pc, game, run>>

Init == /\ pc = "status"
        /\ game \in [own : 1..Ranks, place : 1..Ranks, listed : BOOLEAN, attacks : {0},
                     drifts : {Drifts}, drifted : {FALSE}, sentDown : {FALSE}]
        /\ game.own # game.place
        \* a saved snapshot may know an old place of the target
        /\ \E snapshot, force, dry \in BOOLEAN :
             /\ force => snapshot
             /\ run = [snapshot |-> snapshot, force |-> force, dry |-> dry, own |-> 0, known |-> 0,
                       captured |-> FALSE, tries |-> 0, outcome |-> "none"]

-------------------------------------------------------------------------------
Goto(next, r) == pc' = next /\ run' = r

End(outcome, r) == Goto("done", [r EXCEPT !.outcome = outcome])

\* Upper-only: a target at or below the own rank is refused.
IfAbove(place, own, next, r) == IF place >= own THEN End("refused", r) ELSE Goto(next, r)

Reads(phase) == pc = phase /\ UNCHANGED game

\* drifted: has a rank moved since the target's place was read?
Drift == /\ game.drifts > 0 /\ pc # "done"
         /\ \E own, place \in 1..Ranks :
              /\ own # place /\ <<own, place>> # <<game.own, game.place>>
              /\ game' = [game EXCEPT !.own = own, !.place = place, !.drifts = @ - 1,
                                      !.drifted = TRUE]
         /\ UNCHANGED <<pc, run>>

\* ArenaError, or HWAuthError, at any of the reads.
ReadFails == /\ pc \notin {"send", "done"} /\ Flaky
             /\ \E outcome \in {"refused", "raised"} : End(outcome, run)
             /\ UNCHANGED game

Status == /\ Reads("status")
          /\ Goto("top", [run EXCEPT !.own = game.own])

SeesPlace(r) == [r EXCEPT !.known = game.place]

\* topGet shows the top players and one's own rank, or 0 for it: then the status' rank
\* serves, or, for a snapshot, a new reading.
TopGet ==
    /\ pc = "top"
    /\ \E own \in {game.own} \union IF run.snapshot THEN {} ELSE {run.own} :
         LET r == [run EXCEPT !.own = own] IN
         IF game.place <= Top
         THEN \/ IfAbove(game.place, own, IF run.snapshot THEN "range" ELSE "own", SeesPlace(r))
              \/ run.snapshot /\ Goto("ownAgain", SeesPlace(r))
         ELSE IF run.snapshot THEN End("refused", r) ELSE Goto("resolve", r)
    /\ game' = [game EXCEPT !.drifted = FALSE]

\* One refresh of the candidates, while resolving a target outside the top or waiting for a
\* resolved one. The server accepts attacks on its latest list only.
FindEnemies(phase) ==
    /\ pc = phase
    /\ \E in \in BOOLEAN :
         /\ game' = [game EXCEPT !.listed = in, !.drifted = @ /\ ~in]
         /\ IF in
            THEN LET r == [SeesPlace(run) EXCEPT !.captured = TRUE, !.tries = 0] IN
                 IF phase = "resolve" THEN IfAbove(game.place, run.own, "own", r)
                                      ELSE Goto("ownAgain", r)
            ELSE IF run.tries < Retries THEN Goto(phase, [run EXCEPT !.tries = @ + 1])
                                        ELSE End("refused", run)

\* fetch_own_place before the checks; a captured candidate is not looked for again.
Own == /\ Reads("own")
       /\ LET r == [run EXCEPT !.own = game.own] IN
          IfAbove(run.known, game.own, IF run.captured THEN "range" ELSE "find", r)

OwnAsBefore == Reads("ownAgain") /\ IfAbove(run.known, run.own, "range", run)

\* The retries may have taken long: once more, against the candidate's place.
OwnAgain == /\ Reads("ownAgain")
            /\ IfAbove(run.known, game.own, "range", [run EXCEPT !.own = game.own])

CheckRange == /\ Reads("range")
              /\ \E allowed \in BOOLEAN :
                   IF ~allowed /\ ~run.force THEN End("refused", run)
                   ELSE IF run.dry THEN End("dry", run)
                   ELSE Goto("send", run)

-------------------------------------------------------------------------------
(* _send_arena_attack: one request, never a second one *)

Attacked(g) == [g EXCEPT !.attacks = @ + 1, !.sentDown = @ \/ g.place >= g.own]

RetriedUnknown(g) == Losses(Attacked, g)

\* What an unanswered attack can have done.
Unknown(g) == LossesOfOne(Attacked, g)

Attack == /\ pc = "send" /\ (game.listed \/ run.snapshot)
          /\ game' = Attacked(game)
          /\ \E outcome \in {"win", "loss", "unread"} : End(outcome, run)

\* Not enough attempts, cooldown, or any other error name.
Stopped == /\ Reads("send")
           /\ \E outcome \in {"stopped", "refused"} : End(outcome, run)

OutcomeUnknown == /\ pc = "send"
                  /\ game' \in Unknown(game)
                  /\ End("unknown", run)

Unauthorized == /\ Reads("send") /\ Flaky
                /\ End("raised", run)

Next == \/ Drift \/ ReadFails \/ Status \/ TopGet \/ Own \/ OwnAgain \/ CheckRange
        \/ Attack \/ Stopped \/ OutcomeUnknown \/ Unauthorized
        \/ \E phase \in {"resolve", "find"} : FindEnemies(phase)

Spec == Init /\ [][Next]_vars

-------------------------------------------------------------------------------
ArenaTypeOK ==
    /\ pc \in {"status", "top", "resolve", "own", "find", "ownAgain", "range", "send", "done"}
    /\ game \in [own : 1..Ranks, place : 1..Ranks, listed : BOOLEAN, attacks : Nat,
                 drifts : 0..Drifts, drifted : BOOLEAN, sentDown : BOOLEAN]
    /\ run.own \in 0..Ranks /\ run.known \in 0..Ranks /\ run.tries \in 0..Retries
    /\ run.outcome \in {"none", "refused", "raised", "dry", "win", "loss", "unread",
                        "stopped", "unknown"}

\* However long the wait for the candidate list, only a rank that moves after the target's
\* place was last read can make an attack hit somebody who is not above (the second
\* fetch_own_place of run_arena_attack, topGet of the snapshot attack).
AttacksGoUp == game.sentDown => game.drifted

\* One command spends at most one attempt, and none when it says that it sent no attack
\* (max_retries=0).
AttemptSpentOnce ==
    game.attacks <= IF run.outcome \in {"win", "loss", "unread", "unknown"} THEN 1 ELSE 0

\* Unless it works from a snapshot, a command attacks only while the target is in the latest
\* list, the one list the server accepts.
AttackedFromLatestList == pc = "send" /\ ~run.snapshot => game.listed
===============================================================================
