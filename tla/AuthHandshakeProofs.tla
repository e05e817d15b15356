------------------------ MODULE AuthHandshakeProofs ------------------------
(* Type correctness of the handshake, that it implements the book of       *)
(* sessions, and what cuts a backoff short.                                *)
EXTENDS AuthHandshake, TLAPS

LEMMA Limits ==
  /\ Interval \in 1 .. MaxBackoff /\ MinSend \in 1 .. MaxBackoff
  /\ MaxBackoff \in Nat \ {0} /\ TTL \in Nat
BY SessionAssumption

LEMMA Bounds ==
  /\ MaxLogin \in Nat \ {0} /\ 1 \in Logins /\ None \notin Logins
  /\ Identity \in [Logins -> Logins]
  /\ Timeout \in Nat \ {0} /\ MaxTrouble \in Nat
<1>1. /\ MaxLogin \in Nat \ {0} /\ None \notin Logins
      /\ Identity \in [Logins -> Logins]
      /\ Timeout \in Nat \ {0} /\ MaxTrouble \in Nat
  BY HandshakeAssumption
<1>2. 1 \in Logins
  BY <1>1 DEF Logins
<1>. QED  BY <1>1, <1>2

(* What the decisions of session.ts make of a state of the session.        *)
LEMMA NewSessionType == NewSession \in Sessions
<1>1. TTL + 1 \in 0 .. TTL + 1 /\ MaxBackoff \in 0 .. MaxBackoff
  BY Limits
<1>. QED  BY <1>1, Limits DEF NewSession, Sessions, Known, HeaderSets

LEMMA SessionTypes ==
  ASSUME NEW s \in Sessions
  PROVE  /\ Headers(s) \in HeaderSets
         /\ Older(s) \in Sessions /\ Evaluated(s) \in Sessions
         /\ Attempted(s) \in Sessions /\ Failed(s) \in Sessions
         /\ \A headers \in HeaderSets : Succeeded(s, headers) \in Sessions
<1>0. /\ s.id \in Known /\ s.tok \in Known /\ s.backoff \in 1 .. MaxBackoff
      /\ s.idAge \in 0 .. TTL + 1 /\ s.tokAge \in 0 .. TTL + 1
      /\ s.since \in 0 .. MaxBackoff /\ None \in Known
  BY DEF Sessions, Known
<1>1. Headers(s) \in HeaderSets
  BY <1>0 DEF Headers, HeaderSets, Known
<1>2. Older(s) \in Sessions
  <2>1. /\ Least(s.idAge + 1, TTL + 1) \in 0 .. TTL + 1
        /\ Least(s.tokAge + 1, TTL + 1) \in 0 .. TTL + 1
        /\ Least(s.since + 1, MaxBackoff) \in 0 .. MaxBackoff
    BY <1>0, Limits DEF Least
  <2>. QED  BY <2>1 DEF Older, Sessions
<1>3. Pruned(s) \in Sessions
  BY <1>0 DEF Pruned, Sessions
<1>4. \A p \in Sessions : Noticed(p) \in Sessions
  <2>. SUFFICES ASSUME NEW p \in Sessions PROVE Noticed(p) \in Sessions
    OBVIOUS
  <2> DEFINE pending == IF p.id \in {p.tried, p.pending} THEN None ELSE p.id
             backoff == IF p.id # p.tried /\ p.id = p.pending THEN Interval ELSE p.backoff
  <2>1. pending \in Known
    BY DEF Sessions, Known
  <2>2. backoff \in 1 .. MaxBackoff
    BY Limits DEF Sessions
  <2>3. Noticed(p) = [p EXCEPT !.pending = pending, !.backoff = backoff]
    BY DEF Noticed, Sessions
  <2> HIDE DEF pending, backoff
  <2>. QED  BY <2>1, <2>2, <2>3 DEF Sessions
<1>5. Evaluated(s) \in Sessions
  BY <1>3, <1>4 DEF Evaluated
<1>6. Attempted(s) \in Sessions
  <2>1. 0 \in 0 .. MaxBackoff
    BY Limits
  <2>. QED  BY <1>0, <1>5, <2>1 DEF Attempted, Sessions
<1>7. Failed(s) \in Sessions
  <2>1. Least(2 * s.backoff, MaxBackoff) \in 1 .. MaxBackoff
    BY <1>0, Limits DEF Least
  <2>. QED  BY <2>1 DEF Failed, Sessions
<1>8. \A headers \in HeaderSets : Succeeded(s, headers) \in Sessions
  BY Limits DEF Succeeded, Sessions
<1>. QED  BY <1>1, <1>2, <1>5, <1>6, <1>7, <1>8

LEMMA RecordTypes ==
  /\ Idle \in Calls
  /\ \A t \in Tabs : Free(t) \in Requests
  /\ \A h \in Threads, t \in Tabs : thread[h] \in Requests =>
       \A arrives \in BOOLEAN : Unheard(t, arrives)[h] \in Requests
<1>1. Empty \in HeaderSets
  BY DEF Empty, HeaderSets
<1>2. Idle \in Calls
  BY <1>1, Bounds DEF Idle, Calls
<1>3. \A t \in Tabs : Free(t) \in Requests
  BY <1>1 DEF Free, Requests
<1>4. ASSUME NEW h \in Threads, NEW t \in Tabs, thread[h] \in Requests,
             NEW arrives \in BOOLEAN
      PROVE  Unheard(t, arrives)[h] \in Requests
  <2>1. [thread[h] EXCEPT !.heard = FALSE] \in Requests
    BY <1>4 DEF Requests
  <2>. QED  BY <1>3, <1>4, <2>1 DEF Unheard
<1>. QED  BY <1>2, <1>3, <1>4

-----------------------------------------------------------------------------
LEMMA InitTyped == Init => TypeOK
<1>. SUFFICES ASSUME Init PROVE TypeOK
  OBVIOUS
<1>1. Empty \in HeaderSets /\ None \in Known /\ 1 \in Logins
  BY Bounds DEF Empty, HeaderSets, Known
<1>2. nonce \in Nonces /\ (CHOOSE t \in Tabs : TRUE) \in Tabs
  BY HandshakeAssumption DEF Init
<1>3. trouble \in 0 .. MaxTrouble
  BY Bounds DEF Init
<1>4. /\ sess \in [Tabs -> Sessions] /\ call \in [Tabs -> Calls]
      /\ thread \in [Threads -> Requests]
  BY <1>2, NewSessionType, RecordTypes DEF Init
<1>. QED  BY <1>1, <1>2, <1>3, <1>4 DEF Init, TypeOK

LEMMA NoWait == 0 \in 0 .. Timeout
BY Bounds

LEMMA FreshType == Unused # {} => Fresh \in Nonces
BY DEF Fresh, Unused

(* The tab: the game and the polls.                                        *)
LEMMA TabTyped ==
  ASSUME TypeOK, NEW t \in Tabs, LogIn(t) \/ Capture(t) \/ Poll(t) \/ Send(t)
  PROVE  TypeOK'
<1>1. sess[t] \in Sessions /\ login[t] \in Logins
  BY DEF TypeOK
<1>2. CASE LogIn(t)
  <2>1. login[t] + 1 \in Logins
    <3>1. login[t] < MaxLogin
      BY <1>2 DEF LogIn
    <3>2. login[t] \in 1 .. MaxLogin /\ MaxLogin \in Nat
      BY <1>1, HandshakeAssumption DEF Logins
    <3>. QED  BY <3>1, <3>2 DEF Logins
  <2>2. login' \in [Tabs -> Logins]
    BY <1>2, <2>1 DEF LogIn, TypeOK
  <2>. QED  BY <1>2, <2>2 DEF LogIn, TypeOK
<1>3. CASE Capture(t)
  <2>1. PICK n \in Logins, keys \in SUBSET {"id", "tok"} :
          sess' = [sess EXCEPT
            ![t].id = IF "id" \in keys THEN Identity[n] ELSE @,
            ![t].idAge = IF "id" \in keys THEN 0 ELSE @,
            ![t].tok = IF "tok" \in keys THEN n ELSE @,
            ![t].tokAge = IF "tok" \in keys THEN 0 ELSE @]
    BY <1>3 DEF Capture
  <2>2. 0 \in 0 .. TTL + 1 /\ Identity[n] \in Known /\ n \in Known
    BY Limits, Bounds DEF Known
  <2>3. sess' \in [Tabs -> Sessions]
    BY <1>1, <2>1, <2>2 DEF TypeOK, Sessions
  <2>. QED  BY <1>3, <2>3 DEF Capture, TypeOK
<1>4. CASE Poll(t)
  <2>1. Evaluated(sess[t]) \in Sessions /\ sess[t].id \in Known
    BY <1>1, SessionTypes DEF Sessions
  <2>2. sess' \in [Tabs -> Sessions] /\ judged' \in [Tabs -> Known]
    BY <1>4, <2>1 DEF Poll, TypeOK
  <2>. QED  BY <1>4, <2>2 DEF Poll, TypeOK
<1>5. CASE Send(t)
  <2>1. /\ Attempted(sess[t]) \in Sessions /\ sess[t].id \in Known
        /\ Headers(sess[t]) \in HeaderSets
    BY <1>1, SessionTypes DEF Sessions
  <2>2. [stage |-> "nonce", wait |-> 0, headers |-> Headers(sess[t])] \in Calls
    BY <2>1, NoWait DEF Calls
  <2>3. [Free(t) EXCEPT !.stage = "draw", !.heard = TRUE] \in Requests
    <3>1. Free(t) \in Requests
      BY RecordTypes
    <3>. QED  BY <3>1 DEF Requests
  <2>4. /\ sess' \in [Tabs -> Sessions] /\ judged' \in [Tabs -> Known]
        /\ call' \in [Tabs -> Calls] /\ thread' \in [Threads -> Requests]
    BY <1>5, <2>1, <2>2, <2>3 DEF Send, TypeOK
  <2>. QED  BY <1>5, <2>4 DEF Send, TypeOK
<1>. QED  BY <1>2, <1>3, <1>4, <1>5

(* A thread at the server.                                                 *)
LEMMA ThreadTyped ==
  ASSUME TypeOK, NEW h \in Threads,
         \/ Draw(h) \/ ReadNonce(h) \/ Check(h) \/ Spend(h) \/ Verify(h)
         \/ Save(h) \/ CheckOrSaveFails(h)
  PROVE  TypeOK'
<1>1. /\ thread[h] \in Requests /\ thread[h].tab \in Tabs
      /\ thread[h].headers \in HeaderSets /\ nonce \in Nonces \cup {NoNonce}
  BY DEF TypeOK, Requests
<1>2. Free(thread[h].tab) \in Requests
  BY <1>1, RecordTypes
<1>3. \A ok \in BOOLEAN : Finish(h, ok) => thread' \in [Threads -> Requests]
  <2>1. \A ok \in BOOLEAN :
          [thread[h] EXCEPT !.stage = "reply", !.ok = ok] \in Requests
    BY <1>1 DEF Requests
  <2>. QED  BY <1>2, <2>1 DEF Finish, TypeOK
<1>4. \A stage \in {"read", "spend", "verify", "save"} :
        Proceed(h, stage) => thread' \in [Threads -> Requests]
  <2>1. \A stage \in {"read", "spend", "verify", "save"} :
          [thread[h] EXCEPT !.stage = stage] \in Requests
    BY <1>1 DEF Requests
  <2>. QED  BY <2>1 DEF Proceed, TypeOK
<1>5. CASE ReadNonce(h)
  <2>1. [thread[h] EXCEPT !.stage = "reply", !.nonce = nonce,
                          !.ok = nonce # NoNonce] \in Requests
    BY <1>1 DEF Requests
  <2>2. thread' \in [Threads -> Requests]
    BY <1>2, <1>5, <2>1 DEF ReadNonce, TypeOK
  <2>. QED  BY <1>5, <2>2 DEF ReadNonce, TypeOK
<1>6. CASE Draw(h)
  BY <1>4, <1>6, FreshType DEF Draw, TypeOK
<1>7. CASE Check(h)
  BY <1>3, <1>4, <1>7 DEF Check, TypeOK
<1>8. CASE Spend(h)
  BY <1>4, <1>8 DEF Spend, TypeOK
<1>9. CASE Verify(h)
  BY <1>3, <1>4, <1>9 DEF Verify, TypeOK
<1>10. CASE Save(h)
  <2>1. stored' \in [Tabs -> HeaderSets] /\ entered' \in [Tabs -> HeaderSets]
    BY <1>1, <1>10 DEF Save, TypeOK
  <2>2. thread' \in [Threads -> Requests]
    BY <1>3, <1>10 DEF Save
  <2>. QED  BY <1>10, <2>1, <2>2 DEF Save, TypeOK
<1>11. CASE CheckOrSaveFails(h)
  <2>1. trouble' \in 0 .. MaxTrouble
    BY <1>11, Bounds DEF CheckOrSaveFails, Fails, TypeOK
  <2>2. thread' \in [Threads -> Requests]
    BY <1>3, <1>11 DEF CheckOrSaveFails
  <2>. QED  BY <1>11, <2>1, <2>2 DEF CheckOrSaveFails, TypeOK
<1>. QED  BY <1>5, <1>6, <1>7, <1>8, <1>9, <1>10, <1>11

(* What a tab hears, and what it does not.                                 *)
LEMMA EndTyped ==
  ASSUME TypeOK, NEW t \in Tabs,
         \/ GiveUp(t) \/ Reload(t)
         \/ \E h \in Threads : HearNonce(t, h) \/ HearAnswer(t, h)
  PROVE  TypeOK'
<1>1. /\ sess[t] \in Sessions /\ call[t] \in Calls
      /\ call[t].headers \in HeaderSets
  BY DEF TypeOK, Calls
<1>2. /\ Failed(sess[t]) \in Sessions
      /\ Succeeded(sess[t], call[t].headers) \in Sessions
      /\ Idle \in Calls /\ Free(t) \in Requests /\ None \in Known
  BY <1>1, SessionTypes, RecordTypes DEF Known
<1>3. \A arrives \in BOOLEAN : Unheard(t, arrives) \in [Threads -> Requests]
  <2>1. \A arrives \in BOOLEAN, h \in Threads :
          Unheard(t, arrives)[h] \in Requests
    BY RecordTypes DEF TypeOK
  <2>. QED  BY <2>1 DEF Unheard
<1>4. trouble > 0 => trouble - 1 \in 0 .. MaxTrouble
  BY Bounds DEF TypeOK
<1>5. CASE GiveUp(t)
  BY <1>2, <1>3, <1>4, <1>5 DEF GiveUp, Fails, TypeOK
<1>6. CASE Reload(t)
  BY <1>2, <1>3, <1>4, <1>6, NewSessionType DEF Reload, Fails, TypeOK
<1>7. ASSUME NEW h \in Threads, HearNonce(t, h)
      PROVE  TypeOK'
  <2>1. [thread[h] EXCEPT !.stage = "check", !.headers = call[t].headers]
          \in Requests
    BY <1>1 DEF TypeOK, Requests
  <2>2. [call[t] EXCEPT !.stage = "auth", !.wait = 0] \in Calls
    BY <1>1, NoWait DEF Calls
  <2>3. /\ sess' \in [Tabs -> Sessions] /\ call' \in [Tabs -> Calls]
        /\ thread' \in [Threads -> Requests]
    BY <1>2, <1>7, <2>1, <2>2 DEF HearNonce, TypeOK
  <2>. QED  BY <1>7, <2>3 DEF HearNonce, TypeOK
<1>8. ASSUME NEW h \in Threads, HearAnswer(t, h)
      PROVE  TypeOK'
  BY <1>2, <1>8 DEF HearAnswer, TypeOK
<1>. QED  BY <1>5, <1>6, <1>7, <1>8

LEMMA RestTyped ==
  ASSUME TypeOK, Restart \/ Tick \/ UNCHANGED vars
  PROVE  TypeOK'
<1>1. CASE Restart
  <2>1. /\ \A t \in Tabs : Failed(sess[t]) \in Sessions
        /\ \A h \in Threads : Free(thread[h].tab) \in Requests
    BY SessionTypes, RecordTypes DEF TypeOK, Requests
  <2>2. trouble' \in 0 .. MaxTrouble
    BY <1>1, Bounds DEF Restart, Fails, TypeOK
  <2>3. sess' \in [Tabs -> Sessions]
    BY <1>1, <2>1 DEF Restart, TypeOK
  <2>4. /\ thread' \in [Threads -> Requests] /\ call' \in [Tabs -> Calls]
        /\ nonce' \in Nonces
    <3>1. thread' = [h \in Threads |-> Free(thread[h].tab)]
      BY <1>1 DEF Restart
    <3>2. call' = [t \in Tabs |-> Idle] /\ Unused # {} /\ nonce' = Fresh
      BY <1>1 DEF Restart
    <3>. QED  BY <2>1, <3>1, <3>2, FreshType, RecordTypes
  <2>. QED  BY <1>1, <2>2, <2>3, <2>4 DEF Restart, TypeOK
<1>2. CASE Tick
  <2>1. \A t \in Tabs : Older(sess[t]) \in Sessions
    BY SessionTypes DEF TypeOK
  <2>2. \A t \in Tabs : [call[t] EXCEPT !.wait = @ + 1] \in Calls
    <3>1. \A t \in Tabs : call[t] \in Calls /\ call[t].wait < Timeout
      BY <1>2 DEF Tick, TypeOK
    <3>2. \A c \in Calls :
            c.wait < Timeout => [c EXCEPT !.wait = @ + 1] \in Calls
      BY Bounds DEF Calls
    <3>. QED  BY <3>1, <3>2
  <2>3. sess' \in [Tabs -> Sessions] /\ call' \in [Tabs -> Calls]
    BY <1>2, <2>1, <2>2, RecordTypes DEF Tick
  <2>. QED  BY <1>2, <2>3 DEF Tick, TypeOK
<1>3. CASE UNCHANGED vars
  BY <1>3 DEF vars, TypeOK
<1>. QED  BY <1>1, <1>2, <1>3

LEMMA StepTyped == TypeOK /\ [Next]_vars => TypeOK'
BY TabTyped, ThreadTyped, EndTyped, RestTyped DEF Next

(* The handshake keeps its types, however many tabs send and whatever      *)
(* fails.                                                                  *)
THEOREM HandshakeTyped == Spec => []TypeOK
<1>1. TypeOK /\ [Next]_vars => TypeOK'
  BY StepTyped
<1>. QED  BY InitTyped, <1>1, PTL DEF Spec

-----------------------------------------------------------------------------
(* A tab waits for one thread at most, which is as far as the tab says.    *)
OneIsHeard ==
  \A t \in Tabs, h, g \in Threads : Heard(h, t) /\ Heard(g, t) => h = g

StagesAgree ==
  \A t \in Tabs, h \in Threads : Heard(h, t) =>
    \/ call[t].stage = "nonce" /\ thread[h].stage \in {"draw", "read", "reply"}
    \/ /\ call[t].stage = "auth" /\ thread[h].headers = call[t].headers
       /\ thread[h].stage \in {"check", "spend", "verify", "save", "reply"}

(* The tab was told of no later session than its account's n-th.           *)
ToldUpTo(t, n) == sess[t].sent \in {Empty} \cup {Proper(k) : k \in 1 .. n}

(* What is about to be saved is a session of the account, and no older     *)
(* than what the tab was told of if the tab waits for it.                  *)
SavesAreDue ==
  \A h \in Threads : At(h, "save") =>
    \E n \in 1 .. login[thread[h].tab] :
      /\ thread[h].headers = Proper(n)
      /\ thread[h].heard => ToldUpTo(thread[h].tab, n)

Answered(h, t) ==
  Heard(h, t) /\ At(h, "reply") /\ thread[h].ok /\ call[t].stage = "auth"

(* What a thread has to answer is what was entered last.                   *)
AnswersAreEntered ==
  \A t \in Tabs, h \in Threads : Answered(h, t) =>
    thread[h].headers = entered[t] /\ entered[t] # Empty

(* The tab was told of no later session than was entered.                  *)
ToldAreEntered ==
  \A t \in Tabs :
    \/ entered[t] = Empty /\ sess[t].sent = Empty
    \/ \E n \in 1 .. login[t] : entered[t] = Proper(n) /\ ToldUpTo(t, n)

BookInv ==
  /\ TypeOK /\ OneIsHeard /\ StagesAgree /\ SavesAreDue
  /\ AnswersAreEntered /\ ToldAreEntered /\ StoredIsWhole

LEMMA InitBook == Init => BookInv /\ Book!Init
<1>. SUFFICES ASSUME Init PROVE BookInv /\ Book!Init
  OBVIOUS
<1>1. TypeOK
  BY InitTyped
<1>2. \A h \in Threads : thread[h].stage = "free"
  BY DEF Init, Free
<1>3. OneIsHeard /\ StagesAgree /\ SavesAreDue /\ AnswersAreEntered
  BY <1>2
  DEF OneIsHeard, StagesAgree, SavesAreDue, AnswersAreEntered, Answered,
      Heard, Working, At
<1>4. \A t \in Tabs : sess[t].sent = Empty
  BY DEF Init, NewSession, Empty
<1>5. ToldAreEntered /\ StoredIsWhole
  BY <1>4 DEF Init, ToldAreEntered, StoredIsWhole
<1>6. Book!Init
  BY <1>2, <1>4 DEF Init, Abandoned, Working, At, Book!Init
<1>. QED  BY <1>1, <1>3, <1>5, <1>6 DEF BookInv

(* The state of the session forgets what it was told and does not make it  *)
(* up.                                                                     *)
LEMMA SessionKeeps ==
  ASSUME NEW s \in Sessions
  PROVE  /\ Older(s).sent = s.sent /\ Failed(s).sent = s.sent
         /\ Evaluated(s).sent = s.sent /\ Attempted(s).sent = s.sent
         /\ \A headers : Succeeded(s, headers).sent = headers
<1>1. /\ Older(s).sent = s.sent /\ Failed(s).sent = s.sent
      /\ \A headers : Succeeded(s, headers).sent = headers
  BY DEF Older, Failed, Succeeded, Sessions
<1>2. Pruned(s) \in Sessions /\ Pruned(s).sent = s.sent
  BY DEF Pruned, Sessions, Known
<1>3. \A p \in Sessions : Noticed(p).sent = p.sent
  BY DEF Noticed, Sessions
<1>4. Evaluated(s).sent = s.sent
  BY <1>2, <1>3 DEF Evaluated
<1>5. Attempted(s).sent = Evaluated(s).sent
  BY SessionTypes DEF Attempted, Sessions
<1>. QED  BY <1>1, <1>4, <1>5

LEMMA CaptureKeeps ==
  ASSUME sess \in [Tabs -> Sessions], NEW t \in Tabs, Capture(t),
         NEW u \in Tabs
  PROVE  sess'[u].sent = sess[u].sent
<1>1. PICK n \in Logins, keys \in SUBSET {"id", "tok"} :
        sess' = [sess EXCEPT
          ![t].id = IF "id" \in keys THEN Identity[n] ELSE @,
          ![t].idAge = IF "id" \in keys THEN 0 ELSE @,
          ![t].tok = IF "tok" \in keys THEN n ELSE @,
          ![t].tokAge = IF "tok" \in keys THEN 0 ELSE @]
  BY DEF Capture
<1>. QED  BY <1>1 DEF Sessions

(* A step that saves nothing, answers nothing and tells nothing.           *)
LEMMA CalmKeepsBook ==
  ASSUME BookInv, TypeOK', UNCHANGED <<stored, entered>>,
         \A t \in Tabs : /\ 1 .. login[t] \subseteq 1 .. login'[t]
                         /\ sess'[t].sent \in {sess[t].sent, Empty},
         \A h \in Threads, t \in Tabs : Heard(h, t)' =>
           /\ Heard(h, t) /\ thread'[h] = thread[h]
           /\ call'[t].stage = call[t].stage
           /\ call'[t].headers = call[t].headers,
         \A h \in Threads : At(h, "save")' =>
           /\ At(h, "save") /\ thread'[h].tab = thread[h].tab
           /\ thread'[h].headers = thread[h].headers
           /\ thread'[h].heard => thread[h].heard
  PROVE  BookInv'
<1>1. \A h \in Threads : thread[h].tab \in Tabs
  BY DEF BookInv, TypeOK, Requests
<1>2. OneIsHeard' /\ StagesAgree'
  BY DEF BookInv, OneIsHeard, StagesAgree
<1>3. \A t \in Tabs : \A n : ToldUpTo(t, n) => ToldUpTo(t, n)'
  BY DEF ToldUpTo, Proper, Empty
<1>4. SavesAreDue'
  BY <1>1, <1>3 DEF BookInv, SavesAreDue, Proper
<1>5. AnswersAreEntered'
  BY DEF BookInv, AnswersAreEntered, Answered, At, Empty
<1>6. ToldAreEntered'
  <2>. SUFFICES ASSUME NEW t \in Tabs
                PROVE  \/ entered'[t] = Empty /\ sess'[t].sent = Empty
                       \/ \E n \in 1 .. login'[t] :
                            entered'[t] = Proper(n) /\ ToldUpTo(t, n)'
    BY DEF ToldAreEntered, Proper, Empty
  <2>1. CASE entered[t] = Empty /\ sess[t].sent = Empty
    BY <2>1
  <2>2. CASE \E n \in 1 .. login[t] : entered[t] = Proper(n) /\ ToldUpTo(t, n)
    BY <2>2, <1>3
  <2>. QED  BY <2>1, <2>2 DEF BookInv, ToldAreEntered
<1>7. StoredIsWhole'
  BY DEF BookInv, StoredIsWhole, Proper, Empty
<1>. QED  BY <1>2, <1>4, <1>5, <1>6, <1>7 DEF BookInv

(* What a step does to the threads when it frees one or takes one's tab.   *)
LEMMA UnheardKeeps ==
  ASSUME TypeOK, NEW t \in Tabs, NEW arrives \in BOOLEAN, NEW h \in Threads,
         thread' = Unheard(t, arrives)
  PROVE  /\ \A u \in Tabs : Heard(h, u)' =>
              u # t /\ Heard(h, u) /\ thread'[h] = thread[h]
         /\ At(h, "save")' => /\ At(h, "save")
                              /\ thread'[h].tab = thread[h].tab
                              /\ thread'[h].headers = thread[h].headers
                              /\ thread'[h].heard => thread[h].heard
         /\ thread[h].tab # t => thread'[h] = thread[h]
         /\ thread'[h].tab = thread[h].tab
<1>1. thread[h] \in Requests
  BY DEF TypeOK
<1>2. CASE ~Heard(h, t)
  <2>1. thread'[h] = thread[h]
    BY <1>2 DEF Unheard
  <2>. QED  BY <1>2, <2>1 DEF Heard, Working, At
<1>3. CASE Heard(h, t)
  <2>1. thread[h].tab = t
    BY <1>3 DEF Heard
  <2>2. \/ /\ thread'[h].stage = thread[h].stage /\ ~thread'[h].heard
           /\ thread'[h].tab = thread[h].tab
           /\ thread'[h].headers = thread[h].headers
        \/ thread'[h].stage = "free" /\ thread'[h].tab = t
    BY <1>1, <1>3 DEF Unheard, Free, Requests
  <2>. QED  BY <2>1, <2>2 DEF Heard, Working, At
<1>. QED  BY <1>2, <1>3

LEMMA TabKeepsBook ==
  ASSUME BookInv, TypeOK',
         \/ Tick \/ Restart \/ UNCHANGED vars
         \/ \E t \in Tabs : \/ LogIn(t) \/ Capture(t) \/ Poll(t) \/ GiveUp(t)
                            \/ Reload(t)
  PROVE  BookInv'
<1>1. /\ sess \in [Tabs -> Sessions] /\ login \in [Tabs -> Logins]
      /\ call \in [Tabs -> Calls] /\ TypeOK
  BY DEF BookInv, TypeOK
<1>2. UNCHANGED <<stored, entered>>
  BY DEF Tick, Restart, LogIn, Capture, Poll, GiveUp, Reload, vars
<1>3. NewSession.sent = Empty /\ Idle.stage = "idle" /\ Idle.headers = Empty
  BY DEF NewSession, Empty, Idle
<1>4. ASSUME NEW t \in Tabs
      PROVE  1 .. login[t] \subseteq 1 .. login'[t]
  <2>1. login' = login \/ \E u \in Tabs : login' = [login EXCEPT ![u] = @ + 1]
    BY DEF Tick, Restart, LogIn, Capture, Poll, GiveUp, Reload, vars
  <2>. QED  BY <1>1, <2>1 DEF Logins
<1>5. ASSUME NEW t \in Tabs
      PROVE  sess'[t].sent \in {sess[t].sent, Empty}
  <2>1. CASE Tick \/ Restart
    BY <1>1, <2>1, SessionKeeps DEF Tick, Restart
  <2>2. ASSUME NEW u \in Tabs, Poll(u) \/ GiveUp(u) \/ Reload(u)
        PROVE  sess'[t] \in {sess[t], Evaluated(sess[t]), Failed(sess[t]),
                             NewSession}
    BY <1>1, <2>2 DEF Poll, GiveUp, Reload
  <2>3. ASSUME NEW u \in Tabs, Capture(u)
        PROVE  sess'[t].sent = sess[t].sent
    BY <1>1, <2>3, CaptureKeeps
  <2>4. CASE sess' = sess
    BY <2>4
  <2>. QED
    BY <1>1, <1>3, <2>1, <2>2, <2>3, <2>4, SessionKeeps DEF LogIn, vars
<1>6. ASSUME NEW h \in Threads
      PROVE  /\ \A t \in Tabs : Heard(h, t)' =>
                  /\ Heard(h, t) /\ thread'[h] = thread[h]
                  /\ call'[t].stage = call[t].stage
                  /\ call'[t].headers = call[t].headers
             /\ At(h, "save")' =>
                  /\ At(h, "save") /\ thread'[h].tab = thread[h].tab
                  /\ thread'[h].headers = thread[h].headers
                  /\ thread'[h].heard => thread[h].heard
  <2>1. CASE UNCHANGED <<call, thread>>
    BY <2>1 DEF Heard, Working, At
  <2>2. CASE Restart
    BY <2>2 DEF Restart, Free, Heard, Working, At
  <2>3. CASE Tick
    <3>1. \A t \in Tabs : /\ call'[t].stage = call[t].stage
                          /\ call'[t].headers = call[t].headers
      BY <1>1, <1>3, <2>3 DEF Tick, Calls
    <3>. QED  BY <2>3, <3>1 DEF Tick, Heard, Working, At
  <2>4. ASSUME NEW t \in Tabs, GiveUp(t) \/ Reload(t)
        PROVE  /\ \E arrives \in BOOLEAN : thread' = Unheard(t, arrives)
               /\ \A u \in Tabs \ {t} : call'[u] = call[u]
    BY <1>1, <2>4 DEF GiveUp, Reload
  <2>5. CASE \E t \in Tabs : GiveUp(t) \/ Reload(t)
    BY <1>1, <2>4, <2>5, UnheardKeeps
  <2>. QED
    BY <2>1, <2>2, <2>3, <2>5 DEF LogIn, Capture, Poll, vars
<1>. QED  BY <1>2, <1>4, <1>5, <1>6, CalmKeepsBook

LEMMA SendKeepsBook ==
  ASSUME BookInv, TypeOK', NEW t \in Tabs, Send(t)
  PROVE  BookInv'
<1>1. PICK h \in Threads :
        /\ At(h, "free")
        /\ thread' = [thread EXCEPT ![h] =
             [Free(t) EXCEPT !.stage = "draw", !.heard = TRUE]]
  BY DEF Send
<1>2. /\ UNCHANGED <<login, stored, entered>> /\ call[t].stage = "idle"
      /\ sess' = [sess EXCEPT ![t] = Attempted(sess[t])]
      /\ call' = [call EXCEPT ![t] =
           [stage |-> "nonce", wait |-> 0, headers |-> Headers(sess[t])]]
  BY DEF Send, Idle
<1>3. /\ thread'[h].stage = "draw" /\ thread'[h].tab = t
      /\ \A g \in Threads \ {h} : thread'[g] = thread[g]
      /\ \A g \in Threads : ~Heard(g, t)
  BY <1>1, <1>2 DEF Free, BookInv, TypeOK, StagesAgree
<1>4. /\ call'[t].stage = "nonce"
      /\ \A u \in Tabs \ {t} : call'[u] = call[u]
      /\ \A u \in Tabs : sess'[u].sent = sess[u].sent
  BY <1>2, SessionKeeps DEF BookInv, TypeOK
<1>5. OneIsHeard' /\ StagesAgree'
  BY <1>3, <1>4 DEF BookInv, OneIsHeard, StagesAgree, Heard, Working, At
<1>6. SavesAreDue' /\ ToldAreEntered' /\ StoredIsWhole'
  <2>1. \A u \in Tabs : \A n : ToldUpTo(u, n)' <=> ToldUpTo(u, n)
    BY <1>4 DEF ToldUpTo, Proper, Empty
  <2>2. \A g \in Threads :
          At(g, "save")' => At(g, "save") /\ thread'[g] = thread[g]
    BY <1>3 DEF At
  <2>3. \A g \in Threads : thread[g].tab \in Tabs
    BY DEF BookInv, TypeOK, Requests
  <2>4. SavesAreDue'
    BY <1>2, <2>1, <2>2, <2>3 DEF BookInv, SavesAreDue, Proper
  <2>. QED
    BY <1>2, <1>4, <2>1, <2>4
    DEF BookInv, ToldAreEntered, StoredIsWhole, Proper, Empty
<1>7. AnswersAreEntered'
  BY <1>2, <1>3, <1>4
  DEF BookInv, AnswersAreEntered, Answered, Heard, Working, At, Empty
<1>. QED  BY <1>5, <1>6, <1>7 DEF BookInv

(* A thread goes on for the tab and with the headers it has, or is done.   *)
LEMMA ThreadMoves ==
  ASSUME TypeOK, NEW h \in Threads,
         \/ Draw(h) \/ ReadNonce(h) \/ Check(h) \/ Spend(h) \/ Verify(h)
         \/ Save(h) \/ CheckOrSaveFails(h)
  PROVE  /\ UNCHANGED <<login, sess, call>>
         /\ \A g \in Threads \ {h} : thread'[g] = thread[g]
         /\ thread'[h].tab = thread[h].tab
         /\ \/ thread'[h].stage = "free"
            \/ /\ thread'[h].headers = thread[h].headers
               /\ thread'[h].heard = thread[h].heard
               /\ \/ At(h, "draw") /\ thread'[h].stage = "read"
                  \/ At(h, "read") /\ thread'[h].stage = "reply"
                  \/ /\ At(h, "check") \/ At(h, "verify") \/ At(h, "save")
                     /\ thread'[h].stage = "reply"
                     /\ thread'[h].ok => Save(h)
                  \/ At(h, "check") /\ thread'[h].stage = "spend"
                  \/ At(h, "spend") /\ thread'[h].stage = "verify"
                  \/ /\ At(h, "verify") /\ thread'[h].stage = "save"
                     /\ thread[h].headers = Proper(login[thread[h].tab])
         /\ \/ UNCHANGED <<stored, entered>> /\ ~Save(h)
            \/ /\ Save(h) /\ At(h, "save")
               /\ stored' = [stored EXCEPT ![thread[h].tab] = thread[h].headers]
<1>1. UNCHANGED <<login, sess, call>>
  BY DEF Draw, ReadNonce, Check, Spend, Verify, Save, CheckOrSaveFails
<1>2. thread[h] \in Requests /\ thread[h].tab \in Tabs
  BY DEF TypeOK, Requests
<1>3. /\ \A g \in Threads \ {h} : thread'[g] = thread[g]
      /\ thread'[h].tab = thread[h].tab
      /\ \/ thread'[h].stage = "free"
         \/ /\ thread'[h].headers = thread[h].headers
            /\ thread'[h].heard = thread[h].heard
            /\ \/ At(h, "draw") /\ thread'[h].stage = "read"
               \/ At(h, "read") /\ thread'[h].stage = "reply"
               \/ /\ At(h, "check") \/ At(h, "verify") \/ At(h, "save")
                  /\ thread'[h].stage = "reply"
                  /\ thread'[h].ok => Save(h)
               \/ At(h, "check") /\ thread'[h].stage = "spend"
               \/ At(h, "spend") /\ thread'[h].stage = "verify"
               \/ /\ At(h, "verify") /\ thread'[h].stage = "save"
                  /\ thread[h].headers = Proper(login[thread[h].tab])
  <2>1. \A ok \in BOOLEAN : Finish(h, ok) =>
          /\ \A g \in Threads \ {h} : thread'[g] = thread[g]
          /\ thread'[h].tab = thread[h].tab
          /\ \/ thread'[h].stage = "free"
             \/ /\ thread'[h].headers = thread[h].headers
                /\ thread'[h].heard = thread[h].heard
                /\ thread'[h].stage = "reply" /\ thread'[h].ok = ok
    BY <1>2 DEF Finish, Free, TypeOK, Requests
  <2>2. \A stage : Proceed(h, stage) =>
          /\ \A g \in Threads \ {h} : thread'[g] = thread[g]
          /\ thread'[h].tab = thread[h].tab
          /\ thread'[h].headers = thread[h].headers
          /\ thread'[h].heard = thread[h].heard
          /\ thread'[h].stage = stage
    BY <1>2 DEF Proceed, TypeOK, Requests
  <2>3. CASE Draw(h)
    BY <2>2, <2>3 DEF Draw
  <2>4. CASE ReadNonce(h)
    BY <1>2, <2>4 DEF ReadNonce, Free, TypeOK, Requests
  <2>5. CASE Check(h)
    BY <2>1, <2>2, <2>5 DEF Check
  <2>6. CASE Spend(h)
    BY <2>2, <2>6 DEF Spend
  <2>7. CASE Verify(h)
    BY <2>1, <2>2, <2>7 DEF Verify
  <2>8. CASE Save(h)
    BY <2>1, <2>8 DEF Save
  <2>9. CASE CheckOrSaveFails(h)
    BY <2>1, <2>9 DEF CheckOrSaveFails
  <2>. QED  BY <2>3, <2>4, <2>5, <2>6, <2>7, <2>8, <2>9
<1>4. \/ UNCHANGED <<stored, entered>> /\ ~Save(h)
      \/ /\ Save(h) /\ At(h, "save")
         /\ stored' = [stored EXCEPT ![thread[h].tab] = thread[h].headers]
  BY DEF Draw, ReadNonce, Check, Spend, Verify, Save, CheckOrSaveFails, At
<1>. QED  BY <1>1, <1>3, <1>4

(* A thread that runs saves what is due, if it saves.                      *)
LEMMA ThreadKeepsBook ==
  ASSUME BookInv, TypeOK', NEW h \in Threads,
         \/ Draw(h) \/ ReadNonce(h) \/ Check(h) \/ Spend(h) \/ Verify(h)
         \/ Save(h) \/ CheckOrSaveFails(h)
  PROVE  BookInv'
<1> DEFINE t == thread[h].tab
<1>1. /\ UNCHANGED <<login, sess, call>> /\ TypeOK
      /\ \A g \in Threads \ {h} : thread'[g] = thread[g]
      /\ thread'[h].tab = t
      /\ thread'[h].stage # "free" => /\ thread'[h].headers = thread[h].headers
                                      /\ thread'[h].heard = thread[h].heard
  BY ThreadMoves DEF BookInv
<1>2. /\ \A g \in Threads : thread[g].tab \in Tabs
      /\ login[t] \in 1 .. login[t]
      /\ stored \in [Tabs -> HeaderSets] /\ entered \in [Tabs -> HeaderSets]
  BY DEF BookInv, TypeOK, Requests, Logins
<1>3. \A g \in Threads, u \in Tabs : Heard(g, u)' => Heard(g, u)
  BY <1>1, ThreadMoves DEF Heard, Working, At
<1>4. OneIsHeard'
  BY <1>3 DEF BookInv, OneIsHeard
<1>5. StagesAgree'
  BY <1>1, <1>3, ThreadMoves DEF BookInv, StagesAgree, Heard, Working, At
<1>6. \A u \in Tabs : \A n : ToldUpTo(u, n)' <=> ToldUpTo(u, n)
  BY <1>1 DEF ToldUpTo, Proper, Empty
<1>7. SavesAreDue'
  <2>. SUFFICES ASSUME NEW g \in Threads, At(g, "save")'
                PROVE  \E n \in 1 .. login[thread'[g].tab] :
                         /\ thread'[g].headers = Proper(n)
                         /\ thread'[g].heard => ToldUpTo(thread'[g].tab, n)
    BY <1>1, <1>2, <1>6 DEF SavesAreDue, Proper
  <2>1. CASE g # h
    BY <1>1, <2>1 DEF At, BookInv, SavesAreDue
  <2>2. CASE g = h
    <3>1. thread'[h].headers = Proper(login[t])
      BY <2>2, ThreadMoves DEF At, BookInv
    <3>2. ToldUpTo(t, login[t])
      BY <1>2 DEF BookInv, TypeOK, Logins, ToldAreEntered, ToldUpTo
    <3>. QED  BY <1>1, <1>2, <2>2, <3>1, <3>2
  <2>. QED  BY <2>1, <2>2
<1>8. CASE ~Save(h)
  <2>1. UNCHANGED <<stored, entered>>
    BY <1>1, <1>8, ThreadMoves
  <2>2. \A u \in Tabs : ~(Answered(h, u)')
    <3>. SUFFICES ASSUME NEW u \in Tabs, Answered(h, u)' PROVE FALSE
      OBVIOUS
    <3>1. /\ thread'[h].stage = "reply" /\ thread'[h].ok
          /\ call[u].stage = "auth"
      BY <1>1 DEF Answered, At
    <3>2. At(h, "read") /\ Heard(h, u)
      BY <1>1, <1>3, <1>8, <3>1, ThreadMoves DEF Answered, At
    <3>. QED  BY <1>1, <3>1, <3>2 DEF BookInv, StagesAgree, At
  <2>3. \A u \in Tabs, g \in Threads :
          Answered(g, u)' => Answered(g, u) /\ thread'[g] = thread[g]
    BY <1>1, <2>2 DEF Answered, Heard, Working, At
  <2>4. AnswersAreEntered'
    BY <2>1, <2>3 DEF BookInv, AnswersAreEntered, Empty
  <2>5. ToldAreEntered' /\ StoredIsWhole'
    BY <1>1, <1>6, <2>1
    DEF BookInv, ToldAreEntered, StoredIsWhole, Proper, Empty
  <2>. QED  BY <1>4, <1>5, <1>7, <2>4, <2>5 DEF BookInv
<1>9. CASE Save(h)
  <2>1. /\ At(h, "save")
        /\ stored' = [stored EXCEPT ![t] = thread[h].headers]
        /\ entered' = [entered EXCEPT ![t] =
             IF thread[h].heard THEN thread[h].headers ELSE @]
    BY <1>9 DEF Save
  <2>2. PICK n \in 1 .. login[t] :
          thread[h].headers = Proper(n) /\ (thread[h].heard => ToldUpTo(t, n))
    BY <2>1 DEF BookInv, SavesAreDue
  <2>3. \A u \in Tabs \ {t} : stored'[u] = stored[u] /\ entered'[u] = entered[u]
    BY <1>2, <2>1
  <2>4. Proper(n) # Empty
    BY <1>2, <2>2, Bounds DEF BookInv, TypeOK, Logins, Proper, Empty
  <2>5. StoredIsWhole'
    BY <1>1, <1>2, <2>1, <2>2, <2>3
    DEF BookInv, StoredIsWhole, Proper, Empty
  <2>6. ToldAreEntered'
    <3>1. CASE thread[h].heard
      <4>1. entered'[t] = Proper(n)
        BY <1>2, <2>1, <2>2, <3>1
      <4>2. ASSUME NEW u \in Tabs
            PROVE  \/ entered'[u] = Empty /\ sess[u].sent = Empty
                   \/ \E m \in 1 .. login[u] :
                        entered'[u] = Proper(m) /\ ToldUpTo(u, m)
        BY <2>2, <2>3, <3>1, <4>1 DEF BookInv, ToldAreEntered
      <4>. QED  BY <1>1, <1>6, <4>2 DEF ToldAreEntered, Proper, Empty
    <3>2. CASE ~thread[h].heard
      <4>1. entered' = entered
        BY <1>2, <2>1, <3>2
      <4>. QED  BY <1>1, <1>6, <4>1 DEF BookInv, ToldAreEntered, Proper, Empty
    <3>. QED  BY <3>1, <3>2
  <2>7. AnswersAreEntered'
    <3>. SUFFICES ASSUME NEW u \in Tabs, NEW g \in Threads, Answered(g, u)'
                  PROVE  thread'[g].headers = entered'[u] /\ entered'[u] # Empty
      BY DEF AnswersAreEntered, Empty
    <3>1. CASE g = h
      <4>1. /\ u = t /\ thread[h].heard
            /\ thread'[h].headers = thread[h].headers
        BY <1>1, <3>1 DEF Answered, Heard, Working, At
      <4>. QED  BY <1>2, <2>1, <2>2, <2>4, <3>1, <4>1
    <3>2. CASE g # h
      <4>1. Answered(g, u) /\ thread'[g] = thread[g]
        BY <1>1, <3>2 DEF Answered, Heard, Working, At
      <4>2. thread[h].heard => u # t
        BY <1>2, <2>1, <3>2, <4>1
        DEF BookInv, OneIsHeard, Answered, Heard, Working, At
      <4>3. entered'[u] = entered[u]
        BY <1>2, <2>1, <4>2
      <4>. QED  BY <4>1, <4>3 DEF BookInv, AnswersAreEntered
    <3>. QED  BY <3>1, <3>2
  <2>. QED  BY <1>4, <1>5, <1>7, <2>5, <2>6, <2>7 DEF BookInv
<1>. QED  BY <1>8, <1>9

(* What the tab hears: the nonce it goes on with, or an answer, which it   *)
(* is told.                                                                *)
LEMMA HearKeepsBook ==
  ASSUME BookInv, TypeOK', NEW t \in Tabs, NEW h \in Threads,
         HearNonce(t, h) \/ HearAnswer(t, h)
  PROVE  BookInv'
<1>1. /\ UNCHANGED <<login, stored, entered>> /\ TypeOK
      /\ Heard(h, t) /\ At(h, "reply") /\ sess[t] \in Sessions
      /\ thread[h] \in Requests /\ thread[h].tab = t
      /\ \A g \in Threads \ {h} : ~Heard(g, t) /\ thread'[g] = thread[g]
      /\ \A u \in Tabs \ {t} : sess'[u] = sess[u] /\ call'[u] = call[u]
  BY DEF HearNonce, HearAnswer, BookInv, TypeOK, OneIsHeard, Heard
<1>2. \A g \in Threads \ {h}, u \in Tabs :
        Heard(g, u)' => u # t /\ Heard(g, u) /\ call'[u] = call[u]
  BY <1>1 DEF Heard, Working, At
<1>3. CASE sess'[t].sent = sess[t].sent /\ thread'[h].stage = "free"
  <2>1. \A g \in Threads, u \in Tabs :
          Heard(g, u)' => /\ Heard(g, u) /\ thread'[g] = thread[g]
                          /\ call'[u] = call[u]
    BY <1>1, <1>2, <1>3 DEF Heard, Working, At
  <2>2. \A g \in Threads :
          At(g, "save")' => At(g, "save") /\ thread'[g] = thread[g]
    BY <1>1, <1>3 DEF At
  <2>. QED  BY <1>1, <1>3, <2>1, <2>2, CalmKeepsBook
<1>4. CASE HearNonce(t, h) /\ thread[h].ok
  <2>1. /\ sess' = sess /\ call[t].stage = "nonce"
        /\ call' = [call EXCEPT ![t].stage = "auth", ![t].wait = 0]
        /\ thread' = [thread EXCEPT ![h].stage = "check",
                                    ![h].headers = call[t].headers]
    BY <1>4 DEF HearNonce
  <2>2. call'[t].stage = "auth" /\ call'[t].headers = call[t].headers
    BY <1>1, <2>1 DEF TypeOK, Calls
  <2>3. /\ thread'[h].stage = "check" /\ thread'[h].headers = call[t].headers
        /\ thread'[h].tab = t
    BY <1>1, <2>1 DEF TypeOK, Requests
  <2>4. \A u \in Tabs : Heard(h, u)' => u = t
    BY <2>3 DEF Heard
  <2>5. OneIsHeard'
    BY <1>2, <2>4 DEF BookInv, OneIsHeard
  <2>6. StagesAgree'
    BY <1>1, <1>2, <2>2, <2>3, <2>4 DEF BookInv, StagesAgree
  <2>7. \A g \in Threads :
          At(g, "save")' => At(g, "save") /\ thread'[g] = thread[g]
    BY <1>1, <2>3 DEF At
  <2>8. SavesAreDue' /\ ToldAreEntered' /\ StoredIsWhole'
    <3>1. \A u \in Tabs : \A n : ToldUpTo(u, n)' <=> ToldUpTo(u, n)
      BY <2>1 DEF ToldUpTo, Proper, Empty
    <3>2. \A g \in Threads : thread[g].tab \in Tabs
      BY <1>1 DEF TypeOK, Requests
    <3>3. SavesAreDue'
      BY <1>1, <2>7, <3>1, <3>2 DEF BookInv, SavesAreDue, Proper
    <3>. QED
      BY <1>1, <2>1, <3>1, <3>3
      DEF BookInv, ToldAreEntered, StoredIsWhole, Proper, Empty
  <2>9. \A g \in Threads, u \in Tabs :
          Answered(g, u)' => Answered(g, u) /\ thread'[g] = thread[g]
    BY <1>1, <1>2, <2>3 DEF Answered, At
  <2>10. AnswersAreEntered'
    BY <1>1, <2>9 DEF BookInv, AnswersAreEntered, Empty
  <2>. QED  BY <2>5, <2>6, <2>8, <2>10 DEF BookInv
<1>5. CASE HearAnswer(t, h) /\ thread[h].ok
  <2>1. /\ call[t].stage = "auth" /\ thread'[h].stage = "free"
        /\ sess'[t] = Succeeded(sess[t], call[t].headers)
    BY <1>1, <1>5 DEF HearAnswer, Free, TypeOK
  <2>2. /\ sess'[t].sent = entered[t] /\ entered[t] # Empty
    BY <1>1, <1>5, <2>1, SessionKeeps
    DEF BookInv, StagesAgree, AnswersAreEntered, Answered
  <2>3. \A g \in Threads, u \in Tabs :
          Heard(g, u)' => /\ u # t /\ Heard(g, u) /\ thread'[g] = thread[g]
                          /\ call'[u] = call[u]
    BY <1>1, <1>2, <2>1 DEF Heard, Working, At
  <2>4. OneIsHeard' /\ StagesAgree'
    BY <2>3 DEF BookInv, OneIsHeard, StagesAgree
  <2>5. \A u \in Tabs \ {t} : \A n : ToldUpTo(u, n)' <=> ToldUpTo(u, n)
    BY <1>1 DEF ToldUpTo, Proper, Empty
  <2>6. \A g \in Threads : At(g, "save")' =>
          /\ At(g, "save") /\ thread'[g] = thread[g]
          /\ thread[g].heard => thread[g].tab # t
    BY <1>1, <2>1 DEF At, Heard, Working
  <2>7. SavesAreDue'
    <3>1. \A g \in Threads : thread[g].tab \in Tabs
      BY <1>1 DEF TypeOK, Requests
    <3>. QED  BY <1>1, <2>5, <2>6, <3>1 DEF BookInv, SavesAreDue, Proper
  <2>8. AnswersAreEntered' /\ StoredIsWhole'
    BY <1>1, <2>3
    DEF BookInv, AnswersAreEntered, StoredIsWhole, Answered, At, Proper, Empty
  <2>9. ToldAreEntered'
    <3>1. PICK n \in 1 .. login[t] : entered[t] = Proper(n)
      BY <2>2 DEF BookInv, ToldAreEntered
    <3>2. n \in 1 .. n
      BY <1>1 DEF TypeOK, Logins
    <3>3. ToldUpTo(t, n)'
      BY <2>2, <3>1, <3>2 DEF ToldUpTo, Proper
    <3>4. ASSUME NEW u \in Tabs
          PROVE  \/ entered[u] = Empty /\ sess'[u].sent = Empty
                 \/ \E m \in 1 .. login[u] :
                      entered[u] = Proper(m) /\ ToldUpTo(u, m)'
      BY <1>1, <2>5, <3>1, <3>3 DEF BookInv, ToldAreEntered
    <3>. QED  BY <1>1, <3>4 DEF ToldAreEntered, Proper, Empty
  <2>. QED  BY <2>4, <2>7, <2>8, <2>9 DEF BookInv
<1>6. CASE ~thread[h].ok
  <2>1. /\ thread'[h].stage = "free" /\ sess'[t] = Failed(sess[t])
    BY <1>1, <1>6 DEF HearNonce, HearAnswer, Free, TypeOK
  <2>. QED  BY <1>1, <1>3, <2>1, SessionKeeps
<1>. QED  BY <1>4, <1>5, <1>6

LEMMA StepKeepsBook ==
  ASSUME BookInv, [Next]_vars
  PROVE  BookInv'
<1>1. TypeOK'
  BY StepTyped DEF BookInv
<1>. QED
  BY <1>1, TabKeepsBook, SendKeepsBook, ThreadKeepsBook, HearKeepsBook
  DEF Next

(* A tab that will not send its present session again was told so of a     *)
(* request that has put it into the repository, whatever is lost, given    *)
(* up, reloaded or restarted on the way.                                   *)
THEOREM QuietIsSound == Spec => []SilenceIsSound
<1>1. BookInv /\ [Next]_vars => BookInv'
  BY StepKeepsBook
<1>2. BookInv => SilenceIsSound
  <2>. SUFFICES ASSUME BookInv, NEW t \in Tabs,
                       sess[t].sent = Proper(login[t])
                PROVE  entered[t] = Proper(login[t])
    BY DEF SilenceIsSound
  <2>1. login[t] \in Logins /\ login[t] \in Nat
    BY DEF BookInv, TypeOK, Logins
  <2>2. sess[t].sent # Empty
    BY <2>1, Bounds DEF Proper, Empty
  <2>3. PICK n \in 1 .. login[t] : entered[t] = Proper(n) /\ ToldUpTo(t, n)
    BY <2>2 DEF BookInv, ToldAreEntered
  <2>4. PICK k \in 1 .. n : Proper(login[t]) = Proper(k)
    BY <2>2, <2>3 DEF ToldUpTo
  <2>5. k = login[t]
    BY <2>4 DEF Proper
  <2>6. n = login[t]
    BY <2>1, <2>4, <2>5
  <2>. QED  BY <2>3, <2>6
<1>. QED  BY InitBook, <1>1, <1>2, PTL DEF Spec

(* At whatever pace the server checks and saves, and whatever the tabs     *)
(* capture, give up on or reload, the repository never has headers of two  *)
(* logins for an account, nor of a login there has not been.               *)
THEOREM SessionsAreWhole == Spec => []StoredIsWhole
<1>1. BookInv /\ [Next]_vars => BookInv'
  BY StepKeepsBook
<1>2. BookInv => StoredIsWhole
  BY DEF BookInv
<1>. QED  BY InitBook, <1>1, <1>2, PTL DEF Spec

-----------------------------------------------------------------------------
(* Steps that enter and tell nothing leave the book's entries alone.       *)
LEMMA TurnOnly ==
  ASSUME UNCHANGED <<login, stored, entered>>,
         \A t \in Tabs : sess'[t].sent = sess[t].sent
  PROVE  Book!Turn
<1>1. \A t \in Tabs : Abandoned(t)' \in BOOLEAN
  BY DEF Abandoned
<1>. QED  BY <1>1 DEF Book!Turn

LEMMA OneTurns ==
  ASSUME NEW t \in Tabs, \A u \in Tabs \ {t} : Abandoned(u)' = Abandoned(u)
  PROVE  \E more \in BOOLEAN :
           [u \in Tabs |-> Abandoned(u)]' =
             [[u \in Tabs |-> Abandoned(u)] EXCEPT ![t] = more]
<1>1. PICK more \in BOOLEAN : Abandoned(t)' = more
  BY DEF Abandoned
<1>2. \A u \in Tabs :
        Abandoned(u)' = [[v \in Tabs |-> Abandoned(v)] EXCEPT ![t] = more][u]
  BY <1>1
<1>. QED  BY <1>2

LEMMA TabMapped ==
  ASSUME BookInv,
         \/ Tick \/ Restart \/ UNCHANGED vars
         \/ \E t \in Tabs : \/ LogIn(t) \/ Capture(t) \/ Poll(t) \/ Send(t)
                            \/ GiveUp(t) \/ Reload(t)
  PROVE  Book!Next
<1>1. /\ sess \in [Tabs -> Sessions] /\ TypeOK
      /\ UNCHANGED <<stored, entered>>
  BY DEF BookInv, TypeOK, Tick, Restart, LogIn, Capture, Poll, Send, GiveUp,
         Reload, vars
<1>2. ASSUME NEW t \in Tabs, LogIn(t) PROVE Book!Next
  <2>1. UNCHANGED <<sess, thread>> /\ login' = [login EXCEPT ![t] = @ + 1]
    BY <1>2 DEF LogIn
  <2>2. \A u \in Tabs : Abandoned(u)' = Abandoned(u)
    BY <2>1 DEF Abandoned, Working, At
  <2>3. Book!LogIn(t)
    BY <1>1, <2>1, <2>2 DEF Book!LogIn
  <2>. QED  BY <2>3 DEF Book!Next
<1>3. ASSUME NEW t \in Tabs, Reload(t) PROVE Book!Next
  <2>1. /\ login' = login /\ thread' = Unheard(t, TRUE)
        /\ sess' = [sess EXCEPT ![t] = NewSession]
    BY <1>3 DEF Reload
  <2>2. /\ sess'[t].sent = Empty
        /\ \A u \in Tabs \ {t} : sess'[u].sent = sess[u].sent
    BY <1>1, <2>1 DEF NewSession, Empty
  <2>3. \A u \in Tabs \ {t}, h \in Threads :
          /\ thread'[h].tab = u <=> thread[h].tab = u
          /\ thread[h].tab = u => thread'[h] = thread[h]
    BY <1>1, <2>1, UnheardKeeps
  <2>4. \A u \in Tabs \ {t} : Abandoned(u)' = Abandoned(u)
    BY <2>3 DEF Abandoned, Working, At
  <2>5. \E more \in BOOLEAN :
          [u \in Tabs |-> Abandoned(u)]' =
            [[u \in Tabs |-> Abandoned(u)] EXCEPT ![t] = more]
    BY <2>4, OneTurns
  <2>6. [u \in Tabs |-> sess'[u].sent] =
          [[u \in Tabs |-> sess[u].sent] EXCEPT ![t] = Empty]
    BY <2>2
  <2>7. Book!Forget(t)
    BY <1>1, <2>1, <2>5, <2>6 DEF Book!Forget
  <2>. QED  BY <2>7 DEF Book!Next
<1>4. CASE \/ Tick \/ Restart \/ UNCHANGED vars
           \/ \E t \in Tabs : Capture(t) \/ Poll(t) \/ Send(t) \/ GiveUp(t)
  <2>1. login' = login
    BY <1>4 DEF Tick, Restart, Capture, Poll, Send, GiveUp, vars
  <2>2. ASSUME NEW u \in Tabs PROVE sess'[u].sent = sess[u].sent
    <3>1. CASE Tick \/ Restart
      BY <1>1, <3>1, SessionKeeps DEF Tick, Restart
    <3>2. ASSUME NEW t \in Tabs, Capture(t)
          PROVE  sess'[u].sent = sess[u].sent
      BY <1>1, <3>2, CaptureKeeps
    <3>3. ASSUME NEW t \in Tabs, Poll(t) \/ Send(t) \/ GiveUp(t)
          PROVE  sess'[u] \in {sess[u], Evaluated(sess[u]), Attempted(sess[u]),
                               Failed(sess[u])}
      BY <1>1, <3>3 DEF Poll, Send, GiveUp
    <3>. QED  BY <1>1, <1>4, <3>1, <3>2, <3>3, SessionKeeps DEF vars
  <2>3. Book!Turn
    BY <1>1, <2>1, <2>2, TurnOnly
  <2>. QED  BY <2>3 DEF Book!Next
<1>. QED  BY <1>2, <1>3, <1>4

(* A thread enters a session, or one that nobody waits for overtakes.      *)
LEMMA ThreadMapped ==
  ASSUME BookInv, NEW h \in Threads, NEW t \in Tabs, thread[h].tab = t,
         \/ Draw(h) \/ ReadNonce(h) \/ Check(h) \/ Spend(h) \/ Verify(h)
         \/ Save(h) \/ CheckOrSaveFails(h)
  PROVE  Book!Next
<1>1. /\ UNCHANGED <<login, sess>> /\ TypeOK
      /\ \A g \in Threads \ {h} : thread'[g] = thread[g]
      /\ thread'[h].tab = t
      /\ thread'[h].stage # "free" => thread'[h].heard = thread[h].heard
  BY ThreadMoves DEF BookInv
<1>2. stored \in [Tabs -> HeaderSets] /\ entered \in [Tabs -> HeaderSets]
  BY DEF BookInv, TypeOK
<1>3. CASE ~Save(h)
  <2>1. UNCHANGED <<stored, entered>>
    BY <1>1, <1>3, ThreadMoves
  <2>2. Book!Turn
    BY <1>1, <2>1, TurnOnly
  <2>. QED  BY <2>2 DEF Book!Next
<1>4. CASE Save(h)
  <2>1. /\ At(h, "save")
        /\ stored' = [stored EXCEPT ![t] = thread[h].headers]
        /\ entered' = [entered EXCEPT ![t] =
             IF thread[h].heard THEN thread[h].headers ELSE @]
    BY <1>4 DEF Save
  <2>2. PICK n \in 1 .. login[t] :
          thread[h].headers = Proper(n) /\ (thread[h].heard => ToldUpTo(t, n))
    BY <2>1 DEF BookInv, SavesAreDue
  <2>3. login[t] \in 1 .. MaxLogin /\ MaxLogin \in Nat
    BY <1>1, Bounds DEF TypeOK, Logins
  <2>4. n \in Logins /\ n \in 1 .. n /\ \A k \in 1 .. n : k \in Logins
    BY <2>3 DEF Logins
  <2>5. \A u \in Tabs \ {t} : Abandoned(u)' = Abandoned(u)
    BY <1>1 DEF Abandoned, Working, At
  <2>6. CASE thread[h].heard
    <3>1. Abandoned(t)' = Abandoned(t)
      BY <1>1, <2>6 DEF Abandoned, Working, At
    <3>2. sess[t].sent \in {Empty} \cup
            {[m \in Logins |-> Proper(m)][k] : k \in 1 .. n}
      BY <2>2, <2>4, <2>6 DEF ToldUpTo
    <3>3. Book!Enter(t)
      BY <1>1, <1>2, <2>1, <2>2, <2>4, <2>5, <2>6, <3>1, <3>2 DEF Book!Enter
    <3>. QED  BY <1>2, <3>3 DEF Book!Next
  <2>7. CASE ~thread[h].heard
    <3>1. Abandoned(t)
      BY <2>1, <2>7 DEF Abandoned, Working, At
    <3>2. \E more \in BOOLEAN :
            [u \in Tabs |-> Abandoned(u)]' =
              [[u \in Tabs |-> Abandoned(u)] EXCEPT ![t] = more]
      BY <2>5, OneTurns
    <3>3. entered' = entered
      BY <1>2, <2>1, <2>7
    <3>4. Book!Overtake(t)
      BY <1>1, <1>2, <2>1, <2>2, <2>4, <3>1, <3>2, <3>3 DEF Book!Overtake
    <3>. QED  BY <1>2, <3>4 DEF Book!Next
  <2>. QED  BY <2>6, <2>7
<1>. QED  BY <1>3, <1>4

LEMMA HearMapped ==
  ASSUME BookInv, NEW t \in Tabs, NEW h \in Threads,
         HearNonce(t, h) \/ HearAnswer(t, h)
  PROVE  Book!Next
<1>1. /\ UNCHANGED <<login, stored, entered>> /\ Heard(h, t) /\ TypeOK
      /\ sess[t] \in Sessions /\ thread[h] \in Requests /\ thread[h].tab = t
      /\ thread[h].heard /\ \A u \in Tabs \ {t} : sess'[u] = sess[u]
  BY DEF HearNonce, HearAnswer, BookInv, TypeOK, Heard
<1>2. CASE sess'[t].sent = sess[t].sent
  <2>1. Book!Turn
    BY <1>1, <1>2, TurnOnly
  <2>. QED  BY <2>1 DEF Book!Next
<1>3. CASE sess'[t].sent # sess[t].sent
  <2>1. /\ HearAnswer(t, h) /\ call[t].stage = "auth" /\ thread[h].ok
        /\ sess'[t] = Succeeded(sess[t], call[t].headers)
        /\ thread' = [thread EXCEPT ![h] = Free(t)]
    BY <1>1, <1>3, SessionKeeps DEF HearNonce, HearAnswer, TypeOK
  <2>2. sess'[t].sent = entered[t] /\ entered[t] # Empty
    BY <1>1, <2>1, SessionKeeps
    DEF BookInv, StagesAgree, AnswersAreEntered, Answered, HearAnswer
  <2>3. ASSUME NEW u \in Tabs PROVE Abandoned(u)' = Abandoned(u)
    BY <1>1, <2>1 DEF Abandoned, Working, At, Free, TypeOK
  <2>4. [u \in Tabs |-> sess'[u].sent] =
          [[u \in Tabs |-> sess[u].sent] EXCEPT ![t] = entered[t]]
    BY <1>1, <2>2
  <2>5. Book!Tell(t)
    BY <1>1, <2>2, <2>3, <2>4 DEF Book!Tell
  <2>. QED  BY <2>5 DEF Book!Next
<1>. QED  BY <1>2, <1>3

(* Whatever is lost, given up, reloaded or restarted on the way and        *)
(* however many tabs and requests there are, the repository is given whole *)
(* sessions only, an older one than the tab was told of only by a request  *)
(* that nobody waits for, and a tab is told what its own request has put   *)
(* there: the handshake implements SessionBook.                            *)
THEOREM HandshakeKeepsBook == Spec => SessionContract
<1>1. BookInv => \A h \in Threads : thread[h].tab \in Tabs
  BY DEF BookInv, TypeOK, Requests
<1>2. BookInv /\ [Next]_vars => BookInv' /\ [Book!Next]_(Book!bookVars)
  BY <1>1, StepKeepsBook, TabMapped, ThreadMapped, HearMapped DEF Next
<1>. QED  BY InitBook, <1>2, PTL DEF Spec, SessionContract, Book!Spec

-----------------------------------------------------------------------------
(* What is pending is what the last look saw, so that a pending identity   *)
(* seen again was seen in two looks in a row.                              *)
PendingIsJudged ==
  \A t \in Tabs : sess[t].pending \in {None, judged[t]}

RewindInv == TypeOK /\ PendingIsJudged

(* RewoundByLogin of one step.                                             *)
RewoundWell(t) ==
  sess'[t].backoff < sess[t].backoff =>
    \/ call[t].stage = "auth"
    \/ sess'[t] = NewSession
    \/ sess[t].id = judged[t] /\ sess[t].id # sess[t].tried

(* A look at the session: what it notices and what it rewinds.             *)
LEMMA LooksTwice ==
  ASSUME NEW s \in Sessions
  PROVE  /\ Judged(s) => Evaluated(s).pending \in {None, s.id}
         /\ ~Judged(s) => Evaluated(s).pending = s.pending
         /\ Evaluated(s).backoff < s.backoff =>
              s.id # None /\ s.id = s.pending /\ s.id # s.tried
         /\ Attempted(s).pending = Evaluated(s).pending
         /\ Attempted(s).backoff = Evaluated(s).backoff
         /\ Failed(s).pending = s.pending /\ s.backoff <= Failed(s).backoff
         /\ Older(s).pending = s.pending /\ Older(s).backoff = s.backoff
         /\ \A headers : Succeeded(s, headers).pending = s.pending
<1>1. s.backoff \in 1 .. MaxBackoff /\ MaxBackoff \in Nat
  BY Limits DEF Sessions
<1>2. /\ Pruned(s) \in Sessions /\ Pruned(s).pending = s.pending
      /\ Pruned(s).backoff = s.backoff /\ Pruned(s).tried = s.tried
      /\ Pruned(s).id \in {s.id, None}
  BY DEF Pruned, Sessions, Known
<1>3. ASSUME NEW p \in Sessions
      PROVE  /\ Noticed(p).pending \in {None, p.id}
             /\ Noticed(p).backoff # p.backoff => p.id = p.pending /\ p.id # p.tried
  BY DEF Noticed, Sessions
<1>4. Judged(s) => Pruned(s).id = s.id /\ s.id # None
  BY <1>2 DEF Judged, Complete
<1>5. Evaluated(s) \in Sessions
  BY SessionTypes
<1>6. /\ Judged(s) => Evaluated(s).pending \in {None, s.id}
      /\ ~Judged(s) => Evaluated(s).pending = s.pending
  BY <1>2, <1>3, <1>4 DEF Evaluated
<1>7. Evaluated(s).backoff # s.backoff =>
        s.id # None /\ s.id = s.pending /\ s.id # s.tried
  BY <1>2, <1>3, <1>4 DEF Evaluated
<1>8. Evaluated(s).backoff < s.backoff =>
        s.id # None /\ s.id = s.pending /\ s.id # s.tried
  BY <1>1, <1>7
<1>9. /\ Attempted(s).pending = Evaluated(s).pending
      /\ Attempted(s).backoff = Evaluated(s).backoff
  BY <1>5 DEF Attempted, Sessions
<1>10. Failed(s).pending = s.pending /\ s.backoff <= Failed(s).backoff
  <2>1. s.backoff <= Least(2 * s.backoff, MaxBackoff)
    BY <1>1 DEF Least
  <2>. QED  BY <2>1 DEF Failed, Sessions
<1>11. /\ Older(s).pending = s.pending /\ Older(s).backoff = s.backoff
       /\ \A headers : Succeeded(s, headers).pending = s.pending
  BY DEF Older, Succeeded, Sessions
<1>. QED  BY <1>6, <1>8, <1>9, <1>10, <1>11

(* What a step may do to a session and to what the last look saw.          *)
LookMove(t) ==
  LET s == sess[t]
  IN  \/ /\ sess'[t] \in {s, Older(s), Failed(s)}
         /\ judged'[t] = judged[t]
      \/ /\ sess'[t].pending = s.pending /\ sess'[t].backoff = s.backoff
         /\ judged'[t] = judged[t]
      \/ /\ sess'[t] = Evaluated(s)
         /\ judged'[t] = IF Judged(s) THEN s.id ELSE judged[t]
      \/ sess'[t] = Attempted(s) /\ Judged(s) /\ judged'[t] = s.id
      \/ sess'[t] = NewSession /\ judged'[t] = None
      \/ /\ call[t].stage = "auth" /\ judged'[t] = judged[t]
         /\ \E headers : sess'[t] = Succeeded(s, headers)

LEMMA LookMoves ==
  ASSUME TypeOK, [Next]_vars, NEW u \in Tabs
  PROVE  LookMove(u)
<1>1. sess \in [Tabs -> Sessions] /\ judged \in [Tabs -> Known]
  BY DEF TypeOK
<1>2. CASE UNCHANGED <<sess, judged>>
  BY <1>2 DEF LookMove
<1>3. CASE Restart \/ Tick
  BY <1>1, <1>3 DEF Restart, Tick, LookMove
<1>4. ASSUME NEW t \in Tabs, Capture(t) PROVE LookMove(u)
  <2>1. /\ judged' = judged
        /\ \A x \in Tabs : /\ sess'[x].pending = sess[x].pending
                           /\ sess'[x].backoff = sess[x].backoff
    BY <1>1, <1>4 DEF Capture, Sessions
  <2>. QED  BY <2>1 DEF LookMove
<1>5. ASSUME NEW t \in Tabs, Poll(t) \/ Send(t) PROVE LookMove(u)
  BY <1>1, <1>5 DEF Poll, Send, ShouldSend, LookMove
<1>6. ASSUME NEW t \in Tabs, GiveUp(t) \/ Reload(t) PROVE LookMove(u)
  BY <1>1, <1>6 DEF GiveUp, Reload, LookMove
<1>7. ASSUME NEW t \in Tabs, NEW h \in Threads, HearNonce(t, h) \/ HearAnswer(t, h)
      PROVE  LookMove(u)
  BY <1>1, <1>7 DEF HearNonce, HearAnswer, LookMove
<1>8. ASSUME NEW t \in Tabs, LogIn(t) PROVE LookMove(u)
  BY <1>2, <1>8 DEF LogIn
<1>9. ASSUME NEW h \in Threads,
             \/ Draw(h) \/ ReadNonce(h) \/ Check(h) \/ Spend(h) \/ Verify(h)
             \/ Save(h) \/ CheckOrSaveFails(h)
      PROVE  LookMove(u)
  BY <1>2, <1>9
  DEF Draw, ReadNonce, Check, Spend, Verify, Save, CheckOrSaveFails
<1>10. CASE UNCHANGED vars
  BY <1>2, <1>10 DEF vars
<1>. QED
  BY <1>3, <1>4, <1>5, <1>6, <1>7, <1>8, <1>9, <1>10 DEF Next

LEMMA RewindStep ==
  ASSUME RewindInv, [Next]_vars
  PROVE  RewindInv' /\ \A t \in Tabs : RewoundWell(t)
<1>1. TypeOK'
  BY StepTyped DEF RewindInv
<1>2. ASSUME NEW t \in Tabs
      PROVE  sess'[t].pending \in {None, judged'[t]} /\ RewoundWell(t)
  <2>1. /\ sess[t] \in Sessions /\ sess[t].backoff \in 1 .. MaxBackoff
        /\ MaxBackoff \in Nat /\ sess[t].pending \in {None, judged[t]}
    BY Limits DEF RewindInv, TypeOK, PendingIsJudged, Sessions
  <2>2. LookMove(t)
    BY LookMoves DEF RewindInv
  <2>3. NewSession.pending = None
    BY DEF NewSession
  <2>4. sess'[t].backoff \in Nat
    BY <1>1, Limits DEF TypeOK, Sessions
  <2>5. sess'[t].pending \in {None, judged'[t]}
    BY <2>1, <2>2, <2>3, LooksTwice DEF LookMove
  <2>6. RewoundWell(t)
    BY <2>1, <2>2, <2>4, LooksTwice DEF LookMove, RewoundWell
  <2>. QED  BY <2>5, <2>6
<1>. QED  BY <1>1, <1>2 DEF RewindInv, PendingIsJudged

(* A backoff is cut short by a success, a reload or a new identity seen    *)
(* twice in a row, and by nothing else.                                    *)
THEOREM RewindsAreEarned == Spec => RewoundByLogin
<1>1. Init => RewindInv
  BY InitTyped DEF Init, RewindInv, PendingIsJudged, NewSession
<1>2. RewindInv /\ [Next]_vars => RewindInv'
  BY RewindStep
<1>3. RewindInv /\ [Next]_vars => [\A t \in Tabs : RewoundWell(t)]_vars
  BY RewindStep
<1>4. [\A t \in Tabs : RewoundWell(t)]_vars =>
        [\A t \in Tabs :
           sess'[t].backoff < sess[t].backoff =>
             \/ call[t].stage = "auth"
             \/ sess'[t] = NewSession
             \/ sess[t].id = judged[t] /\ sess[t].id # sess[t].tried]_vars
  BY DEF RewoundWell
<1>. QED  BY <1>1, <1>2, <1>3, <1>4, PTL DEF Spec, RewoundByLogin
=============================================================================
