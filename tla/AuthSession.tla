---------------------------- MODULE AuthSession ----------------------------
(***************************************************************************)
(* The userscript's decision whether to send the captured session          *)
(* (session.ts). A SessionState is a record:                               *)
(*   id, tok          the captured headers: the identity (session-id and   *)
(*                    user-id) and the rest, None while one is missing     *)
(*   idAge, tokAge    time since they were seen, up to TTL + 1             *)
(*   sent             the headers last sent with success, a pair           *)
(*   pending, tried   pendingIdentityJson and lastAttemptedIdentityJson    *)
(*   backoff, since   backoffMs, and the time since lastAttemptAt          *)
(* The signature is not part of it: it takes no part in a comparison.      *)
(* lastCaptureAt is the younger of the two ages.                           *)
(***************************************************************************)
EXTENDS Naturals

CONSTANTS
  None,
  Interval,      \* POLL_INTERVAL_MS, also the coherent window
  MinSend,       \* MIN_SEND_INTERVAL_MS
  MaxBackoff,    \* MAX_BACKOFF_MS
  TTL            \* STALE_KEY_TTL_MS

ASSUME SessionAssumption ==
  /\ Interval \in Nat \ {0} /\ MinSend \in Nat \ {0}
  /\ MaxBackoff \in Nat \ {0} /\ TTL \in Nat
  /\ Interval <= MinSend /\ MinSend <= MaxBackoff

Least(a, b) == IF a < b THEN a ELSE b

NewSession ==
  [id |-> None, tok |-> None, idAge |-> TTL + 1, tokAge |-> TTL + 1,
   sent |-> <<None, None>>, pending |-> None, tried |-> None,
   backoff |-> Interval, since |-> MaxBackoff]

Headers(s) == <<s.id, s.tok>>

Complete(s) == s.id # None /\ s.tok # None

Older(s) ==
  [s EXCEPT !.idAge = Least(@ + 1, TTL + 1),
            !.tokAge = Least(@ + 1, TTL + 1),
            !.since = Least(@ + 1, MaxBackoff)]

Pruned(s) ==
  [s EXCEPT !.id = IF s.idAge > TTL THEN None ELSE @,
            !.tok = IF s.tokAge > TTL THEN None ELSE @]

(* Old and new headers may be mixed: seen far apart, one of them just now, *)
(* with an identity that was neither tried nor noticed before.             *)
Mixed(s) ==
  /\ s.idAge > s.tokAge + Interval \/ s.tokAge > s.idAge + Interval
  /\ s.idAge < Interval \/ s.tokAge < Interval
  /\ s.id \notin {s.tried, s.pending}

NoticedForGood(s) ==
  [s EXCEPT !.pending = IF s.id = s.pending THEN None
                        ELSE IF s.id # s.tried THEN s.id ELSE @,
            !.backoff = IF s.id # s.tried /\ s.id = s.pending
                        THEN Interval ELSE @]

(* A new identity is noticed first, and when it is seen again the session  *)
(* counts as a new login, which does not wait for the old one's backoff.   *)
Noticed(s) ==
  [s EXCEPT !.pending = IF s.id \in {s.tried, s.pending} THEN None ELSE s.id,
            !.backoff = IF s.id # s.tried /\ s.id = s.pending
                        THEN Interval ELSE @]

Judged(s) == Complete(Pruned(s)) /\ ~Mixed(Pruned(s))

Evaluated(s) == IF Judged(s) THEN Noticed(Pruned(s)) ELSE Pruned(s)

ShouldSend(s) ==
  /\ Judged(s)
  /\ Headers(s) # s.sent
  /\ s.since >= Evaluated(s).backoff

Attempted(s) == [Evaluated(s) EXCEPT !.tried = s.id, !.since = 0]

Succeeded(s, headers) == [s EXCEPT !.sent = headers, !.backoff = MinSend]

FailedAtOnce(s) == s

FailedUncapped(s) == [s EXCEPT !.backoff = 2 * @]

Failed(s) == [s EXCEPT !.backoff = Least(2 * @, MaxBackoff)]
=============================================================================
