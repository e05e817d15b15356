-------------------------- MODULE MCAuthHandshake --------------------------
(* Small instances of the handshake.                                       *)
EXTENDS AuthHandshake, TLC
CONSTANTS t1, t2, n1, n2, n3, n4, h1, h2, h3

(* Each login has an identity of its own.                                  *)
Alternate == <<1, 2>>
Anew == Permutations(Threads)
Single == <<1>>
=============================================================================
