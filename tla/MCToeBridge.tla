---------------------------- MODULE MCToeBridge ----------------------------
(* Small instances of the ToE bridge.                                      *)
EXTENDS ToeBridge, TLC
CONSTANTS c1, c2, t1, t2, A, B

OwnResult  == [t \in Tabs |-> {t}]

OwnAccounts   == c1 :> A @@ c2 :> B
OneClient     == c1 :> A
TabsAB        == t1 :> A @@ t2 :> B
TabA          == t1 :> A
=============================================================================
