---------------------------- MODULE MCAsynServer ----------------------------
(* Instances of AsynServer for TLC.                                        *)
EXTENDS AsynServer, TLC

CONSTANTS t1, t2

(* AsioIOContextPool: one thread per context.                              *)
MCThreads == {t1, t2}
MCContextOf == (t1 :> 0) @@ (t2 :> 1)
BothOrders == {PoolFirst, LogicFirst}
=============================================================================
