-------------------------- MODULE MCCoLogicSystem --------------------------
(* Instances of CoLogicSystem for TLC.                                     *)
EXTENDS CoLogicSystem

CONSTANTS t1, t2, hello, unknown, broken

MCThreads == {t1, t2}
MCRequests == {hello, unknown, broken}
MCRegistered == {hello, broken}
MCThrowing == {broken}
=============================================================================
