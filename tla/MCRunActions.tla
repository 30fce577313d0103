---------------------------- MODULE MCRunActions ----------------------------
(***************************************************************************)
(* Instances of RunActions for TLC.                                        *)
(***************************************************************************)
EXTENDS RunActions, TLC

NoFaults == [f \in Faults |-> 0]
OneCrash == [NoFaults EXCEPT !.crash = 1]
=============================================================================
