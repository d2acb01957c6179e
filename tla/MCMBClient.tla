----------------------------- MODULE MCMBClient -----------------------------
(* Small instances of MBClient for TLC.                                   *)
EXTENDS MBClient, TLC

CONSTANTS t1, t2, t3

(* Three callers sharing one client.                                      *)
MCTasks3 == {t1, t2, t3}
(* Two callers, for the liveness run.                                     *)
MCTasks2 == {t1, t2}

(* Callers are interchangeable: nothing in the model names one.           *)
TaskSymmetry == Permutations(MCTasks3)
=============================================================================
