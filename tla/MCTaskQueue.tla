---------------------------- MODULE MCTaskQueue ----------------------------
(* Small instances of TaskQueue for TLC. *)
EXTENDS TaskQueue, TLC

CONSTANTS t1, t2, t3, w1, w2

(* Handlers exist for all tasks but t1, whose type nobody registered (such *)
(* as the "server:setup" that backend/trigger_worker.go pushes).           *)
AllButT1 == Tasks \ {t1}

(* Workers run the same loop and no property names one.                    *)
WorkerSymmetry == Permutations(Workers)
=============================================================================
