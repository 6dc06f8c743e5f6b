--------------------------- MODULE MCDurableQueue ---------------------------
(* Small instances of DurableQueue.                                        *)
EXTENDS DurableQueue, TLC

(* Workers differ only in their names.                                     *)
WorkerSymmetry == Permutations(Workers)
=============================================================================
