--------------------------- MODULE MCTaskDispatch ---------------------------
(* TaskDispatch on small instances.                                        *)
EXTENDS TaskDispatch, TLC

\* The worker threads are interchangeable (safety runs only).
WorkerSymmetry == Permutations(Thread \ {Main}) \cup Permutations(Block)
=============================================================================
