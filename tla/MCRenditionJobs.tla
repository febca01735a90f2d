-------------------------- MODULE MCRenditionJobs --------------------------
(***************************************************************************)
(* RenditionJobs for TLC.                                                  *)
(***************************************************************************)
EXTENDS RenditionJobs, TLC

\* No action tells workers apart; waiters are ordered, so they stay as they
\* are.
FenceBound == <<1, 0>>
WorkerSymmetry == Permutations(Worker)
=============================================================================
