---------------------------- MODULE MCCardLifecycle ----------------------------
(***************************************************************************)
(* Instances of CardLifecycle: one operation of a kind, and the retirement *)
(* the deadline enqueues.                                                  *)
(***************************************************************************)
EXTENDS CardLifecycle, TLC

CONSTANTS issue, pause, resume, cancel, retire, auto, w1, w2

MCKind == [o \in Ops |-> CASE o = issue -> "ISSUE" [] o = pause -> "PAUSE"
                           [] o = resume -> "RESUME" [] o = cancel -> "CANCEL"
                           [] OTHER -> "RETIRE"]

\* Runs of the jobs are interchangeable.
MCSymmetry == Permutations(Runs)
===============================================================================
