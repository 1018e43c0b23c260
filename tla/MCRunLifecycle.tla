--------------------------- MODULE MCRunLifecycle ---------------------------
(* Model-checking instance of RunLifecycle: workers are interchangeable.    *)
EXTENDS RunLifecycle, TLC

WorkerSymmetry == Permutations(Workers)

=============================================================================
