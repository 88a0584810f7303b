-------------------------- MODULE MCIssueLifecycle --------------------------
(***************************************************************************)
(* Small instances of IssueLifecycle for TLC.                              *)
(***************************************************************************)
EXTENDS IssueLifecycleProperties, TLC

CONSTANTS r1, r2, r3, ana, ben

\* All Reports by one citizen.
OneAuthor == [r \in Reports |-> ana]

\* Three Reports, two of them by the same citizen.
SharedAuthor == (r1 :> ana) @@ (r2 :> ana) @@ (r3 :> ben)

IssueSymmetry == Permutations(Issues)

=============================================================================
