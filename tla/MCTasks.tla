-------------------------------- MODULE MCTasks --------------------------------
(* Small instances of Tasks for TLC.                                          *)
EXTENDS Tasks, TLC

CONSTANTS r1, e1, e2, e3, s1, s2, p1, p2, x1, x2

(* One Report; its author edits the text and the category, an official        *)
(* corrects the category.                                                     *)
AllOfOne == [e \in Edits |-> r1]

EachKind ==
    [e \in Edits |->
        CASE e = e1 -> "text" [] e = e2 -> "hint" [] e = e3 -> "correction"]

(* Two submissions want the first photo, the second one another as well.      *)
Rivals == (s1 :> {p1}) @@ (s2 :> {p1, p2})

(* One member of staff exports Issues and Reports.                            *)
RequesterOfJobs == [x \in Jobs |-> CHOOSE u \in Requesters : TRUE]
ResourceOfJobs == (x1 :> "issues") @@ (x2 :> "reports")

=============================================================================
