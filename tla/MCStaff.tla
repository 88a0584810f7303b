-------------------------------- MODULE MCStaff --------------------------------
(* Three requests of any kind on three Issues, a scroll through three rows of *)
(* the queue, and two classifications of one text under three keyword rows.   *)
EXTENDS Staff, TLC

CONSTANTS roads, water, rA, rB, rC, ann, bob, root, cit, eve, text

(* Three Issues of two categories; the first has two Reports. *)
IssueIds == {1, 2, 3}
IssueCategories == <<roads, water, roads>>
IssueMembers == <<<<rA, rB>>, <<rC>>, <<>>>>
Authors == (rA :> cit) @@ (rB :> eve) @@ (rC :> cit)

Job(kind, actor, issue, target) ==
    [kind |-> kind, actor |-> actor, issue |-> issue, target |-> target]

(* One request of every kind, and a second assignment, on Issues that overlap. *)
JobsOnOverlappingRows ==
    {Job("transition", ann, 1, None), Job("assign", root, 1, ann),
     Job("assign", bob, 3, bob), Job("duplicate", ann, 1, 2),
     Job("merge", bob, 2, 1), Job("split", ann, 1, None),
     Job("confirm", cit, 2, None), Job("cluster", cit, 1, rC), Job("open", eve, 2, rA),
     Job("correct", bob, 1, rB), Job("override", bob, 3, None),
     Job("unassign", ann, 1, None)}

(* Two phrases of one length, both in the one text. *)
OneLength == [t \in Terms |-> 1]
FoundAll == [t \in {text} |-> Terms]
OneText == [r \in Classified |-> text]

(* Rows of keywords and requests share their model values, so that one        *)
(* permutation serves both.                                                   *)
Interchangeable == Permutations(Requests)

(* Bound: an Admin changes an account beside two requests, three requests run *)
(* without that.                                                              *)
ThirdOrChange == changes = 0 \/ \E p \in Requests : phase[p] = "new"

BoundedSpec == Init /\ [][Next /\ ThirdOrChange']_vars

=============================================================================
