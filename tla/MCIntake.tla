------------------------------- MODULE MCIntake -------------------------------
(* A small instance of Intake for TLC.                                        *)
EXTENDS Intake, TLC

CONSTANTS q1, q2, q3, q4, k1, p1, p2, centre, edge

PhotoOnly(p) == [text |-> FALSE, photos |-> {p}, located |-> TRUE]

(* Three requests under one key and one without a key. *)
OneUnkeyed == [q \in Requests |-> IF q = q4 THEN None ELSE k1]

(* Two taps of one action; an edit of it that is out of the city; and another *)
(* action that wants the same photo.                                          *)
MixedBodies ==
    (q1 :> PhotoOnly(p1)) @@ (q2 :> PhotoOnly(p1))
    @@ (q3 :> [text |-> TRUE, photos |-> {p1}, located |-> FALSE])
    @@ (q4 :> [text |-> FALSE, photos |-> {p1, p2}, located |-> TRUE])

(* The seeded boundary leaves out the edge of the city. *)
Outlines == [n \in Names |-> IF n = Seeded THEN {centre} ELSE {centre, edge}]

Interchangeable == Permutations(Replacers)

=============================================================================
