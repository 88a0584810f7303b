------------------------ MODULE MCNotificationOutbox ------------------------
(***************************************************************************)
(* Small instances of NotificationOutbox for TLC.                          *)
(***************************************************************************)
EXTENDS NotificationOutbox, TLC

CONSTANTS i1, i2, r1, r2, r3, ana, ben

\* ana and ben have reported i1; another Report of ben's is still to join.
\* i2 is the Issue that a split creates.
OneIssue == [r \in Reports |-> IF r = r3 THEN None ELSE i1]

Authored == [r \in Reports |-> IF r = r1 THEN ana ELSE ben]

OneWay == {<<i1, i2>>}

\* Bounds of the instance: only ben's account changes, and three of these
\* happen at most: a status change, another one, a fault, another one, a Report
\* that joins, a split and a changed account.  No step that fairness speaks of
\* is one of them.
Rarities ==
    {x \in {"join", "split", "account"} :
       CASE x = "join"    -> issueOf[r3] # None
         [] x = "split"   -> \E r \in Reports : issueOf[r] = i2
         [] x = "account" -> standing[ben] # "active"}

Bound == /\ standing[ana] = "active"
         /\ Cardinality(Rarities) + faults + Len(outbox) <= 3

BoundedSpec == Init /\ [][Next /\ Bound']_vars /\ Fairness

=============================================================================
