--------------------------- MODULE MCClusterLocks ---------------------------
(***************************************************************************)
(* Small instances of ClusterLocks for TLC.                                *)
(***************************************************************************)
EXTENDS ClusterLocks, TLC

CONSTANTS r1, r2, r3

\* Three Reports in three neighbouring cells of size 3: the first two match
\* under every radius, the last two under the larger one only.
InARow  == (r1 :> 2) @@ (r2 :> 4) @@ (r3 :> 7)

\* Two Reports side by side.
SideBySide == (r1 :> 2) @@ (r2 :> 3)

OneCategory == [r \in Reports |-> "roads"]

\* The message of the first Report is delivered a second time.
FirstTwice == [r \in Reports |-> IF r = r1 THEN 2 ELSE 1]
Once       == [r \in Reports |-> 1]

AllAtOnce == [r \in Reports |-> 0]

\* The last Report is submitted after the window of the first has passed.
LastLater == (r1 :> 0) @@ (r2 :> 0) @@ (r3 :> 1)

\* Two rules that differ in everything, and one.
NarrowOrWide == {[radius |-> 2, window |-> 0], [radius |-> 3, window |-> 1]}
Narrow == {[radius |-> 2, window |-> 0]}

\* The same cell size everywhere, but another one for another radius.
CellsByRadius == [x \in 0..10 |-> [radius \in 2..3 |-> radius + 1]]

\* The precision changes at position 3, as _geohash_precision changes it at a
\* latitude where a cell narrows to less than the radius.
CellsByLatitude == [x \in 0..10 |-> [radius \in 2..3 |-> IF x < 3 THEN 3 ELSE 6]]

=============================================================================
