---------------------------- MODULE FindOrCreate ----------------------------
(***************************************************************************)
(* What clustering promises (architecture section 4.3, BR-6, BR-13), with  *)
(* no word about locks: one indivisible step attaches a Report to an open  *)
(* Issue that matches it, or founds a new Issue when none does.  Matching  *)
(* goes by a rule that the Admin may change.  The search before founding   *)
(* is sure to see the Issues whose founders were located on a grid of the  *)
(* same cell size; one founded on another grid at the same time it may     *)
(* miss.                                                                   *)
(*                                                                         *)
(* Positions are on a line: the two axes of the map behave alike, and two  *)
(* points match when they match on both.  A Report founds an Issue at its  *)
(* own position, so an Issue is represented by its founder.                *)
(***************************************************************************)
EXTENDS Integers

CONSTANTS
    Reports, Issues, None,
    Category,    \* the category the classifier gave each Report
    Position,    \* where each Report is
    CreatedAt,   \* when each Report was submitted
    Rules,       \* [radius, window] of the rules an Admin may configure
    Width,       \* Width[x][radius]: the cell size chosen at position x
    MaxTime      \* bound on the clock

VARIABLES
    issueOf,     \* Report.issue
    founder,     \* the Report each Issue was created for, None before that
    openIssues,  \* Issues whose status accepts further Reports
    openedAt,    \* Issue.opened_at
    grid,        \* the cell size by which each Issue's founder was located
    now          \* the clock

vars == <<issueOf, founder, openIssues, openedAt, grid, now>>

Init ==
    /\ issueOf    = [r \in Reports |-> None]
    /\ founder    = [i \in Issues |-> None]
    /\ openIssues = {}
    /\ openedAt   = [i \in Issues |-> 0]
    /\ grid       = [i \in Issues |-> 0]
    /\ now        = 0

Distance(x, y) == IF x <= y THEN y - x ELSE x - y

\* Issue i is one that Report r may join under the rule.
Matches(r, i, rule) ==
    /\ i \in openIssues
    /\ Category[founder[i]] = Category[r]
    /\ Distance(Position[founder[i]], Position[r]) <= rule.radius
    /\ openedAt[i] >= CreatedAt[r] - rule.window

Attach(r, i, rule) ==
    /\ issueOf[r] = None
    /\ Matches(r, i, rule)
    /\ issueOf' = [issueOf EXCEPT ![r] = i]
    /\ UNCHANGED <<founder, openIssues, openedAt, grid, now>>

\* The new Issue may have been stamped a while before it became visible.
Found(r, n, rule) ==
    LET size == Width[Position[r]][rule.radius] IN
    /\ issueOf[r] = None
    /\ founder[n] = None
    /\ \A i \in Issues : Matches(r, i, rule) => grid[i] # size
    /\ issueOf' = [issueOf EXCEPT ![r] = n]
    /\ founder' = [founder EXCEPT ![n] = r]
    /\ openIssues' = openIssues \cup {n}
    /\ grid' = [grid EXCEPT ![n] = size]
    /\ \E t \in 0..now : openedAt' = [openedAt EXCEPT ![n] = t]
    /\ UNCHANGED now

\* The authority resolves, rejects or merges an Issue away.
Close(i) ==
    /\ i \in openIssues
    /\ openIssues' = openIssues \ {i}
    /\ UNCHANGED <<issueOf, founder, openedAt, grid, now>>

Tick ==
    /\ now < MaxTime
    /\ now' = now + 1
    /\ UNCHANGED <<issueOf, founder, openIssues, openedAt, grid>>

Next ==
    \/ \E r \in Reports, i \in Issues, rule \in Rules :
         Attach(r, i, rule) \/ Found(r, i, rule)
    \/ \E i \in Issues : Close(i)
    \/ Tick

Spec == Init /\ [][Next]_vars

=============================================================================
