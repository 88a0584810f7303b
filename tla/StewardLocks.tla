----------------------------- MODULE StewardLocks -----------------------------
(* The row locks of the requests that work on Issues, and the authority of    *)
(* those who make them.                                                       *)
(*                                                                            *)
(* _locked_issue and _locked_merge_pair lock with a join, so that FOR UPDATE  *)
(* takes the row of the category together with that of the Issue, and the     *)
(* members of a split are locked together with their authors.  Rows named by  *)
(* a new foreign key are locked FOR KEY SHARE when the transaction commits.   *)
(* The database aborts a request that waits in a cycle; the application does  *)
(* not try it again.                                                          *)
EXTENDS Integers, Sequences

CONSTANTS
    Issues,         \* ids, ordered as the primary keys are
    Categories, Reports,
    Authorities, Admins, Citizens,
    CategoryOf,     \* category of each Issue
    Members,        \* Reports of each Issue, oldest first
    AuthorOf,       \* author of each Report
    Requests,
    Jobs,           \* what a request may ask for
    MaxChanges,     \* bound of the model: account changes by an Admin
    None

(* Requests of staff on an Issue, which are checked against its category. *)
Stewardship ==
    {"transition", "override", "assign", "unassign", "duplicate", "merge", "split"}

Kinds == Stewardship \cup {"confirm", "cluster", "open", "correct"}

(* What is assumed of the constants: an account has one role. *)
LocksAssumption ==
    /\ Issues \subseteq Nat /\ MaxChanges \in Nat
    /\ Authorities \cap Admins = {} /\ None \notin Authorities
    /\ \A j \in Jobs :
         /\ j.kind \in Kinds /\ j.issue \in Issues
         /\ j.kind = "assign" => j.target \in Authorities
         /\ j.kind = "unassign" => j.target = None

Staff == Authorities \cup Admins

VARIABLES
    job,        \* what each request asks for
    phase,      \* "new", "running", "done", "refused" or "aborted"
    taken,      \* number of locks of its plan a request holds
    active,     \* may the account sign in?
    scope,      \* categories of each Authority
    assignee,   \* per Issue
    loaded,     \* per request: was the actor active when the request began?
    changes     \* counter for MaxChanges

accounts == <<active, scope>>
vars == <<job, phase, taken, accounts, assignee, loaded, changes>>

-----------------------------------------------------------------------------
(* Lock modes and the modes each one keeps out. *)
Excludes == [update |-> {"update", "change", "key"},   \* FOR UPDATE
             change |-> {"update", "change"},          \* UPDATE
             key    |-> {"update"}]                    \* FOR KEY SHARE

Lock(kind, row, mode) == [row |-> <<kind, row>>, mode |-> mode]

LockedIssue(i) ==
    <<Lock("issue", i, "update"), Lock("category", CategoryOf[i], "update")>>

\* Mutation: the assignee is read without a lock that an Admin waits for.
LockedAssigneeElsewhere(u) == <<Lock("assignee", u, "update")>>

LockedAssignee(u) == <<Lock("person", u, "update")>>

LockedMergePair(i, k) ==
    LET first == IF i < k THEN i ELSE k
    IN LockedIssue(first) \o LockedIssue(IF first = i THEN k ELSE i)

(* Each member and, right after it, its author. *)
LockedMembers(i) ==
    [n \in 1 .. 2 * Len(Members[i]) |->
        LET member == Members[i][(n + 1) \div 2] IN
        IF n % 2 = 1 THEN Lock("report", member, "update")
        ELSE Lock("person", AuthorOf[member], "update")]

MovedReports(i) ==
    [n \in DOMAIN Members[i] |-> Lock("report", Members[i][n], "change")]

(* The actor of a status event or of an audit event at the commit. *)
Named(u) == <<Lock("person", u, "key")>>

\* Mutation: the assignee is locked before the Issue.
AssignPlanReversed(j) ==
    LockedAssignee(j.target) \o LockedIssue(j.issue) \o Named(j.actor)

AssignPlan(j) ==
    LockedIssue(j.issue) \o LockedAssignee(j.target) \o Named(j.actor)

(* An assignment to nobody. *)
UnassignPlan(j) == LockedIssue(j.issue) \o Named(j.actor)

TransitionPlan(j) == LockedIssue(j.issue) \o Named(j.actor)

OverridePlan(j) == LockedIssue(j.issue) \o Named(j.actor)

DuplicatePlan(j) == LockedIssue(j.issue) \o LockedIssue(j.target) \o Named(j.actor)

MergePlan(j) ==
    LockedMergePair(j.issue, j.target) \o MovedReports(j.target) \o Named(j.actor)

SplitPlan(j) == LockedIssue(j.issue) \o LockedMembers(j.issue) \o Named(j.actor)

ConfirmPlan(j) == <<Lock("issue", j.issue, "update")>> \o Named(j.actor)

(* cluster_report joins the Issue it has found, or opens one, which names its *)
(* category in a foreign key.  The advisory locks between the two, which only *)
(* these requests take, and in one order, are those of ClusterLocks.          *)
ClusterPlan(j) ==
    <<Lock("report", j.target, "update"), Lock("issue", j.issue, "update")>>

OpenPlan(j) ==
    <<Lock("report", j.target, "update"), Lock("category", CategoryOf[j.issue], "key")>>

(* The author's or an official's edit names the category in a foreign key; it *)
(* is logged, and writes no audit event that would name the actor.            *)
CorrectPlan(j) ==
    <<Lock("report", j.target, "change"), Lock("category", CategoryOf[j.issue], "key")>>

Plan(j) ==
    CASE j.kind = "transition" -> TransitionPlan(j)
      [] j.kind = "override"   -> OverridePlan(j)
      [] j.kind = "assign"     -> AssignPlan(j)
      [] j.kind = "unassign"   -> UnassignPlan(j)
      [] j.kind = "duplicate"  -> DuplicatePlan(j)
      [] j.kind = "merge"      -> MergePlan(j)
      [] j.kind = "split"      -> SplitPlan(j)
      [] j.kind = "confirm"    -> ConfirmPlan(j)
      [] j.kind = "cluster"    -> ClusterPlan(j)
      [] j.kind = "open"       -> OpenPlan(j)
      [] j.kind = "correct"    -> CorrectPlan(j)

(* Requests that lock two Issues, or an Issue before its Reports.             *)
Wide == {"duplicate", "merge", "split"}

Held(p) ==
    LET plan == Plan(job[p])
    IN IF phase[p] = "running" THEN {plan[n] : n \in 1 .. taken[p]} ELSE {}

(* The other requests that keep p from its next lock. *)
WaitsFor(p) ==
    LET plan == Plan(job[p])
        next == plan[taken[p] + 1]
    IN IF phase[p] # "running" \/ taken[p] = Len(plan) THEN {}
       ELSE {q \in Requests \ {p} :
                \E l \in Held(q) : /\ l.row = next.row
                                   /\ next.mode \in Excludes[l.mode]}

Blocked == {p \in Requests : WaitsFor(p) # {}}

(* Each request of the set waits for another of the set. *)
InCycle(waiting) ==
    /\ waiting # {}
    /\ \A p \in waiting : WaitsFor(p) \cap waiting # {}

(* The row of an account is free for an Admin's change. *)
Unlocked(u) ==
    \A p \in Requests : \A l \in Held(p) : l.row # <<"person", u>>

InScope(u, i) == u \notin Admins => CategoryOf[i] \in scope[u]

(* Shape of the state. *)
TypeOK ==
    /\ job \in [Requests -> Jobs]
    /\ phase \in [Requests -> {"new", "running", "done", "refused", "aborted"}]
    /\ \A p \in Requests : taken[p] \in 0 .. Len(Plan(job[p]))
    /\ active \in [Staff -> BOOLEAN]
    /\ scope \in [Authorities -> SUBSET Categories]
    /\ assignee \in [Issues -> Authorities \cup {None}]
    /\ loaded \in [Requests -> BOOLEAN]
    /\ changes \in 0 .. MaxChanges

Init ==
    /\ job \in [Requests -> Jobs]
    /\ phase = [p \in Requests |-> "new"]
    /\ taken = [p \in Requests |-> 0]
    /\ active = [u \in Staff |-> TRUE]
    /\ scope = [u \in Authorities |-> Categories]
    /\ assignee = [i \in Issues |-> None]
    /\ loaded = [p \in Requests |-> FALSE]
    /\ changes = 0

-----------------------------------------------------------------------------
(* The request loads its actor; require_role judges that copy. *)
Begin(p) ==
    /\ phase[p] = "new"
    /\ loaded' = [loaded EXCEPT ![p] =
                     job[p].actor \notin Staff \/ active[job[p].actor]]
    /\ phase' = [phase EXCEPT ![p] = IF loaded'[p] THEN "running" ELSE "refused"]
    /\ UNCHANGED <<job, taken, accounts, assignee, changes>>

(* require_category_scope queries the scope anew, on the locked Issue; the    *)
(* assignee's role, status and scope are read on the row just locked.         *)
Permitted(p, n) ==
    LET j == job[p] IN
    /\ j.kind \in Stewardship \ {"merge"} /\ n = 2 => InScope(j.actor, j.issue)
    /\ j.kind = "duplicate" /\ n = 4 => InScope(j.actor, j.target)
    /\ j.kind = "merge" /\ n = 4 => /\ InScope(j.actor, j.issue)
                                   /\ InScope(j.actor, j.target)
    /\ j.kind = "unassign" /\ n = 2 =>
           j.actor \in Admins \/ assignee[j.issue] \in {None, j.actor}
    /\ j.kind = "assign" /\ n = 3 =>
           /\ j.actor \in Admins \cup {j.target}
           /\ active[j.target] /\ CategoryOf[j.issue] \in scope[j.target]

Acquire(p) ==
    /\ phase[p] = "running" /\ taken[p] < Len(Plan(job[p]))
    /\ WaitsFor(p) = {}
    /\ Permitted(p, taken[p] + 1)
    /\ taken' = [taken EXCEPT ![p] = @ + 1]
    /\ UNCHANGED <<job, phase, accounts, assignee, loaded, changes>>

Refuse(p) ==
    /\ phase[p] = "running" /\ taken[p] < Len(Plan(job[p]))
    /\ WaitsFor(p) = {}
    /\ ~Permitted(p, taken[p] + 1)
    /\ phase' = [phase EXCEPT ![p] = "refused"]
    /\ UNCHANGED <<job, taken, accounts, assignee, loaded, changes>>

Commit(p) ==
    /\ phase[p] = "running" /\ taken[p] = Len(Plan(job[p]))
    /\ phase' = [phase EXCEPT ![p] = "done"]
    /\ assignee' = IF job[p].kind \in {"assign", "unassign"}
                   THEN [assignee EXCEPT ![job[p].issue] = job[p].target]
                   ELSE assignee
    /\ UNCHANGED <<job, taken, accounts, loaded, changes>>

(* PostgreSQL's deadlock detector ends one request of the cycle. *)
Abort(p) ==
    /\ \E waiting \in SUBSET Blocked : p \in waiting /\ InCycle(waiting)
    /\ phase' = [phase EXCEPT ![p] = "aborted"]
    /\ UNCHANGED <<job, taken, accounts, assignee, loaded, changes>>

(* update_user_by_admin locks the account, and changes it in one transaction. *)
UpdateByAdmin(u, mayEnter, categories) ==
    /\ changes < MaxChanges
    /\ Unlocked(u)
    /\ active' = [active EXCEPT ![u] = mayEnter]
    /\ scope' = [scope EXCEPT ![u] = categories]
    /\ changes' = changes + 1
    /\ UNCHANGED <<job, phase, taken, assignee, loaded>>

-----------------------------------------------------------------------------
Next ==
    \/ \E p \in Requests : Begin(p)
    \/ \E p \in Requests : Acquire(p)
    \/ \E p \in Requests : Refuse(p)
    \/ \E p \in Requests : Commit(p)
    \/ \E p \in Requests : Abort(p)
    \/ \E u \in Authorities, mayEnter \in BOOLEAN, categories \in SUBSET Categories :
           UpdateByAdmin(u, mayEnter, categories)

Spec == Init /\ [][Next]_vars

-----------------------------------------------------------------------------
(* Whoever is assigned an Issue is, at that commit, an active Authority of    *)
(* its category: no suspension or change of scope falls between the check and *)
(* the commit (assign_issue locks the account before it reads it).            *)
AssignedWhileQualified ==
    [][\A i \in Issues :
          assignee'[i] \notin {assignee[i], None} =>
              active[assignee'[i]] /\ CategoryOf[i] \in scope[assignee'[i]]]_vars

(* A deadlock needs a request that locks two Issues or, in a split, the       *)
(* members after the Issue: transitions, overrides, assignments and their     *)
(* withdrawal, confirmations, clustering and corrections of a Report never    *)
(* wait for each other in a cycle.                                            *)
NarrowRequestsNeverDeadlock ==
    \A waiting \in SUBSET Blocked :
        InCycle(waiting) => \E p \in waiting : job[p].kind \in Wide

=============================================================================
