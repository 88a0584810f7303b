----------------------------- MODULE StaffProofs -----------------------------
(* Proofs about what the staff work with: who is assigned and what can        *)
(* deadlock (StewardLocks), what a scroll through the work queue serves       *)
(* (Paging), and what the classifications answer while the taxonomy is edited *)
(* under them (Taxonomy).                                                     *)
EXTENDS Staff, FiniteSetTheorems, SequenceTheorems, WellFoundedInduction, TLAPS

-----------------------------------------------------------------------------
(* Requests and their row locks: plans of requests that are not wide go from  *)
(* Reports over Issues and categories to accounts.                            *)

Narrow == SL!Kinds \ SL!Wide
Level == [report |-> 0, issue |-> 1, category |-> 2, person |-> 3]

(* A step of a plan. *)
Step(j, n) == SL!Plan(j)[n]
LevelAt(j, n) == Level[Step(j, n).row[1]]

LEMMA Appended ==
    ASSUME NEW a, NEW b, NEW c, NEW d
    PROVE  /\ <<a>> \o <<b>> = <<a, b>>
           /\ <<a, b>> \o <<c>> = <<a, b, c>>
           /\ <<a, b, c>> \o <<d>> = <<a, b, c, d>>
<1> DEFINE S == {a, b, c, d}
<1>1. ASSUME NEW s \in Seq(S), NEW e \in S, NEW t \in Seq(S), Len(t) = Len(s) + 1,
             \A i \in 1 .. Len(s) : t[i] = s[i], t[Len(s) + 1] = e
      PROVE  s \o <<e>> = t
  <2> DEFINE x == s \o <<e>>
  <2>1. <<e>> \in Seq(S) /\ Len(<<e>>) = 1 /\ <<e>>[1] = e /\ Len(s) \in Nat
    OBVIOUS
  <2>2. /\ x \in Seq(S) /\ Len(x) = Len(s) + 1
        /\ \A i \in 1 .. Len(s) + 1 : x[i] = IF i <= Len(s) THEN s[i] ELSE <<e>>[i - Len(s)]
    BY <2>1, ConcatProperties
  <2> HIDE DEF x
  <2>3. \A i \in 1 .. Len(s) + 1 : x[i] = t[i]
    <3> SUFFICES ASSUME NEW i \in 1 .. Len(s) + 1 PROVE x[i] = t[i]
      OBVIOUS
    <3>1. CASE i <= Len(s)
      BY <1>1, <2>1, <2>2, <3>1
    <3>2. CASE i = Len(s) + 1
      BY <1>1, <2>1, <2>2, <3>2
    <3> QED
      BY <2>1, <3>1, <3>2
  <2>4. x = t
    BY <1>1, <2>2, <2>3, SeqEqual
  <2> QED
    BY <2>4 DEF x
<1>2. <<a>> \o <<b>> = <<a, b>>
  <2> DEFINE s == <<a>>
             t == <<a, b>>
  <2>1. /\ s \in Seq(S) /\ t \in Seq(S) /\ Len(s) = 1 /\ Len(t) = 2
        /\ \A i \in 1 .. 1 : t[i] = s[i]
        /\ t[2] = b /\ b \in S
    OBVIOUS
  <2> HIDE DEF s, t, S
  <2>2. Len(t) = Len(s) + 1 /\ t[Len(s) + 1] = b /\ \A i \in 1 .. Len(s) : t[i] = s[i]
    BY <2>1
  <2>3. s \o <<b>> = t
    BY <1>1, <2>1, <2>2
  <2> QED
    BY <2>3 DEF s, t
<1>3. <<a, b>> \o <<c>> = <<a, b, c>>
  <2> DEFINE s == <<a, b>>
             t == <<a, b, c>>
  <2>1. /\ s \in Seq(S) /\ t \in Seq(S) /\ Len(s) = 2 /\ Len(t) = 3
        /\ \A i \in 1 .. 2 : t[i] = s[i]
        /\ t[3] = c /\ c \in S
    OBVIOUS
  <2> HIDE DEF s, t, S
  <2>2. Len(t) = Len(s) + 1 /\ t[Len(s) + 1] = c /\ \A i \in 1 .. Len(s) : t[i] = s[i]
    BY <2>1
  <2>3. s \o <<c>> = t
    BY <1>1, <2>1, <2>2
  <2> QED
    BY <2>3 DEF s, t
<1>4. <<a, b, c>> \o <<d>> = <<a, b, c, d>>
  <2> DEFINE s == <<a, b, c>>
             t == <<a, b, c, d>>
  <2>1. /\ s \in Seq(S) /\ t \in Seq(S) /\ Len(s) = 3 /\ Len(t) = 4
        /\ \A i \in 1 .. 3 : t[i] = s[i]
        /\ t[4] = d /\ d \in S
    OBVIOUS
  <2> HIDE DEF s, t, S
  <2>2. Len(t) = Len(s) + 1 /\ t[Len(s) + 1] = d /\ \A i \in 1 .. Len(s) : t[i] = s[i]
    BY <2>1
  <2>3. s \o <<d>> = t
    BY <1>1, <2>1, <2>2
  <2> QED
    BY <2>3 DEF s, t
<1> QED
  BY <1>2, <1>3, <1>4

LEMMA PlanOfNarrow ==
    ASSUME NEW j \in Jobs
    PROVE  /\ j.kind \in {"transition", "override", "unassign"} =>
                SL!Plan(j) = <<SL!Lock("issue", j.issue, "update"),
                               SL!Lock("category", CategoryOf[j.issue], "update"),
                               SL!Lock("person", j.actor, "key")>>
           /\ j.kind = "assign" =>
                SL!Plan(j) = <<SL!Lock("issue", j.issue, "update"),
                               SL!Lock("category", CategoryOf[j.issue], "update"),
                               SL!Lock("person", j.target, "update"),
                               SL!Lock("person", j.actor, "key")>>
           /\ j.kind = "confirm" =>
                SL!Plan(j) = <<SL!Lock("issue", j.issue, "update"),
                               SL!Lock("person", j.actor, "key")>>
           /\ j.kind = "cluster" =>
                SL!Plan(j) = <<SL!Lock("report", j.target, "update"),
                               SL!Lock("issue", j.issue, "update")>>
           /\ j.kind = "open" =>
                SL!Plan(j) = <<SL!Lock("report", j.target, "update"),
                               SL!Lock("category", CategoryOf[j.issue], "key")>>
           /\ j.kind = "correct" =>
                SL!Plan(j) = <<SL!Lock("report", j.target, "change"),
                               SL!Lock("category", CategoryOf[j.issue], "key")>>
<1>1. j.kind \in {"transition", "override", "unassign"} =>
         SL!Plan(j) = SL!LockedIssue(j.issue) \o SL!Named(j.actor)
  BY DEF SL!Plan, SL!TransitionPlan, SL!OverridePlan, SL!UnassignPlan
<1>2. j.kind = "assign" =>
         SL!Plan(j) = SL!LockedIssue(j.issue) \o SL!LockedAssignee(j.target) \o SL!Named(j.actor)
  BY DEF SL!Plan, SL!AssignPlan
<1>3. j.kind = "confirm" =>
         SL!Plan(j) = <<SL!Lock("issue", j.issue, "update")>> \o SL!Named(j.actor)
  BY DEF SL!Plan, SL!ConfirmPlan
<1>4. j.kind = "cluster" =>
         SL!Plan(j) = <<SL!Lock("report", j.target, "update"), SL!Lock("issue", j.issue, "update")>>
  BY DEF SL!Plan, SL!ClusterPlan
<1>5. j.kind = "correct" =>
         SL!Plan(j) = <<SL!Lock("report", j.target, "change"),
                        SL!Lock("category", CategoryOf[j.issue], "key")>>
  BY DEF SL!Plan, SL!CorrectPlan
<1>6. j.kind = "open" =>
         SL!Plan(j) = <<SL!Lock("report", j.target, "update"),
                        SL!Lock("category", CategoryOf[j.issue], "key")>>
  BY DEF SL!Plan, SL!OpenPlan
<1> QED
  BY <1>1, <1>2, <1>3, <1>4, <1>5, <1>6, Appended
     DEF SL!LockedIssue, SL!LockedAssignee, SL!Named

LEMMA NarrowPlansAscend ==
    ASSUME NEW j \in Jobs, j.kind \in Narrow
    PROVE  /\ Len(SL!Plan(j)) \in 2 .. 4
           /\ \A n \in 1 .. Len(SL!Plan(j)) : LevelAt(j, n) \in 0 .. 3
           /\ \A a, b \in 1 .. Len(SL!Plan(j)) :
                a < b => LevelAt(j, a) < LevelAt(j, b) \/ (j.kind = "assign" /\ a = 3 /\ b = 4)
           /\ \A n \in 1 .. Len(SL!Plan(j)) :
                Step(j, n).row[1] = "person" /\ Step(j, n).mode # "key"
                    => j.kind = "assign" /\ n = 3
           /\ \A n \in 1 .. Len(SL!Plan(j)) : Step(j, n).mode \in {"update", "change", "key"}
           /\ j.kind = "assign" =>
                /\ Len(SL!Plan(j)) = 4
                /\ Step(j, 3) = SL!Lock("person", j.target, "update")
                /\ Step(j, 4) = SL!Lock("person", j.actor, "key")
<1> DEFINE P == SL!Plan(j)
<1>1. CASE j.kind \in {"transition", "override", "unassign"}
  <2>1. P = <<SL!Lock("issue", j.issue, "update"),
              SL!Lock("category", CategoryOf[j.issue], "update"),
              SL!Lock("person", j.actor, "key")>>
    BY <1>1, PlanOfNarrow
  <2> HIDE DEF P
  <2>2. Len(P) = 3 /\ \A n \in 1 .. 3 : n = 1 \/ n = 2 \/ n = 3
    BY <2>1
  <2>3. /\ P[1].row[1] = "issue" /\ P[2].row[1] = "category" /\ P[3].row[1] = "person"
        /\ P[1].mode = "update" /\ P[2].mode = "update" /\ P[3].mode = "key"
    BY <2>1 DEF SL!Lock
  <2> QED
    BY <1>1, <2>2, <2>3 DEF P, LevelAt, Step, Level
<1>2. CASE j.kind = "assign"
  <2>1. P = <<SL!Lock("issue", j.issue, "update"),
              SL!Lock("category", CategoryOf[j.issue], "update"),
              SL!Lock("person", j.target, "update"),
              SL!Lock("person", j.actor, "key")>>
    BY <1>2, PlanOfNarrow
  <2> HIDE DEF P
  <2>2. Len(P) = 4 /\ \A n \in 1 .. 4 : n = 1 \/ n = 2 \/ n = 3 \/ n = 4
    BY <2>1
  <2>3. /\ P[1].row[1] = "issue" /\ P[2].row[1] = "category"
        /\ P[3].row[1] = "person" /\ P[4].row[1] = "person"
        /\ P[1].mode = "update" /\ P[2].mode = "update"
        /\ P[3].mode = "update" /\ P[4].mode = "key"
    BY <2>1 DEF SL!Lock
  <2>4. /\ P[3] = SL!Lock("person", j.target, "update")
        /\ P[4] = SL!Lock("person", j.actor, "key")
    BY <2>1
  <2> QED
    BY <1>2, <2>2, <2>3, <2>4 DEF P, LevelAt, Step, Level
<1>3. CASE j.kind = "confirm"
  <2>1. P = <<SL!Lock("issue", j.issue, "update"), SL!Lock("person", j.actor, "key")>>
    BY <1>3, PlanOfNarrow
  <2> HIDE DEF P
  <2>2. Len(P) = 2 /\ \A n \in 1 .. 2 : n = 1 \/ n = 2
    BY <2>1
  <2>3. /\ P[1].row[1] = "issue" /\ P[2].row[1] = "person"
        /\ P[1].mode = "update" /\ P[2].mode = "key"
    BY <2>1 DEF SL!Lock
  <2> QED
    BY <1>3, <2>2, <2>3 DEF P, LevelAt, Step, Level
<1>4. CASE j.kind = "cluster"
  <2>1. P = <<SL!Lock("report", j.target, "update"), SL!Lock("issue", j.issue, "update")>>
    BY <1>4, PlanOfNarrow
  <2> HIDE DEF P
  <2>2. Len(P) = 2 /\ \A n \in 1 .. 2 : n = 1 \/ n = 2
    BY <2>1
  <2>3. /\ P[1].row[1] = "report" /\ P[2].row[1] = "issue"
        /\ P[1].mode = "update" /\ P[2].mode = "update"
    BY <2>1 DEF SL!Lock
  <2> QED
    BY <1>4, <2>2, <2>3 DEF P, LevelAt, Step, Level
<1>5. CASE j.kind = "correct"
  <2>1. P = <<SL!Lock("report", j.target, "change"),
              SL!Lock("category", CategoryOf[j.issue], "key")>>
    BY <1>5, PlanOfNarrow
  <2> HIDE DEF P
  <2>2. Len(P) = 2 /\ \A n \in 1 .. 2 : n = 1 \/ n = 2
    BY <2>1
  <2>3. /\ P[1].row[1] = "report" /\ P[2].row[1] = "category"
        /\ P[1].mode = "change" /\ P[2].mode = "key"
    BY <2>1 DEF SL!Lock
  <2> QED
    BY <1>5, <2>2, <2>3 DEF P, LevelAt, Step, Level
<1>6. CASE j.kind = "open"
  <2>1. P = <<SL!Lock("report", j.target, "update"),
              SL!Lock("category", CategoryOf[j.issue], "key")>>
    BY <1>6, PlanOfNarrow
  <2> HIDE DEF P
  <2>2. Len(P) = 2 /\ \A n \in 1 .. 2 : n = 1 \/ n = 2
    BY <2>1
  <2>3. /\ P[1].row[1] = "report" /\ P[2].row[1] = "category"
        /\ P[1].mode = "update" /\ P[2].mode = "key"
    BY <2>1 DEF SL!Lock
  <2> QED
    BY <1>6, <2>2, <2>3 DEF P, LevelAt, Step, Level
<1> QED
  BY <1>1, <1>2, <1>3, <1>4, <1>5, <1>6 DEF Narrow, SL!Kinds, SL!Stewardship, SL!Wide

-----------------------------------------------------------------------------
(* What holds while requests run: an assignment that has locked its assignee  *)
(* has found that account fit, and no other assignment has locked it.         *)

Assigning(p) == phase[p] = "running" /\ job[p].kind = "assign" /\ taken[p] >= 3

RequestsTyped ==
    /\ job \in [Requests -> Jobs]
    /\ phase \in [Requests -> {"new", "running", "done", "refused", "aborted"}]
    /\ taken \in [Requests -> Nat]
    /\ \A p \in Requests :
         /\ phase[p] = "new" => taken[p] = 0
         /\ job[p].kind \in Narrow => taken[p] <= Len(SL!Plan(job[p]))
    /\ active \in [SL!Staff -> BOOLEAN] /\ scope \in [Authorities -> SUBSET Categories]
    /\ assignee \in [Issues -> Authorities \cup {None}]

Fit(p) ==
    /\ job[p].actor \in Admins \cup {job[p].target}
    /\ active[job[p].target] /\ CategoryOf[job[p].issue] \in scope[job[p].target]

LockInv ==
    /\ RequestsTyped
    /\ \A p \in Requests : Assigning(p) => Fit(p)
    /\ \A p, q \in Requests : p # q /\ Assigning(p) /\ Assigning(q) =>
           job[p].target # job[q].target

LEMMA AssignmentHolds ==
    ASSUME RequestsTyped, NEW p \in Requests, Assigning(p)
    PROVE  /\ SL!Lock("person", job[p].target, "update") \in SL!Held(p)
           /\ job[p].target \in Authorities
<1>1. job[p] \in Jobs /\ job[p].kind = "assign" /\ taken[p] \in Nat /\ 3 \in 1 .. taken[p]
  BY DEF RequestsTyped, Assigning
<1>2. job[p].kind \in Narrow
  BY <1>1 DEF Narrow, SL!Kinds, SL!Stewardship, SL!Wide
<1>3. SL!Plan(job[p])[3] = SL!Lock("person", job[p].target, "update")
  BY <1>1, <1>2, NarrowPlansAscend DEF Step
<1> QED
  BY <1>1, <1>3, StaffAssumption DEF SL!LocksAssumption, SL!Held, Assigning

LEMMA LocksInitially == SL!Init => LockInv
<1> SUFFICES ASSUME SL!Init PROVE LockInv
  OBVIOUS
<1>1. ASSUME NEW p \in Requests, job[p].kind \in Narrow PROVE taken[p] <= Len(SL!Plan(job[p]))
  <2>1. job[p] \in Jobs /\ taken[p] = 0
    BY DEF SL!Init
  <2>2. Len(SL!Plan(job[p])) \in 2 .. 4
    BY <1>1, <2>1, NarrowPlansAscend
  <2> QED
    BY <2>1, <2>2
<1> QED
  BY <1>1, StaffAssumption
     DEF SL!LocksAssumption, SL!Init, LockInv, RequestsTyped, Assigning, SL!Staff

LEMMA LocksStepwise == LockInv /\ [SL!Next]_(SL!vars) => LockInv'
<1> SUFFICES ASSUME LockInv, [SL!Next]_(SL!vars) PROVE LockInv'
  OBVIOUS
<1>1. ASSUME NEW p \in Requests, NEW s \in {"running", "done", "refused", "aborted"},
             phase' = [phase EXCEPT ![p] = s], s = "running" => phase[p] = "new",
             UNCHANGED <<job, taken, active, scope>>, assignee' \in [Issues -> Authorities \cup {None}]
      PROVE  LockInv'
  <2>1. RequestsTyped'
    BY <1>1 DEF LockInv, RequestsTyped
  <2>2. ASSUME NEW q \in Requests, Assigning(q)' PROVE Assigning(q)
    BY <1>1, <2>2 DEF LockInv, RequestsTyped, Assigning
  <2> QED
    BY <1>1, <2>1, <2>2 DEF LockInv, Fit
<1>2. ASSUME NEW p \in Requests, SL!Begin(p) PROVE LockInv'
  <2>1. phase' = [phase EXCEPT ![p] = "running"] \/ phase' = [phase EXCEPT ![p] = "refused"]
    BY <1>2 DEF SL!Begin
  <2> QED
    BY <1>1, <1>2, <2>1 DEF SL!Begin, SL!accounts, LockInv, RequestsTyped
<1>3. ASSUME NEW p \in Requests, SL!Refuse(p) \/ SL!Abort(p) PROVE LockInv'
  <2>1. /\ phase' = [phase EXCEPT ![p] = "refused"] \/ phase' = [phase EXCEPT ![p] = "aborted"]
        /\ UNCHANGED <<job, taken, active, scope, assignee>>
    BY <1>3 DEF SL!Refuse, SL!Abort, SL!accounts
  <2> QED
    BY <1>1, <2>1 DEF LockInv, RequestsTyped
<1>4. ASSUME NEW p \in Requests, SL!Commit(p) PROVE LockInv'
  <2>1. job[p] \in Jobs /\ job[p].kind \in {"assign", "unassign"} => job[p].target \in Authorities \cup {None}
    BY StaffAssumption DEF LockInv, RequestsTyped, SL!LocksAssumption
  <2>2. assignee' \in [Issues -> Authorities \cup {None}]
    BY <1>4, <2>1 DEF SL!Commit, LockInv, RequestsTyped
  <2> QED
    BY <1>1, <1>4, <2>2 DEF SL!Commit, SL!accounts
<1>5. ASSUME NEW p \in Requests, SL!Acquire(p) PROVE LockInv'
  <2>1. /\ phase[p] = "running" /\ SL!Permitted(p, taken[p] + 1) /\ SL!WaitsFor(p) = {}
        /\ taken[p] < Len(SL!Plan(job[p]))
        /\ taken' = [taken EXCEPT ![p] = @ + 1]
        /\ UNCHANGED <<job, phase, active, scope, assignee>>
    BY <1>5 DEF SL!Acquire, SL!accounts
  <2>2. RequestsTyped'
    <3>1. ASSUME job[p].kind \in Narrow PROVE taken[p] + 1 <= Len(SL!Plan(job[p]))
      <4>1. job[p] \in Jobs /\ taken[p] \in Nat
        BY DEF LockInv, RequestsTyped
      <4>2. Len(SL!Plan(job[p])) \in 2 .. 4
        BY <3>1, <4>1, NarrowPlansAscend
      <4> QED
        BY <2>1, <4>1, <4>2
    <3> QED
      BY <2>1, <3>1 DEF LockInv, RequestsTyped
  <2>3. \A q \in Requests : Assigning(q)' =>
            Assigning(q) \/ (q = p /\ job[p].kind = "assign" /\ taken[p] = 2)
    BY <2>1 DEF LockInv, RequestsTyped, Assigning
  <2>4. ASSUME job[p].kind = "assign", taken[p] = 2
        PROVE  /\ Fit(p)
               /\ \A q \in Requests \ {p} : Assigning(q) => job[q].target # job[p].target
    <3>1. Fit(p)
      BY <2>1, <2>4 DEF SL!Permitted, Fit
    <3>2. ASSUME NEW q \in Requests \ {p}, Assigning(q), job[q].target = job[p].target PROVE FALSE
      <4> DEFINE l == SL!Lock("person", job[p].target, "update")
      <4>1. l \in SL!Held(q)
        BY <3>2, AssignmentHolds DEF LockInv
      <4>2. job[p] \in Jobs /\ job[p].kind \in Narrow
        BY <2>4 DEF LockInv, RequestsTyped, Narrow, SL!Kinds, SL!Stewardship, SL!Wide
      <4>3. SL!Plan(job[p])[taken[p] + 1] = l /\ Len(SL!Plan(job[p])) = 4
        BY <2>4, <4>2, NarrowPlansAscend DEF Step
      <4>4. l.row = l.row /\ l.mode \in SL!Excludes[l.mode]
        BY DEF SL!Lock, SL!Excludes
      <4> HIDE DEF l
      <4>5. q \in SL!WaitsFor(p)
        BY <2>1, <2>4, <4>1, <4>3, <4>4 DEF SL!WaitsFor
      <4> QED
        BY <2>1, <4>5
    <3> QED
      BY <3>1, <3>2
  <2>5. \A q \in Requests : Assigning(q)' => Fit(q)'
    BY <2>1, <2>3, <2>4 DEF LockInv, Fit
  <2>6. \A q, r \in Requests : q # r /\ Assigning(q)' /\ Assigning(r)' => job'[q].target # job'[r].target
    BY <2>1, <2>3, <2>4 DEF LockInv
  <2> QED
    BY <2>2, <2>5, <2>6 DEF LockInv
<1>6. ASSUME NEW u \in Authorities, NEW b \in BOOLEAN, NEW c \in SUBSET Categories,
             SL!UpdateByAdmin(u, b, c)
      PROVE  LockInv'
  <2>1. /\ active' = [active EXCEPT ![u] = b] /\ scope' = [scope EXCEPT ![u] = c]
        /\ UNCHANGED <<job, phase, taken, assignee>>
        /\ \A p \in Requests : \A l \in SL!Held(p) : l.row # <<"person", u>>
    BY <1>6 DEF SL!UpdateByAdmin, SL!Unlocked
  <2>2. RequestsTyped'
    BY <2>1 DEF LockInv, RequestsTyped
  <2>3. ASSUME NEW p \in Requests, Assigning(p) PROVE Fit(p)'
    <3>1. SL!Lock("person", job[p].target, "update") \in SL!Held(p) /\ job[p].target \in Authorities
      BY <2>3, AssignmentHolds DEF LockInv
    <3>2. job[p].target # u
      BY <2>1, <3>1 DEF SL!Lock
    <3> QED
      BY <2>1, <2>3, <3>1, <3>2 DEF LockInv, RequestsTyped, Fit, SL!Staff
  <2> QED
    BY <2>1, <2>2, <2>3 DEF LockInv, Assigning
<1>7. CASE UNCHANGED SL!vars
  BY <1>7 DEF SL!vars, SL!accounts, LockInv, RequestsTyped, Assigning, Fit
<1> QED
  BY <1>2, <1>3, <1>4, <1>5, <1>6, <1>7 DEF SL!Next

(* assign_issue, for any number of requests: between the check of the        *)
(* assignee and the commit no Admin suspends it or takes its category away.   *)
THEOREM AssignmentsCorrect == SL!Spec => AssignedWhileQualified
<1>1. LockInv /\ [SL!Next]_(SL!vars) =>
        [\A i \in Issues : assignee'[i] \notin {assignee[i], None} =>
            active[assignee'[i]] /\ CategoryOf[i] \in scope[assignee'[i]]]_(SL!vars)
  <2> SUFFICES ASSUME LockInv, SL!Next, NEW i \in Issues, assignee'[i] \notin {assignee[i], None}
               PROVE  active[assignee'[i]] /\ CategoryOf[i] \in scope[assignee'[i]]
    OBVIOUS
  <2>1. PICK p \in Requests : SL!Commit(p)
    BY DEF SL!Next, SL!Begin, SL!Acquire, SL!Refuse, SL!Abort, SL!UpdateByAdmin
  <2>2. job[p].issue = i /\ assignee'[i] = job[p].target /\ job[p].kind \in {"assign", "unassign"}
    BY <2>1 DEF SL!Commit, LockInv, RequestsTyped
  <2>3. job[p].kind = "assign"
    BY <2>2, StaffAssumption DEF SL!LocksAssumption, LockInv, RequestsTyped
  <2>4. Len(SL!Plan(job[p])) = 4
    BY <2>3, NarrowPlansAscend
       DEF LockInv, RequestsTyped, Narrow, SL!Kinds, SL!Stewardship, SL!Wide
  <2>5. Assigning(p)
    BY <2>1, <2>3, <2>4 DEF SL!Commit, Assigning
  <2> QED
    BY <2>2, <2>5 DEF LockInv, Fit
<1> QED
  BY <1>1, LocksInitially, LocksStepwise, PTL
     DEF SL!Spec, AssignedWhileQualified, SL!AssignedWhileQualified

-----------------------------------------------------------------------------
(* Among narrow requests, one that waits for another is at a lower level.     *)

-----------------------------------------------------------------------------
(* Of narrow requests in a cycle, each waits for one that is further up: its  *)
(* own next lock is at a higher level.                                        *)

WaitsAt(p) == LevelAt(job[p], taken[p] + 1)

LEMMA NarrowRuns ==
    ASSUME LockInv, NEW p \in SL!Blocked, job[p].kind \in Narrow
    PROVE  /\ p \in Requests /\ job[p] \in Jobs /\ phase[p] = "running" /\ taken[p] \in Nat
           /\ taken[p] + 1 \in 1 .. Len(SL!Plan(job[p])) /\ WaitsAt(p) \in 0 .. 3
<1>1. /\ p \in Requests /\ job[p] \in Jobs /\ phase[p] = "running" /\ taken[p] \in Nat
      /\ taken[p] # Len(SL!Plan(job[p])) /\ taken[p] <= Len(SL!Plan(job[p]))
  BY DEF SL!Blocked, SL!WaitsFor, LockInv, RequestsTyped
<1>2. Len(SL!Plan(job[p])) \in 2 .. 4
  BY <1>1, NarrowPlansAscend
<1>3. taken[p] + 1 \in 1 .. Len(SL!Plan(job[p]))
  BY <1>1, <1>2
<1> QED
  BY <1>1, <1>3, NarrowPlansAscend DEF WaitsAt

LEMMA WaitsUpwards ==
    ASSUME LockInv, NEW waiting \in SUBSET SL!Blocked, SL!InCycle(waiting),
           \A p \in waiting : job[p].kind \in Narrow,
           NEW p \in waiting
    PROVE  \E q \in waiting : WaitsAt(p) < WaitsAt(q)
<1>1. \A x \in waiting :
          /\ x \in Requests /\ job[x] \in Jobs /\ job[x].kind \in Narrow /\ phase[x] = "running"
          /\ taken[x] \in Nat /\ taken[x] + 1 \in 1 .. Len(SL!Plan(job[x]))
          /\ WaitsAt(x) \in 0 .. 3
  BY NarrowRuns
<1>2. ASSUME NEW x \in waiting
      PROVE  \E y \in waiting, k \in Nat :
                /\ y # x /\ k \in 1 .. taken[y]
                /\ Step(job[y], k).row = Step(job[x], taken[x] + 1).row
                /\ Step(job[x], taken[x] + 1).mode \in SL!Excludes[Step(job[y], k).mode]
  <2>1. PICK y \in waiting : y \in SL!WaitsFor(x)
    BY DEF SL!InCycle
  <2>2. PICK l \in SL!Held(y) : /\ y # x
                               /\ l.row = Step(job[x], taken[x] + 1).row
                               /\ Step(job[x], taken[x] + 1).mode \in SL!Excludes[l.mode]
    BY <2>1 DEF SL!WaitsFor, Step
  <2>3. PICK k \in 1 .. taken[y] : l = Step(job[y], k)
    BY <2>2 DEF SL!Held, Step
  <2> QED
    BY <1>1, <2>2, <2>3
<1>3. PICK q \in waiting, k \in Nat :
         /\ k \in 1 .. taken[q]
         /\ Step(job[q], k).row = Step(job[p], taken[p] + 1).row
  BY <1>2
<1>4. /\ k \in 1 .. Len(SL!Plan(job[q])) /\ k < taken[q] + 1
      /\ LevelAt(job[q], k) = WaitsAt(p)
  BY <1>1, <1>3 DEF WaitsAt, LevelAt
<1>5. CASE WaitsAt(p) < WaitsAt(q)
  BY <1>5
<1>6. CASE ~(WaitsAt(p) < WaitsAt(q))
  <2>1. job[q].kind = "assign" /\ k = 3 /\ taken[q] + 1 = 4
    BY <1>1, <1>4, <1>6, NarrowPlansAscend DEF WaitsAt
  <2>2. Step(job[q], taken[q] + 1) = SL!Lock("person", job[q].actor, "key")
    BY <1>1, <2>1, NarrowPlansAscend
  <2>3. PICK r \in waiting, m \in Nat :
           /\ r # q /\ m \in 1 .. taken[r]
           /\ Step(job[r], m).row = <<"person", job[q].actor>>
           /\ "key" \in SL!Excludes[Step(job[r], m).mode]
    BY <1>2, <2>2 DEF SL!Lock
  <2>4. m \in 1 .. Len(SL!Plan(job[r]))
    BY <1>1, <2>3
  <2>5. Step(job[r], m).mode # "key" /\ Step(job[r], m).row[1] = "person"
    BY <2>3 DEF SL!Excludes
  <2>6. job[r].kind = "assign" /\ m = 3
    BY <1>1, <2>4, <2>5, NarrowPlansAscend
  <2>7. job[q].actor = job[r].target
    BY <1>1, <2>3, <2>6, NarrowPlansAscend DEF SL!Lock
  <2>8. Assigning(q) /\ Assigning(r)
    BY <1>1, <2>1, <2>3, <2>6 DEF Assigning
  <2>9. job[q].actor \in Admins \cup {job[q].target} /\ job[r].target \notin Admins
        /\ job[q].target # job[r].target
    BY <1>1, <2>3, <2>6, <2>8, StaffAssumption DEF LockInv, Fit, SL!LocksAssumption
  <2> QED
    BY <2>7, <2>9
<1> QED
  BY <1>5, <1>6

(* Requests that are not wide, for any number of them and any rows they       *)
(* overlap on: none of them is in a deadlock that has no wide request in it.  *)
THEOREM DeadlocksCorrect == SL!Spec => []NarrowRequestsNeverDeadlock
<1>1. LockInv => NarrowRequestsNeverDeadlock
  <2> SUFFICES ASSUME LockInv, NEW waiting \in SUBSET SL!Blocked, SL!InCycle(waiting),
                      \A p \in waiting : job[p].kind \notin SL!Wide
               PROVE  FALSE
    BY DEF NarrowRequestsNeverDeadlock, SL!NarrowRequestsNeverDeadlock
  <2>1. \A p \in waiting : job[p].kind \in Narrow
    BY StaffAssumption
       DEF LockInv, RequestsTyped, SL!LocksAssumption, SL!Blocked, Narrow
  <2>2. \A p \in waiting : WaitsAt(p) \in 0 .. 3 /\ \E q \in waiting : WaitsAt(p) < WaitsAt(q)
    BY <2>1, WaitsUpwards, NarrowRuns
  <2>3. PICK p0 \in waiting : TRUE
    BY DEF SL!InCycle
  <2>4. PICK p1 \in waiting : WaitsAt(p0) < WaitsAt(p1)
    BY <2>2
  <2>5. PICK p2 \in waiting : WaitsAt(p1) < WaitsAt(p2)
    BY <2>2
  <2>6. PICK p3 \in waiting : WaitsAt(p2) < WaitsAt(p3)
    BY <2>2
  <2>7. PICK p4 \in waiting : WaitsAt(p3) < WaitsAt(p4)
    BY <2>2
  <2> QED
    BY <2>2, <2>3, <2>4, <2>5, <2>6, <2>7
<1> QED
  BY <1>1, LocksInitially, LocksStepwise, PTL DEF SL!Spec

-----------------------------------------------------------------------------
(* The keyword engine: among the rules that match there is a first, and if no *)
(* two of them have one phrase it does not depend on the order they came in.  *)

LEMMA Least ==
    ASSUME NEW S, S # {}, NEW f \in [S -> Nat]
    PROVE  \E a \in S : \A b \in S : f[a] <= f[b]
<1> DEFINE T == {f[a] : a \in S}
<1>1. T \subseteq Nat /\ T # {}
  OBVIOUS
<1>2. PICK m \in T : \A n \in T : ~(<<n, m>> \in OpToRel(<, Nat))
  <2> HIDE DEF T
  <2> QED
    BY <1>1, WFMin, NatLessThanWellFounded
<1>3. \A n \in T : ~(n < m)
  BY <1>1, <1>2 DEF OpToRel
<1>4. PICK a \in S : m = f[a]
  BY <1>2
<1>5. ASSUME NEW b \in S PROVE f[a] <= f[b]
  <2>1. f[b] \in T /\ f[a] \in Nat /\ f[b] \in Nat
    OBVIOUS
  <2> HIDE DEF T
  <2>2. ~(f[b] < f[a])
    BY <1>3, <1>4, <2>1
  <2> QED
    BY <2>1, <2>2
<1> QED
  BY <1>5

LEMMA TaxonomyConstants ==
    /\ Sink \in Slugs /\ None \notin Slugs /\ Terms \subseteq Nat
    /\ MaxLength \in Nat /\ \A t \in Terms : Length[t] \in 0 .. MaxLength
    /\ Found \in [Texts -> SUBSET Terms] /\ TextOf \in [Classified -> Texts]
  BY StaffAssumption DEF TX!TaxonomyAssumption

LEMMA RuleTyped ==
    ASSUME NEW a \in TX!Rule
    PROVE  /\ a.severity \in 1 .. 4 /\ a.term \in Nat /\ a.term \in Terms
           /\ Length[a.term] \in Nat /\ MaxLength - Length[a.term] \in Nat
           /\ a.category \in Slugs \cup {None}
<1>1. a.severity \in 1 .. 4 /\ a.term \in Terms /\ a.category \in Slugs \cup {None}
  BY DEF TX!Rule, TX!Severities
<1>2. MaxLength \in Nat /\ Length[a.term] \in 0 .. MaxLength /\ Terms \subseteq Nat
  BY <1>1, TaxonomyConstants
<1> DEFINE l == Length[a.term]
<1>4. l \in 0 .. MaxLength /\ MaxLength \in Nat
  BY <1>2
<1>5. l \in Nat /\ MaxLength - l \in Nat
  <2> HIDE DEF l
  <2> QED
    BY <1>4
<1>6. a.term \in Nat
  BY <1>1, <1>2
<1> QED
  BY <1>1, <1>5, <1>6

(* A rule that comes before all others, by the order or by its place. *)
Leads(a, S, place) ==
    \A b \in S \ {a} :
        TX!RanksBefore(a, b) \/ (~TX!RanksBefore(b, a) /\ place[a] < place[b])

LEMMA FirstLeads ==
    ASSUME NEW S \in SUBSET TX!Rule, S # {}, NEW place,
           \A a \in S : place[a] \in Nat,
           \A a, b \in S : place[a] = place[b] => a = b
    PROVE  TX!First(S, place) \in S /\ Leads(TX!First(S, place), S, place)
<1>1. PICK a1 \in S : \A b \in S : a1.severity <= b.severity
  <2> DEFINE f == [x \in S |-> x.severity]
  <2>1. f \in [S -> Nat]
    BY RuleTyped
  <2>2. \E a \in S : \A b \in S : f[a] <= f[b]
    <3> HIDE DEF f
    <3> QED
      BY <2>1, Least
  <2> QED
    BY <2>2
<1> DEFINE S1 == {x \in S : x.severity = a1.severity}
<1>2. PICK a2 \in S1 : \A b \in S1 : Length[a2.term] >= Length[b.term]
  <2> DEFINE f == [x \in S1 |-> MaxLength - Length[x.term]]
  <2>1. f \in [S1 -> Nat] /\ S1 # {}
    BY RuleTyped
  <2>2. \E a \in S1 : \A b \in S1 : f[a] <= f[b]
    <3> HIDE DEF f, S1
    <3> QED
      BY <2>1, Least
  <2>3. \A a, b \in S1 : f[a] <= f[b] => Length[a.term] >= Length[b.term]
    <3> SUFFICES ASSUME NEW a \in S1, NEW b \in S1, f[a] <= f[b]
                 PROVE  Length[a.term] >= Length[b.term]
      OBVIOUS
    <3>1. Length[a.term] \in Nat /\ Length[b.term] \in Nat /\ MaxLength \in Nat
      BY RuleTyped, TaxonomyConstants
    <3>2. MaxLength - Length[a.term] <= MaxLength - Length[b.term]
      OBVIOUS
    <3> QED
      BY <3>1, <3>2
  <2> HIDE DEF f
  <2> QED
    BY <2>2, <2>3
<1> DEFINE S2 == {x \in S1 : Length[x.term] = Length[a2.term]}
<1>3. PICK a3 \in S2 : \A b \in S2 : a3.term <= b.term
  <2> DEFINE f == [x \in S2 |-> x.term]
  <2>1. f \in [S2 -> Nat] /\ S2 # {}
    BY RuleTyped
  <2>2. \E a \in S2 : \A b \in S2 : f[a] <= f[b]
    <3> HIDE DEF f, S2
    <3> QED
      BY <2>1, Least
  <2> QED
    BY <2>2
<1> DEFINE S3 == {x \in S2 : x.term = a3.term}
<1>4. PICK a \in S3 : \A b \in S3 : place[a] <= place[b]
  <2> DEFINE f == [x \in S3 |-> place[x]]
  <2>1. f \in [S3 -> Nat] /\ S3 # {}
    OBVIOUS
  <2>2. \E x \in S3 : \A b \in S3 : f[x] <= f[b]
    <3> HIDE DEF f, S3
    <3> QED
      BY <2>1, Least
  <2> QED
    BY <2>2
<1>5. ASSUME NEW b \in S \ {a}
      PROVE  TX!RanksBefore(a, b) \/ (~TX!RanksBefore(b, a) /\ place[a] < place[b])
  <2>1. /\ a \in S /\ a.severity = a1.severity /\ Length[a.term] = Length[a2.term]
        /\ a.term = a3.term /\ a.severity <= b.severity
    BY <1>1
  <2>2. /\ a.severity \in Nat /\ b.severity \in Nat /\ a.term \in Nat /\ b.term \in Nat
        /\ Length[a.term] \in Nat /\ Length[b.term] \in Nat
        /\ place[a] \in Nat /\ place[b] \in Nat
    BY <2>1, RuleTyped
  <2>3. CASE a.severity # b.severity
    BY <2>1, <2>2, <2>3 DEF TX!RanksBefore
  <2>4. CASE a.severity = b.severity /\ Length[a.term] # Length[b.term]
    <3>1. Length[a.term] >= Length[b.term]
      BY <1>2, <2>1, <2>4
    <3> QED
      BY <2>2, <2>4, <3>1 DEF TX!RanksBefore
  <2>5. CASE a.severity = b.severity /\ Length[a.term] = Length[b.term] /\ a.term # b.term
    <3>1. a.term <= b.term
      BY <1>3, <2>1, <2>5
    <3> QED
      BY <2>2, <2>5, <3>1 DEF TX!RanksBefore
  <2>6. CASE a.severity = b.severity /\ Length[a.term] = Length[b.term] /\ a.term = b.term
    <3>1. place[a] <= place[b] /\ place[a] # place[b]
      BY <1>4, <2>1, <2>6
    <3> QED
      BY <2>2, <2>6, <3>1 DEF TX!RanksBefore
  <2> QED
    BY <2>3, <2>4, <2>5, <2>6
<1>6. \E x \in S : \A b \in S \ {x} :
         TX!RanksBefore(x, b) \/ (~TX!RanksBefore(b, x) /\ place[x] < place[b])
  BY <1>5
<1> HIDE DEF S1, S2, S3
<1> QED
  BY <1>6 DEF TX!First, Leads

OneRulePerTerm(S) == \A a, b \in S : a.term = b.term => a = b

LEMMA RanksDecide ==
    ASSUME NEW a \in TX!Rule, NEW b \in TX!Rule, a.term # b.term
    PROVE  /\ TX!RanksBefore(a, b) \/ TX!RanksBefore(b, a)
           /\ ~(TX!RanksBefore(a, b) /\ TX!RanksBefore(b, a))
<1>1. /\ a.severity \in Nat /\ b.severity \in Nat /\ a.term \in Nat /\ b.term \in Nat
      /\ Length[a.term] \in Nat /\ Length[b.term] \in Nat
  BY RuleTyped
<1> QED
  BY <1>1 DEF TX!RanksBefore

LEMMA OneFirst ==
    ASSUME NEW S \in SUBSET TX!Rule, OneRulePerTerm(S), NEW p, NEW q,
           NEW a \in S, NEW b \in S, Leads(a, S, p), Leads(b, S, q)
    PROVE  a = b
<1> SUFFICES ASSUME a # b PROVE FALSE
  OBVIOUS
<1>1. a.term # b.term
  BY DEF OneRulePerTerm
<1>2. TX!RanksBefore(a, b) /\ TX!RanksBefore(b, a)
  BY <1>1, RanksDecide DEF Leads
<1> QED
  BY <1>1, <1>2, RanksDecide

(* What the fallback answers, whatever the order of the rules. *)
Matched(S, text) == {rule \in S : rule.term \in Found[text]}

LEMMA AnswerTyped ==
    ASSUME NEW S \in SUBSET TX!Rule, NEW place \in TX!Arrivals(S), NEW text \in Texts,
           NEW allowed \in SUBSET Slugs
    PROVE  /\ TX!KeywordAnswer(S, place, text, allowed) \in TX!Answer
           /\ Sink \in allowed => TX!KeywordAnswer(S, place, text, allowed).category \in allowed
<1> DEFINE matched == Matched(S, text)
           usable == {rule \in matched : TX!Usable(rule, allowed)}
<1>1. matched \subseteq S /\ usable \subseteq S
  BY DEF Matched
<1>2. /\ \A a \in S : place[a] \in Nat
      /\ \A a, b \in S : place[a] = place[b] => a = b
  BY DEF TX!Arrivals
<1>3. usable # {} => TX!First(usable, place) \in usable
  BY <1>1, <1>2, FirstLeads
<1>4. \A rule \in usable : rule.category \in allowed
  BY DEF TX!Usable
<1>5. matched # {} => TX!Highest(matched) \in 1 .. 4
  <2> SUFFICES ASSUME matched # {} PROVE TX!Highest(matched) \in 1 .. 4
    OBVIOUS
  <2> DEFINE f == [x \in matched |-> x.severity]
  <2>1. f \in [matched -> Nat] /\ \A x \in matched : x.severity \in 1 .. 4
    BY <1>1, RuleTyped
  <2>2. \E a \in matched : \A b \in matched : f[a] <= f[b]
    <3> HIDE DEF f, matched
    <3> QED
      BY <2>1, Least
  <2> DEFINE T == {x.severity : x \in matched}
  <2>3. \E m \in T : \A n \in T : m <= n
    BY <2>2
  <2>4. TX!Highest(matched) \in T
    <3>1. TX!Highest(matched) = CHOOSE m \in T : \A n \in T : m <= n
      BY DEF TX!Highest, TX!Min
    <3> HIDE DEF T
    <3> QED
      BY <2>3, <3>1
  <2> QED
    BY <2>1, <2>4
<1>6. TX!Chosen(matched, place, allowed) \in Slugs
      /\ (Sink \in allowed => TX!Chosen(matched, place, allowed) \in allowed)
  <2>1. TX!Chosen(matched, place, allowed) =
            IF usable = {} THEN Sink ELSE TX!First(usable, place).category
    BY DEF TX!Chosen
  <2> HIDE DEF usable, matched
  <2> QED
    BY <1>3, <1>4, <2>1, TaxonomyConstants
<1>7. TX!KeywordAnswer(S, place, text, allowed) =
          IF matched = {} THEN [category |-> Sink, severity |-> TX!Medium]
          ELSE [category |-> TX!Chosen(matched, place, allowed), severity |-> TX!Highest(matched)]
  BY DEF TX!KeywordAnswer, Matched
<1> HIDE DEF matched, usable
<1> QED
  BY <1>5, <1>6, <1>7, TaxonomyConstants DEF TX!Answer, TX!Severities, TX!Medium

LEMMA AnswersAgree ==
    ASSUME NEW S \in SUBSET TX!Rule, OneRulePerTerm(S),
           NEW p \in TX!Arrivals(S), NEW q \in TX!Arrivals(S), NEW text, NEW allowed
    PROVE  TX!KeywordAnswer(S, p, text, allowed) = TX!KeywordAnswer(S, q, text, allowed)
<1> DEFINE matched == {rule \in S : rule.term \in Found[text]}
           usable == {rule \in matched : TX!Usable(rule, allowed)}
<1>1. usable \subseteq S /\ OneRulePerTerm(usable)
  BY DEF OneRulePerTerm
<1>2. /\ \A a \in S : p[a] \in Nat /\ q[a] \in Nat
      /\ \A a, b \in S : (p[a] = p[b] => a = b) /\ (q[a] = q[b] => a = b)
  BY DEF TX!Arrivals
<1>3. usable # {} => TX!First(usable, p) = TX!First(usable, q)
  <2> HIDE DEF usable
  <2> SUFFICES ASSUME usable # {} PROVE TX!First(usable, p) = TX!First(usable, q)
    OBVIOUS
  <2>1. TX!First(usable, p) \in usable /\ Leads(TX!First(usable, p), usable, p)
    BY <1>1, <1>2, FirstLeads
  <2>2. TX!First(usable, q) \in usable /\ Leads(TX!First(usable, q), usable, q)
    BY <1>1, <1>2, FirstLeads
  <2> QED
    BY <1>1, <2>1, <2>2, OneFirst
<1>4. TX!Chosen(matched, p, allowed) = TX!Chosen(matched, q, allowed)
  BY <1>3 DEF TX!Chosen
<1> QED
  BY <1>4 DEF TX!KeywordAnswer

-----------------------------------------------------------------------------
(* Classifications: what each was offered, and what it answered from.         *)

TaxonomyTyped ==
    /\ category \in [Slugs -> {"absent", "active", "retired"}]
    /\ keyword \in [Keywords -> TX!Rule \cup {None}]
    /\ stage \in [Classified -> {"queued", "asked", "answered", "classified", "raised"}]
    /\ offered \in [Classified -> SUBSET Slugs]
    /\ answer \in [Classified -> TX!Answer \cup {None}]
    /\ cache \subseteq [text : Texts, categories : SUBSET Slugs, answer : TX!Answer]
    /\ basis \in [Classified -> (SUBSET TX!Rule) \cup {None}]

(* SeverityKeyword.term is unique. *)
TermsUnique ==
    \A k, l \in TX!Stored : keyword[k].term = keyword[l].term => k = l

Offered(r) ==
    /\ stage[r] = "asked" => Sink \in offered[r]
    /\ stage[r] \in {"answered", "classified"} => answer[r].category \in offered[r]

(* An answer of the keyword engine follows from the rules it has read. *)
Derived(r) ==
    basis[r] # None =>
        /\ stage[r] \in {"answered", "classified"}
        /\ OneRulePerTerm(basis[r])
        /\ \E place \in TX!Arrivals(basis[r]) :
              answer[r] = TX!KeywordAnswer(basis[r], place, TextOf[r], offered[r])

TaxonomyInv ==
    /\ TaxonomyTyped /\ TermsUnique
    /\ \A r \in Classified : Offered(r) /\ Derived(r)

LEMMA TaxonomyInitially == TX!Init => TaxonomyInv
  BY DEF TX!Init, TaxonomyInv, TaxonomyTyped, TermsUnique, TX!Stored, Offered, Derived

(* The rules in force are rules, and one has no two with one phrase. *)
LEMMA RulesInForce ==
    ASSUME TaxonomyInv
    PROVE  TX!ActiveRules \in SUBSET TX!Rule /\ OneRulePerTerm(TX!ActiveRules)
<1>1. ASSUME NEW a \in TX!ActiveRules PROVE \E k \in TX!Stored : a = keyword[k]
  BY DEF TX!ActiveRules
<1>2. \A k \in TX!Stored : keyword[k] \in TX!Rule
  BY DEF TaxonomyInv, TaxonomyTyped, TX!Stored
<1>3. OneRulePerTerm(TX!ActiveRules)
  BY <1>1 DEF OneRulePerTerm, TaxonomyInv, TermsUnique
<1> QED
  BY <1>1, <1>2, <1>3

(* One classification moves on; the others and the rules stay. *)
LEMMA OneMoves ==
    ASSUME TaxonomyInv, NEW r \in Classified,
           TaxonomyTyped', UNCHANGED <<category, keyword>>,
           \A q \in Classified \ {r} :
               /\ stage'[q] = stage[q] /\ offered'[q] = offered[q]
               /\ answer'[q] = answer[q] /\ basis'[q] = basis[q],
           Offered(r)', Derived(r)'
    PROVE  TaxonomyInv'
<1>1. TermsUnique'
  BY DEF TaxonomyInv, TermsUnique, TX!Stored
<1>2. ASSUME NEW q \in Classified PROVE Offered(q)' /\ Derived(q)'
  <2>1. CASE q = r
    BY <2>1
  <2>2. CASE q # r
    <3>1. /\ stage'[q] = stage[q] /\ offered'[q] = offered[q]
          /\ answer'[q] = answer[q] /\ basis'[q] = basis[q]
      BY <2>2
    <3>2. Offered(q) /\ Derived(q)
      BY DEF TaxonomyInv
    <3>3. Offered(q)'
      BY <3>1, <3>2 DEF Offered
    <3>4. Derived(q)'
      BY <3>1, <3>2 DEF Derived, OneRulePerTerm
    <3> QED
      BY <3>3, <3>4
  <2> QED
    BY <2>1, <2>2
<1> QED
  BY <1>1, <1>2 DEF TaxonomyInv

LEMMA ClassificationKeeps ==
    ASSUME TaxonomyInv, NEW r \in Classified,
           \/ TX!BeginClassification(r) \/ TX!SinkMissing(r)
           \/ \E named \in Slugs \cup {None}, severity \in {2, 3} :
                 TX!ProviderAnswers(r, named, severity)
           \/ TX!CacheAnswers(r) \/ TX!FallsBack(r) \/ TX!StoreAnswer(r)
    PROVE  TaxonomyInv'
<1>1. CASE TX!BeginClassification(r)
  <2>1. /\ stage[r] = "queued" /\ Sink \in TX!ActiveCategories
        /\ offered' = [offered EXCEPT ![r] = TX!ActiveCategories]
        /\ stage' = [stage EXCEPT ![r] = "asked"]
        /\ UNCHANGED <<category, keyword, answer, cache, basis>>
    BY <1>1 DEF TX!BeginClassification, TX!reference
  <2>2. TaxonomyTyped'
    BY <2>1 DEF TaxonomyInv, TaxonomyTyped, TX!ActiveCategories
  <2>3. Offered(r)' /\ Derived(r)'
    BY <2>1 DEF TaxonomyInv, TaxonomyTyped, Offered, Derived
  <2> QED
    BY <2>1, <2>2, <2>3, OneMoves DEF TaxonomyInv, TaxonomyTyped
<1>2. CASE TX!SinkMissing(r)
  <2>1. /\ stage[r] = "queued" /\ stage' = [stage EXCEPT ![r] = "raised"]
        /\ UNCHANGED <<category, keyword, offered, answer, cache, basis>>
    BY <1>2 DEF TX!SinkMissing, TX!reference
  <2>2. TaxonomyTyped'
    BY <2>1 DEF TaxonomyInv, TaxonomyTyped
  <2>3. Offered(r)' /\ Derived(r)'
    BY <2>1 DEF TaxonomyInv, TaxonomyTyped, Offered, Derived
  <2> QED
    BY <2>1, <2>2, <2>3, OneMoves DEF TaxonomyInv, TaxonomyTyped
<1>3. ASSUME NEW given \in TX!Answer, TX!Answered(r, given), given.category \in offered[r],
             UNCHANGED basis,
             cache' \subseteq [text : Texts, categories : SUBSET Slugs, answer : TX!Answer]
      PROVE  TaxonomyInv'
  <2>1. /\ stage[r] = "asked" /\ answer' = [answer EXCEPT ![r] = given]
        /\ stage' = [stage EXCEPT ![r] = "answered"]
        /\ UNCHANGED <<category, keyword, offered>>
    BY <1>3 DEF TX!Answered, TX!reference
  <2>2. TaxonomyTyped'
    BY <1>3, <2>1 DEF TaxonomyInv, TaxonomyTyped
  <2>3. Offered(r)' /\ Derived(r)'
    BY <1>3, <2>1 DEF TaxonomyInv, TaxonomyTyped, Offered, Derived
  <2> QED
    BY <1>3, <2>1, <2>2, <2>3, OneMoves DEF TaxonomyInv, TaxonomyTyped
<1>4. ASSUME NEW named \in Slugs \cup {None}, NEW severity \in {2, 3},
             TX!ProviderAnswers(r, named, severity)
      PROVE  TaxonomyInv'
  <2> DEFINE given == [category |-> TX!Coerced(named, offered[r]), severity |-> severity]
  <2>1. /\ TX!Answered(r, given) /\ UNCHANGED basis
        /\ cache' = cache \cup {[text |-> TextOf[r], categories |-> offered[r], answer |-> given]}
    BY <1>4 DEF TX!ProviderAnswers
  <2>2. Sink \in offered[r] /\ offered[r] \subseteq Slugs /\ TextOf[r] \in Texts
    BY <2>1, TaxonomyConstants DEF TX!Answered, TaxonomyInv, TaxonomyTyped, Offered
  <2>3. given \in TX!Answer /\ given.category \in offered[r]
    BY <2>2 DEF TX!Answer, TX!Severities, TX!Coerced
  <2> HIDE DEF given
  <2> QED
    BY <1>3, <2>1, <2>2, <2>3 DEF TaxonomyInv, TaxonomyTyped
<1>5. CASE TX!CacheAnswers(r)
  <2>1. PICK e \in cache :
           /\ TX!Answered(r, [e.answer EXCEPT !.category = TX!Coerced(@, offered[r])])
           /\ UNCHANGED <<cache, basis>>
    BY <1>5 DEF TX!CacheAnswers, TX!CachedFor
  <2> DEFINE given == [e.answer EXCEPT !.category = TX!Coerced(@, offered[r])]
  <2>2. Sink \in offered[r] /\ offered[r] \subseteq Slugs /\ e.answer \in TX!Answer
    BY <2>1 DEF TX!Answered, TaxonomyInv, TaxonomyTyped, Offered
  <2>3. given \in TX!Answer /\ given.category \in offered[r]
    BY <2>2 DEF TX!Answer, TX!Severities, TX!Coerced
  <2>4. cache' \subseteq [text : Texts, categories : SUBSET Slugs, answer : TX!Answer]
    BY <2>1 DEF TaxonomyInv, TaxonomyTyped
  <2> HIDE DEF given
  <2> QED
    BY <1>3, <2>1, <2>3, <2>4 DEF given
<1>6. CASE TX!FallsBack(r)
  <2>1. PICK place \in TX!Arrivals(TX!ActiveRules) :
           TX!Answered(r, TX!KeywordAnswer(TX!ActiveRules, place, TextOf[r], offered[r]))
    BY <1>6 DEF TX!FallsBack
  <2> DEFINE given == TX!KeywordAnswer(TX!ActiveRules, place, TextOf[r], offered[r])
  <2>2. basis' = [basis EXCEPT ![r] = TX!ActiveRules] /\ UNCHANGED cache
    BY <1>6 DEF TX!FallsBack
  <2>3. /\ stage[r] = "asked" /\ answer' = [answer EXCEPT ![r] = given]
        /\ stage' = [stage EXCEPT ![r] = "answered"]
        /\ UNCHANGED <<category, keyword, offered>>
    BY <2>1 DEF TX!Answered, TX!reference
  <2>4. Sink \in offered[r] /\ offered[r] \in SUBSET Slugs /\ TextOf[r] \in Texts
    BY <2>3, TaxonomyConstants DEF TaxonomyInv, TaxonomyTyped, Offered
  <2>5. given \in TX!Answer /\ given.category \in offered[r]
    BY <2>4, RulesInForce, AnswerTyped
  <2>6. TaxonomyTyped'
    <3> HIDE DEF given
    <3> QED
      BY <2>2, <2>3, <2>5, RulesInForce DEF TaxonomyInv, TaxonomyTyped
  <2>7. answer'[r] = given /\ basis'[r] = TX!ActiveRules /\ stage'[r] = "answered"
        /\ offered'[r] = offered[r]
    BY <2>2, <2>3 DEF TaxonomyInv, TaxonomyTyped
  <2>8. Offered(r)'
    <3> HIDE DEF given
    <3> QED
      BY <2>5, <2>7 DEF Offered
  <2>9. Derived(r)'
    <3>1. \E x \in TX!Arrivals(TX!ActiveRules) :
             given = TX!KeywordAnswer(TX!ActiveRules, x, TextOf[r], offered[r])
      OBVIOUS
    <3> DEFINE rules == TX!ActiveRules
    <3>2. \E x \in TX!Arrivals(basis'[r]) :
             answer'[r] = TX!KeywordAnswer(basis'[r], x, TextOf[r], offered'[r])
      BY <2>7, <3>1
    <3>3. OneRulePerTerm(basis'[r])
      BY <2>7, RulesInForce
    <3> QED
      BY <2>7, <3>2, <3>3 DEF Derived
  <2> QED
    BY <2>2, <2>3, <2>6, <2>8, <2>9, OneMoves DEF TaxonomyInv, TaxonomyTyped
<1>7. CASE TX!StoreAnswer(r)
  <2>1. /\ stage[r] = "answered" /\ stage' = [stage EXCEPT ![r] = "classified"]
        /\ UNCHANGED <<category, keyword, offered, answer, cache, basis>>
    BY <1>7 DEF TX!StoreAnswer, TX!reference
  <2>2. TaxonomyTyped'
    BY <2>1 DEF TaxonomyInv, TaxonomyTyped
  <2>3. stage'[r] = "classified" /\ offered'[r] = offered[r] /\ answer'[r] = answer[r]
        /\ basis'[r] = basis[r]
    BY <2>1 DEF TaxonomyInv, TaxonomyTyped
  <2>4. Offered(r)' /\ Derived(r)'
    BY <2>1, <2>3 DEF TaxonomyInv, Offered, Derived
  <2> QED
    BY <2>1, <2>2, <2>4, OneMoves DEF TaxonomyInv, TaxonomyTyped
<1> QED
  BY <1>1, <1>2, <1>4, <1>5, <1>6, <1>7

LEMMA EditKeeps ==
    ASSUME TaxonomyInv, TaxonomyTyped', TermsUnique',
           UNCHANGED <<stage, offered, answer, cache, basis>>
    PROVE  TaxonomyInv'
<1>1. ASSUME NEW q \in Classified PROVE Offered(q)' /\ Derived(q)'
  BY DEF TaxonomyInv, Offered, Derived
<1> QED
  BY <1>1 DEF TaxonomyInv

LEMMA TaxonomyStepwise == TaxonomyInv /\ [TX!Next]_(TX!vars) => TaxonomyInv'
<1> SUFFICES ASSUME TaxonomyInv, [TX!Next]_(TX!vars) PROVE TaxonomyInv'
  OBVIOUS
<1>1. ASSUME UNCHANGED <<keyword, stage, offered, answer, cache, basis>>,
             category' \in [Slugs -> {"absent", "active", "retired"}]
      PROVE  TaxonomyInv'
  <2>1. TaxonomyTyped' /\ TermsUnique'
    BY <1>1 DEF TaxonomyInv, TaxonomyTyped, TermsUnique, TX!Stored
  <2> QED
    BY <1>1, <2>1, EditKeeps
<1>2. CASE UNCHANGED TX!vars
  BY <1>1, <1>2 DEF TX!vars, TX!reference, TaxonomyInv, TaxonomyTyped
<1>3. ASSUME NEW k \in Slugs,
             \/ TX!CreateCategory(k)
             \/ \E status \in {"active", "retired"} : TX!SetCategory(k, status)
      PROVE  TaxonomyInv'
  BY <1>1, <1>3 DEF TX!CreateCategory, TX!SetCategory, TX!Edit, TaxonomyInv, TaxonomyTyped
<1>4. ASSUME NEW k \in Keywords, NEW rule \in TX!Rule, TX!TermFree(rule.term, k),
             keyword' = [keyword EXCEPT ![k] = rule],
             UNCHANGED <<category, stage, offered, answer, cache, basis>>
      PROVE  TaxonomyInv'
  <2>1. TaxonomyTyped'
    BY <1>4 DEF TaxonomyInv, TaxonomyTyped
  <2>2. /\ keyword'[k] = rule
        /\ \A l \in Keywords \ {k} : keyword'[l] = keyword[l]
    BY <1>4 DEF TaxonomyInv, TaxonomyTyped
  <2>3. TermsUnique'
    BY <1>4, <2>2 DEF TaxonomyInv, TermsUnique, TX!Stored, TX!TermFree
  <2> QED
    BY <1>4, <2>1, <2>3, EditKeeps
<1>5. ASSUME NEW k \in Keywords, NEW term \in Terms, NEW severity \in {1, 2},
             NEW named \in Slugs \cup {None}, TX!CreateKeyword(k, term, severity, named)
      PROVE  TaxonomyInv'
  <2> DEFINE rule == [term |-> term, severity |-> severity, category |-> named, active |-> TRUE]
  <2>1. rule \in TX!Rule /\ rule.term = term
    BY DEF TX!Rule, TX!Severities
  <2>2. /\ TX!TermFree(term, k) /\ keyword' = [keyword EXCEPT ![k] = rule]
        /\ UNCHANGED <<category, stage, offered, answer, cache, basis>>
    BY <1>5 DEF TX!CreateKeyword, TX!Edit
  <2> HIDE DEF rule
  <2> QED
    BY <1>4, <2>1, <2>2
<1>6. ASSUME NEW k \in Keywords, NEW rule \in TX!EditedRules, TX!UpdateKeyword(k, rule)
      PROVE  TaxonomyInv'
  <2>1. /\ TX!TermFree(rule.term, k) /\ keyword' = [keyword EXCEPT ![k] = rule]
        /\ UNCHANGED <<category, stage, offered, answer, cache, basis>>
    BY <1>6 DEF TX!UpdateKeyword, TX!Edit
  <2>2. rule \in TX!Rule /\ rule.term \in Terms
    BY DEF TX!EditedRules, TX!Rule
  <2> QED
    BY <1>4, <2>1, <2>2
<1>7. TX!Next =>
         \/ \E r \in Classified :
              \/ TX!BeginClassification(r) \/ TX!SinkMissing(r)
              \/ \E named \in Slugs \cup {None}, severity \in {2, 3} :
                    TX!ProviderAnswers(r, named, severity)
              \/ TX!CacheAnswers(r) \/ TX!FallsBack(r) \/ TX!StoreAnswer(r)
         \/ \E k \in Slugs : \/ TX!CreateCategory(k)
                             \/ \E status \in {"active", "retired"} : TX!SetCategory(k, status)
         \/ \E k \in Keywords, term \in Terms, severity \in {1, 2}, named \in Slugs \cup {None} :
              TX!CreateKeyword(k, term, severity, named)
         \/ \E k \in Keywords, rule \in TX!EditedRules : TX!UpdateKeyword(k, rule)
  BY DEF TX!Next
<1> QED
  BY <1>2, <1>3, <1>5, <1>6, <1>7, ClassificationKeeps

(* coerce_category, _category_for: for any edits of the taxonomy under any    *)
(* number of classifications, a Report lands in a category it was offered.    *)
THEOREM OfferedCorrect == TX!Spec => []ClassifiedAsOffered
<1>1. TaxonomyInv => ClassifiedAsOffered
  BY DEF TaxonomyInv, Offered, ClassifiedAsOffered, TX!ClassifiedAsOffered
<1> QED
  BY <1>1, TaxonomyInitially, TaxonomyStepwise, PTL DEF TX!Spec

(* FR-13a, _ranked: for any number of rules and any order the table gives     *)
(* them in, one text and one set of rules have one answer.                    *)
THEOREM FallbackCorrect == TX!Spec => []FallbackIsDeterministic
<1>1. TaxonomyInv => FallbackIsDeterministic
  <2> SUFFICES ASSUME TaxonomyInv, NEW r \in Classified, NEW q \in Classified,
                      basis[r] # None, basis[r] = basis[q],
                      TextOf[r] = TextOf[q], offered[r] = offered[q]
               PROVE  answer[r] = answer[q]
    BY DEF FallbackIsDeterministic, TX!FallbackIsDeterministic
  <2>1. basis[r] \in SUBSET TX!Rule /\ OneRulePerTerm(basis[r])
    BY DEF TaxonomyInv, TaxonomyTyped, Derived
  <2>2. PICK a \in TX!Arrivals(basis[r]) :
           answer[r] = TX!KeywordAnswer(basis[r], a, TextOf[r], offered[r])
    BY DEF TaxonomyInv, Derived
  <2>3. PICK b \in TX!Arrivals(basis[r]) :
           answer[q] = TX!KeywordAnswer(basis[r], b, TextOf[r], offered[r])
    BY DEF TaxonomyInv, Derived
  <2> QED
    BY <2>1, <2>2, <2>3, AnswersAgree
<1> QED
  BY <1>1, TaxonomyInitially, TaxonomyStepwise, PTL DEF TX!Spec

-----------------------------------------------------------------------------
(* The pages of the work queue: the keys of a sort put the positions in a     *)
(* strict order, the filter of the next page is this order, and ORDER BY      *)
(* numbers the rows of a page along it.                                       *)
Fields == {"pk", "severity_rank", "opened_at", "corroboration_total"}
Positions(s) == [DOMAIN PG!Keys(s) -> Nat]

LEMMA KeysShape ==
    ASSUME NEW s \in PG!Sorts
    PROVE  /\ Len(PG!Keys(s)) \in {2, 3}
           /\ DOMAIN PG!Keys(s) = 1 .. Len(PG!Keys(s))
           /\ \A n \in DOMAIN PG!Keys(s) :
                 /\ PG!Keys(s)[n].field \in Fields
                 /\ PG!Keys(s)[n].descending \in BOOLEAN
           /\ PG!Keys(s)[Len(PG!Keys(s))].field = "pk"
<1>1. CASE s \in {"severity", "corroborationCount"}
  <2>1. PICK leading \in Fields :
           PG!Keys(s) = <<PG!Key(leading, TRUE), PG!Key("opened_at", FALSE), PG!Key("pk", FALSE)>>
    BY <1>1 DEF PG!Keys, Fields
  <2>2. Len(PG!Keys(s)) = 3 /\ DOMAIN PG!Keys(s) = 1 .. 3
    BY <2>1
  <2>3. /\ PG!Keys(s)[1] = PG!Key(leading, TRUE)
        /\ PG!Keys(s)[2] = PG!Key("opened_at", FALSE)
        /\ PG!Keys(s)[3] = PG!Key("pk", FALSE)
    BY <2>1
  <2>4. /\ PG!Keys(s)[1].field \in Fields /\ PG!Keys(s)[1].descending \in BOOLEAN
        /\ PG!Keys(s)[2].field \in Fields /\ PG!Keys(s)[2].descending \in BOOLEAN
        /\ PG!Keys(s)[3].field = "pk" /\ PG!Keys(s)[3].descending \in BOOLEAN
    BY <2>3 DEF PG!Key, Fields
  <2>5. "pk" \in Fields /\ \A n \in 1 .. 3 : n = 1 \/ n = 2 \/ n = 3
    BY DEF Fields
  <2> QED
    BY <2>2, <2>4, <2>5
<1>2. CASE s \in {"age", "-createdAt"}
  <2>1. PICK descending \in BOOLEAN :
           PG!Keys(s) = <<PG!Key("opened_at", descending), PG!Key("pk", descending)>>
    BY <1>2 DEF PG!Keys
  <2> QED
    BY <2>1 DEF PG!Key, Fields
<1> QED
  BY <1>1, <1>2 DEF PG!Sorts

LEMMA PositionTyped ==
    ASSUME NEW s \in PG!Sorts, NEW values \in PG!Values
    PROVE  PG!Position(s, values) \in Positions(s)
<1>1. \A f \in Fields : values[f] \in Nat
  <2>1. Rows \subseteq Nat /\ Ranks \subseteq Nat /\ Ages \subseteq Nat /\ Totals \subseteq Nat
    BY StaffAssumption DEF PG!PagingAssumption
  <2>2. values.pk \in Nat /\ values.severity_rank \in Nat /\ values.opened_at \in Nat
        /\ values.corroboration_total \in Nat
    BY <2>1 DEF PG!Values
  <2> QED
    BY <2>2 DEF Fields
<1> QED
  BY <1>1, KeysShape DEF Positions, PG!Position

(* The order is strict and total, and reading backwards inverts it. *)
LEMMA LaterIrreflexive ==
    ASSUME NEW s \in PG!Sorts, NEW p \in Positions(s), NEW reverse \in BOOLEAN
    PROVE  ~PG!Later(s, p, p, reverse)
<1>1. \A n \in DOMAIN PG!Keys(s) : p[n] \in Nat
  BY DEF Positions
<1> QED
  BY <1>1 DEF PG!Later, PG!Beyond

LEMMA LaterTransitive ==
    ASSUME NEW s \in PG!Sorts, NEW reverse \in BOOLEAN,
           NEW p \in Positions(s), NEW q \in Positions(s), NEW w \in Positions(s),
           PG!Later(s, p, q, reverse), PG!Later(s, q, w, reverse)
    PROVE  PG!Later(s, p, w, reverse)
<1> DEFINE K == DOMAIN PG!Keys(s)
           D(n) == PG!Keys(s)[n].descending # reverse
<1>1. PICK n \in K : PG!Beyond(p[n], q[n], D(n)) /\ \A m \in 1 .. n - 1 : p[m] = q[m]
  BY DEF PG!Later
<1>2. PICK k \in K : PG!Beyond(q[k], w[k], D(k)) /\ \A m \in 1 .. k - 1 : q[m] = w[m]
  BY DEF PG!Later
<1>3. K \subseteq Nat /\ n \in Nat /\ k \in Nat /\ n >= 1 /\ k >= 1
  BY KeysShape
<1>4. \A m \in K : p[m] \in Nat /\ q[m] \in Nat /\ w[m] \in Nat
  BY DEF Positions
<1>5. ASSUME NEW l \in K, PG!Beyond(p[l], w[l], D(l)), \A m \in 1 .. l - 1 : p[m] = w[m]
      PROVE  PG!Later(s, p, w, reverse)
  BY <1>5 DEF PG!Later
<1> HIDE DEF D, K
<1>6. CASE n < k
  <2>1. q[n] = w[n] /\ \A m \in 1 .. n - 1 : p[m] = w[m]
    BY <1>1, <1>2, <1>3, <1>6
  <2> QED
    BY <1>1, <1>5, <2>1
<1>7. CASE n = k
  <2>1. PG!Beyond(p[n], w[n], D(n))
    BY <1>1, <1>2, <1>4, <1>7 DEF PG!Beyond
  <2> QED
    BY <1>1, <1>2, <1>5, <1>7, <2>1
<1>8. CASE k < n
  <2>1. p[k] = q[k] /\ \A m \in 1 .. k - 1 : p[m] = w[m]
    BY <1>1, <1>2, <1>3, <1>8
  <2> QED
    BY <1>2, <1>5, <2>1
<1> QED
  BY <1>3, <1>6, <1>7, <1>8

LEMMA LaterTotal ==
    ASSUME NEW s \in PG!Sorts, NEW reverse \in BOOLEAN,
           NEW p \in Positions(s), NEW q \in Positions(s), p # q
    PROVE  PG!Later(s, p, q, reverse) \/ PG!Later(s, q, p, reverse)
<1> DEFINE K == DOMAIN PG!Keys(s)
<1>1. \A m \in K : p[m] \in Nat /\ q[m] \in Nat
  BY DEF Positions
<1>2. ASSUME NEW n \in K, p[n] # q[n], \A m \in 1 .. n - 1 : p[m] = q[m]
      PROVE  PG!Later(s, p, q, reverse) \/ PG!Later(s, q, p, reverse)
  BY <1>1, <1>2 DEF PG!Later, PG!Beyond
<1>3. \E n \in K : p[n] # q[n]
  BY DEF Positions
<1>4. K = 1 .. 2 \/ K = 1 .. 3
  BY KeysShape
<1> HIDE DEF K
<1>5. CASE p[1] # q[1]
  BY <1>2, <1>4, <1>5
<1>6. CASE p[1] = q[1] /\ p[2] # q[2]
  BY <1>2, <1>4, <1>6
<1>7. CASE p[1] = q[1] /\ p[2] = q[2]
  <2>1. PICK n \in K : p[n] # q[n]
    BY <1>3
  <2>2. n = 3 /\ \A m \in 1 .. n - 1 : p[m] = q[m]
    BY <1>4, <1>7, <2>1
  <2> QED
    BY <1>2, <2>1, <2>2
<1> QED
  BY <1>5, <1>6, <1>7

LEMMA LaterInverted ==
    ASSUME NEW s \in PG!Sorts, NEW p \in Positions(s), NEW q \in Positions(s)
    PROVE  PG!Later(s, p, q, TRUE) <=> PG!Later(s, q, p, FALSE)
<1>1. \A n \in DOMAIN PG!Keys(s) :
         p[n] \in Nat /\ q[n] \in Nat /\ PG!Keys(s)[n].descending \in BOOLEAN
  BY KeysShape DEF Positions
<1>2. \A n \in DOMAIN PG!Keys(s) :
         PG!Beyond(p[n], q[n], PG!Keys(s)[n].descending # TRUE)
            <=> PG!Beyond(q[n], p[n], PG!Keys(s)[n].descending # FALSE)
  BY <1>1 DEF PG!Beyond
<1>3. \A n : (\A m \in 1 .. n - 1 : p[m] = q[m]) <=> (\A m \in 1 .. n - 1 : q[m] = p[m])
  OBVIOUS
<1> QED
  BY <1>2, <1>3 DEF PG!Later

(* _position_filter: its disjunction over the keys is the order itself. *)
LEMMA BehindIsLater ==
    ASSUME NEW s \in PG!Sorts, NEW values, NEW position, NEW reverse
    PROVE  PG!Behind(s, values, position, reverse)
              <=> PG!Later(s, PG!Position(s, values), position, reverse)
<1> DEFINE K == DOMAIN PG!Keys(s)
<1>1. K \subseteq Nat /\ \A n \in K : 1 .. n - 1 \subseteq K
  BY KeysShape
<1>2. \A n \in K : PG!Position(s, values)[n] = values[PG!Keys(s)[n].field]
  BY DEF PG!Position
<1>3. \A n \in K : (\A m \in 1 .. n - 1 : values[PG!Keys(s)[m].field] = position[m])
                      <=> (\A m \in 1 .. n - 1 : PG!Position(s, values)[m] = position[m])
  BY <1>1, <1>2
<1> QED
  BY <1>2, <1>3 DEF PG!Behind, PG!Later

(* The sets of Paging are counted as those of FiniteSets. *)
LEMMA SameCounting ==
    \A S : (PG!IsFiniteSet(S) <=> IsFiniteSet(S)) /\ PG!Cardinality(S) = Cardinality(S)
  BY DEF PG!IsFiniteSet, IsFiniteSet, PG!Cardinality, Cardinality

(* Along a strict total order the numbers of the elements before each one are *)
(* 0, 1, and so on, each for one element.                                     *)
LEMMA Ranked ==
    ASSUME NEW S, IsFiniteSet(S), NEW E \in [S -> SUBSET S],
           \A a \in S : a \notin E[a],
           \A a, b \in S : a \in E[b] => E[a] \subseteq E[b],
           \A a, b \in S : a # b => a \in E[b] \/ b \in E[a]
    PROVE  /\ Cardinality(S) \in Nat
           /\ \A a \in S : Cardinality(E[a]) \in 0 .. Cardinality(S) - 1
           /\ \A a, b \in S : a \in E[b] <=> Cardinality(E[a]) < Cardinality(E[b])
           /\ \A n \in 1 .. Cardinality(S) : \E a \in S : Cardinality(E[a]) = n - 1
<1> DEFINE N == Cardinality(S)
           f == [a \in S |-> Cardinality(E[a])]
           T == 0 .. N - 1
<1>1. N \in Nat
  BY FS_CardinalityType
<1>2. \A a \in S : IsFiniteSet(E[a]) /\ Cardinality(E[a]) \in Nat
  BY FS_Subset, FS_CardinalityType
<1>3. ASSUME NEW a \in S, NEW b \in S, a \in E[b] PROVE Cardinality(E[a]) < Cardinality(E[b])
  <2>1. E[a] \in SUBSET E[b] /\ E[a] # E[b]
    BY <1>3
  <2>2. Cardinality(E[a]) <= Cardinality(E[b]) /\ Cardinality(E[a]) # Cardinality(E[b])
    BY <1>2, <2>1, FS_Subset
  <2> QED
    BY <1>2, <2>2
<1>4. ASSUME NEW a \in S, NEW b \in S, Cardinality(E[a]) < Cardinality(E[b]) PROVE a \in E[b]
  <2>1. a # b /\ b \notin E[a]
    BY <1>2, <1>3, <1>4
  <2> QED
    BY <2>1
<1>5. ASSUME NEW a \in S PROVE Cardinality(E[a]) \in T
  <2>1. E[a] \in SUBSET S /\ E[a] # S
    OBVIOUS
  <2>2. Cardinality(E[a]) <= N /\ Cardinality(E[a]) # N
    BY <2>1, FS_Subset
  <2> QED
    BY <1>1, <1>2, <2>2
<1>6. f \in Injection(S, T)
  <2>1. f \in [S -> T]
    BY <1>5
  <2>2. ASSUME NEW a \in S, NEW b \in S, f[a] = f[b] PROVE a = b
    BY <1>2, <1>3, <2>2
  <2> QED
    BY <2>1, <2>2 DEF Injection, IsInjective
<1>7. IsFiniteSet(T) /\ Cardinality(T) = N
  BY <1>1, FS_Interval
<1>8. f \in Surjection(S, T)
  BY <1>6, <1>7, FS_Injection
<1>9. \A t \in T : \E a \in S : Cardinality(E[a]) = t
  BY <1>8 DEF Surjection
<1>10. ASSUME NEW n \in 1 .. N PROVE n - 1 \in T
  BY <1>1
<1> QED
  BY <1>1, <1>3, <1>4, <1>5, <1>9, <1>10

(* Rows have values of their own, told apart by the primary key. *)
TableTyped ==
    /\ table \in [Rows -> PG!Values \cup {None}]
    /\ \A r \in PG!Present : table[r].pk = r

LEMMA RowsPositioned ==
    ASSUME TableTyped, NEW s \in PG!Sorts
    PROVE  /\ \A r \in PG!Present : PG!Position(s, table[r]) \in Positions(s)
           /\ \A r, q \in PG!Present :
                 r # q => PG!Position(s, table[r]) # PG!Position(s, table[q])
<1>1. \A r \in PG!Present : table[r] \in PG!Values /\ table[r].pk = r
  BY DEF TableTyped, PG!Present
<1> DEFINE l == Len(PG!Keys(s))
<1>2. l \in DOMAIN PG!Keys(s) /\ PG!Keys(s)[l].field = "pk"
  <2>1. l \in {2, 3} /\ DOMAIN PG!Keys(s) = 1 .. l
    BY KeysShape
  <2>2. l \in DOMAIN PG!Keys(s)
    BY <2>1
  <2> QED
    BY <2>2, KeysShape
<1>3. \A r \in PG!Present : PG!Position(s, table[r])[l] = r
  BY <1>1, <1>2 DEF PG!Position
<1> QED
  BY <1>1, <1>3, PositionTyped

(* _order_by: the rows of a slice stand in the order of the keys, each once. *)
LEMMA PageOrdered ==
    ASSUME TableTyped, NEW s \in PG!Sorts, NEW reverse \in BOOLEAN,
           NEW rows \in SUBSET PG!Present
    PROVE  LET N == Cardinality(rows)
               ord == PG!Ordered(rows, s, reverse)
           IN  /\ N \in Nat
               /\ ord \in [1 .. N -> rows]
               /\ \A m, n \in 1 .. N : m < n =>
                     PG!Later(s, PG!Position(s, table[ord[n]]),
                                 PG!Position(s, table[ord[m]]), reverse)
               /\ \A r \in rows : \E n \in 1 .. N : ord[n] = r
<1> DEFINE N == Cardinality(rows)
           ord == PG!Ordered(rows, s, reverse)
           P(r) == PG!Position(s, table[r])
           E == [r \in rows |-> PG!Earlier(rows, r, s, reverse)]
           C(r) == Cardinality(E[r])
<1>1. \A r \in rows : P(r) \in Positions(s)
  BY RowsPositioned
<1>2. \A r, q \in rows : r # q => P(r) # P(q)
  BY RowsPositioned
<1>3. IsFiniteSet(rows)
  <2>1. IsFiniteSet(Rows) /\ rows \in SUBSET Rows
    BY StaffAssumption, SameCounting DEF PG!PagingAssumption, PG!Present
  <2> QED
    BY <2>1, FS_Subset
<1>4. \A r, q \in rows : q \in E[r] <=> PG!Later(s, P(r), P(q), reverse)
  BY DEF PG!Earlier
<1>5. E \in [rows -> SUBSET rows]
  BY DEF PG!Earlier
<1> HIDE DEF E, P
<1>6. \A r \in rows : r \notin E[r]
  BY <1>1, <1>4, LaterIrreflexive
<1>7. ASSUME NEW a \in rows, NEW b \in rows, a \in E[b] PROVE E[a] \subseteq E[b]
  <2> SUFFICES ASSUME NEW q \in E[a] PROVE q \in E[b]
    OBVIOUS
  <2>1. q \in rows
    BY <1>5
  <2>2. PG!Later(s, P(b), P(a), reverse) /\ PG!Later(s, P(a), P(q), reverse)
    BY <1>4, <1>7, <2>1
  <2>3. PG!Later(s, P(b), P(q), reverse)
    BY <1>1, <2>1, <2>2, LaterTransitive
  <2> QED
    BY <1>4, <2>1, <2>3
<1>8. \A a, b \in rows : a # b => a \in E[b] \/ b \in E[a]
  BY <1>1, <1>2, <1>4, LaterTotal
<1>9. /\ N \in Nat
      /\ \A a \in rows : C(a) \in 0 .. N - 1
      /\ \A a, b \in rows : a \in E[b] <=> C(a) < C(b)
      /\ \A n \in 1 .. N : \E a \in rows : C(a) = n - 1
  <2> HIDE DEF N
  <2>1. \A a, b \in rows : a \in E[b] => E[a] \subseteq E[b]
    BY <1>7
  <2> QED
    BY <1>3, <1>5, <1>6, <1>8, <2>1, Ranked DEF N
<1>10. DOMAIN ord = 1 .. N /\ \A n \in 1 .. N : ord[n] \in rows /\ C(ord[n]) = n - 1
  <2>1. ord = [n \in 1 .. N |->
                  CHOOSE r \in rows : PG!Cardinality(PG!Earlier(rows, r, s, reverse)) = n - 1]
    BY SameCounting DEF PG!Ordered
  <2>2. \A r \in rows : PG!Cardinality(PG!Earlier(rows, r, s, reverse)) = C(r)
    BY SameCounting DEF E
  <2> HIDE DEF ord, N, C
  <2>3. DOMAIN ord = 1 .. N
    BY <2>1
  <2>4. ASSUME NEW n \in 1 .. N PROVE ord[n] \in rows /\ C(ord[n]) = n - 1
    BY <1>9, <2>1, <2>2
  <2> QED
    BY <2>3, <2>4
<1> HIDE DEF ord, N, C
<1>11. ord \in [1 .. N -> rows]
  <2>1. ord = [n \in 1 .. N |-> ord[n]]
    BY <1>10 DEF ord, PG!Ordered
  <2> QED
    BY <1>10, <2>1
<1>12. ASSUME NEW m \in 1 .. N, NEW n \in 1 .. N, m < n
       PROVE  PG!Later(s, P(ord[n]), P(ord[m]), reverse)
  <2>1. C(ord[m]) < C(ord[n])
    BY <1>9, <1>10, <1>12
  <2> QED
    BY <1>4, <1>9, <1>10, <2>1
<1>13. ASSUME NEW r \in rows PROVE \E n \in 1 .. N : ord[n] = r
  <2>1. C(r) + 1 \in 1 .. N /\ C(r) \in Nat
    BY <1>9
  <2>2. ord[C(r) + 1] \in rows /\ C(ord[C(r) + 1]) = C(r)
    BY <1>10, <2>1
  <2>3. ord[C(r) + 1] = r
    BY <1>8, <1>9, <2>1, <2>2
  <2> QED
    BY <2>1, <2>3
<1> QED
  BY <1>9, <1>11, <1>12, <1>13 DEF N, ord, P

(* paginate_queryset: a page is the first rows of the slice, in order; if more *)
(* follow, it is full, and it holds the rows that are not behind its last one. *)
Serves(q, r) == \E n \in DOMAIN q : q[n] = r

LEMMA PageFetched ==
    ASSUME TableTyped, NEW s \in PG!Sorts, NEW reverse \in BOOLEAN,
           NEW rows \in SUBSET PG!Present
    PROVE  LET f == PG!Fetched(rows, s, reverse)
               P(r) == PG!Position(s, table[r])
               last == f.rows[Len(f.rows)]
           IN  /\ f.rows \in Seq(rows) /\ f.more \in BOOLEAN /\ Len(f.rows) <= Limit
               /\ \A m, n \in DOMAIN f.rows :
                     m < n => PG!Later(s, P(f.rows[n]), P(f.rows[m]), reverse)
               /\ ~f.more => \A r \in rows : Serves(f.rows, r)
               /\ f.more => /\ f.rows # <<>> /\ last \in rows /\ Len(f.rows) = Limit
                            /\ \A r \in rows :
                                  Serves(f.rows, r) <=> ~PG!Later(s, P(r), P(last), reverse)
<1> DEFINE f == PG!Fetched(rows, s, reverse)
           P(r) == PG!Position(s, table[r])
           N == Cardinality(rows)
           L == IF N > Limit THEN Limit ELSE N
           ord == PG!Ordered(rows, s, reverse)
           last == f.rows[Len(f.rows)]
<1>1. /\ N \in Nat /\ ord \in [1 .. N -> rows]
      /\ \A m, n \in 1 .. N : m < n => PG!Later(s, P(ord[n]), P(ord[m]), reverse)
      /\ \A r \in rows : \E n \in 1 .. N : ord[n] = r
  BY PageOrdered
<1>2. Limit \in Nat /\ Limit >= 1
  BY StaffAssumption DEF PG!PagingAssumption
<1>3. f.rows = SubSeq(ord, 1, L) /\ f.more = (N > Limit)
  BY SameCounting DEF PG!Fetched
<1> HIDE DEF f, ord, N
<1>4. L \in Nat /\ L <= N /\ L <= Limit
  BY <1>1, <1>2
<1>5. /\ f.rows \in Seq(rows) /\ Len(f.rows) = L
      /\ DOMAIN f.rows = 1 .. L /\ \A n \in 1 .. L : f.rows[n] = ord[n]
  <2>1. \A n \in 1 .. L : ord[n] \in rows
    BY <1>1, <1>4
  <2> HIDE DEF L
  <2>2. /\ SubSeq(ord, 1, L) \in Seq(rows)
        /\ Len(SubSeq(ord, 1, L)) = IF 1 <= L THEN L - 1 + 1 ELSE 0
        /\ \A n \in 1 .. L - 1 + 1 : SubSeq(ord, 1, L)[n] = ord[1 + n - 1]
    BY <1>4, <2>1, SubSeqProperties
  <2>3. \A n \in 1 .. L : n \in 1 .. L - 1 + 1 /\ 1 + n - 1 = n
    BY <1>4
  <2> QED
    BY <1>3, <1>4, <2>2, <2>3
<1>6. \A m, n \in DOMAIN f.rows :
         m < n => PG!Later(s, P(f.rows[n]), P(f.rows[m]), reverse)
  BY <1>1, <1>4, <1>5
<1>7. ASSUME ~f.more, NEW r \in rows PROVE Serves(f.rows, r)
  <2>1. L = N
    BY <1>1, <1>2, <1>3, <1>7
  <2> QED
    BY <1>1, <1>5, <2>1 DEF Serves
<1>8. ASSUME f.more
      PROVE  /\ f.rows # <<>> /\ last \in rows /\ Len(f.rows) = Limit
             /\ \A r \in rows :
                   Serves(f.rows, r) <=> ~PG!Later(s, P(r), P(last), reverse)
  <2>1. L = Limit /\ L \in 1 .. L /\ L \in 1 .. N
    <3>1. N > Limit
      BY <1>3, <1>8
    <3>2. L = Limit
      BY <3>1
    <3> HIDE DEF L
    <3> QED
      BY <1>1, <1>2, <3>1, <3>2
  <2>2. last = ord[L] /\ last \in rows
    BY <1>1, <1>5, <2>1
  <2>3. \A r \in rows : P(r) \in Positions(s)
    BY RowsPositioned
  <2> HIDE DEF P, last, L
  <2>4. ASSUME NEW r \in rows PROVE Serves(f.rows, r) <=> ~PG!Later(s, P(r), P(last), reverse)
    <3>1. PICK n \in 1 .. N : ord[n] = r
      BY <1>1
    <3>2. CASE n <= L
      <4>1. n \in 1 .. L /\ (n < L \/ n = L)
        BY <1>4, <3>2
      <4>2. Serves(f.rows, r)
        BY <1>5, <3>1, <4>1 DEF Serves
      <4>3. ASSUME PG!Later(s, P(r), P(last), reverse) PROVE FALSE
        <5>1. ~PG!Later(s, P(r), P(r), reverse)
          BY <2>3, LaterIrreflexive
        <5>2. n # L
          BY <2>2, <3>1, <4>3, <5>1
        <5>3. PG!Later(s, P(last), P(r), reverse)
          BY <1>1, <2>1, <2>2, <3>1, <4>1, <5>2
        <5> QED
          BY <2>2, <2>3, <4>3, <5>1, <5>3, LaterTransitive
      <4> QED
        BY <4>2, <4>3
    <3>3. CASE L < n
      <4>1. PG!Later(s, P(r), P(last), reverse)
        BY <1>1, <2>1, <2>2, <3>1, <3>3
      <4>2. ASSUME Serves(f.rows, r) PROVE FALSE
        <5>1. PICK m \in 1 .. L : ord[m] = r
          BY <1>5, <4>2 DEF Serves
        <5>2. m \in 1 .. N /\ m < n
          BY <1>1, <1>4, <3>3, <5>1
        <5>3. PG!Later(s, P(r), P(r), reverse)
          BY <1>1, <3>1, <5>1, <5>2
        <5> QED
          BY <2>3, <5>3, LaterIrreflexive
      <4> QED
        BY <4>1, <4>2
    <3> QED
      BY <1>1, <1>4, <3>2, <3>3
  <2> QED
    BY <1>5, <2>1, <2>2, <2>4
<1> QED
  BY <1>4, <1>5, <1>6, <1>7, <1>8, <1>3 DEF f, last, P

(* Nobody touched these rows since the first page. *)
Unmoved == PG!Present \ touched
At(r) == PG!Position(sort, table[r])

(* What was served stands in the order of the sort as it is now. *)
Ascending ==
    \A m, n \in DOMAIN served :
        m < n /\ {served[m], served[n]} \subseteq Unmoved
            => PG!Later(sort, At(served[n]), At(served[m]), FALSE)

(* The cursor of a scroll that goes on divides the untouched rows: those that *)
(* were served are the ones that are not behind it.                           *)
Divides ==
    scroll = "forward" /\ cursor # None /\ ~cursor.reverse =>
        /\ cursor.position \in Positions(sort)
        /\ \A r \in Unmoved :
              Serves(served, r) <=> ~PG!Behind(sort, table[r], cursor.position, FALSE)

(* A scroll that is over has served them all and has no next page. *)
Exhausts ==
    scroll = "over" =>
        /\ \A r \in Unmoved : Serves(served, r)
        /\ cursor # None => cursor.reverse

ScrollInv ==
    /\ sort \in PG!Sorts /\ TableTyped
    /\ served \in Seq(Rows) /\ touched \in SUBSET Rows
    /\ scroll \in {"forward", "over"} => Ascending
    /\ Divides
    /\ Exhausts

LEMMA ScrollInitially == PG!Init => ScrollInv
<1> SUFFICES ASSUME PG!Init PROVE ScrollInv
  OBVIOUS
<1>1. sort \in PG!Sorts /\ TableTyped /\ served \in Seq(Rows) /\ touched \in SUBSET Rows
  BY DEF PG!Init, TableTyped, PG!Present
<1> QED
  BY <1>1 DEF PG!Init, ScrollInv, Divides, Exhausts

(* The rows of a page were rows of the slice, which are rows of the table. *)
LEMMA FirstPageKeeps == ScrollInv /\ PG!FirstPage => ScrollInv'
<1> SUFFICES ASSUME ScrollInv, PG!FirstPage PROVE ScrollInv'
  OBVIOUS
<1> DEFINE f == PG!Fetched(PG!Present, sort, FALSE)
           last == f.rows[Len(f.rows)]
<1>1. /\ served' = f.rows /\ scroll' = (IF f.more THEN "forward" ELSE "over")
      /\ cursor' \in PG!Follow(sort, f.rows, f.more, FALSE)
      /\ touched' = {} /\ sort' = sort /\ table' = table
  BY DEF PG!FirstPage
<1>2. sort \in PG!Sorts /\ TableTyped
  BY DEF ScrollInv
<1>3. /\ f.rows \in Seq(PG!Present) /\ f.more \in BOOLEAN
      /\ \A m, n \in DOMAIN f.rows :
            m < n => PG!Later(sort, At(f.rows[n]), At(f.rows[m]), FALSE)
      /\ ~f.more => \A r \in PG!Present : Serves(f.rows, r)
      /\ f.more => /\ f.rows # <<>> /\ last \in PG!Present
                   /\ \A r \in PG!Present :
                         Serves(f.rows, r) <=> ~PG!Later(sort, At(r), At(last), FALSE)
  BY <1>2, PageFetched DEF At
<1> HIDE DEF f, last
<1>4. /\ Unmoved' = PG!Present /\ PG!Present' = PG!Present
      /\ \A r : At(r)' = At(r)
  BY <1>1 DEF Unmoved, PG!Present, At
<1>5. sort' \in PG!Sorts /\ TableTyped' /\ served' \in Seq(Rows) /\ touched' \in SUBSET Rows
  <2>1. f.rows \in Seq(Rows)
    BY <1>3, SeqMonotonic DEF PG!Present
  <2> QED
    BY <1>1, <1>2, <1>4, <2>1 DEF TableTyped
<1>6. Ascending'
  BY <1>1, <1>3, <1>4 DEF Ascending
<1>7. Divides'
  <2> SUFFICES ASSUME scroll' = "forward", cursor' # None, ~cursor'.reverse
               PROVE  /\ cursor'.position \in Positions(sort)
                      /\ \A r \in PG!Present :
                            Serves(f.rows, r) <=> ~PG!Behind(sort, table[r], cursor'.position, FALSE)
    BY <1>1, <1>4 DEF Divides
  <2>1. f.more
    BY <1>1, <1>3
  <2>2. cursor' = PG!Cursor(sort, last, FALSE)
    BY <1>1, <1>3, <2>1 DEF PG!Follow, last
  <2>3. cursor'.position = At(last)
    BY <2>2 DEF PG!Cursor, At
  <2>4. At(last) \in Positions(sort)
    BY <1>2, <1>3, <2>1, RowsPositioned DEF At
  <2> QED
    BY <1>2, <1>3, <2>1, <2>3, <2>4, BehindIsLater DEF At
<1>8. Exhausts'
  <2> SUFFICES ASSUME scroll' = "over"
               PROVE  /\ \A r \in PG!Present : Serves(f.rows, r)
                      /\ cursor' = None
    BY <1>1, <1>4 DEF Exhausts
  <2>1. ~f.more
    BY <1>1, <1>3
  <2> QED
    BY <1>1, <1>3, <2>1 DEF PG!Follow
<1> QED
  BY <1>5, <1>6, <1>7, <1>8 DEF ScrollInv

(* What is behind the cursor comes after all that was served; the page goes   *)
(* on from there and moves the cursor to its last row.                        *)
LEMMA NextPageKeeps == ScrollInv /\ PG!NextPage => ScrollInv'
<1> SUFFICES ASSUME ScrollInv, PG!NextPage PROVE ScrollInv'
  OBVIOUS
<1> DEFINE rows == {r \in PG!Present : PG!Behind(sort, table[r], cursor.position, FALSE)}
           f == PG!Fetched(rows, sort, FALSE)
           last == f.rows[Len(f.rows)]
           all == served \o f.rows
<1>1. /\ cursor # None /\ ~cursor.reverse
      /\ served' = all
      /\ scroll' = (IF scroll = "forward" /\ ~f.more THEN "over" ELSE scroll)
      /\ cursor' \in PG!Follow(sort, f.rows, f.more, TRUE)
      /\ sort' = sort /\ table' = table /\ touched' = touched
  BY DEF PG!NextPage
<1>2. sort \in PG!Sorts /\ TableTyped /\ served \in Seq(Rows) /\ touched \in SUBSET Rows
  BY DEF ScrollInv
<1>3. rows \in SUBSET PG!Present /\ \A r : r \in rows =>
         PG!Later(sort, At(r), cursor.position, FALSE)
  BY <1>2, BehindIsLater DEF At
<1>4. /\ f.rows \in Seq(rows) /\ f.more \in BOOLEAN
      /\ \A m, n \in DOMAIN f.rows :
            m < n => PG!Later(sort, At(f.rows[n]), At(f.rows[m]), FALSE)
      /\ ~f.more => \A r \in rows : Serves(f.rows, r)
      /\ f.more => /\ f.rows # <<>> /\ last \in rows
                   /\ \A r \in rows :
                         Serves(f.rows, r) <=> ~PG!Later(sort, At(r), At(last), FALSE)
  BY <1>2, <1>3, PageFetched DEF At
<1>5. \A r \in PG!Present \ rows : ~PG!Behind(sort, table[r], cursor.position, FALSE)
  OBVIOUS
<1>6. \A r \in PG!Present : At(r) \in Positions(sort)
  BY <1>2, RowsPositioned DEF At
<1>7. /\ Unmoved' = Unmoved /\ PG!Present' = PG!Present /\ Unmoved \subseteq PG!Present
      /\ \A r : At(r)' = At(r)
  BY <1>1 DEF Unmoved, PG!Present, At
<1> HIDE DEF f, last, rows
<1>8. /\ all \in Seq(Rows) /\ DOMAIN all = 1 .. Len(served) + Len(f.rows)
      /\ DOMAIN served = 1 .. Len(served) /\ DOMAIN f.rows = 1 .. Len(f.rows)
      /\ Len(served) \in Nat /\ Len(f.rows) \in Nat
      /\ \A n \in DOMAIN served : all[n] = served[n]
      /\ \A n \in DOMAIN f.rows : all[Len(served) + n] = f.rows[n]
  <2>1. f.rows \in Seq(Rows)
    BY <1>3, <1>4, SeqMonotonic DEF PG!Present
  <2>2. /\ all \in Seq(Rows) /\ Len(all) = Len(served) + Len(f.rows)
        /\ \A i \in 1 .. Len(served) + Len(f.rows) :
              all[i] = IF i <= Len(served) THEN served[i] ELSE f.rows[i - Len(served)]
    BY <1>2, <2>1, ConcatProperties
  <2>3. /\ DOMAIN served = 1 .. Len(served) /\ Len(served) \in Nat
        /\ DOMAIN f.rows = 1 .. Len(f.rows) /\ Len(f.rows) \in Nat
    BY <1>2, <2>1
  <2> HIDE DEF all
  <2>4. DOMAIN all = 1 .. Len(served) + Len(f.rows)
    BY <2>2
  <2>5. \A n \in DOMAIN served : all[n] = served[n]
    BY <2>2, <2>3
  <2>6. ASSUME NEW n \in DOMAIN f.rows PROVE all[Len(served) + n] = f.rows[n]
    <3>1. /\ Len(served) + n \in 1 .. Len(served) + Len(f.rows)
          /\ ~(Len(served) + n <= Len(served)) /\ Len(served) + n - Len(served) = n
      BY <2>3
    <3> QED
      BY <2>2, <3>1
  <2> QED
    BY <2>2, <2>3, <2>4, <2>5, <2>6
<1> HIDE DEF all
<1>9. \A r : Serves(all, r) <=> Serves(served, r) \/ Serves(f.rows, r)
  <2> SUFFICES ASSUME NEW r PROVE Serves(all, r) <=> Serves(served, r) \/ Serves(f.rows, r)
    OBVIOUS
  <2>1. ASSUME NEW n \in DOMAIN all, all[n] = r PROVE Serves(served, r) \/ Serves(f.rows, r)
    <3>1. CASE n <= Len(served)
      BY <1>8, <2>1, <3>1 DEF Serves
    <3>2. CASE n > Len(served)
      <4>1. n - Len(served) \in DOMAIN f.rows /\ Len(served) + (n - Len(served)) = n
        BY <1>8, <3>2
      <4> QED
        BY <1>8, <2>1, <4>1 DEF Serves
    <3> QED
      BY <1>8, <3>1, <3>2
  <2>2. ASSUME NEW n \in DOMAIN served, served[n] = r PROVE Serves(all, r)
    <3>1. n \in DOMAIN all
      BY <1>8
    <3> QED
      BY <1>8, <2>2, <3>1 DEF Serves
  <2>3. ASSUME NEW n \in DOMAIN f.rows, f.rows[n] = r PROVE Serves(all, r)
    <3>1. Len(served) + n \in DOMAIN all
      BY <1>8
    <3> QED
      BY <1>8, <2>3, <3>1 DEF Serves
  <2> QED
    BY <2>1, <2>2, <2>3 DEF Serves
<1>10. sort' \in PG!Sorts /\ TableTyped' /\ served' \in Seq(Rows) /\ touched' \in SUBSET Rows
  BY <1>1, <1>2, <1>7, <1>8 DEF TableTyped
<1>11. CASE scroll \notin {"forward", "over"}
  <2>1. scroll' = scroll
    BY <1>1, <1>11
  <2> QED
    BY <1>10, <1>11, <2>1 DEF ScrollInv, Divides, Exhausts
<1>12. CASE scroll = "over"
  BY <1>1, <1>12 DEF ScrollInv, Exhausts
<1>13. CASE scroll = "forward"
  <2> DEFINE pos == cursor.position
  <2>1. /\ pos \in Positions(sort)
        /\ \A r \in Unmoved : Serves(served, r) <=> ~PG!Later(sort, At(r), pos, FALSE)
    BY <1>1, <1>2, <1>13, BehindIsLater DEF ScrollInv, Divides, At
  <2>2. \A r \in Unmoved : r \in rows <=> PG!Later(sort, At(r), pos, FALSE)
    BY <1>2, <1>3, <1>5, <1>7, BehindIsLater DEF At
  <2> HIDE DEF pos
  <2>3. Ascending
    BY <1>13 DEF ScrollInv
  <2>4. ASSUME NEW m \in DOMAIN all, NEW n \in DOMAIN all, m < n,
               all[m] \in Unmoved, all[n] \in Unmoved
        PROVE  PG!Later(sort, At(all[n]), At(all[m]), FALSE)
    <3>1. CASE n <= Len(served)
      <4>1. m \in DOMAIN served /\ n \in DOMAIN served
        BY <1>8, <2>4, <3>1
      <4> QED
        BY <1>8, <2>3, <2>4, <4>1 DEF Ascending
    <3>2. CASE m > Len(served)
      <4> DEFINE i == m - Len(served)
                 j == n - Len(served)
      <4>1. /\ i \in DOMAIN f.rows /\ j \in DOMAIN f.rows /\ i < j
            /\ Len(served) + i = m /\ Len(served) + j = n
        BY <1>8, <2>4, <3>2
      <4> HIDE DEF i, j
      <4> QED
        BY <1>4, <1>8, <4>1
    <3>3. CASE m <= Len(served) /\ n > Len(served)
      <4> DEFINE j == n - Len(served)
      <4>1. m \in DOMAIN served /\ j \in DOMAIN f.rows /\ Len(served) + j = n
        BY <1>8, <3>3
      <4> HIDE DEF j
      <4>2. all[m] = served[m] /\ all[n] = f.rows[j] /\ f.rows[j] \in rows
        BY <1>4, <1>8, <4>1
      <4>3. ~PG!Later(sort, At(all[m]), pos, FALSE)
        BY <2>1, <2>4, <4>1, <4>2 DEF Serves
      <4>4. PG!Later(sort, At(all[n]), pos, FALSE)
        BY <2>2, <2>4, <4>2
      <4>5. At(all[m]) \in Positions(sort) /\ At(all[n]) \in Positions(sort)
        BY <1>6, <1>7, <2>4
      <4>6. At(all[m]) = pos \/ PG!Later(sort, pos, At(all[m]), FALSE)
        BY <1>2, <2>1, <4>3, <4>5, LaterTotal
      <4> QED
        BY <1>2, <2>1, <4>4, <4>5, <4>6, LaterTransitive
    <3>4. n <= Len(served) \/ m > Len(served) \/ (m <= Len(served) /\ n > Len(served))
      BY <1>8
    <3> QED
      BY <3>1, <3>2, <3>3, <3>4
  <2>5. Ascending'
    BY <1>1, <1>7, <2>4 DEF Ascending
  <2>6. Divides'
    <3> SUFFICES ASSUME scroll' = "forward", cursor' # None, ~cursor'.reverse
                 PROVE  /\ cursor'.position \in Positions(sort)
                        /\ \A r \in Unmoved :
                              Serves(all, r) <=> ~PG!Behind(sort, table[r], cursor'.position, FALSE)
      BY <1>1, <1>7 DEF Divides
    <3>1. f.more
      BY <1>1, <1>4, <1>13
    <3>2. cursor' \in {PG!Cursor(sort, last, FALSE), PG!Cursor(sort, f.rows[1], TRUE)}
      BY <1>1, <1>4, <3>1 DEF PG!Follow, last
    <3>3. cursor'.position = At(last)
      BY <3>2 DEF PG!Cursor, At
    <3>4. last \in PG!Present /\ last \in rows
      BY <1>3, <1>4, <3>1
    <3>5. PG!Later(sort, At(last), pos, FALSE) /\ At(last) \in Positions(sort)
      BY <1>3, <1>6, <3>4 DEF pos
    <3>6. ASSUME NEW r \in Unmoved
          PROVE  Serves(all, r) <=> ~PG!Later(sort, At(r), At(last), FALSE)
      <4>1. At(r) \in Positions(sort)
        BY <1>6, <1>7
      <4>2. PG!Later(sort, At(r), At(last), FALSE) => PG!Later(sort, At(r), pos, FALSE)
        BY <1>2, <2>1, <3>5, <4>1, LaterTransitive
      <4>3. CASE r \in rows
        BY <1>4, <1>9, <2>1, <2>2, <3>1, <4>3
      <4>4. CASE r \notin rows
        BY <1>9, <2>1, <2>2, <4>2, <4>4
      <4> QED
        BY <4>3, <4>4
    <3> QED
      BY <1>2, <3>3, <3>5, <3>6, BehindIsLater DEF At
  <2>7. Exhausts'
    <3> SUFFICES ASSUME scroll' = "over"
                 PROVE  /\ \A r \in Unmoved : Serves(all, r)
                        /\ cursor' # None => cursor'.reverse
      BY <1>1, <1>7 DEF Exhausts
    <3>1. ~f.more
      BY <1>1, <1>4, <1>13
    <3>2. cursor' = None \/ cursor'.reverse
      BY <1>1, <1>4, <3>1 DEF PG!Follow, PG!Cursor
    <3> QED
      BY <1>4, <1>9, <2>1, <2>2, <3>1, <3>2
  <2> QED
    BY <1>10, <2>5, <2>6, <2>7 DEF ScrollInv
<1> QED
  BY <1>11, <1>12, <1>13

(* What others do touches one row and leaves the others as they are. *)
LEMMA ChangeKeeps ==
    ASSUME ScrollInv, NEW r \in Rows, PG!Change(r),
           NEW v, table' = [table EXCEPT ![r] = v],
           v = None \/ (v \in PG!Values /\ v.pk = r)
    PROVE  ScrollInv'
<1>1. /\ touched' = touched \cup {r} /\ sort' = sort /\ cursor' = cursor
      /\ served' = served /\ scroll' = scroll
  BY DEF PG!Change
<1>2. sort \in PG!Sorts /\ TableTyped /\ served \in Seq(Rows) /\ touched \in SUBSET Rows
  BY DEF ScrollInv
<1>3. table' \in [Rows -> PG!Values \cup {None}] /\ \A q \in Rows \ {r} : table'[q] = table[q]
  BY <1>2 DEF TableTyped
<1>4. table'[r] = v
  BY <1>2 DEF TableTyped
<1>5. TableTyped'
  BY <1>2, <1>3, <1>4 DEF TableTyped, PG!Present
<1>6. /\ Unmoved' \subseteq Unmoved /\ Unmoved' \subseteq Rows \ {r}
      /\ \A q \in Unmoved' : table'[q] = table[q] /\ At(q)' = At(q)
  BY <1>1, <1>3 DEF Unmoved, PG!Present, At
<1>7. ASSUME Ascending PROVE Ascending'
  <2> SUFFICES ASSUME NEW m \in DOMAIN served, NEW n \in DOMAIN served, m < n,
                      served[m] \in Unmoved', served[n] \in Unmoved'
               PROVE  PG!Later(sort, At(served[n])', At(served[m])', FALSE)
    BY <1>1 DEF Ascending
  <2>1. At(served[n])' = At(served[n]) /\ At(served[m])' = At(served[m])
    BY <1>1, <1>6 DEF At
  <2>2. PG!Later(sort, At(served[n]), At(served[m]), FALSE)
    BY <1>6, <1>7 DEF Ascending
  <2> QED
    BY <2>1, <2>2
<1>8. Divides'
  BY <1>1, <1>6 DEF ScrollInv, Divides
<1>9. Exhausts'
  BY <1>1, <1>6 DEF ScrollInv, Exhausts
<1> QED
  BY <1>1, <1>2, <1>5, <1>7, <1>8, <1>9 DEF ScrollInv

LEMMA ScrollStepwise == ScrollInv /\ [PG!Next]_(PG!vars) => ScrollInv'
<1> SUFFICES ASSUME ScrollInv, [PG!Next]_(PG!vars) PROVE ScrollInv'
  OBVIOUS
<1>1. CASE PG!FirstPage
  BY <1>1, FirstPageKeeps
<1>2. CASE PG!NextPage
  BY <1>2, NextPageKeeps
<1>3. CASE PG!PreviousPage
  <2>1. scroll' = "mixed" /\ UNCHANGED <<sort, table, served, touched>>
    BY <1>3 DEF PG!PreviousPage
  <2> QED
    BY <2>1 DEF ScrollInv, TableTyped, PG!Present, Divides, Exhausts
<1>4. ASSUME NEW s \in PG!Sorts, PG!ChangeSort(s) PROVE ScrollInv'
  <2>1. /\ sort' = s /\ scroll' \in {"mixed", "new"} /\ served' \in {served, <<>>}
        /\ UNCHANGED <<table, touched>>
    BY <1>4 DEF PG!ChangeSort
  <2>2. served' \in Seq(Rows)
    <3>1. served \in Seq(Rows) /\ <<>> \in Seq(Rows)
      BY DEF ScrollInv
    <3> QED
      BY <2>1, <3>1
  <2> QED
    BY <2>1, <2>2 DEF ScrollInv, TableTyped, PG!Present, Divides, Exhausts
<1>5. ASSUME NEW r \in Rows, NEW values \in PG!Values, PG!Insert(r, values) PROVE ScrollInv'
  BY <1>5, ChangeKeeps DEF PG!Insert
<1>6. ASSUME NEW r \in Rows, PG!Leave(r) PROVE ScrollInv'
  BY <1>6, ChangeKeeps DEF PG!Leave
<1>7. ASSUME NEW r \in Rows, NEW rank \in Ranks, NEW total \in Totals, PG!Move(r, rank, total)
      PROVE  ScrollInv'
  <2> DEFINE v == [table[r] EXCEPT !.severity_rank = rank, !.corroboration_total = total]
  <2>1. table' = [table EXCEPT ![r].severity_rank = rank, ![r].corroboration_total = total]
        /\ PG!Change(r) /\ table[r] # None
    BY <1>7 DEF PG!Move
  <2>2. table[r] \in PG!Values /\ table[r].pk = r /\ table \in [Rows -> PG!Values \cup {None}]
    BY <2>1 DEF ScrollInv, TableTyped, PG!Present
  <2>3. v \in PG!Values /\ v.pk = r
    BY <2>2 DEF PG!Values
  <2>4. table' = [table EXCEPT ![r] = v]
    BY <2>1, <2>2
  <2> HIDE DEF v
  <2> QED
    BY <2>1, <2>3, <2>4, ChangeKeeps
<1>8. CASE UNCHANGED PG!vars
  <2>1. UNCHANGED <<sort, table, cursor, served, scroll, touched>>
    BY <1>8 DEF PG!vars
  <2>2. Unmoved' = Unmoved /\ PG!Present' = PG!Present /\ \A r : At(r)' = At(r)
    BY <2>1 DEF Unmoved, PG!Present, At
  <2>3. (sort \in PG!Sorts)' /\ TableTyped' /\ (Ascending => Ascending')
    BY <2>1, <2>2 DEF ScrollInv, TableTyped, Ascending
  <2>4. Divides' /\ Exhausts'
    BY <2>1, <2>2 DEF ScrollInv, Divides, Exhausts
  <2> QED
    BY <2>1, <2>3, <2>4 DEF ScrollInv
<1> QED
  BY <1>1, <1>2, <1>3, <1>4, <1>5, <1>6, <1>7, <1>8 DEF PG!Next

(* FR-22, API 4.4: for any number of rows, any page size and any changes in   *)
(* between, ties on all keys but the last included, a scroll on from the first *)
(* page serves no untouched Issue twice, has served each once when it is over, *)
(* and serves them in the order asked for.                                     *)
THEOREM ScrollCorrect == PG!Spec => []UntouchedServedOnce
<1>1. ScrollInv => UntouchedServedOnce
  <2> DEFINE Times(r) == {n \in DOMAIN served : served[n] = r}
  <2> SUFFICES ASSUME ScrollInv, scroll \in {"forward", "over"}
               PROVE  /\ \A r \in Unmoved :
                            /\ Cardinality(Times(r)) <= 1
                            /\ scroll = "over" => Cardinality(Times(r)) = 1
                      /\ \A m, n \in DOMAIN served :
                            m < n /\ {served[m], served[n]} \subseteq Unmoved
                                => PG!InOrder(served[m], served[n])
    BY SameCounting DEF UntouchedServedOnce, PG!UntouchedServedOnce, Unmoved
  <2>1. /\ sort \in PG!Sorts /\ TableTyped /\ served \in Seq(Rows)
        /\ Ascending
        /\ scroll = "over" => \A r \in Unmoved : Serves(served, r)
    BY DEF ScrollInv, Exhausts
  <2>2. \A r \in Unmoved : At(r) \in Positions(sort)
    BY <2>1, RowsPositioned DEF At, Unmoved
  <2>3. ASSUME NEW r \in Unmoved
        PROVE  /\ Cardinality(Times(r)) <= 1
               /\ scroll = "over" => Cardinality(Times(r)) = 1
    <3>1. ASSUME NEW m \in DOMAIN served, NEW n \in DOMAIN served,
                 served[m] = r, served[n] = r
          PROVE  m = n
      <4>1. ~PG!Later(sort, At(r), At(r), FALSE)
        BY <2>1, <2>2, LaterIrreflexive
      <4>2. ~(m < n) /\ ~(n < m)
        BY <2>1, <3>1, <4>1 DEF Ascending
      <4>3. m \in Nat /\ n \in Nat
        BY <2>1
      <4> QED
        BY <4>2, <4>3
    <3>2. ASSUME NEW n \in DOMAIN served, served[n] = r PROVE Cardinality(Times(r)) = 1
      <4>1. Times(r) = {n}
        BY <3>1, <3>2
      <4> QED
        BY <4>1, FS_Singleton
    <3>3. CASE \E n \in DOMAIN served : served[n] = r
      BY <3>2, <3>3
    <3>4. CASE ~ \E n \in DOMAIN served : served[n] = r
      <4>1. Times(r) = {}
        BY <3>4
      <4>2. Cardinality(Times(r)) = 0
        BY <4>1, FS_EmptySet
      <4>3. scroll # "over"
        BY <2>1, <3>4 DEF Serves
      <4> QED
        BY <4>2, <4>3
    <3> QED
      BY <3>3, <3>4
  <2>4. ASSUME NEW a \in Unmoved, NEW b \in Unmoved,
               PG!Later(sort, At(b), At(a), FALSE)
        PROVE  PG!InOrder(a, b)
    <3> DEFINE D(n) == PG!Keys(sort)[n].descending
    <3>1. PICK n \in DOMAIN PG!Keys(sort) :
             /\ PG!Beyond(At(b)[n], At(a)[n], D(n) # FALSE)
             /\ \A m \in 1 .. n - 1 : At(b)[m] = At(a)[m]
      BY <2>4 DEF PG!Later
    <3>2. /\ \A m \in DOMAIN PG!Keys(sort) : D(m) \in BOOLEAN
          /\ DOMAIN PG!Keys(sort) = 1 .. 2 \/ DOMAIN PG!Keys(sort) = 1 .. 3
      BY <2>1, KeysShape
    <3>3. /\ At(a)[1] = PG!Leading(a) /\ At(b)[1] = PG!Leading(b)
          /\ At(a)[2] = PG!Second(a) /\ At(b)[2] = PG!Second(b)
      BY <3>2 DEF At, PG!Position, PG!Leading, PG!Second
    <3>4. PG!Comes(At(a)[n], At(b)[n], D(n))
      <4>1. At(a)[n] \in Nat /\ At(b)[n] \in Nat
        BY <2>2 DEF Positions
      <4> QED
        BY <3>1, <3>2, <4>1 DEF PG!Beyond, PG!Comes
    <3> HIDE DEF D
    <3>5. CASE n = 1
      BY <3>3, <3>4, <3>5 DEF PG!InOrder, D
    <3>6. CASE n = 2
      <4>1. At(b)[1] = At(a)[1]
        BY <3>1, <3>6
      <4> QED
        BY <3>3, <3>4, <3>6, <4>1 DEF PG!InOrder, D
    <3>7. CASE n = 3
      <4>1. At(b)[1] = At(a)[1] /\ At(b)[2] = At(a)[2]
        BY <3>1, <3>7
      <4> QED
        BY <3>3, <4>1 DEF PG!InOrder
    <3> QED
      BY <3>2, <3>5, <3>6, <3>7
  <2> QED
    BY <2>1, <2>3, <2>4 DEF Ascending
<1> QED
  BY <1>1, ScrollInitially, ScrollStepwise, PTL DEF PG!Spec

(* Every cursor is the position of a row under some sort. *)
CursorShape(c) ==
    /\ c.reverse \in BOOLEAN
    /\ \E s \in PG!Sorts : c.position \in Positions(s)

PageInv ==
    /\ sort \in PG!Sorts /\ TableTyped /\ served \in Seq(Rows) /\ touched \in SUBSET Rows
    /\ cursor # None => CursorShape(cursor)
    /\ page \in Seq(Rows) /\ Len(page) <= Limit
    /\ scroll \in {"new", "forward", "over", "mixed"}
    /\ moves \in 0 .. MaxMoves /\ pages \in 0 .. MaxPages

LEMMA PositionLength ==
    ASSUME NEW s \in PG!Sorts, NEW p \in Positions(s)
    PROVE  Len(p) \in {2, 3} /\ Len(p) = Len(PG!Keys(s)) /\ p \in [1 .. Len(p) -> Nat]
<1>1. Len(PG!Keys(s)) \in {2, 3} /\ DOMAIN PG!Keys(s) = 1 .. Len(PG!Keys(s))
  BY KeysShape
<1>2. p \in [1 .. Len(PG!Keys(s)) -> Nat]
  BY <1>1 DEF Positions
<1>3. Len(PG!Keys(s)) \in Nat
  BY <1>1
<1>4. p \in Seq(Nat) /\ Len(p) = Len(PG!Keys(s))
  BY <1>2, <1>3
<1> QED
  BY <1>1, <1>2, <1>4

(* A position that has the length of a sort is one of that sort. *)
LEMMA PositionFits ==
    ASSUME NEW s \in PG!Sorts, NEW c, CursorShape(c), Len(c.position) = Len(PG!Keys(s))
    PROVE  c.position \in Positions(s)
<1>1. PICK z \in PG!Sorts : c.position \in Positions(z)
  BY DEF CursorShape
<1>2. Len(c.position) = Len(PG!Keys(z)) /\ c.position \in [1 .. Len(c.position) -> Nat]
  BY <1>1, PositionLength
<1>3. DOMAIN PG!Keys(s) = 1 .. Len(PG!Keys(s))
  BY KeysShape
<1> QED
  BY <1>2, <1>3 DEF Positions

LEMMA FollowTyped ==
    ASSUME TableTyped, NEW s \in PG!Sorts, NEW rows \in Seq(PG!Present),
           NEW hasNext \in BOOLEAN, NEW hasPrevious \in BOOLEAN,
           NEW c \in PG!Follow(s, rows, hasNext, hasPrevious), c # None
    PROVE  CursorShape(c)
<1>1. rows # <<>> /\ c \in {PG!Cursor(s, rows[Len(rows)], FALSE), PG!Cursor(s, rows[1], TRUE)}
  BY DEF PG!Follow
<1>2. rows[Len(rows)] \in PG!Present /\ rows[1] \in PG!Present
  BY <1>1
<1>3. PICK r \in PG!Present, reverse \in BOOLEAN : c = PG!Cursor(s, r, reverse)
  BY <1>1, <1>2
<1>4. c.position = PG!Position(s, table[r]) /\ c.reverse = reverse
  BY <1>3 DEF PG!Cursor
<1>5. PG!Position(s, table[r]) \in Positions(s)
  BY RowsPositioned
<1> QED
  BY <1>3, <1>4, <1>5 DEF CursorShape

LEMMA Reversed ==
    ASSUME NEW S, NEW q \in Seq(S)
    PROVE  /\ PG!Reverse(q) \in Seq(S) /\ Len(PG!Reverse(q)) = Len(q)
           /\ \A n \in DOMAIN q :
                 /\ Len(q) + 1 - n \in DOMAIN q
                 /\ PG!Reverse(q)[n] = q[Len(q) + 1 - n]
           /\ DOMAIN PG!Reverse(q) = DOMAIN q
<1> DEFINE w == PG!Reverse(q)
           l == Len(q)
<1>1. l \in Nat /\ DOMAIN q = 1 .. l /\ \A n \in 1 .. l : q[n] \in S
  OBVIOUS
<1>2. w = [i \in 1 .. l |-> q[(l - i) + 1]]
  BY DEF PG!Reverse
<1> HIDE DEF w, l
<1>3. \A n \in 1 .. l : l + 1 - n \in 1 .. l /\ (l - n) + 1 = l + 1 - n
  BY <1>1
<1>4. \A n \in 1 .. l : w[n] = q[l + 1 - n] /\ w[n] \in S
  BY <1>1, <1>2, <1>3
<1>5. w \in [1 .. l -> S]
  BY <1>2, <1>4
<1>6. w \in Seq(S) /\ Len(w) = l /\ DOMAIN w = 1 .. l
  BY <1>1, <1>5
<1> QED
  BY <1>1, <1>3, <1>4, <1>6 DEF w, l

LEMMA PageInitially == PG!Init => PageInv
<1> SUFFICES ASSUME PG!Init PROVE PageInv
  OBVIOUS
<1>1. TableTyped
  BY DEF PG!Init, TableTyped, PG!Present
<1>2. <<>> \in Seq(Rows) /\ Len(<<>>) = 0
  OBVIOUS
<1>3. Limit \in Nat /\ MaxMoves \in Nat /\ MaxPages \in Nat
  BY StaffAssumption DEF PG!PagingAssumption
<1> QED
  BY <1>1, <1>2, <1>3 DEF PG!Init, PageInv

LEMMA PageStepwise == PageInv /\ [PG!Next]_(PG!vars) => PageInv'
<1> SUFFICES ASSUME PageInv, [PG!Next]_(PG!vars) PROVE PageInv'
  OBVIOUS
<1> USE DEF PageInv
<1>1. MaxMoves \in Nat /\ MaxPages \in Nat
  BY StaffAssumption DEF PG!PagingAssumption
<1>2. ASSUME NEW rows \in SUBSET PG!Present, NEW reverse \in BOOLEAN,
             NEW f, f = PG!Fetched(rows, sort, reverse)
      PROVE  /\ f.rows \in Seq(PG!Present) /\ f.rows \in Seq(Rows)
             /\ Len(f.rows) <= Limit /\ f.more \in BOOLEAN
  <2>1. f.rows \in Seq(rows) /\ Len(f.rows) <= Limit /\ f.more \in BOOLEAN
    BY <1>2, PageFetched
  <2>2. rows \subseteq PG!Present /\ PG!Present \subseteq Rows /\ rows \subseteq Rows
    BY DEF PG!Present
  <2> QED
    BY <2>1, <2>2, SeqMonotonic
<1>3. CASE PG!FirstPage
  <2> DEFINE f == PG!Fetched(PG!Present, sort, FALSE)
  <2>1. /\ page' = f.rows /\ served' = f.rows /\ touched' = {}
        /\ cursor' \in PG!Follow(sort, f.rows, f.more, FALSE)
        /\ scroll' \in {"forward", "over"}
        /\ pages < MaxPages /\ pages' = pages + 1
        /\ UNCHANGED <<sort, table, moves>>
    BY <1>3 DEF PG!FirstPage
  <2>2. f.rows \in Seq(PG!Present) /\ f.rows \in Seq(Rows) /\ Len(f.rows) <= Limit
        /\ f.more \in BOOLEAN
    BY <1>2
  <2> HIDE DEF f
  <2>3. cursor' # None => CursorShape(cursor')
    BY <2>1, <2>2, FollowTyped
  <2>4. pages' \in 0 .. MaxPages
    BY <1>1, <2>1
  <2>5. TableTyped'
    BY <2>1 DEF TableTyped, PG!Present
  <2> QED
    BY <2>1, <2>2, <2>3, <2>4, <2>5 DEF CursorShape
<1>4. CASE PG!NextPage
  <2> DEFINE rows == {r \in PG!Present : PG!Behind(sort, table[r], cursor.position, FALSE)}
             f == PG!Fetched(rows, sort, FALSE)
  <2>1. /\ page' = f.rows /\ served' = served \o f.rows
        /\ cursor' \in PG!Follow(sort, f.rows, f.more, TRUE)
        /\ scroll' \in {scroll, "over"}
        /\ pages < MaxPages /\ pages' = pages + 1
        /\ UNCHANGED <<sort, table, touched, moves>>
    BY <1>4 DEF PG!NextPage
  <2>2. f.rows \in Seq(PG!Present) /\ f.rows \in Seq(Rows) /\ Len(f.rows) <= Limit
        /\ f.more \in BOOLEAN
    BY <1>2
  <2> HIDE DEF f
  <2>3. cursor' # None => CursorShape(cursor')
    BY <2>1, <2>2, FollowTyped
  <2>4. pages' \in 0 .. MaxPages /\ served' \in Seq(Rows)
    BY <1>1, <2>1, <2>2
  <2>5. TableTyped'
    BY <2>1 DEF TableTyped, PG!Present
  <2>6. scroll' \in {"new", "forward", "over", "mixed"}
    BY <2>1
  <2> QED
    BY <2>1, <2>2, <2>3, <2>4, <2>5, <2>6 DEF CursorShape
<1>5. CASE PG!PreviousPage
  <2> DEFINE rows == {r \in PG!Present : PG!Behind(sort, table[r], cursor.position, TRUE)}
             f == PG!Fetched(rows, sort, TRUE)
  <2>1. /\ page' = PG!Reverse(f.rows)
        /\ cursor' \in PG!Follow(sort, PG!Reverse(f.rows), TRUE, f.more)
        /\ scroll' = "mixed"
        /\ pages < MaxPages /\ pages' = pages + 1
        /\ UNCHANGED <<sort, table, served, touched, moves>>
    BY <1>5 DEF PG!PreviousPage
  <2>2. f.rows \in Seq(PG!Present) /\ f.rows \in Seq(Rows) /\ Len(f.rows) <= Limit
        /\ f.more \in BOOLEAN
    BY <1>2
  <2> HIDE DEF f
  <2>3. /\ PG!Reverse(f.rows) \in Seq(PG!Present) /\ PG!Reverse(f.rows) \in Seq(Rows)
        /\ Len(PG!Reverse(f.rows)) = Len(f.rows)
    BY <2>2, Reversed
  <2>4. cursor' # None => CursorShape(cursor')
    BY <2>1, <2>2, <2>3, FollowTyped
  <2>5. pages' \in 0 .. MaxPages
    BY <1>1, <2>1
  <2>6. TableTyped'
    BY <2>1 DEF TableTyped, PG!Present
  <2> QED
    BY <2>1, <2>2, <2>3, <2>4, <2>5, <2>6 DEF CursorShape
<1>6. ASSUME NEW s \in PG!Sorts, PG!ChangeSort(s) PROVE PageInv'
  <2>1. /\ sort' = s /\ cursor' \in {cursor, None} /\ scroll' \in {"mixed", "new"}
        /\ served' \in {served, <<>>}
        /\ UNCHANGED <<table, page, touched, moves, pages>>
    BY <1>6 DEF PG!ChangeSort
  <2>2. TableTyped'
    BY <2>1 DEF TableTyped, PG!Present
  <2>3. cursor' # None => CursorShape(cursor')
    BY <2>1
  <2>4. <<>> \in Seq(Rows)
    OBVIOUS
  <2> QED
    BY <2>1, <2>2, <2>3, <2>4 DEF CursorShape
<1>7. ASSUME NEW r \in Rows, PG!Change(r), TableTyped' PROVE PageInv'
  <2>1. /\ moves < MaxMoves /\ moves' = moves + 1 /\ touched' = touched \cup {r}
        /\ UNCHANGED <<sort, cursor, page, served, scroll, pages>>
    BY <1>7 DEF PG!Change
  <2>2. moves' \in 0 .. MaxMoves
    BY <1>1, <2>1
  <2> QED
    BY <1>7, <2>1, <2>2 DEF CursorShape
<1>8. ASSUME NEW r \in Rows, NEW values \in PG!Values, PG!Insert(r, values) PROVE PageInv'
  <2>1. TableTyped'
    BY <1>8 DEF PG!Insert, TableTyped, PG!Present
  <2> QED
    BY <1>7, <1>8, <2>1 DEF PG!Insert
<1>9. ASSUME NEW r \in Rows, PG!Leave(r) PROVE PageInv'
  <2>1. TableTyped'
    BY <1>9 DEF PG!Leave, TableTyped, PG!Present
  <2> QED
    BY <1>7, <1>9, <2>1 DEF PG!Leave
<1>10. ASSUME NEW r \in Rows, NEW rank \in Ranks, NEW total \in Totals, PG!Move(r, rank, total)
       PROVE  PageInv'
  <2>1. TableTyped'
    BY <1>10 DEF PG!Move, TableTyped, PG!Present, PG!Values
  <2> QED
    BY <1>7, <1>10, <2>1 DEF PG!Move
<1>11. CASE UNCHANGED PG!vars
  BY <1>11 DEF PG!vars, TableTyped, PG!Present, CursorShape
<1> QED
  BY <1>3, <1>4, <1>5, <1>6, <1>8, <1>9, <1>10, <1>11 DEF PG!Next

(* IssueCursorPagination: whatever happens to the queue, what the endpoint    *)
(* keeps has its shape; in particular no page is longer than the limit.       *)
THEOREM PagesTyped == PG!Spec => []PG!TypeOK
<1>1. PageInv => PG!TypeOK
  <2> SUFFICES ASSUME PageInv PROVE PG!TypeOK
    OBVIOUS
  <2>1. cursor = None \/ (cursor.reverse \in BOOLEAN /\ Len(cursor.position) \in {2, 3})
    BY PositionLength DEF PageInv, CursorShape
  <2> QED
    BY <2>1 DEF PageInv, PG!TypeOK, TableTyped
<1> QED
  BY <1>1, PageInitially, PageStepwise, PTL DEF PG!Spec

(* The page holds the rows next to the position, as many as fit, and no other.*)
LEMMA PageAdjacent ==
    ASSUME TableTyped, NEW s \in PG!Sorts, NEW reverse \in BOOLEAN,
           NEW position \in Positions(s), NEW r \in PG!Present, NEW f,
           f = PG!Fetched({q \in PG!Present : PG!Behind(s, table[q], position, reverse)},
                          s, reverse)
    PROVE  PG!Later(s, PG!Position(s, table[r]), position, reverse) <=>
              \/ Serves(f.rows, r)
              \/ /\ Len(f.rows) = Limit
                 /\ PG!Later(s, PG!Position(s, table[r]),
                                PG!Position(s, table[f.rows[Limit]]), reverse)
<1> DEFINE P(q) == PG!Position(s, table[q])
           rows == {q \in PG!Present : PG!Behind(s, table[q], position, reverse)}
<1>1. rows \in SUBSET PG!Present /\ f = PG!Fetched(rows, s, reverse)
  OBVIOUS
<1>2. \A q \in PG!Present : q \in rows <=> PG!Later(s, P(q), position, reverse)
  BY BehindIsLater
<1>3. \A q \in PG!Present : P(q) \in Positions(s)
  BY RowsPositioned
<1> HIDE DEF P, rows
<1>4. /\ f.rows \in Seq(rows) /\ f.more \in BOOLEAN
      /\ ~f.more => \A q \in rows : Serves(f.rows, q)
      /\ f.more => /\ Len(f.rows) = Limit
                   /\ \A q \in rows :
                         Serves(f.rows, q) <=> ~PG!Later(s, P(q), P(f.rows[Len(f.rows)]), reverse)
  <2> DEFINE g == PG!Fetched(rows, s, reverse)
  <2>1. /\ g.rows \in Seq(rows) /\ g.more \in BOOLEAN
        /\ ~g.more => \A q \in rows : Serves(g.rows, q)
        /\ g.more => /\ Len(g.rows) = Limit
                     /\ \A q \in rows :
                           Serves(g.rows, q) <=> ~PG!Later(s, P(q), P(g.rows[Len(g.rows)]), reverse)
    BY <1>1, PageFetched DEF P
  <2>2. f = g
    BY <1>1
  <2> HIDE DEF g
  <2> QED
    BY <2>1, <2>2
<1>5. ASSUME r \in rows
      PROVE  \/ Serves(f.rows, r)
             \/ Len(f.rows) = Limit /\ PG!Later(s, P(r), P(f.rows[Limit]), reverse)
  BY <1>4, <1>5
<1>6. Serves(f.rows, r) => r \in rows
  BY <1>4 DEF Serves
<1>7. ASSUME Len(f.rows) = Limit, PG!Later(s, P(r), P(f.rows[Limit]), reverse)
      PROVE  r \in rows
  <2>1. Limit \in DOMAIN f.rows
    BY <1>4, <1>7, StaffAssumption DEF PG!PagingAssumption
  <2>2. f.rows[Limit] \in rows
    BY <1>4, <2>1
  <2> QED
    BY <1>1, <1>2, <1>3, <1>7, <2>2, LaterTransitive
<1> QED
  BY <1>2, <1>5, <1>6, <1>7 DEF P

(* _position_filter, paginate_queryset: with a cursor the page is the rows    *)
(* next to its position on the side asked for, in the order of the sort in    *)
(* both directions, and further rows on that side only if it is full.         *)
InSortOrder(q) ==
    \A m, n \in DOMAIN q : m < n => PG!Later(sort, At(q[n]), At(q[m]), FALSE)

ContinuesAfter(position, q) ==
    \A r \in PG!Present :
        PG!Later(sort, At(r), position, FALSE) <=>
            \/ Serves(q, r)
            \/ Len(q) = Limit /\ PG!Later(sort, At(r), At(q[Limit]), FALSE)

EndsBefore(position, q) ==
    \A r \in PG!Present :
        PG!Later(sort, position, At(r), FALSE) <=>
            \/ Serves(q, r)
            \/ Len(q) = Limit /\ PG!Later(sort, At(q[1]), At(r), FALSE)

PagesAdjoin ==
    [][/\ PG!NextPage => InSortOrder(page') /\ ContinuesAfter(cursor.position, page')
       /\ PG!PreviousPage => InSortOrder(page') /\ EndsBefore(cursor.position, page')]_(PG!vars)

(* Keyset pages adjoin their cursors, also after rows moved or the sort was   *)
(* changed under them.                                                        *)
THEOREM PagesAdjacent == PG!Spec => PagesAdjoin
<1>1. ASSUME PageInv, PG!NextPage
      PROVE  InSortOrder(page') /\ ContinuesAfter(cursor.position, page')
  <2> DEFINE pos == cursor.position
             rows == {q \in PG!Present : PG!Behind(sort, table[q], pos, FALSE)}
             f == PG!Fetched(rows, sort, FALSE)
  <2>1. /\ cursor # None /\ Len(pos) = Len(PG!Keys(sort)) /\ page' = f.rows
    BY <1>1 DEF PG!NextPage
  <2>2. sort \in PG!Sorts /\ TableTyped /\ pos \in Positions(sort)
    BY <1>1, <2>1, PositionFits DEF PageInv
  <2>3. rows \in SUBSET PG!Present
    OBVIOUS
  <2>4. InSortOrder(f.rows)
    BY <2>2, <2>3, PageFetched DEF InSortOrder, At
  <2>5. ContinuesAfter(pos, f.rows)
    BY <2>2, PageAdjacent DEF ContinuesAfter, At
  <2> QED
    BY <2>1, <2>4, <2>5
<1>2. ASSUME PageInv, PG!PreviousPage
      PROVE  InSortOrder(page') /\ EndsBefore(cursor.position, page')
  <2> DEFINE pos == cursor.position
             rows == {q \in PG!Present : PG!Behind(sort, table[q], pos, TRUE)}
             f == PG!Fetched(rows, sort, TRUE)
             w == PG!Reverse(f.rows)
             l == Len(f.rows)
  <2>1. /\ cursor # None /\ Len(pos) = Len(PG!Keys(sort)) /\ page' = w
    BY <1>2 DEF PG!PreviousPage
  <2>2. sort \in PG!Sorts /\ TableTyped /\ pos \in Positions(sort)
    BY <1>2, <2>1, PositionFits DEF PageInv
  <2>3. rows \in SUBSET PG!Present
    OBVIOUS
  <2>4. /\ f.rows \in Seq(PG!Present)
        /\ \A m, n \in DOMAIN f.rows :
              m < n => PG!Later(sort, At(f.rows[n]), At(f.rows[m]), TRUE)
    <3>1. f.rows \in Seq(rows)
      BY <2>2, <2>3, PageFetched
    <3>2. f.rows \in Seq(PG!Present)
      BY <2>3, <3>1, SeqMonotonic
    <3> QED
      BY <2>2, <2>3, <3>2, PageFetched DEF At
  <2>5. \A r \in PG!Present : At(r) \in Positions(sort)
    BY <2>2, RowsPositioned DEF At
  <2>6. \A r \in PG!Present :
           PG!Later(sort, At(r), pos, TRUE) <=>
              \/ Serves(f.rows, r)
              \/ l = Limit /\ PG!Later(sort, At(r), At(f.rows[Limit]), TRUE)
    BY <2>2, PageAdjacent DEF At
  <2> HIDE DEF f, w, rows, pos
  <2>7. /\ l \in Nat /\ DOMAIN f.rows = 1 .. l /\ DOMAIN w = 1 .. l /\ Len(w) = l
        /\ \A n \in 1 .. l : f.rows[n] \in PG!Present
        /\ \A n \in 1 .. l : l + 1 - n \in 1 .. l /\ w[n] = f.rows[l + 1 - n]
    <3>1. l \in Nat /\ DOMAIN f.rows = 1 .. l /\ \A n \in 1 .. l : f.rows[n] \in PG!Present
      BY <2>4
    <3> QED
      BY <2>4, <3>1, Reversed DEF w
  <2> HIDE DEF l
  <2>8. InSortOrder(w)
    <3> SUFFICES ASSUME NEW m \in 1 .. l, NEW n \in 1 .. l, m < n
                 PROVE  PG!Later(sort, At(w[n]), At(w[m]), FALSE)
      BY <2>7 DEF InSortOrder
    <3> DEFINE i == l + 1 - m
               j == l + 1 - n
    <3>1. i \in 1 .. l /\ j \in 1 .. l /\ j < i
      BY <2>7
    <3>2. w[m] = f.rows[i] /\ w[n] = f.rows[j]
      BY <2>7
    <3> HIDE DEF i, j
    <3>3. PG!Later(sort, At(f.rows[i]), At(f.rows[j]), TRUE)
      BY <2>4, <2>7, <3>1
    <3>4. At(f.rows[i]) \in Positions(sort) /\ At(f.rows[j]) \in Positions(sort)
      BY <2>5, <2>7, <3>1
    <3> QED
      BY <2>2, <3>2, <3>3, <3>4, LaterInverted
  <2>9. \A r : Serves(w, r) <=> Serves(f.rows, r)
    <3>1. \A n \in 1 .. l : l + 1 - (l + 1 - n) = n
      BY <2>7
    <3>2. \A n \in 1 .. l : f.rows[n] = w[l + 1 - n]
      BY <2>7, <3>1
    <3> QED
      BY <2>7, <3>2 DEF Serves
  <2>10. ASSUME l = Limit PROVE w[1] = f.rows[Limit] /\ w[1] \in PG!Present
    <3>1. Limit \in Nat /\ Limit >= 1
      BY StaffAssumption DEF PG!PagingAssumption
    <3>2. 1 \in 1 .. l /\ l + 1 - 1 = l /\ l \in 1 .. l
      BY <2>7, <2>10, <3>1
    <3> QED
      BY <2>7, <2>10, <3>2
  <2>11. EndsBefore(pos, w)
    <3> SUFFICES ASSUME NEW r \in PG!Present
                 PROVE  PG!Later(sort, pos, At(r), FALSE) <=>
                           \/ Serves(w, r)
                           \/ Len(w) = Limit /\ PG!Later(sort, At(w[1]), At(r), FALSE)
      BY DEF EndsBefore
    <3>1. PG!Later(sort, At(r), pos, TRUE) <=> PG!Later(sort, pos, At(r), FALSE)
      BY <2>2, <2>5, LaterInverted
    <3>2. l = Limit => (PG!Later(sort, At(r), At(f.rows[Limit]), TRUE)
                          <=> PG!Later(sort, At(w[1]), At(r), FALSE))
      BY <2>2, <2>5, <2>10, LaterInverted
    <3> QED
      BY <2>6, <2>7, <2>9, <3>1, <3>2
  <2> QED
    BY <2>1, <2>8, <2>11 DEF pos
<1> QED
  BY <1>1, <1>2, PageInitially, PageStepwise, PTL DEF PG!Spec, PagesAdjoin

-----------------------------------------------------------------------------
(* The parts side by side.                                                    *)
LEMMA EveryStepIsOfOnePart ==
    [Next]_vars =>
        /\ [SL!Next]_(SL!vars) /\ [PG!Next]_(PG!vars) /\ [TX!Next]_(TX!vars)
<1>1. UNCHANGED lockVars => UNCHANGED SL!vars
  BY DEF lockVars, SL!vars, SL!accounts
<1>2. UNCHANGED pageVars => UNCHANGED PG!vars
  BY DEF pageVars, PG!vars
<1>3. UNCHANGED taxonomyVars => UNCHANGED TX!vars
  BY DEF taxonomyVars, TX!vars, TX!reference
<1>4. Next => \/ UNCHANGED <<pageVars, taxonomyVars>> /\ SL!Next
              \/ UNCHANGED <<lockVars, taxonomyVars>> /\ PG!Next
              \/ UNCHANGED <<lockVars, pageVars>> /\ TX!Next
  BY DEF Next, Locks, Pages, Edits, SL!Next, PG!Next, TX!Next
<1>5. UNCHANGED vars => UNCHANGED <<lockVars, pageVars, taxonomyVars>>
  BY DEF vars
<1> QED
  BY <1>1, <1>2, <1>3, <1>4, <1>5

(* A behaviour of the composition is one of each part, so that what is proved *)
(* of a part holds of the whole.                                              *)
THEOREM StaffComposed == Spec => SL!Spec /\ PG!Spec /\ TX!Spec
<1>1. Init => SL!Init /\ PG!Init /\ TX!Init
  BY DEF Init
<1> QED
  BY <1>1, EveryStepIsOfOnePart, PTL DEF Spec, SL!Spec, PG!Spec, TX!Spec

=============================================================================
