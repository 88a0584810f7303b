------------------------ MODULE IssueLifecycleProofs ------------------------
(***************************************************************************)
(* Theorems about the Issue aggregate, for any sets of Issues, Reports,    *)
(* citizens and severities.                                                *)
(***************************************************************************)
EXTENDS IssueLifecycleProperties, WellFoundedInduction, TLAPS

\* RecordStatusEvent appends a well-typed event to a well-typed history.
LEMMA RecordedEventTyped ==
    ASSUME TypeOK,
           NEW i \in Issues, NEW to \in IssueStatus \cup {ReopenAction},
           NEW related \in Issues \cup {None},
           status[i] \in IssueStatus,
           RecordStatusEvent(i, to, related)
    PROVE  events' \in [Issues -> Seq(StatusEvent)]
<1> DEFINE e == [from |-> status[i], to |-> to, related |-> related]
<1>1. e \in StatusEvent
  BY DEF StatusEvent
<1>2. events[i] \in Seq(StatusEvent)
  BY DEF TypeOK
<1>3. Append(events[i], e) \in Seq(StatusEvent)
  BY <1>1, <1>2
<1> QED
  BY <1>3 DEF RecordStatusEvent, TypeOK

\* The severities of finitely many bands have a highest one: what
\* HighestSeverity returns for a non-empty set of classified Reports is the
\* severity of one of them and no other is above it.
LEMMA HighestSeverityIsMaximum ==
    ASSUME NEW S \in SUBSET Reports, S # {},
           \A r \in S : signal[r] \in 0..4
    PROVE  /\ \E r \in S : signal[r] = HighestSeverity(S)
           /\ \A r \in S : signal[r] <= HighestSeverity(S)
<1> DEFINE P(s) == s \in {signal[r] : r \in S} /\ \A r \in S : signal[r] <= s
<1>1. \E s : P(s)
  <2>1. CASE \E r \in S : signal[r] = 4
    BY <2>1
  <2>2. CASE (\A r \in S : signal[r] # 4) /\ \E r \in S : signal[r] = 3
    BY <2>2
  <2>3. CASE (\A r \in S : signal[r] \notin 3..4) /\ \E r \in S : signal[r] = 2
    BY <2>3
  <2>4. CASE (\A r \in S : signal[r] \notin 2..4) /\ \E r \in S : signal[r] = 1
    BY <2>4
  <2>5. CASE \A r \in S : signal[r] \notin 1..4
    BY <2>5
  <2> QED
    BY <2>1, <2>2, <2>3, <2>4, <2>5
<1>2. P(CHOOSE s : P(s))
  BY <1>1
<1>3. HighestSeverity(S) = CHOOSE s : P(s)
  BY DEF HighestSeverity
<1> QED
  BY <1>2, <1>3

\* The same in terms of the types of the specification.
LEMMA HighestSeverityTyped ==
    ASSUME TypeOK, NEW S \in SUBSET Reports, S # {}
    PROVE  /\ HighestSeverity(S) \in Severities \cup {Unclassified}
           /\ \E r \in S : signal[r] = HighestSeverity(S)
           /\ \A r \in S : signal[r] <= HighestSeverity(S)
<1>1. \A r \in S : signal[r] \in Severities \cup {Unclassified} /\ signal[r] \in 0..4
  <2>1. \A x \in Severities \cup {Unclassified} : x \in 0..4
    BY LifecycleAssumption DEF Unclassified
  <2>2. \A r \in S : signal[r] \in Severities \cup {Unclassified}
    BY DEF TypeOK
  <2> QED
    BY <2>1, <2>2
<1>2. /\ \E r \in S : signal[r] = HighestSeverity(S)
      /\ \A r \in S : signal[r] <= HighestSeverity(S)
  BY <1>1, HighestSeverityIsMaximum
<1> QED
  BY <1>1, <1>2

-----------------------------------------------------------------------------
\* Every step keeps every variable in its type.
LEMMA TypePreserved == TypeOK /\ [Next]_vars => TypeOK'
<1> SUFFICES ASSUME TypeOK, [Next]_vars
             PROVE  TypeOK'
  OBVIOUS
<1> USE DEF Absent, ReopenAction
<1>1. ASSUME NEW r \in Reports, NEW s \in Severities, ClassifyReport(r, s)
      PROVE  TypeOK'
  BY <1>1 DEF ClassifyReport, TypeOK, issueVars
<1>2. ASSUME NEW r \in Reports, NEW i \in Issues, JoinIssue(r, i)
      PROVE  TypeOK'
  <2>1. HighestSeverity(Members(i) \cup {r}) \in Severities \cup {Unclassified}
    BY HighestSeverityTyped DEF Members
  <2> QED
    BY <1>2, <2>1 DEF JoinIssue, AttachReport, TypeOK, ReportStatus
<1>3. ASSUME NEW r \in Reports, NEW n \in Issues, FoundIssue(r, n)
      PROVE  TypeOK'
  <2>1. HighestSeverity(Members(n) \cup {r}) \in Severities \cup {Unclassified}
    BY HighestSeverityTyped DEF Members
  <2> QED
    BY <1>3, <2>1
    DEF FoundIssue, AttachReport, TypeOK, ReportStatus, IssueStatus, OpenStatuses
<1>4. ASSUME NEW c \in Citizens, NEW i \in Issues, ConfirmIssue(c, i)
      PROVE  TypeOK'
  BY <1>4 DEF ConfirmIssue, TypeOK, reportVars
<1>5. ASSUME NEW c \in Citizens, NEW i \in Issues, WithdrawConfirmation(c, i)
      PROVE  TypeOK'
  BY <1>5 DEF WithdrawConfirmation, TypeOK, reportVars
<1>6. ASSUME NEW i \in Issues, NEW to \in IssueStatus, TransitionIssue(i, to)
      PROVE  TypeOK'
  <2>1. status[i] \in IssueStatus
    BY <1>6 DEF TransitionIssue, AllowedNext, Exists, TypeOK
  <2>2. events' \in [Issues -> Seq(StatusEvent)]
    BY <1>6, <2>1, RecordedEventTyped DEF TransitionIssue
  <2> QED
    BY <1>6, <2>2 DEF TransitionIssue, TypeOK, reportVars
<1>7. ASSUME NEW i \in Issues, NEW s \in Issues, MarkDuplicate(i, s)
      PROVE  TypeOK'
  <2>1. status[i] \in IssueStatus
    BY <1>7 DEF MarkDuplicate, AllowedNext, Exists, TypeOK
  <2>2. "duplicate" \in IssueStatus
    BY DEF IssueStatus
  <2>3. events' \in [Issues -> Seq(StatusEvent)]
    BY <1>7, <2>1, <2>2, RecordedEventTyped DEF MarkDuplicate
  <2> QED
    BY <1>7, <2>2, <2>3 DEF MarkDuplicate, TypeOK, reportVars
<1>8. ASSUME NEW i \in Issues, NEW n \in Issues, ReopenIssue(i, n)
      PROVE  TypeOK'
  <2>1. status[i] \in IssueStatus /\ "triaged" \in IssueStatus
    BY <1>8 DEF ReopenIssue, CanReopen, ReopenableStatuses, IssueStatus, OpenStatuses
  <2>2. events' \in [Issues -> Seq(StatusEvent)]
    BY <1>8, <2>1, RecordedEventTyped DEF ReopenIssue
  <2> QED
    BY <1>8, <2>1, <2>2 DEF ReopenIssue, TypeOK, reportVars
<1>9. ASSUME NEW s \in Issues, NEW a \in Issues, MergeIssues(s, a)
      PROVE  TypeOK'
  <2>1. status[a] \in IssueStatus /\ "duplicate" \in IssueStatus
    BY <1>9 DEF MergeIssues, MayMerge, IsOpen, IssueStatus
  <2>2. events' \in [Issues -> Seq(StatusEvent)]
    BY <1>9, <2>1, RecordedEventTyped DEF MergeIssues
  <2>3. MergedSeverity(s, a) \in Severities \cup {Unclassified}
    BY <1>9, HighestSeverityTyped DEF MergeIssues, MayMerge, MergedSeverity, Members
  <2>4. MergedConfirmers(s, a) \in SUBSET Citizens
    BY DEF MergedConfirmers, TypeOK
  <2> QED
    BY <1>9, <2>1, <2>2, <2>3, <2>4 DEF MergeIssues, TypeOK
<1>10. ASSUME NEW o \in Issues, NEW n \in Issues, NEW moved \in SUBSET Reports,
              SplitIssue(o, n, moved)
       PROVE  TypeOK'
  <2>1. "triaged" \in IssueStatus
    BY DEF IssueStatus, OpenStatuses
  <2>2. /\ HighestSeverity(Members(o) \ moved) \in Severities \cup {Unclassified}
        /\ HighestSeverity(moved) \in Severities \cup {Unclassified}
    BY <1>10, HighestSeverityTyped DEF SplitIssue, MaySplit, Members
  <2>3. FollowingConfirmers(o, moved) \in SUBSET Citizens
    BY DEF FollowingConfirmers, TypeOK
  <2> QED
    BY <1>10, <2>1, <2>2, <2>3 DEF SplitIssue, TypeOK
<1>11. ASSUME NEW i \in Issues, NEW verdict \in Verdicts, ModerateIssue(i, verdict)
       PROVE  TypeOK'
  BY <1>11, LifecycleAssumption
  DEF ModerateIssue, TypeOK, reportVars, IssueStatus, Moderated
<1>12. ASSUME NEW r \in Reports, NEW verdict \in Verdicts, ModerateReport(r, verdict)
       PROVE  TypeOK'
  BY <1>12, LifecycleAssumption
  DEF ModerateReport, TypeOK, issueVars, ReportStatus, Moderated
<1>13. CASE UNCHANGED vars
  BY <1>13 DEF vars, issueVars, reportVars, TypeOK
<1> QED
  BY <1>1, <1>2, <1>3, <1>4, <1>5, <1>6, <1>7, <1>8, <1>9, <1>10, <1>11, <1>12,
     <1>13
  DEF Next

\* Type correctness, for every instance.
THEOREM TypeCorrect == Spec => []TypeOK
<1>1. Init => TypeOK
  BY DEF Init, TypeOK, ReportStatus, Absent
<1> QED
  BY <1>1, TypePreserved, PTL DEF Spec

-----------------------------------------------------------------------------
(***************************************************************************)
(* The inductive invariant.  Each conjunct needs another one:              *)
(*  - a Report that is classified late must not be a member already, or    *)
(*    the severity of its Issue would be out of date (TriagedIffMember);   *)
(*  - a row that is created must not have members yet (TriagedIffMember);  *)
(*  - the survivor of a duplicate link must be a root of the link graph,   *)
(*    which its status has to show (LinkedAreRetired);                     *)
(*  - an Issue with a successor must never open again (SuccessorsFinal).   *)
(***************************************************************************)
LinkedAreRetired ==
    \A i \in Issues : dupOf[i] # None => status[i] \in {"duplicate"} \cup Moderated

SuccessorsFinal ==
    \A j \in Issues : reopenedFrom[j] # None =>
        /\ status[reopenedFrom[j]] \in ReopenableStatuses \cup Moderated
        /\ \A k \in Issues \ {j} : reopenedFrom[k] # reopenedFrom[j]

IInv ==
    /\ TypeOK
    /\ TriagedIffMember
    /\ ComputedIsHighestMember
    /\ LinkedAreRetired
    /\ DuplicateLinksEnd
    /\ SuccessorsFinal

\* A row that does not exist has no members.
LEMMA AbsentHasNoMembers ==
    ASSUME TypeOK, TriagedIffMember, NEW n \in Issues, ~Exists(n)
    PROVE  Members(n) = {}
BY LifecycleAssumption DEF TypeOK, TriagedIffMember, Members, Exists

\* Report.status, Report.issue and the severity signal stay in agreement.
LEMMA MembershipPreserved ==
    ASSUME TypeOK, TriagedIffMember, Next
    PROVE  TriagedIffMember'
<1> USE DEF TriagedIffMember, Exists, Absent
<1>1. ASSUME NEW r \in Reports, NEW s \in Severities, ClassifyReport(r, s)
      PROVE  TriagedIffMember'
  <2>1. s # Unclassified
    BY LifecycleAssumption DEF Unclassified
  <2> QED
    BY <1>1, <2>1 DEF ClassifyReport, issueVars, TypeOK
<1>2. ASSUME NEW r \in Reports, NEW i \in Issues, JoinIssue(r, i)
      PROVE  TriagedIffMember'
  BY <1>2, LifecycleAssumption
  DEF JoinIssue, ReadyToCluster, AttachReport, IsOpen, OpenStatuses, TypeOK
<1>3. ASSUME NEW r \in Reports, NEW n \in Issues, FoundIssue(r, n)
      PROVE  TriagedIffMember'
  BY <1>3, LifecycleAssumption
  DEF FoundIssue, ReadyToCluster, AttachReport, TypeOK
<1>4. ASSUME NEW c \in Citizens, NEW i \in Issues, ConfirmIssue(c, i)
      PROVE  TriagedIffMember'
  BY <1>4 DEF ConfirmIssue, reportVars
<1>5. ASSUME NEW c \in Citizens, NEW i \in Issues, WithdrawConfirmation(c, i)
      PROVE  TriagedIffMember'
  BY <1>5 DEF WithdrawConfirmation, reportVars
<1>6. ASSUME NEW i \in Issues, NEW to \in IssueStatus, TransitionIssue(i, to)
      PROVE  TriagedIffMember'
  BY <1>6
  DEF TransitionIssue, reportVars, TypeOK, IssueStatus, OpenStatuses, Moderated
<1>7. ASSUME NEW i \in Issues, NEW s \in Issues, MarkDuplicate(i, s)
      PROVE  TriagedIffMember'
  BY <1>7 DEF MarkDuplicate, reportVars, TypeOK
<1>8. ASSUME NEW i \in Issues, NEW n \in Issues, ReopenIssue(i, n)
      PROVE  TriagedIffMember'
  BY <1>8 DEF ReopenIssue, reportVars, TypeOK
<1>9. ASSUME NEW s \in Issues, NEW a \in Issues, MergeIssues(s, a)
      PROVE  TriagedIffMember'
  BY <1>9, LifecycleAssumption
  DEF MergeIssues, MayMerge, IsOpen, OpenStatuses, TypeOK
<1>10. ASSUME NEW o \in Issues, NEW n \in Issues, NEW moved \in SUBSET Reports,
              SplitIssue(o, n, moved)
       PROVE  TriagedIffMember'
  BY <1>10, LifecycleAssumption
  DEF SplitIssue, MaySplit, Members, TypeOK
<1>11. ASSUME NEW i \in Issues, NEW verdict \in Verdicts, ModerateIssue(i, verdict)
       PROVE  TriagedIffMember'
  BY <1>11, LifecycleAssumption DEF ModerateIssue, reportVars, TypeOK
<1>12. ASSUME NEW r \in Reports, NEW verdict \in Verdicts, ModerateReport(r, verdict)
       PROVE  TriagedIffMember'
  BY <1>12, LifecycleAssumption DEF ModerateReport, issueVars, TypeOK
<1> QED
  BY <1>1, <1>2, <1>3, <1>4, <1>5, <1>6, <1>7, <1>8, <1>9, <1>10, <1>11, <1>12
  DEF Next

\* The severity an Issue shows stays the highest among its members.
LEMMA SeverityPreserved ==
    ASSUME TypeOK, TriagedIffMember, ComputedIsHighestMember, Next
    PROVE  ComputedIsHighestMember'
<1> USE DEF ComputedIsHighestMember
<1>1. ASSUME NEW r \in Reports, NEW s \in Severities, ClassifyReport(r, s)
      PROVE  ComputedIsHighestMember'
  <2>1. issueOf[r] = None
    BY <1>1 DEF ClassifyReport, TriagedIffMember
  <2>2. \A i \in Issues : r \notin Members(i)
    BY <2>1, LifecycleAssumption DEF Members
  <2>3. /\ \A i \in Issues : Members(i)' = Members(i) /\ computed'[i] = computed[i]
        /\ \A q \in Reports \ {r} : signal'[q] = signal[q]
    BY <1>1 DEF ClassifyReport, issueVars, Members, TypeOK
  <2> QED
    BY <2>2, <2>3 DEF Members
<1>2. ASSUME NEW r \in Reports, NEW i \in Issues, issueOf[r] = None,
             AttachReport(r, i), UNCHANGED signal
      PROVE  ComputedIsHighestMember'
  <2>1. /\ Members(i)' = Members(i) \cup {r}
        /\ \A j \in Issues \ {i} : Members(j)' = Members(j)
    BY <1>2, LifecycleAssumption DEF AttachReport, Members, TypeOK
  <2>2. /\ computed'[i] = HighestSeverity(Members(i) \cup {r})
        /\ \A j \in Issues \ {i} : computed'[j] = computed[j]
    BY <1>2 DEF AttachReport, TypeOK
  <2>3. /\ \E q \in Members(i) \cup {r} :
             signal[q] = HighestSeverity(Members(i) \cup {r})
        /\ \A q \in Members(i) \cup {r} :
             signal[q] <= HighestSeverity(Members(i) \cup {r})
    BY HighestSeverityTyped DEF Members
  <2> QED
    BY <1>2, <2>1, <2>2, <2>3
<1>3. ASSUME NEW i \in Issues, NEW n \in Issues, ReopenIssue(i, n)
      PROVE  ComputedIsHighestMember'
  <2>1. Members(n) = {}
    BY <1>3, AbsentHasNoMembers DEF ReopenIssue
  <2>2. /\ \A j \in Issues : Members(j)' = Members(j)
        /\ \A j \in Issues \ {n} : computed'[j] = computed[j]
        /\ signal' = signal
    BY <1>3 DEF ReopenIssue, reportVars, Members, TypeOK
  <2> QED
    BY <2>1, <2>2
<1>4. ASSUME NEW s \in Issues, NEW a \in Issues, MergeIssues(s, a)
      PROVE  ComputedIsHighestMember'
  <2> DEFINE both == Members(s) \cup Members(a)
  <2>1. s # a /\ both # {} /\ both \in SUBSET Reports
    BY <1>4 DEF MergeIssues, MayMerge, Members
  <2>2. /\ Members(s)' = both
        /\ Members(a)' = {}
        /\ \A j \in Issues \ {s, a} : Members(j)' = Members(j)
    BY <1>4, <2>1 DEF MergeIssues, Members, TypeOK
  <2>3. /\ computed'[s] = HighestSeverity(both)
        /\ \A j \in Issues \ {s} : computed'[j] = computed[j]
        /\ signal' = signal
    BY <1>4 DEF MergeIssues, MergedSeverity, TypeOK
  <2>4. /\ \E q \in both : signal[q] = HighestSeverity(both)
        /\ \A q \in both : signal[q] <= HighestSeverity(both)
    BY <2>1, HighestSeverityTyped
  <2> QED
    BY <2>2, <2>3, <2>4
<1>5. ASSUME NEW o \in Issues, NEW n \in Issues, NEW moved \in SUBSET Reports,
             SplitIssue(o, n, moved)
      PROVE  ComputedIsHighestMember'
  <2> DEFINE rest == Members(o) \ moved
  <2>1. /\ o # n /\ Members(n) = {}
        /\ moved # {} /\ moved \subseteq Members(o)
        /\ rest # {} /\ rest \in SUBSET Reports
    BY <1>5, AbsentHasNoMembers
    DEF SplitIssue, MaySplit, Members, IsOpen, Exists, Absent, OpenStatuses
  <2>2. /\ Members(o)' = rest
        /\ Members(n)' = moved
        /\ \A j \in Issues \ {o, n} : Members(j)' = Members(j)
    BY <1>5, <2>1 DEF SplitIssue, Members, TypeOK
  <2>3. /\ computed'[o] = HighestSeverity(rest)
        /\ computed'[n] = HighestSeverity(moved)
        /\ \A j \in Issues \ {o, n} : computed'[j] = computed[j]
        /\ signal' = signal
    BY <1>5, <2>1 DEF SplitIssue, TypeOK
  <2>4. /\ \E q \in rest : signal[q] = HighestSeverity(rest)
        /\ \A q \in rest : signal[q] <= HighestSeverity(rest)
        /\ \E q \in moved : signal[q] = HighestSeverity(moved)
        /\ \A q \in moved : signal[q] <= HighestSeverity(moved)
    BY <2>1, HighestSeverityTyped
  <2> QED
    BY <2>2, <2>3, <2>4
<1>6. ASSUME UNCHANGED <<computed, issueOf, signal>>
      PROVE  ComputedIsHighestMember'
  BY <1>6 DEF Members
<1> QED
  BY <1>1, <1>2, <1>3, <1>4, <1>5, <1>6
  DEF Next, JoinIssue, FoundIssue, ReadyToCluster, ConfirmIssue,
      WithdrawConfirmation, TransitionIssue, MarkDuplicate, ModerateIssue,
      ModerateReport, issueVars, reportVars

\* Only a retired or moderated Issue carries a duplicate link.
LEMMA LinkedPreserved ==
    ASSUME TypeOK, LinkedAreRetired, Next
    PROVE  LinkedAreRetired'
<1> USE DEF LinkedAreRetired, Absent
<1>1. ASSUME NEW r \in Reports, NEW n \in Issues, FoundIssue(r, n)
      PROVE  LinkedAreRetired'
  BY <1>1 DEF FoundIssue, Exists, Moderated, TypeOK
<1>2. ASSUME NEW i \in Issues, NEW to \in IssueStatus, TransitionIssue(i, to)
      PROVE  LinkedAreRetired'
  BY <1>2 DEF TransitionIssue, TypeOK
<1>3. ASSUME NEW i \in Issues, NEW s \in Issues, MarkDuplicate(i, s)
      PROVE  LinkedAreRetired'
  BY <1>3 DEF MarkDuplicate, TypeOK
<1>4. ASSUME NEW i \in Issues, NEW n \in Issues, ReopenIssue(i, n)
      PROVE  LinkedAreRetired'
  BY <1>4 DEF ReopenIssue, Exists, Moderated, TypeOK
<1>5. ASSUME NEW s \in Issues, NEW a \in Issues, MergeIssues(s, a)
      PROVE  LinkedAreRetired'
  BY <1>5 DEF MergeIssues, TypeOK
<1>6. ASSUME NEW o \in Issues, NEW n \in Issues, NEW moved \in SUBSET Reports,
             SplitIssue(o, n, moved)
      PROVE  LinkedAreRetired'
  BY <1>6 DEF SplitIssue, Exists, Moderated, TypeOK
<1>7. ASSUME NEW i \in Issues, NEW verdict \in Verdicts, ModerateIssue(i, verdict)
      PROVE  LinkedAreRetired'
  BY <1>7, LifecycleAssumption DEF ModerateIssue, Moderated, TypeOK
<1>8. ASSUME UNCHANGED <<status, dupOf>>
      PROVE  LinkedAreRetired'
  BY <1>8
<1> QED
  BY <1>1, <1>2, <1>3, <1>4, <1>5, <1>6, <1>7, <1>8
  DEF Next, ClassifyReport, JoinIssue, ConfirmIssue, WithdrawConfirmation,
      ModerateReport, issueVars

\* A new link from i to an Issue without a link closes no cycle: a set that
\* the survivor belongs to is left at the survivor, any other set that i
\* belongs to is left at i.
LEMMA LinkToRootEnds ==
    ASSUME TypeOK, DuplicateLinksEnd,
           NEW i \in Issues, NEW s \in Issues, i # s, dupOf[s] = None,
           dupOf' = [dupOf EXCEPT ![i] = s]
    PROVE  DuplicateLinksEnd'
<1> SUFFICES ASSUME NEW S \in SUBSET Issues, S # {}
             PROVE  \E j \in S : dupOf'[j] \notin S
  BY DEF DuplicateLinksEnd
<1>1. \A j \in Issues : dupOf'[j] = IF j = i THEN s ELSE dupOf[j]
  BY DEF TypeOK
<1>2. CASE s \in S
  BY <1>1, <1>2, LifecycleAssumption
<1>3. CASE s \notin S /\ i \in S
  BY <1>1, <1>3
<1>4. CASE s \notin S /\ i \notin S
  BY <1>1, <1>4 DEF DuplicateLinksEnd
<1> QED
  BY <1>2, <1>3, <1>4

\* No operation closes a cycle of duplicate links.
LEMMA LinksEndPreserved ==
    ASSUME TypeOK, LinkedAreRetired, DuplicateLinksEnd, Next
    PROVE  DuplicateLinksEnd'
<1>1. ASSUME NEW i \in Issues, NEW to \in IssueStatus, TransitionIssue(i, to)
      PROVE  DuplicateLinksEnd'
  <2> SUFFICES ASSUME NEW S \in SUBSET Issues, S # {}
               PROVE  \E j \in S : dupOf'[j] \notin S
    BY DEF DuplicateLinksEnd
  <2>1. \A j \in Issues : dupOf'[j] \in {None, dupOf[j]}
    BY <1>1 DEF TransitionIssue, TypeOK
  <2>2. PICK j \in S : dupOf[j] \notin S
    BY DEF DuplicateLinksEnd
  <2> QED
    BY <2>1, <2>2, LifecycleAssumption
<1>2. ASSUME NEW i \in Issues, NEW s \in Issues, MarkDuplicate(i, s)
      PROVE  DuplicateLinksEnd'
  <2>1. dupOf[s] = None /\ i # s
    BY <1>2 DEF MarkDuplicate, CanSurvive, LinkedAreRetired
  <2> QED
    BY <1>2, <2>1, LinkToRootEnds DEF MarkDuplicate
<1>3. ASSUME NEW s \in Issues, NEW a \in Issues, MergeIssues(s, a)
      PROVE  DuplicateLinksEnd'
  <2>1. dupOf[s] = None /\ a # s
    BY <1>3
    DEF MergeIssues, MayMerge, IsOpen, OpenStatuses, Moderated, LinkedAreRetired
  <2> QED
    BY <1>3, <2>1, LinkToRootEnds DEF MergeIssues
<1>4. ASSUME UNCHANGED dupOf
      PROVE  DuplicateLinksEnd'
  BY <1>4 DEF DuplicateLinksEnd
<1> QED
  BY <1>1, <1>2, <1>3, <1>4
  DEF Next, ClassifyReport, JoinIssue, FoundIssue, ConfirmIssue,
      WithdrawConfirmation, ReopenIssue, SplitIssue, ModerateIssue,
      ModerateReport, issueVars

\* No edge of the graph leads out of the finished and moderated statuses
\* except the one from resolved to closed.
LEMMA FinishedStaysFinished ==
    ASSUME NEW from \in ReopenableStatuses \cup Moderated,
           NEW to \in TransitionsFrom[from]
    PROVE  to = "closed"
<1>1. TransitionsFrom["resolved"] = {"closed"}
  BY DEF TransitionsFrom, IssueStatus
<1>2. TransitionsFrom["closed"] = {}
  BY DEF TransitionsFrom, IssueStatus
<1>3. TransitionsFrom["hidden"] = {} /\ TransitionsFrom["removed"] = {}
  BY DEF TransitionsFrom, IssueStatus, Moderated
<1> QED
  BY <1>1, <1>2, <1>3 DEF ReopenableStatuses, Moderated

\* An Issue with a successor leaves its finished status for moderation only,
\* and gets no second successor.
LEMMA SuccessorsPreserved ==
    ASSUME TypeOK, SuccessorsFinal, Next
    PROVE  SuccessorsFinal'
<1> USE DEF SuccessorsFinal, ReopenableStatuses, Moderated, Absent
<1>1. ASSUME UNCHANGED reopenedFrom,
             \A i \in Issues :
               \/ status'[i] = status[i]
               \/ status[i] \notin ReopenableStatuses \cup Moderated
               \/ status'[i] \in ReopenableStatuses \cup Moderated
      PROVE  SuccessorsFinal'
  BY <1>1 DEF TypeOK
<1>2. ASSUME NEW r \in Reports, NEW n \in Issues, FoundIssue(r, n)
      PROVE  SuccessorsFinal'
  BY <1>1, <1>2 DEF FoundIssue, Exists, TypeOK
<1>3. ASSUME NEW i \in Issues, NEW to \in IssueStatus, TransitionIssue(i, to)
      PROVE  SuccessorsFinal'
  <2>1. /\ status[i] \in IssueStatus
        /\ to \in TransitionsFrom[status[i]]
        /\ status' = [status EXCEPT ![i] = to]
        /\ UNCHANGED reopenedFrom
    BY <1>3 DEF TransitionIssue, AllowedNext, Exists, TypeOK
  <2>2. status[i] \in ReopenableStatuses \cup Moderated => to \in ReopenableStatuses
    BY <2>1, FinishedStaysFinished
  <2> QED
    BY <1>1, <2>1, <2>2 DEF TypeOK
<1>4. ASSUME NEW i \in Issues, NEW s \in Issues, MarkDuplicate(i, s)
      PROVE  SuccessorsFinal'
  <2>1. /\ status[i] \in IssueStatus
        /\ "duplicate" \in TransitionsFrom[status[i]]
    BY <1>4 DEF MarkDuplicate, AllowedNext, Exists, TypeOK
  <2>2. status[i] \notin ReopenableStatuses \cup Moderated
    BY <2>1, FinishedStaysFinished
  <2> QED
    BY <1>1, <1>4, <2>2 DEF MarkDuplicate, TypeOK
<1>5. ASSUME NEW i \in Issues, NEW n \in Issues, ReopenIssue(i, n)
      PROVE  SuccessorsFinal'
  <2>1. /\ i # n
        /\ status[i] \in ReopenableStatuses
        /\ \A j \in Issues : reopenedFrom[j] \notin {i, n}
    BY <1>5, LifecycleAssumption DEF ReopenIssue, CanReopen, Exists
  <2>2. /\ reopenedFrom'[n] = i
        /\ \A j \in Issues \ {n} :
             reopenedFrom'[j] = reopenedFrom[j] /\ status'[j] = status[j]
    BY <1>5 DEF ReopenIssue, TypeOK
  <2>3. \A j \in Issues : reopenedFrom[j] \in Issues \cup {None}
    BY DEF TypeOK
  <2> QED
    BY <2>1, <2>2, <2>3
<1>6. ASSUME NEW s \in Issues, NEW a \in Issues, MergeIssues(s, a)
      PROVE  SuccessorsFinal'
  BY <1>1, <1>6 DEF MergeIssues, MayMerge, IsOpen, OpenStatuses, TypeOK
<1>7. ASSUME NEW o \in Issues, NEW n \in Issues, NEW moved \in SUBSET Reports,
             SplitIssue(o, n, moved)
      PROVE  SuccessorsFinal'
  BY <1>1, <1>7 DEF SplitIssue, Exists, TypeOK
<1>8. ASSUME NEW i \in Issues, NEW verdict \in Verdicts, ModerateIssue(i, verdict)
      PROVE  SuccessorsFinal'
  BY <1>1, <1>8, LifecycleAssumption DEF ModerateIssue, TypeOK
<1>9. ASSUME UNCHANGED <<status, reopenedFrom>>
      PROVE  SuccessorsFinal'
  BY <1>9
<1> QED
  BY <1>2, <1>3, <1>4, <1>5, <1>6, <1>7, <1>8, <1>9
  DEF Next, ClassifyReport, JoinIssue, ConfirmIssue, WithdrawConfirmation,
      ModerateReport, issueVars

-----------------------------------------------------------------------------
\* The strengthened invariant holds initially and every step preserves it.
THEOREM Invariance == Spec => []IInv
<1>1. Init => IInv
  <2> SUFFICES ASSUME Init PROVE IInv
    OBVIOUS
  <2>1. TypeOK
    BY DEF Init, TypeOK, ReportStatus, Absent
  <2>2. TriagedIffMember
    BY DEF Init, TriagedIffMember
  <2>3. ComputedIsHighestMember
    BY LifecycleAssumption DEF Init, ComputedIsHighestMember, Members
  <2>4. LinkedAreRetired /\ SuccessorsFinal
    BY DEF Init, LinkedAreRetired, SuccessorsFinal
  <2>5. DuplicateLinksEnd
    <3> SUFFICES ASSUME NEW S \in SUBSET Issues, S # {}
                 PROVE  \E i \in S : dupOf[i] \notin S
      BY DEF DuplicateLinksEnd
    <3>1. \A i \in Issues : dupOf[i] = None
      BY DEF Init
    <3> QED
      BY <3>1, LifecycleAssumption
  <2> QED
    BY <2>1, <2>2, <2>3, <2>4, <2>5 DEF IInv
<1>2. IInv /\ [Next]_vars => IInv'
  <2> SUFFICES ASSUME IInv, [Next]_vars PROVE IInv'
    OBVIOUS
  <2>1. CASE Next
    BY <2>1, TypePreserved, MembershipPreserved, SeverityPreserved,
       LinkedPreserved, LinksEndPreserved, SuccessorsPreserved
    DEF IInv
  <2>2. CASE UNCHANGED vars
    <3> USE <2>2 DEF vars, issueVars, reportVars
    <3>1. TypeOK'
      BY TypePreserved DEF IInv
    <3>2. TriagedIffMember'
      BY DEF IInv, TriagedIffMember, Exists
    <3>3. ComputedIsHighestMember'
      BY DEF IInv, ComputedIsHighestMember, Members
    <3>4. LinkedAreRetired' /\ SuccessorsFinal'
      BY DEF IInv, LinkedAreRetired, SuccessorsFinal
    <3>5. DuplicateLinksEnd'
      BY DEF IInv, DuplicateLinksEnd
    <3> QED
      BY <3>1, <3>2, <3>3, <3>4, <3>5 DEF IInv
  <2> QED
    BY <2>1, <2>2
<1> QED
  BY <1>1, <1>2, PTL DEF Spec

\* BR-11 for every instance: the severity an Issue shows is the highest among
\* its members, through every interleaving of clustering, merge and split.
THEOREM SeverityCorrect == Spec => []ComputedIsHighestMember
<1>1. IInv => ComputedIsHighestMember
  BY DEF IInv
<1> QED
  BY <1>1, Invariance, PTL

\* A Report is triaged exactly when it is the member of an Issue, for every
\* instance.
THEOREM MembershipCorrect == Spec => []TriagedIffMember
<1>1. IInv => TriagedIffMember
  BY DEF IInv
<1> QED
  BY <1>1, Invariance, PTL

\* BR-17 for every instance: duplicate links have no cycle, so following them
\* ends at an Issue that is nobody's duplicate.
THEOREM DuplicateLinksCorrect == Spec => []DuplicateLinksEnd
<1>1. IInv => DuplicateLinksEnd
  BY DEF IInv
<1> QED
  BY <1>1, Invariance, PTL

\* DM-Q8 for every instance: a reopened Issue stays finished and has exactly
\* one successor.
THEOREM ReopeningCorrect == Spec => []ReopenedStaysFinished
<1>1. IInv => ReopenedStaysFinished
  BY DEF IInv, SuccessorsFinal, ReopenedStaysFinished, ReopenableStatuses,
         Moderated, IsOpen, OpenStatuses
<1> QED
  BY <1>1, Invariance, PTL

\* BR-32 for every instance: no step brings a moderated Issue or Report back.
THEOREM ModerationCorrect == Spec => ModerationIsFinal
<1> DEFINE Final ==
      /\ \A i \in Issues : status[i] \in Moderated => status'[i] \in Moderated
      /\ \A r \in Reports :
           reportStatus[r] \in Moderated => reportStatus'[r] \in Moderated
<1>1. IInv /\ [Next]_vars => [Final]_vars
  <2> SUFFICES ASSUME IInv, Next PROVE Final
    OBVIOUS
  <2>1. TypeOK
    BY DEF IInv
  <2>2. ASSUME NEW r \in Reports, NEW i \in Issues, JoinIssue(r, i)
        PROVE  Final
    BY <2>1, <2>2 DEF JoinIssue, ReadyToCluster, AttachReport, TypeOK
  <2>3. ASSUME NEW r \in Reports, NEW n \in Issues, FoundIssue(r, n)
        PROVE  Final
    BY <2>1, <2>3
    DEF FoundIssue, ReadyToCluster, AttachReport, Exists, Absent, Moderated, TypeOK
  <2>4. ASSUME NEW i \in Issues, NEW to \in IssueStatus, TransitionIssue(i, to)
        PROVE  Final
    <3>1. status[i] \notin Moderated
      <4> SUFFICES ASSUME status[i] \in Moderated PROVE FALSE
        OBVIOUS
      <4>1. TransitionsFrom[status[i]] = {}
        BY DEF TransitionsFrom, IssueStatus, Moderated
      <4> QED
        BY <2>4, <4>1 DEF TransitionIssue, AllowedNext
    <3> QED
      BY <2>1, <2>4, <3>1 DEF TransitionIssue, reportVars, TypeOK
  <2>5. ASSUME NEW i \in Issues, NEW s \in Issues, MarkDuplicate(i, s)
        PROVE  Final
    <3>1. status[i] \notin Moderated
      <4> SUFFICES ASSUME status[i] \in Moderated PROVE FALSE
        OBVIOUS
      <4>1. TransitionsFrom[status[i]] = {}
        BY DEF TransitionsFrom, IssueStatus, Moderated
      <4> QED
        BY <2>5, <4>1 DEF MarkDuplicate, AllowedNext
    <3> QED
      BY <2>1, <2>5, <3>1 DEF MarkDuplicate, reportVars, TypeOK
  <2>6. ASSUME NEW i \in Issues, NEW n \in Issues, ReopenIssue(i, n)
        PROVE  Final
    BY <2>1, <2>6 DEF ReopenIssue, Exists, Absent, Moderated, reportVars, TypeOK
  <2>7. ASSUME NEW s \in Issues, NEW a \in Issues, MergeIssues(s, a)
        PROVE  Final
    BY <2>1, <2>7
    DEF MergeIssues, MayMerge, IsOpen, OpenStatuses, Moderated, TypeOK
  <2>8. ASSUME NEW o \in Issues, NEW n \in Issues, NEW moved \in SUBSET Reports,
               SplitIssue(o, n, moved)
        PROVE  Final
    BY <2>1, <2>8 DEF SplitIssue, Exists, Absent, Moderated, TypeOK
  <2>9. ASSUME NEW i \in Issues, NEW verdict \in Verdicts, ModerateIssue(i, verdict)
        PROVE  Final
    BY <2>1, <2>9, LifecycleAssumption
    DEF ModerateIssue, Moderated, reportVars, TypeOK
  <2>10. ASSUME NEW r \in Reports, NEW verdict \in Verdicts, ModerateReport(r, verdict)
         PROVE  Final
    BY <2>1, <2>10, LifecycleAssumption
    DEF ModerateReport, Moderated, issueVars, TypeOK
  <2>11. ASSUME UNCHANGED <<status, reportStatus>>
         PROVE  Final
    BY <2>11
  <2> QED
    BY <2>2, <2>3, <2>4, <2>5, <2>6, <2>7, <2>8, <2>9, <2>10, <2>11
    DEF Next, ClassifyReport, ConfirmIssue, WithdrawConfirmation, issueVars,
        reportVars
<1>2. ModerationIsFinal <=> [][Final]_vars
  BY DEF ModerationIsFinal
<1> QED
  BY <1>1, <1>2, Invariance, PTL DEF Spec

-----------------------------------------------------------------------------
(***************************************************************************)
(* The history of an Issue.  What it says of the past does not change when *)
(* an event is added, because the last change among the first k events is  *)
(* one of these k; and an event is only added while the Issue is in the    *)
(* status that the history ends with.                                      *)
(***************************************************************************)
Changes(h, k) == {j \in 1..k : h[j].to # ReopenAction}

Last(S) == CHOOSE j \in S : \A m \in S : m <= j

EndOf(h, k) == IF Changes(h, k) = {} THEN "triaged" ELSE h[Last(Changes(h, k))].to

Explained(s, h) ==
    /\ s \in Moderated \cup {EndOf(h, Len(h))}
    /\ \A k \in 1..Len(h) : h[k].from = EndOf(h, k - 1)

LEMMA HistoryIsExplained ==
    HistoryExplainsStatus <=> \A i \in Issues : Exists(i) => Explained(status[i], events[i])
<1>1. \A i, k : EndOfHistory(i, k) = EndOf(events[i], k)
  BY DEF EndOfHistory, EndOf, Changes, Last
<1> QED
  BY <1>1 DEF HistoryExplainsStatus, Explained

LEMMA LastExists ==
    ASSUME NEW k \in Nat, NEW S \in SUBSET (1..k), S # {}
    PROVE  Last(S) \in S /\ \A m \in S : m <= Last(S)
<1> DEFINE Back == {k - j : j \in S}
<1>1. \A j \in S : k - j \in Nat /\ j \in Nat
  OBVIOUS
<1>2. Back \subseteq Nat /\ Back # {}
  BY <1>1
<1>3. PICK x \in Back : \A y \in Back : ~(<<y, x>> \in OpToRel(<, Nat))
  <2> HIDE DEF Back
  <2> QED
    BY <1>2, WFMin, NatLessThanWellFounded
<1>4. \A y \in Back : ~(y < x)
  BY <1>2, <1>3 DEF OpToRel
<1>5. PICK j \in S : x = k - j
  BY <1>3
<1>6. \A m \in S : m <= j
  <2> TAKE m \in S
  <2>1. k - m \in Back
    OBVIOUS
  <2>2. ~(k - m < x)
    <3> HIDE DEF Back
    <3> QED
      BY <1>4, <2>1
  <2>3. m \in Nat /\ j \in Nat
    BY <1>1
  <2> QED
    BY <1>5, <2>2, <2>3
<1> QED
  BY <1>6 DEF Last

\* Two histories whose first k events agree end alike.
LEMMA SameEnd ==
    ASSUME NEW g, NEW h, NEW k \in Nat, \A j \in 1..k : g[j] = h[j]
    PROVE  EndOf(g, k) = EndOf(h, k)
<1>1. Changes(g, k) = Changes(h, k) /\ Changes(h, k) \subseteq 1..k
  BY DEF Changes
<1>2. Changes(h, k) # {} => Last(Changes(h, k)) \in 1..k
  BY <1>1, LastExists
<1> QED
  BY <1>1, <1>2 DEF EndOf

\* An added change is where the history ends; a reopening leaves the end.
LEMMA AddedEnd ==
    ASSUME NEW g, NEW h, NEW n \in Nat, \A j \in 1..n : g[j] = h[j]
    PROVE  EndOf(g, n + 1) = IF g[n + 1].to = ReopenAction THEN EndOf(h, n) ELSE g[n + 1].to
<1>1. CASE g[n + 1].to = ReopenAction
  <2>1. Changes(g, n + 1) = Changes(g, n)
    BY <1>1 DEF Changes
  <2> QED
    BY <1>1, <2>1, SameEnd DEF EndOf
<1>2. CASE g[n + 1].to # ReopenAction
  <2>1. n + 1 \in Changes(g, n + 1) /\ Changes(g, n + 1) \in SUBSET (1..(n + 1))
    BY <1>2 DEF Changes
  <2>2. /\ Last(Changes(g, n + 1)) \in Changes(g, n + 1)
        /\ n + 1 <= Last(Changes(g, n + 1))
    BY <2>1, LastExists
  <2>3. Last(Changes(g, n + 1)) = n + 1
    BY <2>1, <2>2
  <2> QED
    BY <1>2, <2>1, <2>3 DEF EndOf
<1> QED
  BY <1>1, <1>2

HistoryInv ==
    \A i \in Issues : /\ Exists(i) => Explained(status[i], events[i])
                      /\ ~Exists(i) => events[i] = <<>>

\* A status that is written without an event: a new row, or a verdict.
Unrecorded(i) ==
    \/ status'[i] = status[i]
    \/ ~Exists(i) /\ status'[i] = "triaged"
    \/ Exists(i) /\ status'[i] \in Moderated

LEMMA UnrecordedKept ==
    ASSUME HistoryInv, NEW i \in Issues, events'[i] = events[i], Unrecorded(i)
    PROVE  /\ status'[i] # Absent => Explained(status'[i], events'[i])
           /\ status'[i] = Absent => events'[i] = <<>>
<1>1. CASE Exists(i)
  BY <1>1 DEF HistoryInv, Unrecorded, Exists, Explained, Moderated, Absent
<1>2. CASE ~Exists(i) /\ status'[i] = status[i]
  BY <1>2 DEF HistoryInv, Exists
<1>3. CASE ~Exists(i) /\ status'[i] = "triaged"
  <2>1. events'[i] = <<>>
    BY <1>3 DEF HistoryInv
  <2>2. EndOf(<<>>, 0) = "triaged" /\ Len(<<>>) = 0
    BY DEF EndOf, Changes
  <2>3. \A k \in 1..0 : FALSE
    OBVIOUS
  <2> QED
    BY <1>3, <2>1, <2>2, <2>3 DEF Explained, Absent
<1> QED
  BY <1>1, <1>2, <1>3 DEF Unrecorded

\* An event that starts from the status of an Issue that is not moderated.
LEMMA RecordedKept ==
    ASSUME TypeOK, HistoryInv, NEW i \in Issues, NEW to, NEW related,
           RecordStatusEvent(i, to, related),
           Exists(i), status[i] \notin Moderated,
           status'[i] = IF to = ReopenAction THEN status[i] ELSE to, status'[i] # Absent,
           \A j \in Issues \ {i} : Unrecorded(j)
    PROVE  HistoryInv'
<1> DEFINE e == [from |-> status[i], to |-> to, related |-> related]
           h == events[i]
           g == Append(h, e)
           n == Len(h)
<1>1. /\ events'[i] = g /\ \A j \in Issues \ {i} : events'[j] = events[j]
  BY DEF RecordStatusEvent, TypeOK
<1>2. h \in Seq(StatusEvent) /\ n \in Nat
  BY DEF TypeOK
<1>3. Len(g) = n + 1 /\ g[n + 1] = e /\ \A j \in 1..n : g[j] = h[j]
  <2> HIDE DEF e
  <2> QED
    BY <1>2
<1>4. Explained(status[i], h) /\ status[i] = EndOf(h, n)
  BY DEF HistoryInv, Explained
<1>5. EndOf(g, n + 1) = status'[i]
  <2> HIDE DEF g, n, h
  <2>1. EndOf(g, n + 1) = IF g[n + 1].to = ReopenAction THEN EndOf(h, n) ELSE g[n + 1].to
    BY <1>2, <1>3, AddedEnd
  <2> QED
    BY <1>3, <1>4, <2>1
<1>6. \A k \in 1..(n + 1) : g[k].from = EndOf(g, k - 1)
  <2> HIDE DEF g, n, h
  <2> TAKE k \in 1..(n + 1)
  <2>1. EndOf(g, k - 1) = EndOf(h, k - 1)
    <3>1. k - 1 \in Nat /\ \A j \in 1..(k - 1) : g[j] = h[j]
      BY <1>2, <1>3
    <3> QED
      BY <3>1, SameEnd
  <2>2. CASE k = n + 1
    BY <1>2, <1>3, <1>4, <2>1, <2>2
  <2>3. CASE k \in 1..n
    BY <1>3, <1>4, <2>1, <2>3 DEF Explained, n
  <2> QED
    BY <1>2, <2>2, <2>3
<1>7. Explained(status'[i], events'[i])
  <2> HIDE DEF g, n, h
  <2> QED
    BY <1>1, <1>3, <1>5, <1>6 DEF Explained
<1>8. \A j \in Issues \ {i} : /\ status'[j] # Absent => Explained(status'[j], events'[j])
                              /\ status'[j] = Absent => events'[j] = <<>>
  BY <1>1, UnrecordedKept
<1> QED
  BY <1>7, <1>8 DEF HistoryInv, Exists, Absent

LEMMA NoneRecorded ==
    ASSUME HistoryInv, UNCHANGED events, \A j \in Issues : Unrecorded(j)
    PROVE  HistoryInv'
<1>1. \A j \in Issues : /\ status'[j] # Absent => Explained(status'[j], events'[j])
                        /\ status'[j] = Absent => events'[j] = <<>>
  BY UnrecordedKept
<1> QED
  BY <1>1 DEF HistoryInv, Exists, Absent

\* No edge leads out of moderation.
LEMMA EdgesStartUnmoderated ==
    ASSUME TypeOK, NEW i \in Issues, AllowedNext(i) # {}
    PROVE  Exists(i) /\ status[i] \in IssueStatus /\ status[i] \notin Moderated
<1>1. Exists(i) /\ status[i] \in IssueStatus
  BY DEF AllowedNext, TypeOK, Exists
<1>2. \A s \in Moderated : TransitionsFrom[s] = {}
  BY DEF TransitionsFrom, IssueStatus, Moderated
<1> QED
  BY <1>1, <1>2 DEF AllowedNext

LEMMA HistoryPreserved ==
    ASSUME TypeOK, HistoryInv, [Next]_vars
    PROVE  HistoryInv'
<1>1. ASSUME NEW n \in Issues, ~Exists(n), status' = [status EXCEPT ![n] = "triaged"],
             UNCHANGED events
      PROVE  HistoryInv'
  BY <1>1, NoneRecorded DEF TypeOK, Unrecorded
<1>2. ASSUME NEW i \in Issues, NEW to \in IssueStatus, TransitionIssue(i, to)
      PROVE  HistoryInv'
  <2>1. Exists(i) /\ status[i] \notin Moderated
    BY <1>2, EdgesStartUnmoderated DEF TransitionIssue
  <2>2. status'[i] = to /\ \A j \in Issues \ {i} : status'[j] = status[j]
    BY <1>2 DEF TransitionIssue, TypeOK
  <2>3. to # ReopenAction /\ to # Absent
    BY DEF IssueStatus, OpenStatuses, Moderated, ReopenAction, Absent
  <2> QED
    BY <1>2, <2>1, <2>2, <2>3, RecordedKept DEF TransitionIssue, Unrecorded
<1>3. ASSUME NEW i \in Issues, NEW s \in Issues, MarkDuplicate(i, s)
      PROVE  HistoryInv'
  <2>1. Exists(i) /\ status[i] \notin Moderated
    BY <1>3, EdgesStartUnmoderated DEF MarkDuplicate
  <2>2. status'[i] = "duplicate" /\ \A j \in Issues \ {i} : status'[j] = status[j]
    BY <1>3 DEF MarkDuplicate, TypeOK
  <2>3. "duplicate" # ReopenAction /\ "duplicate" # Absent
    BY DEF ReopenAction, Absent
  <2> QED
    BY <1>3, <2>1, <2>2, <2>3, RecordedKept DEF MarkDuplicate, Unrecorded
<1>4. ASSUME NEW i \in Issues, NEW n \in Issues, ReopenIssue(i, n)
      PROVE  HistoryInv'
  <2>1. Exists(i) /\ status[i] \notin Moderated /\ ~Exists(n) /\ i # n
    BY <1>4 DEF ReopenIssue, CanReopen, ReopenableStatuses, Moderated, Exists, Absent
  <2>2. status'[i] = status[i] /\ \A j \in Issues \ {i} : Unrecorded(j)
    BY <1>4, <2>1 DEF ReopenIssue, TypeOK, Unrecorded
  <2> QED
    BY <1>4, <2>1, <2>2, RecordedKept DEF ReopenIssue, Exists
<1>5. ASSUME NEW s \in Issues, NEW a \in Issues, MergeIssues(s, a)
      PROVE  HistoryInv'
  <2>1. Exists(a) /\ status[a] \notin Moderated
    BY <1>5 DEF MergeIssues, MayMerge, IsOpen, OpenStatuses, Moderated, Exists, Absent
  <2>2. status'[a] = "duplicate" /\ \A j \in Issues \ {a} : status'[j] = status[j]
    BY <1>5 DEF MergeIssues, TypeOK
  <2>3. "duplicate" # ReopenAction /\ "duplicate" # Absent
    BY DEF ReopenAction, Absent
  <2> QED
    BY <1>5, <2>1, <2>2, <2>3, RecordedKept DEF MergeIssues, Unrecorded
<1>6. ASSUME NEW i \in Issues, NEW verdict \in Verdicts, ModerateIssue(i, verdict)
      PROVE  HistoryInv'
  BY <1>6, LifecycleAssumption, NoneRecorded DEF ModerateIssue, TypeOK, Unrecorded, Moderated
<1>7. ASSUME UNCHANGED <<status, events>>
      PROVE  HistoryInv'
  BY <1>7, NoneRecorded DEF Unrecorded
<1> QED
  BY <1>1, <1>2, <1>3, <1>4, <1>5, <1>6, <1>7
  DEF Next, ClassifyReport, JoinIssue, FoundIssue, ConfirmIssue, WithdrawConfirmation,
      SplitIssue, ModerateReport, issueVars, vars

\* BR-16, BR-28, BR-31 for every instance: the StatusEvents of an Issue are a
\* gapless history that explains its status, however transitions, merges,
\* reopenings, splits and moderation follow each other.
THEOREM HistoryCorrect == Spec => []HistoryExplainsStatus
<1>1. Init => HistoryInv
  BY DEF Init, HistoryInv, Exists
<1>2. TypeOK /\ HistoryInv /\ [Next]_vars => HistoryInv'
  BY HistoryPreserved
<1>3. HistoryInv => HistoryExplainsStatus
  BY HistoryIsExplained DEF HistoryInv
<1> QED
  BY <1>1, <1>2, <1>3, TypeCorrect, PTL DEF Spec

-----------------------------------------------------------------------------
\* Nobody confirms a row that does not exist.
AbsentUnconfirmed == \A i \in Issues : ~Exists(i) => confirmers[i] = {}

LEMMA AbsentStaysUnconfirmed ==
    ASSUME TypeOK, AbsentUnconfirmed, [Next]_vars
    PROVE  AbsentUnconfirmed'
<1> USE DEF AbsentUnconfirmed, Exists
<1>1. ASSUME \A i \in Issues : status'[i] = Absent => status[i] = Absent /\ confirmers'[i] = confirmers[i]
      PROVE  AbsentUnconfirmed'
  BY <1>1 DEF Absent
<1>2. ASSUME NEW c \in Citizens, NEW i \in Issues, ConfirmIssue(c, i) \/ WithdrawConfirmation(c, i)
      PROVE  AbsentUnconfirmed'
  BY <1>1, <1>2 DEF ConfirmIssue, WithdrawConfirmation, TypeOK
<1>3. ASSUME NEW i \in Issues, NEW to \in IssueStatus, UNCHANGED confirmers,
             status' = [status EXCEPT ![i] = to]
      PROVE  AbsentUnconfirmed'
  <2>1. to # Absent
    BY DEF IssueStatus, OpenStatuses, Moderated, Absent
  <2> QED
    BY <1>1, <1>3, <2>1 DEF TypeOK
<1>4. ASSUME NEW s \in Issues, NEW a \in Issues, MergeIssues(s, a) PROVE AbsentUnconfirmed'
  <2>1. status[s] # Absent /\ status[a] # Absent
    BY <1>4 DEF MergeIssues, MayMerge, IsOpen, OpenStatuses, Absent
  <2>2. status' = [status EXCEPT ![a] = "duplicate"] /\ "duplicate" # Absent
    BY <1>4 DEF MergeIssues, Absent
  <2>3. \A j \in Issues \ {s, a} : confirmers'[j] = confirmers[j]
    BY <1>4 DEF MergeIssues, TypeOK
  <2> QED
    BY <1>1, <2>1, <2>2, <2>3 DEF TypeOK
<1>5. ASSUME NEW o \in Issues, NEW n \in Issues, NEW moved \in SUBSET Reports, SplitIssue(o, n, moved)
      PROVE  AbsentUnconfirmed'
  <2>1. status[o] # Absent
    BY <1>5 DEF SplitIssue, MaySplit, IsOpen, OpenStatuses, Absent
  <2>2. status' = [status EXCEPT ![n] = "triaged"] /\ "triaged" # Absent
    BY <1>5 DEF SplitIssue, Absent
  <2>3. \A j \in Issues \ {o, n} : confirmers'[j] = confirmers[j]
    BY <1>5 DEF SplitIssue, TypeOK
  <2> QED
    BY <1>1, <2>1, <2>2, <2>3 DEF TypeOK
<1>6. ASSUME UNCHANGED <<status, confirmers>> PROVE AbsentUnconfirmed'
  BY <1>6
<1>7. Verdicts \subseteq IssueStatus /\ {"triaged", "duplicate"} \subseteq IssueStatus
  BY LifecycleAssumption DEF IssueStatus, OpenStatuses, Moderated
<1> QED
  BY <1>2, <1>3, <1>4, <1>5, <1>6, <1>7
  DEF Next, ClassifyReport, JoinIssue, FoundIssue, TransitionIssue, MarkDuplicate, ReopenIssue,
      ModerateIssue, ModerateReport, issueVars, reportVars, vars

\* What the action property says of one Issue.
Moved(i) == NobodyDropped(i) /\ NobodyInvented(i)

\* DM-Q7, BR-22 for every instance: a merge or a split drops nobody who stands
\* behind an Issue, and no step makes up a supporter.
THEOREM SupportCorrect == Spec => SupportMovesTogether
<1>1. IInv /\ AbsentUnconfirmed /\ [Next]_vars => [\A i \in Issues : Moved(i)]_vars
  <2> SUFFICES ASSUME TypeOK, TriagedIffMember, AbsentUnconfirmed, Next, NEW i \in Issues PROVE Moved(i)
    BY DEF IInv
  <2>1. ASSUME Supporters(i)' = Supporters(i) PROVE Moved(i)
    BY <2>1 DEF Moved, NobodyDropped, NobodyInvented
  <2>2. ASSUME UNCHANGED <<issueOf, confirmers>> PROVE Moved(i)
    BY <2>1, <2>2 DEF Supporters, Members, Authors
  <2>3. ASSUME NEW r \in Reports, NEW j \in Issues, ReadyToCluster(r), AttachReport(r, j),
               UNCHANGED confirmers
        PROVE  Moved(i)
    <3>1. /\ issueOf[r] = None /\ issueOf'[r] = j /\ j # None
          /\ \A q \in Reports \ {r} : issueOf'[q] = issueOf[q]
      BY <2>3, LifecycleAssumption DEF ReadyToCluster, AttachReport, TypeOK
    <3>2. CASE i # j
      <4>1. Members(i)' = Members(i)
        BY <3>1, <3>2, LifecycleAssumption DEF Members
      <4> QED
        BY <2>1, <2>3, <4>1 DEF Supporters, Authors
    <3>3. CASE i = j
      <4>1. Members(i)' = Members(i) \cup {r}
        BY <3>1, <3>3 DEF Members
      <4>2. Supporters(i)' = Supporters(i) \cup {Author[r]}
        BY <2>3, <4>1 DEF Supporters, Authors
      <4> QED
        BY <3>1, <3>3, <4>2 DEF Moved, NobodyDropped, NobodyInvented
    <3> QED
      BY <3>2, <3>3
  <2>4. ASSUME NEW c \in Citizens, NEW j \in Issues, ConfirmIssue(c, j) PROVE Moved(i)
    <3>1. issueOf' = issueOf /\ confirmers' = [confirmers EXCEPT ![j] = @ \cup {c}]
      BY <2>4 DEF ConfirmIssue, reportVars
    <3>2. CASE i = j
      <4>1. Supporters(i)' = Supporters(i) \cup {c}
        BY <3>1, <3>2 DEF Supporters, Members, Authors, TypeOK
      <4> QED
        BY <2>4, <3>2, <4>1 DEF Moved, NobodyDropped, NobodyInvented
    <3>3. CASE i # j
      <4>1. confirmers'[i] = confirmers[i]
        BY <3>1, <3>3 DEF TypeOK
      <4> QED
        BY <2>1, <3>1, <4>1 DEF Supporters, Members, Authors
    <3> QED
      BY <3>2, <3>3
  <2>5. ASSUME NEW c \in Citizens, NEW j \in Issues, WithdrawConfirmation(c, j) PROVE Moved(i)
    <3>1. issueOf' = issueOf /\ confirmers' = [confirmers EXCEPT ![j] = @ \ {c}]
      BY <2>5 DEF WithdrawConfirmation, reportVars
    <3>2. CASE i = j
      <4>1. Supporters(i)' \subseteq Supporters(i)
        BY <3>1, <3>2 DEF Supporters, Members, Authors, TypeOK
      <4> QED
        BY <2>5, <3>2, <4>1 DEF Moved, NobodyDropped, NobodyInvented
    <3>3. CASE i # j
      <4>1. confirmers'[i] = confirmers[i]
        BY <3>1, <3>3 DEF TypeOK
      <4> QED
        BY <2>1, <3>1, <4>1 DEF Supporters, Members, Authors
    <3> QED
      BY <3>2, <3>3
  <2>6. ASSUME NEW s \in Issues, NEW a \in Issues, MergeIssues(s, a) PROVE Moved(i)
    <3>1. /\ s # a
          /\ issueOf' = [r \in Reports |-> IF issueOf[r] = a THEN s ELSE issueOf[r]]
          /\ confirmers'[s] = confirmers[s] \cup confirmers[a] /\ confirmers'[a] \subseteq confirmers[a]
          /\ \A j \in Issues \ {s, a} : confirmers'[j] = confirmers[j]
      BY <2>6 DEF MergeIssues, MayMerge, MergedConfirmers, TypeOK
    <3>2. Members(s)' = Members(s) \cup Members(a) /\ Members(a)' = {}
      BY <3>1 DEF Members
    <3>3. Supporters(s)' = Supporters(s) \cup Supporters(a)
      BY <3>1, <3>2 DEF Supporters, Authors
    <3>4. CASE i = a
      <4>1. Supporters(a)' \subseteq Supporters(a)
        BY <3>1, <3>2 DEF Supporters, Authors
      <4> QED
        BY <3>1, <3>3, <3>4, <4>1 DEF Moved, NobodyDropped, NobodyInvented
    <3>5. CASE i = s
      BY <3>1, <3>3, <3>5 DEF Moved, NobodyDropped, NobodyInvented
    <3>6. CASE i # a /\ i # s
      <4>1. Members(i)' = Members(i) /\ confirmers'[i] = confirmers[i]
        BY <3>1, <3>6 DEF Members
      <4> QED
        BY <2>1, <4>1 DEF Supporters, Authors
    <3> QED
      BY <3>4, <3>5, <3>6
  <2>7. ASSUME NEW o \in Issues, NEW n \in Issues, NEW moved \in SUBSET Reports,
               SplitIssue(o, n, moved)
        PROVE  Moved(i)
    <3> DEFINE follow == FollowingConfirmers(o, moved)
    <3>1. o # n
      BY <2>7 DEF SplitIssue, MaySplit, IsOpen, OpenStatuses, Exists, Absent
    <3>2. /\ issueOf' = [r \in Reports |-> IF r \in moved THEN n ELSE issueOf[r]]
          /\ confirmers'[o] = confirmers[o] \ follow /\ confirmers'[n] = follow
          /\ \A j \in Issues \ {o, n} : confirmers'[j] = confirmers[j]
          /\ moved \subseteq Members(o)
      BY <2>7, <3>1 DEF SplitIssue, MaySplit, TypeOK
    <3>3. follow \subseteq confirmers[o]
      BY DEF FollowingConfirmers
    <3>4. Supporters(n) = {} /\ Members(n) = {}
      BY <2>7, AbsentHasNoMembers DEF SplitIssue, AbsentUnconfirmed, Supporters, Authors
    <3> HIDE DEF follow
    <3>5. Members(o)' = Members(o) \ moved /\ Members(n)' = moved
      BY <3>1, <3>2, <3>4 DEF Members
    <3>6. /\ Supporters(o) \subseteq Supporters(o)' \cup Supporters(n)'
          /\ Supporters(o)' \subseteq Supporters(o) /\ Supporters(n)' \subseteq Supporters(o)
      BY <3>2, <3>3, <3>5 DEF Supporters, Authors
    <3>7. CASE i = o
      BY <3>1, <3>6, <3>7 DEF Moved, NobodyDropped, NobodyInvented
    <3>8. CASE i = n
      BY <3>1, <3>4, <3>6, <3>8 DEF Moved, NobodyDropped, NobodyInvented
    <3>9. CASE i # o /\ i # n
      <4>1. Members(i)' = Members(i) /\ confirmers'[i] = confirmers[i]
        BY <3>2, <3>9 DEF Members
      <4> QED
        BY <2>1, <4>1 DEF Supporters, Authors
    <3> QED
      BY <3>7, <3>8, <3>9
  <2> QED
    BY <2>2, <2>3, <2>4, <2>5, <2>6, <2>7
    DEF Next, ClassifyReport, JoinIssue, FoundIssue, TransitionIssue, MarkDuplicate, ReopenIssue,
        ModerateIssue, ModerateReport, issueVars, reportVars
<1>2. SupportMovesTogether <=> [][\A i \in Issues : Moved(i)]_vars
  BY DEF SupportMovesTogether, Moved
<1>3. Init => AbsentUnconfirmed
  BY DEF Init, AbsentUnconfirmed
<1>4. IInv /\ AbsentUnconfirmed /\ [Next]_vars => AbsentUnconfirmed'
  BY AbsentStaysUnconfirmed DEF IInv
<1> QED
  BY <1>1, <1>2, <1>3, <1>4, Invariance, PTL DEF Spec

=============================================================================
