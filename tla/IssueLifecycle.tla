--------------------------- MODULE IssueLifecycle ---------------------------
(***************************************************************************)
(* The Issue aggregate of urbenmend/issues/services.py: Issues, the       *)
(* Reports that are their members, the citizens who confirm them, the      *)
(* duplicate and reopen links between Issues, and the StatusEvents.        *)
(*                                                                         *)
(* Every service is one database transaction that takes the Issue row(s)   *)
(* FOR UPDATE before it looks at them, so every service is one action.     *)
(* (ClusterLocks opens up the one service whose atomicity is not given by  *)
(* a row lock.)  Who is allowed to call a service, the free texts (reason, *)
(* note, rationale) and the audit log are left out; a StatusEvent stands   *)
(* also for the outbox row that record_issue_status_changed copies from it *)
(* in the same transaction.                                                *)
(***************************************************************************)
EXTENDS Integers, Sequences

CONSTANTS
    Issues,      \* identities of Issue rows, created or not
    Reports,     \* Reports whose submission has committed
    Citizens,    \* who reports and confirms
    Author,      \* the citizen who filed each Report
    Severities,  \* the severity ranks the classifier hands out
    Verdicts,    \* the verdicts moderation gives
    None         \* NULL in a foreign key

ASSUME LifecycleAssumption ==
    /\ Author \in [Reports -> Citizens]
    /\ Severities \subseteq 1..4
    /\ Verdicts \subseteq {"hidden", "removed"}
    /\ None \notin Issues

VARIABLES
    status,        \* Issue.status, "absent" while the row does not exist
    computed,      \* Issue.computed_severity as a rank
    dupOf,         \* Issue.duplicate_of
    reopenedFrom,  \* Issue.reopened_from
    confirmers,    \* citizens with a Confirmation row of the Issue
    events,        \* Issue.status_events in creation order
    issueOf,       \* Report.issue
    reportStatus,  \* Report.status
    signal         \* Report.severity_signal as a rank

issueVars  == <<status, computed, dupOf, reopenedFrom, confirmers, events>>
reportVars == <<issueOf, reportStatus, signal>>
vars       == <<issueVars, reportVars>>

Absent       == "absent"
Unclassified == 0

(***************************************************************************)
(* The statuses and the lifecycle graph                                    *)
(***************************************************************************)
Moderated == {"hidden", "removed"}

OpenStatuses ==
    {"submitted", "triaged", "acknowledged", "in_progress", "insufficient_info"}

IssueStatus ==
    OpenStatuses \cup {"resolved", "closed", "rejected", "duplicate"} \cup Moderated

ReportStatus == {"processing", "triaged"} \cup Moderated

TransitionsFrom ==
    [s \in IssueStatus |->
        CASE s = "submitted"    -> {"triaged"}
          [] s = "triaged"      -> {"acknowledged", "rejected", "duplicate",
                                    "insufficient_info"}
          [] s = "acknowledged" -> {"in_progress"}
          [] s = "in_progress"  -> {"resolved"}
          [] s = "resolved"     -> {"closed"}
          [] OTHER              -> {}]

ReopenAction       == "reopen"
ReopenableStatuses == {"resolved", "closed"}

StatusEvent ==
    [from : IssueStatus, to : IssueStatus \cup {ReopenAction},
     related : Issues \cup {None}]

TypeOK ==
    /\ status       \in [Issues -> IssueStatus \cup {Absent}]
    /\ computed     \in [Issues -> Severities \cup {Unclassified}]
    /\ dupOf        \in [Issues -> Issues \cup {None}]
    /\ reopenedFrom \in [Issues -> Issues \cup {None}]
    /\ confirmers   \in [Issues -> SUBSET Citizens]
    /\ events       \in [Issues -> Seq(StatusEvent)]
    /\ issueOf      \in [Reports -> Issues \cup {None}]
    /\ reportStatus \in [Reports -> ReportStatus]
    /\ signal       \in [Reports -> Severities \cup {Unclassified}]

Init ==
    /\ status       = [i \in Issues |-> Absent]
    /\ computed     = [i \in Issues |-> Unclassified]
    /\ dupOf        = [i \in Issues |-> None]
    /\ reopenedFrom = [i \in Issues |-> None]
    /\ confirmers   = [i \in Issues |-> {}]
    /\ events       = [i \in Issues |-> <<>>]
    /\ issueOf      = [r \in Reports |-> None]
    /\ reportStatus = [r \in Reports |-> "processing"]
    /\ signal       = [r \in Reports |-> Unclassified]

(***************************************************************************)
(* Reading the aggregate                                                   *)
(***************************************************************************)
Exists(i)     == status[i] # Absent
IsOpen(i)     == status[i] \in OpenStatuses
Members(i)    == {r \in Reports : issueOf[r] = i}
Authors(S)    == {Author[r] : r \in S}
Supporters(i) == Authors(Members(i)) \cup confirmers[i]

\* The rank _recompute_issue_severity stores for an Issue whose members are S.
HighestSeverity(S) ==
    CHOOSE s \in {signal[r] : r \in S} : \A r \in S : signal[r] <= s

\* Mutation: from_status is read after the new status was assigned.
RecordStatusEventAfterWrite(i, to, related) ==
    events' = [events EXCEPT
                 ![i] = Append(@, [from |-> status'[i], to |-> to, related |-> related])]

\* The transaction inserts a StatusEvent for i (and copies it to the outbox).
RecordStatusEvent(i, to, related) ==
    events' = [events EXCEPT
                 ![i] = Append(@, [from |-> status[i], to |-> to, related |-> related])]

(***************************************************************************)
(* Classification hands the Report a severity signal, once, while the      *)
(* Report still waits for triage.                                          *)
(***************************************************************************)
ClassifyReport(r, s) ==
    /\ reportStatus[r] = "processing"
    /\ signal[r] = Unclassified
    /\ signal' = [signal EXCEPT ![r] = s]
    /\ UNCHANGED <<issueVars, issueOf, reportStatus>>

(***************************************************************************)
(* cluster_report: the Report joins a matching open Issue, or founds one.  *)
(* Whether an open Issue matches (category, radius, time window) is data   *)
(* here: any open Issue may match and any may fail to.  A Report that has  *)
(* an Issue already makes the service return without a write.              *)
(***************************************************************************)
ReadyToCluster(r) ==
    /\ issueOf[r] = None
    /\ reportStatus[r] \notin Moderated
    /\ signal[r] # Unclassified

\* Mutation: the Report is saved with update_fields=["issue"].
AttachReportOnly(r, i) ==
    /\ issueOf' = [issueOf EXCEPT ![r] = i]
    /\ computed' = [computed EXCEPT ![i] = HighestSeverity(Members(i) \cup {r})]
    /\ UNCHANGED reportStatus

AttachReport(r, i) ==
    /\ issueOf' = [issueOf EXCEPT ![r] = i]
    /\ reportStatus' = [reportStatus EXCEPT ![r] = "triaged"]
    /\ computed' = [computed EXCEPT ![i] = HighestSeverity(Members(i) \cup {r})]

JoinIssue(r, i) ==
    /\ ReadyToCluster(r)
    /\ IsOpen(i)
    /\ AttachReport(r, i)
    /\ UNCHANGED <<status, dupOf, reopenedFrom, confirmers, events, signal>>

FoundIssue(r, n) ==
    /\ ReadyToCluster(r)
    /\ ~Exists(n)
    /\ status' = [status EXCEPT ![n] = "triaged"]
    /\ AttachReport(r, n)
    /\ UNCHANGED <<dupOf, reopenedFrom, confirmers, events, signal>>

(***************************************************************************)
(* confirm_issue, withdraw_confirmation                                    *)
(***************************************************************************)
ConfirmIssue(c, i) ==
    /\ Exists(i) /\ status[i] \notin Moderated
    /\ c \notin confirmers[i]
    /\ confirmers' = [confirmers EXCEPT ![i] = @ \cup {c}]
    /\ UNCHANGED <<status, computed, dupOf, reopenedFrom, events, reportVars>>

WithdrawConfirmation(c, i) ==
    /\ Exists(i) /\ status[i] \notin Moderated
    /\ c \in confirmers[i]
    /\ confirmers' = [confirmers EXCEPT ![i] = @ \ {c}]
    /\ UNCHANGED <<status, computed, dupOf, reopenedFrom, events, reportVars>>

(***************************************************************************)
(* transition_issue_status, the plain edge                                 *)
(***************************************************************************)
AllowedNext(i) == IF Exists(i) THEN TransitionsFrom[status[i]] ELSE {}

TransitionIssue(i, to) ==
    /\ to \in AllowedNext(i) \ {"duplicate"}
    /\ status' = [status EXCEPT ![i] = to]
    /\ dupOf' = [dupOf EXCEPT ![i] = None]
    /\ RecordStatusEvent(i, to, None)
    /\ UNCHANGED <<computed, reopenedFrom, confirmers, reportVars>>

(***************************************************************************)
(* transition_issue_status to "duplicate": the Reports stay where they     *)
(* are, only the link is set.                                              *)
(***************************************************************************)
\* Mutation: a retired duplicate is accepted as the survivor.
CanSurviveRetired(i, s) ==
    /\ Exists(s)
    /\ s # i
    /\ status[s] \notin Moderated

CanSurvive(i, s) ==
    /\ Exists(s)
    /\ s # i
    /\ status[s] \notin {"duplicate"} \cup Moderated

MarkDuplicate(i, s) ==
    /\ "duplicate" \in AllowedNext(i)
    /\ CanSurvive(i, s)
    /\ status' = [status EXCEPT ![i] = "duplicate"]
    /\ dupOf' = [dupOf EXCEPT ![i] = s]
    /\ RecordStatusEvent(i, "duplicate", s)
    /\ UNCHANGED <<computed, reopenedFrom, confirmers, reportVars>>

(***************************************************************************)
(* transition_issue_status "reopen": a fresh Issue without Reports, linked *)
(* back to the finished one, whose row is not written.                     *)
(***************************************************************************)
\* Mutation: an existing successor is not looked for.
CanReopenAgain(i) == status[i] \in ReopenableStatuses

CanReopen(i) ==
    /\ status[i] \in ReopenableStatuses
    /\ \A j \in Issues : reopenedFrom[j] # i

ReopenIssue(i, n) ==
    /\ CanReopen(i)
    /\ ~Exists(n)
    /\ status' = [status EXCEPT ![n] = "triaged"]
    /\ computed' = [computed EXCEPT ![n] = computed[i]]
    /\ reopenedFrom' = [reopenedFrom EXCEPT ![n] = i]
    /\ RecordStatusEvent(i, ReopenAction, n)
    /\ UNCHANGED <<dupOf, confirmers, reportVars>>

(***************************************************************************)
(* merge_issues: a is absorbed by s.  Its confirmations move unless their  *)
(* citizen confirmed s already, all its Reports move, the severity of s is *)
(* recomputed over both, and a is retired as a duplicate of s.             *)
(***************************************************************************)
MayMerge(s, a) ==
    /\ s # a
    /\ IsOpen(s) /\ IsOpen(a)
    /\ Members(s) # {} /\ Members(a) # {}

\* Mutation: the delete of colliding confirmations lost its citizen filter.
MergedConfirmersDropped(s, a) == confirmers[s]

MergedConfirmers(s, a) == confirmers[s] \cup confirmers[a]

\* Mutation: the survivor is not recomputed.
MergedSeverityStale(s, a) == computed[s]

MergedSeverity(s, a) == HighestSeverity(Members(s) \cup Members(a))

MergeIssues(s, a) ==
    /\ MayMerge(s, a)
    /\ confirmers' = [confirmers EXCEPT ![s] = MergedConfirmers(s, a), ![a] = {}]
    /\ issueOf' = [r \in Reports |-> IF issueOf[r] = a THEN s ELSE issueOf[r]]
    /\ computed' = [computed EXCEPT ![s] = MergedSeverity(s, a)]
    /\ status' = [status EXCEPT ![a] = "duplicate"]
    /\ dupOf' = [dupOf EXCEPT ![a] = s]
    /\ RecordStatusEvent(a, "duplicate", s)
    /\ UNCHANGED <<reopenedFrom, reportStatus, signal>>

(***************************************************************************)
(* split_issue: the Reports in moved found a new triaged Issue.  A         *)
(* confirmation follows when its citizen filed moved Reports only.  No     *)
(* StatusEvent is written.                                                 *)
(***************************************************************************)
MaySplit(o, moved) ==
    /\ IsOpen(o)
    /\ moved # {}
    /\ moved \subseteq Members(o)
    /\ moved # Members(o)

FollowingConfirmers(o, moved) ==
    confirmers[o] \cap (Authors(moved) \ Authors(Members(o) \ moved))

SplitIssue(o, n, moved) ==
    /\ MaySplit(o, moved)
    /\ ~Exists(n)
    /\ status' = [status EXCEPT ![n] = "triaged"]
    /\ issueOf' = [r \in Reports |-> IF r \in moved THEN n ELSE issueOf[r]]
    /\ LET follow == FollowingConfirmers(o, moved)
       IN  confirmers' = [confirmers EXCEPT ![o] = @ \ follow, ![n] = follow]
    /\ computed' = [computed EXCEPT ![o] = HighestSeverity(Members(o) \ moved),
                                    ![n] = HighestSeverity(moved)]
    /\ UNCHANGED <<dupOf, reopenedFrom, events, reportStatus, signal>>

(***************************************************************************)
(* moderate, for its two targets of this module.  The verdict is written   *)
(* blindly over any status and no StatusEvent is recorded.                 *)
(***************************************************************************)
ModerateIssue(i, verdict) ==
    /\ Exists(i)
    /\ status' = [status EXCEPT ![i] = verdict]
    /\ UNCHANGED <<computed, dupOf, reopenedFrom, confirmers, events, reportVars>>

ModerateReport(r, verdict) ==
    /\ reportStatus' = [reportStatus EXCEPT ![r] = verdict]
    /\ UNCHANGED <<issueVars, issueOf, signal>>

Next ==
    \/ \E r \in Reports, s \in Severities : ClassifyReport(r, s)
    \/ \E r \in Reports, i \in Issues : JoinIssue(r, i)
    \/ \E r \in Reports, n \in Issues : FoundIssue(r, n)
    \/ \E c \in Citizens, i \in Issues : ConfirmIssue(c, i)
    \/ \E c \in Citizens, i \in Issues : WithdrawConfirmation(c, i)
    \/ \E i \in Issues, to \in IssueStatus : TransitionIssue(i, to)
    \/ \E i, s \in Issues : MarkDuplicate(i, s)
    \/ \E i, n \in Issues : ReopenIssue(i, n)
    \/ \E s, a \in Issues : MergeIssues(s, a)
    \/ \E o, n \in Issues, moved \in SUBSET Reports : SplitIssue(o, n, moved)
    \/ \E i \in Issues, verdict \in Verdicts : ModerateIssue(i, verdict)
    \/ \E r \in Reports, verdict \in Verdicts : ModerateReport(r, verdict)

Spec == Init /\ [][Next]_vars

=============================================================================
