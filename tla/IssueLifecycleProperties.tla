---------------------- MODULE IssueLifecycleProperties ----------------------
(***************************************************************************)
(* What the Issue aggregate promises.                                      *)
(***************************************************************************)
EXTENDS IssueLifecycle

(***************************************************************************)
(* Safety                                                                  *)
(***************************************************************************)

\* BR-11: the severity an Issue shows is the highest severity among its
\* member Reports, whatever clustering, merges and splits moved them there.
ComputedIsHighestMember ==
    \A i \in Issues : Members(i) # {} =>
        /\ \E r \in Members(i) : signal[r] = computed[i]
        /\ \A r \in Members(i) : signal[r] <= computed[i]

\* Report.status and Report.issue agree: a Report has an Issue, and one whose
\* row exists, exactly when triage has completed; only moderation, which
\* keeps the link, hides that.
TriagedIffMember ==
    \A r \in Reports :
        /\ issueOf[r] # None => Exists(issueOf[r]) /\ signal[r] # Unclassified
        /\ reportStatus[r] = "triaged" => issueOf[r] # None
        /\ reportStatus[r] = "processing" => issueOf[r] = None

\* BR-17: following duplicate links from an Issue ends at an Issue that is
\* nobody's duplicate.  Stated as well-foundedness: every non-empty set of
\* Issues has one whose link leaves the set.
DuplicateLinksEnd ==
    \A S \in SUBSET Issues : S # {} => \E i \in S : dupOf[i] \notin S

\* BR-16, BR-28, BR-31: the StatusEvents of an Issue are a gapless history.
\* Each starts where the one before it ended, the first at "triaged", and the
\* last ends at the current status unless moderation overwrote it.  A reopen
\* event starts at the current status and leaves it.
EndOfHistory(i, k) ==
    LET changes == {j \in 1..k : events[i][j].to # ReopenAction}
    IN  IF changes = {} THEN "triaged"
        ELSE events[i][CHOOSE j \in changes : \A m \in changes : m <= j].to

HistoryExplainsStatus ==
    \A i \in Issues : Exists(i) =>
        /\ status[i] \in Moderated \cup {EndOfHistory(i, Len(events[i]))}
        /\ \A k \in 1..Len(events[i]) : events[i][k].from = EndOfHistory(i, k - 1)

\* DM-Q8: an Issue that was reopened stays finished and has one successor, so
\* a chain of recurrences has at most one Issue that can take work or Reports.
ReopenedStaysFinished ==
    \A j \in Issues : reopenedFrom[j] # None =>
        /\ ~IsOpen(reopenedFrom[j])
        /\ \A k \in Issues \ {j} : reopenedFrom[k] # reopenedFrom[j]

(***************************************************************************)
(* What a step may never do                                                *)
(***************************************************************************)

\* Those who leave an Issue have withdrawn their own confirmation, or all of
\* them stand behind one other Issue.
NobodyDropped(i) ==
    LET gone == Supporters(i) \ Supporters(i)'
    IN  gone # {} =>
          \/ \E j \in Issues \ {i} : gone \subseteq Supporters(j)'
          \/ \E c \in Citizens : WithdrawConfirmation(c, i)

\* Those who come to an Issue all stood behind one other Issue before, or one
\* confirms it now, or wrote the Report that joins it now.
NobodyInvented(i) ==
    LET newly == Supporters(i)' \ Supporters(i)
    IN  newly # {} =>
          \/ \E j \in Issues \ {i} : newly \subseteq Supporters(j)
          \/ \E c \in Citizens : ConfirmIssue(c, i) /\ newly = {c}
          \/ \E r \in Reports : /\ issueOf[r] = None /\ issueOf'[r] = i
                                /\ newly = {Author[r]}

\* DM-Q7, BR-22: nobody who stands behind an Issue, as the author of a member
\* or by confirming it, is dropped by a merge or a split, and nobody is put
\* behind an Issue that they, or an Issue it takes Reports from, did not support.
SupportMovesTogether ==
    [][\A i \in Issues : NobodyDropped(i) /\ NobodyInvented(i)]_vars

\* BR-32: what moderation took down stays down: no triage, transition, merge
\* or split brings a hidden or removed Issue or Report back.
ModerationIsFinal ==
    [][/\ \A i \in Issues : status[i] \in Moderated => status'[i] \in Moderated
       /\ \A r \in Reports :
            reportStatus[r] \in Moderated => reportStatus'[r] \in Moderated]_vars

=============================================================================
