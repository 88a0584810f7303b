------------------------- MODULE NotificationOutbox -------------------------
(***************************************************************************)
(* The way of a status change to the citizens who reported the Issue:      *)
(* the outbox row written with the change (record_issue_status_changed),   *)
(* the relay that hands pending rows to the broker (relay_outbox), the     *)
(* Celery task that consumes one (consume_outbox_event), the notification  *)
(* rows it generates in one transaction, and the emails it then sends one  *)
(* by one (dispatch_email_notifications).                                  *)
(*                                                                         *)
(* Every transaction and every call that leaves the process is a step of   *)
(* its own: between two of them other runs go on, a process may die, the   *)
(* broker or the mail server may refuse.                                   *)
(***************************************************************************)
EXTENDS Integers, FiniteSets, Sequences, Bags

CONSTANTS
    Issues, Reports, Citizens, None,
    Author,      \* the citizen who filed each Report
    Home,        \* the Issue each Report is a member of at first, or None
    EmailOn,     \* citizens with a verified address who have email on
    Relays,      \* runs of the relay that may overlap
    Consumers,   \* worker slots that consume outbox events
    MergePairs,  \* <<survivor, absorbed>>: merges an authority may decide on
    BatchSize,   \* rows one relay run takes
    MaxRetries,  \* max_retries of the consumer task
    MaxEvents,   \* bound on status changes
    MaxFaults    \* bound on crashes and failed calls

ASSUME OutboxAssumption ==
    /\ Author \in [Reports -> Citizens]
    /\ Home \in [Reports -> Issues \cup {None}]
    /\ EmailOn \subseteq Citizens
    /\ MergePairs \subseteq Issues \X Issues
    /\ BatchSize \in Nat \ {0}
    /\ MaxRetries \in Nat /\ MaxEvents \in Nat /\ MaxFaults \in Nat
    /\ None \notin Issues \cup Citizens

VARIABLES
    issueOf,    \* Report.issue
    standing,   \* whether a citizen's account is active, and in-app on or muted
    outbox,     \* the Issue of each OutboxEvent row, in the order they occurred
    owed,       \* history: citizens each event still has to be told to
    published,  \* the rows with published_at
    batch,      \* rows each relay run has locked
    handed,     \* rows of the batch it has handed to the broker
    queue,      \* the broker: a bag of messages
    task,       \* the message each consumer works on (acknowledged at the end)
    stage,      \* how far it has come
    todo,       \* recipients of the emails it has listed and not yet sent
    unsaved,    \* recipient of the email just sent whose row is not saved yet
    inbox,      \* in-app Notification rows: <<event, recipient>>
    email,      \* state of the email Notification row of <<event, recipient>>
    accepted,   \* history: emails the mail server took for <<event, recipient>>
    handoffs,   \* history: times each event was handed to the broker
    undone,     \* history: handoffs of each event whose run was rolled back
    lostSaves,  \* history: sent emails of each event whose row was not saved
    givenUp,    \* history: events of messages that ran out of retries
    faults      \* crashes and failed calls so far

domainVars  == <<issueOf, standing, outbox, owed>>
relayVars   == <<published, batch, handed>>
taskVars    == <<task, stage, todo, unsaved>>
noticeVars  == <<inbox, email>>
historyVars == <<accepted, handoffs, undone, lostSaves, givenUp>>
vars == <<domainVars, relayVars, queue, taskVars, noticeVars, historyVars, faults>>

Events   == 1..MaxEvents
Recorded == 1..Len(outbox)
Message  == [event : Events, retry : 0..MaxRetries]

ASSUME NoneAssumption == None \notin Message

Init ==
    /\ issueOf   = Home
    /\ standing  = [u \in Citizens |-> "active"]
    /\ outbox    = <<>>
    /\ owed      = [e \in Events |-> {}]
    /\ published = {}
    /\ batch     = [l \in Relays |-> {}]
    /\ handed    = [l \in Relays |-> {}]
    /\ queue     = EmptyBag
    /\ task      = [c \in Consumers |-> None]
    /\ stage     = [c \in Consumers |-> "idle"]
    /\ todo      = [c \in Consumers |-> {}]
    /\ unsaved   = [c \in Consumers |-> None]
    /\ inbox     = {}
    /\ email     = [n \in Events \X Citizens |-> "none"]
    /\ accepted  = [n \in Events \X Citizens |-> 0]
    /\ handoffs  = [e \in Events |-> 0]
    /\ undone    = [e \in Events |-> 0]
    /\ lostSaves = [e \in Events |-> 0]
    /\ givenUp   = {}
    /\ faults    = 0

(***************************************************************************)
(* Whom a status change is for                                             *)
(***************************************************************************)
Standings == {"active", "muted", "inactive"}

Authors(i) == {Author[r] : r \in {q \in Reports : issueOf[q] = i}}

\* The query of generate_status_change_notifications: authors of the Reports
\* the Issue has now, whose accounts are neither suspended nor deleted.
Recipients(i) == {u \in Authors(i) : standing[u] # "inactive"}

\* Of these, who has not turned in-app notifications off.
Notifiable(i) == {u \in Recipients(i) : standing[u] # "muted"}

\* Whom an event would be told to now.
Concerned(e) == Notifiable(outbox[e])

\* History: an event is owed to those who could be notified when the status
\* changed and at every moment since.
OwedStill ==
    owed' = [e \in Events |->
               CASE e \in Recorded -> owed[e] \cap Concerned(e)'
                 [] e \in Recorded' \ Recorded -> Concerned(e)'
                 [] OTHER -> {}]

(***************************************************************************)
(* Issues and accounts: what the rest of the system commits                *)
(***************************************************************************)
RecordStatusChanged(i) ==
    /\ Len(outbox) < MaxEvents
    /\ outbox' = Append(outbox, i)

\* transition_issue_status
ChangeStatus(i) ==
    /\ Authors(i) # {}
    /\ RecordStatusChanged(i)
    /\ UNCHANGED <<issueOf, standing>>
    /\ OwedStill
    /\ UNCHANGED <<relayVars, queue, taskVars, noticeVars, historyVars, faults>>

\* merge_issues: the status change of the absorbed Issue and the move of its
\* Reports are one transaction.
MergeIssues(s, a) ==
    /\ <<s, a>> \in MergePairs
    /\ Authors(s) # {} /\ Authors(a) # {}
    /\ issueOf' = [r \in Reports |-> IF issueOf[r] = a THEN s ELSE issueOf[r]]
    /\ RecordStatusChanged(a)
    /\ UNCHANGED standing
    /\ OwedStill
    /\ UNCHANGED <<relayVars, queue, taskVars, noticeVars, historyVars, faults>>

\* An Issue is left without Reports only by a merge, which records an event.
Unused(n) == Authors(n) = {} /\ \A e \in Recorded : outbox[e] # n

\* split_issue: some of the Reports go to a new Issue; no event is recorded.
SplitIssue(i, n, moved) ==
    /\ Unused(n)
    /\ moved # {} /\ \A r \in moved : issueOf[r] = i
    /\ \E r \in Reports \ moved : issueOf[r] = i
    /\ issueOf' = [r \in Reports |-> IF r \in moved THEN n ELSE issueOf[r]]
    /\ UNCHANGED <<standing, outbox>>
    /\ OwedStill
    /\ UNCHANGED <<relayVars, queue, taskVars, noticeVars, historyVars, faults>>

\* cluster_report: a further Report joins an Issue that no merge has retired.
JoinIssue(r, i) ==
    /\ issueOf[r] = None
    /\ Authors(i) # {}
    /\ issueOf' = [issueOf EXCEPT ![r] = i]
    /\ UNCHANGED <<standing, outbox, owed, relayVars, queue, taskVars, noticeVars,
                   historyVars, faults>>

\* The owner turns in-app notifications off or on or deletes the account, or an
\* operator suspends or reinstates it.
ChangeStanding(u, s) ==
    /\ standing[u] # s
    /\ standing' = [standing EXCEPT ![u] = s]
    /\ UNCHANGED <<issueOf, outbox>>
    /\ OwedStill
    /\ UNCHANGED <<relayVars, queue, taskVars, noticeVars, historyVars, faults>>

(***************************************************************************)
(* relay_outbox                                                            *)
(***************************************************************************)

\* Mutation: plain FOR UPDATE replaced by no lock at all.
PendingUnlocked == Recorded \ published

\* Rows another run has locked are skipped.
Pending == Recorded \ (published \cup UNION {batch[l] : l \in Relays})

LockBatch(l) ==
    /\ batch[l] = {}
    /\ Pending # {}
    /\ batch' = [batch EXCEPT
                   ![l] = {e \in Pending :
                             Cardinality({d \in Pending : d < e}) < BatchSize}]
    /\ UNCHANGED <<domainVars, published, handed, queue, taskVars, noticeVars,
                   historyVars, faults>>

HandOver(l) ==
    \E e \in batch[l] \ handed[l] :
        /\ \A d \in batch[l] \ handed[l] : e <= d
        /\ queue' = queue (+) SetToBag({[event |-> e, retry |-> 0]})
        /\ handed' = [handed EXCEPT ![l] = @ \cup {e}]
        /\ handoffs' = [handoffs EXCEPT ![e] = @ + 1]
        /\ UNCHANGED <<domainVars, published, batch, taskVars, noticeVars,
                       accepted, undone, lostSaves, givenUp, faults>>

CommitBatch(l) ==
    /\ batch[l] # {}
    /\ handed[l] = batch[l]
    /\ published' = published \cup batch[l]
    /\ batch' = [batch EXCEPT ![l] = {}]
    /\ handed' = [handed EXCEPT ![l] = {}]
    /\ UNCHANGED <<domainVars, queue, taskVars, noticeVars, historyVars, faults>>

\* Mutation: the rows are marked in transactions of their own before the
\* broker is called.
AbortBatchMarked(l) == published' = published \cup batch[l]

\* The transaction is rolled back; what the broker has, it keeps.
AbortBatchMarks(l) == UNCHANGED published

\* The broker refuses a message or the worker dies.
AbortBatch(l) ==
    /\ batch[l] # {}
    /\ faults < MaxFaults
    /\ faults' = faults + 1
    /\ AbortBatchMarks(l)
    /\ batch' = [batch EXCEPT ![l] = {}]
    /\ handed' = [handed EXCEPT ![l] = {}]
    /\ undone' = [e \in Events |-> undone[e] + IF e \in handed[l] THEN 1 ELSE 0]
    /\ UNCHANGED <<domainVars, queue, taskVars, noticeVars, accepted, handoffs,
                   lostSaves, givenUp>>

(***************************************************************************)
(* consume_outbox_event                                                    *)
(***************************************************************************)
Take(c, m) ==
    /\ stage[c] = "idle"
    /\ BagIn(m, queue)
    /\ queue' = queue (-) SetToBag({m})
    /\ task' = [task EXCEPT ![c] = m]
    /\ stage' = [stage EXCEPT ![c] = "taken"]
    /\ UNCHANGED <<domainVars, relayVars, todo, unsaved, noticeVars, historyVars, faults>>

\* generate_status_change_notifications; rows that exist already are left alone.
Generate(c) ==
    LET e == task[c].event IN
    /\ stage[c] = "taken"
    /\ inbox' = inbox \cup {<<e, u>> : u \in Concerned(e)}
    /\ email' = [n \in DOMAIN email |->
                   IF /\ n[1] = e /\ n[2] \in Recipients(outbox[e]) \cap EmailOn
                      /\ email[n] = "none"
                     THEN "pending" ELSE email[n]]
    /\ stage' = [stage EXCEPT ![c] = "generated"]
    /\ UNCHANGED <<domainVars, relayVars, queue, task, todo, unsaved, historyVars, faults>>

\* Mutation: the emails are listed without the state filter.
MailsToSendAll(e) == {u \in Citizens : email[<<e, u>>] # "none"}

MailsToSend(e) == {u \in Citizens : email[<<e, u>>] = "pending"}

\* dispatch_email_notifications lists the pending rows once, without a lock.
ListMails(c) ==
    /\ stage[c] = "generated"
    /\ todo' = [todo EXCEPT ![c] = MailsToSend(task[c].event)]
    /\ stage' = [stage EXCEPT ![c] = "sending"]
    /\ UNCHANGED <<domainVars, relayVars, queue, task, unsaved, noticeVars,
                   historyVars, faults>>

SendMail(c, u) ==
    /\ stage[c] = "sending"
    /\ unsaved[c] = None
    /\ u \in todo[c]
    /\ accepted' = [accepted EXCEPT ![<<task[c].event, u>>] = @ + 1]
    /\ todo' = [todo EXCEPT ![c] = @ \ {u}]
    /\ unsaved' = [unsaved EXCEPT ![c] = u]
    /\ UNCHANGED <<domainVars, relayVars, queue, task, stage, noticeVars, handoffs,
                   undone, lostSaves, givenUp, faults>>

SaveSent(c) ==
    /\ unsaved[c] # None
    /\ email' = [email EXCEPT ![<<task[c].event, unsaved[c]>>] = "sent"]
    /\ unsaved' = [unsaved EXCEPT ![c] = None]
    /\ UNCHANGED <<domainVars, relayVars, queue, task, stage, todo, inbox,
                   historyVars, faults>>

\* The consumer is idle again; whether its message is acknowledged is up to
\* the step that ends the task.
EndTask(c) ==
    /\ task' = [task EXCEPT ![c] = None]
    /\ stage' = [stage EXCEPT ![c] = "idle"]
    /\ todo' = [todo EXCEPT ![c] = {}]
    /\ unsaved' = [unsaved EXCEPT ![c] = None]

Acknowledge(c) ==
    /\ stage[c] = "sending"
    /\ todo[c] = {} /\ unsaved[c] = None
    /\ EndTask(c)
    /\ UNCHANGED <<domainVars, relayVars, queue, noticeVars, historyVars, faults>>

CountLostSave(c) ==
    lostSaves' = IF unsaved[c] = None THEN lostSaves
                 ELSE [lostSaves EXCEPT ![task[c].event] = @ + 1]

\* Mutation: the message is acknowledged before the task runs (acks_late off).
RedeliverNothing(c) == UNCHANGED queue

Redeliver(c) == queue' = queue (+) SetToBag({task[c]})

\* The worker dies: acks_late and reject_on_worker_lost put the message back.
ConsumerDies(c) ==
    /\ stage[c] # "idle"
    /\ faults < MaxFaults
    /\ faults' = faults + 1
    /\ Redeliver(c)
    /\ CountLostSave(c)
    /\ EndTask(c)
    /\ UNCHANGED <<domainVars, relayVars, noticeVars, accepted, handoffs, undone,
                   givenUp>>

\* The task is retried as a new message until its retries are used up, and is
\* dropped then.
Retry(c) ==
    LET m == task[c] IN
    IF m.retry < MaxRetries
      THEN /\ queue' = queue (+) SetToBag({[m EXCEPT !.retry = @ + 1]})
           /\ UNCHANGED givenUp
      ELSE /\ givenUp' = givenUp \cup {m.event}
           /\ UNCHANGED queue

\* The database refuses the generation, the mail server an email, or the
\* database the save after it.
CallFails(c) ==
    /\ stage[c] # "idle"
    /\ stage[c] = "sending" => todo[c] # {} \/ unsaved[c] # None
    /\ faults < MaxFaults
    /\ faults' = faults + 1
    /\ Retry(c)
    /\ CountLostSave(c)
    /\ EndTask(c)
    /\ UNCHANGED <<domainVars, relayVars, noticeVars, accepted, handoffs, undone>>

ConsumerStep(c) ==
    \/ \E m \in Message : Take(c, m)
    \/ Generate(c)
    \/ ListMails(c)
    \/ \E u \in Citizens : SendMail(c, u)
    \/ SaveSent(c)
    \/ Acknowledge(c)

RelayStep(l) == LockBatch(l) \/ HandOver(l) \/ CommitBatch(l)

Next ==
    \/ \E i \in Issues : ChangeStatus(i)
    \/ \E s, a \in Issues : MergeIssues(s, a)
    \/ \E i, n \in Issues, moved \in SUBSET Reports : SplitIssue(i, n, moved)
    \/ \E r \in Reports, i \in Issues : JoinIssue(r, i)
    \/ \E u \in Citizens, s \in Standings : ChangeStanding(u, s)
    \/ \E l \in Relays : RelayStep(l)
    \/ \E l \in Relays : AbortBatch(l)
    \/ \E c \in Consumers : ConsumerStep(c)
    \/ \E c \in Consumers : ConsumerDies(c)
    \/ \E c \in Consumers : CallFails(c)

Spec == Init /\ [][Next]_vars

\* beat starts the relay again and again, and workers keep consuming.
Fairness ==
    /\ \A l \in Relays : WF_vars(RelayStep(l))
    /\ \A c \in Consumers : WF_vars(ConsumerStep(c))

FairSpec == Spec /\ Fairness

(***************************************************************************)
(* Properties                                                              *)
(***************************************************************************)
TypeOK ==
    /\ issueOf   \in [Reports -> Issues \cup {None}]
    /\ standing  \in [Citizens -> Standings]
    /\ outbox    \in Seq(Issues)
    /\ owed      \in [Events -> SUBSET Citizens]
    /\ published \subseteq Recorded
    /\ batch     \in [Relays -> SUBSET Recorded]
    /\ \A l \in Relays : handed[l] \subseteq batch[l]
    /\ IsABag(queue) /\ BagToSet(queue) \subseteq Message
    /\ task      \in [Consumers -> Message \cup {None}]
    /\ stage     \in [Consumers -> {"idle", "taken", "generated", "sending"}]
    /\ todo      \in [Consumers -> SUBSET Citizens]
    /\ unsaved   \in [Consumers -> Citizens \cup {None}]
    /\ inbox     \subseteq Recorded \X Citizens
    /\ email     \in [Events \X Citizens -> {"none", "pending", "sent"}]
    /\ accepted  \in [Events \X Citizens -> Nat]
    /\ handoffs  \in [Events -> Nat]
    /\ undone    \in [Events -> Nat]
    /\ lostSaves \in [Events -> Nat]
    /\ givenUp   \subseteq Events
    /\ faults    \in 0..MaxFaults

\* A message of the event is in the broker or in the hands of a consumer.
InFlight(e) ==
    \/ \E m \in BagToSet(queue) : m.event = e
    \/ \E c \in Consumers : task[c] # None /\ task[c].event = e

\* The event was published and everything the broker had of it is done.
Settled(e) == e \in published /\ ~InFlight(e)

\* Everybody the event is still owed to has its in-app notification.
Notified(e) == \A u \in owed[e] : <<e, u>> \in inbox

\* Architecture section 7.1, FR-27: a committed status change is not lost,
\* whatever dies or refuses.  When all of its messages are done, it has reached
\* everybody who had reported the Issue when its status changed and has been
\* its reporter with an active account since, unless the retries ran out.  Who
\* was moved to another Issue by a merge or a split, was suspended or deleted
\* or turned notifications off in between may miss it.
SettledEventsNotified ==
    \A e \in Recorded : Settled(e) => e \in givenUp \/ Notified(e)

\* The comment on the relay's schedule: overlapping runs do not publish a row
\* twice.  Only a run that was rolled back leaves a second message.
RowsPublishedOnce ==
    \A e \in Recorded : handoffs[e] <= 1 + undone[e]

\* The mail server gets an email once for each message of the event, and once
\* more only if the row of an email it took could not be saved: a retry after
\* the failure of one recipient does not mail the others again.
SurplusMailsExplained ==
    \A e \in Recorded, u \in Citizens :
        accepted[<<e, u>>] <= handoffs[e] + lostSaves[e]

\* FR-27: every committed status change reaches, in the end, those it is owed
\* to, unless the retries of a message ran out.
ChangesReachReporters ==
    <>[](\A e \in Recorded : e \in givenUp \/ Notified(e))

=============================================================================
