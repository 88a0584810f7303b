---------------------------- MODULE MediaPipeline ----------------------------
(***************************************************************************)
(* A photo from its upload on: the Celery task process_media, which reads  *)
(* the row without a lock, works on the image, and writes every column of  *)
(* the row back; and meanwhile the submission that binds the photo to its  *)
(* Report, the owner who deletes it and the Admin who takes it down.       *)
(*                                                                         *)
(* Resolving and binding are one step here; Submission opens them up.      *)
(* UPLOADED never leaves the transaction of upload_media.                  *)
(***************************************************************************)
EXTENDS Naturals

CONSTANTS
    Photos, Reports, Workers, None,
    Wanted,      \* the photos each submission names
    Deliveries,  \* messages the broker has for each photo at first
    MaxLosses    \* bound on messages and task runs that are lost

(* What is assumed of the constants. *)
MediaAssumption ==
    /\ Wanted \in [Reports -> SUBSET Photos \ {{}}]
    /\ Deliveries \in Nat \ {0} /\ MaxLosses \in Nat
    /\ None \notin Reports \cup Photos

VARIABLES
    state,     \* Media.state, "absent" before the upload
    reportOf,  \* Media.report
    master,    \* how many times the stored image has been downscaled
    reports,   \* Report.status as far as photos depend on it
    queue,     \* messages the broker has for each photo
    job,       \* the photo each worker works on
    copy,      \* the row as the worker read it, None before
    removal,   \* the owner's DELETE has passed its checks
    losses     \* messages and runs lost so far

mediaVars == <<state, reportOf, master>>
taskVars  == <<job, copy>>
vars      == <<mediaVars, reports, queue, taskVars, removal, losses>>

Down == {"hidden", "removed"}

Init ==
    /\ state    = [p \in Photos |-> "absent"]
    /\ reportOf = [p \in Photos |-> None]
    /\ master   = [p \in Photos |-> 0]
    /\ reports  = [r \in Reports |-> "absent"]
    /\ queue    = [p \in Photos |-> 0]
    /\ job      = [w \in Workers |-> None]
    /\ copy     = [w \in Workers |-> None]
    /\ removal  = [p \in Photos |-> FALSE]
    /\ losses   = 0

Row(p)     == [state |-> state[p], report |-> reportOf[p], master |-> master[p]]
Working(w) == copy[w] # None

Lose ==
    /\ losses < MaxLosses
    /\ losses' = losses + 1

(***************************************************************************)
(* upload_media                                                            *)
(***************************************************************************)
Store(p) ==
    /\ state[p] = "absent"
    /\ state' = [state EXCEPT ![p] = "processing"]
    /\ UNCHANGED <<reportOf, master, reports, taskVars, removal>>

UploadMedia(p) ==
    /\ Store(p)
    /\ queue' = [queue EXCEPT ![p] = Deliveries]
    /\ UNCHANGED losses

\* The process dies after the commit, or the broker refuses the message.
UploadUnqueued(p) ==
    /\ Store(p)
    /\ Lose
    /\ UNCHANGED queue

(***************************************************************************)
(* process_media                                                           *)
(***************************************************************************)
EndTask(w) ==
    /\ job' = [job EXCEPT ![w] = None]
    /\ copy' = [copy EXCEPT ![w] = None]

Take(w, p) ==
    /\ job[w] = None
    /\ queue[p] > 0
    /\ queue' = [queue EXCEPT ![p] = @ - 1]
    /\ job' = [job EXCEPT ![w] = p]
    /\ UNCHANGED <<mediaVars, reports, copy, removal, losses>>

\* Mutation: what has derivatives already is processed again.
ProcessableReady(p) == state[p] \in {"processing", "ready"}

\* Mutation: only photos that are ready are left alone.
ProcessableHidden(p) == state[p] # "ready"

Processable(p) == state[p] = "processing"

ReadRow(w) ==
    LET p == job[w] IN
    /\ p # None /\ ~Working(w)
    /\ IF Processable(p)
         THEN /\ copy' = [copy EXCEPT ![w] = Row(p)]
              /\ UNCHANGED job
         ELSE EndTask(w)
    /\ UNCHANGED <<mediaVars, reports, queue, removal, losses>>

\* save() without update_fields: every column goes back as it was read.
SaveReady(w) ==
    LET p == job[w] IN
    /\ Working(w)
    /\ state' = [state EXCEPT ![p] = "ready"]
    /\ reportOf' = [reportOf EXCEPT ![p] = copy[w].report]
    /\ master' = [master EXCEPT ![p] = copy[w].master + 1]
    /\ EndTask(w)
    /\ UNCHANGED <<reports, queue, removal, losses>>

\* Mutation: the task raises instead, and its message is gone.
MarkFailedRaises(p) == UNCHANGED state

MarkFailed(p) == state' = [state EXCEPT ![p] = "failed"]

\* The image cannot be read or decoded; only the state is written.
SaveFailed(w) ==
    /\ Working(w)
    /\ MarkFailed(job[w])
    /\ EndTask(w)
    /\ UNCHANGED <<reportOf, master, reports, queue, removal, losses>>

\* The worker dies or the storage refuses the result; the message was
\* acknowledged when the worker took it.
LoseTask(w) ==
    /\ job[w] # None
    /\ Lose
    /\ EndTask(w)
    /\ UNCHANGED <<mediaVars, reports, queue, removal>>

(***************************************************************************)
(* What happens to the photo meanwhile                                     *)
(***************************************************************************)
Usable(p) == state[p] \notin {"absent", "removed"} /\ reportOf[p] = None

BoundPhotos(r) == {p \in Wanted[r] : Usable(p)}

\* submit_report
SubmitReport(r) ==
    /\ reports[r] = "absent"
    /\ BoundPhotos(r) = Wanted[r]
    /\ reportOf' = [p \in Photos |-> IF p \in BoundPhotos(r) THEN r ELSE reportOf[p]]
    /\ reports' = [reports EXCEPT ![r] = "editable"]
    /\ UNCHANGED <<state, master, queue, taskVars, removal, losses>>

\* cluster_report
TriageReport(r) ==
    /\ reports[r] = "editable"
    /\ reports' = [reports EXCEPT ![r] = "triaged"]
    /\ UNCHANGED <<mediaVars, queue, taskVars, removal, losses>>

\* remove_media for the owner: the row is read and checked, and its state is
\* saved afterwards.
CheckRemoval(p) ==
    /\ ~removal[p]
    /\ state[p] \notin Down \cup {"absent"}
    /\ reportOf[p] # None => reports[reportOf[p]] = "editable"
    /\ removal' = [removal EXCEPT ![p] = TRUE]
    /\ UNCHANGED <<mediaVars, reports, queue, taskVars, losses>>

SaveRemoval(p) ==
    /\ removal[p]
    /\ state' = [state EXCEPT ![p] = "removed"]
    /\ removal' = [removal EXCEPT ![p] = FALSE]
    /\ UNCHANGED <<reportOf, master, reports, queue, taskVars, losses>>

\* moderate, and remove_media for an Admin
Moderate(p, verdict) ==
    /\ state[p] \notin {"absent", verdict}
    /\ state' = [state EXCEPT ![p] = verdict]
    /\ UNCHANGED <<reportOf, master, reports, queue, taskVars, removal, losses>>

WorkerStep(w) ==
    \/ \E p \in Photos : Take(w, p)
    \/ ReadRow(w)
    \/ SaveReady(w)
    \/ SaveFailed(w)

Next ==
    \/ \E p \in Photos :
         \/ UploadMedia(p)
         \/ UploadUnqueued(p)
         \/ CheckRemoval(p)
         \/ SaveRemoval(p)
         \/ \E verdict \in Down : Moderate(p, verdict)
    \/ \E w \in Workers : WorkerStep(w)
    \/ \E w \in Workers : LoseTask(w)
    \/ \E r \in Reports : SubmitReport(r)
    \/ \E r \in Reports : TriageReport(r)

Spec == Init /\ [][Next]_vars

\* Workers keep consuming, and work on an image ends in one way or the other.
FairSpec == Spec /\ \A w \in Workers : WF_vars(WorkerStep(w))

(***************************************************************************)
(* Properties                                                              *)
(***************************************************************************)
State == {"absent", "processing", "ready", "failed"} \cup Down

TypeOK ==
    /\ state    \in [Photos -> State]
    /\ reportOf \in [Photos -> Reports \cup {None}]
    /\ master   \in [Photos -> Nat]
    /\ reports  \in [Reports -> {"absent", "editable", "triaged"}]
    /\ queue    \in [Photos -> 0..Deliveries]
    /\ job      \in [Workers -> Photos \cup {None}]
    /\ copy     \in [Workers -> {None} \cup
                      [state : State, report : Reports \cup {None}, master : Nat]]
    /\ \A w \in Workers : Working(w) => job[w] # None
    /\ removal  \in [Photos -> BOOLEAN]
    /\ losses   \in 0..MaxLosses

\* test_a_second_delivery_is_a_no_op_rather_than_a_second_downscale, for
\* deliveries that run side by side too: the stored image loses quality once.
DownscaledOnce == \A p \in Photos : master[p] <= 1

\* The photo is down and no run has its row in hand.
SettledDown(p) ==
    /\ state[p] \in Down
    /\ \A w \in Workers : Working(w) => job[w] # p

\* The docstring of process_media: a photo that was taken down before a run
\* reads its row is left alone.  So one that is settled down stays down, however
\* often it is delivered.
TakenDownBeforeRunStaysDown ==
    [][\A p \in Photos : SettledDown(p) => SettledDown(p)']_vars

\* Every uploaded photo gets its derivatives, or is marked as failed, or is
\* taken down, unless its message or a run is lost.
EveryPhotoSettles ==
    \A p \in Photos : state[p] = "processing" ~> (state[p] # "processing" \/ losses > 0)

\* test_the_report_link_survives_processing: a photo that was submitted with a
\* Report stays with it while the derivatives are made.
ReportLinkSurvivesProcessing ==
    [][\A p \in Photos : reportOf[p] # None => reportOf'[p] = reportOf[p]]_vars

=============================================================================
