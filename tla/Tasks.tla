--------------------------------- MODULE Tasks ---------------------------------
(* What the Celery workers run besides the relay of the notifications: the    *)
(* triage of a Report (TriagePipeline), the derivatives of a photo            *)
(* (MediaPipeline) and the export (Exports).  Messages may be delivered more  *)
(* than once and lost.  The three tasks share no state, so a behaviour is one *)
(* of one of the three parts.                                                 *)
EXTENDS TriagePipeline

CONSTANTS Photos, Submissions, Wanted,
          Jobs, Requesters, RequesterOf, ResourceOf, MaxStandings,
          Parts       \* what is at work: some of the three parts

VARIABLES part,
          photo, reportOf, master, submission, uploads, shot, row, removal, missed,
          state, stored, linked, messages, at, work, copy, active, lost, losing,
          standings

photoVars == <<photo, reportOf, master, submission, uploads, shot, row, removal, missed>>
exportVars == <<state, stored, linked, messages, at, work, copy, active, lost, losing,
                standings>>
allVars == <<part, vars, photoVars, exportVars>>

MP == INSTANCE MediaPipeline WITH
          state <- photo, reports <- submission, queue <- uploads,
          job <- shot, copy <- row, losses <- missed, Reports <- Submissions

EX == INSTANCE Exports WITH queue <- messages, losses <- losing

ASSUME TasksAssumption ==
    /\ MP!MediaAssumption /\ EX!ExportAssumption
    /\ Parts \subseteq {"triage", "photos", "exports"}

Triage    == part = "triage" /\ UNCHANGED <<part, photoVars, exportVars>>
Deriving  == part = "photos" /\ UNCHANGED <<part, vars, exportVars>>
Exporting == part = "exports" /\ UNCHANGED <<part, vars, photoVars>>

(* A part that is not at work in a behaviour begins in one state. *)
IdleTriage == category = [r \in Reports |-> None]

InitOfAll ==
    /\ part \in Parts
    /\ part # "triage" => IdleTriage
    /\ Init /\ MP!Init /\ EX!Init

NextOfAll ==
    \/ Triage /\ \E w \in Workers : WorkerStep(w)
    \/ Triage /\ \E w \in Workers : LoseTask(w)
    \/ Triage /\ \E e \in Edits : CheckEdit(e)
    \/ Triage /\ \E e \in Edits : SaveText(e)
    \/ Triage /\ \E e \in Edits, c \in Categories : SaveCategory(e, c)
    \/ Triage /\ \E r \in Moderable : Moderate(r)
    \/ Deriving /\ \E p \in Photos : MP!UploadMedia(p)
    \/ Deriving /\ \E p \in Photos : MP!UploadUnqueued(p)
    \/ Deriving /\ \E p \in Photos : MP!CheckRemoval(p)
    \/ Deriving /\ \E p \in Photos : MP!SaveRemoval(p)
    \/ Deriving /\ \E p \in Photos, verdict \in MP!Down : MP!Moderate(p, verdict)
    \/ Deriving /\ \E w \in Workers : MP!WorkerStep(w)
    \/ Deriving /\ \E w \in Workers : MP!LoseTask(w)
    \/ Deriving /\ \E r \in Submissions : MP!SubmitReport(r)
    \/ Deriving /\ \E r \in Submissions : MP!TriageReport(r)
    \/ Exporting /\ \E x \in Jobs : EX!CreateExport(x)
    \/ Exporting /\ \E w \in Workers : EX!Work(w)
    \/ Exporting /\ \E w \in Workers : EX!Dies(w)
    \/ Exporting /\ \E u \in Requesters : EX!ChangeStanding(u)

(* A worker goes on with what it has begun. *)
SpecOfAll ==
    /\ InitOfAll /\ [][NextOfAll]_allVars
    /\ \A w \in Workers : /\ WF_vars(Triage /\ WorkerStep(w))
                          /\ WF_photoVars(Deriving /\ MP!WorkerStep(w))
                          /\ WF_exportVars(Exporting /\ EX!Work(w))

(* No Report waits for its triage for ever. *)
NoReportWaitsForEver == part = "triage" => EveryReportTriaged

(* A stored image loses quality once. *)
DownscaledOnce == MP!DownscaledOnce

(* What was taken down before a run reads its row stays down. *)
TakenDownBeforeRunStaysDown == MP!TakenDownBeforeRunStaysDown

(* A photo gets its derivatives, or fails, or is taken down. *)
EveryPhotoSettles == MP!EveryPhotoSettles

(* A submitted photo stays with its Report while its derivatives are made. *)
ReportLinkSurvivesProcessing == MP!ReportLinkSurvivesProcessing

(* Whoever polls an export is told how it ended. *)
EveryExportEnds == EX!EveryExportEnds

=============================================================================
