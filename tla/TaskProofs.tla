------------------------------ MODULE TaskProofs ------------------------------
(* What repeated deliveries and late results keep, for every number of        *)
(* messages, workers, Reports and edits, photos and submissions, and exports. *)
EXTENDS Tasks, TLAPS

LEMMA ConstantsTyped ==
    /\ EditOf \in [Edits -> Reports] /\ EditKind \in [Edits -> {"text", "hint", "correction"}]
    /\ Moderable \subseteq Reports /\ Deliveries \in Nat \ {0} /\ MaxLosses \in Nat
    /\ None \notin Reports /\ None \notin Categories
  BY PipelineAssumption

Texts == Edits \cup {"first"}
Stages == {"idle", "taken", "calling", "stale", "classified"}

(* A worker that calls has a text in hand. *)
IInv ==
    /\ TypeOK
    /\ \A w \in Workers : step[w] = "calling" => snapshot[w] \in Texts

LEMMA Initially == Init => IInv
  BY ConstantsTyped DEF Init, IInv, TypeOK, Texts

(* The steps of a worker, one by one. *)
LEMMA TakePreserved ==
    ASSUME IInv, NEW w \in Workers, NEW r \in Reports, Take(w, r) PROVE IInv'
  BY ConstantsTyped DEF IInv, TypeOK, Take, GoTo, reportVars

LEMMA EndTaskPreserved ==
    ASSUME IInv, NEW w \in Workers, EndTask(w),
           status' \in [Reports -> {"processing", "triaged", "moderated"}],
           clusteredAs' \in [Reports -> Categories \cup {None}],
           queue' \in [Reports -> Nat], losses' \in 0 .. MaxLosses,
           UNCHANGED <<text, category, source, classified, edit>>
    PROVE  IInv'
  BY DEF IInv, TypeOK, EndTask

LEMMA GoOnPreserved ==
    ASSUME IInv, NEW w \in Workers, NEW s \in Stages \ {"idle"}, GoTo(w, s),
           step[w] # "idle", UNCHANGED <<job, queue, edit, losses, reportVars>>,
           \/ UNCHANGED snapshot /\ s # "calling"
           \/ \E t \in Texts : snapshot' = [snapshot EXCEPT ![w] = t]
    PROVE  IInv'
  BY DEF IInv, TypeOK, GoTo, Stages, Texts, reportVars

LEMMA JobTyped ==
    ASSUME IInv, NEW w \in Workers, step[w] # "idle" PROVE job[w] \in Reports
  BY DEF IInv, TypeOK

LEMMA StorePreserved ==
    ASSUME IInv, NEW w \in Workers, NEW c \in Categories, StoreResult(w, c) PROVE IInv'
<1>1. job[w] \in Reports /\ snapshot[w] \in Texts
  BY JobTyped DEF StoreResult, IInv
<1>2. classified' \in [Reports -> Texts \cup {None}]
  BY <1>1 DEF StoreResult, IInv, TypeOK, Texts
<1>3. /\ category' \in [Reports -> Categories \cup {None}]
      /\ source' \in [Reports -> {None, "citizen", "automation", "authority"}]
  BY <1>1 DEF StoreResult, IInv, TypeOK
<1>4. step' \in [Workers -> Stages] /\ step'[w] = "classified"
      /\ \A v \in Workers : v # w => step'[v] = step[v]
  BY DEF StoreResult, GoTo, IInv, TypeOK, Stages
<1>5. step[w] # "idle"
  BY DEF StoreResult
<1> QED
  BY <1>2, <1>3, <1>4, <1>5 DEF StoreResult, IInv, TypeOK, Texts, Stages

LEMMA WorkerPreserved ==
    ASSUME IInv, NEW w \in Workers, WorkerStep(w) \/ LoseTask(w) PROVE IInv'
<1>t. /\ status \in [Reports -> {"processing", "triaged", "moderated"}]
      /\ clusteredAs \in [Reports -> Categories \cup {None}]
      /\ category \in [Reports -> Categories \cup {None}]
      /\ queue \in [Reports -> Nat] /\ losses \in 0 .. MaxLosses /\ MaxLosses \in Nat
      /\ text \in [Reports -> Texts]
  BY ConstantsTyped DEF IInv, TypeOK, Texts
<1>s. {"taken", "calling", "stale", "classified"} = Stages \ {"idle"}
  BY DEF Stages
<1>1. CASE ReadReport(w)
  <2>1. job[w] \in Reports /\ text[job[w]] \in Texts
    BY <1>1, <1>t, JobTyped DEF ReadReport
  <2>2. CASE EndTask(w)
    BY <1>1, <1>t, <2>2, EndTaskPreserved DEF ReadReport, reportVars
  <2>3. CASE GoTo(w, "classified") /\ UNCHANGED snapshot /\ UNCHANGED job
    BY <1>1, <1>s, <2>3, GoOnPreserved DEF ReadReport
  <2>4. CASE GoTo(w, "calling") /\ snapshot' = [snapshot EXCEPT ![w] = text[job[w]]]
             /\ UNCHANGED job
    BY <1>1, <1>s, <2>1, <2>4, GoOnPreserved DEF ReadReport
  <2> QED
    BY <1>1, <2>2, <2>3, <2>4 DEF ReadReport
<1>2. CASE DropResult(w)
  <2>1. CASE EndTask(w)
    BY <1>2, <1>t, <2>1, EndTaskPreserved DEF DropResult, reportVars
  <2>2. CASE GoTo(w, "classified") /\ UNCHANGED <<job, snapshot>>
    BY <1>2, <1>s, <2>2, GoOnPreserved DEF DropResult
  <2>3. CASE GoTo(w, "stale") /\ UNCHANGED <<job, snapshot>>
    BY <1>2, <1>s, <2>3, GoOnPreserved DEF DropResult
  <2> QED
    BY <1>2, <2>1, <2>2, <2>3 DEF DropResult
<1>3. CASE StartOver(w)
  <2>1. queue' \in [Reports -> Nat]
    BY <1>3, <1>t, JobTyped DEF StartOver, Requeue
  <2> QED
    BY <1>3, <1>t, <2>1, EndTaskPreserved DEF StartOver, reportVars
<1>4. CASE ClusterReport(w)
  <2>1. job[w] \in Reports
    BY <1>4, JobTyped DEF ClusterReport
  <2>2. /\ status' \in [Reports -> {"processing", "triaged", "moderated"}]
        /\ clusteredAs' \in [Reports -> Categories \cup {None}]
        /\ UNCHANGED <<text, category, source, classified, edit, queue, losses>>
    BY <1>4, <1>t, <2>1 DEF ClusterReport, reportVars
  <2> QED
    BY <1>4, <1>t, <2>2, EndTaskPreserved DEF ClusterReport
<1>5. CASE LoseTask(w)
  <2>1. losses' \in 0 .. MaxLosses
    BY <1>5, <1>t DEF LoseTask
  <2> QED
    BY <1>5, <1>t, <2>1, EndTaskPreserved DEF LoseTask, reportVars
<1> QED
  BY <1>1, <1>2, <1>3, <1>4, <1>5, TakePreserved, StorePreserved DEF WorkerStep

LEMMA EditPreserved ==
    ASSUME IInv, \/ \E e \in Edits : CheckEdit(e) \/ SaveText(e)
                 \/ \E e \in Edits, c \in Categories : SaveCategory(e, c)
                 \/ \E r \in Moderable : Moderate(r)
                 \/ UNCHANGED vars
    PROVE  IInv'
<1>1. ASSUME NEW e \in Edits, CheckEdit(e) \/ SaveText(e) PROVE IInv'
  BY <1>1, ConstantsTyped DEF CheckEdit, SaveText, IInv, TypeOK, Texts, reportVars, taskVars
<1>2. ASSUME NEW e \in Edits, NEW c \in Categories, SaveCategory(e, c) PROVE IInv'
  BY <1>2, ConstantsTyped DEF SaveCategory, IInv, TypeOK, Texts, taskVars
<1>3. ASSUME NEW r \in Moderable, Moderate(r) PROVE IInv'
  BY <1>3, ConstantsTyped DEF Moderate, IInv, TypeOK, taskVars
<1>4. CASE UNCHANGED vars
  BY <1>4 DEF vars, IInv, TypeOK, reportVars, taskVars
<1> QED
  BY <1>1, <1>2, <1>3, <1>4

LEMMA Preserved == IInv /\ [Next]_vars => IInv'
  BY WorkerPreserved, EditPreserved DEF Next

(* Every variable of the triage keeps its type. *)
THEOREM TypesCorrect == Spec => []TypeOK
<1>1. IInv => TypeOK
  BY DEF IInv
<1> QED
  BY <1>1, Initially, Preserved, PTL DEF Spec

-----------------------------------------------------------------------------
(* Who changes what is known of a Report: a stored result, the clustering, or *)
(* a person's edit.                                                           *)
LEMMA OneChange ==
    ASSUME IInv, [Next]_vars, NEW r \in Reports
    PROVE  \/ UNCHANGED <<category[r], source[r], classified[r], clusteredAs[r]>>
           \/ /\ classified[r] = None /\ clusteredAs'[r] = clusteredAs[r]
              /\ source[r] = "authority" => UNCHANGED <<category[r], source[r]>>
           \/ /\ clusteredAs[r] = None
              /\ UNCHANGED <<category[r], source[r], classified[r]>>
           \/ EditSaved(r) /\ UNCHANGED <<classified[r], clusteredAs[r]>>
<1>1. ASSUME NEW w \in Workers, NEW c \in Categories, StoreResult(w, c)
      PROVE  \/ UNCHANGED <<category[r], source[r], classified[r], clusteredAs[r]>>
             \/ /\ classified[r] = None /\ clusteredAs'[r] = clusteredAs[r]
                /\ source[r] = "authority" => UNCHANGED <<category[r], source[r]>>
  BY <1>1, JobTyped
  DEF StoreResult, AwaitsResult, IsClassified, KeepsCategory, IInv, TypeOK
<1>2. ASSUME NEW w \in Workers, ClusterReport(w)
      PROVE  \/ UNCHANGED <<category[r], source[r], classified[r], clusteredAs[r]>>
             \/ /\ clusteredAs[r] = None
                /\ UNCHANGED <<category[r], source[r], classified[r]>>
  BY <1>2, JobTyped DEF ClusterReport, reportVars, IInv, TypeOK
<1>3. ASSUME NEW e \in Edits, NEW c \in Categories, SaveCategory(e, c)
      PROVE  \/ UNCHANGED <<category[r], source[r], classified[r], clusteredAs[r]>>
             \/ EditSaved(r) /\ UNCHANGED <<classified[r], clusteredAs[r]>>
  BY <1>3 DEF SaveCategory, EditSaved, IInv, TypeOK
<1>4. CASE UNCHANGED <<category, source, classified, clusteredAs>>
  BY <1>4
<1>5. ASSUME NEW w \in Workers, WorkerStep(w) \/ LoseTask(w)
      PROVE  \/ UNCHANGED <<category, source, classified, clusteredAs>>
             \/ ClusterReport(w) \/ \E c \in Categories : StoreResult(w, c)
  BY <1>5 DEF WorkerStep, Take, ReadReport, DropResult, StartOver, LoseTask, reportVars
<1>6. ASSUME \/ \E e \in Edits : CheckEdit(e) \/ SaveText(e)
             \/ \E q \in Moderable : Moderate(q)
             \/ UNCHANGED vars
      PROVE  UNCHANGED <<category, source, classified, clusteredAs>>
  BY <1>6 DEF CheckEdit, SaveText, Moderate, vars, reportVars
<1> QED
  BY <1>1, <1>2, <1>3, <1>4, <1>5, <1>6 DEF Next

(* FR-11 for any number of deliveries and edits: triage never overwrites a    *)
(* category an official has set (docstring of update_report).                 *)
THEOREM OfficialCategoryCorrect == Spec => OfficialCategoryIsKept
<1>1. IInv /\ [Next]_vars =>
          \A r \in Reports : source[r] = "authority" =>
              \/ category'[r] = category[r] /\ source'[r] = "authority"
              \/ EditSaved(r)
  BY OneChange
<1> QED
  BY <1>1, Initially, Preserved, PTL DEF Spec, OfficialCategoryIsKept

(* The first stored result stands, and a Report is clustered once, however    *)
(* often it is delivered (architecture section 11).                           *)
THEOREM TriagedOnceCorrect == Spec => TriagedOnce
<1>1. IInv /\ [Next]_vars =>
          \A r \in Reports :
              /\ classified[r] # None =>
                     /\ classified'[r] = classified[r]
                     /\ category'[r] = category[r] \/ EditSaved(r)
              /\ clusteredAs[r] # None => clusteredAs'[r] = clusteredAs[r]
  BY OneChange
<1> QED
  BY <1>1, Initially, Preserved, PTL DEF Spec, TriagedOnce

-----------------------------------------------------------------------------
(* While no run is lost, a Report that waits is in a message or in a worker's *)
(* hands: every other way for a run to end has triaged it, found it moderated *)
(* or sent it once more.                                                      *)
NoReportForgotten ==
    \A r \in Reports : status[r] = "processing" /\ losses = 0 =>
        \/ queue[r] > 0
        \/ \E w \in Workers : job[w] = r

(* What was clustered waits no more. *)
ClusteredIsTriaged ==
    \A r \in Reports : clusteredAs[r] # None => status[r] # "processing"

Accounted == NoReportForgotten /\ ClusteredIsTriaged

LEMMA AccountedInitially == Init => Accounted
  BY ConstantsTyped DEF Init, Accounted, NoReportForgotten, ClusteredIsTriaged

(* A run that ends with its Report settled or in the queue forgets none. *)
LEMMA EndForgetsNone ==
    ASSUME IInv, NoReportForgotten, NEW w \in Workers, EndTask(w),
           \A r \in Reports : status'[r] = "processing" => status[r] = "processing",
           queue' \in [Reports -> Nat], \A r \in Reports : queue'[r] >= queue[r],
           losses' = losses \/ losses' > 0,
           \A r \in Reports : job[w] = r =>
               status'[r] # "processing" \/ queue'[r] > 0 \/ losses' > 0
    PROVE  NoReportForgotten'
<1> SUFFICES ASSUME NEW r \in Reports, status'[r] = "processing", losses' = 0
             PROVE  queue'[r] > 0 \/ \E v \in Workers : job'[v] = r
  BY DEF NoReportForgotten
<1>t. queue[r] \in Nat /\ queue'[r] \in Nat /\ queue'[r] >= queue[r]
  BY DEF IInv, TypeOK
<1>1. CASE queue[r] > 0
  BY <1>1, <1>t
<1>2. CASE \E v \in Workers : job[v] = r
  <2>1. PICK v \in Workers : job[v] = r
    BY <1>2
  <2>2. CASE v = w
    BY <2>1, <2>2
  <2>3. CASE v # w
    BY <2>1, <2>3 DEF EndTask, IInv, TypeOK
  <2> QED
    BY <2>2, <2>3
<1> QED
  BY <1>1, <1>2, <1>t DEF NoReportForgotten

LEMMA WorkerForgetsNone ==
    ASSUME IInv, Accounted, NEW w \in Workers, WorkerStep(w) \/ LoseTask(w)
    PROVE  Accounted'
<1>t. /\ status \in [Reports -> {"processing", "triaged", "moderated"}]
      /\ clusteredAs \in [Reports -> Categories \cup {None}]
      /\ queue \in [Reports -> Nat] /\ losses \in Nat
      /\ job \in [Workers -> Reports \cup {None}]
  BY ConstantsTyped DEF IInv, TypeOK
<1>1. ASSUME NEW r \in Reports, Take(w, r) PROVE Accounted'
  <2>1. job[w] = None
    BY <1>1 DEF Take, IInv, TypeOK
  <2>2. ClusteredIsTriaged'
    BY <1>1 DEF Take, reportVars, Accounted, ClusteredIsTriaged
  <2>3. ASSUME NEW q \in Reports, status'[q] = "processing", losses' = 0
        PROVE  queue'[q] > 0 \/ \E v \in Workers : job'[v] = q
    <3>1. CASE q = r
      BY <1>1, <1>t, <3>1 DEF Take
    <3>2. CASE q # r
      <4>1. queue[q] > 0 \/ \E v \in Workers : job[v] = q
        BY <1>1, <2>3 DEF Take, reportVars, Accounted, NoReportForgotten
      <4>2. queue'[q] = queue[q] /\ \A v \in Workers : job[v] = q => job'[v] = q
        BY <1>1, <1>t, <2>1, <3>2, ConstantsTyped DEF Take
      <4> QED
        BY <4>1, <4>2
    <3> QED
      BY <3>1, <3>2
  <2> QED
    BY <2>2, <2>3 DEF Accounted, NoReportForgotten
<1>2. CASE ReadReport(w)
  <2>1. UNCHANGED <<status, clusteredAs, queue, losses>>
    BY <1>2 DEF ReadReport, reportVars
  <2>2. CASE Moderated(job[w]) /\ EndTask(w)
    <3>1. NoReportForgotten'
      BY <1>t, <2>1, <2>2, EndForgetsNone DEF Accounted, Moderated
    <3> QED
      BY <2>1, <3>1 DEF Accounted, ClusteredIsTriaged
  <2>3. CASE UNCHANGED job
    BY <2>1, <2>3 DEF Accounted, NoReportForgotten, ClusteredIsTriaged
  <2> QED
    BY <1>2, <2>2, <2>3 DEF ReadReport
<1>3. ASSUME NEW c \in Categories, StoreResult(w, c) PROVE Accounted'
  BY <1>3 DEF StoreResult, Accounted, NoReportForgotten, ClusteredIsTriaged
<1>4. CASE DropResult(w)
  <2>1. UNCHANGED <<status, clusteredAs, queue, losses>>
    BY <1>4 DEF DropResult, reportVars
  <2>2. CASE Moderated(job[w]) /\ EndTask(w)
    <3>1. NoReportForgotten'
      BY <1>t, <2>1, <2>2, EndForgetsNone DEF Accounted, Moderated
    <3> QED
      BY <2>1, <3>1 DEF Accounted, ClusteredIsTriaged
  <2>3. CASE UNCHANGED job
    BY <2>1, <2>3 DEF Accounted, NoReportForgotten, ClusteredIsTriaged
  <2> QED
    BY <1>4, <2>2, <2>3 DEF DropResult
<1>5. CASE StartOver(w)
  <2>1. job[w] \in Reports /\ EndTask(w) /\ UNCHANGED <<status, clusteredAs, losses>>
    BY <1>5, JobTyped DEF StartOver, reportVars
  <2>2. /\ queue'[job[w]] = queue[job[w]] + 1
        /\ queue' \in [Reports -> Nat] /\ \A r \in Reports : queue'[r] >= queue[r]
    BY <1>5, <1>t, <2>1 DEF StartOver, Requeue
  <2>3. NoReportForgotten'
    BY <1>t, <2>1, <2>2, EndForgetsNone DEF Accounted
  <2> QED
    BY <2>1, <2>3 DEF Accounted, ClusteredIsTriaged
<1>6. CASE ClusterReport(w)
  <2>1. job[w] \in Reports /\ EndTask(w) /\ UNCHANGED <<queue, losses>>
    BY <1>6, JobTyped DEF ClusterReport
  <2>2. /\ status'[job[w]] # "processing"
        /\ \A r \in Reports : status'[r] = "processing" => status[r] = "processing"
        /\ ClusteredIsTriaged'
    BY <1>6, <1>t, <2>1
    DEF ClusterReport, reportVars, Moderated, Accounted, ClusteredIsTriaged
  <2>3. NoReportForgotten'
    BY <1>t, <2>1, <2>2, EndForgetsNone DEF Accounted
  <2> QED
    BY <2>2, <2>3 DEF Accounted
<1>7. CASE LoseTask(w)
  <2>1. losses' > 0 /\ UNCHANGED <<status, clusteredAs>>
    BY <1>7, <1>t DEF LoseTask, reportVars
  <2> QED
    BY <1>t, <2>1 DEF LoseTask, Accounted, NoReportForgotten, ClusteredIsTriaged
<1> QED
  BY <1>1, <1>2, <1>3, <1>4, <1>5, <1>6, <1>7 DEF WorkerStep

LEMMA AccountedPreserved == IInv /\ Accounted /\ [Next]_vars => Accounted'
<1> SUFFICES ASSUME IInv, Accounted, [Next]_vars PROVE Accounted'
  OBVIOUS
<1> USE DEF Accounted, NoReportForgotten, ClusteredIsTriaged
<1>1. ASSUME UNCHANGED <<status, clusteredAs, queue, job, losses>> PROVE Accounted'
  BY <1>1
<1>2. ASSUME NEW r \in Moderable, Moderate(r) PROVE Accounted'
  BY <1>2, ConstantsTyped DEF Moderate, taskVars, IInv, TypeOK
<1> QED
  BY <1>1, <1>2, WorkerForgetsNone
     DEF Next, CheckEdit, SaveText, SaveCategory, vars, reportVars, taskVars

(* Architecture section 12 for any number of deliveries, workers and edits:   *)
(* as long as no run is lost, every Report that still waits has a message at  *)
(* the broker or a worker that has it, a result that came too late included.  *)
THEOREM ReportsAccountedFor == Spec => []NoReportForgotten
<1>1. Accounted => NoReportForgotten
  BY DEF Accounted
<1> QED
  BY <1>1, Initially, Preserved, AccountedInitially, AccountedPreserved, PTL DEF Spec

-----------------------------------------------------------------------------
(* The derivatives of a photo. *)

LEMMA MediaConstants ==
    /\ Wanted \in [Submissions -> SUBSET Photos \ {{}}]
    /\ Deliveries \in Nat \ {0} /\ MaxLosses \in Nat
    /\ None \notin Submissions \cup Photos
  BY TasksAssumption DEF MP!MediaAssumption

RowCopies == [state : MP!State, report : Submissions \cup {None}, master : Nat]

(* Nothing has downscaled a photo that still waits for it, and every run has  *)
(* read such a photo.                                                         *)
NotYetDownscaled ==
    /\ \A p \in Photos : photo[p] \in {"absent", "processing"} => master[p] = 0
    /\ \A w \in Workers : MP!Working(w) => row[w].master = 0

MediaInv == MP!TypeOK /\ NotYetDownscaled /\ MP!DownscaledOnce

LEMMA MediaInitially == MP!Init => MediaInv
  BY MediaConstants DEF MP!Init, MediaInv, MP!TypeOK, NotYetDownscaled, MP!DownscaledOnce,
                        MP!Working, MP!State

(* A run that ends, in whatever way, leaves the other runs alone. *)
LEMMA TaskEnded ==
    ASSUME MediaInv, NEW w \in Workers, MP!EndTask(w)
    PROVE  /\ shot' \in [Workers -> Photos \cup {None}]
           /\ row' \in [Workers -> {None} \cup RowCopies]
           /\ \A v \in Workers : MP!Working(v)' => v # w /\ MP!Working(v) /\ row'[v] = row[v]
                                                /\ shot'[v] = shot[v]
  BY DEF MP!EndTask, MediaInv, MP!TypeOK, RowCopies, MP!Working

LEMMA MediaWorkerPreserved ==
    ASSUME MediaInv, NEW w \in Workers, MP!WorkerStep(w) \/ MP!LoseTask(w) PROVE MediaInv'
<1>1. ASSUME NEW p \in Photos, MP!Take(w, p) PROVE MediaInv'
  BY <1>1, MediaConstants DEF MP!Take, MP!mediaVars, MediaInv, MP!TypeOK, NotYetDownscaled,
                              MP!DownscaledOnce, MP!Working
<1>2. CASE MP!ReadRow(w)
  <2>1. shot[w] \in Photos
    BY <1>2 DEF MP!ReadRow, MediaInv, MP!TypeOK
  <2>2. CASE MP!Processable(shot[w])
    <3>1. MP!Row(shot[w]) \in RowCopies /\ MP!Row(shot[w]).master = 0
      BY <2>1, <2>2 DEF MP!Row, RowCopies, MP!Processable, MediaInv, MP!TypeOK, NotYetDownscaled
    <3>2. /\ row' = [row EXCEPT ![w] = MP!Row(shot[w])]
          /\ UNCHANGED <<photo, reportOf, master, submission, uploads, shot, removal, missed>>
      BY <1>2, <2>2 DEF MP!ReadRow, MP!mediaVars
    <3>3. row' \in [Workers -> {None} \cup RowCopies]
      BY <3>1, <3>2 DEF MediaInv, MP!TypeOK, RowCopies
    <3>4. row'[w] = MP!Row(shot[w]) /\ \A v \in Workers : v # w => row'[v] = row[v]
      BY <3>2 DEF MediaInv, MP!TypeOK
    <3>5. MP!TypeOK'
      <4>1. \A v \in Workers : MP!Working(v)' => shot'[v] # None
        BY <2>1, <3>2, <3>4, MediaConstants DEF MediaInv, MP!TypeOK, MP!Working
      <4> QED
        BY <3>2, <3>3, <4>1 DEF MediaInv, MP!TypeOK, RowCopies
    <3>6. NotYetDownscaled' /\ MP!DownscaledOnce'
      BY <3>1, <3>2, <3>4 DEF MediaInv, NotYetDownscaled, MP!DownscaledOnce, MP!Working
    <3> QED
      BY <3>5, <3>6 DEF MediaInv
  <2>3. CASE ~MP!Processable(shot[w])
    <3>1. MP!EndTask(w) /\ UNCHANGED <<photo, reportOf, master, submission, uploads, removal, missed>>
      BY <1>2, <2>3 DEF MP!ReadRow, MP!mediaVars
    <3> QED
      BY <3>1, TaskEnded DEF MediaInv, MP!TypeOK, NotYetDownscaled, MP!DownscaledOnce,
                             MP!Working, RowCopies
  <2> QED
    BY <2>2, <2>3
<1>3. CASE MP!SaveReady(w)
  <2>1. /\ shot[w] \in Photos /\ row[w] \in RowCopies /\ row[w].master = 0
    BY <1>3 DEF MP!SaveReady, MP!Working, MediaInv, MP!TypeOK, NotYetDownscaled, RowCopies
  <2>2. /\ photo' = [photo EXCEPT ![shot[w]] = "ready"]
        /\ reportOf' = [reportOf EXCEPT ![shot[w]] = row[w].report]
        /\ master' = [master EXCEPT ![shot[w]] = 1]
        /\ MP!EndTask(w) /\ UNCHANGED <<submission, uploads, removal, missed>>
    BY <1>3, <2>1 DEF MP!SaveReady
  <2>3. MP!TypeOK'
    BY <2>1, <2>2, TaskEnded DEF MediaInv, MP!TypeOK, RowCopies, MP!State, MP!Working
  <2>4. NotYetDownscaled' /\ MP!DownscaledOnce'
    BY <2>1, <2>2, TaskEnded DEF MediaInv, MP!TypeOK, NotYetDownscaled, MP!DownscaledOnce
  <2> QED
    BY <2>3, <2>4 DEF MediaInv
<1>4. CASE MP!SaveFailed(w)
  <2>1. MP!EndTask(w) /\ UNCHANGED <<reportOf, master, submission, uploads, removal, missed>>
        /\ photo' = [photo EXCEPT ![shot[w]] = "failed"] /\ shot[w] \in Photos
    BY <1>4 DEF MP!SaveFailed, MP!MarkFailed, MediaInv, MP!TypeOK
  <2>2. MP!TypeOK'
    BY <2>1, TaskEnded DEF MediaInv, MP!TypeOK, RowCopies, MP!State, MP!Working
  <2>3. NotYetDownscaled' /\ MP!DownscaledOnce'
    BY <2>1, TaskEnded DEF MediaInv, MP!TypeOK, NotYetDownscaled, MP!DownscaledOnce
  <2> QED
    BY <2>2, <2>3 DEF MediaInv
<1>5. CASE MP!LoseTask(w)
  <2>1. MP!EndTask(w) /\ UNCHANGED <<photo, reportOf, master, submission, uploads, removal>>
        /\ missed' \in 0 .. MaxLosses
    BY <1>5, MediaConstants DEF MP!LoseTask, MP!Lose, MP!mediaVars, MediaInv, MP!TypeOK
  <2> QED
    BY <2>1, TaskEnded DEF MediaInv, MP!TypeOK, NotYetDownscaled, MP!DownscaledOnce, MP!Working,
                           RowCopies
<1> QED
  BY <1>1, <1>2, <1>3, <1>4, <1>5 DEF MP!WorkerStep

LEMMA MediaOthersPreserved ==
    ASSUME MediaInv,
           \/ \E p \in Photos : \/ MP!UploadMedia(p) \/ MP!UploadUnqueued(p)
                                \/ MP!CheckRemoval(p) \/ MP!SaveRemoval(p)
                                \/ \E verdict \in MP!Down : MP!Moderate(p, verdict)
           \/ \E r \in Submissions : MP!SubmitReport(r) \/ MP!TriageReport(r)
           \/ UNCHANGED MP!vars
    PROVE  MediaInv'
<1> USE DEF MediaInv, MP!TypeOK, NotYetDownscaled, MP!DownscaledOnce, MP!Working, MP!State,
            MP!Down, MP!taskVars, MP!mediaVars
<1>1. ASSUME NEW p \in Photos, MP!UploadMedia(p) \/ MP!UploadUnqueued(p) PROVE MediaInv'
  BY <1>1, MediaConstants DEF MP!UploadMedia, MP!UploadUnqueued, MP!Store, MP!Lose
<1>2. ASSUME NEW p \in Photos, MP!CheckRemoval(p) \/ MP!SaveRemoval(p) PROVE MediaInv'
  BY <1>2 DEF MP!CheckRemoval, MP!SaveRemoval
<1>3. ASSUME NEW p \in Photos, NEW verdict \in MP!Down, MP!Moderate(p, verdict) PROVE MediaInv'
  BY <1>3 DEF MP!Moderate
<1>4. ASSUME NEW r \in Submissions, MP!SubmitReport(r) \/ MP!TriageReport(r) PROVE MediaInv'
  BY <1>4 DEF MP!SubmitReport, MP!TriageReport
<1>5. CASE UNCHANGED MP!vars
  BY <1>5 DEF MP!vars
<1> QED
  BY <1>1, <1>2, <1>3, <1>4, <1>5

LEMMA MediaPreserved == MediaInv /\ [MP!Next]_(MP!vars) => MediaInv'
  BY MediaWorkerPreserved, MediaOthersPreserved DEF MP!Next

(* Every variable of the photos keeps its type. *)
THEOREM PhotosTyped == MP!Spec => []MP!TypeOK
<1>1. MediaInv => MP!TypeOK
  BY DEF MediaInv
<1> QED
  BY <1>1, MediaInitially, MediaPreserved, PTL DEF MP!Spec

(* A stored image loses quality once, however many deliveries of its task run *)
(* side by side (test_a_second_delivery_is_a_no_op).                          *)
THEOREM DownscaledCorrect == MP!Spec => []DownscaledOnce
<1>1. MediaInv => DownscaledOnce
  BY DEF MediaInv, DownscaledOnce
<1> QED
  BY <1>1, MediaInitially, MediaPreserved, PTL DEF MP!Spec

(* A run begins only with a photo that is being processed, and only runs that *)
(* have begun write the photo's state back.                                   *)
LEMMA StaysDownInStep ==
    MediaInv /\ [MP!Next]_(MP!vars) => \A p \in Photos : MP!SettledDown(p) => MP!SettledDown(p)'
<1> SUFFICES ASSUME MediaInv, [MP!Next]_(MP!vars), NEW p \in Photos, MP!SettledDown(p)
             PROVE  MP!SettledDown(p)'
  OBVIOUS
<1>1. ASSUME NEW w \in Workers, MP!WorkerStep(w) \/ MP!LoseTask(w) PROVE MP!SettledDown(p)'
  <2>1. shot[w] = p => ~MP!Working(w)
    BY DEF MP!SettledDown
  <2>2. CASE \E q \in Photos : MP!Take(w, q)
    BY <2>2 DEF MP!Take, MP!mediaVars, MP!SettledDown, MP!Working, MediaInv, MP!TypeOK
  <2>3. CASE MP!ReadRow(w)
    BY <2>3 DEF MP!ReadRow, MP!Processable, MP!EndTask, MP!mediaVars, MP!SettledDown,
                MP!Working, MP!Down, MediaInv, MP!TypeOK
  <2>4. CASE MP!SaveReady(w) \/ MP!SaveFailed(w) \/ MP!LoseTask(w)
    <3>1. \A v \in Workers : MP!Working(v)' => MP!Working(v) /\ shot'[v] = shot[v]
      BY <2>4, TaskEnded DEF MP!SaveReady, MP!SaveFailed, MP!LoseTask
    <3>2. photo'[p] = photo[p]
      BY <2>1, <2>4 DEF MP!SaveReady, MP!SaveFailed, MP!MarkFailed, MP!LoseTask, MP!mediaVars,
                        MediaInv, MP!TypeOK
    <3> QED
      BY <3>1, <3>2 DEF MP!SettledDown
  <2> QED
    BY <1>1, <2>2, <2>3, <2>4 DEF MP!WorkerStep
<1>2. CASE UNCHANGED <<shot, row>>
  <2>1. photo'[p] \in MP!Down
    BY <1>2 DEF MP!SettledDown, MP!Next, MP!UploadMedia, MP!UploadUnqueued, MP!Store,
                MP!CheckRemoval, MP!SaveRemoval, MP!Moderate, MP!SubmitReport, MP!TriageReport,
                MP!WorkerStep, MP!Take, MP!ReadRow, MP!SaveReady, MP!SaveFailed, MP!LoseTask,
                MP!EndTask, MP!vars, MP!mediaVars, MP!taskVars, MP!Down, MP!Working, MediaInv,
                MP!TypeOK
  <2> QED
    BY <1>2, <2>1 DEF MP!SettledDown, MP!Working
<1> QED
  BY <1>1, <1>2 DEF MP!Next, MP!UploadMedia, MP!UploadUnqueued, MP!Store, MP!CheckRemoval,
                    MP!SaveRemoval, MP!Moderate, MP!SubmitReport, MP!TriageReport, MP!vars,
                    MP!taskVars

(* A photo that was taken down before a run reads its row stays down, however *)
(* often it is delivered (docstring of process_media).                        *)
THEOREM StaysDownCorrect == MP!Spec => TakenDownBeforeRunStaysDown
<1> QED
  BY StaysDownInStep, MediaInitially, MediaPreserved, PTL
     DEF MP!Spec, TakenDownBeforeRunStaysDown, MP!TakenDownBeforeRunStaysDown

-----------------------------------------------------------------------------
(* While nothing is lost, a photo that waits for its derivatives is in a      *)
(* message or in a worker's hands.                                            *)
NoPhotoForgotten ==
    \A p \in Photos : photo[p] = "processing" /\ missed = 0 =>
        \/ uploads[p] > 0
        \/ \E w \in Workers : shot[w] = p

LEMMA NoPhotoForgottenInitially == MP!Init => NoPhotoForgotten
  BY DEF MP!Init, NoPhotoForgotten

(* A run that ends with its photo settled forgets none. *)
LEMMA EndForgetsNoPhoto ==
    ASSUME MediaInv, NoPhotoForgotten, NEW w \in Workers, MP!EndTask(w),
           \A p \in Photos : photo'[p] = "processing" => photo[p] = "processing",
           \A p \in Photos : shot[w] = p => photo'[p] # "processing",
           UNCHANGED <<uploads, missed>>
    PROVE  NoPhotoForgotten'
<1> SUFFICES ASSUME NEW p \in Photos, photo'[p] = "processing", missed' = 0
             PROVE  uploads'[p] > 0 \/ \E v \in Workers : shot'[v] = p
  BY DEF NoPhotoForgotten
<1>1. CASE \E v \in Workers : shot[v] = p
  BY <1>1 DEF MP!EndTask, MediaInv, MP!TypeOK
<1> QED
  BY <1>1 DEF NoPhotoForgotten

LEMMA NoPhotoForgottenPreserved ==
    MediaInv /\ NoPhotoForgotten /\ [MP!Next]_(MP!vars) => NoPhotoForgotten'
<1> SUFFICES ASSUME MediaInv, NoPhotoForgotten, [MP!Next]_(MP!vars) PROVE NoPhotoForgotten'
  OBVIOUS
<1>t. /\ photo \in [Photos -> MP!State] /\ uploads \in [Photos -> Nat] /\ missed \in Nat
      /\ shot \in [Workers -> Photos \cup {None}] /\ Deliveries > 0
  BY MediaConstants DEF MediaInv, MP!TypeOK
<1>1. ASSUME NEW p \in Photos, MP!UploadMedia(p) PROVE NoPhotoForgotten'
  BY <1>1, <1>t DEF MP!UploadMedia, MP!Store, MP!taskVars, NoPhotoForgotten
<1>2. ASSUME missed' = missed + 1 PROVE NoPhotoForgotten'
  BY <1>2, <1>t DEF NoPhotoForgotten
<1>3. ASSUME NEW p \in Photos, NEW w \in Workers, MP!Take(w, p) PROVE NoPhotoForgotten'
  <2>1. shot[w] = None /\ shot' = [shot EXCEPT ![w] = p]
        /\ uploads' = [uploads EXCEPT ![p] = @ - 1] /\ UNCHANGED <<photo, missed>>
    BY <1>3 DEF MP!Take, MP!mediaVars
  <2>2. shot'[w] = p /\ \A q \in Photos : q # p => uploads'[q] = uploads[q]
    BY <1>t, <2>1
  <2>3. \A v \in Workers, q \in Photos : shot[v] = q => shot'[v] = q
    BY <1>t, <2>1, MediaConstants
  <2> QED
    BY <2>1, <2>2, <2>3 DEF NoPhotoForgotten
<1>4. ASSUME NEW w \in Workers, MP!ReadRow(w) PROVE NoPhotoForgotten'
  <2>1. CASE UNCHANGED shot
    BY <1>4, <2>1 DEF MP!ReadRow, MP!mediaVars, NoPhotoForgotten
  <2>2. CASE MP!EndTask(w) /\ photo[shot[w]] # "processing"
    BY <1>4, <2>2, EndForgetsNoPhoto DEF MP!ReadRow, MP!mediaVars
  <2> QED
    BY <1>4, <2>1, <2>2 DEF MP!ReadRow, MP!Processable
<1>5. ASSUME NEW w \in Workers, MP!SaveReady(w) \/ MP!SaveFailed(w) PROVE NoPhotoForgotten'
  <2>1. shot[w] \in Photos
    BY <1>5, <1>t DEF MP!SaveReady, MP!SaveFailed, MediaInv, MP!TypeOK
  <2>2. /\ \A p \in Photos : photo'[p] = "processing" => photo[p] = "processing"
        /\ photo'[shot[w]] # "processing"
    BY <1>5, <1>t, <2>1 DEF MP!SaveReady, MP!SaveFailed, MP!MarkFailed
  <2> QED
    BY <1>5, <2>2, EndForgetsNoPhoto DEF MP!SaveReady, MP!SaveFailed
<1>6. ASSUME UNCHANGED <<uploads, shot, missed>>,
             \A p \in Photos : photo'[p] = "processing" => photo[p] = "processing"
      PROVE  NoPhotoForgotten'
  BY <1>6 DEF NoPhotoForgotten
<1>7. ASSUME NEW p \in Photos,
             \/ MP!CheckRemoval(p) \/ MP!SaveRemoval(p)
             \/ \E verdict \in MP!Down : MP!Moderate(p, verdict)
      PROVE  NoPhotoForgotten'
  BY <1>6, <1>7, <1>t DEF MP!CheckRemoval, MP!SaveRemoval, MP!Moderate, MP!Down, MP!mediaVars,
                          MP!taskVars
<1>8. ASSUME NEW r \in Submissions, MP!SubmitReport(r) \/ MP!TriageReport(r)
      PROVE  NoPhotoForgotten'
  BY <1>6, <1>8 DEF MP!SubmitReport, MP!TriageReport, MP!mediaVars, MP!taskVars
<1>9. ASSUME UNCHANGED MP!vars PROVE NoPhotoForgotten'
  BY <1>6, <1>9 DEF MP!vars, MP!mediaVars, MP!taskVars
<1> QED
  BY <1>1, <1>2, <1>3, <1>4, <1>5, <1>7, <1>8, <1>9
     DEF MP!Next, MP!WorkerStep, MP!UploadUnqueued, MP!LoseTask, MP!Lose

(* Any number of uploads and deliveries: as long as nothing is lost, a photo  *)
(* that still waits has a message at the broker or a worker that has it.      *)
THEOREM PhotosAccountedFor == MP!Spec => []NoPhotoForgotten
<1> QED
  BY MediaInitially, MediaPreserved, NoPhotoForgottenInitially, NoPhotoForgottenPreserved, PTL
     DEF MP!Spec

-----------------------------------------------------------------------------
(* The exports. *)

LEMMA ExportConstants ==
    /\ Deliveries \in Nat /\ Deliveries > 0 /\ MaxLosses \in Nat /\ MaxStandings \in Nat
    /\ RequesterOf \in [Jobs -> Requesters]
  BY TasksAssumption DEF EX!ExportAssumption

(* A worker that is busy works on an export, and one that is about to save it *)
(* has stored the file.                                                       *)
RunsInOrder ==
    \A w \in Workers :
        /\ at[w] # "idle" => work[w] \in Jobs
        /\ at[w] = "saving" => work[w] \in stored

(* A link is given out for an export that is ready, and leads to a file.      *)
LinksLead == \A x \in Jobs : state[x] = "ready" => EX!DownloadUrl(x) /\ x \in stored

(* An export that is not finished, and of which nothing was lost, is in a     *)
(* message or in a worker's hands.                                            *)
NoExportForgotten ==
    \A x \in Jobs : state[x] = "processing" /\ x \notin lost =>
        \/ messages[x] > 0
        \/ \E w \in Workers : at[w] # "idle" /\ work[w] = x

ExportInv == EX!TypeOK /\ RunsInOrder /\ LinksLead /\ NoExportForgotten

LEMMA ExportInitially == EX!Init => ExportInv
  BY ExportConstants DEF EX!Init, ExportInv, EX!TypeOK, RunsInOrder, LinksLead, NoExportForgotten

(* A worker that goes on keeps its export. *)
LEMMA WorkerGoesOn ==
    ASSUME ExportInv, NEW w \in Workers, at[w] # "idle",
           NEW s \in {"reading", "storing", "saving", "failing"},
           at' = [at EXCEPT ![w] = s], UNCHANGED <<work, state, linked, messages, lost>>,
           stored' = stored \/ stored' = stored \cup {work[w]},
           s = "saving" => work[w] \in stored',
           UNCHANGED <<copy, active, losing, standings>>
    PROVE  ExportInv'
<1>1. work[w] \in Jobs /\ \A v \in Workers : at'[v] = IF v = w THEN s ELSE at[v]
  BY DEF ExportInv, RunsInOrder, EX!TypeOK
<1>2. EX!TypeOK'
  BY <1>1 DEF ExportInv, EX!TypeOK
<1>3. RunsInOrder' /\ LinksLead'
  BY <1>1 DEF ExportInv, RunsInOrder, LinksLead, EX!DownloadUrl
<1>4. NoExportForgotten'
  BY <1>1 DEF ExportInv, NoExportForgotten
<1> QED
  BY <1>2, <1>3, <1>4 DEF ExportInv

(* A worker that ends leaves its export finished or lost. *)
LEMMA WorkerEnds ==
    ASSUME ExportInv, NEW w \in Workers, EX!Ends(w), UNCHANGED <<messages, stored>>,
           state' \in [Jobs -> {"none", "processing", "ready", "failed"}],
           \A x \in Jobs : x # work[w] => state'[x] = state[x],
           work[w] \in Jobs => state'[work[w]] # "processing" \/ work[w] \in lost',
           lost \subseteq lost', linked \subseteq linked', linked' \subseteq Jobs,
           lost' \subseteq Jobs, losing' \in 0 .. MaxLosses,
           work[w] \in Jobs /\ state'[work[w]] = "ready" =>
               work[w] \in linked' /\ work[w] \in stored,
           UNCHANGED <<active, standings>>
    PROVE  ExportInv'
<1>1. /\ \A v \in Workers : v # w => at'[v] = at[v] /\ work'[v] = work[v]
      /\ at'[w] = "idle"
  BY DEF EX!Ends, ExportInv, EX!TypeOK
<1>2. EX!TypeOK'
  BY DEF EX!Ends, ExportInv, EX!TypeOK
<1>3. RunsInOrder'
  BY <1>1 DEF ExportInv, RunsInOrder
<1>4. LinksLead'
  BY DEF ExportInv, LinksLead, EX!DownloadUrl
<1>5. NoExportForgotten'
  BY <1>1 DEF ExportInv, NoExportForgotten
<1> QED
  BY <1>2, <1>3, <1>4, <1>5 DEF ExportInv

LEMMA ExportTaken ==
    ASSUME ExportInv, NEW w \in Workers, NEW x \in Jobs, EX!Take(w, x) PROVE ExportInv'
<1>t. /\ messages \in [Jobs -> 0 .. Deliveries] /\ Deliveries \in Nat /\ messages[x] > 0
      /\ at[w] = "idle" /\ messages' = [messages EXCEPT ![x] = @ - 1]
      /\ UNCHANGED <<state, stored, linked, active, lost, losing, standings>>
  BY ExportConstants DEF ExportInv, EX!TypeOK, EX!Take
<1>m. messages' \in [Jobs -> 0 .. Deliveries] /\ \A y \in Jobs : y # x => messages'[y] = messages[y]
  BY <1>t
<1>1. CASE state[x] # "processing"
  <2>1. UNCHANGED <<at, work, copy>>
    BY <1>1 DEF EX!Take, EX!workerVars
  <2> QED
    BY <1>1, <1>t, <1>m, <2>1
    DEF ExportInv, EX!TypeOK, RunsInOrder, LinksLead, EX!DownloadUrl, NoExportForgotten
<1>2. CASE state[x] = "processing"
  <2>1. /\ at' = [at EXCEPT ![w] = "reading"] /\ work' = [work EXCEPT ![w] = x]
        /\ copy' = [copy EXCEPT ![w] = active[RequesterOf[x]]]
    BY <1>2 DEF EX!Take
  <2>2. /\ at'[w] = "reading" /\ work'[w] = x
        /\ \A v \in Workers : v # w => at'[v] = at[v] /\ work'[v] = work[v]
    BY <2>1 DEF ExportInv, EX!TypeOK
  <2>3. EX!TypeOK'
    BY <1>t, <1>m, <2>1, ExportConstants DEF ExportInv, EX!TypeOK
  <2>4. RunsInOrder' /\ LinksLead'
    BY <1>t, <2>2 DEF ExportInv, RunsInOrder, LinksLead, EX!DownloadUrl
  <2>5. NoExportForgotten'
    BY <1>t, <1>m, <2>2 DEF ExportInv, NoExportForgotten
  <2> QED
    BY <2>3, <2>4, <2>5 DEF ExportInv
<1> QED
  BY <1>1, <1>2

LEMMA ExportWorkerPreserved ==
    ASSUME ExportInv, NEW w \in Workers, EX!Work(w) \/ EX!Dies(w) PROVE ExportInv'
<1>b. at[w] # "idle" => work[w] \in Jobs
  BY DEF ExportInv, RunsInOrder
<1>t. state \in [Jobs -> {"none", "processing", "ready", "failed"}] /\ losing \in 0 .. MaxLosses
      /\ linked \subseteq Jobs /\ lost \subseteq Jobs /\ MaxLosses \in Nat
  BY ExportConstants DEF ExportInv, EX!TypeOK
<1>1. CASE EX!ReadRows(w)
  BY <1>1, WorkerGoesOn DEF EX!ReadRows, EX!Goes
<1>2. CASE EX!StoreFile(w)
  BY <1>2, WorkerGoesOn DEF EX!StoreFile, EX!Goes
<1>3. CASE EX!Raises(w)
  BY <1>3, WorkerGoesOn DEF EX!Raises
<1>4. CASE EX!SaveReady(w)
  <2>1. work[w] \in Jobs /\ work[w] \in stored
    BY <1>4, <1>b DEF EX!SaveReady, ExportInv, RunsInOrder
  <2>2. /\ EX!Ends(w) /\ UNCHANGED <<stored, messages, active, lost, losing, standings>>
        /\ state' = [state EXCEPT ![work[w]] = "ready"] /\ linked' = linked \cup {work[w]}
    BY <1>4 DEF EX!SaveReady
  <2> QED
    BY <1>t, <2>1, <2>2, WorkerEnds
<1>5. CASE EX!SaveFailed(w)
  <2>1. work[w] \in Jobs
    BY <1>5, <1>b DEF EX!SaveFailed
  <2>2. /\ EX!Ends(w) /\ UNCHANGED <<stored, linked, messages, active, lost, losing, standings>>
        /\ state' = [state EXCEPT ![work[w]] = "failed"]
    BY <1>5 DEF EX!SaveFailed
  <2> QED
    BY <1>t, <2>1, <2>2, WorkerEnds
<1>6. CASE EX!Dies(w)
  <2>1. work[w] \in Jobs
    BY <1>6, <1>b DEF EX!Dies
  <2>2. /\ EX!Ends(w) /\ UNCHANGED <<state, stored, linked, messages, active, standings>>
        /\ lost' = lost \cup {work[w]} /\ losing' \in 0 .. MaxLosses
    BY <1>6, <1>t DEF EX!Dies, EX!Lose
  <2>3. state[work[w]] = "ready" => work[w] \in linked /\ work[w] \in stored
    BY <2>1 DEF ExportInv, LinksLead, EX!DownloadUrl
  <2> QED
    BY <1>t, <2>1, <2>2, <2>3, WorkerEnds
<1> QED
  BY <1>1, <1>2, <1>3, <1>4, <1>5, <1>6, ExportTaken DEF EX!Work

LEMMA ExportPreserved == ExportInv /\ [EX!Next]_(EX!vars) => ExportInv'
<1> SUFFICES ASSUME ExportInv, [EX!Next]_(EX!vars) PROVE ExportInv'
  OBVIOUS
<1> USE DEF ExportInv, EX!TypeOK, RunsInOrder, LinksLead, EX!DownloadUrl, NoExportForgotten
<1>1. ASSUME NEW x \in Jobs, EX!CreateExport(x) PROVE ExportInv'
  BY <1>1, ExportConstants DEF EX!CreateExport, EX!Lose, EX!workerVars
<1>2. ASSUME NEW u \in Requesters, EX!ChangeStanding(u) PROVE ExportInv'
  BY <1>2, ExportConstants DEF EX!ChangeStanding, EX!workerVars
<1>3. CASE UNCHANGED EX!vars
  BY <1>3 DEF EX!vars, EX!workerVars
<1> QED
  BY <1>1, <1>2, <1>3, ExportWorkerPreserved DEF EX!Next

(* The exports without their fairness. *)
Exported == EX!Init /\ [][EX!Next]_(EX!vars)

(* Every variable of the exports keeps its type. *)
THEOREM ExportsTyped == Exported => []EX!TypeOK
<1>1. ExportInv => EX!TypeOK
  BY DEF ExportInv
<1> QED
  BY <1>1, ExportInitially, ExportPreserved, PTL DEF Exported

(* For any number of deliveries, workers and failures: an export that says it *)
(* is ready has a link, and the file behind it was stored before, although a  *)
(* second run may still be at work on it.                                     *)
THEOREM LinksCorrect == Exported => []LinksLead
<1>1. ExportInv => LinksLead
  BY DEF ExportInv
<1> QED
  BY <1>1, ExportInitially, ExportPreserved, PTL DEF Exported

(* An export that is not finished, and of which nothing was lost, is in a     *)
(* message or in a worker's hands (generate_export catches everything and     *)
(* writes the row last).                                                      *)
THEOREM ExportsAccountedFor == Exported => []NoExportForgotten
<1>1. ExportInv => NoExportForgotten
  BY DEF ExportInv
<1> QED
  BY <1>1, ExportInitially, ExportPreserved, PTL DEF Exported

-----------------------------------------------------------------------------
(* The tasks side by side. *)
LEMMA EveryStepIsOfOneTask ==
    [NextOfAll]_allVars =>
        [Next]_vars /\ [MP!Next]_(MP!vars) /\ [EX!Next]_(EX!vars)
<1>1. UNCHANGED photoVars => UNCHANGED MP!vars
  BY DEF photoVars, MP!vars, MP!mediaVars, MP!taskVars
<1>2. UNCHANGED exportVars => UNCHANGED EX!vars
  BY DEF exportVars, EX!vars, EX!workerVars
<1>3. NextOfAll => \/ UNCHANGED <<photoVars, exportVars>> /\ Next
                   \/ UNCHANGED <<vars, exportVars>> /\ MP!Next
                   \/ UNCHANGED <<vars, photoVars>> /\ EX!Next
  BY DEF NextOfAll, Triage, Deriving, Exporting, Next, MP!Next, EX!Next
<1>4. UNCHANGED allVars => UNCHANGED <<vars, photoVars, exportVars>>
  BY DEF allVars
<1> QED
  BY <1>1, <1>2, <1>3, <1>4

(* A behaviour of the composition is one of each part, so that what is proved *)
(* of a part holds of the whole.                                              *)
THEOREM TasksComposed ==
    SpecOfAll => Spec /\ MP!Spec /\ Exported
<1>1. InitOfAll => Init /\ MP!Init /\ EX!Init
  BY DEF InitOfAll
<1> QED
  BY <1>1, EveryStepIsOfOneTask, PTL DEF SpecOfAll, Spec, MP!Spec, Exported

=============================================================================
