---------------------------- MODULE TriagePipeline ----------------------------
(***************************************************************************)
(* What happens to a submitted Report until it is triaged: the Celery task *)
(* classify_report (a snapshot of the Report, the LLM or keyword call      *)
(* outside any transaction, the locked write, the requeue when the text    *)
(* changed, and the clustering), while its author and officials edit it    *)
(* (update_report, which checks the Report and saves it without a lock)    *)
(* and an Admin may moderate it.                                           *)
(*                                                                         *)
(* Messages are acknowledged when a worker takes them (the task does not   *)
(* set acks_late).  cluster_report is one step here; ClusterLocks opens it *)
(* up.  The severity is left out, which is set together with the category. *)
(***************************************************************************)
EXTENDS Naturals

CONSTANTS
    Reports, Workers, Categories, None,
    Edits,        \* requests to edit a Report, each sent once
    EditOf,       \* the Report of each edit
    EditKind,     \* "text", "hint" by the author; "correction" by an official
    Moderable,    \* Reports an Admin may take down
    Deliveries,   \* messages the broker has for each Report at first
    MaxLosses     \* bound on task runs that end with an error or a crash

ASSUME PipelineAssumption ==
    /\ EditOf \in [Edits -> Reports]
    /\ EditKind \in [Edits -> {"text", "hint", "correction"}]
    /\ Moderable \subseteq Reports
    /\ Deliveries \in Nat \ {0} /\ MaxLosses \in Nat
    /\ None \notin Reports \cup Categories
    /\ "first" \notin Edits

VARIABLES
    status,      \* Report.status
    text,        \* Report.description: the first one, or the edit that wrote it
    category,    \* Report.category
    source,      \* Report.classification_source
    classified,  \* the text its classification was made from, None before
    clusteredAs, \* category it was clustered under, None before
    queue,       \* number of messages the broker has for each Report
    job,         \* the Report each worker works on
    step,        \* how far it has come
    snapshot,    \* the text it has read
    edit,        \* how far each edit has come
    losses       \* task runs lost so far

reportVars == <<status, text, category, source, classified, clusteredAs>>
taskVars   == <<job, step, snapshot>>
vars       == <<reportVars, queue, taskVars, edit, losses>>

\* submit_report has committed and enqueued; the author may have given a hint.
Init ==
    /\ status      = [r \in Reports |-> "processing"]
    /\ text        = [r \in Reports |-> "first"]
    /\ category    \in [Reports -> Categories \cup {None}]
    /\ source      = [r \in Reports |-> IF category[r] = None THEN None ELSE "citizen"]
    /\ classified  = [r \in Reports |-> None]
    /\ clusteredAs = [r \in Reports |-> None]
    /\ queue       = [r \in Reports |-> Deliveries]
    /\ job         = [w \in Workers |-> None]
    /\ step        = [w \in Workers |-> "idle"]
    /\ snapshot    = [w \in Workers |-> None]
    /\ edit        = [e \in Edits |-> "new"]
    /\ losses      = 0

Moderated(r) == status[r] = "moderated"
Editable(r)  == status[r] = "processing"

IsClassified(r) == classified[r] # None

(***************************************************************************)
(* classify_report                                                         *)
(***************************************************************************)
GoTo(w, s) == step' = [step EXCEPT ![w] = s]

EndTask(w) ==
    /\ job' = [job EXCEPT ![w] = None]
    /\ step' = [step EXCEPT ![w] = "idle"]
    /\ snapshot' = [snapshot EXCEPT ![w] = None]

Take(w, r) ==
    /\ step[w] = "idle"
    /\ queue[r] > 0
    /\ queue' = [queue EXCEPT ![r] = @ - 1]
    /\ job' = [job EXCEPT ![w] = r]
    /\ GoTo(w, "taken")
    /\ UNCHANGED <<reportVars, snapshot, edit, losses>>

\* classify_report_record, before the call: an unlocked read.
ReadReport(w) ==
    LET r == job[w] IN
    /\ step[w] = "taken"
    /\ \/ Moderated(r) /\ EndTask(w)
       \/ ~Moderated(r) /\ IsClassified(r)
                        /\ GoTo(w, "classified")
                        /\ UNCHANGED <<job, snapshot>>
       \/ ~Moderated(r) /\ ~IsClassified(r)
                        /\ GoTo(w, "calling")
                        /\ snapshot' = [snapshot EXCEPT ![w] = text[r]]
                        /\ UNCHANGED job
    /\ UNCHANGED <<reportVars, queue, edit, losses>>

\* Mutation: a second delivery is not noticed after the call.
AwaitsResultTwice(r) == ~Moderated(r)

\* The checks that are repeated under the row lock.
AwaitsResult(r) == ~Moderated(r) /\ ~IsClassified(r)

Stale(w) == text[job[w]] # snapshot[w]

\* Mutation: a category an official has corrected is overwritten.
KeepsCategoryNever(r) == FALSE

KeepsCategory(r) == source[r] = "authority"

\* classify_report_record, after the call: the locked write.
StoreResult(w, c) ==
    LET r == job[w] IN
    /\ step[w] = "calling"
    /\ AwaitsResult(r) /\ ~Stale(w)
    /\ classified' = [classified EXCEPT ![r] = snapshot[w]]
    /\ IF KeepsCategory(r)
         THEN UNCHANGED <<category, source>>
         ELSE /\ category' = [category EXCEPT ![r] = c]
              /\ source' = [source EXCEPT ![r] = "automation"]
    /\ GoTo(w, "classified")
    /\ UNCHANGED <<status, text, clusteredAs, queue, job, snapshot, edit, losses>>

DropResult(w) ==
    LET r == job[w] IN
    /\ step[w] = "calling"
    /\ \/ Moderated(r) /\ EndTask(w)
       \/ ~Moderated(r) /\ ~AwaitsResult(r) /\ GoTo(w, "classified")
                        /\ UNCHANGED <<job, snapshot>>
       \/ AwaitsResult(r) /\ Stale(w) /\ GoTo(w, "stale")
                        /\ UNCHANGED <<job, snapshot>>
    /\ UNCHANGED <<reportVars, queue, edit, losses>>

\* Mutation: a stale result is only logged.
RequeueNothing(w) == UNCHANGED queue

Requeue(w) == queue' = [queue EXCEPT ![job[w]] = @ + 1]

StartOver(w) ==
    /\ step[w] = "stale"
    /\ Requeue(w)
    /\ EndTask(w)
    /\ UNCHANGED <<reportVars, edit, losses>>

\* cluster_report; a moderated Report makes it raise, which ends the task, and
\* so does a category without an active clustering rule: that is LoseTask.
ClusterReport(w) ==
    LET r == job[w] IN
    /\ step[w] = "classified"
    /\ IF clusteredAs[r] # None \/ Moderated(r)
         THEN UNCHANGED reportVars
         ELSE /\ status' = [status EXCEPT ![r] = "triaged"]
              /\ clusteredAs' = [clusteredAs EXCEPT ![r] = category[r]]
              /\ UNCHANGED <<text, category, source, classified>>
    /\ EndTask(w)
    /\ UNCHANGED <<queue, edit, losses>>

\* The worker dies, or the task raises (the category has no active clustering
\* rule, the database refuses a statement): the message was acknowledged already
\* and nothing retries the task.
LoseTask(w) ==
    /\ step[w] # "idle"
    /\ losses < MaxLosses
    /\ losses' = losses + 1
    /\ EndTask(w)
    /\ UNCHANGED <<reportVars, queue, edit>>

(***************************************************************************)
(* update_report, in the two steps between which nothing holds the Report  *)
(***************************************************************************)
MayEdit(e) ==
    LET r == EditOf[e] IN
    IF EditKind[e] = "correction" THEN ~Moderated(r) /\ category[r] # None
                                  ELSE Editable(r)

CheckEdit(e) ==
    /\ edit[e] = "new"
    /\ MayEdit(e)
    /\ edit' = [edit EXCEPT ![e] = "checked"]
    /\ UNCHANGED <<reportVars, queue, taskVars, losses>>

SaveText(e) ==
    /\ edit[e] = "checked" /\ EditKind[e] = "text"
    /\ text' = [text EXCEPT ![EditOf[e]] = e]
    /\ edit' = [edit EXCEPT ![e] = "saved"]
    /\ UNCHANGED <<status, category, source, classified, clusteredAs, queue, taskVars, losses>>

SaveCategory(e, c) ==
    /\ edit[e] = "checked" /\ EditKind[e] \in {"hint", "correction"}
    /\ category' = [category EXCEPT ![EditOf[e]] = c]
    /\ source' = [source EXCEPT
                    ![EditOf[e]] = IF EditKind[e] = "hint" THEN "citizen" ELSE "authority"]
    /\ edit' = [edit EXCEPT ![e] = "saved"]
    /\ UNCHANGED <<status, text, classified, clusteredAs, queue, taskVars, losses>>

\* moderate
Moderate(r) ==
    /\ r \in Moderable /\ ~Moderated(r)
    /\ status' = [status EXCEPT ![r] = "moderated"]
    /\ UNCHANGED <<text, category, source, classified, clusteredAs, queue, taskVars,
                   edit, losses>>

WorkerStep(w) ==
    \/ \E r \in Reports : Take(w, r)
    \/ ReadReport(w)
    \/ \E c \in Categories : StoreResult(w, c)
    \/ DropResult(w)
    \/ StartOver(w)
    \/ ClusterReport(w)

Next ==
    \/ \E w \in Workers : WorkerStep(w)
    \/ \E w \in Workers : LoseTask(w)
    \/ \E e \in Edits : CheckEdit(e)
    \/ \E e \in Edits : SaveText(e)
    \/ \E e \in Edits, c \in Categories : SaveCategory(e, c)
    \/ \E r \in Moderable : Moderate(r)

Spec == Init /\ [][Next]_vars

\* The calls have a timeout and a fallback, so a worker that runs comes on.
FairSpec == Spec /\ \A w \in Workers : WF_vars(WorkerStep(w))

(***************************************************************************)
(* Properties                                                              *)
(***************************************************************************)
TypeOK ==
    /\ status      \in [Reports -> {"processing", "triaged", "moderated"}]
    /\ text        \in [Reports -> Edits \cup {"first"}]
    /\ category    \in [Reports -> Categories \cup {None}]
    /\ source      \in [Reports -> {None, "citizen", "automation", "authority"}]
    /\ classified  \in [Reports -> Edits \cup {"first", None}]
    /\ clusteredAs \in [Reports -> Categories \cup {None}]
    /\ queue       \in [Reports -> Nat]
    /\ job         \in [Workers -> Reports \cup {None}]
    /\ step        \in [Workers -> {"idle", "taken", "calling", "stale", "classified"}]
    /\ snapshot    \in [Workers -> Edits \cup {"first", None}]
    /\ edit        \in [Edits -> {"new", "checked", "saved"}]
    /\ losses      \in 0..MaxLosses
    /\ \A w \in Workers : (job[w] = None) = (step[w] = "idle")

\* A person's edit of the Report is saved in this step.
EditSaved(r) == \E e \in Edits : EditOf[e] = r /\ edit[e] = "checked" /\ edit'[e] = "saved"

\* The docstring of update_report, FR-11: triage never overwrites a category
\* that an official has set, however long its call was under way: such a
\* category changes only when a person saves an edit.
OfficialCategoryIsKept ==
    [][\A r \in Reports : source[r] = "authority" =>
         \/ category'[r] = category[r] /\ source'[r] = "authority"
         \/ EditSaved(r)]_vars

\* Architecture section 11: triage jobs are idempotent.  However many times a
\* Report is delivered, the first result that is stored stands: no other call,
\* which may well answer differently, replaces it, and only a person changes the
\* category from then on.  It is clustered once.
TriagedOnce ==
    [][\A r \in Reports :
         /\ classified[r] # None =>
              /\ classified'[r] = classified[r]
              /\ category'[r] = category[r] \/ EditSaved(r)
         /\ clusteredAs[r] # None => clusteredAs'[r] = clusteredAs[r]]_vars

\* Architecture section 12: no Report is left untriaged.  Unless a task is
\* lost, every Report is triaged in the end or taken down by an Admin,
\* although its author may make the task start over.
EveryReportTriaged ==
    \A r \in Reports : <>(status[r] \in {"triaged", "moderated"} \/ losses > 0)

=============================================================================
