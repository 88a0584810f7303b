------------------------------ MODULE Submission ------------------------------
(***************************************************************************)
(* POST /reports as several requests run it concurrently: the idempotency  *)
(* record in the Redis cache (reserve, complete, release), the transaction *)
(* of submit_report that writes the Report and binds its photos, and the   *)
(* two callbacks after the commit, which enqueue the triage and complete   *)
(* the record.                                                             *)
(*                                                                         *)
(* Every cache command is one step, as Redis runs it, and so is every      *)
(* statement of the transaction that reads or locks a row another request  *)
(* may write.  A request makes at most one Report, which is known by it.   *)
(***************************************************************************)
EXTENDS Naturals, FiniteSets

CONSTANTS
    Requests, Keys, Photos, None,
    Key,        \* the Idempotency-Key of each request, None without one
    Body,       \* what each request submits; its fingerprint is the body itself
    Removable,  \* photos their owner or an Admin may take down
    Faults,     \* what may go wrong: "failure", "death", "refusal"
    MaxFaults   \* bound on faults

ASSUME SubmissionAssumption ==
    /\ Key \in [Requests -> Keys \cup {None}]
    /\ Body \in [Requests -> [text : BOOLEAN, photos : SUBSET Photos, located : BOOLEAN]]
    /\ Removable \subseteq Photos
    /\ Faults \subseteq {"failure", "death", "refusal"}
    /\ MaxFaults \in Nat
    /\ None \notin Keys \cup Requests

\* What the cache holds for a key.
Record == [state : {"in_progress", "completed"}, body : {Body[q] : q \in Requests},
           report : Requests \cup {None}]

ASSUME NoneAssumption == None \notin Record

VARIABLES
    record,    \* the cache: the idempotency record of each key, or None
    reports,   \* committed Reports
    reportOf,  \* Media.report as committed
    removed,   \* photos in state REMOVED
    triage,    \* Reports whose classification the broker was handed
    stage,     \* how far each request has come
    bound,     \* photos its open transaction has bound
    answer,    \* what the client was told
    faults     \* faults so far

storeVars == <<reports, reportOf, removed, triage>>
vars == <<record, storeVars, stage, bound, answer, faults>>

InProgress(q)   == [state |-> "in_progress", body |-> Body[q], report |-> None]
Completed(q)    == [state |-> "completed", body |-> Body[q], report |-> q]
Answer(what, r) == [outcome |-> what, report |-> r]

Init ==
    /\ record   = [k \in Keys |-> None]
    /\ reports  = {}
    /\ reportOf = [p \in Photos |-> None]
    /\ removed  = {}
    /\ triage   = {}
    /\ stage    = [q \in Requests |-> "sent"]
    /\ bound    = [q \in Requests |-> {}]
    /\ answer   = [q \in Requests |-> Answer("none", None)]
    /\ faults   = 0

GoTo(q, s) == stage' = [stage EXCEPT ![q] = s]

Reply(q, what, r) ==
    /\ GoTo(q, "done")
    /\ answer' = [answer EXCEPT ![q] = Answer(what, r)]

(***************************************************************************)
(* reserve: add the record, and if there is one already, read it           *)
(***************************************************************************)
SubmitWithoutKey(q) ==
    /\ stage[q] = "sent" /\ Key[q] = None
    /\ GoTo(q, "reserved")
    /\ UNCHANGED <<record, storeVars, bound, answer, faults>>

AddRecord(q) ==
    /\ stage[q] = "sent" /\ Key[q] # None
    /\ record[Key[q]] = None
    /\ record' = [record EXCEPT ![Key[q]] = InProgress(q)]
    /\ GoTo(q, "reserved")
    /\ UNCHANGED <<storeVars, bound, answer, faults>>

AddRefused(q) ==
    /\ stage[q] = "sent" /\ Key[q] # None
    /\ record[Key[q]] # None
    /\ GoTo(q, "contended")
    /\ UNCHANGED <<record, storeVars, bound, answer, faults>>

\* Mutation: only a completed record is taken for a record.
ClaimableUnfinished(k) == record[k] \notin {Completed(q) : q \in Requests}

Claimable(k) == record[k] = None

\* The get after a refused add finds nothing.
FindNothing(q) ==
    /\ stage[q] = "contended"
    /\ Claimable(Key[q])
    /\ GoTo(q, "vanished")
    /\ UNCHANGED <<record, storeVars, bound, answer, faults>>

\* The fingerprint is compared before the state.
SameRequest(q) == record[Key[q]].body = Body[q]

FindRecord(q) ==
    LET r == record[Key[q]] IN
    /\ stage[q] = "contended"
    /\ ~Claimable(Key[q])
    /\ \/ ~SameRequest(q) /\ Reply(q, "reused", None)
       \/ SameRequest(q) /\ r.state = "in_progress" /\ Reply(q, "in_flight", None)
       \/ SameRequest(q) /\ r.state = "completed" /\ Reply(q, "replayed", r.report)
    /\ UNCHANGED <<record, storeVars, bound, faults>>

\* The set that follows is unconditional.
ClaimVanished(q) ==
    /\ stage[q] = "vanished"
    /\ record' = [record EXCEPT ![Key[q]] = InProgress(q)]
    /\ GoTo(q, "reserved")
    /\ UNCHANGED <<storeVars, bound, answer, faults>>

(***************************************************************************)
(* The transaction of submit_report                                        *)
(***************************************************************************)
Usable(q) == \A p \in Body[q].photos : reportOf[p] = None /\ p \notin removed

Acceptable(q) ==
    /\ Usable(q)
    /\ Body[q].located
    /\ Body[q].photos # {} \/ Body[q].text

\* release: the record goes, whoever wrote it.
Release(q) ==
    record' = [k \in Keys |-> IF k = Key[q] THEN None ELSE record[k]]

\* resolve_media_for_attachment, create_report
CreateReport(q) ==
    /\ stage[q] = "reserved"
    /\ Acceptable(q)
    /\ GoTo(q, "created")
    /\ UNCHANGED <<record, storeVars, bound, answer, faults>>

Reject(q) ==
    /\ stage[q] = "reserved"
    /\ ~Acceptable(q)
    /\ Release(q)
    /\ Reply(q, "rejected", None)
    /\ UNCHANGED <<storeVars, bound, faults>>

\* The update waits for transactions that have bound one of the photos.
RowsFree(S) == \A q \in Requests : bound[q] \cap S = {}

\* Mutation: what resolve_media_for_attachment found is not checked again.
BindableUnchecked(q) == Body[q].photos

Bindable(q) == {p \in Body[q].photos : reportOf[p] = None /\ p \notin removed}

\* Mutation: the triage is enqueued inline.
AttachMediaEnqueues(q) ==
    /\ stage[q] = "created"
    /\ RowsFree(Body[q].photos)
    /\ bound' = [bound EXCEPT ![q] = Bindable(q)]
    /\ triage' = triage \cup {q}
    /\ GoTo(q, "attached")
    /\ UNCHANGED <<record, reports, reportOf, removed, answer, faults>>

\* Mutation: the record is completed inline.
AttachMediaCompletes(q) ==
    /\ stage[q] = "created"
    /\ RowsFree(Body[q].photos)
    /\ bound' = [bound EXCEPT ![q] = Bindable(q)]
    /\ record' = [k \in Keys |-> IF k = Key[q] THEN Completed(q) ELSE record[k]]
    /\ GoTo(q, "attached")
    /\ UNCHANGED <<storeVars, answer, faults>>

\* attach_media; how many photos it bound is not looked at.
AttachMedia(q) ==
    /\ stage[q] = "created"
    /\ RowsFree(Body[q].photos)
    /\ bound' = [bound EXCEPT ![q] = Bindable(q)]
    /\ GoTo(q, "attached")
    /\ UNCHANGED <<record, storeVars, answer, faults>>

EndTransaction(q) == bound' = [bound EXCEPT ![q] = {}]

Commit(q) ==
    /\ stage[q] = "attached"
    /\ reports' = reports \cup {q}
    /\ reportOf' = [p \in Photos |-> IF p \in bound[q] THEN q ELSE reportOf[p]]
    /\ EndTransaction(q)
    /\ GoTo(q, "committed")
    /\ UNCHANGED <<record, removed, triage, answer, faults>>

\* The two on_commit callbacks, in the order they were registered.
EnqueueTriage(q) ==
    /\ stage[q] = "committed"
    /\ triage' = triage \cup {q}
    /\ GoTo(q, "enqueued")
    /\ UNCHANGED <<record, reports, reportOf, removed, bound, answer, faults>>

Complete(q) ==
    record' = [k \in Keys |-> IF k = Key[q] THEN Completed(q) ELSE record[k]]

Acknowledge(q) ==
    /\ stage[q] = "enqueued"
    /\ Complete(q)
    /\ Reply(q, "accepted", q)
    /\ UNCHANGED <<storeVars, bound, faults>>

(***************************************************************************)
(* What goes wrong                                                         *)
(***************************************************************************)
Open    == {"reserved", "created", "attached"}
Holding == Open \cup {"committed", "enqueued"}

Fault(f) ==
    /\ f \in Faults
    /\ faults < MaxFaults
    /\ faults' = faults + 1

\* A statement of the transaction fails; the except branch gives the key back
\* and the transaction is rolled back.
StatementFails(q) ==
    /\ stage[q] \in Open
    /\ Fault("failure")
    /\ Release(q)
    /\ EndTransaction(q)
    /\ Reply(q, "failed", None)
    /\ UNCHANGED storeVars

\* The process that serves the request dies.
Die(q) ==
    /\ stage[q] \in Holding
    /\ Fault("death")
    /\ EndTransaction(q)
    /\ GoTo(q, "lost")
    /\ UNCHANGED <<record, storeVars, answer>>

\* The broker refuses the classification.  The exception keeps Django from
\* running the second callback, and no handler of submit_report sees it.
BrokerRefuses(q) ==
    /\ stage[q] = "committed"
    /\ Fault("refusal")
    /\ GoTo(q, "lost")
    /\ answer' = [answer EXCEPT ![q] = Answer("failed", None)]
    /\ UNCHANGED <<record, storeVars, bound>>

\* The in-progress record outlives every request that still works on it.
ExpireRecord(k) ==
    /\ record[k] # None /\ record[k].state = "in_progress"
    /\ \A q \in Requests : Key[q] = k => stage[q] \notin Holding
    /\ record' = [record EXCEPT ![k] = None]
    /\ UNCHANGED <<storeVars, stage, bound, answer, faults>>

\* remove_media, by the owner before triage or by an Admin; and moderate
RemovePhoto(p) ==
    /\ p \in Removable \ removed
    /\ RowsFree({p})
    /\ removed' = removed \cup {p}
    /\ UNCHANGED <<record, reports, reportOf, triage, stage, bound, answer, faults>>

Next ==
    \/ \E q \in Requests :
         \/ SubmitWithoutKey(q)
         \/ AddRecord(q)
         \/ AddRefused(q)
         \/ FindNothing(q)
         \/ FindRecord(q)
         \/ ClaimVanished(q)
         \/ CreateReport(q)
         \/ Reject(q)
         \/ AttachMedia(q)
         \/ Commit(q)
         \/ EnqueueTriage(q)
         \/ Acknowledge(q)
         \/ StatementFails(q)
         \/ Die(q)
         \/ BrokerRefuses(q)
    \/ \E k \in Keys : ExpireRecord(k)
    \/ \E p \in Photos : RemovePhoto(p)

Spec == Init /\ [][Next]_vars

(***************************************************************************)
(* Properties                                                              *)
(***************************************************************************)
TypeOK ==
    /\ record   \in [Keys -> Record \cup {None}]
    /\ reports  \subseteq Requests
    /\ reportOf \in [Photos -> Requests \cup {None}]
    /\ removed  \subseteq Photos
    /\ triage   \subseteq Requests
    /\ stage    \in [Requests -> {"sent", "contended", "vanished", "done", "lost"} \cup Holding]
    /\ bound    \in [Requests -> SUBSET Photos]
    /\ \A q \in Requests : bound[q] # {} => stage[q] = "attached"
    /\ answer   \in [Requests -> [outcome : {"none", "accepted", "replayed", "reused",
                                             "in_flight", "rejected", "failed"},
                                  report : Requests \cup {None}]]
    /\ faults   \in 0..MaxFaults

\* BR-5: requests of one user action, which carry one key, leave one Report,
\* however their steps interleave, as long as every one of them is served: a
\* request that is turned down or dies gives its key up.
OneReportPerServedAction ==
    \A k \in Keys :
        (\A q \in Requests : Key[q] = k =>
            stage[q] # "lost" /\ answer[q].outcome \notin {"rejected", "failed"})
        => \A q, other \in reports : Key[q] = k /\ Key[other] = k => q = other

\* The docstring of complete: a replay never names a Report that was rolled
\* back, whenever the original fails or dies.
ReplayIsCommitted ==
    /\ \A q \in Requests :
         answer[q].outcome \in {"accepted", "replayed"} => answer[q].report \in reports
    /\ \A k \in Keys :
         record[k] # None /\ record[k].state = "completed" => record[k].report \in reports

\* The docstring of submit_report: no task ever references a Report that does
\* not exist.
TriagedReportsExist == triage \subseteq reports

\* The docstring of attach_media: attachment is single-use.  A submission does
\* not take over a photo that another one has bound, although both had found it
\* free.  (What the derivative task does to a binding is in MediaPipeline.)
NoPhotoTakenOver ==
    [][\A p \in Photos : reportOf[p] # None => reportOf'[p] = reportOf[p]]_vars

=============================================================================
