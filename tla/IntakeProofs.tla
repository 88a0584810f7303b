----------------------------- MODULE IntakeProofs -----------------------------
(* What concurrent submissions keep, for every number of requests, keys and   *)
(* photos, whatever fails, dies or is refused; and what the audit trail says  *)
(* of the boundaries, for every number of replacements.                       *)
EXTENDS Intake, FiniteSetTheorems, TLAPS

Stages == {"sent", "contended", "vanished", "done", "lost"} \cup Holding
Outcomes == {"none", "accepted", "replayed", "reused", "in_flight", "rejected", "failed"}

(* The part of the types that the arguments rest on. *)
Typed ==
    /\ reports \subseteq Requests
    /\ DOMAIN record = Keys
    /\ \A k \in Keys : record[k] # None => record[k] \in Record
    /\ reportOf \in [Photos -> Requests \cup {None}]
    /\ stage \in [Requests -> Stages]
    /\ \A q \in Requests : stage[q] \in {"contended", "vanished"} => Key[q] \in Keys
    /\ bound \in [Requests -> SUBSET Photos]
    /\ answer \in [Requests -> [outcome : Outcomes, report : Requests \cup {None}]]

(* A request that goes on after its commit has its Report. *)
Committed ==
    /\ \A q \in Requests : stage[q] \in {"committed", "enqueued"} => q \in reports
    /\ ReplayIsCommitted
    /\ TriagedReportsExist

(* Rows of photos are locked by the transaction that binds them. *)
RowsLocked ==
    /\ \A q \in Requests : bound[q] # {} => stage[q] = "attached"
    /\ \A q \in Requests : \A p \in bound[q] : reportOf[p] = None
    /\ \A q, other \in Requests : q # other => bound[q] \cap bound[other] = {}

IInv == Typed /\ Committed /\ RowsLocked

LEMMA KeysTyped ==
    /\ Key \in [Requests -> Keys \cup {None}] /\ None \notin Keys /\ None \notin Requests
    /\ Body \in [Requests -> [text : BOOLEAN, photos : SUBSET Photos, located : BOOLEAN]]
  BY SubmissionAssumption

LEMMA RecordsTyped ==
    ASSUME NEW q \in Requests
    PROVE  /\ InProgress(q) \in Record /\ InProgress(q).state = "in_progress"
           /\ Completed(q) \in Record /\ Completed(q).report = q
           /\ InProgress(q) # None /\ Completed(q) # None
  BY NoneAssumption DEF InProgress, Completed, Record

LEMMA Initially == Init => IInv
  BY KeysTyped DEF Init, IInv, Typed, Committed, RowsLocked, ReplayIsCommitted,
                   TriagedReportsExist, Answer, Stages, Outcomes

(* What a step writes has the right type. *)
LEMMA StageTyped ==
    ASSUME Typed, NEW q \in Requests, NEW s \in Stages, GoTo(q, s)
    PROVE  stage' \in [Requests -> Stages] /\ stage'[q] = s
           /\ \A other \in Requests : other # q => stage'[other] = stage[other]
  BY DEF Typed, GoTo, Stages

LEMMA ReplyTyped ==
    ASSUME Typed, NEW q \in Requests, NEW o \in Outcomes, NEW r \in Requests \cup {None},
           Reply(q, o, r)
    PROVE  /\ answer' \in [Requests -> [outcome : Outcomes, report : Requests \cup {None}]]
           /\ answer'[q] = [outcome |-> o, report |-> r]
           /\ \A other \in Requests : other # q => answer'[other] = answer[other]
           /\ GoTo(q, "done")
  BY DEF Typed, Reply, Answer, Outcomes

(* A record that is written, completed or taken away is one of these. *)
RecordStep(q) ==
    \/ UNCHANGED record
    \/ Key[q] \in Keys /\ record' = [record EXCEPT ![Key[q]] = InProgress(q)]
    \/ Release(q)
    \/ Complete(q) /\ q \in reports

LEMMA RecordKept ==
    ASSUME Typed, Committed, NEW q \in Requests, RecordStep(q), reports \subseteq reports'
    PROVE  /\ DOMAIN record' = Keys
           /\ \A k \in Keys : record'[k] # None =>
                  /\ record'[k] \in Record
                  /\ record'[k].state = "completed" => record'[k].report \in reports'
<1>1. \A k \in Keys : record[k] # None =>
          /\ record[k] \in Record
          /\ record[k].state = "completed" => record[k].report \in reports
  BY DEF Typed, Committed, ReplayIsCommitted
<1>2. CASE UNCHANGED record
  BY <1>1, <1>2 DEF Typed
<1>3. CASE Key[q] \in Keys /\ record' = [record EXCEPT ![Key[q]] = InProgress(q)]
  BY <1>1, <1>3, RecordsTyped DEF Typed
<1>4. CASE Release(q)
  BY <1>1, <1>4 DEF Release
<1>5. CASE Complete(q) /\ q \in reports
  BY <1>1, <1>5, RecordsTyped DEF Complete
<1> QED
  BY <1>2, <1>3, <1>4, <1>5 DEF RecordStep

(* Steps that bind no photo and commit nothing. *)
LEMMA RowsKept ==
    ASSUME Typed, RowsLocked, NEW q \in Requests, NEW s \in Stages, GoTo(q, s),
           UNCHANGED reportOf,
           \/ UNCHANGED bound /\ stage[q] # "attached"
           \/ EndTransaction(q)
    PROVE  RowsLocked' /\ bound' \in [Requests -> SUBSET Photos]
<1>1. /\ bound' \in [Requests -> SUBSET Photos]
      /\ \A other \in Requests : other # q => bound'[other] = bound[other]
      /\ bound'[q] = {}
  BY DEF Typed, RowsLocked, EndTransaction
<1>2. \A other \in Requests : other # q => stage'[other] = stage[other]
  BY StageTyped
<1> QED
  BY <1>1, <1>2 DEF RowsLocked

LEMMA NothingCommitted ==
    ASSUME IInv, NEW q \in Requests, NEW s \in Stages \ {"committed"}, GoTo(q, s),
           s = "enqueued" => stage[q] = "committed",
           s \in {"contended", "vanished"} => Key[q] \in Keys,
           UNCHANGED <<reports, reportOf>>, triage' \subseteq reports, RecordStep(q),
           \/ UNCHANGED bound /\ stage[q] # "attached"
           \/ EndTransaction(q),
           \/ UNCHANGED answer
           \/ \E o \in Outcomes, r \in Requests \cup {None} :
                  /\ Reply(q, o, r)
                  /\ o \in {"accepted", "replayed"} => r \in reports
    PROVE  IInv'
<1>1. RowsLocked' /\ bound' \in [Requests -> SUBSET Photos]
  BY RowsKept DEF IInv
<1>2. /\ stage' \in [Requests -> Stages] /\ stage'[q] = s
      /\ \A other \in Requests : other # q => stage'[other] = stage[other]
  BY StageTyped DEF IInv
<1>3. /\ DOMAIN record' = Keys
      /\ \A k \in Keys : record'[k] # None =>
             /\ record'[k] \in Record
             /\ record'[k].state = "completed" => record'[k].report \in reports'
  BY RecordKept DEF IInv
<1>r. \A other \in Requests : answer[other].outcome \in {"accepted", "replayed"}
                                 => answer[other].report \in reports
  BY DEF IInv, Committed, ReplayIsCommitted
<1>a. CASE UNCHANGED answer
  <2>1. Typed'
    BY <1>1, <1>2, <1>3, <1>a DEF IInv, Typed
  <2>2. Committed'
    BY <1>2, <1>3, <1>a DEF IInv, Committed, ReplayIsCommitted, TriagedReportsExist
  <2> QED
    BY <1>1, <2>1, <2>2 DEF IInv
<1>b. ASSUME NEW o \in Outcomes, NEW r \in Requests \cup {None}, Reply(q, o, r),
             o \in {"accepted", "replayed"} => r \in reports
      PROVE  IInv'
  <2>1. /\ answer' \in [Requests -> [outcome : Outcomes, report : Requests \cup {None}]]
        /\ answer'[q] = [outcome |-> o, report |-> r]
        /\ \A other \in Requests : other # q => answer'[other] = answer[other]
    BY <1>b, ReplyTyped DEF IInv
  <2>2. Typed'
    BY <1>1, <1>2, <1>3, <2>1 DEF IInv, Typed
  <2>3. \A other \in Requests : answer'[other].outcome \in {"accepted", "replayed"}
                                  => answer'[other].report \in reports'
    BY <1>r, <1>b, <2>1
  <2>4. Committed'
    BY <1>2, <1>3, <2>3 DEF IInv, Committed, ReplayIsCommitted, TriagedReportsExist
  <2> QED
    BY <1>1, <2>2, <2>4 DEF IInv
<1> QED
  BY <1>a, <1>b

LEMMA Preserved == IInv /\ [Next]_vars => IInv'
<1> SUFFICES ASSUME IInv, [Next]_vars PROVE IInv'
  OBVIOUS
<1> USE DEF storeVars
<1>s. {"sent", "contended", "vanished", "done", "lost", "reserved", "created", "attached",
       "committed", "enqueued"} = Stages
  BY DEF Stages, Holding, Open
<1>t. /\ triage \subseteq reports
      /\ \A q \in Requests : Key[q] # None => Key[q] \in Keys
      /\ \A q \in Requests : stage[q] \in {"contended", "vanished"} => Key[q] \in Keys
  BY KeysTyped DEF IInv, Committed, TriagedReportsExist, Typed
<1>1. ASSUME NEW q \in Requests, SubmitWithoutKey(q) \/ AddRecord(q) \/ AddRefused(q)
      PROVE  IInv'
  <2>1. RecordStep(q)
    BY <1>1, <1>t DEF SubmitWithoutKey, AddRecord, AddRefused, RecordStep
  <2>2. CASE GoTo(q, "reserved")
    BY <1>1, <1>s, <1>t, <2>1, <2>2, NothingCommitted DEF SubmitWithoutKey, AddRecord, AddRefused
  <2>3. CASE GoTo(q, "contended")
    BY <1>1, <1>s, <1>t, <2>1, <2>3, NothingCommitted DEF SubmitWithoutKey, AddRecord, AddRefused
  <2> QED
    BY <1>1, <2>2, <2>3 DEF SubmitWithoutKey, AddRecord, AddRefused
<1>2. ASSUME NEW q \in Requests, FindNothing(q) \/ ClaimVanished(q) \/ CreateReport(q)
      PROVE  IInv'
  <2>1. RecordStep(q)
    BY <1>2, <1>t DEF FindNothing, ClaimVanished, CreateReport, RecordStep
  <2>2. CASE FindNothing(q)
    BY <1>s, <1>t, <2>1, <2>2, NothingCommitted DEF FindNothing
  <2>3. CASE ClaimVanished(q)
    BY <1>s, <1>t, <2>1, <2>3, NothingCommitted DEF ClaimVanished
  <2>4. CASE CreateReport(q)
    BY <1>s, <1>t, <2>1, <2>4, NothingCommitted DEF CreateReport
  <2> QED
    BY <1>2, <2>2, <2>3, <2>4
<1>3. ASSUME NEW q \in Requests, FindRecord(q) PROVE IInv'
  <2> DEFINE r == record[Key[q]]
  <2>1. /\ stage[q] = "contended" /\ UNCHANGED <<record, reports, reportOf, triage, bound>>
        /\ \/ Reply(q, "reused", None) \/ Reply(q, "in_flight", None)
           \/ r # None /\ r.state = "completed" /\ Reply(q, "replayed", r.report)
    BY <1>3 DEF FindRecord, Claimable
  <2>2. r # None /\ r.state = "completed" => r.report \in reports /\ r.report \in Requests \cup {None}
    BY <1>t, <2>1 DEF IInv, Typed, Committed, ReplayIsCommitted, Record
  <2>3. PICK o \in Outcomes, rep \in Requests \cup {None} :
            Reply(q, o, rep) /\ (o \in {"accepted", "replayed"} => rep \in reports)
    BY <2>1, <2>2 DEF Outcomes
  <2>4. GoTo(q, "done") /\ RecordStep(q)
    BY <2>1, <2>3 DEF Reply, RecordStep
  <2> QED
    BY <1>s, <1>t, <2>1, <2>3, <2>4, NothingCommitted
<1>4. ASSUME NEW q \in Requests, Reject(q) \/ StatementFails(q)
      PROVE  IInv'
  <2>1. PICK o \in Outcomes \ {"accepted", "replayed"} : Reply(q, o, None)
    BY <1>4 DEF Reject, StatementFails, Outcomes
  <2>2. GoTo(q, "done") /\ RecordStep(q) /\ UNCHANGED <<reports, reportOf, triage>>
    BY <1>4, <2>1 DEF Reject, StatementFails, Reply, RecordStep
  <2>3. (UNCHANGED bound /\ stage[q] # "attached") \/ EndTransaction(q)
    BY <1>4 DEF Reject, StatementFails
  <2> QED
    BY <1>s, <1>t, <2>1, <2>2, <2>3, NothingCommitted
<1>5. ASSUME NEW q \in Requests, EnqueueTriage(q) PROVE IInv'
  <2>1. q \in reports /\ triage' \subseteq reports /\ RecordStep(q)
    BY <1>5, <1>t DEF EnqueueTriage, IInv, Committed, RecordStep
  <2> QED
    BY <1>5, <1>s, <2>1, NothingCommitted DEF EnqueueTriage
<1>6. ASSUME NEW q \in Requests, Acknowledge(q) PROVE IInv'
  <2>1. q \in reports /\ RecordStep(q) /\ "accepted" \in Outcomes
    BY <1>6 DEF Acknowledge, IInv, Committed, RecordStep, Outcomes
  <2>2. GoTo(q, "done") /\ Reply(q, "accepted", q) /\ stage[q] = "enqueued"
    BY <1>6 DEF Acknowledge, Reply
  <2> QED
    BY <1>6, <1>s, <1>t, <2>1, <2>2, NothingCommitted DEF Acknowledge
<1>7. ASSUME NEW q \in Requests, Die(q) PROVE IInv'
  BY <1>7, <1>s, <1>t, NothingCommitted DEF Die, RecordStep
<1>8. ASSUME NEW q \in Requests, BrokerRefuses(q) PROVE IInv'
  <2>1. /\ stage' \in [Requests -> Stages] /\ stage'[q] = "lost"
        /\ \A other \in Requests : other # q => stage'[other] = stage[other]
    BY <1>8, <1>s, StageTyped DEF BrokerRefuses, IInv
  <2>2. RowsLocked'
    BY <1>8, <1>s, RowsKept DEF BrokerRefuses, IInv
  <2>3. /\ answer' \in [Requests -> [outcome : Outcomes, report : Requests \cup {None}]]
        /\ answer'[q].outcome = "failed"
        /\ \A other \in Requests : other # q => answer'[other] = answer[other]
    BY <1>8 DEF BrokerRefuses, IInv, Typed, Answer, Outcomes
  <2>4. Typed'
    BY <1>8, <2>1, <2>3 DEF BrokerRefuses, IInv, Typed
  <2>5. Committed'
    BY <1>8, <2>1, <2>3 DEF BrokerRefuses, IInv, Committed, ReplayIsCommitted, TriagedReportsExist
  <2> QED
    BY <2>2, <2>4, <2>5 DEF IInv
<1>9. ASSUME NEW q \in Requests, AttachMedia(q) PROVE IInv'
  <2>1. /\ stage' \in [Requests -> Stages] /\ stage'[q] = "attached"
        /\ \A other \in Requests : other # q => stage'[other] = stage[other]
    BY <1>9, <1>s, StageTyped DEF AttachMedia, IInv
  <2>2. /\ Bindable(q) \subseteq Body[q].photos /\ Body[q].photos \subseteq Photos
        /\ \A p \in Bindable(q) : reportOf[p] = None
    BY KeysTyped DEF Bindable
  <2>3. /\ bound' \in [Requests -> SUBSET Photos] /\ bound'[q] = Bindable(q)
        /\ \A other \in Requests : other # q => bound'[other] = bound[other]
    BY <1>9, <2>2 DEF AttachMedia, IInv, Typed
  <2>4. \A other \in Requests : bound[other] \cap Bindable(q) = {}
    BY <1>9, <2>2 DEF AttachMedia, RowsFree
  <2>5. RowsLocked'
    BY <1>9, <2>1, <2>2, <2>3, <2>4 DEF AttachMedia, IInv, RowsLocked
  <2>6. Typed'
    BY <1>9, <2>1, <2>3 DEF AttachMedia, IInv, Typed
  <2>7. Committed'
    BY <1>9, <2>1 DEF AttachMedia, IInv, Committed, ReplayIsCommitted, TriagedReportsExist
  <2> QED
    BY <2>5, <2>6, <2>7 DEF IInv
<1>10. ASSUME NEW q \in Requests, Commit(q) PROVE IInv'
  <2>1. /\ stage' \in [Requests -> Stages] /\ stage'[q] = "committed"
        /\ \A other \in Requests : other # q => stage'[other] = stage[other]
    BY <1>10, <1>s, StageTyped DEF Commit, IInv
  <2>2. /\ bound' \in [Requests -> SUBSET Photos] /\ bound'[q] = {}
        /\ \A other \in Requests : other # q => bound'[other] = bound[other]
    BY <1>10 DEF Commit, EndTransaction, IInv, Typed
  <2>3. \A p \in Photos : reportOf'[p] = IF p \in bound[q] THEN q ELSE reportOf[p]
    BY <1>10 DEF Commit
  <2>4. RowsLocked'
    BY <2>1, <2>2, <2>3 DEF IInv, Typed, RowsLocked
  <2>5. Typed'
    BY <1>10, <2>1, <2>2 DEF Commit, IInv, Typed
  <2>6. Committed'
    BY <1>10, <2>1 DEF Commit, IInv, Committed, ReplayIsCommitted, TriagedReportsExist
  <2> QED
    BY <2>4, <2>5, <2>6 DEF IInv
<1>11. ASSUME NEW k \in Keys, ExpireRecord(k) PROVE IInv'
  <2>1. RowsLocked'
    BY <1>11 DEF ExpireRecord, IInv, RowsLocked
  <2>2. Typed'
    BY <1>11 DEF ExpireRecord, IInv, Typed
  <2>3. Committed'
    BY <1>11 DEF ExpireRecord, IInv, Typed, Committed, ReplayIsCommitted, TriagedReportsExist
  <2> QED
    BY <2>1, <2>2, <2>3 DEF IInv
<1>12. ASSUME (\E p \in Photos : RemovePhoto(p)) \/ UNCHANGED vars
       PROVE  IInv'
  BY <1>12 DEF RemovePhoto, vars, IInv, Typed, Committed, ReplayIsCommitted,
               TriagedReportsExist, RowsLocked
<1> QED
  BY <1>1, <1>2, <1>3, <1>4, <1>5, <1>6, <1>7, <1>8, <1>9, <1>10, <1>11, <1>12 DEF Next

LEMMA InvariantHolds == Spec => []IInv
  BY Initially, Preserved, PTL DEF Spec

(* A replay names only a committed Report, for any number of requests on any  *)
(* number of keys and whatever fails (docstring of complete).                 *)
THEOREM ReplayCorrect == Spec => []ReplayIsCommitted
<1>1. IInv => ReplayIsCommitted
  BY DEF IInv, Committed
<1> QED
  BY <1>1, InvariantHolds, PTL

(* No task ever references a Report that does not exist (docstring of         *)
(* submit_report).                                                            *)
THEOREM TriageCorrect == Spec => []TriagedReportsExist
<1>1. IInv => TriagedReportsExist
  BY DEF IInv, Committed
<1> QED
  BY <1>1, InvariantHolds, PTL

(* A commit binds only photos that nobody has bound: their rows were locked   *)
(* from the update on.                                                        *)
LEMMA PhotoStaysInStep ==
    IInv /\ [Next]_vars => \A p \in Photos : reportOf[p] # None => reportOf'[p] = reportOf[p]
<1> SUFFICES ASSUME IInv, [Next]_vars, NEW p \in Photos, reportOf[p] # None
             PROVE  reportOf'[p] = reportOf[p]
  OBVIOUS
<1>1. ASSUME NEW q \in Requests, Commit(q) PROVE reportOf'[p] = reportOf[p]
  BY <1>1 DEF Commit, IInv, RowsLocked
<1>2. CASE \A q \in Requests : ~Commit(q)
  BY <1>2 DEF Next, SubmitWithoutKey, AddRecord, AddRefused, FindNothing, FindRecord,
     ClaimVanished, CreateReport, Reject, AttachMedia, EnqueueTriage, Acknowledge,
     StatementFails, Die, BrokerRefuses, ExpireRecord, RemovePhoto, vars, storeVars
<1> QED
  BY <1>1, <1>2

(* No submission takes a photo over from another one (docstring of            *)
(* attach_media).                                                             *)
THEOREM PhotosCorrect == Spec => NoPhotoTakenOver
<1> QED
  BY PhotoStaysInStep, InvariantHolds, PTL DEF Spec, NoPhotoTakenOver

-----------------------------------------------------------------------------
(* The requests of one key, while none of them has given the key up: the one  *)
(* that works on it, or has been accepted, owns the record.                   *)
Served(k) ==
    \A q \in Requests : Key[q] = k =>
        stage[q] # "lost" /\ answer[q].outcome \notin {"rejected", "failed"}

Owns(q) == stage[q] \in Holding \/ answer[q].outcome = "accepted"

OneOwner(k) ==
    /\ \A q, other \in Requests :
           Key[q] = k /\ Key[other] = k /\ Owns(q) /\ Owns(other) => q = other
    /\ record[k] = None => \A q \in Requests : Key[q] = k => stage[q] = "sent"
    /\ record[k] # None => \E q \in Requests : Key[q] = k /\ Owns(q)
    /\ \A q \in Requests : Key[q] = k =>
           /\ stage[q] # "vanished"
           /\ answer[q].outcome = "accepted" => record[k].state = "completed"
           /\ q \in reports => Owns(q)

(* Who was told something has finished. *)
ToldLast == \A q \in Requests : answer[q].outcome # "none" => stage[q] \in {"done", "lost"}

OInv == ToldLast /\ \A k \in Keys : Served(k) => OneOwner(k)

LEMMA OwnersInitially == Init => OInv
  BY KeysTyped DEF Init, OInv, ToldLast, OneOwner, Owns, Answer, Holding, Open

(* The steps of one request, as its neighbours see them. *)
StepOf(q) ==
    /\ \A other \in Requests : other # q => /\ stage'[other] = stage[other]
                                            /\ answer'[other] = answer[other]
    /\ \A k \in Keys : k # Key[q] => record'[k] = record[k]
    /\ reports' \ {q} = reports \ {q}

(* A request that is told nothing, or told now, had been told nothing. *)
LEMMA ServedBefore ==
    ASSUME ToldLast, NEW k \in Keys, NEW q \in Requests, StepOf(q), Served(k)',
           stage[q] \notin {"done", "lost"}
    PROVE  Served(k)
  BY DEF Served, StepOf, ToldLast

(* What a request does is of no concern to another key. *)
LEMMA OtherKeys ==
    ASSUME OInv, NEW q \in Requests, StepOf(q), NEW k \in Keys, k # Key[q], Served(k)'
    PROVE  OneOwner(k)'
<1>1. \A other \in Requests : Key[other] = k => other # q /\ (other \in reports' <=> other \in reports)
  BY DEF StepOf
<1>2. Served(k)
  BY <1>1 DEF Served, StepOf
<1>3. OneOwner(k)
  BY <1>2 DEF OInv
<1> QED
  BY <1>1, <1>3 DEF StepOf, OneOwner, Owns

RequestStep(q) ==
    \/ SubmitWithoutKey(q) \/ AddRecord(q) \/ AddRefused(q) \/ FindNothing(q)
    \/ FindRecord(q) \/ ClaimVanished(q) \/ CreateReport(q) \/ Reject(q)
    \/ AttachMedia(q) \/ Commit(q) \/ EnqueueTriage(q) \/ Acknowledge(q)
    \/ StatementFails(q) \/ Die(q) \/ BrokerRefuses(q)

LEMMA StepsAreSeparate ==
    ASSUME Typed, NEW q \in Requests, RequestStep(q)
    PROVE  StepOf(q) /\ stage[q] \notin {"done", "lost"}
<1> USE DEF StepOf, storeVars
<1>1. CASE SubmitWithoutKey(q) \/ AddRecord(q) \/ AddRefused(q) \/ FindNothing(q)
  BY <1>1 DEF SubmitWithoutKey, AddRecord, AddRefused, FindNothing, GoTo, Typed
<1>2. CASE FindRecord(q) \/ ClaimVanished(q) \/ CreateReport(q)
  BY <1>2 DEF FindRecord, ClaimVanished, CreateReport, GoTo, Reply, Typed
<1>3. CASE Reject(q) \/ StatementFails(q)
  BY <1>3 DEF Reject, StatementFails, Release, GoTo, Reply, Open, Typed
<1>4. CASE AttachMedia(q) \/ Commit(q) \/ EnqueueTriage(q)
  BY <1>4 DEF AttachMedia, Commit, EnqueueTriage, GoTo, Typed
<1>5. CASE Acknowledge(q) \/ Die(q) \/ BrokerRefuses(q)
  BY <1>5 DEF Acknowledge, Die, BrokerRefuses, Complete, GoTo, Reply, Holding, Open, Typed
<1> QED
  BY <1>1, <1>2, <1>3, <1>4, <1>5 DEF RequestStep

(* Of one key, only the owner gets on; the others wait, or are turned down.   *)
LEMMA OwnKey ==
    ASSUME Typed, OInv, NEW q \in Requests, RequestStep(q), NEW k \in Keys, k = Key[q],
           Served(k)'
    PROVE  OneOwner(k)'
<1>0. StepOf(q) /\ stage[q] \notin {"done", "lost"}
  BY StepsAreSeparate
<1>1. Served(k) /\ OneOwner(k)
  BY <1>0, ServedBefore DEF OInv
<1>2. /\ answer[q].outcome = "none"
      /\ Key[q] # None
  BY <1>0, KeysTyped DEF OInv, ToldLast, Typed
<1>n. Holding = {"reserved", "created", "attached", "committed", "enqueued"}
  BY DEF Holding, Open
<1>3. CASE AddRecord(q)
  <2>1. /\ record[k] = None /\ record'[k] = InProgress(q) /\ record'[k] # None
        /\ stage'[q] = "reserved" /\ UNCHANGED <<reports, answer>>
    BY <1>3, KeysTyped, RecordsTyped DEF AddRecord, GoTo, Typed, storeVars
  <2>2. \A other \in Requests : Key[other] = k => stage[other] = "sent"
    BY <1>1, <2>1 DEF OneOwner
  <2>3. \A other \in Requests : Key[other] = k => answer[other].outcome = "none"
    BY <2>2 DEF OInv, ToldLast
  <2> QED
    BY <1>0, <1>1, <1>2, <1>n, <2>1, <2>2, <2>3 DEF StepOf, OneOwner, Owns
<1>4. CASE AddRefused(q)
  <2>1. /\ record[k] # None /\ stage'[q] = "contended" /\ stage[q] = "sent"
        /\ UNCHANGED <<record, reports, answer>>
    BY <1>4 DEF AddRefused, GoTo, Typed, storeVars
  <2> QED
    BY <1>0, <1>1, <1>2, <1>n, <2>1 DEF StepOf, OneOwner, Owns
<1>5. CASE FindNothing(q) \/ ClaimVanished(q)
  BY <1>1, <1>5 DEF FindNothing, ClaimVanished, Claimable, OneOwner
<1>6. CASE FindRecord(q)
  <2>1. /\ record[k] # None /\ stage'[q] = "done" /\ stage[q] = "contended"
        /\ answer'[q].outcome \in {"reused", "in_flight", "replayed"}
        /\ UNCHANGED <<record, reports>>
    BY <1>6 DEF FindRecord, Claimable, GoTo, Reply, Answer, Typed, storeVars
  <2> QED
    BY <1>0, <1>1, <1>2, <1>n, <2>1 DEF StepOf, OneOwner, Owns
<1>7. CASE CreateReport(q) \/ AttachMedia(q) \/ Commit(q) \/ EnqueueTriage(q)
  <2>1. /\ stage[q] \in Holding /\ stage'[q] \in Holding
        /\ UNCHANGED <<record, answer>>
    BY <1>7, <1>n DEF CreateReport, AttachMedia, Commit, EnqueueTriage, GoTo, Typed, storeVars
  <2> QED
    BY <1>0, <1>1, <1>2, <1>n, <2>1 DEF StepOf, OneOwner, Owns
<1>8. CASE Acknowledge(q)
  <2>1. /\ stage[q] = "enqueued" /\ stage'[q] = "done" /\ answer'[q].outcome = "accepted"
        /\ record'[k] = Completed(q) /\ record'[k] # None
        /\ UNCHANGED reports
    BY <1>8, KeysTyped, RecordsTyped
    DEF Acknowledge, GoTo, Reply, Answer, Complete, Typed, storeVars
  <2>c. record'[k].state = "completed"
    BY <2>1 DEF Completed
  <2>2. \A other \in Requests : Key[other] = k /\ Owns(other) => other = q
    BY <1>1, <1>n, <2>1 DEF OneOwner, Owns
  <2> QED
    BY <1>0, <1>1, <1>2, <1>n, <2>1, <2>c, <2>2 DEF StepOf, OneOwner, Owns
<1>9. CASE Reject(q) \/ StatementFails(q) \/ Die(q) \/ BrokerRefuses(q)
  <2>1. stage'[q] = "lost" \/ answer'[q].outcome \in {"rejected", "failed"}
    BY <1>9 DEF Reject, StatementFails, Die, BrokerRefuses, GoTo, Reply, Answer, Typed
  <2> QED
    BY <2>1 DEF Served
<1>10. ~SubmitWithoutKey(q)
  BY <1>2 DEF SubmitWithoutKey
<1> QED
  BY <1>3, <1>4, <1>5, <1>6, <1>7, <1>8, <1>9, <1>10 DEF RequestStep

LEMMA ToldLastPreserved ==
    ASSUME Typed, ToldLast, NEW q \in Requests, RequestStep(q) PROVE ToldLast'
<1>1. StepOf(q)
  BY StepsAreSeparate
<1>2. CASE UNCHANGED answer
  BY <1>1, <1>2, StepsAreSeparate DEF ToldLast, StepOf
<1>3. CASE stage'[q] \in {"done", "lost"}
  BY <1>1, <1>3 DEF ToldLast, StepOf
<1> QED
  BY <1>2, <1>3 DEF RequestStep, SubmitWithoutKey, AddRecord, AddRefused, FindNothing,
     FindRecord, ClaimVanished, CreateReport, Reject, AttachMedia, Commit, EnqueueTriage,
     Acknowledge, StatementFails, Die, BrokerRefuses, GoTo, Reply, Typed

LEMMA OwnersPreserved == IInv /\ OInv /\ [Next]_vars => OInv'
<1> SUFFICES ASSUME IInv, OInv, [Next]_vars PROVE OInv'
  OBVIOUS
<1>t. Typed
  BY DEF IInv
<1>1. ASSUME NEW q \in Requests, RequestStep(q) PROVE OInv'
  BY <1>1, <1>t, StepsAreSeparate, OtherKeys, OwnKey, ToldLastPreserved DEF OInv
<1>2. ASSUME NEW k \in Keys, ExpireRecord(k) PROVE OInv'
  <2>1. UNCHANGED <<stage, answer, reports>> /\ \A j \in Keys : j # k => record'[j] = record[j]
    BY <1>2, <1>t DEF ExpireRecord, Typed, storeVars
  <2>2. ~Served(k)
    BY <1>2 DEF ExpireRecord, OInv, OneOwner, Owns
  <2>3. \A j \in Keys : Served(j)' => Served(j) /\ j # k
    BY <2>1, <2>2 DEF Served
  <2> QED
    BY <2>1, <2>3 DEF OInv, ToldLast, OneOwner, Owns
<1>3. CASE (\E p \in Photos : RemovePhoto(p)) \/ UNCHANGED vars
  <2>1. UNCHANGED <<stage, answer, reports, record>>
    BY <1>3 DEF RemovePhoto, vars, storeVars
  <2> QED
    BY <2>1 DEF OInv, ToldLast, Served, OneOwner, Owns
<1> QED
  BY <1>1, <1>2, <1>3 DEF Next, RequestStep

(* BR-5 for any number of concurrent requests on any number of keys: requests *)
(* of one user action leave one Report as long as every one of them is        *)
(* served, whatever happens to the requests of other keys (reserve, complete, *)
(* release).                                                                  *)
THEOREM OneReportCorrect == Spec => []OneReportPerServedAction
<1>1. IInv /\ OInv => OneReportPerServedAction
  <2> SUFFICES ASSUME IInv, OInv, NEW k \in Keys, Served(k),
                      NEW q \in reports, NEW other \in reports, Key[q] = k, Key[other] = k
               PROVE  q = other
    BY DEF OneReportPerServedAction, Served
  <2>1. q \in Requests /\ other \in Requests
    BY DEF IInv, Typed
  <2>2. OneOwner(k)
    BY DEF OInv
  <2> QED
    BY <2>1, <2>2 DEF OneOwner
<1> QED
  BY <1>1, OwnersInitially, OwnersPreserved, InvariantHolds, PTL DEF Spec

-----------------------------------------------------------------------------
(* The boundaries.  While nobody uses the Admin site, one row is in force,    *)
(* the last of the trail, and at most one request holds its lock.             *)
Link == [before : Names, after : Names]

BoundaryTyped ==
    /\ boundary \in [Names -> {"absent", "active", "retired"}]
    /\ doing \in [Replacers -> {"idle", "selecting", "waiting", "replacing"}]
    /\ wanted \in [Replacers -> Names \cup {None}]
    /\ seen \in [Replacers -> SUBSET Names]
    /\ trail \in Seq(Link)
    /\ byHand \in BOOLEAN
    /\ \A r \in Replacers : doing[r] # "idle" => wanted[r] \in Names

OneInForce == CB!InForce = {CB!InTurn(Len(trail))}

LockHeld(r) == doing[r] = "replacing" => seen[r] = CB!InForce

OneReplaces ==
    \A r, q \in Replacers : doing[r] = "replacing" /\ doing[q] = "replacing" => r = q

Linked == \A i \in 1 .. Len(trail) : trail[i].before = CB!InTurn(i - 1)

Judged(v, i) == v.by = {CB!InTurn(i)} /\ v.within = (v.place \in Area[CB!InTurn(i)])

Explained == \A v \in verdicts : \E i \in 0 .. Len(trail) : Judged(v, i)

BoundaryInv ==
    /\ BoundaryTyped
    /\ ~byHand => /\ OneInForce /\ OneReplaces /\ Linked /\ Explained
                  /\ \A r \in Replacers : LockHeld(r)

LEMMA BoundaryInitially == CB!Init => BoundaryInv
<1> SUFFICES ASSUME CB!Init PROVE BoundaryInv
  OBVIOUS
<1>1. trail = <<>> /\ trail \in Seq(Link) /\ Len(trail) = 0
  BY DEF CB!Init
<1>2. BoundaryTyped
  BY <1>1 DEF CB!Init, BoundaryTyped
<1>3. OneInForce
  BY <1>1, BoundaryAssumption DEF CB!Init, OneInForce, CB!InForce, CB!InTurn, CB!OutlineAssumption
<1>4. OneReplaces /\ Linked /\ Explained /\ \A r \in Replacers : LockHeld(r)
  BY <1>1 DEF CB!Init, OneReplaces, Linked, Explained, LockHeld
<1> QED
  BY <1>2, <1>3, <1>4 DEF BoundaryInv

LEMMA CountOne ==
    ASSUME NEW x, NEW S, S \subseteq {x}, CB!Cardinality(S) = 1
    PROVE  S = {x}
<1>1. CB!Cardinality(S) = Cardinality(S)
  BY DEF CB!Cardinality, Cardinality
<1>2. S = {} => Cardinality(S) = 0
  BY FS_EmptySet
<1> QED
  BY <1>1, <1>2

(* The trail and the rows stay; the requests may go on. *)
LEMMA RequestGoesOn ==
    ASSUME BoundaryInv, NEW r \in Replacers, BoundaryTyped',
           UNCHANGED <<boundary, trail, byHand, verdicts>>,
           \A q \in Replacers \ {r} : doing'[q] = doing[q] /\ seen'[q] = seen[q],
           doing'[r] = "replacing" /\ ~byHand =>
               /\ seen'[r] = CB!InForce
               /\ \A q \in Replacers \ {r} : doing[q] # "replacing"
    PROVE  BoundaryInv'
<1>1. CB!InForce' = CB!InForce /\ \A i : CB!InTurn(i)' = CB!InTurn(i)
  BY DEF CB!InForce, CB!InTurn
<1>2. ~byHand' => OneInForce' /\ Linked' /\ Explained'
  BY <1>1 DEF BoundaryInv, OneInForce, Linked, Explained, Judged
<1>3. ~byHand' => OneReplaces' /\ \A q \in Replacers : LockHeld(q)'
  BY <1>1 DEF BoundaryInv, OneReplaces, LockHeld
<1> QED
  BY <1>2, <1>3 DEF BoundaryInv

LEMMA LockKeeps ==
    ASSUME BoundaryInv, NEW r \in Replacers, CB!LockActive(r) PROVE BoundaryInv'
<1>1. /\ doing' = [doing EXCEPT ![r] = "replacing"]
      /\ seen' = [seen EXCEPT ![r] = CB!StillActive(r)]
      /\ UNCHANGED <<boundary, wanted, trail, byHand, verdicts>>
      /\ CB!FreeFor(r, seen[r]) /\ CB!Cardinality(CB!StillActive(r)) = 1
      /\ doing[r] = "waiting"
  BY DEF CB!LockActive
<1>2. BoundaryTyped'
  BY <1>1 DEF BoundaryInv, BoundaryTyped, CB!StillActive
<1>3. doing'[r] = "replacing" /\ seen'[r] = CB!StillActive(r)
      /\ \A q \in Replacers \ {r} : doing'[q] = doing[q] /\ seen'[q] = seen[q]
  BY <1>1 DEF BoundaryInv, BoundaryTyped
<1>4. ASSUME ~byHand
      PROVE  /\ CB!StillActive(r) = CB!InForce
             /\ \A q \in Replacers \ {r} : doing[q] # "replacing"
  <2> DEFINE x == CB!InTurn(Len(trail))
  <2>1. CB!InForce = {x} /\ CB!StillActive(r) \subseteq {x}
    BY <1>4 DEF BoundaryInv, OneInForce, CB!StillActive
  <2>2. CB!StillActive(r) = {x}
    <3> HIDE DEF x
    <3> QED
      BY <1>1, <2>1, CountOne
  <2>3. x \in seen[r]
    BY <2>2 DEF CB!StillActive
  <2>4. ASSUME NEW q \in Replacers \ {r}, doing[q] = "replacing" PROVE FALSE
    <3>1. x \in CB!LockedRows(q)
      BY <1>4, <2>1, <2>4 DEF BoundaryInv, LockHeld, CB!LockedRows
    <3> QED
      BY <1>1, <2>3, <3>1 DEF CB!FreeFor
  <2> QED
    BY <2>1, <2>2, <2>4
<1> QED
  BY <1>1, <1>2, <1>3, <1>4, RequestGoesOn

LEMMA ReplaceKeeps ==
    ASSUME BoundaryInv, NEW r \in Replacers, CB!Replace(r) PROVE BoundaryInv'
<1>0. PICK new : new = wanted[r]
  OBVIOUS
<1>1. /\ doing[r] = "replacing" /\ boundary[new] = "absent"
      /\ boundary' = [n \in Names |-> CASE n = new -> "active"
                                        [] n \in seen[r] -> "retired"
                                        [] OTHER -> boundary[n]]
      /\ \E previous \in seen[r] : trail' = Append(trail, [before |-> previous, after |-> new])
      /\ doing' = [doing EXCEPT ![r] = "idle"] /\ wanted' = [wanted EXCEPT ![r] = None]
      /\ seen' = [seen EXCEPT ![r] = {}]
      /\ UNCHANGED <<byHand, verdicts>>
  BY <1>0 DEF CB!Replace, CB!RecordEvent, CB!Ends
<1>2. PICK previous \in seen[r] : trail' = Append(trail, [before |-> previous, after |-> new])
  BY <1>1
<1>n. PICK n \in Nat : n = Len(trail)
  BY DEF BoundaryInv, BoundaryTyped
<1>3. new \in Names /\ previous \in Names /\ trail \in Seq(Link) /\ Len(trail) = n
  BY <1>0, <1>1, <1>n DEF BoundaryInv, BoundaryTyped
<1> DEFINE link == [before |-> previous, after |-> new]
<1>4. link \in Link /\ link.before = previous /\ link.after = new
  BY <1>3 DEF Link
<1>5. /\ trail' \in Seq(Link) /\ Len(trail') = n + 1 /\ trail'[n + 1] = link
      /\ \A i \in 1 .. n : trail'[i] = trail[i]
  <2> HIDE DEF link
  <2> QED
    BY <1>2, <1>3, <1>4 DEF link
<1>6. BoundaryTyped'
  <2>1. \A q \in Replacers : doing'[q] # "idle" => wanted'[q] \in Names
    BY <1>1 DEF BoundaryInv, BoundaryTyped
  <2> HIDE DEF link
  <2> QED
    BY <1>1, <1>3, <1>5, <2>1 DEF BoundaryInv, BoundaryTyped
<1>7. ASSUME ~byHand'
      PROVE  OneInForce' /\ OneReplaces' /\ Linked' /\ Explained'
             /\ \A q \in Replacers : LockHeld(q)'
  <2>1. /\ OneInForce /\ OneReplaces /\ Linked /\ Explained
        /\ seen[r] = CB!InForce /\ ~byHand
    BY <1>1, <1>7 DEF BoundaryInv, LockHeld
  <2>2. previous = CB!InTurn(n)
    BY <1>2, <1>3, <2>1 DEF OneInForce
  <2>3. CB!InTurn(n + 1)' = new /\ \A i \in 0 .. n : CB!InTurn(i)' = CB!InTurn(i)
    <3>1. n + 1 # 0 /\ trail'[n + 1].after = new
      BY <1>3, <1>4, <1>5
    <3>2. \A i \in 0 .. n : i # 0 => trail'[i] = trail[i]
      BY <1>3, <1>5
    <3> QED
      BY <3>1, <3>2 DEF CB!InTurn
  <2>4. CB!InForce' = {new}
    BY <1>1, <1>3, <2>1 DEF CB!InForce
  <2>5. OneInForce'
    BY <1>5, <2>3, <2>4 DEF OneInForce
  <2>6. \A q \in Replacers : doing'[q] # "replacing"
    BY <1>1, <2>1 DEF OneReplaces, BoundaryInv, BoundaryTyped
  <2>7. Linked'
    <3> SUFFICES ASSUME NEW i \in 1 .. n + 1 PROVE trail'[i].before = CB!InTurn(i - 1)'
      BY <1>5 DEF Linked
    <3>1. CASE i = n + 1
      <4>1. trail'[i].before = previous /\ i - 1 = n /\ n \in 0 .. n
        BY <1>3, <1>4, <1>5, <3>1
      <4> QED
        BY <2>2, <2>3, <4>1
    <3>2. CASE i \in 1 .. n
      <4>1. trail'[i] = trail[i] /\ i - 1 \in 0 .. n /\ i \in 1 .. Len(trail)
        BY <1>3, <1>5, <3>2
      <4>2. trail[i].before = CB!InTurn(i - 1)
        BY <1>3, <2>1, <3>2 DEF Linked
      <4> QED
        BY <2>3, <4>1, <4>2
    <3> QED
      BY <1>3, <3>1, <3>2
  <2>8. Explained'
    <3> SUFFICES ASSUME NEW v \in verdicts PROVE \E i \in 0 .. n + 1 : Judged(v, i)'
      BY <1>1, <1>5 DEF Explained
    <3>1. PICK i \in 0 .. n : Judged(v, i)
      BY <1>3, <2>1 DEF Explained
    <3>2. i \in 0 .. n + 1
      BY <1>3
    <3>3. Judged(v, i)'
      <4> QED
        BY <2>3, <3>1 DEF Judged
    <3> QED
      BY <3>2, <3>3
  <2> QED
    BY <2>5, <2>6, <2>7, <2>8 DEF OneReplaces, LockHeld
<1> QED
  BY <1>6, <1>7 DEF BoundaryInv

LEMMA BoundaryStepwise == BoundaryInv /\ [CB!Next]_(CB!vars) => BoundaryInv'
<1> SUFFICES ASSUME BoundaryInv, [CB!Next]_(CB!vars) PROVE BoundaryInv'
  OBVIOUS
<1>1. ASSUME NEW r \in Replacers, NEW name \in Names, CB!CheckName(r, name)
      PROVE  BoundaryInv'
  <2>1. /\ doing' = [doing EXCEPT ![r] = "selecting"] /\ wanted' = [wanted EXCEPT ![r] = name]
        /\ UNCHANGED <<boundary, seen, trail, byHand, verdicts>>
    BY <1>1 DEF CB!CheckName
  <2> QED
    BY <2>1, RequestGoesOn DEF BoundaryInv, BoundaryTyped
<1>2. ASSUME NEW r \in Replacers, CB!SelectActive(r) PROVE BoundaryInv'
  <2>1. /\ doing[r] = "selecting" /\ doing' = [doing EXCEPT ![r] = "waiting"]
        /\ seen' = [seen EXCEPT ![r] = CB!InForce]
        /\ UNCHANGED <<boundary, wanted, trail, byHand, verdicts>>
    BY <1>2 DEF CB!SelectActive
  <2>2. CB!InForce \in SUBSET Names
    BY DEF CB!InForce
  <2> QED
    BY <2>1, <2>2, RequestGoesOn DEF BoundaryInv, BoundaryTyped
<1>3. ASSUME NEW r \in Replacers, CB!StateInvalid(r) \/ CB!NameTaken(r) PROVE BoundaryInv'
  <2>1. /\ doing' = [doing EXCEPT ![r] = "idle"] /\ wanted' = [wanted EXCEPT ![r] = None]
        /\ seen' = [seen EXCEPT ![r] = {}]
        /\ UNCHANGED <<boundary, trail, byHand, verdicts>>
    BY <1>3 DEF CB!StateInvalid, CB!NameTaken, CB!Ends
  <2> QED
    BY <2>1, RequestGoesOn DEF BoundaryInv, BoundaryTyped
<1>4. ASSUME NEW name \in Names, NEW state \in {"active", "retired"}, CB!SaveByHand(name, state)
      PROVE  BoundaryInv'
  BY <1>4 DEF CB!SaveByHand, BoundaryInv, BoundaryTyped
<1>5. ASSUME NEW p \in Places, CB!ValidateLocation(p) PROVE BoundaryInv'
  <2> DEFINE verdict == [place |-> p, within |-> CB!IsWithinCity(p), by |-> CB!InForce]
  <2>1. /\ verdicts' = verdicts \cup {verdict}
        /\ UNCHANGED <<boundary, doing, wanted, seen, trail, byHand>>
    BY <1>5 DEF CB!ValidateLocation
  <2>2. CB!InForce' = CB!InForce /\ \A i : CB!InTurn(i)' = CB!InTurn(i)
    BY <2>1 DEF CB!InForce, CB!InTurn
  <2>3. BoundaryTyped'
    BY <2>1 DEF BoundaryInv, BoundaryTyped
  <2>4. ~byHand' => Explained'
    <3> SUFFICES ASSUME ~byHand, NEW v \in verdicts'
                 PROVE  \E i \in 0 .. Len(trail) : Judged(v, i)
      BY <2>1, <2>2 DEF Explained, Judged
    <3>1. CASE v \in verdicts
      BY <3>1 DEF BoundaryInv, Explained
    <3>2. CASE v = verdict
      <4>1. Len(trail) \in 0 .. Len(trail)
        BY DEF BoundaryInv, BoundaryTyped
      <4>2. CB!InForce = {CB!InTurn(Len(trail))}
        BY DEF BoundaryInv, OneInForce
      <4> DEFINE x == CB!InTurn(Len(trail))
      <4>3. CB!IsWithinCity(p) = (p \in Area[x])
        <5>1. CB!InForce = {x}
          BY <4>2
        <5> HIDE DEF x
        <5>2. CB!IsWithinCity(p) <=> p \in Area[x]
          BY <5>1 DEF CB!IsWithinCity
        <5>3. CB!IsWithinCity(p) \in BOOLEAN
          BY DEF CB!IsWithinCity
        <5> QED
          BY <5>2, <5>3
      <4>4. Judged(v, Len(trail))
        BY <3>2, <4>2, <4>3 DEF Judged
      <4> QED
        BY <4>1, <4>4
    <3> QED
      BY <2>1, <3>1, <3>2
  <2>5. ~byHand' => OneInForce' /\ OneReplaces' /\ Linked' /\ \A r \in Replacers : LockHeld(r)'
    BY <2>1, <2>2 DEF BoundaryInv, OneInForce, OneReplaces, Linked, LockHeld
  <2> QED
    BY <2>3, <2>4, <2>5 DEF BoundaryInv
<1>6. CASE UNCHANGED CB!vars
  BY <1>6 DEF CB!vars, BoundaryInv, BoundaryTyped, OneInForce, OneReplaces, Linked, Explained,
              Judged, LockHeld, CB!InForce, CB!InTurn
<1> QED
  BY <1>1, <1>2, <1>3, <1>4, <1>5, <1>6, LockKeeps, ReplaceKeeps DEF CB!Next

(* FOR UPDATE in replace_city_boundary: for any number of requests at once,   *)
(* the trail is an unbroken chain from the seeded boundary to the one in      *)
(* force, and it names the one that judged a submission.                      *)
THEOREM VerdictsCorrect == CB!Spec => []EveryVerdictExplained
<1>1. BoundaryInv => EveryVerdictExplained
  <2> SUFFICES ASSUME BoundaryInv, ~byHand
               PROVE  /\ CB!ActiveCityBoundary = CB!InTurn(Len(trail))
                      /\ \A i \in DOMAIN trail : trail[i].before = CB!InTurn(i - 1)
                      /\ \A v \in verdicts : \E i \in 0 .. Len(trail) : Judged(v, i)
    BY DEF EveryVerdictExplained, CB!EveryVerdictExplained, Judged
  <2> DEFINE x == CB!InTurn(Len(trail))
  <2>1. CB!InForce = {x} /\ x \in Names
    BY DEF BoundaryInv, OneInForce, CB!InForce
  <2>2. CB!ActiveCityBoundary = x
    <3>1. CB!Cardinality(CB!InForce) = 1
      <4>1. CB!Cardinality({x}) = Cardinality({x})
        BY DEF CB!Cardinality, Cardinality
      <4> HIDE DEF x
      <4> QED
        BY <2>1, <4>1, FS_Singleton
    <3> HIDE DEF x
    <3> QED
      BY <2>1, <3>1 DEF CB!ActiveCityBoundary
  <2>3. DOMAIN trail = 1 .. Len(trail)
    BY DEF BoundaryInv, BoundaryTyped
  <2> QED
    BY <2>2, <2>3 DEF BoundaryInv, Linked, Explained
<1> QED
  BY <1>1, BoundaryInitially, BoundaryStepwise, PTL DEF CB!Spec

-----------------------------------------------------------------------------
(* The two parts side by side. *)
LEMMA EveryStepIsOfOnePart ==
    [NextOfEither]_allVars => [Next]_vars /\ [CB!Next]_(CB!vars)
<1>1. UNCHANGED boundaryVars => UNCHANGED CB!vars
  BY DEF boundaryVars, CB!vars
<1>2. NextOfEither => \/ UNCHANGED boundaryVars /\ Next
                      \/ UNCHANGED vars /\ CB!Next
  BY DEF NextOfEither, Submits, City, Next, CB!Next
<1>3. UNCHANGED allVars => UNCHANGED <<vars, boundaryVars>>
  BY DEF allVars
<1> QED
  BY <1>1, <1>2, <1>3

(* A behaviour of the composition is one of each part, so that what is proved *)
(* of a part holds of the whole.                                              *)
THEOREM IntakeComposed == SpecOfBoth => Spec /\ CB!Spec
<1>1. InitOfBoth => Init /\ CB!Init
  BY DEF InitOfBoth
<1> QED
  BY <1>1, EveryStepIsOfOnePart, PTL DEF SpecOfBoth, Spec, CB!Spec

=============================================================================
