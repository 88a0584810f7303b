-------------------------------- MODULE Intake --------------------------------
(* How Reports come in: the submissions, and the boundary of the city that    *)
(* they are judged by.  The two share no state that their properties speak    *)
(* of, so a behaviour is one of one of the two parts.                         *)
EXTENDS Submission, Sequences

CONSTANTS Names, Seeded, Places, Area, Replacers, MaxVerdicts

VARIABLES part, boundary, doing, wanted, seen, trail, byHand, verdicts

boundaryVars == <<boundary, doing, wanted, seen, trail, byHand, verdicts>>
allVars == <<part, vars, boundaryVars>>

CB == INSTANCE Boundaries

ASSUME BoundaryAssumption == CB!OutlineAssumption

InitOfBoth == part \in {"submissions", "boundary"} /\ Init /\ CB!Init

Submits == part = "submissions" /\ UNCHANGED <<part, boundaryVars>>
City    == part = "boundary" /\ UNCHANGED <<part, vars>>

NextOfEither ==
    \/ Submits /\ \E q \in Requests : SubmitWithoutKey(q)
    \/ Submits /\ \E q \in Requests : AddRecord(q)
    \/ Submits /\ \E q \in Requests : AddRefused(q)
    \/ Submits /\ \E q \in Requests : FindNothing(q)
    \/ Submits /\ \E q \in Requests : FindRecord(q)
    \/ Submits /\ \E q \in Requests : ClaimVanished(q)
    \/ Submits /\ \E q \in Requests : CreateReport(q)
    \/ Submits /\ \E q \in Requests : Reject(q)
    \/ Submits /\ \E q \in Requests : AttachMedia(q)
    \/ Submits /\ \E q \in Requests : Commit(q)
    \/ Submits /\ \E q \in Requests : EnqueueTriage(q)
    \/ Submits /\ \E q \in Requests : Acknowledge(q)
    \/ Submits /\ \E q \in Requests : StatementFails(q)
    \/ Submits /\ \E q \in Requests : Die(q)
    \/ Submits /\ \E q \in Requests : BrokerRefuses(q)
    \/ Submits /\ \E k \in Keys : ExpireRecord(k)
    \/ Submits /\ \E p \in Photos : RemovePhoto(p)
    \/ City /\ \E r \in Replacers, n \in Names : CB!CheckName(r, n)
    \/ City /\ \E r \in Replacers : CB!SelectActive(r)
    \/ City /\ \E r \in Replacers : CB!LockActive(r)
    \/ City /\ \E r \in Replacers : CB!StateInvalid(r)
    \/ City /\ \E r \in Replacers : CB!Replace(r)
    \/ City /\ \E r \in Replacers : CB!NameTaken(r)
    \/ City /\ \E n \in Names, state \in {"active", "retired"} : CB!SaveByHand(n, state)
    \/ City /\ \E p \in Places : CB!ValidateLocation(p)

SpecOfBoth == InitOfBoth /\ [][NextOfEither]_allVars

(* One boundary is in force, and the audit trail names the one that judged. *)
EveryVerdictExplained == CB!EveryVerdictExplained

=============================================================================
