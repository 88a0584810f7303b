------------------------------ MODULE Boundaries ------------------------------
(* The outline of the served city: the Admins who replace it, the submissions *)
(* that are judged by it and the audit trail that says which outline judged.  *)
(*                                                                            *)
(* A replacement is one transaction of four statements.  Under READ COMMITTED *)
(* each statement sees what had been committed when it began: the search for  *)
(* the name, and SELECT ... FOR UPDATE, which waits for the lock of a row it  *)
(* has seen, looks at that row again, and does not look for new rows.  The    *)
(* Admin site writes the same table without these checks.                     *)
EXTENDS Integers, Sequences, FiniteSets

CONSTANTS
    Names,      \* names of boundaries; the column is UNIQUE
    Seeded,     \* the boundary a migration has loaded
    Places,
    Area,       \* places within each boundary
    Replacers,  \* PUT /admin/city-boundary requests in flight
    MaxVerdicts,\* bound of the model: submissions remembered
    None

(* What is assumed of the constants. *)
OutlineAssumption ==
    /\ Seeded \in Names /\ None \notin Names
    /\ Area \in [Names -> SUBSET Places]
    /\ MaxVerdicts \in Nat

VARIABLES
    boundary,   \* [Names -> {"absent", "active", "retired"}]
    doing,      \* per request: the statement it is to run next
    wanted,     \* per request: the name of the new boundary
    seen,       \* per request: rows its SELECT ... FOR UPDATE has found
    trail,      \* audit events of the replacements
    byHand,     \* history: has the Admin site changed a row?
    verdicts    \* history: places judged, and by which boundaries

vars == <<boundary, doing, wanted, seen, trail, byHand, verdicts>>

Steps == {"idle", "selecting", "waiting", "replacing"}

(* Shape of the state. *)
TypeOK ==
    /\ boundary \in [Names -> {"absent", "active", "retired"}]
    /\ doing \in [Replacers -> Steps]
    /\ wanted \in [Replacers -> Names \cup {None}]
    /\ seen \in [Replacers -> SUBSET Names]
    /\ trail \in Seq([before : Names, after : Names])
    /\ byHand \in BOOLEAN
    /\ verdicts \subseteq [place : Places, within : BOOLEAN, by : SUBSET Names]

Init ==
    /\ boundary = [n \in Names |-> IF n = Seeded THEN "active" ELSE "absent"]
    /\ doing = [r \in Replacers |-> "idle"]
    /\ wanted = [r \in Replacers |-> None]
    /\ seen = [r \in Replacers |-> {}]
    /\ trail = <<>>
    /\ byHand = FALSE
    /\ verdicts = {}

InForce == {n \in Names : boundary[n] = "active"}

\* Mutation: the rows are read without FOR UPDATE.
LockedRowsNone(r) == {}

(* Rows that the transaction of a request has locked. *)
LockedRows(r) == IF doing[r] = "replacing" THEN seen[r] ELSE {}

FreeFor(r, rows) == \A q \in Replacers \ {r} : LockedRows(q) \cap rows = {}

Ends(r) ==
    /\ doing' = [doing EXCEPT ![r] = "idle"]
    /\ wanted' = [wanted EXCEPT ![r] = None]
    /\ seen' = [seen EXCEPT ![r] = {}]

-----------------------------------------------------------------------------
(* replace_city_boundary: a name in use is refused. *)
CheckName(r, name) ==
    /\ doing[r] = "idle"
    /\ boundary[name] = "absent"
    /\ doing' = [doing EXCEPT ![r] = "selecting"]
    /\ wanted' = [wanted EXCEPT ![r] = name]
    /\ UNCHANGED <<boundary, seen, trail, byHand, verdicts>>

SelectActive(r) ==
    /\ doing[r] = "selecting"
    /\ doing' = [doing EXCEPT ![r] = "waiting"]
    /\ seen' = [seen EXCEPT ![r] = InForce]
    /\ UNCHANGED <<boundary, wanted, trail, byHand, verdicts>>

(* The locks are there: exactly one of the rows seen must still be active. *)
StillActive(r) == seen[r] \cap InForce

LockActive(r) ==
    /\ doing[r] = "waiting"
    /\ FreeFor(r, seen[r])
    /\ Cardinality(StillActive(r)) = 1
    /\ doing' = [doing EXCEPT ![r] = "replacing"]
    /\ seen' = [seen EXCEPT ![r] = StillActive(r)]
    /\ UNCHANGED <<boundary, wanted, trail, byHand, verdicts>>

(* BOUNDARY_STATE_INVALID, also for the request that has waited in vain. *)
StateInvalid(r) ==
    /\ doing[r] = "waiting"
    /\ FreeFor(r, seen[r])
    /\ Cardinality(StillActive(r)) # 1
    /\ Ends(r)
    /\ UNCHANGED <<boundary, trail, byHand, verdicts>>

RecordEvent(previous, next) ==
    trail' = Append(trail, [before |-> previous, after |-> next])

(* The commit: the previous boundary retires, the new one is in force. *)
Replace(r) ==
    /\ doing[r] = "replacing"
    /\ boundary[wanted[r]] = "absent"
    /\ boundary' = [n \in Names |-> CASE n = wanted[r] -> "active"
                                      [] n \in seen[r] -> "retired"
                                      [] OTHER -> boundary[n]]
    /\ \E previous \in seen[r] : RecordEvent(previous, wanted[r])
    /\ Ends(r)
    /\ UNCHANGED <<byHand, verdicts>>

(* Another request has used the name since: the index refuses the new row,    *)
(* and the retirement is rolled back with it.                                 *)
NameTaken(r) ==
    /\ doing[r] = "replacing"
    /\ boundary[wanted[r]] # "absent"
    /\ Ends(r)
    /\ UNCHANGED <<boundary, trail, byHand, verdicts>>

-----------------------------------------------------------------------------
(* CityBoundaryAdmin: a row is added, or its is_active saved from a form that *)
(* was read earlier; only the locks of a replacement are waited for.          *)
SaveByHand(name, state) ==
    /\ state \in {"active", "retired"}
    /\ \A r \in Replacers : name \notin LockedRows(r)
    /\ boundary' = [boundary EXCEPT ![name] = state]
    /\ byHand' = TRUE
    /\ UNCHANGED <<doing, wanted, seen, trail, verdicts>>

(* is_within_city: the test runs in the database, on the rows in force. *)
IsWithinCity(place) == \E n \in InForce : place \in Area[n]

(* A submission is judged; validate_location refuses what is outside, and     *)
(* everything when no boundary is in force.                                   *)
ValidateLocation(place) ==
    /\ Cardinality(verdicts) < MaxVerdicts
    /\ verdicts' = verdicts \cup
           {[place |-> place, within |-> IsWithinCity(place), by |-> InForce]}
    /\ UNCHANGED <<boundary, doing, wanted, seen, trail, byHand>>

-----------------------------------------------------------------------------
Next ==
    \/ \E r \in Replacers, n \in Names : CheckName(r, n)
    \/ \E r \in Replacers : SelectActive(r)
    \/ \E r \in Replacers : LockActive(r)
    \/ \E r \in Replacers : StateInvalid(r)
    \/ \E r \in Replacers : Replace(r)
    \/ \E r \in Replacers : NameTaken(r)
    \/ \E n \in Names, state \in {"active", "retired"} : SaveByHand(n, state)
    \/ \E p \in Places : ValidateLocation(p)

Spec == Init /\ [][Next]_vars

-----------------------------------------------------------------------------
(* active_city_boundary: the one boundary, or BoundaryUnavailable. *)
ActiveCityBoundary ==
    IF Cardinality(InForce) = 1 THEN CHOOSE n \in Names : InForce = {n} ELSE None

(* The boundary in force after the first i replacements, by the trail. *)
InTurn(i) == IF i = 0 THEN Seeded ELSE trail[i].after

(* As long as nobody uses the Admin site, there is a boundary to show and     *)
(* every submission is judged by one that the audit trail names: the trail is *)
(* an unbroken chain from the seeded boundary to the one in force, however    *)
(* many Admins replace it at once (replace_city_boundary's FOR UPDATE).       *)
EveryVerdictExplained ==
    ~byHand =>
        /\ ActiveCityBoundary = InTurn(Len(trail))
        /\ \A i \in DOMAIN trail : trail[i].before = InTurn(i - 1)
        /\ \A v \in verdicts : \E i \in 0 .. Len(trail) :
               v.by = {InTurn(i)} /\ v.within = (v.place \in Area[InTurn(i)])

=============================================================================
