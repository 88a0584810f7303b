--------------------------------- MODULE Staff ---------------------------------
(* What the staff work with, side by side: the requests that act on Issues    *)
(* and their row locks, the pages the work queue is read by, and the taxonomy *)
(* that is edited under the classifications.  The three share no state, so a  *)
(* behaviour is one of one of the three parts.                                *)
EXTENDS Integers, Sequences

CONSTANTS Issues, Reports, Authorities, Admins, Citizens, Categories, CategoryOf,
          Members, AuthorOf, Requests, Jobs, MaxChanges,
          Rows, Ranks, Ages, Totals, Limit, MaxMoves, MaxPages,
          Slugs, Sink, Terms, Length, MaxLength, Keywords, Texts, Found,
          Classified, TextOf, MaxEdits, None

VARIABLES part,
          job, phase, taken, active, scope, assignee, loaded, changes,
          sort, table, cursor, page, served, scroll, touched, moves, pages,
          category, keyword, stage, offered, answer, cache, basis, edits

lockVars == <<job, phase, taken, active, scope, assignee, loaded, changes>>
pageVars == <<sort, table, cursor, page, served, scroll, touched, moves, pages>>
taxonomyVars == <<category, keyword, stage, offered, answer, cache, basis, edits>>
vars == <<part, lockVars, pageVars, taxonomyVars>>

SL == INSTANCE StewardLocks
PG == INSTANCE Paging WITH changes <- moves, MaxChanges <- MaxMoves
TX == INSTANCE Taxonomy WITH Categories <- Slugs, Reports <- Classified

ASSUME StaffAssumption ==
    SL!LocksAssumption /\ PG!PagingAssumption /\ TX!TaxonomyAssumption

Locks == part = "locks" /\ UNCHANGED <<part, pageVars, taxonomyVars>>
Pages == part = "pages" /\ UNCHANGED <<part, lockVars, taxonomyVars>>
Edits == part = "taxonomy" /\ UNCHANGED <<part, lockVars, pageVars>>

(* The parts that are not at work in a behaviour begin in one state. *)
IdleLocks == job = [p \in Requests |-> CHOOSE j \in Jobs : TRUE]
IdlePages == sort = "age" /\ table = [r \in Rows |-> None]
IdleTaxonomy == category = [k \in Slugs |-> "active"]

Init ==
    /\ \/ part = "locks" /\ IdlePages /\ IdleTaxonomy
       \/ part = "pages" /\ IdleLocks /\ IdleTaxonomy
       \/ part = "taxonomy" /\ IdleLocks /\ IdlePages
    /\ SL!Init /\ PG!Init /\ TX!Init

Next ==
    \/ Locks /\ \E p \in Requests : SL!Begin(p)
    \/ Locks /\ \E p \in Requests : SL!Acquire(p)
    \/ Locks /\ \E p \in Requests : SL!Refuse(p)
    \/ Locks /\ \E p \in Requests : SL!Commit(p)
    \/ Locks /\ \E p \in Requests : SL!Abort(p)
    \/ Locks /\ \E u \in Authorities, mayEnter \in BOOLEAN,
                   categories \in SUBSET Categories :
                   SL!UpdateByAdmin(u, mayEnter, categories)
    \/ Pages /\ PG!FirstPage
    \/ Pages /\ PG!NextPage
    \/ Pages /\ PG!PreviousPage
    \/ Pages /\ \E s \in PG!Sorts : PG!ChangeSort(s)
    \/ Pages /\ \E r \in Rows, values \in PG!Values : PG!Insert(r, values)
    \/ Pages /\ \E r \in Rows : PG!Leave(r)
    \/ Pages /\ \E r \in Rows, rank \in Ranks, total \in Totals :
                   PG!Move(r, rank, total)
    \/ Edits /\ \E r \in Classified : TX!BeginClassification(r)
    \/ Edits /\ \E r \in Classified : TX!SinkMissing(r)
    \/ Edits /\ \E r \in Classified, named \in Slugs \cup {None}, severity \in {2, 3} :
                   TX!ProviderAnswers(r, named, severity)
    \/ Edits /\ \E r \in Classified : TX!CacheAnswers(r)
    \/ Edits /\ \E r \in Classified : TX!FallsBack(r)
    \/ Edits /\ \E r \in Classified : TX!StoreAnswer(r)
    \/ Edits /\ \E k \in Slugs : TX!CreateCategory(k)
    \/ Edits /\ \E k \in Slugs, status \in {"active", "retired"} :
                   TX!SetCategory(k, status)
    \/ Edits /\ \E k \in Keywords, term \in Terms, severity \in {1, 2},
                  named \in Slugs \cup {None} :
                   TX!CreateKeyword(k, term, severity, named)
    \/ Edits /\ \E k \in Keywords, rule \in TX!EditedRules : TX!UpdateKeyword(k, rule)

Spec == Init /\ [][Next]_vars

(* Whoever is assigned an Issue is qualified at the commit. *)
AssignedWhileQualified == SL!AssignedWhileQualified

(* Only requests that lock widely can deadlock. *)
NarrowRequestsNeverDeadlock == SL!NarrowRequestsNeverDeadlock

(* An untouched Issue is served exactly once by a scroll, in its place. *)
UntouchedServedOnce == PG!UntouchedServedOnce

(* No Report lands in a category its classification was not offered. *)
ClassifiedAsOffered == TX!ClassifiedAsOffered

(* One text, one set of rules, one answer of the keyword engine. *)
FallbackIsDeterministic == TX!FallbackIsDeterministic

=============================================================================
