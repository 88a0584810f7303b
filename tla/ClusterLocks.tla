---------------------------- MODULE ClusterLocks ----------------------------
(***************************************************************************)
(* cluster_report as several Celery workers run it concurrently: the       *)
(* Report row lock, the clustering rule read without a lock, the advisory  *)
(* locks on the geohash cells around the Report taken one by one, the      *)
(* search for a matching open Issue under its row lock, and the commit     *)
(* that publishes the result and releases every lock.  A worker may die    *)
(* anywhere before the commit, and a category may have no active rule when *)
(* its worker reads it; either way the database rolls back and the message *)
(* is spent without an Issue.                                              *)
(***************************************************************************)
EXTENDS Integers, FiniteSets

CONSTANTS
    Reports, Issues, Workers, None,
    Category, Position, CreatedAt, MaxTime,
    Rules,       \* [radius, window] of the rules an Admin may configure
    Width,       \* Width[x][radius]: the cell size chosen at position x
    Deliveries,  \* how many messages carry each Report
    MaxCrashes   \* bound on worker crashes

ASSUME ClusteringAssumption ==
    /\ Position \in [Reports -> Nat]
    /\ CreatedAt \in [Reports -> Nat]
    /\ MaxTime \in Nat /\ MaxCrashes \in Nat
    /\ Deliveries \in [Reports -> Nat]
    /\ Rules \subseteq [radius : Nat, window : Nat]
    /\ None \notin Reports \cup Issues \cup Workers \cup Rules

\* _geohash_precision: cells are at least one radius wide where the Report is.
ASSUME CellAssumption ==
    \A r \in Reports, ru \in Rules :
        /\ Width[Position[r]][ru.radius] \in Nat \ {0}
        /\ Width[Position[r]][ru.radius] >= ru.radius

Categories == {Category[r] : r \in Reports}

VARIABLES
    issueOf, founder, openIssues, openedAt, now,  \* the committed database
    setting,     \* the active ClusteringRule of each category, None without one
    pc,          \* how far each worker's transaction has come
    job,         \* the Report whose row the transaction has locked
    rule,        \* the rule the transaction read
    held,        \* its advisory locks
    choice,      \* the Issue it will attach to: row locked, or inserted
    insertedAt,  \* when it inserted that Issue
    crashes,     \* crashes so far
    failed,      \* how many messages of each Report were spent without an Issue
    grid         \* history: the cell size each Issue's founder was locked with

dbVars     == <<issueOf, founder, openIssues, openedAt, grid>>
workerVars == <<pc, job, rule, held, choice, insertedAt>>
vars       == <<dbVars, now, setting, workerVars, crashes, failed>>

Init ==
    /\ issueOf    = [r \in Reports |-> None]
    /\ founder    = [i \in Issues |-> None]
    /\ openIssues = {}
    /\ openedAt   = [i \in Issues |-> 0]
    /\ now        = 0
    /\ setting    \in [Categories -> Rules \cup {None}]
    /\ pc         = [w \in Workers |-> "idle"]
    /\ job        = [w \in Workers |-> None]
    /\ rule       = [w \in Workers |-> None]
    /\ held       = [w \in Workers |-> {}]
    /\ choice     = [w \in Workers |-> None]
    /\ insertedAt = [w \in Workers |-> 0]
    /\ crashes    = 0
    /\ failed     = [r \in Reports |-> 0]
    /\ grid       = [i \in Issues |-> 0]

(***************************************************************************)
(* The geohash neighbourhood: the cell of the position and the cells one   *)
(* cell size to either side.  The size is part of a key, as the precision  *)
(* is part of a geohash (its length).                                      *)
(***************************************************************************)
\* Mutation: only the Report's own cell is locked.
OwnCell(x, size) == {x \div size}

Cells(x, size) == {(x \div size) + d : d \in {-1, 0, 1}}

CellSize(r, ru) == Width[Position[r]][ru.radius]

LockKeys(r, ru) ==
    LET size == CellSize(r, ru)
    IN  {[category |-> Category[r], size |-> size, cell |-> c] :
            c \in Cells(Position[r], size)}

Needed(w) == LockKeys(job[w], rule[w]) \ held[w]

\* Mutation: the Report's own cell is locked first, then its neighbours.
NextKeyOwnFirst(w) ==
    LET own == {k \in Needed(w) : k.cell = Position[job[w]] \div k.size}
    IN  IF own # {} THEN CHOOSE k \in own : TRUE
                    ELSE CHOOSE k \in Needed(w) : TRUE

\* cells are locked in sorted order
NextKey(w) == CHOOSE k \in Needed(w) : \A other \in Needed(w) : k.cell <= other.cell

IsFree(key) == \A w \in Workers : key \notin held[w]

(***************************************************************************)
(* matching_open_issues                                                    *)
(***************************************************************************)
Distance(x, y) == IF x <= y THEN y - x ELSE x - y

Candidates(r, ru) ==
    {i \in openIssues :
        /\ Category[founder[i]] = Category[r]
        /\ Distance(Position[founder[i]], Position[r]) <= ru.radius
        /\ openedAt[i] >= CreatedAt[r] - ru.window}

\* nearest first, then oldest; the primary key breaks what ties remain
Preferred(r, i, j) ==
    LET di == Distance(Position[founder[i]], Position[r])
        dj == Distance(Position[founder[j]], Position[r])
    IN  di < dj \/ (di = dj /\ openedAt[i] <= openedAt[j])

\* Mutation: the Issue is selected without FOR UPDATE.
RowLockedNever(i) == \E w \in Workers : choice[w] = i /\ founder[i] = None

RowLocked(i) == \E w \in Workers : choice[w] = i

(***************************************************************************)
(* The steps of cluster_report                                             *)
(***************************************************************************)

\* The Report row lock makes a second delivery wait; when it gets the lock it
\* finds the Report attached and returns, which changes nothing.
ReportFree(r) == \A w \in Workers : job[w] # r

Claim(w, r) ==
    /\ pc[w] = "idle"
    /\ CreatedAt[r] <= now
    /\ ReportFree(r)
    /\ issueOf[r] = None
    /\ failed[r] < Deliveries[r]
    /\ pc' = [pc EXCEPT ![w] = "claimed"]
    /\ job' = [job EXCEPT ![w] = r]
    /\ UNCHANGED <<dbVars, now, setting, rule, held, choice, insertedAt, crashes, failed>>

\* active_clustering_rule
ActiveRule(w) == setting[Category[job[w]]]

ReadRule(w) ==
    /\ pc[w] = "claimed"
    /\ ActiveRule(w) # None
    /\ pc' = [pc EXCEPT ![w] = "locking"]
    /\ rule' = [rule EXCEPT ![w] = ActiveRule(w)]
    /\ UNCHANGED <<dbVars, now, setting, job, held, choice, insertedAt, crashes, failed>>

LockCell(w) ==
    /\ pc[w] = "locking"
    /\ Needed(w) # {}
    /\ IsFree(NextKey(w))
    /\ held' = [held EXCEPT ![w] = @ \cup {NextKey(w)}]
    /\ UNCHANGED <<dbVars, now, setting, pc, job, rule, choice, insertedAt, crashes, failed>>

\* The search runs after the last cell is locked.  It takes the row lock of
\* the Issue it returns, so it waits while another transaction has it.
ChooseIssue(w, i) ==
    LET r == job[w] IN
    /\ pc[w] = "locking"
    /\ Needed(w) = {}
    /\ i \in Candidates(r, rule[w])
    /\ \A j \in Candidates(r, rule[w]) : Preferred(r, i, j)
    /\ ~RowLocked(i)
    /\ pc' = [pc EXCEPT ![w] = "decided"]
    /\ choice' = [choice EXCEPT ![w] = i]
    /\ UNCHANGED <<dbVars, now, setting, job, rule, held, insertedAt, crashes, failed>>

\* The row that the next insertion creates: which fresh key it gets is immaterial.
FreshIssues == {i \in Issues : founder[i] = None /\ ~RowLocked(i)}
NextIssue == CHOOSE i \in FreshIssues : TRUE

ChooseNewIssue(w) ==
    /\ pc[w] = "locking"
    /\ Needed(w) = {}
    /\ Candidates(job[w], rule[w]) = {}
    /\ FreshIssues # {}
    /\ pc' = [pc EXCEPT ![w] = "decided"]
    /\ choice' = [choice EXCEPT ![w] = NextIssue]
    /\ insertedAt' = [insertedAt EXCEPT ![w] = now]
    /\ UNCHANGED <<dbVars, now, setting, job, rule, held, crashes, failed>>

\* The transaction ends, and with it every lock it holds.
Release(w) ==
    /\ pc' = [pc EXCEPT ![w] = "idle"]
    /\ job' = [job EXCEPT ![w] = None]
    /\ held' = [held EXCEPT ![w] = {}]
    /\ choice' = [choice EXCEPT ![w] = None]
    /\ rule' = [rule EXCEPT ![w] = None]
    /\ insertedAt' = [insertedAt EXCEPT ![w] = 0]

Commit(w) ==
    LET r == job[w]
        i == choice[w]
    IN
    /\ pc[w] = "decided"
    /\ issueOf' = [issueOf EXCEPT ![r] = i]
    /\ IF founder[i] = None
         THEN /\ founder' = [founder EXCEPT ![i] = r]
              /\ openIssues' = openIssues \cup {i}
              /\ openedAt' = [openedAt EXCEPT ![i] = insertedAt[w]]
              /\ grid' = [grid EXCEPT ![i] = CellSize(r, rule[w])]
         ELSE UNCHANGED <<founder, openIssues, openedAt, grid>>
    /\ Release(w)
    /\ UNCHANGED <<now, setting, crashes, failed>>

\* The transaction rolls back, and no message takes the place of this one.
Abandon(w) ==
    /\ failed' = [failed EXCEPT ![job[w]] = @ + 1]
    /\ Release(w)
    /\ UNCHANGED <<dbVars, now, setting>>

\* ClusteringRuleUnavailable leaves cluster_report and ends the task.
RuleMissing(w) ==
    /\ pc[w] = "claimed"
    /\ ActiveRule(w) = None
    /\ Abandon(w)
    /\ UNCHANGED crashes

\* The worker dies; the database rolls its transaction back.
Crash(w) ==
    /\ pc[w] # "idle"
    /\ crashes < MaxCrashes
    /\ crashes' = crashes + 1
    /\ Abandon(w)

(***************************************************************************)
(* Everybody else                                                          *)
(***************************************************************************)

\* An authority closes an Issue, which takes its row lock.
CloseIssue(i) ==
    /\ i \in openIssues
    /\ ~RowLocked(i)
    /\ openIssues' = openIssues \ {i}
    /\ UNCHANGED <<issueOf, founder, openedAt, grid, now, setting, workerVars, crashes, failed>>

\* create_clustering_rule and update_clustering_rule: a category without an
\* active rule gets one; an active one changes its radius or its window, or is
\* retired.  A second active rule of one category is refused.
AdjustRule(c, ru) ==
    /\ setting[c] # ru
    /\ setting' = [setting EXCEPT ![c] = ru]
    /\ UNCHANGED <<dbVars, now, workerVars, crashes, failed>>

Tick ==
    /\ now < MaxTime
    /\ now' = now + 1
    /\ UNCHANGED <<dbVars, setting, workerVars, crashes, failed>>

WorkerStep(w) ==
    \/ \E r \in Reports : Claim(w, r)
    \/ ReadRule(w)
    \/ RuleMissing(w)
    \/ LockCell(w)
    \/ \E i \in Issues : ChooseIssue(w, i)
    \/ ChooseNewIssue(w)
    \/ Commit(w)

Next ==
    \/ \E w \in Workers : WorkerStep(w)
    \/ \E w \in Workers : Crash(w)
    \/ \E i \in Issues : CloseIssue(i)
    \/ \E c \in Categories, ru \in Rules \cup {None} : AdjustRule(c, ru)
    \/ Tick

Spec == Init /\ [][Next]_vars

\* Workers keep running, and the clock reaches every Report's submission.
Fairness == WF_vars(Tick) /\ \A w \in Workers : WF_vars(WorkerStep(w))

FairSpec == Spec /\ Fairness

(***************************************************************************)
(* Properties                                                              *)
(***************************************************************************)
TypeOK ==
    /\ issueOf    \in [Reports -> Issues \cup {None}]
    /\ founder    \in [Issues -> Reports \cup {None}]
    /\ openIssues \subseteq {i \in Issues : founder[i] # None}
    /\ openedAt   \in [Issues -> Nat]
    /\ now \in Nat /\ crashes \in Nat
    /\ failed     \in [Reports -> Nat] /\ \A r \in Reports : failed[r] <= Deliveries[r]
    /\ grid       \in [Issues -> Nat]
    /\ setting    \in [Categories -> Rules \cup {None}]
    /\ pc         \in [Workers -> {"idle", "claimed", "locking", "decided"}]
    /\ job        \in [Workers -> Reports \cup {None}]
    /\ rule       \in [Workers -> Rules \cup {None}]
    /\ \A w \in Workers :
         IF pc[w] \in {"locking", "decided"}
           THEN held[w] \subseteq LockKeys(job[w], rule[w])
           ELSE held[w] = {}
    /\ choice     \in [Workers -> Issues \cup {None}]
    /\ insertedAt \in [Workers -> Nat]

\* i and j stand for one problem: the founder of each belongs into the other
\* under every rule an Admin may configure.
Belongs(i, j) ==
    /\ Category[founder[i]] = Category[founder[j]]
    /\ \A ru \in Rules : /\ Distance(Position[founder[i]], Position[founder[j]]) <= ru.radius
                         /\ openedAt[j] >= CreatedAt[founder[i]] - ru.window

Duplicates(i, j) == i # j /\ Belongs(i, j) /\ Belongs(j, i)

\* Architecture section 4.3 and the docstring of cluster_report: different
\* Reports that could match the same real-world Issue are serialized, so no
\* two open Issues stand for one problem.
NoDuplicateOpenIssues == \A i, j \in openIssues : ~Duplicates(i, j)

\* What the cell locks do guarantee: two open Issues of one problem have
\* founders that were locked with cells of different sizes, because the rule
\* changed between the two transactions or the size changes with the latitude.
OneIssuePerProblem ==
    \A i, j \in openIssues : Duplicates(i, j) => grid[i] # grid[j]

\* The clustering promise, kept by what the transactions have committed: no
\* lock, worker or delivery is visible in it (architecture section 4.3).
Promise == INSTANCE FindOrCreate WITH issueOf <- issueOf, founder <- founder,
               openIssues <- openIssues, openedAt <- openedAt, grid <- grid, now <- now

ImplementsFindOrCreate == Promise!Spec

\* Architecture section 12: no Report is left untriaged.  Every Report gets its
\* Issue unless each of its messages was spent on a worker that died or on a
\* category without an active rule: the row locks and the sorted advisory locks
\* never make all workers wait for each other, and a transaction that is rolled
\* back leaves nothing locked.
EveryReportClustered ==
    <>(\A r \in Reports : issueOf[r] # None \/ failed[r] = Deliveries[r])

=============================================================================
