-------------------------- MODULE ClusterLocksProofs --------------------------
(* Why the advisory locks keep clustering serial, for every number of workers *)
(* and Reports: two Reports that may match and are located by cells of one    *)
(* size share a cell, whoever has decided holds all its cells, and so nothing *)
(* that matches is published on the same grid in between.  The run latitude   *)
(* shows what happens between two grids.                                      *)
EXTENDS ClusterLocks, FiniteSetTheorems, WellFoundedInduction, TLAPS

LEMMA DivisionWithRest ==
    ASSUME NEW x \in Nat, NEW s \in Nat \ {0}
    PROVE  /\ x \div s \in Nat
           /\ s * (x \div s) <= x /\ x < s * (x \div s) + s
  OBVIOUS

LEMMA NeighbouringCells ==
    ASSUME NEW x \in Nat, NEW y \in Nat, NEW s \in Nat \ {0}, x <= y, y - x <= s
    PROVE  y \div s - x \div s \in {0, 1}
<1> DEFINE a == x \div s
           b == y \div s
<1>1. /\ a \in Nat /\ s * a <= x /\ x < s * a + s
      /\ b \in Nat /\ s * b <= y /\ y < s * b + s
  BY DivisionWithRest
<1> HIDE DEF a, b
<1>2. ~(b >= a + 2)
  <2>1. SUFFICES ASSUME b >= a + 2 PROVE FALSE
    OBVIOUS
  <2>2. s * b >= s * (a + 2)
    BY <1>1, <2>1
  <2>3. s * (a + 2) = s * a + s + s
    BY <1>1
  <2> QED
    BY <1>1, <2>2, <2>3
<1>3. ~(b < a)
  <2>1. SUFFICES ASSUME a >= b + 1 PROVE FALSE
    BY <1>1
  <2>2. s * a >= s * (b + 1)
    BY <1>1, <2>1
  <2>3. s * (b + 1) = s * b + s
    BY <1>1
  <2> QED
    BY <1>1, <2>2, <2>3
<1>4. b - a \in {0, 1}
  BY <1>1, <1>2, <1>3
<1> QED
  BY <1>4 DEF a, b

LEMMA ConstantsTyped ==
    /\ Position \in [Reports -> Nat] /\ CreatedAt \in [Reports -> Nat]
    /\ MaxTime \in Nat /\ MaxCrashes \in Nat /\ Deliveries \in [Reports -> Nat]
    /\ None \notin Reports /\ None \notin Issues /\ None \notin Rules
    /\ \A ru \in Rules : ru.radius \in Nat /\ ru.window \in Nat
    /\ \A r \in Reports, ru \in Rules :
           CellSize(r, ru) \in Nat \ {0} /\ CellSize(r, ru) >= ru.radius
    /\ \A r \in Reports : Category[r] \in Categories
  BY ClusteringAssumption, CellAssumption DEF CellSize, Categories

(* Two Reports on one grid that one of the two rules brings together share a  *)
(* cell.                                                                      *)
LEMMA SharedCell ==
    ASSUME NEW r \in Reports, NEW s \in Reports, NEW a \in Rules, NEW b \in Rules,
           CellSize(r, a) = CellSize(s, b),
           Category[r] = Category[s],
           Distance(Position[r], Position[s]) <= a.radius
    PROVE  LockKeys(r, a) \cap LockKeys(s, b) # {}
<1> DEFINE size == CellSize(r, a)
           x == Position[r]
           y == Position[s]
           key(c) == [category |-> Category[r], size |-> size, cell |-> c]
<1>1. size \in Nat \ {0} /\ x \in Nat /\ y \in Nat /\ a.radius \in Nat /\ a.radius <= size
  BY ConstantsTyped
<1>2. size = CellSize(s, b)
  OBVIOUS
<1>3. x \div size \in Nat /\ y \div size \in Nat
  BY <1>1, DivisionWithRest
<1>4. (x \div size) - (y \div size) \in {-1, 0, 1}
  <2>1. CASE x <= y
    <3>1. y - x <= size
      BY <1>1, <2>1 DEF Distance
    <3>2. (y \div size) - (x \div size) \in {0, 1}
      BY <1>1, <2>1, <3>1, NeighbouringCells
    <3> QED
      BY <1>3, <3>2
  <2>2. CASE y <= x
    <3>1. x - y <= size
      BY <1>1, <2>2 DEF Distance
    <3>2. (x \div size) - (y \div size) \in {0, 1}
      BY <1>1, <2>2, <3>1, NeighbouringCells
    <3> QED
      BY <3>2
  <2> QED
    BY <1>1, <2>1, <2>2
<1>5. x \div size \in Cells(x, size) /\ x \div size \in Cells(y, size)
  <2>1. x \div size = (x \div size) + 0
    BY <1>3
  <2>2. x \div size = (y \div size) + ((x \div size) - (y \div size))
    BY <1>3
  <2> QED
    BY <1>4, <2>1, <2>2 DEF Cells
<1>6. key(x \div size) \in LockKeys(r, a)
  BY <1>5 DEF LockKeys
<1>7. key(x \div size) \in LockKeys(s, b)
  BY <1>2, <1>5 DEF LockKeys
<1> QED
  BY <1>6, <1>7

(* Of the cells a worker still needs there is a least one. *)
LEMMA NextKeyNeeded ==
    ASSUME NEW w \in Workers, job[w] \in Reports, rule[w] \in Rules, Needed(w) # {}
    PROVE  NextKey(w) \in Needed(w) /\ \A n \in Needed(w) : NextKey(w).cell <= n.cell
<1> DEFINE size == CellSize(job[w], rule[w])
           c == Position[job[w]] \div size
<1>1. c \in Nat
  BY ConstantsTyped, DivisionWithRest
<1>2. \A k \in Needed(w) : /\ k.cell \in {c - 1, c, c + 1}
  BY <1>1 DEF Needed, LockKeys, Cells
<1>3. \E k \in Needed(w) : \A other \in Needed(w) : k.cell <= other.cell
  <2>1. CASE \E k \in Needed(w) : k.cell = c - 1
    BY <1>1, <1>2, <2>1
  <2>2. CASE (\A k \in Needed(w) : k.cell # c - 1) /\ \E k \in Needed(w) : k.cell = c
    BY <1>1, <1>2, <2>2
  <2>3. CASE \A k \in Needed(w) : k.cell = c + 1
    BY <1>1, <2>3
  <2> QED
    BY <1>2, <2>1, <2>2, <2>3
<1> QED
  BY <1>3 DEF NextKey

-----------------------------------------------------------------------------
(* What a transaction knows while it runs. *)
WorkersTyped ==
    /\ pc \in [Workers -> {"idle", "claimed", "locking", "decided"}]
    /\ job \in [Workers -> Reports \cup {None}]
    /\ rule \in [Workers -> Rules \cup {None}]
    /\ choice \in [Workers -> Issues \cup {None}]
    /\ insertedAt \in [Workers -> Nat]
    /\ DOMAIN held = Workers
    /\ \A w \in Workers :
           /\ pc[w] # "idle" => job[w] \in Reports
           /\ pc[w] \in {"locking", "decided"} =>
                  rule[w] \in Rules /\ held[w] \subseteq LockKeys(job[w], rule[w])
           /\ pc[w] \in {"idle", "claimed"} => held[w] = {}
           /\ pc[w] = "decided" <=> choice[w] # None

DatabaseTyped ==
    /\ issueOf \in [Reports -> Issues \cup {None}]
    /\ founder \in [Issues -> Reports \cup {None}]
    /\ openIssues \subseteq {i \in Issues : founder[i] # None}
    /\ openedAt \in [Issues -> Nat]
    /\ grid \in [Issues -> Nat]
    /\ now \in Nat /\ crashes \in Nat
    /\ failed \in [Reports -> Nat] /\ \A r \in Reports : failed[r] <= Deliveries[r]
    /\ setting \in [Categories -> Rules \cup {None}]

(* Locks exclude each other: cells, rows of Reports, rows of Issues. *)
Exclusive ==
    \A v, w \in Workers : v # w =>
        /\ held[v] \cap held[w] = {}
        /\ job[v] = job[w] => job[v] = None
        /\ choice[v] = choice[w] => choice[v] = None

(* What a transaction decided is still true when it commits: the Issue that   *)
(* it found still matches, because it has locked the row; and if it found     *)
(* none, only Issues founded on another grid have come to match.              *)
Decided(w) ==
    /\ LockKeys(job[w], rule[w]) \subseteq held[w]
    /\ IF founder[choice[w]] = None THEN \A i \in Candidates(job[w], rule[w]) :
                                               grid[i] # CellSize(job[w], rule[w])
                                    ELSE choice[w] \in Candidates(job[w], rule[w])

Consistent ==
    \A w \in Workers : /\ insertedAt[w] <= now
                       /\ pc[w] # "idle" => /\ issueOf[job[w]] = None
                                            /\ failed[job[w]] < Deliveries[job[w]]
                       /\ pc[w] = "decided" => Decided(w)

IInv == DatabaseTyped /\ WorkersTyped /\ Exclusive /\ Consistent

LEMMA TypesHold == DatabaseTyped /\ WorkersTyped => TypeOK
  BY DEF DatabaseTyped, WorkersTyped, TypeOK

LEMMA Initially == Init => IInv
  BY ConstantsTyped
  DEF Init, IInv, DatabaseTyped, WorkersTyped, Exclusive, Consistent

(* Between its search and its commit, nobody publishes an Issue that a        *)
(* deciding worker on the same grid would have found: they would share a cell.*)
LEMMA OthersDoNotMatch ==
    ASSUME IInv, NEW v \in Workers, NEW w \in Workers, v # w,
           pc[v] = "decided", pc[w] = "decided",
           CellSize(job[v], rule[v]) = CellSize(job[w], rule[w]),
           Category[job[v]] = Category[job[w]]
    PROVE  ~(Distance(Position[job[v]], Position[job[w]]) <= rule[w].radius)
<1> SUFFICES ASSUME Distance(Position[job[v]], Position[job[w]]) <= rule[w].radius PROVE FALSE
  OBVIOUS
<1>1. /\ job[v] \in Reports /\ job[w] \in Reports /\ job[v] # job[w]
      /\ rule[v] \in Rules /\ rule[w] \in Rules
  BY ConstantsTyped DEF IInv, WorkersTyped, Exclusive
<1>2. Distance(Position[job[w]], Position[job[v]]) <= rule[w].radius
  BY <1>1, ConstantsTyped DEF Distance
<1>3. LockKeys(job[w], rule[w]) \cap LockKeys(job[v], rule[v]) # {}
  BY <1>1, <1>2, SharedCell
<1>4. LockKeys(job[w], rule[w]) \subseteq held[w] /\ LockKeys(job[v], rule[v]) \subseteq held[v]
  BY DEF IInv, Consistent, Decided
<1> QED
  BY <1>3, <1>4 DEF IInv, Exclusive

(* A step that ends no transaction: claim, rule, cells, search. *)
LEMMA ClaimPreserved ==
    ASSUME IInv, NEW w \in Workers, NEW r \in Reports, Claim(w, r) PROVE IInv'
<1>1. DatabaseTyped'
  BY DEF IInv, DatabaseTyped, Claim, dbVars
<1>2. WorkersTyped'
  BY DEF IInv, WorkersTyped, Claim
<1>3. Exclusive'
  BY DEF IInv, WorkersTyped, Exclusive, Claim, ReportFree
<1>4. Consistent'
  BY DEF IInv, WorkersTyped, Consistent, Decided, Candidates, Claim, dbVars
<1> QED
  BY <1>1, <1>2, <1>3, <1>4 DEF IInv

LEMMA RulePreserved ==
    ASSUME IInv, NEW w \in Workers, ReadRule(w) PROVE IInv'
<1>1. DatabaseTyped'
  BY DEF IInv, DatabaseTyped, ReadRule, dbVars
<1>2. WorkersTyped'
  BY ConstantsTyped DEF IInv, DatabaseTyped, WorkersTyped, ReadRule, ActiveRule
<1>3. Exclusive'
  BY DEF IInv, WorkersTyped, Exclusive, ReadRule
<1>4. Consistent'
  BY DEF IInv, WorkersTyped, Consistent, Decided, Candidates, ReadRule, dbVars
<1> QED
  BY <1>1, <1>2, <1>3, <1>4 DEF IInv

LEMMA CellPreserved ==
    ASSUME IInv, NEW w \in Workers, LockCell(w) PROVE IInv'
<1>1. NextKey(w) \in LockKeys(job[w], rule[w])
  BY NextKeyNeeded DEF IInv, WorkersTyped, LockCell, Needed
<1>2. DatabaseTyped'
  BY DEF IInv, DatabaseTyped, LockCell, dbVars
<1>3. /\ pc[w] = "locking"
      /\ UNCHANGED <<pc, job, rule, choice, insertedAt, now, failed, dbVars>>
      /\ DOMAIN held' = Workers
      /\ held'[w] = held[w] \cup {NextKey(w)}
      /\ \A v \in Workers : v # w => held'[v] = held[v]
      /\ \A v \in Workers : NextKey(w) \notin held[v]
  BY DEF IInv, WorkersTyped, LockCell, IsFree
<1>4. WorkersTyped'
  BY <1>1, <1>3 DEF IInv, WorkersTyped, LockKeys
<1>5. Exclusive'
  BY <1>3 DEF IInv, Exclusive
<1>6. Consistent'
  BY <1>3 DEF IInv, Consistent, Decided, Candidates, dbVars, LockKeys
<1> QED
  BY <1>2, <1>4, <1>5, <1>6 DEF IInv

LEMMA ChoicePreserved ==
    ASSUME IInv, NEW w \in Workers, NEW i \in Issues, ChooseIssue(w, i) PROVE IInv'
<1>1. DatabaseTyped'
  BY DEF IInv, DatabaseTyped, ChooseIssue, dbVars
<1>2. WorkersTyped'
  BY ConstantsTyped DEF IInv, WorkersTyped, ChooseIssue
<1>3. Exclusive'
  BY DEF IInv, WorkersTyped, Exclusive, ChooseIssue, RowLocked
<1>4. Consistent'
  <2>1. UNCHANGED <<dbVars, now, job, rule, held, insertedAt, failed>> /\ \A v \in Workers :
            v # w => pc'[v] = pc[v] /\ choice'[v] = choice[v]
    BY DEF IInv, WorkersTyped, ChooseIssue
  <2>2. /\ pc[w] = "locking" /\ choice'[w] = i
        /\ i \in Candidates(job[w], rule[w]) /\ Needed(w) = {}
    BY DEF IInv, WorkersTyped, ChooseIssue
  <2>3. ASSUME NEW v \in Workers, v # w, pc'[v] = "decided"
        PROVE  Decided(v)'
    BY <2>1, <2>3 DEF IInv, Consistent, Decided, Candidates, LockKeys, dbVars
  <2>4. Decided(w)'
    BY <2>1, <2>2 DEF IInv, DatabaseTyped, Decided, Candidates, LockKeys, Needed, dbVars
  <2>5. \A v \in Workers : /\ insertedAt'[v] <= now'
                           /\ pc'[v] # "idle" => /\ issueOf'[job'[v]] = None
                                                /\ failed'[job'[v]] < Deliveries[job'[v]]
    BY <2>1, <2>2 DEF IInv, Consistent, dbVars
  <2> QED
    BY <2>3, <2>4, <2>5 DEF Consistent
<1> QED
  BY <1>1, <1>2, <1>3, <1>4 DEF IInv

LEMMA NewIssuePreserved ==
    ASSUME IInv, NEW w \in Workers, ChooseNewIssue(w) PROVE IInv'
<1>0. /\ NextIssue \in Issues /\ founder[NextIssue] = None /\ ~RowLocked(NextIssue)
  BY DEF ChooseNewIssue, NextIssue, FreshIssues
<1>1. DatabaseTyped'
  BY DEF IInv, DatabaseTyped, ChooseNewIssue, dbVars
<1>2. WorkersTyped'
  BY <1>0, ConstantsTyped DEF IInv, DatabaseTyped, WorkersTyped, ChooseNewIssue
<1>3. Exclusive'
  BY <1>0 DEF IInv, WorkersTyped, Exclusive, ChooseNewIssue, RowLocked
<1>4. Consistent'
  <2>1. UNCHANGED <<dbVars, now, job, rule, held, failed>> /\ \A v \in Workers :
            /\ v # w => /\ pc'[v] = pc[v] /\ choice'[v] = choice[v]
                       /\ insertedAt'[v] = insertedAt[v]
    BY DEF IInv, WorkersTyped, ChooseNewIssue
  <2>2. /\ pc[w] = "locking" /\ choice'[w] = NextIssue /\ insertedAt'[w] = now
        /\ Candidates(job[w], rule[w]) = {} /\ Needed(w) = {}
    BY DEF IInv, WorkersTyped, ChooseNewIssue
  <2>3. ASSUME NEW v \in Workers, v # w, pc'[v] = "decided"
        PROVE  Decided(v)'
    BY <2>1, <2>3 DEF IInv, Consistent, Decided, Candidates, LockKeys, dbVars
  <2>4. Decided(w)'
    BY <1>0, <2>1, <2>2 DEF IInv, DatabaseTyped, Decided, Candidates, LockKeys, Needed, dbVars
  <2>5. \A v \in Workers : /\ insertedAt'[v] <= now'
                           /\ pc'[v] # "idle" => /\ issueOf'[job'[v]] = None
                                                /\ failed'[job'[v]] < Deliveries[job'[v]]
    BY <2>1, <2>2 DEF IInv, DatabaseTyped, Consistent, dbVars
  <2> QED
    BY <2>3, <2>4, <2>5 DEF Consistent
<1> QED
  BY <1>1, <1>2, <1>3, <1>4 DEF IInv

(* A worker that ends its transaction leaves no lock and knows nothing. *)
LEMMA Released ==
    ASSUME IInv, NEW w \in Workers, Release(w)
    PROVE  WorkersTyped' /\ Exclusive'
<1>1. \A v \in Workers : v # w => /\ pc'[v] = pc[v] /\ job'[v] = job[v] /\ rule'[v] = rule[v]
                                  /\ held'[v] = held[v] /\ choice'[v] = choice[v]
                                  /\ insertedAt'[v] = insertedAt[v]
  BY DEF IInv, WorkersTyped, Release
<1>2. /\ pc'[w] = "idle" /\ job'[w] = None /\ rule'[w] = None /\ held'[w] = {}
      /\ choice'[w] = None /\ insertedAt'[w] = 0
  BY DEF IInv, WorkersTyped, Release
<1>3. /\ pc' \in [Workers -> {"idle", "claimed", "locking", "decided"}]
      /\ job' \in [Workers -> Reports \cup {None}]
      /\ rule' \in [Workers -> Rules \cup {None}]
      /\ choice' \in [Workers -> Issues \cup {None}]
      /\ insertedAt' \in [Workers -> Nat]
      /\ DOMAIN held' = Workers
  BY DEF IInv, WorkersTyped, Release
<1>4. WorkersTyped'
  BY <1>1, <1>2, <1>3 DEF IInv, WorkersTyped, LockKeys
<1>5. Exclusive'
  BY <1>1, <1>2 DEF IInv, Exclusive
<1> QED
  BY <1>4, <1>5

(* A message spent without an Issue leaves the database as it was. *)
LEMMA AbandonPreserved ==
    ASSUME IInv, NEW w \in Workers, pc[w] # "idle", Abandon(w), crashes' \in Nat PROVE IInv'
<1>1. /\ job[w] \in Reports /\ failed[job[w]] < Deliveries[job[w]]
      /\ Deliveries[job[w]] \in Nat /\ failed[job[w]] \in Nat
      /\ failed' = [failed EXCEPT ![job[w]] = failed[job[w]] + 1]
  BY ConstantsTyped DEF IInv, DatabaseTyped, WorkersTyped, Consistent, Abandon
<1>2. DatabaseTyped'
  <2>1. failed' \in [Reports -> Nat] /\ \A r \in Reports : failed'[r] <= Deliveries[r]
    BY <1>1 DEF IInv, DatabaseTyped
  <2> QED
    BY <2>1 DEF IInv, DatabaseTyped, Abandon, dbVars
<1>3. WorkersTyped' /\ Exclusive'
  BY Released DEF Abandon
<1>4. Consistent'
  <2>1. UNCHANGED <<dbVars, now>> /\ pc'[w] = "idle" /\ insertedAt'[w] = 0 /\ now \in Nat
    BY DEF IInv, DatabaseTyped, WorkersTyped, Abandon, Release
  <2>2. \A v \in Workers : v # w =>
            /\ pc'[v] = pc[v] /\ job'[v] = job[v] /\ rule'[v] = rule[v]
            /\ held'[v] = held[v] /\ choice'[v] = choice[v] /\ insertedAt'[v] = insertedAt[v]
    BY DEF IInv, WorkersTyped, Abandon, Release
  <2>3. ASSUME NEW v \in Workers, pc'[v] = "decided" PROVE Decided(v)'
    BY <2>1, <2>2, <2>3 DEF IInv, Consistent, Decided, Candidates, LockKeys, CellSize, dbVars
  <2>4. ASSUME NEW v \in Workers, v # w, pc[v] # "idle" PROVE failed'[job[v]] = failed[job[v]]
    <3>1. job[v] \in Reports /\ job[v] # job[w]
      BY <1>1, <2>4, ConstantsTyped DEF IInv, WorkersTyped, Exclusive
    <3> QED
      BY <1>1, <3>1 DEF IInv, DatabaseTyped
  <2>5. ASSUME NEW v \in Workers, v # w
        PROVE  /\ insertedAt'[v] <= now'
               /\ pc'[v] # "idle" => /\ issueOf'[job'[v]] = None
                                    /\ failed'[job'[v]] < Deliveries[job'[v]]
    BY <2>1, <2>2, <2>4, <2>5 DEF IInv, Consistent, dbVars
  <2> QED
    BY <2>1, <2>3, <2>5 DEF Consistent
<1> QED
  BY <1>2, <1>3, <1>4 DEF IInv

LEMMA RuleMissingPreserved ==
    ASSUME IInv, NEW w \in Workers, RuleMissing(w) PROVE IInv'
  BY AbandonPreserved DEF RuleMissing, IInv, DatabaseTyped

LEMMA CrashPreserved ==
    ASSUME IInv, NEW w \in Workers, Crash(w) PROVE IInv'
  BY AbandonPreserved DEF Crash, IInv, DatabaseTyped

LEMMA OthersPreserved ==
    ASSUME IInv, \/ \E i \in Issues : CloseIssue(i)
                 \/ \E c \in Categories, ru \in Rules \cup {None} : AdjustRule(c, ru)
                 \/ Tick \/ UNCHANGED vars
    PROVE  IInv'
<1>1. ASSUME NEW i \in Issues, CloseIssue(i) PROVE IInv'
  <2>1. DatabaseTyped'
    BY <1>1 DEF IInv, DatabaseTyped, CloseIssue
  <2>2. WorkersTyped' /\ Exclusive'
    BY <1>1 DEF IInv, WorkersTyped, Exclusive, LockKeys, CloseIssue, workerVars
  <2>3. ASSUME NEW w \in Workers, pc[w] = "decided" PROVE Decided(w)'
    <3>1. choice[w] # i
      BY <1>1 DEF CloseIssue, RowLocked
    <3> QED
      BY <1>1, <2>3, <3>1 DEF IInv, Consistent, Decided, Candidates, LockKeys,
                              CloseIssue, workerVars
  <2>4. Consistent'
    BY <1>1, <2>3 DEF IInv, Consistent, CloseIssue, workerVars
  <2> QED
    BY <2>1, <2>2, <2>4 DEF IInv
<1>2. ASSUME UNCHANGED <<dbVars, workerVars, crashes, failed>>, now' \in Nat, now' >= now,
             setting' \in [Categories -> Rules \cup {None}]
      PROVE  IInv'
  <2>1. DatabaseTyped' /\ WorkersTyped' /\ Exclusive'
    BY <1>2 DEF IInv, DatabaseTyped, WorkersTyped, Exclusive, LockKeys, dbVars, workerVars
  <2>2. ASSUME NEW w \in Workers, pc[w] = "decided" PROVE Decided(w)'
    BY <1>2, <2>2 DEF IInv, Consistent, Decided, Candidates, LockKeys, dbVars, workerVars
  <2>3. ASSUME NEW w \in Workers PROVE insertedAt'[w] <= now'
    <3>1. insertedAt[w] \in Nat /\ now \in Nat /\ insertedAt[w] <= now
      BY DEF IInv, DatabaseTyped, WorkersTyped, Consistent
    <3> QED
      BY <1>2, <3>1 DEF workerVars
  <2>4. Consistent'
    BY <1>2, <2>2, <2>3 DEF IInv, Consistent, dbVars, workerVars
  <2> QED
    BY <2>1, <2>4 DEF IInv
<1>3. now \in Nat /\ setting \in [Categories -> Rules \cup {None}]
  BY DEF IInv, DatabaseTyped
<1>4. ASSUME NEW c \in Categories, NEW ru \in Rules \cup {None}, AdjustRule(c, ru) PROVE IInv'
  BY <1>2, <1>3, <1>4 DEF AdjustRule
<1>5. CASE Tick
  BY <1>2, <1>3, <1>5 DEF Tick
<1>6. CASE UNCHANGED vars
  BY <1>2, <1>3, <1>6 DEF vars
<1> QED
  BY <1>1, <1>4, <1>5, <1>6

(* The commit publishes what was decided; what the others have decided stays  *)
(* true, because a worker that would have found the new Issue shares a cell   *)
(* with the one that commits.                                                 *)
LEMMA CommitPreserved ==
    ASSUME IInv, NEW w \in Workers, Commit(w) PROVE IInv'
<1> DEFINE r == job[w]
           i == choice[w]
<1>1. /\ pc[w] = "decided" /\ r \in Reports /\ i \in Issues /\ i # None
      /\ Decided(w) /\ insertedAt[w] \in Nat /\ rule[w] \in Rules
  BY DEF IInv, WorkersTyped, Consistent, Commit
<1>2. WorkersTyped' /\ Exclusive'
  BY Released DEF Commit
<1>3. DatabaseTyped'
  <2>1. issueOf' \in [Reports -> Issues \cup {None}]
    BY <1>1 DEF IInv, DatabaseTyped, Commit
  <2>2. CASE founder[i] = None
    <3>1. /\ founder' = [founder EXCEPT ![i] = r]
          /\ openIssues' = openIssues \cup {i}
          /\ openedAt' = [openedAt EXCEPT ![i] = insertedAt[w]]
          /\ grid' = [grid EXCEPT ![i] = CellSize(r, rule[w])]
          /\ UNCHANGED <<now, setting, crashes, failed>>
      BY <2>2 DEF Commit
    <3>2. /\ founder' \in [Issues -> Reports \cup {None}] /\ openedAt' \in [Issues -> Nat]
          /\ grid' \in [Issues -> Nat]
      BY <1>1, <3>1, ConstantsTyped DEF IInv, DatabaseTyped
    <3>3. openIssues' \subseteq {j \in Issues : founder'[j] # None}
      BY <1>1, <3>1, ConstantsTyped DEF IInv, DatabaseTyped
    <3> QED
      BY <2>1, <3>1, <3>2, <3>3 DEF IInv, DatabaseTyped
  <2>3. CASE founder[i] # None
    BY <1>1, <2>1, <2>3 DEF IInv, DatabaseTyped, Commit
  <2> QED
    BY <2>2, <2>3
<1>4. /\ pc'[w] = "idle" /\ insertedAt'[w] = 0 /\ now \in Nat /\ now' = now
      /\ \A v \in Workers : v # w =>
            /\ pc'[v] = pc[v] /\ job'[v] = job[v] /\ rule'[v] = rule[v]
            /\ held'[v] = held[v] /\ choice'[v] = choice[v] /\ insertedAt'[v] = insertedAt[v]
  BY DEF IInv, DatabaseTyped, WorkersTyped, Commit, Release
<1>5. ASSUME NEW v \in Workers, v # w, pc[v] # "idle"
      PROVE  issueOf'[job[v]] = None /\ failed'[job[v]] < Deliveries[job[v]]
  <2>1. job[v] \in Reports /\ job[v] # r
    BY <1>1, <1>5, ConstantsTyped DEF IInv, WorkersTyped, Exclusive
  <2> QED
    BY <1>5, <2>1 DEF IInv, DatabaseTyped, Consistent, Commit
<1>6. ASSUME NEW v \in Workers, v # w, pc[v] = "decided"
      PROVE  Decided(v)'
  <2>1. /\ choice[v] \in Issues /\ choice[v] # i /\ job[v] \in Reports /\ Decided(v)
    BY <1>1, <1>6 DEF IInv, WorkersTyped, Exclusive, Consistent
  <2>2. CASE founder[i] # None
    BY <1>4, <1>6, <2>1, <2>2 DEF Commit, Decided, Candidates, LockKeys
  <2>3. CASE founder[i] = None
    <3>1. /\ founder' = [founder EXCEPT ![i] = r]
          /\ openIssues' = openIssues \cup {i}
          /\ openedAt' = [openedAt EXCEPT ![i] = insertedAt[w]]
          /\ grid' = [grid EXCEPT ![i] = CellSize(r, rule[w])]
      BY <2>3 DEF Commit
    <3>2. i \notin openIssues
      BY <2>3 DEF IInv, DatabaseTyped
    <3>3. \A j \in openIssues : /\ j # i /\ founder'[j] = founder[j]
                                /\ openedAt'[j] = openedAt[j] /\ grid'[j] = grid[j]
      BY <3>1, <3>2 DEF IInv, DatabaseTyped
    <3>4. /\ founder'[i] = r /\ founder'[choice[v]] = founder[choice[v]]
          /\ grid'[i] = CellSize(r, rule[w])
      BY <1>1, <2>1, <3>1 DEF IInv, DatabaseTyped
    <3>5. /\ Category[r] = Category[job[v]]
          /\ Distance(Position[r], Position[job[v]]) <= rule[v].radius
          => grid'[i] # CellSize(job[v], rule[v])
      BY <1>1, <1>6, <3>4, OthersDoNotMatch
    <3>6. Candidates(job[v], rule[v]) \subseteq Candidates(job[v], rule[v])'
      BY <1>4, <1>6, <3>1, <3>3 DEF Candidates
    <3>7. ASSUME NEW j \in Candidates(job[v], rule[v])', j \notin Candidates(job[v], rule[v])
          PROVE  grid'[j] # CellSize(job[v], rule[v])
      <4>1. j = i
        BY <1>4, <1>6, <3>1, <3>3, <3>7 DEF Candidates
      <4> QED
        BY <1>4, <1>6, <3>4, <3>5, <3>7, <4>1 DEF Candidates
    <3>8. \A j \in Candidates(job[v], rule[v]) : grid'[j] = grid[j]
      BY <3>3 DEF Candidates
    <3> QED
      BY <1>4, <1>6, <2>1, <3>4, <3>6, <3>7, <3>8 DEF Decided, LockKeys, CellSize
  <2> QED
    BY <2>2, <2>3
<1>7. Consistent'
  BY <1>4, <1>5, <1>6 DEF IInv, Consistent
<1> QED
  BY <1>2, <1>3, <1>7 DEF IInv

LEMMA Preserved == IInv /\ [Next]_vars => IInv'
<1> SUFFICES ASSUME IInv, [Next]_vars PROVE IInv'
  OBVIOUS
<1>1. ASSUME NEW w \in Workers, WorkerStep(w) PROVE IInv'
  BY <1>1, ClaimPreserved, RulePreserved, CellPreserved, ChoicePreserved,
     NewIssuePreserved, CommitPreserved, RuleMissingPreserved DEF WorkerStep
<1>2. ASSUME NEW w \in Workers, Crash(w) PROVE IInv'
  BY <1>2, CrashPreserved
<1> QED
  BY <1>1, <1>2, OthersPreserved DEF Next

(* The inductive invariant of the clustering transactions: types, exclusive   *)
(* locks, and decisions that stay true until they are committed.              *)
THEOREM LocksCorrect == Spec => []IInv
<1> QED
  BY Initially, Preserved, PTL DEF Spec

(* Every variable of the clustering transactions keeps its type. *)
THEOREM TypesCorrect == Spec => []TypeOK
<1>1. IInv => TypeOK
  BY TypesHold DEF IInv
<1> QED
  BY <1>1, LocksCorrect, PTL

(* The docstring of cluster_report: repeated delivery is idempotent.  Whatever*)
(* the cells are, a Report gets one Issue, one that it founded or that was    *)
(* open and matched it at the commit, and keeps it.                           *)
AttachedOnce ==
    [][\A r \in Reports :
          issueOf'[r] # issueOf[r] =>
              /\ issueOf[r] = None /\ issueOf'[r] \in openIssues'
              /\ \/ founder[issueOf'[r]] = None /\ founder'[issueOf'[r]] = r
                 \/ \E ru \in Rules : issueOf'[r] \in Candidates(r, ru)]_vars

THEOREM AttachedOnceCorrect == Spec => AttachedOnce
<1>1. ASSUME IInv, NEW r \in Reports, NEW w \in Workers, Commit(w), issueOf'[r] # issueOf[r]
      PROVE  /\ issueOf[r] = None /\ issueOf'[r] \in openIssues'
             /\ \/ founder[issueOf'[r]] = None /\ founder'[issueOf'[r]] = r
                \/ \E ru \in Rules : issueOf'[r] \in Candidates(r, ru)
  <2>1. r = job[w] /\ issueOf'[r] = choice[w] /\ issueOf[r] = None
    BY <1>1 DEF IInv, DatabaseTyped, WorkersTyped, Consistent, Commit
  <2>2. choice[w] \in Issues /\ rule[w] \in Rules /\ Decided(w)
    BY <1>1 DEF IInv, WorkersTyped, Consistent, Commit
  <2>3. CASE founder[choice[w]] = None
    <3>1. founder' = [founder EXCEPT ![choice[w]] = r] /\ choice[w] \in openIssues'
      BY <1>1, <2>1, <2>3 DEF Commit
    <3> QED
      BY <1>1, <2>1, <2>2, <2>3, <3>1 DEF IInv, DatabaseTyped
  <2>4. CASE founder[choice[w]] # None
    BY <1>1, <2>1, <2>2, <2>4 DEF Commit, Decided, Candidates
  <2> QED
    BY <2>3, <2>4
<1>2. ASSUME \A w \in Workers : ~Commit(w), [Next]_vars PROVE UNCHANGED issueOf
  BY <1>2 DEF Next, WorkerStep, Claim, ReadRule, RuleMissing, LockCell, ChooseIssue, ChooseNewIssue,
              Crash, Abandon, CloseIssue, AdjustRule, Tick, vars, dbVars
<1>3. IInv /\ [Next]_vars =>
        \A r \in Reports :
          issueOf'[r] # issueOf[r] =>
              /\ issueOf[r] = None /\ issueOf'[r] \in openIssues'
              /\ \/ founder[issueOf'[r]] = None /\ founder'[issueOf'[r]] = r
                 \/ \E ru \in Rules : issueOf'[r] \in Candidates(r, ru)
  BY <1>1, <1>2
<1> QED
  BY <1>3, LocksCorrect, PTL DEF Spec, AttachedOnce

-----------------------------------------------------------------------------
(* _neighboring_geohashes returns its cells sorted: a worker that waits for a *)
(* cell holds smaller ones only.                                              *)
Sorted ==
    \A w \in Workers : pc[w] = "locking" =>
        \A h \in held[w], n \in Needed(w) : h.cell < n.cell

(* w waits for a lock that v has: a cell, or the row of an Issue it may join. *)
WaitsFor(w, v) ==
    /\ v # w /\ pc[w] = "locking"
    /\ \/ Needed(w) # {} /\ NextKey(w) \in held[v]
       \/ Needed(w) = {} /\ choice[v] \in Candidates(job[w], rule[w])

(* In no group of workers does each wait for another of the group. *)
NoWaitingRing ==
    \A group \in SUBSET Workers :
        IsFiniteSet(group) /\ group # {} =>
            \E w \in group : \A v \in group : ~WaitsFor(w, v)

LEMMA KeysOfOneWorker ==
    ASSUME IInv, NEW w \in Workers, pc[w] = "locking"
    PROVE  /\ \A k \in LockKeys(job[w], rule[w]) : k.cell \in Int
           /\ \A k, l \in LockKeys(job[w], rule[w]) : k.cell = l.cell => k = l
           /\ held[w] \subseteq LockKeys(job[w], rule[w])
           /\ Needed(w) \subseteq LockKeys(job[w], rule[w])
<1>1. /\ job[w] \in Reports /\ rule[w] \in Rules
      /\ held[w] \subseteq LockKeys(job[w], rule[w])
  BY DEF IInv, WorkersTyped
<1> DEFINE size == CellSize(job[w], rule[w])
           x == Position[job[w]]
<1>2. x \div size \in Nat
  BY <1>1, ConstantsTyped, DivisionWithRest
<1>3. LockKeys(job[w], rule[w]) =
         {[category |-> Category[job[w]], size |-> size, cell |-> c] : c \in Cells(x, size)}
  BY DEF LockKeys
<1>4. \A c \in Cells(x, size) : c \in Int
  BY <1>2 DEF Cells
<1> HIDE DEF size, x
<1>5. /\ \A k \in LockKeys(job[w], rule[w]) : k.cell \in Int
      /\ \A k, l \in LockKeys(job[w], rule[w]) : k.cell = l.cell => k = l
  BY <1>3, <1>4
<1> QED
  BY <1>1, <1>5 DEF Needed

LEMMA SortedStepwise == IInv /\ Sorted /\ [Next]_vars => Sorted'
<1> SUFFICES ASSUME IInv, Sorted, [Next]_vars PROVE Sorted'
  OBVIOUS
<1>1. ASSUME NEW w \in Workers, LockCell(w) PROVE Sorted'
  <2>1. /\ pc[w] = "locking" /\ Needed(w) # {} /\ UNCHANGED <<pc, job, rule>>
        /\ held'[w] = held[w] \cup {NextKey(w)}
        /\ \A v \in Workers : v # w => held'[v] = held[v]
    BY <1>1 DEF LockCell, IInv, WorkersTyped
  <2>2. job[w] \in Reports /\ rule[w] \in Rules
    BY <2>1 DEF IInv, WorkersTyped
  <2>3. NextKey(w) \in Needed(w) /\ \A n \in Needed(w) : NextKey(w).cell <= n.cell
    BY <2>1, <2>2, NextKeyNeeded
  <2>4. Needed(w)' = Needed(w) \ {NextKey(w)}
    BY <2>1 DEF Needed, LockKeys
  <2>5. ASSUME NEW h \in held'[w], NEW n \in Needed(w)' PROVE h.cell < n.cell
    <3>1. n \in Needed(w) /\ n # NextKey(w) /\ n.cell \in Int /\ NextKey(w).cell \in Int
      BY <2>1, <2>3, <2>4, KeysOfOneWorker
    <3>2. NextKey(w).cell < n.cell
      BY <2>1, <2>3, <3>1, KeysOfOneWorker
    <3> QED
      BY <2>1, <3>1, <3>2 DEF Sorted
  <2>6. ASSUME NEW v \in Workers, v # w PROVE held'[v] = held[v] /\ Needed(v)' = Needed(v)
    BY <2>1, <2>6 DEF Needed, LockKeys
  <2> QED
    BY <2>1, <2>5, <2>6 DEF Sorted
<1>2. ASSUME \A w \in Workers : ~LockCell(w) PROVE Sorted'
  <2> SUFFICES ASSUME NEW w \in Workers, pc'[w] = "locking",
                      NEW h \in held'[w], NEW n \in Needed(w)'
               PROVE  h.cell < n.cell
    BY DEF Sorted
  <2>1. \/ pc[w] = "claimed" /\ held'[w] = held[w]
        \/ /\ pc[w] = "locking" /\ job'[w] = job[w]
           /\ rule'[w] = rule[w] /\ held'[w] = held[w]
    BY <1>2 DEF IInv, WorkersTyped, Next, WorkerStep, Claim, ReadRule, RuleMissing, ChooseIssue,
                ChooseNewIssue, Commit, Crash, Abandon, Release, CloseIssue, AdjustRule, Tick, vars, dbVars, workerVars
  <2>2. pc[w] = "locking"
    BY <2>1 DEF IInv, WorkersTyped
  <2>3. h \in held[w] /\ n \in Needed(w)
    BY <2>1, <2>2 DEF Needed, LockKeys
  <2> QED
    BY <2>2, <2>3 DEF Sorted
<1> QED
  BY <1>1, <1>2

(* A finite set of integers has a largest element. *)
LEMMA Greatest ==
    ASSUME NEW S, IsFiniteSet(S), S # {}, NEW f \in [S -> Int]
    PROVE  \E a \in S : \A b \in S : f[b] <= f[a]
<1> DEFINE C(a) == {b \in S : f[b] < f[a]}
           N == {Cardinality(C(a)) : a \in S}
<1>1. \A a \in S : IsFiniteSet(C(a)) /\ Cardinality(C(a)) \in Nat
                   /\ Cardinality(C(a)) <= Cardinality(S)
  BY FS_Subset, FS_CardinalityType
<1>2. ASSUME NEW a \in S, NEW b \in S, f[a] < f[b]
      PROVE  Cardinality(C(a)) < Cardinality(C(b))
  <2>1. C(a) \in SUBSET C(b) /\ a \in C(b) /\ a \notin C(a)
    BY <1>2
  <2>2. Cardinality(C(a)) <= Cardinality(C(b)) /\ Cardinality(C(b)) # Cardinality(C(a))
    BY <1>1, <2>1, FS_Subset
  <2> QED
    BY <1>1, <2>2
<1>3. Cardinality(S) \in Nat
  BY FS_CardinalityType
<1> DEFINE above(a) == Cardinality(S) - Cardinality(C(a))
           T == {above(a) : a \in S}
<1>4. \A a \in S : above(a) \in Nat
  <2> HIDE DEF C
  <2> QED
    BY <1>1, <1>3
<1>5. T \subseteq Nat /\ T # {}
  <2> HIDE DEF above
  <2> QED
    BY <1>4
<1>6. PICK m \in T : \A n \in T : ~(<<n, m>> \in OpToRel(<, Nat))
  <2> HIDE DEF T
  <2> QED
    BY <1>5, WFMin, NatLessThanWellFounded
<1>7. PICK a \in S : m = above(a)
  BY <1>6
<1>8. ASSUME NEW b \in S PROVE f[b] <= f[a]
  <2>1. above(b) \in T /\ above(a) \in Nat /\ above(b) \in Nat
    <3> HIDE DEF above
    <3> QED
      BY <1>4
  <2> HIDE DEF T
  <2>2. ~(above(b) < above(a))
    <3> HIDE DEF above
    <3> QED
      BY <1>6, <1>7, <2>1 DEF OpToRel
  <2> HIDE DEF C
  <2>3. ~(Cardinality(C(a)) < Cardinality(C(b)))
    BY <1>1, <1>3, <2>2
  <2>4. ~(f[a] < f[b])
    BY <1>2, <2>3
  <2> QED
    BY <2>4
<1> QED
  BY <1>8

(* The docstring of _acquire_spatial_category_locks calls its locks deadlock  *)
(* safe: for any number of workers, any cells and any radii, no group of them *)
(* waits in a ring, cells and rows of Issues together.                        *)
THEOREM NeverWaitInARing == Spec => []NoWaitingRing
<1>1. Init => Sorted
  BY DEF Init, Sorted
<1>2. IInv /\ Sorted => NoWaitingRing
  <2> SUFFICES ASSUME IInv, Sorted, NEW group \in SUBSET Workers,
                      IsFiniteSet(group), group # {},
                      \A w \in group : \E v \in group : WaitsFor(w, v)
               PROVE  FALSE
    BY DEF NoWaitingRing
  <2>1. \A w \in group : pc[w] = "locking" /\ choice[w] = None
    BY DEF WaitsFor, IInv, WorkersTyped
  <2>2. \A w \in group : \A i \in Candidates(job[w], rule[w]) : i # None
    BY ConstantsTyped DEF Candidates, IInv, DatabaseTyped
  <2>3. \A w \in group : Needed(w) # {} /\ \E v \in group : NextKey(w) \in held[v]
    BY <2>1, <2>2 DEF WaitsFor
  <2>4. ASSUME NEW w \in group
        PROVE  NextKey(w) \in Needed(w) /\ NextKey(w).cell \in Int
    <3>1. job[w] \in Reports /\ rule[w] \in Rules
      BY <2>1 DEF IInv, WorkersTyped
    <3> QED
      BY <2>1, <2>3, <3>1, NextKeyNeeded, KeysOfOneWorker
  <2> DEFINE f == [w \in group |-> NextKey(w).cell]
  <2>5. f \in [group -> Int]
    BY <2>4
  <2>6. PICK w \in group : \A v \in group : f[v] <= f[w]
    <3> HIDE DEF f
    <3> QED
      BY <2>5, Greatest
  <2>7. PICK v \in group : NextKey(w) \in held[v]
    BY <2>3
  <2>8. NextKey(w).cell < NextKey(v).cell
    BY <2>1, <2>4, <2>7 DEF Sorted
  <2> QED
    BY <2>4, <2>6, <2>8
<1> QED
  BY <1>1, <1>2, LocksCorrect, SortedStepwise, PTL DEF Spec

-----------------------------------------------------------------------------
LEMMA RefinesInitially == Init => Promise!Init
  BY DEF Init, Promise!Init

(* What can be joined is the same in both specifications. *)
LEMMA SameMatches ==
    ASSUME NEW r \in Reports, NEW i \in Issues, NEW ru \in Rules
    PROVE  i \in Candidates(r, ru) <=> Promise!Matches(r, i, ru)
  BY DEF Candidates, Distance, Promise!Matches, Promise!Distance

(* Only the commit is visible in the promise: it attaches or founds. *)
LEMMA CommitRefines ==
    ASSUME IInv, NEW w \in Workers, Commit(w) PROVE Promise!Next
<1> DEFINE r == job[w]
           i == choice[w]
<1>1. /\ r \in Reports /\ i \in Issues /\ rule[w] \in Rules /\ issueOf[r] = None
      /\ Decided(w) /\ insertedAt[w] \in 0 .. now
      /\ issueOf' = [issueOf EXCEPT ![r] = i] /\ UNCHANGED now
  BY DEF IInv, DatabaseTyped, WorkersTyped, Consistent, Commit
<1>2. CASE founder[i] # None
  <2>1. Promise!Matches(r, i, rule[w])
    BY <1>1, <1>2, SameMatches DEF Decided
  <2>2. Promise!Attach(r, i, rule[w])
    BY <1>1, <1>2, <2>1 DEF Commit, Promise!Attach
  <2> QED
    BY <1>1, <2>2 DEF Promise!Next
<1>3. CASE founder[i] = None
  <2>1. \A j \in Issues : Promise!Matches(r, j, rule[w]) => grid[j] # CellSize(r, rule[w])
    BY <1>1, <1>3, SameMatches DEF Decided
  <2>2. /\ founder' = [founder EXCEPT ![i] = r]
        /\ openIssues' = openIssues \cup {i}
        /\ openedAt' = [openedAt EXCEPT ![i] = insertedAt[w]]
        /\ grid' = [grid EXCEPT ![i] = CellSize(r, rule[w])]
    BY <1>3 DEF Commit
  <2>3. Promise!Found(r, i, rule[w])
    BY <1>1, <1>3, <2>1, <2>2 DEF Promise!Found, CellSize
  <2> QED
    BY <1>1, <2>3 DEF Promise!Next
<1> QED
  BY <1>2, <1>3

LEMMA StepRefines == IInv /\ [Next]_vars => [Promise!Next]_(Promise!vars)
<1> SUFFICES ASSUME IInv, [Next]_vars PROVE [Promise!Next]_(Promise!vars)
  OBVIOUS
<1>1. ASSUME NEW w \in Workers, WorkerStep(w) PROVE Promise!Next \/ UNCHANGED Promise!vars
  <2>1. CASE Commit(w)
    BY <2>1, CommitRefines
  <2>2. CASE ~Commit(w)
    BY <1>1, <2>2 DEF WorkerStep, Claim, ReadRule, RuleMissing, Abandon, LockCell, ChooseIssue,
                      ChooseNewIssue, dbVars, Promise!vars
  <2> QED
    BY <2>1, <2>2
<1>2. ASSUME NEW w \in Workers, Crash(w) PROVE UNCHANGED Promise!vars
  BY <1>2 DEF Crash, Abandon, dbVars, Promise!vars
<1>3. ASSUME NEW i \in Issues, CloseIssue(i) PROVE Promise!Next
  BY <1>3 DEF CloseIssue, Promise!Close, Promise!Next
<1>4. ASSUME NEW c \in Categories, NEW ru \in Rules \cup {None}, AdjustRule(c, ru)
      PROVE  UNCHANGED Promise!vars
  BY <1>4 DEF AdjustRule, dbVars, Promise!vars
<1>5. CASE Tick
  BY <1>5 DEF Tick, dbVars, Promise!Tick, Promise!Next
<1>6. CASE UNCHANGED vars
  BY <1>6 DEF vars, dbVars, Promise!vars
<1> QED
  BY <1>1, <1>2, <1>3, <1>4, <1>5, <1>6 DEF Next

(* Concurrent clustering implements find-or-create (architecture section      *)
(* 4.3): for any number of workers, Reports and Issues, whatever rules an     *)
(* Admin switches between or retires and wherever workers die, what is        *)
(* committed is what one indivisible search and attach, or search and create, *)
(* commits; the search is sure to see what was founded on its own grid.       *)
THEOREM RefinementCorrect == Spec => ImplementsFindOrCreate
<1> QED
  BY RefinesInitially, StepRefines, LocksCorrect, PTL
  DEF Spec, ImplementsFindOrCreate, Promise!Spec

-----------------------------------------------------------------------------
(* A new Issue is committed only where its founder belongs into no open one   *)
(* that was founded on the same grid.                                         *)
LEMMA DuplicatesPreserved ==
    IInv /\ OneIssuePerProblem /\ [Next]_vars => OneIssuePerProblem'
<1> SUFFICES ASSUME IInv, OneIssuePerProblem, [Next]_vars PROVE OneIssuePerProblem'
  OBVIOUS
<1>1. ASSUME NEW w \in Workers, Commit(w) PROVE OneIssuePerProblem'
  <2>0. /\ job[w] \in Reports /\ choice[w] \in Issues /\ rule[w] \in Rules /\ Decided(w)
    BY <1>1 DEF IInv, DatabaseTyped, WorkersTyped, Consistent, Commit
  <2>1. PICK r \in Reports, n \in Issues : r = job[w] /\ n = choice[w]
    BY <2>0
  <2>2. CASE founder[n] # None
    BY <1>1, <2>1, <2>2 DEF Commit, OneIssuePerProblem, Duplicates, Belongs
  <2>3. CASE founder[n] = None
    <3>1. /\ founder' = [founder EXCEPT ![n] = r]
          /\ openIssues' = openIssues \cup {n}
          /\ openedAt' = [openedAt EXCEPT ![n] = insertedAt[w]]
          /\ grid' = [grid EXCEPT ![n] = CellSize(r, rule[w])]
      BY <1>1, <2>1, <2>3 DEF Commit
    <3>2. /\ founder'[n] = r /\ grid'[n] = CellSize(r, rule[w])
          /\ \A j \in openIssues : /\ j # n /\ founder'[j] = founder[j]
                                  /\ openedAt'[j] = openedAt[j] /\ grid'[j] = grid[j]
      BY <2>1, <2>3, <3>1 DEF IInv, DatabaseTyped
    <3>3. ASSUME NEW j \in openIssues, Belongs(n, j)' PROVE grid'[n] # grid'[j]
      <4>1. founder[j] \in Reports /\ j \in Issues
        BY DEF IInv, DatabaseTyped
      <4>2. Distance(Position[r], Position[founder[j]]) = Distance(Position[founder[j]], Position[r])
        BY <2>1, <4>1, ConstantsTyped DEF Distance
      <4>3. j \in Candidates(r, rule[w])
        BY <2>0, <3>2, <3>3, <4>1, <4>2 DEF Belongs, Candidates
      <4> QED
        BY <2>0, <2>1, <2>3, <3>2, <4>3 DEF Decided
    <3>4. \A i, j \in openIssues : Belongs(i, j)' <=> Belongs(i, j)
      BY <3>2 DEF Belongs
    <3>5. SUFFICES ASSUME NEW i \in openIssues \cup {n}, NEW j \in openIssues \cup {n},
                          Duplicates(i, j)'
                   PROVE  grid'[i] # grid'[j]
      BY <3>1 DEF OneIssuePerProblem
    <3>6. CASE i = n \/ j = n
      BY <3>3, <3>5, <3>6 DEF Duplicates
    <3>7. CASE i \in openIssues /\ j \in openIssues
      BY <3>2, <3>4, <3>5, <3>7 DEF OneIssuePerProblem, Duplicates
    <3> QED
      BY <3>6, <3>7
  <2> QED
    BY <2>2, <2>3
<1>2. CASE \A w \in Workers : ~Commit(w)
  <2>1. UNCHANGED <<founder, openedAt, grid>> /\ openIssues' \subseteq openIssues
    BY <1>2 DEF Next, WorkerStep, Claim, ReadRule, RuleMissing, LockCell, ChooseIssue, ChooseNewIssue,
                Crash, Abandon, CloseIssue, AdjustRule, Tick, vars, dbVars
  <2> QED
    BY <2>1 DEF OneIssuePerProblem, Duplicates, Belongs
<1> QED
  BY <1>1, <1>2

(* Different Reports of one problem are serialized (docstring of              *)
(* cluster_report): however many workers cluster at once, two open Issues     *)
(* stand for it only when their founders were locked with cells of different  *)
(* sizes.                                                                     *)
THEOREM DuplicatesCorrect == Spec => []OneIssuePerProblem
<1>1. Init => OneIssuePerProblem
  BY DEF Init, OneIssuePerProblem, Duplicates
<1> QED
  BY <1>1, DuplicatesPreserved, LocksCorrect, PTL DEF Spec
=============================================================================
