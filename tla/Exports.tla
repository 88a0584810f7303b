-------------------------------- MODULE Exports --------------------------------
(* Export jobs: the request that leaves a row, the task that makes the file   *)
(* and the poll that links to it.                                             *)
(*                                                                            *)
(* The task takes no lock.  It reads the row and its requester once, reads    *)
(* what that account may see, stores the file and writes the row last.  Any   *)
(* exception on the way is turned into a failed export; a worker that dies,   *)
(* or cannot write even that, leaves the row as it is, and nothing looks for  *)
(* such rows later.                                                           *)
EXTENDS Integers

CONSTANTS
    Jobs,           \* exports
    Requesters,     \* staff accounts
    RequesterOf, ResourceOf,
    Workers,
    Deliveries,     \* messages the broker has for an export at first
    MaxLosses,      \* bound of the model: messages and runs that are lost
    MaxStandings,   \* bound of the model: suspensions and reinstatements
    None

(* What is assumed of the constants. *)
ExportAssumption ==
    /\ Deliveries \in Nat \ {0} /\ {MaxLosses, MaxStandings} \subseteq Nat
    /\ RequesterOf \in [Jobs -> Requesters]
    /\ ResourceOf \in [Jobs -> {"issues", "reports"}]

VARIABLES
    state,      \* ExportState, and "none" before the request
    stored,     \* is there a file under the key?
    linked,     \* is object_key set?
    queue,      \* messages per export
    at, work,   \* per worker: what it does, and for which export
    copy,       \* per worker: was the requester active when it was loaded?
    active,     \* per requester
    lost,       \* history: exports with a lost message or run
    losses, standings

workerVars == <<at, work, copy>>
vars == <<state, stored, linked, queue, workerVars, active, lost, losses, standings>>

(* Shape of the state. *)
TypeOK ==
    /\ state \in [Jobs -> {"none", "processing", "ready", "failed"}]
    /\ stored \subseteq Jobs /\ linked \subseteq Jobs /\ lost \subseteq Jobs
    /\ queue \in [Jobs -> 0 .. Deliveries]
    /\ at \in [Workers -> {"idle", "reading", "storing", "saving", "failing"}]
    /\ work \in [Workers -> Jobs \cup {None}]
    /\ copy \in [Workers -> BOOLEAN]
    /\ active \in [Requesters -> BOOLEAN]
    /\ losses \in 0 .. MaxLosses /\ standings \in 0 .. MaxStandings

Init ==
    /\ state = [x \in Jobs |-> "none"]
    /\ stored = {} /\ linked = {} /\ lost = {}
    /\ queue = [x \in Jobs |-> 0]
    /\ at = [w \in Workers |-> "idle"]
    /\ work = [w \in Workers |-> None]
    /\ copy = [w \in Workers |-> TRUE]
    /\ active = [u \in Requesters |-> TRUE]
    /\ losses = 0 /\ standings = 0

Lose(x) ==
    /\ losses < MaxLosses
    /\ losses' = losses + 1
    /\ lost' = lost \cup {x}

Goes(w, from, to) == at[w] = from /\ at' = [at EXCEPT ![w] = to]

(* The task ends: the worker is free. *)
Ends(w) ==
    /\ at' = [at EXCEPT ![w] = "idle"]
    /\ work' = [work EXCEPT ![w] = None]
    /\ copy' = [copy EXCEPT ![w] = TRUE]

-----------------------------------------------------------------------------
(* POST /exports: the row commits, then the message is sent. *)
CreateExport(x) ==
    /\ state[x] = "none"
    /\ active[RequesterOf[x]]
    /\ state' = [state EXCEPT ![x] = "processing"]
    /\ \/ queue' = [queue EXCEPT ![x] = Deliveries] /\ UNCHANGED <<lost, losses>>
       \/ Lose(x) /\ UNCHANGED queue
    /\ UNCHANGED <<stored, linked, workerVars, active, standings>>

(* generate_export reads the row, and the requester with it; a task that      *)
(* finds the export finished does nothing.                                    *)
Take(w, x) ==
    /\ at[w] = "idle" /\ queue[x] > 0
    /\ queue' = [queue EXCEPT ![x] = @ - 1]
    /\ IF state[x] # "processing" THEN UNCHANGED workerVars
       ELSE /\ at' = [at EXCEPT ![w] = "reading"]
            /\ work' = [work EXCEPT ![w] = x]
            /\ copy' = [copy EXCEPT ![w] = active[RequesterOf[x]]]
    /\ UNCHANGED <<state, stored, linked, active, lost, losses, standings>>

(* list_issues answers a suspended account as it does the public; list_reports *)
(* refuses it.                                                                *)
MayRead(w) == ResourceOf[work[w]] = "issues" \/ copy[w]

ReadRows(w) ==
    /\ Goes(w, "reading", IF MayRead(w) THEN "storing" ELSE "failing")
    /\ UNCHANGED <<state, stored, linked, queue, work, copy, active, lost, losses, standings>>

StoreFile(w) ==
    /\ Goes(w, "storing", "saving")
    /\ stored' = stored \cup {work[w]}
    /\ UNCHANGED <<state, linked, queue, work, copy, active, lost, losses, standings>>

SaveReady(w) ==
    /\ at[w] = "saving"
    /\ state' = [state EXCEPT ![work[w]] = "ready"]
    /\ linked' = linked \cup {work[w]}
    /\ Ends(w)
    /\ UNCHANGED <<stored, queue, active, lost, losses, standings>>

\* Mutation: the exception ends the task.
RaisesUncaught(w) ==
    /\ at[w] \in {"reading", "storing", "saving"}
    /\ Ends(w)
    /\ UNCHANGED <<state, stored, linked, queue, active, lost, losses, standings>>

(* The database, the storage or the soft time limit raises: it is caught. *)
Raises(w) ==
    /\ at[w] \in {"reading", "storing", "saving"}
    /\ at' = [at EXCEPT ![w] = "failing"]
    /\ UNCHANGED <<state, stored, linked, queue, work, copy, active, lost, losses, standings>>

SaveFailed(w) ==
    /\ at[w] = "failing"
    /\ state' = [state EXCEPT ![work[w]] = "failed"]
    /\ Ends(w)
    /\ UNCHANGED <<stored, linked, queue, active, lost, losses, standings>>

(* The worker dies, or cannot save the failure either. *)
Dies(w) ==
    /\ at[w] # "idle"
    /\ Lose(work[w])
    /\ Ends(w)
    /\ UNCHANGED <<state, stored, linked, queue, active, standings>>

ChangeStanding(u) ==
    /\ standings < MaxStandings
    /\ standings' = standings + 1
    /\ active' = [active EXCEPT ![u] = ~@]
    /\ UNCHANGED <<state, stored, linked, queue, workerVars, lost, losses>>

-----------------------------------------------------------------------------
(* What a worker does by itself; a message it has taken it works on. *)
Work(w) ==
    \/ \E x \in Jobs : Take(w, x)
    \/ ReadRows(w)
    \/ StoreFile(w)
    \/ SaveReady(w)
    \/ Raises(w)
    \/ SaveFailed(w)

Next ==
    \/ \E x \in Jobs : CreateExport(x)
    \/ \E w \in Workers : Work(w)
    \/ \E w \in Workers : Dies(w)
    \/ \E u \in Requesters : ChangeStanding(u)

Spec == Init /\ [][Next]_vars /\ \A w \in Workers : WF_vars(Work(w))

-----------------------------------------------------------------------------
(* The poll: a link only for an export that is ready. *)
DownloadUrl(x) == state[x] = "ready" /\ x \in linked

(* Whoever polls an export is told in the end: it failed, or there is a link  *)
(* to a file that exists, unless its message or a run of its task was lost.   *)
(* (generate_export catches everything and writes the row last.)              *)
EveryExportEnds ==
    \A x \in Jobs : state[x] = "processing" ~>
        \/ x \in lost
        \/ state[x] = "failed"
        \/ DownloadUrl(x) /\ x \in stored

=============================================================================
