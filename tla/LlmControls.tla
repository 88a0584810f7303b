------------------------------ MODULE LlmControls ------------------------------
(* classify_with_fallback and what it keeps in Redis: the response cache, the *)
(* call counters of a user and of the platform, the token budget of the day   *)
(* and the circuit breaker.                                                   *)
(*                                                                            *)
(* Several workers classify at once and share these keys.  Every command is   *)
(* atomic and a step of its own here, and each may fail: the store being down *)
(* must send a Report to the keyword engine, never leave it without a result. *)
(* Only what a provider answers can do that: some answers raise what nobody   *)
(* catches.                                                                   *)
EXTENDS Integers, FiniteSets

CONSTANTS
    Calls,          \* classifications, one per task
    Users, Texts,
    UserOf,         \* user_scope of each call
    TextOf,         \* what the key of the response cache is made of
    UserLimit, GlobalLimit,
    Budget,         \* CLASSIFICATION_LLM_DAILY_TOKEN_BUDGET
    Cost,           \* estimated tokens of one call
    MaxAttempts,    \* CLASSIFICATION_LLM_MAX_ATTEMPTS
    Threshold,      \* CLASSIFICATION_LLM_CIRCUIT_FAILURE_THRESHOLD
    MaxWindows      \* bound of the model: rate windows that begin, some with a new day

ASSUME LimitsAssumption ==
    /\ {UserLimit, GlobalLimit, Budget, Cost, MaxAttempts, Threshold} \subseteq Nat \ {0}
    /\ MaxWindows \in Nat
    /\ IsFiniteSet(Calls)
    /\ UserOf \in [Calls -> Users] /\ TextOf \in [Calls -> Texts]

VARIABLES
    at,             \* where each call is
    attempts,       \* requests it has sent to the provider
    stamps,         \* when each of its reservations was granted
    passed,         \* how often the circuit had opened when it was let through
    cached,         \* texts with a stored response
    userCount, globalCount, spent,  \* counters of this window and of this day
    failures,       \* circuit:failures; 0 when the key is absent
    open,           \* circuit:open
    window, day,
    openings        \* history: how often the circuit has opened

counters == <<userCount, globalCount, spent>>
circuit  == <<failures, open, openings>>
clock    == <<window, day>>
vars == <<at, attempts, stamps, passed, cached, counters, circuit, clock>>

Answers == {"cached", "llm", "keyword"}
Controls == {"lookup", "circuit", "user", "global", "budget"}
Stages == Controls \cup Answers \cup
    {"provider", "clear failures", "clear open", "store",
     "count failure", "count again", "open circuit", "drop failures", "raised"}
Grants == {"user", "global", "budget"}
Never == -1

(* Every step keeps the shape of the state. *)
TypeOK ==
    /\ at \in [Calls -> Stages]
    /\ attempts \in [Calls -> 0 .. MaxAttempts]
    /\ stamps \in [Calls -> [Grants -> Nat \cup {Never}]]
    /\ passed \in [Calls -> Nat]
    /\ cached \subseteq Texts
    /\ userCount \in [Users -> Nat] /\ globalCount \in Nat /\ spent \in Nat
    /\ failures \in Nat /\ open \in BOOLEAN
    /\ openings \in Nat
    /\ window \in 0 .. MaxWindows /\ day \in 0 .. window

Init ==
    /\ at = [c \in Calls |-> "lookup"]
    /\ attempts = [c \in Calls |-> 0]
    /\ stamps = [c \in Calls |-> [g \in Grants |-> Never]]
    /\ passed = [c \in Calls |-> 0]
    /\ cached = {}
    /\ userCount = [u \in Users |-> 0] /\ globalCount = 0 /\ spent = 0
    /\ failures = 0 /\ open = FALSE
    /\ openings = 0
    /\ window = 0 /\ day = 0

Goes(c, from, to) == at[c] = from /\ at' = [at EXCEPT ![c] = to]

-----------------------------------------------------------------------------
(* Before the provider is called.  A failing command is the same answer as a  *)
(* refusal: ClassificationUnavailable, and the keyword engine.                *)
StoreDown(c) ==
    /\ at[c] \in Controls
    /\ at' = [at EXCEPT ![c] = "keyword"]
    /\ UNCHANGED <<attempts, stamps, passed, cached, counters, circuit, clock>>

LookUp(c) ==
    /\ Goes(c, "lookup", IF TextOf[c] \in cached THEN "cached" ELSE "circuit")
    /\ UNCHANGED <<attempts, stamps, passed, cached, counters, circuit, clock>>

\* Mutation: the circuit counts as open only while failures are counted.
CheckCircuitByFailures(c) ==
    /\ Goes(c, "circuit", IF open /\ failures # 0 THEN "keyword" ELSE "user")
    /\ passed' = [passed EXCEPT ![c] = openings]
    /\ UNCHANGED <<attempts, stamps, cached, counters, circuit, clock>>

CheckCircuit(c) ==
    /\ Goes(c, "circuit", IF open THEN "keyword" ELSE "user")
    /\ passed' = [passed EXCEPT ![c] = openings]
    /\ UNCHANGED <<attempts, stamps, cached, counters, circuit, clock>>

\* Mutation: the counter is compared before the call is counted.
GrantedBefore(count, amount, limit) == count <= limit

(* _reserve_counter: add or incr, and the new value is compared.  A refused   *)
(* unit stays counted.                                                        *)
Granted(count, amount, limit) == count + amount <= limit

Stamp(c, grant, time) == stamps' = [stamps EXCEPT ![c][grant] = time]

ReserveUser(c) ==
    /\ userCount' = [userCount EXCEPT ![UserOf[c]] = @ + 1]
    /\ IF Granted(userCount[UserOf[c]], 1, UserLimit)
       THEN Goes(c, "user", "global") /\ Stamp(c, "user", window)
       ELSE Goes(c, "user", "keyword") /\ UNCHANGED stamps
    /\ UNCHANGED <<attempts, passed, cached, globalCount, spent, circuit, clock>>

ReserveGlobal(c) ==
    /\ globalCount' = globalCount + 1
    /\ IF Granted(globalCount, 1, GlobalLimit)
       THEN Goes(c, "global", "budget") /\ Stamp(c, "global", window)
       ELSE Goes(c, "global", "keyword") /\ UNCHANGED stamps
    /\ UNCHANGED <<attempts, passed, cached, userCount, spent, circuit, clock>>

ReserveBudget(c) ==
    /\ spent' = spent + Cost
    /\ IF Granted(spent, Cost, Budget)
       THEN Goes(c, "budget", "provider") /\ Stamp(c, "budget", day)
       ELSE Goes(c, "budget", "keyword") /\ UNCHANGED stamps
    /\ UNCHANGED <<attempts, passed, cached, userCount, globalCount, circuit, clock>>

-----------------------------------------------------------------------------
(* The adapter: an unreachable provider is asked again, an unusable answer    *)
(* is not.                                                                    *)
Ask(c, to) ==
    /\ Goes(c, "provider", to)
    /\ attempts' = [attempts EXCEPT ![c] = @ + 1]
    /\ UNCHANGED <<stamps, passed, cached, counters, circuit, clock>>

ProviderAnswers(c) == Ask(c, "clear failures")

ProviderUnreachable(c) ==
    Ask(c, IF attempts[c] + 1 < MaxAttempts THEN "provider" ELSE "count failure")

AnswerUnusable(c) == Ask(c, "count failure")

(* What neither the provider nor the adapter turns into a ClassificationError *)
(* ends the task, and nothing is recorded: an answer that breaks off          *)
(* (http.client's IncompleteRead, BadStatusLine), a null "usage", an empty    *)
(* "model".                                                                   *)
ExchangeRaises(c) == Ask(c, "raised")

-----------------------------------------------------------------------------
(* _record_llm_success and _store_llm_result, each command at best effort.    *)
ClearFailures(c) ==
    /\ Goes(c, "clear failures", "clear open")
    /\ failures' \in {0, failures}
    /\ UNCHANGED <<attempts, stamps, passed, cached, counters, open, openings, clock>>

ClearOpen(c) ==
    /\ Goes(c, "clear open", "store")
    /\ open' \in {FALSE, open}
    /\ UNCHANGED <<attempts, stamps, passed, cached, counters, failures, openings, clock>>

StoreResult(c) ==
    /\ Goes(c, "store", "llm")
    /\ cached' \in {cached, cached \cup {TextOf[c]}}
    /\ UNCHANGED <<attempts, stamps, passed, counters, circuit, clock>>

(* _record_llm_failure: add the counter, or count it up; the key may go away  *)
(* in between, and any exception is only logged.                              *)
AfterCount(count) == IF count >= Threshold THEN "open circuit" ELSE "keyword"

CountFailure(c) ==
    /\ IF failures = 0
       THEN failures' = 1 /\ Goes(c, "count failure", AfterCount(1))
       ELSE UNCHANGED failures /\ Goes(c, "count failure", "count again")
    /\ UNCHANGED <<attempts, stamps, passed, cached, counters, open, openings, clock>>

CountAgain(c) ==
    /\ IF failures = 0
       THEN UNCHANGED failures /\ Goes(c, "count again", "keyword")
       ELSE failures' = failures + 1 /\ Goes(c, "count again", AfterCount(failures + 1))
    /\ UNCHANGED <<attempts, stamps, passed, cached, counters, open, openings, clock>>

OpenCircuit(c) ==
    /\ Goes(c, "open circuit", "drop failures")
    /\ open' = TRUE
    /\ openings' = openings + 1
    /\ UNCHANGED <<attempts, stamps, passed, cached, counters, failures, clock>>

DropFailures(c) ==
    /\ Goes(c, "drop failures", "keyword")
    /\ failures' = 0
    /\ UNCHANGED <<attempts, stamps, passed, cached, counters, open, openings, clock>>

\* Mutation: an exception of the recording is not caught.
RecordingRaises(c) ==
    /\ at[c] \in {"count failure", "count again", "open circuit", "drop failures"}
    /\ at' = [at EXCEPT ![c] = "lost"]
    /\ UNCHANGED <<attempts, stamps, passed, cached, counters, circuit, clock>>

(* The store fails while the failure is recorded. *)
RecordingLost(c) ==
    /\ at[c] \in {"count failure", "count again", "open circuit", "drop failures"}
    /\ at' = [at EXCEPT ![c] = "keyword"]
    /\ UNCHANGED <<attempts, stamps, passed, cached, counters, circuit, clock>>

-----------------------------------------------------------------------------
(* Keys expire, and with a new window or day new keys are used. *)
NewWindow ==
    /\ window < MaxWindows
    /\ window' = window + 1
    /\ userCount' = [u \in Users |-> 0] /\ globalCount' = 0
    /\ \/ UNCHANGED <<day, spent>>
       \/ day' = day + 1 /\ spent' = 0
    /\ UNCHANGED <<at, attempts, stamps, passed, cached, circuit>>

ResponseExpires(t) ==
    /\ t \in cached
    /\ cached' = cached \ {t}
    /\ UNCHANGED <<at, attempts, stamps, passed, counters, circuit, clock>>

FailuresExpire ==
    /\ failures # 0
    /\ failures' = 0
    /\ UNCHANGED <<at, attempts, stamps, passed, cached, counters, open, openings, clock>>

CircuitRecovers ==
    /\ open
    /\ open' = FALSE
    /\ UNCHANGED <<at, attempts, stamps, passed, cached, counters, failures, openings, clock>>

-----------------------------------------------------------------------------
Step(c) ==
    \/ StoreDown(c)
    \/ LookUp(c)
    \/ CheckCircuit(c)
    \/ ReserveUser(c)
    \/ ReserveGlobal(c)
    \/ ReserveBudget(c)
    \/ ProviderAnswers(c)
    \/ ProviderUnreachable(c)
    \/ AnswerUnusable(c)
    \/ ExchangeRaises(c)
    \/ ClearFailures(c)
    \/ ClearOpen(c)
    \/ StoreResult(c)
    \/ CountFailure(c)
    \/ CountAgain(c)
    \/ OpenCircuit(c)
    \/ DropFailures(c)
    \/ RecordingLost(c)

Next ==
    \/ \E c \in Calls : Step(c)
    \/ NewWindow
    \/ \E t \in Texts : ResponseExpires(t)
    \/ FailuresExpire
    \/ CircuitRecovers

(* A worker goes on with the call it has begun. *)
Spec == Init /\ [][Next]_vars /\ \A c \in Calls : WF_vars(Step(c))

-----------------------------------------------------------------------------
(* However the workers' commands interleave, the calls that reach the         *)
(* provider stay within the limit of their user and of the platform in the    *)
(* window each was granted in, and within the budget of the day               *)
(* (_reserve_llm_call, _reserve_daily_budget).                                *)
GrantedIn(grant, time) == {c \in Calls : attempts[c] > 0 /\ stamps[c][grant] = time}

WithinLimits ==
    /\ \A w \in 0 .. window :
           /\ Cardinality(GrantedIn("global", w)) <= GlobalLimit
           /\ \A u \in Users :
                  Cardinality({c \in GrantedIn("user", w) : UserOf[c] = u}) <= UserLimit
    /\ \A d \in 0 .. day : Cardinality(GrantedIn("budget", d)) * Cost <= Budget

(* While the circuit is open, the only calls still on their way to the        *)
(* provider are those that had passed the check before it opened              *)
(* (_ensure_circuit_closed, and a late success that closes it).               *)
OpenCircuitHoldsNewCalls ==
    open => \A c \in Calls :
                at[c] \in {"user", "global", "budget", "provider"}
                    => passed[c] < openings

(* O-2: every classification ends with an answer, whatever the control store  *)
(* does and however often the provider is refused, unreachable or answers     *)
(* unusably, unless the provider's answer raised what the adapter does not    *)
(* translate (classify_with_fallback).                                        *)
EveryCallAnswered == \A c \in Calls : <>(at[c] \in Answers \/ at[c] = "raised")

=============================================================================
