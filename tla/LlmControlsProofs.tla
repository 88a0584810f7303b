--------------------------- MODULE LlmControlsProofs ---------------------------
(* The limits and the circuit hold for every number of calls, citizens and    *)
(* texts, and for every limit, threshold, budget and cost.                    *)
EXTENDS LlmControls, FiniteSetTheorems, TLAPS

(* Whoever still passes the controls has sent nothing, and whoever is to send *)
(* may send once more.                                                        *)
SendsCounted ==
    \A c \in Calls : /\ at[c] \in Controls => attempts[c] = 0
                     /\ at[c] = "provider" => attempts[c] < MaxAttempts

TInv == TypeOK /\ SendsCounted

LEMMA ConstantsTyped ==
    /\ MaxAttempts \in Nat \ {0} /\ Cost \in Nat \ {0} /\ MaxWindows \in Nat
    /\ UserLimit \in Nat \ {0} /\ GlobalLimit \in Nat \ {0} /\ Budget \in Nat \ {0}
    /\ UserOf \in [Calls -> Users] /\ TextOf \in [Calls -> Texts]
  BY LimitsAssumption

LEMMA TypesInitially == Init => TInv
<1> SUFFICES ASSUME Init PROVE TInv
  OBVIOUS
<1>1. at \in [Calls -> Stages]
  BY DEF Init, Stages, Controls
<1>2. stamps \in [Calls -> [Grants -> Nat \cup {Never}]]
  BY DEF Init
<1>3. SendsCounted
  BY ConstantsTyped DEF Init, SendsCounted, Controls
<1>4. attempts \in [Calls -> 0 .. MaxAttempts]
  BY ConstantsTyped DEF Init
<1>5. window \in 0 .. MaxWindows /\ day \in 0 .. window
  BY ConstantsTyped DEF Init
<1>6. userCount \in [Users -> Nat] /\ passed \in [Calls -> Nat]
  BY DEF Init
<1> QED
  BY <1>1, <1>2, <1>3, <1>4, <1>5, <1>6 DEF Init, TInv, TypeOK

(* A granted call is stamped with the window or the day. *)
LEMMA StampTyped ==
    ASSUME TInv, NEW c \in Calls, NEW g \in Grants, NEW t \in Nat, Stamp(c, g, t)
    PROVE  stamps' \in [Calls -> [Grants -> Nat \cup {Never}]]
<1>1. [stamps[c] EXCEPT ![g] = t] \in [Grants -> Nat \cup {Never}]
  BY DEF TInv, TypeOK
<1> QED
  BY <1>1 DEF Stamp, TInv, TypeOK

(* A call that is sent had an attempt left. *)
LEMMA AttemptsTyped ==
    ASSUME TInv, NEW c \in Calls, NEW to, Ask(c, to)
    PROVE  attempts' \in [Calls -> 0 .. MaxAttempts]
<1>1. at[c] = "provider"
  BY DEF Ask, Goes
<1>2. attempts \in [Calls -> 0 .. MaxAttempts] /\ attempts[c] < MaxAttempts
  BY <1>1 DEF TInv, TypeOK, SendsCounted
<1>3. attempts[c] + 1 \in 0 .. MaxAttempts
  BY <1>2, ConstantsTyped
<1> QED
  BY <1>2, <1>3 DEF Ask

LEMMA TypesPreserved == TInv /\ [Next]_vars => TInv'
<1> SUFFICES ASSUME TInv, [Next]_vars PROVE TInv'
  OBVIOUS
<1>f. failures \in Nat
  BY DEF TInv, TypeOK
<1>o. openings \in Nat
  BY DEF TInv, TypeOK
<1>c. /\ MaxAttempts \in Nat \ {0} /\ Cost \in Nat \ {0} /\ MaxWindows \in Nat
      /\ UserOf \in [Calls -> Users] /\ TextOf \in [Calls -> Texts]
  BY ConstantsTyped
<1>1. ASSUME NEW c \in Calls, StoreDown(c) PROVE TInv'
  <2>1. at' \in [Calls -> Stages]
    BY <1>1 DEF StoreDown, Goes, TInv, TypeOK, Stages, Controls, Answers
  <2>2. SendsCounted'
    BY <1>1 DEF StoreDown, Goes, TInv, TypeOK, SendsCounted, Controls
  <2> QED
    BY <1>1, <2>1, <2>2 DEF StoreDown, counters, circuit, clock, TInv, TypeOK
<1>2. ASSUME NEW c \in Calls, LookUp(c) PROVE TInv'
  <2>1. at' \in [Calls -> Stages]
    BY <1>2 DEF LookUp, Goes, TInv, TypeOK, Stages, Controls, Answers
  <2>2. SendsCounted'
    BY <1>2 DEF LookUp, Goes, TInv, TypeOK, SendsCounted, Controls
  <2> QED
    BY <1>2, <2>1, <2>2 DEF LookUp, counters, circuit, clock, TInv, TypeOK
<1>3. ASSUME NEW c \in Calls, CheckCircuit(c) PROVE TInv'
  <2>1. at' \in [Calls -> Stages]
    BY <1>3 DEF CheckCircuit, Goes, TInv, TypeOK, Stages, Controls, Answers
  <2>2. SendsCounted'
    BY <1>3 DEF CheckCircuit, Goes, TInv, TypeOK, SendsCounted, Controls
  <2> QED
    BY <1>3, <2>1, <2>2 DEF CheckCircuit, counters, circuit, clock, TInv, TypeOK
<1>4. ASSUME NEW c \in Calls, ReserveUser(c) PROVE TInv'
  <2>1. at' \in [Calls -> Stages]
    BY <1>4 DEF ReserveUser, Goes, TInv, TypeOK, Stages, Controls, Answers
  <2>2. SendsCounted'
    BY <1>4 DEF ReserveUser, Goes, TInv, TypeOK, SendsCounted, Controls
  <2>3. stamps' \in [Calls -> [Grants -> Nat \cup {Never}]]
    <3>1. CASE UNCHANGED stamps
      BY <3>1 DEF TInv, TypeOK
    <3>2. CASE Stamp(c, "user", window)
      BY <3>2, StampTyped DEF TInv, TypeOK, Grants
    <3> QED
      BY <1>4, <3>1, <3>2 DEF ReserveUser
  <2>4. userCount' \in [Users -> Nat]
    BY <1>4, <1>c DEF ReserveUser, TInv, TypeOK
  <2> QED
    BY <1>4, <2>1, <2>2, <2>3, <2>4 DEF ReserveUser, circuit, clock, TInv, TypeOK
<1>5. ASSUME NEW c \in Calls, ReserveGlobal(c) PROVE TInv'
  <2>1. at' \in [Calls -> Stages]
    BY <1>5 DEF ReserveGlobal, Goes, TInv, TypeOK, Stages, Controls, Answers
  <2>2. SendsCounted'
    BY <1>5 DEF ReserveGlobal, Goes, TInv, TypeOK, SendsCounted, Controls
  <2>3. stamps' \in [Calls -> [Grants -> Nat \cup {Never}]]
    <3>1. CASE UNCHANGED stamps
      BY <3>1 DEF TInv, TypeOK
    <3>2. CASE Stamp(c, "global", window)
      BY <3>2, StampTyped DEF TInv, TypeOK, Grants
    <3> QED
      BY <1>5, <3>1, <3>2 DEF ReserveGlobal
  <2> QED
    BY <1>5, <2>1, <2>2, <2>3 DEF ReserveGlobal, circuit, clock, TInv, TypeOK
<1>6. ASSUME NEW c \in Calls, ReserveBudget(c) PROVE TInv'
  <2>1. at' \in [Calls -> Stages]
    BY <1>6 DEF ReserveBudget, Goes, TInv, TypeOK, Stages, Controls, Answers
  <2>2. SendsCounted'
    BY <1>6, <1>c DEF ReserveBudget, Goes, TInv, TypeOK, SendsCounted, Controls
  <2>3. stamps' \in [Calls -> [Grants -> Nat \cup {Never}]]
    <3>1. CASE UNCHANGED stamps
      BY <3>1 DEF TInv, TypeOK
    <3>2. CASE Stamp(c, "budget", day)
      BY <3>2, StampTyped DEF TInv, TypeOK, Grants
    <3> QED
      BY <1>6, <3>1, <3>2 DEF ReserveBudget
  <2> QED
    BY <1>6, <1>c, <2>1, <2>2, <2>3 DEF ReserveBudget, circuit, clock, TInv, TypeOK
<1>7. ASSUME NEW c \in Calls, ProviderAnswers(c) PROVE TInv'
  <2>1. at' \in [Calls -> Stages]
    BY <1>7 DEF ProviderAnswers, Ask, Goes, TInv, TypeOK, Stages, Controls, Answers
  <2>2. SendsCounted'
    BY <1>7 DEF ProviderAnswers, Ask, Goes, TInv, TypeOK, SendsCounted, Controls
  <2>3. attempts' \in [Calls -> 0 .. MaxAttempts]
    BY <1>7, AttemptsTyped DEF ProviderAnswers
  <2> QED
    BY <1>7, <2>1, <2>2, <2>3 DEF ProviderAnswers, Ask, counters, circuit, clock, TInv, TypeOK
<1>8. ASSUME NEW c \in Calls, ProviderUnreachable(c) PROVE TInv'
  <2>1. at' \in [Calls -> Stages]
    BY <1>8 DEF ProviderUnreachable, Ask, Goes, TInv, TypeOK, Stages, Controls, Answers
  <2>2. SendsCounted'
    BY <1>8 DEF ProviderUnreachable, Ask, Goes, TInv, TypeOK, SendsCounted, Controls
  <2>3. attempts' \in [Calls -> 0 .. MaxAttempts]
    BY <1>8, AttemptsTyped DEF ProviderUnreachable
  <2> QED
    BY <1>8, <2>1, <2>2, <2>3 DEF ProviderUnreachable, Ask, counters, circuit, clock, TInv, TypeOK
<1>9. ASSUME NEW c \in Calls, AnswerUnusable(c) PROVE TInv'
  <2>1. at' \in [Calls -> Stages]
    BY <1>9 DEF AnswerUnusable, Ask, Goes, TInv, TypeOK, Stages, Controls, Answers
  <2>2. SendsCounted'
    BY <1>9 DEF AnswerUnusable, Ask, Goes, TInv, TypeOK, SendsCounted, Controls
  <2>3. attempts' \in [Calls -> 0 .. MaxAttempts]
    BY <1>9, AttemptsTyped DEF AnswerUnusable
  <2> QED
    BY <1>9, <2>1, <2>2, <2>3 DEF AnswerUnusable, Ask, counters, circuit, clock, TInv, TypeOK
<1>r. ASSUME NEW c \in Calls, ExchangeRaises(c) PROVE TInv'
  <2>1. at' \in [Calls -> Stages]
    BY <1>r DEF ExchangeRaises, Ask, Goes, TInv, TypeOK, Stages, Controls, Answers
  <2>2. SendsCounted'
    BY <1>r DEF ExchangeRaises, Ask, Goes, TInv, TypeOK, SendsCounted, Controls
  <2>3. attempts' \in [Calls -> 0 .. MaxAttempts]
    BY <1>r, AttemptsTyped DEF ExchangeRaises
  <2> QED
    BY <1>r, <2>1, <2>2, <2>3 DEF ExchangeRaises, Ask, counters, circuit, clock, TInv, TypeOK
<1>10. ASSUME NEW c \in Calls, ClearFailures(c) PROVE TInv'
  <2>1. at' \in [Calls -> Stages]
    BY <1>10 DEF ClearFailures, Goes, TInv, TypeOK, Stages, Controls, Answers
  <2>2. SendsCounted'
    BY <1>10 DEF ClearFailures, Goes, TInv, TypeOK, SendsCounted, Controls
  <2>f. failures' = 0 \/ failures' = failures
    BY <1>10 DEF ClearFailures
  <2>3. failures' \in Nat
    BY <2>f, <1>f
  <2>4. UNCHANGED <<open, openings>>
    BY <1>10 DEF ClearFailures
  <2> QED
    BY <1>10, <2>1, <2>2, <2>3, <2>4 DEF ClearFailures, counters, clock, TInv, TypeOK
<1>11. ASSUME NEW c \in Calls, ClearOpen(c) PROVE TInv'
  <2>1. at' \in [Calls -> Stages]
    BY <1>11 DEF ClearOpen, Goes, TInv, TypeOK, Stages, Controls, Answers
  <2>2. SendsCounted'
    BY <1>11 DEF ClearOpen, Goes, TInv, TypeOK, SendsCounted, Controls
  <2> QED
    BY <1>11, <2>1, <2>2 DEF ClearOpen, counters, clock, TInv, TypeOK
<1>12. ASSUME NEW c \in Calls, StoreResult(c) PROVE TInv'
  <2>1. at' \in [Calls -> Stages]
    BY <1>12 DEF StoreResult, Goes, TInv, TypeOK, Stages, Controls, Answers
  <2>2. SendsCounted'
    BY <1>12 DEF StoreResult, Goes, TInv, TypeOK, SendsCounted, Controls
  <2> QED
    BY <1>12, <1>c, <2>1, <2>2 DEF StoreResult, counters, circuit, clock, TInv, TypeOK
<1>13. ASSUME NEW c \in Calls, CountFailure(c) PROVE TInv'
  <2>1. at' \in [Calls -> Stages]
    BY <1>13 DEF CountFailure, AfterCount, Goes, TInv, TypeOK, Stages, Controls, Answers
  <2>2. SendsCounted'
    BY <1>13 DEF CountFailure, AfterCount, Goes, TInv, TypeOK, SendsCounted, Controls
  <2>f. failures' = 1 \/ failures' = failures
    BY <1>13 DEF CountFailure
  <2>3. failures' \in Nat
    BY <2>f, <1>f
  <2>4. UNCHANGED <<open, openings>>
    BY <1>13 DEF CountFailure
  <2> QED
    BY <1>13, <2>1, <2>2, <2>3, <2>4 DEF CountFailure, AfterCount, counters, clock, TInv, TypeOK
<1>14. ASSUME NEW c \in Calls, CountAgain(c) PROVE TInv'
  <2>1. at' \in [Calls -> Stages]
    BY <1>14 DEF CountAgain, AfterCount, Goes, TInv, TypeOK, Stages, Controls, Answers
  <2>2. SendsCounted'
    BY <1>14 DEF CountAgain, AfterCount, Goes, TInv, TypeOK, SendsCounted, Controls
  <2>f. failures' = failures + 1 \/ failures' = failures
    BY <1>14 DEF CountAgain
  <2>3. failures' \in Nat
    BY <2>f, <1>f
  <2>4. UNCHANGED <<open, openings>>
    BY <1>14 DEF CountAgain
  <2> QED
    BY <1>14, <2>1, <2>2, <2>3, <2>4 DEF CountAgain, AfterCount, counters, clock, TInv, TypeOK
<1>15. ASSUME NEW c \in Calls, OpenCircuit(c) PROVE TInv'
  <2>1. at' \in [Calls -> Stages]
    BY <1>15 DEF OpenCircuit, Goes, TInv, TypeOK, Stages, Controls, Answers
  <2>2. SendsCounted'
    BY <1>15 DEF OpenCircuit, Goes, TInv, TypeOK, SendsCounted, Controls
  <2>3. failures' \in Nat
    BY <1>f, <1>15 DEF OpenCircuit
  <2>o. openings' = openings + 1
    BY <1>15 DEF OpenCircuit
  <2>4. openings' \in Nat
    BY <2>o, <1>o
  <2>5. open' \in BOOLEAN
    BY <1>15 DEF OpenCircuit
  <2> QED
    BY <1>15, <2>1, <2>2, <2>3, <2>4, <2>5 DEF OpenCircuit, counters, clock, TInv, TypeOK
<1>16. ASSUME NEW c \in Calls, DropFailures(c) PROVE TInv'
  <2>1. at' \in [Calls -> Stages]
    BY <1>16 DEF DropFailures, Goes, TInv, TypeOK, Stages, Controls, Answers
  <2>2. SendsCounted'
    BY <1>16 DEF DropFailures, Goes, TInv, TypeOK, SendsCounted, Controls
  <2> QED
    BY <1>16, <2>1, <2>2 DEF DropFailures, counters, clock, TInv, TypeOK
<1>17. ASSUME NEW c \in Calls, RecordingLost(c) PROVE TInv'
  <2>1. at' \in [Calls -> Stages]
    BY <1>17 DEF RecordingLost, Goes, TInv, TypeOK, Stages, Controls, Answers
  <2>2. SendsCounted'
    BY <1>17 DEF RecordingLost, Goes, TInv, TypeOK, SendsCounted, Controls
  <2> QED
    BY <1>17, <2>1, <2>2 DEF RecordingLost, counters, circuit, clock, TInv, TypeOK
<1>18. CASE NewWindow
  BY <1>18, <1>c DEF NewWindow, circuit, TInv, TypeOK, SendsCounted
<1>19. ASSUME NEW t \in Texts, ResponseExpires(t) PROVE TInv'
  BY <1>19 DEF ResponseExpires, counters, circuit, clock, TInv, TypeOK, SendsCounted
<1>20. CASE FailuresExpire
  BY <1>20 DEF FailuresExpire, counters, clock, TInv, TypeOK, SendsCounted
<1>21. CASE CircuitRecovers
  BY <1>21 DEF CircuitRecovers, counters, clock, TInv, TypeOK, SendsCounted
<1>22. CASE UNCHANGED vars
  BY <1>22 DEF vars, counters, circuit, clock, TInv, TypeOK, SendsCounted
<1> QED
  BY <1>1, <1>2, <1>3, <1>4, <1>5, <1>6, <1>7, <1>8, <1>9, <1>r, <1>10, <1>11, <1>12,
     <1>13, <1>14, <1>15, <1>16, <1>17, <1>18, <1>19, <1>20, <1>21, <1>22
  DEF Next, Step

(* Every variable keeps its type; no call is sent more often than configured. *)
THEOREM TypesCorrect == Spec => []TypeOK
<1>1. TInv => TypeOK
  BY DEF TInv
<1> QED
  BY <1>1, TypesInitially, TypesPreserved, PTL DEF Spec

-----------------------------------------------------------------------------
(* A call remembers how often the circuit had opened when it was let through; *)
(* an open circuit has opened since for each call that is on its way.         *)
CInv == OpenCircuitHoldsNewCalls /\ \A c \in Calls : passed[c] <= openings

Passing == {"user", "global", "budget", "provider"}

(* Where nobody is let through and the circuit does not open, nothing of this *)
(* changes.                                                                   *)
LEMMA NobodyLetThrough ==
    ASSUME CInv, UNCHANGED <<passed, openings>>, open' => open,
           \A c \in Calls : at'[c] \in Passing => at[c] \in Passing
    PROVE  CInv'
  BY DEF CInv, OpenCircuitHoldsNewCalls, Passing

LEMMA CircuitPreserved == TInv /\ CInv /\ [Next]_vars => CInv'
<1> SUFFICES ASSUME TInv, CInv, [Next]_vars PROVE CInv'
  OBVIOUS
<1>a. at \in [Calls -> Stages]
  BY DEF TInv, TypeOK
<1>b. openings \in Nat /\ passed \in [Calls -> Nat]
  BY DEF TInv, TypeOK
<1>1. ASSUME NEW c \in Calls, CheckCircuit(c) PROVE CInv'
  BY <1>1, <1>a, <1>b DEF CheckCircuit, Goes, circuit, CInv, OpenCircuitHoldsNewCalls
<1>2. ASSUME NEW c \in Calls, OpenCircuit(c) PROVE CInv'
  <2>1. openings' = openings + 1 /\ passed' = passed
    BY <1>2 DEF OpenCircuit
  <2>2. \A d \in Calls : passed[d] <= openings
    BY DEF CInv
  <2> QED
    BY <2>1, <2>2, <1>b DEF CInv, OpenCircuitHoldsNewCalls
<1>3. ASSUME NEW c \in Calls, StoreDown(c) \/ LookUp(c) \/ RecordingLost(c) PROVE CInv'
  <2>1. \A d \in Calls : at'[d] \in Passing => at[d] \in Passing
    BY <1>3, <1>a DEF StoreDown, LookUp, RecordingLost, Goes, Passing
  <2>2. UNCHANGED <<passed, openings, open>>
    BY <1>3 DEF StoreDown, LookUp, RecordingLost, circuit
  <2> QED
    BY <2>1, <2>2, NobodyLetThrough
<1>4. ASSUME NEW c \in Calls, ReserveUser(c) \/ ReserveGlobal(c) \/ ReserveBudget(c)
      PROVE  CInv'
  <2>1. \A d \in Calls : at'[d] \in Passing => at[d] \in Passing
    BY <1>4, <1>a DEF ReserveUser, ReserveGlobal, ReserveBudget, Goes, Passing
  <2> QED
    BY <1>4, <2>1, NobodyLetThrough DEF ReserveUser, ReserveGlobal, ReserveBudget, circuit
<1>5. ASSUME NEW c \in Calls,
             \/ ProviderAnswers(c) \/ ProviderUnreachable(c)
             \/ AnswerUnusable(c) \/ ExchangeRaises(c)
      PROVE  CInv'
  <2>1. PICK to : Ask(c, to)
    BY <1>5 DEF ProviderAnswers, ProviderUnreachable, AnswerUnusable, ExchangeRaises
  <2>2. \A d \in Calls : at'[d] \in Passing => at[d] \in Passing
    BY <2>1, <1>a DEF Ask, Goes, Passing
  <2> QED
    BY <2>1, <2>2, NobodyLetThrough DEF Ask, circuit
<1>6. ASSUME NEW c \in Calls, ClearFailures(c) \/ ClearOpen(c) \/ StoreResult(c)
      PROVE  CInv'
  <2>1. \A d \in Calls : at'[d] \in Passing => at[d] \in Passing
    BY <1>6, <1>a DEF ClearFailures, ClearOpen, StoreResult, Goes, Passing
  <2>2. open' => open
    BY <1>6 DEF ClearFailures, ClearOpen, StoreResult, circuit
  <2> QED
    BY <1>6, <2>1, <2>2, NobodyLetThrough DEF ClearFailures, ClearOpen, StoreResult, circuit
<1>7. ASSUME NEW c \in Calls, CountFailure(c) \/ CountAgain(c) \/ DropFailures(c)
      PROVE  CInv'
  <2>1. \A d \in Calls : at'[d] \in Passing => at[d] \in Passing
    BY <1>7, <1>a DEF CountFailure, CountAgain, DropFailures, AfterCount, Goes, Passing
  <2>2. UNCHANGED <<passed, openings, open>>
    BY <1>7 DEF CountFailure, CountAgain, DropFailures
  <2> QED
    BY <2>1, <2>2, NobodyLetThrough
<1>8. ASSUME \/ NewWindow \/ \E t \in Texts : ResponseExpires(t)
             \/ FailuresExpire \/ CircuitRecovers \/ UNCHANGED vars
      PROVE  CInv'
  <2>1. UNCHANGED <<at, passed, openings>> /\ (open' => open)
    BY <1>8 DEF NewWindow, ResponseExpires, FailuresExpire, CircuitRecovers, vars, circuit
  <2> QED
    BY <2>1, NobodyLetThrough
<1> QED
  BY <1>1, <1>2, <1>3, <1>4, <1>5, <1>6, <1>7, <1>8 DEF Next, Step

(* An open circuit keeps new calls from the provider, for any number of       *)
(* concurrent calls and whatever commands of the store fail                   *)
(* (_ensure_circuit_closed, _record_llm_failure).                             *)
THEOREM CircuitCorrect == Spec => []OpenCircuitHoldsNewCalls
<1>1. Init => CInv
  BY DEF Init, CInv, OpenCircuitHoldsNewCalls
<1>2. CInv => OpenCircuitHoldsNewCalls
  BY DEF CInv
<1> QED
  BY <1>1, <1>2, TypesInitially, TypesPreserved, CircuitPreserved, PTL DEF Spec

-----------------------------------------------------------------------------
(* The calls a grant was given to at a time.  The counters of the store count *)
(* at least the calls of this window and day, and each grant was compared     *)
(* with its limit after the call was counted.                                 *)
Stamped(grant, time) == {c \in Calls : stamps[c][grant] = time}
StampedOf(u, time) == {c \in Stamped("user", time) : UserOf[c] = u}

GlobalInv ==
    /\ \A c \in Calls : stamps[c]["global"] <= window
    /\ Cardinality(Stamped("global", window)) <= globalCount
    /\ \A w \in 0 .. window : Cardinality(Stamped("global", w)) <= GlobalLimit

UserInv ==
    /\ \A c \in Calls : stamps[c]["user"] <= window
    /\ \A u \in Users :
           /\ Cardinality(StampedOf(u, window)) <= userCount[u]
           /\ \A w \in 0 .. window : Cardinality(StampedOf(u, w)) <= UserLimit

BudgetInv ==
    /\ \A c \in Calls : stamps[c]["budget"] <= day
    /\ Cardinality(Stamped("budget", day)) * Cost <= spent
    /\ \A d \in 0 .. day : Cardinality(Stamped("budget", d)) * Cost <= Budget

LInv == GlobalInv /\ UserInv /\ BudgetInv

(* Sets of calls are finite, and one call more is one more to count. *)
LEMMA CallsCounted ==
    ASSUME NEW S \in SUBSET Calls
    PROVE  /\ IsFiniteSet(S) /\ Cardinality(S) \in Nat
           /\ \A T \in SUBSET S : Cardinality(T) \in Nat /\ Cardinality(T) <= Cardinality(S)
           /\ \A c \in Calls, T \in SUBSET Calls :
                  T \subseteq S \cup {c} => /\ Cardinality(T) \in Nat
                                           /\ Cardinality(T) <= Cardinality(S) + 1
<1>1. IsFiniteSet(S) /\ Cardinality(S) \in Nat
  BY LimitsAssumption, FS_Subset, FS_CardinalityType
<1>2. \A T \in SUBSET S : Cardinality(T) \in Nat /\ Cardinality(T) <= Cardinality(S)
  BY <1>1, FS_Subset, FS_CardinalityType
<1>3. ASSUME NEW c \in Calls, NEW T \in SUBSET Calls, T \subseteq S \cup {c}
      PROVE  Cardinality(T) \in Nat /\ Cardinality(T) <= Cardinality(S) + 1
  <2>1. /\ IsFiniteSet(S \cup {c})
        /\ Cardinality(S \cup {c}) = IF c \in S THEN Cardinality(S) ELSE Cardinality(S) + 1
    BY <1>1, FS_AddElement
  <2>2. Cardinality(T) \in Nat /\ Cardinality(T) <= Cardinality(S \cup {c})
    BY <1>3, <2>1, FS_Subset, FS_CardinalityType
  <2> QED
    BY <1>1, <2>1, <2>2
<1> QED
  BY <1>1, <1>2, <1>3

LEMMA NoCallCounted == Cardinality({}) = 0
  BY FS_EmptySet

(* Fewer calls cost less, and one call more costs Cost more. *)
LEMMA CostGrows ==
    ASSUME NEW m \in Nat, NEW n \in Nat
    PROVE  /\ n <= m => n * Cost <= m * Cost
           /\ n <= m + 1 => n * Cost <= m * Cost + Cost
           /\ n * Cost \in Nat
<1>1. Cost \in Nat
  BY ConstantsTyped
<1> QED
  BY <1>1

(* A grant stamps one call and leaves the other grants alone. *)
LEMMA StampAdds ==
    ASSUME TInv, NEW c \in Calls, NEW g \in Grants, NEW t \in Nat, Stamp(c, g, t)
    PROVE  \A d \in Calls, h \in Grants :
               stamps'[d][h] = IF d = c /\ h = g THEN t ELSE stamps[d][h]
<1>1. stamps \in [Calls -> [Grants -> Nat \cup {Never}]]
  BY DEF TInv, TypeOK
<1> QED
  BY <1>1 DEF Stamp

LEMMA LimitsInitially == Init => LInv
<1> SUFFICES ASSUME Init PROVE LInv
  OBVIOUS
<1>1. \A c \in Calls, g \in Grants : stamps[c][g] = -1
  BY DEF Init, Never
<1>2. \A g \in Grants, t \in Nat : Stamped(g, t) = {}
  BY <1>1 DEF Stamped
<1>3. \A u \in Users, t \in Nat : StampedOf(u, t) = {}
  BY <1>2 DEF StampedOf, Grants
<1>4. window = 0 /\ day = 0 /\ globalCount = 0 /\ spent = 0
  BY DEF Init
<1>5. Cost \in Nat /\ GlobalLimit \in Nat /\ UserLimit \in Nat /\ Budget \in Nat
  BY ConstantsTyped
<1>6. GlobalInv
  BY <1>1, <1>2, <1>4, <1>5, NoCallCounted DEF GlobalInv, Grants
<1>7. UserInv
  BY <1>1, <1>3, <1>4, <1>5, NoCallCounted DEF UserInv, Grants, Init
<1>8. BudgetInv
  <2>1. Cardinality(Stamped("budget", 0)) * Cost = 0
    BY <1>2, <1>5, NoCallCounted DEF Grants
  <2> QED
    BY <1>1, <2>1, <1>4, <1>5 DEF BudgetInv, Grants
<1> QED
  BY <1>6, <1>7, <1>8 DEF LInv

(* Whoever reserves nothing, within one window, changes nothing here. *)
LEMMA NothingReserved ==
    ASSUME LInv, UNCHANGED <<stamps, counters, clock>>
    PROVE  LInv'
  BY DEF LInv, GlobalInv, UserInv, BudgetInv, Stamped, StampedOf, counters, clock

(* The platform's counter. *)
LEMMA GlobalPreserved ==
    ASSUME TInv, LInv, NEW c \in Calls, ReserveGlobal(c)
    PROVE  LInv'
<1>1. window \in Nat /\ day \in Nat /\ globalCount \in Nat
  BY ConstantsTyped DEF TInv, TypeOK
<1>2. UNCHANGED <<userCount, spent, window, day>> /\ globalCount' = globalCount + 1
  BY DEF ReserveGlobal, clock
<1>3. CASE UNCHANGED stamps
  <2>1. Cardinality(Stamped("global", window)) \in Nat
    BY CallsCounted DEF Stamped
  <2>2. GlobalInv'
    BY <1>1, <1>2, <1>3, <2>1 DEF LInv, GlobalInv, Stamped
  <2>3. UserInv' /\ BudgetInv'
    BY <1>2, <1>3 DEF LInv, UserInv, BudgetInv, Stamped, StampedOf
  <2> QED
    BY <2>2, <2>3 DEF LInv
<1>4. CASE Stamp(c, "global", window) /\ globalCount + 1 <= GlobalLimit
  <2>1. \A d \in Calls, h \in Grants :
            stamps'[d][h] = IF d = c /\ h = "global" THEN window ELSE stamps[d][h]
    BY <1>1, <1>4, StampAdds DEF Grants
  <2>2. UserInv' /\ BudgetInv'
    <3>1. \A d \in Calls : /\ stamps'[d]["user"] = stamps[d]["user"]
                           /\ stamps'[d]["budget"] = stamps[d]["budget"]
      BY <2>1 DEF Grants
    <3>2. \A u, w : StampedOf(u, w)' = StampedOf(u, w)
      BY <3>1 DEF StampedOf, Stamped
    <3>3. \A w : Stamped("budget", w)' = Stamped("budget", w)
      BY <3>1 DEF Stamped
    <3> QED
      BY <1>2, <3>1, <3>2, <3>3 DEF LInv, UserInv, BudgetInv
  <2>3. \A w \in 0 .. window : w # window => Stamped("global", w)' \subseteq Stamped("global", w)
    BY <2>1 DEF Stamped, Grants
  <2>4. Stamped("global", window)' \subseteq Stamped("global", window) \cup {c}
    BY <1>2, <2>1 DEF Stamped, Grants
  <2>5. \A w \in 0 .. window : Stamped("global", w) \subseteq Calls /\ Stamped("global", w)' \subseteq Calls
    BY DEF Stamped
  <2>6. Cardinality(Stamped("global", window))' <= globalCount'
    BY <1>1, <1>2, <2>4, <2>5, CallsCounted DEF LInv, GlobalInv
  <2>7. \A w \in 0 .. window : Cardinality(Stamped("global", w))' <= GlobalLimit
    BY <1>1, <1>2, <1>4, <2>3, <2>5, <2>6, ConstantsTyped, CallsCounted DEF LInv, GlobalInv
  <2>8. \A d \in Calls : stamps'[d]["global"] <= window
    BY <1>1, <2>1 DEF LInv, GlobalInv, Grants
  <2> QED
    BY <1>2, <2>2, <2>6, <2>7, <2>8 DEF LInv, GlobalInv
<1> QED
  BY <1>3, <1>4 DEF ReserveGlobal, Granted

(* A citizen's counter. *)
LEMMA UserPreserved ==
    ASSUME TInv, LInv, NEW c \in Calls, ReserveUser(c)
    PROVE  LInv'
<1> DEFINE me == UserOf[c]
<1>1. window \in Nat /\ day \in Nat /\ userCount \in [Users -> Nat] /\ me \in Users
  BY ConstantsTyped DEF TInv, TypeOK
<1>2. /\ UNCHANGED <<globalCount, spent, window, day>>
      /\ \A u \in Users : userCount'[u] = IF u = me THEN userCount[u] + 1 ELSE userCount[u]
  BY <1>1 DEF ReserveUser, clock
<1>3. CASE UNCHANGED stamps
  <2>1. \A u \in Users : Cardinality(StampedOf(u, window)) \in Nat
    BY CallsCounted DEF StampedOf, Stamped
  <2>2. \A u \in Users : \A w : StampedOf(u, w)' = StampedOf(u, w)
    BY <1>3 DEF StampedOf, Stamped
  <2>3. \A u \in Users : Cardinality(StampedOf(u, window)) <= userCount'[u]
    BY <1>1, <1>2, <2>1 DEF LInv, UserInv
  <2>4. UserInv'
    BY <1>2, <1>3, <2>2, <2>3 DEF LInv, UserInv
  <2>5. GlobalInv' /\ BudgetInv'
    BY <1>2, <1>3 DEF LInv, GlobalInv, BudgetInv, Stamped
  <2> QED
    BY <2>4, <2>5 DEF LInv
<1>4. CASE Stamp(c, "user", window) /\ userCount[me] + 1 <= UserLimit
  <2>1. \A d \in Calls, h \in Grants :
            stamps'[d][h] = IF d = c /\ h = "user" THEN window ELSE stamps[d][h]
    BY <1>1, <1>4, StampAdds DEF Grants
  <2>2. GlobalInv' /\ BudgetInv'
    <3>1. \A d \in Calls : /\ stamps'[d]["global"] = stamps[d]["global"]
                           /\ stamps'[d]["budget"] = stamps[d]["budget"]
      BY <2>1 DEF Grants
    <3>2. \A w : /\ Stamped("global", w)' = Stamped("global", w)
                 /\ Stamped("budget", w)' = Stamped("budget", w)
      BY <3>1 DEF Stamped
    <3> QED
      BY <1>2, <3>1, <3>2 DEF LInv, GlobalInv, BudgetInv
  <2>3. ASSUME NEW u \in Users, NEW w \in 0 .. window, u # me \/ w # window
        PROVE  StampedOf(u, w)' \subseteq StampedOf(u, w)
    BY <2>1, <2>3 DEF StampedOf, Stamped, Grants
  <2>4. StampedOf(me, window)' \subseteq StampedOf(me, window) \cup {c}
    BY <1>2, <2>1 DEF StampedOf, Stamped, Grants
  <2>5. \A u, w : StampedOf(u, w) \subseteq Calls /\ StampedOf(u, w)' \subseteq Calls
    BY DEF StampedOf, Stamped
  <2>6. Cardinality(StampedOf(me, window))' <= userCount[me] + 1
    BY <1>1, <1>2, <2>4, <2>5, CallsCounted DEF LInv, UserInv
  <2>7. ASSUME NEW u \in Users
        PROVE  /\ Cardinality(StampedOf(u, window))' <= userCount'[u]
               /\ \A w \in 0 .. window : Cardinality(StampedOf(u, w))' <= UserLimit
    <3>1. ASSUME NEW w \in 0 .. window, u # me \/ w # window
          PROVE  /\ Cardinality(StampedOf(u, w))' <= Cardinality(StampedOf(u, w))
                 /\ Cardinality(StampedOf(u, w))' \in Nat
                 /\ Cardinality(StampedOf(u, w)) \in Nat
      BY <2>3, <2>5, <3>1, CallsCounted
    <3>2. CASE u = me
      <4>1. Cardinality(StampedOf(u, window))' <= userCount'[u]
        BY <1>1, <1>2, <2>6, <3>2
      <4>2. Cardinality(StampedOf(u, window))' <= UserLimit
        BY <1>1, <1>2, <1>4, <2>5, <2>6, <3>2, CallsCounted, ConstantsTyped
      <4>3. \A w \in 0 .. window : w # window => Cardinality(StampedOf(u, w))' <= UserLimit
        BY <1>1, <3>1, ConstantsTyped DEF LInv, UserInv
      <4> QED
        BY <1>2, <4>1, <4>2, <4>3
    <3>3. CASE u # me
      <4>1. window \in 0 .. window
        BY <1>1
      <4>2. Cardinality(StampedOf(u, window))' <= userCount'[u]
        BY <1>1, <1>2, <3>1, <3>3, <4>1 DEF LInv, UserInv
      <4>3. \A w \in 0 .. window : Cardinality(StampedOf(u, w))' <= UserLimit
        BY <1>1, <3>1, <3>3, ConstantsTyped DEF LInv, UserInv
      <4> QED
        BY <4>2, <4>3
    <3> QED
      BY <3>2, <3>3
  <2>8. \A d \in Calls : stamps'[d]["user"] <= window
    BY <1>1, <2>1 DEF LInv, UserInv, Grants
  <2> QED
    BY <1>2, <2>2, <2>7, <2>8 DEF LInv, UserInv
<1> QED
  BY <1>3, <1>4 DEF ReserveUser, Granted

(* The budget of the day. *)
LEMMA BudgetPreserved ==
    ASSUME TInv, LInv, NEW c \in Calls, ReserveBudget(c)
    PROVE  LInv'
<1>1. window \in Nat /\ day \in Nat /\ spent \in Nat /\ Cost \in Nat
  BY ConstantsTyped DEF TInv, TypeOK
<1>2. UNCHANGED <<userCount, globalCount, window, day>> /\ spent' = spent + Cost
  BY DEF ReserveBudget, clock
<1>3. CASE UNCHANGED stamps
  <2>1. Cardinality(Stamped("budget", day)) \in Nat
    BY CallsCounted DEF Stamped
  <2>2. Cardinality(Stamped("budget", day)) * Cost <= spent'
    BY <1>1, <1>2, <2>1, CostGrows DEF LInv, BudgetInv
  <2>3. BudgetInv'
    BY <1>2, <1>3, <2>2 DEF LInv, BudgetInv, Stamped
  <2>4. UserInv' /\ GlobalInv'
    BY <1>2, <1>3 DEF LInv, UserInv, GlobalInv, Stamped, StampedOf
  <2> QED
    BY <2>3, <2>4 DEF LInv
<1>4. CASE Stamp(c, "budget", day) /\ spent + Cost <= Budget
  <2>1. \A d \in Calls, h \in Grants :
            stamps'[d][h] = IF d = c /\ h = "budget" THEN day ELSE stamps[d][h]
    BY <1>1, <1>4, StampAdds DEF Grants
  <2>2. UserInv' /\ GlobalInv'
    <3>1. \A d \in Calls : /\ stamps'[d]["user"] = stamps[d]["user"]
                           /\ stamps'[d]["global"] = stamps[d]["global"]
      BY <2>1 DEF Grants
    <3>2. \A u, w : StampedOf(u, w)' = StampedOf(u, w)
      BY <3>1 DEF StampedOf, Stamped
    <3>3. \A w : Stamped("global", w)' = Stamped("global", w)
      BY <3>1 DEF Stamped
    <3> QED
      BY <1>2, <3>1, <3>2, <3>3 DEF LInv, UserInv, GlobalInv
  <2>3. \A d \in 0 .. day : d # day => Stamped("budget", d)' \subseteq Stamped("budget", d)
    BY <2>1 DEF Stamped, Grants
  <2>4. Stamped("budget", day)' \subseteq Stamped("budget", day) \cup {c}
    BY <1>2, <2>1 DEF Stamped, Grants
  <2>5. \A d : Stamped("budget", d) \subseteq Calls /\ Stamped("budget", d)' \subseteq Calls
    BY DEF Stamped
  <2>6. Cardinality(Stamped("budget", day))' * Cost <= spent + Cost
    <3>1. /\ Cardinality(Stamped("budget", day))' <= Cardinality(Stamped("budget", day)) + 1
          /\ Cardinality(Stamped("budget", day))' \in Nat
          /\ Cardinality(Stamped("budget", day)) \in Nat
      BY <2>4, <2>5, <1>2, CallsCounted
    <3>2. /\ Cardinality(Stamped("budget", day))' * Cost
                 <= Cardinality(Stamped("budget", day)) * Cost + Cost
          /\ Cardinality(Stamped("budget", day))' * Cost \in Nat
          /\ Cardinality(Stamped("budget", day)) * Cost \in Nat
      BY <3>1, CostGrows
    <3>3. Cardinality(Stamped("budget", day)) * Cost <= spent
      BY DEF LInv, BudgetInv
    <3> QED
      BY <1>1, <3>2, <3>3
  <2>7. ASSUME NEW d \in 0 .. day
        PROVE  Cardinality(Stamped("budget", d))' * Cost <= Budget
    <3>1. CASE d = day
      <4>1. Cardinality(Stamped("budget", day))' * Cost \in Nat
        BY <2>5, CallsCounted, CostGrows
      <4> QED
        BY <1>1, <1>2, <1>4, <2>6, <3>1, <4>1, ConstantsTyped
    <3>2. CASE d # day
      <4>1. /\ Cardinality(Stamped("budget", d))' <= Cardinality(Stamped("budget", d))
            /\ Cardinality(Stamped("budget", d))' \in Nat
            /\ Cardinality(Stamped("budget", d)) \in Nat
        BY <2>3, <2>5, <3>2, CallsCounted
      <4>2. /\ Cardinality(Stamped("budget", d))' * Cost <= Cardinality(Stamped("budget", d)) * Cost
            /\ Cardinality(Stamped("budget", d))' * Cost \in Nat
            /\ Cardinality(Stamped("budget", d)) * Cost \in Nat
        BY <4>1, CostGrows
      <4>3. Cardinality(Stamped("budget", d)) * Cost <= Budget
        BY DEF LInv, BudgetInv
      <4> QED
        BY <4>2, <4>3, ConstantsTyped
    <3> QED
      BY <3>1, <3>2
  <2>8. \A d \in Calls : stamps'[d]["budget"] <= day
    BY <1>1, <2>1 DEF LInv, BudgetInv, Grants
  <2> QED
    BY <1>2, <2>2, <2>6, <2>7, <2>8 DEF LInv, BudgetInv
<1> QED
  BY <1>3, <1>4 DEF ReserveBudget, Granted

(* Nothing is stamped with a window or a day that has just begun. *)
LEMMA WindowPreserved ==
    ASSUME TInv, LInv, NewWindow
    PROVE  LInv'
<1>1. window \in Nat /\ day \in Nat /\ Cost \in Nat /\ GlobalLimit \in Nat
      /\ UserLimit \in Nat /\ Budget \in Nat
  BY ConstantsTyped DEF TInv, TypeOK
<1>2. /\ UNCHANGED stamps /\ window' = window + 1
      /\ globalCount' = 0 /\ \A u \in Users : userCount'[u] = 0
  BY DEF NewWindow
<1>3. \A c \in Calls, g \in Grants : stamps[c][g] \in Nat \cup {-1}
  BY DEF TInv, TypeOK, Never
<1>4. GlobalInv'
  <2>1. Stamped("global", window + 1) = {}
    BY <1>1, <1>3 DEF Stamped, LInv, GlobalInv, Grants
  <2>2. \A c \in Calls : stamps[c]["global"] <= window + 1
    BY <1>1, <1>3 DEF LInv, GlobalInv, Grants
  <2>3. \A w \in 0 .. window + 1 : Cardinality(Stamped("global", w)) <= GlobalLimit
    BY <1>1, <2>1, NoCallCounted DEF LInv, GlobalInv
  <2>4. Cardinality({c \in Calls : stamps'[c]["global"] = window'}) <= globalCount'
    <3>1. {c \in Calls : stamps'[c]["global"] = window'} = {}
      BY <1>2, <2>1 DEF Stamped
    <3>2. Cardinality({c \in Calls : stamps'[c]["global"] = window'}) = 0
      BY <3>1, NoCallCounted
    <3> QED
      BY <1>2, <3>2
  <2>5. \A w \in 0 .. window' :
            Cardinality({c \in Calls : stamps'[c]["global"] = w}) <= GlobalLimit
    BY <1>2, <2>3 DEF Stamped
  <2> QED
    BY <1>2, <2>2, <2>4, <2>5 DEF GlobalInv, Stamped
<1>5. UserInv'
  <2>1. \A u \in Users : StampedOf(u, window + 1) = {}
    BY <1>1, <1>3 DEF Stamped, StampedOf, LInv, UserInv, Grants
  <2>2. \A c \in Calls : stamps[c]["user"] <= window + 1
    BY <1>1, <1>3 DEF LInv, UserInv, Grants
  <2>3. \A u \in Users, w \in 0 .. window + 1 : Cardinality(StampedOf(u, w)) <= UserLimit
    BY <1>1, <2>1, NoCallCounted DEF LInv, UserInv
  <2> DEFINE stampedOf(u, w) ==
                 {c \in {d \in Calls : stamps'[d]["user"] = w} : UserOf[c] = u}
  <2>4. \A u \in Users : Cardinality(stampedOf(u, window')) <= userCount'[u]
    BY <1>2, <2>1, NoCallCounted DEF Stamped, StampedOf
  <2>5. \A u \in Users, w \in 0 .. window' : Cardinality(stampedOf(u, w)) <= UserLimit
    BY <1>2, <2>3 DEF Stamped, StampedOf
  <2> QED
    BY <1>2, <2>2, <2>4, <2>5 DEF UserInv, Stamped, StampedOf
<1>6. BudgetInv'
  <2>1. CASE UNCHANGED <<day, spent>>
    BY <1>2, <2>1 DEF LInv, BudgetInv, Stamped
  <2>2. CASE day' = day + 1 /\ spent' = 0
    <3>1. Stamped("budget", day + 1) = {}
      BY <1>1, <1>3 DEF Stamped, LInv, BudgetInv, Grants
    <3>2. \A c \in Calls : stamps[c]["budget"] <= day + 1
      BY <1>1, <1>3 DEF LInv, BudgetInv, Grants
    <3>3. Cardinality(Stamped("budget", day + 1)) * Cost = 0
      <4>1. Cardinality(Stamped("budget", day + 1)) = 0
        BY <3>1, NoCallCounted
      <4>2. 0 * Cost = 0
        BY <1>1
      <4> QED
        BY <4>1, <4>2
    <3>4. \A d \in 0 .. day + 1 : Cardinality(Stamped("budget", d)) * Cost <= Budget
      BY <1>1, <3>3 DEF LInv, BudgetInv
    <3>5. Cardinality({c \in Calls : stamps'[c]["budget"] = day'}) * Cost <= spent'
      BY <1>2, <2>2, <3>3 DEF Stamped
    <3>6. \A d \in 0 .. day' :
              Cardinality({c \in Calls : stamps'[c]["budget"] = d}) * Cost <= Budget
      BY <1>2, <2>2, <3>4 DEF Stamped
    <3> QED
      BY <1>2, <2>2, <3>2, <3>5, <3>6 DEF BudgetInv, Stamped
  <2> QED
    BY <2>1, <2>2 DEF NewWindow
<1> QED
  BY <1>4, <1>5, <1>6 DEF LInv

LEMMA LimitsPreserved == TInv /\ LInv /\ [Next]_vars => LInv'
<1> SUFFICES ASSUME TInv, LInv, [Next]_vars PROVE LInv'
  OBVIOUS
<1>1. ASSUME NEW c \in Calls, ReserveUser(c) \/ ReserveGlobal(c) \/ ReserveBudget(c)
      PROVE  LInv'
  BY <1>1, UserPreserved, GlobalPreserved, BudgetPreserved
<1>2. CASE NewWindow
  BY <1>2, WindowPreserved
<1>3. ASSUME NEW c \in Calls, \/ StoreDown(c) \/ LookUp(c) \/ CheckCircuit(c)
                             \/ ProviderAnswers(c) \/ ProviderUnreachable(c)
                             \/ AnswerUnusable(c) \/ ExchangeRaises(c)
      PROVE  LInv'
  BY <1>3, NothingReserved
  DEF StoreDown, LookUp, CheckCircuit, ProviderAnswers, ProviderUnreachable,
      AnswerUnusable, ExchangeRaises, Ask
<1>4. ASSUME NEW c \in Calls, \/ ClearFailures(c) \/ ClearOpen(c) \/ StoreResult(c)
                             \/ CountFailure(c) \/ CountAgain(c) \/ OpenCircuit(c)
                             \/ DropFailures(c) \/ RecordingLost(c)
      PROVE  LInv'
  BY <1>4, NothingReserved
  DEF ClearFailures, ClearOpen, StoreResult, CountFailure, CountAgain, OpenCircuit,
      DropFailures, RecordingLost
<1>5. ASSUME \/ \E t \in Texts : ResponseExpires(t)
             \/ FailuresExpire \/ CircuitRecovers \/ UNCHANGED vars
      PROVE  LInv'
  BY <1>5, NothingReserved DEF ResponseExpires, FailuresExpire, CircuitRecovers, vars
<1> QED
  BY <1>1, <1>2, <1>3, <1>4, <1>5 DEF Next, Step

(* The calls that were sent are among those that were granted. *)
LEMMA LimitsHold == LInv /\ TInv => WithinLimits
<1> SUFFICES ASSUME LInv, TInv PROVE WithinLimits
  OBVIOUS
<1>0. /\ window \in Nat /\ day \in Nat /\ Cost \in Nat
      /\ GlobalLimit \in Nat /\ UserLimit \in Nat /\ Budget \in Nat
  BY ConstantsTyped DEF TInv, TypeOK
<1>1. ASSUME NEW w \in 0 .. window
      PROVE  Cardinality(GrantedIn("global", w)) <= GlobalLimit
  <2>1. Stamped("global", w) \in SUBSET Calls
        /\ GrantedIn("global", w) \in SUBSET Stamped("global", w)
    BY DEF GrantedIn, Stamped
  <2>2. /\ Cardinality(GrantedIn("global", w)) \in Nat
        /\ Cardinality(Stamped("global", w)) \in Nat
        /\ Cardinality(GrantedIn("global", w)) <= Cardinality(Stamped("global", w))
    BY <2>1, CallsCounted
  <2> QED
    BY <1>0, <2>2 DEF LInv, GlobalInv
<1>2. ASSUME NEW w \in 0 .. window, NEW u \in Users
      PROVE  Cardinality({c \in GrantedIn("user", w) : UserOf[c] = u}) <= UserLimit
  <2> DEFINE sent == {c \in GrantedIn("user", w) : UserOf[c] = u}
  <2>1. StampedOf(u, w) \in SUBSET Calls /\ sent \in SUBSET StampedOf(u, w)
    BY DEF GrantedIn, Stamped, StampedOf
  <2>2. /\ Cardinality(sent) \in Nat /\ Cardinality(StampedOf(u, w)) \in Nat
        /\ Cardinality(sent) <= Cardinality(StampedOf(u, w))
    BY <2>1, CallsCounted
  <2> QED
    BY <1>0, <2>2 DEF LInv, UserInv
<1>3. ASSUME NEW d \in 0 .. day
      PROVE  Cardinality(GrantedIn("budget", d)) * Cost <= Budget
  <2>1. Stamped("budget", d) \in SUBSET Calls
        /\ GrantedIn("budget", d) \in SUBSET Stamped("budget", d)
    BY DEF GrantedIn, Stamped
  <2>2. /\ Cardinality(GrantedIn("budget", d)) \in Nat
        /\ Cardinality(Stamped("budget", d)) \in Nat
        /\ Cardinality(GrantedIn("budget", d)) <= Cardinality(Stamped("budget", d))
    BY <2>1, CallsCounted
  <2>3. /\ Cardinality(GrantedIn("budget", d)) * Cost <= Cardinality(Stamped("budget", d)) * Cost
        /\ Cardinality(GrantedIn("budget", d)) * Cost \in Nat
        /\ Cardinality(Stamped("budget", d)) * Cost \in Nat
    BY <2>2, CostGrows
  <2>4. Cardinality(Stamped("budget", d)) * Cost <= Budget
    BY DEF LInv, BudgetInv
  <2> QED
    BY <1>0, <2>3, <2>4
<1> QED
  BY <1>1, <1>2, <1>3 DEF WithinLimits

(* No interleaving of any number of calls sends more of them in a window or a *)
(* day than the limits and the budget allow (_reserve_llm_call,               *)
(* _reserve_daily_budget).                                                    *)
THEOREM LimitsCorrect == Spec => []WithinLimits
<1> QED
  BY LimitsInitially, LimitsPreserved, LimitsHold, TypesInitially, TypesPreserved, PTL
  DEF Spec

=============================================================================
