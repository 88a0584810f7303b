---------------------------- MODULE IdentityProofs ----------------------------
(* What registrations, codes, profile edits, deletions, sign-ins, resets and  *)
(* the buckets of the sign-in keep, for every number of accounts, addresses   *)
(* and requests in flight.                                                    *)
EXTENDS Identity, SequenceTheorems, FiniteSetTheorems, WellFoundedInduction, TLAPS

-----------------------------------------------------------------------------
(* Contact channels: codes, attempts, verified addresses and deletion.        *)

CodesTyped ==
    /\ codes \in Seq(Code) /\ guesses \in Seq(Nat) /\ Len(guesses) = Len(codes)
    /\ verifying \in [Verifiers -> {None} \cup DOMAIN codes]

AccountsTyped ==
    /\ status \in [Accounts -> {"free", "registered", "deleted"}]
    /\ contact \in [Accounts -> [Channels -> Addresses \cup {None}]]
    /\ verified \in [Accounts -> [Channels -> BOOLEAN]]
    /\ owed \in [Accounts -> [Channels -> Addresses \cup {None}]]
    /\ editing \in [Editors ->
           {None} \cup [account : Accounts, phone : Phones \cup {None}]]

(* The requests that have claimed an attempt of a code and not yet used it. *)
Waiting(i) == {v \in Verifiers : verifying[v] = i}

(* Every comparison, made or still to come, has been counted before. *)
Accounted ==
    \A i \in DOMAIN codes : guesses[i] + Cardinality(Waiting(i)) <= codes[i].attempts

(* What the argument about codes needs to know of a step. *)
LEMMA Bounds ==
    /\ MaxAttempts \in Nat /\ MaxAttempts > 0 /\ IsFiniteSet(Verifiers)
    /\ None \notin Addresses /\ None \notin Nat
  BY BoundsAssumption, NoneAssumption DEF Addresses

LEMMA DomainOfCodes ==
    ASSUME CodesTyped
    PROVE  /\ Len(codes) \in Nat /\ DOMAIN codes = 1 .. Len(codes) /\ DOMAIN guesses = DOMAIN codes
           /\ \A i \in DOMAIN codes : codes[i] \in Code /\ guesses[i] \in Nat
  BY ElementOfSeq DEF CodesTyped

LEMMA IssuedCode ==
    ASSUME CodesTyped, NEW a \in Accounts, NEW c \in Channels, NEW x \in Addresses, Issue(a, c, x),
           UNCHANGED verifying
    PROVE  /\ CodesTyped'
           /\ DOMAIN codes' = DOMAIN codes \cup {Len(codes) + 1}
           /\ codes'[Len(codes) + 1] = NewCode(a, c, x) /\ guesses'[Len(codes) + 1] = 0
           /\ \A i \in DOMAIN codes : codes'[i] = codes[i] /\ guesses'[i] = guesses[i]
           /\ DOMAIN codes = 1 .. Len(codes) /\ Len(codes) \in Nat
<1>1. NewCode(a, c, x) \in Code
  BY Bounds DEF NewCode, Code
<1> QED
  BY <1>1 DEF CodesTyped, Issue

LEMMA ChangedCode ==
    ASSUME CodesTyped, NEW i \in DOMAIN codes, NEW new \in Code, codes' = [codes EXCEPT ![i] = new]
    PROVE  /\ codes' \in Seq(Code) /\ Len(codes') = Len(codes) /\ DOMAIN codes' = DOMAIN codes
           /\ codes'[i] = new
           /\ \A j \in DOMAIN codes : j # i => codes'[j] = codes[j]
  BY DEF CodesTyped

LEMMA Withdrawing ==
    ASSUME CodesTyped, NEW a \in Accounts, codes' = WithoutCodes(a), UNCHANGED <<guesses, verifying>>
    PROVE  /\ CodesTyped' /\ DOMAIN codes' = DOMAIN codes
           /\ \A j \in DOMAIN codes : codes'[j] =
                  IF codes[j].account = a THEN [codes[j] EXCEPT !.stored = FALSE] ELSE codes[j]
<1>1. \A j \in DOMAIN codes : codes[j] \in Code
  BY DomainOfCodes
<1>2. \A j \in DOMAIN codes : [codes[j] EXCEPT !.stored = FALSE] \in Code
  BY <1>1 DEF Code
<1>3. \A j \in DOMAIN codes : codes'[j] \in Code
  BY <1>1, <1>2 DEF WithoutCodes
<1>4. codes' \in Seq(Code) /\ Len(codes') = Len(codes) /\ DOMAIN codes' = DOMAIN codes
  <2>1. codes' = [j \in 1 .. Len(codes) |-> codes'[j]] /\ Len(codes) \in Nat
    BY DomainOfCodes DEF WithoutCodes
  <2>2. \A j \in 1 .. Len(codes) : codes'[j] \in Code
    BY <1>3, DomainOfCodes
  <2> HIDE DEF Code
  <2> QED
    BY <2>1, <2>2, IsASeq, DomainOfCodes
<1> QED
  BY <1>4 DEF CodesTyped, WithoutCodes

(* A comparison. *)
LEMMA ComparedCode ==
    ASSUME CodesTyped, NEW v \in Verifiers, Compared(v)
    PROVE  /\ verifying[v] \in DOMAIN codes
           /\ guesses' \in Seq(Nat) /\ Len(guesses') = Len(guesses)
           /\ guesses'[verifying[v]] = guesses[verifying[v]] + 1
           /\ \A j \in DOMAIN codes : j # verifying[v] => guesses'[j] = guesses[j]
           /\ verifying' \in [Verifiers -> {None} \cup DOMAIN codes]
           /\ verifying' = [verifying EXCEPT ![v] = None]
<1>1. verifying[v] \in DOMAIN codes /\ verifying[v] \in DOMAIN guesses
  BY DomainOfCodes DEF CodesTyped, Compared
<1>2. guesses[verifying[v]] + 1 \in Nat
  BY <1>1, DomainOfCodes
<1> QED
  BY <1>1, <1>2 DEF CodesTyped, Compared

LEMMA NewestExists ==
    ASSUME CodesTyped, NEW a \in Accounts, NEW c \in Channels, CodesOf(a, c) # {}
    PROVE  /\ Max(CodesOf(a, c)) \in CodesOf(a, c)
           /\ \A i \in CodesOf(a, c) : i <= Max(CodesOf(a, c))
<1> DEFINE n == Len(codes)
           Back == {n - i : i \in CodesOf(a, c)}
<1>1. n \in Nat /\ CodesOf(a, c) \subseteq 1 .. n
  BY DomainOfCodes DEF CodesOf
<1>2. Back \subseteq Nat /\ Back # {}
  BY <1>1
<1>3. PICK x \in Back : \A y \in Back : ~(<<y, x>> \in OpToRel(<, Nat))
  <2> HIDE DEF Back
  <2> QED
    BY <1>2, WFMin, NatLessThanWellFounded
<1>4. \A y \in Back : ~(y < x)
  BY <1>2, <1>3 DEF OpToRel
<1>5. PICK i \in CodesOf(a, c) : x = n - i
  BY <1>3
<1>6. \A j \in CodesOf(a, c) : i >= j
  <2> TAKE j \in CodesOf(a, c)
  <2>1. n - j \in Back
    OBVIOUS
  <2>2. ~(n - j < x)
    <3> HIDE DEF Back
    <3> QED
      BY <1>4, <2>1
  <2>3. i \in Nat /\ j \in Nat
    BY <1>1, <1>5
  <2> QED
    BY <1>1, <1>5, <2>2, <2>3
<1>7. /\ Max(CodesOf(a, c)) \in CodesOf(a, c)
      /\ \A j \in CodesOf(a, c) : Max(CodesOf(a, c)) >= j
  BY <1>5, <1>6 DEF Max
<1> QED
  BY <1>1, <1>7

-----------------------------------------------------------------------------
(* Attempts. *)
LEMMA ClaimedOne ==
    ASSUME CodesTyped, NEW v \in Verifiers, NEW i \in DOMAIN codes, verifying[v] = None,
           verifying' = [verifying EXCEPT ![v] = i]
    PROVE  /\ Cardinality(Waiting(i)') = Cardinality(Waiting(i)) + 1
           /\ \A j \in DOMAIN codes : j # i => Waiting(j)' = Waiting(j)
<1>1. i # None /\ None \notin DOMAIN codes
  BY Bounds, DomainOfCodes
<1>2. Waiting(i)' = Waiting(i) \cup {v} /\ v \notin Waiting(i)
  BY <1>1 DEF Waiting, CodesTyped
<1>3. IsFiniteSet(Waiting(i))
  BY FS_Subset, Bounds DEF Waiting
<1>4. \A j \in DOMAIN codes : j # i => Waiting(j)' = Waiting(j)
  BY <1>1 DEF Waiting, CodesTyped
<1> QED
  BY <1>2, <1>3, <1>4, FS_AddElement

LEMMA JudgedOne ==
    ASSUME CodesTyped, NEW v \in Verifiers, Compared(v), NEW i, i = verifying[v]
    PROVE  /\ i \in DOMAIN codes
           /\ Cardinality(Waiting(i)') = Cardinality(Waiting(i)) - 1
           /\ \A j \in DOMAIN codes : j # i => Waiting(j)' = Waiting(j)
<1>1. i \in DOMAIN codes /\ i # None /\ None \notin DOMAIN codes
  BY Bounds, DomainOfCodes, ComparedCode
<1>2. \A j \in DOMAIN codes : Waiting(j)' = Waiting(j) \ {v}
  BY <1>1, ComparedCode DEF Waiting, CodesTyped
<1>3. v \in Waiting(i) /\ \A j \in DOMAIN codes : j # i => v \notin Waiting(j)
  BY DEF Waiting
<1>4. IsFiniteSet(Waiting(i))
  BY FS_Subset, Bounds DEF Waiting
<1>5. Cardinality(Waiting(i) \ {v}) = Cardinality(Waiting(i)) - 1
  BY <1>3, <1>4, FS_RemoveElement
<1> QED
  BY <1>1, <1>2, <1>3, <1>5

LEMMA WaitingCounted ==
    ASSUME NEW i PROVE IsFiniteSet(Waiting(i)) /\ Cardinality(Waiting(i)) \in Nat
  BY FS_Subset, FS_CardinalityType, Bounds DEF Waiting

(* No request waits for a code that has just been made. *)
LEMMA IssuedAccounted ==
    ASSUME CodesTyped, Accounted, NEW a \in Accounts, NEW c \in Channels, NEW x \in Addresses,
           Issue(a, c, x), UNCHANGED verifying
    PROVE  Accounted'
<1>1. PICK n \in Nat : n = Len(codes) + 1
  BY DomainOfCodes
<1>2. \A v \in Verifiers : verifying[v] # n
  BY <1>1, Bounds, DomainOfCodes DEF CodesTyped
<1>3. Waiting(n)' = {} /\ \A i \in Nat : Waiting(i)' = Waiting(i)
  BY <1>2 DEF Waiting
<1>4. Cardinality(Waiting(n)') = 0
  BY <1>3, FS_EmptySet
<1>5. guesses'[n] = 0 /\ codes'[n].attempts = 0
  <2>1. codes'[n] = NewCode(a, c, x) /\ guesses'[n] = 0
    BY <1>1, IssuedCode
  <2> QED
    BY <2>1 DEF NewCode
<1>6. \A i \in DOMAIN codes' : i = n \/ (i \in DOMAIN codes /\ i \in Nat)
  BY <1>1, IssuedCode
<1>7. \A i \in DOMAIN codes :
          guesses'[i] + Cardinality(Waiting(i)') <= codes'[i].attempts
  BY <1>3, <1>6, IssuedCode DEF Accounted
<1>8. \A i \in DOMAIN codes' :
          guesses'[i] + Cardinality(Waiting(i)') <= codes'[i].attempts
  BY <1>4, <1>5, <1>6, <1>7
<1> QED
  BY <1>8 DEF Accounted

LEMMA ClaimTyped ==
    ASSUME CodesTyped, NEW v \in Verifiers, NEW a \in Accounts, NEW c \in Channels,
           ClaimAttempt(v, a, c), NEW i, i = Max(CodesOf(a, c))
    PROVE  /\ CodesTyped' /\ DOMAIN codes' = DOMAIN codes /\ i \in DOMAIN codes
           /\ codes'[i] = [codes[i] EXCEPT !.attempts = @ + 1]
           /\ codes'[i].attempts = codes[i].attempts + 1 /\ codes[i].attempts \in Nat
           /\ \A j \in DOMAIN codes : j # i => codes'[j] = codes[j]
           /\ verifying[v] = None /\ verifying' = [verifying EXCEPT ![v] = i]
<1>1. i \in DOMAIN codes
  BY NewestExists DEF ClaimAttempt, CodesOf
<1>2. codes[i] \in Code /\ codes[i].attempts < MaxAttempts
  BY <1>1, DomainOfCodes DEF ClaimAttempt, IsUsable
<1>3. codes[i].attempts \in 0 .. MaxAttempts
  BY <1>2 DEF Code
<1>4. codes[i].attempts + 1 \in 0 .. MaxAttempts
  BY <1>2, <1>3, Bounds
<1> DEFINE new == [codes[i] EXCEPT !.attempts = @ + 1]
<1>5. new \in Code /\ new.attempts = codes[i].attempts + 1
  BY <1>2, <1>4 DEF Code
<1>6. codes' = [codes EXCEPT ![i] = new]
  BY DEF ClaimAttempt
<1>7. /\ codes' \in Seq(Code) /\ Len(codes') = Len(codes) /\ DOMAIN codes' = DOMAIN codes
      /\ codes'[i] = new /\ \A j \in DOMAIN codes : j # i => codes'[j] = codes[j]
  <2> HIDE DEF new
  <2> QED
    BY <1>1, <1>5, <1>6, ChangedCode
<1>8. /\ verifying[v] = None /\ verifying' = [verifying EXCEPT ![v] = i]
      /\ UNCHANGED guesses
  BY DEF ClaimAttempt, history
<1>9. verifying' \in [Verifiers -> {None} \cup DOMAIN codes]
  BY <1>1, <1>8 DEF CodesTyped
<1> QED
  BY <1>1, <1>3, <1>5, <1>7, <1>8, <1>9 DEF CodesTyped

LEMMA SpendTyped ==
    ASSUME CodesTyped, NEW v \in Verifiers, SpendCode(v)
    PROVE  /\ CodesTyped' /\ DOMAIN codes' = DOMAIN codes /\ verifying[v] \in DOMAIN codes
           /\ \A j \in DOMAIN codes :
                  /\ codes'[j].account = codes[j].account /\ codes'[j].channel = codes[j].channel
                  /\ codes'[j].address = codes[j].address /\ codes'[j].stored = codes[j].stored
                  /\ codes'[j].attempts = codes[j].attempts
<1> DEFINE i == verifying[v]
           new == [codes[i] EXCEPT !.consumed = TRUE]
<1>1. i \in DOMAIN codes /\ codes[i] \in Code
  BY ComparedCode, DomainOfCodes DEF SpendCode
<1>2. new \in Code /\ codes' = [codes EXCEPT ![i] = new]
  BY <1>1 DEF Code, SpendCode
<1>3. /\ new.account = codes[i].account /\ new.channel = codes[i].channel
      /\ new.address = codes[i].address /\ new.stored = codes[i].stored
      /\ new.attempts = codes[i].attempts
  BY <1>1 DEF Code
<1>4. /\ codes' \in Seq(Code) /\ Len(codes') = Len(codes) /\ DOMAIN codes' = DOMAIN codes
      /\ codes'[i] = new /\ \A j \in DOMAIN codes : j # i => codes'[j] = codes[j]
  <2> HIDE DEF new
  <2> QED
    BY <1>1, <1>2, ChangedCode
<1>5. CodesTyped'
  BY <1>4, ComparedCode DEF SpendCode, CodesTyped
<1> QED
  BY <1>1, <1>3, <1>4, <1>5

-----------------------------------------------------------------------------
(* The newest codes of the other channels are the ones there were. *)
RowsOfOthers(a, c) ==
    \A b \in Accounts, d \in Channels :
        <<b, d>> # <<a, c>> /\ CodesOf(b, d) # {}
            => codes'[Max(CodesOf(b, d)')].address = codes[Max(CodesOf(b, d))].address

(* The rows of a channel after each transaction. *)
LEMMA IssuedRows ==
    ASSUME CodesTyped, NEW a \in Accounts, NEW c \in Channels, NEW x \in Addresses,
           Issue(a, c, x), UNCHANGED verifying
    PROVE  /\ \A b \in Accounts, d \in Channels :
                  <<b, d>> # <<a, c>> => CodesOf(b, d)' = CodesOf(b, d)
           /\ Max(CodesOf(a, c)') \in DOMAIN codes'
           /\ codes'[Max(CodesOf(a, c)')].address = x
           /\ RowsOfOthers(a, c)
<1>1. PICK n \in Nat : n = Len(codes) + 1
  BY DomainOfCodes
<1>2. /\ codes'[n] = NewCode(a, c, x) /\ DOMAIN codes' = DOMAIN codes \cup {n}
      /\ \A i \in DOMAIN codes : codes'[i] = codes[i] /\ i \in Nat /\ i < n
  <2>1. \A i \in DOMAIN codes : i \in Nat /\ i < n
    BY <1>1, DomainOfCodes
  <2>2. /\ codes'[n] = NewCode(a, c, x) /\ DOMAIN codes' = DOMAIN codes \cup {n}
        /\ \A i \in DOMAIN codes : codes'[i] = codes[i]
    BY <1>1, IssuedCode
  <2> QED
    BY <2>1, <2>2
<1>3. /\ codes'[n].account = a /\ codes'[n].channel = c
      /\ codes'[n].address = x /\ codes'[n].stored
  BY <1>2 DEF NewCode
<1>4. CodesOf(a, c)' = CodesOf(a, c) \cup {n}
  BY <1>2, <1>3 DEF CodesOf
<1>5. \A i \in CodesOf(a, c)' : n >= i
  BY <1>2, <1>4 DEF CodesOf
<1>6. Max(CodesOf(a, c)') = n
  <2>1. /\ Max(CodesOf(a, c)') \in CodesOf(a, c)'
        /\ \A i \in CodesOf(a, c)' : Max(CodesOf(a, c)') >= i
    BY <1>4, <1>5 DEF Max
  <2> QED
    BY <1>2, <1>4, <1>5, <2>1 DEF CodesOf
<1>7. \A b \in Accounts, d \in Channels :
          <<b, d>> # <<a, c>> => CodesOf(b, d)' = CodesOf(b, d)
  BY <1>2, <1>3 DEF CodesOf
<1>8. RowsOfOthers(a, c)
  <2> SUFFICES ASSUME NEW b \in Accounts, NEW d \in Channels, <<b, d>> # <<a, c>>,
                      CodesOf(b, d) # {}
               PROVE  codes'[Max(CodesOf(b, d)')].address = codes[Max(CodesOf(b, d))].address
    BY DEF RowsOfOthers
  <2>1. Max(CodesOf(b, d)) \in DOMAIN codes
    BY NewestExists DEF CodesOf
  <2> QED
    BY <1>2, <1>7, <2>1
<1> QED
  BY <1>2, <1>3, <1>6, <1>7, <1>8

(* A step that keeps the rows of a code, whatever else it counts in it. *)
RowsKept ==
    /\ DOMAIN codes' = DOMAIN codes
    /\ \A j \in DOMAIN codes :
           /\ codes'[j].account = codes[j].account /\ codes'[j].channel = codes[j].channel
           /\ codes'[j].address = codes[j].address /\ codes'[j].stored = codes[j].stored

LEMMA KeptRows ==
    ASSUME RowsKept, NEW a \in Accounts, NEW c \in Channels
    PROVE  CodesOf(a, c)' = CodesOf(a, c)
  BY DEF RowsKept, CodesOf

(* The newest code of a channel goes to the address the account shows.  What  *)
(* a request that was overtaken wrote is excepted.                            *)
NewestIsContact ==
    \A a \in Accounts, c \in Channels :
        /\ contact[a][c] # None
        /\ <<a, c>> \notin overtaken
        /\ CodesOf(a, c) # {}
        => codes[Max(CodesOf(a, c))].address = contact[a][c]

(* A row of the user table that was never used has nothing under way. *)
FreeHoldNothing ==
    /\ \A a \in Accounts : status[a] = "free" =>
           /\ contact[a] = NoContact /\ verified[a] = Unverified /\ owed[a] = NoContact
           /\ \A c \in Channels : CodesOf(a, c) = {}
    /\ \A e \in Editors : editing[e] # None => status[editing[e].account] # "free"

IInv ==
    /\ CodesTyped
    /\ AccountsTyped
    /\ Accounted
    /\ FreeHoldNothing
    /\ DeletedHoldsNothing
    /\ NewestIsContact
    /\ VerifiedWasProven

LEMMA Initially == Init => IInv
<1> SUFFICES ASSUME Init PROVE IInv
  OBVIOUS
<1>1. codes = <<>> /\ guesses = <<>> /\ DOMAIN codes = {}
  BY DEF Init
<1>2. CodesTyped /\ Accounted
  BY <1>1 DEF Init, CodesTyped, Accounted
<1>3. AccountsTyped
  BY DEF Init, AccountsTyped, NoContact, Unverified
<1>4. \A a \in Accounts, c \in Channels : CodesOf(a, c) = {}
  BY <1>1 DEF CodesOf
<1>5. FreeHoldNothing /\ DeletedHoldsNothing /\ NewestIsContact
  BY <1>4 DEF Init, FreeHoldNothing, DeletedHoldsNothing, NewestIsContact
<1>6. VerifiedWasProven
  BY DEF Init, VerifiedWasProven, Unverified
<1> QED
  BY <1>2, <1>3, <1>5, <1>6 DEF IInv

Given(g) == g \in [Channels -> Addresses \cup {None}]

(* Every code keeps its account, channel, address and row. *)
LEMMA AllRowsKept ==
    ASSUME RowsKept
    PROVE  \A a \in Accounts, c \in Channels : CodesOf(a, c)' = CodesOf(a, c)
  BY KeptRows

LEMMA NewestKept ==
    ASSUME CodesTyped, RowsKept, NEW a \in Accounts, NEW c \in Channels, CodesOf(a, c) # {}
    PROVE  codes'[Max(CodesOf(a, c)')].address = codes[Max(CodesOf(a, c))].address
<1>1. Max(CodesOf(a, c)) \in DOMAIN codes
  BY NewestExists DEF CodesOf
<1> QED
  BY <1>1, KeptRows DEF RowsKept

LEMMA RegisterKeeps ==
    ASSUME IInv, NEW a \in Accounts, NEW given, Given(given), Register(a, given)
    PROVE  IInv'
<1>1. CodesTyped' /\ AccountsTyped'
  BY DEF IInv, CodesTyped, AccountsTyped, Register, Given, history, Channels
<1>2. Accounted'
  BY DEF IInv, Accounted, Waiting, Register, history
<1>3. \A b \in Accounts, c \in Channels : CodesOf(b, c)' = CodesOf(b, c)
  BY AllRowsKept DEF Register, RowsKept
<1>4. /\ status[a] = "free" /\ status'[a] = "registered"
      /\ \A b \in Accounts : b # a => contact'[b] = contact[b] /\ owed'[b] = owed[b]
                                         /\ status'[b] = status[b]
      /\ UNCHANGED <<verified, editing, overtaken, proven, codes>>
  BY DEF IInv, AccountsTyped, Register, history
<1>5. \A e \in Editors : editing[e] # None => editing[e].account \in Accounts
  BY DEF IInv, AccountsTyped
<1>6. FreeHoldNothing'
  BY <1>3, <1>4, <1>5 DEF IInv, FreeHoldNothing
<1>7. DeletedHoldsNothing'
  BY <1>3, <1>4 DEF IInv, DeletedHoldsNothing
<1>8. NewestIsContact'
  BY <1>3, <1>4 DEF IInv, NewestIsContact, FreeHoldNothing
<1>9. VerifiedWasProven'
  BY <1>4 DEF IInv, VerifiedWasProven, FreeHoldNothing, Unverified
<1> QED
  BY <1>1, <1>2, <1>6, <1>7, <1>8, <1>9 DEF IInv

LEMMA SendKeeps ==
    ASSUME IInv, NEW a \in Accounts, NEW c \in Channels, SendRegistrationCode(a, c)
    PROVE  IInv'
<1> DEFINE x == owed[a][c]
<1>1. x \in Addresses /\ Issue(a, c, x) /\ UNCHANGED verifying
  BY DEF IInv, AccountsTyped, SendRegistrationCode
<1>2. CodesTyped' /\ Accounted'
  <2> HIDE DEF x
  <2> QED
    BY <1>1, IssuedCode, IssuedAccounted DEF IInv
<1>3. /\ \A b \in Accounts, d \in Channels :
             <<b, d>> # <<a, c>> => CodesOf(b, d)' = CodesOf(b, d)
      /\ codes'[Max(CodesOf(a, c)')].address = x
      /\ RowsOfOthers(a, c)
  <2> HIDE DEF x
  <2> QED
    BY <1>1, IssuedRows DEF IInv
<1>4. /\ overtaken' = IF contact[a][c] = x THEN overtaken ELSE overtaken \cup {<<a, c>>}
      /\ UNCHANGED <<status, contact, verified, editing, proven>>
      /\ owed' = [owed EXCEPT ![a][c] = None]
  BY DEF SendRegistrationCode
<1>5. AccountsTyped'
  BY <1>4 DEF IInv, AccountsTyped
<1>6. status[a] # "free"
  BY <1>1, Bounds DEF IInv, FreeHoldNothing, NoContact
<1>7. FreeHoldNothing'
  BY <1>3, <1>4, <1>6 DEF IInv, FreeHoldNothing, AccountsTyped
<1>8. DeletedHoldsNothing'
  <2> HIDE DEF x
  <2>1. NoContact[c] = None /\ x # None
    BY <1>1, Bounds DEF NoContact
  <2>2. status[a] = "deleted" => \E d \in Channels : <<a, d>> \in overtaken'
    BY <1>4, <2>1 DEF IInv, DeletedHoldsNothing
  <2>3. \A b \in Accounts \ {a}, d \in Channels : CodesOf(b, d)' = CodesOf(b, d)
    BY <1>3
  <2> QED
    BY <1>4, <2>2, <2>3 DEF IInv, DeletedHoldsNothing
<1>9. NewestIsContact'
  BY <1>3, <1>4 DEF IInv, NewestIsContact, RowsOfOthers
<1>10. VerifiedWasProven'
  BY <1>4 DEF IInv, VerifiedWasProven
<1> QED
  BY <1>2, <1>5, <1>7, <1>8, <1>9, <1>10 DEF IInv

LEMMA DiesKeeps ==
    ASSUME IInv, NEW a \in Accounts, RegistrationDies(a)
    PROVE  IInv'
<1>1. UNCHANGED <<status, contact, verified, codes, verifying, editing, guesses, proven, overtaken>>
  BY DEF RegistrationDies, history
<1>2. \A b \in Accounts, c \in Channels : CodesOf(b, c)' = CodesOf(b, c)
  BY <1>1, AllRowsKept DEF RowsKept
<1>3. AccountsTyped'
  BY <1>1 DEF IInv, AccountsTyped, RegistrationDies, NoContact
<1>4. FreeHoldNothing'
  BY <1>1, <1>2 DEF IInv, FreeHoldNothing, AccountsTyped, RegistrationDies
<1>5. CodesTyped' /\ Accounted'
  BY <1>1 DEF IInv, CodesTyped, Accounted, Waiting
<1>6. DeletedHoldsNothing' /\ NewestIsContact'
  BY <1>1, <1>2 DEF IInv, DeletedHoldsNothing, NewestIsContact
<1>7. VerifiedWasProven'
  BY <1>1 DEF IInv, VerifiedWasProven
<1> QED
  BY <1>3, <1>4, <1>5, <1>6, <1>7 DEF IInv

LEMMA ProvisionKeeps ==
    ASSUME IInv, NEW a \in Accounts, NEW given, Given(given), Provision(a, given)
    PROVE  IInv'
<1> DEFINE x == given["email"]
<1>1. x \in Addresses /\ Issue(a, "email", x) /\ UNCHANGED verifying /\ "email" \in Channels
  BY DEF Provision, Given, Channels
<1>2. CodesTyped' /\ Accounted'
  <2> HIDE DEF x
  <2> QED
    BY <1>1, IssuedCode, IssuedAccounted DEF IInv
<1>3. /\ \A b \in Accounts, d \in Channels :
             <<b, d>> # <<a, "email">> => CodesOf(b, d)' = CodesOf(b, d)
      /\ codes'[Max(CodesOf(a, "email")')].address = x
      /\ RowsOfOthers(a, "email")
  <2> HIDE DEF x
  <2> QED
    BY <1>1, IssuedRows DEF IInv
<1>4. /\ status[a] = "free" /\ status'[a] = "registered" /\ contact'[a] = given
      /\ \A b \in Accounts : b # a => contact'[b] = contact[b] /\ status'[b] = status[b]
      /\ UNCHANGED <<verified, owed, editing, overtaken, proven>>
  BY DEF IInv, AccountsTyped, Provision
<1>5. AccountsTyped'
  BY DEF IInv, AccountsTyped, Provision, Given
<1>6. \A e \in Editors : editing[e] # None => editing[e].account \in Accounts
  BY DEF IInv, AccountsTyped
<1>7. \A b \in Accounts \ {a}, d \in Channels : CodesOf(b, d)' = CodesOf(b, d)
  BY <1>3
<1>8. FreeHoldNothing'
  BY <1>4, <1>6, <1>7 DEF IInv, FreeHoldNothing
<1>9. DeletedHoldsNothing'
  BY <1>4, <1>7 DEF IInv, DeletedHoldsNothing
<1>10. NewestIsContact'
  <2>1. \A d \in Channels \ {"email"} : CodesOf(a, d)' = {}
    BY <1>3, <1>4 DEF IInv, FreeHoldNothing
  <2>2. \A b \in Accounts \ {a}, d \in Channels : CodesOf(b, d) # {} =>
            codes'[Max(CodesOf(b, d)')].address = codes[Max(CodesOf(b, d))].address
    BY <1>3 DEF RowsOfOthers
  <2> QED
    BY <1>3, <1>4, <1>7, <2>1, <2>2 DEF IInv, NewestIsContact
<1>11. VerifiedWasProven'
  BY <1>4 DEF IInv, VerifiedWasProven, FreeHoldNothing, Unverified
<1> QED
  BY <1>2, <1>5, <1>8, <1>9, <1>10, <1>11 DEF IInv

(* Steps that leave accounts alone and keep every row. *)
LEMMA OnlyCodes ==
    ASSUME IInv, RowsKept, UNCHANGED <<status, contact, verified, owed, editing, proven, overtaken>>,
           CodesTyped', Accounted'
    PROVE  IInv'
<1>1. \A b \in Accounts, c \in Channels : CodesOf(b, c)' = CodesOf(b, c)
  BY AllRowsKept
<1>2. AccountsTyped' /\ FreeHoldNothing' /\ DeletedHoldsNothing' /\ VerifiedWasProven'
  BY <1>1 DEF IInv, AccountsTyped, FreeHoldNothing, DeletedHoldsNothing, VerifiedWasProven
<1>3. NewestIsContact'
  BY <1>1, NewestKept DEF IInv, NewestIsContact
<1> QED
  BY <1>2, <1>3 DEF IInv

LEMMA ClaimKeeps ==
    ASSUME IInv, NEW v \in Verifiers, NEW a \in Accounts, NEW c \in Channels, ClaimAttempt(v, a, c)
    PROVE  IInv'
<1>1. PICK i : i = Max(CodesOf(a, c))
  OBVIOUS
<1>2. /\ CodesTyped' /\ DOMAIN codes' = DOMAIN codes /\ i \in DOMAIN codes
      /\ codes'[i] = [codes[i] EXCEPT !.attempts = @ + 1]
      /\ codes'[i].attempts = codes[i].attempts + 1 /\ codes[i].attempts \in Nat
      /\ \A j \in DOMAIN codes : j # i => codes'[j] = codes[j]
      /\ verifying[v] = None /\ verifying' = [verifying EXCEPT ![v] = i]
  BY <1>1, ClaimTyped DEF IInv
<1>3. codes[i] \in Code
  BY <1>2, DomainOfCodes DEF IInv
<1>4. RowsKept
  BY <1>2, <1>3 DEF RowsKept, Code
<1>5. /\ Cardinality(Waiting(i)') = Cardinality(Waiting(i)) + 1
      /\ \A j \in DOMAIN codes : j # i => Waiting(j)' = Waiting(j)
  BY <1>2, ClaimedOne DEF IInv
<1>6. UNCHANGED <<status, contact, verified, owed, editing, proven, overtaken, guesses>>
  BY DEF ClaimAttempt, accountVars, history
<1>7. Accounted'
  <2> SUFFICES ASSUME NEW j \in DOMAIN codes
               PROVE  guesses[j] + Cardinality(Waiting(j)') <= codes'[j].attempts
    BY <1>2, <1>6 DEF Accounted
  <2>1. guesses[j] + Cardinality(Waiting(j)) <= codes[j].attempts
    BY DEF IInv, Accounted
  <2>2. CASE j # i
    BY <1>2, <1>5, <2>1, <2>2
  <2>3. CASE j = i
    <3>1. guesses[i] \in Nat /\ Cardinality(Waiting(i)) \in Nat
      BY <1>2, DomainOfCodes, WaitingCounted DEF IInv
    <3>2. /\ guesses[i] + Cardinality(Waiting(i)) <= codes[i].attempts
          /\ codes'[i].attempts = codes[i].attempts + 1 /\ codes[i].attempts \in Nat
          /\ Cardinality(Waiting(i)') = Cardinality(Waiting(i)) + 1
      BY <1>2, <1>5, <2>1, <2>3
    <3>3. guesses[i] + Cardinality(Waiting(i)') <= codes'[i].attempts
      BY <3>1, <3>2
    <3> QED
      BY <2>3, <3>3
  <2> QED
    BY <2>2, <2>3
<1> QED
  BY <1>2, <1>4, <1>6, <1>7, OnlyCodes

(* A comparison takes the place of the claim that was counted for it. *)
LEMMA ComparedAccounted ==
    ASSUME CodesTyped, Accounted, NEW v \in Verifiers, Compared(v), DOMAIN codes' = DOMAIN codes,
           \A j \in DOMAIN codes : codes'[j].attempts = codes[j].attempts
    PROVE  Accounted'
<1>1. PICK i : i = verifying[v]
  OBVIOUS
<1>2. /\ i \in DOMAIN codes
      /\ Cardinality(Waiting(i)') = Cardinality(Waiting(i)) - 1
      /\ \A j \in DOMAIN codes : j # i => Waiting(j)' = Waiting(j)
  BY <1>1, JudgedOne
<1>3. /\ guesses'[i] = guesses[i] + 1
      /\ \A j \in DOMAIN codes : j # i => guesses'[j] = guesses[j]
  BY <1>1, ComparedCode
<1> SUFFICES ASSUME NEW j \in DOMAIN codes
             PROVE  guesses'[j] + Cardinality(Waiting(j)') <= codes'[j].attempts
  BY DEF Accounted
<1>4. guesses[j] + Cardinality(Waiting(j)) <= codes'[j].attempts
  BY DEF Accounted
<1>5. CASE j # i
  BY <1>2, <1>3, <1>4, <1>5
<1>6. CASE j = i
  <2>1. guesses[i] \in Nat /\ Cardinality(Waiting(i)) \in Nat
    BY <1>2, DomainOfCodes, WaitingCounted
  <2> QED
    BY <1>2, <1>3, <1>4, <1>6, <2>1
<1> QED
  BY <1>5, <1>6

LEMMA RefusedKeeps ==
    ASSUME IInv, NEW v \in Verifiers, RejectAnswer(v) \/ SpendFails(v)
    PROVE  IInv'
<1>1. /\ Compared(v)
      /\ UNCHANGED <<status, contact, verified, owed, codes, editing, proven, overtaken>>
  BY DEF RejectAnswer, SpendFails, accountVars
<1>2. CodesTyped' /\ Accounted'
  BY <1>1, ComparedCode, ComparedAccounted DEF IInv, CodesTyped
<1> QED
  BY <1>1, <1>2, OnlyCodes DEF RowsKept

LEMMA SpendKeeps ==
    ASSUME IInv, NEW v \in Verifiers, SpendCode(v)
    PROVE  IInv'
<1>1. PICK i, a, c : i = verifying[v] /\ a = codes[i].account /\ c = codes[i].channel
  OBVIOUS
<1>2. /\ CodesTyped' /\ DOMAIN codes' = DOMAIN codes /\ i \in DOMAIN codes
      /\ \A j \in DOMAIN codes : codes'[j].attempts = codes[j].attempts
  BY <1>1, SpendTyped DEF IInv
<1>3. RowsKept
  BY SpendTyped DEF IInv, RowsKept
<1>4. Accounted' /\ Compared(v)
  BY <1>2, ComparedAccounted DEF IInv, SpendCode
<1>5. a \in Accounts /\ c \in Channels
  BY <1>1, <1>2, DomainOfCodes DEF IInv, Code
<1>6. /\ codes[i].stored
      /\ verified' = [verified EXCEPT ![a][c] = TRUE]
      /\ proven' = proven \cup {<<a, c, codes[i].address>>}
      /\ overtaken' = IF i = Max(CodesOf(a, c)) THEN overtaken ELSE overtaken \cup {<<a, c>>}
      /\ UNCHANGED <<status, contact, owed, editing>>
  BY <1>1 DEF SpendCode
<1>7. i \in CodesOf(a, c)
  BY <1>1, <1>2, <1>6 DEF CodesOf
<1>8. \A b \in Accounts, d \in Channels : CodesOf(b, d)' = CodesOf(b, d)
  BY <1>3, AllRowsKept
<1>9. AccountsTyped'
  BY <1>5, <1>6 DEF IInv, AccountsTyped
<1>10. FreeHoldNothing'
  BY <1>5, <1>6, <1>7, <1>8 DEF IInv, FreeHoldNothing, AccountsTyped
<1>11. DeletedHoldsNothing'
  <2>1. status[a] = "deleted" => \E d \in Channels : <<a, d>> \in overtaken
    BY <1>5, <1>7 DEF IInv, DeletedHoldsNothing
  <2>2. overtaken \subseteq overtaken' /\ \A b \in Accounts \ {a} : verified'[b] = verified[b]
    BY <1>5, <1>6 DEF IInv, AccountsTyped
  <2> QED
    BY <1>6, <1>8, <2>1, <2>2 DEF IInv, DeletedHoldsNothing
<1>12. NewestIsContact'
  BY <1>3, <1>6, <1>8, NewestKept DEF IInv, NewestIsContact
<1>13. VerifiedWasProven'
  <2> SUFFICES ASSUME NEW b \in Accounts, NEW d \in Channels, verified'[b][d],
                      contact[b][d] # None, <<b, d>> \notin overtaken'
               PROVE  <<b, d, contact[b][d]>> \in proven'
    BY <1>6 DEF VerifiedWasProven
  <2>1. <<b, d>> \notin overtaken
    BY <1>6
  <2>2. CASE b = a /\ d = c
    BY <1>5, <1>6, <1>7, <2>1, <2>2 DEF IInv, NewestIsContact
  <2>3. CASE b # a \/ d # c
    <3>1. verified[b][d]
      BY <1>5, <1>6, <2>3 DEF IInv, AccountsTyped
    <3> QED
      BY <1>6, <2>1, <3>1 DEF IInv, VerifiedWasProven
  <2> QED
    BY <2>2, <2>3
<1> QED
  BY <1>2, <1>4, <1>9, <1>10, <1>11, <1>12, <1>13 DEF IInv

LEMMA CheckKeeps ==
    ASSUME IInv, NEW e \in Editors, NEW a \in Accounts, NEW x \in Phones \cup {None},
           CheckProfile(e, a, x)
    PROVE  IInv'
<1>1. UNCHANGED <<status, contact, verified, owed, codes, verifying, guesses, proven, overtaken>>
  BY DEF CheckProfile, accountVars, history
<1>2. /\ editing' = [editing EXCEPT ![e] = [account |-> a, phone |-> x]]
      /\ status[a] = "registered"
  BY DEF CheckProfile
<1>3. \A b \in Accounts, c \in Channels : CodesOf(b, c)' = CodesOf(b, c)
  BY <1>1, AllRowsKept DEF RowsKept
<1>4. AccountsTyped'
  BY <1>1, <1>2 DEF IInv, AccountsTyped
<1>5. FreeHoldNothing'
  BY <1>1, <1>2, <1>3 DEF IInv, FreeHoldNothing, AccountsTyped
<1>6. CodesTyped' /\ Accounted'
  BY <1>1 DEF IInv, CodesTyped, Accounted, Waiting
<1>7. DeletedHoldsNothing' /\ NewestIsContact' /\ VerifiedWasProven'
  BY <1>1, <1>3 DEF IInv, DeletedHoldsNothing, NewestIsContact, VerifiedWasProven
<1> QED
  BY <1>4, <1>5, <1>6, <1>7 DEF IInv

LEMMA ConflictKeeps ==
    ASSUME IInv, NEW e \in Editors, SaveConflicts(e)
    PROVE  IInv'
<1>1. UNCHANGED <<status, contact, verified, owed, codes, verifying, guesses, proven, overtaken>>
  BY DEF SaveConflicts, accountVars, history
<1>2. editing' = [editing EXCEPT ![e] = None]
  BY DEF SaveConflicts
<1>3. \A b \in Accounts, c \in Channels : CodesOf(b, c)' = CodesOf(b, c)
  BY <1>1, AllRowsKept DEF RowsKept
<1>4. AccountsTyped' /\ FreeHoldNothing'
  BY <1>1, <1>2, <1>3 DEF IInv, AccountsTyped, FreeHoldNothing
<1>5. CodesTyped' /\ Accounted'
  BY <1>1 DEF IInv, CodesTyped, Accounted, Waiting
<1>6. DeletedHoldsNothing' /\ NewestIsContact' /\ VerifiedWasProven'
  BY <1>1, <1>3 DEF IInv, DeletedHoldsNothing, NewestIsContact, VerifiedWasProven
<1> QED
  BY <1>4, <1>5, <1>6 DEF IInv

LEMMA SaveKeeps ==
    ASSUME IInv, NEW e \in Editors, SaveProfile(e)
    PROVE  IInv'
<1>1. PICK a, x : a = editing[e].account /\ x = editing[e].phone
  OBVIOUS
<1>2. /\ a \in Accounts /\ x \in Phones \cup {None} /\ status[a] # "free"
      /\ x \in Addresses \cup {None}
  BY <1>1 DEF IInv, AccountsTyped, FreeHoldNothing, SaveProfile, Addresses
<1>3. /\ contact' = [contact EXCEPT ![a]["phone"] = x]
      /\ verified' = [verified EXCEPT ![a]["phone"] = FALSE]
      /\ proven' = {p \in proven : p[1] # a \/ p[2] # "phone"}
      /\ overtaken' = IF status[a] = "deleted" THEN overtaken \cup {<<a, "phone">>}
                      ELSE overtaken \ {<<a, "phone">>}
      /\ IF x = None THEN UNCHANGED <<codes, guesses>> ELSE Issue(a, "phone", x)
      /\ editing' = [editing EXCEPT ![e] = None]
      /\ UNCHANGED <<status, owed, verifying>>
  BY <1>1 DEF SaveProfile, Withdrawn
<1>4. "phone" \in Channels
  BY DEF Channels
<1>5. AccountsTyped'
  BY <1>2, <1>3, <1>4 DEF IInv, AccountsTyped
<1>6. CodesTyped' /\ Accounted'
  <2>1. CASE x = None
    BY <1>3, <2>1 DEF IInv, CodesTyped, Accounted, Waiting
  <2>2. CASE x # None
    BY <1>2, <1>3, <1>4, <2>2, IssuedCode, IssuedAccounted DEF IInv
  <2> QED
    BY <2>1, <2>2
<1>7. \A b \in Accounts, d \in Channels : <<b, d>> # <<a, "phone">> =>
          /\ CodesOf(b, d)' = CodesOf(b, d)
          /\ CodesOf(b, d) # {} =>
                 codes'[Max(CodesOf(b, d)')].address = codes[Max(CodesOf(b, d))].address
  <2>1. CASE x = None
    BY <1>3, <2>1, AllRowsKept, NewestKept DEF IInv, RowsKept
  <2>2. CASE x # None
    BY <1>2, <1>3, <1>4, <2>2, IssuedRows DEF IInv, RowsOfOthers
  <2> QED
    BY <2>1, <2>2
<1>8. x # None => codes'[Max(CodesOf(a, "phone")')].address = x
  BY <1>2, <1>3, <1>4, IssuedRows DEF IInv
<1>9. FreeHoldNothing'
  BY <1>2, <1>3, <1>7 DEF IInv, FreeHoldNothing, AccountsTyped
<1>10. DeletedHoldsNothing'
  <2>1. status[a] = "deleted" => <<a, "phone">> \in overtaken'
    BY <1>3
  <2>2. \A b \in Accounts \ {a} : /\ contact'[b] = contact[b] /\ verified'[b] = verified[b]
                                 /\ \A d \in Channels : /\ CodesOf(b, d)' = CodesOf(b, d)
                                                        /\ <<b, d>> \in overtaken' <=> <<b, d>> \in overtaken
    BY <1>2, <1>3, <1>7 DEF IInv, AccountsTyped
  <2> QED
    BY <1>3, <1>4, <2>1, <2>2 DEF IInv, DeletedHoldsNothing
<1>11. NewestIsContact'
  <2> SUFFICES ASSUME NEW b \in Accounts, NEW d \in Channels, contact'[b][d] # None,
                      <<b, d>> \notin overtaken', CodesOf(b, d)' # {}
               PROVE  codes'[Max(CodesOf(b, d)')].address = contact'[b][d]
    BY DEF NewestIsContact
  <2>1. CASE b = a /\ d = "phone"
    BY <1>2, <1>3, <1>4, <1>8, <2>1 DEF IInv, AccountsTyped
  <2>2. CASE <<b, d>> # <<a, "phone">>
    <3>1. contact'[b][d] = contact[b][d] /\ <<b, d>> \notin overtaken
      BY <1>2, <1>3, <1>4, <2>2 DEF IInv, AccountsTyped
    <3> QED
      BY <1>7, <2>2, <3>1 DEF IInv, NewestIsContact
  <2> QED
    BY <2>1, <2>2
<1>12. VerifiedWasProven'
  <2> SUFFICES ASSUME NEW b \in Accounts, NEW d \in Channels, verified'[b][d],
                      contact'[b][d] # None, <<b, d>> \notin overtaken'
               PROVE  <<b, d, contact'[b][d]>> \in proven'
    BY DEF VerifiedWasProven
  <2>1. <<b, d>> # <<a, "phone">>
    BY <1>2, <1>3, <1>4 DEF IInv, AccountsTyped
  <2>2. contact'[b][d] = contact[b][d] /\ <<b, d>> \notin overtaken /\ verified[b][d]
    BY <1>2, <1>3, <1>4, <2>1 DEF IInv, AccountsTyped
  <2>3. <<b, d, contact[b][d]>> \in proven
    BY <2>2 DEF IInv, VerifiedWasProven
  <2> QED
    BY <1>3, <2>1, <2>2, <2>3
<1> QED
  BY <1>5, <1>6, <1>9, <1>10, <1>11, <1>12 DEF IInv

LEMMA AnonymizeKeeps ==
    ASSUME IInv, NEW a \in Accounts, Anonymize(a)
    PROVE  IInv'
<1>1. /\ status[a] = "registered" /\ status' = [status EXCEPT ![a] = "deleted"]
      /\ contact' = [contact EXCEPT ![a] = NoContact]
      /\ verified' = [verified EXCEPT ![a] = Unverified]
      /\ codes' = WithoutCodes(a)
      /\ UNCHANGED <<owed, verifying, editing, guesses, proven, overtaken>>
  BY DEF Anonymize, history
<1>2. /\ CodesTyped' /\ DOMAIN codes' = DOMAIN codes
      /\ \A j \in DOMAIN codes : codes'[j] =
             IF codes[j].account = a THEN [codes[j] EXCEPT !.stored = FALSE] ELSE codes[j]
  BY <1>1, Withdrawing DEF IInv
<1>3. \A j \in DOMAIN codes :
          /\ codes'[j].account = codes[j].account /\ codes'[j].channel = codes[j].channel
          /\ codes'[j].address = codes[j].address /\ codes'[j].attempts = codes[j].attempts
          /\ codes'[j].stored <=> codes[j].stored /\ codes[j].account # a
  BY <1>2, DomainOfCodes DEF IInv, Code
<1>4. /\ \A c \in Channels : CodesOf(a, c)' = {}
      /\ \A b \in Accounts \ {a}, c \in Channels : CodesOf(b, c)' = CodesOf(b, c)
  BY <1>2, <1>3 DEF CodesOf
<1>5. Accounted'
  BY <1>1, <1>2, <1>3 DEF IInv, Accounted, Waiting
<1>6. AccountsTyped'
  BY <1>1 DEF IInv, AccountsTyped, NoContact, Unverified
<1>7. FreeHoldNothing' /\ DeletedHoldsNothing'
  BY <1>1, <1>4 DEF IInv, FreeHoldNothing, DeletedHoldsNothing, AccountsTyped
<1>8. NewestIsContact'
  <2> SUFFICES ASSUME NEW b \in Accounts, NEW c \in Channels, contact'[b][c] # None,
                      <<b, c>> \notin overtaken, CodesOf(b, c)' # {}
               PROVE  codes'[Max(CodesOf(b, c)')].address = contact'[b][c]
    BY <1>1 DEF NewestIsContact
  <2>1. b # a /\ CodesOf(b, c)' = CodesOf(b, c)
    BY <1>4
  <2>2. contact'[b] = contact[b]
    BY <1>1, <2>1 DEF IInv, AccountsTyped
  <2>3. Max(CodesOf(b, c)) \in DOMAIN codes
    BY <2>1, NewestExists DEF IInv, CodesOf
  <2> QED
    BY <1>3, <2>1, <2>2, <2>3 DEF IInv, NewestIsContact
<1>9. VerifiedWasProven'
  BY <1>1 DEF IInv, VerifiedWasProven, AccountsTyped, Unverified
<1> QED
  BY <1>2, <1>5, <1>6, <1>7, <1>8, <1>9 DEF IInv

-----------------------------------------------------------------------------
LEMMA Stepwise == IInv /\ [Next]_vars => IInv'
<1> SUFFICES ASSUME IInv, [Next]_vars PROVE IInv'
  OBVIOUS
<1>1. ASSUME NEW a \in Accounts, NEW mail \in Emails \cup {None}, NEW phone \in Phones \cup {None}
      PROVE  Given([c \in Channels |-> IF c = "email" THEN mail ELSE phone])
  BY DEF Given, Addresses
<1>2. CASE \E a \in Accounts, mail \in Emails \cup {None}, phone \in Phones \cup {None} :
               Register(a, [c \in Channels |-> IF c = "email" THEN mail ELSE phone])
  BY <1>1, <1>2, RegisterKeeps
<1>3. CASE \E a \in Accounts, mail \in Emails, phone \in Phones \cup {None} :
               Provision(a, [c \in Channels |-> IF c = "email" THEN mail ELSE phone])
  BY <1>1, <1>3, ProvisionKeeps
<1>4. CASE \E a \in Accounts, c \in Channels : SendRegistrationCode(a, c)
  BY <1>4, SendKeeps
<1>5. CASE \E a \in Accounts : RegistrationDies(a)
  BY <1>5, DiesKeeps
<1>6. CASE \E v \in Verifiers, a \in Accounts, c \in Channels : ClaimAttempt(v, a, c)
  BY <1>6, ClaimKeeps
<1>7. CASE \E v \in Verifiers : RejectAnswer(v) \/ SpendFails(v)
  BY <1>7, RefusedKeeps
<1>8. CASE \E v \in Verifiers : SpendCode(v)
  BY <1>8, SpendKeeps
<1>9. CASE \E e \in Editors, a \in Accounts, phone \in Phones \cup {None} : CheckProfile(e, a, phone)
  BY <1>9, CheckKeeps
<1>10. CASE \E e \in Editors : SaveProfile(e)
  BY <1>10, SaveKeeps
<1>11. CASE \E e \in Editors : SaveConflicts(e)
  BY <1>11, ConflictKeeps
<1>12. CASE \E a \in Accounts : Anonymize(a)
  BY <1>12, AnonymizeKeeps
<1>13. CASE UNCHANGED vars
  <2>1. UNCHANGED <<status, contact, verified, owed, codes, verifying, editing, guesses,
                    proven, overtaken>>
    BY <1>13 DEF vars, accountVars, history
  <2> QED
    BY <2>1, OnlyCodes DEF IInv, RowsKept, CodesTyped, Accounted, Waiting
<1> QED
  BY <1>2, <1>3, <1>4, <1>5, <1>6, <1>7, <1>8, <1>9, <1>10, <1>11, <1>12, <1>13 DEF Next

(* The inductive invariant holds in every reachable state of verify_code,     *)
(* update_profile, register and anonymize_account.                            *)
THEOREM ContactsCorrect == Spec => []IInv
  BY Initially, Stepwise, PTL DEF Spec

(* For every number of requests guessing at once and every MAX_ATTEMPTS: a    *)
(* code is compared with at most MAX_ATTEMPTS answers.                        *)
THEOREM AttemptsCorrect == Spec => []AttemptsBounded
<1>1. IInv => AttemptsBounded
  <2> SUFFICES ASSUME IInv, NEW i \in DOMAIN codes PROVE guesses[i] <= MaxAttempts
    BY DEF AttemptsBounded
  <2>1. guesses[i] + Cardinality(Waiting(i)) <= codes[i].attempts
    BY DEF IInv, Accounted
  <2>2. codes[i] \in Code /\ guesses[i] \in Nat
    BY DomainOfCodes DEF IInv
  <2>3. codes[i].attempts \in 0 .. MaxAttempts
    BY <2>2 DEF Code
  <2>4. Cardinality(Waiting(i)) \in Nat
    BY WaitingCounted
  <2> QED
    BY <2>1, <2>2, <2>3, <2>4, Bounds
<1> QED
  BY <1>1, ContactsCorrect, PTL

(* An account that was deleted holds no address, no verified channel and no   *)
(* code, whatever was in flight when anonymize_account committed.             *)
THEOREM DeletionCorrect == Spec => []DeletedHoldsNothing
<1>1. IInv => DeletedHoldsNothing
  BY DEF IInv
<1> QED
  BY <1>1, ContactsCorrect, PTL

(* A channel shown as verified is one whose own address a right code came     *)
(* back from, however edits, codes and answers interleave (verify_code,       *)
(* update_profile).                                                           *)
THEOREM VerificationCorrect == Spec => []VerifiedWasProven
<1>1. IInv => VerifiedWasProven
  BY DEF IInv
<1> QED
  BY <1>1, ContactsCorrect, PTL

-----------------------------------------------------------------------------
(* Sign-in: sessions and snapshots.                                           *)

AccountRowsTyped ==
    /\ standing \in [Users -> {"active", "blocked"}]
    /\ known \in [Users -> BOOLEAN] /\ flag \in [Users -> BOOLEAN]
    /\ password \in [Users -> Nat]
    /\ device \in [Users -> {"none", "pending", "confirmed"}]
    /\ blocks \in [Users -> 0 .. MaxBlocks]

SessionsTyped ==
    /\ session \in [Browsers -> SI!Session]
    /\ signing \in [Browsers -> {None} \cup SI!Snapshot]

(* A sign-in in flight that will be asked for no second factor, though one    *)
(* was demanded of its account, finds that device still there, unless the     *)
(* account has been deleted.                                                  *)
SnapshotFactor ==
    \A b \in Browsers :
        (/\ signing[b] # None /\ signing[b].demanded
         /\ ~signing[b].second /\ ~signing[b].flag)
            => device[signing[b].user] = "confirmed" \/ ~known[signing[b].user]

SessionFactor ==
    \A b \in Browsers :
        LET full == session[b].full IN
            full # None /\ full.demanded => full.second \/ ~known[full.user]

SessionInv ==
    /\ AccountRowsTyped /\ SessionsTyped
    /\ SnapshotFactor /\ SessionFactor /\ SI!NoSessionFromBeforeABlock

LEMMA SessionsInitially == SI!Init => SessionInv
<1> SUFFICES ASSUME SI!Init PROVE SessionInv
  OBVIOUS
<1>1. AccountRowsTyped /\ SessionsTyped
  BY IdentityAssumption
     DEF SI!SignInAssumption, SI!Init, SI!NoSession, SI!Session, AccountRowsTyped, SessionsTyped
<1>2. SnapshotFactor /\ SessionFactor /\ SI!NoSessionFromBeforeABlock
  BY DEF SI!Init, SI!NoSession, SnapshotFactor, SessionFactor, SI!NoSessionFromBeforeABlock
<1> QED
  BY <1>1, <1>2 DEF SessionInv

(* What django_login leaves in the session of a browser. *)
LEMMA LoginWritten ==
    ASSUME SessionInv, NEW b \in Browsers, signing[b] # None,
           NEW new, new = SI!LoggedIn(b, signing[b])
    PROVE  /\ new \in SI!Session
           /\ new.full \in {session[b].full, SI!NewFull(signing[b])}
<1>1. signing[b] \in SI!Snapshot /\ session[b] \in SI!Session /\ AccountRowsTyped
  BY DEF SessionInv, SessionsTyped
<1>2. MaxBlocks \in Nat
  BY IdentityAssumption DEF SI!SignInAssumption
<1>3. SI!NewFull(signing[b]) \in SI!Full
  BY <1>1, <1>2 DEF SI!NewFull, SI!Full, SI!Snapshot, AccountRowsTyped
<1> DEFINE f == SI!NewFull(signing[b])
<1>4. /\ [session[b] EXCEPT !.full = f] \in SI!Session
      /\ [session[b] EXCEPT !.full = f].full = f
      /\ [SI!NoSession EXCEPT !.full = f] \in SI!Session
      /\ [SI!NoSession EXCEPT !.full = f].full = f
  <2> HIDE DEF f
  <2> QED
    BY <1>1, <1>3 DEF SI!Session, SI!NoSession, f
<1>5. \/ new = session[b]
      \/ new = [session[b] EXCEPT !.full = f]
      \/ new = [SI!NoSession EXCEPT !.full = f]
  BY DEF SI!LoggedIn
<1> HIDE DEF f
<1>6. new \in SI!Session /\ new.full \in {session[b].full, f}
  BY <1>1, <1>4, <1>5
<1> QED
  BY <1>6 DEF f

(* A sign-in that writes its session, at once or after the second factor.  It *)
(* may leave the full session as it was; a new one is of the snapshot.        *)
LEMMA SessionWritten ==
    ASSUME SessionInv, NEW b \in Browsers, SI!StartSession(b) \/ SI!VerifyCode(b)
    PROVE  SessionInv'
<1> DEFINE u == signing[b].user
<1>1. PICK new \in SI!Session :
         /\ session' = [session EXCEPT ![b] = new]
         /\ \/ new.full = session[b].full
            \/ /\ new.full = SI!NewFull(signing[b])
               /\ signing[b].second
                    \/ (~signing[b].flag /\ device[signing[b].user] # "confirmed")
  <2>1. /\ signing[b] # None /\ signing[b] \in SI!Snapshot /\ session[b] \in SI!Session
        /\ SI!LoggedIn(b, signing[b]) \in SI!Session
        /\ SI!LoggedIn(b, signing[b]).full \in {session[b].full, SI!NewFull(signing[b])}
    BY LoginWritten DEF SI!StartSession, SI!VerifyCode, SessionInv, SessionsTyped
  <2>2. CASE SI!VerifyCode(b)
    BY <2>1, <2>2 DEF SI!VerifyCode
  <2>3. CASE SI!StartSession(b) /\ SI!RequiresTwoFactor(signing[b].flag, signing[b].user)
    <3> DEFINE p == [user |-> signing[b].user, demanded |-> signing[b].demanded]
               new == [session[b] EXCEPT !.partial = p]
    <3>1. p \in SI!Partial
      BY <2>1 DEF SI!Partial, SI!Snapshot
    <3>2. new \in SI!Session /\ new.full = session[b].full
      <4> HIDE DEF p
      <4> QED
        BY <2>1, <3>1 DEF SI!Session
    <3>3. session' = [session EXCEPT ![b] = new]
      BY <2>3 DEF SI!StartSession
    <3> HIDE DEF new
    <3> QED
      BY <3>2, <3>3
  <2>4. CASE SI!StartSession(b) /\ ~SI!RequiresTwoFactor(signing[b].flag, signing[b].user)
    BY <2>1, <2>4 DEF SI!StartSession, SI!RequiresTwoFactor
  <2> QED
    BY <2>2, <2>3, <2>4
<1>2. /\ signing[b] # None /\ signing[b] \in SI!Snapshot
      /\ signing' = [signing EXCEPT ![b] = None]
      /\ UNCHANGED <<standing, known, flag, password, blocks>>
      /\ device' = device \/ device' = [device EXCEPT ![u] = "confirmed"]
  BY DEF SI!StartSession, SI!VerifyCode, SI!accounts, SessionInv, SessionsTyped
<1>3. /\ session'[b] = new
      /\ \A d \in Browsers : d # b => session'[d] = session[d]
  BY <1>1 DEF SessionInv, SessionsTyped
<1>4. AccountRowsTyped' /\ SessionsTyped'
  BY <1>1, <1>2 DEF SessionInv, AccountRowsTyped, SessionsTyped
<1>5. SnapshotFactor'
  <2> SUFFICES ASSUME NEW d \in Browsers, signing'[d] # None, signing'[d].demanded,
                      ~signing'[d].second, ~signing'[d].flag
               PROVE  device'[signing'[d].user] = "confirmed" \/ ~known'[signing'[d].user]
    BY DEF SnapshotFactor
  <2>1. signing'[d] = signing[d] /\ signing[d].user \in Users
    BY <1>2 DEF SessionInv, SessionsTyped, SI!Snapshot
  <2>2. device[signing[d].user] = "confirmed" \/ ~known[signing[d].user]
    BY <2>1 DEF SessionInv, SnapshotFactor
  <2>3. device[signing[d].user] = "confirmed" => device'[signing[d].user] = "confirmed"
    BY <1>2, <2>1 DEF SessionInv, AccountRowsTyped
  <2> QED
    BY <1>2, <2>1, <2>2, <2>3
<1>6. SessionFactor'
  <2> SUFFICES ASSUME NEW d \in Browsers, session'[d].full # None, session'[d].full.demanded
               PROVE  session'[d].full.second \/ ~known'[session'[d].full.user]
    BY DEF SessionFactor
  <2>1. CASE session'[d].full = session[d].full
    BY <1>2, <2>1 DEF SessionInv, SessionFactor
  <2>2. CASE session'[d].full # session[d].full
    <3>1. /\ d = b /\ session'[d].full = SI!NewFull(signing[b])
          /\ signing[b].second \/ (~signing[b].flag /\ device[signing[b].user] # "confirmed")
      BY <1>1, <1>3, <2>2
    <3>2. /\ session'[d].full.user = signing[b].user
          /\ session'[d].full.demanded = signing[b].demanded
          /\ session'[d].full.second = signing[b].second
      <4>1. session'[d].full = SI!NewFull(signing[b])
        BY <3>1
      <4>2. /\ SI!NewFull(signing[b]).user = signing[b].user
            /\ SI!NewFull(signing[b]).demanded = signing[b].demanded
            /\ SI!NewFull(signing[b]).second = signing[b].second
        BY Zenon DEF SI!NewFull
      <4> QED
        BY <4>1, <4>2
    <3>3. CASE signing[b].second
      BY <3>2, <3>3
    <3>4. CASE ~signing[b].second
      <4>1. ~known[signing[b].user]
        BY <1>2, <3>1, <3>2, <3>4 DEF SessionInv, SnapshotFactor
      <4> QED
        BY <1>2, <3>2, <4>1
    <3> QED
      BY <3>3, <3>4
  <2> QED
    BY <2>1, <2>2
<1>7. SI!NoSessionFromBeforeABlock'
  <2> SUFFICES ASSUME NEW d \in Browsers, session'[d].full # None
               PROVE  session'[d].full.blocks = blocks'[session'[d].full.user]
    BY DEF SI!NoSessionFromBeforeABlock
  <2>1. CASE session'[d].full = session[d].full
    BY <1>2, <2>1 DEF SessionInv, SI!NoSessionFromBeforeABlock
  <2>2. CASE session'[d].full # session[d].full
    BY <1>1, <1>2, <1>3, <2>2 DEF SI!NewFull
  <2> QED
    BY <2>1, <2>2
<1> QED
  BY <1>4, <1>5, <1>6, <1>7 DEF SessionInv

(* An account loaded for the first or the second step of a sign-in. *)
LEMMA SnapshotTaken ==
    ASSUME SessionInv, NEW b \in Browsers,
           SI!ResolvePartial(b) \/ \E u \in Users : SI!CheckPassword(b, u)
    PROVE  SessionInv'
<1>1. UNCHANGED <<standing, known, flag, password, device, blocks, session>>
  BY DEF SI!ResolvePartial, SI!CheckPassword, SI!accounts
<1>2. PICK snap \in SI!Snapshot :
         /\ signing' = [signing EXCEPT ![b] = snap]
         /\ \/ snap.second
            \/ snap.demanded /\ ~snap.flag => device[snap.user] = "confirmed"
  <2>1. CASE SI!ResolvePartial(b)
    <3> DEFINE s == session[b].partial
               snap == [user |-> s.user, hash |-> password[s.user], flag |-> flag[s.user],
                        demanded |-> s.demanded, second |-> TRUE]
    <3>1. s \in SI!Partial
      BY <2>1 DEF SI!ResolvePartial, SI!Resolves, SI!Session, SessionInv, SessionsTyped
    <3>2. snap \in SI!Snapshot /\ snap.second
      BY <3>1 DEF SI!Partial, SI!Snapshot, SessionInv, AccountRowsTyped
    <3>3. signing' = [signing EXCEPT ![b] = snap]
      BY <2>1 DEF SI!ResolvePartial
    <3> QED
      BY <3>2, <3>3
  <2>2. ASSUME NEW u \in Users, SI!CheckPassword(b, u)
        PROVE  \E snap \in SI!Snapshot :
                 /\ signing' = [signing EXCEPT ![b] = snap]
                 /\ \/ snap.second
                    \/ snap.demanded /\ ~snap.flag => device[snap.user] = "confirmed"
    <3> DEFINE snap == [user |-> u, hash |-> password[u], flag |-> flag[u],
                        demanded |-> flag[u] \/ device[u] = "confirmed", second |-> FALSE]
    <3>1. snap \in SI!Snapshot
      BY DEF SI!Snapshot, SessionInv, AccountRowsTyped
    <3>2. snap.demanded /\ ~snap.flag => device[snap.user] = "confirmed"
      OBVIOUS
    <3>3. signing' = [signing EXCEPT ![b] = snap]
      BY <2>2 DEF SI!CheckPassword
    <3> HIDE DEF snap
    <3> QED
      BY <3>1, <3>2, <3>3
  <2> QED
    BY <2>1, <2>2
<1>3. AccountRowsTyped' /\ SessionsTyped'
  BY <1>1, <1>2 DEF SessionInv, AccountRowsTyped, SessionsTyped
<1>4. SnapshotFactor'
  BY <1>1, <1>2 DEF SessionInv, SessionsTyped, SnapshotFactor
<1>5. SessionFactor' /\ SI!NoSessionFromBeforeABlock'
  BY <1>1 DEF SessionInv, SessionFactor, SI!NoSessionFromBeforeABlock
<1> QED
  BY <1>3, <1>4, <1>5 DEF SessionInv

(* Steps that write no session, take no snapshot, and unlock no account of a  *)
(* device: they may drop sessions and snapshots.                              *)
LEMMA SessionsDropped ==
    ASSUME SessionInv, AccountRowsTyped',
           \A b \in Browsers : /\ session'[b] \in {SI!NoSession, session[b]}
                               /\ signing'[b] \in {None, signing[b]},
           session' \in [Browsers -> SI!Session],
           signing' \in [Browsers -> {None} \cup SI!Snapshot],
           \A u \in Users : device[u] = "confirmed" => device'[u] = "confirmed" \/ ~known'[u],
           \A u \in Users : ~known[u] => ~known'[u],
           \A u \in Users : blocks'[u] = blocks[u]
               \/ \A b \in Browsers : session'[b].full # None => session'[b].full.user # u
    PROVE  SessionInv'
<1>1. \A b \in Browsers : /\ session[b] \in SI!Session
                          /\ signing[b] # None => signing[b] \in SI!Snapshot
  BY DEF SessionInv, SessionsTyped
<1>2. \A b \in Browsers : /\ session[b].full # None => session[b].full.user \in Users
                          /\ signing[b] # None => signing[b].user \in Users
  BY <1>1 DEF SI!Session, SI!Full, SI!Snapshot
<1>0. \A b \in Browsers : session'[b].full # None => session'[b].full = session[b].full
  BY DEF SI!NoSession
<1>3. SnapshotFactor'
  BY <1>2 DEF SessionInv, SnapshotFactor
<1>4. SessionFactor'
  BY <1>0, <1>2 DEF SessionInv, SessionFactor
<1>5. SI!NoSessionFromBeforeABlock'
  BY <1>0, <1>2 DEF SessionInv, SI!NoSessionFromBeforeABlock
<1> QED
  BY <1>3, <1>4, <1>5 DEF SessionInv, SessionsTyped

(* revoke_all_sessions leaves no full session of the account. *)
LEMMA SessionsRevoked ==
    ASSUME SessionInv, NEW u \in Users, session' = SI!Revoked(u)
    PROVE  /\ session' \in [Browsers -> SI!Session]
           /\ \A b \in Browsers : /\ session'[b] \in {SI!NoSession, session[b]}
                                  /\ session'[b].full # None => session'[b].full.user # u
<1>1. SI!NoSession \in SI!Session /\ SI!NoSession.full = None
  BY DEF SI!NoSession, SI!Session
<1> QED
  BY <1>1 DEF SI!Revoked, SessionInv, SessionsTyped

LEMMA SessionsStepwise == SessionInv /\ [SI!Next]_(SI!vars) => SessionInv'
<1> SUFFICES ASSUME SessionInv, [SI!Next]_(SI!vars) PROVE SessionInv'
  OBVIOUS
<1>0. AccountRowsTyped /\ SessionsTyped /\ MaxBlocks \in Nat
  BY IdentityAssumption DEF SI!SignInAssumption, SessionInv
<1>1. CASE UNCHANGED <<standing, known, flag, password, device, blocks, session, signing>>
  BY <1>0, <1>1, SessionsDropped DEF AccountRowsTyped, SessionsTyped
<1>2. ASSUME NEW b \in Browsers, SI!CodeRefused(b) \/ SI!EndSession(b)
      PROVE  SessionInv'
  <2>1. SI!NoSession \in SI!Session
    BY DEF SI!NoSession, SI!Session
  <2> QED
    BY <1>0, <1>2, <2>1, SessionsDropped
       DEF SI!CodeRefused, SI!EndSession, SI!accounts, AccountRowsTyped, SessionsTyped
<1>3. ASSUME NEW b \in Browsers, SI!EnrollDevice(b) \/ SI!ConfirmDevice(b)
      PROVE  SessionInv'
  <2>1. /\ UNCHANGED <<standing, known, flag, password, blocks, session, signing>>
        /\ \E u : /\ device[u] # "confirmed"
                  /\ \E d \in {"pending", "confirmed"} : device' = [device EXCEPT ![u] = d]
    BY <1>3 DEF SI!EnrollDevice, SI!ConfirmDevice
  <2> QED
    BY <1>0, <2>1, SessionsDropped DEF AccountRowsTyped, SessionsTyped
<1>4. ASSUME NEW u \in Users, NEW resulting \in {"active", "blocked"}, NEW flagged \in BOOLEAN,
             SI!UpdateByAdmin(u, resulting, flagged)
      PROVE  SessionInv'
  <2>1. /\ standing' = [standing EXCEPT ![u] = resulting] /\ flag' = [flag EXCEPT ![u] = flagged]
        /\ UNCHANGED <<known, password, device, signing>>
        /\ \/ UNCHANGED <<session, blocks>>
           \/ /\ session' = SI!Revoked(u)
              /\ blocks[u] < MaxBlocks /\ blocks' = [blocks EXCEPT ![u] = @ + 1]
    BY <1>4 DEF SI!UpdateByAdmin, SI!EndsSessions
  <2>2. AccountRowsTyped'
    BY <1>0, <2>1 DEF AccountRowsTyped
  <2>3. CASE UNCHANGED <<session, blocks>>
    BY <1>0, <2>1, <2>2, <2>3, SessionsDropped DEF SessionsTyped
  <2>4. CASE session' = SI!Revoked(u) /\ blocks' = [blocks EXCEPT ![u] = @ + 1]
    <3>1. \A v \in Users \ {u} : blocks'[v] = blocks[v]
      BY <1>0, <2>4 DEF AccountRowsTyped
    <3> QED
      BY <1>0, <2>1, <2>2, <2>4, <3>1, SessionsDropped, SessionsRevoked DEF SessionsTyped
  <2> QED
    BY <2>1, <2>3, <2>4
<1>5. ASSUME NEW u \in Users, SI!DeleteAccount(u)
      PROVE  SessionInv'
  <2>1. /\ standing' = [standing EXCEPT ![u] = "blocked"] /\ known' = [known EXCEPT ![u] = FALSE]
        /\ device' = [device EXCEPT ![u] = "none"] /\ session' = SI!Revoked(u)
        /\ blocks[u] < MaxBlocks /\ blocks' = [blocks EXCEPT ![u] = @ + 1]
        /\ UNCHANGED <<flag, password, signing>>
    BY <1>5 DEF SI!DeleteAccount
  <2>2. AccountRowsTyped'
    BY <1>0, <2>1 DEF AccountRowsTyped
  <2>3. \A v \in Users \ {u} : /\ blocks'[v] = blocks[v] /\ device'[v] = device[v]
                               /\ known'[v] = known[v]
    BY <1>0, <2>1 DEF AccountRowsTyped
  <2>4. known'[u] = FALSE
    BY <1>0, <2>1 DEF AccountRowsTyped
  <2> QED
    BY <1>0, <2>1, <2>2, <2>3, <2>4, SessionsDropped, SessionsRevoked DEF SessionsTyped
<1>6. ASSUME NEW r \in Resetters, SI!SpendToken(r)
      PROVE  SessionInv'
  <2>1. PICK u : /\ password' = [password EXCEPT ![u] = @ + 1] /\ session' = SI!Revoked(u)
                 /\ UNCHANGED <<standing, known, flag, device, blocks, signing>>
    BY <1>6 DEF SI!SpendToken
  <2>2. AccountRowsTyped'
    <3>1. CASE u \in Users
      BY <1>0, <2>1, <3>1 DEF AccountRowsTyped
    <3>2. CASE u \notin Users
      BY <1>0, <2>1, <3>2 DEF AccountRowsTyped
    <3> QED
      BY <3>1, <3>2
  <2>3. /\ session' \in [Browsers -> SI!Session]
        /\ \A b \in Browsers : session'[b] \in {SI!NoSession, session[b]}
    BY <1>0, <2>1 DEF SI!Revoked, SI!NoSession, SI!Session, SessionsTyped
  <2> QED
    BY <1>0, <2>1, <2>2, <2>3, SessionsDropped DEF SessionsTyped
<1> QED
  BY <1>1, <1>2, <1>3, <1>4, <1>5, <1>6, SessionWritten, SnapshotTaken
     DEF SI!Next, SI!vars, SI!accounts, SI!RetireTokens, SI!CreateToken, SI!ClaimToken, SI!ResetRefused

-----------------------------------------------------------------------------
(* Sign-in: reset tokens.                                                     *)

TokenRow == [user : Users, attempts : 0 .. MaxTries, consumed : BOOLEAN]

ResetInv ==
    /\ tokens \in Seq(TokenRow) /\ uses \in Seq(Nat) /\ Len(uses) = Len(tokens)
    /\ resetting \in [Resetters -> {None} \cup DOMAIN tokens]
    /\ \A i \in DOMAIN tokens : uses[i] <= 1 /\ (uses[i] = 0 \/ tokens[i].consumed)

LEMMA TokensStepwise == ResetInv /\ [SI!Next]_(SI!vars) => ResetInv'
<1> SUFFICES ASSUME ResetInv, [SI!Next]_(SI!vars) PROVE ResetInv'
  OBVIOUS
<1>0. /\ DOMAIN tokens = 1 .. Len(tokens) /\ DOMAIN uses = DOMAIN tokens /\ Len(tokens) \in Nat
      /\ \A i \in DOMAIN tokens : tokens[i] \in TokenRow /\ uses[i] \in Nat
      /\ MaxTries \in Nat /\ MaxTries > 0
  BY ElementOfSeq, IdentityAssumption DEF ResetInv, SI!SignInAssumption
<1>1. CASE UNCHANGED <<tokens, uses, resetting>>
  BY <1>1 DEF ResetInv
<1>2. ASSUME NEW u \in Users, SI!RetireTokens(u) PROVE ResetInv'
  <2>1. /\ tokens' = [i \in DOMAIN tokens |-> IF tokens[i].user = u
                        THEN [tokens[i] EXCEPT !.consumed = TRUE] ELSE tokens[i]]
        /\ UNCHANGED <<uses, resetting>>
    BY <1>2 DEF SI!RetireTokens
  <2>2. \A i \in DOMAIN tokens : tokens'[i] \in TokenRow /\ (tokens[i].consumed => tokens'[i].consumed)
    BY <1>0, <2>1 DEF TokenRow
  <2> HIDE DEF TokenRow
  <2>3. tokens' \in Seq(TokenRow) /\ Len(tokens') = Len(tokens) /\ DOMAIN tokens' = DOMAIN tokens
    BY <1>0, <2>1, <2>2, IsASeq, LenProperties
  <2> QED
    BY <1>0, <2>1, <2>2, <2>3 DEF ResetInv
<1>3. ASSUME NEW u \in Users, SI!CreateToken(u) PROVE ResetInv'
  <2> DEFINE row == [user |-> u, attempts |-> 0, consumed |-> FALSE]
  <2>1. /\ tokens' = Append(tokens, row) /\ uses' = Append(uses, 0) /\ UNCHANGED resetting
    BY <1>3 DEF SI!CreateToken
  <2>2. row \in TokenRow
    BY <1>0 DEF TokenRow
  <2> HIDE DEF row, TokenRow
  <2>3. /\ tokens' \in Seq(TokenRow) /\ Len(tokens') = Len(tokens) + 1
        /\ DOMAIN tokens' = 1 .. Len(tokens) + 1
        /\ \A i \in 1 .. Len(tokens) : tokens'[i] = tokens[i]
    BY <1>0, <2>1, <2>2 DEF ResetInv
  <2>4. /\ uses' \in Seq(Nat) /\ Len(uses') = Len(tokens) + 1 /\ uses'[Len(tokens) + 1] = 0
        /\ \A i \in 1 .. Len(tokens) : uses'[i] = uses[i]
    BY <1>0, <2>1 DEF ResetInv
  <2> QED
    BY <1>0, <2>1, <2>3, <2>4 DEF ResetInv
<1>4. ASSUME NEW r \in Resetters, NEW i \in DOMAIN tokens, SI!ClaimToken(r, i) PROVE ResetInv'
  <2>1. /\ tokens[i].attempts < MaxTries
        /\ tokens' = [tokens EXCEPT ![i] = [tokens[i] EXCEPT !.attempts = @ + 1]]
        /\ resetting' = [resetting EXCEPT ![r] = i] /\ UNCHANGED uses
    BY <1>4 DEF SI!ClaimToken, SI!IsUsable
  <2> DEFINE row == [tokens[i] EXCEPT !.attempts = @ + 1]
  <2>2. row \in TokenRow /\ row.consumed = tokens[i].consumed
    BY <1>0, <2>1 DEF TokenRow
  <2>3. tokens' = [tokens EXCEPT ![i] = row]
    BY <2>1
  <2> HIDE DEF row, TokenRow
  <2>4. tokens' \in Seq(TokenRow) /\ Len(tokens') = Len(tokens) /\ DOMAIN tokens' = DOMAIN tokens
        /\ \A j \in DOMAIN tokens : tokens'[j].consumed = tokens[j].consumed
    BY <1>0, <2>2, <2>3 DEF ResetInv
  <2> QED
    BY <1>0, <2>1, <2>4 DEF ResetInv
<1>5. ASSUME NEW r \in Resetters, SI!SpendToken(r) PROVE ResetInv'
  <2> DEFINE i == resetting[r]
             row == [tokens[i] EXCEPT !.consumed = TRUE]
  <2>1. /\ i \in DOMAIN tokens /\ ~tokens[i].consumed /\ tokens' = [tokens EXCEPT ![i] = row]
        /\ uses' = [uses EXCEPT ![i] = @ + 1] /\ resetting' = [resetting EXCEPT ![r] = None]
    BY <1>5 DEF SI!SpendToken, SI!StillUsable, SI!IsUsable, ResetInv
  <2>2. row \in TokenRow /\ row.consumed
    BY <1>0, <2>1 DEF TokenRow
  <2>3. uses[i] = 0
    BY <2>1 DEF ResetInv
  <2> HIDE DEF i, row, TokenRow
  <2>4. tokens' \in Seq(TokenRow) /\ Len(tokens') = Len(tokens) /\ DOMAIN tokens' = DOMAIN tokens
        /\ tokens'[i].consumed /\ \A j \in DOMAIN tokens : j # i => tokens'[j] = tokens[j]
    BY <1>0, <2>1, <2>2 DEF ResetInv
  <2>5. uses' \in Seq(Nat) /\ Len(uses') = Len(uses) /\ uses'[i] = 1
        /\ \A j \in DOMAIN tokens : j # i => uses'[j] = uses[j]
    BY <1>0, <2>1, <2>3 DEF ResetInv
  <2> QED
    BY <1>0, <2>1, <2>4, <2>5 DEF ResetInv
<1>6. ASSUME NEW r \in Resetters, SI!ResetRefused(r) PROVE ResetInv'
  BY <1>6 DEF SI!ResetRefused, ResetInv
<1> QED
  BY <1>1, <1>2, <1>3, <1>4, <1>5, <1>6
     DEF SI!Next, SI!vars, SI!resets, SI!CheckPassword, SI!StartSession, SI!ResolvePartial,
         SI!VerifyCode, SI!CodeRefused, SI!EnrollDevice, SI!ConfirmDevice, SI!EndSession,
         SI!UpdateByAdmin, SI!DeleteAccount

(* reset_password checks the token again under its lock: whatever requests    *)
(* are in flight with one token, it changes the password once.                *)
THEOREM ResetsCorrect == SI!Spec => []TokenChangesPasswordOnce
<1>1. SI!Init => ResetInv
  BY DEF SI!Init, ResetInv
<1>2. ResetInv => TokenChangesPasswordOnce
  BY DEF ResetInv, TokenChangesPasswordOnce, SI!TokenChangesPasswordOnce
<1> QED
  BY <1>1, <1>2, TokensStepwise, PTL DEF SI!Spec

(* LoginView and the two-factor endpoints, for any number of accounts and     *)
(* browsers: a session that works has passed the factor that was demanded.    *)
THEOREM FactorsCorrect == SI!Spec => []DemandedFactorPassed
<1>1. SessionInv => DemandedFactorPassed
  BY DEF SessionInv, SessionFactor, SI!Works, DemandedFactorPassed, SI!DemandedFactorPassed
<1> QED
  BY <1>1, SessionsInitially, SessionsStepwise, PTL DEF SI!Spec

(* update_user_by_admin and anonymize_account revoke by the resulting status: *)
(* no full session of the account is left from before a block.                *)
THEOREM BlocksCorrect == SI!Spec => []NoSessionFromBeforeABlock
<1>1. SessionInv => NoSessionFromBeforeABlock
  BY DEF SessionInv, NoSessionFromBeforeABlock
<1> QED
  BY <1>1, SessionsInitially, SessionsStepwise, PTL DEF SI!Spec

-----------------------------------------------------------------------------
(* The buckets: what is counted since the last stale write is still in the    *)
(* list or has left the window of something that is, so that a request which  *)
(* found room in the list it read saw everything its window holds.            *)

Length == Multiplier * Unit

BucketsTyped ==
    /\ stage \in [Requests -> TH!Buckets \cup {"password", "signed in", "failed", "limited"}]
    /\ asked \in [Requests -> {TH!Never} \cup 0 .. MaxTime]
    /\ base \in [Requests -> SUBSET TH!Entry]
    /\ bucket \in [TH!Buckets -> SUBSET TH!Entry]
    /\ counted \in [TH!Buckets -> SUBSET TH!Entry]
    /\ fresh \in [TH!Buckets -> SUBSET TH!Entry]
    /\ overlaps \in [TH!Buckets -> Nat]
    /\ now \in 0 .. MaxTime

ListsFinite ==
    /\ \A b \in TH!Buckets : IsFiniteSet(bucket[b]) /\ IsFiniteSet(counted[b])
    /\ \A r \in Requests : IsFiniteSet(base[r])

(* What a request between its two commands knows of the list it has read. *)
Judged(r) ==
    asked[r] # TH!Never =>
        /\ stage[r] \in TH!Buckets /\ asked[r] <= now
        /\ Cardinality(TH!Current(base[r], asked[r])) < BucketLimit[stage[r]]
        /\ \A e \in base[r] : e.at <= asked[r]

Listed(b) ==
    /\ \A e \in bucket[b] : e.at <= now
    /\ fresh[b] \subseteq counted[b]
    /\ \A e \in fresh[b] : e \in bucket[b] \/ \E x \in bucket[b] : e.at <= x.at - Length

Bounded(b) ==
    \A t \in Int :
        /\ Cardinality(TH!Within(fresh[b], t)) <= BucketLimit[b]
        /\ Cardinality(TH!Within(counted[b] \ fresh[b], t)) <= BucketLimit[b] * overlaps[b]

BucketInv ==
    /\ BucketsTyped /\ ListsFinite
    /\ \A r \in Requests : Judged(r)
    /\ \A b \in TH!Buckets : Listed(b) /\ Bounded(b)

LEMMA Rates ==
    /\ Length \in Nat /\ Length > 0 /\ TH!Duration = Length
    /\ BucketLimit \in [TH!Buckets -> Nat] /\ MaxTime \in Nat
    /\ \A b \in TH!Buckets : BucketLimit[b] > 0
<1>1. Multiplier \in Nat /\ Multiplier > 0 /\ Unit \in Nat /\ Unit > 0
  BY IdentityAssumption DEF TH!RateAssumption
<1>2. Multiplier * Unit \in Nat /\ Multiplier * Unit > 0
  BY <1>1
<1> QED
  BY <1>2, IdentityAssumption DEF TH!RateAssumption, TH!Buckets, TH!Duration, Length

LEMMA SameCount == ASSUME NEW S PROVE TH!Cardinality(S) = Cardinality(S)
  BY DEF TH!Cardinality, Cardinality

LEMMA Times ==
    ASSUME BucketsTyped
    PROVE  /\ now \in Int /\ now <= now
           /\ \A r \in Requests : asked[r] \in Int
           /\ \A r \in Requests : asked[r] # TH!Never => asked[r] \in 0 .. MaxTime
           /\ \A e \in TH!Entry : e.at \in Int
<1>1. MaxTime \in Nat /\ TH!Never \in Int
  BY Rates DEF TH!Never
<1>2. now \in 0 .. MaxTime /\ \A r \in Requests : asked[r] \in {TH!Never} \cup 0 .. MaxTime
  BY DEF BucketsTyped
<1>3. \A e \in TH!Entry : e.at \in 0 .. MaxTime
  BY DEF TH!Entry
<1> QED
  BY <1>1, <1>2, <1>3

LEMMA BucketsInitially == TH!Init => BucketInv
<1> SUFFICES ASSUME TH!Init PROVE BucketInv
  OBVIOUS
<1>1. BucketsTyped
  BY Rates DEF TH!Init, BucketsTyped, TH!Buckets
<1>2. ListsFinite
  BY FS_EmptySet DEF TH!Init, ListsFinite
<1>3. \A r \in Requests : Judged(r)
  BY DEF TH!Init, Judged
<1>4. ASSUME NEW b \in TH!Buckets PROVE Listed(b) /\ Bounded(b)
  <2>1. Listed(b)
    BY DEF TH!Init, Listed
  <2>2. ASSUME NEW t \in Int
        PROVE  TH!Within(fresh[b], t) = {} /\ TH!Within(counted[b] \ fresh[b], t) = {}
    BY DEF TH!Init, TH!Within
  <2>3. 0 <= BucketLimit[b] /\ 0 <= BucketLimit[b] * overlaps[b]
    <3>1. BucketLimit[b] \in Nat /\ overlaps[b] = 0
      BY Rates DEF TH!Init
    <3> QED
      BY <3>1
  <2>4. Bounded(b)
    BY <2>2, <2>3, FS_EmptySet DEF Bounded
  <2> QED
    BY <2>1, <2>4
<1> QED
  BY <1>1, <1>2, <1>3, <1>4 DEF BucketInv

(* A request looks at its list: the list it keeps had room for it. *)
LEMMA ReadKeeps ==
    ASSUME BucketInv, NEW r \in Requests, NEW b \in TH!Buckets, TH!Read(r, b)
    PROVE  BucketInv'
<1>1. /\ stage[r] = b /\ asked[r] = TH!Never
      /\ UNCHANGED <<bucket, now, counted, overlaps, fresh>>
      /\ \/ stage' = [stage EXCEPT ![r] = TH!NextStage[b]] /\ UNCHANGED <<asked, base>>
         \/ /\ Cardinality(TH!Current(bucket[b], now)) < BucketLimit[b]
            /\ asked' = [asked EXCEPT ![r] = now] /\ base' = [base EXCEPT ![r] = bucket[b]]
            /\ UNCHANGED stage
  <2> DEFINE n == Cardinality(TH!Current(bucket[b], now))
  <2>1. n \in Nat /\ BucketLimit[b] \in Nat
    <3>1. IsFiniteSet(TH!Current(bucket[b], now))
      BY FS_Subset DEF BucketInv, ListsFinite, TH!Current
    <3> QED
      BY <3>1, FS_CardinalityType, Rates
  <2>2. /\ stage[r] = b /\ asked[r] = TH!Never
        /\ UNCHANGED <<bucket, now, counted, overlaps, fresh>>
        /\ \/ stage' = [stage EXCEPT ![r] = TH!NextStage[b]] /\ UNCHANGED <<asked, base>>
           \/ /\ ~(n >= BucketLimit[b])
              /\ asked' = [asked EXCEPT ![r] = now] /\ base' = [base EXCEPT ![r] = bucket[b]]
              /\ UNCHANGED stage
    BY SameCount DEF TH!Read, TH!history
  <2> HIDE DEF n
  <2>3. ~(n >= BucketLimit[b]) => n < BucketLimit[b]
    BY <2>1
  <2> QED
    BY <2>2, <2>3 DEF n
<1>2. TH!NextStage[b] \in TH!Buckets \cup {"password"}
  BY DEF TH!NextStage, TH!Buckets
<1>3. BucketsTyped'
  BY <1>1, <1>2 DEF BucketInv, BucketsTyped
<1>4. ListsFinite'
  BY <1>1 DEF BucketInv, BucketsTyped, ListsFinite
<1>5. \A q \in Requests \ {r} : Judged(q)'
  BY <1>1 DEF BucketInv, BucketsTyped, Judged, TH!Current, TH!Duration
<1>6. Judged(r)'
  <2>1. CASE UNCHANGED asked
    BY <1>1, <2>1 DEF Judged
  <2>2. CASE asked' = [asked EXCEPT ![r] = now] /\ base' = [base EXCEPT ![r] = bucket[b]]
             /\ UNCHANGED stage
    <3>1. asked'[r] = now /\ base'[r] = bucket[b] /\ stage'[r] = b /\ now' = now /\ now <= now
      BY <1>1, <2>2, Times DEF BucketInv, BucketsTyped
    <3>2. Cardinality(TH!Current(bucket[b], now)) < BucketLimit[b] \/ UNCHANGED asked
      BY <1>1
    <3>3. \A e \in bucket[b] : e.at <= now
      BY DEF BucketInv, Listed
    <3> QED
      BY <2>1, <3>1, <3>2, <3>3 DEF Judged, TH!Current, TH!Duration
  <2> QED
    BY <1>1, <2>1, <2>2
<1>7. \A c \in TH!Buckets : Listed(c)' /\ Bounded(c)'
  BY <1>1 DEF BucketInv, Listed, Bounded, TH!Within
<1> QED
  BY <1>3, <1>4, <1>5, <1>6, <1>7 DEF BucketInv

LEMMA WindowGrows ==
    ASSUME NEW S, NEW T, NEW x, NEW t \in Int, IsFiniteSet(S), T \subseteq S \cup {x}
    PROVE  /\ IsFiniteSet(TH!Within(T, t)) /\ IsFiniteSet(TH!Within(S, t))
           /\ Cardinality(TH!Within(T, t)) <= Cardinality(TH!Within(S, t)) + 1
           /\ T \subseteq S => Cardinality(TH!Within(T, t)) <= Cardinality(TH!Within(S, t))
           /\ Cardinality(TH!Within(T, t)) \in Nat /\ Cardinality(TH!Within(S, t)) \in Nat
<1> DEFINE A == TH!Within(S, t)
           B == TH!Within(T, t)
<1>1. A \subseteq S /\ B \subseteq A \cup {x} /\ (T \subseteq S => B \subseteq A)
  BY DEF TH!Within
<1> HIDE DEF A, B
<1>2. IsFiniteSet(A) /\ Cardinality(A) \in Nat
  BY <1>1, FS_Subset, FS_CardinalityType
<1>3. IsFiniteSet(A \cup {x}) /\ Cardinality(A \cup {x}) <= Cardinality(A) + 1
  <2>1. /\ IsFiniteSet(A \cup {x})
        /\ Cardinality(A \cup {x}) = IF x \in A THEN Cardinality(A) ELSE Cardinality(A) + 1
    BY <1>2, FS_AddElement
  <2> QED
    BY <1>2, <2>1
<1>4. IsFiniteSet(B) /\ Cardinality(B) \in Nat /\ Cardinality(B) <= Cardinality(A \cup {x})
  BY <1>1, <1>3, FS_Subset, FS_CardinalityType
<1>5. T \subseteq S => Cardinality(B) <= Cardinality(A)
  BY <1>1, <1>2, FS_Subset
<1>6. Cardinality(A \cup {x}) \in Nat
  BY <1>3, FS_CardinalityType
<1> QED
  BY <1>2, <1>3, <1>4, <1>5, <1>6 DEF A, B

LEMMA Multiplied ==
    ASSUME NEW l \in Nat, NEW o \in Nat
    PROVE  l * (o + 1) = l * o + l /\ l * (1 + o) = l * o + l /\ l * o \in Nat
  OBVIOUS

(* A request writes its list back. *)
LEMMA WriteKeeps ==
    ASSUME BucketInv, NEW r \in Requests, NEW b \in TH!Buckets, TH!Write(r, b)
    PROVE  BucketInv'
<1> DEFINE new == [by |-> r, at |-> asked[r]]
           room == TH!Current(base[r], asked[r])
           L == BucketLimit[b]
<1>1. /\ stage[r] = b /\ asked[r] # TH!Never
      /\ bucket' = [bucket EXCEPT ![b] = room \cup {new}]
      /\ counted' = [counted EXCEPT ![b] = @ \cup {new}]
      /\ overlaps' = [overlaps EXCEPT ![b] = IF base[r] # bucket[b] THEN @ + 1 ELSE @]
      /\ fresh' = [fresh EXCEPT ![b] = IF base[r] # bucket[b] THEN {new} ELSE @ \cup {new}]
      /\ asked' = [asked EXCEPT ![r] = TH!Never] /\ base' = [base EXCEPT ![r] = {}]
      /\ stage' = [stage EXCEPT ![r] = TH!NextStage[b]] /\ UNCHANGED now
  BY DEF TH!Write
<1>2. /\ asked[r] \in 0 .. MaxTime /\ asked[r] <= now /\ Cardinality(room) < L
      /\ \A e \in base[r] : e.at <= asked[r]
      /\ new \in TH!Entry /\ new.at = asked[r]
      /\ room \subseteq base[r] /\ base[r] \subseteq TH!Entry /\ now \in Int /\ L \in Nat /\ L > 0
      /\ IsFiniteSet(room) /\ Length \in Nat /\ asked[r] \in Int
  <2>1. room \subseteq base[r] /\ IsFiniteSet(room)
    BY FS_Subset DEF TH!Current, BucketInv, ListsFinite
  <2>2. asked[r] \in 0 .. MaxTime /\ asked[r] \in Int /\ now \in Int
    BY <1>1, Times DEF BucketInv
  <2>3. /\ asked[r] <= now /\ Cardinality(room) < L
        /\ \A e \in base[r] : e.at <= asked[r]
    BY <1>1 DEF BucketInv, Judged
  <2>4. new \in TH!Entry /\ new.at = asked[r]
    BY <2>2 DEF TH!Entry
  <2>5. base[r] \subseteq TH!Entry
    BY DEF BucketInv, BucketsTyped
  <2> HIDE DEF new, room, L
  <2>6. L \in Nat /\ L > 0 /\ Length \in Nat
    BY Rates DEF L
  <2> QED
    BY <2>1, <2>2, <2>3, <2>4, <2>5, <2>6
<1>3. /\ bucket'[b] = room \cup {new} /\ counted'[b] = counted[b] \cup {new}
      /\ \A c \in TH!Buckets \ {b} : /\ bucket'[c] = bucket[c] /\ counted'[c] = counted[c]
                                     /\ fresh'[c] = fresh[c] /\ overlaps'[c] = overlaps[c]
      /\ base[r] = bucket[b] => fresh'[b] = fresh[b] \cup {new} /\ overlaps'[b] = overlaps[b]
      /\ base[r] # bucket[b] => fresh'[b] = {new} /\ overlaps'[b] = overlaps[b] + 1
      /\ overlaps[b] \in Nat
  BY <1>1 DEF BucketInv, BucketsTyped
<1>4. \A e \in base[r] : e.at \in Int /\ (e \in room <=> e.at > asked[r] - Length)
  BY <1>2, Rates DEF TH!Current, TH!Entry
<1>5. TH!NextStage[b] \in TH!Buckets \cup {"password"}
  BY DEF TH!NextStage, TH!Buckets
<1> HIDE DEF new, room, L
<1>6. BucketsTyped'
  <2>1. room \cup {new} \in SUBSET TH!Entry
    BY <1>2
  <2>2. overlaps' \in [TH!Buckets -> Nat]
    <3>1. overlaps'[b] \in Nat
      BY <1>3
    <3> QED
      BY <1>1, <1>3, <3>1 DEF BucketInv, BucketsTyped
  <2>3. fresh' \in [TH!Buckets -> SUBSET TH!Entry] /\ counted' \in [TH!Buckets -> SUBSET TH!Entry]
    BY <1>1, <1>2 DEF BucketInv, BucketsTyped
  <2> QED
    BY <1>1, <1>5, <2>1, <2>2, <2>3 DEF BucketInv, BucketsTyped
<1>7. ListsFinite'
  <2>1. IsFiniteSet(room \cup {new}) /\ IsFiniteSet(counted[b] \cup {new}) /\ IsFiniteSet({})
    BY <1>2, FS_AddElement, FS_EmptySet DEF BucketInv, ListsFinite
  <2> QED
    BY <1>1, <1>3, <2>1 DEF BucketInv, BucketsTyped, ListsFinite
<1>8. \A q \in Requests : Judged(q)'
  BY <1>1 DEF BucketInv, BucketsTyped, Judged, TH!Current, TH!Duration
<1>9. \A c \in TH!Buckets \ {b} : Listed(c)' /\ Bounded(c)'
  BY <1>1, <1>3 DEF BucketInv, Listed, Bounded, TH!Within
<1>10. Listed(b)'
  <2>1. \A e \in bucket'[b] : e.at <= now'
    BY <1>1, <1>2, <1>3, <1>4
  <2>2. fresh'[b] \subseteq counted'[b]
    BY <1>3 DEF BucketInv, Listed
  <2>3. ASSUME NEW e \in fresh'[b]
        PROVE  e \in bucket'[b] \/ \E x \in bucket'[b] : e.at <= x.at - Length
    <3>1. CASE e = new
      BY <1>3, <3>1
    <3>2. CASE e # new
      <4>1. base[r] = bucket[b] /\ e \in fresh[b]
        BY <1>3, <3>2
      <4>2. e \in base[r] \/ \E x \in base[r] : e.at <= x.at - Length
        BY <4>1 DEF BucketInv, Listed
      <4>3. e.at \in Int
        BY <4>1, Times DEF BucketInv, BucketsTyped
      <4>4. CASE e \in room
        BY <1>3, <4>4
      <4>5. CASE e \notin room
        <5>1. e.at <= asked[r] - Length
          BY <1>2, <1>4, <4>2, <4>3, <4>5
        <5> QED
          BY <1>2, <1>3, <5>1
      <4> QED
        BY <4>4, <4>5
    <3> QED
      BY <3>1, <3>2
  <2> QED
    BY <2>1, <2>2, <2>3 DEF Listed
<1>11. Bounded(b)'
  <2> SUFFICES ASSUME NEW t \in Int
               PROVE  /\ Cardinality(TH!Within(fresh'[b], t)) <= L
                      /\ Cardinality(TH!Within(counted'[b] \ fresh'[b], t)) <= L * overlaps'[b]
    BY DEF Bounded, TH!Within, L
  <2>1. /\ IsFiniteSet(counted[b]) /\ fresh[b] \subseteq counted[b] /\ IsFiniteSet(fresh[b])
        /\ IsFiniteSet(counted[b] \ fresh[b])
    BY FS_Subset DEF BucketInv, ListsFinite, Listed
  <2>2. /\ Cardinality(TH!Within(fresh[b], t)) <= L
        /\ Cardinality(TH!Within(counted[b] \ fresh[b], t)) <= L * overlaps[b]
    BY DEF BucketInv, Bounded, L
  <2>3. CASE base[r] # bucket[b]
    <3>1. Cardinality(TH!Within({new}, t)) <= L
      <4>1. Cardinality({}) = 0 /\ IsFiniteSet({}) /\ TH!Within({}, t) = {}
        BY FS_EmptySet DEF TH!Within
      <4>2. /\ Cardinality(TH!Within({new}, t)) <= Cardinality(TH!Within({}, t)) + 1
            /\ Cardinality(TH!Within({new}, t)) \in Nat
        BY <4>1, WindowGrows
      <4> QED
        BY <1>2, <4>1, <4>2
    <3>2. Cardinality(TH!Within(counted'[b] \ fresh'[b], t)) <= L * overlaps[b] + L
      <4> DEFINE all == TH!Within(counted[b], t)
                 new1 == TH!Within(fresh[b], t)
                 old == TH!Within(counted[b] \ fresh[b], t)
                 left == TH!Within(counted'[b] \ fresh'[b], t)
      <4>1. all = new1 \cup old /\ left \subseteq all
        BY <1>3, <2>1, <2>3 DEF TH!Within
      <4>2. IsFiniteSet(new1) /\ IsFiniteSet(old)
        BY <2>1, FS_Subset DEF TH!Within
      <4> HIDE DEF all, new1, old, left
      <4>3. /\ IsFiniteSet(all) /\ Cardinality(all) <= Cardinality(new1) + Cardinality(old)
            /\ Cardinality(new1) \in Nat /\ Cardinality(old) \in Nat /\ Cardinality(all) \in Nat
        <5>1. /\ IsFiniteSet(new1 \cup old)
              /\ Cardinality(new1 \cup old)
                   = Cardinality(new1) + Cardinality(old) - Cardinality(new1 \cap old)
          BY <4>2, FS_Union
        <5>2. IsFiniteSet(new1 \cap old)
          BY <4>2, FS_Intersection
        <5> QED
          BY <4>1, <4>2, <5>1, <5>2, FS_CardinalityType
      <4>4. Cardinality(left) <= Cardinality(all) /\ Cardinality(left) \in Nat
        BY <4>1, <4>3, FS_Subset, FS_CardinalityType
      <4>5. Cardinality(new1) <= L /\ Cardinality(old) <= L * overlaps[b] /\ L * overlaps[b] \in Nat
        BY <1>2, <1>3, <2>2, Multiplied DEF new1, old
      <4>6. Cardinality(left) <= L * overlaps[b] + L
        BY <1>2, <4>3, <4>4, <4>5
      <4> QED
        BY <4>6 DEF left
    <3> QED
      BY <1>2, <1>3, <2>3, <3>1, <3>2, Multiplied
  <2>4. CASE base[r] = bucket[b]
    <3>1. counted'[b] \ fresh'[b] \subseteq counted[b] \ fresh[b] /\ overlaps'[b] = overlaps[b]
      BY <1>3, <2>4
    <3>2. Cardinality(TH!Within(counted'[b] \ fresh'[b], t)) <= L * overlaps'[b]
      <4>1. /\ Cardinality(TH!Within(counted'[b] \ fresh'[b], t))
                 <= Cardinality(TH!Within(counted[b] \ fresh[b], t))
            /\ Cardinality(TH!Within(counted'[b] \ fresh'[b], t)) \in Nat
            /\ Cardinality(TH!Within(counted[b] \ fresh[b], t)) \in Nat
        BY <2>1, <3>1, WindowGrows
      <4> QED
        BY <1>2, <1>3, <2>2, <3>1, <4>1, Multiplied
    <3>3. Cardinality(TH!Within(fresh'[b], t)) <= L
      <4>1. CASE asked[r] > t - Length /\ asked[r] <= t
        <5>1. TH!Within(fresh[b], t) \subseteq room
          <6> SUFFICES ASSUME NEW e \in fresh[b], e.at > t - Length, e.at <= t PROVE e \in room
            BY DEF TH!Within, Length
          <6>1. e.at \in Int
            BY Times DEF BucketInv, BucketsTyped
          <6>2. e \in base[r] \/ \E x \in base[r] : e.at <= x.at - Length
            BY <2>4 DEF BucketInv, Listed
          <6>3. e \in base[r]
            BY <1>2, <1>4, <4>1, <6>1, <6>2
          <6> QED
            BY <1>2, <1>4, <4>1, <6>1, <6>3
        <5>2. fresh'[b] \subseteq fresh[b] \cup {new}
          BY <1>3, <2>4
        <5>3. Cardinality(TH!Within(fresh'[b], t)) <= Cardinality(TH!Within(fresh[b], t)) + 1
              /\ Cardinality(TH!Within(fresh'[b], t)) \in Nat
              /\ Cardinality(TH!Within(fresh[b], t)) \in Nat
          BY <2>1, <5>2, WindowGrows
        <5>4. Cardinality(TH!Within(fresh[b], t)) <= Cardinality(room) /\ Cardinality(room) \in Nat
          BY <1>2, <5>1, FS_Subset, FS_CardinalityType
        <5> QED
          BY <1>2, <5>3, <5>4
      <4>2. CASE ~(asked[r] > t - Length /\ asked[r] <= t)
        <5>1. TH!Within(fresh'[b], t) = TH!Within(fresh[b], t)
          BY <1>2, <1>3, <2>4, <4>2 DEF TH!Within, Length
        <5> QED
          BY <2>2, <5>1
      <4> QED
        BY <4>1, <4>2
    <3> QED
      BY <3>2, <3>3
  <2> QED
    BY <2>3, <2>4
<1> QED
  BY <1>6, <1>7, <1>8, <1>9, <1>10, <1>11 DEF BucketInv

(* A verified password empties the list of its identifier. *)
LEMMA ClearKeeps ==
    ASSUME BucketInv, NEW r \in Requests, TH!SignsIn(r)
    PROVE  BucketInv'
<1>1. /\ stage[r] = "password" /\ stage' = [stage EXCEPT ![r] = "signed in"]
      /\ bucket' = [bucket EXCEPT !["identity"] = {}]
      /\ counted' = [counted EXCEPT !["identity"] = {}]
      /\ fresh' = [fresh EXCEPT !["identity"] = {}]
      /\ UNCHANGED <<asked, base, now, overlaps>>
  BY DEF TH!SignsIn, TH!Emptied
<1>2. BucketsTyped'
  BY <1>1 DEF BucketInv, BucketsTyped
<1>3. ListsFinite'
  BY <1>1, FS_EmptySet DEF BucketInv, BucketsTyped, ListsFinite
<1>4. \A q \in Requests : Judged(q)'
  BY <1>1 DEF BucketInv, BucketsTyped, Judged, TH!Current, TH!Duration, TH!Buckets
<1>5. \A c \in TH!Buckets \ {"identity"} : Listed(c)' /\ Bounded(c)'
  BY <1>1 DEF BucketInv, BucketsTyped, Listed, Bounded, TH!Within
<1>6. /\ "identity" \in TH!Buckets
      /\ bucket'["identity"] = {} /\ counted'["identity"] = {} /\ fresh'["identity"] = {}
  BY <1>1 DEF BucketInv, BucketsTyped, TH!Buckets
<1>7. Listed("identity")'
  BY <1>6 DEF Listed
<1>8. Bounded("identity")'
  <2> SUFFICES ASSUME NEW t \in Int
               PROVE  /\ Cardinality(TH!Within(fresh'["identity"], t)) <= BucketLimit["identity"]
                      /\ Cardinality(TH!Within(counted'["identity"] \ fresh'["identity"], t))
                           <= BucketLimit["identity"] * overlaps'["identity"]
    BY DEF Bounded, TH!Within
  <2>1. /\ TH!Within(fresh'["identity"], t) = {}
        /\ TH!Within(counted'["identity"] \ fresh'["identity"], t) = {}
    BY <1>6 DEF TH!Within
  <2>2. BucketLimit["identity"] \in Nat /\ overlaps'["identity"] \in Nat
    BY <1>2, <1>6, Rates DEF BucketsTyped
  <2>3. 0 <= BucketLimit["identity"] /\ 0 <= BucketLimit["identity"] * overlaps'["identity"]
    <3> DEFINE l == BucketLimit["identity"]
               o == overlaps'["identity"]
    <3>1. l \in Nat /\ o \in Nat
      BY <2>2
    <3> HIDE DEF l, o
    <3>2. 0 <= l /\ 0 <= l * o
      BY <3>1, Multiplied
    <3> QED
      BY <3>2 DEF l, o
  <2> QED
    BY <2>1, <2>3, FS_EmptySet
<1> QED
  BY <1>2, <1>3, <1>4, <1>5, <1>7, <1>8 DEF BucketInv

LEMMA BucketsStepwise == BucketInv /\ [TH!Next]_(TH!vars) => BucketInv'
<1> SUFFICES ASSUME BucketInv, [TH!Next]_(TH!vars) PROVE BucketInv'
  OBVIOUS
<1>1. ASSUME UNCHANGED <<asked, base, bucket, counted, overlaps, fresh>>, BucketsTyped', now <= now',
             \A r \in Requests : stage'[r] = stage[r] \/ stage[r] = "password"
      PROVE  BucketInv'
  <2>1. ListsFinite'
    BY <1>1 DEF BucketInv, ListsFinite
  <2>2. now \in Int /\ now' \in Int /\ now <= now'
    <3>1. now \in Int
      BY Times DEF BucketInv
    <3>2. MaxTime \in Nat /\ now' \in 0 .. MaxTime
      BY <1>1, Rates DEF BucketsTyped
    <3> QED
      BY <1>1, <3>1, <3>2
  <2>3. ASSUME NEW r \in Requests PROVE Judged(r)'
    <3>1. asked[r] \in Int
      BY Times DEF BucketInv
    <3> SUFFICES ASSUME asked[r] # TH!Never PROVE Judged(r)'
      BY <1>1 DEF Judged, TH!Never
    <3>2. stage[r] \in TH!Buckets /\ asked[r] <= now
      BY DEF BucketInv, Judged
    <3>3. stage'[r] = stage[r]
      BY <1>1, <3>2 DEF TH!Buckets
    <3>4. asked[r] <= now'
      BY <2>2, <3>1, <3>2
    <3>5. /\ Cardinality(TH!Current(base[r], asked[r])) < BucketLimit[stage[r]]
          /\ \A e \in base[r] : e.at <= asked[r]
      BY DEF BucketInv, Judged
    <3>6. asked'[r] = asked[r] /\ base'[r] = base[r]
      BY <1>1
    <3> QED
      BY <3>2, <3>3, <3>4, <3>5, <3>6 DEF Judged, TH!Current, TH!Duration
  <2>4. ASSUME NEW b \in TH!Buckets PROVE Listed(b)' /\ Bounded(b)'
    <3>1. \A e \in bucket[b] : e.at \in Int /\ e.at <= now
      BY Times DEF BucketInv, BucketsTyped, Listed
    <3>2. \A e \in bucket'[b] : e.at <= now'
      BY <1>1, <2>2, <3>1
    <3>3. Listed(b)'
      BY <1>1, <3>2 DEF BucketInv, Listed
    <3>4. Bounded(b)'
      BY <1>1 DEF BucketInv, Bounded, TH!Within
    <3> QED
      BY <3>3, <3>4
  <2> QED
    BY <1>1, <2>1, <2>3, <2>4 DEF BucketInv
<1>2. CASE UNCHANGED TH!vars
  <2>1. UNCHANGED <<stage, asked, base, bucket, counted, overlaps, fresh, now>>
    BY <1>2 DEF TH!vars
  <2>2. BucketsTyped' /\ now <= now'
    BY <2>1, Times DEF BucketInv, BucketsTyped
  <2> QED
    BY <1>1, <2>1, <2>2
<1>3. ASSUME NEW r \in Requests, TH!Limited(r) \/ TH!WrongPassword(r)
      PROVE  BucketInv'
  <2>1. /\ UNCHANGED <<asked, base, bucket, counted, overlaps, fresh, now>> /\ stage[r] = "password"
        /\ \E s \in {"limited", "failed"} : stage' = [stage EXCEPT ![r] = s]
    BY <1>3 DEF TH!Limited, TH!WrongPassword, TH!history
  <2>2. BucketsTyped' /\ \A q \in Requests : stage'[q] = stage[q] \/ stage[q] = "password"
    BY <2>1 DEF BucketInv, BucketsTyped
  <2>3. now <= now'
    BY <2>1, Times DEF BucketInv
  <2> QED
    BY <1>1, <2>1, <2>2, <2>3
<1>4. CASE TH!Tick
  <2>1. /\ UNCHANGED <<stage, asked, base, bucket, counted, overlaps, fresh>>
        /\ now' = now + 1 /\ now' \in 0 .. MaxTime /\ now <= now'
    <3>1. /\ UNCHANGED <<stage, asked, base, bucket, counted, overlaps, fresh>>
          /\ now' = now + 1 /\ now < MaxTime
      BY <1>4 DEF TH!Tick, TH!history
    <3>2. now \in 0 .. MaxTime /\ MaxTime \in Nat
      BY Rates DEF BucketInv, BucketsTyped
    <3> QED
      BY <3>1, <3>2
  <2>2. BucketsTyped'
    BY <2>1 DEF BucketInv, BucketsTyped
  <2> QED
    BY <1>1, <2>1, <2>2
<1> QED
  BY <1>2, <1>3, <1>4, ReadKeeps, WriteKeeps, ClearKeeps DEF TH!Next

(* ScopedWindowRateThrottle: for any limit, any window and any number of      *)
(* requests, a bucket lets its limit through in one window, and that many     *)
(* again only for each request that wrote over another.                       *)
THEOREM WindowCorrect == TH!Spec => []WindowBounded
<1>1. BucketInv => WindowBounded
  <2> SUFFICES ASSUME BucketInv, NEW b \in TH!Buckets, NEW t \in 0 .. now
               PROVE  Cardinality(TH!Within(counted[b], t)) <= BucketLimit[b] * (1 + overlaps[b])
    BY SameCount DEF WindowBounded, TH!WindowBounded
  <2> DEFINE new == TH!Within(fresh[b], t)
             old == TH!Within(counted[b] \ fresh[b], t)
  <2>1. t \in Int /\ overlaps[b] \in Nat /\ BucketLimit[b] \in Nat
    <3>1. now \in Int /\ overlaps[b] \in Nat
      BY Times DEF BucketInv, BucketsTyped
    <3> QED
      BY <3>1, Rates
  <2>2. TH!Within(counted[b], t) = new \cup old
    BY DEF BucketInv, Listed, TH!Within
  <2>3. IsFiniteSet(new) /\ IsFiniteSet(old)
    <3>1. new \subseteq counted[b] /\ old \subseteq counted[b] /\ IsFiniteSet(counted[b])
      BY DEF BucketInv, Listed, ListsFinite, TH!Within
    <3> QED
      BY <3>1, FS_Subset
  <2>4. Cardinality(new) <= BucketLimit[b] /\ Cardinality(old) <= BucketLimit[b] * overlaps[b]
    BY <2>1 DEF BucketInv, Bounded
  <2> HIDE DEF new, old
  <2>5. /\ IsFiniteSet(new \cup old)
        /\ Cardinality(new \cup old) = Cardinality(new) + Cardinality(old) - Cardinality(new \cap old)
    BY <2>3, FS_Union
  <2>6. /\ Cardinality(new) \in Nat /\ Cardinality(old) \in Nat
        /\ Cardinality(new \cap old) \in Nat
    <3>1. IsFiniteSet(new \cap old)
      BY <2>3, FS_Intersection
    <3> QED
      BY <2>3, <3>1, FS_CardinalityType
  <2>7. Cardinality(new \cup old) <= BucketLimit[b] * overlaps[b] + BucketLimit[b]
    BY <2>1, <2>4, <2>5, <2>6, Multiplied
  <2> QED
    BY <2>1, <2>2, <2>7, Multiplied
<1> QED
  BY <1>1, BucketsInitially, BucketsStepwise, PTL DEF TH!Spec

-----------------------------------------------------------------------------
(* The parts, side by side: what is proved of each holds of them together.    *)

AllVars == <<part, vars, signInVars, bucketVars>>

LEMMA EveryStepIsOfOnePart ==
    [NextOfAny]_AllVars => [Next]_vars /\ [SI!Next]_(SI!vars) /\ [TH!Next]_(TH!vars)
<1> SUFFICES ASSUME [NextOfAny]_AllVars
             PROVE  [Next]_vars /\ [SI!Next]_(SI!vars) /\ [TH!Next]_(TH!vars)
  OBVIOUS
<1>1. /\ UNCHANGED signInVars => UNCHANGED SI!vars
      /\ UNCHANGED bucketVars => UNCHANGED TH!vars
  BY DEF signInVars, bucketVars, SI!vars, SI!accounts, SI!resets, TH!vars
<1>2. CASE UNCHANGED AllVars
  BY <1>1, <1>2 DEF AllVars
<1>3. CASE NextOfAny
  <2>1. CASE part = "contacts"
    <3>1. UNCHANGED <<signInVars, bucketVars>>
      BY <1>3, <2>1 DEF NextOfAny, Contacts, SignIns, Limits
    <3>2. Next
      BY <1>3, <2>1 DEF NextOfAny, Next, Contacts, SignIns, Limits, Filled
    <3> QED
      BY <1>1, <3>1, <3>2
  <2>2. CASE part = "sign-in"
    <3>1. UNCHANGED <<vars, bucketVars>>
      BY <1>3, <2>2 DEF NextOfAny, Contacts, SignIns, Limits
    <3>2. SI!Next
      BY <1>3, <2>2 DEF NextOfAny, SI!Next, Contacts, SignIns, Limits
    <3> QED
      BY <1>1, <3>1, <3>2
  <2>3. CASE part \notin {"contacts", "sign-in"}
    <3>1. UNCHANGED <<vars, signInVars>>
      BY <1>3, <2>3 DEF NextOfAny, Contacts, SignIns, Limits
    <3>2. TH!Next
      BY <1>3, <2>3 DEF NextOfAny, TH!Next, Contacts, SignIns, Limits
    <3> QED
      BY <1>1, <3>1, <3>2
  <2> QED
    BY <2>1, <2>2, <2>3
<1> QED
  BY <1>2, <1>3

(* The endpoints side by side are each of the three parts.                    *)
THEOREM PartsComposed == SpecOfAll => Spec /\ SI!Spec /\ TH!Spec
<1>1. InitOfAll => Init /\ SI!Init /\ TH!Init
  BY DEF InitOfAll
<1> QED
  BY <1>1, EveryStepIsOfOnePart, PTL DEF SpecOfAll, AllVars, Spec, SI!Spec, TH!Spec

=============================================================================
