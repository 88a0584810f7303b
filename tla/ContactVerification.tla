------------------------- MODULE ContactVerification -------------------------
(* Registration, the codes that prove a contact channel, profile edits and    *)
(* the deletion of an account.                                                *)
(*                                                                            *)
(* Every service runs its own short transactions: nothing holds a lock from   *)
(* the moment a request loads its account to the moment it writes.  A         *)
(* registration commits the account and sends the codes afterwards; verify    *)
(* claims an attempt in one transaction and spends the code in another; a     *)
(* profile edit checks the number and saves it later.  The actions below are  *)
(* those transactions, so that any two requests interleave between them.      *)
EXTENDS Integers, Sequences, FiniteSetsExt

CONSTANTS
    Accounts,       \* rows of the user table, used or not
    Emails, Phones, \* addresses people may register
    Verifiers,      \* requests to POST /auth/verify in flight
    Editors,        \* requests to PATCH /users/me in flight
    MaxAttempts,    \* VerificationCode.MAX_ATTEMPTS
    MaxCodes,       \* bound of the model: codes issued in a behaviour
    None            \* NULL, and "no request in flight"

ASSUME BoundsAssumption ==
    MaxAttempts \in Nat \ {0} /\ MaxCodes \in Nat /\ IsFiniteSet(Verifiers)
ASSUME NoneAssumption == None \notin Emails \cup Phones \cup Nat

VARIABLES
    status,     \* [Accounts -> {"free", "registered", "deleted"}]
    contact,    \* address of each account on each channel, or None
    verified,   \* is <channel>_verified_at set?
    owed,       \* codes a registration has still to send: channel -> address
    codes,      \* VerificationCode rows in the order of their creation
    verifying,  \* per verifier: the code whose attempt it has claimed
    editing,    \* per editor: the account and the number it has checked
    guesses,    \* history: secrets compared with each code
    proven,     \* history: <<account, channel, address>> a right code came from
    overtaken   \* history: <<account, channel>> written by a request that a later
                \* edit or deletion of the same account had overtaken

accountVars == <<status, contact, verified, owed>>
history     == <<guesses, proven, overtaken>>
vars == <<accountVars, codes, verifying, editing, history>>

Channels == {"email", "phone"}
Addresses == Emails \cup Phones
NoContact == [c \in Channels |-> None]
Unverified == [c \in Channels |-> FALSE]

Code == [account : Accounts, channel : Channels, address : Addresses,
         attempts : 0 .. MaxAttempts, consumed : BOOLEAN, stored : BOOLEAN]   \* stored: the row has not been deleted

(* Every step keeps the shape of the rows. *)
TypeOK ==
    /\ status \in [Accounts -> {"free", "registered", "deleted"}]
    /\ contact \in [Accounts -> [Channels -> Addresses \cup {None}]]
    /\ verified \in [Accounts -> [Channels -> BOOLEAN]]
    /\ owed \in [Accounts -> [Channels -> Addresses \cup {None}]]
    /\ codes \in Seq(Code) /\ Len(codes) <= MaxCodes
    /\ verifying \in [Verifiers -> {None} \cup DOMAIN codes]
    /\ editing \in [Editors ->
           {None} \cup [account : Accounts, phone : Phones \cup {None}]]
    /\ guesses \in [DOMAIN codes -> Nat]
    /\ proven \subseteq Accounts \X Channels \X Addresses
    /\ overtaken \subseteq Accounts \X Channels

Init ==
    /\ status = [a \in Accounts |-> "free"]
    /\ contact = [a \in Accounts |-> NoContact]
    /\ verified = [a \in Accounts |-> Unverified]
    /\ owed = [a \in Accounts |-> NoContact]
    /\ codes = <<>>
    /\ verifying = [v \in Verifiers |-> None]
    /\ editing = [e \in Editors |-> None]
    /\ guesses = <<>>
    /\ proven = {} /\ overtaken = {}

-----------------------------------------------------------------------------
(* The UNIQUE indexes on email and phone: no other row holds the address. *)
Unique(a, channel, address) ==
    \A b \in Accounts \ {a} : contact[b][channel] # address

(* Time is left out: an expired code is one that is never claimed again. *)
IsUsable(code) == ~code.consumed /\ code.attempts < MaxAttempts

CodesOf(a, channel) ==
    {i \in DOMAIN codes : /\ codes[i].stored
                          /\ codes[i].account = a /\ codes[i].channel = channel}

(* The row of a code that send_verification_code inserts. *)
NewCode(a, channel, address) ==
    [account |-> a, channel |-> channel, address |-> address, attempts |-> 0,
     consumed |-> FALSE, stored |-> TRUE]

Issue(a, channel, address) ==
    /\ Len(codes) < MaxCodes
    /\ codes' = Append(codes, NewCode(a, channel, address))
    /\ guesses' = Append(guesses, 0)

-----------------------------------------------------------------------------
(* Registration.  A conflict changes nothing, so only the success is a step;  *)
(* the codes are sent after it has committed, one transaction per channel.    *)
Register(a, given) ==
    /\ status[a] = "free"
    /\ \E c \in Channels : given[c] # None
    /\ \A c \in Channels : given[c] # None => Unique(a, c, given[c])
    /\ status' = [status EXCEPT ![a] = "registered"]
    /\ contact' = [contact EXCEPT ![a] = given]
    /\ owed' = [owed EXCEPT ![a] = given]
    /\ UNCHANGED <<verified, codes, verifying, editing, history>>

SendRegistrationCode(a, channel) ==
    /\ owed[a][channel] # None
    /\ channel = "phone" => owed[a]["email"] = None
    /\ Issue(a, channel, owed[a][channel])
    /\ overtaken' = IF contact[a][channel] = owed[a][channel] THEN overtaken
                    ELSE overtaken \cup {<<a, channel>>}
    /\ owed' = [owed EXCEPT ![a][channel] = None]
    /\ UNCHANGED <<status, contact, verified, verifying, editing, proven>>

(* The request dies between the registration and a code; nothing sends the    *)
(* missing code later.                                                        *)
RegistrationDies(a) ==
    /\ owed[a] # NoContact
    /\ owed' = [owed EXCEPT ![a] = NoContact]
    /\ UNCHANGED <<status, contact, verified, codes, verifying, editing, history>>

(* provision_authority: an Admin makes the account, with its scope, and the   *)
(* code for its email address belongs to the same transaction; no code is     *)
(* sent to the phone number.                                                  *)
Provision(a, given) ==
    /\ status[a] = "free"
    /\ given["email"] # None
    /\ \A c \in Channels : given[c] # None => Unique(a, c, given[c])
    /\ status' = [status EXCEPT ![a] = "registered"]
    /\ contact' = [contact EXCEPT ![a] = given]
    /\ Issue(a, "email", given["email"])
    /\ UNCHANGED <<verified, owed, verifying, editing, proven, overtaken>>

-----------------------------------------------------------------------------
(* verify_code.  The first transaction locks the newest code of the channel   *)
(* and counts the attempt; a code that is not usable is refused uncounted.    *)
(* The account is found by one of its addresses, or by the session.           *)
ClaimAttempt(v, a, channel) ==
    /\ verifying[v] = None
    /\ contact[a] # NoContact
    /\ CodesOf(a, channel) # {}
    /\ LET i == Max(CodesOf(a, channel)) IN
         /\ IsUsable(codes[i])
         /\ codes' = [codes EXCEPT ![i].attempts = @ + 1]
         /\ verifying' = [verifying EXCEPT ![v] = i]
    /\ UNCHANGED <<accountVars, editing, history>>

(* The comparison reads nothing but the hash loaded with the claim. *)
Compared(v) ==
    /\ verifying[v] # None
    /\ guesses' = [guesses EXCEPT ![verifying[v]] = @ + 1]
    /\ verifying' = [verifying EXCEPT ![v] = None]

\* Mutation: the attempt is counted in the transaction that a wrong answer aborts.
RejectAnswerRollsBack(v) ==
    /\ Compared(v)
    /\ codes' = [codes EXCEPT ![verifying[v]].attempts = @ - 1]
    /\ UNCHANGED <<accountVars, editing, proven, overtaken>>

(* A wrong answer raises; the counted attempt is already committed. *)
RejectAnswer(v) ==
    /\ Compared(v)
    /\ UNCHANGED <<accountVars, codes, editing, proven, overtaken>>

(* A right answer: the second transaction spends the code and marks the       *)
(* channel, on the row as it is now, without looking at the code again.       *)
SpendCode(v) ==
    /\ Compared(v)
    /\ LET i == verifying[v]
           a == codes[i].account
           c == codes[i].channel
       IN /\ codes[i].stored
          /\ codes' = [codes EXCEPT ![i].consumed = TRUE]
          /\ verified' = [verified EXCEPT ![a][c] = TRUE]
          /\ proven' = proven \cup {<<a, c, codes[i].address>>}
          /\ overtaken' = IF i = Max(CodesOf(a, c)) THEN overtaken
                          ELSE overtaken \cup {<<a, c>>}
    /\ UNCHANGED <<status, contact, owed, editing>>

(* The row is gone: save(update_fields) finds nothing to update, and the      *)
(* transaction is rolled back.                                                *)
SpendFails(v) ==
    /\ Compared(v)
    /\ ~codes[verifying[v]].stored
    /\ UNCHANGED <<accountVars, codes, editing, proven, overtaken>>

-----------------------------------------------------------------------------
(* update_profile: the checks of a new number, or of its removal. *)
CheckProfile(e, a, phone) ==
    /\ editing[e] = None
    /\ status[a] = "registered"
    /\ IF phone = None THEN contact[a]["email"] # None
                       ELSE Unique(a, "phone", phone)
    /\ editing' = [editing EXCEPT ![e] = [account |-> a, phone |-> phone]]
    /\ UNCHANGED <<accountVars, codes, verifying, history>>

\* Mutation: the new number inherits the old proof.
WithdrawnNever(a) == verified

(* The edit withdraws the claim that the number is proven. *)
Withdrawn(a) == [verified EXCEPT ![a]["phone"] = FALSE]

(* One transaction: the number, no longer verified, and a code to prove it.   *)
(* The proof of an earlier number ends with it.                               *)
SaveProfile(e) ==
    /\ editing[e] # None
    /\ LET a == editing[e].account
           phone == editing[e].phone
       IN /\ phone # None => Unique(a, "phone", phone)
          /\ contact' = [contact EXCEPT ![a]["phone"] = phone]
          /\ verified' = Withdrawn(a)
          /\ proven' = {p \in proven : p[1] # a \/ p[2] # "phone"}
          /\ overtaken' = IF status[a] = "deleted"
                          THEN overtaken \cup {<<a, "phone">>}
                          ELSE overtaken \ {<<a, "phone">>}
          /\ IF phone = None THEN UNCHANGED <<codes, guesses>>
                             ELSE Issue(a, "phone", phone)
    /\ editing' = [editing EXCEPT ![e] = None]
    /\ UNCHANGED <<status, owed, verifying>>

(* Another account took the number since the check: the index refuses it. *)
SaveConflicts(e) ==
    /\ editing[e] # None
    /\ editing[e].phone # None
    /\ ~Unique(editing[e].account, "phone", editing[e].phone)
    /\ editing' = [editing EXCEPT ![e] = None]
    /\ UNCHANGED <<accountVars, codes, verifying, history>>

\* Mutation: the codes outlive the account.
WithoutCodesKept(a) == codes

WithoutCodes(a) ==
    [i \in DOMAIN codes |->
        IF codes[i].account = a THEN [codes[i] EXCEPT !.stored = FALSE] ELSE codes[i]]

(* DELETE /users/me: status and personal data in one statement, then the      *)
(* codes, in one transaction.                                                 *)
Anonymize(a) ==
    /\ status[a] = "registered"
    /\ status' = [status EXCEPT ![a] = "deleted"]
    /\ contact' = [contact EXCEPT ![a] = NoContact]
    /\ verified' = [verified EXCEPT ![a] = Unverified]
    /\ codes' = WithoutCodes(a)
    /\ UNCHANGED <<owed, verifying, editing, history>>

-----------------------------------------------------------------------------
Next ==
    \/ \E a \in Accounts, mail \in Emails \cup {None}, phone \in Phones \cup {None} :
           Register(a, [c \in Channels |-> IF c = "email" THEN mail ELSE phone])
    \/ \E a \in Accounts, mail \in Emails, phone \in Phones \cup {None} :
           Provision(a, [c \in Channels |-> IF c = "email" THEN mail ELSE phone])
    \/ \E a \in Accounts, c \in Channels : SendRegistrationCode(a, c)
    \/ \E a \in Accounts : RegistrationDies(a)
    \/ \E v \in Verifiers, a \in Accounts, c \in Channels : ClaimAttempt(v, a, c)
    \/ \E v \in Verifiers : RejectAnswer(v)
    \/ \E v \in Verifiers : SpendCode(v)
    \/ \E v \in Verifiers : SpendFails(v)
    \/ \E e \in Editors, a \in Accounts, phone \in Phones \cup {None} :
           CheckProfile(e, a, phone)
    \/ \E e \in Editors : SaveProfile(e)
    \/ \E e \in Editors : SaveConflicts(e)
    \/ \E a \in Accounts : Anonymize(a)

Spec == Init /\ [][Next]_vars

-----------------------------------------------------------------------------
(* However many requests guess at once, one code is compared with at most     *)
(* MaxAttempts answers: the attempt is durable before the answer is judged    *)
(* (verify_code's two transactions).                                          *)
AttemptsBounded == \A i \in DOMAIN codes : guesses[i] <= MaxAttempts

(* A number shown as verified is one whose own code came back since the       *)
(* number was set: changing it withdraws the claim and asks for a new code in *)
(* the same transaction.  Excepted are the requests that a newer code         *)
(* overtook between their two transactions.                                   *)
VerifiedWasProven ==
    \A a \in Accounts, c \in Channels :
        verified[a][c] /\ contact[a][c] # None /\ <<a, c>> \notin overtaken
            => <<a, c, contact[a][c]>> \in proven

(* A deleted account keeps no address, no verified channel and no code,       *)
(* unless a request it had made before finished after the deletion.           *)
DeletedHoldsNothing ==
    \A a \in Accounts :
        status[a] = "deleted" /\ (\A c \in Channels : <<a, c>> \notin overtaken)
            => /\ contact[a] = NoContact
               /\ verified[a] = Unverified
               /\ \A c \in Channels : CodesOf(a, c) = {}

=============================================================================
