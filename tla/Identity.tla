------------------------------- MODULE Identity -------------------------------
(* The three models of the identity endpoints, checked side by side: the      *)
(* contact channels of accounts, their sign-ins and resets, and the buckets   *)
(* that limit the sign-ins.  They share no state that their properties speak  *)
(* of, so a behaviour is one of one of the three parts.                       *)
EXTENDS ContactVerification

CONSTANTS Users, Browsers, Resetters, MaxTries, MaxTokens, MaxBlocks,
          Requests, BucketLimit, Multiplier, Unit, MaxTime

VARIABLES part,
          standing, known, flag, password, device, session, signing, tokens, asking,
          resetting, blocks, uses,
          stage, asked, base, over, bucket, now, counted, overlaps, fresh

signInVars  == <<standing, known, flag, password, device, session, signing, tokens, asking,
                 resetting, blocks, uses>>
bucketVars  == <<stage, asked, base, over, bucket, now, counted, overlaps, fresh>>

SI == INSTANCE SignIn WITH status <- standing, MaxAttempts <- MaxTries
TH == INSTANCE Throttle WITH Limit <- BucketLimit

ASSUME IdentityAssumption == SI!SignInAssumption /\ TH!RateAssumption

InitOfAll ==
    /\ part \in {"contacts", "sign-in", "buckets"}
    /\ Init /\ SI!Init /\ TH!Init

Contacts == part = "contacts" /\ UNCHANGED <<part, signInVars, bucketVars>>
SignIns  == part = "sign-in" /\ UNCHANGED <<part, vars, bucketVars>>
Limits   == part = "buckets" /\ UNCHANGED <<part, vars, signInVars>>

Filled(mail, phone) == [c \in Channels |-> IF c = "email" THEN mail ELSE phone]

NextOfAny ==
    \/ Contacts /\ \E a \in Accounts, mail \in Emails \cup {None},
                      phone \in Phones \cup {None} : Register(a, Filled(mail, phone))
    \/ Contacts /\ \E a \in Accounts, mail \in Emails,
                      phone \in Phones \cup {None} : Provision(a, Filled(mail, phone))
    \/ Contacts /\ \E a \in Accounts, c \in Channels : SendRegistrationCode(a, c)
    \/ Contacts /\ \E a \in Accounts : RegistrationDies(a)
    \/ Contacts /\ \E v \in Verifiers, a \in Accounts, c \in Channels :
                      ClaimAttempt(v, a, c)
    \/ Contacts /\ \E v \in Verifiers : RejectAnswer(v)
    \/ Contacts /\ \E v \in Verifiers : SpendCode(v)
    \/ Contacts /\ \E v \in Verifiers : SpendFails(v)
    \/ Contacts /\ \E e \in Editors, a \in Accounts, phone \in Phones \cup {None} :
                      CheckProfile(e, a, phone)
    \/ Contacts /\ \E e \in Editors : SaveProfile(e)
    \/ Contacts /\ \E e \in Editors : SaveConflicts(e)
    \/ Contacts /\ \E a \in Accounts : Anonymize(a)
    \/ SignIns /\ \E b \in Browsers, u \in Users : SI!CheckPassword(b, u)
    \/ SignIns /\ \E b \in Browsers : SI!StartSession(b)
    \/ SignIns /\ \E b \in Browsers : SI!ResolvePartial(b)
    \/ SignIns /\ \E b \in Browsers : SI!VerifyCode(b)
    \/ SignIns /\ \E b \in Browsers : SI!CodeRefused(b)
    \/ SignIns /\ \E b \in Browsers : SI!EnrollDevice(b)
    \/ SignIns /\ \E b \in Browsers : SI!ConfirmDevice(b)
    \/ SignIns /\ \E b \in Browsers : SI!EndSession(b)
    \/ SignIns /\ \E u \in Users, resulting \in {"active", "blocked"},
                     flagged \in BOOLEAN : SI!UpdateByAdmin(u, resulting, flagged)
    \/ SignIns /\ \E u \in Users : SI!DeleteAccount(u)
    \/ SignIns /\ \E u \in Users : SI!RetireTokens(u)
    \/ SignIns /\ \E u \in Users : SI!CreateToken(u)
    \/ SignIns /\ \E r \in Resetters, i \in DOMAIN tokens : SI!ClaimToken(r, i)
    \/ SignIns /\ \E r \in Resetters : SI!SpendToken(r)
    \/ SignIns /\ \E r \in Resetters : SI!ResetRefused(r)
    \/ Limits /\ \E r \in Requests, b \in TH!Buckets : TH!Read(r, b)
    \/ Limits /\ \E r \in Requests, b \in TH!Buckets : TH!Write(r, b)
    \/ Limits /\ \E r \in Requests : TH!Limited(r)
    \/ Limits /\ \E r \in Requests : TH!WrongPassword(r)
    \/ Limits /\ \E r \in Requests : TH!SignsIn(r)
    \/ Limits /\ TH!Tick

SpecOfAll == InitOfAll /\ [][NextOfAny]_<<part, vars, signInVars, bucketVars>>

(* One reset token changes the password once. *)
TokenChangesPasswordOnce == SI!TokenChangesPasswordOnce

(* No session works without the second factor the account demanded. *)
DemandedFactorPassed == SI!DemandedFactorPassed

(* A block leaves no session from before it. *)
NoSessionFromBeforeABlock == SI!NoSessionFromBeforeABlock

(* A bucket lets through its limit, times the requests that overlapped. *)
WindowBounded == TH!WindowBounded

=============================================================================
