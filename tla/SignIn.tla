-------------------------------- MODULE SignIn --------------------------------
(* Passwords, second factors, sessions and what ends them.                    *)
(*                                                                            *)
(* A sign-in loads the account once, judges the password against that         *)
(* snapshot and writes the session when it answers; an Admin may suspend the  *)
(* account, or its owner reset the password, in between.  A login that still  *)
(* needs a second factor names the account under a key of its own in the      *)
(* session of the browser: nothing accepts that key but the two-factor        *)
(* endpoints, and revoking the sessions of an account does not look at it.    *)
(* The view asks nothing of the session there is, so a browser that is signed *)
(* in may log in again, and then one session may hold both.                   *)
EXTENDS Integers, Sequences

CONSTANTS
    Users, Browsers,
    Resetters,      \* requests to POST /auth/password/reset in flight
    MaxAttempts,    \* PasswordResetToken.MAX_ATTEMPTS
    MaxTokens,      \* bound of the model: reset tokens issued
    MaxBlocks,      \* bound of the model: suspensions and deletions of an account
    None

(* What is assumed of the constants. *)
SignInAssumption ==
    MaxAttempts \in Nat \ {0} /\ MaxTokens \in Nat /\ MaxBlocks \in Nat

VARIABLES
    status,     \* "active": any status that may sign in; "blocked": any other
    known,      \* does the account still have an address to be named by?
    flag,       \* require_two_factor
    password,   \* version of the password hash
    device,     \* the authenticator: "none", "pending" or "confirmed"
    session,    \* per browser: the parts of its session
    signing,    \* per browser: the snapshot a sign-in in flight works with
    tokens,     \* PasswordResetToken rows in the order of their creation
    asking,     \* reset requests that have retired the old tokens
    resetting,  \* per resetter: the token whose attempt it has claimed
    blocks,     \* history: times an account was suspended or deleted
    uses        \* history: password changes each token made

accounts == <<status, known, flag, password, device, blocks>>
resets   == <<tokens, asking, resetting, uses>>
vars == <<accounts, session, signing, resets>>

(* What django_login writes, with the history of the sign-in that wrote it,   *)
(* and what start_partial_session writes.                                     *)
Full    == [user : Users, hash : Nat, demanded : BOOLEAN, second : BOOLEAN, blocks : Nat]
Partial == [user : Users, demanded : BOOLEAN]
Session == [full : {None} \cup Full, partial : {None} \cup Partial]

NoSession == [full |-> None, partial |-> None]

Snapshot == [user : Users, hash : Nat, flag : BOOLEAN,
             demanded : BOOLEAN, second : BOOLEAN]

(* Every step keeps the shape of the rows. *)
TypeOK ==
    /\ status \in [Users -> {"active", "blocked"}]
    /\ known \in [Users -> BOOLEAN]
    /\ flag \in [Users -> BOOLEAN]
    /\ password \in [Users -> Nat]
    /\ device \in [Users -> {"none", "pending", "confirmed"}]
    /\ session \in [Browsers -> Session]
    /\ signing \in [Browsers -> {None} \cup Snapshot]
    /\ tokens \in Seq([user : Users, attempts : 0 .. MaxAttempts, consumed : BOOLEAN])
    /\ asking \in [Users -> Nat]
    /\ resetting \in [Resetters -> {None} \cup DOMAIN tokens]
    /\ blocks \in [Users -> 0 .. MaxBlocks]
    /\ uses \in [DOMAIN tokens -> Nat]

Init ==
    /\ status = [u \in Users |-> "active"]
    /\ known = [u \in Users |-> TRUE]
    /\ flag = [u \in Users |-> FALSE]
    /\ password = [u \in Users |-> 0]
    /\ device = [u \in Users |-> "none"]
    /\ session = [b \in Browsers |-> NoSession]
    /\ signing = [b \in Browsers |-> None]
    /\ tokens = <<>> /\ uses = <<>>
    /\ asking = [u \in Users |-> 0]
    /\ resetting = [r \in Resetters |-> None]
    /\ blocks = [u \in Users |-> 0]

-----------------------------------------------------------------------------
(* django.contrib.auth: a session authenticates while the account may sign in *)
(* and the hash in it is that of the current password.                        *)
Works(b) ==
    LET full == session[b].full IN
        /\ full # None
        /\ status[full.user] = "active" /\ full.hash = password[full.user]

(* _resolve_caller: the account of a session that authenticates, else the one *)
(* that the other key names.  A session whose hash is of an old password is   *)
(* dropped by Django before either is looked at; one of a blocked account is  *)
(* not.                                                                       *)
Resolves(b) ==
    LET full == session[b].full
        partial == session[b].partial
    IN /\ full # None => status[full.user] # "active"
       /\ partial # None /\ status[partial.user] = "active"

Caller(b, u) ==
    \/ Works(b) /\ u = session[b].full.user
    \/ Resolves(b) /\ u = session[b].partial.user

(* revoke_all_sessions: the rows whose SESSION_KEY names the account. *)
Revoked(u) ==
    [b \in Browsers |->
        IF session[b].full # None /\ session[b].full.user = u
        THEN NoSession ELSE session[b]]

\* Mutation: only an enrolled device asks for the second factor.
RequiresTwoFactorDevice(flagged, u) == device[u] = "confirmed"

(* requires_two_factor, on the flag of a snapshot and the device of now. *)
RequiresTwoFactor(flagged, u) == flagged \/ device[u] = "confirmed"

NewFull(snap) ==
    [user |-> snap.user, hash |-> snap.hash, demanded |-> snap.demanded,
     second |-> snap.second, blocks |-> blocks[snap.user]]

(* django_login: a session of another account, or of another password, is     *)
(* emptied first; one of the same is left as it is; one of nobody keeps what  *)
(* else it holds.                                                             *)
LoggedIn(b, snap) ==
    LET full == session[b].full IN
        CASE full = None -> [session[b] EXCEPT !.full = NewFull(snap)]
          [] full # None /\ full.user = snap.user /\ full.hash = snap.hash -> session[b]
          [] OTHER -> [NoSession EXCEPT !.full = NewFull(snap)]

-----------------------------------------------------------------------------
(* Login.  authenticate_user: a wrong password or a locked account ends the   *)
(* request with nothing changed.  The session of the browser is not asked for.*)
CheckPassword(b, u) ==
    /\ signing[b] = None
    /\ known[u] /\ status[u] = "active"
    /\ signing' = [signing EXCEPT ![b] =
           [user |-> u, hash |-> password[u],
            flag |-> flag[u], demanded |-> flag[u] \/ device[u] = "confirmed",
            second |-> FALSE]]
    /\ UNCHANGED <<accounts, session, resets>>

(* LoginView: which of the two sessions to start.  start_partial_session      *)
(* changes the key of the session and keeps what it holds.                    *)
StartSession(b) ==
    /\ signing[b] # None /\ ~signing[b].second
    /\ session' = [session EXCEPT ![b] =
           IF RequiresTwoFactor(signing[b].flag, signing[b].user)
           THEN [@ EXCEPT !.partial = [user |-> signing[b].user,
                                       demanded |-> signing[b].demanded]]
           ELSE LoggedIn(b, signing[b])]
    /\ signing' = [signing EXCEPT ![b] = None]
    /\ UNCHANGED <<accounts, resets>>

(* resolve_partial_session_user: the account is loaded again. *)
ResolvePartial(b) ==
    /\ signing[b] = None /\ Resolves(b)
    /\ LET u == session[b].partial.user IN
         signing' = [signing EXCEPT ![b] =
             [user |-> u, hash |-> password[u],
              flag |-> flag[u], demanded |-> session[b].partial.demanded,
              second |-> TRUE]]
    /\ UNCHANGED <<accounts, session, resets>>

(* verify_totp accepts the code of the confirmed device, or of the pending    *)
(* one and confirms it; start_session then makes the session a full one.      *)
VerifyCode(b) ==
    /\ signing[b] # None /\ signing[b].second
    /\ device[signing[b].user] # "none"
    /\ device' = [device EXCEPT ![signing[b].user] = "confirmed"]
    /\ session' = [session EXCEPT ![b] = LoggedIn(b, signing[b])]
    /\ signing' = [signing EXCEPT ![b] = None]
    /\ UNCHANGED <<status, known, flag, password, blocks, resets>>

(* No device, or a wrong code; the session stays as it is. *)
CodeRefused(b) ==
    /\ signing[b] # None /\ signing[b].second
    /\ signing' = [signing EXCEPT ![b] = None]
    /\ UNCHANGED <<accounts, session, resets>>

(* enroll_totp_device replaces a pending device and refuses over a confirmed  *)
(* one; either kind of session may ask.                                       *)
EnrollDevice(b) ==
    /\ \E u \in Users :
          /\ Caller(b, u) /\ device[u] = "none"
          /\ device' = [device EXCEPT ![u] = "pending"]
    /\ UNCHANGED <<status, known, flag, password, blocks, session, signing, resets>>

(* A full session confirms the device it has enrolled; no session is issued,  *)
(* even if this one waits for the second factor of a later login.             *)
ConfirmDevice(b) ==
    /\ Works(b)
    /\ LET u == session[b].full.user IN
         /\ device[u] = "pending"
         /\ device' = [device EXCEPT ![u] = "confirmed"]
    /\ UNCHANGED <<status, known, flag, password, blocks, session, signing, resets>>

(* Logout; or the few minutes of a partial session are over; or a request     *)
(* comes with the hash of an old password.                                    *)
EndSession(b) ==
    /\ session[b] # NoSession /\ signing[b] = None
    /\ session' = [session EXCEPT ![b] = NoSession]
    /\ UNCHANGED <<accounts, signing, resets>>

-----------------------------------------------------------------------------
\* Mutation: only a change of the status ends the sessions.
EndsSessionsOnChange(u, resulting) == resulting # "active" /\ status[u] = "active"

EndsSessions(u, resulting) == resulting # "active"

(* update_user_by_admin, under the lock of the row: the resulting status      *)
(* decides on the revocation, whether or not it has changed.  Any status may  *)
(* be set, also on an account that has been deleted.                          *)
UpdateByAdmin(u, resulting, flagged) ==
    /\ status' = [status EXCEPT ![u] = resulting]
    /\ flag' = [flag EXCEPT ![u] = flagged]
    /\ session' = IF EndsSessions(u, resulting) THEN Revoked(u) ELSE session
    /\ IF resulting = "active"
       THEN UNCHANGED blocks
       ELSE blocks[u] < MaxBlocks /\ blocks' = [blocks EXCEPT ![u] = @ + 1]
    /\ UNCHANGED <<known, password, device, signing, resets>>

(* anonymize_account: the status and the addresses first, then devices and    *)
(* sessions.                                                                  *)
DeleteAccount(u) ==
    /\ known[u] /\ status[u] = "active" /\ blocks[u] < MaxBlocks
    /\ status' = [status EXCEPT ![u] = "blocked"]
    /\ known' = [known EXCEPT ![u] = FALSE]
    /\ device' = [device EXCEPT ![u] = "none"]
    /\ blocks' = [blocks EXCEPT ![u] = @ + 1]
    /\ session' = Revoked(u)
    /\ UNCHANGED <<flag, password, signing, resets>>

-----------------------------------------------------------------------------
(* Password reset.  Time is left out: an expired token is never claimed. *)
IsUsable(token) == ~token.consumed /\ token.attempts < MaxAttempts

(* request_password_reset: two statements, each committed by itself. *)
RetireTokens(u) ==
    /\ known[u] /\ status[u] = "active"
    /\ Len(tokens) + asking[u] < MaxTokens
    /\ tokens' = [i \in DOMAIN tokens |->
                     IF tokens[i].user = u THEN [tokens[i] EXCEPT !.consumed = TRUE]
                                           ELSE tokens[i]]
    /\ asking' = [asking EXCEPT ![u] = @ + 1]
    /\ UNCHANGED <<accounts, session, signing, resetting, uses>>

CreateToken(u) ==
    /\ asking[u] > 0
    /\ asking' = [asking EXCEPT ![u] = @ - 1]
    /\ tokens' = Append(tokens, [user |-> u, attempts |-> 0, consumed |-> FALSE])
    /\ uses' = Append(uses, 0)
    /\ UNCHANGED <<accounts, session, signing, resetting>>

(* reset_password: the attempt is counted and committed first. *)
ClaimToken(r, i) ==
    /\ resetting[r] = None
    /\ IsUsable(tokens[i])
    /\ tokens' = [tokens EXCEPT ![i].attempts = @ + 1]
    /\ resetting' = [resetting EXCEPT ![r] = i]
    /\ UNCHANGED <<accounts, session, signing, asking, uses>>

\* Mutation: the second check under the lock is of the attempts alone.
StillUsableAttempts(i) == tokens[i].attempts < MaxAttempts

StillUsable(i) == IsUsable(tokens[i])

(* The right secret, and the token still usable under the lock. *)
SpendToken(r) ==
    /\ resetting[r] # None
    /\ StillUsable(resetting[r])
    /\ LET i == resetting[r]
           u == tokens[i].user
       IN /\ password' = [password EXCEPT ![u] = @ + 1]
          /\ tokens' = [tokens EXCEPT ![i].consumed = TRUE]
          /\ uses' = [uses EXCEPT ![i] = @ + 1]
          /\ session' = Revoked(u)
    /\ resetting' = [resetting EXCEPT ![r] = None]
    /\ UNCHANGED <<status, known, flag, device, blocks, signing, asking>>

(* A wrong secret; or a right one whose token has meanwhile been used,        *)
(* retired, or tried as often as it may be, this attempt included.            *)
ResetRefused(r) ==
    /\ resetting[r] # None
    /\ resetting' = [resetting EXCEPT ![r] = None]
    /\ UNCHANGED <<accounts, session, signing, tokens, asking, uses>>

-----------------------------------------------------------------------------
Next ==
    \/ \E b \in Browsers, u \in Users : CheckPassword(b, u)
    \/ \E b \in Browsers : StartSession(b)
    \/ \E b \in Browsers : ResolvePartial(b)
    \/ \E b \in Browsers : VerifyCode(b)
    \/ \E b \in Browsers : CodeRefused(b)
    \/ \E b \in Browsers : EnrollDevice(b)
    \/ \E b \in Browsers : ConfirmDevice(b)
    \/ \E b \in Browsers : EndSession(b)
    \/ \E u \in Users, resulting \in {"active", "blocked"}, flagged \in BOOLEAN :
           UpdateByAdmin(u, resulting, flagged)
    \/ \E u \in Users : DeleteAccount(u)
    \/ \E u \in Users : RetireTokens(u)
    \/ \E u \in Users : CreateToken(u)
    \/ \E r \in Resetters, i \in DOMAIN tokens : ClaimToken(r, i)
    \/ \E r \in Resetters : SpendToken(r)
    \/ \E r \in Resetters : ResetRefused(r)

Spec == Init /\ [][Next]_vars

-----------------------------------------------------------------------------
(* Two requests with one token: the token changes the password once, though   *)
(* both have passed the first check (reset_password checks again under lock). *)
TokenChangesPasswordOnce == \A i \in DOMAIN tokens : uses[i] <= 1

(* A session that works has passed the second factor if the account demanded  *)
(* one when the password was checked by the sign-in the session is of,        *)
(* whatever an Admin or another device changed before it was written, and     *)
(* whatever else a later login has left in it (LoginView,                     *)
(* requires_two_factor, start_partial_session).  A login that still waits for *)
(* its factor thus gives nobody access, and takes nobody's away.  Excepted is *)
(* an account that an Admin has brought back after its deletion, which took   *)
(* its device away.                                                           *)
DemandedFactorPassed ==
    \A b \in Browsers :
        Works(b) =>
            LET full == session[b].full IN known[full.user] /\ full.demanded => full.second

(* After a suspension or a deletion no full session of the account is left    *)
(* from before it: a repeated suspension revokes again what a sign-in in      *)
(* flight has written since the first (update_user_by_admin).                 *)
NoSessionFromBeforeABlock ==
    \A b \in Browsers :
        LET full == session[b].full IN full # None => full.blocks = blocks[full.user]

=============================================================================
