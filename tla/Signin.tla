-------------------------------- MODULE Signin --------------------------------
(***************************************************************************)
(* Sign-in of one user: sessions of the identity provider mirrored in      *)
(* auth_sessions, the second factor and its parked challenges, refresh,    *)
(* revocation, password change and password reset.  Every await of a       *)
(* handler ends a step, so what a request read may be old when it writes.  *)
(***************************************************************************)
EXTENDS Integers, FiniteSets

CONSTANTS
    Attempts,      \* requests in progress
    Sessions,      \* session ids the provider may grant
    RecoveryCodes, \* recovery codes of an enrolment
    MaxPeriods     \* bound: TOTP periods that pass

ASSUME SigninAssumption == MaxPeriods \in Nat \ {0}

VARIABLES
    granted,  \* sessions the provider granted
    row,      \* row[s]: auth_sessions.revokedAt, "none" without a row
    parked,   \* sessions behind a challenge in Redis
    factor,   \* two_factor: state, unused recovery codes, lastUsedStep
    period,   \* the present TOTP period
    reset,    \* the password-reset code and token
    attempt   \* attempt[r]: where a handler is and what it read

signinVars == <<granted, row, parked, factor, period, reset, attempt>>

NoFactor == [state |-> "off", recovery |-> {}, last |-> 0]
IdleAttempt == [pc |-> "idle", sessions |-> {}, barred |-> FALSE, read |-> NoFactor]
Factors == [state : {"off", "pending", "on"}, recovery : SUBSET RecoveryCodes, last : 0..MaxPeriods]

SigninTypeOK ==
    /\ granted \subseteq Sessions /\ parked \subseteq granted
    /\ row \in [Sessions -> {"none", "live", "revoked"}]
    /\ factor \in Factors /\ period \in 1..MaxPeriods
    /\ reset \in {"none", "mailed", "token"}
    /\ attempt \in [Attempts -> [pc : {"idle", "factor", "unpark", "read", "prove", "record",
                                       "touch", "create", "check", "revoke", "setPassword",
                                       "revokeAll", "enable", "readOff", "proveOff", "delete",
                                       "spendCode", "resetPassword", "spendToken"},
                                 sessions : SUBSET Sessions, barred : BOOLEAN, read : Factors]]

SigninInit ==
    /\ granted = {} /\ parked = {} /\ row = [s \in Sessions |-> "none"]
    /\ factor = NoFactor /\ period = 1 /\ reset = "none"
    /\ attempt = [r \in Attempts |-> IdleAttempt]

Starts(r, pc, sessions) ==
    /\ attempt[r].pc = "idle"
    /\ attempt' = [attempt EXCEPT ![r].pc = pc, ![r].sessions = sessions]
Turns(r, from, to) == attempt[r].pc = from /\ attempt' = [attempt EXCEPT ![r].pc = to]
Done(r, from) == attempt[r].pc = from /\ attempt' = [attempt EXCEPT ![r] = IdleAttempt]
FactorUnchanged == UNCHANGED <<parked, factor, period>>

(***************************************************************************)
(* login, verifyLoginMfa, refresh; record ends each of them.               *)
(***************************************************************************)
\* The provider's token endpoint answers a right password with a session.
Grant(s) == s \notin granted /\ granted' = granted \cup {s}

Login(r, s) ==
    /\ Grant(s) /\ Starts(r, "factor", {s})
    /\ FactorUnchanged /\ UNCHANGED <<row, reset>>

IsEnabled == factor.state = "on"

\* With a second factor the session waits behind a challenge.
AskFactor(r) ==
    /\ IF IsEnabled
       THEN Done(r, "factor") /\ parked' = parked \cup attempt[r].sessions
       ELSE Turns(r, "factor", "record") /\ UNCHANGED parked
    /\ UNCHANGED <<granted, row, factor, period, reset>>

ChallengeExpires(s) ==
    /\ s \in parked /\ parked' = parked \ {s}
    /\ UNCHANGED <<granted, row, factor, period, reset, attempt>>

\* consume gets the challenge and then deletes it.
VerifyLoginMfa(r, s) ==
    /\ s \in parked /\ Starts(r, "unpark", {s})
    /\ FactorUnchanged /\ UNCHANGED <<granted, row, reset>>

Unpark(r) ==
    /\ Turns(r, "unpark", "read") /\ parked' = parked \ attempt[r].sessions
    /\ UNCHANGED <<granted, row, factor, period, reset>>

ReadFactor(r) ==
    /\ attempt[r].pc \in {"read", "readOff"}
    /\ attempt' = [attempt EXCEPT ![r] =
         IF ~IsEnabled THEN IdleAttempt
         ELSE [@ EXCEPT !.read = factor, !.pc = IF @ = "read" THEN "prove" ELSE "proveOff"]]
    /\ FactorUnchanged /\ UNCHANGED <<granted, row, reset>>

\* A TOTP of a later period than the last, or a recovery code of the row it read.
ProveFactor(r) ==
    LET read == attempt[r].read IN
    /\ factor.state # "off"
    /\ \/ Turns(r, "prove", "record") \/ Turns(r, "proveOff", "delete")
    /\ \/ period > read.last /\ factor' = [factor EXCEPT !.last = period]
       \/ \E c \in read.recovery : factor' = [factor EXCEPT !.recovery = read.recovery \ {c}]
    /\ UNCHANGED <<granted, row, parked, period, reset>>

Refresh(r, s) ==
    /\ s \in granted /\ row[s] # "none" /\ attempt[r].pc = "idle"
    /\ attempt' = [attempt EXCEPT ![r].pc = "check", ![r].sessions = {s},
                                  ![r].barred = row[s] = "revoked"]
    /\ FactorUnchanged /\ UNCHANGED <<granted, row, reset>>

PassesUnrevoked(r) == \A s \in attempt[r].sessions : row[s] # "revoked"

CheckRevoked(r) ==
    /\ IF PassesUnrevoked(r) THEN Turns(r, "check", "record") ELSE Done(r, "check")
    /\ FactorUnchanged /\ UNCHANGED <<granted, row, reset>>

Record(r) ==
    /\ \E s \in attempt[r].sessions :
         CASE row[s] = "none" -> Turns(r, "record", "create")
           [] row[s] = "live" -> Turns(r, "record", "touch")
           [] OTHER           -> Done(r, "record")
    /\ FactorUnchanged /\ UNCHANGED <<granted, row, reset>>

\* Mutant: the touch writes the whole row it read.
TouchedWhole(status) == "live"
\* The touch writes lastUsedAt and expiresAt only.
Touched(status) == status

\* A create that meets a row (session ids are unique) throws.
WriteRow(r) ==
    /\ Done(r, "touch") \/ Done(r, "create")
    /\ row' = [s \in Sessions |-> IF s \notin attempt[r].sessions THEN row[s]
                                  ELSE IF row[s] = "none" THEN "live"
                                  ELSE IF attempt[r].pc = "touch" THEN Touched(row[s])
                                  ELSE row[s]]
    /\ FactorUnchanged /\ UNCHANGED <<granted, reset>>

(***************************************************************************)
(* Revocation.                                                             *)
(***************************************************************************)
Revokes(sessions) == row' = [s \in Sessions |-> IF s \in sessions /\ row[s] = "live"
                                                THEN "revoked" ELSE row[s]]

Logout(s) ==
    /\ row[s] = "live" /\ Revokes({s})
    /\ FactorUnchanged /\ UNCHANGED <<granted, reset, attempt>>

RevokeSession(r, s) ==
    /\ row[s] = "live" /\ Starts(r, "revoke", {s})
    /\ FactorUnchanged /\ UNCHANGED <<granted, row, reset>>

WriteSessionRevoked(r) ==
    /\ Done(r, "revoke") /\ Revokes(attempt[r].sessions)
    /\ FactorUnchanged /\ UNCHANGED <<granted, reset>>

\* Only a user who has signed in knows the password; the grant that checks it is thrown away.
PasswordVerified == granted # {}

\* s makes the request.
ChangePassword(r, s) ==
    /\ PasswordVerified /\ row[s] # "none" /\ Starts(r, "setPassword", {s})
    /\ FactorUnchanged /\ UNCHANGED <<granted, row, reset>>

SetPassword(r) ==
    /\ Turns(r, "setPassword", "revokeAll") \/ Turns(r, "resetPassword", "spendToken")
    /\ FactorUnchanged /\ UNCHANGED <<granted, row, reset>>

RevokeAll(r) ==
    /\ Done(r, "revokeAll") /\ Revokes(Sessions \ attempt[r].sessions)
    /\ FactorUnchanged /\ UNCHANGED <<granted, reset>>

(***************************************************************************)
(* The second factor.  A new setup replaces the row, also an enabled one.  *)
(***************************************************************************)
StartSetup ==
    /\ PasswordVerified /\ factor' = [NoFactor EXCEPT !.state = "pending"]
    /\ UNCHANGED <<granted, row, parked, period, reset, attempt>>

Enable(r) ==
    /\ factor.state = "pending" /\ Starts(r, "enable", {})
    /\ FactorUnchanged /\ UNCHANGED <<granted, row, reset>>

WriteEnabled(r) ==
    /\ Done(r, "enable")
    /\ factor' = IF factor.state = "off" THEN factor
                 ELSE [state |-> "on", recovery |-> RecoveryCodes, last |-> period]
    /\ UNCHANGED <<granted, row, parked, period, reset>>

\* The password was checked; a code of the factor follows.
Disable(r) ==
    /\ PasswordVerified /\ Starts(r, "readOff", {})
    /\ FactorUnchanged /\ UNCHANGED <<granted, row, reset>>

DeleteFactor(r) ==
    /\ Done(r, "delete") /\ factor' = NoFactor
    /\ UNCHANGED <<granted, row, parked, period, reset>>

PeriodPasses ==
    /\ period < MaxPeriods /\ period' = period + 1
    /\ UNCHANGED <<granted, row, parked, factor, reset, attempt>>

(***************************************************************************)
(* forgotPassword, verifyResetOtp, resetPassword.                          *)
(***************************************************************************)
ForgotPassword ==
    /\ reset = "none" /\ reset' = "mailed"
    /\ FactorUnchanged /\ UNCHANGED <<granted, row, attempt>>

VerifyResetOtp(r) ==
    /\ reset = "mailed" /\ Starts(r, "spendCode", {})
    /\ FactorUnchanged /\ UNCHANGED <<granted, row, reset>>

SpendCode(r) ==
    /\ Done(r, "spendCode") /\ reset' = "token"
    /\ FactorUnchanged /\ UNCHANGED <<granted, row>>

ResetPassword(r) ==
    /\ reset = "token" /\ Starts(r, "resetPassword", {})
    /\ FactorUnchanged /\ UNCHANGED <<granted, row, reset>>

SpendToken(r) ==
    /\ Done(r, "spendToken") /\ reset' = "none"
    /\ FactorUnchanged /\ UNCHANGED <<granted, row>>

\* A refused password or code, a lost answer, or the server stops.
AttemptFails(r) ==
    /\ attempt[r].pc # "idle" /\ attempt' = [attempt EXCEPT ![r] = IdleAttempt]
    /\ FactorUnchanged /\ UNCHANGED <<granted, row, reset>>

SessionNext ==
    \/ \E r \in Attempts :
         \/ AskFactor(r) \/ Unpark(r) \/ ReadFactor(r) \/ ProveFactor(r) \/ CheckRevoked(r)
         \/ Record(r) \/ WriteRow(r) \/ WriteSessionRevoked(r) \/ SetPassword(r) \/ RevokeAll(r)
         \/ Enable(r) \/ WriteEnabled(r) \/ Disable(r) \/ DeleteFactor(r) \/ AttemptFails(r)
         \/ \E s \in Sessions : \/ Login(r, s) \/ VerifyLoginMfa(r, s) \/ Refresh(r, s)
                                \/ RevokeSession(r, s) \/ ChangePassword(r, s)
    \/ \E s \in Sessions : ChallengeExpires(s) \/ Logout(s)
    \/ StartSetup \/ PeriodPasses

\* A reset shares no row with the sessions: it revokes none of them.
ResetNext ==
    \/ \E r \in Attempts : \/ VerifyResetOtp(r) \/ SpendCode(r) \/ ResetPassword(r)
                            \/ SetPassword(r) \/ SpendToken(r) \/ AttemptFails(r)
    \/ ForgotPassword

SigninNext == SessionNext \/ ResetNext

SigninSpec == SigninInit /\ [][SigninNext]_signinVars

(***************************************************************************)
(* Properties.                                                             *)
(***************************************************************************)
\* "A revoked row stays revoked: refresh must never resurrect it" (auth-sessions.service.ts:51)
\* and a revoked device "must never be able to mint another one" (auth.service.ts:328-329):
\* whatever a refresh read before a logout, a revocation or a password change, the revoked
\* session stays revoked, and no refresh that starts afterwards gets as far as its tokens.
SessionsStayRevoked ==
    [][/\ \A s \in Sessions : row[s] = "revoked" => row'[s] = "revoked"
       /\ \A r \in Attempts : attempt'[r].barred => attempt'[r].pc = "check"]_signinVars
===============================================================================
