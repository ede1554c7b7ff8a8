---------------------------- MODULE AuthService ----------------------------
(***************************************************************************)
(* libs/auth: users, sessions, lockout and password changes, called by     *)
(* several HTTP workers at once.  AuthImpl holds its mutex only for single *)
(* table accesses: the user is looked up and the (slow) password check is  *)
(* made between two critical sections, so each critical section is a step. *)
(*                                                                         *)
(* A password is a number: the factory password is 0, and every change     *)
(* takes the next one.                                                     *)
(***************************************************************************)
EXTENDS Naturals, FiniteSets

CONSTANTS
    AuthUsers,         \* user names
    AuthCallers,       \* workers that call into IAuth at the same time
    MaxSessions,       \* AuthOptions::max_sessions
    UserConfigs,       \* the "user" configurations that may be applied
    MaxClock, MaxPasswords, MaxLogins       \* bounds of the exploration

ASSUME AuthLimits ==
    /\ {MaxSessions, MaxClock} \subseteq Nat \ {0}
    /\ {MaxPasswords, MaxLogins} \subseteq Nat
    \* max_sessions_per_user, lockout_failures, lockout_seconds, token_ttl_seconds
    /\ UserConfigs \subseteq [perUser : Nat \ {0}, failures : Nat, lockout : Nat, ttl : Nat \ {0}]
    /\ IsFiniteSet(AuthCallers) /\ AuthCallers # {}

VARIABLES
    authClock,     \* the monotonic clock
    users,         \* IAuthUsers: the credential and must_change_password
    tokens,        \* sessions_, by token
    options,       \* options_: the configuration applied last
    failures,      \* failures_: failed attempts and the end of a lockout
    caller,        \* what each worker is in the middle of
    logins,        \* sessions created so far
    guesses        \* wrong passwords checked since the last lockout ended, the
                   \* last login or the last change of the configuration

authVars == <<authClock, users, tokens, options, failures, caller, logins, guesses>>

Roles == {"admin", "operator", "viewer"}
AtRest == [at |-> "idle"]
NoFailure == [n |-> 0, until |-> 0]

AuthInit ==
    /\ authClock = 1
    /\ users \in [AuthUsers -> [cred : {0}, must : {TRUE}, role : Roles]]
    /\ tokens = {}
    /\ options \in UserConfigs
    /\ failures = [u \in AuthUsers |-> NoFailure]
    /\ caller = [k \in AuthCallers |-> AtRest]
    /\ logins = 0
    /\ guesses = [u \in AuthUsers |-> 0]

Rest(k) == caller' = [caller EXCEPT ![k] = AtRest]
Goto(k, at) == caller' = [caller EXCEPT ![k].at = at]

-----------------------------------------------------------------------------
(* The session table *)

Alive(S) == {s \in S : s.expires > authClock}
OfUser(S, u) == {s \in S : s.user = u}

\* The tables left when the oldest sessions of u go until at most n remain.
Trimmed(S, u, n) ==
    {T \in SUBSET S :
        /\ S \ T \subseteq OfUser(S, u)
        /\ \A gone \in S \ T, kept \in OfUser(T, u) : gone.created <= kept.created
        /\ IF Cardinality(OfUser(S, u)) <= n THEN T = S
           ELSE Cardinality(OfUser(T, u)) = n}

\* EnforceUserSessionLimitLocked makes room for one more session.
MakeRoom(S, u) == Trimmed(S, u, options.perUser - 1)

-----------------------------------------------------------------------------
(* Login *)

LockedOut(u) == failures[u].until > authClock

\* A limit or a time of 0 switches the lockout off.
LockoutOn == options.failures # 0 /\ options.lockout # 0

\* CheckLockout; a lockout that is over is forgotten.
Login(k, u, password) ==
    /\ caller[k] = AtRest
    /\ IF LockedOut(u) THEN UNCHANGED <<caller, failures, guesses>>
       ELSE /\ failures' = [failures EXCEPT ![u] = IF @.until # 0 THEN NoFailure ELSE @]
            /\ guesses' = [guesses EXCEPT ![u] = IF failures[u].until # 0 THEN 0 ELSE @]
            /\ caller' = [caller EXCEPT ![k] =
                    [at |-> "verify", user |-> u, password |-> password]]
    /\ UNCHANGED <<authClock, users, tokens, options, logins>>

\* FindUser and VerifyPassword, outside the mutex, on a copy of the record.
VerifyLogin(k) ==
    /\ caller[k].at = "verify"
    /\ LET u == caller[k].user
       IN  IF users[u].cred = caller[k].password
           THEN /\ caller' = [caller EXCEPT ![k] = [at |-> "create", user |-> u, record |-> users[u]]]
                /\ UNCHANGED guesses
           ELSE /\ Goto(k, "failed")
                /\ guesses' = [guesses EXCEPT ![u] = IF LockoutOn THEN @ + 1 ELSE @]
    /\ UNCHANGED <<authClock, users, tokens, options, failures, logins>>

FailedAgain(f) ==
    IF f.n + 1 >= options.failures THEN [n |-> 0, until |-> authClock + options.lockout]
    ELSE [f EXCEPT !.n = @ + 1]

RegisterFailedAttempt(k) ==
    /\ caller[k].at = "failed"
    /\ LET u == caller[k].user
       IN  failures' = IF ~LockoutOn \/ LockedOut(u) THEN failures
                       ELSE [failures EXCEPT ![u] = FailedAgain(@)]
    /\ Rest(k)
    /\ UNCHANGED <<authClock, users, tokens, options, logins, guesses>>

\* CreateSession; `outdated` is a session of a password that was changed
\* while the login was under way.
CreateSession(k) ==
    /\ caller[k].at = "create"
    /\ logins < MaxLogins
    /\ LET u == caller[k].user
           new == [id |-> logins + 1, user |-> u, created |-> authClock,
                   expires |-> authClock + options.ttl, must |-> caller[k].record.must,
                   cred |-> caller[k].record.cred,
                   outdated |-> caller[k].record.cred # users[u].cred]
       IN  \E left \in MakeRoom(Alive(tokens), u) :
               IF Cardinality(left) >= MaxSessions
               THEN tokens' = left /\ Rest(k) /\ UNCHANGED logins
               ELSE /\ tokens' = left \cup {new}
                    /\ logins' = logins + 1
                    /\ Goto(k, "clear")
    /\ UNCHANGED <<authClock, users, options, failures, guesses>>

ClearFailedAttempts(k) ==
    /\ caller[k].at = "clear"
    /\ failures' = [failures EXCEPT ![caller[k].user] = NoFailure]
    /\ guesses' = [guesses EXCEPT ![caller[k].user] = 0]
    /\ Rest(k)
    /\ UNCHANGED <<authClock, users, tokens, options, logins>>

-----------------------------------------------------------------------------
(* Logout, expiry, password change, configuration *)

Logout(k, s) ==
    /\ caller[k] = AtRest
    /\ tokens' = tokens \ {s}
    /\ UNCHANGED <<authClock, users, options, failures, caller, logins, guesses>>

\* ValidateToken of an expired token removes it.
ExpireToken(s) ==
    /\ s \notin Alive(tokens)
    /\ tokens' = tokens \ {s}
    /\ UNCHANGED <<authClock, users, options, failures, caller, logins, guesses>>

\* ChangePassword: the session must be active ...
ChangePassword(k, s, old) ==
    /\ caller[k] = AtRest
    /\ tokens' = Alive(tokens)
    /\ IF s \in Alive(tokens)
       THEN caller' = [caller EXCEPT ![k] =
                [at |-> "check", user |-> s.user, id |-> s.id, password |-> old]]
       ELSE UNCHANGED caller
    /\ UNCHANGED <<authClock, users, options, failures, logins, guesses>>

\* ... the old password right (a wrong one is audited, not counted) ...
VerifyChange(k) ==
    /\ caller[k].at = "check"
    /\ IF users[caller[k].user].cred = caller[k].password THEN Goto(k, "update") ELSE Rest(k)
    /\ UNCHANGED <<authClock, users, tokens, options, failures, logins, guesses>>

\* ... the new one is saved to the user file, which may fail ...
UpdatePassword(k) ==
    /\ caller[k].at = "update"
    /\ LET u == caller[k].user
       IN  \/ /\ users[u].cred < MaxPasswords
              /\ users' = [users EXCEPT ![u].cred = @ + 1, ![u].must = FALSE]
              /\ Goto(k, "accept")
           \/ Rest(k) /\ UNCHANGED users
    /\ UNCHANGED <<authClock, tokens, options, failures, logins, guesses>>

\* ... and the other sessions of the user end.
\* Mutant: the sessions of the old password are kept.
AfterChangeKeeps(S, u, id) ==
    {IF s.user = u /\ s.id = id THEN [s EXCEPT !.must = FALSE, !.cred = users[u].cred] ELSE s : s \in S}
AfterChange(S, u, id) ==
    {s \in S : s.user # u} \cup
    {[s EXCEPT !.must = FALSE, !.cred = users[u].cred] : s \in {x \in OfUser(S, u) : x.id = id}}

AcceptChangedPasswordSession(k) ==
    /\ caller[k].at = "accept"
    /\ LET u == caller[k].user
       IN  /\ tokens' = AfterChange(tokens, u, caller[k].id)
           /\ failures' = [failures EXCEPT ![u] = NoFailure]
           /\ guesses' = [guesses EXCEPT ![u] = 0]
    /\ Rest(k)
    /\ UNCHANGED <<authClock, users, options, logins>>

\* A new "user" configuration: expired sessions go, then the oldest of every
\* user beyond the new limit.  Failures, lockouts and the lifetimes of the
\* sessions there are stay as they were under the old one.
ApplyUserConfig ==
    /\ \E new \in UserConfigs :
        /\ options' = new
        /\ tokens' \in {T \in SUBSET Alive(tokens) :
                            \A u \in AuthUsers :
                                OfUser(T, u) \in Trimmed(OfUser(Alive(tokens), u), u, new.perUser)}
    /\ guesses' = [u \in AuthUsers |-> 0]
    /\ UNCHANGED <<authClock, users, failures, caller, logins>>

AuthTick ==
    /\ authClock < MaxClock
    /\ authClock' = authClock + 1
    /\ UNCHANGED <<users, tokens, options, failures, caller, logins, guesses>>

AuthStep ==
    \/ AuthTick \/ ApplyUserConfig
    \/ \E k \in AuthCallers :
        \/ \E u \in AuthUsers, p \in 0 .. MaxPasswords : Login(k, u, p)
        \/ VerifyLogin(k) \/ RegisterFailedAttempt(k) \/ CreateSession(k) \/ ClearFailedAttempts(k)
        \/ \E s \in tokens : Logout(k, s)
        \/ \E s \in tokens, p \in 0 .. MaxPasswords : ChangePassword(k, s, p)
        \/ VerifyChange(k) \/ UpdatePassword(k) \/ AcceptChangedPasswordSession(k)
    \/ \E s \in tokens : ExpireToken(s)

-----------------------------------------------------------------------------
(* Properties *)

AuthTypeOK ==
    /\ authClock \in 1 .. MaxClock /\ options \in UserConfigs /\ logins \in 0 .. MaxLogins
    /\ \A u \in AuthUsers :
        /\ users[u].cred \in 0 .. MaxPasswords /\ users[u].must \in BOOLEAN
        /\ failures[u].n \in Nat
    /\ \A s \in tokens : s.user \in AuthUsers /\ s.cred <= users[s.user].cred

\* The session limits hold in every state, with several logins and a change
\* of the limit at the same time.
SessionBounds ==
    /\ Cardinality(tokens) <= MaxSessions
    /\ \A u \in AuthUsers : Cardinality(OfUser(tokens, u)) <= options.perUser

\* While the lockout is on, and until it ends, a login succeeds or the
\* configuration changes, no more wrong passwords are checked than
\* lockout_failures plus the attempts that were already past CheckLockout (one
\* per other worker); failures counted under an older limit do not raise it.
GuessBound ==
    LockoutOn => \A u \in AuthUsers :
        guesses[u] <= options.failures + Cardinality(AuthCallers) - 1

\* The sessions of an old password, and the logins that have checked it and
\* will open one (Login holds no lock from FindUser to CreateSession).
OldSessions(u) == {s \in OfUser(tokens, u) : s.cred # users[u].cred}
LateLogins(u) ==
    {k \in AuthCallers : caller[k].at = "create" /\ caller[k].user = u
                         /\ caller[k].record.cred # users[u].cred}

\* When a password change is through, no session opened before it is left of the
\* old password.  What is left are sessions whose login had checked the old
\* password before the change and registered after it (auth.cpp:297): they live on,
\* at most one per other worker however many changes and logins follow.
ChangeEvicts ==
    \A u \in AuthUsers :
        \/ \E k \in AuthCallers : caller[k].at = "accept" /\ caller[k].user = u
        \/ /\ \A s \in OldSessions(u) : s.outdated
           /\ Cardinality(OldSessions(u)) + Cardinality(LateLogins(u)) <= Cardinality(AuthCallers) - 1

\* Logins, password changes and reconfigurations by several workers at once keep
\* the session limits, bound the guesses at a password, and bound the sessions
\* that outlive their password by the logins that raced its change.
SessionsBoundToPassword ==
    /\ AuthTypeOK /\ SessionBounds /\ GuessBound /\ ChangeEvicts
=============================================================================
