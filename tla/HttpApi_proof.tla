--------------------------- MODULE HttpApi_proof ---------------------------
(***************************************************************************)
(* Sessions, passwords and the gates of the HTTP API, for any users,       *)
(* workers and limits, and the connections of the HTTP server, for any     *)
(* connections and limits.                                                 *)
(***************************************************************************)
EXTENDS HttpApi, HttpServer, Minimum, FiniteSetTheorems, TLAPS

-----------------------------------------------------------------------------
(* The inductive invariant *)

UserRecord == [cred : Nat, must : BOOLEAN, role : Roles]
Session == [id : Nat, user : AuthUsers, created : Nat, expires : Nat, must : BOOLEAN,
            cred : Nat, outdated : BOOLEAN]

\* What a worker can be in the middle of.
Trying == [at : {"verify", "failed"}, user : AuthUsers, password : Nat]
Creating == [at : {"create", "clear"}, user : AuthUsers, record : UserRecord]
Changing == [at : {"check", "update", "accept"}, user : AuthUsers, id : Nat, password : Nat]
Uploading == [at : {"write", "validate"}, user : AuthUsers]
Working == {AtRest} \cup Trying \cup Creating \cup Changing \cup Uploading

AuthTypes ==
    /\ AuthTypeOK
    /\ users \in [AuthUsers -> UserRecord]
    /\ failures \in [AuthUsers -> [n : Nat, until : Nat]]
    /\ guesses \in [AuthUsers -> Nat]
    /\ tokens \subseteq Session /\ IsFiniteSet(tokens)
    /\ caller \in [AuthCallers -> Working]

\* A password was changed exactly when it is not the factory one, and neither a
\* session nor a login under way can know it earlier than the user file.
Secrets ==
    /\ \A u \in AuthUsers : users[u].must <=> users[u].cred = 0
    /\ \A s \in tokens : ~s.must => users[s.user].cred # 0
    /\ \A k \in AuthCallers :
          /\ caller[k].at \in {"create", "clear"} =>
                /\ caller[k].record.cred <= users[caller[k].user].cred
                /\ caller[k].record.must <=> caller[k].record.cred = 0
          /\ caller[k].at = "accept" => users[caller[k].user].cred # 0

Verifying(u) == {k \in AuthCallers : caller[k].at = "verify" /\ caller[k].user = u}
Failing(u) == {k \in AuthCallers : caller[k].at = "failed" /\ caller[k].user = u}

\* While nobody was locked out every wrong guess is counted or about to be; after
\* a lockout only the workers that were already past CheckLockout guess on.
Guessed(u) ==
    /\ failures[u].until = 0 =>
          /\ guesses[u] <= failures[u].n + Cardinality(Failing(u))
          /\ guesses[u] <= options.failures - 1 + Cardinality(Failing(u))
    /\ failures[u].until # 0 =>
          guesses[u] + Cardinality(Verifying(u)) <= options.failures + Cardinality(AuthCallers) - 1
Guessing == LockoutOn => \A u \in AuthUsers : Guessed(u)

\* A worker has at most one file, and none while it is about to write one.
UploadsOwned ==
    /\ IsFiniteSet(uploads) /\ uploads \subseteq AuthCallers \X Nat
    /\ \A f, g \in uploads : f[1] = g[1] => f = g
    /\ \A f \in uploads : caller[f[1]].at # "write"

AuthInv == AuthTypes /\ SessionBounds /\ Secrets /\ ChangeEvicts /\ Guessing
ApiInv == AuthInv /\ UploadsOwned

-----------------------------------------------------------------------------
(* The worker table *)

\* The configuration in force is one of those that may be applied.
LEMMA OptionsTyped ==
    ASSUME AuthTypes
    PROVE  /\ options.perUser \in Nat \ {0} /\ options.ttl \in Nat \ {0}
           /\ options.failures \in Nat /\ options.lockout \in Nat
           /\ LockoutOn => options.failures # 0 /\ options.lockout # 0
BY AuthLimits DEF AuthTypes, AuthTypeOK, LockoutOn

\* Where a worker is tells what it holds.
LEMMA CallerStates ==
    ASSUME AuthTypes, NEW k \in AuthCallers
    PROVE  /\ caller[k].at = "idle" => caller[k] = AtRest
           /\ caller[k].at \in {"verify", "failed"} => caller[k] \in Trying
           /\ caller[k].at \in {"create", "clear"} => caller[k] \in Creating
           /\ caller[k].at \in {"check", "update", "accept"} => caller[k] \in Changing
           /\ caller[k].at \in {"write", "validate"} => caller[k] \in Uploading
<1>1. caller[k] \in Working
  BY DEF AuthTypes
<1> QED
  BY <1>1 DEF Working, AtRest, Trying, Creating, Changing, Uploading

\* The workers that check a password of a user, or have just failed to, are at
\* most all workers.
LEMMA GuessingCounts ==
    ASSUME NEW u
    PROVE  /\ IsFiniteSet(Verifying(u)) /\ IsFiniteSet(Failing(u))
           /\ Cardinality(Verifying(u)) \in Nat /\ Cardinality(Failing(u)) \in Nat
           /\ Cardinality(AuthCallers) \in Nat
           /\ Cardinality(Failing(u)) <= Cardinality(AuthCallers)
           /\ \A k \in Failing(u) :
                 Cardinality(Verifying(u)) + Cardinality(Failing(u) \ {k}) <= Cardinality(AuthCallers) - 1
<1>1. Verifying(u) \in SUBSET AuthCallers /\ Failing(u) \in SUBSET AuthCallers
  BY DEF Verifying, Failing
<1>2. /\ IsFiniteSet(Verifying(u)) /\ IsFiniteSet(Failing(u))
      /\ Cardinality(Failing(u)) <= Cardinality(AuthCallers)
  BY <1>1, AuthLimits, FS_Subset
<1>3. /\ Cardinality(Verifying(u)) \in Nat /\ Cardinality(Failing(u)) \in Nat
      /\ Cardinality(AuthCallers) \in Nat
  BY <1>2, AuthLimits, FS_CardinalityType
<1>4. ASSUME NEW k \in Failing(u)
      PROVE  Cardinality(Verifying(u)) + Cardinality(Failing(u) \ {k}) <= Cardinality(AuthCallers) - 1
  <2>1. IsFiniteSet(Failing(u) \ {k}) /\ Cardinality(Failing(u) \ {k}) = Cardinality(Failing(u)) - 1
    BY <1>2, FS_RemoveElement
  <2>2. Verifying(u) \cap Failing(u) = {}
    BY DEF Verifying, Failing
  <2>3. /\ IsFiniteSet(Verifying(u) \cup Failing(u))
        /\ Cardinality(Verifying(u) \cup Failing(u)) = Cardinality(Verifying(u)) + Cardinality(Failing(u)) - Cardinality({})
    BY <1>2, <2>2, FS_Union
  <2>4. Cardinality(Verifying(u) \cup Failing(u)) <= Cardinality(AuthCallers)
    <3>1. Verifying(u) \cup Failing(u) \in SUBSET AuthCallers
      BY <1>1
    <3> QED
      BY <3>1, AuthLimits, FS_Subset
  <2> QED
    BY <1>3, <2>1, <2>3, <2>4, FS_EmptySet
<1> QED
  BY <1>2, <1>3, <1>4

\* The verifications and failures of a user that no step of his has touched.
LEMMA GuessedSame ==
    ASSUME NEW u, Guessed(u), options' = options, failures'[u] = failures[u], guesses'[u] = guesses[u],
           Failing(u)' = Failing(u), Verifying(u)' = Verifying(u)
    PROVE  Guessed(u)'
BY DEF Guessed

\* A step that only takes a worker out of the verification, or leaves it.
LEMMA GuessingKept ==
    ASSUME AuthTypes, Guessing, NEW k \in AuthCallers, NEW r, caller' = [caller EXCEPT ![k] = r],
           r.at \notin {"verify", "failed"}, caller[k].at # "failed", UNCHANGED <<failures, guesses, options>>
    PROVE  Guessing'
<1> SUFFICES ASSUME LockoutOn, NEW u \in AuthUsers PROVE Guessed(u)'
  BY DEF Guessing, LockoutOn
<1>1. Verifying(u)' = Verifying(u) \ {k} /\ Failing(u)' = Failing(u)
  <2>1. \A j \in AuthCallers : caller'[j] = IF j = k THEN r ELSE caller[j]
    BY DEF AuthTypes
  <2> QED
    BY <2>1 DEF Verifying, Failing
<1>2. Cardinality(Verifying(u)') <= Cardinality(Verifying(u)) /\ Cardinality(Verifying(u)') \in Nat
  <2>1. IsFiniteSet(Verifying(u)) /\ (Verifying(u) \ {k}) \in SUBSET Verifying(u)
    BY GuessingCounts
  <2>2. /\ IsFiniteSet(Verifying(u) \ {k})
        /\ Cardinality(Verifying(u) \ {k}) <= Cardinality(Verifying(u))
    BY <2>1, FS_Subset
  <2>3. Cardinality(Verifying(u) \ {k}) \in Nat
    BY <2>2, FS_CardinalityType
  <2> QED
    BY <1>1, <2>2, <2>3
<1>3. guesses[u] \in Nat /\ options.failures \in Nat
  BY OptionsTyped DEF AuthTypes
<1>4. Guessed(u)
  BY DEF Guessing
<1> QED
  BY <1>1, <1>2, <1>3, <1>4, GuessingCounts DEF Guessed

\* The failures of one user are forgotten with its guesses.
LEMMA GuessingReset ==
    ASSUME AuthTypes, Guessing, NEW k \in AuthCallers, NEW r, caller' = [caller EXCEPT ![k] = r],
           r.at \notin {"verify", "failed"}, caller[k].at \notin {"verify", "failed"}, NEW v \in AuthUsers,
           failures' = [failures EXCEPT ![v] = NoFailure], guesses' = [guesses EXCEPT ![v] = 0],
           options' = options
    PROVE  Guessing'
<1> SUFFICES ASSUME LockoutOn, NEW u \in AuthUsers PROVE Guessed(u)'
  BY DEF Guessing, LockoutOn
<1>1. Verifying(u)' = Verifying(u) /\ Failing(u)' = Failing(u)
  <2>1. \A j \in AuthCallers : caller'[j] = IF j = k THEN r ELSE caller[j]
    BY DEF AuthTypes
  <2> QED
    BY <2>1 DEF Failing, Verifying
<1>2. CASE u = v
  <2>1. failures'[u] = NoFailure /\ guesses'[u] = 0
    BY <1>2 DEF AuthTypes
  <2>2. options.failures \in Nat /\ options.failures # 0
    BY OptionsTyped
  <2> QED
    BY <1>1, <2>1, <2>2, GuessingCounts DEF Guessed, NoFailure
<1>3. CASE u # v
  <2>1. failures'[u] = failures[u] /\ guesses'[u] = guesses[u] /\ Guessed(u)
    BY <1>3 DEF AuthTypes, Guessing
  <2> QED
    BY <1>1, <2>1, GuessedSame
<1> QED
  BY <1>2, <1>3

\* The sessions of an old password and the logins that know it are finitely many.
LEMMA OldCounts ==
    ASSUME AuthTypes, NEW u
    PROVE  /\ IsFiniteSet(OldSessions(u)) /\ IsFiniteSet(LateLogins(u))
           /\ Cardinality(OldSessions(u)) \in Nat /\ Cardinality(LateLogins(u)) \in Nat
<1>1. OldSessions(u) \in SUBSET tokens /\ LateLogins(u) \in SUBSET AuthCallers
  BY DEF OldSessions, OfUser, LateLogins
<1>2. IsFiniteSet(OldSessions(u)) /\ IsFiniteSet(LateLogins(u))
  BY <1>1, FS_Subset, AuthLimits DEF AuthTypes
<1> QED
  BY <1>2, FS_CardinalityType

\* A step that opens no session, changes no password and lets no login know an
\* old one.
LEMMA EvictsKept ==
    ASSUME AuthTypes, ChangeEvicts, users' = users, tokens' \in SUBSET tokens,
           \A j \in AuthCallers :
              \/ caller'[j] = caller[j]
              \/ /\ caller[j].at # "accept"
                 /\ caller'[j].at = "create" => caller'[j].record.cred = users[caller'[j].user].cred
    PROVE  ChangeEvicts'
<1> SUFFICES ASSUME NEW u \in AuthUsers,
                    ~\E k \in AuthCallers : caller'[k].at = "accept" /\ caller'[k].user = u
             PROVE  /\ \A s \in OldSessions(u)' : s.outdated
                    /\ Cardinality(OldSessions(u)') + Cardinality(LateLogins(u)') <= Cardinality(AuthCallers) - 1
  BY DEF ChangeEvicts
<1>1. /\ \A s \in OldSessions(u) : s.outdated
      /\ Cardinality(OldSessions(u)) + Cardinality(LateLogins(u)) <= Cardinality(AuthCallers) - 1
  BY DEF ChangeEvicts
<1>2. OldSessions(u)' \in SUBSET OldSessions(u) /\ LateLogins(u)' \in SUBSET LateLogins(u)
  BY DEF OldSessions, OfUser, LateLogins
<1>3. /\ Cardinality(OldSessions(u)') <= Cardinality(OldSessions(u))
      /\ Cardinality(LateLogins(u)') <= Cardinality(LateLogins(u))
      /\ IsFiniteSet(OldSessions(u)') /\ IsFiniteSet(LateLogins(u)')
  BY <1>2, OldCounts, FS_Subset
<1>4. Cardinality(OldSessions(u)') \in Nat /\ Cardinality(LateLogins(u)') \in Nat /\ Cardinality(AuthCallers) \in Nat
  BY <1>3, FS_CardinalityType, AuthLimits
<1> QED
  BY <1>1, <1>2, <1>3, <1>4, OldCounts

\* Fewer sessions and the same limit.
LEMMA ShrinkBounds ==
    ASSUME AuthInv, tokens' \in SUBSET tokens, options' = options
    PROVE  SessionBounds' /\ IsFiniteSet(tokens')
<1>1. IsFiniteSet(tokens) /\ IsFiniteSet(tokens') /\ Cardinality(tokens') <= Cardinality(tokens)
  BY FS_Subset DEF AuthInv, AuthTypes
<1>2. Cardinality(tokens) \in Nat /\ Cardinality(tokens') \in Nat /\ MaxSessions \in Nat
  BY <1>1, FS_CardinalityType, AuthLimits
<1>3. ASSUME NEW u \in AuthUsers PROVE Cardinality(OfUser(tokens, u)') <= options'.perUser
  <2>1. OfUser(tokens, u)' \in SUBSET OfUser(tokens, u) /\ OfUser(tokens, u) \in SUBSET tokens
    BY DEF OfUser
  <2>2. IsFiniteSet(OfUser(tokens, u)) /\ IsFiniteSet(OfUser(tokens, u)')
    BY <1>1, <2>1, FS_Subset
  <2>3. Cardinality(OfUser(tokens, u)') <= Cardinality(OfUser(tokens, u))
    BY <2>1, <2>2, FS_Subset
  <2>4. Cardinality(OfUser(tokens, u)') \in Nat /\ Cardinality(OfUser(tokens, u)) \in Nat
    BY <2>2, FS_CardinalityType
  <2>5. options.perUser \in Nat
    BY OptionsTyped DEF AuthInv
  <2> QED
    BY <2>3, <2>4, <2>5 DEF AuthInv, SessionBounds
<1> QED
  BY <1>1, <1>2, <1>3 DEF AuthInv, SessionBounds

-----------------------------------------------------------------------------
(* One lemma per step. *)

\* The clock passes: lock-outs and tokens expire.
LEMMA TickPreserves == ASSUME AuthInv, AuthTick PROVE AuthInv'
<1>1. authClock' \in 1 .. MaxClock
  BY AuthLimits DEF AuthTick, AuthInv, AuthTypes, AuthTypeOK
<1>2. UNCHANGED <<users, tokens, options, failures, caller, logins, guesses>>
  BY DEF AuthTick
<1>3. AuthTypes'
  BY <1>1, <1>2 DEF AuthInv, AuthTypes, AuthTypeOK
<1> QED
  BY <1>2, <1>3 DEF AuthInv, SessionBounds, OfUser, Secrets, ChangeEvicts, OldSessions, LateLogins, Guessing,
                    Guessed, LockoutOn, Verifying, Failing

\* Sessions that end: Logout and an expired token.
LEMMA EndPreserves ==
    ASSUME AuthInv, tokens' \in SUBSET tokens,
           UNCHANGED <<authClock, users, options, failures, caller, logins, guesses>>
    PROVE  AuthInv'
<1>1. AuthTypes'
  BY ShrinkBounds DEF AuthInv, AuthTypes, AuthTypeOK
<1>2. Secrets' /\ ChangeEvicts'
  BY EvictsKept DEF AuthInv, Secrets
<1> QED
  BY <1>1, <1>2, ShrinkBounds DEF AuthInv, Guessing, Guessed, LockoutOn, Verifying, Failing

\* Login(), first critical section: the lock-out is tested and the hash copied.
LEMMA LoginPreserves ==
    ASSUME AuthInv, NEW k \in AuthCallers, NEW u \in AuthUsers, NEW p \in 0 .. MaxPasswords, Login(k, u, p)
    PROVE  AuthInv'
<1> DEFINE r == [at |-> "verify", user |-> u, password |-> p]
<1>1. UNCHANGED <<authClock, users, tokens, options, logins>> /\ caller[k] = AtRest
  BY DEF Login
<1>2. CASE LockedOut(u)
  <2>1. UNCHANGED <<caller, failures, guesses>>
    BY <1>2 DEF Login
  <2> QED
    BY <1>1, <2>1, EndPreserves
<1>3. CASE ~LockedOut(u)
  <2>1. /\ caller' = [caller EXCEPT ![k] = r]
        /\ failures' = [failures EXCEPT ![u] = IF failures[u].until # 0 THEN NoFailure ELSE failures[u]]
        /\ guesses' = [guesses EXCEPT ![u] = IF failures[u].until # 0 THEN 0 ELSE guesses[u]]
    BY <1>3 DEF Login
  <2>2. r \in Working
    BY AuthLimits DEF Working, Trying
  <2>3. failures' \in [AuthUsers -> [n : Nat, until : Nat]] /\ guesses' \in [AuthUsers -> Nat]
    BY <2>1 DEF AuthInv, AuthTypes, NoFailure
  <2>4. AuthTypes'
    <3>1. caller' \in [AuthCallers -> Working]
      BY <2>1, <2>2 DEF AuthInv, AuthTypes
    <3> QED
      BY <1>1, <2>3, <3>1 DEF AuthInv, AuthTypes, AuthTypeOK
  <2>5. \A j \in AuthCallers : caller'[j] = IF j = k THEN r ELSE caller[j]
    BY <2>1 DEF AuthInv, AuthTypes
  <2>6. Secrets' /\ ChangeEvicts'
    BY <1>1, <2>5, EvictsKept DEF AuthInv, Secrets, AtRest
  <2>7. Guessing'
    <3> SUFFICES ASSUME LockoutOn, NEW v \in AuthUsers PROVE Guessed(v)'
      BY <1>1 DEF Guessing, LockoutOn
    <3>0. Guessed(v) /\ options.failures \in Nat /\ options.failures # 0
      BY OptionsTyped DEF AuthInv, Guessing
    <3>1. Failing(v)' = Failing(v) /\ (v # u => Verifying(v)' = Verifying(v))
      BY <1>1, <2>5 DEF Failing, Verifying, AtRest
    <3>2. CASE v # u
      <4>1. failures'[v] = failures[v] /\ guesses'[v] = guesses[v]
        BY <2>1, <3>2 DEF AuthInv, AuthTypes
      <4> QED
        BY <1>1, <3>0, <3>1, <3>2, <4>1, GuessedSame
    <3>3. CASE v = u /\ failures[u].until # 0
      <4>1. failures'[v] = NoFailure /\ guesses'[v] = 0
        BY <2>1, <3>3 DEF AuthInv, AuthTypes
      <4> QED
        BY <1>1, <4>1, <3>0, <3>1, GuessingCounts DEF NoFailure, Guessed
    <3>4. CASE v = u /\ failures[u].until = 0
      <4>1. failures'[v] = failures[v] /\ guesses'[v] = guesses[v]
        BY <2>1, <3>4 DEF AuthInv, AuthTypes
      <4> QED
        BY <1>1, <4>1, <3>0, <3>1, <3>4 DEF Guessed
    <3> QED
      BY <3>2, <3>3, <3>4
  <2> QED
    BY <1>1, <2>4, <2>6, <2>7, ShrinkBounds DEF AuthInv
<1> QED
  BY <1>2, <1>3

\* Login(), after the slow check: a failure is counted, a success goes on.
LEMMA VerifyLoginPreserves ==
    ASSUME AuthInv, NEW k \in AuthCallers, VerifyLogin(k)
    PROVE  AuthInv'
<1> DEFINE u == caller[k].user
<1>1. UNCHANGED <<authClock, users, tokens, options, failures, logins>> /\ caller[k].at = "verify"
  BY DEF VerifyLogin
<1>2. caller[k] \in Trying /\ u \in AuthUsers
  BY <1>1, CallerStates DEF AuthInv, Trying
<1>3. CASE users[u].cred = caller[k].password
  <2> DEFINE r == [at |-> "create", user |-> u, record |-> users[u]]
  <2>1. caller' = [caller EXCEPT ![k] = r] /\ guesses' = guesses
    BY <1>3 DEF VerifyLogin
  <2>2. r \in Working
    BY <1>2 DEF Working, Creating, AuthInv, AuthTypes
  <2>3. AuthTypes'
    <3>1. caller' \in [AuthCallers -> Working]
      BY <2>1, <2>2 DEF AuthInv, AuthTypes
    <3> QED
      BY <1>1, <2>1, <3>1 DEF AuthInv, AuthTypes, AuthTypeOK
  <2>4. \A j \in AuthCallers : caller'[j] = IF j = k THEN r ELSE caller[j]
    BY <2>1 DEF AuthInv, AuthTypes
  <2>5. users[u].cred \in Nat
    BY <1>2 DEF AuthInv, AuthTypes, UserRecord
  <2>6. Secrets'
    BY <1>1, <1>2, <2>4, <2>5 DEF AuthInv, Secrets
  <2>7. ChangeEvicts'
    BY <1>1, <2>4, EvictsKept DEF AuthInv
  <2>8. Guessing'
    BY <1>1, <2>1, GuessingKept DEF AuthInv
  <2> QED
    BY <1>1, <2>3, <2>6, <2>7, <2>8, ShrinkBounds DEF AuthInv
<1>4. CASE users[u].cred # caller[k].password
  <2> DEFINE r == [caller[k] EXCEPT !.at = "failed"]
  <2>1. caller' = [caller EXCEPT ![k] = r] /\ guesses' = [guesses EXCEPT ![u] = IF LockoutOn THEN guesses[u] + 1 ELSE guesses[u]]
    BY <1>4 DEF VerifyLogin, Goto
  <2>2. r \in Trying /\ r \in Working /\ r.at = "failed" /\ r.user = u
    BY <1>2 DEF Working, Trying
  <2>3. AuthTypes'
    <3>1. caller' \in [AuthCallers -> Working]
      BY <2>1, <2>2 DEF AuthInv, AuthTypes
    <3>2. guesses' \in [AuthUsers -> Nat]
      BY <1>2, <2>1 DEF AuthInv, AuthTypes
    <3> QED
      BY <1>1, <3>1, <3>2 DEF AuthInv, AuthTypes, AuthTypeOK
  <2>4. \A j \in AuthCallers : caller'[j] = IF j = k THEN r ELSE caller[j]
    BY <2>1 DEF AuthInv, AuthTypes
  <2>5. Secrets' /\ ChangeEvicts'
    <3> HIDE DEF r
    <3> QED
      BY <1>1, <2>2, <2>4, EvictsKept DEF AuthInv, Secrets
  <2>6. Guessing'
    <3> SUFFICES ASSUME LockoutOn, NEW v \in AuthUsers PROVE Guessed(v)'
      BY <1>1 DEF Guessing, LockoutOn
    <3>0. Guessed(v)
      BY DEF AuthInv, Guessing
    <3>1. /\ Verifying(v)' = Verifying(v) \ {k}
          /\ Failing(v)' = IF v = u THEN Failing(v) \cup {k} ELSE Failing(v)
      <4> HIDE DEF r
      <4> QED
        BY <1>1, <2>2, <2>4 DEF Failing, Verifying
    <3>2. guesses[v] \in Nat /\ failures[v].n \in Nat /\ options.failures \in Nat
      BY OptionsTyped DEF AuthInv, AuthTypes
    <3>3. CASE v # u
      <4>1. Verifying(v)' = Verifying(v) /\ Failing(v)' = Failing(v)
        BY <3>1, <3>3 DEF Verifying
      <4>2. guesses'[v] = guesses[v]
        BY <2>1, <3>3 DEF AuthInv, AuthTypes
      <4> QED
        BY <1>1, <3>0, <4>1, <4>2, GuessedSame
    <3>4. CASE v = u
      <4>1. k \in Verifying(v) /\ k \notin Failing(v)
        BY <1>1, <3>4 DEF Verifying, Failing
      <4>2. Cardinality(Verifying(v)') = Cardinality(Verifying(v)) - 1
        BY <3>1, <4>1, GuessingCounts, FS_RemoveElement
      <4>3. Cardinality(Failing(v)') = Cardinality(Failing(v)) + 1
        BY <3>1, <3>4, <4>1, GuessingCounts, FS_AddElement
      <4>4. guesses'[v] = guesses[v] + 1
        BY <1>2, <2>1, <3>4 DEF AuthInv, AuthTypes
      <4>5. Cardinality(Verifying(v)) \in Nat /\ Cardinality(Failing(v)) \in Nat /\ Cardinality(AuthCallers) \in Nat
        BY GuessingCounts
      <4> QED
        BY <1>1, <3>0, <3>2, <4>2, <4>3, <4>4, <4>5 DEF Guessed
    <3> QED
      BY <3>3, <3>4
  <2> QED
    BY <1>1, <2>3, <2>5, <2>6, ShrinkBounds DEF AuthInv
<1> QED
  BY <1>3, <1>4

\* The failed attempt is counted, or a lockout begins, or one was begun meanwhile.
LEMMA RegisterPreserves ==
    ASSUME AuthInv, NEW k \in AuthCallers, RegisterFailedAttempt(k)
    PROVE  AuthInv'
<1> DEFINE u == caller[k].user
<1>1. UNCHANGED <<authClock, users, tokens, options, logins, guesses>> /\ caller[k].at = "failed"
      /\ caller' = [caller EXCEPT ![k] = AtRest]
      /\ failures' = IF ~LockoutOn \/ LockedOut(u) THEN failures
                     ELSE [failures EXCEPT ![u] = FailedAgain(failures[u])]
  BY DEF RegisterFailedAttempt, Rest
<1>2. u \in AuthUsers
  BY <1>1, CallerStates DEF AuthInv, Trying
<1>3. \A j \in AuthCallers : caller'[j] = IF j = k THEN AtRest ELSE caller[j]
  BY <1>1 DEF AuthInv, AuthTypes
<1>4. /\ authClock \in Nat \ {0} /\ options.lockout \in Nat /\ options.failures \in Nat
      /\ failures[u] \in [n : Nat, until : Nat]
      /\ LockoutOn => options.failures # 0 /\ options.lockout # 0
  BY <1>2, AuthLimits, OptionsTyped DEF AuthInv, AuthTypes, AuthTypeOK
<1>5. /\ failures' \in [AuthUsers -> [n : Nat, until : Nat]]
      /\ \A v \in AuthUsers \ {u} : failures'[v] = failures[v]
      /\ \/ ~LockoutOn
         \/ failures'[u] = failures[u] /\ failures[u].until # 0
         \/ failures[u].n + 1 >= options.failures /\ failures'[u].until # 0
         \/ /\ failures'[u].until = failures[u].until /\ failures'[u].n = failures[u].n + 1
            /\ failures'[u].n <= options.failures - 1
  <2>0. CASE ~LockoutOn
    BY <1>1, <2>0 DEF AuthInv, AuthTypes
  <2>1. CASE LockoutOn /\ LockedOut(u)
    BY <1>1, <1>2, <1>4, <2>1 DEF LockedOut, AuthInv, AuthTypes
  <2>2. CASE LockoutOn /\ ~LockedOut(u)
    <3>1. failures' = [failures EXCEPT ![u] = FailedAgain(failures[u])]
      BY <1>1, <2>2
    <3>2. CASE failures[u].n + 1 >= options.failures
      <4>1. failures' = [failures EXCEPT ![u] = [n |-> 0, until |-> authClock + options.lockout]]
        BY <3>1, <3>2 DEF FailedAgain
      <4> QED
        BY <1>2, <1>4, <2>2, <3>2, <4>1 DEF AuthInv, AuthTypes
    <3>3. CASE ~(failures[u].n + 1 >= options.failures)
      <4> DEFINE f == [failures[u] EXCEPT !.n = failures[u].n + 1]
      <4>1. failures' = [failures EXCEPT ![u] = f]
        BY <3>1, <3>3 DEF FailedAgain
      <4>2. f \in [n : Nat, until : Nat] /\ f.n = failures[u].n + 1 /\ f.until = failures[u].until
        BY <1>4
      <4>3. failures[u].n + 1 <= options.failures - 1
        BY <1>4, <3>3
      <4> HIDE DEF f
      <4> QED
        BY <1>2, <4>1, <4>2, <4>3 DEF AuthInv, AuthTypes
    <3> QED
      BY <3>2, <3>3
  <2> QED
    BY <2>0, <2>1, <2>2
<1>6. AuthTypes'
  <2>1. caller' \in [AuthCallers -> Working]
    BY <1>1 DEF AuthInv, AuthTypes, Working
  <2> QED
    BY <1>1, <1>5, <2>1 DEF AuthInv, AuthTypes, AuthTypeOK
<1>7. Secrets' /\ ChangeEvicts'
  BY <1>1, <1>3, EvictsKept DEF AuthInv, Secrets, AtRest
<1>8. Guessing'
  <2> SUFFICES ASSUME LockoutOn, NEW v \in AuthUsers PROVE Guessed(v)'
    BY <1>1 DEF Guessing, LockoutOn
  <2>1. Verifying(v)' = Verifying(v) /\ Failing(v)' = Failing(v) \ {k}
    BY <1>1, <1>3 DEF Verifying, Failing, AtRest
  <2>2. CASE v # u
    <3>1. k \notin Failing(v)
      BY <2>2 DEF Failing
    <3>2. Failing(v)' = Failing(v) /\ Verifying(v)' = Verifying(v) /\ failures'[v] = failures[v]
      BY <1>5, <2>1, <2>2, <3>1
    <3>3. Guessed(v)
      BY DEF AuthInv, Guessing
    <3> QED
      BY <1>1, <3>2, <3>3, GuessedSame
  <2>3. CASE v = u
    <3>1. k \in Failing(u)
      BY <1>1 DEF Failing
    <3>2. Cardinality(Failing(u) \ {k}) = Cardinality(Failing(u)) - 1
      BY <3>1, GuessingCounts, FS_RemoveElement
    <3>3. /\ Cardinality(Verifying(u)) \in Nat /\ Cardinality(Failing(u)) \in Nat /\ Cardinality(AuthCallers) \in Nat
          /\ Cardinality(Verifying(u)) + Cardinality(Failing(u) \ {k}) <= Cardinality(AuthCallers) - 1
      BY <3>1, GuessingCounts
    <3>4. guesses[u] \in Nat /\ failures'[u].n \in Nat
      BY <1>2, <1>5 DEF AuthInv, AuthTypes
    <3>5. Guessed(u)
      BY <1>2 DEF AuthInv, Guessing
    <3> QED
      BY <1>1, <1>4, <1>5, <2>1, <2>3, <3>2, <3>3, <3>4, <3>5 DEF Guessed
  <2> QED
    BY <2>2, <2>3
<1> QED
  BY <1>1, <1>6, <1>7, <1>8, ShrinkBounds DEF AuthInv

\* What is left after the oldest sessions of a user have made room.
LEMMA TrimmedBounds ==
    ASSUME NEW S, IsFiniteSet(S), NEW u, NEW n \in Nat, NEW T \in Trimmed(S, u, n)
    PROVE  /\ T \in SUBSET S /\ IsFiniteSet(T)
           /\ Cardinality(OfUser(T, u)) <= n
           /\ IsFiniteSet(OfUser(T, u)) /\ Cardinality(OfUser(T, u)) \in Nat
<1>1. T \in SUBSET S /\ (Cardinality(OfUser(T, u)) <= n \/ Cardinality(OfUser(T, u)) = n)
  BY DEF Trimmed
<1>2. IsFiniteSet(T)
  BY <1>1, FS_Subset
<1>3. OfUser(T, u) \in SUBSET T
  BY DEF OfUser
<1>4. IsFiniteSet(OfUser(T, u)) /\ Cardinality(OfUser(T, u)) \in Nat
  BY <1>2, <1>3, FS_Subset, FS_CardinalityType
<1> QED
  BY <1>1, <1>2, <1>4

\* Login(): the session is created, the oldest ones are evicted.
LEMMA CreatePreserves ==
    ASSUME AuthInv, NEW k \in AuthCallers, CreateSession(k)
    PROVE  AuthInv'
<1> DEFINE u == caller[k].user
           new == [id |-> logins + 1, user |-> u, created |-> authClock,
                   expires |-> authClock + options.ttl, must |-> caller[k].record.must,
                   cred |-> caller[k].record.cred,
                   outdated |-> caller[k].record.cred # users[u].cred]
<1>1. UNCHANGED <<authClock, users, options, failures, guesses>> /\ caller[k].at = "create"
      /\ logins < MaxLogins
  BY DEF CreateSession
<1>2. caller[k] \in Creating /\ u \in AuthUsers /\ caller[k].record \in UserRecord
  BY <1>1, CallerStates DEF AuthInv, Creating
<1>3. /\ options.perUser \in Nat \ {0} /\ MaxSessions \in Nat \ {0} /\ MaxLogins \in Nat /\ logins \in 0 .. MaxLogins
      /\ authClock \in Nat \ {0} /\ options.ttl \in Nat \ {0}
  BY AuthLimits, OptionsTyped DEF AuthInv, AuthTypes, AuthTypeOK
<1>4. PICK left \in MakeRoom(Alive(tokens), u) :
          IF Cardinality(left) >= MaxSessions
          THEN tokens' = left /\ caller' = [caller EXCEPT ![k] = AtRest] /\ logins' = logins
          ELSE /\ tokens' = left \cup {new}
               /\ logins' = logins + 1
               /\ caller' = [caller EXCEPT ![k] = [caller[k] EXCEPT !.at = "clear"]]
  BY DEF CreateSession, Rest, Goto
<1>5. /\ left \in SUBSET tokens /\ IsFiniteSet(left) /\ Cardinality(OfUser(left, u)) <= options.perUser - 1
      /\ IsFiniteSet(OfUser(left, u)) /\ Cardinality(OfUser(left, u)) \in Nat
  <2>1. Alive(tokens) \in SUBSET tokens
    BY DEF Alive
  <2>2. IsFiniteSet(Alive(tokens))
    BY <2>1, FS_Subset DEF AuthInv, AuthTypes
  <2>3. left \in Trimmed(Alive(tokens), u, options.perUser - 1) /\ options.perUser - 1 \in Nat
    BY <1>3 DEF MakeRoom
  <2> QED
    BY <2>1, <2>2, <2>3, TrimmedBounds
<1>6. CASE Cardinality(left) >= MaxSessions
  <2>1. tokens' = left /\ caller' = [caller EXCEPT ![k] = AtRest] /\ logins' = logins
    BY <1>4, <1>6
  <2>2. \A j \in AuthCallers : caller'[j] = IF j = k THEN AtRest ELSE caller[j]
    BY <2>1 DEF AuthInv, AuthTypes
  <2>3. AuthTypes'
    <3>1. caller' \in [AuthCallers -> Working]
      BY <2>1 DEF AuthInv, AuthTypes, Working
    <3> QED
      BY <1>1, <1>5, <2>1, <3>1 DEF AuthInv, AuthTypes, AuthTypeOK
  <2>4. Secrets' /\ ChangeEvicts'
    BY <1>1, <1>5, <2>1, <2>2, EvictsKept DEF AuthInv, Secrets, AtRest
  <2>5. Guessing'
    BY <1>1, <2>1, GuessingKept DEF AuthInv, AtRest
  <2> QED
    BY <1>1, <1>5, <2>1, <2>3, <2>4, <2>5, ShrinkBounds DEF AuthInv
<1>7. CASE ~(Cardinality(left) >= MaxSessions)
  <2> DEFINE r == [caller[k] EXCEPT !.at = "clear"]
  <2>1. tokens' = left \cup {new} /\ caller' = [caller EXCEPT ![k] = r] /\ logins' = logins + 1
    BY <1>4, <1>7
  <2>2. r \in Creating /\ r.at = "clear" /\ r.user = u /\ r.record = caller[k].record
    BY <1>2 DEF Creating
  <2> HIDE DEF r
  <2>3. \A j \in AuthCallers : caller'[j] = IF j = k THEN r ELSE caller[j]
    BY <2>1 DEF AuthInv, AuthTypes
  <2>4. /\ caller[k].record.cred \in Nat /\ caller[k].record.must \in BOOLEAN
        /\ caller[k].record.cred <= users[u].cred
        /\ (caller[k].record.must <=> caller[k].record.cred = 0)
        /\ users[u].cred \in Nat
    BY <1>1, <1>2 DEF AuthInv, Secrets, UserRecord, AuthTypes
  <2>5. new \in Session /\ new.user = u /\ new.cred <= users[u].cred
    BY <1>2, <1>3, <2>4 DEF Session
  <2>6. ~new.must => users[u].cred # 0
    BY <2>4
  <2>7. new.cred = caller[k].record.cred /\ (new.cred = users[u].cred \/ new.outdated)
    OBVIOUS
  <2> HIDE DEF new
  <2>8. AuthTypes'
    <3>1. caller' \in [AuthCallers -> Working]
      BY <2>1, <2>2 DEF AuthInv, AuthTypes, Working
    <3>2. IsFiniteSet(tokens') /\ tokens' \subseteq Session
      BY <1>5, <2>1, <2>5, FS_AddElement DEF AuthInv, AuthTypes
    <3>3. logins' \in 0 .. MaxLogins
      BY <1>1, <1>3, <2>1
    <3>4. \A s \in tokens' : s.user \in AuthUsers /\ s.cred <= users[s.user].cred
      BY <1>2, <1>5, <2>1, <2>5 DEF AuthInv, AuthTypes, AuthTypeOK
    <3> QED
      BY <1>1, <3>1, <3>2, <3>3, <3>4 DEF AuthInv, AuthTypes, AuthTypeOK
  <2>9. Secrets'
    BY <1>1, <1>2, <1>5, <2>1, <2>2, <2>3, <2>4, <2>5, <2>6 DEF AuthInv, Secrets
  <2>10. ChangeEvicts'
    <3> SUFFICES ASSUME NEW v \in AuthUsers,
                        ~\E j \in AuthCallers : caller'[j].at = "accept" /\ caller'[j].user = v
                 PROVE  /\ \A s \in OldSessions(v)' : s.outdated
                        /\ Cardinality(OldSessions(v)') + Cardinality(LateLogins(v)') <= Cardinality(AuthCallers) - 1
      BY DEF ChangeEvicts
    <3>1. /\ \A s \in OldSessions(v) : s.outdated
          /\ Cardinality(OldSessions(v)) + Cardinality(LateLogins(v)) <= Cardinality(AuthCallers) - 1
      BY <1>1, <2>2, <2>3 DEF AuthInv, ChangeEvicts
    <3>2. /\ IsFiniteSet(OldSessions(v)) /\ IsFiniteSet(LateLogins(v))
          /\ Cardinality(OldSessions(v)) \in Nat /\ Cardinality(LateLogins(v)) \in Nat
          /\ Cardinality(AuthCallers) \in Nat
      BY OldCounts, AuthLimits, FS_CardinalityType DEF AuthInv
    <3>3. CASE v = u /\ caller[k].record.cred # users[u].cred
      <4>1. k \in LateLogins(v) /\ LateLogins(v)' = LateLogins(v) \ {k}
        BY <1>1, <2>2, <2>3, <3>3 DEF LateLogins
      <4>2. OldSessions(v)' \in SUBSET (OldSessions(v) \cup {new})
        BY <1>1, <1>5, <2>1, <2>5 DEF OldSessions, OfUser
      <4>3. Cardinality(LateLogins(v)') = Cardinality(LateLogins(v)) - 1
        BY <3>2, <4>1, FS_RemoveElement
      <4>4. /\ IsFiniteSet(OldSessions(v) \cup {new})
            /\ Cardinality(OldSessions(v) \cup {new}) \in
                  {Cardinality(OldSessions(v)), Cardinality(OldSessions(v)) + 1}
        BY <3>2, FS_AddElement
      <4>5. /\ IsFiniteSet(OldSessions(v)')
            /\ Cardinality(OldSessions(v)') <= Cardinality(OldSessions(v) \cup {new})
        BY <4>2, <4>4, FS_Subset
      <4>6. Cardinality(OldSessions(v)') \in Nat
        BY <4>5, FS_CardinalityType
      <4>7. \A s \in OldSessions(v)' : s.outdated
        BY <2>7, <3>1, <3>3, <4>2
      <4> QED
        BY <3>1, <3>2, <4>3, <4>4, <4>5, <4>6, <4>7
    <3>4. CASE ~(v = u /\ caller[k].record.cred # users[u].cred)
      <4>1. OldSessions(v)' \in SUBSET OldSessions(v) /\ LateLogins(v)' \in SUBSET LateLogins(v)
        <5>1. new \notin OldSessions(v)'
          BY <1>1, <2>5, <2>7, <3>4 DEF OldSessions, OfUser
        <5> QED
          BY <1>1, <1>5, <2>1, <2>2, <2>3, <5>1 DEF OldSessions, OfUser, LateLogins
      <4>2. /\ Cardinality(OldSessions(v)') <= Cardinality(OldSessions(v))
            /\ Cardinality(LateLogins(v)') <= Cardinality(LateLogins(v))
            /\ IsFiniteSet(OldSessions(v)') /\ IsFiniteSet(LateLogins(v)')
        BY <3>2, <4>1, FS_Subset
      <4>3. Cardinality(OldSessions(v)') \in Nat /\ Cardinality(LateLogins(v)') \in Nat
        BY <4>2, FS_CardinalityType
      <4> QED
        BY <3>1, <3>2, <4>1, <4>2, <4>3
    <3> QED
      BY <3>3, <3>4
  <2>11. Guessing'
    BY <1>1, <2>1, <2>2, GuessingKept DEF AuthInv
  <2>12. SessionBounds'
    <3>1. Cardinality(left) \in Nat /\ Cardinality(left) < MaxSessions
      BY <1>3, <1>5, <1>7, FS_CardinalityType
    <3>2. Cardinality(left \cup {new}) <= Cardinality(left) + 1 /\ Cardinality(left \cup {new}) \in Nat
      <4>1. Cardinality(left \cup {new}) = IF new \in left THEN Cardinality(left) ELSE Cardinality(left) + 1
        BY <1>5, FS_AddElement
      <4> QED
        BY <3>1, <4>1
    <3>3. Cardinality(tokens') <= MaxSessions
      BY <1>3, <2>1, <3>1, <3>2
    <3>4. ASSUME NEW v \in AuthUsers PROVE Cardinality(OfUser(tokens', v)) <= options.perUser
      <4>1. CASE v = u
        <5>1. OfUser(tokens', v) = OfUser(left, u) \cup {new}
          BY <2>1, <2>5, <4>1 DEF OfUser
        <5>2. Cardinality(OfUser(left, u) \cup {new}) =
                  IF new \in OfUser(left, u) THEN Cardinality(OfUser(left, u)) ELSE Cardinality(OfUser(left, u)) + 1
          BY <1>5, FS_AddElement
        <5> QED
          BY <1>3, <1>5, <5>1, <5>2
      <4>2. CASE v # u
        <5>1. OfUser(tokens', v) \in SUBSET OfUser(tokens, v) /\ OfUser(tokens, v) \in SUBSET tokens
          BY <1>5, <2>1, <2>5, <4>2 DEF OfUser
        <5>2. IsFiniteSet(OfUser(tokens, v))
          BY <5>1, FS_Subset DEF AuthInv, AuthTypes
        <5>3. /\ IsFiniteSet(OfUser(tokens', v))
              /\ Cardinality(OfUser(tokens', v)) <= Cardinality(OfUser(tokens, v))
          BY <5>1, <5>2, FS_Subset
        <5>4. Cardinality(OfUser(tokens', v)) \in Nat /\ Cardinality(OfUser(tokens, v)) \in Nat
          BY <5>2, <5>3, FS_CardinalityType
        <5> QED
          BY <1>3, <5>3, <5>4 DEF AuthInv, SessionBounds
      <4> QED
        BY <4>1, <4>2
    <3> QED
      BY <1>1, <3>3, <3>4 DEF SessionBounds, OfUser
  <2> QED
    BY <2>8, <2>9, <2>10, <2>11, <2>12 DEF AuthInv
<1> QED
  BY <1>6, <1>7

\* Login(): the failed attempts are forgotten.
LEMMA ClearPreserves ==
    ASSUME AuthInv, NEW k \in AuthCallers, ClearFailedAttempts(k)
    PROVE  AuthInv'
<1> DEFINE u == caller[k].user
<1>1. /\ UNCHANGED <<authClock, users, tokens, options, logins>> /\ caller[k].at = "clear"
      /\ caller' = [caller EXCEPT ![k] = AtRest]
      /\ failures' = [failures EXCEPT ![u] = NoFailure] /\ guesses' = [guesses EXCEPT ![u] = 0]
  BY DEF ClearFailedAttempts, Rest
<1>2. u \in AuthUsers
  BY <1>1, CallerStates DEF AuthInv, Creating
<1>3. AuthTypes'
  <2>1. caller' \in [AuthCallers -> Working]
    BY <1>1 DEF AuthInv, AuthTypes, Working
  <2>2. failures' \in [AuthUsers -> [n : Nat, until : Nat]] /\ guesses' \in [AuthUsers -> Nat]
    BY <1>1, <1>2 DEF AuthInv, AuthTypes, NoFailure
  <2> QED
    BY <1>1, <2>1, <2>2 DEF AuthInv, AuthTypes, AuthTypeOK
<1>4. Secrets' /\ ChangeEvicts'
  <2>1. \A j \in AuthCallers : caller'[j] = IF j = k THEN AtRest ELSE caller[j]
    BY <1>1 DEF AuthInv, AuthTypes
  <2> QED
    BY <1>1, <2>1, EvictsKept DEF AuthInv, Secrets, AtRest
<1>5. Guessing'
  BY <1>1, <1>2, GuessingReset DEF AuthInv, AtRest
<1> QED
  BY <1>1, <1>3, <1>4, <1>5, ShrinkBounds DEF AuthInv

\* ChangePassword(), first critical section.
LEMMA ChangePasswordPreserves ==
    ASSUME AuthInv, NEW k \in AuthCallers, NEW s \in tokens, NEW p \in 0 .. MaxPasswords, ChangePassword(k, s, p)
    PROVE  AuthInv'
<1> DEFINE r == IF s \in Alive(tokens) THEN [at |-> "check", user |-> s.user, id |-> s.id, password |-> p] ELSE AtRest
<1>1. /\ UNCHANGED <<authClock, users, options, failures, logins, guesses>> /\ caller[k] = AtRest
      /\ tokens' = Alive(tokens) /\ caller' = [caller EXCEPT ![k] = r]
  <2>1. CASE s \in Alive(tokens)
    BY <2>1 DEF ChangePassword
  <2>2. CASE s \notin Alive(tokens)
    BY <2>2 DEF ChangePassword, AuthInv, AuthTypes
  <2> QED
    BY <2>1, <2>2
<1>2. r \in Working /\ r.at \in {"idle", "check"}
  <2>1. s \in Session
    BY DEF AuthInv, AuthTypes
  <2> QED
    BY <2>1, AuthLimits DEF Working, Changing, Session, AtRest
<1> HIDE DEF r
<1>3. tokens' \in SUBSET tokens
  BY <1>1 DEF Alive
<1>4. AuthTypes'
  <2>1. caller' \in [AuthCallers -> Working]
    BY <1>1, <1>2 DEF AuthInv, AuthTypes
  <2> QED
    BY <1>1, <1>3, <2>1, ShrinkBounds DEF AuthInv, AuthTypes, AuthTypeOK
<1>5. Secrets' /\ ChangeEvicts'
  <2>1. \A j \in AuthCallers : caller'[j] = IF j = k THEN r ELSE caller[j]
    BY <1>1 DEF AuthInv, AuthTypes
  <2> QED
    BY <1>1, <1>2, <1>3, <2>1, EvictsKept DEF AuthInv, Secrets, AtRest
<1>6. Guessing'
  <2>1. r.at \notin {"verify", "failed"} /\ caller[k].at # "failed"
    BY <1>1, <1>2 DEF AtRest
  <2> QED
    BY <1>1, <2>1, GuessingKept DEF AuthInv
<1> QED
  BY <1>1, <1>3, <1>4, <1>5, <1>6, ShrinkBounds DEF AuthInv

\* ChangePassword(), after the slow check: the user table is replaced and the
\* sessions of the user are evicted.
LEMMA VerifyChangePreserves ==
    ASSUME AuthInv, NEW k \in AuthCallers, VerifyChange(k)
    PROVE  AuthInv'
<1>1. UNCHANGED <<authClock, users, tokens, options, failures, logins, guesses>> /\ caller[k].at = "check"
  BY DEF VerifyChange
<1>2. PICK r \in Working : caller' = [caller EXCEPT ![k] = r] /\ r.at \in {"idle", "update"}
  <2>1. caller[k] \in Changing
    BY <1>1, CallerStates DEF AuthInv
  <2>2. [caller[k] EXCEPT !.at = "update"] \in Changing /\ [caller[k] EXCEPT !.at = "update"].at = "update"
    BY <2>1 DEF Changing
  <2>3. AtRest \in Working /\ AtRest.at = "idle" /\ [caller[k] EXCEPT !.at = "update"] \in Working
    BY <2>2 DEF Working, AtRest
  <2> QED
    BY <2>2, <2>3 DEF VerifyChange, Goto, Rest
<1>3. AuthTypes'
  <2>1. caller' \in [AuthCallers -> Working]
    BY <1>2 DEF AuthInv, AuthTypes
  <2> QED
    BY <1>1, <2>1 DEF AuthInv, AuthTypes, AuthTypeOK
<1>4. Secrets' /\ ChangeEvicts'
  <2>1. \A j \in AuthCallers : caller'[j] = IF j = k THEN r ELSE caller[j]
    BY <1>2 DEF AuthInv, AuthTypes
  <2> QED
    BY <1>1, <1>2, <2>1, EvictsKept DEF AuthInv, Secrets
<1>5. Guessing'
  BY <1>1, <1>2, GuessingKept DEF AuthInv
<1> QED
  BY <1>1, <1>3, <1>4, <1>5, ShrinkBounds DEF AuthInv

\* The new password makes the sessions of the old one outdated until the worker
\* that changed it has ended them.
LEMMA UpdatePreserves ==
    ASSUME AuthInv, NEW k \in AuthCallers, UpdatePassword(k)
    PROVE  AuthInv'
<1> DEFINE u == caller[k].user
<1>1. UNCHANGED <<authClock, tokens, options, failures, logins, guesses>> /\ caller[k].at = "update"
  BY DEF UpdatePassword
<1>2. caller[k] \in Changing /\ u \in AuthUsers
  BY <1>1, CallerStates DEF AuthInv, Changing
<1>3. CASE users' = users /\ caller' = [caller EXCEPT ![k] = AtRest]
  <2>1. AuthTypes'
    <3>1. caller' \in [AuthCallers -> Working]
      BY <1>3 DEF AuthInv, AuthTypes, Working
    <3> QED
      BY <1>1, <1>3, <3>1 DEF AuthInv, AuthTypes, AuthTypeOK
  <2>2. Secrets' /\ ChangeEvicts'
    <3>1. \A j \in AuthCallers : caller'[j] = IF j = k THEN AtRest ELSE caller[j]
      BY <1>3 DEF AuthInv, AuthTypes
    <3> QED
      BY <1>1, <1>3, <3>1, EvictsKept DEF AuthInv, Secrets, AtRest
  <2>3. Guessing'
    BY <1>1, <1>3, GuessingKept DEF AuthInv, AtRest
  <2> QED
    BY <1>1, <2>1, <2>2, <2>3, ShrinkBounds DEF AuthInv
<1>4. CASE /\ users[u].cred < MaxPasswords
           /\ users' = [users EXCEPT ![u].cred = @ + 1, ![u].must = FALSE]
           /\ caller' = [caller EXCEPT ![k].at = "accept"]
  <2> DEFINE r == [caller[k] EXCEPT !.at = "accept"]
  <2>1. caller' = [caller EXCEPT ![k] = r] /\ r \in Changing /\ r \in Working /\ r.at = "accept" /\ r.user = u
    BY <1>2, <1>4 DEF Changing, Working
  <2> HIDE DEF r
  <2>2. /\ users[u] \in UserRecord /\ users[u].cred \in 0 .. MaxPasswords /\ MaxPasswords \in Nat
        /\ users' = [users EXCEPT ![u] = [users[u] EXCEPT !.cred = users[u].cred + 1, !.must = FALSE]]
    BY <1>2, <1>4, AuthLimits DEF AuthInv, AuthTypes, AuthTypeOK
  <2>3. [users[u] EXCEPT !.cred = users[u].cred + 1, !.must = FALSE] \in UserRecord
    <3>1. users[u].cred + 1 \in Nat
      BY <2>2
    <3> QED
      BY <2>2, <3>1, Zenon DEF UserRecord
  <2>4. /\ users' \in [AuthUsers -> UserRecord]
        /\ \A v \in AuthUsers \ {u} : users'[v] = users[v]
        /\ users'[u].cred = users[u].cred + 1 /\ users'[u].must = FALSE /\ users'[u].cred \in 1 .. MaxPasswords
    BY <1>2, <1>4, <2>2, <2>3 DEF AuthInv, AuthTypes, UserRecord
  <2>5. \A v \in AuthUsers : users[v].cred <= users'[v].cred /\ users[v].cred \in Nat /\ users'[v].cred \in Nat
    BY <2>4 DEF AuthInv, AuthTypes, UserRecord
  <2>6. \A j \in AuthCallers : caller'[j] = IF j = k THEN r ELSE caller[j]
    BY <2>1 DEF AuthInv, AuthTypes
  <2>7. AuthTypes'
    <3>1. caller' \in [AuthCallers -> Working]
      BY <2>1 DEF AuthInv, AuthTypes
    <3>2. \A s \in tokens : s.user \in AuthUsers /\ s.cred \in Nat /\ s.cred <= users'[s.user].cred
      BY <2>5 DEF AuthInv, AuthTypes, AuthTypeOK, Session
    <3>3. \A v \in AuthUsers : users'[v].cred \in 0 .. MaxPasswords /\ users'[v].must \in BOOLEAN
      <4>1. \A v \in AuthUsers : users'[v].must \in BOOLEAN
        BY <2>4 DEF UserRecord
      <4>2. \A v \in AuthUsers : users'[v].cred \in 0 .. MaxPasswords
        BY <2>2, <2>4 DEF AuthInv, AuthTypes, AuthTypeOK
      <4> QED
        BY <4>1, <4>2
    <3> QED
      BY <1>1, <2>4, <3>1, <3>2, <3>3 DEF AuthInv, AuthTypes, AuthTypeOK
  <2>8. Secrets'
    <3>1. \A v \in AuthUsers : users'[v].must <=> users'[v].cred = 0
      BY <2>4, <2>5 DEF AuthInv, Secrets
    <3>2. \A s \in tokens : ~s.must => users'[s.user].cred # 0
      BY <2>5 DEF AuthInv, Secrets, AuthTypes, AuthTypeOK
    <3>3. ASSUME NEW j \in AuthCallers
          PROVE  /\ caller'[j].at \in {"create", "clear"} =>
                       /\ caller'[j].record.cred <= users'[caller'[j].user].cred
                       /\ caller'[j].record.must <=> caller'[j].record.cred = 0
                 /\ caller'[j].at = "accept" => users'[caller'[j].user].cred # 0
      <4>1. CASE j = k
        BY <2>1, <2>4, <2>6, <4>1
      <4>2. CASE j # k
        <5>1. caller'[j] = caller[j]
          BY <2>6, <4>2
        <5>2. caller[j].at \in {"create", "clear"} =>
                 caller[j].user \in AuthUsers /\ caller[j].record.cred \in Nat
          BY CallerStates DEF AuthInv, Creating, UserRecord
        <5>3. caller[j].at = "accept" => caller[j].user \in AuthUsers
          BY CallerStates DEF AuthInv, Changing
        <5> QED
          BY <2>5, <5>1, <5>2, <5>3 DEF AuthInv, Secrets
      <4> QED
        BY <4>1, <4>2
    <3> QED
      BY <1>1, <3>1, <3>2, <3>3 DEF Secrets
  <2>9. ChangeEvicts'
    <3> SUFFICES ASSUME NEW v \in AuthUsers,
                        ~\E j \in AuthCallers : caller'[j].at = "accept" /\ caller'[j].user = v
                 PROVE  /\ \A s \in OldSessions(v)' : s.outdated
                        /\ Cardinality(OldSessions(v)') + Cardinality(LateLogins(v)') <= Cardinality(AuthCallers) - 1
      BY DEF ChangeEvicts
    <3>1. v # u
      BY <2>1, <2>6
    <3>2. users'[v] = users[v]
      BY <2>4, <3>1
    <3>3. OldSessions(v)' = OldSessions(v) /\ LateLogins(v)' = LateLogins(v)
      BY <1>1, <2>1, <2>6, <3>2 DEF OldSessions, OfUser, LateLogins
    <3>4. ~\E j \in AuthCallers : caller[j].at = "accept" /\ caller[j].user = v
      BY <1>1, <2>6
    <3> QED
      BY <3>3, <3>4 DEF AuthInv, ChangeEvicts
  <2>10. Guessing'
    BY <1>1, <2>1, GuessingKept DEF AuthInv
  <2> QED
    BY <1>1, <2>7, <2>8, <2>9, <2>10, ShrinkBounds DEF AuthInv
<1> QED
  BY <1>3, <1>4 DEF UpdatePassword, Goto, Rest

\* A set has no more elements than one it is computed from.
LEMMA ImageBound ==
    ASSUME NEW S, IsFiniteSet(S), NEW f, NEW T, \A t \in T : \E s \in S : f[s] = t
    PROVE  IsFiniteSet(T) /\ Cardinality(T) <= Cardinality(S)
<1> DEFINE g == [t \in T |-> CHOOSE s \in S : f[s] = t]
<1>1. \A t \in T : g[t] \in S /\ f[g[t]] = t
  OBVIOUS
<1>2. g \in [T -> S]
  BY <1>1
<1>3. \A a, b \in T : g[a] = g[b] => a = b
  BY <1>1
<1> HIDE DEF g
<1>4. g \in Injection(T, S)
  BY <1>2, <1>3 DEF Injection, IsInjective
<1> QED
  BY <1>4, FS_Injection

\* Only the session that changed the password goes on, under the new one.
LEMMA AcceptPreserves ==
    ASSUME AuthInv, NEW k \in AuthCallers, AcceptChangedPasswordSession(k)
    PROVE  AuthInv'
<1> DEFINE u == caller[k].user
           id == caller[k].id
           Renewed(s) == [s EXCEPT !.must = FALSE, !.cred = users[u].cred]
<1>1. /\ UNCHANGED <<authClock, users, options, logins>> /\ caller[k].at = "accept"
      /\ caller' = [caller EXCEPT ![k] = AtRest] /\ tokens' = AfterChange(tokens, u, id)
      /\ failures' = [failures EXCEPT ![u] = NoFailure] /\ guesses' = [guesses EXCEPT ![u] = 0]
  BY DEF AcceptChangedPasswordSession, Rest
<1>2. u \in AuthUsers /\ users[u].cred \in Nat /\ users[u].cred # 0
  <2>1. u \in AuthUsers
    BY <1>1, CallerStates DEF AuthInv, Changing
  <2> QED
    BY <1>1, <2>1 DEF AuthInv, Secrets, AuthTypes, UserRecord
<1>3. ASSUME NEW s \in tokens
      PROVE  /\ Renewed(s) \in Session /\ Renewed(s).user = s.user /\ Renewed(s).cred = users[u].cred
             /\ Renewed(s).must = FALSE
  <2>1. s \in Session
    BY DEF AuthInv, AuthTypes
  <2> QED
    BY <1>2, <2>1, Zenon DEF Session
<1>4. ASSUME NEW t \in tokens'
      PROVE  \/ t \in tokens /\ t.user # u
             \/ \E s \in tokens : s.user = u /\ t = Renewed(s)
  BY <1>1 DEF AfterChange, OfUser
<1> DEFINE f == [s \in tokens |-> IF s.user = u THEN Renewed(s) ELSE s]
<1>5. ASSUME NEW t \in tokens'
      PROVE  \E s \in tokens : f[s] = t /\ s.user = t.user
  <2>1. CASE t \in tokens /\ t.user # u
    BY <2>1
  <2>2. ASSUME NEW s \in tokens, s.user = u, t = Renewed(s) PROVE f[s] = t /\ s.user = t.user
    BY <1>3, <2>2
  <2> QED
    BY <1>4, <2>1, <2>2
<1> HIDE DEF f, Renewed
<1>6. ASSUME NEW t \in tokens'
      PROVE  /\ t \in Session /\ t.user \in AuthUsers /\ t.cred <= users[t.user].cred
             /\ ~t.must => users[t.user].cred # 0
             /\ t.user = u => t.cred = users[u].cred
             /\ t.user # u => t \in tokens
  <2>1. CASE t \in tokens /\ t.user # u
    BY <2>1 DEF AuthInv, AuthTypes, AuthTypeOK, Secrets
  <2>2. ASSUME NEW s \in tokens, s.user = u, t = Renewed(s)
        PROVE  t \in Session /\ t.user = u /\ t.cred = users[u].cred
    BY <1>3, <2>2
  <2> QED
    BY <1>2, <1>4, <2>1, <2>2
<1>7. IsFiniteSet(tokens') /\ Cardinality(tokens') <= Cardinality(tokens)
  BY <1>5, ImageBound DEF AuthInv, AuthTypes
<1>8. AuthTypes'
  <2>1. caller' \in [AuthCallers -> Working]
    BY <1>1 DEF AuthInv, AuthTypes, Working
  <2>2. failures' \in [AuthUsers -> [n : Nat, until : Nat]] /\ guesses' \in [AuthUsers -> Nat]
    BY <1>1, <1>2 DEF AuthInv, AuthTypes, NoFailure
  <2> QED
    BY <1>1, <1>6, <1>7, <2>1, <2>2 DEF AuthInv, AuthTypes, AuthTypeOK
<1>9. \A j \in AuthCallers : caller'[j] = IF j = k THEN AtRest ELSE caller[j]
  BY <1>1 DEF AuthInv, AuthTypes
<1>10. Secrets'
  BY <1>1, <1>6, <1>9 DEF AuthInv, Secrets, AtRest
<1>11. ChangeEvicts'
  <2> SUFFICES ASSUME NEW v \in AuthUsers,
                      ~\E j \in AuthCallers : caller'[j].at = "accept" /\ caller'[j].user = v
               PROVE  /\ \A s \in OldSessions(v)' : s.outdated
                      /\ Cardinality(OldSessions(v)') + Cardinality(LateLogins(v)') <= Cardinality(AuthCallers) - 1
    BY DEF ChangeEvicts
  <2>1. CASE v = u
    <3>1. OldSessions(v)' = {}
      BY <1>1, <1>6, <2>1 DEF OldSessions, OfUser
    <3>2. LateLogins(v)' \in SUBSET (AuthCallers \ {k})
      BY <1>9 DEF LateLogins, AtRest
    <3>3. /\ IsFiniteSet(AuthCallers \ {k}) /\ Cardinality(AuthCallers \ {k}) = Cardinality(AuthCallers) - 1
          /\ Cardinality(AuthCallers) \in Nat
      BY AuthLimits, FS_RemoveElement, FS_CardinalityType
    <3>4. IsFiniteSet(LateLogins(v)') /\ Cardinality(LateLogins(v)') <= Cardinality(AuthCallers \ {k})
      BY <3>2, <3>3, FS_Subset
    <3>5. Cardinality(LateLogins(v)') \in Nat
      BY <3>4, FS_CardinalityType
    <3> QED
      BY <3>1, <3>3, <3>4, <3>5, FS_EmptySet
  <2>2. CASE v # u
    <3>1. OldSessions(v)' \in SUBSET OldSessions(v) /\ LateLogins(v)' = LateLogins(v)
      BY <1>1, <1>6, <1>9, <2>2 DEF OldSessions, OfUser, LateLogins, AtRest
    <3>2. ~\E j \in AuthCallers : caller[j].at = "accept" /\ caller[j].user = v
      BY <1>9, <2>2
    <3>3. /\ \A s \in OldSessions(v) : s.outdated
          /\ Cardinality(OldSessions(v)) + Cardinality(LateLogins(v)) <= Cardinality(AuthCallers) - 1
      BY <3>2 DEF AuthInv, ChangeEvicts
    <3>4. /\ IsFiniteSet(OldSessions(v)') /\ Cardinality(OldSessions(v)') <= Cardinality(OldSessions(v))
          /\ Cardinality(OldSessions(v)) \in Nat /\ Cardinality(LateLogins(v)) \in Nat
      BY <3>1, OldCounts, FS_Subset DEF AuthInv
    <3>5. Cardinality(OldSessions(v)') \in Nat /\ Cardinality(AuthCallers) \in Nat
      BY <3>4, FS_CardinalityType, AuthLimits
    <3> QED
      BY <3>1, <3>3, <3>4, <3>5
  <2> QED
    BY <2>1, <2>2
<1>12. Guessing'
  BY <1>1, <1>2, GuessingReset DEF AuthInv, AtRest
<1>13. SessionBounds'
  <2>1. Cardinality(tokens') <= MaxSessions
    <3>1. Cardinality(tokens) \in Nat /\ Cardinality(tokens') \in Nat /\ MaxSessions \in Nat
      BY <1>7, FS_CardinalityType, AuthLimits DEF AuthInv, AuthTypes
    <3> QED
      BY <1>7, <3>1 DEF AuthInv, SessionBounds
  <2>2. ASSUME NEW v \in AuthUsers PROVE Cardinality(OfUser(tokens', v)) <= options.perUser
    <3>1. OfUser(tokens, v) \in SUBSET tokens
      BY DEF OfUser
    <3>2. IsFiniteSet(OfUser(tokens, v))
      BY <3>1, FS_Subset DEF AuthInv, AuthTypes
    <3>3. \A t \in OfUser(tokens', v) : \E s \in OfUser(tokens, v) : f[s] = t
      BY <1>5 DEF OfUser
    <3>4. IsFiniteSet(OfUser(tokens', v)) /\ Cardinality(OfUser(tokens', v)) <= Cardinality(OfUser(tokens, v))
      BY <3>2, <3>3, ImageBound
    <3>5. Cardinality(OfUser(tokens', v)) \in Nat /\ Cardinality(OfUser(tokens, v)) \in Nat /\ options.perUser \in Nat
      BY <3>2, <3>4, FS_CardinalityType, OptionsTyped DEF AuthInv
    <3> QED
      BY <3>4, <3>5 DEF AuthInv, SessionBounds
  <2> QED
    BY <1>1, <2>1, <2>2 DEF SessionBounds, OfUser
<1> QED
  BY <1>8, <1>10, <1>11, <1>12, <1>13 DEF AuthInv

\* A new configuration: sessions beyond the new limit go, and the guesses are
\* counted anew.
LEMMA ApplyUserConfigPreserves == ASSUME AuthInv, ApplyUserConfig PROVE AuthInv'
<1>1. UNCHANGED <<authClock, users, failures, caller, logins>> /\ guesses' = [u \in AuthUsers |-> 0]
  BY DEF ApplyUserConfig
<1>2. PICK new \in UserConfigs :
          /\ options' = new /\ tokens' \in SUBSET Alive(tokens)
          /\ \A u \in AuthUsers : OfUser(tokens', u) \in Trimmed(OfUser(Alive(tokens), u), u, new.perUser)
  BY DEF ApplyUserConfig
<1> DEFINE n == new.perUser
<1>3. n \in Nat /\ new.failures \in Nat /\ tokens' \in SUBSET tokens
  BY <1>2, AuthLimits DEF Alive
<1> HIDE DEF n
<1>4. IsFiniteSet(tokens') /\ Cardinality(tokens') <= Cardinality(tokens)
  BY <1>3, FS_Subset DEF AuthInv, AuthTypes
<1>5. AuthTypes'
  BY <1>1, <1>2, <1>3, <1>4 DEF AuthInv, AuthTypes, AuthTypeOK
<1>6. Secrets' /\ ChangeEvicts'
  BY <1>1, <1>3, EvictsKept DEF AuthInv, Secrets
<1>7. SessionBounds'
  <2>1. Cardinality(tokens') <= MaxSessions
    <3>1. Cardinality(tokens) \in Nat /\ Cardinality(tokens') \in Nat /\ MaxSessions \in Nat
      BY <1>4, FS_CardinalityType, AuthLimits DEF AuthInv, AuthTypes
    <3> QED
      BY <1>4, <3>1 DEF AuthInv, SessionBounds
  <2>2. ASSUME NEW v \in AuthUsers PROVE Cardinality(OfUser(tokens', v)) <= n
    <3>1. OfUser(Alive(tokens), v) \in SUBSET tokens
      BY DEF OfUser, Alive
    <3>2. IsFiniteSet(OfUser(Alive(tokens), v))
      BY <3>1, FS_Subset DEF AuthInv, AuthTypes
    <3>3. Cardinality(OfUser(OfUser(tokens', v), v)) <= n
      BY <1>2, <1>3, <3>2, TrimmedBounds DEF n
    <3>4. OfUser(OfUser(tokens', v), v) = OfUser(tokens', v)
      BY DEF OfUser
    <3> QED
      BY <3>3, <3>4
  <2> QED
    BY <1>2, <2>1, <2>2 DEF SessionBounds, OfUser, n
<1>8. Guessing'
  <2> SUFFICES ASSUME LockoutOn', NEW u \in AuthUsers PROVE Guessed(u)'
    BY DEF Guessing
  <2>1. Failing(u)' = Failing(u) /\ Verifying(u)' = Verifying(u) /\ guesses'[u] = 0
    BY <1>1 DEF Failing, Verifying
  <2>2. options'.failures \in Nat \ {0} /\ failures[u].n \in Nat
    BY <1>2, <1>3 DEF LockoutOn, AuthInv, AuthTypes
  <2>3. Cardinality(Verifying(u)) <= Cardinality(AuthCallers)
    BY AuthLimits, FS_Subset DEF Verifying
  <2> QED
    BY <1>1, <2>1, <2>2, <2>3, GuessingCounts DEF Guessed
<1> QED
  BY <1>5, <1>6, <1>7, <1>8 DEF AuthInv

\* Every step of the authentication service keeps its invariant.
LEMMA AuthStepPreserves == ASSUME AuthInv, AuthStep PROVE AuthInv'
<1>1. ASSUME NEW k \in AuthCallers, NEW s \in tokens, Logout(k, s) PROVE AuthInv'
  BY <1>1, EndPreserves DEF Logout
<1>2. ASSUME NEW s \in tokens, ExpireToken(s) PROVE AuthInv'
  BY <1>2, EndPreserves DEF ExpireToken
<1> QED
  BY <1>1, <1>2, TickPreserves, ApplyUserConfigPreserves, LoginPreserves, VerifyLoginPreserves, RegisterPreserves,
     CreatePreserves, ClearPreserves, ChangePasswordPreserves, VerifyChangePreserves, UpdatePreserves,
     AcceptPreserves DEF AuthStep

-----------------------------------------------------------------------------
(* The upload handler *)

\* A step of the handler leaves users, sessions and failures alone.
LEMMA HandlerPreserves ==
    ASSUME AuthInv, NEW k \in AuthCallers, NEW r \in Uploading \cup {AtRest}, caller' = [caller EXCEPT ![k] = r],
           caller[k].at \in {"idle", "write", "validate"},
           UNCHANGED <<authClock, users, tokens, options, failures, logins, guesses>>
    PROVE  AuthInv'
<1>1. r.at \in {"idle", "write", "validate"} /\ r \in Working
  BY DEF Uploading, AtRest, Working
<1>2. AuthTypes'
  <2>1. caller' \in [AuthCallers -> Working]
    BY <1>1 DEF AuthInv, AuthTypes
  <2> QED
    BY <2>1 DEF AuthInv, AuthTypes, AuthTypeOK
<1>3. Secrets' /\ ChangeEvicts'
  <2>1. \A j \in AuthCallers : caller'[j] = IF j = k THEN r ELSE caller[j]
    BY DEF AuthInv, AuthTypes
  <2> QED
    BY <1>1, <2>1, EvictsKept DEF AuthInv, Secrets
<1>4. Guessing'
  BY <1>1, GuessingKept DEF AuthInv
<1> QED
  BY <1>2, <1>3, <1>4, ShrinkBounds DEF AuthInv

\* No other call makes a worker the writer of a file.
LEMMA OnlyUploadWrites ==
    ASSUME AuthInv, AuthStep, NEW j \in AuthCallers, caller'[j].at = "write"
    PROVE  caller[j].at = "write"
<1> SUFFICES ASSUME caller'[j] # caller[j] PROVE FALSE
  OBVIOUS
<1>1. caller \in [AuthCallers -> Working]
  BY DEF AuthInv, AuthTypes
<1>2. PICK k \in AuthCallers :
          \/ \E u \in AuthUsers, p \in 0 .. MaxPasswords : Login(k, u, p)
          \/ VerifyLogin(k) \/ RegisterFailedAttempt(k) \/ CreateSession(k) \/ ClearFailedAttempts(k)
          \/ \E s \in tokens, p \in 0 .. MaxPasswords : ChangePassword(k, s, p)
          \/ VerifyChange(k) \/ UpdatePassword(k) \/ AcceptChangedPasswordSession(k)
  BY DEF AuthStep, AuthTick, ApplyUserConfig, Logout, ExpireToken
<1>3. \/ \E r \in Trying \cup Creating \cup Changing \cup {AtRest} : caller' = [caller EXCEPT ![k] = r]
      \/ \E at \in {"failed", "clear", "update", "accept"} : caller' = [caller EXCEPT ![k].at = at] /\ caller[k].at # "idle"
  <2>1. ASSUME NEW u \in AuthUsers, NEW p \in 0 .. MaxPasswords, Login(k, u, p)
        PROVE  caller' = [caller EXCEPT ![k] = [at |-> "verify", user |-> u, password |-> p]]
    BY <1>1, <2>1 DEF Login
  <2>2. ASSUME NEW u \in AuthUsers, NEW p \in 0 .. MaxPasswords
        PROVE  [at |-> "verify", user |-> u, password |-> p] \in Trying
    BY AuthLimits DEF Trying
  <2>3. ASSUME NEW s \in tokens, NEW p \in 0 .. MaxPasswords, ChangePassword(k, s, p)
        PROVE  \/ caller' = [caller EXCEPT ![k] = [at |-> "check", user |-> s.user, id |-> s.id, password |-> p]]
               \/ caller' = caller
    BY <2>3 DEF ChangePassword
  <2>4. ASSUME NEW s \in tokens, NEW p \in 0 .. MaxPasswords
        PROVE  [at |-> "check", user |-> s.user, id |-> s.id, password |-> p] \in Changing
    BY AuthLimits DEF AuthInv, AuthTypes, Session, Changing
  <2>5. ASSUME VerifyLogin(k)
        PROVE  \/ caller' = [caller EXCEPT ![k].at = "failed"] /\ caller[k].at # "idle"
               \/ \E r \in Creating : caller' = [caller EXCEPT ![k] = r]
    <3>1. caller[k].user \in AuthUsers
      BY <2>5, CallerStates DEF VerifyLogin, AuthInv, Trying
    <3>2. [at |-> "create", user |-> caller[k].user, record |-> users[caller[k].user]] \in Creating
      BY <3>1 DEF Creating, AuthInv, AuthTypes
    <3> QED
      BY <2>5, <3>2 DEF VerifyLogin, Goto
  <2>6. CASE RegisterFailedAttempt(k) \/ CreateSession(k) \/ ClearFailedAttempts(k) \/ VerifyChange(k) \/ UpdatePassword(k)
             \/ AcceptChangedPasswordSession(k)
    BY <2>6 DEF RegisterFailedAttempt, CreateSession, ClearFailedAttempts, VerifyChange, UpdatePassword,
                AcceptChangedPasswordSession, Goto, Rest
  <2> QED
    BY <1>2, <2>1, <2>2, <2>3, <2>4, <2>5, <2>6
<1>4. CASE \E r \in Trying \cup Creating \cup Changing \cup {AtRest} : caller' = [caller EXCEPT ![k] = r]
  <2>1. PICK r \in Trying \cup Creating \cup Changing \cup {AtRest} : caller' = [caller EXCEPT ![k] = r]
    BY <1>4
  <2>2. r.at # "write"
    BY DEF Trying, Creating, Changing, AtRest
  <2> QED
    BY <1>1, <2>1, <2>2
<1>5. CASE \E at \in {"failed", "clear", "update", "accept"} : caller' = [caller EXCEPT ![k].at = at] /\ caller[k].at # "idle"
  <2>1. PICK at \in {"failed", "clear", "update", "accept"} :
            caller' = [caller EXCEPT ![k] = [caller[k] EXCEPT !.at = at]] /\ caller[k].at # "idle"
    BY <1>5
  <2>2. caller[k] \in Working /\ caller[k] # AtRest
    BY <1>1, <2>1 DEF AtRest
  <2>3. [caller[k] EXCEPT !.at = at].at = at
    BY <2>2 DEF Working, Trying, Creating, Changing, Uploading
  <2> QED
    BY <1>1, <2>1, <2>3
<1> QED
  BY <1>3, <1>4, <1>5

\* An upload is accepted.
LEMMA UploadPreserves ==
    ASSUME ApiInv, NEW k \in AuthCallers, NEW s \in tokens, HandleUpload(k, s)
    PROVE  ApiInv'
<1> DEFINE r == [at |-> "write", user |-> s.user]
<1>1. /\ caller[k].at = "idle" /\ caller' = [caller EXCEPT ![k] = r] /\ uploads' = {}
      /\ UNCHANGED <<authClock, users, tokens, options, failures, logins, guesses>>
  BY DEF HandleUpload, AtRest, CleanupUploadDir
<1>2. r \in Uploading
  BY DEF ApiInv, AuthInv, AuthTypes, AuthTypeOK, Uploading
<1> HIDE DEF r
<1>3. AuthInv'
  BY <1>1, <1>2, HandlerPreserves DEF ApiInv
<1>4. UploadsOwned'
  BY <1>1, FS_EmptySet DEF UploadsOwned
<1> QED
  BY <1>3, <1>4 DEF ApiInv

\* The uploaded file is written.
LEMMA WritePreserves ==
    ASSUME ApiInv, NEW k \in AuthCallers, WriteUploadFile(k)
    PROVE  ApiInv'
<1> DEFINE file == <<k, Cardinality(uploads)>>
<1>1. /\ caller[k].at = "write" /\ UNCHANGED <<authClock, users, tokens, options, failures, logins, guesses>>
  BY DEF WriteUploadFile
<1>2. caller[k] \in Uploading
  BY <1>1, CallerStates DEF ApiInv, AuthInv
<1>3. PICK r \in Uploading \cup {AtRest} :
          /\ caller' = [caller EXCEPT ![k] = r] /\ r.at \in {"idle", "validate"}
          /\ uploads' \in {uploads, uploads \cup {file}}
  <2>1. [caller[k] EXCEPT !.at = "validate"] \in Uploading /\ [caller[k] EXCEPT !.at = "validate"].at = "validate"
    BY <1>2 DEF Uploading
  <2>2. AtRest.at = "idle"
    BY DEF AtRest
  <2> QED
    BY <2>1, <2>2 DEF WriteUploadFile, Goto, Rest
<1>4. AuthInv'
  BY <1>1, <1>3, HandlerPreserves DEF ApiInv
<1>5. \A j \in AuthCallers : caller'[j] = IF j = k THEN r ELSE caller[j]
  BY <1>3 DEF ApiInv, AuthInv, AuthTypes
<1>6. file \in AuthCallers \X Nat /\ file[1] = k
  BY FS_CardinalityType DEF ApiInv, UploadsOwned
<1> HIDE DEF file
<1>7. \A f \in uploads : f[1] # k /\ f[1] \in AuthCallers
  BY <1>1 DEF ApiInv, UploadsOwned
<1>8. UploadsOwned'
  <2>1. IsFiniteSet(uploads') /\ uploads' \subseteq AuthCallers \X Nat
    BY <1>3, <1>6, FS_AddElement DEF ApiInv, UploadsOwned
  <2>2. \A f, g \in uploads' : f[1] = g[1] => f = g
    BY <1>3, <1>6, <1>7 DEF ApiInv, UploadsOwned
  <2>3. \A f \in uploads' : caller'[f[1]].at # "write"
    BY <1>3, <1>5, <1>6, <1>7 DEF ApiInv, UploadsOwned
  <2> QED
    BY <2>1, <2>2, <2>3 DEF UploadsOwned
<1> QED
  BY <1>4, <1>8 DEF ApiInv

\* The uploaded file is validated, and removed when it is refused.
LEMMA ValidatePreserves ==
    ASSUME ApiInv, NEW k \in AuthCallers, ValidateUpload(k)
    PROVE  ApiInv'
<1>1. /\ caller[k].at = "validate" /\ caller' = [caller EXCEPT ![k] = AtRest] /\ uploads' \in SUBSET uploads
      /\ UNCHANGED <<authClock, users, tokens, options, failures, logins, guesses>>
  BY DEF ValidateUpload, Rest
<1>2. AuthInv'
  BY <1>1, HandlerPreserves DEF ApiInv
<1>3. \A j \in AuthCallers : caller'[j] = IF j = k THEN AtRest ELSE caller[j]
  BY <1>1 DEF ApiInv, AuthInv, AuthTypes
<1>4. UploadsOwned'
  BY <1>1, <1>3, FS_Subset DEF ApiInv, UploadsOwned, AtRest
<1> QED
  BY <1>2, <1>4 DEF ApiInv

\* The initial state satisfies the invariant.
LEMMA ApiInitEstablishes == ApiInit => ApiInv
<1> SUFFICES ASSUME ApiInit PROVE ApiInv
  OBVIOUS
<1>1. /\ authClock = 1 /\ tokens = {} /\ options \in UserConfigs /\ logins = 0 /\ uploads = {}
      /\ users \in [AuthUsers -> [cred : {0}, must : {TRUE}, role : Roles]]
      /\ failures = [u \in AuthUsers |-> NoFailure] /\ caller = [k \in AuthCallers |-> AtRest]
      /\ guesses = [u \in AuthUsers |-> 0]
  BY DEF ApiInit, AuthInit
<1>2. ASSUME NEW u \in AuthUsers
      PROVE  users[u].cred = 0 /\ users[u].must = TRUE /\ users[u] \in UserRecord
  <2>1. users[u] \in [cred : {0}, must : {TRUE}, role : Roles]
    BY <1>1
  <2>2. users[u].cred = 0 /\ users[u].must = TRUE
    BY <2>1, Zenon
  <2>3. {0} \subseteq Nat
    OBVIOUS
  <2>4. users[u] \in UserRecord
    BY <2>1, <2>3, Zenon DEF UserRecord
  <2> QED
    BY <2>2, <2>4
<1>3. AuthTypes
  <2>1. users \in [AuthUsers -> UserRecord]
    BY <1>1, <1>2
  <2>2. caller \in [AuthCallers -> Working]
    BY <1>1 DEF Working
  <2>3. failures \in [AuthUsers -> [n : Nat, until : Nat]] /\ guesses \in [AuthUsers -> Nat]
    BY <1>1 DEF NoFailure
  <2>4. AuthTypeOK
    <3>1. \A u \in AuthUsers : users[u].must \in BOOLEAN
      BY <2>1 DEF UserRecord
    <3>2. \A u \in AuthUsers : users[u].cred \in 0 .. MaxPasswords /\ failures[u].n \in Nat
      <4>1. 0 \in 0 .. MaxPasswords
        BY AuthLimits
      <4>2. \A u \in AuthUsers : failures[u].n = 0
        BY <1>1 DEF NoFailure
      <4>3. \A u \in AuthUsers : users[u].cred = 0
        BY <1>2
      <4> QED
        BY <4>1, <4>2, <4>3
    <3>3. authClock \in 1 .. MaxClock /\ options \in UserConfigs /\ logins \in 0 .. MaxLogins
      BY <1>1, AuthLimits
    <3> QED
      BY <1>1, <3>1, <3>2, <3>3 DEF AuthTypeOK
  <2> QED
    BY <1>1, <2>1, <2>2, <2>3, <2>4, FS_EmptySet DEF AuthTypes
<1>4. SessionBounds
  <2>1. \A u \in AuthUsers : OfUser(tokens, u) = {}
    BY <1>1 DEF OfUser
  <2> QED
    BY <1>1, <2>1, FS_EmptySet, AuthLimits DEF SessionBounds
<1>5. Secrets
  BY <1>1, <1>2 DEF Secrets, AtRest
<1>8. ChangeEvicts
  <2> SUFFICES ASSUME NEW u \in AuthUsers
               PROVE  /\ \A s \in OldSessions(u) : s.outdated
                      /\ Cardinality(OldSessions(u)) + Cardinality(LateLogins(u)) <= Cardinality(AuthCallers) - 1
    BY DEF ChangeEvicts
  <2>1. OldSessions(u) = {} /\ LateLogins(u) = {}
    BY <1>1 DEF OldSessions, OfUser, LateLogins, AtRest
  <2>2. Cardinality(AuthCallers) \in Nat \ {0}
    BY AuthLimits, FS_CardinalityType, FS_EmptySet
  <2> QED
    BY <2>1, <2>2, FS_EmptySet
<1>6. Guessing
  <2> SUFFICES ASSUME LockoutOn, NEW u \in AuthUsers PROVE Guessed(u)
    BY DEF Guessing
  <2>1. options.failures \in Nat \ {0}
    BY <1>3, OptionsTyped
  <2>2. failures[u] = NoFailure /\ guesses[u] = 0
    BY <1>1
  <2> QED
    BY <2>1, <2>2, GuessingCounts DEF Guessed, NoFailure
<1>7. UploadsOwned
  BY <1>1, FS_EmptySet DEF UploadsOwned
<1> QED
  BY <1>3, <1>4, <1>5, <1>6, <1>7, <1>8 DEF ApiInv, AuthInv

\* Every step of the API keeps it.
LEMMA ApiStepPreserves == ApiInv /\ [ApiNext]_apiVars => ApiInv'
<1> SUFFICES ASSUME ApiInv, [ApiNext]_apiVars PROVE ApiInv'
  OBVIOUS
<1>1. CASE UNCHANGED apiVars
  <2>1. AuthTypes' /\ SessionBounds' /\ Secrets' /\ ChangeEvicts'
    BY <1>1 DEF apiVars, authVars, ApiInv, AuthInv, AuthTypes, AuthTypeOK, SessionBounds, OfUser, Secrets, ChangeEvicts,
                OldSessions, LateLogins
  <2>2. Guessing' /\ UploadsOwned'
    BY <1>1 DEF apiVars, authVars, ApiInv, AuthInv, Guessing, Guessed, LockoutOn, Verifying, Failing, UploadsOwned
  <2> QED
    BY <2>1, <2>2 DEF ApiInv, AuthInv
<1>2. CASE AuthStep /\ UNCHANGED uploads
  <2>1. AuthInv'
    BY <1>2, AuthStepPreserves DEF ApiInv
  <2>2. UploadsOwned'
    <3>1. \A f \in uploads : f[1] \in AuthCallers
      BY DEF ApiInv, UploadsOwned
    <3> QED
      BY <1>2, <3>1, OnlyUploadWrites DEF ApiInv, UploadsOwned
  <2> QED
    BY <2>1, <2>2 DEF ApiInv
<1> QED
  BY <1>1, <1>2, UploadPreserves, WritePreserves, ValidatePreserves DEF ApiNext

-----------------------------------------------------------------------------
(* The routes *)

\* What every single route promises: only the routes of the own account are open,
\* and a route that changes something asks for the permission to do so.
RouteSound(r) ==
    /\ Len(r.path) \in Nat \ {0} /\ DOMAIN r.path = 1 .. Len(r.path)
    /\ r.gate \in {"open", "self"} => r.exact /\ r.path[1] = "api" /\ r.path[2] = "auth"
    /\ r.m # "GET" /\ r.path[1] = "api" => Len(r.path) >= 2
    /\ r.m # "GET" /\ r.path[1] = "api" /\ r.path[2] = "config" => r.gate = "ModifyConfig" /\ ~r.exact /\ Len(r.path) = 2
    /\ r.m # "GET" /\ r.path[1] = "api" /\ r.path[2] = "upgrade" => r.gate = "Upgrade"
    /\ r.m # "GET" /\ r.path[1] = "api" /\ r.path[2] = "system" =>
          /\ Len(r.path) >= 3 /\ r.gate \in {"ModifyConfig", "Reboot", "FactoryReset"}
          /\ r.path[3] \in {"reboot", "factory-reset"} => r.gate \in {"Reboot", "FactoryReset"}

IsTable(s) == \E S : s \in Seq(S)
AllSound(s) == \A i \in DOMAIN s : RouteSound(s[i])

\* Every route of AuthRoutes demands the permission its effect needs.
LEMMA AuthRoutesSound == AllSound(AuthRoutes)
<1>1. DOMAIN AuthRoutes = 1 .. 4
  BY DEF AuthRoutes
<1>2. RouteSound(AuthRoutes[1])
  BY DEF RouteSound, AuthRoutes, Exact, Prefix
<1>3. RouteSound(AuthRoutes[2])
  BY DEF RouteSound, AuthRoutes, Exact, Prefix
<1>4. RouteSound(AuthRoutes[3])
  BY DEF RouteSound, AuthRoutes, Exact, Prefix
<1>5. RouteSound(AuthRoutes[4])
  BY DEF RouteSound, AuthRoutes, Exact, Prefix
<1> QED
  BY <1>1, <1>2, <1>3, <1>4, <1>5 DEF AllSound

\* Every route of ConfigRoutes demands the permission its effect needs.
LEMMA ConfigRoutesSound == AllSound(ConfigRoutes)
  BY DEF AllSound, RouteSound, ConfigRoutes, Exact, Prefix

\* Every route of OperationsRoutes demands the permission its effect needs.
LEMMA OperationsRoutesSound == AllSound(OperationsRoutes)
  BY DEF AllSound, RouteSound, OperationsRoutes, Exact, Prefix

\* Every route of NetworkRoutes demands the permission its effect needs.
LEMMA NetworkRoutesSound == AllSound(NetworkRoutes)
<1>1. DOMAIN NetworkRoutes = 1 .. 4
  BY DEF NetworkRoutes
<1>2. RouteSound(NetworkRoutes[1])
  BY DEF RouteSound, NetworkRoutes, Exact, Prefix
<1>3. RouteSound(NetworkRoutes[2])
  <2>1. NetworkRoutes[2] = [m |-> "GET", path |-> <<"api", "system", "network", "interfaces">>, exact |-> FALSE,
                            gate |-> "ReadStatus"]
    BY DEF NetworkRoutes, Prefix
  <2> QED
    BY <2>1 DEF RouteSound
<1>4. RouteSound(NetworkRoutes[3])
  BY DEF RouteSound, NetworkRoutes, Exact, Prefix
<1>5. RouteSound(NetworkRoutes[4])
  BY DEF RouteSound, NetworkRoutes, Exact, Prefix
<1> QED
  BY <1>1, <1>2, <1>3, <1>4, <1>5 DEF AllSound

\* Every route of TimeClockRoutes demands the permission its effect needs.
LEMMA TimeClockRoutesSound == AllSound(TimeClockRoutes)
<1>1. DOMAIN TimeClockRoutes = 1 .. 4
  BY DEF TimeClockRoutes
<1>2. RouteSound(TimeClockRoutes[1])
  BY DEF RouteSound, TimeClockRoutes, Exact, Prefix
<1>3. RouteSound(TimeClockRoutes[2])
  BY DEF RouteSound, TimeClockRoutes, Exact, Prefix
<1>4. RouteSound(TimeClockRoutes[3])
  BY DEF RouteSound, TimeClockRoutes, Exact, Prefix
<1>5. RouteSound(TimeClockRoutes[4])
  BY DEF RouteSound, TimeClockRoutes, Exact, Prefix
<1> QED
  BY <1>1, <1>2, <1>3, <1>4, <1>5 DEF AllSound

\* Every route of UploadRoutes demands the permission its effect needs.
LEMMA UploadRoutesSound == AllSound(UploadRoutes)
  BY DEF AllSound, RouteSound, UploadRoutes, Exact, Prefix

\* Every route of UpgradeRoutes demands the permission its effect needs.
LEMMA UpgradeRoutesSound == AllSound(UpgradeRoutes)
  BY DEF AllSound, RouteSound, UpgradeRoutes, Exact, Prefix

\* Every route of UpgradeControlRoutes demands the permission its effect needs.
LEMMA UpgradeControlRoutesSound == AllSound(UpgradeControlRoutes)
  BY DEF AllSound, RouteSound, UpgradeControlRoutes, Exact, Prefix

\* Every route of SystemRoutes demands the permission its effect needs.
LEMMA SystemRoutesSound == AllSound(SystemRoutes)
<1>1. DOMAIN SystemRoutes = 1 .. 4
  BY DEF SystemRoutes
<1>2. RouteSound(SystemRoutes[1])
  BY DEF RouteSound, SystemRoutes, Exact, Prefix
<1>3. RouteSound(SystemRoutes[2])
  BY DEF RouteSound, SystemRoutes, Exact, Prefix
<1>4. RouteSound(SystemRoutes[3])
  BY DEF RouteSound, SystemRoutes, Exact, Prefix
<1>5. RouteSound(SystemRoutes[4])
  BY DEF RouteSound, SystemRoutes, Exact, Prefix
<1> QED
  BY <1>1, <1>2, <1>3, <1>4, <1>5 DEF AllSound

\* Every route of AlarmRoutes demands the permission its effect needs.
LEMMA AlarmRoutesSound == AllSound(AlarmRoutes)
<1>1. DOMAIN AlarmRoutes = 1 .. 1
  BY DEF AlarmRoutes
<1>2. RouteSound(AlarmRoutes[1])
  BY DEF RouteSound, AlarmRoutes, Exact, Prefix
<1> QED
  BY <1>1, <1>2 DEF AllSound

\* Every route of AiRoutes demands the permission its effect needs.
LEMMA AiRoutesSound == AllSound(AiRoutes)
<1>1. DOMAIN AiRoutes = 1 .. 5
  BY DEF AiRoutes
<1>2. RouteSound(AiRoutes[1])
  BY DEF RouteSound, AiRoutes, Exact, Prefix
<1>3. RouteSound(AiRoutes[2])
  BY DEF RouteSound, AiRoutes, Exact, Prefix
<1>4. RouteSound(AiRoutes[3])
  BY DEF RouteSound, AiRoutes, Exact, Prefix
<1>5. RouteSound(AiRoutes[4])
  BY DEF RouteSound, AiRoutes, Exact, Prefix
<1>6. RouteSound(AiRoutes[5])
  BY DEF RouteSound, AiRoutes, Exact, Prefix
<1> QED
  BY <1>1, <1>2, <1>3, <1>4, <1>5, <1>6 DEF AllSound

\* Every route of SnapshotRoutes demands the permission its effect needs.
LEMMA SnapshotRoutesSound == AllSound(SnapshotRoutes)
<1>1. DOMAIN SnapshotRoutes = 1 .. 1
  BY DEF SnapshotRoutes
<1>2. RouteSound(SnapshotRoutes[1])
  BY DEF RouteSound, SnapshotRoutes, Exact, Prefix
<1> QED
  BY <1>1, <1>2 DEF AllSound

\* Every route of MediaRoutes demands the permission its effect needs.
LEMMA MediaRoutesSound == AllSound(MediaRoutes)
  BY DEF AllSound, RouteSound, MediaRoutes, Exact, Prefix

\* Every route of HlsRoutes demands the permission its effect needs.
LEMMA HlsRoutesSound == AllSound(HlsRoutes)
<1>1. DOMAIN HlsRoutes = 1 .. 1
  BY DEF HlsRoutes
<1>2. RouteSound(HlsRoutes[1])
  BY DEF RouteSound, HlsRoutes, Exact, Prefix
<1> QED
  BY <1>1, <1>2 DEF AllSound

\* Every route of WebrtcRoutes demands the permission its effect needs.
LEMMA WebrtcRoutesSound == AllSound(WebrtcRoutes)
  BY DEF AllSound, RouteSound, WebrtcRoutes, Exact, Prefix

\* Tables as they are written are sequences.
LEMMA Tables == \A a, b, c, d, e :
    /\ IsTable(<<a>>) /\ IsTable(<<a, b>>) /\ IsTable(<<a, b, c, d>>) /\ IsTable(<<a, b, c, d, e>>)
<1> SUFFICES ASSUME NEW a, NEW b, NEW c, NEW d, NEW e
             PROVE  /\ IsTable(<<a>>) /\ IsTable(<<a, b>>) /\ IsTable(<<a, b, c, d>>) /\ IsTable(<<a, b, c, d, e>>)
  OBVIOUS
<1>1. <<a>> \in Seq({a, b, c, d, e}) /\ <<a, b>> \in Seq({a, b, c, d, e})
  OBVIOUS
<1>2. <<a, b, c, d>> \in Seq({a, b, c, d, e}) /\ <<a, b, c, d, e>> \in Seq({a, b, c, d, e})
  OBVIOUS
<1> QED
  BY <1>1, <1>2 DEF IsTable

\* Two sound tables, one after the other, are a sound table.
LEMMA Joined ==
    ASSUME NEW s, NEW t, IsTable(s), IsTable(t), AllSound(s), AllSound(t)
    PROVE  IsTable(s \o t) /\ AllSound(s \o t)
<1>1. PICK S : s \in Seq(S)
  BY DEF IsTable
<1>2. PICK T : t \in Seq(T)
  BY DEF IsTable
<1>3. s \in Seq(S \cup T) /\ t \in Seq(S \cup T)
  BY <1>1, <1>2
<1>4. /\ s \o t \in Seq(S \cup T) /\ DOMAIN (s \o t) = 1 .. (Len(s) + Len(t))
      /\ DOMAIN s = 1 .. Len(s) /\ DOMAIN t = 1 .. Len(t) /\ Len(s) \in Nat /\ Len(t) \in Nat
      /\ \A i \in 1 .. (Len(s) + Len(t)) : (s \o t)[i] = IF i <= Len(s) THEN s[i] ELSE t[i - Len(s)]
  BY <1>3
<1>5. ASSUME NEW i \in DOMAIN (s \o t) PROVE RouteSound((s \o t)[i])
  BY <1>4, <1>5 DEF AllSound
<1> QED
  BY <1>4, <1>5 DEF IsTable, AllSound

\* The time and configuration routes are sound.
LEMMA TimeConfigRoutesSound == IsTable(TimeConfigRoutes) /\ AllSound(TimeConfigRoutes)
<1> DEFINE first == << Exact("GET", <<"api", "system", "time", "status">>, "ReadStatus") >>
           names == <<"config", "timezone", "ntp">>
           rest == [i \in 1 .. 3 |-> Exact("PUT", <<"api", "system", "time", names[i]>>, "ModifyConfig")]
<1>1. IsTable(first) /\ AllSound(first)
  <2>1. DOMAIN first = 1 .. 1 /\ first[1] = Exact("GET", <<"api", "system", "time", "status">>, "ReadStatus")
    OBVIOUS
  <2>2. RouteSound(Exact("GET", <<"api", "system", "time", "status">>, "ReadStatus"))
    BY DEF RouteSound, Exact
  <2>3. IsTable(first)
    BY Tables
  <2> HIDE DEF first
  <2>4. \A i \in 1 .. 1 : first[i] = first[1]
    OBVIOUS
  <2> QED
    BY <2>1, <2>2, <2>3, <2>4 DEF AllSound
<1>2. AllSound(rest)
  <2> SUFFICES ASSUME NEW i \in 1 .. 3
               PROVE  RouteSound(Exact("PUT", <<"api", "system", "time", names[i]>>, "ModifyConfig"))
    BY DEF AllSound
  <2> DEFINE path == <<"api", "system", "time", names[i]>>
  <2>1. Len(path) = 4 /\ DOMAIN path = 1 .. 4 /\ path[1] = "api" /\ path[2] = "system" /\ path[3] = "time"
    OBVIOUS
  <2> HIDE DEF path
  <2> QED
    BY <2>1 DEF RouteSound, Exact
<1>3. IsTable(rest)
  <2>1. rest \in Seq({rest[i] : i \in 1 .. 3})
    OBVIOUS
  <2> QED
    BY <2>1 DEF IsTable
<1>4. TimeConfigRoutes = first \o rest
  BY DEF TimeConfigRoutes
<1> HIDE DEF first, rest
<1> QED
  BY <1>1, <1>2, <1>3, <1>4, Joined

\* The whole route table is sound.
LEMMA RoutesSound == IsTable(Routes) /\ AllSound(Routes)
<1>1. /\ IsTable(AuthRoutes) /\ IsTable(ConfigRoutes) /\ IsTable(OperationsRoutes) /\ IsTable(NetworkRoutes)
      /\ IsTable(TimeClockRoutes) /\ IsTable(UploadRoutes) /\ IsTable(UpgradeRoutes)
      /\ IsTable(UpgradeControlRoutes) /\ IsTable(SystemRoutes)
  BY Tables, Zenon DEF AuthRoutes, ConfigRoutes, OperationsRoutes, NetworkRoutes, TimeClockRoutes, UploadRoutes,
                UpgradeRoutes, UpgradeControlRoutes, SystemRoutes
<1>2. /\ IsTable(AlarmRoutes) /\ IsTable(AiRoutes) /\ IsTable(SnapshotRoutes) /\ IsTable(MediaRoutes)
      /\ IsTable(HlsRoutes) /\ IsTable(WebrtcRoutes)
  BY Tables, Zenon DEF AlarmRoutes, AiRoutes, SnapshotRoutes, MediaRoutes, HlsRoutes, WebrtcRoutes
<1> DEFINE a == AuthRoutes \o ConfigRoutes \o OperationsRoutes \o NetworkRoutes
           b == a \o TimeConfigRoutes \o TimeClockRoutes \o UploadRoutes \o UpgradeRoutes
           c == b \o UpgradeControlRoutes \o SystemRoutes \o AlarmRoutes \o AiRoutes
<1>3. IsTable(a) /\ AllSound(a)
  BY <1>1, Joined, AuthRoutesSound, ConfigRoutesSound, OperationsRoutesSound, NetworkRoutesSound
<1> HIDE DEF a
<1>4. IsTable(b) /\ AllSound(b)
  BY <1>1, <1>3, Joined, TimeConfigRoutesSound, TimeClockRoutesSound, UploadRoutesSound, UpgradeRoutesSound
<1> HIDE DEF b
<1>5. IsTable(c) /\ AllSound(c)
  BY <1>1, <1>2, <1>4, Joined, UpgradeControlRoutesSound, SystemRoutesSound, AlarmRoutesSound, AiRoutesSound
<1>6. Routes = c \o SnapshotRoutes \o MediaRoutes \o HlsRoutes \o WebrtcRoutes
  BY DEF Routes, a, b, c
<1> HIDE DEF c
<1> QED
  BY <1>2, <1>5, <1>6, Joined, SnapshotRoutesSound, MediaRoutesSound, HlsRoutesSound, WebrtcRoutesSound

\* A request that reaches a handler reaches one whose route fits it.
LEMMA GateOfRoute ==
    ASSUME NEW m, NEW path, GateOf(m, path) # "none"
    PROVE  \E i \in DOMAIN Routes : Matches(i, m, path) /\ GateOf(m, path) = Routes[i].gate
<1> DEFINE hits == {i \in DOMAIN Routes : Matches(i, m, path)}
<1>1. hits # {} /\ GateOf(m, path) = Routes[CHOOSE i \in hits : \A j \in hits : i <= j].gate
  BY DEF GateOf
<1>2. hits \in SUBSET Nat
  <2>1. PICK S : Routes \in Seq(S)
    BY RoutesSound DEF IsTable
  <2>2. DOMAIN Routes \subseteq Nat
    BY <2>1
  <2> QED
    BY <2>2
<1> DEFINE least == CHOOSE i \in hits : \A j \in hits : i <= j
<1>3. least \in hits
  BY <1>1, <1>2, LeastNatural
<1> QED
  BY <1>1, <1>3

\* The beginning of a path that a route fits is the route's.
LEMMA FitsBeginning ==
    ASSUME NEW r, NEW path, RouteSound(r), Fits(r, path)
    PROVE  /\ r.path[1] = path[1]
           /\ Len(r.path) >= 2 => r.path[2] = path[2]
           /\ Len(r.path) >= 3 => r.path[3] = path[3]
<1> DEFINE n == Len(r.path)
<1>1. n \in Nat \ {0}
  BY DEF RouteSound
<1>2. CASE r.exact
  BY <1>2 DEF Fits
<1>3. CASE ~r.exact
  <2>1. r.path = SubSeq(path, 1, n)
    BY <1>3 DEF Fits
  <2>2. \A k \in 1 .. n : SubSeq(path, 1, n)[k] = path[k]
    BY <1>1
  <2> HIDE DEF n
  <2>3. \A k \in 1 .. n : r.path[k] = path[k]
    BY <2>1, <2>2
  <2> QED
    BY <1>1, <2>3 DEF n
<1> QED
  BY <1>2, <1>3

\* What the handler of a changing request demands, whichever route it takes.
LEMMA ChangesGated ==
    ASSUME NEW q \in Changes, q.gate # "none"
    PROVE  /\ q.gate \in {"ModifyConfig", "Upgrade", "Reboot", "FactoryReset"}
           /\ q \in AdminOnly => q.gate \in {"Upgrade", "Reboot", "FactoryReset"}
<1>1. /\ q \in Samples /\ q.m # "GET" /\ q.path[1] = "api" /\ q.path[2] \in {"config", "system", "upgrade"}
      /\ q.gate = GateOf(q.m, q.path)
  BY DEF Changes, Samples
<1>2. PICK i \in DOMAIN Routes : Matches(i, q.m, q.path) /\ q.gate = Routes[i].gate
  BY <1>1, GateOfRoute
<1> DEFINE r == Routes[i]
<1>3. RouteSound(r) /\ r.m = q.m /\ Fits(r, q.path) /\ q.gate = r.gate
  BY <1>2, RoutesSound DEF AllSound, Matches
<1> HIDE DEF r
<1>4. r.path[1] = "api" /\ r.path[2] = q.path[2] /\ Len(r.path) >= 2 /\ (Len(r.path) >= 3 => r.path[3] = q.path[3])
  BY <1>1, <1>3, FitsBeginning DEF RouteSound
<1>5. q.gate \in {"ModifyConfig", "Upgrade", "Reboot", "FactoryReset"}
  BY <1>1, <1>3, <1>4 DEF RouteSound
<1>6. ASSUME q \in AdminOnly PROVE q.gate \in {"Upgrade", "Reboot", "FactoryReset"}
  <2>1. q.path[2] = "upgrade" \/ q.path[3] \in {"reboot", "factory-reset"}
    BY <1>6 DEF AdminOnly
  <2>2. CASE q.path[2] = "upgrade"
    BY <1>1, <1>3, <1>4, <2>2 DEF RouteSound
  <2>3. CASE q.path[2] = "system" /\ q.path[3] \in {"reboot", "factory-reset"}
    BY <1>1, <1>3, <1>4, <2>3 DEF RouteSound
  <2>4. CASE q.path[2] = "config"
    <3> DEFINE Sample(i1) == [m |-> Routes[i1].m,
                              path |-> IF Routes[i1].exact THEN Routes[i1].path ELSE Append(Routes[i1].path, "x")]
               Gated(q1) == [m |-> q1.m, path |-> q1.path, gate |-> GateOf(q1.m, q1.path)]
    <3>a. PICK j \in DOMAIN Routes : q = Gated(Sample(j))
      <4>1. q \in {Gated(q1) : q1 \in {Sample(i1) : i1 \in DOMAIN Routes}}
        BY <1>1 DEF Samples
      <4> HIDE DEF Gated, Sample
      <4> QED
        BY <4>1
    <3>b. q.m = Sample(j).m /\ q.path = Sample(j).path
      <4> HIDE DEF Sample
      <4> QED
        BY <3>a
    <3>1. /\ q.m = Routes[j].m
          /\ q.path = IF Routes[j].exact THEN Routes[j].path ELSE Append(Routes[j].path, "x")
      BY <3>b
    <3> DEFINE o == Routes[j]
    <3>2. RouteSound(o) /\ o.m = q.m /\ q.path = IF o.exact THEN o.path ELSE Append(o.path, "x")
      BY <3>1, RoutesSound DEF AllSound
    <3> HIDE DEF o
    <3>3. /\ Len(o.path) \in Nat \ {0} /\ DOMAIN o.path = 1 .. Len(o.path)
      BY <3>2 DEF RouteSound
    <3>4. Append(o.path, "x")[1] = o.path[1] /\ (Len(o.path) >= 2 => Append(o.path, "x")[2] = o.path[2])
      BY <3>3
    <3>5. o.path[1] = "api" /\ Len(o.path) >= 2 /\ o.path[2] = "config"
      BY <1>1, <2>4, <3>2, <3>4 DEF RouteSound
    <3>6. ~o.exact /\ Len(o.path) = 2
      BY <1>1, <3>2, <3>5 DEF RouteSound
    <3>7. q.path[3] = "x"
      <4>1. q.path = Append(o.path, "x")
        BY <3>2, <3>6
      <4>2. Append(o.path, "x")[Len(o.path) + 1] = "x"
        BY <3>3
      <4> QED
        BY <3>6, <4>1, <4>2
    <3> QED
      BY <2>1, <2>4, <3>7
  <2> QED
    BY <1>1, <2>1, <2>2, <2>3, <2>4
<1> QED
  BY <1>5, <1>6

-----------------------------------------------------------------------------
(* The theorems *)

\* For any users, workers, limits and configurations, however logins, password
\* changes, lockouts and changes of the configuration interleave: the session
\* limits hold, the guesses at a password are bounded, and of the sessions of an
\* old password only those of logins that raced its change are left, fewer than
\* there are workers.
THEOREM SessionsBoundToPasswordHolds == ApiSpec => []SessionsBoundToPassword
<1>1. ApiInv => SessionsBoundToPassword
  <2> SUFFICES ASSUME ApiInv PROVE GuessBound
    BY DEF ApiInv, AuthInv, AuthTypes, SessionsBoundToPassword
  <2> SUFFICES ASSUME LockoutOn, NEW u \in AuthUsers
               PROVE  guesses[u] <= options.failures + Cardinality(AuthCallers) - 1
    BY DEF GuessBound
  <2>1. guesses[u] \in Nat /\ options.failures \in Nat /\ Guessed(u)
    BY OptionsTyped DEF ApiInv, AuthInv, AuthTypes, Guessing
  <2>2. /\ Cardinality(Verifying(u)) \in Nat /\ Cardinality(Failing(u)) \in Nat
        /\ Cardinality(AuthCallers) \in Nat /\ Cardinality(Failing(u)) <= Cardinality(AuthCallers)
    BY GuessingCounts
  <2> QED
    BY <2>1, <2>2 DEF Guessed
<1> QED
  BY <1>1, ApiInitEstablishes, ApiStepPreserves, PTL DEF ApiSpec

\* For any users, workers and limits: whichever route a request takes, a session
\* of the factory password is granted nothing but its own account, a viewer
\* changes nothing and only an administrator upgrades, reboots or resets; and
\* there is never more than one uploaded file per worker.
THEOREM ApiGuardedHolds == ApiSpec => []ApiGuarded
<1>1. ApiInv => ApiGuarded
  <2> SUFFICES ASSUME ApiInv PROVE ApiGuarded
    OBVIOUS
  <2>1. FactoryPasswordFirst
    <3> SUFFICES ASSUME NEW s \in tokens, NEW q \in Samples, q \notin OwnAccount, Granted(s, q.gate)
                 PROVE  users[s.user].cred # 0
      BY DEF FactoryPasswordFirst
    <3>1. q.gate # "none" /\ q.gate = GateOf(q.m, q.path)
      BY DEF Granted, Passes, Samples
    <3>2. PICK i \in DOMAIN Routes : Matches(i, q.m, q.path) /\ q.gate = Routes[i].gate
      BY <3>1, GateOfRoute
    <3>3. RouteSound(Routes[i]) /\ Fits(Routes[i], q.path)
      BY <3>2, RoutesSound DEF AllSound, Matches
    <3>4. q.gate \notin {"open", "self"}
      BY <3>2, <3>3 DEF RouteSound, Fits, OwnAccount
    <3>5. ~s.must
      BY <3>4 DEF Granted, Passes
    <3> QED
      BY <3>5 DEF ApiInv, AuthInv, Secrets
  <2>2. RolesRespected
    <3> SUFFICES ASSUME NEW s \in tokens, NEW q \in Changes, Granted(s, q.gate)
                 PROVE  /\ users[s.user].role # "viewer"
                        /\ q \in AdminOnly => users[s.user].role = "admin"
      BY DEF RolesRespected, AdminOnly
    <3>1. q.gate # "none"
      BY DEF Granted, Passes
    <3>2. users[s.user].role \in Roles
      BY DEF ApiInv, AuthInv, AuthTypes, AuthTypeOK, UserRecord
    <3>3. IsPermissionAllowed(users[s.user].role, q.gate)
      BY <3>1, ChangesGated DEF Granted, Passes
    <3> QED
      BY <3>1, <3>2, <3>3, ChangesGated DEF IsPermissionAllowed, Roles
  <2>3. UploadsBounded
    <3> DEFINE f == [file \in uploads |-> file[1]]
    <3>1. f \in [uploads -> AuthCallers] /\ \A a, b \in uploads : f[a] = f[b] => a = b
      BY DEF ApiInv, UploadsOwned
    <3> HIDE DEF f
    <3>2. f \in Injection(uploads, AuthCallers)
      BY <3>1 DEF Injection, IsInjective
    <3> QED
      BY <3>2, FS_Injection, AuthLimits DEF UploadsBounded
  <2> QED
    BY <2>1, <2>2, <2>3 DEF ApiGuarded
<1> QED
  BY <1>1, ApiInitEstablishes, ApiStepPreserves, PTL DEF ApiSpec

-----------------------------------------------------------------------------
(* Connections of the HTTP server: the inductive invariant *)

HttpRequestType == [n : Nat, kind : Kinds, last : BOOLEAN]
HttpSessionType ==
    [open : {TRUE}, pending : Seq(HttpRequestType), buffer : Seq(HttpRequestType), requests : Nat,
     processing : BOOLEAN, closing : BOOLEAN, streaming : BOOLEAN,
     state : {"none", "opening", "attached", "closing"}, client : BOOLEAN, gen : Nat, timer : Nat,
     late : BOOLEAN, lost : BOOLEAN]
HttpTaskType ==
    [who : {"net", "worker", "control"}, c : Conns,
     pc : {"renew", "install", "post", "refuse", "notify", "handle", "complete", "start", "attach",
           "hand", "closed", "shut"},
     req : HttpRequestType, gen : Nat]

\* The shapes of the state.
HttpShape ==
    /\ server \in {"off", "on", "stopping", "control", "joining"}
    /\ wire \in [Conns -> {"idle", "open", "flush", "closing", "closed"}]
    /\ session \in [Conns -> {NoSession} \cup HttpSessionType]
    /\ sentTo \in [Conns -> 0 .. MaxRead]
    /\ steps \subseteq HttpTaskType
    /\ \A t \in steps : t.pc = "install" => t.gen # 0
    /\ timers \subseteq [c : Conns, gen : Nat \ {0}]
    /\ attached \subseteq Conns
    /\ answers \in [Conns -> Seq(Nat)]

\* The requests parsed and not yet taken, and the ones not yet parsed, are
\* numbered on from the ones the handlers took.
HttpTaken(s) == s.requests - Len(s.pending)
HttpNumbered(s, sent) ==
    /\ s.closing => s.buffer = <<>>
    /\ Len(s.pending) <= s.requests
    /\ \A i \in 1 .. Len(s.pending) : s.pending[i].n = s.requests - Len(s.pending) + i
    /\ \A i \in 1 .. Len(s.buffer) : s.buffer[i].n = s.requests + i
    /\ s.requests + Len(s.buffer) <= sent
    /\ ~s.closing => s.requests + Len(s.buffer) = sent

\* A session by itself.  Bytes wait in the buffer only behind a request.
HttpSessionOK(s, sent) ==
    /\ s.state = "none" <=> ~s.streaming
    /\ s.streaming => s.closing /\ s.pending = <<>> /\ ~s.processing
    /\ s.client => s.streaming
    /\ s.timer <= s.gen
    /\ s.buffer # <<>> => s.pending # <<>> \/ s.processing
    /\ HttpNumbered(s, sent)
HttpSessionSound(c) == session[c].open => HttpSessionOK(session[c], sentTo[c])

\* A connection not used yet has left no trace.
HttpUnused(c) ==
    wire[c] = "idle" =>
        /\ ~session[c].open /\ sentTo[c] = 0 /\ answers[c] = <<>>
        /\ \A t \in steps : t.c # c

\* One handler at a time, and what it works on is the next request to answer.
HttpWorking == {"handle", "complete"}
HttpHandlers(c) ==
    /\ \A t, u \in steps :
        (t.c = c /\ u.c = c /\ t.pc \in HttpWorking /\ u.pc \in HttpWorking) => t = u
    /\ \A t \in steps : (t.c = c /\ t.pc = "handle") => t.req.n = Len(answers[c]) + 1
    /\ \A t \in steps : (t.c = c /\ t.pc \in HttpWorking /\ session[c].open) =>
        /\ session[c].processing
        /\ t.pc = "handle" => HttpTaken(session[c]) = Len(answers[c]) + 1
        /\ t.pc = "complete" => HttpTaken(session[c]) = Len(answers[c])
    /\ (session[c].open /\ ~session[c].processing /\ ~session[c].streaming) =>
        HttpTaken(session[c]) = Len(answers[c])

\* Someone goes on with the requests of a connection that is open, unless Stop()
\* discarded the request that it is `processing`.
HttpResumes(t) ==
    t.pc \in {"post", "refuse"} \/ (t.pc \in {"renew", "install"} /\ t.who = "net" /\ t.req.n # 0)
HttpProgress(c) ==
    (session[c].open /\ wire[c] = "open") =>
        /\ session[c].processing =>
              \/ session[c].lost
              \/ \E t \in steps : t.c = c /\ t.pc \in {"handle", "complete", "refuse"}
        /\ (~session[c].processing /\ session[c].pending # <<>>) =>
              \E t \in steps : t.c = c /\ HttpResumes(t)

\* Someone renews the timeout, or the one installed is the current one.
HttpRenews(t, gen) == t.pc \in {"renew", "refuse"} \/ (t.pc = "install" /\ t.gen = gen)
HttpTimed(c) ==
    (session[c].open /\ wire[c] = "open" /\ ~session[c].streaming /\ c \notin unarmed) =>
        \/ \E t \in steps : t.c = c /\ HttpRenews(t, session[c].gen)
        \/ session[c].timer # 0 /\ [c |-> c, gen |-> session[c].gen] \in timers

\* ClientOwned and AnswersInOrder for one connection.
HttpDetaches(t) == t.pc \in {"hand", "notify"} \/ (t.pc = "shut" /\ t.req.n = 1)
HttpOwned(c) ==
    c \in attached =>
        \/ session[c].open /\ session[c].client
        \/ \E t \in steps : t.c = c /\ HttpDetaches(t)
HttpInOrder(c) == \A i \in 1 .. Len(answers[c]) : answers[c][i] = i

HttpConn(c) ==
    /\ HttpSessionSound(c) /\ HttpUnused(c) /\ HttpHandlers(c)
    /\ HttpProgress(c) /\ HttpTimed(c) /\ HttpOwned(c) /\ HttpInOrder(c)
HttpInv == HttpShape /\ \A c \in Conns : HttpConn(c)

\* Sessions found while Stop() is under way were accepted behind its back, and
\* only those lose requests.
HttpStopping == {"stopping", "control", "joining"}
HttpLate(c) ==
    session[c].open =>
        /\ session[c].lost => session[c].late
        /\ server \in HttpStopping => session[c].late
HttpLateInv == \A c \in Conns : HttpLate(c)

-----------------------------------------------------------------------------
(* Parsing *)

\* The search of Taken finds the first request that stops the parser, or the limit.
LEMMA HttpTakenExists ==
    ASSUME NEW s \in HttpSessionType
    PROVE  /\ Taken(s) \in Nat
           /\ Taken(s) <= Len(s.buffer)
           /\ Len(s.buffer) > 0 => Taken(s) > 0
           /\ \A i \in 1 .. Taken(s) - 1 : ~StopsAt(s, i)
           /\ (Taken(s) > 0 /\ StopsAt(s, Taken(s))) \/ Taken(s) = Len(s.buffer) \/ Taken(s) = MaxPipelined
<1> DEFINE limit == IF Len(s.buffer) < MaxPipelined THEN Len(s.buffer) ELSE MaxPipelined
           Found(k) == /\ \A i \in 1 .. k - 1 : ~StopsAt(s, i)
                       /\ k = limit \/ (k > 0 /\ StopsAt(s, k))
           Stops == {i \in 1 .. limit : StopsAt(s, i)}
<1>1. Len(s.buffer) \in Nat /\ limit \in Nat /\ limit <= Len(s.buffer) /\ MaxPipelined \in Nat \ {0}
      /\ (Len(s.buffer) > 0 => limit > 0) /\ (limit = Len(s.buffer) \/ limit = MaxPipelined)
  BY HttpLimits DEF HttpSessionType
<1>2. Taken(s) = CHOOSE k \in 0 .. limit : Found(k)
  BY DEF Taken
<1> HIDE DEF limit
<1>3. \E k \in 0 .. limit : Found(k)
  <2>1. CASE Stops = {}
    <3>1. Found(limit)
      BY <2>1, <1>1
    <3> QED BY <3>1, <1>1
  <2>2. CASE Stops # {}
    <3>1. PICK k \in Stops : \A m \in Stops : k <= m
      <4>1. Stops \in SUBSET Nat
        BY <1>1
      <4> QED BY <4>1, <2>2, LeastNatural
    <3>2. Found(k) /\ k \in 0 .. limit
      BY <3>1, <1>1
    <3> QED BY <3>2
  <2> QED BY <2>1, <2>2
<1> HIDE DEF Found
<1>4. Taken(s) \in 0 .. limit /\ Found(Taken(s))
  BY <1>2, <1>3
<1> USE DEF Found
<1>5. Len(s.buffer) > 0 => Taken(s) > 0
  BY <1>1, <1>4
<1> QED BY <1>1, <1>4, <1>5

\* ParsePendingRequests keeps the numbering, and leaves bytes in the buffer
\* only behind a request.
LEMMA HttpParsedSound ==
    ASSUME NEW s \in HttpSessionType, NEW sent \in Nat, HttpNumbered(s, sent)
    PROVE  LET p == Parsed(s)
           IN  /\ p.s \in HttpSessionType /\ p.ok \in BOOLEAN
               /\ p.s.gen = s.gen /\ p.s.timer = s.timer /\ p.s.processing = s.processing
               /\ p.s.streaming = s.streaming /\ p.s.client = s.client /\ p.s.state = s.state
               /\ p.s.late = s.late /\ p.s.lost = s.lost
               /\ s.closing => p.s = s
               /\ HttpNumbered(p.s, sent)
               /\ ~s.closing /\ p.s.buffer # <<>> => p.s.pending # <<>>
               /\ HttpTaken(p.s) = HttpTaken(s)
<1> DEFINE p == Parsed(s)
<1>1. CASE s.closing
  <2>1. p.s = s /\ p.ok = TRUE
    BY <1>1 DEF Parsed
  <2> QED BY <1>1, <2>1 DEF HttpSessionType
<1>2. CASE ~s.closing
  <2> DEFINE k == Taken(s)
             bad == k > 0 /\ s.buffer[k].kind = "bad"
             g == IF bad THEN k - 1 ELSE k
             Item(i) == [s.buffer[i] EXCEPT !.last = StopsAt(s, i)]
             good == [i \in 1 .. g |-> Item(i)]
             last == k > 0 /\ StopsAt(s, k)
             rest == IF last THEN <<>> ELSE SubSeq(s.buffer, k + 1, Len(s.buffer))
             r == p.s
  <2>1. /\ r = [s EXCEPT !.pending = s.pending \o good, !.requests = s.requests + Len(good),
                         !.closing = last, !.buffer = rest]
        /\ p.ok = ~bad
    BY <1>2 DEF Parsed
  <2>2. /\ k \in Nat /\ k <= Len(s.buffer) /\ Len(s.buffer) \in Nat
        /\ Len(s.buffer) > 0 => k > 0
        /\ last \/ k = Len(s.buffer) \/ k = MaxPipelined
        /\ MaxPipelined \in Nat \ {0}
    <3>1. /\ Taken(s) \in Nat /\ Taken(s) <= Len(s.buffer)
          /\ Len(s.buffer) > 0 => Taken(s) > 0
          /\ (Taken(s) > 0 /\ StopsAt(s, Taken(s))) \/ Taken(s) = Len(s.buffer) \/ Taken(s) = MaxPipelined
      BY HttpTakenExists
    <3>2. Len(s.buffer) \in Nat /\ MaxPipelined \in Nat \ {0}
      BY HttpLimits DEF HttpSessionType
    <3> QED BY <3>1, <3>2
  <2>3. bad => last
    BY DEF StopsAt
  <2>4. g \in Nat /\ g <= Len(s.buffer) /\ (~bad => g = k)
    BY <2>2
  <2>5. ASSUME NEW i \in 1 .. Len(s.buffer)
        PROVE  Item(i) \in HttpRequestType /\ Item(i).n = s.buffer[i].n
    <3>1. s.buffer[i] \in HttpRequestType
      BY <2>5 DEF HttpSessionType
    <3>2. StopsAt(s, i) \in BOOLEAN
      BY DEF StopsAt
    <3> HIDE DEF StopsAt
    <3> QED BY <3>1, <3>2 DEF HttpRequestType
  <2> HIDE DEF k, last, bad
  <2> HIDE DEF g, Item
  <2>6. good \in Seq(HttpRequestType) /\ Len(good) = g /\ \A i \in 1 .. g : good[i].n = s.buffer[i].n
    <3>1. \A i \in 1 .. g : Item(i) \in HttpRequestType
      BY <2>4, <2>5, <2>2
    <3>2. good \in Seq(HttpRequestType) /\ Len(good) = g /\ \A i \in 1 .. g : good[i] = Item(i)
      BY <2>4, <3>1
    <3> QED BY <3>2, <2>4, <2>5, <2>2
  <2>7. rest \in Seq(HttpRequestType) /\ (~last => Len(rest) = Len(s.buffer) - k)
        /\ (~last => \A i \in 1 .. Len(rest) : rest[i] = s.buffer[k + i])
    <3>1. s.buffer \in Seq(HttpRequestType)
      BY DEF HttpSessionType
    <3>2. <<>> \in Seq(HttpRequestType)
      OBVIOUS
    <3>3. SubSeq(s.buffer, k + 1, Len(s.buffer)) \in Seq(HttpRequestType)
      BY <3>1, <2>2
    <3> QED BY <3>1, <3>2, <3>3, <2>2
  <2>8. last \in BOOLEAN /\ bad \in BOOLEAN
    BY DEF last, bad, StopsAt
  <2>a. last => rest = <<>>
    OBVIOUS
  <2> HIDE DEF good, rest
  <2>9. /\ r.pending = s.pending \o good /\ r.requests = s.requests + g
        /\ r.closing = last /\ r.buffer = rest
        /\ r.gen = s.gen /\ r.timer = s.timer /\ r.processing = s.processing
        /\ r.streaming = s.streaming /\ r.client = s.client /\ r.state = s.state
        /\ r.late = s.late /\ r.lost = s.lost
    BY <2>1, <2>6 DEF HttpSessionType
  <2>10. s.pending \in Seq(HttpRequestType) /\ s.requests \in Nat /\ Len(s.pending) \in Nat
    BY DEF HttpSessionType
  <2>11. /\ s.pending \o good \in Seq(HttpRequestType)
         /\ Len(s.pending \o good) = Len(s.pending) + g
         /\ \A i \in 1 .. Len(s.pending) : (s.pending \o good)[i] = s.pending[i]
         /\ \A i \in 1 .. g : (s.pending \o good)[Len(s.pending) + i] = good[i]
    <3> DEFINE a == s.pending
    <3>1. a \in Seq(HttpRequestType) /\ good \in Seq(HttpRequestType) /\ Len(good) = g /\ g \in Nat
      BY <2>6, <2>10, <2>4
    <3> HIDE DEF a
    <3>2. /\ a \o good \in Seq(HttpRequestType)
          /\ Len(a \o good) = Len(a) + g
          /\ \A i \in 1 .. Len(a) : (a \o good)[i] = a[i]
          /\ \A i \in 1 .. g : (a \o good)[Len(a) + i] = good[i]
      BY <3>1
    <3> QED BY <3>2 DEF a
  <2>12. r \in HttpSessionType
    <3> DEFINE a == s.pending \o good
               b == s.requests + Len(good)
    <3>1. a \in Seq(HttpRequestType) /\ b \in Nat /\ rest \in Seq(HttpRequestType)
      BY <2>6, <2>7, <2>10, <2>11, <2>4
    <3>2. r = [s EXCEPT !.pending = a, !.requests = b, !.closing = last, !.buffer = rest]
      BY <2>1
    <3> HIDE DEF a, b, r
    <3> QED BY <3>1, <3>2, <2>8 DEF HttpSessionType
  <2> HIDE DEF r
  <2>13. /\ Len(s.pending) <= s.requests
         /\ \A i \in 1 .. Len(s.pending) : s.pending[i].n = s.requests - Len(s.pending) + i
         /\ \A i \in 1 .. Len(s.buffer) : s.buffer[i].n = s.requests + i
         /\ s.requests + Len(s.buffer) = sent
    BY <1>2 DEF HttpNumbered
  <2>14. HttpNumbered(r, sent)
    <3>1. \A i \in 1 .. Len(r.pending) : r.pending[i].n = r.requests - Len(r.pending) + i
      <4> SUFFICES ASSUME NEW i \in 1 .. Len(r.pending)
                   PROVE  r.pending[i].n = r.requests - Len(r.pending) + i
        OBVIOUS
      <4>0. /\ Len(r.pending) = Len(s.pending) + g /\ r.pending = s.pending \o good
            /\ r.requests = s.requests + g /\ i \in 1 .. Len(s.pending) + g
        BY <2>9, <2>11
      <4>1. CASE i <= Len(s.pending)
        BY <4>0, <4>1, <2>11, <2>13, <2>10, <2>4
      <4>2. CASE i > Len(s.pending)
        <5> DEFINE j == i - Len(s.pending)
        <5>1. j \in 1 .. g /\ i = Len(s.pending) + j /\ j \in 1 .. Len(s.buffer)
          BY <4>0, <4>2, <2>10, <2>4, <2>2
        <5>2. (s.pending \o good)[i] = good[j]
          BY <5>1, <2>11
        <5>3. good[j].n = s.requests + j
          BY <5>1, <2>6, <2>13
        <5> QED BY <4>0, <5>1, <5>2, <5>3, <2>10, <2>4
      <4>3. i <= Len(s.pending) \/ i > Len(s.pending)
        BY <4>0, <2>10, <2>4
      <4> QED BY <4>1, <4>2, <4>3
    <3>2. \A i \in 1 .. Len(r.buffer) : r.buffer[i].n = r.requests + i
      <4>1. CASE last
        BY <4>1, <2>9, <2>a
      <4>2. CASE ~last
        <5>1. g = k
          BY <4>2, <2>3, <2>4 DEF bad, last
        <5> SUFFICES ASSUME NEW i \in 1 .. Len(rest) PROVE rest[i].n = s.requests + k + i
          BY <2>9, <5>1, <2>10, <2>2
        <5>2. rest[i] = s.buffer[k + i] /\ k + i \in 1 .. Len(s.buffer)
          BY <4>2, <2>7, <2>2
        <5>3. s.buffer[k + i].n = s.requests + (k + i)
          BY <5>2, <2>13
        <5> QED BY <5>2, <5>3, <2>10, <2>2
      <4> QED BY <4>1, <4>2
    <3>3. Len(r.pending) <= r.requests
      BY <2>9, <2>11, <2>13, <2>10, <2>4
    <3>4. r.closing => r.buffer = <<>>
      BY <2>9, <2>a
    <3>5. r.requests + Len(r.buffer) <= sent /\ (~r.closing => r.requests + Len(r.buffer) = sent)
      <4>1. CASE last
        <5>1. Len(rest) = 0
          BY <4>1, <2>a
        <5> QED BY <4>1, <5>1, <2>9, <2>13, <2>10, <2>4, <2>2
      <4>2. CASE ~last
        <5>1. g = k
          BY <4>2, <2>3, <2>4 DEF bad, last
        <5> QED BY <4>2, <5>1, <2>9, <2>13, <2>10, <2>4, <2>2, <2>7
      <4> QED BY <4>1, <4>2
    <3> QED BY <3>1, <3>2, <3>3, <3>4, <3>5 DEF HttpNumbered
  <2>15. r.buffer # <<>> => r.pending # <<>>
    <3> SUFFICES ASSUME rest # <<>> PROVE s.pending \o good # <<>>
      BY <2>9
    <3>1. ~last /\ Len(rest) # 0
      BY <2>a, <2>7
    <3>2. g = k
      BY <3>1, <2>3, <2>4 DEF bad, last
    <3>3. k > 0
      BY <3>1, <2>2, <2>7
    <3> QED BY <3>2, <3>3, <2>11, <2>10, <2>2
  <2>16. HttpTaken(r) = HttpTaken(s)
    <3>1. r.requests = s.requests + g /\ Len(r.pending) = Len(s.pending) + g
      BY <2>9, <2>11
    <3>2. \A a, b, m \in Nat : (a + m) - (b + m) = a - b
      OBVIOUS
    <3>3. (s.requests + g) - (Len(s.pending) + g) = s.requests - Len(s.pending)
      BY <3>2, <2>10, <2>4
    <3> QED BY <3>1, <3>3, Zenon DEF HttpTaken
  <2>17. p.ok \in BOOLEAN
    BY <2>1, <2>8
  <2> QED BY <1>2, <2>9, <2>12, <2>14, <2>15, <2>16, <2>17 DEF r
<1> QED BY <1>1, <1>2

-----------------------------------------------------------------------------
(* What a step leaves alone *)

\* Nothing of connection d changes.
HttpSame(d) ==
    /\ session'[d] = session[d] /\ wire'[d] = wire[d] /\ sentTo'[d] = sentTo[d]
    /\ answers'[d] = answers[d]
    /\ d \in attached' <=> d \in attached
    /\ d \in unarmed' <=> d \in unarmed
    /\ \A t \in steps' : t.c = d => t \in steps
    /\ \A t \in steps : t.c = d => t \in steps'
    /\ \A g \in Nat : [c |-> d, gen |-> g] \in timers => [c |-> d, gen |-> g] \in timers'

\* The types of a session's fields.
LEMMA HttpFieldTypes ==
    ASSUME NEW s \in HttpSessionType
    PROVE  /\ s.open = TRUE /\ s.requests \in Nat /\ s.gen \in Nat /\ s.timer \in Nat
           /\ s.pending \in Seq(HttpRequestType) /\ Len(s.pending) \in Nat
           /\ s.buffer \in Seq(HttpRequestType) /\ Len(s.buffer) \in Nat
           /\ s.processing \in BOOLEAN /\ s.closing \in BOOLEAN /\ s.streaming \in BOOLEAN
           /\ s.client \in BOOLEAN /\ s.late \in BOOLEAN /\ s.lost \in BOOLEAN
<1>1. s.requests \in Nat /\ s.gen \in Nat /\ s.timer \in Nat
  BY DEF HttpSessionType
<1>2. s.pending \in Seq(HttpRequestType) /\ s.buffer \in Seq(HttpRequestType)
  BY DEF HttpSessionType
<1>3. Len(s.pending) \in Nat /\ Len(s.buffer) \in Nat
  BY <1>2
<1>4. s.open = TRUE
  BY DEF HttpSessionType
<1>5. s.processing \in BOOLEAN /\ s.closing \in BOOLEAN /\ s.streaming \in BOOLEAN
      /\ s.client \in BOOLEAN /\ s.late \in BOOLEAN /\ s.lost \in BOOLEAN
  BY DEF HttpSessionType
<1> QED BY <1>1, <1>2, <1>3, <1>4, <1>5

\* The fields of an open session.
LEMMA HttpSessionFields ==
    ASSUME HttpShape, NEW c \in Conns
    PROVE  /\ session[c].open \in BOOLEAN
           /\ session[c].open => session[c] \in HttpSessionType
           /\ ~session[c].open => session[c] = NoSession
<1>1. session[c] \in {NoSession} \cup HttpSessionType
  BY DEF HttpShape
<1>2. NoSession.open = FALSE
  BY DEF NoSession
<1>3. \A s \in HttpSessionType : s.open = TRUE
  BY DEF HttpSessionType
<1> QED BY <1>1, <1>2, <1>3

\* A step that changes one connection needs to be right about that one.
LEMMA HttpOnlyConn ==
    ASSUME HttpInv, NEW c \in Conns, HttpShape', HttpConn(c)',
           \A d \in Conns \ {c} : HttpSame(d)
    PROVE  HttpInv'
<1>1. ASSUME NEW d \in Conns, d # c PROVE HttpConn(d)'
  <2>1. HttpSame(d) /\ HttpConn(d)
    BY <1>1 DEF HttpInv
  <2>2. HttpSessionSound(d)'
    BY <2>1 DEF HttpSame, HttpConn, HttpSessionSound
  <2>3. HttpUnused(d)'
    BY <2>1 DEF HttpSame, HttpConn, HttpUnused
  <2>4. HttpHandlers(d)'
    BY <2>1 DEF HttpSame, HttpConn, HttpHandlers
  <2>5. HttpProgress(d)'
    <3>1. HttpProgress(d)
      BY <2>1 DEF HttpConn
    <3> QED BY <2>1, <3>1 DEF HttpSame, HttpProgress
  <2>6. HttpTimed(d)'
    <3>1. HttpTimed(d)
      BY <2>1 DEF HttpConn
    <3>2. session[d].open => session[d].gen \in Nat
      <4>1. session[d].open => session[d] \in HttpSessionType
        BY HttpSessionFields DEF HttpInv
      <4> QED BY <4>1 DEF HttpSessionType
    <3> QED BY <2>1, <3>1, <3>2 DEF HttpSame, HttpTimed
  <2>7. HttpOwned(d)'
    BY <2>1 DEF HttpSame, HttpConn, HttpOwned
  <2>8. HttpInOrder(d)'
    BY <2>1 DEF HttpSame, HttpConn, HttpInOrder
  <2> QED BY <2>2, <2>3, <2>4, <2>5, <2>6, <2>7, <2>8 DEF HttpConn
<1> QED BY <1>1 DEF HttpInv

\* A task moves to its next step.
LEMMA HttpAtStepTask ==
    ASSUME NEW t \in HttpTaskType,
           NEW pc \in {"renew", "post", "refuse", "notify", "handle", "complete", "start",
                       "attach", "hand", "closed", "shut"}
    PROVE  LET u == [t EXCEPT !.pc = pc]
           IN  /\ u \in HttpTaskType /\ u.c = t.c /\ u.pc = pc /\ u.req = t.req
               /\ u.who = t.who /\ u.gen = t.gen
BY DEF HttpTaskType

\* Close() on a socket.
LEMMA HttpCloseSocket ==
    ASSUME HttpShape, NEW c \in Conns, CloseSocket(c)
    PROVE  /\ wire' \in [Conns -> {"idle", "open", "flush", "closing", "closed"}]
           /\ wire'[c] # "open"
           /\ wire'[c] = "idle" <=> wire[c] = "idle"
           /\ \A d \in Conns : d # c => wire'[d] = wire[d]
BY DEF HttpShape, CloseSocket

-----------------------------------------------------------------------------
(* The steps *)

\* OnConnection: a fresh session, and its first timeout to renew.
LEMMA HttpOnConnection ==
    ASSUME HttpInv, NEW c \in Conns, OnConnection(c)
    PROVE  HttpInv'
<1> DEFINE k == Task("net", c, "renew", NoRequest)
           f == [FreshHttpSession EXCEPT !.late = server # "on"]
<1>1. HttpShape /\ HttpConn(c)
  BY DEF HttpInv
<1>2. /\ sentTo[c] = 0 /\ answers[c] = <<>> /\ \A t \in steps : t.c # c
  BY <1>1 DEF HttpConn, HttpUnused, OnConnection
<1>3. /\ wire' = [wire EXCEPT ![c] = "open"] /\ session' = [session EXCEPT ![c] = f]
      /\ steps' = steps \cup {k}
      /\ UNCHANGED <<server, sentTo, timers, attached, answers, broken, unarmed>>
  BY DEF OnConnection
<1>4. k \in HttpTaskType /\ k.c = c /\ k.pc = "renew" /\ k.who = "net"
  BY DEF Task, HttpTaskType, NoRequest, HttpRequestType, Kinds
<1>5. /\ f \in HttpSessionType /\ f.open
      /\ f.pending = <<>> /\ f.buffer = <<>> /\ f.requests = 0
      /\ ~f.processing /\ ~f.closing /\ ~f.streaming
      /\ f.state = "none" /\ ~f.client
      /\ f.gen = 0 /\ f.timer = 0
  <2>1. <<>> \in Seq(HttpRequestType)
    OBVIOUS
  <2> QED BY <2>1 DEF FreshHttpSession, HttpSessionType
<1> HIDE DEF k, f
<1>6. HttpShape'
  BY <1>1, <1>3, <1>4, <1>5 DEF HttpShape
<1>7. session'[c] = f /\ wire'[c] = "open"
  BY <1>1, <1>3 DEF HttpShape
<1>8. ASSUME NEW d \in Conns \ {c} PROVE HttpSame(d)
  BY <1>1, <1>3, <1>4 DEF HttpSame, HttpShape
<1>9. HttpConn(c)'
  <2>1. Len(<<>>) = 0
    OBVIOUS
  <2>2. HttpSessionSound(c)'
    BY <1>2, <1>3, <1>5, <1>7, <2>1 DEF HttpSessionSound, HttpSessionOK, HttpNumbered
  <2>3. HttpUnused(c)'
    BY <1>7 DEF HttpUnused
  <2>4. HttpHandlers(c)'
    <3>1. \A u \in steps' : u.c = c => u.pc = "renew"
      BY <1>2, <1>3, <1>4
    <3>2. HttpTaken(f) = Len(answers'[c])
      BY <1>2, <1>3, <1>5, <2>1 DEF HttpTaken
    <3> QED BY <3>1, <3>2, <1>7 DEF HttpHandlers, HttpWorking
  <2>5. HttpProgress(c)'
    BY <1>5, <1>7 DEF HttpProgress
  <2>6. HttpTimed(c)'
    BY <1>3, <1>4 DEF HttpTimed, HttpRenews
  <2>7. HttpOwned(c)'
    BY <1>1, <1>2, <1>3 DEF HttpOwned, HttpConn, HttpUnused, OnConnection
  <2>8. HttpInOrder(c)'
    BY <1>2, <1>3, <2>1 DEF HttpInOrder
  <2> QED BY <2>2, <2>3, <2>4, <2>5, <2>6, <2>7, <2>8 DEF HttpConn
<1> QED BY <1>6, <1>8, <1>9, HttpOnlyConn

\* What a client sends is numbered on.
LEMMA HttpSentNumbered ==
    ASSUME HttpShape, NEW c \in Conns, NEW bytes \in Sent(c)
    PROVE  /\ bytes \in Seq(HttpRequestType) /\ Len(bytes) \in Nat
           /\ \A i \in 1 .. Len(bytes) : bytes[i].n = sentTo[c] + i
<1>0. sentTo[c] \in Nat
  BY HttpLimits DEF HttpShape
<1>1. CASE bytes = <<>>
  BY <1>1
<1>2. CASE bytes # <<>>
  <2>1. PICK k \in 1 .. 2, f \in [1 .. 2 -> Kinds] :
            bytes = [i \in 1 .. k |-> [n |-> sentTo[c] + i, kind |-> f[i], last |-> FALSE]]
    BY <1>2 DEF Sent
  <2> DEFINE Item(i) == [n |-> sentTo[c] + i, kind |-> f[i], last |-> FALSE]
  <2>2. ASSUME NEW i \in 1 .. k PROVE Item(i) \in HttpRequestType /\ Item(i).n = sentTo[c] + i
    <3>1. f[i] \in Kinds /\ sentTo[c] + i \in Nat
      BY <1>0
    <3> QED BY <3>1 DEF HttpRequestType
  <2>3. bytes = [i \in 1 .. k |-> Item(i)]
    BY <2>1
  <2> HIDE DEF Item
  <2>4. bytes \in Seq(HttpRequestType) /\ Len(bytes) = k /\ \A i \in 1 .. k : bytes[i] = Item(i)
    BY <2>2, <2>3
  <2> QED BY <2>2, <2>4
<1> QED BY <1>1, <1>2

\* OnMessage: the bytes are numbered on from the ones parsed before.
LEMMA HttpOnMessage ==
    ASSUME HttpInv, NEW c \in Conns, OnMessage(c)
    PROVE  HttpInv'
<1> DEFINE s == session[c]
<1>1. HttpShape /\ HttpConn(c)
  BY DEF HttpInv
<1>2. PICK bytes \in Sent(c) :
        /\ sentTo[c] + Len(bytes) <= MaxRead
        /\ sentTo' = [sentTo EXCEPT ![c] = @ + Len(bytes)]
        /\ LET p == Parsed([s EXCEPT !.buffer = @ \o bytes, !.gen = @ + 1])
           IN  IF ~s.open \/ s.closing \/ s.streaming
               THEN UNCHANGED <<session, steps>>
               ELSE /\ session' = [session EXCEPT ![c] = p.s]
                    /\ steps' = steps \cup
                        {Task("net", c, AfterRead(p), [NoRequest EXCEPT !.n = 1])}
  BY DEF OnMessage
<1>3. /\ UNCHANGED <<server, wire, timers, attached, answers, broken, unarmed>>
      /\ wire[c] \in {"open", "flush"}
  BY DEF OnMessage
<1>4. /\ bytes \in Seq(HttpRequestType) /\ Len(bytes) \in Nat
      /\ \A i \in 1 .. Len(bytes) : bytes[i].n = sentTo[c] + i
  BY <1>1, HttpSentNumbered
<1>5. sentTo[c] \in Nat /\ MaxRead \in Nat
  BY <1>1, HttpLimits DEF HttpShape
<1>6. /\ sentTo' \in [Conns -> 0 .. MaxRead] /\ sentTo'[c] = sentTo[c] + Len(bytes)
      /\ \A d \in Conns \ {c} : sentTo'[d] = sentTo[d]
  BY <1>1, <1>2, <1>4, <1>5 DEF HttpShape
<1>7. CASE ~s.open \/ s.closing \/ s.streaming
  <2>1. UNCHANGED <<session, steps>>
    BY <1>2, <1>7
  <2>2. HttpShape'
    BY <1>1, <1>3, <1>6, <2>1 DEF HttpShape
  <2>3. \A d \in Conns \ {c} : HttpSame(d)
    BY <1>3, <1>6, <2>1 DEF HttpSame
  <2>4. HttpSessionSound(c)'
    <3> SUFFICES ASSUME session[c].open PROVE HttpSessionOK(session[c], sentTo[c] + Len(bytes))
      BY <1>6, <2>1 DEF HttpSessionSound
    <3>1. HttpSessionOK(s, sentTo[c]) /\ s \in HttpSessionType
      BY <1>1, HttpSessionFields DEF HttpConn, HttpSessionSound
    <3>2. s.closing /\ s.requests + Len(s.buffer) <= sentTo[c]
      BY <3>1, <1>7 DEF HttpSessionOK, HttpNumbered
    <3>3. s.requests + Len(s.buffer) <= sentTo[c] + Len(bytes)
      <4>1. s.requests \in Nat /\ Len(s.buffer) \in Nat
        BY <3>1, HttpFieldTypes
      <4> QED BY <4>1, <3>2, <1>4, <1>5
    <3> QED BY <3>1, <3>2, <3>3 DEF HttpSessionOK, HttpNumbered
  <2>5. HttpUnused(c)'
    BY <1>3 DEF HttpUnused
  <2>6. HttpHandlers(c)' /\ HttpProgress(c)' /\ HttpTimed(c)' /\ HttpOwned(c)' /\ HttpInOrder(c)'
    BY <1>1, <1>3, <2>1 DEF HttpConn, HttpHandlers, HttpProgress, HttpTimed, HttpOwned, HttpInOrder
  <2>7. HttpConn(c)'
    BY <2>4, <2>5, <2>6 DEF HttpConn
  <2> QED BY <2>2, <2>3, <2>7, HttpOnlyConn
<1>8. CASE ~(~s.open \/ s.closing \/ s.streaming)
  <2> DEFINE s0 == [s EXCEPT !.buffer = @ \o bytes, !.gen = @ + 1]
             p == Parsed(s0)
             k == Task("net", c, AfterRead(p), [NoRequest EXCEPT !.n = 1])
  <2>1. session' = [session EXCEPT ![c] = p.s] /\ steps' = steps \cup {k}
    BY <1>2, <1>8
  <2>2. s \in HttpSessionType /\ HttpSessionOK(s, sentTo[c]) /\ ~s.closing /\ s.open /\ ~s.streaming
    BY <1>1, <1>8, HttpSessionFields DEF HttpConn, HttpSessionSound
  <2>3. /\ s.buffer \in Seq(HttpRequestType) /\ Len(s.buffer) \in Nat /\ s.requests \in Nat
        /\ s.gen \in Nat /\ s.timer \in Nat /\ s.timer <= s.gen
        /\ s.requests + Len(s.buffer) = sentTo[c]
        /\ \A i \in 1 .. Len(s.buffer) : s.buffer[i].n = s.requests + i
    <3>1. /\ s.buffer \in Seq(HttpRequestType) /\ Len(s.buffer) \in Nat /\ s.requests \in Nat
          /\ s.gen \in Nat /\ s.timer \in Nat
      BY <2>2, HttpFieldTypes
    <3>2. /\ s.timer <= s.gen /\ s.requests + Len(s.buffer) = sentTo[c]
          /\ \A i \in 1 .. Len(s.buffer) : s.buffer[i].n = s.requests + i
      BY <2>2 DEF HttpSessionOK, HttpNumbered
    <3> QED BY <3>1, <3>2
  <2>4. /\ s.buffer \o bytes \in Seq(HttpRequestType)
        /\ Len(s.buffer \o bytes) = Len(s.buffer) + Len(bytes)
        /\ \A i \in 1 .. Len(s.buffer) : (s.buffer \o bytes)[i] = s.buffer[i]
        /\ \A i \in 1 .. Len(bytes) : (s.buffer \o bytes)[Len(s.buffer) + i] = bytes[i]
    <3> DEFINE a == s.buffer
    <3>1. a \in Seq(HttpRequestType)
      BY <2>3
    <3> HIDE DEF a
    <3>2. /\ a \o bytes \in Seq(HttpRequestType)
          /\ Len(a \o bytes) = Len(a) + Len(bytes)
          /\ \A i \in 1 .. Len(a) : (a \o bytes)[i] = a[i]
          /\ \A i \in 1 .. Len(bytes) : (a \o bytes)[Len(a) + i] = bytes[i]
      BY <3>1, <1>4
    <3> QED BY <3>2 DEF a
  <2>5. /\ s0.buffer = s.buffer \o bytes /\ s0.gen = s.gen + 1
        /\ s0.pending = s.pending /\ s0.requests = s.requests /\ s0.processing = s.processing
        /\ s0.closing = s.closing /\ s0.streaming = s.streaming /\ s0.state = s.state
        /\ s0.client = s.client /\ s0.timer = s.timer /\ s0.lost = s.lost
    BY <2>2 DEF HttpSessionType
  <2>6. s0 \in HttpSessionType
    <3> DEFINE a == s.buffer \o bytes
               b == s.gen + 1
    <3>1. a \in Seq(HttpRequestType) /\ b \in Nat /\ s0 = [s EXCEPT !.buffer = a, !.gen = b]
      BY <2>3, <2>4
    <3> HIDE DEF a, b, s0
    <3> QED BY <3>1, <2>2 DEF HttpSessionType
  <2> HIDE DEF s0
  <2>7. HttpNumbered(s0, sentTo'[c])
    <3>1. \A i \in 1 .. Len(s0.buffer) : s0.buffer[i].n = s0.requests + i
      <4> SUFFICES ASSUME NEW i \in 1 .. Len(s.buffer) + Len(bytes)
                   PROVE  (s.buffer \o bytes)[i].n = s.requests + i
        BY <2>4, <2>5
      <4>1. CASE i <= Len(s.buffer)
        <5>1. i \in 1 .. Len(s.buffer)
          BY <4>1, <2>3, <1>4
        <5> QED BY <5>1, <2>3, <2>4
      <4>2. CASE i > Len(s.buffer)
        <5> DEFINE j == i - Len(s.buffer)
        <5>1. j \in 1 .. Len(bytes) /\ i = Len(s.buffer) + j
          BY <4>2, <2>3, <1>4
        <5>2. (s.buffer \o bytes)[i].n = sentTo[c] + j
          BY <5>1, <2>4, <1>4
        <5> QED BY <5>1, <5>2, <2>3, <1>4
      <4>3. i <= Len(s.buffer) \/ i > Len(s.buffer)
        BY <2>3, <1>4
      <4> QED BY <4>1, <4>2, <4>3
    <3>2. s0.requests + Len(s0.buffer) = sentTo'[c]
      BY <2>3, <2>4, <2>5, <1>4, <1>6
    <3>3. HttpNumbered(s, sentTo[c])
      BY <2>2 DEF HttpSessionOK
    <3>4. /\ Len(s0.pending) <= s0.requests
          /\ \A i \in 1 .. Len(s0.pending) : s0.pending[i].n = s0.requests - Len(s0.pending) + i
      BY <3>3, <2>5 DEF HttpNumbered
    <3>5. s0.requests + Len(s0.buffer) <= sentTo'[c]
      BY <3>2, <1>4, <1>5, <1>6
    <3>6. ~s0.closing
      BY <2>2, <2>5
    <3> QED BY <3>1, <3>2, <3>4, <3>5, <3>6 DEF HttpNumbered
  <2>8. sentTo'[c] \in Nat
    BY <1>4, <1>5, <1>6
  <2>9. /\ p.s \in HttpSessionType /\ p.ok \in BOOLEAN
        /\ p.s.gen = s0.gen /\ p.s.timer = s0.timer /\ p.s.processing = s0.processing
        /\ p.s.streaming = s0.streaming /\ p.s.client = s0.client /\ p.s.state = s0.state
        /\ p.s.lost = s0.lost
        /\ HttpNumbered(p.s, sentTo'[c])
        /\ ~s0.closing /\ p.s.buffer # <<>> => p.s.pending # <<>>
        /\ HttpTaken(p.s) = HttpTaken(s0)
    BY <2>6, <2>7, <2>8, HttpParsedSound
  <2>10. /\ k \in HttpTaskType /\ k.c = c /\ k.pc \in {"renew", "refuse"} /\ k.who = "net" /\ k.req.n = 1
    <3>1. [NoRequest EXCEPT !.n = 1] \in HttpRequestType /\ [NoRequest EXCEPT !.n = 1].n = 1
      BY DEF NoRequest, HttpRequestType, Kinds
    <3>2. AfterRead(p) \in {"renew", "refuse"}
      BY DEF AfterRead
    <3> HIDE DEF p
    <3> QED BY <3>1, <3>2 DEF Task, HttpTaskType
  <2> HIDE DEF p, k
  <2>11. session'[c] = p.s /\ \A d \in Conns \ {c} : session'[d] = session[d]
    BY <1>1, <2>1 DEF HttpShape
  <2>12. HttpShape'
    BY <1>1, <1>3, <1>6, <2>1, <2>9, <2>10 DEF HttpShape
  <2>13. \A d \in Conns \ {c} : HttpSame(d)
    BY <1>3, <1>6, <2>1, <2>10, <2>11 DEF HttpSame
  <2>14. HttpSessionSound(c)'
    <3>1. HttpSessionOK(p.s, sentTo'[c])
      BY <2>2, <2>3, <2>5, <2>9 DEF HttpSessionOK
    <3> QED BY <3>1, <2>11 DEF HttpSessionSound
  <2>15. HttpUnused(c)'
    BY <1>3 DEF HttpUnused
  <2>16. HttpHandlers(c)'
    <3>1. HttpHandlers(c)
      BY <1>1 DEF HttpConn
    <3>2. \A u \in steps' : u.pc \in HttpWorking => u \in steps
      BY <2>1, <2>10 DEF HttpWorking
    <3>3. HttpTaken(p.s) = HttpTaken(s)
      BY <2>5, <2>9 DEF HttpTaken
    <3>4. p.s.processing = s.processing /\ p.s.streaming = s.streaming
      BY <2>5, <2>9
    <3> QED BY <1>3, <2>2, <2>11, <3>1, <3>2, <3>3, <3>4 DEF HttpHandlers, HttpWorking
  <2>17. HttpProgress(c)'
    <3>1. p.s.processing = s.processing /\ p.s.lost = s.lost
      BY <2>5, <2>9
    <3>2. k \in steps' /\ k.c = c /\ HttpResumes(k) /\ steps \subseteq steps'
      BY <2>1, <2>10 DEF HttpResumes
    <3> QED BY <1>1, <1>3, <2>2, <2>11, <3>1, <3>2 DEF HttpProgress, HttpConn
  <2>18. HttpTimed(c)'
    BY <2>1, <2>10 DEF HttpTimed, HttpRenews
  <2>19. HttpOwned(c)'
    <3>1. p.s.client = s.client /\ p.s.open
      BY <2>5, <2>9 DEF HttpSessionType
    <3> QED BY <1>1, <1>3, <2>1, <2>11, <3>1 DEF HttpConn, HttpOwned
  <2>20. HttpInOrder(c)'
    BY <1>1, <1>3 DEF HttpConn, HttpInOrder
  <2>21. HttpConn(c)'
    BY <2>14, <2>15, <2>16, <2>17, <2>18, <2>19, <2>20 DEF HttpConn
  <2> QED BY <2>12, <2>13, <2>21, HttpOnlyConn
<1> QED BY <1>7, <1>8

\* A timer: the current one closes the socket, an outdated one does nothing.
LEMMA HttpOnTimer ==
    ASSUME HttpInv, NEW c \in Conns, OnTimer(c)
    PROVE  HttpInv'
<1> DEFINE s == session[c]
<1>1. HttpShape /\ HttpConn(c)
  BY DEF HttpInv
<1>2. PICK tm \in timers :
        /\ tm.c = c /\ timers' = timers \ {tm}
        /\ IF Current(s, tm.gen)
           THEN session' = [session EXCEPT ![c].timer = 0] /\ CloseSocket(c)
           ELSE UNCHANGED <<session, wire>>
  BY DEF OnTimer
<1>3. UNCHANGED <<server, sentTo, steps, attached, answers, broken, unarmed>>
  BY DEF OnTimer
<1>4. tm = [c |-> c, gen |-> tm.gen] /\ tm.gen \in Nat \ {0}
  BY <1>1, <1>2 DEF HttpShape
<1>5. \A d \in Conns \ {c} : \A g \in Nat :
          [c |-> d, gen |-> g] \in timers => [c |-> d, gen |-> g] \in timers'
  BY <1>2
<1>6. CASE Current(s, tm.gen)
  <2> DEFINE r == [s EXCEPT !.timer = 0]
  <2>1. s \in HttpSessionType /\ HttpSessionOK(s, sentTo[c]) /\ s.open
    BY <1>1, <1>6, HttpSessionFields DEF Current, HttpConn, HttpSessionSound
  <2>2. /\ r \in HttpSessionType /\ r.timer = 0 /\ r.open = s.open /\ r.pending = s.pending
        /\ r.buffer = s.buffer /\ r.requests = s.requests /\ r.processing = s.processing
        /\ r.closing = s.closing /\ r.streaming = s.streaming /\ r.state = s.state
        /\ r.client = s.client /\ r.gen = s.gen
    BY <2>1 DEF HttpSessionType
  <2>3. session' = [session EXCEPT ![c] = r] /\ CloseSocket(c)
    BY <1>2, <1>6
  <2> HIDE DEF r
  <2>4. r.timer <= r.gen
    <3>1. s.gen \in Nat
      BY <2>1, HttpFieldTypes
    <3> QED BY <2>2, <3>1
  <2>5. session'[c] = r /\ \A d \in Conns \ {c} : session'[d] = session[d]
    BY <1>1, <2>3 DEF HttpShape
  <2>6. /\ wire' \in [Conns -> {"idle", "open", "flush", "closing", "closed"}]
        /\ wire'[c] # "open" /\ (wire'[c] = "idle" <=> wire[c] = "idle")
        /\ \A d \in Conns : d # c => wire'[d] = wire[d]
    BY <1>1, <2>3, HttpCloseSocket
  <2>7. HttpShape'
    BY <1>1, <1>2, <1>3, <2>2, <2>3, <2>6 DEF HttpShape
  <2>8. \A d \in Conns \ {c} : HttpSame(d)
    BY <1>3, <1>5, <2>5, <2>6 DEF HttpSame
  <2>9. HttpSessionSound(c)'
    <3>1. HttpSessionOK(r, sentTo[c])
      BY <2>1, <2>2, <2>4 DEF HttpSessionOK, HttpNumbered
    <3> QED BY <3>1, <1>3, <2>5 DEF HttpSessionSound
  <2>10. HttpUnused(c)'
    BY <1>1, <1>3, <2>2, <2>5, <2>6 DEF HttpConn, HttpUnused
  <2>11. HttpHandlers(c)'
    <3>1. HttpTaken(r) = HttpTaken(s)
      BY <2>2 DEF HttpTaken
    <3>2. HttpHandlers(c)
      BY <1>1 DEF HttpConn
    <3> QED BY <1>3, <2>1, <2>2, <2>5, <3>1, <3>2 DEF HttpHandlers
  <2>12. HttpProgress(c)' /\ HttpTimed(c)'
    BY <2>6 DEF HttpProgress, HttpTimed
  <2>13. HttpOwned(c)' /\ HttpInOrder(c)'
    BY <1>1, <1>3, <2>2, <2>5 DEF HttpConn, HttpOwned, HttpInOrder
  <2>14. HttpConn(c)'
    BY <2>9, <2>10, <2>11, <2>12, <2>13 DEF HttpConn
  <2> QED BY <2>7, <2>8, <2>14, HttpOnlyConn
<1>7. CASE ~Current(s, tm.gen)
  <2>1. UNCHANGED <<session, wire>>
    BY <1>2, <1>7
  <2>2. HttpShape'
    BY <1>1, <1>2, <1>3, <2>1 DEF HttpShape
  <2>3. \A d \in Conns \ {c} : HttpSame(d)
    BY <1>3, <1>5, <2>1 DEF HttpSame
  <2>4. HttpTimed(c)'
    <3> SUFFICES ASSUME s.open, s.timer # 0, [c |-> c, gen |-> s.gen] \in timers
                 PROVE  [c |-> c, gen |-> s.gen] \in timers'
      BY <1>1, <1>3, <2>1 DEF HttpConn, HttpTimed
    <3>1. s.gen # tm.gen
      BY <1>7 DEF Current
    <3>2. [c |-> c, gen |-> s.gen].gen = s.gen
      OBVIOUS
    <3>3. [c |-> c, gen |-> s.gen] # tm
      BY <3>1, <3>2
    <3> QED BY <3>3, <1>2
  <2>5. /\ HttpSessionSound(c)' /\ HttpUnused(c)' /\ HttpHandlers(c)' /\ HttpProgress(c)'
        /\ HttpOwned(c)' /\ HttpInOrder(c)'
    BY <1>1, <1>3, <2>1 DEF HttpConn, HttpSessionSound, HttpUnused, HttpHandlers, HttpProgress,
                            HttpOwned, HttpInOrder
  <2>6. HttpConn(c)'
    BY <2>4, <2>5 DEF HttpConn
  <2> QED BY <2>2, <2>3, <2>6, HttpOnlyConn
<1> QED BY <1>6, <1>7

\* OnClose: the client the session held passes to the callback.
LEMMA HttpOnClose ==
    ASSUME HttpInv, NEW c \in Conns, OnClose(c)
    PROVE  HttpInv'
<1> DEFINE k == Task("net", c, "notify", NoRequest)
<1>1. HttpShape /\ HttpConn(c)
  BY DEF HttpInv
<1>2. /\ wire' = [wire EXCEPT ![c] = "closed"] /\ session' = [session EXCEPT ![c] = NoSession]
      /\ timers' = {tm \in timers : ~(session[c].open /\ tm.c = c /\ tm.gen = session[c].timer)}
      /\ UNCHANGED <<server, sentTo, attached, answers, broken, unarmed>>
  BY DEF OnClose
<1>3. k \in HttpTaskType /\ k.c = c /\ k.pc = "notify"
  BY DEF Task, HttpTaskType, NoRequest, HttpRequestType, Kinds
<1>4. /\ steps' = steps \/ steps' = steps \cup {k}
      /\ (session[c].open /\ session[c].client) => k \in steps'
  BY DEF OnClose
<1> HIDE DEF k
<1>5. session'[c] = NoSession /\ wire'[c] = "closed" /\ NoSession.open = FALSE
      /\ \A d \in Conns \ {c} : session'[d] = session[d] /\ wire'[d] = wire[d]
  BY <1>1, <1>2 DEF HttpShape, NoSession
<1>6. HttpShape'
  BY <1>1, <1>2, <1>3, <1>4 DEF HttpShape
<1>7. \A d \in Conns \ {c} : HttpSame(d)
  BY <1>2, <1>3, <1>4, <1>5 DEF HttpSame
<1>8. HttpSessionSound(c)' /\ HttpUnused(c)' /\ HttpProgress(c)' /\ HttpTimed(c)'
  BY <1>5 DEF HttpSessionSound, HttpUnused, HttpProgress, HttpTimed
<1>9. HttpHandlers(c)'
  <2>1. \A u \in steps' : u.pc \in HttpWorking => u \in steps
    BY <1>3, <1>4 DEF HttpWorking
  <2>2. HttpHandlers(c)
    BY <1>1 DEF HttpConn
  <2> QED BY <1>2, <1>5, <2>1, <2>2 DEF HttpHandlers, HttpWorking
<1>10. HttpOwned(c)'
  <2>1. HttpDetaches(k)
    BY <1>3 DEF HttpDetaches
  <2> QED BY <1>1, <1>2, <1>3, <1>4, <2>1 DEF HttpConn, HttpOwned
<1>11. HttpInOrder(c)'
  BY <1>1, <1>2 DEF HttpConn, HttpInOrder
<1>12. HttpConn(c)'
  BY <1>8, <1>9, <1>10, <1>11 DEF HttpConn
<1> QED BY <1>6, <1>7, <1>12, HttpOnlyConn

\* NotifyStreamClosed detaches the client.
LEMMA HttpNotifyStreamClosed ==
    ASSUME HttpInv, NEW t \in steps, NotifyStreamClosed(t)
    PROVE  HttpInv'
<1>1. HttpShape
  BY DEF HttpInv
<1>2. PICK c \in Conns : c = t.c
  BY <1>1 DEF HttpShape, HttpTaskType
<1>3. HttpConn(c)
  BY DEF HttpInv
<1>4. /\ t.pc = "notify" /\ attached' = attached \ {c} /\ Handled(t, {})
      /\ UNCHANGED <<server, wire, session, sentTo, timers, answers, broken, unarmed>>
  BY <1>2 DEF NotifyStreamClosed, Finish
<1>5. /\ steps' \subseteq HttpTaskType
      /\ \A u \in steps' : u.pc = "install" => u.gen # 0
      /\ \A u \in steps' : u \in steps /\ u # t
      /\ \A u \in steps : u # t => u \in steps'
  BY <1>1, <1>4 DEF Handled, HttpShape
<1>6. HttpShape'
  BY <1>1, <1>4, <1>5 DEF HttpShape
<1>7. \A d \in Conns \ {c} : HttpSame(d)
  BY <1>2, <1>4, <1>5 DEF HttpSame
<1>8. HttpSessionSound(c)' /\ HttpUnused(c)' /\ HttpInOrder(c)'
  BY <1>3, <1>4, <1>5 DEF HttpConn, HttpSessionSound, HttpUnused, HttpInOrder
<1>9. HttpHandlers(c)'
  BY <1>3, <1>4, <1>5 DEF HttpConn, HttpHandlers
<1>10. HttpProgress(c)'
  BY <1>3, <1>4, <1>5 DEF HttpConn, HttpProgress, HttpResumes
<1>11. HttpTimed(c)'
  BY <1>3, <1>4, <1>5 DEF HttpConn, HttpTimed, HttpRenews
<1>12. HttpOwned(c)'
  BY <1>4 DEF HttpOwned
<1>13. HttpConn(c)'
  BY <1>8, <1>9, <1>10, <1>11, <1>12 DEF HttpConn
<1> QED BY <1>6, <1>7, <1>13, HttpOnlyConn

\* StartConnectionTimer, first half: the task that renews becomes the one that installs.
LEMMA HttpRenewTimeout ==
    ASSUME HttpInv, NEW t \in steps, RenewTimeout(t)
    PROVE  HttpInv'
<1>1. HttpShape
  BY DEF HttpInv
<1>2. PICK c \in Conns : c = t.c
  BY <1>1 DEF HttpShape, HttpTaskType
<1>3. HttpConn(c)
  BY DEF HttpInv
<1>4. t.pc = "renew" /\ UNCHANGED <<server, wire, sentTo, attached, answers, broken, unarmed>>
  BY DEF RenewTimeout
<1> DEFINE s == session[c]
<1>5. CASE ~s.open
  <2>1. Handled(t, {}) /\ UNCHANGED <<session, timers>>
    BY <1>2, <1>5 DEF RenewTimeout, Finish
  <2>2. /\ steps' \subseteq HttpTaskType
        /\ \A u \in steps' : u.pc = "install" => u.gen # 0
        /\ \A u \in steps' : u \in steps /\ u # t
        /\ \A u \in steps : u # t => u \in steps'
    BY <1>1, <2>1 DEF Handled, HttpShape
  <2>3. HttpShape'
    BY <1>1, <1>4, <2>1, <2>2 DEF HttpShape
  <2>4. \A d \in Conns \ {c} : HttpSame(d)
    BY <1>2, <1>4, <2>1, <2>2 DEF HttpSame
  <2>5. HttpSessionSound(c)' /\ HttpUnused(c)' /\ HttpInOrder(c)'
    BY <1>3, <1>4, <2>1, <2>2 DEF HttpConn, HttpSessionSound, HttpUnused, HttpInOrder
  <2>6. HttpHandlers(c)'
    BY <1>3, <1>4, <2>1, <2>2 DEF HttpConn, HttpHandlers
  <2>7. HttpProgress(c)' /\ HttpTimed(c)'
    BY <1>5, <2>1 DEF HttpProgress, HttpTimed
  <2>8. HttpOwned(c)'
    BY <1>3, <1>4, <2>1, <2>2 DEF HttpConn, HttpOwned, HttpDetaches
  <2>9. HttpConn(c)'
    BY <2>5, <2>6, <2>7, <2>8 DEF HttpConn
  <2> QED BY <2>3, <2>4, <2>9, HttpOnlyConn
<1>6. CASE s.open
  <2> DEFINE r == [s EXCEPT !.timer = 0, !.gen = s.gen + 1]
             k == [t EXCEPT !.pc = "install", !.gen = s.gen + 1]
  <2>1. s \in HttpSessionType /\ HttpSessionOK(s, sentTo[c]) /\ s.gen \in Nat
    <3>1. s \in HttpSessionType
      BY <1>1, <1>6, HttpSessionFields
    <3> QED BY <1>3, <1>6, <3>1, HttpFieldTypes DEF HttpConn, HttpSessionSound
  <2>2. /\ session' = [session EXCEPT ![c] = r]
        /\ timers' = {tm \in timers : ~(tm.c = c /\ tm.gen = s.timer)}
        /\ Handled(t, {k})
    BY <1>2, <1>6 DEF RenewTimeout
  <2>3. /\ r \in HttpSessionType /\ r.timer = 0 /\ r.open = s.open /\ r.pending = s.pending
        /\ r.buffer = s.buffer /\ r.requests = s.requests /\ r.processing = s.processing
        /\ r.closing = s.closing /\ r.streaming = s.streaming /\ r.state = s.state
        /\ r.client = s.client /\ r.gen = s.gen + 1 /\ r.lost = s.lost
    <3> DEFINE g == s.gen + 1
    <3>1. g \in Nat /\ r = [s EXCEPT !.timer = 0, !.gen = g]
      BY <2>1
    <3> HIDE DEF g, r
    <3>2. /\ r \in HttpSessionType /\ r.timer = 0 /\ r.gen = g
      BY <2>1, <3>1 DEF HttpSessionType
    <3>3. /\ r.open = s.open /\ r.pending = s.pending
          /\ r.buffer = s.buffer /\ r.requests = s.requests /\ r.processing = s.processing
          /\ r.closing = s.closing /\ r.streaming = s.streaming /\ r.state = s.state
          /\ r.client = s.client /\ r.lost = s.lost
      BY <2>1, <3>1 DEF HttpSessionType
    <3> QED BY <3>2, <3>3 DEF g
  <2>4. /\ k \in HttpTaskType /\ k.c = c /\ k.pc = "install" /\ k.gen = s.gen + 1 /\ k.gen # 0
        /\ k.who = t.who /\ k.req = t.req
    <3>1. t \in HttpTaskType
      BY <1>1 DEF HttpShape
    <3> DEFINE g == s.gen + 1
    <3>2. g \in Nat /\ g # 0 /\ k = [t EXCEPT !.pc = "install", !.gen = g]
      BY <2>1
    <3> HIDE DEF g, k
    <3>3. /\ k \in HttpTaskType /\ k.c = t.c /\ k.pc = "install" /\ k.gen = g
          /\ k.who = t.who /\ k.req = t.req
      BY <3>1, <3>2 DEF HttpTaskType
    <3> QED BY <1>2, <3>2, <3>3 DEF g
  <2> HIDE DEF r, k
  <2>5. /\ steps' \subseteq HttpTaskType
        /\ \A u \in steps' : u.pc = "install" => u.gen # 0
        /\ \A u \in steps' : (u \in steps /\ u # t) \/ u = k
        /\ \A u \in steps : u # t => u \in steps'
        /\ k \in steps'
    BY <1>1, <2>2, <2>4 DEF Handled, HttpShape
  <2>6. session'[c] = r /\ \A d \in Conns \ {c} : session'[d] = session[d]
    BY <1>1, <2>2 DEF HttpShape
  <2>7. HttpShape'
    BY <1>1, <1>4, <2>2, <2>3, <2>5 DEF HttpShape
  <2>8. \A d \in Conns \ {c} : HttpSame(d)
    BY <1>2, <1>4, <2>2, <2>4, <2>5, <2>6 DEF HttpSame
  <2>9. HttpSessionSound(c)'
    <3>1. r.timer <= r.gen
      BY <2>1, <2>3
    <3>2. HttpSessionOK(r, sentTo[c])
      BY <2>1, <2>3, <3>1 DEF HttpSessionOK, HttpNumbered
    <3> QED BY <3>2, <1>4, <2>6 DEF HttpSessionSound
  <2>10. HttpUnused(c)'
    BY <1>2, <1>3, <1>4 DEF HttpConn, HttpUnused
  <2>11. HttpHandlers(c)'
    <3>1. HttpTaken(r) = HttpTaken(s)
      BY <2>3 DEF HttpTaken
    <3>2. HttpHandlers(c)
      BY <1>3 DEF HttpConn
    <3>3. \A u \in steps' : u.pc \in HttpWorking => u \in steps
      BY <2>4, <2>5 DEF HttpWorking
    <3> QED BY <1>4, <1>6, <2>3, <2>6, <3>1, <3>2, <3>3 DEF HttpHandlers, HttpWorking
  <2>12. HttpProgress(c)'
    <3>1. HttpProgress(c)
      BY <1>3 DEF HttpConn
    <3>2. HttpResumes(t) => HttpResumes(k)
      BY <1>4, <2>4 DEF HttpResumes
    <3> QED BY <1>2, <1>4, <1>6, <2>3, <2>4, <2>5, <2>6, <3>1, <3>2 DEF HttpProgress
  <2>13. HttpTimed(c)'
    BY <2>3, <2>4, <2>5, <2>6 DEF HttpTimed, HttpRenews
  <2>14. HttpOwned(c)'
    <3>1. HttpOwned(c) /\ ~HttpDetaches(t)
      BY <1>3, <1>4 DEF HttpConn, HttpDetaches
    <3> QED BY <1>4, <2>3, <2>5, <2>6, <3>1 DEF HttpOwned
  <2>15. HttpInOrder(c)'
    BY <1>3, <1>4 DEF HttpConn, HttpInOrder
  <2>16. HttpConn(c)'
    BY <2>9, <2>10, <2>11, <2>12, <2>13, <2>14, <2>15 DEF HttpConn
  <2> QED BY <2>7, <2>8, <2>16, HttpOnlyConn
<1> QED BY <1>5, <1>6

\* StartConnectionTimer, second half: only the generation that is current is installed.
LEMMA HttpInstallTimeout ==
    ASSUME HttpInv, NEW t \in steps, InstallTimeout(t)
    PROVE  HttpInv'
<1>1. HttpShape
  BY DEF HttpInv
<1>2. PICK c \in Conns : c = t.c
  BY <1>1 DEF HttpShape, HttpTaskType
<1>3. HttpConn(c)
  BY DEF HttpInv
<1> DEFINE s == session[c]
           k == [t EXCEPT !.pc = "post"]
           r == [s EXCEPT !.timer = t.gen]
<1>4. t.pc = "install" /\ UNCHANGED <<server, wire, sentTo, attached, answers, broken>>
      /\ t.gen \in Nat \ {0} /\ t \in HttpTaskType
  BY <1>1 DEF InstallTimeout, HttpShape, HttpTaskType
<1>5. /\ k \in HttpTaskType /\ k.c = c /\ k.pc = "post" /\ k.req = t.req /\ k.who = t.who
  BY <1>2, <1>4, HttpAtStepTask
<1>6. IF t.who = "net" /\ t.req.n # 0 THEN Handled(t, {k}) ELSE Handled(t, {})
  BY DEF InstallTimeout, AtStep, Finish
<1> HIDE DEF k
<1>7. /\ steps' \subseteq HttpTaskType
      /\ \A u \in steps' : u.pc = "install" => u.gen # 0
      /\ \A u \in steps' : (u \in steps /\ u # t) \/ u = k
      /\ \A u \in steps : u # t => u \in steps'
      /\ (t.who = "net" /\ t.req.n # 0) => k \in steps'
  BY <1>1, <1>5, <1>6 DEF Handled, HttpShape
<1>8. \/ /\ s.open /\ s.gen = t.gen /\ session' = [session EXCEPT ![c] = r]
         /\ timers' = timers \cup {[c |-> c, gen |-> t.gen]} /\ unarmed' = unarmed \ {c}
      \/ /\ ~(s.open /\ s.gen = t.gen) /\ UNCHANGED <<session, timers, unarmed>>
      \/ /\ unarmed' = unarmed \cup {c} /\ UNCHANGED <<session, timers>>
  BY <1>2 DEF InstallTimeout
<1>9. /\ HttpProgress(c) /\ (HttpResumes(t) => HttpResumes(k))
      /\ (HttpResumes(t) => k \in steps')
  BY <1>3, <1>4, <1>5, <1>7 DEF HttpConn, HttpResumes
<1>10. HttpOwned(c) /\ ~HttpDetaches(t)
  BY <1>3, <1>4 DEF HttpConn, HttpDetaches
<1>11. HttpHandlers(c) /\ \A u \in steps' : u.pc \in HttpWorking => u \in steps
  BY <1>3, <1>5, <1>7 DEF HttpConn, HttpWorking
<1>12. HttpUnused(c)' /\ HttpInOrder(c)'
  BY <1>2, <1>3, <1>4 DEF HttpConn, HttpUnused, HttpInOrder
<1>13. CASE UNCHANGED <<session, timers>> /\ unarmed' \in {unarmed, unarmed \cup {c}}
            /\ (c \in unarmed' \/ ~(s.open /\ s.gen = t.gen))
  <2>1. HttpShape'
    BY <1>1, <1>4, <1>7, <1>13 DEF HttpShape
  <2>2. \A d \in Conns \ {c} : HttpSame(d)
    BY <1>2, <1>4, <1>5, <1>7, <1>13 DEF HttpSame
  <2>3. HttpSessionSound(c)'
    BY <1>3, <1>4, <1>13 DEF HttpConn, HttpSessionSound
  <2>4. HttpHandlers(c)'
    BY <1>4, <1>11, <1>13 DEF HttpHandlers, HttpWorking
  <2>5. HttpProgress(c)'
    BY <1>2, <1>4, <1>5, <1>7, <1>9, <1>13 DEF HttpProgress
  <2>6. HttpTimed(c)'
    <3>1. HttpTimed(c)
      BY <1>3 DEF HttpConn
    <3> QED BY <1>2, <1>4, <1>7, <1>13, <3>1 DEF HttpTimed, HttpRenews
  <2>7. HttpOwned(c)'
    BY <1>4, <1>7, <1>10, <1>13 DEF HttpOwned
  <2>8. HttpConn(c)'
    BY <1>12, <2>3, <2>4, <2>5, <2>6, <2>7 DEF HttpConn
  <2> QED BY <2>1, <2>2, <2>8, HttpOnlyConn
<1>14. CASE /\ s.open /\ s.gen = t.gen /\ session' = [session EXCEPT ![c] = r]
            /\ timers' = timers \cup {[c |-> c, gen |-> t.gen]} /\ unarmed' = unarmed \ {c}
  <2>1. s \in HttpSessionType /\ HttpSessionOK(s, sentTo[c])
    BY <1>1, <1>3, <1>14, HttpSessionFields DEF HttpConn, HttpSessionSound
  <2>2. /\ r \in HttpSessionType /\ r.timer = t.gen /\ r.open = s.open /\ r.pending = s.pending
        /\ r.buffer = s.buffer /\ r.requests = s.requests /\ r.processing = s.processing
        /\ r.closing = s.closing /\ r.streaming = s.streaming /\ r.state = s.state
        /\ r.client = s.client /\ r.gen = s.gen /\ r.lost = s.lost
    BY <1>4, <2>1 DEF HttpSessionType
  <2> HIDE DEF r
  <2>3. session'[c] = r /\ \A d \in Conns \ {c} : session'[d] = session[d]
    BY <1>1, <1>14 DEF HttpShape
  <2>4. HttpShape'
    BY <1>1, <1>4, <1>7, <1>14, <2>2 DEF HttpShape
  <2>5. \A d \in Conns \ {c} : HttpSame(d)
    BY <1>2, <1>4, <1>5, <1>7, <1>14, <2>3 DEF HttpSame
  <2>6. HttpSessionSound(c)'
    <3>1. r.timer <= r.gen
      BY <1>4, <1>14, <2>2
    <3>2. HttpSessionOK(r, sentTo[c])
      BY <2>1, <2>2, <3>1 DEF HttpSessionOK, HttpNumbered
    <3> QED BY <3>2, <1>4, <2>3 DEF HttpSessionSound
  <2>7. HttpHandlers(c)'
    <3>1. HttpTaken(r) = HttpTaken(s)
      BY <2>2 DEF HttpTaken
    <3> QED BY <1>4, <1>11, <1>14, <2>2, <2>3, <3>1 DEF HttpHandlers, HttpWorking
  <2>8. HttpProgress(c)'
    BY <1>2, <1>4, <1>5, <1>7, <1>9, <1>14, <2>2, <2>3 DEF HttpProgress
  <2>9. HttpTimed(c)'
    BY <1>4, <1>14, <2>2, <2>3 DEF HttpTimed
  <2>10. HttpOwned(c)'
    BY <1>4, <1>7, <1>10, <2>2, <2>3 DEF HttpOwned
  <2>11. HttpConn(c)'
    BY <1>12, <2>6, <2>7, <2>8, <2>9, <2>10 DEF HttpConn
  <2> QED BY <2>4, <2>5, <2>11, HttpOnlyConn
<1> QED BY <1>8, <1>13, <1>14

\* A protocol error ends the connection.
LEMMA HttpRefuseRequest ==
    ASSUME HttpInv, NEW t \in steps, RefuseRequest(t)
    PROVE  HttpInv'
<1>1. HttpShape
  BY DEF HttpInv
<1>2. PICK c \in Conns : c = t.c
  BY <1>1 DEF HttpShape, HttpTaskType
<1>3. HttpConn(c)
  BY DEF HttpInv
<1>4. /\ t.pc = "refuse" /\ Handled(t, {})
      /\ UNCHANGED <<server, session, sentTo, timers, attached, answers, unarmed>>
  BY <1>2 DEF RefuseRequest, Finish
<1>5. /\ wire' \in [Conns -> {"idle", "open", "flush", "closing", "closed"}]
      /\ wire'[c] # "open" /\ (wire'[c] = "idle" <=> wire[c] = "idle")
      /\ \A d \in Conns : d # c => wire'[d] = wire[d]
  <2>1. CASE CloseSocket(c)
    BY <1>1, <2>1, HttpCloseSocket
  <2>2. CASE wire[c] = "open" /\ wire' = [wire EXCEPT ![c] = "flush"]
    BY <1>1, <2>2 DEF HttpShape
  <2> QED BY <1>2, <2>1, <2>2 DEF RefuseRequest, Refuse
<1>6. /\ steps' \subseteq HttpTaskType
      /\ \A u \in steps' : u.pc = "install" => u.gen # 0
      /\ \A u \in steps' : u \in steps /\ u # t
      /\ \A u \in steps : u # t => u \in steps'
  BY <1>1, <1>4 DEF Handled, HttpShape
<1>7. HttpShape'
  BY <1>1, <1>4, <1>5, <1>6 DEF HttpShape
<1>8. \A d \in Conns \ {c} : HttpSame(d)
  BY <1>2, <1>4, <1>5, <1>6 DEF HttpSame
<1>9. HttpSessionSound(c)' /\ HttpUnused(c)' /\ HttpInOrder(c)'
  BY <1>3, <1>4, <1>5, <1>6 DEF HttpConn, HttpSessionSound, HttpUnused, HttpInOrder
<1>10. HttpHandlers(c)'
  BY <1>3, <1>4, <1>6 DEF HttpConn, HttpHandlers
<1>11. HttpProgress(c)' /\ HttpTimed(c)'
  BY <1>5 DEF HttpProgress, HttpTimed
<1>12. HttpOwned(c)'
  BY <1>3, <1>4, <1>6 DEF HttpConn, HttpOwned, HttpDetaches
<1>13. HttpConn(c)'
  BY <1>9, <1>10, <1>11, <1>12 DEF HttpConn
<1> QED BY <1>7, <1>8, <1>13, HttpOnlyConn

\* TryPostNextRequest: the next request has the next number, and no other handler runs.
LEMMA HttpTryPostNextRequest ==
    ASSUME HttpInv, NEW t \in steps, TryPostNextRequest(t)
    PROVE  HttpInv'
<1>1. HttpShape
  BY DEF HttpInv
<1>2. PICK c \in Conns : c = t.c
  BY <1>1 DEF HttpShape, HttpTaskType
<1>3. HttpConn(c) /\ t \in HttpTaskType
  BY <1>1 DEF HttpInv, HttpShape
<1>4. /\ t.pc = "post"
      /\ UNCHANGED <<server, wire, sentTo, timers, attached, answers, broken, unarmed>>
  BY DEF TryPostNextRequest
<1> DEFINE s == session[c]
<1>5. HttpOwned(c) /\ ~HttpDetaches(t)
  BY <1>3, <1>4 DEF HttpConn, HttpDetaches
<1>6. HttpTimed(c) /\ \A g : ~HttpRenews(t, g)
  BY <1>3, <1>4 DEF HttpConn, HttpRenews
<1>7. HttpUnused(c)' /\ HttpInOrder(c)'
  BY <1>2, <1>3, <1>4 DEF HttpConn, HttpUnused, HttpInOrder
<1>8. CASE ~CanTake(s)
  <2>1. Handled(t, {}) /\ UNCHANGED session
    BY <1>2, <1>8 DEF TryPostNextRequest, Finish
  <2>2. /\ steps' \subseteq HttpTaskType
        /\ \A u \in steps' : u.pc = "install" => u.gen # 0
        /\ \A u \in steps' : u \in steps /\ u # t
        /\ \A u \in steps : u # t => u \in steps'
    BY <1>1, <2>1 DEF Handled, HttpShape
  <2>3. HttpShape'
    BY <1>1, <1>4, <2>1, <2>2 DEF HttpShape
  <2>4. \A d \in Conns \ {c} : HttpSame(d)
    BY <1>2, <1>4, <2>1, <2>2 DEF HttpSame
  <2>5. HttpSessionSound(c)'
    BY <1>3, <1>4, <2>1 DEF HttpConn, HttpSessionSound
  <2>6. HttpHandlers(c)'
    BY <1>3, <1>4, <2>1, <2>2 DEF HttpConn, HttpHandlers
  <2>7. HttpProgress(c)'
    BY <1>3, <1>4, <1>8, <2>1, <2>2 DEF HttpConn, HttpProgress, CanTake
  <2>8. HttpTimed(c)'
    BY <1>4, <1>6, <2>1, <2>2 DEF HttpTimed
  <2>9. HttpOwned(c)'
    BY <1>4, <1>5, <2>1, <2>2 DEF HttpOwned
  <2>10. HttpConn(c)'
    BY <1>7, <2>5, <2>6, <2>7, <2>8, <2>9 DEF HttpConn
  <2> QED BY <2>3, <2>4, <2>10, HttpOnlyConn
<1>9. CASE CanTake(s)
  <2> DEFINE req == Head(s.pending)
             r == [s EXCEPT !.pending = Tail(s.pending), !.processing = TRUE]
             k == Task("worker", c, "handle", req)
             j == [t EXCEPT !.pc = "refuse"]
  <2>1. session' = [session EXCEPT ![c] = r] /\ (Handled(t, {k}) \/ Handled(t, {j}))
    BY <1>2, <1>9 DEF TryPostNextRequest, AtStep
  <2>2. s.open /\ ~s.processing /\ s.pending # <<>> /\ s \in HttpSessionType
        /\ HttpSessionOK(s, sentTo[c])
    <3>1. s.open /\ ~s.processing /\ s.pending # <<>>
      BY <1>9 DEF CanTake
    <3> QED BY <1>1, <1>3, <3>1, HttpSessionFields DEF HttpConn, HttpSessionSound
  <2>3. ~s.streaming
    BY <2>2 DEF HttpSessionOK
  <2>4. HttpTaken(s) = Len(answers[c])
    BY <1>3, <2>2, <2>3 DEF HttpConn, HttpHandlers
  <2>5. /\ s.pending \in Seq(HttpRequestType) /\ Len(s.pending) \in Nat /\ s.requests \in Nat
        /\ Len(s.pending) <= s.requests
        /\ \A i \in 1 .. Len(s.pending) : s.pending[i].n = s.requests - Len(s.pending) + i
    BY <2>2, HttpFieldTypes DEF HttpSessionOK, HttpNumbered
  <2>6. /\ Tail(s.pending) \in Seq(HttpRequestType) /\ Len(Tail(s.pending)) = Len(s.pending) - 1
        /\ \A i \in 1 .. Len(s.pending) - 1 : Tail(s.pending)[i] = s.pending[i + 1]
        /\ req = s.pending[1] /\ req \in HttpRequestType /\ Len(s.pending) > 0
    <3> DEFINE q == s.pending
    <3>1. q \in Seq(HttpRequestType) /\ q # <<>>
      BY <2>2, <2>5
    <3> HIDE DEF q
    <3>2. /\ Tail(q) \in Seq(HttpRequestType) /\ Len(Tail(q)) = Len(q) - 1
          /\ \A i \in 1 .. Len(q) - 1 : Tail(q)[i] = q[i + 1]
          /\ Head(q) = q[1] /\ Head(q) \in HttpRequestType /\ Len(q) > 0
      BY <3>1
    <3> QED BY <3>2 DEF q
  <2>7. req.n = Len(answers[c]) + 1
    BY <2>4, <2>5, <2>6 DEF HttpTaken
  <2> HIDE DEF req
  <2>8. k \in HttpTaskType /\ k.c = c /\ k.pc = "handle" /\ k.req = req
    BY <2>6 DEF Task, HttpTaskType
  <2>9. j \in HttpTaskType /\ j.c = c /\ j.pc = "refuse"
    BY <1>2, <1>3, HttpAtStepTask
  <2>10. /\ r.pending = Tail(s.pending) /\ r.processing = TRUE /\ r.open = s.open
         /\ r.buffer = s.buffer /\ r.requests = s.requests /\ r.timer = s.timer /\ r.gen = s.gen
         /\ r.closing = s.closing /\ r.streaming = s.streaming /\ r.state = s.state
         /\ r.client = s.client
    BY <2>2 DEF HttpSessionType
  <2>11. r \in HttpSessionType
    <3> DEFINE q == Tail(s.pending)
    <3>1. q \in Seq(HttpRequestType) /\ r = [s EXCEPT !.pending = q, !.processing = TRUE]
      BY <2>6
    <3> HIDE DEF q, r
    <3> QED BY <2>2, <3>1 DEF HttpSessionType
  <2> HIDE DEF r, k, j
  <2>12. /\ steps' \subseteq HttpTaskType
         /\ \A u \in steps' : u.pc = "install" => u.gen # 0
         /\ \A u \in steps' : (u \in steps /\ u # t) \/ u = k \/ u = j
         /\ \A u \in steps : u # t => u \in steps'
         /\ k \in steps' \/ j \in steps'
    BY <1>1, <2>1, <2>8, <2>9 DEF Handled, HttpShape
  <2>13. session'[c] = r /\ \A d \in Conns \ {c} : session'[d] = session[d]
    BY <1>1, <2>1 DEF HttpShape
  <2>14. HttpShape'
    BY <1>1, <1>4, <2>1, <2>11, <2>12 DEF HttpShape
  <2>15. \A d \in Conns \ {c} : HttpSame(d)
    BY <1>2, <1>4, <2>8, <2>9, <2>12, <2>13 DEF HttpSame
  <2>16. HttpNumbered(r, sentTo[c])
    <3>1. HttpNumbered(s, sentTo[c])
      BY <2>2 DEF HttpSessionOK
    <3>2. Len(r.pending) = Len(s.pending) - 1 /\ Len(r.pending) <= r.requests
      BY <2>5, <2>6, <2>10
    <3>3. ASSUME NEW i \in 1 .. Len(r.pending)
          PROVE  r.pending[i].n = r.requests - Len(r.pending) + i
      <4>1. i \in 1 .. Len(s.pending) - 1 /\ i + 1 \in 1 .. Len(s.pending)
        BY <3>2, <2>5
      <4>2. r.pending[i] = s.pending[i + 1]
        BY <4>1, <2>6, <2>10
      <4>3. s.pending[i + 1].n = s.requests - Len(s.pending) + (i + 1)
        BY <4>1, <2>5
      <4>4. s.requests - Len(s.pending) + (i + 1) = s.requests - (Len(s.pending) - 1) + i
        <5>1. \A a, b, m \in Nat : a - b + (m + 1) = a - (b - 1) + m
          OBVIOUS
        <5>2. i \in Nat /\ s.requests \in Nat /\ Len(s.pending) \in Nat
          BY <4>1, <2>5
        <5> QED BY <5>1, <5>2
      <4>5. r.requests - Len(r.pending) + i = s.requests - (Len(s.pending) - 1) + i
        BY <3>2, <2>10
      <4> QED BY <4>2, <4>3, <4>4, <4>5
    <3> QED BY <3>1, <3>2, <3>3, <2>10 DEF HttpNumbered
  <2>17. HttpSessionSound(c)'
    <3>1. HttpSessionOK(r, sentTo[c])
      BY <2>2, <2>3, <2>10, <2>16 DEF HttpSessionOK
    <3> QED BY <3>1, <1>4, <2>13 DEF HttpSessionSound
  <2>18. HttpHandlers(c)'
    <3>1. \A u \in steps : u.c = c => u.pc \notin HttpWorking
      BY <1>3, <2>2 DEF HttpConn, HttpHandlers
    <3>2. \A u \in steps' : (u.c = c /\ u.pc \in HttpWorking) => u = k
      BY <3>1, <2>9, <2>12 DEF HttpWorking
    <3>3. HttpTaken(r) = Len(answers[c]) + 1
      <4>1. r.requests = s.requests /\ Len(r.pending) = Len(s.pending) - 1
        BY <2>6, <2>10
      <4>2. \A a, b \in Nat : a - (b - 1) = (a - b) + 1
        OBVIOUS
      <4>3. s.requests - (Len(s.pending) - 1) = (s.requests - Len(s.pending)) + 1
        BY <4>2, <2>5
      <4>4. s.requests - Len(s.pending) = Len(answers[c])
        BY <2>4, Zenon DEF HttpTaken
      <4>5. HttpTaken(r) = s.requests - (Len(s.pending) - 1)
        BY <4>1, Zenon DEF HttpTaken
      <4> QED BY <4>3, <4>4, <4>5, Zenon
    <3> QED BY <1>4, <2>7, <2>8, <2>10, <2>13, <3>2, <3>3 DEF HttpHandlers, HttpWorking
  <2>19. HttpProgress(c)'
    BY <2>8, <2>9, <2>10, <2>12, <2>13 DEF HttpProgress
  <2>20. HttpTimed(c)'
    BY <1>4, <1>6, <2>2, <2>10, <2>12, <2>13 DEF HttpTimed
  <2>21. HttpOwned(c)'
    BY <1>4, <1>5, <2>10, <2>12, <2>13 DEF HttpOwned
  <2>22. HttpConn(c)'
    BY <1>7, <2>17, <2>18, <2>19, <2>20, <2>21 DEF HttpConn
  <2> QED BY <2>14, <2>15, <2>22, HttpOnlyConn
<1> QED BY <1>8, <1>9

\* CompleteKeepAliveRequest: parsing again leaves someone to go on with the requests.
LEMMA HttpCompleteKeepAlive ==
    ASSUME HttpInv, NEW t \in steps, CompleteKeepAlive(t)
    PROVE  HttpInv'
<1>1. HttpShape
  BY DEF HttpInv
<1>2. PICK c \in Conns : c = t.c
  BY <1>1 DEF HttpShape, HttpTaskType
<1>3. HttpConn(c) /\ t \in HttpTaskType
  BY <1>1 DEF HttpInv, HttpShape
<1>4. /\ t.pc = "complete"
      /\ UNCHANGED <<server, wire, sentTo, timers, attached, answers, broken, unarmed>>
  BY DEF CompleteKeepAlive
<1> DEFINE s == session[c]
<1>5. HttpOwned(c) /\ ~HttpDetaches(t)
  BY <1>3, <1>4 DEF HttpConn, HttpDetaches
<1>6. HttpTimed(c) /\ \A g : ~HttpRenews(t, g)
  BY <1>3, <1>4 DEF HttpConn, HttpRenews
<1>7. HttpUnused(c)' /\ HttpInOrder(c)'
  BY <1>2, <1>3, <1>4 DEF HttpConn, HttpUnused, HttpInOrder
<1>8. CASE ~s.open
  <2>1. Handled(t, {}) /\ UNCHANGED session
    BY <1>2, <1>8 DEF CompleteKeepAlive, Finish
  <2>2. /\ steps' \subseteq HttpTaskType
        /\ \A u \in steps' : u.pc = "install" => u.gen # 0
        /\ \A u \in steps' : u \in steps /\ u # t
        /\ \A u \in steps : u # t => u \in steps'
    BY <1>1, <2>1 DEF Handled, HttpShape
  <2>3. HttpShape'
    BY <1>1, <1>4, <2>1, <2>2 DEF HttpShape
  <2>4. \A d \in Conns \ {c} : HttpSame(d)
    BY <1>2, <1>4, <2>1, <2>2 DEF HttpSame
  <2>5. HttpSessionSound(c)' /\ HttpProgress(c)' /\ HttpTimed(c)'
    BY <1>8, <2>1 DEF HttpSessionSound, HttpProgress, HttpTimed
  <2>6. HttpHandlers(c)'
    BY <1>3, <1>4, <2>1, <2>2 DEF HttpConn, HttpHandlers
  <2>7. HttpOwned(c)'
    BY <1>4, <1>5, <2>1, <2>2 DEF HttpOwned
  <2>8. HttpConn(c)'
    BY <1>7, <2>5, <2>6, <2>7 DEF HttpConn
  <2> QED BY <2>3, <2>4, <2>8, HttpOnlyConn
<1>9. CASE s.open
  <2> DEFINE s0 == [s EXCEPT !.processing = FALSE]
             p == Parsed(s0)
             r == p.s
             k == [t EXCEPT !.pc = AfterResponse(p)]
  <2>1. session' = [session EXCEPT ![c] = r] /\ Handled(t, {k})
    BY <1>2, <1>9 DEF CompleteKeepAlive, AtStep
  <2>2. s \in HttpSessionType /\ HttpSessionOK(s, sentTo[c]) /\ HttpNumbered(s, sentTo[c])
    BY <1>1, <1>3, <1>9, HttpSessionFields DEF HttpConn, HttpSessionSound, HttpSessionOK
  <2>3. s.processing /\ ~s.streaming /\ HttpTaken(s) = Len(answers[c])
    BY <1>2, <1>3, <1>4, <1>9, <2>2 DEF HttpConn, HttpHandlers, HttpWorking, HttpSessionOK
  <2>4. /\ s0 \in HttpSessionType /\ s0.processing = FALSE /\ s0.pending = s.pending
        /\ s0.buffer = s.buffer /\ s0.requests = s.requests /\ s0.timer = s.timer /\ s0.gen = s.gen
        /\ s0.closing = s.closing /\ s0.streaming = s.streaming /\ s0.state = s.state
        /\ s0.client = s.client
    BY <2>2 DEF HttpSessionType
  <2> HIDE DEF s0
  <2>5. HttpNumbered(s0, sentTo[c]) /\ sentTo[c] \in Nat
    BY <1>1, <2>2, <2>4, HttpLimits DEF HttpNumbered, HttpShape
  <2>6. /\ r \in HttpSessionType /\ p.ok \in BOOLEAN
        /\ r.gen = s0.gen /\ r.timer = s0.timer /\ r.processing = s0.processing
        /\ r.streaming = s0.streaming /\ r.client = s0.client /\ r.state = s0.state
        /\ s0.closing => r = s0
        /\ HttpNumbered(r, sentTo[c])
        /\ ~s0.closing /\ r.buffer # <<>> => r.pending # <<>>
        /\ HttpTaken(r) = HttpTaken(s0)
    BY <2>4, <2>5, HttpParsedSound
  <2>7. AfterResponse(p) \in {"post", "refuse", "renew"} /\ (r.pending # <<>> => AfterResponse(p) # "renew")
    BY DEF AfterResponse
  <2>8. /\ k \in HttpTaskType /\ k.c = c /\ k.pc \in {"post", "refuse", "renew"}
        /\ r.pending # <<>> => k.pc \in {"post", "refuse"}
    <3> DEFINE pc == AfterResponse(p)
    <3>1. pc \in {"post", "refuse", "renew"} /\ (r.pending # <<>> => pc # "renew")
          /\ k = [t EXCEPT !.pc = pc]
      BY <2>7
    <3> HIDE DEF pc, k, r
    <3>2. k \in HttpTaskType /\ k.c = t.c /\ k.pc = pc
      BY <1>3, <3>1 DEF HttpTaskType
    <3> QED BY <1>2, <3>1, <3>2
  <2> HIDE DEF p, r, k
  <2>9. /\ steps' \subseteq HttpTaskType
        /\ \A u \in steps' : u.pc = "install" => u.gen # 0
        /\ \A u \in steps' : (u \in steps /\ u # t) \/ u = k
        /\ \A u \in steps : u # t => u \in steps'
        /\ k \in steps'
    BY <1>1, <2>1, <2>8 DEF Handled, HttpShape
  <2>10. session'[c] = r /\ \A d \in Conns \ {c} : session'[d] = session[d]
    BY <1>1, <2>1 DEF HttpShape
  <2>11. HttpShape'
    BY <1>1, <1>4, <2>1, <2>6, <2>9 DEF HttpShape
  <2>12. \A d \in Conns \ {c} : HttpSame(d)
    BY <1>2, <1>4, <2>8, <2>9, <2>10 DEF HttpSame
  <2>13. HttpSessionSound(c)'
    <3>1. r.buffer # <<>> => r.pending # <<>>
      BY <2>4, <2>5, <2>6 DEF HttpNumbered
    <3>2. HttpSessionOK(r, sentTo[c])
      BY <2>2, <2>3, <2>4, <2>6, <3>1 DEF HttpSessionOK
    <3> QED BY <3>2, <1>4, <2>10 DEF HttpSessionSound
  <2>14. HttpHandlers(c)'
    <3>1. HttpHandlers(c)
      BY <1>3 DEF HttpConn
    <3>2. \A u \in steps' : u.c = c => u.pc \notin HttpWorking
      BY <1>2, <1>4, <2>8, <2>9, <3>1 DEF HttpHandlers, HttpWorking
    <3>3. HttpTaken(r) = Len(answers[c])
      BY <2>3, <2>4, <2>6 DEF HttpTaken
    <3> QED BY <1>4, <2>10, <3>2, <3>3 DEF HttpHandlers, HttpWorking
  <2>15. HttpProgress(c)'
    BY <2>4, <2>6, <2>8, <2>9, <2>10 DEF HttpProgress, HttpResumes
  <2>16. HttpTimed(c)'
    BY <1>4, <1>6, <1>9, <2>4, <2>6, <2>9, <2>10 DEF HttpTimed
  <2>17. HttpOwned(c)'
    BY <1>4, <1>5, <2>4, <2>6, <2>9, <2>10, HttpFieldTypes DEF HttpOwned
  <2>18. HttpConn(c)'
    BY <1>7, <2>13, <2>14, <2>15, <2>16, <2>17 DEF HttpConn
  <2> QED BY <2>11, <2>12, <2>18, HttpOnlyConn
<1> QED BY <1>8, <1>9

\* A response, or a socket that does not take it: HandleHttpRequest and the
\* streams that are rejected.
LEMMA HttpAnswered ==
    ASSUME HttpInv, NEW t \in steps, NEW last \in BOOLEAN, t.pc = "handle",
           Send(t.c, t.req.n, last),
           IF SendTook(t.c) /\ ~last THEN AtStep(t, "complete") ELSE Finish(t),
           UNCHANGED <<server, session, sentTo, timers, attached, broken, unarmed>>
    PROVE  HttpInv'
<1>1. HttpShape
  BY DEF HttpInv
<1>2. PICK c \in Conns : c = t.c
  BY <1>1 DEF HttpShape, HttpTaskType
<1>3. HttpConn(c) /\ t \in HttpTaskType /\ t.req.n \in Nat
  BY <1>1 DEF HttpInv, HttpShape, HttpTaskType, HttpRequestType
<1> DEFINE k == [t EXCEPT !.pc = "complete"]
<1>4. k \in HttpTaskType /\ k.c = c /\ k.pc = "complete"
  BY <1>2, <1>3, HttpAtStepTask
<1> HIDE DEF k
<1>5. HttpOwned(c) /\ ~HttpDetaches(t)
  BY <1>3 DEF HttpConn, HttpDetaches
<1>6. HttpTimed(c) /\ \A g : ~HttpRenews(t, g)
  BY <1>3 DEF HttpConn, HttpRenews
<1>7. HttpHandlers(c) /\ t.req.n = Len(answers[c]) + 1
      /\ (\A u \in steps : (u.c = c /\ u.pc \in HttpWorking) => u = t)
      /\ (session[c].open => session[c].processing /\ HttpTaken(session[c]) = Len(answers[c]) + 1)
  BY <1>2, <1>3 DEF HttpConn, HttpHandlers, HttpWorking
<1>8. CASE wire[c] = "open" /\ answers' = [answers EXCEPT ![c] = Append(@, t.req.n)]
           /\ wire' = [wire EXCEPT ![c] = IF last THEN "flush" ELSE "open"]
  <2>1. answers[c] \in Seq(Nat) /\ Len(answers[c]) \in Nat
    BY <1>1 DEF HttpShape
  <2>2. /\ Append(answers[c], t.req.n) \in Seq(Nat)
        /\ Len(Append(answers[c], t.req.n)) = Len(answers[c]) + 1
        /\ \A i \in 1 .. Len(answers[c]) : Append(answers[c], t.req.n)[i] = answers[c][i]
        /\ Append(answers[c], t.req.n)[Len(answers[c]) + 1] = t.req.n
    BY <1>3, <2>1
  <2>3. answers'[c] = Append(answers[c], t.req.n) /\ answers' \in [Conns -> Seq(Nat)]
        /\ \A d \in Conns \ {c} : answers'[d] = answers[d]
    BY <1>1, <1>8, <2>2 DEF HttpShape
  <2>4. answers'[c] # answers[c]
    BY <2>1, <2>2, <2>3
  <2>5. wire' \in [Conns -> {"idle", "open", "flush", "closing", "closed"}]
        /\ wire'[c] \in {"flush", "open"} /\ (last => wire'[c] # "open")
        /\ \A d \in Conns \ {c} : wire'[d] = wire[d]
    BY <1>1, <1>8 DEF HttpShape
  <2>6. IF ~last THEN Handled(t, {k}) ELSE Handled(t, {})
    BY <1>2, <2>4 DEF SendTook, AtStep, Finish, k
  <2>7. /\ steps' \subseteq HttpTaskType
        /\ \A u \in steps' : u.pc = "install" => u.gen # 0
        /\ \A u \in steps' : (u \in steps /\ u # t) \/ u = k
        /\ \A u \in steps : u # t => u \in steps'
        /\ ~last => k \in steps'
    BY <1>1, <1>4, <2>6 DEF Handled, HttpShape
  <2>8. HttpShape'
    BY <1>1, <2>3, <2>5, <2>7 DEF HttpShape
  <2>9. \A d \in Conns \ {c} : HttpSame(d)
    BY <1>2, <1>4, <2>3, <2>5, <2>7 DEF HttpSame
  <2>10. HttpSessionSound(c)'
    BY <1>3 DEF HttpConn, HttpSessionSound
  <2>11. HttpUnused(c)'
    BY <2>5 DEF HttpUnused
  <2>12. HttpHandlers(c)'
    <3>1. \A u \in steps' : (u.c = c /\ u.pc \in HttpWorking) => u = k
      BY <1>7, <2>7
    <3>2. Len(answers'[c]) = Len(answers[c]) + 1
      BY <2>2, <2>3
    <3> QED BY <1>4, <1>7, <3>1, <3>2 DEF HttpHandlers, HttpWorking
  <2>13. HttpProgress(c)'
    BY <1>4, <1>7, <2>5, <2>7 DEF HttpProgress
  <2>14. HttpTimed(c)'
    BY <1>6, <1>8, <2>5, <2>7 DEF HttpTimed
  <2>15. HttpOwned(c)'
    BY <1>5, <2>7 DEF HttpOwned
  <2>16. HttpInOrder(c)'
    BY <1>3, <1>7, <2>1, <2>2, <2>3 DEF HttpConn, HttpInOrder
  <2>17. HttpConn(c)'
    BY <2>10, <2>11, <2>12, <2>13, <2>14, <2>15, <2>16 DEF HttpConn
  <2> QED BY <2>8, <2>9, <2>17, HttpOnlyConn
<1>9. CASE CloseSocket(c) /\ UNCHANGED answers
  <2>1. /\ wire' \in [Conns -> {"idle", "open", "flush", "closing", "closed"}]
        /\ wire'[c] # "open" /\ (wire'[c] = "idle" <=> wire[c] = "idle")
        /\ \A d \in Conns : d # c => wire'[d] = wire[d]
    BY <1>1, <1>9, HttpCloseSocket
  <2>2. Handled(t, {})
    BY <1>9 DEF SendTook, Finish
  <2>3. /\ steps' \subseteq HttpTaskType
        /\ \A u \in steps' : u.pc = "install" => u.gen # 0
        /\ \A u \in steps' : u \in steps /\ u # t
        /\ \A u \in steps : u # t => u \in steps'
    BY <1>1, <2>2 DEF Handled, HttpShape
  <2>4. HttpShape'
    BY <1>1, <1>9, <2>1, <2>3 DEF HttpShape
  <2>5. \A d \in Conns \ {c} : HttpSame(d)
    BY <1>2, <1>9, <2>1, <2>3 DEF HttpSame
  <2>6. HttpSessionSound(c)' /\ HttpUnused(c)' /\ HttpInOrder(c)'
    BY <1>3, <1>9, <2>1, <2>3 DEF HttpConn, HttpSessionSound, HttpUnused, HttpInOrder
  <2>7. HttpHandlers(c)'
    BY <1>7, <1>9, <2>3 DEF HttpHandlers
  <2>8. HttpProgress(c)' /\ HttpTimed(c)'
    BY <2>1 DEF HttpProgress, HttpTimed
  <2>9. HttpOwned(c)'
    BY <1>5, <2>3 DEF HttpOwned
  <2>10. HttpConn(c)'
    BY <2>6, <2>7, <2>8, <2>9 DEF HttpConn
  <2> QED BY <2>4, <2>5, <2>10, HttpOnlyConn
<1> QED BY <1>2, <1>8, <1>9 DEF Send

\* Ordinary requests and rejected streams.
LEMMA HttpHandleHttpRequest ==
    ASSUME HttpInv, NEW t \in steps, HandleHttpRequest(t) \/ RejectStream(t)
    PROVE  HttpInv'
<1>1. t.req.last \in BOOLEAN
  BY DEF HttpInv, HttpShape, HttpTaskType, HttpRequestType
<1>2. CASE HandleHttpRequest(t)
  BY <1>1, <1>2, HttpAnswered DEF HandleHttpRequest
<1>3. CASE RejectStream(t)
  <2>1. IF SendTook(t.c) /\ ~TRUE THEN AtStep(t, "complete") ELSE Finish(t)
    BY <1>3 DEF RejectStream
  <2>2. t.pc = "handle" /\ Send(t.c, t.req.n, TRUE)
        /\ UNCHANGED <<server, session, sentTo, timers, attached, broken, unarmed>>
    BY <1>3 DEF RejectStream
  <2>3. TRUE \in BOOLEAN
    OBVIOUS
  <2> QED BY <2>1, <2>2, <2>3, HttpAnswered
<1> QED BY <1>2, <1>3

\* A task that neither works for the requests nor for the timeout goes on.
LEMMA HttpTaskMoves ==
    ASSUME HttpInv, NEW t \in steps, NEW c \in Conns, c = t.c,
           NEW k \in HttpTaskType, k.c = c, k.pc \notin {"install", "handle", "complete"},
           t.pc \notin {"renew", "install", "post", "refuse", "complete"},
           t.pc = "handle" => ~session[c].open, Handled(t, {k}),
           UNCHANGED <<server, wire, session, sentTo, timers, answers, unarmed>>,
           attached' \subseteq Conns,
           \A d \in Conns \ {c} : d \in attached' <=> d \in attached,
           c \in attached' => \/ session[c].open /\ session[c].client
                              \/ HttpDetaches(k) \/ (c \in attached /\ ~HttpDetaches(t))
    PROVE  HttpInv'
<1>1. HttpShape /\ HttpConn(c)
  BY DEF HttpInv
<1>2. /\ steps' \subseteq HttpTaskType
      /\ \A u \in steps' : u.pc = "install" => u.gen # 0
      /\ \A u \in steps' : (u \in steps /\ u # t) \/ u = k
      /\ \A u \in steps : u # t => u \in steps'
      /\ k \in steps'
  BY <1>1 DEF Handled, HttpShape
<1>3. HttpShape'
  BY <1>1, <1>2 DEF HttpShape
<1>4. \A d \in Conns \ {c} : HttpSame(d)
  BY <1>2 DEF HttpSame
<1>5. HttpSessionSound(c)' /\ HttpInOrder(c)'
  BY <1>1 DEF HttpConn, HttpSessionSound, HttpInOrder
<1>6. HttpUnused(c)'
  BY <1>1 DEF HttpConn, HttpUnused
<1>7. HttpHandlers(c)'
  <2>1. HttpHandlers(c) /\ \A u \in steps' : u.pc \in HttpWorking => u \in steps
    BY <1>1, <1>2 DEF HttpConn, HttpWorking
  <2> QED BY <2>1 DEF HttpHandlers, HttpWorking
<1>8. HttpProgress(c)'
  <2>1. HttpProgress(c) /\ ~HttpResumes(t)
    BY <1>1 DEF HttpConn, HttpResumes
  <2> QED BY <1>2, <2>1 DEF HttpProgress
<1>9. HttpTimed(c)'
  <2>1. HttpTimed(c) /\ \A g : ~HttpRenews(t, g)
    BY <1>1 DEF HttpConn, HttpRenews
  <2> QED BY <1>2, <2>1 DEF HttpTimed
<1>10. HttpOwned(c)'
  BY <1>1, <1>2 DEF HttpConn, HttpOwned
<1>11. HttpConn(c)'
  BY <1>5, <1>6, <1>7, <1>8, <1>9, <1>10 DEF HttpConn
<1> QED BY <1>3, <1>4, <1>11, HttpOnlyConn

\* BeginStream: the request is answered by a stream, if the session is still there.
LEMMA HttpBeginStream ==
    ASSUME HttpInv, NEW t \in steps, t.pc = "handle", BeginStream(t),
           UNCHANGED <<server, wire, sentTo, timers, attached, broken, unarmed>>
    PROVE  HttpInv'
<1>1. HttpShape
  BY DEF HttpInv
<1>2. PICK c \in Conns : c = t.c
  BY <1>1 DEF HttpShape, HttpTaskType
<1>3. HttpConn(c) /\ t \in HttpTaskType /\ t.req.n \in Nat
  BY <1>1 DEF HttpInv, HttpShape, HttpTaskType, HttpRequestType
<1> DEFINE s == session[c]
<1>4. HttpOwned(c) /\ ~HttpDetaches(t)
  BY <1>3 DEF HttpConn, HttpDetaches
<1>5. CASE ~s.open
  <2> DEFINE k == [t EXCEPT !.pc = "closed"]
  <2>1. k \in HttpTaskType /\ k.c = c /\ k.pc = "closed"
    BY <1>2, <1>3, HttpAtStepTask
  <2>2. Handled(t, {k}) /\ UNCHANGED <<session, answers>>
    BY <1>2, <1>5 DEF BeginStream, AtStep
  <2> HIDE DEF k
  <2>3. attached' \subseteq Conns
    BY <1>1 DEF HttpShape
  <2> QED BY <1>2, <1>4, <1>5, <2>1, <2>2, <2>3, HttpTaskMoves
<1>6. CASE s.open
  <2> DEFINE r == BegunStream(s)
             k == [t EXCEPT !.pc = "start"]
  <2>1. s \in HttpSessionType /\ HttpSessionOK(s, sentTo[c]) /\ s.gen \in Nat /\ s.requests \in Nat
    <3>1. s \in HttpSessionType
      BY <1>1, <1>6, HttpSessionFields
    <3> QED BY <1>3, <1>6, <3>1, HttpFieldTypes DEF HttpConn, HttpSessionSound
  <2>2. /\ s.processing /\ t.req.n = Len(answers[c]) + 1
        /\ (\A u \in steps : (u.c = c /\ u.pc \in HttpWorking) => u = t)
    BY <1>2, <1>3, <1>6 DEF HttpConn, HttpHandlers, HttpWorking
  <2>3. ~s.streaming /\ ~s.client
    BY <2>1, <2>2 DEF HttpSessionOK
  <2>4. /\ session' = [session EXCEPT ![c] = r]
        /\ answers' = [answers EXCEPT ![c] = Append(@, t.req.n)] /\ Handled(t, {k})
    BY <1>2, <1>6, <2>2, <2>3 DEF BeginStream, AtStep
  <2>5. k \in HttpTaskType /\ k.c = c /\ k.pc = "start"
    BY <1>2, <1>3, HttpAtStepTask
  <2>6. /\ r \in HttpSessionType /\ r.streaming = TRUE /\ r.closing = TRUE /\ r.pending = <<>> /\ r.buffer = <<>>
        /\ r.processing = FALSE /\ r.client = FALSE /\ r.state = "opening" /\ r.requests = s.requests
        /\ r.gen = s.gen + 1 /\ r.timer = s.timer
    <3> DEFINE g == s.gen + 1
    <3>1. g \in Nat /\ <<>> \in Seq(HttpRequestType)
      BY <2>1
    <3>2. r = [s EXCEPT !.processing = FALSE, !.closing = TRUE, !.streaming = TRUE,
                        !.state = "opening", !.client = FALSE, !.pending = <<>>,
                        !.buffer = <<>>, !.gen = g]
      BY DEF BegunStream
    <3> HIDE DEF g, r
    <3>3. r \in HttpSessionType
      BY <2>1, <3>1, <3>2 DEF HttpSessionType
    <3>4. /\ r.streaming = TRUE /\ r.closing = TRUE /\ r.pending = <<>> /\ r.buffer = <<>>
          /\ r.processing = FALSE /\ r.client = FALSE /\ r.state = "opening" /\ r.requests = s.requests
          /\ r.gen = g /\ r.timer = s.timer
      BY <2>1, <3>2 DEF HttpSessionType
    <3> QED BY <3>3, <3>4 DEF g
  <2> HIDE DEF r, k
  <2>7. answers[c] \in Seq(Nat) /\ Len(answers[c]) \in Nat
    BY <1>1 DEF HttpShape
  <2>8. /\ Append(answers[c], t.req.n) \in Seq(Nat)
        /\ Len(Append(answers[c], t.req.n)) = Len(answers[c]) + 1
        /\ \A i \in 1 .. Len(answers[c]) : Append(answers[c], t.req.n)[i] = answers[c][i]
        /\ Append(answers[c], t.req.n)[Len(answers[c]) + 1] = t.req.n
    BY <1>3, <2>7
  <2>9. answers'[c] = Append(answers[c], t.req.n) /\ answers' \in [Conns -> Seq(Nat)]
        /\ \A d \in Conns \ {c} : answers'[d] = answers[d]
    BY <1>1, <2>4, <2>8 DEF HttpShape
  <2>10. session'[c] = r /\ \A d \in Conns \ {c} : session'[d] = session[d]
    BY <1>1, <2>4 DEF HttpShape
  <2>11. /\ steps' \subseteq HttpTaskType
         /\ \A u \in steps' : u.pc = "install" => u.gen # 0
         /\ \A u \in steps' : (u \in steps /\ u # t) \/ u = k
         /\ \A u \in steps : u # t => u \in steps'
         /\ k \in steps'
    BY <1>1, <2>4, <2>5 DEF Handled, HttpShape
  <2>12. HttpShape'
    BY <1>1, <2>4, <2>6, <2>9, <2>11 DEF HttpShape
  <2>13. \A d \in Conns \ {c} : HttpSame(d)
    BY <1>2, <2>5, <2>9, <2>10, <2>11 DEF HttpSame
  <2>14. HttpSessionSound(c)'
    <3>1. s.timer \in Nat /\ s.timer <= s.gen /\ Len(s.buffer) \in Nat
          /\ s.requests + Len(s.buffer) <= sentTo[c] /\ sentTo[c] \in Nat
      <4>1. s.timer \in Nat /\ Len(s.buffer) \in Nat
        BY <2>1, HttpFieldTypes
      <4>2. s.timer <= s.gen /\ s.requests + Len(s.buffer) <= sentTo[c]
        BY <2>1 DEF HttpSessionOK, HttpNumbered
      <4>3. sentTo[c] \in Nat
        BY <1>1, HttpLimits DEF HttpShape
      <4> QED BY <4>1, <4>2, <4>3
    <3>2. Len(r.pending) = 0 /\ Len(r.buffer) = 0
      BY <2>6
    <3>3. r.timer <= r.gen /\ Len(r.pending) <= r.requests /\ r.requests + Len(r.buffer) <= sentTo[c]
      BY <2>1, <2>6, <3>1, <3>2
    <3>4. HttpNumbered(r, sentTo[c])
      BY <2>6, <3>2, <3>3 DEF HttpNumbered
    <3>5. HttpSessionOK(r, sentTo[c])
      BY <2>6, <3>3, <3>4 DEF HttpSessionOK
    <3> QED BY <3>5, <2>10 DEF HttpSessionSound
  <2>15. HttpUnused(c)'
    BY <1>2, <1>3 DEF HttpConn, HttpUnused
  <2>16. HttpHandlers(c)'
    <3>1. \A u \in steps' : u.c = c => u.pc \notin HttpWorking
      BY <2>2, <2>5, <2>11 DEF HttpWorking
    <3> QED BY <2>6, <2>10, <3>1 DEF HttpHandlers, HttpWorking
  <2>17. HttpProgress(c)' /\ HttpTimed(c)'
    BY <2>6, <2>10 DEF HttpProgress, HttpTimed
  <2>18. HttpOwned(c)'
    BY <1>4, <2>3, <2>11 DEF HttpOwned
  <2>19. HttpInOrder(c)'
    BY <1>3, <2>2, <2>7, <2>8, <2>9 DEF HttpConn, HttpInOrder
  <2>20. HttpConn(c)'
    BY <2>14, <2>15, <2>16, <2>17, <2>18, <2>19 DEF HttpConn
  <2> QED BY <2>12, <2>13, <2>20, HttpOnlyConn
<1> QED BY <1>5, <1>6

\* MarkStreamClosing keeps a session sound.
LEMMA HttpMarkedSound ==
    ASSUME HttpInv, NEW c \in Conns, UNCHANGED <<sentTo, answers>>,
           session' = [session EXCEPT ![c] = IF @.open THEN MarkedClosing(@) ELSE @]
    PROVE  /\ session' \in [Conns -> {NoSession} \cup HttpSessionType]
           /\ \A d \in Conns : d # c => session'[d] = session[d]
           /\ HttpSessionSound(c)'
           /\ session'[c].open = session[c].open
           /\ session[c].open => /\ session'[c].processing = session[c].processing
                                 /\ session'[c].streaming = session[c].streaming
                                 /\ session'[c].client = session[c].client
                                 /\ HttpTaken(session'[c]) = HttpTaken(session[c])
<1> DEFINE s == session[c]
           r == MarkedClosing(s)
<1>1. HttpShape /\ HttpSessionSound(c)
  BY DEF HttpInv, HttpConn
<1>2. CASE ~s.open
  <2>1. session'[c] = s /\ session' \in [Conns -> {NoSession} \cup HttpSessionType]
        /\ \A d \in Conns : d # c => session'[d] = session[d]
    BY <1>1, <1>2 DEF HttpShape
  <2> QED BY <1>1, <1>2, <2>1 DEF HttpSessionSound
<1>3. CASE s.open
  <2>1. s \in HttpSessionType /\ HttpSessionOK(s, sentTo[c]) /\ s.gen \in Nat /\ s.timer \in Nat
    <3>1. s \in HttpSessionType
      BY <1>1, <1>3, HttpSessionFields
    <3> QED BY <1>1, <1>3, <3>1, HttpFieldTypes DEF HttpSessionSound
  <2>2. /\ r \in HttpSessionType /\ r.open = s.open /\ r.processing = s.processing /\ r.streaming = s.streaming
        /\ r.client = s.client /\ r.pending = s.pending /\ r.buffer = s.buffer /\ r.timer = s.timer
        /\ r.requests = s.requests /\ r.closing = s.closing
        /\ r.gen \in Nat /\ r.gen >= s.gen /\ (r.state = "none" <=> s.state = "none")
    <3>1. CASE ~s.streaming
      BY <2>1, <3>1 DEF MarkedClosing
    <3>2. CASE s.streaming
      <4> DEFINE g == s.gen + 1
      <4>1. g \in Nat /\ g >= s.gen /\ r = [s EXCEPT !.state = "closing", !.closing = TRUE, !.gen = g]
        BY <2>1, <3>2 DEF MarkedClosing
      <4>2. s.closing = TRUE /\ s.state # "none"
        <5>1. s.closing /\ s.state # "none"
          BY <2>1, <3>2 DEF HttpSessionOK
        <5> QED BY <2>1, <5>1, HttpFieldTypes
      <4> HIDE DEF g, r
      <4>3. r \in HttpSessionType
        BY <2>1, <4>1 DEF HttpSessionType
      <4>4. /\ r.open = s.open /\ r.processing = s.processing /\ r.streaming = s.streaming
            /\ r.client = s.client /\ r.pending = s.pending /\ r.buffer = s.buffer /\ r.timer = s.timer
            /\ r.requests = s.requests /\ r.closing = TRUE /\ r.gen = g /\ r.state = "closing"
        BY <2>1, <4>1 DEF HttpSessionType
      <4> QED BY <4>1, <4>2, <4>3, <4>4
    <3> QED BY <3>1, <3>2
  <2>3. session' = [session EXCEPT ![c] = r]
    BY <1>3
  <2> HIDE DEF r
  <2>4. session'[c] = r /\ session' \in [Conns -> {NoSession} \cup HttpSessionType]
        /\ \A d \in Conns : d # c => session'[d] = session[d]
    BY <1>1, <2>2, <2>3 DEF HttpShape
  <2>5. r.timer <= r.gen
    <3>1. s.timer <= s.gen
      BY <2>1 DEF HttpSessionOK
    <3> QED BY <2>1, <2>2, <3>1
  <2>6. HttpSessionOK(r, sentTo[c])
    BY <2>1, <2>2, <2>5 DEF HttpSessionOK, HttpNumbered
  <2>7. HttpTaken(r) = HttpTaken(s)
    BY <2>2 DEF HttpTaken
  <2> QED BY <2>2, <2>4, <2>6, <2>7 DEF HttpSessionSound
<1> QED BY <1>2, <1>3

\* A stream ends: the session is marked and the socket closed.
LEMMA HttpStreamEnds ==
    ASSUME HttpInv, NEW c \in Conns, CloseSocket(c),
           session' = [session EXCEPT ![c] = IF @.open THEN MarkedClosing(@) ELSE @],
           UNCHANGED <<server, sentTo, timers, answers, unarmed>>,
           steps' \subseteq HttpTaskType, \A u \in steps' : u.pc = "install" => u.gen # 0,
           \A u \in steps' : (u.c # c \/ u.pc \in HttpWorking) => u \in steps,
           \A u \in steps : (u.c # c \/ HttpDetaches(u)) => u \in steps',
           \A u \in steps' : u.c = c => \E v \in steps : v.c = c,
           attached' \subseteq attached, \A d \in Conns : d # c => (d \in attached' <=> d \in attached)
    PROVE  HttpInv'
<1>1. HttpShape /\ HttpConn(c)
  BY DEF HttpInv
<1>2. /\ wire' \in [Conns -> {"idle", "open", "flush", "closing", "closed"}]
      /\ wire'[c] # "open" /\ (wire'[c] = "idle" <=> wire[c] = "idle")
      /\ \A d \in Conns : d # c => wire'[d] = wire[d]
  BY <1>1, HttpCloseSocket
<1>3. UNCHANGED <<sentTo, answers>>
  OBVIOUS
<1>4. /\ session' \in [Conns -> {NoSession} \cup HttpSessionType]
      /\ \A d \in Conns : d # c => session'[d] = session[d]
      /\ HttpSessionSound(c)'
      /\ session'[c].open = session[c].open
      /\ session[c].open => /\ session'[c].processing = session[c].processing
                            /\ session'[c].streaming = session[c].streaming
                            /\ session'[c].client = session[c].client
                            /\ HttpTaken(session'[c]) = HttpTaken(session[c])
  BY <1>3, HttpMarkedSound
<1>5. HttpShape'
  BY <1>1, <1>2, <1>4 DEF HttpShape
<1>6. \A d \in Conns \ {c} : HttpSame(d)
  BY <1>2, <1>4 DEF HttpSame
<1>7. HttpUnused(c)'
  BY <1>1, <1>2, <1>4 DEF HttpConn, HttpUnused
<1>8. HttpHandlers(c)'
  <2>1. HttpHandlers(c)
    BY <1>1 DEF HttpConn
  <2> QED BY <1>4, <2>1 DEF HttpHandlers, HttpWorking
<1>9. HttpProgress(c)' /\ HttpTimed(c)'
  BY <1>2 DEF HttpProgress, HttpTimed
<1>10. HttpOwned(c)' /\ HttpInOrder(c)'
  BY <1>1, <1>4 DEF HttpConn, HttpOwned, HttpInOrder
<1>11. HttpConn(c)'
  BY <1>4, <1>7, <1>8, <1>9, <1>10 DEF HttpConn
<1> QED BY <1>5, <1>6, <1>11, HttpOnlyConn

\* The head of a stream is sent, or the stream ends.
LEMMA HttpStartStream ==
    ASSUME HttpInv, NEW t \in steps, StartStream(t)
    PROVE  HttpInv'
<1>1. HttpShape
  BY DEF HttpInv
<1>2. PICK c \in Conns : c = t.c
  BY <1>1 DEF HttpShape, HttpTaskType
<1>3. t \in HttpTaskType /\ t.pc = "start"
      /\ UNCHANGED <<server, sentTo, timers, attached, answers, broken, unarmed>>
  BY <1>1 DEF HttpShape, StartStream
<1>4. CASE AtStep(t, "attach") /\ UNCHANGED <<session, wire>>
  <2> DEFINE k == [t EXCEPT !.pc = "attach"]
  <2>1. k \in HttpTaskType /\ k.c = c /\ k.pc = "attach"
    BY <1>2, <1>3, HttpAtStepTask
  <2>2. Handled(t, {k})
    BY <1>4 DEF AtStep
  <2> HIDE DEF k
  <2>3. attached' \subseteq Conns /\ ~HttpDetaches(t)
    BY <1>1, <1>3 DEF HttpShape, HttpDetaches
  <2> QED BY <1>2, <1>3, <1>4, <2>1, <2>2, <2>3, HttpTaskMoves
<1>5. CASE /\ session' = [session EXCEPT ![c] = IF @.open THEN MarkedClosing(@) ELSE @]
           /\ CloseSocket(c) /\ AtStep(t, "closed")
  <2> DEFINE k == [t EXCEPT !.pc = "closed"]
  <2>1. k \in HttpTaskType /\ k.c = c /\ k.pc = "closed"
    BY <1>2, <1>3, HttpAtStepTask
  <2>2. Handled(t, {k})
    BY <1>5 DEF AtStep
  <2> HIDE DEF k
  <2>3. /\ steps' \subseteq HttpTaskType
        /\ \A u \in steps' : u.pc = "install" => u.gen # 0
        /\ \A u \in steps' : (u \in steps /\ u # t) \/ u = k
        /\ \A u \in steps : u # t => u \in steps'
    BY <1>1, <2>1, <2>2 DEF Handled, HttpShape
  <2>4. \A u \in steps' : (u.c # c \/ u.pc \in HttpWorking) => u \in steps
    BY <2>1, <2>3 DEF HttpWorking
  <2>5. \A u \in steps : (u.c # c \/ HttpDetaches(u)) => u \in steps'
    BY <1>2, <1>3, <2>3 DEF HttpDetaches
  <2>6. \A u \in steps' : u.c = c => \E v \in steps : v.c = c
    BY <1>2
  <2> QED BY <1>3, <1>5, <2>3, <2>4, <2>5, <2>6, HttpStreamEnds
<1> QED BY <1>2, <1>4, <1>5 DEF StartStream

\* MediaStreams takes the client, or refuses it.
LEMMA HttpAttachMediaClient ==
    ASSUME HttpInv, NEW t \in steps, AttachMediaClient(t)
    PROVE  HttpInv'
<1>1. HttpShape
  BY DEF HttpInv
<1>2. PICK c \in Conns : c = t.c
  BY <1>1 DEF HttpShape, HttpTaskType
<1>3. t \in HttpTaskType /\ t.pc = "attach" /\ ~HttpDetaches(t)
      /\ UNCHANGED <<server, wire, session, sentTo, timers, answers, broken, unarmed>>
  BY <1>1 DEF HttpShape, AttachMediaClient, HttpDetaches
<1> DEFINE h == [t EXCEPT !.pc = "hand"]
           k == [t EXCEPT !.pc = "closed"]
<1>4. h \in HttpTaskType /\ h.c = c /\ h.pc = "hand"
  BY <1>2, <1>3, HttpAtStepTask
<1>5. k \in HttpTaskType /\ k.c = c /\ k.pc = "closed"
  BY <1>2, <1>3, HttpAtStepTask
<1>6. \/ attached' = attached \cup {c} /\ Handled(t, {h})
      \/ UNCHANGED attached /\ Handled(t, {k})
      \/ UNCHANGED attached /\ Handled(t, {h})
  BY <1>2 DEF AttachMediaClient, AtStep
<1> HIDE DEF h, k
<1>7. attached' \subseteq Conns /\ HttpDetaches(h)
      /\ \A d \in Conns \ {c} : d \in attached' <=> d \in attached
  BY <1>1, <1>4, <1>6 DEF HttpShape, HttpDetaches
<1>8. CASE Handled(t, {h})
  BY <1>2, <1>3, <1>4, <1>7, <1>8, HttpTaskMoves
<1>9. CASE UNCHANGED attached /\ Handled(t, {k})
  BY <1>2, <1>3, <1>5, <1>7, <1>9, HttpTaskMoves
<1> QED BY <1>6, <1>8, <1>9

\* The session takes the client, or the handler detaches it again.
LEMMA HttpAttachStreamClient ==
    ASSUME HttpInv, NEW t \in steps, AttachStreamClient(t)
    PROVE  HttpInv'
<1>1. HttpShape
  BY DEF HttpInv
<1>2. PICK c \in Conns : c = t.c
  BY <1>1 DEF HttpShape, HttpTaskType
<1>3. t \in HttpTaskType /\ t.pc = "hand" /\ HttpConn(c)
      /\ UNCHANGED <<server, wire, sentTo, timers, answers, broken, unarmed>>
  BY <1>1 DEF HttpInv, HttpShape, AttachStreamClient
<1> DEFINE s == session[c]
<1>4. CASE ~Attachable(s, t.req.kind)
  <2> DEFINE k == [t EXCEPT !.pc = "closed"]
  <2>1. k \in HttpTaskType /\ k.c = c /\ k.pc = "closed"
    BY <1>2, <1>3, HttpAtStepTask
  <2>2. Handled(t, {k}) /\ attached' = attached \ {c} /\ UNCHANGED session
    BY <1>2, <1>4 DEF AttachStreamClient, AtStep, Detach
  <2> HIDE DEF k
  <2>3. attached' \subseteq Conns
    BY <1>1, <2>2 DEF HttpShape
  <2> QED BY <1>2, <1>3, <2>1, <2>2, <2>3, HttpTaskMoves
<1>5. CASE Attachable(s, t.req.kind)
  <2> DEFINE r == [s EXCEPT !.client = TRUE, !.state = "attached"]
  <2>1. session' = [session EXCEPT ![c] = r] /\ Handled(t, {}) /\ UNCHANGED attached
    BY <1>2, <1>5 DEF AttachStreamClient, Finish
  <2>2. s \in HttpSessionType /\ HttpSessionOK(s, sentTo[c]) /\ s.open /\ s.streaming
    BY <1>1, <1>3, <1>5, HttpSessionFields DEF Attachable, HttpConn, HttpSessionSound
  <2>3. /\ r \in HttpSessionType /\ r.client = TRUE /\ r.state = "attached"
        /\ r.open = s.open /\ r.processing = s.processing /\ r.streaming = s.streaming
        /\ r.pending = s.pending /\ r.buffer = s.buffer /\ r.timer = s.timer
        /\ r.requests = s.requests /\ r.closing = s.closing /\ r.gen = s.gen
    BY <2>2 DEF HttpSessionType
  <2> HIDE DEF r
  <2>4. session'[c] = r /\ \A d \in Conns \ {c} : session'[d] = session[d]
    BY <1>1, <2>1 DEF HttpShape
  <2>5. /\ steps' \subseteq HttpTaskType
        /\ \A u \in steps' : u.pc = "install" => u.gen # 0
        /\ \A u \in steps' : u \in steps /\ u # t
        /\ \A u \in steps : u # t => u \in steps'
    BY <1>1, <2>1 DEF Handled, HttpShape
  <2>6. HttpShape'
    BY <1>1, <1>3, <2>1, <2>3, <2>5 DEF HttpShape
  <2>7. \A d \in Conns \ {c} : HttpSame(d)
    BY <1>2, <1>3, <2>1, <2>4, <2>5 DEF HttpSame
  <2>8. HttpSessionSound(c)'
    <3>1. HttpSessionOK(r, sentTo[c])
      BY <2>2, <2>3 DEF HttpSessionOK, HttpNumbered
    <3> QED BY <3>1, <1>3, <2>4 DEF HttpSessionSound
  <2>9. HttpUnused(c)'
    BY <1>2, <1>3 DEF HttpConn, HttpUnused
  <2>10. HttpHandlers(c)'
    <3>1. HttpHandlers(c) /\ HttpTaken(r) = HttpTaken(s)
      BY <1>3, <2>3 DEF HttpConn, HttpTaken
    <3> QED BY <1>3, <2>2, <2>3, <2>4, <2>5, <3>1 DEF HttpHandlers
  <2>11. HttpProgress(c)'
    <3>1. s.pending = <<>> /\ ~s.processing
      BY <2>2 DEF HttpSessionOK
    <3> QED BY <2>3, <2>4, <3>1 DEF HttpProgress
  <2>12. HttpTimed(c)' /\ HttpOwned(c)'
    BY <2>2, <2>3, <2>4 DEF HttpTimed, HttpOwned
  <2>13. HttpInOrder(c)'
    BY <1>3 DEF HttpConn, HttpInOrder
  <2>14. HttpConn(c)'
    BY <2>8, <2>9, <2>10, <2>11, <2>12, <2>13 DEF HttpConn
  <2> QED BY <2>6, <2>7, <2>14, HttpOnlyConn
<1> QED BY <1>4, <1>5

\* The handler gives up.
LEMMA HttpCloseStream ==
    ASSUME HttpInv, NEW t \in steps, CloseStream(t)
    PROVE  HttpInv'
<1>1. HttpShape
  BY DEF HttpInv
<1>2. PICK c \in Conns : c = t.c
  BY <1>1 DEF HttpShape, HttpTaskType
<1>3. /\ t.pc = "closed" /\ Handled(t, {}) /\ CloseSocket(c)
      /\ session' = [session EXCEPT ![c] = IF @.open THEN MarkedClosing(@) ELSE @]
      /\ UNCHANGED <<server, sentTo, timers, attached, answers, broken, unarmed>>
  BY <1>2 DEF CloseStream, Finish
<1>4. /\ steps' \subseteq HttpTaskType
      /\ \A u \in steps' : u.pc = "install" => u.gen # 0
      /\ \A u \in steps' : u \in steps
      /\ \A u \in steps : u # t => u \in steps'
  BY <1>1, <1>3 DEF Handled, HttpShape
<1>5. \A u \in steps : (u.c # c \/ HttpDetaches(u)) => u \in steps'
  BY <1>2, <1>3, <1>4 DEF HttpDetaches
<1>6. \A u \in steps' : u.c = c => \E v \in steps : v.c = c
  BY <1>2
<1> QED BY <1>3, <1>4, <1>5, <1>6, HttpStreamEnds

\* MediaStreams drops a client whose sink fails.
LEMMA HttpStreamWriteFails ==
    ASSUME HttpInv, NEW c \in Conns, StreamWriteFails(c)
    PROVE  HttpInv'
<1>1. /\ attached' = attached \ {c} /\ CloseSocket(c)
      /\ session' = [session EXCEPT ![c] = IF @.open THEN MarkedClosing(@) ELSE @]
      /\ UNCHANGED <<server, sentTo, steps, timers, answers, broken, unarmed>>
  BY DEF StreamWriteFails
<1>2. /\ steps' \subseteq HttpTaskType
      /\ \A u \in steps' : u.pc = "install" => u.gen # 0
  BY <1>1 DEF HttpInv, HttpShape
<1> QED BY <1>1, <1>2, HttpStreamEnds

\* Stop() closes a connection it took, and detaches its client.
LEMMA HttpShutSession ==
    ASSUME HttpInv, NEW t \in steps, ShutSession(t)
    PROVE  HttpInv'
<1>1. HttpShape
  BY DEF HttpInv
<1>2. PICK c \in Conns : c = t.c
  BY <1>1 DEF HttpShape, HttpTaskType
<1>3. /\ t.pc = "shut" /\ Handled(t, {}) /\ CloseSocket(c) /\ HttpConn(c)
      /\ attached' = IF t.req.n = 1 THEN attached \ {c} ELSE attached
      /\ UNCHANGED <<server, session, sentTo, timers, answers, broken, unarmed>>
  BY <1>2 DEF ShutSession, Finish, HttpInv
<1>4. /\ wire' \in [Conns -> {"idle", "open", "flush", "closing", "closed"}]
      /\ wire'[c] # "open" /\ (wire'[c] = "idle" <=> wire[c] = "idle")
      /\ \A d \in Conns : d # c => wire'[d] = wire[d]
  BY <1>1, <1>3, HttpCloseSocket
<1>5. /\ steps' \subseteq HttpTaskType
      /\ \A u \in steps' : u.pc = "install" => u.gen # 0
      /\ \A u \in steps' : u \in steps
      /\ \A u \in steps : u # t => u \in steps'
  BY <1>1, <1>3 DEF Handled, HttpShape
<1>6. HttpShape'
  BY <1>1, <1>3, <1>4, <1>5 DEF HttpShape
<1>7. \A d \in Conns \ {c} : HttpSame(d)
  BY <1>2, <1>3, <1>4, <1>5 DEF HttpSame
<1>8. HttpSessionSound(c)' /\ HttpUnused(c)' /\ HttpInOrder(c)'
  BY <1>3, <1>4, <1>5 DEF HttpConn, HttpSessionSound, HttpUnused, HttpInOrder
<1>9. HttpHandlers(c)'
  BY <1>3, <1>5 DEF HttpConn, HttpHandlers
<1>10. HttpProgress(c)' /\ HttpTimed(c)'
  BY <1>4 DEF HttpProgress, HttpTimed
<1>11. HttpOwned(c)'
  BY <1>3, <1>5 DEF HttpConn, HttpOwned, HttpDetaches
<1>12. HttpConn(c)'
  BY <1>8, <1>9, <1>10, <1>11 DEF HttpConn
<1> QED BY <1>6, <1>7, <1>12, HttpOnlyConn

\* Stop() takes every session at once.
LEMMA HttpStopServer ==
    ASSUME HttpInv, StopServer
    PROVE  HttpInv'
<1> DEFINE K(c) == Task("control", c, "shut", [NoRequest EXCEPT !.n = IF session[c].client THEN 1 ELSE 0])
           Opened == {d \in Conns : session[d].open}
<1>1. HttpShape /\ \A d \in Conns : HttpConn(d)
  BY DEF HttpInv
<1>2. /\ server' = "stopping" /\ steps' = steps \cup {K(c) : c \in Opened}
      /\ session' = [c \in Conns |-> NoSession]
      /\ timers' \subseteq timers
      /\ UNCHANGED <<wire, sentTo, attached, answers, broken, unarmed>>
  BY DEF StopServer
<1>3. ASSUME NEW c \in Conns
      PROVE  /\ K(c) \in HttpTaskType /\ K(c).c = c /\ K(c).pc = "shut"
             /\ session[c].client => K(c).req.n = 1
  <2> DEFINE n == IF session[c].client THEN 1 ELSE 0
             q == [NoRequest EXCEPT !.n = n]
  <2>1. n \in Nat /\ (session[c].client => n = 1)
    OBVIOUS
  <2> HIDE DEF n
  <2>2. q \in HttpRequestType /\ q.n = n
    BY <2>1 DEF NoRequest, HttpRequestType, Kinds
  <2>3. K(c) = Task("control", c, "shut", q)
    BY DEF n
  <2> HIDE DEF q, K
  <2> QED BY <2>1, <2>2, <2>3 DEF Task, HttpTaskType
<1> HIDE DEF K
<1>4. \A u \in steps' : u \in steps \/ \E c \in Opened : u = K(c)
  BY <1>2
<1>5. HttpShape'
  <2>1. steps' \subseteq HttpTaskType /\ \A u \in steps' : u.pc = "install" => u.gen # 0
    BY <1>1, <1>3, <1>4 DEF HttpShape
  <2> QED BY <1>1, <1>2, <2>1 DEF HttpShape
<1>6. ASSUME NEW d \in Conns PROVE HttpConn(d)'
  <2>1. HttpConn(d) /\ session'[d] = NoSession /\ NoSession.open = FALSE
    BY <1>1, <1>2 DEF NoSession
  <2>2. HttpSessionSound(d)' /\ HttpProgress(d)' /\ HttpTimed(d)'
    BY <2>1 DEF HttpSessionSound, HttpProgress, HttpTimed
  <2>3. HttpUnused(d)'
    <3>1. wire[d] = "idle" => d \notin Opened
      BY <2>1 DEF HttpConn, HttpUnused
    <3>2. \A u \in steps' : u.c = d => u \in steps \/ d \in Opened
      BY <1>3, <1>4
    <3> QED BY <1>2, <2>1, <3>1, <3>2 DEF HttpConn, HttpUnused
  <2>4. HttpHandlers(d)'
    <3>1. HttpHandlers(d) /\ \A u \in steps' : u.pc \in HttpWorking => u \in steps
      BY <1>3, <1>4, <2>1 DEF HttpConn, HttpWorking
    <3> QED BY <1>2, <2>1, <3>1 DEF HttpHandlers, HttpWorking
  <2>5. HttpOwned(d)'
    <3>1. HttpOwned(d) /\ steps \subseteq steps'
      BY <1>2, <2>1 DEF HttpConn
    <3>2. (session[d].open /\ session[d].client) => K(d) \in steps' /\ K(d).c = d /\ HttpDetaches(K(d))
      BY <1>2, <1>3 DEF HttpDetaches
    <3> QED BY <1>2, <3>1, <3>2 DEF HttpOwned
  <2>6. HttpInOrder(d)'
    BY <1>2, <2>1 DEF HttpConn, HttpInOrder
  <2> QED BY <2>2, <2>3, <2>4, <2>5, <2>6 DEF HttpConn
<1> QED BY <1>5, <1>6 DEF HttpInv

\* An executor's queue is discarded: the requests in it are gone, and what else
\* there is of their connections stays.
LEMMA HttpDiscard ==
    ASSUME HttpInv, server' \in {"control", "joining"}, NEW queued,
           \A t \in queued : t \in steps /\ t.pc = "handle", Discard(queued),
           UNCHANGED <<wire, sentTo, timers, attached, answers, unarmed>>
    PROVE  HttpInv'
<1> DEFINE Hit(gone, c) == session[c].open /\ \E t \in gone : t.c = c
           Lost(c) == [session[c] EXCEPT !.lost = TRUE]
<1>1. HttpShape /\ \A d \in Conns : HttpConn(d)
  BY DEF HttpInv
<1>2. PICK gone \in SUBSET queued :
        /\ steps' = steps \ gone
        /\ session' = [c \in Conns |-> IF Hit(gone, c) THEN Lost(c) ELSE session[c]]
  BY DEF Discard
<1>3. /\ \A u \in steps' : u \in steps
      /\ \A u \in steps : u.pc # "handle" => u \in steps'
      /\ \A u \in steps : u \in steps' \/ u \in gone
  BY <1>2
<1>4. ASSUME NEW c \in Conns, session[c].open
      PROVE  LET r == Lost(c) IN
             /\ r \in HttpSessionType /\ r.lost = TRUE /\ r.open = session[c].open
             /\ r.pending = session[c].pending /\ r.buffer = session[c].buffer
             /\ r.requests = session[c].requests /\ r.processing = session[c].processing
             /\ r.closing = session[c].closing /\ r.streaming = session[c].streaming
             /\ r.state = session[c].state /\ r.client = session[c].client
             /\ r.gen = session[c].gen /\ r.timer = session[c].timer
  <2>1. session[c] \in HttpSessionType
    BY <1>1, <1>4, HttpSessionFields
  <2> QED BY <2>1 DEF HttpSessionType
<1>5. ASSUME NEW c \in Conns
      PROVE  /\ (session'[c] = Lost(c) /\ session[c].open) \/ session'[c] = session[c]
             /\ Hit(gone, c) => session'[c] = Lost(c)
  BY <1>2
<1> HIDE DEF Lost
<1>6. HttpShape'
  <2>1. session' \in [Conns -> {NoSession} \cup HttpSessionType]
    <3>1. \A c \in Conns : (IF Hit(gone, c) THEN Lost(c) ELSE session[c]) \in {NoSession} \cup HttpSessionType
      BY <1>1, <1>4 DEF HttpShape
    <3> HIDE DEF Hit
    <3> QED BY <1>2, <3>1
  <2> QED BY <1>1, <1>3, <2>1 DEF HttpShape
<1>7. ASSUME NEW d \in Conns PROVE HttpConn(d)'
  <2>1. /\ HttpConn(d) /\ session'[d].open = session[d].open
        /\ session[d].open =>
            /\ session'[d].pending = session[d].pending /\ session'[d].buffer = session[d].buffer
            /\ session'[d].requests = session[d].requests
            /\ session'[d].processing = session[d].processing
            /\ session'[d].closing = session[d].closing
            /\ session'[d].streaming = session[d].streaming
            /\ session'[d].state = session[d].state /\ session'[d].client = session[d].client
            /\ session'[d].gen = session[d].gen /\ session'[d].timer = session[d].timer
            /\ session[d].lost => session'[d].lost
    <3>1. CASE session'[d] = session[d]
      BY <1>1, <3>1
    <3>2. CASE session'[d] = Lost(d) /\ session[d].open
      BY <1>1, <1>4, <3>2
    <3> QED BY <1>5, <3>1, <3>2
  <2>2. HttpSessionSound(d)'
    BY <2>1 DEF HttpConn, HttpSessionSound, HttpSessionOK, HttpNumbered
  <2>3. HttpUnused(d)' /\ HttpInOrder(d)'
    BY <1>3, <2>1 DEF HttpConn, HttpUnused, HttpInOrder
  <2>4. HttpHandlers(d)'
    <3>1. session[d].open => HttpTaken(session'[d]) = HttpTaken(session[d])
      BY <2>1 DEF HttpTaken
    <3> QED BY <1>3, <2>1, <3>1 DEF HttpConn, HttpHandlers
  <2>5. HttpProgress(d)'
    <3> SUFFICES ASSUME session'[d].open, wire'[d] = "open"
                 PROVE  /\ session'[d].processing =>
                              \/ session'[d].lost
                              \/ \E t \in steps' : t.c = d /\ t.pc \in {"handle", "complete", "refuse"}
                        /\ (~session'[d].processing /\ session'[d].pending # <<>>) =>
                              \E t \in steps' : t.c = d /\ HttpResumes(t)
      BY DEF HttpProgress
    <3>1. HttpProgress(d) /\ session[d].open /\ wire[d] = "open"
      BY <2>1 DEF HttpConn
    <3>2. ASSUME session[d].processing, ~session'[d].lost
          PROVE  \E t \in steps' : t.c = d /\ t.pc \in {"handle", "complete", "refuse"}
      <4>1. ~session[d].lost
        BY <2>1, <3>1, <3>2
      <4>2. PICK t \in steps : t.c = d /\ t.pc \in {"handle", "complete", "refuse"}
        BY <3>1, <3>2, <4>1 DEF HttpProgress
      <4>3. t \notin gone
        BY <1>4, <1>5, <3>1, <3>2, <4>2
      <4> QED BY <1>3, <4>2, <4>3
    <3>3. ASSUME ~session[d].processing, session[d].pending # <<>>
          PROVE  \E t \in steps' : t.c = d /\ HttpResumes(t)
      <4>1. PICK t \in steps : t.c = d /\ HttpResumes(t)
        BY <3>1, <3>3 DEF HttpProgress
      <4>2. t.pc # "handle"
        BY <4>1 DEF HttpResumes
      <4> QED BY <1>3, <4>1, <4>2
    <3> QED BY <2>1, <3>1, <3>2, <3>3
  <2>6. HttpTimed(d)'
    <3>1. \A u \in steps : (\E g : HttpRenews(u, g)) => u \in steps'
      BY <1>3 DEF HttpRenews
    <3> QED BY <2>1, <3>1 DEF HttpConn, HttpTimed
  <2>7. HttpOwned(d)'
    <3>1. \A u \in steps : HttpDetaches(u) => u \in steps'
      BY <1>3 DEF HttpDetaches
    <3> QED BY <2>1, <3>1 DEF HttpConn, HttpOwned
  <2> QED BY <2>2, <2>3, <2>4, <2>5, <2>6, <2>7 DEF HttpConn
<1> QED BY <1>6, <1>7 DEF HttpInv

\* Steps that only move the server's life, and steps of others.
LEMMA HttpStutters ==
    ASSUME HttpInv, server' \in {"off", "on", "stopping", "control", "joining"},
           UNCHANGED <<wire, session, sentTo, steps, timers, attached, answers, unarmed>>
    PROVE  HttpInv'
<1>1. HttpShape'
  BY DEF HttpInv, HttpShape
<1>2. ASSUME NEW d \in Conns PROVE HttpConn(d)'
  BY DEF HttpInv, HttpConn, HttpSessionSound, HttpUnused, HttpHandlers, HttpProgress, HttpTimed,
         HttpOwned, HttpInOrder
<1> QED BY <1>1, <1>2 DEF HttpInv

-----------------------------------------------------------------------------
(* The connections are served *)

\* The invariant holds before the server starts.
LEMMA HttpInitInv == HttpInit => HttpInv
<1> SUFFICES ASSUME HttpInit PROVE HttpInv
  OBVIOUS
<1> USE DEF HttpInit
<1>1. <<>> \in Seq(Nat) /\ Len(<<>>) = 0 /\ MaxRead \in Nat
  BY HttpLimits
<1>2. HttpShape
  BY <1>1 DEF HttpShape
<1>3. ASSUME NEW c \in Conns PROVE HttpConn(c)
  <2>1. session[c] = NoSession /\ NoSession.open = FALSE /\ answers[c] = <<>> /\ sentTo[c] = 0
    BY DEF NoSession
  <2> QED BY <2>1, <1>1 DEF HttpConn, HttpSessionSound, HttpUnused, HttpHandlers, HttpProgress, HttpTimed,
                            HttpOwned, HttpInOrder
<1> QED BY <1>2, <1>3 DEF HttpInv

\* Every step keeps the invariant.
LEMMA HttpNextPreserves ==
    ASSUME HttpInv, [HttpNext]_httpVars
    PROVE  HttpInv'
<1>0. server \in {"off", "on", "stopping", "control", "joining"}
  BY DEF HttpInv, HttpShape
<1>1. CASE UNCHANGED httpVars
  BY <1>0, <1>1, HttpStutters DEF httpVars
<1>2. CASE StartServer
  <2>1. server' \in {"off", "on", "stopping", "control", "joining"}
        /\ UNCHANGED <<wire, session, sentTo, steps, timers, attached, answers, unarmed>>
    BY <1>2 DEF StartServer
  <2> QED BY <2>1, HttpStutters
<1>3. CASE StopServer
  BY <1>3, HttpStopServer
<1>12. CASE StopControlExecutor
  BY <1>12, HttpDiscard DEF StopControlExecutor
<1>13. CASE StopStreamExecutor
  BY <1>13, HttpDiscard DEF StopStreamExecutor
<1>4. ASSUME NEW c \in Conns, OnConnection(c) \/ OnMessage(c) \/ OnTimer(c) PROVE HttpInv'
  BY <1>4, HttpOnConnection, HttpOnMessage, HttpOnTimer
<1>5. ASSUME NEW c \in Conns, OnClose(c) \/ StreamWriteFails(c) PROVE HttpInv'
  BY <1>5, HttpOnClose, HttpStreamWriteFails
<1>6. ASSUME NEW t \in steps, NotifyStreamClosed(t) \/ RenewTimeout(t) \/ InstallTimeout(t)
      PROVE  HttpInv'
  BY <1>6, HttpNotifyStreamClosed, HttpRenewTimeout, HttpInstallTimeout
<1>7. ASSUME NEW t \in steps, TryPostNextRequest(t) \/ RefuseRequest(t) \/ CompleteKeepAlive(t)
      PROVE  HttpInv'
  BY <1>7, HttpTryPostNextRequest, HttpRefuseRequest, HttpCompleteKeepAlive
<1>8. ASSUME NEW t \in steps, HandleHttpRequest(t) \/ RejectStream(t) PROVE HttpInv'
  BY <1>8, HttpHandleHttpRequest
<1>9. ASSUME NEW t \in steps,
             HandleFlvRequest(t) \/ HandleMjpegRequest(t) \/ HandleEventStreamRequest(t)
      PROVE  HttpInv'
  <2>1. t.pc = "handle" /\ BeginStream(t)
        /\ UNCHANGED <<server, wire, sentTo, timers, attached, broken, unarmed>>
    BY <1>9 DEF HandleFlvRequest, HandleMjpegRequest, HandleEventStreamRequest
  <2> QED BY <2>1, HttpBeginStream
<1>10. ASSUME NEW t \in steps, StartStream(t) \/ AttachMediaClient(t) \/ AttachStreamClient(t)
       PROVE  HttpInv'
  BY <1>10, HttpStartStream, HttpAttachMediaClient, HttpAttachStreamClient
<1>11. ASSUME NEW t \in steps, CloseStream(t) \/ ShutSession(t) PROVE HttpInv'
  BY <1>11, HttpCloseStream, HttpShutSession
<1> QED BY <1>1, <1>2, <1>3, <1>4, <1>5, <1>6, <1>7, <1>8, <1>9, <1>10, <1>11, <1>12, <1>13
  DEF HttpNext

\* A step of a connection keeps the history of its session.
HttpHistory ==
    \A c \in Conns : session'[c].open =>
        session[c].open /\ session'[c].late = session[c].late /\ session'[c].lost = session[c].lost

\* A step that changes one session keeps the history if it does for that one.
LEMMA HttpHistoryOne ==
    ASSUME HttpInv, NEW c \in Conns, NEW r, session' = [session EXCEPT ![c] = r],
           r.open => session[c].open /\ r.late = session[c].late /\ r.lost = session[c].lost
    PROVE  HttpHistory
<1>1. \A d \in Conns : session'[d] = IF d = c THEN r ELSE session[d]
  BY DEF HttpInv, HttpShape
<1> QED BY <1>1 DEF HttpHistory

\* MarkStreamClosing keeps the history.
LEMMA HttpHistoryMarked ==
    ASSUME HttpInv, NEW c \in Conns,
           session' = [session EXCEPT ![c] = IF @.open THEN MarkedClosing(@) ELSE @]
    PROVE  HttpHistory
<1> DEFINE s == session[c]
           r == IF s.open THEN MarkedClosing(s) ELSE s
<1>1. session' = [session EXCEPT ![c] = r]
  OBVIOUS
<1>2. CASE s.open
  <2>1. s \in HttpSessionType
    BY <1>2, HttpSessionFields DEF HttpInv
  <2>2. MarkedClosing(s).late = s.late /\ MarkedClosing(s).lost = s.lost
    BY <2>1 DEF MarkedClosing, HttpSessionType
  <2> QED BY <1>1, <1>2, <2>2, HttpHistoryOne
<1>3. CASE ~s.open
  BY <1>1, <1>3, HttpHistoryOne
<1> QED BY <1>2, <1>3

\* Every step of a connection that is there.
LEMMA HttpHistoryKept ==
    ASSUME HttpInv,
           \/ \E c \in Conns : OnMessage(c) \/ OnTimer(c) \/ OnClose(c) \/ StreamWriteFails(c)
           \/ \E t \in steps :
                \/ NotifyStreamClosed(t) \/ RenewTimeout(t) \/ InstallTimeout(t)
                \/ TryPostNextRequest(t) \/ RefuseRequest(t) \/ CompleteKeepAlive(t)
                \/ HandleHttpRequest(t) \/ RejectStream(t) \/ StartStream(t)
                \/ HandleFlvRequest(t) \/ HandleMjpegRequest(t) \/ HandleEventStreamRequest(t)
                \/ AttachMediaClient(t) \/ AttachStreamClient(t) \/ CloseStream(t)
                \/ ShutSession(t)
    PROVE  HttpHistory /\ server' = server
<1>0. HttpShape /\ \A t \in steps : t.c \in Conns
  BY DEF HttpInv, HttpShape, HttpTaskType
<1>u. UNCHANGED session => HttpHistory
  BY DEF HttpHistory
<1>s. ASSUME NEW c \in Conns, session[c].open
      PROVE  session[c] \in HttpSessionType /\ HttpSessionOK(session[c], sentTo[c])
  BY <1>0, <1>s, HttpSessionFields DEF HttpInv, HttpConn, HttpSessionSound
<1>1. ASSUME NEW c \in Conns, OnMessage(c) PROVE HttpHistory /\ server' = server
  <2> DEFINE s == session[c]
  <2>1. PICK bytes \in Sent(c) :
          /\ sentTo[c] + Len(bytes) <= MaxRead
          /\ LET p == Parsed([s EXCEPT !.buffer = @ \o bytes, !.gen = @ + 1])
             IN  IF ~s.open \/ s.closing \/ s.streaming THEN UNCHANGED session
                 ELSE session' = [session EXCEPT ![c] = p.s]
    BY <1>1 DEF OnMessage
  <2>2. CASE UNCHANGED session
    BY <1>1, <1>u, <2>2 DEF OnMessage
  <2>3. CASE s.open /\ ~s.closing
             /\ session' = [session EXCEPT ![c] = Parsed([s EXCEPT !.buffer = @ \o bytes, !.gen = @ + 1]).s]
    <3> DEFINE a == s.buffer \o bytes
               g == s.gen + 1
               s0 == [s EXCEPT !.buffer = a, !.gen = g]
               r == Parsed(s0).s
    <3>1. s \in HttpSessionType
      BY <1>s, <2>3
    <3> HIDE DEF a, g
    <3>2. s0.late = s.late /\ s0.lost = s.lost /\ s0.closing = s.closing
          /\ s0 = [s EXCEPT !.buffer = a, !.gen = g] /\ DOMAIN s0 = DOMAIN s
      BY <3>1 DEF HttpSessionType
    <3>3. r.late = s0.late /\ r.lost = s0.lost
      <4>1. "late" \in DOMAIN s0 /\ "lost" \in DOMAIN s0
        BY <3>1 DEF HttpSessionType
      <4> HIDE DEF s0
      <4> QED BY <2>3, <3>2, <4>1 DEF Parsed
    <3>4. session' = [session EXCEPT ![c] = r]
      BY <2>3 DEF a, g
    <3> HIDE DEF r, s0
    <3>5. r.open => s.open /\ r.late = s.late /\ r.lost = s.lost
      BY <2>3, <3>2, <3>3
    <3>6. HttpHistory
      BY <3>4, <3>5, HttpHistoryOne
    <3> QED BY <1>1, <3>6 DEF OnMessage
  <2> QED BY <2>1, <2>2, <2>3
<1>2. ASSUME NEW c \in Conns, OnTimer(c) PROVE HttpHistory /\ server' = server
  <2> DEFINE s == session[c]
             r == [s EXCEPT !.timer = 0]
  <2>1. UNCHANGED session \/ (s.open /\ session' = [session EXCEPT ![c] = r])
    BY <1>2 DEF OnTimer, Current
  <2>2. CASE s.open /\ session' = [session EXCEPT ![c] = r]
    <3>1. r.late = s.late /\ r.lost = s.lost
      BY <1>s, <2>2 DEF HttpSessionType
    <3> HIDE DEF r
    <3>2. HttpHistory
      BY <2>2, <3>1, HttpHistoryOne
    <3> QED BY <1>2, <3>2 DEF OnTimer
  <2> QED BY <1>2, <1>u, <2>1, <2>2 DEF OnTimer
<1>3. ASSUME NEW c \in Conns, OnClose(c) PROVE HttpHistory /\ server' = server
  <2>1. session' = [session EXCEPT ![c] = NoSession] /\ ~NoSession.open /\ server' = server
    BY <1>3 DEF OnClose, NoSession
  <2> QED BY <2>1, HttpHistoryOne
<1>4. ASSUME NEW c \in Conns, StreamWriteFails(c) PROVE HttpHistory /\ server' = server
  BY <1>4, HttpHistoryMarked DEF StreamWriteFails
<1>5. ASSUME NEW t \in steps,
             \/ NotifyStreamClosed(t) \/ RefuseRequest(t) \/ HandleHttpRequest(t)
             \/ RejectStream(t) \/ AttachMediaClient(t) \/ ShutSession(t)
      PROVE  HttpHistory /\ server' = server
  BY <1>5, <1>u DEF NotifyStreamClosed, RefuseRequest, HandleHttpRequest, RejectStream,
                    AttachMediaClient, ShutSession
<1>6. ASSUME NEW t \in steps, StartStream(t) \/ CloseStream(t) PROVE HttpHistory /\ server' = server
  <2>1. t.c \in Conns /\ server' = server
        /\ \/ UNCHANGED session
           \/ session' = [session EXCEPT ![t.c] = IF @.open THEN MarkedClosing(@) ELSE @]
    BY <1>0, <1>6 DEF StartStream, CloseStream
  <2> QED BY <1>u, <2>1, HttpHistoryMarked
<1>7. ASSUME NEW t \in steps, RenewTimeout(t) \/ InstallTimeout(t)
      PROVE  HttpHistory /\ server' = server
  <2> DEFINE s == session[t.c]
             a == [s EXCEPT !.timer = 0, !.gen = s.gen + 1]
             b == [s EXCEPT !.timer = t.gen]
  <2>1. /\ t.c \in Conns /\ server' = server
        /\ \/ UNCHANGED session
           \/ s.open /\ session' = [session EXCEPT ![t.c] = a]
           \/ s.open /\ session' = [session EXCEPT ![t.c] = b]
    BY <1>0, <1>7 DEF RenewTimeout, InstallTimeout
  <2>2. s.open => a.late = s.late /\ a.lost = s.lost /\ b.late = s.late /\ b.lost = s.lost
    BY <1>s, <2>1 DEF HttpSessionType
  <2> HIDE DEF a, b
  <2> QED BY <1>u, <2>1, <2>2, HttpHistoryOne
<1>8. ASSUME NEW t \in steps, TryPostNextRequest(t) PROVE HttpHistory /\ server' = server
  <2> DEFINE s == session[t.c]
             q == Tail(s.pending)
             r == [s EXCEPT !.pending = q, !.processing = TRUE]
  <2>1. /\ t.c \in Conns /\ server' = server
        /\ UNCHANGED session \/ (s.open /\ session' = [session EXCEPT ![t.c] = r])
    BY <1>0, <1>8 DEF TryPostNextRequest, CanTake
  <2> HIDE DEF q
  <2>2. s.open => r.late = s.late /\ r.lost = s.lost
    BY <1>s, <2>1 DEF HttpSessionType
  <2> HIDE DEF r
  <2> QED BY <1>u, <2>1, <2>2, HttpHistoryOne
<1>9. ASSUME NEW t \in steps, CompleteKeepAlive(t) PROVE HttpHistory /\ server' = server
  <2> DEFINE s == session[t.c]
             s0 == [s EXCEPT !.processing = FALSE]
             r == Parsed(s0).s
  <2>1. /\ t.c \in Conns /\ server' = server
        /\ UNCHANGED session \/ (s.open /\ session' = [session EXCEPT ![t.c] = r])
    BY <1>0, <1>9 DEF CompleteKeepAlive
  <2>2. ASSUME s.open PROVE r.late = s.late /\ r.lost = s.lost
    <3>1. s \in HttpSessionType /\ HttpNumbered(s, sentTo[t.c]) /\ sentTo[t.c] \in Nat
      BY <1>0, <1>s, <2>1, <2>2, HttpLimits DEF HttpSessionOK, HttpShape
    <3>2. /\ s0 \in HttpSessionType /\ s0.late = s.late /\ s0.lost = s.lost
          /\ s0.pending = s.pending /\ s0.buffer = s.buffer /\ s0.requests = s.requests
          /\ s0.closing = s.closing
      BY <3>1 DEF HttpSessionType
    <3> HIDE DEF s0
    <3>3. HttpNumbered(s0, sentTo[t.c])
      BY <3>1, <3>2 DEF HttpNumbered
    <3> QED BY <3>1, <3>2, <3>3, HttpParsedSound
  <2> HIDE DEF r
  <2> QED BY <1>u, <2>1, <2>2, HttpHistoryOne
<1>10. ASSUME NEW t \in steps,
              HandleFlvRequest(t) \/ HandleMjpegRequest(t) \/ HandleEventStreamRequest(t)
       PROVE  HttpHistory /\ server' = server
  <2> DEFINE s == session[t.c]
             r == BegunStream(s)
  <2>1. t.c \in Conns /\ server' = server /\ BeginStream(t)
    BY <1>0, <1>10 DEF HandleFlvRequest, HandleMjpegRequest, HandleEventStreamRequest
  <2>2. UNCHANGED session \/ (s.open /\ session' = [session EXCEPT ![t.c] = r])
    BY <2>1 DEF BeginStream
  <2>3. s.open => r.late = s.late /\ r.lost = s.lost
    BY <1>s, <2>1 DEF BegunStream, HttpSessionType
  <2> HIDE DEF r
  <2> QED BY <1>u, <2>1, <2>2, <2>3, HttpHistoryOne
<1>11. ASSUME NEW t \in steps, AttachStreamClient(t) PROVE HttpHistory /\ server' = server
  <2> DEFINE s == session[t.c]
             r == [s EXCEPT !.client = TRUE, !.state = "attached"]
  <2>1. /\ t.c \in Conns /\ server' = server
        /\ UNCHANGED session \/ (s.open /\ session' = [session EXCEPT ![t.c] = r])
    BY <1>0, <1>11 DEF AttachStreamClient, Attachable
  <2>2. s.open => r.late = s.late /\ r.lost = s.lost
    BY <1>s, <2>1 DEF HttpSessionType
  <2> HIDE DEF r
  <2> QED BY <1>u, <2>1, <2>2, HttpHistoryOne
<1> QED BY <1>1, <1>2, <1>3, <1>4, <1>5, <1>6, <1>7, <1>8, <1>9, <1>10, <1>11

\* Only connections accepted while Stop() is under way lose requests: Stop()
\* begins by taking every session there is.
LEMMA HttpLateKept ==
    ASSUME HttpInv, HttpLateInv, [HttpNext]_httpVars
    PROVE  HttpLateInv'
<1>1. ASSUME NEW queued, Discard(queued), server \in HttpStopping PROVE HttpLateInv'
  <2> SUFFICES ASSUME NEW c \in Conns, session'[c].open PROVE session'[c].late
    BY DEF HttpLateInv, HttpLate
  <2>1. \/ session'[c] = session[c]
        \/ session[c].open /\ session'[c] = [session[c] EXCEPT !.lost = TRUE]
    BY <1>1 DEF Discard
  <2>2. CASE session'[c] = session[c]
    BY <1>1, <2>2 DEF HttpLateInv, HttpLate
  <2>3. CASE session[c].open /\ session'[c] = [session[c] EXCEPT !.lost = TRUE]
    <3>1. session[c] \in HttpSessionType /\ session[c].late
      BY <1>1, <2>3, HttpSessionFields DEF HttpInv, HttpLateInv, HttpLate
    <3>2. [session[c] EXCEPT !.lost = TRUE].late = session[c].late
      BY <3>1 DEF HttpSessionType
    <3> QED BY <2>3, <3>1, <3>2
  <2> QED BY <2>1, <2>2, <2>3
<1>2. CASE StopControlExecutor \/ StopStreamExecutor
  BY <1>1, <1>2 DEF StopControlExecutor, StopStreamExecutor, HttpStopping
<1>3. CASE StopServer
  <2>1. \A c \in Conns : session'[c] = NoSession /\ ~NoSession.open
    BY <1>3 DEF StopServer, NoSession
  <2> QED BY <2>1 DEF HttpLateInv, HttpLate
<1>4. CASE StartServer
  BY <1>4 DEF StartServer, HttpLateInv, HttpLate, HttpStopping
<1>5. ASSUME NEW c \in Conns, OnConnection(c) PROVE HttpLateInv'
  <2> DEFINE f == [FreshHttpSession EXCEPT !.late = server # "on"]
  <2>1. f.late = (server # "on") /\ f.lost = FALSE
    BY DEF FreshHttpSession
  <2> HIDE DEF f
  <2>2. server' = server /\ \A d \in Conns : session'[d] = IF d = c THEN f ELSE session[d]
    BY <1>5 DEF OnConnection, f, HttpInv, HttpShape
  <2> QED BY <2>1, <2>2 DEF HttpLateInv, HttpLate, HttpStopping
<1>6. CASE HttpHistory /\ server' = server
  BY <1>6 DEF HttpHistory, HttpLateInv, HttpLate
<1>7. CASE UNCHANGED httpVars
  BY <1>7 DEF httpVars, HttpLateInv, HttpLate
<1> QED BY <1>2, <1>3, <1>4, <1>5, <1>6, <1>7, HttpHistoryKept DEF HttpNext

\* The invariant says that connections are served.
LEMMA HttpInvImplies == HttpInv /\ HttpLateInv => HttpConnectionsServed
<1> SUFFICES ASSUME HttpInv, HttpLateInv PROVE HttpConnectionsServed
  OBVIOUS
<1>1. HttpShape /\ \A c \in Conns : HttpConn(c)
  BY DEF HttpInv
<1>2. ASSUME NEW c \in Conns, session[c].open
      PROVE  /\ session[c].state \in {"none", "opening", "attached", "closing"}
             /\ session[c].state = "none" <=> ~session[c].streaming
             /\ Len(session[c].pending) <= MaxRead /\ session[c].timer <= session[c].gen
  <2> DEFINE s == session[c]
  <2>1. s \in HttpSessionType /\ HttpSessionOK(s, sentTo[c])
    BY <1>1, <1>2, HttpSessionFields DEF HttpConn, HttpSessionSound
  <2>2. s.state \in {"none", "opening", "attached", "closing"}
    BY <2>1 DEF HttpSessionType
  <2>3. (s.state = "none" <=> ~s.streaming) /\ s.timer <= s.gen
        /\ Len(s.pending) <= s.requests /\ s.requests + Len(s.buffer) <= sentTo[c]
    BY <2>1 DEF HttpSessionOK, HttpNumbered
  <2>4. Len(s.pending) \in Nat /\ s.requests \in Nat /\ Len(s.buffer) \in Nat
    BY <2>1, HttpFieldTypes
  <2>5. sentTo[c] \in 0 .. MaxRead /\ MaxRead \in Nat
    BY <1>1, HttpLimits DEF HttpShape
  <2>6. Len(s.pending) <= MaxRead
    BY <2>3, <2>4, <2>5
  <2> QED BY <2>2, <2>3, <2>6
<1>3. HttpTypeOK
  <2>1. ASSUME NEW c \in Conns
        PROVE  /\ wire[c] \in {"idle", "open", "flush", "closing", "closed"}
               /\ sentTo[c] \in 0 .. MaxRead
    BY <1>1 DEF HttpShape
  <2>2. \A t \in steps : t.c \in Conns /\ t.who \in {"net", "worker", "control"}
    BY <1>1 DEF HttpShape, HttpTaskType
  <2>3. \A tm \in timers : tm.c \in Conns /\ tm.gen > 0
    BY <1>1 DEF HttpShape
  <2>4. server \in {"off", "on", "stopping", "control", "joining"} /\ attached \subseteq Conns
    BY <1>1 DEF HttpShape
  <2> QED BY <1>2, <2>1, <2>2, <2>3, <2>4 DEF HttpTypeOK
<1>4. ClientOwned
  <2>1. attached \subseteq Conns
    BY <1>1 DEF HttpShape
  <2> QED BY <1>1, <2>1 DEF HttpConn, HttpOwned, HttpDetaches, ClientOwned
<1>5. AnswersInOrder
  <2> SUFFICES ASSUME NEW c \in Conns, NEW i \in DOMAIN answers[c] PROVE answers[c][i] = i
    BY DEF AnswersInOrder
  <2>1. answers[c] \in Seq(Nat)
    BY <1>1 DEF HttpShape
  <2>2. i \in 1 .. Len(answers[c])
    BY <2>1
  <2> QED BY <1>1, <2>2 DEF HttpConn, HttpInOrder
<1>6. NoneStranded
  <2> SUFFICES ASSUME NEW c \in Conns, Quiet(c), ~(session[c].lost /\ session[c].late)
               PROVE  session[c].pending = <<>> /\ session[c].buffer = <<>> /\ ~session[c].processing
    BY DEF NoneStranded
  <2>1. session[c].open /\ wire[c] = "open" /\ (\A t \in steps : t.c # c) /\ HttpConn(c)
    BY <1>1 DEF Quiet
  <2>4. ~session[c].lost
    BY <2>1 DEF HttpLateInv, HttpLate
  <2>2. ~session[c].processing /\ session[c].pending = <<>>
    BY <2>1, <2>4 DEF HttpConn, HttpProgress
  <2>3. session[c].buffer = <<>>
    BY <2>1, <2>2 DEF HttpConn, HttpSessionSound, HttpSessionOK
  <2> QED BY <2>2, <2>3
<1>7. IdleHasTimer
  <2> SUFFICES ASSUME NEW c \in Conns, Quiet(c), ~session[c].streaming, c \notin unarmed
               PROVE  \E tm \in timers : tm.c = c /\ Current(session[c], tm.gen)
    BY DEF IdleHasTimer
  <2>1. session[c].open /\ wire[c] = "open" /\ (\A t \in steps : t.c # c) /\ HttpConn(c)
    BY <1>1 DEF Quiet
  <2>2. session[c].timer # 0 /\ [c |-> c, gen |-> session[c].gen] \in timers
    BY <2>1 DEF HttpConn, HttpTimed
  <2> DEFINE tm == [c |-> c, gen |-> session[c].gen]
  <2>3. tm.c = c /\ tm.gen = session[c].gen /\ tm \in timers
    BY <2>2
  <2> HIDE DEF tm
  <2> QED BY <2>1, <2>2, <2>3 DEF Current
<1> QED BY <1>3, <1>4, <1>5, <1>6, <1>7 DEF HttpConnectionsServed

\* The connections of the HTTP server, for any number of them, any limit on
\* pipelined requests and on requests per connection, and any order of the
\* callbacks, the workers, the timers and Stop(): responses leave in the order
\* of the requests; none is left behind, except on a connection that was accepted
\* while Stop() was under way and whose request Stop() discarded with an
\* executor's queue; what MediaStreams holds for a connection has an owner that
\* will detach it; and a connection nobody works for, a stranded one too, has
\* the timer that will close it.
THEOREM HttpConnectionsServedHolds == HttpSpec => []HttpConnectionsServed
<1>1. HttpInit => HttpInv /\ HttpLateInv
  <2>1. HttpInit => HttpLateInv
    BY DEF HttpInit, NoSession, HttpLateInv, HttpLate
  <2> QED BY <2>1, HttpInitInv
<1>2. HttpInv /\ HttpLateInv /\ [HttpNext]_httpVars => (HttpInv /\ HttpLateInv)'
  BY HttpNextPreserves, HttpLateKept
<1> QED BY <1>1, <1>2, HttpInvImplies, PTL DEF HttpSpec
=============================================================================
