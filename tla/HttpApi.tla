------------------------------ MODULE HttpApi ------------------------------
(***************************************************************************)
(* The HTTP API of libs/http: which handler a request reaches, what the    *)
(* handler demands of the caller, and the one handler that keeps state of  *)
(* its own, the upload of an upgrade package.                              *)
(*                                                                         *)
(* A path is the tuple of its segments.  A prefix route ends in "/" in the *)
(* code, so it matches paths with at least one more segment.               *)
(***************************************************************************)
EXTENDS AuthService, Sequences

VARIABLE uploads      \* files in the upload directory, by the worker that wrote them

apiVars == <<authVars, uploads>>

-----------------------------------------------------------------------------
(* Routes, one definition per handler, in the order of RegisterRoutes.     *)
(* gate: "open" asks for nothing, "self" for a valid token, "auth" also    *)
(* for a changed password, anything else for that permission.              *)

Exact(m, path, gate) == [m |-> m, path |-> path, exact |-> TRUE, gate |-> gate]
Prefix(m, path, gate) == [m |-> m, path |-> path, exact |-> FALSE, gate |-> gate]

AuthRoutes ==
    << Exact("POST", <<"api", "auth", "login">>, "open"),
       Exact("POST", <<"api", "auth", "logout">>, "self"),
       Exact("POST", <<"api", "auth", "change-password">>, "self"),
       Exact("GET", <<"api", "auth", "me">>, "self") >>
ConfigRoutes ==
    << Prefix("GET", <<"api", "config">>, "auth"),
       Prefix("PUT", <<"api", "config">>, "ModifyConfig") >>
OperationsRoutes ==
    << Exact("GET", <<"api", "operations", "export">>, "ManageUsers"),
       Exact("GET", <<"api", "operations">>, "ManageUsers") >>
NetworkRoutes ==
    << Exact("GET", <<"api", "system", "network", "interfaces">>, "ReadStatus"),
       Prefix("GET", <<"api", "system", "network", "interfaces">>, "ReadStatus"),
       Prefix("PUT", <<"api", "system", "network", "interfaces">>, "ModifyConfig"),
       Exact("POST", <<"api", "system", "network", "reload">>, "ModifyConfig") >>
TimeConfigRoutes ==
    << Exact("GET", <<"api", "system", "time", "status">>, "ReadStatus") >> \o
    [i \in 1 .. 3 |-> Exact("PUT", <<"api", "system", "time", <<"config", "timezone", "ntp">>[i]>>, "ModifyConfig")]
TimeClockRoutes ==
    << Exact("POST", <<"api", "system", "time", "system-time">>, "ModifyConfig"),
       Exact("POST", <<"api", "system", "time", "browser-time">>, "ModifyConfig"),
       Exact("PUT", <<"api", "system", "time", "browser-sync">>, "ModifyConfig"),
       Exact("POST", <<"api", "system", "time", "sync">>, "ModifyConfig") >>
UploadRoutes == << Exact("POST", <<"api", "upgrade", "upload">>, "Upgrade"),
                   Exact("GET", <<"api", "upgrade", "status">>, "ReadStatus") >>
UpgradeRoutes ==
    << Exact("POST", <<"api", "upgrade", "validate">>, "Upgrade"),
       Exact("POST", <<"api", "upgrade", "start">>, "Upgrade") >>
UpgradeControlRoutes ==
    << Exact("POST", <<"api", "upgrade", "cancel">>, "Upgrade"),
       Exact("POST", <<"api", "upgrade", "confirm-reboot">>, "Upgrade") >>
SystemRoutes ==
    << Exact("GET", <<"api", "system", "status">>, "auth"),
       Exact("GET", <<"api", "system", "capabilities">>, "ReadStatus"),
       Exact("POST", <<"api", "system", "reboot">>, "Reboot"),
       Exact("POST", <<"api", "system", "factory-reset">>, "FactoryReset") >>
AlarmRoutes == << Exact("GET", <<"api", "alarm", "status">>, "auth") >>
AiRoutes ==
    << Exact("GET", <<"api", "status", "image-strategy">>, "auth"),
       Exact("GET", <<"api", "ai", "status">>, "auth"),
       Exact("GET", <<"api", "ai", "capabilities">>, "auth"),
       Exact("GET", <<"api", "ai", "alerts">>, "auth"),
       Prefix("GET", <<"api", "ai", "alerts">>, "auth") >>
SnapshotRoutes == << Prefix("GET", <<"snapshot">>, "auth") >>
MediaRoutes ==
    << Exact("GET", <<"api", "media", "streams">>, "ReadStatus"),
       Exact("GET", <<"api", "media", "capabilities">>, "ReadStatus"),
       Prefix("GET", <<"api", "media", "streams">>, "ReadStatus"),
       Exact("GET", <<"api", "media", "sessions">>, "ReadStatus") >>
HlsRoutes == << Prefix("GET", <<"live">>, "auth") >>
WebrtcRoutes ==
    << Exact("POST", <<"api", "webrtc", "peers">>, "auth"),
       Prefix("POST", <<"api", "webrtc", "peers">>, "auth"),
       Prefix("DELETE", <<"api", "webrtc", "peers">>, "auth"),
       Prefix("POST", <<"live">>, "auth"),
       Prefix("DELETE", <<"live">>, "auth") >>

\* InitializeHandlers: the order in which handlers register.
Routes ==
    AuthRoutes \o ConfigRoutes \o OperationsRoutes \o NetworkRoutes \o TimeConfigRoutes
    \o TimeClockRoutes \o UploadRoutes \o UpgradeRoutes \o UpgradeControlRoutes \o SystemRoutes
    \o AlarmRoutes \o AiRoutes \o SnapshotRoutes \o MediaRoutes \o HlsRoutes \o WebrtcRoutes

\* HttpRouter::Match: the first route of the method whose path fits.
Fits(r, path) ==
    IF r.exact THEN r.path = path
    ELSE Len(path) > Len(r.path) /\ SubSeq(path, 1, Len(r.path)) = r.path
\* Mutant: the method is not compared.
MatchesAnyMethod(i, m, path) == Fits(Routes[i], path)
Matches(i, m, path) == Routes[i].m = m /\ Fits(Routes[i], path)
GateOf(m, path) ==
    LET hits == {i \in DOMAIN Routes : Matches(i, m, path)}
    IN  IF hits = {} THEN "none" ELSE Routes[CHOOSE i \in hits : \A j \in hits : i <= j].gate

-----------------------------------------------------------------------------
(* The gates *)

IsPermissionAllowed(role, permission) ==
    CASE role = "admin" -> TRUE
      [] role = "operator" -> permission \in {"ReadStatus", "PreviewVideo", "ModifyConfig"}
      [] role = "viewer" -> permission \in {"ReadStatus", "PreviewVideo"}

\* RequireAuthResponse and RequirePermissionResponse for a session's principal.
Passes(s, gate) ==
    \/ gate \in {"open", "self"}
    \/ gate = "auth" /\ ~s.must
    \/ gate \notin {"none", "open", "self", "auth"} /\ ~s.must
       /\ IsPermissionAllowed(users[s.user].role, gate)

\* What the API would do for a request that carries the token of s.
Granted(s, gate) == s \in Alive(tokens) /\ Passes(s, gate)

-----------------------------------------------------------------------------
(* POST /api/upgrade/upload *)

ApiInit == AuthInit /\ uploads = {}

UploadGate == GateOf("POST", <<"api", "upgrade", "upload">>)

\* The gate, then CleanupUploadDir empties the directory.
CleanupUploadDir(k) == {}
HandleUpload(k, s) ==
    /\ caller[k] = AtRest
    /\ Granted(s, UploadGate)
    /\ uploads' = CleanupUploadDir(k)
    /\ caller' = [caller EXCEPT ![k] = [at |-> "write", user |-> s.user]]
    /\ UNCHANGED <<authClock, users, tokens, options, failures, logins, guesses>>

\* A new file, or an error that leaves none.
WriteUploadFile(k) ==
    /\ caller[k].at = "write"
    /\ \/ uploads' = uploads \cup {<<k, Cardinality(uploads)>>} /\ Goto(k, "validate")
       \/ Rest(k) /\ UNCHANGED uploads
    /\ UNCHANGED <<authClock, users, tokens, options, failures, logins, guesses>>

\* ValidatePackage accepts the file, or it is removed again.
ValidateUpload(k) ==
    /\ caller[k].at = "validate"
    /\ uploads' \in {uploads, {f \in uploads : f[1] # k}}
    /\ Rest(k)
    /\ UNCHANGED <<authClock, users, tokens, options, failures, logins, guesses>>

ApiNext ==
    \/ AuthStep /\ UNCHANGED uploads
    \/ \E k \in AuthCallers :
        \/ \E s \in tokens : HandleUpload(k, s)
        \/ WriteUploadFile(k) \/ ValidateUpload(k)

ApiSpec == ApiInit /\ [][ApiNext]_apiVars

-----------------------------------------------------------------------------
(* Properties *)

\* One request for every route, with the gate of the handler it reaches.
Samples ==
    {[m |-> q.m, path |-> q.path, gate |-> GateOf(q.m, q.path)] :
        q \in {[m |-> Routes[i].m,
               path |-> IF Routes[i].exact THEN Routes[i].path ELSE Append(Routes[i].path, "x")] :
                  i \in DOMAIN Routes}}
OwnAccount == {q \in Samples : q.path[1] = "api" /\ q.path[2] = "auth"}
Changes == {q \in Samples : q.m # "GET" /\ q.path[1] = "api" /\ q.path[2] \in {"config", "system", "upgrade"}}
AdminOnly ==
    {q \in Changes : q.path[2] = "upgrade" \/ q.path[3] \in {"reboot", "factory-reset"}}

\* With the factory password nothing works but logging in and changing it
\* (docs/libs/auth.md): whoever is granted anything else has changed it.
FactoryPasswordFirst ==
    \A s \in tokens, q \in Samples \ OwnAccount :
        Granted(s, q.gate) => users[s.user].cred # 0

\* A viewer changes nothing, and only an administrator upgrades, reboots or
\* resets the device, whichever route the request takes.
RolesRespected ==
    \A s \in tokens :
        /\ \A q \in Changes : Granted(s, q.gate) => users[s.user].role # "viewer"
        /\ \A q \in AdminOnly : Granted(s, q.gate) => users[s.user].role = "admin"

\* Uploads do not fill the flash: one file per worker at most.
UploadsBounded == Cardinality(uploads) <= Cardinality(AuthCallers)

\* Whichever route and order of calls: nothing but the login works with the
\* factory password, roles hold, and uploads stay bounded.
ApiGuarded ==
    /\ FactoryPasswordFirst /\ RolesRespected /\ UploadsBounded
=============================================================================
