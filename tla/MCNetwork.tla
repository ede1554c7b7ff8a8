----------------------------- MODULE MCNetwork -----------------------------
(* Small instances of the network side for TLC: the TCP sessions of          *)
(* libs/socket_io, the HTTP connections and streams, and the API with its    *)
(* authentication.  Each part is checked by itself: one part moves while the *)
(* others are in their initial states.                                       *)
EXTENDS TcpSessions, HttpServer, HttpApi, TLC

CONSTANTS k1, k2

\* A configuration with lockout, and one without and with other limits.
UserConfigSet ==
    {[perUser |-> 2, failures |-> 2, lockout |-> 1, ttl |-> 1],
     [perUser |-> 1, failures |-> 0, lockout |-> 2, ttl |-> 2]}

\* Workers are interchangeable.
WorkerSymmetry == Permutations(AuthCallers)

NetInit == Init /\ HttpInit /\ ApiInit

\* While another part moves the API is at rest, with one choice of roles.
ApiAtRest == ApiInit /\ options.failures = 2 /\ \A u \in AuthUsers : users[u].role = "admin"

\* One connection with four calls, two with two calls, or two with one call and
\* Stop(); two HTTP requests with Stop(), or three without: each mixture is explored
\* in full, their product is too large.
TcpScenario == next_id <= 2 \/ calls <= 1 \/ (running /\ calls <= 2)
HttpScenario == server = "on" \/ \A c \in Conns : sentTo[c] <= 2

NetNext ==
    \/ /\ HttpInit /\ ApiAtRest
       /\ Next /\ TcpScenario'
       /\ UNCHANGED <<httpVars, apiVars>>
    \/ /\ Init /\ ApiAtRest
       /\ HttpNext /\ HttpScenario'
       /\ UNCHANGED <<vars, apiVars>>
    \/ /\ Init /\ HttpInit
       /\ ApiNext
       /\ UNCHANGED <<vars, httpVars>>

NetSpec == NetInit /\ [][NetNext]_<<vars, httpVars, apiVars>>
=============================================================================
