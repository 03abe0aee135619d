---------------------------- MODULE RateLimiter ----------------------------
(***************************************************************************)
(* The gateway's rate limiter (api_gateway/internal/middleware/            *)
(* ratelimit.go): one fixed window per client, in the gateway's memory.    *)
(* hit holds a mutex from reading the clock to its return, so it is one    *)
(* step.  A refused request changes nothing.                               *)
(***************************************************************************)
EXTENDS Integers, Sequences

CONSTANTS
  Clients,    \* client keys (clientKey)
  Requests,   \* requests allowed per window
  Window,     \* length of a window, in ticks of the clock
  MaxTime,    \* bound on the clock
  NoWindow    \* the map has no entry

\* NewRateLimiter turns the limiter off for other values.
ASSUME LimiterAssumption ==
  /\ Requests \in Nat \ {0}
  /\ Window \in Nat \ {0}
  /\ NoWindow \notin [count : Nat, expires : Nat]

VARIABLES
  now,        \* the clock
  clients,    \* the window of each client
  admitted    \* history: when requests of each client were let through

limiterVars == <<now, clients, admitted>>
-----------------------------------------------------------------------------
LimiterInit ==
  /\ now = 0
  /\ clients = [k \in Clients |-> NoWindow]
  /\ admitted = [k \in Clients |-> << >>]

\* now.After(expires) is strict: at the very end the window is still open.
Open(k) == clients[k] # NoWindow /\ now <= clients[k].expires

Full(k) == Open(k) /\ clients[k].count >= Requests

\* Mutant of OpenWindow: the counter is not reset.
OpenWindowNoReset(k) ==
  LET old == IF clients[k] = NoWindow THEN 0 ELSE clients[k].count IN
  /\ ~Open(k)
  /\ clients' = [clients EXCEPT ![k] = [count |-> old + 1,
                                        expires |-> now + Window]]
  /\ admitted' = [admitted EXCEPT ![k] = Append(@, now)]
  /\ UNCHANGED now

OpenWindow(k) ==
  /\ ~Open(k)
  /\ clients' = [clients EXCEPT ![k] = [count |-> 1, expires |-> now + Window]]
  /\ admitted' = [admitted EXCEPT ![k] = Append(@, now)]
  /\ UNCHANGED now

\* Mutant of JoinWindow: compares with > instead of >=.
JoinWindowOneMore(k) ==
  /\ Open(k) /\ clients[k].count <= Requests
  /\ clients' = [clients EXCEPT ![k].count = @ + 1]
  /\ admitted' = [admitted EXCEPT ![k] = Append(@, now)]
  /\ UNCHANGED now

\* Mutant of JoinWindow: counts down.
JoinWindowDown(k) ==
  /\ Open(k) /\ ~Full(k)
  /\ clients' = [clients EXCEPT ![k].count = @ - 1]
  /\ admitted' = [admitted EXCEPT ![k] = Append(@, now)]
  /\ UNCHANGED now

JoinWindow(k) ==
  /\ Open(k) /\ ~Full(k)
  /\ clients' = [clients EXCEPT ![k].count = @ + 1]
  /\ admitted' = [admitted EXCEPT ![k] = Append(@, now)]
  /\ UNCHANGED now

Admit(k) == OpenWindow(k) \/ JoinWindow(k)

Tick == now < MaxTime /\ now' = now + 1 /\ UNCHANGED <<clients, admitted>>

\* A restart of the gateway forgets every window; so does the history, whose
\* properties are about one life of the process.
GatewayRestarts ==
  /\ clients' = [k \in Clients |-> NoWindow]
  /\ admitted' = [k \in Clients |-> << >>]
  /\ UNCHANGED now

LimiterNext == (\E k \in Clients : Admit(k)) \/ Tick \/ GatewayRestarts

LimiterSpec == LimiterInit /\ [][LimiterNext]_limiterVars
-----------------------------------------------------------------------------
LimiterTypeOK ==
  /\ now \in Nat
  /\ clients \in [Clients -> [count : Nat, expires : Nat] \cup {NoWindow}]
  /\ admitted \in [Clients -> Seq(Nat)]

\* An interval of a window's length, placed anywhere, holds at most twice the
\* limit: fixed windows admit a burst at the end of one and another at the start
\* of the next, never a third (ratelimit.go 57-75).
TwiceTheLimit ==
  \A k \in Clients :
    \A i \in 1 .. Len(admitted[k]) - 2 * Requests :
      admitted[k][i + 2 * Requests] > admitted[k][i] + Window

\* A request is refused only if as many as are allowed were let through within
\* the last window (ratelimit.go 61-71).
RefusalsAreDeserved ==
  \A k \in Clients :
    Full(k) => LET n == Len(admitted[k]) IN
               /\ n >= Requests
               /\ admitted[k][n - Requests + 1] + Window >= now

\* More than RATE_LIMIT_REQUESTS requests within RATE_LIMIT_WINDOW from one
\* client meet 429, says docs/api_gateway_testing.md 114: so what is let through
\* that much later is at least a window later.
NeverMoreThanTheLimit ==
  \A k \in Clients :
    \A i \in 1 .. Len(admitted[k]) - Requests :
      admitted[k][i + Requests] >= admitted[k][i] + Window
=============================================================================
