----------------------------- MODULE LoginPath -----------------------------
(***************************************************************************)
(* A login on its way through the system: the gateway's rate limiter lets  *)
(* the HTTP request through (router.go 41-44 wraps every route in it), the *)
(* gateway's handler forwards it to auth, whose counter guards the         *)
(* password.  Other requests of the same client use up its window too.     *)
(***************************************************************************)
EXTENDS RateLimiter, LoginGuard

vars == <<now, clients, admitted, attempts, expiring, server, handler, slips, stuck>>

Init == LimiterInit /\ GuardInit

LoginRequest(k, h, e, right) == Admit(k) /\ Take(h, e, right)

OtherRequest(k) == Admit(k) /\ UNCHANGED guardVars

GatewayStep == (Tick \/ GatewayRestarts) /\ UNCHANGED guardVars

AuthStep ==
  /\ \/ \E h \in Handlers : GuardStep(h) \/ GuardFault(h)
     \/ \E e \in Emails : KeyExpires(e)
     \/ GuardLifecycle
  /\ UNCHANGED limiterVars

Next ==
  \/ \E k \in Clients, h \in Handlers, e \in Emails, right \in BOOLEAN :
       LoginRequest(k, h, e, right)
  \/ \E k \in Clients : OtherRequest(k)
  \/ GatewayStep
  \/ AuthStep

Spec == Init /\ [][Next]_vars

FairSpec == Spec /\ GuardFairness
=============================================================================
