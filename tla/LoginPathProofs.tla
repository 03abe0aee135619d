--------------------------- MODULE LoginPathProofs ---------------------------
(***************************************************************************)
(* A login's way through gateway and auth is a behaviour of the limiter    *)
(* and one of the counter, so what is proved of each holds of both.        *)
(***************************************************************************)
EXTENDS LoginPath, LoginGuardProofs, RateLimiterProofs

LEMMA StepIsLimiterStep == [Next]_vars => [LimiterNext]_limiterVars
<1> SUFFICES ASSUME [Next]_vars PROVE [LimiterNext]_limiterVars
  OBVIOUS
<1>1. ASSUME NEW k \in Clients, Admit(k) PROVE LimiterNext
  BY <1>1 DEF LimiterNext
<1>2. CASE GatewayStep
  BY <1>2 DEF GatewayStep, LimiterNext
<1>3. CASE AuthStep
  BY <1>3 DEF AuthStep
<1>4. CASE UNCHANGED vars
  BY <1>4 DEF vars, limiterVars
<1>5. QED
  BY <1>1, <1>2, <1>3, <1>4 DEF Next, LoginRequest, OtherRequest

LEMMA StepIsGuardStep == [Next]_vars => [GuardNext]_guardVars
<1> SUFFICES ASSUME [Next]_vars PROVE [GuardNext]_guardVars
  OBVIOUS
<1>1. ASSUME NEW h \in Handlers, NEW e \in Emails, NEW right \in BOOLEAN,
             Take(h, e, right)
      PROVE  GuardNext
  BY <1>1 DEF GuardNext
<1>2. CASE AuthStep
  BY <1>2 DEF AuthStep, GuardNext
<1>3. CASE UNCHANGED vars
  BY <1>3 DEF vars, guardVars
<1>4. QED
  BY <1>1, <1>2, <1>3 DEF Next, LoginRequest, OtherRequest, GatewayStep

\* The gateway in front of auth changes nothing about the counter, nor auth
\* about the limiter (router.go 41-44, grpc_handler.go 81-119).
THEOREM PathImplementsBoth == Spec => LimiterSpec /\ GuardSpec
<1>1. Init => LimiterInit /\ GuardInit
  BY DEF Init
<1>2. QED
  BY <1>1, StepIsLimiterStep, StepIsGuardStep, PTL DEF Spec, LimiterSpec, GuardSpec

\* On the whole path: bursts and overshoot stay bounded, refusals are deserved,
\* and no counter is left without a time to live but by a fault.
THEOREM PathIsSafe ==
  Spec => [](/\ TwiceTheLimit /\ RefusalsAreDeserved
             /\ OvershootIsBounded /\ CountersAreMortal)
BY PathImplementsBoth, BurstsAreBounded, NoUndeservedRefusal, OvershootBounded,
   CountersExpire, PTL
=============================================================================
