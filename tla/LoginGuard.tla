----------------------------- MODULE LoginGuard -----------------------------
(***************************************************************************)
(* The counter of failed logins in front of auth's Login                   *)
(* (auth/internal/auth/grpc_handler.go 81-119): one Redis key per e-mail   *)
(* with a time to live.  GET, the password check, INCR, EXPIRE and DEL are *)
(* separate commands, handlers overlap between them, and the handler goes  *)
(* on when one of them fails.                                              *)
(***************************************************************************)
EXTENDS Naturals, FiniteSets

CONSTANTS
  Handlers,   \* bounds how many logins overlap
  Emails,
  Limit,      \* failed attempts before logins are refused: 5 in the code
  MaxSlips,   \* bound on failed GETs and doubled INCRs
  Faults      \* which of FaultKinds the environment may inject

FaultKinds == {"redis_error",   \* a command fails without effect
               "reply_lost",    \* it fails, or is repeated, after its effect
               "db_error", "crash"}

ASSUME GuardAssumption ==
  /\ Limit \in Nat \ {0}
  /\ MaxSlips \in Nat
  /\ Faults \subseteq FaultKinds
  /\ IsFiniteSet(Handlers)

VARIABLES
  attempts,   \* the value of each key, 0 when there is none
  expiring,   \* the e-mails whose key has a time to live
  server,     \* the process: serving, stopping gracefully, or not there
  handler,    \* the Login calls in progress
  slips,      \* history: how often the count missed a check or ran ahead
  stuck       \* history: e-mails whose key lost its time to live to a fault

guardVars == <<attempts, expiring, server, handler, slips, stuck>>

Login == [pc : {"get", "verify", "count", "expire", "clear"},
          email : Emails, right : BOOLEAN]

Idle == [pc |-> "idle"]

GuardInit ==
  /\ attempts = [e \in Emails |-> 0]
  /\ expiring = {}
  /\ server = "serving"
  /\ handler = [h \in Handlers |-> Idle]
  /\ slips = 0
  /\ stuck = {}

At(h, pc) == handler[h].pc = pc

Goto(h, pc) == handler' = [handler EXCEPT ![h].pc = pc]

Return(h) == handler' = [handler EXCEPT ![h] = Idle]
-----------------------------------------------------------------------------
Take(h, e, right) ==
  /\ server = "serving"
  /\ At(h, "idle")
  /\ handler' = [handler EXCEPT ![h] = [pc |-> "get", email |-> e, right |-> right]]
  /\ UNCHANGED <<attempts, expiring, server, slips, stuck>>

\* Mutant of Get: the bound is compared with > instead of >=.
GetOneMore(h) ==
  /\ At(h, "get")
  /\ IF attempts[handler[h].email] > Limit THEN Return(h) ELSE Goto(h, "verify")
  /\ UNCHANGED <<attempts, expiring, server, slips, stuck>>

\* Too many attempts, or on to the password.
Get(h) ==
  /\ At(h, "get")
  /\ IF attempts[handler[h].email] >= Limit THEN Return(h) ELSE Goto(h, "verify")
  /\ UNCHANGED <<attempts, expiring, server, slips, stuck>>

\* When GET fails the check is skipped.
GetFails(h) ==
  /\ "redis_error" \in Faults /\ slips < MaxSlips
  /\ At(h, "get")
  /\ Goto(h, "verify")
  /\ slips' = slips + 1
  /\ UNCHANGED <<attempts, expiring, server, stuck>>

\* A database that does not answer counts as a wrong password.
Verify(h) ==
  /\ At(h, "verify")
  /\ \/ handler[h].right /\ Goto(h, "clear")
     \/ ~handler[h].right /\ Goto(h, "count")
     \/ "db_error" \in Faults /\ Goto(h, "count")
  /\ UNCHANGED <<attempts, expiring, server, slips, stuck>>

\* Mutant of Count: nobody goes on to EXPIRE.
CountOnly(h) ==
  /\ At(h, "count")
  /\ attempts' = [attempts EXCEPT ![handler[h].email] = @ + 1]
  /\ Return(h)
  /\ UNCHANGED <<expiring, server, slips, stuck>>

\* INCR.  Only the handler that created the key goes on to EXPIRE.
Count(h) ==
  LET e == handler[h].email IN
  /\ At(h, "count")
  /\ attempts' = [attempts EXCEPT ![e] = @ + 1]
  /\ IF attempts[e] = 0 THEN Goto(h, "expire") ELSE Return(h)
  /\ UNCHANGED <<expiring, server, slips, stuck>>

\* An INCR reported failed returns 0; one the client library repeats returns the
\* second value.  Neither is 1, so nobody sets the time to live of a new key.
CountFails(h) ==
  LET e == handler[h].email IN
  /\ At(h, "count")
  /\ Return(h)
  /\ \/ "redis_error" \in Faults /\ UNCHANGED <<attempts, slips, stuck>>
     \/ /\ "reply_lost" \in Faults
        /\ \E repeats \in 0 .. 1 :
             /\ slips + repeats <= MaxSlips
             /\ attempts' = [attempts EXCEPT ![e] = @ + 1 + repeats]
             /\ slips' = slips + repeats
        /\ stuck' = IF attempts[e] = 0 THEN stuck \cup {e} ELSE stuck
  /\ UNCHANGED <<expiring, server>>

\* Mutant of Expire: the key is not found.
ExpireNothing(h) ==
  /\ At(h, "expire")
  /\ Return(h)
  /\ UNCHANGED <<attempts, expiring, server, slips, stuck>>

\* EXPIRE finds the key, or not when it was deleted or has expired meanwhile.
Expire(h) ==
  LET e == handler[h].email IN
  /\ At(h, "expire")
  /\ Return(h)
  /\ expiring' = IF attempts[e] > 0 THEN expiring \cup {e} ELSE expiring
  /\ UNCHANGED <<attempts, server, slips, stuck>>

\* Keys without a time to live once the handlers hs have gone.
LeftBehind(hs) ==
  {e \in Emails :
     /\ attempts[e] > 0 /\ e \notin expiring
     /\ \E h \in hs : At(h, "expire") /\ handler[h].email = e}

ExpireFails(h) ==
  /\ "redis_error" \in Faults
  /\ At(h, "expire")
  /\ Return(h)
  /\ stuck' = stuck \cup LeftBehind({h})
  /\ UNCHANGED <<attempts, expiring, server, slips>>

\* The password was right: DEL, whose error is ignored.
Clear(h) ==
  LET e == handler[h].email IN
  /\ At(h, "clear")
  /\ Return(h)
  /\ \/ /\ attempts' = [attempts EXCEPT ![e] = 0]
        /\ expiring' = expiring \ {e}
        /\ stuck' = stuck \ {e}
     \/ "redis_error" \in Faults /\ UNCHANGED <<attempts, expiring, stuck>>
  /\ UNCHANGED <<server, slips>>

\* Mutant of KeyExpires: the time to live outlives the key.
KeyExpiresKeepsTTL(e) ==
  /\ e \in expiring
  /\ attempts' = [attempts EXCEPT ![e] = 0]
  /\ UNCHANGED <<expiring, server, handler, slips, stuck>>

\* Ten minutes have passed.
KeyExpires(e) ==
  /\ e \in expiring
  /\ attempts' = [attempts EXCEPT ![e] = 0]
  /\ expiring' = expiring \ {e}
  /\ stuck' = stuck \ {e}
  /\ UNCHANGED <<server, handler, slips>>

\* A signal, or a listener that fails: GracefulStop takes no more calls and
\* waits for those it has.
GuardStop ==
  /\ server = "serving"
  /\ server' = "stopping"
  /\ UNCHANGED <<attempts, expiring, handler, slips, stuck>>

GuardExit ==
  /\ server = "stopping"
  /\ \A h \in Handlers : At(h, "idle")
  /\ server' = "gone"
  /\ UNCHANGED <<attempts, expiring, handler, slips, stuck>>

GuardCrash ==
  /\ "crash" \in Faults
  /\ server # "gone"
  /\ server' = "gone"
  /\ handler' = [h \in Handlers |-> Idle]
  /\ stuck' = stuck \cup LeftBehind(Handlers)
  /\ UNCHANGED <<attempts, expiring, slips>>

\* What the counter knows is in Redis and survives.
GuardRestart ==
  /\ server = "gone"
  /\ server' = "serving"
  /\ UNCHANGED <<attempts, expiring, handler, slips, stuck>>

GuardLifecycle == GuardStop \/ GuardExit \/ GuardCrash \/ GuardRestart

GuardStep(h) == \/ Get(h) \/ Verify(h) \/ Count(h) \/ Expire(h) \/ Clear(h)

GuardFault(h) == GetFails(h) \/ CountFails(h) \/ ExpireFails(h)

GuardNext ==
  \/ \E h \in Handlers : \E e \in Emails, right \in BOOLEAN : Take(h, e, right)
  \/ \E h \in Handlers : GuardStep(h) \/ GuardFault(h)
  \/ \E e \in Emails : KeyExpires(e)
  \/ GuardLifecycle

GuardSpec == GuardInit /\ [][GuardNext]_guardVars

\* A command to Redis ends, at the latest by its client's timeouts, and Redis
\* drops keys whose time has come.  Nothing bounds the password check's query
\* (repository.go 31): it may never end.
GuardFairness ==
  /\ \A h \in Handlers :
       WF_guardVars(Get(h) \/ Count(h) \/ Expire(h) \/ Clear(h))
  /\ \A e \in Emails : WF_guardVars(KeyExpires(e))
-----------------------------------------------------------------------------
\* Counters, handlers and histories have their types; only a key that is there
\* has a time to live.
GuardTypeOK ==
  /\ attempts \in [Emails -> Nat]
  /\ expiring \subseteq {e \in Emails : attempts[e] > 0}
  /\ server \in {"serving", "stopping", "gone"}
  /\ handler \in [Handlers -> Login \cup {Idle}]
  /\ slips \in 0 .. MaxSlips
  /\ stuck \subseteq Emails

\* Handlers that are past the check of e and have not counted yet.
PastCheck(e) ==
  {h \in Handlers : handler[h].pc \in {"verify", "count"} /\ handler[h].email = e}

\* Checking and counting are separate commands, so logins that overlap pass the
\* check together; but the counter runs past the limit by no more than those that
\* can overlap, and by what faults added.
OvershootIsBounded ==
  \A e \in Emails : attempts[e] < Limit + Cardinality(Handlers) + slips

\* A counter without a time to live is one some handler is about to give one,
\* unless a fault kept it from that: no order of INCR, EXPIRE and DEL of
\* overlapping logins leaves an immortal key.
CountersAreMortal ==
  \A e \in Emails :
    attempts[e] > 0 /\ e \notin expiring =>
      e \in stuck \/ \E h \in Handlers : At(h, "expire") /\ handler[h].email = e

\* So whoever is locked out is let in again.
LockoutsEnd ==
  \A e \in Emails : attempts[e] >= Limit ~> attempts[e] < Limit \/ e \in stuck
=============================================================================
