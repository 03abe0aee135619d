-------------------------- MODULE LoginGuardProofs --------------------------
(***************************************************************************)
(* Theorems about LoginGuard for any limit, e-mails, faults and any finite *)
(* number of overlapping logins.                                           *)
(***************************************************************************)
EXTENDS LoginGuard, FiniteSetTheorems, TLAPS

\* Every step of one handler changes no other.
LEMMA HandlerStep ==
  ASSUME GuardTypeOK, NEW h \in Handlers
  PROVE  /\ \A pc \in {"get", "verify", "count", "expire", "clear"} :
              /\ At(h, "get") \/ At(h, "verify") \/ At(h, "count")
              /\ Goto(h, pc)
              =>
                  /\ handler' \in [Handlers -> Login \cup {Idle}]
                  /\ handler'[h].pc = pc
                  /\ handler'[h].email = handler[h].email
                  /\ \A g \in Handlers \ {h} : handler'[g] = handler[g]
         /\ Return(h) =>
              /\ handler' \in [Handlers -> Login \cup {Idle}]
              /\ handler'[h] = Idle
              /\ \A g \in Handlers \ {h} : handler'[g] = handler[g]
BY DEF GuardTypeOK, At, Goto, Return, Login, Idle

LEMMA EmailType ==
  ASSUME GuardTypeOK, NEW h \in Handlers, ~At(h, "idle")
  PROVE  handler[h].email \in Emails
BY DEF GuardTypeOK, At, Login, Idle

-----------------------------------------------------------------------------
LEMMA GuardTypeInit == GuardInit => GuardTypeOK
BY GuardAssumption DEF GuardInit, GuardTypeOK

LEMMA GuardTypeStep == GuardTypeOK /\ [GuardNext]_guardVars => GuardTypeOK'
<1> SUFFICES ASSUME GuardTypeOK, [GuardNext]_guardVars PROVE GuardTypeOK'
  OBVIOUS
<1>1. ASSUME NEW h \in Handlers, NEW e \in Emails, NEW right \in BOOLEAN,
             Take(h, e, right)
      PROVE  GuardTypeOK'
  <2> DEFINE login == [pc |-> "get", email |-> e, right |-> right]
  <2>1. login \in Login
    BY DEF Login
  <2>2. /\ handler' = [handler EXCEPT ![h] = login]
        /\ attempts' = attempts /\ expiring' = expiring /\ server' = server
        /\ slips' = slips /\ stuck' = stuck
    BY <1>1 DEF Take
  <2> HIDE DEF login
  <2>3. QED
    BY <2>1, <2>2 DEF GuardTypeOK
<1>2. ASSUME NEW h \in Handlers, Get(h) PROVE GuardTypeOK'
  BY <1>2, HandlerStep DEF GuardTypeOK, Get
<1>3. ASSUME NEW h \in Handlers, GetFails(h) PROVE GuardTypeOK'
  BY <1>3, HandlerStep, GuardAssumption DEF GuardTypeOK, GetFails
<1>4. ASSUME NEW h \in Handlers, Verify(h) PROVE GuardTypeOK'
  BY <1>4, HandlerStep DEF GuardTypeOK, Verify
<1>5. ASSUME NEW h \in Handlers, Count(h) PROVE GuardTypeOK'
  <2>1. handler' \in [Handlers -> Login \cup {Idle}]
    BY <1>5, HandlerStep DEF Count
  <2>2. /\ attempts' \in [Emails -> Nat]
        /\ \A d \in Emails : attempts[d] > 0 => attempts'[d] > 0
    <3> DEFINE e == handler[h].email
    <3>1. e \in Emails /\ attempts' = [attempts EXCEPT ![e] = @ + 1]
      BY <1>5, EmailType DEF Count, At
    <3> HIDE DEF e
    <3>2. QED
      BY <3>1 DEF GuardTypeOK
  <2>3. /\ expiring' = expiring /\ server' = server
        /\ slips' = slips /\ stuck' = stuck
    BY <1>5 DEF Count
  <2>4. QED
    BY <2>1, <2>2, <2>3 DEF GuardTypeOK
<1>6. ASSUME NEW h \in Handlers, CountFails(h) PROVE GuardTypeOK'
  <2>1. /\ handler' \in [Handlers -> Login \cup {Idle}]
        /\ handler[h].email \in Emails
    BY <1>6, HandlerStep, EmailType DEF CountFails, At
  <2>2. QED
    BY <1>6, <2>1, GuardAssumption DEF GuardTypeOK, CountFails
<1>7. ASSUME NEW h \in Handlers, Expire(h) PROVE GuardTypeOK'
  <2>1. /\ handler' \in [Handlers -> Login \cup {Idle}]
        /\ handler[h].email \in Emails
    BY <1>7, HandlerStep, EmailType DEF Expire, At
  <2>2. QED
    BY <1>7, <2>1 DEF GuardTypeOK, Expire
<1>8. ASSUME NEW h \in Handlers, ExpireFails(h) PROVE GuardTypeOK'
  BY <1>8, HandlerStep DEF GuardTypeOK, ExpireFails, LeftBehind
<1>9. ASSUME NEW h \in Handlers, Clear(h) PROVE GuardTypeOK'
  <2>1. handler' \in [Handlers -> Login \cup {Idle}]
    BY <1>9, HandlerStep DEF Clear
  <2>2. QED
    BY <1>9, <2>1 DEF GuardTypeOK, Clear
<1>10. ASSUME NEW e \in Emails, KeyExpires(e) PROVE GuardTypeOK'
  BY <1>10 DEF GuardTypeOK, KeyExpires
<1>11. CASE GuardLifecycle
  BY <1>11 DEF GuardTypeOK, GuardLifecycle, GuardStop, GuardExit, GuardCrash,
               GuardRestart, LeftBehind
<1>12. CASE UNCHANGED guardVars
  BY <1>12 DEF GuardTypeOK, guardVars
<1>13. QED
  BY <1>1, <1>2, <1>3, <1>4, <1>5, <1>6, <1>7, <1>8, <1>9, <1>10, <1>11, <1>12
     DEF GuardNext, GuardStep, GuardFault

\* Counters and handlers have their types, and only keys that are there have a
\* time to live.
THEOREM GuardTypeCorrect == GuardSpec => []GuardTypeOK
BY GuardTypeInit, GuardTypeStep, PTL DEF GuardSpec

-----------------------------------------------------------------------------
(* Counters are mortal.                                                    *)

LEMMA MortalInit == GuardInit => CountersAreMortal
BY DEF GuardInit, CountersAreMortal

LEMMA MortalStep ==
  GuardTypeOK /\ CountersAreMortal /\ [GuardNext]_guardVars => CountersAreMortal'
<1> SUFFICES ASSUME GuardTypeOK, CountersAreMortal, [GuardNext]_guardVars
             PROVE  CountersAreMortal'
  OBVIOUS
\* Steps that leave the keys alone and the handlers at "expire" where they are.
<1>1. ASSUME NEW h \in Handlers, attempts' = attempts, expiring' = expiring,
             stuck \subseteq stuck', ~At(h, "expire"),
             \A g \in Handlers \ {h} : handler'[g] = handler[g]
      PROVE  CountersAreMortal'
  BY <1>1 DEF CountersAreMortal, At
<1>2. ASSUME NEW h \in Handlers, NEW e \in Emails, NEW right \in BOOLEAN,
             Take(h, e, right)
      PROVE  CountersAreMortal'
  <2>1. \A g \in Handlers \ {h} : handler'[g] = handler[g]
    BY <1>2 DEF Take, GuardTypeOK
  <2>2. QED
    BY <1>1, <1>2, <2>1 DEF Take, At
<1>3. ASSUME NEW h \in Handlers, Get(h) \/ GetFails(h) \/ Verify(h)
      PROVE  CountersAreMortal'
  <2>1. \A g \in Handlers \ {h} : handler'[g] = handler[g]
    BY <1>3, HandlerStep DEF Get, GetFails, Verify
  <2>2. QED
    BY <1>1, <1>3, <2>1 DEF Get, GetFails, Verify, At
<1>4. ASSUME NEW h \in Handlers, Count(h) PROVE CountersAreMortal'
  <2> DEFINE e == handler[h].email
  <2>1. /\ At(h, "count") /\ e \in Emails
        /\ attempts' = [attempts EXCEPT ![e] = @ + 1]
        /\ expiring' = expiring /\ stuck' = stuck
        /\ \A g \in Handlers \ {h} : handler'[g] = handler[g]
    BY <1>4, HandlerStep, EmailType DEF Count, At
  <2>2. attempts[e] = 0 => handler'[h].pc = "expire" /\ handler'[h].email = e
    BY <1>4, HandlerStep DEF Count
  <2> HIDE DEF e
  <2>3. QED
    BY <2>1, <2>2 DEF CountersAreMortal, GuardTypeOK, At
<1>5. ASSUME NEW h \in Handlers, CountFails(h) PROVE CountersAreMortal'
  <2> DEFINE e == handler[h].email
  <2>1. /\ At(h, "count") /\ e \in Emails
        /\ expiring' = expiring
        /\ \A g \in Handlers \ {h} : handler'[g] = handler[g]
    BY <1>5, HandlerStep, EmailType DEF CountFails, At
  <2>2. \/ attempts' = attempts /\ stuck' = stuck
        \/ /\ \A d \in Emails \ {e} : attempts'[d] = attempts[d]
           /\ attempts[e] = 0 => e \in stuck'
           /\ stuck \subseteq stuck'
    BY <1>5, <2>1 DEF CountFails, GuardTypeOK
  <2> HIDE DEF e
  <2>3. QED
    BY <2>1, <2>2 DEF CountersAreMortal, GuardTypeOK, At
<1>6. ASSUME NEW h \in Handlers, Expire(h) \/ ExpireFails(h)
      PROVE  CountersAreMortal'
  <2> DEFINE e == handler[h].email
  <2>1. /\ At(h, "expire") /\ e \in Emails
        /\ attempts' = attempts /\ expiring \subseteq expiring'
        /\ stuck \subseteq stuck'
        /\ \A g \in Handlers \ {h} : handler'[g] = handler[g]
        /\ attempts[e] > 0 => e \in expiring' \/ e \in stuck'
    BY <1>6, HandlerStep, EmailType DEF Expire, ExpireFails, LeftBehind, At
  <2> HIDE DEF e
  <2>2. \A g \in Handlers : g # h \/ handler[g].email = e
    BY DEF e
  <2>3. QED
    BY <2>1, <2>2 DEF CountersAreMortal, GuardTypeOK, At
<1>7. ASSUME NEW h \in Handlers, Clear(h) PROVE CountersAreMortal'
  <2>1. /\ At(h, "clear") /\ handler[h].email \in Emails
        /\ \A g \in Handlers \ {h} : handler'[g] = handler[g]
    BY <1>7, HandlerStep, EmailType DEF Clear, At
  <2>2. QED
    BY <1>7, <2>1 DEF Clear, CountersAreMortal, GuardTypeOK, At
<1>8. ASSUME NEW e \in Emails, KeyExpires(e) PROVE CountersAreMortal'
  BY <1>8 DEF KeyExpires, CountersAreMortal, GuardTypeOK, At
<1>9. CASE GuardLifecycle
  BY <1>9 DEF GuardLifecycle, GuardStop, GuardExit, GuardCrash, GuardRestart,
              LeftBehind, CountersAreMortal, At
<1>10. CASE UNCHANGED guardVars
  BY <1>10 DEF guardVars, CountersAreMortal, At
<1>11. QED
  BY <1>2, <1>3, <1>4, <1>5, <1>6, <1>7, <1>8, <1>9, <1>10
     DEF GuardNext, GuardStep, GuardFault

\* No order of INCR, EXPIRE and DEL of any number of overlapping logins leaves a
\* counter that nobody will ever expire, faults apart (grpc_handler.go 94-101).
THEOREM CountersExpire == GuardSpec => []CountersAreMortal
BY GuardTypeInit, GuardTypeStep, MortalInit, MortalStep, PTL DEF GuardSpec

-----------------------------------------------------------------------------
(* The overshoot.  What can still be counted, the handlers past the check, *)
(* is added to what has been: handlers only pass while the count is below  *)
(* the limit, and there are only so many of them.                          *)

Room == Limit + Cardinality(Handlers) + slips

OvershootInv == \A e \in Emails : attempts[e] + Cardinality(PastCheck(e)) < Room

LEMMA PastCheckFinite ==
  ASSUME NEW e \in Emails
  PROVE  /\ IsFiniteSet(PastCheck(e))
         /\ Cardinality(PastCheck(e)) \in Nat
         /\ Cardinality(PastCheck(e)) <= Cardinality(Handlers)
         /\ Cardinality(Handlers) \in Nat
BY FS_Subset, FS_CardinalityType, GuardAssumption DEF PastCheck

\* One handler passes the check, or counts, or leaves: sizes follow.
LEMMA Sizes ==
  ASSUME NEW A, NEW B, NEW h, IsFiniteSet(A)
  PROVE  /\ B \subseteq A => IsFiniteSet(B) /\ Cardinality(B) <= Cardinality(A)
         /\ B \subseteq A \cup {h} => Cardinality(B) <= Cardinality(A) + 1
         /\ h \in A /\ B \subseteq A \ {h} => Cardinality(B) <= Cardinality(A) - 1
<1>1. Cardinality(A) \in Nat
  BY FS_CardinalityType
<1>2. ASSUME B \subseteq A
      PROVE  IsFiniteSet(B) /\ Cardinality(B) <= Cardinality(A)
  BY <1>2, FS_Subset
<1>3. ASSUME B \subseteq A \cup {h} PROVE Cardinality(B) <= Cardinality(A) + 1
  <2>1. /\ IsFiniteSet(A \cup {h})
        /\ Cardinality(A \cup {h}) <= Cardinality(A) + 1
    BY <1>1, FS_AddElement
  <2>2. /\ Cardinality(B) <= Cardinality(A \cup {h})
        /\ Cardinality(B) \in Nat /\ Cardinality(A \cup {h}) \in Nat
    BY <1>3, <2>1, FS_Subset, FS_CardinalityType
  <2>3. QED
    BY <1>1, <2>1, <2>2
<1>4. ASSUME h \in A, B \subseteq A \ {h} PROVE Cardinality(B) <= Cardinality(A) - 1
  <2>1. IsFiniteSet(A \ {h}) /\ Cardinality(A \ {h}) = Cardinality(A) - 1
    BY <1>4, FS_RemoveElement
  <2>2. Cardinality(B) <= Cardinality(A \ {h})
    BY <1>4, <2>1, FS_Subset
  <2>3. QED
    BY <2>1, <2>2
<1>5. QED
  BY <1>2, <1>3, <1>4

LEMMA OvershootInit == GuardInit => OvershootInv
<1> SUFFICES ASSUME GuardInit, NEW e \in Emails
             PROVE  attempts[e] + Cardinality(PastCheck(e)) < Room
  BY DEF OvershootInv
<1>1. PastCheck(e) = {} /\ attempts[e] = 0 /\ slips = 0
  BY DEF GuardInit, PastCheck, Idle
<1>2. QED
  BY <1>1, FS_EmptySet, PastCheckFinite, GuardAssumption DEF Room

LEMMA OvershootStep ==
  GuardTypeOK /\ GuardTypeOK' /\ OvershootInv /\ [GuardNext]_guardVars => OvershootInv'
<1> SUFFICES ASSUME GuardTypeOK, GuardTypeOK', OvershootInv, [GuardNext]_guardVars
             PROVE  OvershootInv'
  OBVIOUS
<1> DEFINE past(e) == Cardinality(PastCheck(e))
<1>1. \A e \in Emails :
        /\ past(e) \in Nat /\ past(e)' \in Nat
        /\ past(e) <= Cardinality(Handlers) /\ past(e)' <= Cardinality(Handlers)
        /\ attempts[e] \in Nat /\ attempts'[e] \in Nat
        /\ attempts[e] + past(e) < Room
  <2>1. ASSUME NEW e \in Emails
        PROVE  past(e)' \in Nat /\ past(e)' <= Cardinality(Handlers)
    BY FS_Subset, FS_CardinalityType, GuardAssumption DEF PastCheck
  <2>2. QED
    BY <2>1, PastCheckFinite DEF GuardTypeOK, OvershootInv
<1>2. /\ Cardinality(Handlers) \in Nat /\ Limit \in Nat /\ Limit > 0
      /\ slips \in Nat /\ slips' \in Nat
  BY FS_CardinalityType, GuardAssumption DEF GuardTypeOK
<1> HIDE DEF past
\* A handler that passes the check found the count below the limit; a key that
\* is gone leaves room for every handler.
<1>3. ASSUME NEW e \in Emails, attempts'[e] < Limit
      PROVE  (attempts[e] + past(e) < Room)'
  BY <1>1, <1>2, <1>3 DEF Room
<1>4. ASSUME NEW e \in Emails, attempts'[e] = attempts[e], slips' >= slips,
             PastCheck(e)' \subseteq PastCheck(e)
      PROVE  (attempts[e] + past(e) < Room)'
  <2>1. past(e)' <= past(e)
    BY <1>4, PastCheckFinite, Sizes DEF past
  <2>2. QED
    BY <1>1, <1>2, <1>4, <2>1 DEF Room
<1>5. ASSUME NEW h \in Handlers, Get(h) PROVE OvershootInv'
  <2>1. ASSUME NEW e \in Emails PROVE (attempts[e] + past(e) < Room)'
    <3>1. /\ attempts' = attempts /\ slips' = slips
          /\ \A g \in Handlers \ {h} : handler'[g] = handler[g]
          /\ \/ handler'[h] = Idle
             \/ handler'[h].email = handler[h].email /\ attempts[handler[h].email] < Limit
      <4>1. CASE attempts[handler[h].email] >= Limit
        BY <1>5, <4>1, HandlerStep DEF Get
      <4>2. CASE ~(attempts[handler[h].email] >= Limit)
        <5>1. attempts[handler[h].email] \in Nat
          BY <1>1, <1>5, EmailType DEF Get, At
        <5>2. attempts[handler[h].email] < Limit
          BY <1>2, <4>2, <5>1
        <5>3. QED
          BY <1>5, <4>2, <5>2, HandlerStep DEF Get
      <4>3. QED
        BY <4>1, <4>2
    <3>2. CASE attempts[e] < Limit
      BY <1>3, <3>1, <3>2
    <3>3. CASE ~(attempts[e] < Limit)
      <4>1. PastCheck(e)' \subseteq PastCheck(e)
        BY <3>1, <3>3 DEF PastCheck, Idle
      <4>2. QED
        BY <1>2, <1>4, <3>1, <4>1
    <3>4. QED
      BY <3>2, <3>3
  <2>2. QED
    BY <2>1 DEF OvershootInv, past
<1>6. ASSUME NEW h \in Handlers, GetFails(h) PROVE OvershootInv'
  <2>1. ASSUME NEW e \in Emails PROVE (attempts[e] + past(e) < Room)'
    <3>1. /\ attempts' = attempts /\ slips' = slips + 1
          /\ \A g \in Handlers \ {h} : handler'[g] = handler[g]
      BY <1>6, HandlerStep DEF GetFails
    <3>2. PastCheck(e)' \subseteq PastCheck(e) \cup {h}
      BY <3>1 DEF PastCheck
    <3>3. past(e)' <= past(e) + 1
      BY <3>2, PastCheckFinite, Sizes DEF past
    <3>4. QED
      BY <1>1, <1>2, <3>1, <3>3 DEF Room
  <2>2. QED
    BY <2>1 DEF OvershootInv, past
\* Counting moves a handler from the ones past the check into the count.
<1>7. ASSUME NEW h \in Handlers, Count(h) \/ CountFails(h) PROVE OvershootInv'
  <2>1. ASSUME NEW e \in Emails PROVE (attempts[e] + past(e) < Room)'
    <3>1. /\ At(h, "count") /\ handler[h].email \in Emails
          /\ \A g \in Handlers \ {h} : handler'[g] = handler[g]
          /\ handler'[h].pc \notin {"verify", "count"}
      BY <1>7, HandlerStep, EmailType DEF Count, CountFails, At, Idle
    <3>2. PastCheck(e)' \subseteq PastCheck(e) \ {h}
      BY <3>1 DEF PastCheck
    <3>3. slips' >= slips
      BY <1>2, <1>7 DEF Count, CountFails
    <3>4. CASE handler[h].email = e
      <4>1. h \in PastCheck(e)
        BY <3>1, <3>4 DEF PastCheck, At
      <4>2. past(e)' <= past(e) - 1
        BY <3>2, <4>1, PastCheckFinite, Sizes DEF past
      <4>3. attempts'[e] <= attempts[e] + 1 + (slips' - slips)
        <5>1. CASE Count(h)
          BY <1>1, <1>2, <3>4, <5>1 DEF Count, GuardTypeOK
        <5>2. CASE CountFails(h)
          BY <1>1, <1>2, <3>4, <5>2 DEF CountFails, GuardTypeOK
        <5>3. QED
          BY <1>7, <5>1, <5>2
      <4>4. QED
        BY <1>1, <1>2, <4>2, <4>3 DEF Room
    <3>5. CASE handler[h].email # e
      <4>1. attempts'[e] = attempts[e]
        BY <1>7, <3>1, <3>5 DEF Count, CountFails, GuardTypeOK
      <4>2. QED
        BY <1>4, <3>2, <3>3, <4>1
    <3>6. QED
      BY <3>4, <3>5
  <2>2. QED
    BY <2>1 DEF OvershootInv, past
\* The other steps let nobody past the check and only lower counts.
<1>8. ASSUME slips' = slips,
             \A e \in Emails : attempts'[e] = attempts[e] \/ attempts'[e] = 0,
             \A e \in Emails : PastCheck(e)' \subseteq PastCheck(e)
      PROVE  OvershootInv'
  <2>1. ASSUME NEW e \in Emails PROVE (attempts[e] + past(e) < Room)'
    BY <1>2, <1>3, <1>4, <1>8
  <2>2. QED
    BY <2>1 DEF OvershootInv, past
<1>9. ASSUME NEW h \in Handlers, NEW e \in Emails, NEW right \in BOOLEAN,
             Take(h, e, right)
      PROVE  OvershootInv'
  <2>1. /\ handler'[h].pc = "get"
        /\ \A g \in Handlers \ {h} : handler'[g] = handler[g]
    BY <1>9 DEF Take, GuardTypeOK
  <2>2. QED
    BY <1>8, <1>9, <2>1 DEF Take, PastCheck
<1>10. ASSUME NEW h \in Handlers, Verify(h) PROVE OvershootInv'
  <2>1. /\ handler'[h].email = handler[h].email
        /\ \A g \in Handlers \ {h} : handler'[g] = handler[g]
    BY <1>10, HandlerStep DEF Verify
  <2>2. QED
    BY <1>8, <1>10, <2>1 DEF Verify, PastCheck, At
<1>11. ASSUME NEW h \in Handlers, Expire(h) \/ ExpireFails(h) \/ Clear(h)
       PROVE  OvershootInv'
  <2>1. /\ handler'[h] = Idle
        /\ \A g \in Handlers \ {h} : handler'[g] = handler[g]
    BY <1>11, HandlerStep DEF Expire, ExpireFails, Clear
  <2>2. \A e \in Emails : attempts'[e] = attempts[e] \/ attempts'[e] = 0
    BY <1>11 DEF Expire, ExpireFails, Clear, GuardTypeOK
  <2>3. QED
    BY <1>8, <1>11, <2>1, <2>2 DEF Expire, ExpireFails, Clear, PastCheck, Idle
<1>12. ASSUME NEW e \in Emails, KeyExpires(e) PROVE OvershootInv'
  BY <1>8, <1>12 DEF KeyExpires, PastCheck, GuardTypeOK
<1>13. CASE GuardLifecycle
  BY <1>8, <1>13 DEF GuardLifecycle, GuardStop, GuardExit, GuardCrash,
                     GuardRestart, PastCheck, Idle
<1>14. CASE UNCHANGED guardVars
  BY <1>8, <1>14 DEF guardVars, PastCheck
<1>15. QED
  BY <1>5, <1>6, <1>7, <1>9, <1>10, <1>11, <1>12, <1>13, <1>14
     DEF GuardNext, GuardStep, GuardFault

\* Logins that overlap can pass the check together, and still the counter never
\* runs past the limit by more than their number and what faults added
\* (grpc_handler.go 87-94).
THEOREM OvershootBounded == GuardSpec => []OvershootIsBounded
<1>1. GuardTypeOK /\ OvershootInv => OvershootIsBounded
  <2> SUFFICES ASSUME GuardTypeOK, OvershootInv, NEW e \in Emails
               PROVE  attempts[e] < Room
    BY DEF OvershootIsBounded, Room
  <2>1. attempts[e] \in Nat /\ attempts[e] + Cardinality(PastCheck(e)) < Room
    BY DEF GuardTypeOK, OvershootInv
  <2>2. Cardinality(PastCheck(e)) \in Nat /\ Cardinality(Handlers) \in Nat
    BY PastCheckFinite
  <2>3. QED
    BY <2>1, <2>2, GuardAssumption DEF Room, GuardTypeOK
<1>2. QED
  BY <1>1, GuardTypeInit, GuardTypeStep, OvershootInit, OvershootStep, PTL
     DEF GuardSpec
=============================================================================
