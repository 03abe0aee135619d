------------------------- MODULE NotificationProofs -------------------------
(***************************************************************************)
(* Theorems about Notification for any partitions, records and outages.    *)
(***************************************************************************)
EXTENDS Notification, TLAPS

USE NobodyAssumption, WorkerOfAssumption DEF Resolved

\* The service on a topic of any length: nothing proved rests on MaxTopic.
AnyNext ==
  \/ \E p \in Partitions, m \in Records : Produce(p, m)
  \/ \E w \in Workers, m \in Managers \cup {None} : Register(w, m)
  \/ ConsumerNext

AnySpec == Init /\ [][AnyNext]_vars

LEMMA BoundIsTheModels == Spec => AnySpec
<1>1. [Next]_vars => [AnyNext]_vars
  BY DEF Next, AnyNext
<1>2. QED
  BY <1>1, PTL DEF Spec, AnySpec

LEMMA TypeInit == Init => TypeOK
BY DEF Init, TypeOK, Place

LEMMA TypeStep == TypeOK /\ [AnyNext]_vars => TypeOK'
<1> SUFFICES ASSUME TypeOK, [AnyNext]_vars PROVE TypeOK'
  OBVIOUS
<1>1. ASSUME NEW p \in Partitions, NEW m \in Records, Produce(p, m)
      PROVE  TypeOK'
  <2>1. /\ topic' \in [Partitions -> Seq(Records)]
        /\ \A q \in Partitions : Len(topic[q]) <= Len(topic'[q])
    BY <1>1 DEF Produce, TypeOK
  <2>2. QED BY <1>1, <2>1 DEF Produce, TypeOK
<1>2. ASSUME NEW w \in Workers, NEW m \in Managers \cup {None}, Register(w, m)
      PROVE  TypeOK'
  BY <1>2 DEF Register, TypeOK
<1>3. ASSUME NEW p \in Partitions, Fetch(p) PROVE TypeOK'
  BY <1>3 DEF Fetch, TypeOK, Place
<1>4. CASE Commit
  <2>1. current.partition \in Partitions /\ current.offset \in Nat
    BY DEF TypeOK, Place
  <2>2. QED BY <1>4, <2>1 DEF Commit, TypeOK
<1>5. CASE CommitFails \/ Drop \/ Crash \/ Restart
  BY <1>5 DEF CommitFails, Drop, Crash, Restart, TypeOK
<1>6. CASE Notify
  <2>1. /\ current.partition \in Partitions
        /\ current.offset \in 1..Len(topic[current.partition])
    BY <1>6 DEF Notify, TypeOK, Place
  <2>2. QED
    BY <1>6, <2>1 DEF Notify, InHand, TypeOK, NotificationSent
<1>7. CASE UNCHANGED vars
  BY <1>7 DEF TypeOK, vars
<1>8. QED
  BY <1>1, <1>2, <1>3, <1>4, <1>5, <1>6, <1>7 DEF AnyNext, ConsumerNext, Loop

LEMMA AnyTypeCorrect == AnySpec => []TypeOK
<1>1. QED BY TypeInit, TypeStep, PTL DEF AnySpec

\* Every reachable state is well typed; in particular the committed offset never
\* runs ahead of the reader's position, nor that of the log.
THEOREM TypeCorrect == Spec => []TypeOK
<1>1. QED BY AnyTypeCorrect, BoundIsTheModels, PTL
-----------------------------------------------------------------------------
(* At most once, in order.                                                 *)

\* What was told lies behind the committed offset, and before the record in
\* hand; the record in hand is committed just before it is handled.
Behind ==
  /\ \A k \in 1..Len(sent) :
       sent[k].offset \in 1..committed[sent[k].partition]
  /\ consumer = "commit" => committed[current.partition] < current.offset
  /\ consumer = "handle" =>
       /\ committed[current.partition] = current.offset
       /\ \A k \in 1..Len(sent) :
            sent[k].partition = current.partition =>
              sent[k].offset < current.offset

OrderInv == Behind /\ OnceInOrder /\ ToldTheManager

LEMMA OrderInit == Init => OrderInv
BY DEF Init, OrderInv, Behind, OnceInOrder, ToldTheManager

\* The facts about an entry that a step needs.
LEMMA SentEntry ==
  ASSUME TypeOK, Behind, NEW k \in 1..Len(sent)
  PROVE  /\ sent[k] \in NotificationSent
         /\ sent[k].partition \in Partitions
         /\ sent[k].offset \in 1..Len(topic[sent[k].partition])
         /\ sent[k].record \in Records
         /\ WorkerOf[sent[k].record] \in Workers
         /\ sent[k].recipient \in Managers
<1>1. sent[k] \in NotificationSent
  BY DEF TypeOK
<1>2. /\ sent[k].partition \in Partitions
      /\ sent[k].record \in Records /\ sent[k].recipient \in Managers
  BY <1>1 DEF NotificationSent
<1>3. sent[k].offset \in 1..Len(topic[sent[k].partition])
  BY <1>2 DEF Behind, TypeOK
<1>4. QED BY <1>1, <1>2, <1>3

LEMMA OrderStep == TypeOK /\ OrderInv /\ [AnyNext]_vars => OrderInv'
<1> SUFFICES ASSUME TypeOK, OrderInv, [AnyNext]_vars PROVE OrderInv'
  OBVIOUS
<1>1. ASSUME NEW p \in Partitions, NEW m \in Records, Produce(p, m)
      PROVE  OrderInv'
  <2>1. \A q \in Partitions : \A i \in 1..Len(topic[q]) :
          topic'[q][i] = topic[q][i]
    BY <1>1 DEF Produce, TypeOK
  <2>2. ToldTheManager'
    BY <1>1, <2>1, SentEntry DEF Produce, OrderInv, ToldTheManager
  <2>3. QED
    BY <1>1, <2>2 DEF Produce, OrderInv, Behind, OnceInOrder
<1>2. ASSUME NEW w \in Workers, NEW m \in Managers \cup {None}, Register(w, m)
      PROVE  OrderInv'
  <2>1. \A v \in Workers : users[v] \in Managers => users'[v] = users[v]
    BY <1>2 DEF Register, TypeOK
  <2>2. ToldTheManager'
    BY <1>2, <2>1, SentEntry DEF Register, OrderInv, ToldTheManager
  <2>3. QED
    BY <1>2, <2>2 DEF Register, OrderInv, Behind, OnceInOrder
<1>3. ASSUME NEW p \in Partitions, Fetch(p) PROVE OrderInv'
  <2>1. committed[p] < position[p] + 1
    BY DEF TypeOK
  <2>2. QED
    BY <1>3, <2>1
    DEF Fetch, OrderInv, Behind, OnceInOrder, ToldTheManager
<1>4. CASE Commit
  <2> DEFINE p == current.partition
  <2>1. p \in Partitions /\ current.offset \in Nat
        /\ committed[p] \in Nat /\ committed[p] < current.offset
    BY <1>4 DEF Commit, TypeOK, Place, OrderInv, Behind
  <2>2. /\ committed'[p] = current.offset
        /\ \A q \in Partitions : q # p => committed'[q] = committed[q]
    BY <1>4, <2>1 DEF Commit, TypeOK
  <2>3. ASSUME NEW k \in 1..Len(sent)
        PROVE  /\ sent[k].offset \in 1..committed'[sent[k].partition]
               /\ sent[k].partition = p => sent[k].offset < current.offset
    <3>1. /\ sent[k].partition \in Partitions
          /\ sent[k].offset \in 1..committed[sent[k].partition]
      BY SentEntry DEF OrderInv, Behind
    <3>2. QED BY <2>1, <2>2, <3>1 DEF TypeOK
  <2>4. Behind'
    BY <1>4, <2>2, <2>3 DEF Commit, Behind
  <2>5. QED
    BY <1>4, <2>4 DEF Commit, OrderInv, OnceInOrder, ToldTheManager
<1>5. CASE CommitFails \/ Drop \/ Crash \/ Restart
  BY <1>5 DEF CommitFails, Drop, Crash, Restart, OrderInv, Behind, OnceInOrder,
              ToldTheManager
<1>6. CASE Notify
  <2> DEFINE e == [partition |-> current.partition, offset |-> current.offset,
                   record |-> InHand,
                   recipient |-> users[WorkerOf[InHand]]]
             n == Len(sent)
  <2>1. /\ current.partition \in Partitions
        /\ current.offset \in 1..Len(topic[current.partition])
        /\ current.offset = committed[current.partition]
    BY <1>6 DEF Notify, TypeOK, Place, OrderInv, Behind
  <2>2. e \in NotificationSent
    <3>1. InHand \in Records
      BY <2>1 DEF InHand, TypeOK
    <3>2. users[WorkerOf[InHand]] \in Managers
      BY <1>6 DEF Notify
    <3>3. QED BY <2>1, <3>1, <3>2 DEF NotificationSent, TypeOK
  <2>3. /\ n \in Nat
        /\ Len(sent') = n + 1
        /\ sent'[n + 1] = e
        /\ \A k \in 1..n : sent'[k] = sent[k]
    BY <1>6, <2>2 DEF Notify, TypeOK
  <2>4. UNCHANGED <<topic, users, committed, current>> /\ consumer' = "fetch"
    BY <1>6 DEF Notify
  <2>5. \A k \in 1..n : sent[k].partition = e.partition =>
          sent[k].offset < e.offset
    BY <1>6 DEF Notify, OrderInv, Behind
  <2>6. Behind'
    BY <2>1, <2>3, <2>4 DEF OrderInv, Behind
  <2>7. OnceInOrder'
    <3> SUFFICES ASSUME NEW j \in 1..(n + 1), NEW k \in 1..(n + 1), j < k,
                        sent'[j].partition = sent'[k].partition
                 PROVE  sent'[j].offset < sent'[k].offset
      BY <2>3 DEF OnceInOrder
    <3>1. j \in 1..n /\ sent'[j] = sent[j]
      BY <2>3
    <3>2. CASE k = n + 1
      BY <2>3, <2>5, <3>1, <3>2
    <3>3. CASE k \in 1..n
      BY <2>3, <3>1, <3>3 DEF OrderInv, OnceInOrder
    <3>4. QED BY <2>3, <3>2, <3>3
  <2>8. ToldTheManager'
    BY <2>3, <2>4 DEF OrderInv, ToldTheManager, InHand
  <2>9. QED BY <2>6, <2>7, <2>8 DEF OrderInv
<1>7. CASE UNCHANGED vars
  BY <1>7 DEF vars, OrderInv, Behind, OnceInOrder, ToldTheManager
<1>8. QED
  BY <1>1, <1>2, <1>3, <1>4, <1>5, <1>6, <1>7 DEF AnyNext, ConsumerNext, Loop

LEMMA OrderAlways == AnySpec => []OrderInv
<1>1. QED BY OrderInit, OrderStep, AnyTypeCorrect, PTL DEF AnySpec

\* Whatever fails or restarts, a record is told at most once and the records of
\* a partition in their order.
THEOREM ToldOnceInOrder == Spec => []OnceInOrder
<1>1. OrderInv => OnceInOrder
  BY DEF OrderInv
<1>2. QED BY <1>1, OrderAlways, BoundIsTheModels, PTL

\* A notification is about the record at its place and reached the manager of
\* the worker in it.
THEOREM TheManagerIsTold == Spec => []ToldTheManager
<1>1. OrderInv => ToldTheManager
  BY DEF OrderInv
<1>2. QED BY <1>1, OrderAlways, BoundIsTheModels, PTL
-----------------------------------------------------------------------------
(* Nothing is skipped.                                                     *)

\* Who had a manager at the start has one.
StaffInv == \A w \in Staff : users[w] \in Managers

At(p, i) == [partition |-> p, offset |-> i]

\* What a running consumer has fetched beyond the committed offset, and a later
\* commit is about to cover, is the record it is committing, or spoiled.
AheadIsKnown ==
  consumer # "down" =>
    \A p \in Partitions : \A i \in (committed[p] + 1)..position[p] :
      \/ At(p, i) \in spoiled
      \/ consumer = "commit" /\ current = At(p, i)

SkipInv == NothingSkipped /\ AheadIsKnown

LEMMA StaffInit == Init => StaffInv
BY StaffAssumption DEF Init, StaffInv

LEMMA StaffStep == StaffInv /\ [AnyNext]_vars => StaffInv'
<1> SUFFICES ASSUME StaffInv, [AnyNext]_vars PROVE StaffInv'
  OBVIOUS
<1>1. ASSUME NEW w \in Workers, NEW m, Register(w, m), NEW v \in Staff
      PROVE  users'[v] \in Managers
  BY <1>1 DEF Register, StaffInv
<1>2. CASE UNCHANGED users
  BY <1>2 DEF StaffInv
<1>3. QED
  BY <1>1, <1>2 DEF AnyNext, ConsumerNext, Loop, Produce, Fetch, Commit, Notify,
                    Drop, CommitFails, Crash, Restart, vars, StaffInv

LEMMA SkipInit == Init => SkipInv
BY DEF Init, SkipInv, NothingSkipped, AheadIsKnown

LEMMA SkipStep == TypeOK /\ StaffInv /\ SkipInv /\ [AnyNext]_vars => SkipInv'
<1> SUFFICES ASSUME TypeOK, StaffInv, SkipInv, [AnyNext]_vars PROVE SkipInv'
  OBVIOUS
<1>1. ASSUME NEW p \in Partitions, NEW m \in Records, Produce(p, m)
      PROVE  SkipInv'
  <2>1. \A q \in Partitions : \A i \in 1..Len(topic[q]) :
          topic'[q][i] = topic[q][i]
    BY <1>1 DEF Produce, TypeOK
  <2>2. \A q \in Partitions : \A i \in 1..committed[q] : i \in 1..Len(topic[q])
    BY DEF TypeOK
  <2>3. NothingSkipped'
    BY <1>1, <2>1, <2>2 DEF Produce, SkipInv, NothingSkipped, Told
  <2>4. QED
    BY <1>1, <2>3 DEF Produce, SkipInv, AheadIsKnown
<1>2. CASE UNCHANGED <<topic, committed, position, consumer, current, sent, spoiled>>
  BY <1>2 DEF SkipInv, NothingSkipped, AheadIsKnown, Told
<1>3. ASSUME NEW p \in Partitions, Fetch(p) PROVE SkipInv'
  <2>1. /\ consumer = "fetch" /\ consumer' = "commit"
        /\ position' = [position EXCEPT ![p] = @ + 1]
        /\ current' = At(p, position[p] + 1)
        /\ spoiled' = spoiled \ {At(p, position[p] + 1)}
        /\ UNCHANGED <<topic, committed, sent>>
    BY <1>3 DEF Fetch, At
  <2>2. \A q \in Partitions : \A i \in 1..position[q] :
          At(q, i) # At(p, position[p] + 1)
    BY DEF At, TypeOK
  <2>3. \A q \in Partitions : \A i \in 1..committed[q] : i \in 1..position[q]
    BY DEF TypeOK
  <2>4. NothingSkipped'
    BY <2>1, <2>2, <2>3 DEF SkipInv, NothingSkipped, Told, At
  <2>5. ASSUME NEW q \in Partitions, NEW i \in (committed[q] + 1)..position'[q]
        PROVE  At(q, i) \in spoiled' \/ current' = At(q, i)
    <3>1. i \in (committed[q] + 1)..position[q] \/ At(q, i) = current'
      BY <2>1 DEF TypeOK
    <3>2. i \in 1..position[q] \/ At(q, i) = current'
      BY <3>1 DEF TypeOK
    <3>3. QED
      BY <2>1, <2>2, <3>1, <3>2 DEF SkipInv, AheadIsKnown
  <2>6. QED
    BY <2>1, <2>4, <2>5 DEF SkipInv, AheadIsKnown
<1>4. CASE Commit
  <2> DEFINE p == current.partition
  <2>1. /\ p \in Partitions /\ current.offset = position[p]
        /\ current = At(p, position[p])
        /\ committed[p] \in Nat /\ position[p] \in Nat
    BY <1>4 DEF Commit, TypeOK, Place, At
  <2>2. /\ committed' = [committed EXCEPT ![p] = position[p]]
        /\ consumer' = "handle" \/ current \in spoiled'
        /\ consumer' \in {"handle", "fetch"}
        /\ spoiled \subseteq spoiled'
        /\ UNCHANGED <<topic, position, current, sent>>
    BY <1>4, <2>1 DEF Commit, At
  <2>3. ASSUME NEW q \in Partitions, NEW i \in 1..committed'[q],
               i \notin 1..committed[q]
        PROVE  \/ At(q, i) \in spoiled'
               \/ consumer' = "handle" /\ current' = At(q, i)
    <3>1. q = p /\ i \in (committed[q] + 1)..position[q]
      BY <2>1, <2>2, <2>3 DEF TypeOK
    <3>2. At(q, i) \in spoiled \/ current = At(q, i)
      BY <1>4, <3>1 DEF Commit, SkipInv, AheadIsKnown
    <3>3. QED
      BY <2>2, <3>2
  <2>4. ASSUME NEW q \in Partitions, NEW i \in 1..committed'[q]
        PROVE  \/ topic'[q][i] \in Junk
               \/ WorkerOf[topic'[q][i]] \notin Staff
               \/ Told(q, i)'
               \/ /\ consumer' = "handle"
                  /\ current'.partition = q /\ current'.offset = i
               \/ At(q, i) \in spoiled'
    <3>1. CASE i \in 1..committed[q]
      BY <1>4, <2>2, <3>1 DEF Commit, SkipInv, NothingSkipped, Told, At
    <3>2. CASE i \notin 1..committed[q]
      BY <2>3, <3>2 DEF At
    <3>3. QED
      BY <3>1, <3>2
  <2>5. NothingSkipped'
    BY <2>4 DEF NothingSkipped, At
  <2>6. ASSUME NEW q \in Partitions, NEW i \in (committed'[q] + 1)..position'[q]
        PROVE  At(q, i) \in spoiled'
    <3>1. q # p /\ i \in (committed[q] + 1)..position[q]
      BY <2>1, <2>2 DEF TypeOK
    <3>2. current # At(q, i)
      BY <2>1, <3>1 DEF At
    <3>3. QED
      BY <1>4, <2>2, <3>1, <3>2 DEF Commit, SkipInv, AheadIsKnown
  <2>7. QED
    BY <2>5, <2>6 DEF SkipInv, AheadIsKnown
<1>5. CASE Notify
  <2> DEFINE e == [partition |-> current.partition, offset |-> current.offset,
                   record |-> InHand, recipient |-> users[WorkerOf[InHand]]]
             n == Len(sent)
  <2>1. /\ n \in Nat /\ Len(sent') = n + 1 /\ sent'[n + 1] = e
        /\ \A k \in 1..n : sent'[k] = sent[k]
    BY <1>5 DEF Notify, TypeOK
  <2>2. /\ UNCHANGED <<topic, users, committed, position, current, spoiled>>
        /\ consumer = "handle" /\ consumer' = "fetch"
    BY <1>5 DEF Notify
  <2>3. Told(current.partition, current.offset)'
    BY <2>1, <2>2 DEF Told
  <2>4. \A q, i : Told(q, i) => Told(q, i)'
    BY <2>1 DEF Told
  <2>5. NothingSkipped'
    BY <2>2, <2>3, <2>4 DEF SkipInv, NothingSkipped
  <2>6. QED
    BY <2>2, <2>5 DEF SkipInv, AheadIsKnown
<1>6. CASE Drop
  <2>1. \/ InHand \in Junk \/ WorkerOf[InHand] \notin Staff
        \/ current \in spoiled'
    BY <1>6 DEF Drop, StaffInv
  <2>2. /\ UNCHANGED <<topic, users, committed, position, current, sent>>
        /\ consumer = "handle" /\ consumer' = "fetch"
        /\ spoiled \subseteq spoiled'
    BY <1>6 DEF Drop
  <2>3. current = At(current.partition, current.offset)
    BY DEF TypeOK, Place, At
  <2>4. NothingSkipped'
    BY <2>1, <2>2, <2>3 DEF SkipInv, NothingSkipped, Told, InHand, At
  <2>5. QED
    BY <2>2, <2>4 DEF SkipInv, AheadIsKnown
<1>7. CASE CommitFails
  BY <1>7 DEF CommitFails, SkipInv, NothingSkipped, AheadIsKnown, Told
<1>8. CASE Crash
  <2>1. /\ UNCHANGED <<topic, users, committed, position, current, sent>>
        /\ consumer' = "down" /\ spoiled \subseteq spoiled'
        /\ consumer = "handle" => current \in spoiled'
    BY <1>8 DEF Crash
  <2>2. current = At(current.partition, current.offset)
    BY DEF TypeOK, Place, At
  <2>3. NothingSkipped'
    BY <2>1, <2>2 DEF SkipInv, NothingSkipped, Told, At
  <2>4. QED
    BY <2>1, <2>3 DEF SkipInv, AheadIsKnown
<1>9. CASE Restart
  <2>1. NothingSkipped'
    BY <1>9 DEF Restart, SkipInv, NothingSkipped, Told
  <2>2. AheadIsKnown'
    BY <1>9 DEF Restart, AheadIsKnown, TypeOK
  <2>3. QED
    BY <2>1, <2>2 DEF SkipInv
<1>10. QED
  BY <1>1, <1>2, <1>3, <1>4, <1>5, <1>6, <1>7, <1>8, <1>9
     DEF AnyNext, ConsumerNext, Loop, Register, vars

LEMMA SkipAlways == AnySpec => []SkipInv
<1>1. QED
  BY StaffInit, StaffStep, SkipInit, SkipStep, AnyTypeCorrect, PTL DEF AnySpec

\* Through any outages and restarts, every record behind the committed offset
\* about a worker with a manager was told, but for the one in hand and those whose
\* own handling an outage ended: neither committing first, nor a later commit that
\* covers it, nor a process that takes over skips a record (consumer.go 57-74).
THEOREM NoneIsSkipped == Spec => []NothingSkipped
<1>1. SkipInv => NothingSkipped
  BY DEF SkipInv
<1>2. QED
  BY <1>1, SkipAlways, BoundIsTheModels, PTL
=============================================================================
