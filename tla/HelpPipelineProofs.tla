------------------------- MODULE HelpPipelineProofs -------------------------
(***************************************************************************)
(* Theorems about the way from an update of a task to a notification.      *)
(*                                                                         *)
(* Each service alone sees the pipeline as a behaviour of its own.  What   *)
(* TaskServiceProofs proves therefore holds of the task service here; the  *)
(* prover cannot cite NotificationProofs through an instance, so what is   *)
(* needed of the consumer is proved here for the topic it really reads.    *)
(***************************************************************************)
EXTENDS HelpPipeline, TaskServiceProofs

\* The consumer's view of a step: a topic some producer appends to.
NotifierNext ==
  \/ \E p \in Partitions, e \in TaskEvent : Notifier!Produce(p, e)
  \/ \E w \in Workers, m \in Managers \cup {None} : Notifier!Register(w, m)
  \/ Notifier!ConsumerNext

notifierVars ==
  <<topic, users, committed, position, consumer, current, sent, spoiled>>

NotifierSpec == Notifier!Init /\ [][NotifierNext]_notifierVars

LEMMA ConsumerLeavesTopic == Notifier!ConsumerNext => UNCHANGED <<topic, users>>
BY DEF Notifier!ConsumerNext, Notifier!Loop, Notifier!Fetch, Notifier!Commit,
       Notifier!Notify, Notifier!Drop, Notifier!CommitFails, Notifier!Crash,
       Notifier!Restart

LEMMA StepIsTaskStep == [PipelineNext]_pipelineVars => [Next]_vars
<1> SUFFICES ASSUME [PipelineNext]_pipelineVars PROVE [Next]_vars
  OBVIOUS
<1>1. CASE NotifierStep
  BY <1>1, ConsumerLeavesTopic DEF NotifierStep, vars
<1>2. CASE RegisterStep
  BY <1>2 DEF RegisterStep, Notifier!Register, vars
<1>3. QED
  BY <1>1, <1>2 DEF PipelineNext, TaskStep, pipelineVars

\* The task service touches the topic only to append one event.
LEMMA TopicStep ==
  ASSUME [Next]_vars
  PROVE  \/ topic' = topic
         \/ \E p \in Partitions, e \in TaskEvent :
              topic' = [topic EXCEPT ![p] = Append(@, e)]
<1>1. ASSUME NEW e \in TaskEvent, Deliver(e), topic' # topic
      PROVE  \E p \in Partitions : topic' = [topic EXCEPT ![p] = Append(@, e)]
  BY <1>1 DEF Deliver, Publish, PublishAndRetry, PublishLost, Store
<1>2. QED
  BY <1>1 DEF Next, Receive, Step, Reject, ReceiveCreate, ReceiveUpdate, Insert,
              ReadExisting, Write, Reread, Database, DbError, Hang, Wake, Stop,
              Exit, Crash, Restart, vars

LEMMA StepIsNotifierStep ==
  [PipelineNext]_pipelineVars => [NotifierNext]_notifierVars
<1> SUFFICES ASSUME [PipelineNext]_pipelineVars PROVE [NotifierNext]_notifierVars
  OBVIOUS
<1>1. CASE TaskStep
  <2>1. UNCHANGED readerVars
    BY <1>1 DEF TaskStep
  <2>2. \/ topic' = topic
        \/ \E p \in Partitions, e \in TaskEvent : Notifier!Produce(p, e)
    BY <1>1, <2>1, TopicStep DEF TaskStep, readerVars, Notifier!Produce
  <2>3. QED
    BY <2>1, <2>2 DEF NotifierNext, notifierVars, readerVars
<1>2. CASE NotifierStep
  BY <1>2 DEF NotifierStep, NotifierNext
<1>3. CASE RegisterStep
  BY <1>3 DEF RegisterStep, NotifierNext
<1>4. QED
  BY <1>1, <1>2, <1>3
     DEF PipelineNext, pipelineVars, readerVars, notifierVars, vars

\* The services share only the topic: neither does to the other what it could
\* not meet alone (main.go of each: separate processes).
THEOREM PipelineImplementsBoth == PipelineSpec => Spec /\ NotifierSpec
<1>1. PipelineInit => Init /\ Notifier!Init
  BY DEF PipelineInit
<1>2. QED
  BY <1>1, StepIsTaskStep, StepIsNotifierStep, PTL
     DEF PipelineSpec, Spec, NotifierSpec
-----------------------------------------------------------------------------
(* The consumer, on the topic of the task service.                         *)

USE UsersAssumption DEF Notifier!Resolved

LEMMA ReaderTypeInit == Notifier!Init => Notifier!TypeOK
BY DEF Notifier!Init, Notifier!TypeOK, Notifier!Place

LEMMA ReaderTypeStep ==
  Notifier!TypeOK /\ [NotifierNext]_notifierVars => Notifier!TypeOK'
<1> SUFFICES ASSUME Notifier!TypeOK, [NotifierNext]_notifierVars
             PROVE  Notifier!TypeOK'
  OBVIOUS
<1> USE DEF Notifier!TypeOK
<1>1. ASSUME NEW p \in Partitions, NEW e \in TaskEvent, Notifier!Produce(p, e)
      PROVE  Notifier!TypeOK'
  <2>1. /\ topic' \in [Partitions -> Seq(TaskEvent)]
        /\ \A q \in Partitions : Len(topic[q]) <= Len(topic'[q])
    BY <1>1 DEF Notifier!Produce
  <2>2. QED
    BY <1>1, <2>1 DEF Notifier!Produce
<1>2. ASSUME NEW w \in Workers, NEW m \in Managers \cup {None},
             Notifier!Register(w, m)
      PROVE  Notifier!TypeOK'
  BY <1>2 DEF Notifier!Register
<1>3. ASSUME NEW p \in Partitions, Notifier!Fetch(p) PROVE Notifier!TypeOK'
  BY <1>3 DEF Notifier!Fetch, Notifier!Place
<1>4. CASE Notifier!Commit
  <2>1. current.partition \in Partitions /\ current.offset \in Nat
    BY DEF Notifier!Place
  <2>2. QED
    BY <1>4, <2>1 DEF Notifier!Commit
<1>5. CASE \/ Notifier!CommitFails \/ Notifier!Drop
           \/ Notifier!Crash \/ Notifier!Restart
  BY <1>5 DEF Notifier!CommitFails, Notifier!Drop, Notifier!Crash,
              Notifier!Restart
<1>6. CASE Notifier!Notify
  <2>1. /\ current.partition \in Partitions
        /\ current.offset \in 1..Len(topic[current.partition])
    BY <1>6 DEF Notifier!Notify, Notifier!Place
  <2>2. QED
    BY <1>6, <2>1
       DEF Notifier!Notify, Notifier!InHand, Notifier!NotificationSent
<1>7. CASE UNCHANGED notifierVars
  BY <1>7 DEF notifierVars
<1>8. QED
  BY <1>1, <1>2, <1>3, <1>4, <1>5, <1>6, <1>7
     DEF NotifierNext, Notifier!ConsumerNext, Notifier!Loop

LEMMA ReaderTypeCorrect == NotifierSpec => []Notifier!TypeOK
<1>1. QED
  BY ReaderTypeInit, ReaderTypeStep, PTL DEF NotifierSpec

\* What was told lies behind the committed offset, and before the record in
\* hand; it stands in the topic, and its reader was the worker's manager.
ReaderInv ==
  /\ \A k \in 1..Len(sent) :
       sent[k].offset \in 1..committed[sent[k].partition]
  /\ consumer = "commit" => committed[current.partition] < current.offset
  /\ consumer = "handle" =>
       /\ committed[current.partition] = current.offset
       /\ \A k \in 1..Len(sent) :
            sent[k].partition = current.partition =>
              sent[k].offset < current.offset
  /\ Notifier!OnceInOrder
  /\ Notifier!ToldTheManager

LEMMA ReaderInit == Notifier!Init => ReaderInv
BY DEF Notifier!Init, ReaderInv, Notifier!OnceInOrder, Notifier!ToldTheManager

\* The facts about an entry that a step needs.
LEMMA SentEntry ==
  ASSUME Notifier!TypeOK, ReaderInv, NEW k \in 1..Len(sent)
  PROVE  /\ sent[k] \in Notifier!NotificationSent
         /\ sent[k].partition \in Partitions
         /\ sent[k].offset \in 1..Len(topic[sent[k].partition])
         /\ sent[k].record = topic[sent[k].partition][sent[k].offset]
         /\ sent[k].record \in TaskEvent /\ sent[k].record.worker \in Workers
         /\ sent[k].recipient = users[sent[k].record.worker]
         /\ sent[k].recipient \in Managers
<1>1. sent[k] \in Notifier!NotificationSent
  BY DEF Notifier!TypeOK
<1>2. /\ sent[k].partition \in Partitions
      /\ sent[k].record \in TaskEvent /\ sent[k].recipient \in Managers
  BY <1>1 DEF Notifier!NotificationSent
<1>3. sent[k].offset \in 1..Len(topic[sent[k].partition])
  BY <1>2 DEF ReaderInv, Notifier!TypeOK
<1>4. sent[k].record.worker \in Workers
  BY <1>2 DEF TaskEvent
<1>5. QED
  BY <1>1, <1>2, <1>3, <1>4 DEF ReaderInv, Notifier!ToldTheManager

LEMMA ReaderStep ==
  Notifier!TypeOK /\ ReaderInv /\ [NotifierNext]_notifierVars => ReaderInv'
<1> SUFFICES ASSUME Notifier!TypeOK, ReaderInv, [NotifierNext]_notifierVars
             PROVE  ReaderInv'
  OBVIOUS
\* The order is disturbed by what is told only; that, and who is told, by what
\* appends to the topic or registers a user.
<1>1. ASSUME NEW p \in Partitions, NEW e \in TaskEvent, Notifier!Produce(p, e)
      PROVE  ReaderInv'
  <2>1. \A q \in Partitions : \A i \in 1..Len(topic[q]) :
          topic'[q][i] = topic[q][i]
    BY <1>1 DEF Notifier!Produce, Notifier!TypeOK
  <2>2. Notifier!ToldTheManager'
    BY <1>1, <2>1, SentEntry
       DEF Notifier!Produce, ReaderInv, Notifier!ToldTheManager
  <2>3. QED
    BY <1>1, <2>2 DEF Notifier!Produce, ReaderInv, Notifier!OnceInOrder
<1>2. ASSUME NEW w \in Workers, NEW m \in Managers \cup {None},
             Notifier!Register(w, m)
      PROVE  ReaderInv'
  <2>1. \A v \in Workers : users[v] \in Managers => users'[v] = users[v]
    BY <1>2 DEF Notifier!Register, Notifier!TypeOK
  <2>2. Notifier!ToldTheManager'
    BY <1>2, <2>1, SentEntry DEF Notifier!Register, Notifier!ToldTheManager
  <2>3. QED
    BY <1>2, <2>2 DEF Notifier!Register, ReaderInv, Notifier!OnceInOrder
<1>3. ASSUME NEW p \in Partitions, Notifier!Fetch(p) PROVE ReaderInv'
  <2>1. committed[p] < position[p] + 1
    BY DEF Notifier!TypeOK
  <2>2. QED
    BY <1>3, <2>1 DEF Notifier!Fetch, ReaderInv, Notifier!OnceInOrder,
                      Notifier!ToldTheManager
<1>4. CASE Notifier!Commit
  <2> DEFINE p == current.partition
  <2>1. /\ p \in Partitions /\ current.offset \in Nat
        /\ committed[p] \in Nat /\ committed[p] < current.offset
    BY <1>4 DEF Notifier!Commit, Notifier!TypeOK, Notifier!Place, ReaderInv
  <2>2. /\ committed'[p] = current.offset
        /\ \A q \in Partitions : q # p => committed'[q] = committed[q]
    BY <1>4, <2>1 DEF Notifier!Commit, Notifier!TypeOK
  <2>3. ASSUME NEW k \in 1..Len(sent)
        PROVE  /\ sent[k].offset \in 1..committed'[sent[k].partition]
               /\ sent[k].partition = p => sent[k].offset < current.offset
    <3>1. /\ sent[k].partition \in Partitions
          /\ sent[k].offset \in 1..committed[sent[k].partition]
      BY SentEntry DEF ReaderInv
    <3>2. QED
      BY <2>1, <2>2, <3>1 DEF Notifier!TypeOK
  <2>4. QED
    BY <1>4, <2>2, <2>3 DEF Notifier!Commit, ReaderInv, Notifier!OnceInOrder,
                            Notifier!ToldTheManager
<1>5. CASE \/ Notifier!CommitFails \/ Notifier!Drop
           \/ Notifier!Crash \/ Notifier!Restart
  BY <1>5 DEF Notifier!CommitFails, Notifier!Drop, Notifier!Crash,
              Notifier!Restart, ReaderInv, Notifier!OnceInOrder,
              Notifier!ToldTheManager
<1>6. CASE Notifier!Notify
  <2> DEFINE e == Notifier!InHand
             n == Len(sent)
             told == [partition |-> current.partition, offset |-> current.offset,
                      record |-> e, recipient |-> users[e.worker]]
  <2>1. /\ current.partition \in Partitions
        /\ current.offset \in 1..Len(topic[current.partition])
        /\ current.offset = committed[current.partition]
    BY <1>6 DEF Notifier!Notify, Notifier!TypeOK, Notifier!Place, ReaderInv
  <2>2. e \in TaskEvent
    BY <2>1 DEF Notifier!InHand, Notifier!TypeOK
  <2>3. /\ n \in Nat
        /\ Len(sent') = n + 1
        /\ sent'[n + 1] = told
        /\ \A k \in 1..n : sent'[k] = sent[k]
    BY <1>6, <2>2 DEF Notifier!Notify, Notifier!TypeOK
  <2>4. UNCHANGED <<topic, users, committed, current>> /\ consumer' = "fetch"
    BY <1>6 DEF Notifier!Notify
  <2>5. \A k \in 1..n : sent[k].partition = told.partition =>
          sent[k].offset < told.offset
    BY <1>6 DEF Notifier!Notify, ReaderInv
  <2>6. Notifier!OnceInOrder'
    <3> SUFFICES ASSUME NEW j \in 1..(n + 1), NEW k \in 1..(n + 1), j < k,
                        sent'[j].partition = sent'[k].partition
                 PROVE  sent'[j].offset < sent'[k].offset
      BY <2>3 DEF Notifier!OnceInOrder
    <3>1. j \in 1..n /\ sent'[j] = sent[j]
      BY <2>3
    <3>2. CASE k = n + 1
      BY <2>3, <2>5, <3>1, <3>2
    <3>3. CASE k \in 1..n
      BY <2>3, <3>1, <3>3 DEF ReaderInv, Notifier!OnceInOrder
    <3>4. QED
      BY <2>3, <3>2, <3>3
  <2>7. Notifier!ToldTheManager'
    BY <2>2, <2>3, <2>4 DEF ReaderInv, Notifier!ToldTheManager, Notifier!InHand
  <2>8. \A k \in 1..(n + 1) : sent'[k].offset \in 1..committed[sent'[k].partition]
    BY <2>1, <2>3 DEF ReaderInv
  <2>9. QED
    BY <2>3, <2>4, <2>6, <2>7, <2>8 DEF ReaderInv
<1>7. CASE UNCHANGED notifierVars
  BY <1>7 DEF notifierVars, ReaderInv, Notifier!OnceInOrder,
              Notifier!ToldTheManager
<1>8. QED
  BY <1>1, <1>2, <1>3, <1>4, <1>5, <1>6, <1>7
     DEF NotifierNext, Notifier!ConsumerNext, Notifier!Loop

LEMMA ReaderAlways == NotifierSpec => [](Notifier!TypeOK /\ ReaderInv)
<1>1. QED
  BY ReaderInit, ReaderStep, ReaderTypeCorrect, PTL DEF NotifierSpec
-----------------------------------------------------------------------------
(* What managers are told.                                                 *)

\* A notification is about an event that is in the topic.
LEMMA SentIsPublished ==
  ASSUME Notifier!TypeOK, ReaderInv, NEW k \in 1..Len(sent)
  PROVE  sent[k].record \in Published
BY SentEntry DEF Published

\* Whatever calls overlap and whichever process fails, a manager is only told of
\* help some committed update asked for, and is still the manager of the worker
\* the task still has (service.go 97-110, handler.go 44-56).
THEOREM TrueNotifications == PipelineSpec => []NotificationsAreTrue
<1>1. Notifier!TypeOK /\ ReaderInv /\ EventsAreTrue /\ AskedInv
        => NotificationsAreTrue
  BY SentEntry, SentIsPublished
     DEF EventsAreTrue, AskedInv, NotificationsAreTrue
<1>2. QED
  BY <1>1, PipelineImplementsBoth, EventsTrue, AskedAlways, ReaderAlways, PTL

LEMMA SamePlace ==
  ASSUME OnePlace, NEW p \in Partitions, NEW q \in Partitions,
         NEW x \in 1..Len(topic[p]), NEW y \in 1..Len(topic[q]),
         topic[p][x].timestamp = topic[q][y].timestamp
  PROVE  p = q /\ x = y
<1>1. \A i \in 1..Len(topic[p]), j \in 1..Len(topic[q]) :
        topic[p][i].timestamp = topic[q][j].timestamp => p = q /\ i = j
  BY DEF OnePlace
<1>2. QED
  BY <1>1

\* Unless the Kafka writer stores an event again, no update is told twice: not
\* by crashes of either service nor by commits that fail or are not confirmed.
THEOREM OncePerCall ==
  PipelineSpec => []("publish_retry" \notin Faults => ToldOncePerCall)
<1>1. ASSUME Notifier!TypeOK, ReaderInv, OnePlace PROVE ToldOncePerCall
  <2> SUFFICES ASSUME NEW j \in 1..Len(sent), NEW k \in 1..Len(sent), j < k,
                      sent[j].record.timestamp = sent[k].record.timestamp
               PROVE  FALSE
    BY DEF ToldOncePerCall
  <2>1. /\ sent[j].partition = sent[k].partition
        /\ sent[j].offset = sent[k].offset
    <3>1. \A i \in {j, k} :
            /\ sent[i].partition \in Partitions
            /\ sent[i].offset \in 1..Len(topic[sent[i].partition])
            /\ sent[i].record = topic[sent[i].partition][sent[i].offset]
      BY <1>1, SentEntry
    <3> DEFINE p == sent[j].partition
               q == sent[k].partition
               x == sent[j].offset
               y == sent[k].offset
    <3>2. /\ p \in Partitions /\ q \in Partitions
          /\ x \in 1..Len(topic[p]) /\ y \in 1..Len(topic[q])
          /\ topic[p][x].timestamp = topic[q][y].timestamp
      BY <3>1
    <3> HIDE DEF p, q, x, y
    <3>3. p = q /\ x = y
      BY <1>1, <3>2, SamePlace
    <3>4. QED
      BY <3>3 DEF p, q, x, y
  <2>2. sent[j].offset < sent[k].offset
    BY <1>1, <2>1 DEF ReaderInv, Notifier!OnceInOrder
  <2>3. QED
    BY <1>1, <2>1, <2>2, SentEntry
<1>2. Notifier!TypeOK /\ ReaderInv /\ PublishedOnce
        => ("publish_retry" \notin Faults => ToldOncePerCall)
  BY <1>1 DEF PublishedOnce
<1>3. QED
  BY <1>2, PipelineImplementsBoth, PublishedAtMostOnce, ReaderAlways, PTL
-----------------------------------------------------------------------------
(* Nothing is skipped.                                                     *)

StaffInv == \A w \in Staff : users[w] \in Managers

At(p, i) == [partition |-> p, offset |-> i]

\* What a running consumer has fetched beyond the committed offset, and a later
\* commit is about to cover, is the record it is committing, or spoiled.
AheadIsKnown ==
  consumer # "down" =>
    \A p \in Partitions : \A i \in (committed[p] + 1)..position[p] :
      \/ At(p, i) \in spoiled
      \/ consumer = "commit" /\ current = At(p, i)

SkipInv == Notifier!NothingSkipped /\ AheadIsKnown

LEMMA SkipInit == Notifier!Init => StaffInv /\ SkipInv
BY DEF Notifier!Init, StaffInv, SkipInv, AheadIsKnown, Notifier!NothingSkipped

LEMMA StaffStep == StaffInv /\ [NotifierNext]_notifierVars => StaffInv'
<1> SUFFICES ASSUME StaffInv, [NotifierNext]_notifierVars PROVE StaffInv'
  OBVIOUS
<1>1. ASSUME NEW w \in Workers, NEW m, Notifier!Register(w, m), NEW v \in Staff
      PROVE  users'[v] \in Managers
  BY <1>1 DEF Notifier!Register, StaffInv
<1>2. CASE UNCHANGED users
  BY <1>2 DEF StaffInv
<1>3. QED
  BY <1>1, <1>2, ConsumerLeavesTopic
     DEF NotifierNext, Notifier!Produce, notifierVars, StaffInv

LEMMA SkipStep ==
  Notifier!TypeOK /\ StaffInv /\ SkipInv /\ [NotifierNext]_notifierVars => SkipInv'
<1> SUFFICES ASSUME Notifier!TypeOK, StaffInv, SkipInv,
                    [NotifierNext]_notifierVars
             PROVE  SkipInv'
  OBVIOUS
<1>1. ASSUME NEW p \in Partitions, NEW e \in TaskEvent, Notifier!Produce(p, e)
      PROVE  SkipInv'
  <2>1. \A q \in Partitions : \A i \in 1..Len(topic[q]) :
          topic'[q][i] = topic[q][i]
    BY <1>1 DEF Notifier!Produce, Notifier!TypeOK
  <2>2. \A q \in Partitions : \A i \in 1..committed[q] : i \in 1..Len(topic[q])
    BY DEF Notifier!TypeOK
  <2>3. Notifier!NothingSkipped'
    BY <1>1, <2>1, <2>2
       DEF Notifier!Produce, SkipInv, Notifier!NothingSkipped, Notifier!Told
  <2>4. QED
    BY <1>1, <2>3 DEF Notifier!Produce, SkipInv, AheadIsKnown
<1>2. CASE UNCHANGED <<topic, committed, position, consumer, current, sent, spoiled>>
  BY <1>2 DEF SkipInv, Notifier!NothingSkipped, AheadIsKnown, Notifier!Told
<1>3. ASSUME NEW p \in Partitions, Notifier!Fetch(p) PROVE SkipInv'
  <2>1. /\ consumer = "fetch" /\ consumer' = "commit"
        /\ position' = [position EXCEPT ![p] = @ + 1]
        /\ current' = At(p, position[p] + 1)
        /\ spoiled' = spoiled \ {At(p, position[p] + 1)}
        /\ UNCHANGED <<topic, committed, sent>>
    BY <1>3 DEF Notifier!Fetch, At
  <2>2. \A q \in Partitions : \A i \in 1..position[q] :
          At(q, i) # At(p, position[p] + 1)
    BY DEF At, Notifier!TypeOK
  <2>3. \A q \in Partitions : \A i \in 1..committed[q] : i \in 1..position[q]
    BY DEF Notifier!TypeOK
  <2>4. Notifier!NothingSkipped'
    BY <2>1, <2>2, <2>3 DEF SkipInv, Notifier!NothingSkipped, Notifier!Told, At
  <2>5. ASSUME NEW q \in Partitions, NEW i \in (committed[q] + 1)..position'[q]
        PROVE  At(q, i) \in spoiled' \/ current' = At(q, i)
    <3>1. i \in (committed[q] + 1)..position[q] \/ At(q, i) = current'
      BY <2>1 DEF Notifier!TypeOK
    <3>2. i \in 1..position[q] \/ At(q, i) = current'
      BY <3>1 DEF Notifier!TypeOK
    <3>3. QED
      BY <2>1, <2>2, <3>1, <3>2 DEF SkipInv, AheadIsKnown
  <2>6. QED
    BY <2>1, <2>4, <2>5 DEF SkipInv, AheadIsKnown
<1>4. CASE Notifier!Commit
  <2> DEFINE p == current.partition
  <2>1. /\ p \in Partitions /\ current.offset = position[p]
        /\ current = At(p, position[p])
        /\ committed[p] \in Nat /\ position[p] \in Nat
    BY <1>4 DEF Notifier!Commit, Notifier!TypeOK, Notifier!Place, At
  <2>2. /\ committed' = [committed EXCEPT ![p] = position[p]]
        /\ consumer' = "handle" \/ current \in spoiled'
        /\ consumer' \in {"handle", "fetch"}
        /\ spoiled \subseteq spoiled'
        /\ UNCHANGED <<topic, position, current, sent>>
    BY <1>4, <2>1 DEF Notifier!Commit, At
  <2>3. ASSUME NEW q \in Partitions, NEW i \in 1..committed'[q],
               i \notin 1..committed[q]
        PROVE  \/ At(q, i) \in spoiled'
               \/ consumer' = "handle" /\ current' = At(q, i)
    <3>1. q = p /\ i \in (committed[q] + 1)..position[q]
      BY <2>1, <2>2, <2>3 DEF Notifier!TypeOK
    <3>2. At(q, i) \in spoiled \/ current = At(q, i)
      BY <1>4, <3>1 DEF Notifier!Commit, SkipInv, AheadIsKnown
    <3>3. QED
      BY <2>2, <3>2
  <2>4. ASSUME NEW q \in Partitions, NEW i \in 1..committed'[q]
        PROVE  \/ topic'[q][i] \in {}
               \/ [e \in TaskEvent |-> e.worker][topic'[q][i]] \notin Staff
               \/ Notifier!Told(q, i)'
               \/ /\ consumer' = "handle"
                  /\ current'.partition = q /\ current'.offset = i
               \/ At(q, i) \in spoiled'
    <3>1. CASE i \in 1..committed[q]
      BY <1>4, <2>2, <3>1
         DEF Notifier!Commit, SkipInv, Notifier!NothingSkipped, Notifier!Told,
             At
    <3>2. CASE i \notin 1..committed[q]
      BY <2>3, <3>2 DEF At
    <3>3. QED
      BY <3>1, <3>2
  <2>5. Notifier!NothingSkipped'
    BY <2>4 DEF Notifier!NothingSkipped, At
  <2>6. ASSUME NEW q \in Partitions, NEW i \in (committed'[q] + 1)..position'[q]
        PROVE  At(q, i) \in spoiled'
    <3>1. q # p /\ i \in (committed[q] + 1)..position[q]
      BY <2>1, <2>2 DEF Notifier!TypeOK
    <3>2. current # At(q, i)
      BY <2>1, <3>1 DEF At
    <3>3. QED
      BY <1>4, <2>2, <3>1, <3>2 DEF Notifier!Commit, SkipInv, AheadIsKnown
  <2>7. QED
    BY <2>5, <2>6 DEF SkipInv, AheadIsKnown
<1>5. CASE Notifier!Notify
  <2> DEFINE e == [partition |-> current.partition, offset |-> current.offset,
                   record |-> Notifier!InHand, recipient |-> Notifier!Resolved]
             n == Len(sent)
  <2>1. /\ n \in Nat /\ Len(sent') = n + 1 /\ sent'[n + 1] = e
        /\ \A k \in 1..n : sent'[k] = sent[k]
    BY <1>5 DEF Notifier!Notify, Notifier!TypeOK
  <2>2. /\ UNCHANGED <<topic, users, committed, position, current, spoiled>>
        /\ consumer = "handle" /\ consumer' = "fetch"
    BY <1>5 DEF Notifier!Notify
  <2>3. Notifier!Told(current.partition, current.offset)'
    BY <2>1, <2>2 DEF Notifier!Told
  <2>4. \A q, i : Notifier!Told(q, i) => Notifier!Told(q, i)'
    BY <2>1 DEF Notifier!Told
  <2>5. Notifier!NothingSkipped'
    BY <2>2, <2>3, <2>4 DEF SkipInv, Notifier!NothingSkipped
  <2>6. QED
    BY <2>2, <2>5 DEF SkipInv, AheadIsKnown
<1>6. CASE Notifier!Drop
  <2>1. \/ [e \in TaskEvent |-> e.worker][Notifier!InHand] \notin Staff
        \/ current \in spoiled'
    BY <1>6 DEF Notifier!Drop, StaffInv
  <2>2. /\ UNCHANGED <<topic, users, committed, position, current, sent>>
        /\ consumer = "handle" /\ consumer' = "fetch"
        /\ spoiled \subseteq spoiled'
    BY <1>6 DEF Notifier!Drop
  <2>3. current = At(current.partition, current.offset)
    BY DEF Notifier!TypeOK, Notifier!Place, At
  <2>4. Notifier!NothingSkipped'
    BY <2>1, <2>2, <2>3
       DEF SkipInv, Notifier!NothingSkipped, Notifier!Told, Notifier!InHand, At
  <2>5. QED
    BY <2>2, <2>4 DEF SkipInv, AheadIsKnown
<1>7. CASE Notifier!CommitFails
  BY <1>7
     DEF Notifier!CommitFails, SkipInv, Notifier!NothingSkipped, AheadIsKnown,
         Notifier!Told
<1>8. CASE Notifier!Crash
  <2>1. /\ UNCHANGED <<topic, users, committed, position, current, sent>>
        /\ consumer' = "down" /\ spoiled \subseteq spoiled'
        /\ consumer = "handle" => current \in spoiled'
    BY <1>8 DEF Notifier!Crash
  <2>2. current = At(current.partition, current.offset)
    BY DEF Notifier!TypeOK, Notifier!Place, At
  <2>3. Notifier!NothingSkipped'
    BY <2>1, <2>2 DEF SkipInv, Notifier!NothingSkipped, Notifier!Told, At
  <2>4. QED
    BY <2>1, <2>3 DEF SkipInv, AheadIsKnown
<1>9. CASE Notifier!Restart
  <2>1. Notifier!NothingSkipped'
    BY <1>9
       DEF Notifier!Restart, SkipInv, Notifier!NothingSkipped, Notifier!Told
  <2>2. AheadIsKnown'
    BY <1>9 DEF Notifier!Restart, AheadIsKnown, Notifier!TypeOK
  <2>3. QED
    BY <2>1, <2>2 DEF SkipInv
<1>10. QED
  BY <1>1, <1>2, <1>3, <1>4, <1>5, <1>6, <1>7, <1>8, <1>9
     DEF NotifierNext, Notifier!ConsumerNext, Notifier!Loop, Notifier!Register,
         notifierVars

LEMMA SkipAlways == NotifierSpec => []SkipInv
<1>1. QED
  BY SkipInit, StaffStep, SkipStep, ReaderTypeCorrect, PTL DEF NotifierSpec
-----------------------------------------------------------------------------
(* From end to end: the safety half of HelpIsHeard.                        *)

\* The event of c has yet to be published, to be read, or to be told.
OnItsWay(c) ==
  \/ c \in Owing
  \/ \E e \in outbox : e.timestamp = c
  \/ \E p \in Partitions : \E i \in (committed[p] + 1)..Len(topic[p]) :
       topic[p][i].timestamp = c
  \/ consumer = "handle" /\ Notifier!InHand.timestamp = c

\* Nobody has to be told: the worker need not have a manager.
ForNobody(c) == \E e \in asked : e.timestamp = c /\ e.worker \notin Staff

\* Where clients take turns, a manager is only called when a task starts to need
\* help, whatever fails in either service.
THEOREM OnlyEntriesAreTold ==
  PipelineSpec =>
    [](Serialised => \A k \in 1..Len(sent) : sent[k].record.timestamp \in entries)
<1>1. Notifier!TypeOK /\ ReaderInv /\ HeraldInv =>
        (Serialised => \A k \in 1..Len(sent) : sent[k].record.timestamp \in entries)
  BY SentIsPublished DEF HeraldInv, OneEventPerEntry, Heralded
<1>2. QED
  BY <1>1, PipelineImplementsBoth, HeraldAlways, ReaderAlways, PTL

\* What is published is still ahead of the consumer, in its hand, told, spoiled
\* by an outage, or about a worker who need not have a manager.
LEMMA PublishedIsHandled ==
  ASSUME Notifier!TypeOK, ReaderInv, Notifier!NothingSkipped, EventsAreTrue,
         NEW e \in Published
  PROVE  \/ OnItsWay(e.timestamp) \/ Heard(e.timestamp)
         \/ ForNobody(e.timestamp) \/ Spoiled(e.timestamp)
<1>1. PICK p \in Partitions : \E i \in 1..Len(topic[p]) : topic[p][i] = e
  BY DEF Published
<1>2. PICK i \in 1..Len(topic[p]) : topic[p][i] = e
  BY <1>1
<1>3. committed[p] \in Nat /\ e \in TaskEvent /\ e \in asked
  BY <1>2 DEF Notifier!TypeOK, EventsAreTrue
<1>4. CASE i > committed[p]
  BY <1>2, <1>3, <1>4 DEF OnItsWay
<1>5. CASE i <= committed[p]
  <2>1. \/ e.worker \notin Staff
        \/ Notifier!Told(p, i)
        \/ consumer = "handle" /\ current.partition = p /\ current.offset = i
        \/ At(p, i) \in spoiled
    <3>1. i \in 1..committed[p]
      BY <1>3, <1>5
    <3>2. [x \in TaskEvent |-> x.worker][topic[p][i]] = e.worker
      BY <1>2, <1>3
    <3>3. QED
      BY <3>1, <3>2 DEF Notifier!NothingSkipped, At
  <2>2. CASE e.worker \notin Staff
    BY <1>3, <2>2 DEF ForNobody
  <2>3. CASE Notifier!Told(p, i)
    <3>1. PICK k \in 1..Len(sent) : sent[k].partition = p /\ sent[k].offset = i
      BY <2>3 DEF Notifier!Told
    <3>2. sent[k].record = e
      BY <1>2, <3>1, SentEntry
    <3>3. QED
      BY <3>2 DEF Heard
  <2>4. CASE consumer = "handle" /\ current.partition = p /\ current.offset = i
    BY <1>2, <2>4 DEF OnItsWay, Notifier!InHand
  <2>5. CASE At(p, i) \in spoiled
    BY <1>2, <2>5 DEF Spoiled, At
  <2>6. QED
    BY <2>1, <2>2, <2>3, <2>4, <2>5
<1>6. QED
  BY <1>3, <1>4, <1>5

\* Whatever fails in either service, where clients take turns every start of a
\* need for help is on its way to a manager, has reached one, concerns a worker
\* without one, or is itself what a fault cut short or an outage met: nothing else
\* loses it (service.go 97-118, consumer.go 57-74).
THEOREM NoEntryIsLost ==
  PipelineSpec =>
    [](Serialised =>
         \A c \in entries : \/ OnItsWay(c) \/ Heard(c) \/ ForNobody(c)
                           \/ c \in cut \/ Spoiled(c))
<1>1. ASSUME Notifier!TypeOK, ReaderInv, SkipInv, EventsAreTrue, HeraldInv,
             Serialised, NEW c \in entries
      PROVE  \/ OnItsWay(c) \/ Heard(c) \/ ForNobody(c)
             \/ c \in cut \/ Spoiled(c)
  <2>1. \/ c \in Owing \/ c \in cut
        \/ \E e \in outbox \cup Published : e.timestamp = c
    BY <1>1 DEF HeraldInv, OneEventPerEntry, Heralded
  <2>2. CASE c \in Owing \/ \E e \in outbox : e.timestamp = c
    BY <2>2 DEF OnItsWay
  <2>3. ASSUME NEW e \in Published, e.timestamp = c
        PROVE  OnItsWay(c) \/ Heard(c) \/ ForNobody(c) \/ Spoiled(c)
    BY <1>1, <2>3, PublishedIsHandled DEF SkipInv
  <2>4. QED
    BY <2>1, <2>2, <2>3
<1>2. Notifier!TypeOK /\ ReaderInv /\ SkipInv /\ EventsAreTrue /\ HeraldInv =>
        (Serialised =>
           \A c \in entries : \/ OnItsWay(c) \/ Heard(c) \/ ForNobody(c)
                             \/ c \in cut \/ Spoiled(c))
  BY <1>1
<1>3. QED
  BY <1>2, PipelineImplementsBoth, EventsTrue, HeraldAlways, ReaderAlways,
     SkipAlways, PTL
=============================================================================
