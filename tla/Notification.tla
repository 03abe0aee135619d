---------------------------- MODULE Notification ----------------------------
(***************************************************************************)
(* The notification service (notification/internal): one consumer of the   *)
(* task topic, which tells the manager of a task's worker that the task    *)
(* needs help.                                                             *)
(*                                                                         *)
(* ReadMessage fetches a record and commits its offset BEFORE the loop     *)
(* hands it to HandleEvent, and whatever HandleEvent returns is only       *)
(* logged.  A record is therefore handled at most once; everything that    *)
(* fails after the commit loses it.                                        *)
(***************************************************************************)
EXTENDS Naturals, Sequences

CONSTANTS
  Partitions,   \* partitions of the topic
  Records,      \* what the topic may hold
  Junk,         \* records the handler drops: not JSON, no id, other status
  WorkerOf,     \* the user id of a record
  Workers,      \* user ids of workers
  Managers,     \* user ids of managers
  Staff,        \* workers registered, with a manager, from the start
  None,         \* a user without a manager
  Absent,       \* a user who is not in auth's table
  Outages,      \* which of OutageKinds may happen
  MaxTopic      \* bound of the model: records in a partition

OutageKinds == {"commit_fails", "commit_reply_lost", "rpc_fails", "crash"}

ASSUME JunkAssumption == Junk \subseteq Records
ASSUME WorkerOfAssumption == WorkerOf \in [Records -> Workers]
ASSUME StaffAssumption == Staff \subseteq Workers
ASSUME NobodyAssumption == None \notin Managers /\ Absent \notin Managers
ASSUME OutagesAssumption == Outages \subseteq OutageKinds
ASSUME MaxTopicAssumption == MaxTopic \in Nat

VARIABLES
  topic,       \* the topic, one log for each partition
  users,       \* auth's table: each worker's manager, None or Absent
  committed,   \* the group's offset: records committed in each partition
  position,    \* records the reader has fetched from each partition
  consumer,    \* the loop: "fetch", "commit", "handle", or "down"
  current,     \* the record in hand
  sent,        \* notifications written, in order
  spoiled      \* history: places of the log whose last handling an outage ended

vars == <<topic, users, committed, position, consumer, current, sent, spoiled>>

-----------------------------------------------------------------------------
Place == [partition : Partitions, offset : Nat]

NotificationSent == [partition : Partitions, offset : Nat, record : Records,
                     recipient : Managers]

Init ==
  /\ topic = [p \in Partitions |-> <<>>]
  /\ users \in [Workers -> Managers \cup {Absent}]
  /\ \A w \in Workers : users[w] \in Managers <=> w \in Staff
  /\ committed = [p \in Partitions |-> 0]
  /\ position = [p \in Partitions |-> 0]
  /\ consumer = "fetch"
  /\ current \in [partition : Partitions, offset : {0}]
  /\ sent = <<>>
  /\ spoiled = {}

\* A producer appends a record.
Produce(p, m) ==
  /\ topic' = [topic EXCEPT ![p] = Append(@, m)]
  /\ UNCHANGED <<users, committed, position, consumer, current, sent, spoiled>>

\* Mutant of Register: a user may be given another manager.
RegisterAgain(w, m) ==
  /\ users[w] # m
  /\ users' = [users EXCEPT ![w] = m]
  /\ UNCHANGED <<topic, committed, position, consumer, current, sent, spoiled>>

\* auth.Register: a user, with or without a manager, joins; nothing in auth
\* ever changes the manager of a user.
Register(w, m) ==
  /\ users[w] = Absent
  /\ users' = [users EXCEPT ![w] = m]
  /\ UNCHANGED <<topic, committed, position, consumer, current, sent, spoiled>>

\* ReadMessage, first half: the next record of some partition.
Fetch(p) ==
  /\ consumer = "fetch"
  /\ position[p] < Len(topic[p])
  /\ position' = [position EXCEPT ![p] = @ + 1]
  /\ current' = [partition |-> p, offset |-> position[p] + 1]
  /\ consumer' = "commit"
  /\ spoiled' = spoiled \ {[partition |-> p, offset |-> position[p] + 1]}
  /\ UNCHANGED <<topic, users, committed, sent>>

\* Mutant of Commit: everything there is to read is committed.
CommitHighWater ==
  /\ consumer = "commit"
  /\ committed' = [committed EXCEPT ![current.partition] =
                     Len(topic[current.partition])]
  /\ \/ consumer' = "handle" /\ UNCHANGED spoiled
     \/ /\ "commit_reply_lost" \in Outages
        /\ consumer' = "fetch"
        /\ spoiled' = spoiled \cup {current}
  /\ UNCHANGED <<topic, users, position, current, sent>>

\* ReadMessage, second half: the offset of that record is committed.
Commit ==
  /\ consumer = "commit"
  /\ committed' = [committed EXCEPT ![current.partition] = current.offset]
  /\ \/ consumer' = "handle" /\ UNCHANGED spoiled
     \/ /\ "commit_reply_lost" \in Outages
        /\ consumer' = "fetch"
        /\ spoiled' = spoiled \cup {current}
  /\ UNCHANGED <<topic, users, position, current, sent>>

\* ReadMessage returns an error: the loop goes on with the NEXT record, which
\* the reader's position has already moved to.
CommitFails ==
  /\ "commit_fails" \in Outages
  /\ consumer = "commit"
  /\ consumer' = "fetch"
  /\ spoiled' = spoiled \cup {current}
  /\ UNCHANGED <<topic, users, committed, position, current, sent>>

InHand == topic[current.partition][current.offset]

\* auth.GetManager for the worker of the record in hand: a manager, None for a
\* user without one, Absent for NotFound.
Resolved == users[WorkerOf[InHand]]

\* The client gives auth five seconds; an error is logged like one of the record.
CallFails == "rpc_fails" \in Outages

\* HandleEvent tells the manager auth.GetManager names.
Notify ==
  /\ consumer = "handle"
  /\ InHand \notin Junk
  /\ Resolved \in Managers
  /\ sent' = Append(sent, [partition |-> current.partition,
                           offset |-> current.offset,
                           record |-> InHand,
                           recipient |-> Resolved])
  /\ consumer' = "fetch"
  /\ UNCHANGED <<topic, users, committed, position, current, spoiled>>

\* Mutant of Drop: a record that cannot be parsed is tried for ever.
DropParsed ==
  /\ consumer = "handle"
  /\ InHand \notin Junk
  /\ \/ Resolved \notin Managers /\ UNCHANGED spoiled
     \/ CallFails /\ spoiled' = spoiled \cup {current}
  /\ consumer' = "fetch"
  /\ UNCHANGED <<topic, users, committed, position, current, sent>>

\* Nothing to tell or nobody to tell it to, or auth does not answer: logged, and
\* the record is gone.
Drop ==
  /\ consumer = "handle"
  /\ \/ (InHand \in Junk \/ Resolved \notin Managers) /\ UNCHANGED spoiled
     \/ CallFails /\ spoiled' = spoiled \cup {current}
  /\ consumer' = "fetch"
  /\ UNCHANGED <<topic, users, committed, position, current, sent>>

\* The process dies, or main returns on a signal without waiting for the loop.
Crash ==
  /\ "crash" \in Outages
  /\ consumer # "down"
  /\ consumer' = "down"
  /\ spoiled' = IF consumer = "handle" THEN spoiled \cup {current} ELSE spoiled
  /\ UNCHANGED <<topic, users, committed, position, current, sent>>

\* Mutant of Restart: a new process starts at the first record.
RestartFromFirst ==
  /\ consumer = "down"
  /\ consumer' = "fetch"
  /\ position' = [p \in Partitions |-> 0]
  /\ UNCHANGED <<topic, users, committed, current, sent, spoiled>>

\* Mutant of Restart: a new process starts behind the last record.
RestartFromLast ==
  /\ consumer = "down"
  /\ consumer' = "fetch"
  /\ position' = [p \in Partitions |-> Len(topic[p])]
  /\ UNCHANGED <<topic, users, committed, current, sent, spoiled>>

\* A new process joins the group at the committed offsets.
Restart ==
  /\ consumer = "down"
  /\ consumer' = "fetch"
  /\ position' = committed
  /\ UNCHANGED <<topic, users, committed, current, sent, spoiled>>

Loop == (\E p \in Partitions : Fetch(p)) \/ Commit \/ Notify \/ Drop

ConsumerNext == Loop \/ CommitFails \/ Crash \/ Restart

Next ==
  \/ \E p \in Partitions, m \in Records : Len(topic[p]) < MaxTopic /\ Produce(p, m)
  \/ \E w \in Workers, m \in Managers \cup {None} : Register(w, m)
  \/ ConsumerNext

Spec == Init /\ [][Next]_vars

\* The loop is one goroutine that is never blocked for good: Kafka serves every
\* partition with records, and each call it makes has a timeout.  Nobody has to
\* produce or register, or to start a process that died.
Fairness ==
  /\ \A p \in Partitions : SF_vars(Fetch(p))
  /\ WF_vars(Commit \/ Notify \/ Drop)

FairSpec == Spec /\ Fairness
-----------------------------------------------------------------------------
\* Offsets and the record in hand are what the loop's place in ReadMessage and
\* HandleEvent says they are.
TypeOK ==
  /\ topic \in [Partitions -> Seq(Records)]
  /\ users \in [Workers -> Managers \cup {None, Absent}]
  /\ committed \in [Partitions -> Nat]
  /\ position \in [Partitions -> Nat]
  /\ consumer \in {"fetch", "commit", "handle", "down"}
  /\ current \in Place
  /\ sent \in Seq(NotificationSent)
  /\ spoiled \subseteq Place
  /\ \A p \in Partitions : /\ committed[p] <= position[p]
                           /\ position[p] <= Len(topic[p])
  /\ consumer \in {"commit", "handle"} =>
       current.offset = position[current.partition] /\ current.offset > 0

\* Whatever fails, no record is told twice, and the records of a partition are
\* told in their order (consumer.go 57-74: the offset is committed first).
OnceInOrder ==
  \A j, k \in 1..Len(sent) :
    j < k /\ sent[j].partition = sent[k].partition =>
      sent[j].offset < sent[k].offset

\* Each notification is about the record at its place in the log and went to
\* the manager auth has for the worker in it, now as then (handler.go 44-56).
ToldTheManager ==
  \A k \in 1..Len(sent) :
    /\ sent[k].record = topic[sent[k].partition][sent[k].offset]
    /\ sent[k].recipient = users[WorkerOf[sent[k].record]]

Told(p, i) == \E k \in 1..Len(sent) :
                sent[k].partition = p /\ sent[k].offset = i

\* Through any outages and restarts, every record behind the committed offset
\* that is about a worker with a manager was told, or is in hand, or is one whose
\* own handling an outage ended: a later commit that covers it, another
\* partition, or a process that takes over skips no record by itself (consumer.go
\* 57-74: the loop goes on from its position, a new process from the offset).
NothingSkipped ==
  \A p \in Partitions : \A i \in 1..committed[p] :
    \/ topic[p][i] \in Junk
    \/ WorkerOf[topic[p][i]] \notin Staff
    \/ Told(p, i)
    \/ consumer = "handle" /\ current.partition = p /\ current.offset = i
    \/ [partition |-> p, offset |-> i] \in spoiled

\* No record blocks the ones behind it once the process stays up: junk,
\* a worker nobody knows, a commit or a call that fails, all are passed
\* (consumer.go 58-74).
NothingBlocks ==
  <>[](consumer # "down") =>
    \A p \in Partitions : \A i \in 1..MaxTopic :
      i <= Len(topic[p]) ~> position[p] >= i
=============================================================================
