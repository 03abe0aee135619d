---------------------------- MODULE HelpPipeline ----------------------------
(***************************************************************************)
(* From an update of a task to the notification of a manager: the task     *)
(* service publishes to the topic the notification service consumes, and   *)
(* the notification service asks auth for the manager of the worker.  The  *)
(* three share nothing but the topic and auth's table of users.            *)
(***************************************************************************)
EXTENDS TaskService

CONSTANTS Managers, Staff, Absent, Outages, MaxTopic

VARIABLES users, committed, position, consumer, current, sent, spoiled

Notifier == INSTANCE Notification WITH
              Records <- TaskEvent,
              Junk <- {},
              WorkerOf <- [e \in TaskEvent |-> e.worker]

\* What Notification assumes of the constants it is given here.
ASSUME UsersAssumption ==
  /\ Staff \subseteq Workers
  /\ None \notin Managers /\ Absent \notin Managers
ASSUME OutagesAssumption == Outages \subseteq Notifier!OutageKinds
ASSUME MaxTopicAssumption == MaxTopic \in Nat

readerVars == <<users, committed, position, consumer, current, sent, spoiled>>

pipelineVars == <<vars, readerVars>>

PipelineInit == Init /\ Notifier!Init

\* A step of the task service; its topic is the one the consumer reads.
TaskStep ==
  Next /\ UNCHANGED readerVars

NotifierStep ==
  /\ Notifier!ConsumerNext
  /\ UNCHANGED <<tasks, call, outbox, server, asked, entries, hung, cut>>

\* A user registers with auth.  Nobody asks auth when a task is created.
RegisterStep ==
  /\ \E w \in Workers, m \in Managers \cup {None} : Notifier!Register(w, m)
  /\ UNCHANGED <<tasks, call, outbox, server, asked, entries, hung, cut>>

PipelineNext == TaskStep \/ NotifierStep \/ RegisterStep

PipelineSpec == PipelineInit /\ [][PipelineNext]_pipelineVars

\* Each process is as fair as it is alone.
PipelineFairness ==
  /\ \A c \in Calls : WF_pipelineVars(TaskStep /\ Step(c))
  /\ \A c \in Calls :
       WF_pipelineVars(TaskStep /\ \E e \in outbox : e.timestamp = c /\ Publish(e))
  /\ \A p \in Partitions : SF_pipelineVars(NotifierStep /\ Notifier!Fetch(p))
  /\ WF_pipelineVars(NotifierStep /\ (Notifier!Commit \/ Notifier!Notify
                                        \/ Notifier!Drop))
-----------------------------------------------------------------------------
\* A manager is told only what happened: some committed write asked for help
\* with that reason, and the recipient manages the worker the task still has.
NotificationsAreTrue ==
  \A k \in 1..Len(sent) :
    /\ sent[k].record \in asked
    /\ tasks[sent[k].record.task].worker = sent[k].record.worker
    /\ sent[k].recipient = users[tasks[sent[k].record.task].worker]

\* No manager hears twice of one update unless the Kafka writer stored its
\* event twice: neither crashes of either service nor failed commits repeat it.
ToldOncePerCall ==
  \A j, k \in 1..Len(sent) :
    j # k => sent[j].record.timestamp # sent[k].record.timestamp

\* The event of c has been told to some manager.
Heard(c) == \E k \in 1..Len(sent) : sent[k].record.timestamp = c

\* An outage of the consumer, of Kafka's offsets or of auth ended the handling
\* of the event of c.
Spoiled(c) == \E place \in spoiled :
                topic[place.partition][place.offset].timestamp = c

\* Where clients take turns, the manager of a registered worker hears of every
\* time a task of the worker starts to need help, unless a fault cut the call or
\* its goroutine short, an outage met the event itself, or the consumer is down:
\* no failure of another call or event holds this one up (service.go 97-118,
\* consumer.go 57-74).
HelpIsHeard ==
  \A c \in Calls :
    /\ c \in entries
    /\ \A t \in Tasks : tasks[t] # None => tasks[t].worker \in Staff
    ~> Heard(c) \/ c \in cut \/ Spoiled(c) \/ consumer = "down"
=============================================================================
