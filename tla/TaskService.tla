---------------------------- MODULE TaskService ----------------------------
(***************************************************************************)
(* The task service (task/internal/task): gRPC handlers that create and    *)
(* update rows of the Postgres table tasks, and the goroutines that        *)
(* publish a Kafka event when a task starts to need help.                  *)
(*                                                                         *)
(* An update is not a transaction.  UpdateTask reads the row, validates    *)
(* the request against what it read, issues one UPDATE, reads the row      *)
(* again and decides from the FIRST read whether to publish.  Every one of *)
(* these statements is a step of its own here, so the handlers of several  *)
(* calls interleave between them; each statement is atomic in Postgres.    *)
(*                                                                         *)
(* Calls is the set of RPCs the service ever receives.  A client's retry   *)
(* is another call.  A call identifies the event it publishes and plays    *)
(* the part of the event's Timestamp.                                      *)
(***************************************************************************)
EXTENDS Naturals, FiniteSets, Sequences

CONSTANTS
  Tasks,        \* ids uuid.New can return
  Workers,      \* values of worker_id
  Texts,        \* non-empty task messages
  Reasons,      \* non-empty reasons
  Calls,        \* the RPCs received, each handled once
  Partitions,   \* partitions of the Kafka topic
  None,         \* Go's nil, SQL's NULL, a row that does not exist
  Faults,       \* which of FaultKinds the environment may inject
  Serialised,   \* TRUE: clients do not overlap calls that name one task
  MaxOpenConns, \* connections to Postgres the service opens at most
  MaxLog        \* bound of the model: records a redelivered write may add up to

FaultKinds == {"db_error", "db_hang", "reply_lost", "publish_lost",
               "publish_retry", "shutdown", "crash"}

ASSUME FaultsAssumption == Faults \subseteq FaultKinds
ASSUME SerialisedAssumption == Serialised \in BOOLEAN
ASSUME MaxOpenConnsAssumption == MaxOpenConns \in Nat \ {0}
ASSUME MaxLogAssumption == MaxLog \in Nat

VARIABLES
  tasks,    \* the table tasks
  call,     \* the handler of each RPC
  hung,     \* calls whose statement gets no answer; each keeps its connection
  outbox,   \* events whose publishing goroutine has not returned
  topic,    \* the Kafka topic, one log for each partition
  server,   \* the process: "serving", "stopping" (GracefulStop) or "down"
  asked,    \* history: the event each committed NEEDS_HELP write stands for
  entries,  \* history: calls whose write moved a task into NEEDS_HELP
  cut       \* history: calls whose handler or goroutine a fault cut short

vars == <<tasks, call, hung, outbox, topic, server, asked, entries, cut>>

-----------------------------------------------------------------------------
Status == {"IN_PROGRESS", "COMPLETED", "NEEDS_HELP"}

Task == [message : Texts, status : Status, worker : Workers,
         reason : Reasons \cup {None}]

TaskEvent == [task : Tasks, worker : Workers, reason : Reasons,
              timestamp : Calls]

\* Requests the gRPC handlers pass on to the service: ids parse, a created
\* task has a message, and an empty string has become nil.  A created task's
\* id is the one the service draws for it.
CreateRequest == [op : {"create"}, task : Tasks, message : Texts,
                  worker : Workers]
UpdateRequest == [op : {"update"}, task : Tasks, message : Texts \cup {None},
                  status : Status \cup {None, "UNKNOWN"},
                  reason : Reasons \cup {None}]

\* None is no value of a column, no row, also without its message, and no request.
ASSUME NoneAssumption ==
  /\ None \notin Workers \cup Texts \cup Reasons \cup Status \cup {"UNKNOWN"}
  /\ None \notin Task \cup CreateRequest \cup UpdateRequest
  /\ None \notin [status : Status, worker : Workers, reason : Reasons \cup {None}]

\* A handler's progress, its request, and the status its first read returned.
Handler == [pc : {"new", "insert", "read", "write", "reread", "done", "failed"},
            req : CreateRequest \cup UpdateRequest \cup {None},
            existing : Status \cup {None}]

Active == {c \in Calls : call[c].pc \notin {"new", "done", "failed"}}

Published == UNION {{topic[p][i] : i \in 1..Len(topic[p])} : p \in Partitions}
-----------------------------------------------------------------------------
Init ==
  /\ tasks = [t \in Tasks |-> None]
  /\ call = [c \in Calls |-> [pc |-> "new", req |-> None, existing |-> None]]
  /\ outbox = {}
  /\ topic = [p \in Partitions |-> <<>>]
  /\ server = "serving"
  /\ asked = {}
  /\ entries = {}
  /\ hung = {}
  /\ cut = {}

\* The handler returns: with a reply ("done") or an error ("failed").
Return(c, outcome) ==
  call' = [call EXCEPT ![c] = [pc |-> outcome, req |-> None, existing |-> None]]

Goto(c, pc) == call' = [call EXCEPT ![c].pc = pc]

\* Where Serialised holds, clients leave a task alone while a call on it runs.
MayStart(t) == Serialised => \A d \in Active : call[d].req.task # t

\* A request the handler refuses before it calls the service: no message, an
\* id that is not a UUID.
Reject(c) ==
  /\ server = "serving"
  /\ call[c].pc = "new"
  /\ Return(c, "failed")
  /\ UNCHANGED <<tasks, outbox, topic, server, asked, entries, hung, cut>>

\* uuid.New returns an id that no row and no running call has.
ReceiveCreate(c, r) ==
  /\ server = "serving"
  /\ call[c].pc = "new"
  /\ tasks[r.task] = None
  /\ \A d \in Active : call[d].req.op = "create" => call[d].req.task # r.task
  /\ MayStart(r.task)
  /\ call' = [call EXCEPT ![c] = [pc |-> "insert", req |-> r, existing |-> None]]
  /\ UNCHANGED <<tasks, outbox, topic, server, asked, entries, hung, cut>>

ReceiveUpdate(c, r) ==
  /\ server = "serving"
  /\ call[c].pc = "new"
  /\ MayStart(r.task)
  /\ call' = [call EXCEPT ![c] = [pc |-> "read", req |-> r, existing |-> None]]
  /\ UNCHANGED <<tasks, outbox, topic, server, asked, entries, hung, cut>>

\* A statement needs a connection, and those of the calls that hang are taken;
\* the RPC's context carries no deadline, so a call waits for one as long as
\* it takes.
Answered(c) == c \notin hung /\ Cardinality(hung) < MaxOpenConns

\* A statement whose effect is committed may still return an error: the
\* connection is lost or the caller's context ends before the reply.
ReplyLost == "reply_lost" \in Faults

NewTask(r) == [message |-> r.message, status |-> "IN_PROGRESS",
               worker |-> r.worker, reason |-> None]

Insert(c) ==
  LET r == call[c].req IN
  /\ call[c].pc = "insert"
  /\ Answered(c)
  /\ tasks' = [tasks EXCEPT ![r.task] = NewTask(r)]
  /\ \/ Return(c, "done")
     \/ ReplyLost /\ Return(c, "failed")
  /\ UNCHANGED <<outbox, topic, server, asked, entries, hung, cut>>

\* Mutant of Valid: the reason of a NEEDS_HELP request is not required.
ValidAnyReason(r) == r.status # "UNKNOWN"

\* What UpdateTask accepts of a request, once it has read the row.
Valid(r) ==
  /\ r.status # "UNKNOWN"
  /\ r.status = "NEEDS_HELP" => r.reason # None

\* Mutant of ReadExisting: a row that is not found leaves the handler waiting.
ReadExistingNoReturn(c) ==
  LET r == call[c].req IN
  /\ call[c].pc = "read"
  /\ Answered(c)
  /\ tasks[r.task] # None
  /\ IF Valid(r)
     THEN call' = [call EXCEPT ![c].pc = "write",
                               ![c].existing = tasks[r.task].status]
     ELSE Return(c, "failed")
  /\ UNCHANGED <<tasks, outbox, topic, server, asked, entries, hung, cut>>

\* First read of the row, followed by the validation of the request.
ReadExisting(c) ==
  LET r == call[c].req IN
  /\ call[c].pc = "read"
  /\ Answered(c)
  /\ IF tasks[r.task] # None /\ Valid(r)
     THEN call' = [call EXCEPT ![c].pc = "write",
                               ![c].existing = tasks[r.task].status]
     ELSE Return(c, "failed")
  /\ UNCHANGED <<tasks, outbox, topic, server, asked, entries, hung, cut>>

\* Mutant of NewReason: the reason is not rewritten for a row that was read as
\* already needing help.
NewReasonUnlessHelped(row, r, existing) ==
  CASE r.status = "NEEDS_HELP" /\ existing # "NEEDS_HELP" -> r.reason
    [] r.status \in Status \ {"NEEDS_HELP"} -> None
    [] OTHER -> IF r.reason # None /\ r.status = None /\ existing = "NEEDS_HELP"
                THEN r.reason
                ELSE row.reason

\* Mutant of NewReason: leaving NEEDS_HELP does not reset the reason.
NewReasonNoReset(row, r, existing) ==
  IF r.reason # None /\ "NEEDS_HELP" \in {r.status, existing}
  THEN r.reason
  ELSE row.reason

\* The columns of the one UPDATE: a status always sets the reason, to NULL
\* unless it is NEEDS_HELP; a reason alone is written when the row that was
\* READ needed help.
NewReason(row, r, existing) ==
  CASE r.status = "NEEDS_HELP" -> r.reason
    [] r.status \in Status \ {"NEEDS_HELP"} -> None
    [] OTHER -> IF r.reason # None /\ existing = "NEEDS_HELP"
                THEN r.reason
                ELSE row.reason

\* Mutant of Updated: the UPDATE writes back every column that was read.
UpdatedWholeRow(row, r, existing) ==
  [row EXCEPT !.message = IF r.message = None THEN @ ELSE r.message,
              !.status = IF r.status = None THEN existing ELSE r.status,
              !.reason = NewReason(row, r, existing)]

Updated(row, r, existing) ==
  [row EXCEPT !.message = IF r.message = None THEN @ ELSE r.message,
              !.status = IF r.status = None THEN @ ELSE r.status,
              !.reason = NewReason(row, r, existing)]

Write(c) ==
  LET r == call[c].req
      row == tasks[r.task]
  IN
  /\ call[c].pc = "write"
  /\ Answered(c)
  /\ tasks' = [tasks EXCEPT ![r.task] = Updated(row, r, call[c].existing)]
  /\ asked' = IF r.status = "NEEDS_HELP"
              THEN asked \cup {[task |-> r.task, worker |-> row.worker,
                                reason |-> r.reason, timestamp |-> c]}
              ELSE asked
  /\ entries' = IF r.status = "NEEDS_HELP" /\ row.status # "NEEDS_HELP"
                THEN entries \cup {c}
                ELSE entries
  /\ \/ Goto(c, "reread") /\ UNCHANGED cut
     \/ ReplyLost /\ Return(c, "failed") /\ cut' = cut \cup {c}
  /\ UNCHANGED <<outbox, topic, server, hung>>

\* Mutant of Announces: every NEEDS_HELP request publishes.
AnnouncesAlways(h) == h.req.status = "NEEDS_HELP"

\* Mutant of Announces: a task reopened from COMPLETED is forgotten.
AnnouncesFromProgress(h) ==
  h.req.status = "NEEDS_HELP" /\ h.existing = "IN_PROGRESS"

\* The event is decided by the status the first read returned.
Announces(h) == h.req.status = "NEEDS_HELP" /\ h.existing # "NEEDS_HELP"

\* Mutant of EventOf: the reason is taken from the row that was read again.
EventOfRow(c, row) == [task |-> call[c].req.task, worker |-> row.worker,
                       reason |-> row.reason, timestamp |-> c]

EventOf(c, row) == [task |-> call[c].req.task, worker |-> row.worker,
                    reason |-> call[c].req.reason, timestamp |-> c]

\* Second read of the row; a goroutine is started to publish the event and
\* the handler replies without waiting for it.
Reread(c) ==
  /\ call[c].pc = "reread"
  /\ Answered(c)
  /\ outbox' = IF Announces(call[c])
               THEN outbox \cup {EventOf(c, tasks[call[c].req.task])}
               ELSE outbox
  /\ Return(c, "done")
  /\ UNCHANGED <<tasks, topic, server, asked, entries, hung, cut>>

\* A statement fails without effect, or the client leaves, which ends the RPC's
\* context: the handler returns the error at once.
DbError(c) ==
  /\ "db_error" \in Faults \/ c \in hung
  /\ c \in Active
  /\ Return(c, "failed")
  /\ hung' = hung \ {c}
  /\ cut' = cut \cup {c}
  /\ UNCHANGED <<tasks, outbox, topic, server, asked, entries>>

\* Postgres does not answer a statement (a lock, a partition of the network) ...
Hang(c) ==
  /\ "db_hang" \in Faults
  /\ c \in Active
  /\ Answered(c)
  /\ hung' = hung \cup {c}
  /\ UNCHANGED <<tasks, call, outbox, topic, server, asked, entries, cut>>

\* ... until, if ever, it does.
Wake(c) ==
  /\ c \in hung
  /\ hung' = hung \ {c}
  /\ UNCHANGED <<tasks, call, outbox, topic, server, asked, entries, cut>>
-----------------------------------------------------------------------------
\* WriteMessages stores the event.  The LeastBytes balancer does not look at
\* the key, so any partition may get it.
Store(e, p) == topic' = [topic EXCEPT ![p] = Append(@, e)]

\* Mutant of Publish: the goroutine uses the request's context, which ends when
\* the handler returns.
PublishInRequest(e) ==
  /\ e \in outbox
  /\ e.timestamp \in Active
  /\ \E p \in Partitions : Store(e, p)
  /\ outbox' = outbox \ {e}
  /\ UNCHANGED <<tasks, call, server, asked, entries, hung, cut>>

Publish(e) ==
  /\ e \in outbox
  /\ \E p \in Partitions : Store(e, p)
  /\ outbox' = outbox \ {e}
  /\ UNCHANGED <<tasks, call, server, asked, entries, hung, cut>>

\* An attempt is stored but reported as failed: the writer tries again.
PublishAndRetry(e) ==
  /\ "publish_retry" \in Faults
  /\ e \in outbox
  /\ \A p \in Partitions : Len(topic[p]) < MaxLog
  /\ \E p \in Partitions : Store(e, p)
  /\ UNCHANGED <<tasks, call, outbox, server, asked, entries, hung, cut>>

\* The attempts are used up, or a write nobody acknowledges is lost: the
\* goroutine swallows the error.
PublishLost(e) ==
  /\ "publish_lost" \in Faults
  /\ e \in outbox
  /\ outbox' = outbox \ {e}
  /\ cut' = cut \cup {e.timestamp}
  /\ UNCHANGED <<tasks, call, topic, server, asked, entries, hung>>
-----------------------------------------------------------------------------
\* SIGTERM: GracefulStop refuses new calls and waits for running handlers.
Stop ==
  /\ "shutdown" \in Faults
  /\ server = "serving"
  /\ server' = "stopping"
  /\ UNCHANGED <<tasks, call, outbox, topic, asked, entries, hung, cut>>

\* It waits for handlers only.  The deferred Close flushes what the writer
\* already holds (Publish steps before this one); a goroutine that has not
\* reached the writer dies with the process.
Exit ==
  /\ server = "stopping"
  /\ Active = {}
  /\ server' = "down"
  /\ outbox' = {}
  /\ cut' = cut \cup {e.timestamp : e \in outbox}
  /\ UNCHANGED <<tasks, call, topic, asked, entries, hung>>

Crash ==
  /\ "crash" \in Faults
  /\ server # "down"
  /\ server' = "down"
  /\ outbox' = {}
  /\ call' = [c \in Calls |->
                IF c \in Active
                THEN [pc |-> "failed", req |-> None, existing |-> None]
                ELSE call[c]]
  /\ hung' = {}
  /\ cut' = cut \cup Active \cup {e.timestamp : e \in outbox}
  /\ UNCHANGED <<tasks, topic, asked, entries>>

Restart ==
  /\ server = "down"
  /\ server' = "serving"
  /\ UNCHANGED <<tasks, call, outbox, topic, asked, entries, hung, cut>>
-----------------------------------------------------------------------------
Receive(c) ==
  \/ Reject(c)
  \/ \E r \in CreateRequest : ReceiveCreate(c, r)
  \/ \E r \in UpdateRequest : ReceiveUpdate(c, r)

Step(c) == Insert(c) \/ ReadExisting(c) \/ Write(c) \/ Reread(c)

Database(c) == DbError(c) \/ Hang(c) \/ Wake(c)

Deliver(e) == Publish(e) \/ PublishAndRetry(e) \/ PublishLost(e)

Next ==
  \/ \E c \in Calls : Receive(c) \/ Step(c) \/ Database(c)
  \/ \E e \in TaskEvent : Deliver(e)
  \/ Stop \/ Exit \/ Crash \/ Restart

Spec == Init /\ [][Next]_vars

\* Go schedules every runnable goroutine, so a handler, a publishing goroutine
\* and a stopping main each go on.  A handler whose statement gets no answer, or
\* no connection, waits: nothing makes Postgres answer (Wake) or the client leave
\* (DbError).  Clients need not call and nothing has to fail.
Fairness ==
  /\ \A c \in Calls : WF_vars(Step(c))
  /\ \A c \in Calls : WF_vars(\E e \in outbox : e.timestamp = c /\ Publish(e))
  /\ WF_vars(Exit)

FairSpec == Spec /\ Fairness
-----------------------------------------------------------------------------
\* Rows, handlers, events and logs have the shapes of the code's types; a
\* handler past its first read holds a request that named an existing row.
TypeOK ==
  /\ tasks \in [Tasks -> Task \cup {None}]
  /\ call \in [Calls -> Handler]
  /\ outbox \subseteq TaskEvent
  /\ topic \in [Partitions -> Seq(TaskEvent)]
  /\ server \in {"serving", "stopping", "down"}
  /\ asked \subseteq TaskEvent
  /\ entries \subseteq Calls
  /\ cut \subseteq Calls
  /\ hung \subseteq Active
  /\ \A c \in Calls :
       /\ call[c].pc = "insert" => call[c].req \in CreateRequest
       /\ call[c].pc \in {"read", "write", "reread"} =>
            call[c].req \in UpdateRequest
       /\ call[c].pc \in {"write", "reread"} =>
            /\ Valid(call[c].req)
            /\ call[c].existing \in Status
            /\ tasks[call[c].req.task] \in Task

\* A row that needs help always says why, whatever other calls rewrote between
\* this call's validation of the reason and its UPDATE (service.go 76-90,
\* repository.go 43-54).
NeedsHelpHasReason ==
  \A t \in Tasks :
    tasks[t] # None /\ tasks[t].status = "NEEDS_HELP" => tasks[t].reason # None

\* Every event, waiting or published, tells of a NEEDS_HELP write that was
\* committed: that task, its worker, and the reason written then, although the
\* event is put together from a later read of the row (service.go 97-110).
EventsAreTrue == outbox \cup Published \subseteq asked

\* The comment on Task.Reason, "the reason for status NEEDS_HELP" (orm.go 23):
\* a row that does not need help has none.  Holds while clients do not overlap
\* calls on one task; a stale first read breaks it otherwise.
ReasonOnlyWhenNeedsHelp ==
  \A t \in Tasks :
    tasks[t] # None /\ tasks[t].reason # None => tasks[t].status = "NEEDS_HELP"

\* A status is never undone by a call that did not ask for it: each change of a
\* row's status is what the request of the one call that writes in that step
\* says, not a value it read earlier (repository.go 29-56 writes given columns
\* only).
StatusChangeIsRequested ==
  [][\A t \in Tasks :
       tasks[t] # None /\ tasks'[t] # tasks[t] =>
         \E c \in Calls :
           /\ call[c].pc = "write"
           /\ call'[c] # call[c]
           /\ call[c].req.task = t
           /\ tasks'[t].status \in {tasks[t].status, call[c].req.status}]_vars

\* The calls that will start a publishing goroutine when they are scheduled.
Owing == {c \in Calls : call[c].pc = "reread" /\ Announces(call[c])}

\* Calls whose event is on its way or in the topic.
Heralded == {e.timestamp : e \in outbox \cup Published}

\* While clients do not overlap calls on one task, a call announces help exactly
\* when its write moved the task into NEEDS_HELP: no event repeats an entry, and
\* an entry goes unannounced only where a fault cut the call or its goroutine
\* short (service.go 93-118).
OneEventPerEntry ==
  /\ Owing \cup Heralded \subseteq entries
  /\ entries \subseteq Owing \cup Heralded \cup cut

\* The tasks whose need for help the given calls wrote.
Needing(cs) == {e.task : e \in {f \in asked : f.timestamp \in cs}}

\* However calls overlap, and although the first read may hide an entry from the
\* call that makes it, a task that came to need help is announced by some call,
\* unless a fault cut one short (service.go 53, 93-118).
NeedIsAnnounced ==
  Needing(entries) \subseteq Needing(Owing \cup Heralded \cup cut)

\* GracefulStop has no deadline (cmd/server/main.go 93) and neither have the
\* statements of the handlers it waits for (repository.go 26, 56, 61: the RPC's
\* context): the process ends unless the statement of a call hangs for good.
StopCompletes ==
  server = "stopping" ~> server = "down" \/ hung # {}
-----------------------------------------------------------------------------
\* The board the service implements: a row without its message, and the
\* announcements its handlers and goroutines still have to make.
BoardRow(row) == IF row = None
                 THEN None
                 ELSE [status |-> row.status, worker |-> row.worker,
                       reason |-> row.reason]

BoardOwed == (outbox \cup {EventOf(c, tasks[call[c].req.task]) : c \in Owing})
               \ Published

Board == INSTANCE TaskBoard WITH
           board <- [t \in Tasks |-> BoardRow(tasks[t])],
           owed <- BoardOwed,
           told <- Published,
           Lossy <- Faults # {}

\* While clients do not overlap calls on one task, every step of the handlers
\* and goroutines is one step of the atomic board, or none (service.go 51-121).
ImplementsBoard == Board!Spec
=============================================================================
