------------------------- MODULE TaskServiceProofs -------------------------
(***************************************************************************)
(* Theorems about TaskService for any sets of tasks, calls and partitions  *)
(* and any faults.                                                         *)
(***************************************************************************)
EXTENDS TaskService, TLAPS

\* What is returned to the client leaves the handler's record well formed.
LEMMA ReturnType ==
  ASSUME TypeOK, NEW c \in Calls, NEW o \in {"done", "failed"}, Return(c, o)
  PROVE  /\ call' \in [Calls -> Handler]
         /\ call'[c].pc = o
         /\ \A d \in Calls \ {c} : call'[d] = call[d]
BY DEF TypeOK, Return, Handler

\* The UPDATE of a validated request turns a row into a row and keeps its
\* worker (repository.go 29-56 never names the worker column).
LEMMA UpdatedRow ==
  ASSUME NEW row \in Task, NEW r \in UpdateRequest, NEW existing \in Status,
         Valid(r)
  PROVE  /\ Updated(row, r, existing) \in Task
         /\ Updated(row, r, existing).worker = row.worker
         /\ r.status = None => Updated(row, r, existing).status = row.status
         /\ r.status # None => Updated(row, r, existing).status = r.status
         /\ Updated(row, r, existing).reason = NewReason(row, r, existing)
<1>1. NewReason(row, r, existing) \in Reasons \cup {None}
  BY DEF NewReason, Task, UpdateRequest, Status
<1>2. r.status \in Status \cup {None}
  BY DEF Valid, UpdateRequest
<1>3. QED
  BY <1>1, <1>2 DEF Updated, Task, UpdateRequest


-----------------------------------------------------------------------------
(* Type correctness.                                                       *)

LEMMA TypeInit == Init => TypeOK
BY DEF Init, TypeOK, Handler

\* Only a running call's statement hangs, and a call that goes on has its answer.
LEMMA HungStep ==
  ASSUME TypeOK, [Next]_vars
  PROVE  hung' \subseteq Active'
<1>1. ASSUME NEW c \in Calls, c \notin hung,
             UNCHANGED hung, \A d \in Calls \ {c} : call'[d] = call[d]
      PROVE  hung' \subseteq Active'
  BY <1>1 DEF TypeOK, Active
<1>2. ASSUME NEW c \in Calls, Receive(c) PROVE hung' \subseteq Active'
  <2>1. c \notin hung
    BY <1>2 DEF Receive, Reject, ReceiveCreate, ReceiveUpdate, TypeOK, Active
  <2>2. UNCHANGED hung /\ \A d \in Calls \ {c} : call'[d] = call[d]
    BY <1>2 DEF Receive, Reject, ReceiveCreate, ReceiveUpdate, Return, TypeOK
  <2>3. QED
    BY <1>1, <2>1, <2>2
<1>3. ASSUME NEW c \in Calls, Step(c) PROVE hung' \subseteq Active'
  <2>1. c \notin hung
    BY <1>3 DEF Step, Insert, ReadExisting, Write, Reread, Answered
  <2>2. UNCHANGED hung /\ \A d \in Calls \ {c} : call'[d] = call[d]
    BY <1>3 DEF Step, Insert, ReadExisting, Write, Reread, Return, Goto, TypeOK
  <2>3. QED
    BY <1>1, <2>1, <2>2
<1>4. ASSUME NEW c \in Calls, Database(c) PROVE hung' \subseteq Active'
  BY <1>4 DEF Database, DbError, Hang, Wake, Return, TypeOK, Active
<1>5. CASE UNCHANGED <<hung, call>>
  BY <1>5 DEF TypeOK, Active
<1>6. CASE Crash
  BY <1>6 DEF Crash
<1>7. QED
  BY <1>2, <1>3, <1>4, <1>5, <1>6
     DEF Next, Deliver, Publish, PublishAndRetry, PublishLost, Stop, Exit, Restart,
         vars

\* What is cut short is a call.
LEMMA CutType ==
  ASSUME TypeOK, [Next]_vars
  PROVE  cut' \subseteq Calls
<1>1. ASSUME NEW e \in TaskEvent PROVE e.timestamp \in Calls
  BY DEF TaskEvent
<1>2. \A e \in outbox : e.timestamp \in Calls
  BY <1>1 DEF TypeOK
<1>3. CASE UNCHANGED cut
  BY <1>3 DEF TypeOK
<1>4. ASSUME NEW c \in Calls, Write(c) \/ DbError(c) PROVE cut' \subseteq Calls
  BY <1>4 DEF Write, DbError, TypeOK
<1>5. ASSUME NEW e \in TaskEvent, PublishLost(e) PROVE cut' \subseteq Calls
  BY <1>1, <1>5 DEF PublishLost, TypeOK
<1>6. CASE Exit \/ Crash
  BY <1>2, <1>6 DEF Exit, Crash, TypeOK, Active
<1>7. QED
  BY <1>3, <1>4, <1>5, <1>6
     DEF Next, Receive, Step, Reject, ReceiveCreate, ReceiveUpdate, Insert,
         ReadExisting, Reread, Database, Hang, Wake, Deliver, Publish,
         PublishAndRetry, Stop, Restart, vars

LEMMA TypeStep == TypeOK /\ [Next]_vars => TypeOK'
<1> SUFFICES ASSUME TypeOK, [Next]_vars PROVE TypeOK'
  OBVIOUS
<1>0. hung' \subseteq Active' /\ cut' \subseteq Calls
  BY HungStep, CutType
<1> USE <1>0
<1>1. ASSUME NEW c \in Calls, Reject(c) PROVE TypeOK'
  BY <1>1, ReturnType DEF TypeOK, Reject
<1>2. ASSUME NEW c \in Calls, NEW r \in CreateRequest, ReceiveCreate(c, r)
      PROVE  TypeOK'
  BY <1>2 DEF TypeOK, ReceiveCreate, Handler
<1>3. ASSUME NEW c \in Calls, NEW r \in UpdateRequest, ReceiveUpdate(c, r)
      PROVE  TypeOK'
  BY <1>3 DEF TypeOK, ReceiveUpdate, Handler
<1>4. ASSUME NEW c \in Calls, Insert(c) PROVE TypeOK'
  <2>1. call[c].req \in CreateRequest
    BY <1>4 DEF Insert, TypeOK
  <2>2. NewTask(call[c].req) \in Task
    BY <2>1 DEF NewTask, Task, CreateRequest, Status
  <2>3. \A t \in Tasks : tasks'[t] \in {tasks[t], NewTask(call[c].req)}
    BY <1>4, <2>1 DEF Insert, TypeOK, CreateRequest
  <2>4. tasks' \in [Tasks -> Task \cup {None}]
    BY <1>4, <2>1, <2>2 DEF Insert, TypeOK, CreateRequest
  <2>5. Return(c, "done") \/ Return(c, "failed")
    BY <1>4 DEF Insert
  <2>6. /\ call' \in [Calls -> Handler]
        /\ call'[c].pc \in {"done", "failed"}
        /\ \A d \in Calls \ {c} : call'[d] = call[d]
    BY <2>5, ReturnType
  <2>7. \A d \in Calls : call[d].pc \in {"write", "reread"} =>
          tasks'[call[d].req.task] \in Task
    BY <2>2, <2>3 DEF TypeOK, UpdateRequest
  <2>8. QED
    BY <1>4, <2>4, <2>6, <2>7 DEF Insert, TypeOK
<1>5. ASSUME NEW c \in Calls, ReadExisting(c) PROVE TypeOK'
  <2>1. CASE Return(c, "failed")
    BY <1>5, <2>1, ReturnType DEF TypeOK, ReadExisting
  <2>2. CASE ~ Return(c, "failed")
    <3>1. /\ call[c].req \in UpdateRequest
          /\ Valid(call[c].req)
          /\ tasks[call[c].req.task] \in Task
          /\ call' = [call EXCEPT ![c].pc = "write",
                                  ![c].existing = tasks[call[c].req.task].status]
      BY <1>5, <2>2 DEF TypeOK, ReadExisting, UpdateRequest
    <3>2. tasks[call[c].req.task].status \in Status
      BY <3>1 DEF Task
    <3>3. QED
      BY <1>5, <3>1, <3>2 DEF TypeOK, ReadExisting, Handler
  <2>3. QED BY <2>1, <2>2
<1>6. ASSUME NEW c \in Calls, Write(c) PROVE TypeOK'
  <2> DEFINE r == call[c].req
             row == tasks[r.task]
  <2>1. /\ r \in UpdateRequest /\ Valid(r)
        /\ call[c].existing \in Status /\ row \in Task
    BY <1>6 DEF Write, TypeOK
  <2>2. Updated(row, r, call[c].existing) \in Task
    BY <2>1, UpdatedRow
  <2>3. tasks' \in [Tasks -> Task \cup {None}]
    BY <1>6, <2>1, <2>2 DEF Write, TypeOK
  <2>4. \A t \in Tasks : tasks[t] \in Task => tasks'[t] \in Task
    BY <1>6, <2>1, <2>2 DEF Write, TypeOK, UpdateRequest
  <2>5. asked' \subseteq TaskEvent
    <3>1. r.status = "NEEDS_HELP" =>
            [task |-> r.task, worker |-> row.worker,
             reason |-> r.reason, timestamp |-> c] \in TaskEvent
      BY <2>1 DEF Valid, UpdateRequest, Task, TaskEvent
    <3>2. QED BY <1>6, <3>1 DEF Write, TypeOK
  <2>6. entries' \subseteq Calls
    BY <1>6 DEF Write, TypeOK
  <2>7. /\ call' \in [Calls -> Handler]
        /\ call'[c].pc \in {"failed", "reread"}
        /\ call'[c].pc = "reread" =>
              call'[c].req = r /\ call'[c].existing = call[c].existing
        /\ \A d \in Calls \ {c} : call'[d] = call[d]
    <3>1. CASE Return(c, "failed")
      BY <3>1, ReturnType
    <3>2. CASE Goto(c, "reread")
      BY <3>2 DEF TypeOK, Goto, Handler
    <3>3. QED BY <1>6, <3>1, <3>2 DEF Write
  <2>8. /\ outbox' \subseteq TaskEvent
        /\ topic' \in [Partitions -> Seq(TaskEvent)]
        /\ server' \in {"serving", "stopping", "down"}
    BY <1>6 DEF Write, TypeOK
  <2>9. ASSUME NEW d \in Calls
        PROVE  /\ call'[d].pc = "insert" => call'[d].req \in CreateRequest
               /\ call'[d].pc \in {"read", "write", "reread"} =>
                    call'[d].req \in UpdateRequest
               /\ call'[d].pc \in {"write", "reread"} =>
                    /\ Valid(call'[d].req)
                    /\ call'[d].existing \in Status
                    /\ tasks'[call'[d].req.task] \in Task
    <3>1. CASE d = c
      <4>1. tasks[r.task] \in Task => tasks'[r.task] \in Task
        BY <2>1, <2>4 DEF UpdateRequest
      <4>2. QED BY <2>1, <2>7, <3>1, <4>1
    <3>2. CASE d # c
      <4>1. call'[d] = call[d]
        BY <2>7, <3>2
      <4>2. call[d].req \in UpdateRequest => call[d].req.task \in Tasks
        BY DEF UpdateRequest
      <4>3. QED BY <2>4, <4>1, <4>2 DEF TypeOK
    <3>3. QED BY <3>1, <3>2
  <2>10. QED BY <2>3, <2>5, <2>6, <2>7, <2>8, <2>9 DEF TypeOK
<1>7. ASSUME NEW c \in Calls, Reread(c) PROVE TypeOK'
  <2>1. outbox' \subseteq TaskEvent
    BY <1>7 DEF Reread, Announces, EventOf, TypeOK, Valid, UpdateRequest, Task,
                TaskEvent
  <2>2. QED BY <1>7, <2>1, ReturnType DEF TypeOK, Reread
<1>8. ASSUME NEW c \in Calls, Database(c) PROVE TypeOK'
  <2>1. CASE DbError(c)
    BY <2>1, ReturnType DEF TypeOK, DbError
  <2>2. CASE Hang(c) \/ Wake(c)
    BY <2>2 DEF TypeOK, Hang, Wake
  <2>3. QED
    BY <1>8, <2>1, <2>2 DEF Database
<1>9. ASSUME NEW e \in TaskEvent, Deliver(e) PROVE TypeOK'
  <2>1. ASSUME NEW p \in Partitions, Store(e, p)
        PROVE  topic' \in [Partitions -> Seq(TaskEvent)]
    BY <1>9, <2>1 DEF Store, TypeOK
  <2>2. topic' \in [Partitions -> Seq(TaskEvent)]
    BY <1>9, <2>1 DEF Deliver, Publish, PublishAndRetry, PublishLost, TypeOK
  <2>3. QED
    BY <1>9, <2>2 DEF Deliver, Publish, PublishAndRetry, PublishLost, TypeOK
<1>10. CASE Stop \/ Exit \/ Restart
  BY <1>10 DEF TypeOK, Stop, Exit, Restart
<1>11. CASE Crash
  BY <1>11 DEF TypeOK, Crash, Active, Handler
<1>12. CASE UNCHANGED vars
  BY <1>12 DEF TypeOK, vars
<1>13. QED
  BY <1>1, <1>2, <1>3, <1>4, <1>5, <1>6, <1>7, <1>8, <1>9, <1>10, <1>11, <1>12
  DEF Next, Receive, Step

\* Every reachable state is well typed; above all, whatever calls overlap, a
\* handler about to write holds a validated request on a row that exists.
THEOREM TypeCorrect == Spec => []TypeOK
<1>1. QED BY TypeInit, TypeStep, PTL DEF Spec

-----------------------------------------------------------------------------
(* What one step does to a handler and to a row.                           *)

\* A handler changes only by its own step or a crash, and each step takes it
\* where the code goes next.
LEMMA HandlerStep ==
  ASSUME TypeOK, [Next]_vars, NEW c \in Calls, call'[c] # call[c]
  PROVE  \/ call'[c].pc \in {"done", "failed"}
         \/ \E r \in CreateRequest : /\ ReceiveCreate(c, r)
                                     /\ call'[c].pc = "insert"
                                     /\ call'[c].req = r
         \/ \E r \in UpdateRequest : /\ ReceiveUpdate(c, r)
                                     /\ call'[c].pc = "read"
                                     /\ call'[c].req = r
         \/ /\ ReadExisting(c)
            /\ call'[c].pc = "write"
            /\ call'[c].req = call[c].req
            /\ call'[c].existing = tasks[call[c].req.task].status
         \/ /\ Write(c)
            /\ call'[c].pc = "reread"
            /\ call'[c].req = call[c].req
            /\ call'[c].existing = call[c].existing
<1>1. CASE Crash
  BY <1>1 DEF Crash, TypeOK
<1>2. CASE \E d \in Calls : Receive(d) \/ Step(d) \/ Database(d)
  <2>1. PICK d \in Calls : Receive(d) \/ Step(d) \/ Database(d)
    BY <1>2
  <2>2. d = c
    BY <2>1 DEF Receive, Step, Reject, ReceiveCreate, ReceiveUpdate, Insert,
                ReadExisting, Write, Reread, Database, DbError, Hang, Wake,
                Return, Goto, TypeOK
  <2>3. CASE Receive(c)
    BY <2>3 DEF Receive, Reject, ReceiveCreate, ReceiveUpdate, Return, TypeOK
  <2>4. CASE Insert(c) \/ Reread(c) \/ Database(c)
    BY <2>4 DEF Insert, Reread, Database, DbError, Hang, Wake, Return, TypeOK
  <2>5. CASE ReadExisting(c)
    BY <2>5 DEF ReadExisting, Return, TypeOK, Handler
  <2>6. CASE Write(c)
    BY <2>6 DEF Write, Goto, Return, TypeOK, Handler
  <2>7. QED BY <2>1, <2>2, <2>3, <2>4, <2>5, <2>6 DEF Step
<1>3. QED
  BY <1>1, <1>2 DEF Next, Deliver, Publish, PublishAndRetry, PublishLost, Stop,
                    Exit, Restart, vars

\* What one step does to a row: nothing, an insert, or the UPDATE of a call
\* whose request was validated.
LEMMA RowStep ==
  ASSUME TypeOK, [Next]_vars, NEW t \in Tasks, tasks'[t] # tasks[t]
  PROVE  \E c \in Calls :
           \/ Insert(c) /\ call[c].req.task = t
                        /\ tasks'[t] = NewTask(call[c].req)
           \/ Write(c) /\ call[c].req.task = t
                       /\ tasks'[t] = Updated(tasks[t], call[c].req,
                                              call[c].existing)
<1>1. PICK c \in Calls : Insert(c) \/ Write(c)
  BY DEF Next, Receive, Step, Reject, ReceiveCreate, ReceiveUpdate,
         ReadExisting, Reread, Database, DbError, Hang, Wake, Deliver, Publish,
         PublishAndRetry, PublishLost, Stop, Exit, Crash, Restart, vars
<1>2. CASE Insert(c)
  BY <1>2 DEF Insert, TypeOK, CreateRequest
<1>3. CASE Write(c)
  BY <1>3 DEF Write, TypeOK, UpdateRequest
<1>4. QED BY <1>1, <1>2, <1>3

-----------------------------------------------------------------------------
(* Safety of the rows.                                                     *)

LEMMA HelpInit == Init => NeedsHelpHasReason
BY DEF Init, NeedsHelpHasReason

LEMMA HelpStep ==
  TypeOK /\ NeedsHelpHasReason /\ [Next]_vars => NeedsHelpHasReason'
<1> SUFFICES ASSUME TypeOK, NeedsHelpHasReason, [Next]_vars,
                    NEW t \in Tasks, tasks'[t] # None,
                    tasks'[t].status = "NEEDS_HELP"
             PROVE  tasks'[t].reason # None
  BY DEF NeedsHelpHasReason
<1>1. CASE tasks'[t] = tasks[t]
  BY <1>1 DEF NeedsHelpHasReason
<1>2. ASSUME NEW c \in Calls, Write(c), call[c].req.task = t,
             tasks'[t] = Updated(tasks[t], call[c].req, call[c].existing)
      PROVE  tasks'[t].reason # None
  <2> DEFINE r == call[c].req
  <2>1. /\ r \in UpdateRequest /\ Valid(r)
        /\ call[c].existing \in Status /\ tasks[t] \in Task
    BY <1>2 DEF Write, TypeOK
  <2>2. /\ tasks'[t].reason = NewReason(tasks[t], r, call[c].existing)
        /\ r.status = None => tasks'[t].status = tasks[t].status
        /\ r.status # None => tasks'[t].status = r.status
    BY <1>2, <2>1, UpdatedRow
  <2>3. CASE r.status = None
    <3>1. tasks[t] # None /\ tasks[t].reason # None
      BY <2>1, <2>2, <2>3, NoneAssumption DEF NeedsHelpHasReason
    <3>2. tasks'[t].reason \in {r.reason, tasks[t].reason} \ {None}
      BY <2>2, <2>3, <3>1, NoneAssumption DEF NewReason, Status
    <3>3. QED BY <3>2
  <2>4. CASE r.status # None
    BY <2>1, <2>2, <2>4 DEF NewReason, Valid
  <2>5. QED BY <2>3, <2>4
<1>3. ASSUME NEW c \in Calls, Insert(c), tasks'[t] = NewTask(call[c].req)
      PROVE  FALSE
  BY <1>3 DEF NewTask
<1>4. QED BY <1>1, <1>2, <1>3, RowStep

\* Whatever calls overlap and fail, a row that needs help has a reason.
THEOREM HelpHasReason == Spec => []NeedsHelpHasReason
<1>1. QED BY HelpInit, HelpStep, TypeCorrect, PTL DEF Spec

\* The ids drawn for rows yet to be inserted are in use nowhere else.
FreshIds ==
  \A c \in Calls :
    call[c].pc = "insert" =>
      /\ tasks[call[c].req.task] = None
      /\ \A d \in Calls \ {c} :
           call[d].pc = "insert" => call[d].req.task # call[c].req.task

LEMMA FreshInit == Init => FreshIds
BY DEF Init, FreshIds

LEMMA FreshStep == TypeOK /\ FreshIds /\ [Next]_vars => FreshIds'
<1> SUFFICES ASSUME TypeOK, FreshIds, [Next]_vars,
                    NEW c \in Calls, call'[c].pc = "insert"
             PROVE  /\ tasks'[call'[c].req.task] = None
                    /\ \A d \in Calls \ {c} :
                         call'[d].pc = "insert" =>
                           call'[d].req.task # call'[c].req.task
  BY DEF FreshIds
\* A call that is about to insert was already, or starts with a fresh id.
<1>1. ASSUME NEW d \in Calls, call'[d].pc = "insert", call'[d] # call[d]
      PROVE  /\ tasks' = tasks
             /\ tasks[call'[d].req.task] = None
             /\ \A e \in Calls \ {d} :
                  /\ call'[e] = call[e]
                  /\ call[e].pc = "insert" =>
                       call[e].req.task # call'[d].req.task
  <2>1. PICK r \in CreateRequest : ReceiveCreate(d, r) /\ call'[d].req = r
    BY <1>1, HandlerStep
  <2>2. QED
    BY <2>1 DEF ReceiveCreate, Active, TypeOK, CreateRequest
<1>2. CASE call'[c] # call[c]
  BY <1>1, <1>2
<1>3. CASE call'[c] = call[c]
  <2> DEFINE t == call[c].req.task
  <2>1. t \in Tasks /\ tasks[t] = None
    BY <1>3 DEF FreshIds, TypeOK, CreateRequest
  <2>2. tasks'[t] = None
    <3> SUFFICES ASSUME tasks'[t] # tasks[t] PROVE FALSE
      BY <2>1
    <3>1. PICK d \in Calls : /\ Insert(d) \/ Write(d)
                             /\ call[d].req.task = t
      BY <2>1, RowStep
    <3>2. CASE Insert(d)
      <4>1. d # c
        BY <1>3, <3>2, ReturnType DEF Insert
      <4>2. QED BY <1>3, <3>1, <3>2, <4>1 DEF Insert, FreshIds
    <3>3. CASE Write(d)
      BY <2>1, <3>1, <3>3, NoneAssumption DEF Write, TypeOK
    <3>4. QED BY <3>1, <3>2, <3>3
  <2>3. ASSUME NEW d \in Calls \ {c}, call'[d].pc = "insert"
        PROVE  call'[d].req.task # t
    BY <1>1, <1>3, <2>3 DEF FreshIds
  <2>4. QED BY <1>3, <2>2, <2>3
<1>4. QED BY <1>2, <1>3

LEMMA IdsAreFresh == Spec => []FreshIds
<1>1. QED BY FreshInit, FreshStep, TypeCorrect, PTL DEF Spec

\* A row's status changes only to what the writing call's request names.
THEOREM StatusRequested == Spec => StatusChangeIsRequested
<1> DEFINE A == \A t \in Tasks :
                  tasks[t] # None /\ tasks'[t] # tasks[t] =>
                    \E c \in Calls :
                      /\ call[c].pc = "write"
                      /\ call'[c] # call[c]
                      /\ call[c].req.task = t
                      /\ tasks'[t].status \in {tasks[t].status,
                                               call[c].req.status}
<1>1. TypeOK /\ FreshIds /\ [Next]_vars => [A]_vars
  <2> SUFFICES ASSUME TypeOK, FreshIds, [Next]_vars, NEW t \in Tasks,
                      tasks[t] # None, tasks'[t] # tasks[t]
               PROVE  \E c \in Calls :
                        /\ call[c].pc = "write"
                        /\ call'[c] # call[c]
                        /\ call[c].req.task = t
                        /\ tasks'[t].status \in {tasks[t].status,
                                                 call[c].req.status}
    OBVIOUS
  <2>1. PICK c \in Calls :
          /\ Write(c)
          /\ call[c].req.task = t
          /\ tasks'[t] = Updated(tasks[t], call[c].req, call[c].existing)
    BY RowStep DEF Insert, FreshIds
  <2>2. /\ call[c].req \in UpdateRequest /\ Valid(call[c].req)
        /\ call[c].existing \in Status /\ tasks[t] \in Task
    BY <2>1 DEF Write, TypeOK
  <2>3. tasks'[t].status \in {tasks[t].status, call[c].req.status}
    BY <2>1, <2>2, UpdatedRow
  <2>4. call'[c] # call[c]
    BY <2>1, ReturnType DEF Write, Goto, TypeOK, Handler
  <2>5. QED BY <2>1, <2>3, <2>4 DEF Write
<1>2. QED BY <1>1, TypeCorrect, IdsAreFresh, PTL DEF Spec, StatusChangeIsRequested
-----------------------------------------------------------------------------
(* Events.                                                                 *)

\* A handler that has yet to publish would publish something that was asked.
OwedIsAsked ==
  \A c \in Calls :
    call[c].pc = "reread" /\ call[c].req.status = "NEEDS_HELP" =>
      EventOf(c, tasks[call[c].req.task]) \in asked

EventInv == OwedIsAsked /\ EventsAreTrue

\* Storing an event adds that event to what is published, and nothing else.
LEMMA StorePublishes ==
  ASSUME TypeOK, NEW e \in TaskEvent, NEW p \in Partitions, Store(e, p)
  PROVE  Published' = Published \cup {e}
<1>1. /\ topic' = [topic EXCEPT ![p] = Append(topic[p], e)]
      /\ topic \in [Partitions -> Seq(TaskEvent)]
  BY DEF Store, TypeOK
<1>2. /\ topic[p] \in Seq(TaskEvent)
      /\ topic'[p] = Append(topic[p], e)
      /\ \A q \in Partitions : q # p => topic'[q] = topic[q]
  BY <1>1
<1>3. /\ Len(topic'[p]) = Len(topic[p]) + 1
      /\ topic'[p][Len(topic[p]) + 1] = e
      /\ \A i \in 1..Len(topic[p]) : topic'[p][i] = topic[p][i]
  BY <1>2
<1>4. Published' \subseteq Published \cup {e}
  <2> SUFFICES ASSUME NEW q \in Partitions, NEW i \in 1..Len(topic'[q])
               PROVE  topic'[q][i] \in Published \cup {e}
    BY DEF Published
  <2>1. CASE q # p
    BY <1>2, <2>1 DEF Published
  <2>2. CASE q = p /\ i = Len(topic[q]) + 1
    BY <1>3, <2>2
  <2>3. CASE q = p /\ i \in 1..Len(topic[q])
    BY <1>3, <2>3 DEF Published
  <2>4. QED
    BY <1>2, <1>3, <2>1, <2>2, <2>3
<1>5. Published \subseteq Published'
  <2> SUFFICES ASSUME NEW q \in Partitions, NEW i \in 1..Len(topic[q])
               PROVE  topic[q][i] \in Published'
    BY DEF Published
  <2>1. i \in 1..Len(topic'[q]) /\ topic'[q][i] = topic[q][i]
    BY <1>2, <1>3
  <2>2. QED
    BY <2>1 DEF Published
<1>6. e \in Published'
  <2>1. Len(topic[p]) + 1 \in 1..Len(topic'[p])
    BY <1>2, <1>3
  <2>2. QED
    BY <1>3, <2>1 DEF Published
<1>7. QED
  BY <1>4, <1>5, <1>6

\* No step gives a row another worker (repository.go 29-56).
LEMMA WorkersStay ==
  ASSUME TypeOK, FreshIds, [Next]_vars, NEW t \in Tasks, tasks[t] \in Task
  PROVE  tasks'[t] \in Task /\ tasks'[t].worker = tasks[t].worker
<1> SUFFICES ASSUME tasks'[t] # tasks[t]
             PROVE  tasks'[t] \in Task /\ tasks'[t].worker = tasks[t].worker
  OBVIOUS
<1>1. PICK c \in Calls :
        /\ Write(c)
        /\ call[c].req.task = t
        /\ tasks'[t] = Updated(tasks[t], call[c].req, call[c].existing)
  BY RowStep, NoneAssumption DEF Insert, FreshIds
<1>2. QED
  BY <1>1, UpdatedRow DEF Write, TypeOK

LEMMA EventInit == Init => EventInv
BY DEF Init, EventInv, OwedIsAsked, EventsAreTrue, Published

LEMMA EventStep ==
  TypeOK /\ FreshIds /\ EventInv /\ [Next]_vars => EventInv'
<1> SUFFICES ASSUME TypeOK, FreshIds, EventInv, [Next]_vars PROVE EventInv'
  OBVIOUS
\* An event keeps its meaning: asked only grows and workers never change.
<1>1. asked \subseteq asked'
  BY DEF Next, Receive, Step, Reject, ReceiveCreate, ReceiveUpdate, Insert,
         ReadExisting, Write, Reread, Database, DbError, Hang, Wake, Deliver,
         Publish, PublishAndRetry, PublishLost, Stop, Exit, Crash, Restart, vars
<1>2. \A t \in Tasks : tasks[t] \in Task => tasks'[t].worker = tasks[t].worker
  BY WorkersStay
\* A call already waiting to read again stays covered.
<1>3. ASSUME NEW c \in Calls, call'[c] = call[c],
             call[c].pc = "reread", call[c].req.status = "NEEDS_HELP"
      PROVE  EventOf(c, tasks[call[c].req.task])' \in asked'
  BY <1>1, <1>2, <1>3 DEF EventInv, OwedIsAsked, EventOf, TypeOK, UpdateRequest
<1>4. OwedIsAsked'
  <2> SUFFICES ASSUME NEW c \in Calls, call'[c] # call[c],
                      call'[c].pc = "reread",
                      call'[c].req.status = "NEEDS_HELP"
               PROVE  EventOf(c, tasks[call[c].req.task])' \in asked'
    BY <1>3 DEF OwedIsAsked
  <2>1. Write(c) /\ call'[c].req = call[c].req
    BY HandlerStep
  <2> DEFINE r == call[c].req
             row == tasks[r.task]
             e == [task |-> r.task, worker |-> row.worker,
                   reason |-> r.reason, timestamp |-> c]
  <2>2. call'[c].req = r
    BY <2>1
  <2>3. e \in asked'
    BY <2>1, <2>2 DEF Write
  <2>4. row \in Task /\ r.task \in Tasks
    BY <2>1 DEF Write, TypeOK, UpdateRequest
  <2>5. EventOf(c, tasks[r.task])' = e
    BY <1>2, <2>2, <2>4 DEF EventOf
  <2>6. QED BY <2>2, <2>3, <2>5
<1>5. outbox' \subseteq asked'
  <2>1. CASE outbox' \subseteq outbox
    BY <1>1, <2>1 DEF EventInv, EventsAreTrue
  <2>2. ASSUME NEW c \in Calls, Reread(c) PROVE outbox' \subseteq asked'
    BY <1>1, <2>2
    DEF Reread, Announces, EventInv, OwedIsAsked, EventsAreTrue
  <2>3. QED
    BY <2>1, <2>2
    DEF Next, Receive, Step, Reject, ReceiveCreate, ReceiveUpdate, Insert,
        ReadExisting, Write, Database, DbError, Hang, Wake, Deliver, Publish,
        PublishAndRetry, PublishLost, Stop, Exit, Crash, Restart, vars
<1>6. Published' \subseteq asked'
  <2>1. CASE topic' = topic
    BY <1>1, <2>1 DEF EventInv, EventsAreTrue, Published
  <2>2. ASSUME NEW e \in TaskEvent, e \in outbox,
               NEW p \in Partitions, Store(e, p)
        PROVE  Published' \subseteq asked'
    BY <1>1, <2>2, StorePublishes DEF EventInv, EventsAreTrue
  <2>3. QED
    BY <2>1, <2>2
    DEF Next, Receive, Step, Reject, ReceiveCreate, ReceiveUpdate, Insert,
        ReadExisting, Write, Reread, Database, DbError, Hang, Wake, Deliver,
        Publish, PublishAndRetry, PublishLost, Stop, Exit, Crash, Restart, vars
<1>7. QED BY <1>4, <1>5, <1>6 DEF EventInv, EventsAreTrue

\* No event is ever made up: each tells of a NEEDS_HELP write that happened.
THEOREM EventsTrue == Spec => []EventsAreTrue
<1>1. EventInv => EventsAreTrue
  BY DEF EventInv
<1>2. QED BY <1>1, EventInit, EventStep, TypeCorrect, IdsAreFresh, PTL DEF Spec
-----------------------------------------------------------------------------
(* What taking turns buys.                                                 *)

\* Two running calls never name one task, so what a call read is still so.
SerialInv ==
  Serialised =>
    /\ ReasonOnlyWhenNeedsHelp
    /\ \A c, d \in Active : c # d => call[c].req.task # call[d].req.task
    /\ \A c \in Calls : call[c].pc = "write" =>
         call[c].existing = tasks[call[c].req.task].status

LEMMA SerialInit == Init => SerialInv
BY DEF Init, SerialInv, ReasonOnlyWhenNeedsHelp, Active

LEMMA SerialStep ==
  TypeOK /\ FreshIds /\ SerialInv /\ [Next]_vars => SerialInv'
<1> SUFFICES ASSUME TypeOK, FreshIds, SerialInv, [Next]_vars, Serialised
             PROVE  SerialInv'
  BY DEF SerialInv
<1>1. \A c, d \in Active' : c # d => call'[c].req.task # call'[d].req.task
  <2>1. ASSUME NEW c \in Active', call'[c] # call[c]
        PROVE  \/ c \in Active /\ call'[c].req = call[c].req
               \/ /\ \A d \in Active : call[d].req.task # call'[c].req.task
                  /\ \A d \in Calls \ {c} : call'[d] = call[d]
    <3>1. c \in Calls /\ call'[c].pc \notin {"new", "done", "failed"}
      BY <2>1 DEF Active
    <3>2. CASE \/ ReadExisting(c) /\ call'[c].req = call[c].req
               \/ Write(c) /\ call'[c].req = call[c].req
      BY <3>1, <3>2 DEF ReadExisting, Write, Active
    <3>3. ASSUME NEW r \in CreateRequest, ReceiveCreate(c, r),
                 call'[c].req = r
          PROVE  /\ \A d \in Active : call[d].req.task # call'[c].req.task
                 /\ \A d \in Calls \ {c} : call'[d] = call[d]
      BY <3>1, <3>3 DEF ReceiveCreate, MayStart, TypeOK
    <3>4. ASSUME NEW r \in UpdateRequest, ReceiveUpdate(c, r),
                 call'[c].req = r
          PROVE  /\ \A d \in Active : call[d].req.task # call'[c].req.task
                 /\ \A d \in Calls \ {c} : call'[d] = call[d]
      BY <3>1, <3>4 DEF ReceiveUpdate, MayStart, TypeOK
    <3>5. QED BY <2>1, <3>1, <3>2, <3>3, <3>4, HandlerStep
  <2>2. SUFFICES ASSUME NEW c \in Active', NEW d \in Active', c # d
                 PROVE  call'[c].req.task # call'[d].req.task
    OBVIOUS
  <2>3. CASE call'[c] = call[c] /\ call'[d] = call[d]
    BY <2>2, <2>3 DEF SerialInv, Active
  <2>4. CASE call'[c] # call[c]
    BY <2>1, <2>2, <2>4 DEF SerialInv, Active
  <2>5. CASE call'[d] # call[d]
    BY <2>1, <2>2, <2>5 DEF SerialInv, Active
  <2>6. QED BY <2>3, <2>4, <2>5
\* A row changes only by the one running call that names it.
<1>2. ASSUME NEW c \in Calls, call[c].pc = "write", call'[c] = call[c]
      PROVE  tasks'[call[c].req.task] = tasks[call[c].req.task]
  <2>1. SUFFICES ASSUME tasks'[call[c].req.task] # tasks[call[c].req.task]
                 PROVE  FALSE
    OBVIOUS
  <2>2. call[c].req.task \in Tasks
    BY <1>2 DEF TypeOK, UpdateRequest
  <2>3. PICK d \in Calls : /\ Insert(d) \/ Write(d)
                           /\ call[d].req.task = call[c].req.task
    BY <2>1, <2>2, RowStep
  <2>4. d # c
    BY <1>2, <2>3, ReturnType DEF Insert, Write, Goto, TypeOK, Handler
  <2>5. c \in Active /\ d \in Active
    BY <1>2, <2>3 DEF Active, Insert, Write
  <2>6. QED BY <2>3, <2>4, <2>5 DEF SerialInv
<1>3. \A c \in Calls : call'[c].pc = "write" =>
        call'[c].existing = tasks'[call'[c].req.task].status
  <2> SUFFICES ASSUME NEW c \in Calls, call'[c].pc = "write"
               PROVE  call'[c].existing = tasks'[call'[c].req.task].status
    OBVIOUS
  <2>1. CASE call'[c] = call[c]
    BY <1>2, <2>1 DEF SerialInv
  <2>2. CASE call'[c] # call[c]
    BY <2>2, HandlerStep DEF ReadExisting
  <2>3. QED BY <2>1, <2>2
<1>4. ReasonOnlyWhenNeedsHelp'
  <2> SUFFICES ASSUME NEW t \in Tasks, tasks'[t] # tasks[t],
                      tasks'[t].reason # None
               PROVE  tasks'[t].status = "NEEDS_HELP"
    BY DEF SerialInv, ReasonOnlyWhenNeedsHelp
  <2>1. PICK c \in Calls : /\ Write(c)
                           /\ call[c].req.task = t
                           /\ tasks'[t] = Updated(tasks[t], call[c].req,
                                                  call[c].existing)
    <3>1. \A r : NewTask(r).reason = None
      BY DEF NewTask
    <3>2. QED BY <3>1, RowStep
  <2> DEFINE r == call[c].req
  <2>2. /\ r \in UpdateRequest /\ Valid(r)
        /\ call[c].existing \in Status /\ tasks[t] \in Task
        /\ call[c].existing = tasks[t].status
    BY <2>1 DEF Write, TypeOK, SerialInv
  <2>3. /\ tasks'[t].reason = NewReason(tasks[t], r, call[c].existing)
        /\ r.status = None => tasks'[t].status = tasks[t].status
        /\ r.status # None => tasks'[t].status = r.status
    BY <2>1, <2>2, UpdatedRow
  <2>4. CASE r.status = None
    <3>1. NewReason(tasks[t], r, call[c].existing) = tasks[t].reason
          \/ call[c].existing = "NEEDS_HELP"
      BY <2>4, NoneAssumption DEF NewReason, Status
    <3>2. tasks[t].reason # None => tasks[t].status = "NEEDS_HELP"
      BY <2>2, NoneAssumption DEF SerialInv, ReasonOnlyWhenNeedsHelp
    <3>3. QED BY <2>2, <2>3, <2>4, <3>1, <3>2
  <2>5. CASE r.status # None
    <3>1. r.status \in Status /\ tasks'[t].status = r.status
      BY <2>2, <2>3, <2>5 DEF Valid, UpdateRequest
    <3>2. r.status # "NEEDS_HELP" =>
            NewReason(tasks[t], r, call[c].existing) = None
      BY <3>1 DEF NewReason
    <3>3. QED BY <2>3, <3>1, <3>2
  <2>6. QED BY <2>4, <2>5
<1>5. QED BY <1>1, <1>3, <1>4 DEF SerialInv

\* If clients never overlap calls on one task, a reason is only ever found on
\* a row that needs help, whatever fails in between.
THEOREM SerialReason ==
  Spec => [](Serialised => ReasonOnlyWhenNeedsHelp)
<1>1. SerialInv => (Serialised => ReasonOnlyWhenNeedsHelp)
  BY DEF SerialInv
<1>2. QED BY <1>1, SerialInit, SerialStep, TypeCorrect, IdsAreFresh, PTL DEF Spec
-----------------------------------------------------------------------------
(* One event for each entry.                                               *)

\* An event on its way, or in the topic, is that of a call that is over; the
\* process is only down, or going down, where that is among the faults, and what
\* hangs or is cut short is due to one.
EventsAreOver ==
  /\ \A e \in outbox \cup Published : call[e.timestamp].pc \in {"done", "failed"}
  /\ server = "serving" \/ Faults \cap {"shutdown", "crash"} # {}
  /\ hung # {} => "db_hang" \in Faults
  /\ Faults \subseteq {"publish_retry"} => cut = {}

LEMMA OverInit == Init => EventsAreOver
BY DEF Init, EventsAreOver, Published

\* What a call has returned stays returned.
LEMMA OverStays ==
  ASSUME TypeOK, [Next]_vars, NEW c \in Calls, call[c].pc \in {"done", "failed"}
  PROVE  call'[c].pc \in {"done", "failed"}
<1>1. CASE call'[c] = call[c]
  BY <1>1
<1>2. CASE call'[c] # call[c]
  BY <1>2, HandlerStep
     DEF ReceiveCreate, ReceiveUpdate, ReadExisting, Write
<1>3. QED
  BY <1>1, <1>2

\* Events only come from a handler's last step, and move from the outbox to the
\* topic.
LEMMA NewEvents ==
  ASSUME TypeOK, [Next]_vars, NEW e \in outbox' \cup Published',
         e \notin outbox \cup Published
  PROVE  \E c \in Calls :
           Reread(c) /\ Announces(call[c])
                     /\ e = EventOf(c, tasks[call[c].req.task])
<1>1. ASSUME NEW d \in TaskEvent, Deliver(d) PROVE FALSE
  <2>1. d \in outbox /\ outbox' \subseteq outbox
    BY <1>1 DEF Deliver, Publish, PublishAndRetry, PublishLost
  <2>2. Published' \subseteq Published \cup {d}
    <3>1. CASE topic' = topic
      BY <3>1 DEF Published
    <3>2. ASSUME NEW p \in Partitions, Store(d, p)
          PROVE  Published' \subseteq Published \cup {d}
      BY <3>2, StorePublishes
    <3>3. QED
      BY <1>1, <3>1, <3>2 DEF Deliver, Publish, PublishAndRetry, PublishLost
  <2>3. QED
    BY <2>1, <2>2
<1>2. CASE topic' = topic /\ outbox' \subseteq outbox
  BY <1>2 DEF Published
<1>3. ASSUME NEW c \in Calls, Reread(c)
      PROVE  /\ Announces(call[c])
             /\ e = EventOf(c, tasks[call[c].req.task])
  BY <1>3 DEF Reread, Published
<1>4. QED
  BY <1>1, <1>2, <1>3
     DEF Next, Receive, Step, Reject, ReceiveCreate, ReceiveUpdate, Insert,
         ReadExisting, Write, Database, DbError, Hang, Wake, Stop, Exit, Crash,
         Restart, vars

LEMMA OverStep == TypeOK /\ EventsAreOver /\ [Next]_vars => EventsAreOver'
<1> SUFFICES ASSUME TypeOK, EventsAreOver, [Next]_vars PROVE EventsAreOver'
  OBVIOUS
<1>1. ASSUME NEW e \in outbox' \cup Published'
      PROVE  call'[e.timestamp].pc \in {"done", "failed"}
  <2>1. CASE e \in outbox \cup Published
    <3>1. e \in TaskEvent
      BY <2>1 DEF TypeOK, Published
    <3>2. QED
      BY <2>1, <3>1, OverStays DEF EventsAreOver, TaskEvent
  <2>2. CASE e \notin outbox \cup Published
    <3>1. PICK c \in Calls :
            Reread(c) /\ e = EventOf(c, tasks[call[c].req.task])
      BY <2>2, NewEvents
    <3>2. QED
      BY <3>1, ReturnType DEF Reread, EventOf
  <2>3. QED
    BY <2>1, <2>2
<1>2. server' = "serving" \/ Faults \cap {"shutdown", "crash"} # {}
  BY DEF EventsAreOver, Next, Receive, Step, Reject, ReceiveCreate,
         ReceiveUpdate, Insert, ReadExisting, Write, Reread, Database, DbError,
         Hang, Wake, Deliver, Publish, PublishAndRetry, PublishLost, Stop, Exit,
         Crash, Restart, vars
<1>3. hung' # {} => "db_hang" \in Faults
  BY DEF EventsAreOver, Next, Receive, Step, Reject, ReceiveCreate, ReceiveUpdate,
         Insert, ReadExisting, Write, Reread, Database, DbError, Hang, Wake,
         Deliver, Publish, PublishAndRetry, PublishLost, Stop, Exit, Crash,
         Restart, vars
<1>4. ASSUME Faults \subseteq {"publish_retry"} PROVE cut' = {}
  <2>1. ~ Exit /\ ~ Crash
    BY <1>4 DEF EventsAreOver, Exit, Crash
  <2>2. cut = {} /\ hung = {}
    BY <1>4 DEF EventsAreOver
  <2>3. QED
    BY <1>4, <2>1, <2>2
       DEF Next, Receive, Step, Reject, ReceiveCreate, ReceiveUpdate, Insert,
           ReadExisting, Write, ReplyLost, Reread, Database, DbError, Hang, Wake,
           Deliver, Publish, PublishAndRetry, PublishLost, Stop, Restart, vars
<1>5. QED
  BY <1>1, <1>2, <1>3, <1>4 DEF EventsAreOver

LEMMA EventsAreOverAlways == Spec => []EventsAreOver
<1>1. QED
  BY OverInit, OverStep, TypeCorrect, PTL DEF Spec

\* A fault that takes an event away leaves its mark.
LEMMA EventsStay ==
  ASSUME TypeOK, [Next]_vars
  PROVE  /\ cut \subseteq cut'
         /\ Heralded \subseteq Heralded' \cup cut'
<1>1. cut \subseteq cut'
  BY DEF Next, Receive, Step, Reject, ReceiveCreate, ReceiveUpdate, Insert,
         ReadExisting, Write, Reread, Database, DbError, Hang, Wake, Deliver,
         Publish, PublishAndRetry, PublishLost, Stop, Exit, Crash, Restart, vars
<1>2. Published \subseteq Published'
  <2>1. ASSUME NEW e \in TaskEvent, NEW p \in Partitions, Store(e, p)
        PROVE  Published \subseteq Published'
    BY <2>1, StorePublishes
  <2>2. CASE topic' = topic
    BY <2>2 DEF Published
  <2>3. QED
    BY <2>1, <2>2
       DEF Next, Receive, Step, Reject, ReceiveCreate, ReceiveUpdate, Insert,
           ReadExisting, Write, Reread, Database, DbError, Hang, Wake, Deliver,
           Publish, PublishAndRetry, PublishLost, Stop, Exit, Crash, Restart, vars
<1>3. ASSUME NEW e \in outbox, e \notin outbox'
      PROVE  e \in Published' \/ e.timestamp \in cut'
  <2>1. ASSUME NEW d \in TaskEvent, Deliver(d)
        PROVE  e \in Published' \/ e.timestamp \in cut'
    <3>1. CASE PublishLost(d)
      BY <1>3, <3>1 DEF PublishLost
    <3>2. CASE ~ PublishLost(d)
      <4>1. PICK p \in Partitions : Store(d, p) /\ outbox \ {d} \subseteq outbox'
        BY <2>1, <3>2 DEF Deliver, Publish, PublishAndRetry
      <4>2. QED
        BY <1>3, <4>1, StorePublishes
    <3>3. QED
      BY <3>1, <3>2
  <2>2. CASE Exit \/ Crash
    BY <2>2 DEF Exit, Crash
  <2>3. CASE outbox \subseteq outbox'
    BY <1>3, <2>3
  <2>4. QED
    BY <2>1, <2>2, <2>3
       DEF Next, Receive, Step, Reject, ReceiveCreate, ReceiveUpdate, Insert,
           ReadExisting, Write, Reread, Database, DbError, Hang, Wake, Stop,
           Restart, vars
<1>4. QED
  BY <1>1, <1>2, <1>3 DEF Heralded

\* An announcement is owed, made or cut short, and stays one of the three.
LEMMA AnnouncementsStay ==
  ASSUME TypeOK, [Next]_vars
  PROVE  Owing \cup Heralded \cup cut \subseteq (Owing \cup Heralded \cup cut)'
<1> SUFFICES ASSUME NEW c \in Owing PROVE c \in (Owing \cup Heralded \cup cut)'
  BY EventsStay
<1>1. c \in Calls /\ call[c].pc = "reread" /\ Announces(call[c])
  BY DEF Owing
<1>2. CASE call'[c] = call[c]
  BY <1>1, <1>2 DEF Owing, Announces
<1>3. CASE Reread(c)
  <2>1. EventOf(c, tasks[call[c].req.task]) \in outbox'
    BY <1>1, <1>3 DEF Reread
  <2>2. EventOf(c, tasks[call[c].req.task]).timestamp = c
    BY DEF EventOf
  <2>3. QED
    BY <2>1, <2>2 DEF Heralded
<1>4. CASE DbError(c)
  BY <1>4 DEF DbError
<1>5. CASE Crash
  BY <1>1, <1>5 DEF Crash, Active
<1>6. CASE call'[c] # call[c] /\ ~ Crash
  <2>1. PICK d \in Calls : Receive(d) \/ Step(d) \/ Database(d)
    BY <1>6 DEF Next, Deliver, Publish, PublishAndRetry, PublishLost, Stop, Exit,
                Restart, vars
  <2>2. d = c
    BY <1>1, <1>6, <2>1
       DEF Receive, Step, Reject, ReceiveCreate, ReceiveUpdate, Insert,
           ReadExisting, Write, Reread, Database, DbError, Hang, Wake, Return,
           Goto, TypeOK
  <2>3. Reread(c) \/ DbError(c)
    BY <1>1, <1>6, <2>1, <2>2
       DEF Receive, Step, Reject, ReceiveCreate, ReceiveUpdate, Insert,
           ReadExisting, Write, Database, Hang, Wake
  <2>4. QED
    BY <1>3, <1>4, <2>3
<1>7. QED
  BY <1>2, <1>5, <1>6

\* A call whose write is committed goes on to read the row again, or is cut.
LEMMA WriteGoesOn ==
  ASSUME TypeOK, NEW c \in Calls, Write(c), Announces(call[c])
  PROVE  c \in Owing' \cup cut'
<1>1. CASE Goto(c, "reread")
  <2>1. /\ call'[c].pc = "reread"
        /\ call'[c].req = call[c].req
        /\ call'[c].existing = call[c].existing
    BY <1>1 DEF Goto, TypeOK, Handler
  <2>2. QED
    BY <2>1 DEF Owing, Announces
<1>2. CASE cut' = cut \cup {c}
  BY <1>2
<1>3. QED
  BY <1>1, <1>2 DEF Write

\* Where calls take turns, every announcement, owed or made, stands for an entry
\* of its own, and every entry has its announcement or was cut short.
HeraldInv == Serialised => OneEventPerEntry

LEMMA HeraldInit == Init => HeraldInv
BY DEF Init, HeraldInv, OneEventPerEntry, Owing, Heralded, Published

\* The history of entries grows by a write that finds the row not in need.
LEMMA EntriesStep ==
  ASSUME [Next]_vars
  PROVE  /\ entries \subseteq entries'
         /\ \A c \in entries' \ entries :
              c \in Calls /\ Write(c) /\ call[c].req.status = "NEEDS_HELP"
                          /\ tasks[call[c].req.task].status # "NEEDS_HELP"
BY DEF Next, Receive, Step, Reject, ReceiveCreate, ReceiveUpdate, Insert,
       ReadExisting, Write, Reread, Database, DbError, Hang, Wake, Deliver,
       Publish, PublishAndRetry, PublishLost, Stop, Exit, Crash, Restart, vars

LEMMA HeraldStep ==
  TypeOK /\ SerialInv /\ EventsAreOver /\ HeraldInv /\ [Next]_vars => HeraldInv'
<1> SUFFICES ASSUME TypeOK, SerialInv, EventsAreOver, HeraldInv, [Next]_vars,
                    Serialised
             PROVE  HeraldInv'
  BY DEF HeraldInv
<1>1. ASSUME NEW c \in Owing' PROVE c \in entries'
  <2>1. CASE call'[c] = call[c]
    BY <2>1, EntriesStep DEF Owing, Announces, HeraldInv,
                                OneEventPerEntry
  <2>2. CASE call'[c] # call[c]
    <3>1. c \in Calls /\ call'[c].pc = "reread" /\ Announces(call[c])'
      BY DEF Owing, Announces
    <3>2. /\ Write(c)
          /\ call'[c].req = call[c].req
          /\ call'[c].existing = call[c].existing
      BY <2>2, <3>1, HandlerStep
    <3>3. call[c].req.status = "NEEDS_HELP" /\ call[c].existing # "NEEDS_HELP"
      BY <3>1, <3>2 DEF Announces
    <3>4. call[c].existing = tasks[call[c].req.task].status
      BY <3>1, <3>2 DEF Write, SerialInv
    <3>5. QED
      BY <3>2, <3>3, <3>4 DEF Write
  <2>3. QED
    BY <2>1, <2>2
<1>2. ASSUME NEW e \in outbox' \cup Published' PROVE e.timestamp \in entries'
  <2>1. CASE e \in outbox \cup Published
    BY <2>1, EntriesStep DEF HeraldInv, OneEventPerEntry, Heralded
  <2>2. CASE e \notin outbox \cup Published
    <3>1. PICK c \in Calls : /\ Reread(c)
                             /\ Announces(call[c])
                             /\ e = EventOf(c, tasks[call[c].req.task])
      BY <2>2, NewEvents
    <3>2. c \in Owing /\ e.timestamp = c
      BY <3>1 DEF Owing, Reread, EventOf
    <3>3. QED
      BY <3>2, EntriesStep DEF HeraldInv, OneEventPerEntry
  <2>3. QED
    BY <2>1, <2>2
<1>3. ASSUME NEW c \in entries' PROVE c \in (Owing \cup Heralded \cup cut)'
  <2>1. CASE c \in entries
    BY <2>1, AnnouncementsStay DEF HeraldInv, OneEventPerEntry
  <2>2. CASE c \notin entries
    <3>1. /\ c \in Calls /\ Write(c) /\ call[c].req.status = "NEEDS_HELP"
          /\ tasks[call[c].req.task].status # "NEEDS_HELP"
      BY <1>3, <2>2, EntriesStep
    <3>2. Announces(call[c])
      BY <3>1 DEF Write, SerialInv, Announces
    <3>3. QED
      BY <3>1, <3>2, WriteGoesOn
  <2>3. QED
    BY <2>1, <2>2
<1>4. Owing' \cup Heralded' \subseteq entries'
  BY <1>1, <1>2 DEF Heralded
<1>5. QED
  BY <1>3, <1>4 DEF HeraldInv, OneEventPerEntry

LEMMA HeraldAlways == Spec => [](TypeOK /\ FreshIds /\ SerialInv /\ EventsAreOver
                                   /\ HeraldInv)
<1>1. QED
  BY SerialInit, SerialStep, HeraldInit, HeraldStep, TypeCorrect, IdsAreFresh,
     EventsAreOverAlways, PTL DEF Spec

\* Where calls on one task take turns, each entry into NEEDS_HELP is announced by
\* exactly the call that wrote it, unless a fault cut that call or its goroutine
\* short; no fault makes the service announce help twice for one entry, nor where
\* there was none (service.go 93-118).
THEOREM EntriesAreAnnounced == Spec => [](Serialised => OneEventPerEntry)
<1>1. HeraldInv => (Serialised => OneEventPerEntry)
  BY DEF HeraldInv
<1>2. QED
  BY <1>1, HeraldAlways, PTL

\* What stands behind an entry that its own call does not announce: the row it
\* finds in need, now or at its first read, came to need by another entry.
NeedInv ==
  /\ NeedIsAnnounced
  /\ \A c \in entries \cup {e.timestamp : e \in asked} :
       call[c].pc \in {"reread", "done", "failed"}
  /\ \A t \in Tasks : tasks[t] # None /\ tasks[t].status = "NEEDS_HELP" =>
                       t \in Needing(entries)
  /\ \A c \in Calls : call[c].pc = "write" /\ call[c].existing = "NEEDS_HELP" =>
                       call[c].req.task \in Needing(entries)

LEMMA NeedInit == Init => NeedInv
BY DEF Init, NeedInv, NeedIsAnnounced, Needing

\* The history of what was asked for grows by a write.
LEMMA AskedGrows ==
  ASSUME [Next]_vars
  PROVE  /\ asked \subseteq asked'
         /\ \A e \in asked' \ asked :
              \E c \in Calls : /\ Write(c) /\ call[c].req.status = "NEEDS_HELP"
                              /\ e.timestamp = c /\ e.task = call[c].req.task
<1>1. ASSUME NEW c \in Calls, Write(c)
      PROVE  /\ asked \subseteq asked'
             /\ \A e \in asked' \ asked :
                  /\ call[c].req.status = "NEEDS_HELP"
                  /\ e.timestamp = c /\ e.task = call[c].req.task
  BY <1>1 DEF Write
<1>2. CASE UNCHANGED asked
  BY <1>2
<1>3. QED
  BY <1>1, <1>2
     DEF Next, Receive, Step, Reject, ReceiveCreate, ReceiveUpdate, Insert,
         ReadExisting, Reread, Database, DbError, Hang, Wake, Deliver, Publish,
         PublishAndRetry, PublishLost, Stop, Exit, Crash, Restart, vars

\* A call past its write stays past it.
LEMMA WrittenStays ==
  ASSUME TypeOK, [Next]_vars, NEW c \in Calls,
         call[c].pc \in {"reread", "done", "failed"}
  PROVE  call'[c].pc \in {"reread", "done", "failed"}
<1>1. CASE call'[c] = call[c]
  BY <1>1
<1>2. CASE call'[c] # call[c]
  BY <1>2, HandlerStep DEF ReceiveCreate, ReceiveUpdate, ReadExisting, Write
<1>3. QED
  BY <1>1, <1>2

LEMMA NeedStep == TypeOK /\ NeedInv /\ [Next]_vars => NeedInv'
<1> SUFFICES ASSUME TypeOK, NeedInv, [Next]_vars PROVE NeedInv'
  OBVIOUS
<1>0. Needing(entries) \subseteq Needing(entries)'
  BY AskedGrows, EntriesStep DEF Needing
<1>1. ASSUME NEW c \in Calls, Write(c), call[c].req.status = "NEEDS_HELP"
      PROVE  /\ c \notin entries
             /\ call'[c].pc \in {"reread", "failed"}
             /\ call[c].req.task \in Needing(entries)'
             /\ c \in entries' => call[c].req.task \in
                                    Needing(Owing \cup Heralded \cup cut)'
  <2> DEFINE r == call[c].req
             n == [task |-> r.task, worker |-> tasks[r.task].worker,
                   reason |-> r.reason, timestamp |-> c]
  <2>1. /\ call[c].pc = "write" /\ r.task \in Tasks /\ tasks[r.task] \in Task
        /\ call[c].existing \in Status
    BY <1>1 DEF Write, TypeOK, UpdateRequest
  <2>2. c \notin entries
    BY <2>1 DEF NeedInv
  <2>3. call'[c].pc \in {"reread", "failed"}
    BY <1>1, ReturnType DEF Write, Goto, TypeOK, Handler
  <2>4. n \in asked'
    BY <1>1 DEF Write
  <2>5. c \in entries' <=> tasks[r.task].status # "NEEDS_HELP"
    BY <1>1, <2>2 DEF Write
  <2>6. CASE c \notin entries'
    BY <1>0, <2>1, <2>2, <2>3, <2>5, <2>6, NoneAssumption DEF NeedInv
  <2>7. CASE c \in entries' /\ call[c].existing # "NEEDS_HELP"
    <3>1. c \in Owing' \cup cut'
      BY <1>1, <2>7, WriteGoesOn DEF Announces
    <3>2. QED
      BY <2>2, <2>3, <2>4, <2>7, <3>1 DEF Needing
  <2>8. CASE c \in entries' /\ call[c].existing = "NEEDS_HELP"
    <3>1. r.task \in Needing(Owing \cup Heralded \cup cut)
      BY <2>1, <2>8 DEF NeedInv, NeedIsAnnounced
    <3>2. r.task \in Needing(Owing \cup Heralded \cup cut)'
      BY <3>1, AskedGrows, AnnouncementsStay DEF Needing
    <3>3. QED
      BY <2>2, <2>3, <2>4, <2>8, <3>2 DEF Needing
  <2>9. QED
    BY <2>6, <2>7, <2>8
<1>2. NeedIsAnnounced'
  <2> SUFFICES ASSUME NEW e \in asked', e.timestamp \in entries'
               PROVE  e.task \in Needing(Owing \cup Heralded \cup cut)'
    BY DEF NeedIsAnnounced, Needing
  <2>1. CASE e \in asked /\ e.timestamp \in entries
    <3>1. e.task \in Needing(Owing \cup Heralded \cup cut)
      BY <2>1 DEF NeedInv, NeedIsAnnounced, Needing
    <3>2. QED
      BY <3>1, AskedGrows, AnnouncementsStay DEF Needing
  <2>2. CASE e \notin asked
    BY <1>1, <2>2, AskedGrows
  <2>3. CASE e \in asked /\ e.timestamp \notin entries
    <3>1. Write(e.timestamp) /\ call[e.timestamp].pc = "write"
      BY <2>3, EntriesStep DEF Write
    <3>2. QED
      BY <2>3, <3>1 DEF NeedInv
  <2>4. QED
    BY <2>1, <2>2, <2>3
<1>3. ASSUME NEW c \in entries' \cup {e.timestamp : e \in asked'}
      PROVE  call'[c].pc \in {"reread", "done", "failed"}
  <2>1. CASE c \in entries \cup {e.timestamp : e \in asked}
    <3>1. c \in Calls
      BY <2>1 DEF TypeOK, TaskEvent
    <3>2. QED
      BY <2>1, <3>1, WrittenStays DEF NeedInv
  <2>2. CASE c \notin entries \cup {e.timestamp : e \in asked}
    <3>1. c \in Calls /\ Write(c) /\ call[c].req.status = "NEEDS_HELP"
      BY <1>3, <2>2, EntriesStep, AskedGrows
    <3>2. QED
      BY <1>1, <3>1
  <2>3. QED
    BY <2>1, <2>2
<1>4. ASSUME NEW t \in Tasks, tasks'[t] # None, tasks'[t].status = "NEEDS_HELP"
      PROVE  t \in Needing(entries)'
  <2>1. CASE tasks[t] # None /\ tasks[t].status = "NEEDS_HELP"
    BY <1>0, <2>1 DEF NeedInv
  <2>2. CASE ~ (tasks[t] # None /\ tasks[t].status = "NEEDS_HELP")
    <3>1. PICK c \in Calls :
            \/ Insert(c) /\ tasks'[t] = NewTask(call[c].req)
            \/ Write(c) /\ call[c].req.task = t
                        /\ tasks'[t] = Updated(tasks[t], call[c].req,
                                               call[c].existing)
      BY <1>4, <2>2, RowStep
    <3>2. Write(c) /\ call[c].req.task = t
      BY <1>4, <3>1 DEF NewTask
    <3>3. /\ call[c].req \in UpdateRequest /\ Valid(call[c].req)
          /\ call[c].existing \in Status /\ tasks[t] \in Task
      BY <3>2 DEF Write, TypeOK
    <3>4. call[c].req.status = "NEEDS_HELP"
      BY <1>4, <2>2, <3>1, <3>3, UpdatedRow, NoneAssumption DEF NewTask
    <3>5. QED
      BY <1>1, <3>2, <3>4
  <2>3. QED
    BY <2>1, <2>2
<1>5. ASSUME NEW c \in Calls, call'[c].pc = "write",
             call'[c].existing = "NEEDS_HELP"
      PROVE  call'[c].req.task \in Needing(entries)'
  <2>1. CASE call'[c] = call[c]
    BY <1>0, <1>5, <2>1 DEF NeedInv
  <2>2. CASE call'[c] # call[c]
    <3>1. /\ ReadExisting(c)
          /\ call'[c].req = call[c].req
          /\ tasks[call[c].req.task].status = "NEEDS_HELP"
      BY <1>5, <2>2, HandlerStep
    <3>2. tasks[call[c].req.task] # None /\ call[c].req.task \in Tasks
      BY <1>5, <3>1 DEF ReadExisting, Return, TypeOK, UpdateRequest
    <3>3. QED
      BY <1>0, <3>1, <3>2 DEF NeedInv
  <2>3. QED
    BY <2>1, <2>2
<1>6. QED
  BY <1>2, <1>3, <1>4, <1>5 DEF NeedInv

\* However calls on one task overlap, and whatever their first reads miss, a task
\* that came to need help is announced by one of them, unless a fault cut one of
\* them or its goroutine short (service.go 53, 93-118).
THEOREM NeedsAreAnnounced == Spec => []NeedIsAnnounced
<1>1. NeedInv => NeedIsAnnounced
  BY DEF NeedInv
<1>2. QED
  BY <1>1, NeedInit, NeedStep, TypeCorrect, PTL DEF Spec

\* A Kafka writer that stores an event again cuts nothing short: where no other
\* fault occurs, every entry is announced.
THEOREM NothingIsCut == Spec => [](Faults \subseteq {"publish_retry"} => cut = {})
<1>1. EventsAreOver => (Faults \subseteq {"publish_retry"} => cut = {})
  BY DEF EventsAreOver
<1>2. QED
  BY <1>1, EventsAreOverAlways, PTL
-----------------------------------------------------------------------------
(* What consumers of the topic may rely on.                                *)

\* A reason was asked for a row that is still there, with the worker it had.
AskedInv == \A e \in asked : tasks[e.task] \in Task /\ tasks[e.task].worker = e.worker

LEMMA AskedInit == Init => AskedInv
BY DEF Init, AskedInv

LEMMA AskedStep == TypeOK /\ FreshIds /\ AskedInv /\ [Next]_vars => AskedInv'
<1> SUFFICES ASSUME TypeOK, FreshIds, AskedInv, [Next]_vars, NEW e \in asked'
             PROVE  tasks'[e.task] \in Task /\ tasks'[e.task].worker = e.worker
  BY DEF AskedInv
<1>1. CASE e \in asked
  <2>1. e.task \in Tasks /\ tasks[e.task] \in Task /\ tasks[e.task].worker = e.worker
    BY <1>1 DEF AskedInv, TypeOK, TaskEvent
  <2>2. QED
    BY <2>1, WorkersStay
<1>2. CASE e \notin asked
  <2>1. PICK c \in Calls : Write(c)
    BY <1>2
       DEF Next, Receive, Step, Reject, ReceiveCreate, ReceiveUpdate, Insert,
           ReadExisting, Reread, Database, DbError, Hang, Wake, Deliver,
           Publish, PublishAndRetry, PublishLost, Stop, Exit, Crash, Restart,
           vars
  <2>2. /\ e.task = call[c].req.task
        /\ e.worker = tasks[call[c].req.task].worker
    BY <1>2, <2>1 DEF Write
  <2>3. call[c].req.task \in Tasks /\ tasks[call[c].req.task] \in Task
    BY <2>1 DEF Write, TypeOK, UpdateRequest
  <2>4. QED
    BY <2>2, <2>3, WorkersStay
<1>3. QED
  BY <1>1, <1>2

LEMMA AskedAlways == Spec => []AskedInv
<1>1. QED
  BY AskedInit, AskedStep, TypeCorrect, IdsAreFresh, PTL DEF Spec

\* A call's event is in one place: waiting, or somewhere in the topic.
OnePlace ==
  /\ \A p, q \in Partitions : \A i \in 1..Len(topic[p]), j \in 1..Len(topic[q]) :
       topic[p][i].timestamp = topic[q][j].timestamp => p = q /\ i = j
  /\ \A e, f \in outbox : e.timestamp = f.timestamp => e = f
  /\ \A e \in outbox, f \in Published : e.timestamp # f.timestamp

\* Unless the Kafka writer stores one again, an event is published only once.
PublishedOnce == "publish_retry" \notin Faults => OnePlace

LEMMA OnceInit == Init => PublishedOnce
BY DEF Init, PublishedOnce, OnePlace, Published

\* An event that leaves the outbox for the topic takes its one place there.
LEMMA PublishMoves ==
  ASSUME TypeOK, OnePlace, NEW e \in TaskEvent, Publish(e)
  PROVE  OnePlace'
<1>1. PICK r \in Partitions : Store(e, r)
  BY DEF Publish
<1>2. e \in outbox /\ outbox' = outbox \ {e}
  BY DEF Publish
<1>3. Published' = Published \cup {e}
  BY <1>1, StorePublishes
<1> DEFINE n == Len(topic[r])
<1>4. /\ n \in Nat /\ Len(topic'[r]) = n + 1 /\ topic'[r][n + 1] = e
      /\ \A i \in 1..n : topic'[r][i] = topic[r][i]
      /\ \A q \in Partitions \ {r} : topic'[q] = topic[q]
  BY <1>1 DEF Store, TypeOK
\* A position of the topic now is the new one, or was one before.
<1>5. ASSUME NEW p \in Partitions, NEW i \in 1..Len(topic'[p])
      PROVE  \/ p = r /\ i = n + 1 /\ topic'[p][i] = e
             \/ /\ i \in 1..Len(topic[p])
                /\ topic'[p][i] = topic[p][i]
                /\ topic[p][i].timestamp # e.timestamp
  <2>1. CASE p = r /\ i = n + 1
    BY <1>4, <2>1
  <2>2. CASE ~ (p = r /\ i = n + 1)
    <3>1. i \in 1..Len(topic[p]) /\ topic'[p][i] = topic[p][i]
      BY <1>4, <2>2
    <3>2. topic[p][i] \in Published
      BY <3>1 DEF Published
    <3>3. QED
      BY <1>2, <3>1, <3>2 DEF OnePlace
  <2>3. QED
    BY <2>1, <2>2
<1>6. ASSUME NEW p \in Partitions, NEW q \in Partitions,
             NEW i \in 1..Len(topic'[p]), NEW j \in 1..Len(topic'[q]),
             topic'[p][i].timestamp = topic'[q][j].timestamp
      PROVE  p = q /\ i = j
  <2>1. CASE p = r /\ i = n + 1 /\ topic'[p][i] = e
    BY <1>5, <1>6, <2>1
  <2>2. CASE q = r /\ j = n + 1 /\ topic'[q][j] = e
    BY <1>5, <1>6, <2>2
  <2>3. CASE /\ i \in 1..Len(topic[p]) /\ topic'[p][i] = topic[p][i]
             /\ j \in 1..Len(topic[q]) /\ topic'[q][j] = topic[q][j]
    BY <1>6, <2>3 DEF OnePlace
  <2>4. QED
    BY <1>5, <2>1, <2>2, <2>3
<1>7. \A d, f \in outbox' : d.timestamp = f.timestamp => d = f
  BY <1>2 DEF OnePlace
<1>8. \A d \in outbox', f \in Published' : d.timestamp # f.timestamp
  BY <1>2, <1>3 DEF OnePlace
<1>9. QED
  BY <1>6, <1>7, <1>8 DEF OnePlace

LEMMA OnceStep ==
  TypeOK /\ EventsAreOver /\ PublishedOnce /\ [Next]_vars => PublishedOnce'
<1> SUFFICES ASSUME TypeOK, EventsAreOver, OnePlace, [Next]_vars,
                    "publish_retry" \notin Faults
             PROVE  OnePlace'
  BY DEF PublishedOnce
<1>1. ASSUME NEW e \in TaskEvent, Publish(e) PROVE OnePlace'
  BY <1>1, PublishMoves
<1>2. CASE topic' = topic /\ outbox' \subseteq outbox
  BY <1>2 DEF OnePlace, Published
<1>3. ASSUME NEW c \in Calls, Reread(c) PROVE OnePlace'
  <2> DEFINE e == EventOf(c, tasks[call[c].req.task])
  <2>1. outbox' \subseteq outbox \cup {e} /\ topic' = topic /\ e.timestamp = c
    BY <1>3 DEF Reread, EventOf
  <2>2. \A d \in outbox \cup Published : d.timestamp # c
    BY <1>3 DEF EventsAreOver, Reread
  <2>3. Published' = Published
    BY <2>1 DEF Published
  <2>4. QED
    BY <2>1, <2>2, <2>3 DEF OnePlace
<1>4. QED
  BY <1>1, <1>2, <1>3
     DEF Next, Receive, Step, Reject, ReceiveCreate, ReceiveUpdate, Insert,
         ReadExisting, Write, Database, DbError, Hang, Wake, Deliver,
         PublishAndRetry, PublishLost, Stop, Exit, Crash, Restart, vars

\* Unless the Kafka writer repeats a write, no call has two events in the topic,
\* nor one there and another on its way (service.go 102-114).
THEOREM PublishedAtMostOnce == Spec => []PublishedOnce
<1>1. QED
  BY OnceInit, OnceStep, TypeCorrect, EventsAreOverAlways, PTL DEF Spec
-----------------------------------------------------------------------------
(* Refinement: while clients take turns, the service implements TaskBoard. *)

BoardView == [t \in Tasks |-> BoardRow(tasks[t])]

\* The announcements the handlers past their UPDATE have in mind.
OwedEvents == {EventOf(c, tasks[call[c].req.task]) : c \in Owing}

View == <<BoardView, BoardOwed, Published>>

BoardInv == TypeOK /\ FreshIds /\ SerialInv /\ EventsAreOver

\* A handler that goes on waiting has the same announcement in mind.
LEMMA OwedKept ==
  ASSUME BoardInv, [Next]_vars, NEW c \in Owing, call'[c] = call[c]
  PROVE  EventOf(c, tasks[call[c].req.task])' = EventOf(c, tasks[call[c].req.task])
<1>1. /\ c \in Calls /\ call[c].req.task \in Tasks
      /\ tasks[call[c].req.task] \in Task
  BY DEF Owing, BoardInv, TypeOK, UpdateRequest
<1>2. tasks'[call[c].req.task].worker = tasks[call[c].req.task].worker
  BY <1>1, WorkersStay DEF BoardInv
<1>3. QED
  BY <1>2 DEF EventOf

\* While the same handlers wait, the same announcements are in mind.
LEMMA SameOwing ==
  ASSUME BoardInv, [Next]_vars, Owing' = Owing,
         \A c \in Owing : call'[c] = call[c]
  PROVE  OwedEvents' = OwedEvents
BY OwedKept DEF OwedEvents

\* Where no handler comes to wait, none is added.
LEMMA FewerOwing ==
  ASSUME BoardInv, [Next]_vars, Owing' \subseteq Owing,
         \A c \in Owing' : call'[c] = call[c]
  PROVE  OwedEvents' \subseteq OwedEvents
BY OwedKept DEF OwedEvents

\* A step of one handler leaves the others' announcements alone.
LEMMA OthersWait ==
  ASSUME NEW c \in Calls, \A d \in Calls \ {c} : call'[d] = call[d]
  PROVE  Owing \ {c} = Owing' \ {c}
BY DEF Owing, Announces

\* A step that touches no row, event or waiting handler is none of the board's.
LEMMA SameView ==
  ASSUME BoardInv, [Next]_vars, UNCHANGED <<tasks, outbox, topic>>,
         Owing' = Owing, \A c \in Owing : call'[c] = call[c]
  PROVE  UNCHANGED View
<1>1. OwedEvents' = OwedEvents
  BY SameOwing
<1>2. Published' = Published /\ BoardView' = BoardView
  BY DEF Published, BoardView, BoardRow
<1>3. BoardOwed' = BoardOwed
  BY <1>1, <1>2 DEF BoardOwed, OwedEvents
<1>4. QED
  BY <1>2, <1>3 DEF View

\* A step that only loses announcements is allowed to a board that may.
LEMMA LossForgets ==
  ASSUME BoardInv, [Next]_vars, UNCHANGED <<tasks, topic>>, Faults # {},
         outbox' \subseteq outbox, Owing' \subseteq Owing,
         \A c \in Owing' : call'[c] = call[c]
  PROVE  Board!Forget
<1>1. BoardOwed' \subseteq BoardOwed
  <2>1. Published' = Published
    BY DEF Published
  <2>2. QED
    BY <2>1, FewerOwing DEF BoardOwed, OwedEvents
<1>2. /\ BoardOwed \ BoardOwed' \in SUBSET BoardOwed
      /\ BoardOwed' = BoardOwed \ (BoardOwed \ BoardOwed')
  BY <1>1
<1>3. BoardView' = BoardView /\ Published' = Published
  BY DEF BoardView, BoardRow, Published
<1>4. QED
  BY <1>2, <1>3 DEF Board!Forget, BoardView

\* A row that changes is one row of the board that changes.
LEMMA OneRow ==
  ASSUME NEW t \in Tasks, NEW row, tasks \in [Tasks -> Task \cup {None}],
         tasks' = [tasks EXCEPT ![t] = row]
  PROVE  BoardView' = [BoardView EXCEPT ![t] = BoardRow(row)]
BY DEF BoardView, BoardRow

\* An insert puts a new task on the board.
LEMMA InsertCreates ==
  ASSUME BoardInv, [Next]_vars, NEW c \in Calls, Insert(c)
  PROVE  \E t \in Tasks, w \in Workers : Board!Create(t, w)
<1> DEFINE r == call[c].req
           t == r.task
<1>1. /\ r \in CreateRequest /\ t \in Tasks /\ r.worker \in Workers
      /\ tasks[t] = None /\ call[c].pc = "insert"
  BY DEF Insert, BoardInv, TypeOK, FreshIds, CreateRequest
<1>2. /\ \A d \in Calls \ {c} : call'[d] = call[d]
      /\ call'[c].pc \in {"done", "failed"}
  BY ReturnType DEF Insert, BoardInv
<1>3. Owing' = Owing /\ \A d \in Owing : call'[d] = call[d]
  BY <1>1, <1>2 DEF Owing, Announces
<1>4. BoardOwed' = BoardOwed /\ Published' = Published
  BY <1>3, SameOwing DEF BoardOwed, OwedEvents, Published, Insert
<1>5. BoardView' = [BoardView EXCEPT ![t] =
                      [status |-> "IN_PROGRESS", worker |-> r.worker,
                       reason |-> None]]
  <2>1. /\ NewTask(r) # None
        /\ BoardRow(NewTask(r)) = [status |-> "IN_PROGRESS",
                                   worker |-> r.worker, reason |-> None]
    <3>1. NewTask(r) \in Task
      BY <1>1 DEF NewTask, Task, CreateRequest, Status
    <3>2. QED
      BY <3>1, NoneAssumption DEF BoardRow, NewTask
  <2>2. QED
    BY <1>1, <2>1, OneRow DEF Insert, BoardInv, TypeOK
<1>6. BoardView[t] = None
  BY <1>1 DEF BoardView, BoardRow
<1>7. QED
  BY <1>1, <1>4, <1>5, <1>6 DEF Board!Create, BoardView

\* Who waits after the UPDATE of call c.
LEMMA WriteOwing ==
  ASSUME BoardInv, NEW c \in Calls, Write(c)
  PROVE  /\ c \notin Owing
         /\ Owing \subseteq Owing'
         /\ Owing' \subseteq Owing \cup {c}
         /\ \A d \in Owing : call'[d] = call[d]
         /\ c \in Owing' =>
              /\ call'[c].req = call[c].req
              /\ Announces(call[c])
         /\ Goto(c, "reread") => (c \in Owing' <=> Announces(call[c]))
<1>1. c \notin Owing
  BY DEF Write, Owing
<1>2. CASE Goto(c, "reread")
  <2>1. /\ call'[c] = [call[c] EXCEPT !.pc = "reread"]
        /\ call[c] \in Handler
        /\ \A d \in Calls \ {c} : call'[d] = call[d]
    BY <1>2 DEF Goto, BoardInv, TypeOK
  <2>2. /\ call'[c].pc = "reread" /\ call'[c].req = call[c].req
        /\ call'[c].existing = call[c].existing
    BY <2>1 DEF Handler
  <2>3. c \in Owing' <=> Announces(call[c])
    BY <2>2 DEF Owing, Announces
  <2>4. QED
    BY <1>1, <2>1, <2>2, <2>3, OthersWait DEF Owing
<1>3. CASE Return(c, "failed")
  <2>1. /\ call'[c].pc = "failed" /\ \A d \in Calls \ {c} : call'[d] = call[d]
    BY <1>3, ReturnType DEF BoardInv
  <2>2. c \notin Owing'
    BY <2>1 DEF Owing
  <2>3. ~ Goto(c, "reread")
    <3>1. Goto(c, "reread") => call'[c].pc = "reread"
      BY DEF Goto, BoardInv, TypeOK, Handler
    <3>2. QED
      BY <2>1, <3>1
  <2>4. QED
    BY <1>1, <2>1, <2>2, <2>3, OthersWait DEF Owing
<1>4. QED
  BY <1>2, <1>3 DEF Write

\* The row on the board after the UPDATE of call c.
LEMMA WriteRow ==
  ASSUME BoardInv, Serialised, NEW c \in Calls, Write(c)
  PROVE  LET r == call[c].req
             row == tasks[r.task]
         IN  /\ r \in UpdateRequest /\ Valid(r) /\ r.task \in Tasks
             /\ row \in Task
             /\ call[c].existing = row.status
             /\ BoardView[r.task] # None
             /\ BoardView[r.task] = [status |-> row.status, worker |-> row.worker,
                                     reason |-> row.reason]
             /\ BoardView' = [BoardView EXCEPT ![r.task] =
                  [status |-> IF r.status = None THEN row.status ELSE r.status,
                   worker |-> row.worker,
                   reason |-> NewReason(row, r, row.status)]]
             /\ Published' = Published
<1> DEFINE r == call[c].req
           row == tasks[r.task]
           new == Updated(row, r, row.status)
<1>1. /\ r \in UpdateRequest /\ Valid(r) /\ r.task \in Tasks
      /\ row \in Task /\ row.status \in Status
      /\ call[c].existing = row.status
  BY DEF Write, BoardInv, TypeOK, SerialInv, UpdateRequest, Task
<1>2. /\ new \in Task
      /\ new.worker = row.worker
      /\ new.status = IF r.status = None THEN row.status ELSE r.status
      /\ new.reason = NewReason(row, r, row.status)
  BY <1>1, UpdatedRow
<1>3. BoardRow(new) = [status |-> new.status, worker |-> new.worker,
                       reason |-> new.reason]
  BY <1>2, NoneAssumption DEF BoardRow
<1>4. BoardView' = [BoardView EXCEPT ![r.task] = BoardRow(new)]
  BY <1>1, OneRow DEF Write, BoardInv, TypeOK
<1>5. BoardView[r.task] = [status |-> row.status, worker |-> row.worker,
                           reason |-> row.reason]
  BY <1>1, NoneAssumption DEF BoardView, BoardRow
<1>6. BoardView[r.task] # None
  BY <1>1, <1>5, NoneAssumption DEF Task
<1>7. Published' = Published
  BY DEF Write, Published
<1>8. QED
  BY <1>1, <1>2, <1>3, <1>4, <1>5, <1>6, <1>7

\* An UPDATE that announces nothing leaves what is owed as it was.
LEMMA QuietWrite ==
  ASSUME BoardInv, [Next]_vars, NEW c \in Calls, Write(c), c \notin Owing'
  PROVE  BoardOwed' = BoardOwed
<1>1. Owing' = Owing /\ \A d \in Owing : call'[d] = call[d]
  BY WriteOwing
<1>2. OwedEvents' = OwedEvents
  BY <1>1, SameOwing
<1>3. outbox' = outbox /\ Published' = Published
  BY DEF Write, Published
<1>4. QED
  BY <1>2, <1>3 DEF BoardOwed, OwedEvents

\* An UPDATE that moves the row into NEEDS_HELP calls for help.
LEMMA WriteCalls ==
  ASSUME BoardInv, Serialised, [Next]_vars, NEW c \in Calls, Write(c),
         Announces(call[c])
  PROVE  \E t \in Tasks, r \in Reasons : Board!CallForHelp(t, r, c)
<1> DEFINE r == call[c].req
           t == r.task
           row == tasks[t]
           a == [task |-> t, worker |-> BoardView[t].worker,
                 reason |-> r.reason, timestamp |-> c]
<1>1. /\ r \in UpdateRequest /\ Valid(r) /\ t \in Tasks /\ row \in Task
      /\ call[c].existing = row.status
      /\ BoardView[t] # None
      /\ BoardView[t] = [status |-> row.status, worker |-> row.worker,
                         reason |-> row.reason]
      /\ BoardView' = [BoardView EXCEPT ![t] =
           [status |-> IF r.status = None THEN row.status ELSE r.status,
            worker |-> row.worker,
            reason |-> NewReason(row, r, row.status)]]
      /\ Published' = Published
  BY WriteRow
<1>2. /\ r.status = "NEEDS_HELP" /\ row.status # "NEEDS_HELP"
      /\ r.reason \in Reasons /\ r.status # None
  BY <1>1, NoneAssumption DEF Announces, Valid, UpdateRequest, Status
<1>3. BoardView[t] # None /\ BoardView[t].status # "NEEDS_HELP"
  BY <1>1, <1>2
<1>4. BoardView' = [BoardView EXCEPT ![t] =
                      [status |-> "NEEDS_HELP", worker |-> BoardView[t].worker,
                       reason |-> r.reason]]
  <2>1. NewReason(row, r, row.status) = r.reason
    BY <1>2 DEF NewReason
  <2>2. QED
    BY <1>1, <1>2, <2>1
<1>5. \A b \in BoardOwed \cup Published : b.timestamp # c
  <2>1. call[c].pc = "write"
    BY DEF Write
  <2>2. \A b \in outbox \cup Published : b.timestamp # c
    BY <2>1 DEF BoardInv, EventsAreOver
  <2>3. \A d \in Owing : EventOf(d, tasks[call[d].req.task]).timestamp # c
    BY <2>1 DEF Owing, EventOf
  <2>4. QED
    BY <2>2, <2>3 DEF BoardOwed
<1>6. \/ BoardOwed' = BoardOwed \cup {a}
      \/ Faults # {} /\ BoardOwed' = BoardOwed
  <2>1. CASE c \notin Owing'
    <3>1. ~ Goto(c, "reread")
      BY <2>1, WriteOwing
    <3>2. Faults # {}
      BY <3>1 DEF Write, ReplyLost
    <3>3. QED
      BY <2>1, <3>2, QuietWrite
  <2>2. CASE c \in Owing'
    <3>1. /\ Owing' = Owing \cup {c} /\ c \notin Owing
          /\ call'[c].req = r
          /\ \A d \in Owing : call'[d] = call[d]
      BY <2>2, WriteOwing
    <3>2. EventOf(c, tasks[call[c].req.task])' = a
      BY <1>1, <3>1, WorkersStay DEF EventOf, BoardInv
    <3>3. OwedEvents' = OwedEvents \cup {a}
      BY <3>1, <3>2, OwedKept DEF OwedEvents
    <3>4. outbox' = outbox /\ a \notin Published
      BY <1>5 DEF Write
    <3>5. QED
      BY <1>1, <3>3, <3>4 DEF BoardOwed, OwedEvents
  <2>3. QED
    BY <2>1, <2>2
<1>7. Board!CallForHelp(t, r.reason, c)
  BY <1>1, <1>3, <1>4, <1>5, <1>6
     DEF Board!CallForHelp, Board!Becomes, BoardView
<1>8. QED
  BY <1>1, <1>2, <1>7

\* Any other UPDATE settles the task, words its reason anew, or is about the
\* message only.
LEMMA WriteSettles ==
  ASSUME BoardInv, Serialised, [Next]_vars, NEW c \in Calls, Write(c),
         ~ Announces(call[c])
  PROVE  \/ \E t \in Tasks, s \in {"IN_PROGRESS", "COMPLETED"} : Board!Settle(t, s)
         \/ \E t \in Tasks, r \in Reasons : Board!Reword(t, r)
         \/ UNCHANGED View
<1> DEFINE r == call[c].req
           t == r.task
           row == tasks[t]
           reason == NewReason(row, r, row.status)
<1>1. /\ r \in UpdateRequest /\ Valid(r) /\ t \in Tasks /\ row \in Task
      /\ call[c].existing = row.status
      /\ BoardView[t] # None
      /\ BoardView[t] = [status |-> row.status, worker |-> row.worker,
                         reason |-> row.reason]
      /\ BoardView' = [BoardView EXCEPT ![t] =
           [status |-> IF r.status = None THEN row.status ELSE r.status,
            worker |-> row.worker, reason |-> reason]]
      /\ Published' = Published
  BY WriteRow
<1>2. BoardOwed' = BoardOwed
  BY WriteOwing, QuietWrite
<1>3. BoardView[t] # None
  BY <1>1
<1>4. BoardView = [BoardView EXCEPT ![t] = BoardView[t]]
  BY <1>1 DEF BoardView
<1>5. CASE r.status \in {"IN_PROGRESS", "COMPLETED"}
  <2>1. reason = None /\ r.status # None
    BY <1>5, NoneAssumption DEF NewReason, Status
  <2>2. BoardView' = [BoardView EXCEPT ![t] =
                        [status |-> r.status, worker |-> BoardView[t].worker,
                         reason |-> None]]
    BY <1>1, <2>1
  <2>3. Board!Settle(t, r.status)
    BY <1>1, <1>2, <1>3, <2>2 DEF Board!Settle, Board!Becomes, BoardView
  <2>4. QED
    BY <1>1, <1>5, <2>3
<1>6. CASE row.status = "NEEDS_HELP" /\ r.status \in {None, "NEEDS_HELP"}
                                     /\ r.reason # None
  <2>1. reason = r.reason /\ r.reason \in Reasons
    BY <1>1, <1>6, NoneAssumption DEF NewReason, UpdateRequest, Status
  <2>2. BoardView' = [BoardView EXCEPT ![t] =
                        [status |-> "NEEDS_HELP", worker |-> BoardView[t].worker,
                         reason |-> r.reason]]
    <3>1. (IF r.status = None THEN row.status ELSE r.status) = "NEEDS_HELP"
      BY <1>6
    <3>2. BoardView[t].worker = row.worker
      BY <1>1
    <3>3. QED
      BY <1>1, <2>1, <3>1, <3>2
  <2>3. Board!Reword(t, r.reason)
    BY <1>1, <1>2, <1>3, <1>6, <2>2 DEF Board!Reword, Board!Becomes, BoardView
  <2>4. QED
    BY <1>1, <2>1, <2>3
<1>7. CASE r.status = None /\ (row.status # "NEEDS_HELP" \/ r.reason = None)
  <2>1. reason = row.reason
    BY <1>7, NoneAssumption DEF NewReason, Status
  <2>2. BoardView' = BoardView
    BY <1>1, <1>4, <1>7, <2>1
  <2>3. QED
    BY <1>1, <1>2, <2>2 DEF View
<1>8. r.status = "NEEDS_HELP" => row.status = "NEEDS_HELP" /\ r.reason # None
  BY <1>1 DEF Announces, Valid
<1>9. r.status \in {None, "IN_PROGRESS", "COMPLETED", "NEEDS_HELP"}
  BY <1>1 DEF Valid, UpdateRequest, Status
<1>10. QED
  BY <1>5, <1>6, <1>7, <1>8, <1>9

\* Storing an event tells it, unless the topic already has it.
LEMMA DeliverTells ==
  ASSUME BoardInv, [Next]_vars, NEW e \in TaskEvent, Deliver(e)
  PROVE  Board!Tell(e) \/ Board!Forget \/ UNCHANGED View
<1>1. /\ UNCHANGED <<tasks, call>> /\ e \in outbox
      /\ outbox' \in {outbox, outbox \ {e}}
  BY DEF Deliver, Publish, PublishAndRetry, PublishLost
<1>2. Owing' = Owing /\ \A c \in Owing : call'[c] = call[c]
  BY <1>1 DEF Owing, Announces
<1>3. OwedEvents' = OwedEvents
  BY <1>2, SameOwing
<1>4. BoardView' = BoardView
  BY <1>1 DEF BoardView, BoardRow
<1>5. CASE PublishLost(e)
  BY <1>1, <1>2, <1>5, LossForgets DEF PublishLost
<1>6. CASE ~ PublishLost(e)
  <2>1. PICK p \in Partitions : Store(e, p)
    BY <1>6 DEF Deliver, Publish, PublishAndRetry
  <2>2. Published' = Published \cup {e}
    BY <2>1, StorePublishes DEF BoardInv
  <2>3. BoardOwed' = BoardOwed \ {e}
    BY <1>1, <1>3, <2>2 DEF BoardOwed, OwedEvents
  <2>4. CASE e \in Published
    BY <1>4, <2>2, <2>3, <2>4 DEF View, BoardOwed
  <2>5. CASE e \notin Published
    BY <1>1, <1>4, <2>2, <2>3, <2>5 DEF Board!Tell, BoardView, BoardOwed
  <2>6. QED
    BY <2>4, <2>5
<1>7. QED
  BY <1>5, <1>6

\* The last step of a handler: what it owed is now on its way.
LEMMA RereadHides ==
  ASSUME BoardInv, [Next]_vars, NEW c \in Calls, Reread(c)
  PROVE  UNCHANGED View
<1> DEFINE e == EventOf(c, tasks[call[c].req.task])
<1>1. /\ UNCHANGED <<tasks, topic>> /\ call[c].pc = "reread"
      /\ outbox' = IF Announces(call[c]) THEN outbox \cup {e} ELSE outbox
  BY DEF Reread
<1>2. /\ call'[c].pc = "done" /\ \A d \in Calls \ {c} : call'[d] = call[d]
  BY ReturnType DEF Reread, BoardInv
<1>3. /\ Owing' = Owing \ {c}
      /\ \A d \in Owing' : call'[d] = call[d]
      /\ c \in Owing <=> Announces(call[c])
  BY <1>1, <1>2 DEF Owing, Announces
<1>4. \A d \in Owing' :
        EventOf(d, tasks[call[d].req.task])' = EventOf(d, tasks[call[d].req.task])
  BY <1>3, OwedKept
<1>5. OwedEvents' = {EventOf(d, tasks[call[d].req.task]) : d \in Owing \ {c}}
  BY <1>3, <1>4 DEF OwedEvents
<1>6. outbox' \cup OwedEvents' = outbox \cup OwedEvents
  BY <1>1, <1>3, <1>5 DEF OwedEvents
<1>7. BoardView' = BoardView /\ Published' = Published
  BY <1>1 DEF BoardView, BoardRow, Published
<1>8. BoardOwed' = BoardOwed
  BY <1>6, <1>7 DEF BoardOwed, OwedEvents
<1>9. QED
  BY <1>7, <1>8 DEF View

LEMMA BoardStep ==
  BoardInv /\ Serialised /\ [Next]_vars => [Board!Next]_View
<1> SUFFICES ASSUME BoardInv, Serialised, [Next]_vars PROVE [Board!Next]_View
  OBVIOUS
<1>1. ASSUME NEW c \in Calls, Receive(c) \/ ReadExisting(c) PROVE UNCHANGED View
  <2>1. /\ \A d \in Calls \ {c} : call'[d] = call[d]
        /\ call[c].pc \in {"new", "read"} /\ call'[c].pc # "reread"
        /\ UNCHANGED <<tasks, outbox, topic>>
    BY <1>1 DEF Receive, Reject, ReceiveCreate, ReceiveUpdate, ReadExisting,
                Return, BoardInv, TypeOK, Handler
  <2>2. Owing' = Owing /\ \A d \in Owing : call'[d] = call[d]
    BY <2>1 DEF Owing, Announces
  <2>3. QED
    BY <2>1, <2>2, SameView
<1>2. ASSUME NEW c \in Calls, Insert(c) PROVE Board!Next
  BY <1>2, InsertCreates DEF Board!Next
<1>3. ASSUME NEW c \in Calls, Write(c) PROVE [Board!Next]_View
  <2>1. CASE Announces(call[c])
    BY <1>3, <2>1, WriteCalls DEF Board!Next
  <2>2. CASE ~ Announces(call[c])
    BY <1>3, <2>2, WriteSettles DEF Board!Next
  <2>3. QED
    BY <2>1, <2>2
<1>4. ASSUME NEW c \in Calls, Reread(c) PROVE UNCHANGED View
  BY <1>4, RereadHides
<1>5. ASSUME NEW c \in Calls, DbError(c) PROVE Board!Forget
  <2>1. /\ \A d \in Calls \ {c} : call'[d] = call[d]
        /\ call'[c].pc = "failed"
        /\ UNCHANGED <<tasks, outbox, topic>>
    BY <1>5, ReturnType DEF DbError, BoardInv
  <2>2. Faults # {}
    BY <1>5 DEF DbError, BoardInv, EventsAreOver
  <2>3. Owing' \subseteq Owing /\ \A d \in Owing' : call'[d] = call[d]
    BY <2>1 DEF Owing, Announces
  <2>4. QED
    BY <2>1, <2>2, <2>3, LossForgets
<1>6. ASSUME NEW e \in TaskEvent, Deliver(e) PROVE [Board!Next]_View
  BY <1>6, DeliverTells DEF Board!Next, Board!Announcement, TaskEvent
<1>7. CASE Stop \/ Restart \/ UNCHANGED vars
  BY <1>7, SameView DEF Stop, Restart, vars, Owing, Announces
<1>8. CASE Exit \/ Crash
  <2>1. /\ UNCHANGED <<tasks, topic>> /\ outbox' = {} /\ Faults # {}
        /\ \A c \in Calls : call'[c].pc # "reread"
    BY <1>8 DEF Exit, Crash, Active, BoardInv, EventsAreOver
  <2>2. Owing' = {}
    BY <2>1 DEF Owing
  <2>3. Board!Forget
    BY <2>1, <2>2, LossForgets
  <2>4. QED
    BY <2>3 DEF Board!Next
<1>9. ASSUME NEW c \in Calls, Hang(c) \/ Wake(c) PROVE UNCHANGED View
  BY <1>9, SameView DEF Hang, Wake, Owing, Announces
<1>10. QED
  BY <1>1, <1>2, <1>3, <1>4, <1>5, <1>6, <1>7, <1>8, <1>9
     DEF Next, Step, Database, Board!Next

\* The stepwise handlers and goroutines implement the board, on which a create,
\* an update and the announcement it owes are one step each, as long as clients
\* do not overlap calls on one task; crashes, lost replies and lost events are
\* the board's own losses (service.go 29-121).
THEOREM BoardImplemented ==
  ASSUME Serialised
  PROVE  Spec => ImplementsBoard
<1>1. Init => Board!Init
  BY DEF Init, Board!Init, BoardRow, BoardOwed, Owing, Published
<1>2. BoardInv /\ [Next]_vars =>
        [Board!Next]_<<[t \in Tasks |-> BoardRow(tasks[t])], BoardOwed, Published>>
  BY BoardStep DEF View, BoardView
<1>3. Spec => []BoardInv
  BY HeraldAlways, PTL DEF BoardInv
<1>4. QED
  BY <1>1, <1>2, <1>3, PTL DEF Spec, ImplementsBoard, Board!Spec, Board!vars
=============================================================================
