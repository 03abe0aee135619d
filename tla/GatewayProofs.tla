--------------------------- MODULE GatewayProofs ---------------------------
(***************************************************************************)
(* Theorems about the gateway and the services behind it, for any requests,*)
(* stores, limits and faults.                                              *)
(***************************************************************************)
EXTENDS Gateway, TLAPS

-----------------------------------------------------------------------------
(* What the handlers of the services answer and do.                        *)

LEMMA RefuseOutcome ==
  ASSUME NEW code \in Codes, NEW d \in Stores
  PROVE  Refuse(code, d) \subseteq Outcome
<1>1. SUFFICES ASSUME NEW o \in Refuse(code, d) PROVE o \in Outcome
  OBVIOUS
<1>2. o = [code |-> code, msg |-> None, db |-> d, done |-> FALSE]
  BY DEF Refuse
<1>3. QED
  BY <1>2 DEF Outcome

LEMMA LookOutcome ==
  ASSUME NEW msg \in Response, NEW d \in Stores
  PROVE  Look(msg, d) \subseteq Outcome
<1>1. SUFFICES ASSUME NEW o \in Look(msg, d) PROVE o \in Outcome
  OBVIOUS
<1>2. CASE o = [code |-> "OK", msg |-> msg, db |-> d, done |-> FALSE]
  BY <1>2 DEF Outcome, Codes
<1>3. CASE o \in Refuse("Internal", d)
  BY <1>3, RefuseOutcome DEF Codes
<1>4. QED
  BY <1>2, <1>3 DEF Look

LEMMA PerformOutcome ==
  ASSUME NEW msg \in Response, NEW d \in Stores, NEW e \in Stores
  PROVE  Perform(msg, d, e) \subseteq Outcome
<1>1. SUFFICES ASSUME NEW o \in Perform(msg, d, e) PROVE o \in Outcome
  OBVIOUS
<1>2. CASE o = [code |-> "OK", msg |-> msg, db |-> e, done |-> TRUE]
  BY <1>2 DEF Outcome, Codes
<1>3. CASE o = [code |-> "Internal", msg |-> None, db |-> e, done |-> TRUE]
  BY <1>3 DEF Outcome, Codes
<1>4. CASE o \in Refuse("Internal", d)
  BY <1>4, RefuseOutcome DEF Codes
<1>5. QED
  BY <1>2, <1>3, <1>4 DEF Perform

\* A row put into one of the stores.
LEMMA UsersPut ==
  ASSUME NEW d \in Stores, NEW o \in Objects, NEW row \in UserRow \cup {None}
  PROVE  /\ [d EXCEPT !.users[o] = row] \in Stores
         /\ [d EXCEPT !.users[o] = row].users[o] = row
         /\ \A b \in Objects \ {o} :
              [d EXCEPT !.users[o] = row].users[b] = d.users[b]
         /\ [d EXCEPT !.users[o] = row].tasks = d.tasks
         /\ [d EXCEPT !.users[o] = row].docs = d.docs
BY DEF Stores

LEMMA TasksPut ==
  ASSUME NEW d \in Stores, NEW o \in Objects, NEW row \in TaskRow \cup {None}
  PROVE  /\ [d EXCEPT !.tasks[o] = row] \in Stores
         /\ [d EXCEPT !.tasks[o] = row].tasks[o] = row
         /\ \A b \in Objects \ {o} :
              [d EXCEPT !.tasks[o] = row].tasks[b] = d.tasks[b]
         /\ [d EXCEPT !.tasks[o] = row].users = d.users
         /\ [d EXCEPT !.tasks[o] = row].docs = d.docs
BY DEF Stores

LEMMA DocsPut ==
  ASSUME NEW d \in Stores, NEW o \in Objects, NEW row \in DocRow \cup {None}
  PROVE  /\ [d EXCEPT !.docs[o] = row] \in Stores
         /\ [d EXCEPT !.docs[o] = row].docs[o] = row
         /\ \A b \in Objects \ {o} :
              [d EXCEPT !.docs[o] = row].docs[b] = d.docs[b]
         /\ [d EXCEPT !.docs[o] = row].users = d.users
         /\ [d EXCEPT !.docs[o] = row].tasks = d.tasks
BY DEF Stores

LEMMA NewUserType ==
  ASSUME NEW m \in RegisterRequest
  PROVE  NewUser(m) \in UserRow
BY DEF NewUser, RegisterRequest, UserRow, Roles

LEMMA UpdatedType ==
  ASSUME NEW row \in TaskRow, NEW m \in UpdateTaskRequest
  PROVE  Updated(row, m) \in TaskRow
BY DEF Updated, TaskRow, UpdateTaskRequest, Statuses, Texts
-----------------------------------------------------------------------------
\* A call that takes effect writes the row it names after the attempt, as its
\* message says, updates the task it names, or removes the document it names for
\* one who may.
Rows(c, a, d, e) ==
  \A b \in Objects :
    /\ \/ e.users[b] = d.users[b]
       \/ c.method = "Register" /\ b = a /\ e.users[b] = NewUser(c.req)
    /\ \/ e.tasks[b] = d.tasks[b]
       \/ /\ c.method = "CreateTask"
          /\ b = a
          /\ e.tasks[b] = [message |-> c.req.message, status |-> "IN_PROGRESS",
                           reason |-> Empty, worker_id |-> c.req.worker_id,
                           created_by |-> c.req.created_by]
       \/ /\ c.method = "UpdateTask"
          /\ b = c.req.id
          /\ d.tasks[b] # None
          /\ e.tasks[b] = Updated(d.tasks[b], c.req)
    /\ \/ e.docs[b] = d.docs[b]
       \/ /\ c.method = "AddDocument"
          /\ b = a
          /\ e.docs[b] = [owner_id |-> c.req.owner_id,
                          task_id |-> c.req.task_id,
                          filename |-> c.req.filename,
                          content_type |-> c.req.content_type,
                          size |-> c.req.file_content]
       \/ /\ c.method = "DeleteDocument"
          /\ b = c.req.id
          /\ d.docs[b] # None
          /\ MayActFor(c.token, d.docs[b].owner_id)
          /\ e.docs[b] = None

Creates == {"Register", "CreateTask", "AddDocument"}
Changes == Creates \cup {"UpdateTask", "DeleteDocument"}

\* What holds of every outcome o of a call c of attempt a on the stores d.
Sound(o, c, a, d) ==
  /\ o \in Outcome
  /\ ~o.done => o.db = d
  /\ o.done => /\ o.code \in {"OK", "Internal"}
               /\ c.method \in Changes
               /\ Rows(c, a, d, o.db)
  /\ o.code = "OK" => /\ c.method \in Changes => o.done
                      /\ c.method \in Creates => o.msg.id = a

LEMMA RefuseSound ==
  ASSUME NEW code \in Codes \ {"OK"}, NEW d \in Stores, NEW c, NEW a,
         NEW o \in Refuse(code, d)
  PROVE  Sound(o, c, a, d)
<1>1. o = [code |-> code, msg |-> None, db |-> d, done |-> FALSE]
  BY DEF Refuse
<1>2. o \in Outcome
  BY RefuseOutcome
<1>3. QED
  BY <1>1, <1>2 DEF Sound

LEMMA LookSound ==
  ASSUME NEW msg \in Response, NEW d \in Stores, NEW c, NEW a,
         c.method \notin Changes,
         NEW o \in Look(msg, d)
  PROVE  Sound(o, c, a, d)
<1>1. CASE o = [code |-> "OK", msg |-> msg, db |-> d, done |-> FALSE]
  BY <1>1, LookOutcome DEF Sound, Changes
<1>2. CASE o \in Refuse("Internal", d)
  BY <1>2, RefuseSound DEF Codes
<1>3. QED
  BY <1>1, <1>2 DEF Look

LEMMA PerformSound ==
  ASSUME NEW msg \in Response, NEW d \in Stores, NEW e \in Stores, NEW c, NEW a,
         c.method \in Changes,
         c.method \in Creates => msg.id = a,
         Rows(c, a, d, e),
         NEW o \in Perform(msg, d, e)
  PROVE  Sound(o, c, a, d)
<1>1. o \in Outcome
  BY PerformOutcome
<1>2. CASE o = [code |-> "OK", msg |-> msg, db |-> e, done |-> TRUE]
  BY <1>1, <1>2 DEF Sound
<1>3. CASE o = [code |-> "Internal", msg |-> None, db |-> e, done |-> TRUE]
  BY <1>1, <1>3 DEF Sound
<1>4. CASE o \in Refuse("Internal", d)
  BY <1>4, RefuseSound DEF Codes
<1>5. QED
  BY <1>2, <1>3, <1>4 DEF Perform
-----------------------------------------------------------------------------
LEMMA RegisterSound ==
  ASSUME NEW c \in AuthServer, c.method = "Register", NEW a \in Objects,
         NEW d \in Stores, NEW o \in Register(c.req, a, d)
  PROVE  Sound(o, c, a, d)
<1> DEFINE row == NewUser(c.req)
           e == [d EXCEPT !.users[a] = row]
           msg == [id |-> a, email |-> row.email, role |-> row.role]
<1>1. c.req \in RegisterRequest
  BY DEF AuthServer
<1>2. row \in UserRow
  BY <1>1, NewUserType
<1>3. e \in Stores /\ Rows(c, a, d, e)
  BY <1>2, UsersPut DEF Rows
<1>4. msg \in Response /\ msg.id = a
  BY <1>2 DEF Response, RegisterResponse, UserRow, Ids, Known
<1>5. o \in Refuse("InvalidArgument", d) \/ o \in Refuse("Internal", d)
      \/ o \in Perform(msg, d, e)
  BY DEF Register
<1>6. c.method \in Changes /\ "InvalidArgument" \in Codes \ {"OK"}
      /\ "Internal" \in Codes \ {"OK"}
  BY DEF Changes, Creates, Codes
<1> HIDE DEF row, e, msg
<1>7. CASE o \in Perform(msg, d, e)
  BY <1>3, <1>4, <1>6, <1>7, PerformSound
<1>8. QED
  BY <1>5, <1>6, <1>7, RefuseSound

LEMMA LoginSound ==
  ASSUME NEW c \in AuthServer, c.method = "Login", NEW a \in Objects,
         NEW d \in Stores, NEW o \in Login(c.req, d)
  PROVE  Sound(o, c, a, d)
<1>1. {"InvalidArgument", "ResourceExhausted", "Unauthenticated"}
        \subseteq Codes \ {"OK"}
  BY DEF Codes
<1>2. CASE \E code \in Codes \ {"OK"} : o \in Refuse(code, d)
  BY <1>2, RefuseSound
<1>3. CASE \E u \in Objects :
             /\ d.users[u] # None
             /\ o = [code |-> "OK", db |-> d, done |-> FALSE,
                     msg |-> [access_token |-> u, user_id |-> u,
                              role |-> d.users[u].role]]
  <2>1. PICK u \in Objects :
             /\ d.users[u] # None
             /\ o = [code |-> "OK", db |-> d, done |-> FALSE,
                     msg |-> [access_token |-> u, user_id |-> u,
                              role |-> d.users[u].role]]
    BY <1>3
  <2>2. d.users[u] \in UserRow
    BY <2>1 DEF Stores
  <2>3. [access_token |-> u, user_id |-> u, role |-> d.users[u].role]
          \in LoginResponse
    BY <2>2 DEF LoginResponse, UserRow, Ids, Known
  <2>4. o \in Outcome
    BY <2>1, <2>3 DEF Outcome, Codes, Response
  <2>5. QED
    BY <2>1, <2>4 DEF Sound, Changes, Creates
<1>4. QED
  BY <1>1, <1>2, <1>3 DEF Login, Matching

LEMMA ValidateTokenSound ==
  ASSUME NEW c \in AuthServer, c.method = "ValidateToken", NEW a \in Objects,
         NEW d \in Stores, NEW late \in BOOLEAN,
         NEW o \in ValidateToken(c.req, d, late)
  PROVE  Sound(o, c, a, d)
<1>1. PICK v \in BOOLEAN :
        /\ v => c.req.token \in Users
        /\ o = [code |-> "OK", db |-> d, done |-> FALSE,
                msg |-> [valid |-> v,
                         user_id |-> IF v THEN c.req.token ELSE Empty]]
  BY DEF ValidateToken
<1>2. [valid |-> v, user_id |-> IF v THEN c.req.token ELSE Empty]
        \in ValidateTokenResponse
  BY <1>1 DEF ValidateTokenResponse, Ids, Known
<1>3. o \in Outcome
  BY <1>1, <1>2 DEF Outcome, Codes, Response
<1>4. QED
  BY <1>1, <1>3 DEF Sound, Changes, Creates

LEMMA AuthSound ==
  ASSUME NEW c \in AuthServer, NEW a \in Objects, NEW d \in Stores,
         NEW late \in BOOLEAN, NEW o \in AuthOutcomes(c, a, d, late)
  PROVE  Sound(o, c, a, d)
<1>1. c.method \in {"Register", "Login", "ValidateToken"}
  BY DEF AuthServer
<1>2. QED
  BY <1>1, RegisterSound, LoginSound, ValidateTokenSound DEF AuthOutcomes
-----------------------------------------------------------------------------
LEMMA CreateTaskSound ==
  ASSUME NEW c \in TaskServer, c.method = "CreateTask", NEW a \in Objects,
         NEW d \in Stores, NEW o \in CreateTask(c.req, a, d)
  PROVE  Sound(o, c, a, d)
<1> DEFINE row == [message |-> c.req.message, status |-> "IN_PROGRESS",
                   reason |-> Empty, worker_id |-> c.req.worker_id,
                   created_by |-> c.req.created_by]
           e == [d EXCEPT !.tasks[a] = row]
           msg == [id |-> a, message |-> row.message, status |-> row.status,
                   worker_id |-> row.worker_id, created_by |-> row.created_by]
<1>1. c.req \in CreateTaskRequest
  BY DEF TaskServer
<1>2. row \in TaskRow
  BY <1>1 DEF CreateTaskRequest, TaskRow, Statuses, Texts
<1>3. e \in Stores /\ Rows(c, a, d, e)
  <2>1. row = [message |-> c.req.message, status |-> "IN_PROGRESS",
               reason |-> Empty, worker_id |-> c.req.worker_id,
               created_by |-> c.req.created_by]
    OBVIOUS
  <2> HIDE DEF row
  <2>2. /\ e \in Stores /\ e.tasks[a] = row
        /\ \A b \in Objects \ {a} : e.tasks[b] = d.tasks[b]
        /\ e.users = d.users /\ e.docs = d.docs
    BY <1>2, TasksPut
  <2> HIDE DEF e
  <2>3. QED
    BY <2>1, <2>2 DEF Rows
<1>4. msg \in Response /\ msg.id = a
  BY <1>2 DEF Response, CreateTaskResponse, TaskRow, Ids, Known
<1>5. o \in Refuse("InvalidArgument", d) \/ o \in Perform(msg, d, e)
  BY DEF CreateTask
<1>6. c.method \in Changes /\ "InvalidArgument" \in Codes \ {"OK"}
  BY DEF Changes, Creates, Codes
<1> HIDE DEF row, e, msg
<1>7. CASE o \in Perform(msg, d, e)
  BY <1>3, <1>4, <1>6, <1>7, PerformSound
<1>8. QED
  BY <1>5, <1>6, <1>7, RefuseSound

LEMMA UpdateTaskSound ==
  ASSUME NEW c \in TaskServer, c.method = "UpdateTask", NEW a \in Objects,
         NEW d \in Stores, NEW o \in UpdateTask(c.req, d)
  PROVE  Sound(o, c, a, d)
<1> DEFINE t == c.req.id
           row == Updated(d.tasks[t], c.req)
           e == [d EXCEPT !.tasks[t] = row]
           msg == [id |-> t, message |-> row.message, status |-> row.status,
                   worker_id |-> row.worker_id, reason |-> row.reason]
<1>1. c.req \in UpdateTaskRequest
  BY DEF TaskServer
<1>2. "InvalidArgument" \in Codes \ {"OK"} /\ "Internal" \in Codes \ {"OK"}
  BY DEF Codes
<1>3. CASE t \in Objects /\ d.tasks[t] # None /\ o \in Perform(msg, d, e)
  <2>1. row \in TaskRow
    BY <1>1, <1>3, UpdatedType DEF Stores
  <2>2. e \in Stores /\ Rows(c, a, d, e)
    BY <1>3, <2>1, TasksPut DEF Rows
  <2>3. msg \in Response
    BY <1>3, <2>1 DEF Response, UpdateTaskResponse, TaskRow, Ids, Known
  <2>4. c.method \in Changes \ Creates
    BY DEF Changes, Creates
  <2> HIDE DEF t, row, e, msg
  <2>5. QED
    BY <1>3, <2>2, <2>3, <2>4, PerformSound
<1>4. \/ o \in Refuse("InvalidArgument", d) \/ o \in Refuse("Internal", d)
      \/ t \in Objects /\ d.tasks[t] # None /\ o \in Perform(msg, d, e)
  BY DEF UpdateTask
<1>5. QED
  BY <1>2, <1>3, <1>4, RefuseSound

LEMMA TaskListSound ==
  ASSUME NEW c \in TaskServer, c.method = "TaskList", NEW a \in Objects,
         NEW d \in Stores, NEW o \in TaskList(c.req, d)
  PROVE  Sound(o, c, a, d)
<1> DEFINE ts == {t \in Objects : Listed(c.req, d.tasks[t])}
           msg == [tasks |-> ts]
<1>1. msg \in Response
  <2>1. ts \in SUBSET Objects
    OBVIOUS
  <2> HIDE DEF ts
  <2>2. QED
    BY <2>1 DEF Response, TaskListResponse, Task
<1>2. "InvalidArgument" \in Codes \ {"OK"} /\ "Internal" \in Codes \ {"OK"}
  BY DEF Codes
<1>3. c.method \notin Changes
  BY DEF Changes, Creates
<1>4. \/ o \in Refuse("InvalidArgument", d) \/ o \in Refuse("Internal", d)
      \/ o \in Look(msg, d)
  BY DEF TaskList, ListTasks
<1> HIDE DEF ts, msg
<1>5. QED
  BY <1>1, <1>2, <1>3, <1>4, RefuseSound, LookSound

LEMMA TaskSound ==
  ASSUME NEW c \in TaskServer, NEW a \in Objects, NEW d \in Stores,
         NEW o \in TaskOutcomes(c, a, d)
  PROVE  Sound(o, c, a, d)
<1>1. c.method \in {"CreateTask", "UpdateTask", "TaskList"}
  BY DEF TaskServer
<1>2. QED
  BY <1>1, CreateTaskSound, UpdateTaskSound, TaskListSound DEF TaskOutcomes
-----------------------------------------------------------------------------
LEMMA AddDocumentSound ==
  ASSUME NEW c \in DocumentServer, c.method = "AddDocument", NEW a \in Objects,
         NEW d \in Stores, NEW o \in AddDocument(c, a, d)
  PROVE  Sound(o, c, a, d)
<1> DEFINE m == c.req
           row == [owner_id |-> m.owner_id, task_id |-> m.task_id,
                   filename |-> m.filename, content_type |-> m.content_type,
                   size |-> m.file_content]
           e == [d EXCEPT !.docs[a] = row]
           msg == [id |-> a, filename |-> row.filename,
                   content_type |-> row.content_type, size |-> row.size,
                   task_id |-> row.task_id, owner_id |-> row.owner_id]
<1>1. m \in AddDocumentRequest
  BY DEF DocumentServer
<1>2. row \in DocRow
  BY <1>1 DEF AddDocumentRequest, DocRow
<1>3. e \in Stores /\ Rows(c, a, d, e)
  BY <1>2, DocsPut DEF Rows
<1>4. msg \in Response /\ msg.id = a
  BY <1>2 DEF Response, AddDocumentResponse, DocRow, Ids, Known
<1>5. \/ o \in Refuse("PermissionDenied", d) \/ o \in Refuse("InvalidArgument", d)
      \/ o \in Perform(msg, d, e)
  BY DEF AddDocument
<1>6. c.method \in Changes /\ "InvalidArgument" \in Codes \ {"OK"}
      /\ "PermissionDenied" \in Codes \ {"OK"}
  BY DEF Changes, Creates, Codes
<1> HIDE DEF m, row, e, msg
<1>7. CASE o \in Perform(msg, d, e)
  BY <1>3, <1>4, <1>6, <1>7, PerformSound
<1>8. QED
  BY <1>5, <1>6, <1>7, RefuseSound

LEMMA DocumentRefusalType ==
  ASSUME NEW c, NEW d \in Stores
  PROVE  /\ DocumentRefusal(c, d) \in Codes
         /\ DocumentRefusal(c, d) = "OK" =>
              /\ c.req.id \in Objects
              /\ d.docs[c.req.id] \in DocRow
              /\ d.docs[c.req.id] # None
              /\ MayActFor(c.token, d.docs[c.req.id].owner_id)
BY DEF DocumentRefusal, Codes, Stores

LEMMA DeleteDocumentSound ==
  ASSUME NEW c \in DocumentServer, c.method = "DeleteDocument",
         NEW a \in Objects, NEW d \in Stores, NEW o \in DeleteDocument(c, d)
  PROVE  Sound(o, c, a, d)
<1> DEFINE e == [d EXCEPT !.docs[c.req.id] = None]
           msg == [success |-> TRUE]
<1>1. CASE DocumentRefusal(c, d) # "OK"
  BY <1>1, DocumentRefusalType, RefuseSound DEF DeleteDocument
<1>2. CASE DocumentRefusal(c, d) = "OK"
  <2>1. c.req.id \in Objects
    BY <1>2, DocumentRefusalType
  <2>2. e \in Stores /\ Rows(c, a, d, e)
    BY <1>2, <2>1, DocumentRefusalType, DocsPut DEF Rows
  <2>3. msg \in Response
    BY DEF Response, DeleteDocumentResponse
  <2>4. c.method \in Changes \ Creates
    BY DEF Changes, Creates
  <2>5. o \in Perform(msg, d, e)
    BY <1>2 DEF DeleteDocument
  <2> HIDE DEF e, msg
  <2>6. QED
    BY <2>2, <2>3, <2>4, <2>5, PerformSound
<1>3. QED
  BY <1>1, <1>2

LEMMA GetDocumentSound ==
  ASSUME NEW c \in DocumentServer, c.method = "GetDocument",
         NEW a \in Objects, NEW d \in Stores, NEW o \in GetDocument(c, d)
  PROVE  Sound(o, c, a, d)
<1> DEFINE row == d.docs[c.req.id]
           msg == [id |-> c.req.id, filename |-> row.filename,
                   content_type |-> row.content_type, file_content |-> row.size,
                   task_id |-> row.task_id, owner_id |-> row.owner_id]
<1>1. CASE DocumentRefusal(c, d) # "OK"
  BY <1>1, DocumentRefusalType, RefuseSound DEF GetDocument
<1>2. CASE DocumentRefusal(c, d) = "OK"
  <2>1. c.req.id \in Objects /\ row \in DocRow
    BY <1>2, DocumentRefusalType
  <2>2. msg \in GetDocumentResponse
    BY <2>1 DEF GetDocumentResponse, DocRow, Ids, Known
  <2>3. msg \in Response
    BY <2>2 DEF Response, GetDocumentResponse
  <2>4. c.method \notin Changes
    BY DEF Changes, Creates
  <2>5. o \in Look(msg, d)
    BY <1>2 DEF GetDocument
  <2> HIDE DEF row, msg
  <2>6. QED
    BY <2>3, <2>4, <2>5, LookSound
<1>3. QED
  BY <1>1, <1>2

LEMMA ListingSound ==
  ASSUME NEW c \in DocumentServer, NEW a \in Objects, NEW d \in Stores,
         NEW o,
         \/ c.method = "GetDocumentsByTask" /\ o \in GetDocumentsByTask(c, d)
         \/ c.method = "GetDocumentsByOwner" /\ o \in GetDocumentsByOwner(c, d)
  PROVE  Sound(o, c, a, d)
<1>1. {"InvalidArgument", "PermissionDenied"} \subseteq Codes \ {"OK"}
  BY DEF Codes
<1>2. c.method \notin Changes
  BY DEF Changes, Creates
<1>3. ASSUME NEW ds \in SUBSET Objects, o \in Look([documents |-> ds], d)
      PROVE  Sound(o, c, a, d)
  <2>1. [documents |-> ds] \in Response
    BY DEF Response, GetDocumentsByTaskResponse, Document
  <2>2. QED
    BY <1>2, <1>3, <2>1, LookSound
<1>4. \/ o \in Refuse("InvalidArgument", d) \/ o \in Refuse("PermissionDenied", d)
      \/ \E ds \in SUBSET Objects : o \in Look([documents |-> ds], d)
  BY DEF GetDocumentsByTask, GetDocumentsByOwner, FindByTask, FindByOwner
<1>5. QED
  BY <1>1, <1>3, <1>4, RefuseSound

LEMMA DocumentSound ==
  ASSUME NEW c \in DocumentServer, NEW a \in Objects, NEW d \in Stores,
         NEW late \in BOOLEAN, NEW o \in DocumentOutcomes(c, a, d, late)
  PROVE  Sound(o, c, a, d)
<1>1. c.method \in DocumentMethods
  BY DEF DocumentServer, DocumentMethods
<1>2. CASE o \in Refuse("Unknown", d)
  BY <1>2, RefuseSound DEF Codes
<1>3. QED
  BY <1>1, <1>2, AddDocumentSound, DeleteDocumentSound, GetDocumentSound,
     ListingSound DEF DocumentOutcomes, DocumentMethods
-----------------------------------------------------------------------------
\* Whatever a service answers, a call took effect only if it is of a kind that
\* changes the stores and the answer is OK or Internal; OK means it did, and
\* only the rows the call may touch are different (the three grpc_handler.go).
THEOREM OutcomesSound ==
  ASSUME NEW c \in Call, NEW a \in Objects, NEW d \in Stores,
         NEW late \in BOOLEAN, NEW o \in Outcomes(c, a, d, late)
  PROVE  Sound(o, c, a, d)
<1>1. CASE c \in AuthServer
  <2>1. ServiceOf(c) = "auth"
    BY <1>1 DEF AuthServer, ServiceOf, AuthMethods
  <2>2. QED
    BY <1>1, <2>1, AuthSound DEF Outcomes
<1>2. CASE c \in TaskServer
  <2>1. ServiceOf(c) = "task"
    BY <1>2 DEF TaskServer, ServiceOf, AuthMethods, TaskMethods
  <2>2. QED
    BY <1>2, <2>1, TaskSound DEF Outcomes
<1>3. CASE c \in DocumentServer
  <2>1. ServiceOf(c) = "document"
    BY <1>3 DEF DocumentServer, ServiceOf, AuthMethods, TaskMethods
  <2>2. QED
    BY <1>3, <2>1, DocumentSound DEF Outcomes
<1>4. QED
  BY <1>1, <1>2, <1>3 DEF Call
-----------------------------------------------------------------------------
(* The calls the gateway makes.                                            *)

\* A request that no handler refuses, at least while its token is good.
Passes(w) == w \in Wishes /\ \E late \in BOOLEAN : Refusal(w, late) = 0

LEMMA PassesRoute ==
  ASSUME NEW w, Passes(w)
  PROVE  /\ w \in HttpRequest
         /\ w.route \in OpenRoutes \cup {"create", "update", "list", "upload",
                                        "get", "delete", "by_task", "by_owner"}
         /\ w.route \notin OpenRoutes => w.token \in Users
         /\ w.route \notin {"by_owner"} => w.body # Malformed
<1>1. w \in HttpRequest
  BY GatewayAssumption DEF Passes
<1>2. PICK late \in BOOLEAN : Refusal(w, late) = 0
  BY DEF Passes
<1>3. w.route \in {"register", "login", "validate", "create", "update", "list",
                   "upload", "get", "delete", "by_task", "by_owner", "options",
                   "wrong_path", "wrong_method"}
  BY <1>1 DEF HttpRequest
<1>4. w.route \notin {"options", "wrong_path", "wrong_method"}
  BY <1>2 DEF Refusal, Preflight
<1>5. w.route \notin OpenRoutes => w.token \in Users
  BY <1>2, <1>4 DEF Refusal, ValidToken
<1>6. w.route \notin {"by_owner"} => w.body # Malformed
  BY <1>2, <1>4, <1>5 DEF Refusal, UploadRefusal, ValidToken
<1>7. QED
  BY <1>1, <1>3, <1>4, <1>5, <1>6 DEF OpenRoutes

LEMMA AuthCallType ==
  ASSUME NEW w, Passes(w), w.route \in OpenRoutes
  PROVE  /\ CallOf(w) \in AuthServer
         /\ w.route = "register" => CallOf(w) = [method |-> "Register", req |-> w.body]
         /\ w.route # "register" => CallOf(w).method \in {"Login", "ValidateToken"}
<1>1. w \in HttpRequest /\ w.body # Malformed
  BY PassesRoute DEF OpenRoutes
<1>2. CASE w.route = "register"
  <2>1. w.body \in RegisterRequest
    BY <1>1, <1>2 DEF HttpRequest
  <2>2. QED
    BY <1>2, <2>1 DEF CallOf, AuthCall, AuthServer, OpenRoutes
<1>3. CASE w.route = "login"
  <2>1. w.body \in LoginRequest
    BY <1>1, <1>3 DEF HttpRequest
  <2>2. QED
    BY <1>3, <2>1 DEF CallOf, AuthCall, AuthServer, OpenRoutes
<1>4. CASE w.route = "validate"
  <2>1. w.body \in ValidateTokenRequest /\ w.token \in Tokens
    BY <1>1, <1>4 DEF HttpRequest
  <2>2. [token |-> TokenGiven(w)] \in ValidateTokenRequest
    BY <2>1 DEF TokenGiven, ValidateTokenRequest
  <2>3. QED
    BY <1>4, <2>2 DEF CallOf, AuthCall, AuthServer, OpenRoutes
<1>5. QED
  BY <1>2, <1>3, <1>4 DEF OpenRoutes

LEMMA TaskCallType ==
  ASSUME NEW w, Passes(w), w.route \in {"create", "update", "list"}
  PROVE  /\ CallOf(w) \in TaskServer
         /\ w.route = "create" =>
              CallOf(w) = [method |-> "CreateTask",
                           req |-> [message |-> w.body.message,
                                    worker_id |-> w.body.worker_id,
                                    created_by |-> w.token]]
         /\ w.route = "update" => CallOf(w) = [method |-> "UpdateTask", req |-> w.body]
         /\ w.route = "list" => CallOf(w).method = "TaskList"
<1>1. w \in HttpRequest /\ w.body # Malformed /\ w.token \in Users
      /\ w.route \notin OpenRoutes
  BY PassesRoute DEF OpenRoutes
<1>2. CallOf(w) = TaskCall(w)
  BY <1>1 DEF CallOf
<1>3. CASE w.route = "create"
  <2>1. w.body \in [message : Texts, worker_id : Ids]
    BY <1>1, <1>3 DEF HttpRequest
  <2>2. [message |-> w.body.message, worker_id |-> w.body.worker_id,
         created_by |-> w.token] \in CreateTaskRequest
    BY <1>1, <2>1 DEF CreateTaskRequest, Ids, Known
  <2>3. QED
    BY <1>2, <1>3, <2>2 DEF TaskCall, TaskServer
<1>4. CASE w.route = "update"
  <2>1. w.body \in UpdateTaskRequest
    BY <1>1, <1>4 DEF HttpRequest
  <2>2. QED
    BY <1>2, <1>4, <2>1 DEF TaskCall, TaskServer
<1>5. CASE w.route = "list"
  <2>1. w.body \in TaskListRequest
    BY <1>1, <1>5 DEF HttpRequest
  <2>2. QED
    BY <1>2, <1>5, <2>1 DEF TaskCall, TaskServer
<1>6. QED
  BY <1>3, <1>4, <1>5

LEMMA UploadCallType ==
  ASSUME NEW w, Passes(w), w.route = "upload"
  PROVE  /\ CallOf(w) \in DocumentServer
         /\ CallOf(w) = [method |-> "AddDocument", token |-> w.token,
                         req |-> [task_id |-> w.body.task_id,
                                  owner_id |-> w.token,
                                  file_content |-> FileOf(w),
                                  filename |-> w.body.filename,
                                  content_type |-> w.body.content_type]]
         /\ w.body.size \in Nat
<1> DEFINE r == [task_id |-> w.body.task_id, owner_id |-> w.token,
                 file_content |-> FileOf(w), filename |-> w.body.filename,
                 content_type |-> w.body.content_type]
<1>1. w \in HttpRequest /\ w.body # Malformed /\ w.token \in Users /\ w \in Wishes
  BY PassesRoute DEF OpenRoutes, Passes
<1>2. w.body \in [task_id : Ids, filename : Texts, content_type : Texts, size : Nat]
  BY <1>1 DEF HttpRequest
<1>3. FileOf(w) \in Sizes
  BY <1>1, GatewayAssumption
<1>4. r \in AddDocumentRequest
  BY <1>1, <1>2, <1>3 DEF AddDocumentRequest, Ids, Known
<1>5. CallOf(w) = [method |-> "AddDocument", req |-> r, token |-> w.token]
  BY DEF CallOf, OpenRoutes, DocumentCall, DocumentReq, DocumentMethod
<1>6. w.token \in Tokens
  BY <1>1 DEF Tokens
<1> HIDE DEF r
<1>7. CallOf(w) \in DocumentServer
  BY <1>4, <1>5, <1>6 DEF DocumentServer
<1> USE DEF r
<1>8. QED
  BY <1>2, <1>5, <1>7

LEMMA OtherCallType ==
  ASSUME NEW w, Passes(w), w.route \in {"get", "delete", "by_task", "by_owner"}
  PROVE  /\ CallOf(w) \in DocumentServer
         /\ CallOf(w) = [method |-> DocumentMethod[w.route], req |-> DocumentReq(w),
                         token |-> w.token]
<1>1. w \in HttpRequest /\ w.token \in Users
  BY PassesRoute DEF OpenRoutes
<1>2. CallOf(w) = [method |-> DocumentMethod[w.route], req |-> DocumentReq(w),
                   token |-> w.token]
  BY DEF CallOf, OpenRoutes, DocumentCall
<1>3. w.token \in Ids /\ w.token \in Tokens
  BY <1>1 DEF Ids, Known, Tokens
<1>4. CASE w.route \in {"get", "delete"}
  <2>1. w.body \in [id : Ids]
    BY <1>1, <1>4 DEF HttpRequest
  <2>2. CASE w.route = "get"
    <3>1. DocumentReq(w) \in GetDocumentRequest
      BY <2>1, <2>2 DEF DocumentReq, GetDocumentRequest
    <3>2. QED
      BY <1>2, <1>3, <2>2, <3>1 DEF DocumentServer, DocumentMethod
  <2>3. CASE w.route = "delete"
    <3>1. DocumentReq(w) \in DeleteDocumentRequest
      BY <1>3, <2>1, <2>3 DEF DocumentReq, DeleteDocumentRequest
    <3>2. QED
      BY <1>2, <1>3, <2>3, <3>1 DEF DocumentServer, DocumentMethod
  <2>4. QED
    BY <1>4, <2>2, <2>3
<1>5. CASE w.route = "by_task"
  <2>1. w.body \in [task_id : Ids]
    BY <1>1, <1>5 DEF HttpRequest
  <2>2. DocumentReq(w) \in GetDocumentsByTaskRequest
    BY <1>5, <2>1 DEF DocumentReq, GetDocumentsByTaskRequest
  <2>3. QED
    BY <1>2, <1>3, <1>5, <2>2 DEF DocumentServer, DocumentMethod
<1>6. CASE w.route = "by_owner"
  <2>1. DocumentReq(w) \in GetDocumentsByOwnerRequest
    BY <1>3, <1>6 DEF DocumentReq, GetDocumentsByOwnerRequest
  <2>2. QED
    BY <1>2, <1>3, <1>6, <2>1 DEF DocumentServer, DocumentMethod
<1>7. QED
  BY <1>4, <1>5, <1>6

LEMMA CallOfType ==
  ASSUME NEW w, Passes(w)
  PROVE  CallOf(w) \in Call
BY PassesRoute, AuthCallType, TaskCallType, UploadCallType, OtherCallType
DEF Call
-----------------------------------------------------------------------------
(* Type correctness.                                                       *)

HttpStatuses == {200, 201, 204, 400, 401, 404, 405, 413, 429, 500, 502}

LEMMA RefusalType ==
  ASSUME NEW w, NEW late \in BOOLEAN
  PROVE  Refusal(w, late) \in {0, 204, 400, 401, 404, 405, 413}
<1>1. UploadRefusal(w) \in {0, 400, 413}
  BY DEF UploadRefusal
<1>2. QED
  BY <1>1 DEF Refusal

LEMMA StatusOfType ==
  ASSUME NEW code
  PROVE  StatusOf(code) \in {400, 401, 404, 429, 502}
BY DEF StatusOf

LEMMA AnswerType ==
  ASSUME NEW c, NEW r \in Reply, NEW s \in Answers(c, r)
  PROVE  s.status \in HttpStatuses /\ s.msg \in Response \cup {None}
<1>1. PICK fits : s = Answer(c, r, fits)
  BY DEF Answers
<1>2. QED
  BY <1>1, StatusOfType DEF Answer, HttpStatuses, Reply

LEMMA AnswerWithType ==
  ASSUME TypeOK, NEW a \in Attempts, NEW status \in HttpStatuses,
         NEW msg \in Response \cup {None}, AnswerWith(a, status, msg)
  PROVE  /\ handler' \in [Attempts -> HandlerState]
         /\ handler'[a].pc = "answered"
         /\ handler'[a].status = status
         /\ handler'[a].msg = msg
         /\ status # 0
         /\ \A b \in Attempts \ {a} : handler'[b] = handler[b]
BY DEF TypeOK, AnswerWith, HandlerState, HttpStatuses

LEMMA UnansweredType ==
  /\ Unanswered \in HandlerState
  /\ Unanswered.pc = "unanswered"
  /\ Unanswered.status = 0
BY DEF Unanswered, HandlerState

LEMMA LetGoType ==
  ASSUME TypeOK, NEW a \in Attempts,
         handler' = [handler EXCEPT ![a] = Unanswered]
  PROVE  /\ handler' \in [Attempts -> HandlerState]
         /\ handler'[a].pc = "unanswered"
         /\ handler'[a].status = 0
         /\ \A b \in Attempts \ {a} : handler'[b] = handler[b]
BY UnansweredType DEF TypeOK

LEMMA CallingType ==
  ASSUME TypeOK, NEW a \in Attempts, handler[a].pc = "idle",
         handler' = [handler EXCEPT ![a].pc = "calling"]
  PROVE  /\ handler' \in [Attempts -> HandlerState]
         /\ handler'[a].pc = "calling"
         /\ handler'[a].status = 0
         /\ \A b \in Attempts \ {a} : handler'[b] = handler[b]
<1>1. handler[a] \in HandlerState /\ handler[a].status = 0
  BY DEF TypeOK
<1>2. handler'[a] = [handler[a] EXCEPT !.pc = "calling"]
  BY DEF TypeOK
<1>3. /\ handler'[a] \in HandlerState
      /\ handler'[a].pc = "calling"
      /\ handler'[a].status = 0
  BY <1>1, <1>2 DEF HandlerState
<1>4. QED
  BY <1>3 DEF TypeOK

\* What may become of a call.
LEMMA CallsType ==
  ASSUME TypeOK, NEW a \in Attempts, NEW call \in CallState \cup {None},
         calls' = [calls EXCEPT ![a] = call]
  PROVE  /\ calls' \in [Attempts -> CallState \cup {None}]
         /\ calls'[a] = call
         /\ \A b \in Attempts \ {a} : calls'[b] = calls[b]
BY DEF TypeOK

LEMMA CallStarts ==
  ASSUME NEW w, Passes(w)
  PROVE  [rpc |-> CallOf(w), answer |-> None] \in CallState
BY CallOfType DEF CallState

LEMMA CallAnswered ==
  ASSUME NEW call \in CallState, NEW r \in Reply
  PROVE  /\ [call EXCEPT !.answer = r] \in CallState
         /\ [call EXCEPT !.answer = r].rpc = call.rpc
         /\ [call EXCEPT !.answer = r].answer = r
         /\ [call EXCEPT !.answer = r] # None
         /\ r # None
BY NoCallAssumption DEF CallState

LEMMA AttemptsAreObjects == Attempts \subseteq Objects
BY GatewayAssumption DEF Attempts

LEMMA ReceivedSound ==
  ASSUME TypeOK, NEW a \in Attempts, NEW c \in Call, NEW o \in Received(c, a)
  PROVE  /\ Sound(o, c, a, db)
         /\ [code |-> o.code, msg |-> o.msg] \in Reply
<1>1. db \in Stores /\ expired \in BOOLEAN /\ a \in Objects
  BY AttemptsAreObjects DEF TypeOK
<1>2. o \in Refuse("ResourceExhausted", db) => Sound(o, c, a, db)
  BY <1>1, RefuseSound DEF Codes
<1>3. o \in Outcomes(c, a, db, expired) => Sound(o, c, a, db)
  BY <1>1, OutcomesSound
<1>4. Sound(o, c, a, db)
  BY <1>2, <1>3 DEF Received
<1>5. QED
  BY <1>4 DEF Sound, Outcome, Reply

LEMMA TypeInit == Init => TypeOK
<1> SUFFICES ASSUME Init PROVE TypeOK
  OBVIOUS
<1>1. handler \in [Attempts -> HandlerState]
  BY DEF Init, HandlerState
<1>2. db \in Stores
  BY StoredAssumption DEF Init
<1>3. /\ outages \in 0 .. MaxOutages
      /\ up \in [Services -> {"up", "down", "hung"}]
  BY LimitsAssumption DEF Init
<1>4. QED
  BY <1>1, <1>2, <1>3 DEF Init, TypeOK, Services

\* A handler and its call agree.
Consistent(a) ==
  /\ handler[a].status # 0 <=> handler[a].pc = "answered"
  /\ handler[a].pc = "calling" => calls[a] # None
  /\ handler[a].pc \in {"idle", "answered"} => calls[a] = None

LEMMA TypeParts ==
  ASSUME TypeOK
  PROVE  \A a \in Attempts : Consistent(a)
BY DEF TypeOK, Consistent

\* The steps that touch one attempt.
LEMMA TypeOne ==
  ASSUME TypeOK, NEW a \in Attempts, UNCHANGED lifeVars,
         wish' \in Wishes \cup {None},
         handler' \in [Attempts -> HandlerState],
         calls' \in [Attempts -> CallState \cup {None}],
         db' \in Stores, did' \subseteq Attempts, expired' = expired,
         \A b \in Attempts \ {a} : handler'[b] = handler[b] /\ calls'[b] = calls[b],
         Consistent(a)'
  PROVE  TypeOK'
<1>1. \A b \in Attempts : Consistent(b)'
  BY TypeParts DEF Consistent
<1>2. QED
  BY <1>1 DEF TypeOK, Consistent, lifeVars

LEMMA TypeAccept ==
  ASSUME TypeOK, NEW a \in Attempts, NEW w \in Wishes, Accept(a, w)
  PROVE  TypeOK'
<1>1. /\ wish' = w /\ handler[a].pc = "idle" /\ calls[a] = None
      /\ UNCHANGED <<db, did, expired, lifeVars>>
  BY DEF Accept, Sent, TypeOK
<1>2. CASE Refusal(w, expired) # 0
  <2>1. AnswerWith(a, Refusal(w, expired), None) /\ calls' = calls
    BY <1>2 DEF Accept
  <2>2. Refusal(w, expired) \in HttpStatuses
    BY <1>2, RefusalType DEF HttpStatuses, TypeOK
  <2>3. Consistent(a)'
    BY <1>1, <2>1, <2>2, AnswerWithType DEF Consistent
  <2>4. QED
    BY <1>1, <2>1, <2>2, <2>3, AnswerWithType, TypeOne DEF TypeOK
<1>3. CASE Refusal(w, expired) = 0
  <2>1. /\ handler' = [handler EXCEPT ![a].pc = "calling"]
        /\ calls' = [calls EXCEPT ![a] = [rpc |-> CallOf(w), answer |-> None]]
    BY <1>3 DEF Accept
  <2>2. [rpc |-> CallOf(w), answer |-> None] \in CallState
    BY <1>3, CallStarts DEF Passes, TypeOK
  <2>3. calls'[a] # None
    BY <2>1, <2>2, CallsType, NoCallAssumption
  <2>4. Consistent(a)'
    BY <1>1, <2>1, <2>3, CallingType DEF Consistent
  <2>5. QED
    BY <1>1, <2>1, <2>2, <2>4, CallsType, CallingType, TypeOne DEF TypeOK
<1>4. QED
  BY <1>2, <1>3

LEMMA TypeRefused ==
  ASSUME TypeOK, NEW a \in Attempts, NEW w \in Wishes,
         Limited(a, w) \/ ReadFails(a, w)
  PROVE  TypeOK'
<1>1. PICK status \in {413, 429, 500} : AnswerWith(a, status, None)
  BY DEF Limited, ReadFails
<1>2. /\ wish' = w /\ handler[a].pc = "idle"
      /\ UNCHANGED <<calls, db, did, expired, lifeVars>>
  BY DEF Limited, ReadFails, Sent
<1>3. status \in HttpStatuses
  BY DEF HttpStatuses
<1>4. Consistent(a)'
  BY <1>1, <1>2, <1>3, TypeParts, AnswerWithType DEF Consistent
<1>5. QED
  BY <1>1, <1>2, <1>3, <1>4, AnswerWithType, TypeOne DEF TypeOK

LEMMA TypeServe ==
  ASSUME TypeOK, NEW a \in Attempts, Serve(a)
  PROVE  TypeOK'
<1> DEFINE c == calls[a].rpc
<1>1. /\ calls[a] \in CallState /\ c \in Call
      /\ UNCHANGED <<wish, handler, expired, lifeVars>>
  BY DEF TypeOK, Serve, InFlight, CallState
<1>2. PICK o \in Received(c, a) :
        /\ db' = o.db
        /\ did' = IF o.done THEN did \cup {a} ELSE did
        /\ calls' = [calls EXCEPT ![a] =
                       IF a \in Running
                       THEN [@ EXCEPT !.answer = [code |-> o.code, msg |-> o.msg]]
                       ELSE None]
  BY DEF Serve
<1>3. [code |-> o.code, msg |-> o.msg] \in Reply /\ o.db \in Stores
  BY <1>1, ReceivedSound DEF Sound, Outcome
<1>4. CASE a \in Running
  <2> DEFINE r == [code |-> o.code, msg |-> o.msg]
             call == [calls[a] EXCEPT !.answer = r]
  <2>1. call \in CallState /\ call # None
    BY <1>1, <1>3, CallAnswered
  <2>2. calls' = [calls EXCEPT ![a] = call]
    BY <1>2, <1>4
  <2> HIDE DEF call
  <2>3. Consistent(a)'
    BY <1>1, <1>4, <2>1, <2>2, CallsType, TypeParts DEF Consistent, Running
  <2>4. QED
    BY <1>1, <1>2, <1>3, <2>1, <2>2, <2>3, CallsType, TypeOne DEF TypeOK
<1>5. CASE a \notin Running
  <2>1. calls' = [calls EXCEPT ![a] = None]
    BY <1>2, <1>5
  <2>2. Consistent(a)'
    BY <1>1, <1>5, <2>1, CallsType, TypeParts DEF Consistent, Running
  <2>3. QED
    BY <1>1, <1>2, <1>3, <2>1, <2>2, CallsType, TypeOne DEF TypeOK
<1>6. QED
  BY <1>4, <1>5

LEMMA TypeDrop ==
  ASSUME TypeOK, NEW a \in Attempts, Drop(a)
  PROVE  TypeOK'
<1>1. /\ calls' = [calls EXCEPT ![a] = None]
      /\ UNCHANGED <<wish, handler, db, did, expired, lifeVars>>
      /\ a \notin Running
  BY DEF Drop
<1>2. Consistent(a)'
  BY <1>1, CallsType, TypeParts DEF Consistent, Running
<1>3. QED
  BY <1>1, <1>2, CallsType, TypeOne DEF TypeOK

LEMMA TypeCallFails ==
  ASSUME TypeOK, NEW a \in Attempts, CallFails(a)
  PROVE  TypeOK'
<1> DEFINE r == [code |-> "Unavailable", msg |-> None]
           call == [calls[a] EXCEPT !.answer = r]
<1>1. r \in Reply
  BY DEF Reply, Codes
<1>2. calls[a] \in CallState
  BY DEF TypeOK, CallFails, InFlight
<1>3. call \in CallState /\ call # None
  BY <1>1, <1>2, CallAnswered
<1>4. /\ calls' = [calls EXCEPT ![a] = call]
      /\ UNCHANGED <<wish, handler, db, did, expired, lifeVars>>
      /\ a \in Running
  BY DEF CallFails, Failed
<1> HIDE DEF call
<1>5. Consistent(a)'
  BY <1>3, <1>4, CallsType, TypeParts DEF Consistent, Running
<1>6. QED
  BY <1>3, <1>4, <1>5, CallsType, TypeOne DEF TypeOK

LEMMA TypeReturn ==
  ASSUME TypeOK, NEW a \in Attempts, Return(a)
  PROVE  TypeOK'
<1>1. /\ calls' = [calls EXCEPT ![a] = None]
      /\ UNCHANGED <<wish, db, did, expired, lifeVars>>
      /\ a \in Running /\ calls[a].answer # None
  BY DEF Return
<1>2. calls[a] \in CallState
  BY <1>1, TypeParts DEF TypeOK, Consistent, Running
<1>3. CASE \E r \in Answers(calls[a].rpc, calls[a].answer) :
             AnswerWith(a, r.status, r.msg)
  <2>1. PICK r \in Answers(calls[a].rpc, calls[a].answer) :
               AnswerWith(a, r.status, r.msg)
    BY <1>3
  <2>2. r.status \in HttpStatuses /\ r.msg \in Response \cup {None}
    BY <1>1, <1>2, AnswerType DEF CallState
  <2>3. Consistent(a)'
    BY <1>1, <2>1, <2>2, CallsType, AnswerWithType DEF Consistent
  <2>4. QED
    BY <1>1, <2>1, <2>2, <2>3, CallsType, AnswerWithType, TypeOne DEF TypeOK
<1>4. CASE handler' = [handler EXCEPT ![a] = Unanswered]
  <2>1. Consistent(a)'
    BY <1>1, <1>4, CallsType, LetGoType DEF Consistent
  <2>2. QED
    BY <1>1, <1>4, <2>1, CallsType, LetGoType, TypeOne DEF TypeOK
<1>5. QED
  BY <1>3, <1>4 DEF Return

LEMMA TypeLeave ==
  ASSUME TypeOK, NEW a \in Attempts, Leave(a)
  PROVE  TypeOK'
<1>1. /\ handler' = [handler EXCEPT ![a] = Unanswered]
      /\ UNCHANGED <<wish, calls, db, did, expired, lifeVars>>
  BY DEF Leave
<1>2. Consistent(a)'
  BY <1>1, LetGoType DEF Consistent
<1>3. QED
  BY <1>1, <1>2, LetGoType, TypeOne DEF TypeOK

\* The calls to a service that ends fail, or are gone with their handler.
LEMMA OutageCalls ==
  ASSUME TypeOK, NEW s \in Services, Outage(s), NEW a \in Attempts
  PROVE  /\ calls'[a] \in CallState \cup {None}
         /\ \/ calls'[a] = calls[a]
            \/ calls'[a] = None /\ a \notin Running
            \/ /\ calls[a] # None /\ calls'[a] # None
               /\ calls'[a].rpc = calls[a].rpc
               /\ calls'[a].answer = [code |-> "Unavailable", msg |-> None]
               /\ calls'[a].answer # None
<1> DEFINE r == [code |-> "Unavailable", msg |-> None]
<1>1. r \in Reply
  BY DEF Reply, Codes
<1>2. calls'[a] = IF calls[a] # None /\ ServiceOf(calls[a].rpc) = s
                  THEN IF a \in Running THEN [calls[a] EXCEPT !.answer = r]
                       ELSE None
                  ELSE calls[a]
  BY DEF Outage
<1> DEFINE call == [calls[a] EXCEPT !.answer = r]
<1>3. \/ calls'[a] = calls[a]
      \/ calls'[a] = None /\ a \notin Running
      \/ calls[a] # None /\ calls'[a] = call
  <2> HIDE DEF call
  <2>1. calls'[a] = IF calls[a] # None /\ ServiceOf(calls[a].rpc) = s
                    THEN IF a \in Running THEN call ELSE None
                    ELSE calls[a]
    BY <1>2 DEF call
  <2>2. QED
    BY <2>1
<1>4. calls[a] \in CallState \cup {None}
  BY DEF TypeOK
<1>5. CASE calls[a] # None /\ calls'[a] = call
  <2>1. calls[a] \in CallState
    BY <1>4, <1>5
  <2> HIDE DEF r
  <2>2. /\ calls'[a] \in CallState /\ calls'[a].rpc = calls[a].rpc
        /\ calls'[a].answer = r /\ calls'[a] # None /\ r # None
    BY <1>1, <1>5, <2>1, CallAnswered
  <2>3. r = [code |-> "Unavailable", msg |-> None]
    BY DEF r
  <2>4. QED
    BY <1>5, <2>2, <2>3
<1>6. CASE ~(calls[a] # None /\ calls'[a] = call)
  BY <1>3, <1>4, <1>6
<1>7. QED
  BY <1>5, <1>6

LEMMA TypeOutage ==
  ASSUME TypeOK, NEW s \in Services, Outage(s)
  PROVE  TypeOK'
<1>1. calls' \in [Attempts -> CallState \cup {None}]
  <2>1. \A a \in Attempts : calls'[a] \in CallState \cup {None}
    BY OutageCalls
  <2>2. calls' = [a \in Attempts |-> calls'[a]]
    BY DEF Outage
  <2>3. QED
    BY <2>1, <2>2
<1>2. ASSUME NEW a \in Attempts PROVE Consistent(a)'
  <2>1. handler' = handler
    BY DEF Outage
  <2>2. calls'[a] = None => calls[a] = None \/ a \notin Running
    BY OutageCalls
  <2>3. calls[a] = None => calls'[a] = None
    BY OutageCalls
  <2>4. QED
    BY <2>1, <2>2, <2>3, TypeParts DEF Consistent, Running
<1>3. up' \in [Services -> {"up", "down", "hung"}] /\ outages' \in 0 .. MaxOutages
  BY LimitsAssumption DEF Outage, TypeOK
<1>4. QED
  BY <1>1, <1>2, <1>3 DEF Outage, TypeOK, Consistent

\* What the end of the process does to the handlers.
LEMMA EndHandlers ==
  ASSUME TypeOK, NEW how, End(how)
  PROVE  /\ handler' \in [Attempts -> HandlerState]
         /\ \A a \in Attempts :
              \/ handler'[a] = handler[a] /\ a \notin Running
              \/ /\ a \in Running
                 /\ handler'[a].pc = "unanswered" /\ handler'[a].status = 0
<1>1. \A a \in Attempts : handler'[a] = IF a \in Running THEN Unanswered
                                       ELSE handler[a]
  BY DEF End
<1>2. \A a \in Attempts : handler'[a] \in HandlerState
  BY <1>1, UnansweredType DEF TypeOK
<1>3. handler' = [a \in Attempts |-> handler'[a]]
  BY DEF End
<1>4. handler' \in [Attempts -> HandlerState]
  BY <1>2, <1>3
<1>5. QED
  BY <1>1, <1>4, UnansweredType

LEMMA TypeEnd ==
  ASSUME TypeOK, NEW how \in Ended, End(how), asked' \in BOOLEAN,
         outages' \in 0 .. MaxOutages
  PROVE  TypeOK'
<1>1. /\ phase' = how /\ tries' = 0
      /\ UNCHANGED <<wish, calls, db, did, expired, up>>
  BY DEF End
<1>2. ASSUME NEW a \in Attempts PROVE Consistent(a)'
  BY <1>1, EndHandlers, TypeParts DEF Consistent, Running
<1>3. QED
  BY <1>1, <1>2, EndHandlers DEF TypeOK, Consistent

LEMMA TypeLife ==
  ASSUME TypeOK, Life
  PROVE  TypeOK'
<1>1. CASE Dial
  BY <1>1 DEF TypeOK, Dial, AfterDial, Services, requestVars
<1>2. CASE DialAgain
  BY <1>2 DEF TypeOK, DialAgain, requestVars
<1>3. CASE DialFails
  <2>1. End("failed") /\ UNCHANGED <<asked, outages>>
    BY <1>3 DEF DialFails
  <2>2. QED
    BY <2>1, TypeEnd DEF Ended, TypeOK
<1>4. CASE Signal /\ phase = "serving"
  BY <1>4 DEF TypeOK, Signal, requestVars
<1>5. CASE Signal /\ phase # "serving"
  <2>1. End("failed") /\ asked' = TRUE /\ UNCHANGED outages
    BY <1>5 DEF Signal
  <2>2. QED
    BY <2>1, TypeEnd DEF Ended, TypeOK
<1>6. CASE Drained
  <2>1. End("stopped") /\ UNCHANGED <<asked, outages>>
    BY <1>6 DEF Drained
  <2>2. QED
    BY <2>1, TypeEnd DEF Ended, TypeOK
<1>7. CASE GraceOver
  <2>1. End("failed") /\ UNCHANGED <<asked, outages>>
    BY <1>7 DEF GraceOver
  <2>2. QED
    BY <2>1, TypeEnd DEF Ended, TypeOK
<1>8. CASE Crash
  <2>1. End("failed") /\ asked' = asked
    BY <1>8 DEF Crash
  <2>2. outages' \in 0 .. MaxOutages
    BY <1>8, LimitsAssumption DEF Crash, TypeOK
  <2>3. QED
    BY <2>1, <2>2, TypeEnd DEF Ended, TypeOK
<1>9. CASE Restart
  BY <1>9 DEF TypeOK, Restart, requestVars, Services
<1>10. CASE StartAgain
  BY <1>10 DEF TypeOK, StartAgain, requestVars, Services
<1>11. QED
  BY <1>1, <1>2, <1>3, <1>4, <1>5, <1>6, <1>7, <1>8, <1>9, <1>10 DEF Life

LEMMA TypeStep == TypeOK /\ [Next]_vars => TypeOK'
<1> SUFFICES ASSUME TypeOK, [Next]_vars PROVE TypeOK'
  OBVIOUS
<1>1. ASSUME NEW a \in Attempts, Request(a) PROVE TypeOK'
  BY <1>1, TypeAccept, TypeRefused, TypeServe, TypeDrop, TypeCallFails,
     TypeReturn, TypeLeave DEF Request
<1>2. ASSUME NEW s \in Services, Service(s) PROVE TypeOK'
  <2>1. CASE Hang(s)
    BY <2>1, LimitsAssumption DEF TypeOK, Hang, requestVars
  <2>2. CASE Recover(s)
    BY <2>2 DEF TypeOK, Recover, requestVars
  <2>3. QED
    BY <1>2, <2>1, <2>2, TypeOutage DEF Service
<1>3. CASE Expire
  BY <1>3 DEF TypeOK, Expire, lifeVars
<1>4. CASE UNCHANGED vars
  BY <1>4 DEF TypeOK, vars
<1>5. QED
  BY <1>1, <1>2, <1>3, <1>4, TypeLife DEF Next

\* Messages, rows and statuses are those of the code's types, whatever fails.
THEOREM TypeCorrect == Spec => []TypeOK
<1>1. QED
  BY TypeInit, TypeStep, PTL DEF Spec
-----------------------------------------------------------------------------
(* What an attempt may leave behind.                                       *)

\* The kind of a call tells the kind of the request it was made for.
LEMMA CallOfWish ==
  ASSUME NEW w, Passes(w)
  PROVE  LET c == CallOf(w) IN
         /\ c.method \in Changes <=> w.route \in Changing
         /\ c.method = "Register" => w.route = "register" /\ c.req = w.body
         /\ c.method = "CreateTask" =>
              /\ w.route = "create"
              /\ c.req = [message |-> w.body.message,
                          worker_id |-> w.body.worker_id,
                          created_by |-> w.token]
         /\ c.method = "UpdateTask" => w.route = "update" /\ c.req = w.body
         /\ c.method = "DeleteDocument" =>
              /\ w.route = "delete"
              /\ c.req = [id |-> w.body.id, owner_id |-> w.token]
              /\ c.token = w.token
         /\ c.method = "AddDocument" =>
              /\ w.route = "upload"
              /\ c.req = [task_id |-> w.body.task_id, owner_id |-> w.token,
                          file_content |-> FileOf(w),
                          filename |-> w.body.filename,
                          content_type |-> w.body.content_type]
              /\ w.body.size \in Nat
<1> DEFINE c == CallOf(w)
<1>1. CASE w.route \in OpenRoutes
  <2>1. w.route \in {"register", "login", "validate"}
    BY <1>1 DEF OpenRoutes
  <2>2. QED
    BY <1>1, <2>1, AuthCallType DEF Changes, Creates, Changing
<1>2. CASE w.route \in {"create", "update", "list"}
  <2> HIDE DEF c
  <2>1. /\ w.route = "create" =>
             /\ c.method = "CreateTask"
             /\ c.req = [message |-> w.body.message,
                         worker_id |-> w.body.worker_id,
                         created_by |-> w.token]
        /\ w.route = "update" => c.method = "UpdateTask" /\ c.req = w.body
        /\ w.route = "list" => c.method = "TaskList"
    BY <1>2, TaskCallType DEF c
  <2>2. QED
    BY <1>2, <2>1 DEF c, Changes, Creates, Changing
<1>3. CASE w.route = "upload"
  <2> HIDE DEF c
  <2>1. /\ c.method = "AddDocument"
        /\ c.req = [task_id |-> w.body.task_id, owner_id |-> w.token,
                    file_content |-> FileOf(w), filename |-> w.body.filename,
                    content_type |-> w.body.content_type]
        /\ w.body.size \in Nat
    BY <1>3, UploadCallType DEF c
  <2>2. QED
    BY <1>3, <2>1 DEF c, Changes, Creates, Changing
<1>4. CASE w.route \in {"get", "delete", "by_task", "by_owner"}
  <2> HIDE DEF c
  <2>1. /\ c.method = DocumentMethod[w.route]
        /\ c.req = DocumentReq(w)
        /\ c.token = w.token
    BY <1>4, OtherCallType DEF c
  <2>2. QED
    BY <1>4, <2>1 DEF c, DocumentReq, DocumentMethod, Changes, Creates, Changing
<1>5. QED
  BY <1>1, <1>2, <1>3, <1>4, PassesRoute

\* gRPC refuses every file the gateway's reader has cut.
LEMMA FittingFilesAreWhole ==
  ASSUME NEW w, Passes(w), w.route = "upload", CallFits(CallOf(w))
  PROVE  FileOf(w) = w.body.size
<1>1. /\ CallOf(w).method = "AddDocument"
      /\ CallOf(w).req.file_content = FileOf(w)
      /\ w.body.size \in Nat
  BY UploadCallType
<1>2. FileOf(w) + CallOverhead <= GrpcLimit
  BY <1>1 DEF CallFits, FitsGrpc
<1>3. /\ GrpcLimit \in Nat /\ ForwardLimit \in Nat /\ CallOverhead \in Nat
      /\ GrpcLimit < ForwardLimit
  BY LimitsAssumption
<1>4. FileOf(w) # ForwardLimit
  BY <1>2, <1>3
<1>5. QED
  BY <1>4 DEF FileOf

\* The parts of the inductive invariant, for one attempt.

CallIsWished(a) == calls[a] # None => Passes(wish) /\ calls[a].rpc = CallOf(wish)

EffectIsAnswered(a) ==
  a \in did => /\ handler[a].pc # "idle"
               /\ calls[a] # None => calls[a].answer # None
               /\ wish.route \in Changing

AnswerIsSound(a) ==
  LET r == calls[a].answer IN
  a \in Running /\ r # None =>
    /\ a \in did => r.code \in {"OK", "Internal", "Unavailable"}
    /\ r.code = "OK" =>
         /\ wish.route \in Changing => a \in did
         /\ calls[a].rpc.method \in Creates => r.msg.id = a

RowsAreWished(a) ==
  /\ db.users[a] # None =>
       a \in did /\ wish.route = "register" /\ db.users[a] = NewUser(wish.body)
  /\ db.tasks[a] # None =>
       /\ a \in did
       /\ wish.route = "create"
       /\ db.tasks[a] = [message |-> wish.body.message, status |-> "IN_PROGRESS",
                         reason |-> Empty, worker_id |-> wish.body.worker_id,
                         created_by |-> wish.token]
  /\ db.docs[a] # None =>
       /\ a \in did
       /\ wish.route = "upload"
       /\ db.docs[a] = [owner_id |-> wish.token, task_id |-> wish.body.task_id,
                        filename |-> wish.body.filename,
                        content_type |-> wish.body.content_type,
                        size |-> wish.body.size]

StatusIsTrue(a) ==
  handler[a].pc = "answered" =>
    /\ handler[a].status \in 400 .. 499 => a \notin did
    /\ handler[a].status \in {200, 201} =>
         /\ wish.route \in Changing => a \in did
         /\ handler[a].status = 201 => handler[a].msg.id = a

AttemptInv(a) ==
  /\ handler[a].pc # "idle" => wish \in Wishes
  /\ CallIsWished(a)
  /\ EffectIsAnswered(a)
  /\ AnswerIsSound(a)
  /\ RowsAreWished(a)
  /\ StatusIsTrue(a)

IInv == TypeOK /\ \A a \in Attempts : AttemptInv(a)

\* Before anything is sent an attempt has no traces.
LEMMA NoWishNoTrace ==
  ASSUME TypeOK, NEW b \in Attempts, AttemptInv(b), wish = None
  PROVE  /\ handler[b].pc = "idle" /\ calls[b] = None /\ b \notin did
         /\ db.users[b] = None /\ db.tasks[b] = None /\ db.docs[b] = None
<1>1. handler[b].pc = "idle"
  BY GatewayAssumption DEF AttemptInv
<1>2. calls[b] = None
  BY <1>1, TypeParts DEF Consistent
<1>3. b \notin did
  BY <1>1 DEF AttemptInv, EffectIsAnswered
<1>4. QED
  BY <1>1, <1>2, <1>3 DEF AttemptInv, RowsAreWished

\* The invariant of an attempt that a step leaves alone.
LEMMA Frame ==
  ASSUME TypeOK, NEW b \in Attempts, AttemptInv(b),
         wish' = wish \/ wish = None,
         handler'[b] = handler[b], calls'[b] = calls[b],
         b \in did' <=> b \in did,
         db'.users[b] = db.users[b], db'.tasks[b] = db.tasks[b],
         db'.docs[b] \in {db.docs[b], None}
  PROVE  AttemptInv(b)'
<1>1. CASE wish = None
  BY <1>1, NoWishNoTrace
  DEF AttemptInv, CallIsWished, EffectIsAnswered, AnswerIsSound, RowsAreWished,
      StatusIsTrue, Running
<1>2. CASE wish' = wish
  BY <1>2
  DEF AttemptInv, CallIsWished, EffectIsAnswered, AnswerIsSound, RowsAreWished,
      StatusIsTrue, Running
<1>3. QED
  BY <1>1, <1>2

LEMMA InvInit == Init => IInv
<1> SUFFICES ASSUME Init PROVE IInv
  OBVIOUS
<1>1. TypeOK
  BY TypeInit
<1>2. ASSUME NEW a \in Attempts PROVE AttemptInv(a)
  <2>1. /\ handler[a].pc = "idle" /\ calls[a] = None /\ a \notin did
        /\ db.users[a] = None /\ db.tasks[a] = None /\ db.docs[a] = None
    BY StoredAssumption DEF Init
  <2>2. QED
    BY <2>1 DEF AttemptInv, CallIsWished, EffectIsAnswered, AnswerIsSound,
       RowsAreWished, StatusIsTrue, Running
<1>3. QED
  BY <1>1, <1>2 DEF IInv

\* A request that is taken: by its handler, which refuses it or calls a service,
\* or by the limiter.
LEMMA InvSent ==
  ASSUME IInv, NEW a \in Attempts, NEW w \in Wishes,
         Accept(a, w) \/ Limited(a, w) \/ ReadFails(a, w)
  PROVE  \A b \in Attempts : AttemptInv(b)'
<1>1. TypeOK /\ \A b \in Attempts : AttemptInv(b)
  BY DEF IInv
<1>2. /\ handler[a].pc = "idle" /\ wish \in {None, w} /\ wish' = w
      /\ UNCHANGED <<db, did, expired>>
  BY DEF Accept, Limited, ReadFails, Sent
<1>3. /\ calls[a] = None /\ a \notin did
      /\ db.users[a] = None /\ db.tasks[a] = None /\ db.docs[a] = None
  BY <1>1, <1>2, TypeParts
  DEF Consistent, AttemptInv, EffectIsAnswered, RowsAreWished
<1>4. CASE \E status \in HttpStatuses \ {200, 201} :
             AnswerWith(a, status, None) /\ calls' = calls
  <2>1. PICK status \in HttpStatuses \ {200, 201} :
             AnswerWith(a, status, None) /\ calls' = calls
    BY <1>4
  <2>2. /\ handler'[a].pc = "answered" /\ handler'[a].status = status
        /\ \A b \in Attempts \ {a} : handler'[b] = handler[b]
    BY <1>1, <2>1, AnswerWithType
  <2>3. AttemptInv(a)'
    BY <1>2, <1>3, <2>1, <2>2
    DEF AttemptInv, CallIsWished, EffectIsAnswered, AnswerIsSound, RowsAreWished,
        StatusIsTrue, Running
  <2>4. ASSUME NEW b \in Attempts \ {a} PROVE AttemptInv(b)'
    BY <1>1, <1>2, <2>1, <2>2, Frame
  <2>5. QED
    BY <2>3, <2>4
<1>5. CASE /\ Refusal(w, expired) = 0
           /\ handler' = [handler EXCEPT ![a].pc = "calling"]
           /\ calls' = [calls EXCEPT ![a] = [rpc |-> CallOf(w), answer |-> None]]
  <2>1. Passes(w)
    BY <1>1, <1>5 DEF Passes, TypeOK
  <2>2. [rpc |-> CallOf(w), answer |-> None] \in CallState
    BY <2>1, CallStarts
  <2>3. /\ calls'[a] = [rpc |-> CallOf(w), answer |-> None]
        /\ \A b \in Attempts \ {a} : calls'[b] = calls[b]
    BY <1>1, <1>5, <2>2, CallsType
  <2>4. /\ handler'[a].pc = "calling"
        /\ \A b \in Attempts \ {a} : handler'[b] = handler[b]
    BY <1>1, <1>2, <1>5, CallingType
  <2>5. AttemptInv(a)'
    BY <1>2, <1>3, <2>1, <2>3, <2>4
    DEF AttemptInv, CallIsWished, EffectIsAnswered, AnswerIsSound, RowsAreWished,
        StatusIsTrue, Running, Passes
  <2>6. ASSUME NEW b \in Attempts \ {a} PROVE AttemptInv(b)'
    BY <1>1, <1>2, <2>3, <2>4, Frame
  <2>7. QED
    BY <2>5, <2>6
<1>6. CASE Accept(a, w)
  <2>1. Refusal(w, expired) \in {0, 204, 400, 401, 404, 405, 413}
    BY <1>1, RefusalType DEF TypeOK
  <2>2. CASE Refusal(w, expired) # 0
    <3>1. AnswerWith(a, Refusal(w, expired), None) /\ calls' = calls
      BY <1>6, <2>2 DEF Accept
    <3>2. Refusal(w, expired) \in HttpStatuses \ {200, 201}
      BY <2>1, <2>2 DEF HttpStatuses
    <3>3. QED
      BY <1>4, <3>1, <3>2
  <2>3. CASE Refusal(w, expired) = 0
    BY <1>5, <1>6, <2>3 DEF Accept
  <2>4. QED
    BY <2>2, <2>3
<1>7. CASE Limited(a, w) \/ ReadFails(a, w)
  <2>1. PICK status \in {413, 429, 500} : AnswerWith(a, status, None)
    BY <1>7 DEF Limited, ReadFails
  <2>2. calls' = calls /\ status \in HttpStatuses \ {200, 201}
    BY <1>7 DEF Limited, ReadFails, HttpStatuses
  <2>3. QED
    BY <1>4, <2>1, <2>2
<1>8. QED
  BY <1>6, <1>7

\* The rows of one attempt after a call of another.
LEMMA OthersRows ==
  ASSUME TypeOK, NEW a \in Attempts, NEW b \in Attempts \ {a}, AttemptInv(b),
         Passes(wish), NEW e \in Stores, Rows(CallOf(wish), a, db, e)
  PROVE  /\ e.users[b] = db.users[b]
         /\ e.tasks[b] = db.tasks[b]
         /\ e.docs[b] \in {db.docs[b], None}
<1>1. b \in Objects /\ b # a
  BY AttemptsAreObjects
<1>2. ~(CallOf(wish).method = "UpdateTask" /\ db.tasks[b] # None)
  BY CallOfWish DEF AttemptInv, RowsAreWished
<1>3. QED
  BY <1>1, <1>2 DEF Rows

\* The rows of an attempt after its own call took effect.
LEMMA OwnRows ==
  ASSUME TypeOK, NEW a \in Attempts, AttemptInv(a), a \notin did,
         Passes(wish), CallFits(CallOf(wish)),
         NEW e \in Stores, Rows(CallOf(wish), a, db, e)
  PROVE  /\ e.users[a] # None =>
              wish.route = "register" /\ e.users[a] = NewUser(wish.body)
         /\ e.tasks[a] # None =>
              /\ wish.route = "create"
              /\ e.tasks[a] = [message |-> wish.body.message,
                               status |-> "IN_PROGRESS", reason |-> Empty,
                               worker_id |-> wish.body.worker_id,
                               created_by |-> wish.token]
         /\ e.docs[a] # None =>
              /\ wish.route = "upload"
              /\ e.docs[a] = [owner_id |-> wish.token, task_id |-> wish.body.task_id,
                              filename |-> wish.body.filename,
                              content_type |-> wish.body.content_type,
                              size |-> wish.body.size]
<1> DEFINE c == CallOf(wish)
<1>1. db.users[a] = None /\ db.tasks[a] = None /\ db.docs[a] = None
  BY DEF AttemptInv, RowsAreWished
<1>2. a \in Objects
  BY AttemptsAreObjects
<1>3. c.method = "AddDocument" => FileOf(wish) = wish.body.size
  BY CallOfWish, FittingFilesAreWhole
<1> HIDE DEF c
<1>4. /\ \/ e.users[a] = db.users[a]
         \/ c.method = "Register" /\ e.users[a] = NewUser(c.req)
      /\ \/ e.tasks[a] = db.tasks[a]
         \/ /\ c.method = "CreateTask"
            /\ e.tasks[a] = [message |-> c.req.message, status |-> "IN_PROGRESS",
                             reason |-> Empty, worker_id |-> c.req.worker_id,
                             created_by |-> c.req.created_by]
      /\ \/ e.docs[a] = db.docs[a]
         \/ /\ c.method = "AddDocument"
            /\ e.docs[a] = [owner_id |-> c.req.owner_id,
                            task_id |-> c.req.task_id,
                            filename |-> c.req.filename,
                            content_type |-> c.req.content_type,
                            size |-> c.req.file_content]
         \/ e.docs[a] = None
  BY <1>1, <1>2 DEF Rows, c
<1>5. /\ c.method = "Register" => wish.route = "register" /\ c.req = wish.body
      /\ c.method = "CreateTask" =>
           /\ wish.route = "create"
           /\ c.req.message = wish.body.message
           /\ c.req.worker_id = wish.body.worker_id
           /\ c.req.created_by = wish.token
      /\ c.method = "AddDocument" =>
           /\ wish.route = "upload"
           /\ c.req.owner_id = wish.token
           /\ c.req.task_id = wish.body.task_id
           /\ c.req.filename = wish.body.filename
           /\ c.req.content_type = wish.body.content_type
           /\ c.req.file_content = wish.body.size
  <2>1. c.method = "Register" => wish.route = "register" /\ c.req = wish.body
    BY CallOfWish DEF c
  <2>2. c.method = "CreateTask" =>
          /\ wish.route = "create"
          /\ c.req = [message |-> wish.body.message,
                      worker_id |-> wish.body.worker_id,
                      created_by |-> wish.token]
    BY CallOfWish DEF c
  <2>3. c.method = "AddDocument" =>
          /\ wish.route = "upload"
          /\ c.req = [task_id |-> wish.body.task_id, owner_id |-> wish.token,
                      file_content |-> FileOf(wish),
                      filename |-> wish.body.filename,
                      content_type |-> wish.body.content_type]
    BY CallOfWish DEF c
  <2>4. QED
    BY <1>3, <2>1, <2>2, <2>3
<1>6. QED
  BY <1>1, <1>4, <1>5

LEMMA InvServe ==
  ASSUME IInv, NEW a \in Attempts, Serve(a)
  PROVE  \A b \in Attempts : AttemptInv(b)'
<1> DEFINE c == calls[a].rpc
<1>1. TypeOK /\ \A b \in Attempts : AttemptInv(b)
  BY DEF IInv
<1>2. /\ calls[a] # None /\ calls[a].answer = None
      /\ UNCHANGED <<wish, handler>>
  BY DEF Serve, InFlight
<1>3. calls[a] \in CallState /\ c \in Call
  BY <1>1, <1>2 DEF TypeOK, CallState
<1>4. /\ c = CallOf(wish) /\ Passes(wish) /\ a \notin did
      /\ handler[a].pc \notin {"idle", "answered"}
  BY <1>1, <1>2, TypeParts
  DEF AttemptInv, CallIsWished, EffectIsAnswered, Consistent
<1>5. PICK o \in Received(c, a) :
        /\ db' = o.db
        /\ did' = IF o.done THEN did \cup {a} ELSE did
        /\ calls' = [calls EXCEPT ![a] =
                       IF a \in Running
                       THEN [@ EXCEPT !.answer = [code |-> o.code, msg |-> o.msg]]
                       ELSE None]
  BY DEF Serve
<1> DEFINE r == [code |-> o.code, msg |-> o.msg]
           call == [calls[a] EXCEPT !.answer = r]
<1>6. Sound(o, c, a, db) /\ r \in Reply /\ o.db \in Stores
  BY <1>1, <1>3, <1>5, ReceivedSound DEF Sound, Outcome
<1>7. o.done => CallFits(c)
  BY <1>5 DEF Received, Refuse
<1>8. /\ call \in CallState /\ call.rpc = c /\ call.answer = r /\ call # None
      /\ r # None
  BY <1>3, <1>6, CallAnswered
<1>9. r.code = o.code /\ r.msg = o.msg
  OBVIOUS
<1>10. calls' = [calls EXCEPT ![a] = IF a \in Running THEN call ELSE None]
  BY <1>5
<1> HIDE DEF c, r, call
<1>11. /\ calls'[a] = IF a \in Running THEN call ELSE None
       /\ \A b \in Attempts \ {a} : calls'[b] = calls[b]
  BY <1>1, <1>8, <1>10, CallsType
<1>12. ASSUME NEW b \in Attempts \ {a} PROVE AttemptInv(b)'
  <2>1. CASE o.done
    <3>1. Rows(CallOf(wish), a, db, o.db)
      BY <1>4, <1>6, <2>1 DEF Sound
    <3>2. /\ o.db.users[b] = db.users[b]
          /\ o.db.tasks[b] = db.tasks[b]
          /\ o.db.docs[b] \in {db.docs[b], None}
      BY <1>1, <1>4, <1>6, <3>1, OthersRows
    <3>3. QED
      BY <1>1, <1>2, <1>5, <1>11, <3>2, Frame
  <2>2. CASE ~o.done
    <3>1. db' = db
      BY <1>5, <1>6, <2>2 DEF Sound
    <3>2. QED
      BY <1>1, <1>2, <1>5, <1>11, <2>2, <3>1, Frame
  <2>3. QED
    BY <2>1, <2>2
<1>13. RowsAreWished(a)'
  <2>1. CASE o.done
    <3>1. Rows(CallOf(wish), a, db, o.db) /\ CallFits(CallOf(wish))
      BY <1>4, <1>6, <1>7, <2>1 DEF Sound
    <3>2. a \in did' /\ wish' = wish /\ db' = o.db
      BY <1>2, <1>5, <2>1
    <3>3. QED
      BY <1>1, <1>4, <1>6, <3>1, <3>2, OwnRows DEF RowsAreWished
  <2>2. CASE ~o.done
    <3>1. db' = db /\ did' = did /\ wish' = wish
      BY <1>2, <1>5, <1>6, <2>2 DEF Sound
    <3>2. QED
      BY <1>1, <3>1 DEF AttemptInv, RowsAreWished
  <2>3. QED
    BY <2>1, <2>2
<1>14. a \in did' <=> o.done
  BY <1>4, <1>5
<1>15. c.method \in Changes <=> wish.route \in Changing
  BY <1>4, CallOfWish
<1>16. /\ o.done => o.code \in {"OK", "Internal"} /\ wish.route \in Changing
       /\ o.code = "OK" =>
            /\ wish.route \in Changing => o.done
            /\ c.method \in Creates => o.msg.id = a
  BY <1>6, <1>15 DEF Sound
<1>17. CallIsWished(a)' /\ EffectIsAnswered(a)' /\ StatusIsTrue(a)'
  BY <1>2, <1>4, <1>8, <1>11, <1>14, <1>16
  DEF CallIsWished, EffectIsAnswered, StatusIsTrue, Passes
<1>18. AnswerIsSound(a)'
  BY <1>2, <1>8, <1>9, <1>11, <1>14, <1>16 DEF AnswerIsSound, Running
<1>19. QED
  BY <1>1, <1>2, <1>12, <1>13, <1>17, <1>18 DEF AttemptInv

\* What the gateway makes of a sound answer.
LEMMA AnswerIsTrue ==
  ASSUME TypeOK, NEW a \in Attempts, AttemptInv(a), a \in Running,
         calls[a].answer # None,
         NEW s \in Answers(calls[a].rpc, calls[a].answer)
  PROVE  /\ s.status \in 400 .. 499 => a \notin did
         /\ s.status \in {200, 201} =>
              /\ wish.route \in Changing => a \in did
              /\ s.status = 201 => s.msg.id = a
<1> DEFINE c == calls[a].rpc
           r == calls[a].answer
<1>1. calls[a] # None
  BY TypeParts DEF Consistent, Running
<1>2. c = CallOf(wish) /\ Passes(wish)
  BY <1>1 DEF AttemptInv, CallIsWished
<1>3. a \in did => wish.route \in Changing
  BY DEF AttemptInv, EffectIsAnswered
<1>4. /\ a \in did => r.code \in {"OK", "Internal", "Unavailable"}
      /\ r.code = "OK" =>
           /\ wish.route \in Changing => a \in did
           /\ c.method \in Creates => r.msg.id = a
  BY DEF AttemptInv, AnswerIsSound
<1>5. PICK fits : /\ s = Answer(c, r, fits)
                  /\ r.code = "OK" => fits \in ReplyFits(c, r.msg)
  BY DEF Answers
<1> HIDE DEF c, r
<1>6. CASE r.code # "OK"
  <2>1. s.status = StatusOf(r.code)
    BY <1>5, <1>6 DEF Answer
  <2>2. StatusOf(r.code) \in {400, 401, 404, 429, 502}
    BY StatusOfType
  <2>3. r.code \in {"Internal", "Unavailable"} => StatusOf(r.code) = 502
    BY DEF StatusOf
  <2>4. QED
    BY <1>4, <1>6, <2>1, <2>2, <2>3 DEF c, r
<1>7. CASE r.code = "OK" /\ wish.route \notin Changing
  <2>1. a \notin did /\ c.method \notin Creates
    BY <1>2, <1>3, <1>7, CallOfWish DEF Changes
  <2>2. s.status # 201
    BY <1>5, <1>7, <2>1, StatusOfType DEF Answer, Creates
  <2>3. QED
    BY <1>7, <2>1, <2>2 DEF c, r
<1>8. CASE r.code = "OK" /\ wish.route \in Changing
  <2>1. c.method \in Changes
    BY <1>2, <1>8, CallOfWish
  <2>2. fits = TRUE
    BY <1>5, <1>8, <2>1 DEF ReplyFits, Changes, Creates
  <2>3. s = [status |-> IF c.method \in Creates THEN 201 ELSE 200, msg |-> r.msg]
    BY <1>5, <1>8, <2>1, <2>2 DEF Answer, Changes, Creates
  <2>4. QED
    BY <1>4, <1>8, <2>3 DEF c, r
<1>9. QED
  BY <1>6, <1>7, <1>8

LEMMA InvReturn ==
  ASSUME IInv, NEW a \in Attempts, Return(a)
  PROVE  \A b \in Attempts : AttemptInv(b)'
<1>1. TypeOK /\ \A b \in Attempts : AttemptInv(b)
  BY DEF IInv
<1>2. /\ calls' = [calls EXCEPT ![a] = None]
      /\ UNCHANGED <<wish, db, did>>
      /\ a \in Running /\ calls[a].answer # None
  BY DEF Return
<1>3. calls[a] \in CallState
  BY <1>1, <1>2, TypeParts DEF TypeOK, Consistent, Running
<1>4. /\ calls'[a] = None
      /\ \A b \in Attempts \ {a} : calls'[b] = calls[b]
  BY <1>1, <1>2, CallsType
<1>5. /\ handler'[a].pc \in {"answered", "unanswered"}
      /\ \A b \in Attempts \ {a} : handler'[b] = handler[b]
      /\ StatusIsTrue(a)'
  <2>1. CASE \E s \in Answers(calls[a].rpc, calls[a].answer) :
               AnswerWith(a, s.status, s.msg)
    <3>1. PICK s \in Answers(calls[a].rpc, calls[a].answer) :
                 AnswerWith(a, s.status, s.msg)
      BY <2>1
    <3>2. s.status \in HttpStatuses /\ s.msg \in Response \cup {None}
      BY <1>2, <1>3, AnswerType DEF CallState
    <3>3. /\ s.status \in 400 .. 499 => a \notin did
          /\ s.status \in {200, 201} =>
               /\ wish.route \in Changing => a \in did
               /\ s.status = 201 => s.msg.id = a
      BY <1>1, <1>2, AnswerIsTrue
    <3>4. /\ handler'[a].pc = "answered" /\ handler'[a].status = s.status
          /\ handler'[a].msg = s.msg
          /\ \A b \in Attempts \ {a} : handler'[b] = handler[b]
      BY <1>1, <3>1, <3>2, AnswerWithType
    <3>5. QED
      BY <1>2, <3>3, <3>4 DEF StatusIsTrue
  <2>2. CASE handler' = [handler EXCEPT ![a] = Unanswered]
    BY <1>1, <2>2, LetGoType DEF StatusIsTrue
  <2>3. QED
    BY <2>1, <2>2 DEF Return
<1>6. /\ CallIsWished(a)' /\ EffectIsAnswered(a)' /\ AnswerIsSound(a)'
      /\ RowsAreWished(a)'
  BY <1>1, <1>2, <1>4, <1>5
  DEF AttemptInv, CallIsWished, EffectIsAnswered, AnswerIsSound, RowsAreWished,
      Running
<1>7. AttemptInv(a)'
  BY <1>1, <1>2, <1>5, <1>6 DEF AttemptInv, Running
<1>8. ASSUME NEW b \in Attempts \ {a} PROVE AttemptInv(b)'
  BY <1>1, <1>2, <1>4, <1>5, Frame
<1>9. QED
  BY <1>7, <1>8

\* An attempt whose handler or call is given up, or whose call fails, keeps what
\* it has done.
LEMMA InvGivenUp ==
  ASSUME TypeOK, NEW b \in Attempts, AttemptInv(b),
         UNCHANGED <<wish, db, did>>,
         \/ handler'[b] = handler[b]
         \/ b \in Running /\ handler'[b].pc = "unanswered",
         \/ calls'[b] = calls[b]
         \/ calls'[b] = None /\ b \notin Running /\ handler'[b] = handler[b]
         \/ /\ calls[b] # None
            /\ calls'[b].rpc = calls[b].rpc
            /\ calls'[b].answer = [code |-> "Unavailable", msg |-> None]
            /\ calls'[b].answer # None
  PROVE  AttemptInv(b)'
<1>1. CallIsWished(b)' /\ EffectIsAnswered(b)' /\ RowsAreWished(b)' /\ StatusIsTrue(b)'
  BY DEF AttemptInv, CallIsWished, EffectIsAnswered, RowsAreWished, StatusIsTrue,
         Running
<1>2. AnswerIsSound(b)'
  BY DEF AttemptInv, AnswerIsSound, Running
<1>3. handler'[b].pc # "idle" => wish' \in Wishes
  BY DEF AttemptInv, Running
<1>4. QED
  BY <1>1, <1>2, <1>3 DEF AttemptInv

LEMMA InvRequest ==
  ASSUME IInv, NEW a \in Attempts, Request(a)
  PROVE  \A b \in Attempts : AttemptInv(b)'
<1>1. TypeOK /\ \A b \in Attempts : AttemptInv(b)
  BY DEF IInv
<1>2. CASE Drop(a)
  <2>1. /\ calls' = [calls EXCEPT ![a] = None] /\ a \notin Running
        /\ UNCHANGED <<wish, handler, db, did>>
    BY <1>2 DEF Drop
  <2>2. calls'[a] = None /\ \A b \in Attempts \ {a} : calls'[b] = calls[b]
    BY <1>1, <2>1, CallsType
  <2>3. ASSUME NEW b \in Attempts PROVE AttemptInv(b)'
    BY <1>1, <2>1, <2>2, InvGivenUp
  <2>4. QED
    BY <2>3
<1>3. CASE CallFails(a)
  <2> DEFINE r == [code |-> "Unavailable", msg |-> None]
             call == [calls[a] EXCEPT !.answer = r]
  <2>1. calls[a] # None /\ UNCHANGED <<wish, handler, db, did>>
        /\ calls' = [calls EXCEPT ![a] = call]
    BY <1>3 DEF CallFails, Failed, InFlight
  <2>2. r \in Reply /\ calls[a] \in CallState
    BY <1>1, <2>1 DEF Reply, Codes, TypeOK
  <2>3. call \in CallState /\ call.rpc = calls[a].rpc /\ call.answer = r /\ r # None
    BY <2>2, CallAnswered
  <2> HIDE DEF call
  <2>4. /\ calls'[a] = call
        /\ \A b \in Attempts \ {a} : calls'[b] = calls[b]
    BY <1>1, <2>1, <2>3, CallsType
  <2>5. ASSUME NEW b \in Attempts PROVE AttemptInv(b)'
    BY <1>1, <2>1, <2>3, <2>4, InvGivenUp
  <2>6. QED
    BY <2>5
<1>4. CASE Leave(a)
  <2>1. /\ handler' = [handler EXCEPT ![a] = Unanswered] /\ a \in Running
        /\ UNCHANGED <<wish, calls, db, did>>
    BY <1>4 DEF Leave
  <2>2. /\ handler'[a].pc = "unanswered"
        /\ \A b \in Attempts \ {a} : handler'[b] = handler[b]
    BY <1>1, <2>1, LetGoType
  <2>3. ASSUME NEW b \in Attempts PROVE AttemptInv(b)'
    BY <1>1, <2>1, <2>2, InvGivenUp
  <2>4. QED
    BY <2>3
<1>5. QED
  BY <1>2, <1>3, <1>4, InvSent, InvServe, InvReturn DEF Request

LEMMA InvEnd ==
  ASSUME IInv, NEW how, End(how)
  PROVE  \A b \in Attempts : AttemptInv(b)'
<1>1. TypeOK /\ \A b \in Attempts : AttemptInv(b)
  BY DEF IInv
<1>2. UNCHANGED <<wish, calls, db, did>>
  BY DEF End
<1>3. ASSUME NEW b \in Attempts PROVE AttemptInv(b)'
  <2>1. \/ handler'[b] = handler[b]
        \/ b \in Running /\ handler'[b].pc = "unanswered"
    BY <1>1, EndHandlers
  <2>2. QED
    BY <1>1, <1>2, <2>1, InvGivenUp
<1>4. QED
  BY <1>3

LEMMA InvUnchanged ==
  ASSUME IInv, UNCHANGED <<wish, handler, calls, db, did>>
  PROVE  \A b \in Attempts : AttemptInv(b)'
<1>1. ASSUME NEW b \in Attempts PROVE AttemptInv(b)'
  BY InvGivenUp DEF IInv
<1>2. QED
  BY <1>1

LEMMA InvStep == IInv /\ [Next]_vars => IInv'
<1> SUFFICES ASSUME IInv, [Next]_vars PROVE IInv'
  OBVIOUS
<1>1. TypeOK /\ TypeOK'
  BY TypeStep DEF IInv
<1>2. CASE \E s \in Services : Outage(s)
  <2>1. PICK s \in Services : Outage(s)
    BY <1>2
  <2>2. UNCHANGED <<wish, handler, db, did>>
    BY <2>1 DEF Outage
  <2>3. ASSUME NEW b \in Attempts PROVE AttemptInv(b)'
    BY <1>1, <2>1, <2>2, OutageCalls, InvGivenUp DEF IInv
  <2>4. QED
    BY <1>1, <2>3 DEF IInv
<1>3. CASE \E s \in Services : Hang(s) \/ Recover(s)
  BY <1>1, <1>3, InvUnchanged DEF IInv, Hang, Recover, requestVars
<1>4. CASE Expire
  BY <1>1, <1>4, InvUnchanged DEF IInv, Expire
<1>5. CASE Life
  <2>1. CASE UNCHANGED <<wish, handler, calls, db, did>>
    BY <1>1, <2>1, InvUnchanged DEF IInv
  <2>2. CASE \E how \in Ended : End(how)
    BY <1>1, <2>2, InvEnd DEF IInv
  <2>3. (\E how \in Ended : End(how)) \/ UNCHANGED <<wish, handler, calls, db, did>>
    BY <1>5 DEF Life, Dial, DialAgain, DialFails, Signal, Drained, GraceOver, Crash,
                Restart, StartAgain, requestVars, Ended
  <2>4. QED
    BY <2>1, <2>2, <2>3
<1>6. CASE UNCHANGED vars
  BY <1>1, <1>6, InvUnchanged DEF IInv, vars
<1>7. QED
  BY <1>1, <1>2, <1>3, <1>4, <1>5, <1>6, InvRequest DEF Next, Service, IInv

LEMMA Invariant == Spec => []IInv
<1>1. QED
  BY InvInit, InvStep, PTL DEF Spec
-----------------------------------------------------------------------------
\* A status from 400 to 499 is only given for a call that had no effect: none of
\* the codes it stands for is a service's answer after an effect.
THEOREM RefusalsChangeNothingHolds == Spec => []RefusalsChangeNothing
<1>1. IInv => RefusalsChangeNothing
  BY DEF IInv, AttemptInv, StatusIsTrue, RowsAreWished, RefusalsChangeNothing,
         Answered
<1>2. QED
  BY <1>1, Invariant, PTL

\* A success is one, and its id is what this attempt made.
THEOREM SuccessIsDoneHolds == Spec => []SuccessIsDone
<1>1. IInv => SuccessIsDone
  BY DEF IInv, AttemptInv, StatusIsTrue, SuccessIsDone, Answered
<1>2. QED
  BY <1>1, Invariant, PTL

\* What is stored is what was sent, because gRPC's limit on a call is below the
\* size from which the gateway's reader cuts files (LimitsAssumption).
THEOREM StoredAsSentHolds == Spec => []StoredAsSent
<1>1. IInv => StoredAsSent
  BY DEF IInv, AttemptInv, RowsAreWished, StoredAsSent
<1>2. QED
  BY <1>1, Invariant, PTL
-----------------------------------------------------------------------------
(* Rows change only as a request asks.                                     *)

\* Only a service that handles a call writes to the stores.
LEMMA WrittenByServe ==
  ASSUME [Next]_vars, db' # db
  PROVE  \E a \in Attempts : Serve(a)
<1>1. CASE \E a \in Attempts : Request(a)
  BY <1>1 DEF Request, Accept, Limited, ReadFails, Drop, CallFails, Return, Leave
<1>2. CASE \E s \in Services : Service(s)
  BY <1>2 DEF Service, Outage, Hang, Recover, requestVars
<1>3. CASE Life
  BY <1>3 DEF Life, Dial, DialAgain, DialFails, Signal, Drained, GraceOver, Crash,
              Restart, StartAgain, End, requestVars
<1>4. CASE Expire \/ UNCHANGED vars
  BY <1>4 DEF Expire, vars
<1>5. QED
  BY <1>1, <1>2, <1>3, <1>4 DEF Next

\* The document service does nothing for a token that is not valid any more.
LEMMA DocumentsNeedTokens ==
  ASSUME NEW c, c.method \in DocumentMethods, NEW a, NEW d, NEW late,
         NEW o \in Outcomes(c, a, d, late), o.done
  PROVE  Authorized(c, late)
<1>1. ServiceOf(c) = "document"
  BY DEF ServiceOf, AuthMethods, TaskMethods, DocumentMethods
<1>2. o \in DocumentOutcomes(c, a, d, late)
  BY <1>1 DEF Outcomes
<1>3. QED
  BY <1>2 DEF DocumentOutcomes, Refuse

LEMMA AsAskedStep == IInv /\ [Next]_vars => AsAsked
<1> SUFFICES ASSUME IInv, [Next]_vars, db' # db, NEW b \in Objects
             PROVE  AsAsked!(b)
  BY DEF AsAsked
<1>1. PICK a \in Attempts : Serve(a)
  BY WrittenByServe
<1> DEFINE c == calls[a].rpc
<1>2. TypeOK /\ AttemptInv(a) /\ expired \in BOOLEAN /\ a \in Objects
  BY AttemptsAreObjects DEF IInv, TypeOK
<1>3. calls[a] # None /\ calls[a].answer = None
  BY <1>1 DEF Serve, InFlight
<1>4. /\ c = CallOf(wish) /\ Passes(wish) /\ a \notin did
      /\ calls[a] \in CallState /\ c \in Call
  BY <1>2, <1>3 DEF AttemptInv, CallIsWished, EffectIsAnswered, TypeOK, CallState
<1>5. db.users[a] = None /\ db.tasks[a] = None /\ db.docs[a] = None
  BY <1>2, <1>4 DEF AttemptInv, RowsAreWished
<1>6. PICK o \in Received(c, a) : db' = o.db
  BY <1>1 DEF Serve
<1>7. Sound(o, c, a, db)
  BY <1>2, <1>4, <1>6, ReceivedSound
<1>8. o.done /\ Rows(c, a, db, db')
  BY <1>6, <1>7 DEF Sound
<1>9. o \in Outcomes(c, a, db, expired)
  BY <1>8 DEF Received, Refuse
<1>10. c.method \in {"CreateTask", "UpdateTask", "AddDocument", "DeleteDocument"}
       => wish.token \in Users
  BY <1>4, CallOfWish, PassesRoute DEF OpenRoutes
<1>11. c.method \in {"AddDocument", "DeleteDocument"} => ~expired
  BY <1>8, <1>9, DocumentsNeedTokens DEF Authorized, DocumentMethods
<1>12. /\ c.method = "Register" => wish.route = "register"
       /\ c.method = "CreateTask" => wish.route = "create"
       /\ c.method = "UpdateTask" => wish.route = "update" /\ c.req = wish.body
       /\ c.method = "AddDocument" => wish.route = "upload"
       /\ c.method = "DeleteDocument" =>
            /\ wish.route = "delete"
            /\ c.req.id = wish.body.id
            /\ c.token = wish.token
  <2>1. Passes(wish) /\ c = CallOf(wish)
    BY <1>4
  <2> HIDE DEF c
  <2>2. c.method = "DeleteDocument" =>
          /\ wish.route = "delete"
          /\ c.req = [id |-> wish.body.id, owner_id |-> wish.token]
          /\ c.token = wish.token
    BY <2>1, CallOfWish
  <2>3. /\ c.method = "Register" => wish.route = "register"
        /\ c.method = "CreateTask" => wish.route = "create"
        /\ c.method = "UpdateTask" => wish.route = "update" /\ c.req = wish.body
        /\ c.method = "AddDocument" => wish.route = "upload"
    BY <2>1, CallOfWish
  <2>4. QED
    BY <2>2, <2>3
<1> HIDE DEF c
<1>13. db'.users[b] # db.users[b] => db.users[b] = None /\ wish.route = "register"
  BY <1>5, <1>8, <1>12 DEF Rows
<1>14. db'.tasks[b] # db.tasks[b] =>
         /\ wish.token \in Users
         /\ \/ db.tasks[b] = None /\ wish.route = "create"
            \/ /\ wish.route = "update"
               /\ wish.body.id = b
               /\ db.tasks[b] # None
               /\ db'.tasks[b] = Updated(db.tasks[b], wish.body)
  BY <1>5, <1>8, <1>10, <1>12 DEF Rows
<1>15. db'.docs[b] # db.docs[b] =>
         /\ ValidToken(wish, expired)
         /\ \/ db.docs[b] = None /\ wish.route = "upload"
            \/ /\ wish.route = "delete"
               /\ wish.body.id = b
               /\ db.docs[b] # None
               /\ MayActFor(wish.token, db.docs[b].owner_id)
               /\ db'.docs[b] = None
  BY <1>5, <1>8, <1>10, <1>11, <1>12 DEF Rows, ValidToken
<1>16. QED
  BY <1>13, <1>14, <1>15

\* Whatever overlaps, fails or is repeated on the way, rows change only as the
\* client asked and, for documents, only for those who may (the authorizer's
\* checks in the document service's grpc_handler.go).
THEOREM RowsChangeAsAskedHolds == Spec => RowsChangeAsAsked
<1>1. QED
  BY Invariant, AsAskedStep, PTL DEF Spec, RowsChangeAsAsked
-----------------------------------------------------------------------------
(* No handler is left waiting for nothing.                                 *)

LEMMA PerformAnswers ==
  ASSUME NEW msg, NEW d, NEW e
  PROVE  Perform(msg, d, e) # {} /\ Look(msg, d) # {}
         /\ \A code : Refuse(code, d) # {}
BY DEF Perform, Look, Refuse

LEMMA AuthAnswers ==
  ASSUME NEW c \in AuthServer, NEW a, NEW d, NEW late
  PROVE  AuthOutcomes(c, a, d, late) # {}
<1>1. c.method \in {"Register", "Login", "ValidateToken"}
  BY DEF AuthServer
<1>2. Register(c.req, a, d) # {}
  BY PerformAnswers DEF Register
<1>3. Login(c.req, d) # {}
  <2>1. \/ Login(c.req, d) = Refuse("InvalidArgument", d)
        \/ Refuse("ResourceExhausted", d) \subseteq Login(c.req, d)
    BY DEF Login
  <2>2. QED
    BY <2>1, PerformAnswers
<1>4. ValidateToken(c.req, d, late) # {}
  <2>1. (c.req.token \in Users /\ ~late) \in {c.req.token \in Users /\ ~late}
           \cup {w \in {FALSE} : StoreFails}
    OBVIOUS
  <2>2. QED
    BY <2>1 DEF ValidateToken
<1>5. QED
  BY <1>1, <1>2, <1>3, <1>4 DEF AuthOutcomes

LEMMA TaskAnswers ==
  ASSUME NEW c \in TaskServer, NEW a, NEW d
  PROVE  TaskOutcomes(c, a, d) # {}
<1>1. c.method \in {"CreateTask", "UpdateTask", "TaskList"}
  BY DEF TaskServer
<1>2. /\ CreateTask(c.req, a, d) # {} /\ UpdateTask(c.req, d) # {}
      /\ TaskList(c.req, d) # {}
  BY PerformAnswers DEF CreateTask, UpdateTask, TaskList, ListTasks
<1>3. QED
  BY <1>1, <1>2 DEF TaskOutcomes

LEMMA DocumentAnswers ==
  ASSUME NEW c \in DocumentServer, NEW a, NEW d, NEW late
  PROVE  DocumentOutcomes(c, a, d, late) # {}
<1>1. c.method \in DocumentMethods
  BY DEF DocumentServer, DocumentMethods
<1>2. /\ AddDocument(c, a, d) # {} /\ DeleteDocument(c, d) # {}
      /\ GetDocument(c, d) # {} /\ GetDocumentsByTask(c, d) # {}
      /\ GetDocumentsByOwner(c, d) # {}
  BY PerformAnswers
  DEF AddDocument, DeleteDocument, GetDocument, GetDocumentsByTask,
      GetDocumentsByOwner
<1>3. QED
  BY <1>1, <1>2, PerformAnswers DEF DocumentOutcomes, DocumentMethods

\* A service that receives a call has an answer to it, whatever the call says
\* and the stores hold.
LEMMA CallsAreAnswered ==
  ASSUME NEW c \in Call, NEW a, NEW d, NEW late
  PROVE  Outcomes(c, a, d, late) # {}
<1>1. CASE c \in AuthServer
  <2>1. ServiceOf(c) = "auth"
    BY <1>1 DEF AuthServer, ServiceOf, AuthMethods
  <2>2. QED
    BY <1>1, <2>1, AuthAnswers DEF Outcomes
<1>2. CASE c \in TaskServer
  <2>1. ServiceOf(c) = "task"
    BY <1>2 DEF TaskServer, ServiceOf, AuthMethods, TaskMethods
  <2>2. QED
    BY <1>2, <2>1, TaskAnswers DEF Outcomes
<1>3. CASE c \in DocumentServer
  <2>1. ServiceOf(c) = "document"
    BY <1>3 DEF DocumentServer, ServiceOf, AuthMethods, TaskMethods
  <2>2. QED
    BY <1>3, <2>1, DocumentAnswers DEF Outcomes
<1>4. QED
  BY <1>1, <1>2, <1>3 DEF Call

\* A handler that waits has its answer already, waits for a service that is gone
\* (its call fails), stands still, or has an answer to give.
WaitsForSomething ==
  \A a \in Running :
    /\ calls[a] # None
    /\ \/ calls[a].answer # None
       \/ up[ServiceOf(calls[a].rpc)] \in {"down", "hung"}
       \/ /\ up[ServiceOf(calls[a].rpc)] = "up"
          /\ Received(calls[a].rpc, a) # {}

\* The safety half of EveryRequestEnds: no request and no state of the stores
\* leaves a handler with a call no step can end, but for a service that hangs.
THEOREM NoHandlerIsStranded == Spec => []WaitsForSomething
<1>1. ASSUME TypeOK, NEW a \in Running
      PROVE  /\ calls[a] # None
             /\ \/ calls[a].answer # None
                \/ up[ServiceOf(calls[a].rpc)] \in {"down", "hung"}
                \/ /\ up[ServiceOf(calls[a].rpc)] = "up"
                   /\ Received(calls[a].rpc, a) # {}
  <2> DEFINE c == calls[a].rpc
  <2>1. a \in Attempts /\ calls[a] # None
    BY <1>1, TypeParts DEF Running, Consistent
  <2>2. c \in Call
    BY <1>1, <2>1 DEF TypeOK, CallState
  <2>3. ServiceOf(c) \in Services
    BY DEF ServiceOf, Services
  <2>4. up[ServiceOf(c)] \in {"up", "down", "hung"}
    BY <1>1, <2>3 DEF TypeOK
  <2>5. Received(c, a) # {}
    BY <2>2, CallsAreAnswered, PerformAnswers DEF Received
  <2>6. QED
    BY <2>1, <2>4, <2>5
<1>2. TypeOK => WaitsForSomething
  BY <1>1 DEF WaitsForSomething
<1>3. QED
  BY <1>2, TypeCorrect, PTL
=============================================================================
