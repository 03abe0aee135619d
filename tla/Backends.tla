------------------------------ MODULE Backends ------------------------------
(***************************************************************************)
(* The three services as their gRPC handlers (the grpc_handler.go of auth, *)
(* task and document): what a call may answer and leave in the stores,     *)
(* from its message, the stores and the token it brings.  The steps inside *)
(* a handler, and what they leave behind when they fail half way, are the  *)
(* business of TaskService, DocumentService and LoginGuard; here a call    *)
(* takes effect at once, or not, and a failing store may hide which.       *)
(***************************************************************************)
EXTENDS Api

CONSTANTS
  Admins,    \* users whose token has the role admin
  MaxFile,   \* the document service's MAX_FILE_SIZE
  Faults,    \* which of FaultKinds the environment may inject
  None       \* no row, no message

FaultKinds == {"store_error",  \* a store refuses or times out, or seems to
               "outage", "hang",  \* of a service
               "expiry",       \* of the users' tokens
               "disk",         \* of the gateway, for uploaded files
               "leave",        \* a client hangs up
               "late",         \* an answer misses the write timeout
               "limiter",      \* the rate limiter refuses
               "shutdown", "crash"}  \* of the gateway

ASSUME BackendsAssumption ==
  /\ Admins \subseteq Users
  /\ MaxFile \in Nat
  /\ Faults \subseteq FaultKinds

UserRow == [email : Emails, password : Passwords, role : Roles,
            manager_id : Ids]
TaskRow == [message : Texts, status : Statuses, reason : Texts,
            worker_id : Ids, created_by : Ids]
DocRow == [owner_id : Ids, task_id : Ids, filename : Texts,
           content_type : Texts, size : Sizes]

Stores == [users : [Objects -> UserRow \cup {None}],
           tasks : [Objects -> TaskRow \cup {None}],
           docs : [Objects -> DocRow \cup {None}]]

ASSUME NoRowAssumption == None \notin UserRow \cup TaskRow \cup DocRow

\* How a handler may end: its code and message, the stores it leaves and
\* whether the call took effect.
Outcome == [code : Codes, msg : Response \cup {None}, db : Stores,
            done : BOOLEAN]

Refuse(code, db) ==
  {[code |-> code, msg |-> None, db |-> db, done |-> FALSE]}

StoreFails == "store_error" \in Faults

\* A call that reads the stores, and one that changes them to db2.
Look(msg, db) ==
  {[code |-> "OK", msg |-> msg, db |-> db, done |-> FALSE]}
  \cup {o \in Refuse("Internal", db) : StoreFails}

Perform(msg, db, db2) ==
  {[code |-> "OK", msg |-> msg, db |-> db2, done |-> TRUE]}
  \cup {o \in Refuse("Internal", db) : StoreFails}
  \cup {o \in {[code |-> "Internal", msg |-> None, db |-> db2,
                done |-> TRUE]} : StoreFails}
-----------------------------------------------------------------------------
(* auth *)

InvalidRegister(m) ==
  \/ m.email = Empty \/ m.password = Empty
  \/ m.role = "other"
  \/ m.manager_id = Junk
  \/ m.manager_id # Empty /\ m.role = "admin"

NewUser(m) == [m EXCEPT !.role = IF m.role = Empty THEN "employee" ELSE m.role]

Register(m, a, db) ==
  LET row == NewUser(m) IN
  IF InvalidRegister(m) THEN Refuse("InvalidArgument", db)
  ELSE IF \E o \in Objects : db.users[o] # None /\ db.users[o].email = m.email
  THEN Refuse("Internal", db)
  ELSE Perform([id |-> a, email |-> row.email, role |-> row.role],
               db, [db EXCEPT !.users[a] = row])

\* The user with this e-mail, if the password is his.
Matching(m, db) ==
  {o \in Objects : /\ db.users[o] # None
                   /\ db.users[o].email = m.email
                   /\ db.users[o].password = m.password}

\* The counter of failed logins (LoginGuard) may refuse, and whatever keeps the
\* user from being read is bad credentials.
Login(m, db) ==
  IF m.email = Empty \/ m.password = Empty THEN Refuse("InvalidArgument", db)
  ELSE Refuse("ResourceExhausted", db)
       \cup {o \in Refuse("Unauthenticated", db) : Matching(m, db) = {} \/ StoreFails}
       \cup {[code |-> "OK", db |-> db, done |-> FALSE,
              msg |-> [access_token |-> o, user_id |-> o,
                       role |-> db.users[o].role]] : o \in Matching(m, db)}

\* Every answer is an answer: a token that is not valid is no error.
ValidateToken(m, db, expired) ==
  {[code |-> "OK", db |-> db, done |-> FALSE,
    msg |-> [valid |-> v, user_id |-> IF v THEN m.token ELSE Empty]] :
     v \in {m.token \in Users /\ ~expired}
           \cup {w \in {FALSE} : StoreFails}}

AuthOutcomes(c, a, db, expired) ==
  CASE c.method = "Register" -> Register(c.req, a, db)
    [] c.method = "Login" -> Login(c.req, db)
    [] c.method = "ValidateToken" -> ValidateToken(c.req, db, expired)
-----------------------------------------------------------------------------
(* task *)

CreateTask(m, a, db) ==
  LET row == [message |-> m.message, status |-> "IN_PROGRESS", reason |-> Empty,
              worker_id |-> m.worker_id, created_by |-> m.created_by] IN
  IF m.message = Empty \/ m.worker_id \notin Known \/ m.created_by \notin Known
  THEN Refuse("InvalidArgument", db)
  ELSE Perform([id |-> a, message |-> row.message, status |-> row.status,
                worker_id |-> row.worker_id, created_by |-> row.created_by],
               db, [db EXCEPT !.tasks[a] = row])

\* A status brings its reason with it or clears the old one; a reason alone is
\* taken by a task that needs help.
Updated(row, m) ==
  [row EXCEPT
     !.message = IF m.message # Empty THEN m.message ELSE row.message,
     !.status = IF m.status # Empty THEN m.status ELSE row.status,
     !.reason = IF m.status = "NEEDS_HELP" THEN m.reason
                ELSE IF m.status # Empty THEN Empty
                ELSE IF m.reason # Empty /\ row.status = "NEEDS_HELP" THEN m.reason
                ELSE row.reason]

\* Mutant of UpdateTask: the row is not read first, and an UPDATE that meets no
\* row is no error.
UpdateUnread(m, db) ==
  IF m.id \in Objects /\ db.tasks[m.id] = None
  THEN Look([id |-> m.id, message |-> m.message, status |-> m.status,
             worker_id |-> Empty, reason |-> m.reason], db)
  ELSE Refuse("Internal", db)

\* A task that is not there and a status that is none are Internal, too.
UpdateTask(m, db) ==
  LET row == Updated(db.tasks[m.id], m) IN
  IF m.id \notin Known THEN Refuse("InvalidArgument", db)
  ELSE IF \/ m.id \notin Objects
          \/ db.tasks[m.id] = None
          \/ m.status = "other"
          \/ m.status = "NEEDS_HELP" /\ m.reason = Empty
  THEN Refuse("Internal", db)
  ELSE Perform([id |-> m.id, message |-> row.message, status |-> row.status,
                worker_id |-> row.worker_id, reason |-> row.reason],
               db, [db EXCEPT !.tasks[m.id] = row])

Listed(m, row) ==
  /\ row # None
  /\ m.worker_id = Empty \/ row.worker_id = m.worker_id
  /\ m.created_by = Empty \/ row.created_by = m.created_by
  /\ m.status = Empty \/ row.status = m.status

\* A status that is none, and a store that fails, are Internal.
ListTasks(m, db) ==
  IF m.status = "other" THEN Refuse("Internal", db)
  ELSE Look([tasks |-> {t \in Objects : Listed(m, db.tasks[t])}], db)

TaskList(m, db) ==
  IF Junk \in {m.worker_id, m.created_by} THEN Refuse("InvalidArgument", db)
  ELSE ListTasks(m, db)

TaskOutcomes(c, a, db) ==
  CASE c.method = "CreateTask" -> CreateTask(c.req, a, db)
    [] c.method = "UpdateTask" -> UpdateTask(c.req, db)
    [] c.method = "TaskList" -> TaskList(c.req, db)
-----------------------------------------------------------------------------
(* document *)

MayActFor(u, owner) == u \in Admins \/ u = owner

InvalidDocument(m) ==
  \/ m.filename = Empty \/ m.content_type = Empty
  \/ m.file_content = 0 \/ m.file_content > MaxFile
  \/ m.task_id \notin Known \/ m.owner_id \notin Known

AddDocument(c, a, db) ==
  LET m == c.req
      row == [owner_id |-> m.owner_id, task_id |-> m.task_id,
              filename |-> m.filename, content_type |-> m.content_type,
              size |-> m.file_content] IN
  IF ~MayActFor(c.token, m.owner_id) THEN Refuse("PermissionDenied", db)
  ELSE IF InvalidDocument(m) THEN Refuse("InvalidArgument", db)
  ELSE Perform([id |-> a, filename |-> row.filename,
                content_type |-> row.content_type, size |-> row.size,
                task_id |-> row.task_id, owner_id |-> row.owner_id],
               db, [db EXCEPT !.docs[a] = row])

\* A document that is not there is Internal, not NotFound.
DocumentRefusal(c, db) ==
  IF c.req.id \notin Objects THEN "InvalidArgument"
  ELSE IF db.docs[c.req.id] = None THEN "Internal"
  ELSE IF ~MayActFor(c.token, db.docs[c.req.id].owner_id)
  THEN "PermissionDenied"
  ELSE "OK"

DeleteDocument(c, db) ==
  IF DocumentRefusal(c, db) # "OK" THEN Refuse(DocumentRefusal(c, db), db)
  ELSE Perform([success |-> TRUE], db, [db EXCEPT !.docs[c.req.id] = None])

GetDocument(c, db) ==
  LET row == db.docs[c.req.id] IN
  IF DocumentRefusal(c, db) # "OK" THEN Refuse(DocumentRefusal(c, db), db)
  ELSE Look([id |-> c.req.id, filename |-> row.filename,
             content_type |-> row.content_type, file_content |-> row.size,
             task_id |-> row.task_id, owner_id |-> row.owner_id], db)

FindByTask(task, db) ==
  {d \in Objects : db.docs[d] # None /\ db.docs[d].task_id = task}

FindByOwner(owner, db) ==
  {d \in Objects : db.docs[d] # None /\ db.docs[d].owner_id = owner}

GetDocumentsByTask(c, db) ==
  IF c.req.task_id \notin Known THEN Refuse("InvalidArgument", db)
  ELSE IF c.token \notin Admins THEN Refuse("PermissionDenied", db)
  ELSE Look([documents |-> FindByTask(c.req.task_id, db)], db)

GetDocumentsByOwner(c, db) ==
  IF c.req.owner_id \notin Known THEN Refuse("InvalidArgument", db)
  ELSE IF ~MayActFor(c.token, c.req.owner_id)
  THEN Refuse("PermissionDenied", db)
  ELSE Look([documents |-> FindByOwner(c.req.owner_id, db)], db)

\* Mutant of Authorized: the gateway has looked at the token, that is enough.
AuthorizedOnce(c, expired) == c.token \in Users

\* Every handler first asks the authorizer, whose errors (no token, a token
\* that is not valid any more, no answer from Redis) bear no code.
Authorized(c, expired) == c.token \in Users /\ ~expired

DocumentOutcomes(c, a, db, expired) ==
  IF ~Authorized(c, expired) THEN Refuse("Unknown", db)
  ELSE {o \in Refuse("Unknown", db) : StoreFails}
       \cup CASE c.method = "AddDocument" -> AddDocument(c, a, db)
              [] c.method = "DeleteDocument" -> DeleteDocument(c, db)
              [] c.method = "GetDocument" -> GetDocument(c, db)
              [] c.method = "GetDocumentsByTask" -> GetDocumentsByTask(c, db)
              [] c.method = "GetDocumentsByOwner" -> GetDocumentsByOwner(c, db)

\* Mutant of Outcomes: update's check is missing.
OutcomesUnread(c, a, db, expired) ==
  CASE ServiceOf(c) = "auth" -> AuthOutcomes(c, a, db, expired)
    [] ServiceOf(c) = "task" -> IF c.method = "UpdateTask"
                                THEN UpdateUnread(c.req, db)
                                ELSE TaskOutcomes(c, a, db)
    [] ServiceOf(c) = "document" -> DocumentOutcomes(c, a, db, expired)

Outcomes(c, a, db, expired) ==
  CASE ServiceOf(c) = "auth" -> AuthOutcomes(c, a, db, expired)
    [] ServiceOf(c) = "task" -> TaskOutcomes(c, a, db)
    [] ServiceOf(c) = "document" -> DocumentOutcomes(c, a, db, expired)
=============================================================================
