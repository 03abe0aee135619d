------------------------------ MODULE Gateway ------------------------------
(***************************************************************************)
(* The API gateway (api_gateway): it dials the three services when it      *)
(* starts, turns each HTTP request into at most one gRPC call, maps the    *)
(* answer's code to an HTTP status, and ends by a signal, an error or a    *)
(* crash; the container is restarted when it fails.  Requests share        *)
(* nothing in the gateway but the rate limiter (RateLimiter), so it is     *)
(* enough to follow the attempts of one client at one wish: they may       *)
(* overlap, and a later one may find what an earlier one did.              *)
(***************************************************************************)
EXTENDS Backends, Sequences

CONSTANTS
  Tries,          \* the client's attempts at its wish, in order
  Wishes,         \* the HTTP requests clients send
  Malformed,      \* a body that does not decode
  Stored,         \* the stores at the start
  JsonLimit,      \* maxBodySize: bytes of a JSON body that are read
  ForwardLimit,   \* FORWARD_RESPONSE_LIMIT: bytes of a file that are read
  GrpcLimit,      \* bytes of a message gRPC accepts, by its default
  CallOverhead,   \* what a call adds to the file in it,
  ReplyOverhead,  \* and a reply
  AuthDials,      \* times auth is dialled
  MaxOutages      \* bound: outages, hangs and crashes in a behaviour

\* Each attempt names what it creates.
Attempts == {Tries[i] : i \in DOMAIN Tries}

Services == {"auth", "task", "document"}
Forms == {"json", "multipart"}

\* One kind of request for each route, and what the router knows no handler for:
\* a path, or a method of a path.
HttpRequest ==
  [route : {"register"}, token : Tokens, body : RegisterRequest \cup {Malformed}]
  \cup [route : {"login"}, token : Tokens, body : LoginRequest \cup {Malformed}]
  \cup [route : {"validate"}, token : Tokens,
        body : ValidateTokenRequest \cup {Malformed}]
  \cup [route : {"create"}, token : Tokens,
        body : [message : Texts, worker_id : Ids] \cup {Malformed}]
  \cup [route : {"update"}, token : Tokens,
        body : UpdateTaskRequest \cup {Malformed}]
  \cup [route : {"list"}, token : Tokens, body : TaskListRequest]
  \cup [route : {"upload"}, token : Tokens, form : Forms,
        body : [task_id : Ids, filename : Texts, content_type : Texts,
                size : Nat] \cup {Malformed}]
  \cup [route : {"get", "delete"}, token : Tokens, body : [id : Ids]]
  \cup [route : {"by_task"}, token : Tokens, body : [task_id : Ids]]
  \cup [route : {"by_owner", "options", "wrong_path", "wrong_method"},
        token : Tokens]

FileOf(w) ==
  IF w.form = "multipart" /\ w.body.size > ForwardLimit THEN ForwardLimit
  ELSE w.body.size

ASSUME GatewayAssumption ==
  /\ Tries \in Seq(Objects)
  /\ Wishes \subseteq HttpRequest
  /\ None \notin Wishes
  /\ Malformed \notin [message : Texts, worker_id : Ids]
       \cup [task_id : Ids, filename : Texts, content_type : Texts, size : Nat]
       \cup RegisterRequest \cup LoginRequest \cup ValidateTokenRequest
       \cup UpdateTaskRequest
  /\ \A w \in Wishes :
       w.route = "upload" /\ w.body # Malformed => FileOf(w) \in Sizes

ASSUME LimitsAssumption ==
  /\ {JsonLimit, ForwardLimit, GrpcLimit, CallOverhead, ReplyOverhead,
      AuthDials, MaxOutages} \subseteq Nat
  /\ GrpcLimit < ForwardLimit   \* 4 MB by default, and 10 MB

ASSUME StoredAssumption ==
  /\ Stored \in Stores
  /\ \A a \in Attempts : /\ Stored.users[a] = None
                         /\ Stored.tasks[a] = None
                         /\ Stored.docs[a] = None

VARIABLES
  wish,      \* what the client is after, once it has sent it
  handler,   \* the HTTP handler of each attempt
  calls,     \* its call, until it is answered for
  db,        \* the stores of the services
  did,       \* history: attempts whose call took effect
  expired,   \* the users' tokens are not valid any more
  up,        \* whether each service answers: "up", "down" or "hung"
  phase,     \* the service being dialled, "serving" or "draining"; "stopped"
             \* or "failed" by the exit status once the process has ended
  tries,     \* failed dials of that service
  asked,     \* it was told to end
  outages    \* bound: outages, hangs and crashes so far

requestVars == <<wish, handler, calls, db, did, expired>>
lifeVars == <<up, phase, tries, asked, outages>>
vars == <<wish, handler, calls, db, did, expired,
          up, phase, tries, asked, outages>>

Init ==
  /\ wish = None
  /\ handler = [a \in Attempts |-> [pc |-> "idle", status |-> 0, msg |-> None]]
  /\ calls = [a \in Attempts |-> None]
  /\ db = Stored
  /\ did = {}
  /\ expired = FALSE
  /\ up \in [Services -> {"up", "down"}]
  /\ phase = "auth"
  /\ tries = 0
  /\ asked = FALSE
  /\ outages = 0

Running == {a \in Attempts : handler[a].pc = "calling"}
-----------------------------------------------------------------------------
(* From HTTP to gRPC *)

OpenRoutes == {"register", "login", "validate"}

ValidToken(w, late) == w.token \in Users /\ ~late

\* Base64 makes four bytes of three, and the JSON around them at least one.
JsonSize(n) == (4 * n + 2) \div 3 + 1

\* The handlers' checks before the call, in their order: the status to refuse
\* with, or 0.
UploadRefusal(w) ==
  IF w.body = Malformed THEN IF w.form = "multipart" THEN 413 ELSE 400
  ELSE IF w.form = "json" /\ JsonSize(w.body.size) > JsonLimit THEN 400
  ELSE IF \/ Empty \in {w.body.task_id, w.body.filename, w.body.content_type}
          \/ FileOf(w) = 0
  THEN 400
  ELSE IF FileOf(w) > ForwardLimit THEN 413
  ELSE 0

TokenGiven(w) == IF w.body.token # Empty THEN w.body.token ELSE w.token

\* CORS answers an OPTIONS request itself; its headers are left to browsers.
Preflight(w) == w.route = "options"

Refusal(w, late) ==
  IF Preflight(w) THEN 204
  ELSE IF w.route = "wrong_path" THEN 404
  ELSE IF w.route = "wrong_method" THEN 405
  ELSE IF w.route \notin OpenRoutes /\ ~ValidToken(w, late) THEN 401
  ELSE IF w.route = "upload" THEN UploadRefusal(w)
  ELSE IF w.route = "by_owner" THEN 0
  ELSE IF w.body = Malformed THEN 400
  ELSE IF w.route = "validate" /\ TokenGiven(w) = Empty THEN 400
  ELSE 0

AuthCall(w) ==
  CASE w.route = "register" -> [method |-> "Register", req |-> w.body]
    [] w.route = "login" -> [method |-> "Login", req |-> w.body]
    [] w.route = "validate" -> [method |-> "ValidateToken",
                                req |-> [token |-> TokenGiven(w)]]

\* The user of the token is the creator of the task,
TaskCall(w) ==
  CASE w.route = "create" ->
         [method |-> "CreateTask",
          req |-> [message |-> w.body.message, worker_id |-> w.body.worker_id,
                   created_by |-> w.token]]
    [] w.route = "update" -> [method |-> "UpdateTask", req |-> w.body]
    [] w.route = "list" -> [method |-> "TaskList", req |-> w.body]

\* and the owner of the document; the document service gets the token, too.
DocumentReq(w) ==
  CASE w.route = "upload" ->
         [task_id |-> w.body.task_id, owner_id |-> w.token,
          file_content |-> FileOf(w), filename |-> w.body.filename,
          content_type |-> w.body.content_type]
    [] w.route = "delete" -> [id |-> w.body.id, owner_id |-> w.token]
    [] w.route = "get" -> [id |-> w.body.id]
    [] w.route = "by_task" -> [task_id |-> w.body.task_id]
    [] w.route = "by_owner" -> [owner_id |-> w.token]

DocumentMethod == [upload |-> "AddDocument", delete |-> "DeleteDocument",
                   get |-> "GetDocument", by_task |-> "GetDocumentsByTask",
                   by_owner |-> "GetDocumentsByOwner"]

DocumentCall(w) == [method |-> DocumentMethod[w.route], req |-> DocumentReq(w),
                    token |-> w.token]

CallOf(w) ==
  IF w.route \in OpenRoutes THEN AuthCall(w)
  ELSE IF w.route \in {"create", "update", "list"} THEN TaskCall(w)
  ELSE DocumentCall(w)
-----------------------------------------------------------------------------
(* From gRPC to HTTP *)

\* Mutant of StatusOf: a failure of the service is the client's mistake.
StatusOfBlaming(code) ==
  CASE code \in {"InvalidArgument", "Internal"} -> 400
    [] code = "NotFound" -> 404
    [] code \in {"PermissionDenied", "Unauthenticated"} -> 401
    [] code = "ResourceExhausted" -> 429
    [] OTHER -> 502

StatusOf(code) ==
  CASE code = "InvalidArgument" -> 400
    [] code = "NotFound" -> 404
    [] code \in {"PermissionDenied", "Unauthenticated"} -> 401
    [] code = "ResourceExhausted" -> 429
    [] OTHER -> 502

\* Mutant of FitsGrpc: the servers' receive limit is raised past the gateway's.
FitsGrpcRaised(bytes) == bytes <= ForwardLimit + CallOverhead

FitsGrpc(bytes) == bytes <= GrpcLimit

CallFits(c) ==
  c.method = "AddDocument" => FitsGrpc(c.req.file_content + CallOverhead)

\* Whether the reply fits: a listing of many rows may not, either.
ReplyFits(c, msg) ==
  CASE c.method = "GetDocument" -> {FitsGrpc(msg.file_content + ReplyOverhead)}
    [] c.method = "TaskList" -> {TRUE, msg.tasks = {}}
    [] c.method \in {"GetDocumentsByTask", "GetDocumentsByOwner"} ->
         {TRUE, msg.documents = {}}
    [] OTHER -> {TRUE}

\* What the handler answers when the reply fits, or not: that is an error of the
\* gateway's own gRPC client.
Answer(c, answer, fits) ==
  IF answer.code # "OK" THEN [status |-> StatusOf(answer.code), msg |-> None]
  ELSE IF ~fits THEN [status |-> StatusOf("ResourceExhausted"), msg |-> None]
  ELSE IF c.method = "GetDocument" /\ answer.msg.file_content > ForwardLimit
  THEN [status |-> 413, msg |-> None]
  ELSE [status |-> IF c.method \in {"Register", "CreateTask", "AddDocument"}
                   THEN 201 ELSE 200,
        msg |-> answer.msg]

Answers(c, answer) ==
  {Answer(c, answer, fits) :
     fits \in IF answer.code = "OK" THEN ReplyFits(c, answer.msg) ELSE {TRUE}}
-----------------------------------------------------------------------------
(* A request's way *)

AnswerWith(a, status, msg) ==
  handler' = [handler EXCEPT ![a] = [pc |-> "answered", status |-> status,
                                     msg |-> msg]]

Unanswered == [pc |-> "unanswered", status |-> 0, msg |-> None]

\* The attempts are sent in order.
Sent(a, w) ==
  /\ phase = "serving"
  /\ handler[a].pc = "idle"
  /\ \A i, j \in DOMAIN Tries :
       Tries[i] = a /\ j < i => handler[Tries[j]].pc # "idle"
  /\ wish \in {None, w}
  /\ wish' = w

\* Mutant of Accept: the task handlers write the 401 and go on.
AcceptGoesOn(a, w) ==
  /\ Sent(a, w)
  /\ IF Refusal(w, expired) # 0
     THEN AnswerWith(a, Refusal(w, expired), None)
     ELSE handler' = [handler EXCEPT ![a].pc = "calling"]
  /\ calls' = IF \/ Refusal(w, expired) = 0
                 \/ /\ Refusal(w, expired) = 401
                    /\ w.route \in {"create", "update", "list"}
              THEN [calls EXCEPT ![a] = [rpc |-> CallOf(w), answer |-> None]]
              ELSE calls
  /\ UNCHANGED <<db, did, expired, lifeVars>>

\* A server that listens takes the request, and the handler refuses it or calls
\* a service.
Accept(a, w) ==
  /\ Sent(a, w)
  /\ IF Refusal(w, expired) # 0
     THEN AnswerWith(a, Refusal(w, expired), None) /\ UNCHANGED calls
     ELSE /\ handler' = [handler EXCEPT ![a].pc = "calling"]
          /\ calls' = [calls EXCEPT ![a] = [rpc |-> CallOf(w), answer |-> None]]
  /\ UNCHANGED <<db, did, expired, lifeVars>>

\* The limiter refuses before any handler sees the request.
Limited(a, w) ==
  /\ "limiter" \in Faults
  /\ Sent(a, w)
  /\ AnswerWith(a, 429, None)
  /\ UNCHANGED <<calls, db, did, expired, lifeVars>>

\* An uploaded file cannot be put on the disk, or not be read back.
ReadFails(a, w) ==
  /\ "disk" \in Faults
  /\ Sent(a, w)
  /\ w.route = "upload"
  /\ w.form = "multipart"
  /\ w.body # Malformed
  /\ ValidToken(w, expired)
  /\ \E status \in {413, 500} : AnswerWith(a, status, None)
  /\ UNCHANGED <<calls, db, did, expired, lifeVars>>

InFlight(a) == calls[a] # None /\ calls[a].answer = None

Received(c, a) == IF CallFits(c) THEN Outcomes(c, a, db, expired)
                  ELSE Refuse("ResourceExhausted", db)

\* The service handles the call, also when the gateway no longer waits for it.
Serve(a) ==
  LET c == calls[a].rpc IN
  /\ InFlight(a)
  /\ up[ServiceOf(c)] = "up"
  /\ \E o \in Received(c, a) :
       /\ db' = o.db
       /\ did' = IF o.done THEN did \cup {a} ELSE did
       /\ calls' = [calls EXCEPT ![a] =
                      IF a \in Running
                      THEN [@ EXCEPT !.answer = [code |-> o.code, msg |-> o.msg]]
                      ELSE None]
  /\ UNCHANGED <<wish, handler, expired, lifeVars>>

\* A call whose gateway is gone, or whose client has left, may be dropped.
Drop(a) ==
  /\ calls[a] # None
  /\ a \notin Running
  /\ calls' = [calls EXCEPT ![a] = None]
  /\ UNCHANGED <<wish, handler, db, did, expired, lifeVars>>

Failed(a) ==
  calls' = [calls EXCEPT ![a] =
              [@ EXCEPT !.answer = [code |-> "Unavailable", msg |-> None]]]

\* Mutant of CallFails: the calls wait for the service to be back.
CallWaits(a) == FALSE /\ UNCHANGED vars

\* Without a connection a call fails at once.
CallFails(a) ==
  /\ InFlight(a)
  /\ a \in Running
  /\ up[ServiceOf(calls[a].rpc)] = "down"
  /\ Failed(a)
  /\ UNCHANGED <<wish, handler, db, did, expired, lifeVars>>

\* The handler writes its answer, in vain after the write timeout.
Return(a) ==
  /\ a \in Running
  /\ calls[a].answer # None
  /\ calls' = [calls EXCEPT ![a] = None]
  /\ \/ \E r \in Answers(calls[a].rpc, calls[a].answer) :
          AnswerWith(a, r.status, r.msg)
     \/ /\ "late" \in Faults
        /\ handler' = [handler EXCEPT ![a] = Unanswered]
  /\ UNCHANGED <<wish, db, did, expired, lifeVars>>

\* The client hangs up: the call is canceled, but may be under way.
Leave(a) ==
  /\ "leave" \in Faults
  /\ a \in Running
  /\ handler' = [handler EXCEPT ![a] = Unanswered]
  /\ UNCHANGED <<wish, calls, db, did, expired, lifeVars>>

Expire ==
  /\ "expiry" \in Faults
  /\ expired' = TRUE
  /\ UNCHANGED <<wish, handler, calls, db, did, lifeVars>>
-----------------------------------------------------------------------------
(* The services *)

\* A service that ends takes the answers with it that are not delivered yet.
Outage(s) ==
  /\ "outage" \in Faults
  /\ up[s] # "down"
  /\ outages < MaxOutages
  /\ outages' = outages + 1
  /\ up' = [up EXCEPT ![s] = "down"]
  /\ calls' = [a \in Attempts |->
                 IF calls[a] # None /\ ServiceOf(calls[a].rpc) = s
                 THEN IF a \in Running
                      THEN [calls[a] EXCEPT !.answer = [code |-> "Unavailable",
                                                        msg |-> None]]
                      ELSE None
                 ELSE calls[a]]
  /\ UNCHANGED <<wish, handler, db, did, expired, phase, tries, asked>>

\* Or it stands still, its connections open.
Hang(s) ==
  /\ "hang" \in Faults
  /\ up[s] = "up"
  /\ outages < MaxOutages
  /\ outages' = outages + 1
  /\ up' = [up EXCEPT ![s] = "hung"]
  /\ UNCHANGED <<requestVars, phase, tries, asked>>

Recover(s) ==
  /\ up[s] # "up"
  /\ up' = [up EXCEPT ![s] = "up"]
  /\ UNCHANGED <<requestVars, phase, tries, asked, outages>>
-----------------------------------------------------------------------------
(* The life of the process *)

AfterDial == [auth |-> "task", task |-> "document", document |-> "serving"]
Ended == {"stopped", "failed"}
Dials(s) == IF s = "auth" THEN AuthDials ELSE 1

\* The process ends, and with it every handler.
End(how) ==
  /\ phase' = how
  /\ tries' = 0
  /\ handler' = [a \in Attempts |-> IF a \in Running THEN Unanswered
                                    ELSE handler[a]]
  /\ UNCHANGED <<wish, calls, db, did, expired, up>>

\* A dial waits until the connection is ready, but not for ever.
Dial ==
  /\ phase \in Services
  /\ up[phase] = "up"
  /\ phase' = AfterDial[phase]
  /\ tries' = 0
  /\ UNCHANGED <<requestVars, up, asked, outages>>

DialAgain ==
  /\ phase \in Services
  /\ up[phase] # "up"
  /\ tries + 1 < Dials(phase)
  /\ tries' = tries + 1
  /\ UNCHANGED <<requestVars, up, phase, asked, outages>>

\* Mutant of DialFails: main prints the error and returns.
DialFailsQuietly ==
  /\ phase \in Services
  /\ up[phase] # "up"
  /\ tries + 1 >= Dials(phase)
  /\ End("stopped")
  /\ UNCHANGED <<asked, outages>>

DialFails ==
  /\ phase \in Services
  /\ up[phase] # "up"
  /\ tries + 1 >= Dials(phase)
  /\ End("failed")
  /\ UNCHANGED <<asked, outages>>

\* A signal before the server listens ends the process, later it closes the
\* listener and waits for the handlers,
Signal ==
  /\ "shutdown" \in Faults
  /\ phase \in Services \cup {"serving"}
  /\ asked' = TRUE
  /\ IF phase = "serving"
     THEN phase' = "draining" /\ UNCHANGED <<requestVars, up, tries>>
     ELSE End("failed")
  /\ UNCHANGED outages

Drained ==
  /\ phase = "draining"
  /\ Running = {}
  /\ End("stopped")
  /\ UNCHANGED <<asked, outages>>

\* Mutant of GraceOver: Shutdown is given no deadline.
GraceNeverOver == FALSE /\ UNCHANGED vars

\* but no longer than the grace period.
GraceOver ==
  /\ phase = "draining"
  /\ Running # {}
  /\ End("failed")
  /\ UNCHANGED <<asked, outages>>

\* A crash, or a listener that fails.
Crash ==
  /\ "crash" \in Faults
  /\ phase \notin Ended
  /\ outages < MaxOutages
  /\ outages' = outages + 1
  /\ End("failed")
  /\ UNCHANGED asked

\* The container of a gateway that failed is started again,
Restart ==
  /\ phase = "failed"
  /\ ~asked
  /\ phase' = "auth"
  /\ UNCHANGED <<requestVars, up, tries, asked, outages>>

\* one that was told to end when somebody wants it back.
StartAgain ==
  /\ phase \in Ended
  /\ asked
  /\ asked' = FALSE
  /\ phase' = "auth"
  /\ UNCHANGED <<requestVars, up, tries, outages>>
-----------------------------------------------------------------------------
Request(a) ==
  \/ \E w \in Wishes : Accept(a, w) \/ Limited(a, w) \/ ReadFails(a, w)
  \/ Serve(a) \/ Drop(a) \/ CallFails(a) \/ Return(a) \/ Leave(a)

Service(s) == Outage(s) \/ Hang(s) \/ Recover(s)

Life == \/ Dial \/ DialAgain \/ DialFails
        \/ Signal \/ Drained \/ GraceOver \/ Crash \/ Restart \/ StartAgain

Next ==
  \/ \E a \in Attempts : Request(a)
  \/ \E s \in Services : Service(s)
  \/ Expire
  \/ Life

Spec == Init /\ [][Next]_vars

\* Services that answer do so, handlers go on, dials end by success or by their
\* timeout, the grace period passes, and Docker restarts what fails.
Fairness ==
  /\ \A a \in Attempts : /\ WF_vars(Serve(a))
                         /\ WF_vars(CallFails(a))
                         /\ WF_vars(Return(a))
  /\ WF_vars(Dial)
  /\ WF_vars(DialAgain)
  /\ WF_vars(DialFails)
  /\ WF_vars(Drained)
  /\ WF_vars(GraceOver)
  /\ WF_vars(Restart)

FairSpec == Spec /\ Fairness
-----------------------------------------------------------------------------
HandlerState == [pc : {"idle", "calling", "answered", "unanswered"},
                 status : {0, 200, 201, 204, 400, 401, 404, 405, 413, 429, 500,
                           502},
                 msg : Response \cup {None}]

Reply == [code : Codes, msg : Response \cup {None}]
CallState == [rpc : Call, answer : Reply \cup {None}]

ASSUME NoCallAssumption == None \notin CallState \cup Reply

\* Messages, rows and statuses are those of the code's types, and a handler that
\* has not called, or has answered, has no call under way.
TypeOK ==
  /\ wish \in Wishes \cup {None}
  /\ handler \in [Attempts -> HandlerState]
  /\ calls \in [Attempts -> CallState \cup {None}]
  /\ db \in Stores
  /\ did \subseteq Attempts
  /\ expired \in BOOLEAN
  /\ up \in [Services -> {"up", "down", "hung"}]
  /\ phase \in Services \cup {"serving", "draining"} \cup Ended
  /\ tries \in Nat
  /\ asked \in BOOLEAN
  /\ outages \in 0 .. MaxOutages
  /\ \A a \in Attempts :
       /\ handler[a].status # 0 <=> handler[a].pc = "answered"
       /\ handler[a].pc = "calling" => calls[a] # None
       /\ handler[a].pc \in {"idle", "answered"} => calls[a] = None

Answered(a) == handler[a].pc = "answered"

\* A client told that its request is at fault (a status from 400 to 499) can
\* rely on it that nothing happened, whatever failed on the way: respond.go
\* 65-85 maps to them only codes no service answers with after an effect.
RefusalsChangeNothing ==
  \A a \in Attempts :
    Answered(a) /\ handler[a].status \in 400 .. 499 =>
      /\ a \notin did
      /\ db.users[a] = None /\ db.tasks[a] = None /\ db.docs[a] = None

Changing == {"register", "create", "update", "upload", "delete"}

\* A success is one: what was asked for has happened, by this attempt, and an
\* answer with an id names what this attempt made.
SuccessIsDone ==
  \A a \in Attempts :
    Answered(a) /\ handler[a].status \in {200, 201} =>
      /\ wish.route \in Changing => a \in did
      /\ handler[a].status = 201 => handler[a].msg.id = a

\* What an attempt stores is what its client sent, complete, in the name of the
\* user of the token; also when nobody got an answer.  The reader that cuts
\* files (document.go 78) never cuts one that is stored.
StoredAsSent ==
  \A a \in Attempts :
    /\ db.users[a] # None => db.users[a] = NewUser(wish.body)
    /\ db.tasks[a] # None =>
         db.tasks[a] = [message |-> wish.body.message, status |-> "IN_PROGRESS",
                        reason |-> Empty, worker_id |-> wish.body.worker_id,
                        created_by |-> wish.token]
    /\ db.docs[a] # None =>
         db.docs[a] = [owner_id |-> wish.token, task_id |-> wish.body.task_id,
                       filename |-> wish.body.filename,
                       content_type |-> wish.body.content_type,
                       size |-> wish.body.size]

\* What a step may do to the rows: an account, a task or a document is only
\* added where there was none, by the request for it; accounts never change, a
\* task changes only as an update that names it says, and a document goes only
\* when its owner or an admin deletes it.  Documents need a token that is valid
\* when they are written, and tasks one that was when the gateway looked.
AsAsked ==
  \A o \in Objects :
    /\ db'.users[o] # db.users[o] =>
         /\ db.users[o] = None
         /\ wish.route = "register"
    /\ db'.tasks[o] # db.tasks[o] =>
         /\ wish.token \in Users
         /\ \/ db.tasks[o] = None /\ wish.route = "create"
            \/ /\ wish.route = "update"
               /\ wish.body.id = o
               /\ db.tasks[o] # None
               /\ db'.tasks[o] = Updated(db.tasks[o], wish.body)
    /\ db'.docs[o] # db.docs[o] =>
         /\ ValidToken(wish, expired)
         /\ \/ db.docs[o] = None /\ wish.route = "upload"
            \/ /\ wish.route = "delete"
               /\ wish.body.id = o
               /\ db.docs[o] # None
               /\ MayActFor(wish.token, db.docs[o].owner_id)
               /\ db'.docs[o] = None

\* Whatever overlaps, fails or is repeated on the way, rows change only as the
\* client asked and, for documents, only for those who may: the document
\* service's authorizer (grpc_handler.go 162-213) looks at the token again.
RowsChangeAsAsked == [][AsAsked]_vars

\* "Maximum size of a file: 10 MB" (API_Gateway_JSON_Examples.md 463): a good
\* file up to the limit is not refused for its size.
FilesUpToTheLimitAreStored ==
  \A a \in Attempts :
    Answered(a) /\ wish.route = "upload" /\ wish.form = "multipart" =>
      (/\ wish.token \in Users /\ wish.body # Malformed
       /\ wish.body.size \in 1 .. MaxFile
       /\ wish.body.task_id \in Known
       /\ Empty \notin {wish.body.filename, wish.body.content_type}
       => handler[a].status = 201)

\* A handler waits for a service without a deadline, but comes to an end unless
\* the very service it called stands still: one that is gone is an answer.
EveryRequestEnds ==
  \A a \in Attempts :
    a \in Running ~>
      (a \in Running => up[ServiceOf(calls[a].rpc)] = "hung")

\* A gateway told to end does, whatever its handlers wait for (main.go 103-106).
GatewayStops == phase = "draining" ~> phase \in Ended

\* When all services answer for good and nobody stops the gateway, it comes up
\* and stays, although two of the three dials are made once: a failed start is
\* an exit status Docker restarts the container for (docker-compose.yml 193).
ComesUp ==
  <>[]((\A s \in Services : up[s] = "up") /\ ~asked) => <>[](phase = "serving")
=============================================================================
