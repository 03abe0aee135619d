-------------------------------- MODULE Api --------------------------------
(***************************************************************************)
(* The messages the gateway and the services exchange: the Go types that   *)
(* protoc generates from the three services' definitions (gen/proto), each *)
(* a set of records with the fields of the type.  A text is a member of a  *)
(* small set, a file is its size.  Names, tags and times travel with their *)
(* message and decide nothing: they are left out.                          *)
(***************************************************************************)
EXTENDS Naturals

CONSTANTS
  Users,     \* ids of users
  Objects,   \* ids of what is stored: users, tasks and documents
  Junk,      \* a text that is no id and no token
  Sizes      \* sizes of files

\* What a field holds that is not given.
Empty == ""

ASSUME SizesAssumption == Sizes \subseteq Nat
ASSUME ApiNamesAssumption ==
  /\ Users \cap Objects = {}
  /\ {Empty, Junk} \cap (Users \cup Objects) = {}
  /\ Junk # Empty

Texts == {Empty, "text"}
Emails == {Empty, "old", "new"}
Passwords == {Empty, "right", "wrong"}
Roles == {Empty, "admin", "employee", "other"}
Statuses == {Empty, "IN_PROGRESS", "COMPLETED", "NEEDS_HELP", "other"}

Known == Users \cup Objects
Ids == Known \cup {Empty, Junk}

\* What an Authorization header holds: nothing, a token that is not one of
\* auth's, or the token auth issued to a user.
Tokens == Users \cup {Empty, Junk}
-----------------------------------------------------------------------------
RegisterRequest == [email : Emails, password : Passwords, role : Roles,
                    manager_id : Ids]
RegisterResponse == [id : Ids, email : Emails, role : Roles]

LoginRequest == [email : Emails, password : Passwords]
LoginResponse == [access_token : Ids, user_id : Ids, role : Roles]

ValidateTokenRequest == [token : Tokens]
ValidateTokenResponse == [valid : BOOLEAN, user_id : Ids]

CreateTaskRequest == [message : Texts, worker_id : Ids, created_by : Ids]
CreateTaskResponse == [id : Ids, message : Texts, status : Statuses,
                       worker_id : Ids, created_by : Ids]

UpdateTaskRequest == [id : Ids, message : Texts, status : Statuses,
                      reason : Texts]
UpdateTaskResponse == [id : Ids, message : Texts, status : Statuses,
                       worker_id : Ids, reason : Texts]

\* A listing answers with the ids of what it lists.
Task == Objects
TaskListRequest == [worker_id : Ids, created_by : Ids, status : Statuses]
TaskListResponse == [tasks : SUBSET Task]

AddDocumentRequest == [task_id : Ids, owner_id : Ids, file_content : Sizes,
                       filename : Texts, content_type : Texts]
AddDocumentResponse == [id : Ids, filename : Texts, content_type : Texts,
                        size : Sizes, task_id : Ids, owner_id : Ids]

DeleteDocumentRequest == [id : Ids, owner_id : Ids]
DeleteDocumentResponse == [success : BOOLEAN]

GetDocumentRequest == [id : Ids]
GetDocumentResponse == [id : Ids, filename : Texts, content_type : Texts,
                        file_content : Sizes, task_id : Ids, owner_id : Ids]

Document == Objects
GetDocumentsByTaskRequest == [task_id : Ids]
GetDocumentsByTaskResponse == [documents : SUBSET Document]
GetDocumentsByOwnerRequest == [owner_id : Ids]
GetDocumentsByOwnerResponse == [documents : SUBSET Document]
-----------------------------------------------------------------------------
\* What each service listens to.
AuthServer ==
  [method : {"Register"}, req : RegisterRequest]
  \cup [method : {"Login"}, req : LoginRequest]
  \cup [method : {"ValidateToken"}, req : ValidateTokenRequest]

TaskServer ==
  [method : {"CreateTask"}, req : CreateTaskRequest]
  \cup [method : {"UpdateTask"}, req : UpdateTaskRequest]
  \cup [method : {"TaskList"}, req : TaskListRequest]

\* The document service alone reads the metadata of a call: the user's token.
DocumentServer ==
  [method : {"AddDocument"}, req : AddDocumentRequest, token : Tokens]
  \cup [method : {"DeleteDocument"}, req : DeleteDocumentRequest, token : Tokens]
  \cup [method : {"GetDocument"}, req : GetDocumentRequest, token : Tokens]
  \cup [method : {"GetDocumentsByTask"}, req : GetDocumentsByTaskRequest,
        token : Tokens]
  \cup [method : {"GetDocumentsByOwner"}, req : GetDocumentsByOwnerRequest,
        token : Tokens]

Response ==
  RegisterResponse \cup LoginResponse \cup ValidateTokenResponse
  \cup CreateTaskResponse \cup UpdateTaskResponse \cup TaskListResponse
  \cup AddDocumentResponse \cup DeleteDocumentResponse
  \cup GetDocumentResponse \cup GetDocumentsByTaskResponse
  \cup GetDocumentsByOwnerResponse

Call == AuthServer \cup TaskServer \cup DocumentServer

AuthMethods == {"Register", "Login", "ValidateToken"}
TaskMethods == {"CreateTask", "UpdateTask", "TaskList"}
DocumentMethods == {"AddDocument", "DeleteDocument", "GetDocument",
                    "GetDocumentsByTask", "GetDocumentsByOwner"}

\* Which server a call goes to.
ServiceOf(c) == IF c.method \in AuthMethods THEN "auth"
                ELSE IF c.method \in TaskMethods THEN "task"
                ELSE "document"

Codes == {"OK", "InvalidArgument", "NotFound", "PermissionDenied",
          "Unauthenticated", "ResourceExhausted", "Internal", "Unknown",
          "Unavailable"}
=============================================================================
