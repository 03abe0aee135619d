----------------------------- MODULE MCGateway -----------------------------
(* One wish, tried twice, over stores with a user, a task and documents on *)
(* both sides of what gRPC carries.  Sizes are in thirds of a megabyte:    *)
(* JSON bodies end at 3, gRPC messages at 12, files at 30.                 *)
EXTENDS Gateway, TLC

CONSTANTS a1, a2, u1, u2, old, large, gone

OldUser == [email |-> "old", password |-> "right", role |-> "employee",
            manager_id |-> ""]
OldTask == [message |-> "text", status |-> "NEEDS_HELP", reason |-> "text",
            worker_id |-> u1, created_by |-> u1]
OldDoc(u, n) == [owner_id |-> u, task_id |-> old, filename |-> "text",
              content_type |-> "text", size |-> n]
Nothing == [o \in Objects |-> None]

\* "large" has the last size that can be uploaded, one more than downloads bear.
MCStored == [users |-> [Nothing EXCEPT ![old] = OldUser],
             tasks |-> [Nothing EXCEPT ![old] = OldTask],
             docs |-> [Nothing EXCEPT ![old] = OldDoc(u1, 10),
                                      ![large] = OldDoc(u2, 11)]]

MCSizes == {0, 1, 10, 11, 12, 30, 31}
MCTries == <<a1, a2>>
MCObjects == {a1, a2, old, large, gone}

New == [email |-> "new", password |-> "right", role |-> "", manager_id |-> ""]
File(n) == [task_id |-> old, filename |-> "text", content_type |-> "text",
            size |-> n]

AuthWishes ==
  {[route |-> "register", token |-> "", body |-> b] :
     b \in {New, [New EXCEPT !.email = "old"], [New EXCEPT !.manager_id = Junk]}}
  \cup {[route |-> "login", token |-> "", body |-> b] :
          b \in {[email |-> "old", password |-> "right"],
                 [email |-> "old", password |-> "wrong"], Malformed}}
  \cup {[route |-> "validate", token |-> t, body |-> [token |-> ""]] :
          t \in {"", u1}}

TaskWishes ==
  {[route |-> "create", token |-> u1,
    body |-> [message |-> "text", worker_id |-> i]] : i \in {u2, Junk}}
  \cup {[route |-> "update", token |-> u2,
         body |-> [id |-> t, message |-> "", status |-> s, reason |-> "text"]] :
          t \in {old, gone}, s \in {"", "COMPLETED"}}
  \cup {[route |-> "list", token |-> t,
         body |-> [worker_id |-> u1, created_by |-> "", status |-> ""]] :
          t \in {u1, Junk}}

DocumentWishes ==
  {[route |-> "upload", token |-> u1, form |-> f, body |-> File(n)] :
     f \in Forms, n \in {1, 31}}
  \cup {[route |-> "upload", token |-> u1, form |-> "multipart", body |-> b] :
          b \in {Malformed, File(11), [File(1) EXCEPT !.task_id = Junk]}}
  \cup {[route |-> "get", token |-> p[1], body |-> [id |-> p[2]]] :
          p \in {<<u1, old>>, <<u2, large>>, <<u1, gone>>}}
  \cup {[route |-> "delete", token |-> p[1], body |-> [id |-> p[2]]] :
          p \in {<<u1, old>>, <<u2, old>>, <<u1, large>>}}
  \cup {[route |-> "by_task", token |-> t, body |-> [task_id |-> old]] :
          t \in {u1, u2}}
  \cup {[route |-> r, token |-> u1] :
          r \in {"by_owner", "options", "wrong_path", "wrong_method"}}

MCWishes == AuthWishes \cup TaskWishes \cup DocumentWishes

\* Multipart uploads of every size, for the run about the documented limit.
Uploads == {[route |-> "upload", token |-> u1, form |-> "multipart",
             body |-> File(n)] : n \in {0, 1, 10, 11, 12, 30, 31}}
=============================================================================
