----------------------------- MODULE TaskBoard -----------------------------
(***************************************************************************)
(* What the task service promises its users: a board on which every create *)
(* and every update happens at once, and which owes the topic one          *)
(* announcement each time a task starts to need help.  TaskService         *)
(* implements it while clients do not overlap calls on one task.           *)
(***************************************************************************)
EXTENDS Naturals

CONSTANTS Tasks, Workers, Reasons, Calls, None,
          Lossy   \* FALSE: nothing fails and every announcement is made

VARIABLES
  board,   \* what is known of each task, None before it is created
  owed,    \* announcements still to be made
  told     \* announcements made

vars == <<board, owed, told>>

Row == [status : {"IN_PROGRESS", "COMPLETED", "NEEDS_HELP"},
        worker : Workers, reason : Reasons \cup {None}]

Announcement == [task : Tasks, worker : Workers, reason : Reasons,
                 timestamp : Calls]

Init == board = [t \in Tasks |-> None] /\ owed = {} /\ told = {}

Create(t, w) ==
  /\ board[t] = None
  /\ board' = [board EXCEPT ![t] =
                 [status |-> "IN_PROGRESS", worker |-> w, reason |-> None]]
  /\ UNCHANGED <<owed, told>>

\* A task gets another status and reason; its worker stays.
Becomes(t, s, r) ==
  board' = [board EXCEPT ![t] = [status |-> s, worker |-> @.worker, reason |-> r]]

\* A task goes to IN_PROGRESS or COMPLETED, and then has no reason.
Settle(t, s) ==
  /\ board[t] # None
  /\ Becomes(t, s, None)
  /\ UNCHANGED <<owed, told>>

\* A task that needs help is given another reason: no news.
Reword(t, r) ==
  /\ board[t] # None
  /\ board[t].status = "NEEDS_HELP"
  /\ Becomes(t, "NEEDS_HELP", r)
  /\ UNCHANGED <<owed, told>>

\* A task starts to need help; call c is owed an announcement for it, which
\* only a lossy board may forget.
CallForHelp(t, r, c) ==
  LET a == [task |-> t, worker |-> board[t].worker, reason |-> r, timestamp |-> c]
  IN
  /\ board[t] # None
  /\ board[t].status # "NEEDS_HELP"
  /\ \A b \in owed \cup told : b.timestamp # c
  /\ Becomes(t, "NEEDS_HELP", r)
  /\ \/ owed' = owed \cup {a}
     \/ Lossy /\ owed' = owed
  /\ UNCHANGED told

Tell(a) ==
  /\ a \in owed
  /\ owed' = owed \ {a}
  /\ told' = told \cup {a}
  /\ UNCHANGED board

Forget ==
  /\ Lossy
  /\ \E lost \in SUBSET owed : owed' = owed \ lost
  /\ UNCHANGED <<board, told>>

Next ==
  \/ \E t \in Tasks, w \in Workers : Create(t, w)
  \/ \E t \in Tasks, s \in {"IN_PROGRESS", "COMPLETED"} : Settle(t, s)
  \/ \E t \in Tasks, r \in Reasons : Reword(t, r)
  \/ \E t \in Tasks, r \in Reasons, c \in Calls : CallForHelp(t, r, c)
  \/ \E a \in Announcement : Tell(a)
  \/ Forget

Spec == Init /\ [][Next]_vars

\* Announcements that are owed are made, one by one.
FairSpec == Spec /\ \A c \in Calls :
              WF_vars(\E a \in owed : a.timestamp = c /\ Tell(a))
=============================================================================
