-------------------------- MODULE DocumentRegistry --------------------------
(***************************************************************************)
(* What the document service promises: a list of documents, each call one  *)
(* atomic step on it, or two for a call that first looks its document up.  *)
(* Nothing is said of the two stores behind it, which DocumentService      *)
(* writes one after the other; it implements this module.                  *)
(***************************************************************************)
EXTENDS Naturals

CONSTANTS
  Calls,    \* the calls; an add names the document it brings
  Users, Admins,
  None,
  Lossy     \* a call may take effect and be reported failed

VARIABLES
  listed,   \* the owner of each listed document
  used,     \* documents that have been listed
  held,     \* the request of a call that has looked its document up
  answer    \* what each successful call was told

Request == [op : {"get", "delete"}, doc : Calls, by : Users]

Mine(u, owner) == u \in Admins \/ u = owner

Init ==
  /\ listed = [d \in Calls |-> None]
  /\ used = {}
  /\ held = [c \in Calls |-> None]
  /\ answer = [c \in Calls |-> None]

\* A document is listed once, under a name nobody else gets.
Add(c, owner) ==
  /\ c \notin used
  /\ used' = used \cup {c}
  /\ listed' = [listed EXCEPT ![c] = owner]
  /\ \/ answer' = [answer EXCEPT ![c] = [op |-> "add", owner |-> owner]]
     \/ Lossy /\ UNCHANGED answer
  /\ UNCHANGED held

\* Only a listed document is found, and only by its owner or an admin.
Look(c, r) ==
  /\ held[c] = None
  /\ answer[c] = None
  /\ listed[r.doc] # None
  /\ Mine(r.by, listed[r.doc])
  /\ held' = [held EXCEPT ![c] = r]
  /\ UNCHANGED <<listed, used, answer>>

\* A download is the content the add brought: named, like the document, by c.
Get(c) ==
  /\ held[c] # None
  /\ held[c].op = "get"
  /\ answer' = [answer EXCEPT ![c] = [op |-> "get", doc |-> held[c].doc,
                                      content |-> held[c].doc]]
  /\ held' = [held EXCEPT ![c] = None]
  /\ UNCHANGED <<listed, used>>

\* A delete takes away a document that is listed, so one delete succeeds.
Delete(c) ==
  /\ held[c] # None
  /\ held[c].op = "delete"
  /\ listed[held[c].doc] # None
  /\ listed' = [listed EXCEPT ![held[c].doc] = None]
  /\ \/ answer' = [answer EXCEPT ![c] = [op |-> "delete", doc |-> held[c].doc]]
     \/ Lossy /\ UNCHANGED answer
  /\ held' = [held EXCEPT ![c] = None]
  /\ UNCHANGED used

\* Calls fail without effect, several at once when the service dies.
GiveUp(S) ==
  /\ held' = [c \in Calls |-> IF c \in S THEN None ELSE held[c]]
  /\ UNCHANGED <<listed, used, answer>>

Next ==
  \/ \E c \in Calls : \/ \E owner \in Users : Add(c, owner)
                      \/ \E r \in Request : Look(c, r)
                      \/ Get(c) \/ Delete(c)
  \/ \E S \in SUBSET Calls : GiveUp(S)

Spec == Init /\ [][Next]_<<listed, used, held, answer>>
=============================================================================
