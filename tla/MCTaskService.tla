--------------------------- MODULE MCTaskService ---------------------------
(* TaskService with a handful of calls on one or two tasks.                *)
EXTENDS TaskService, TLC

LOCAL INSTANCE SequencesExt

\* Calls only differ by name: sound for the runs that check no liveness.
CallSymmetry == Permutations(Calls)

\* Where liveness is checked, calls are named in the order they arrive instead.
Order == SetToSeq(Calls)

MayCall(c) ==
  \A i \in 2..Len(Order) : Order[i] = c => call[Order[i - 1]].pc # "new"

\* Bound of the ordered runs: updates leave the message alone, on which nothing
\* the service decides depends.
Bare(r) == r # None /\ r.op = "update" => r.message = None

OrderedNext ==
  \/ \E c \in Calls : MayCall(c) /\ Receive(c) /\ Bare(call'[c].req)
  \/ \E c \in Calls : Step(c) \/ Database(c)
  \/ \E e \in TaskEvent : Deliver(e)
  \/ Stop \/ Exit \/ Crash \/ Restart

OrderedSpec == Init /\ [][OrderedNext]_vars /\ Fairness
=============================================================================
