-------------------------- MODULE MCNotification --------------------------
(* Notification over three kinds of record: about a worker with a manager, *)
(* about one whom auth may or may not know yet, and junk.                  *)
EXTENDS Notification

CONSTANTS help1, help2, junk, w1, w2

MCRecords == {help1, help2, junk}
MCJunk == {junk}
MCWorkerOf == [m \in MCRecords |-> IF m = help2 THEN w2 ELSE w1]
MCWorkers == {w1, w2}
MCStaff == {w1}
=============================================================================
