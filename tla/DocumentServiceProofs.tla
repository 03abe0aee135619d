----------------------- MODULE DocumentServiceProofs -----------------------
(***************************************************************************)
(* Theorems about DocumentService for any calls, users and faults.         *)
(***************************************************************************)
EXTENDS DocumentService, TLAPS

-----------------------------------------------------------------------------
(* Type correctness.                                                       *)

LEMMA TypeInit == Init => TypeOK
BY DEF Init, TypeOK, Idle, Handler

\* A handler that returns leaves a well formed record.
LEMMA IdleType ==
  ASSUME NEW pc \in {"new", "done", "failed"}
  PROVE  Idle(pc) \in Handler /\ Idle(pc).pc = pc
BY DEF Idle, Handler

LEMMA FailType ==
  ASSUME TypeOK, NEW c \in Calls, Fail(c)
  PROVE  /\ call' \in [Calls -> Handler]
         /\ reply' = reply
         /\ call'[c].pc = "failed"
         /\ \A e \in Calls \ {c} : call'[e] = call[e]
BY IdleType DEF TypeOK, Fail

LEMMA SucceedType ==
  ASSUME TypeOK, NEW c \in Calls, NEW r \in Reply, Succeed(c, r)
  PROVE  /\ call' \in [Calls -> Handler]
         /\ reply' \in [Calls -> Reply \cup {None}]
         /\ call'[c].pc = "done"
         /\ reply'[c] = r
         /\ \A e \in Calls \ {c} : call'[e] = call[e] /\ reply'[e] = reply[e]
BY IdleType DEF TypeOK, Succeed

\* A handler that goes on keeps its request and what it found.
LEMMA GotoType ==
  ASSUME TypeOK, NEW c \in Calls, NEW pc \in {"insert", "cleanup"}, Goto(c, pc)
  PROVE  /\ call' \in [Calls -> Handler]
         /\ call'[c].pc = pc
         /\ call'[c].req = call[c].req
         /\ \A e \in Calls \ {c} : call'[e] = call[e]
BY DEF TypeOK, Goto, Handler

LEMMA TakeType ==
  ASSUME TypeOK, NEW c \in Calls, NEW pc \in {"save", "find"},
         NEW r \in AddRequest \cup DocRequest,
         call' = [call EXCEPT ![c].pc = pc, ![c].req = r]
  PROVE  /\ call' \in [Calls -> Handler]
         /\ call'[c].pc = pc
         /\ call'[c].req = r
         /\ \A e \in Calls \ {c} : call'[e] = call[e]
<1>1. call[c] \in Handler
  BY DEF TypeOK
<1>2. [call[c] EXCEPT !.pc = pc, !.req = r] \in Handler
  BY <1>1 DEF Handler
<1>3. /\ call'[c] = [call[c] EXCEPT !.pc = pc, !.req = r]
      /\ \A e \in Calls \ {c} : call'[e] = call[e]
  BY DEF TypeOK
<1>4. call'[c].pc = pc /\ call'[c].req = r
  BY <1>1, <1>3 DEF Handler
<1>5. QED
  BY <1>2, <1>3, <1>4 DEF TypeOK

LEMMA MetadataType ==
  ASSUME NEW c \in Calls, call[c].req \in AddRequest
  PROVE  /\ MetadataOf(c) \in Metadata
         /\ [MetadataOf(c) EXCEPT !.uploadedAt = "set"] \in Metadata
         /\ MetadataOf(c).object = c
         /\ [MetadataOf(c) EXCEPT !.uploadedAt = "set"].object = c
         /\ [MetadataOf(c) EXCEPT !.uploadedAt = "set"].checksum = c
BY DEF MetadataOf, Metadata, AddRequest

\* Only calls without a deadline hang, and a handler that goes on has its answer.
LEMMA HungStep ==
  ASSUME TypeOK, [Next]_vars
  PROVE  hung' \subseteq {c \in Calls : call'[c].pc \in Unbounded}
<1>1. ASSUME NEW c \in Calls, c \notin hung,
             UNCHANGED hung, \A e \in Calls \ {c} : call'[e] = call[e]
      PROVE  hung' \subseteq {e \in Calls : call'[e].pc \in Unbounded}
  BY <1>1 DEF TypeOK
<1>2. ASSUME NEW c \in Calls,
             Receive(c) \/ Step(c) \/ InsertFails(c) \/ StoreError(c)
      PROVE  hung' \subseteq {e \in Calls : call'[e].pc \in Unbounded}
  <2>1. c \notin hung
    BY <1>2 DEF Receive, Reject, ReceiveAdd, ReceiveDoc, Step, Save, Insert,
                Cleanup, Find, RemoveGone, Remove, Open, ReadAll, InsertFails,
                StoreError, TypeOK, Unbounded
  <2>2. UNCHANGED hung /\ \A e \in Calls \ {c} : call'[e] = call[e]
    BY <1>2 DEF Receive, Reject, ReceiveAdd, ReceiveDoc, Step, Save, Insert,
                Cleanup, Find, RemoveGone, Remove, Open, ReadAll, InsertFails,
                StoreError, Goto, Fail, Succeed, TypeOK
  <2>3. QED
    BY <1>1, <2>1, <2>2
<1>3. ASSUME NEW c \in Calls, Hang(c) \/ Wake(c) \/ Leave(c)
      PROVE  hung' \subseteq {e \in Calls : call'[e].pc \in Unbounded}
  BY <1>3 DEF Hang, Wake, Leave, Fail, TypeOK
<1>4. CASE UNCHANGED <<hung, call>>
  BY <1>4 DEF TypeOK
<1>5. CASE Crash
  BY <1>5 DEF Crash
<1>6. QED
  BY <1>2, <1>3, <1>4, <1>5 DEF Next, DeleteBlob, Stop, Exit, Restart, vars

LEMMA TypeStep == TypeOK /\ [Next]_vars => TypeOK'
<1> SUFFICES ASSUME TypeOK, [Next]_vars PROVE TypeOK'
  OBVIOUS
<1>0. hung' \subseteq {c \in Calls : call'[c].pc \in Unbounded}
  BY HungStep
<1> USE <1>0
<1>1. ASSUME NEW c \in Calls, Reject(c) PROVE TypeOK'
  BY <1>1, FailType DEF TypeOK, Reject
<1>2. ASSUME NEW c \in Calls, NEW by \in Users, NEW owner \in Users,
             ReceiveAdd(c, by, owner)
      PROVE  TypeOK'
  <2>1. [op |-> "add", owner |-> owner] \in AddRequest
    BY DEF AddRequest
  <2>2. /\ call' \in [Calls -> Handler]
        /\ call'[c].pc = "save" /\ call'[c].req \in AddRequest
        /\ \A e \in Calls \ {c} : call'[e] = call[e]
    BY <1>2, <2>1, TakeType, ZenonT(60) DEF ReceiveAdd
  <2>3. QED
    BY <1>2, <2>2 DEF TypeOK, ReceiveAdd
<1>3. ASSUME NEW c \in Calls, NEW r \in DocRequest, ReceiveDoc(c, r)
      PROVE  TypeOK'
  <2>1. /\ call' \in [Calls -> Handler]
        /\ call'[c].pc = "find" /\ call'[c].req \in DocRequest
        /\ \A e \in Calls \ {c} : call'[e] = call[e]
    BY <1>3, TakeType DEF ReceiveDoc
  <2>2. QED
    BY <1>3, <2>1 DEF TypeOK, ReceiveDoc
<1>4. ASSUME NEW c \in Calls, Save(c) PROVE TypeOK'
  BY <1>4, FailType, GotoType DEF TypeOK, Save
<1>5. ASSUME NEW c \in Calls, Insert(c) PROVE TypeOK'
  <2>1. call[c].req \in AddRequest
    BY <1>5 DEF TypeOK, Insert
  <2>2. [op |-> "add", meta |-> MetadataOf(c)] \in Reply
    BY <2>1, MetadataType DEF Reply
  <2>3. docs' \in [Calls -> Metadata \cup {None}]
    BY <1>5, <2>1, MetadataType DEF TypeOK, Insert
  <2>4. QED
    BY <1>5, <2>2, <2>3, SucceedType, GotoType DEF TypeOK, Insert
<1>6. ASSUME NEW c \in Calls, InsertFails(c) PROVE TypeOK'
  BY <1>6, GotoType DEF TypeOK, InsertFails
<1>7. ASSUME NEW c \in Calls, Cleanup(c) PROVE TypeOK'
  BY <1>7, FailType DEF TypeOK, Cleanup
<1>8. ASSUME NEW c \in Calls, Find(c) PROVE TypeOK'
  <2>1. call[c].req \in DocRequest /\ call[c].req.doc \in Calls
    BY <1>8 DEF TypeOK, Find, DocRequest
  <2>2. CASE Fail(c)
    BY <1>8, <2>2, FailType DEF TypeOK, Find
  <2>3. CASE ~Fail(c)
    BY <1>8, <2>1, <2>3 DEF TypeOK, Find, Handler
  <2>4. QED
    BY <2>2, <2>3
<1>9. ASSUME NEW c \in Calls, RemoveGone(c) PROVE TypeOK'
  BY <1>9, FailType DEF TypeOK, RemoveGone
<1>10. ASSUME NEW c \in Calls, Remove(c) PROVE TypeOK'
  <2>1. call[c].req.doc \in Calls /\ call[c].seen.object \in Calls
    BY <1>10 DEF TypeOK, Remove, DocRequest, Metadata
  <2>2. [op |-> "delete", doc |-> call[c].req.doc] \in Reply
    BY <2>1 DEF Reply
  <2>3. QED
    BY <1>10, <2>1, <2>2, FailType, SucceedType DEF TypeOK, Remove
<1>11. ASSUME NEW c \in Calls, Open(c) PROVE TypeOK'
  <2>1. call[c].seen.object \in Calls
    BY <1>11 DEF TypeOK, Open, Metadata
  <2>2. CASE Fail(c)
    BY <1>11, <2>2, FailType DEF TypeOK, Open
  <2>3. CASE ~Fail(c)
    BY <1>11, <2>1, <2>3 DEF TypeOK, Open, Handler
  <2>4. QED
    BY <2>2, <2>3
<1>12. ASSUME NEW c \in Calls, ReadAll(c) PROVE TypeOK'
  <2>1. [op |-> "get", doc |-> call[c].req.doc, content |-> call[c].opened]
          \in Reply
    BY <1>12 DEF TypeOK, ReadAll, DocRequest, Reply
  <2>2. QED
    BY <1>12, <2>1, FailType, SucceedType DEF TypeOK, ReadAll
<1>13. ASSUME NEW c \in Calls, StoreError(c) \/ Leave(c) PROVE TypeOK'
  BY <1>13, FailType DEF TypeOK, StoreError, Leave
<1>14. ASSUME NEW k \in Calls, DeleteBlob(k) PROVE TypeOK'
  BY <1>14 DEF TypeOK, DeleteBlob
<1>15. CASE Stop
  BY <1>15 DEF TypeOK, Stop
<1>16. CASE Exit
  BY <1>16 DEF TypeOK, Exit
<1>17. CASE Crash
  BY <1>17, IdleType DEF TypeOK, Crash
<1>18. CASE Restart
  BY <1>18 DEF TypeOK, Restart
<1>19. ASSUME NEW c \in Calls, Hang(c) \/ Wake(c) PROVE TypeOK'
  BY <1>19 DEF TypeOK, Hang, Wake
<1>20. CASE UNCHANGED vars
  BY <1>20 DEF TypeOK, vars
<1>21. QED
  BY <1>1, <1>2, <1>3, <1>4, <1>5, <1>6, <1>7, <1>8, <1>9, <1>10, <1>11, <1>12,
     <1>13, <1>14, <1>15, <1>16, <1>17, <1>18, <1>19, <1>20
     DEF Next, Receive, Step

\* Every record, object and handler has its type in every reachable state.
THEOREM TypeCorrect == Spec => []TypeOK
BY TypeInit, TypeStep, PTL DEF Spec

-----------------------------------------------------------------------------
(* Names.  Records, objects and what a handler holds of them belong to the *)
(* document they are about.                                                *)

NamesInv ==
  /\ \A k \in Calls : blobs[k] \in {k, None}
  /\ \A d \in Calls :
       docs[d] # None => docs[d].object = d /\ docs[d].checksum = d
  /\ \A c \in Calls :
       /\ call[c].pc \in {"remove", "stat", "read"} =>
            call[c].seen.object = call[c].req.doc
       /\ call[c].pc = "read" => call[c].opened = call[c].req.doc

(* The life of a document.  Before its insert nobody has seen it; from its *)
(* put to its insert the object is there; after a failed insert only an    *)
(* insert that took effect can have left a record; and who deletes an      *)
(* object has deleted the record before.                                   *)

IsDelete(r) == r # None /\ r.op = "delete"

LifeInv ==
  /\ \A c \in Calls :
       /\ call[c].pc \in {"new", "save", "insert"} =>
            /\ docs[c] = None
            /\ c \notin deleting
            /\ \A e \in Calls : IsDelete(reply[e]) => reply[e].doc # c
       /\ call[c].pc = "insert" => blobs[c] = c
       /\ call[c].pc = "cleanup" => docs[c] = None \/ c \in blurred
  /\ \A k \in deleting : docs[k] = None

SafetyInv ==
  /\ TypeOK
  /\ NamesInv
  /\ LifeInv
  /\ ListedIsStored
  /\ OrphansAreOwned
  /\ DeletedOnce
  /\ GetIsWhatWasAdded

LEMMA SafetyInit == Init => SafetyInv
<1> SUFFICES ASSUME Init PROVE SafetyInv
  OBVIOUS
<1>1. TypeOK
  BY TypeInit
<1>2. \A c \in Calls : call[c].pc = "new"
  BY DEF Init, Idle
<1>3. QED
  BY <1>1, <1>2 DEF Init, SafetyInv, NamesInv, LifeInv, IsDelete, ListedIsStored,
     OrphansAreOwned, DeletedOnce, GetIsWhatWasAdded

LEMMA DeleteReplyType ==
  ASSUME NEW r \in Reply, r.op = "delete"
  PROVE  r.doc \in Calls
BY DEF Reply

\* What handlers do among themselves, between their writes, keeps SafetyInv.
LEMMA QuietStep ==
  ASSUME SafetyInv, TypeOK', NEW c \in Calls,
         docs' = docs, blobs' = blobs, reply' = reply, deleting' = deleting,
         abandoned' = abandoned, blurred' = blurred,
         \A e \in Calls \ {c} : call'[e] = call[e],
         call[c].pc \notin {"insert", "cleanup"},
         call'[c].pc \in {"save", "find", "remove", "stat", "read", "failed"},
         call'[c].pc = "save" => call[c].pc = "new",
         call'[c].pc \in {"remove", "stat", "read"} =>
           call'[c].seen.object = call'[c].req.doc,
         call'[c].pc = "read" => call'[c].opened = call'[c].req.doc
  PROVE  SafetyInv'
<1>1. NamesInv'
  BY DEF SafetyInv, NamesInv
<1>2. LifeInv'
  BY DEF SafetyInv, LifeInv, IsDelete
<1>3. ListedIsStored'
  BY DEF SafetyInv, ListedIsStored
<1>4. OrphansAreOwned'
  BY DEF SafetyInv, OrphansAreOwned
<1>5. DeletedOnce' /\ GetIsWhatWasAdded'
  BY DEF SafetyInv, DeletedOnce, GetIsWhatWasAdded
<1>6. QED
  BY <1>1, <1>2, <1>3, <1>4, <1>5 DEF SafetyInv

\* The put stores the object under the handler's own key.
LEMMA SaveSafe ==
  ASSUME SafetyInv, TypeOK', NEW c \in Calls, Save(c)
  PROVE  SafetyInv'
<1> USE DEF SafetyInv
<1>1. /\ blobs'[c] = c
      /\ \A k \in Calls \ {c} : blobs'[k] = blobs[k]
      /\ docs[c] = None
      /\ docs' = docs /\ reply' = reply /\ deleting' = deleting
      /\ blurred' = blurred /\ abandoned \subseteq abandoned'
  BY FailType DEF Save, TypeOK, LifeInv
<1>2. /\ \/ call'[c].pc = "insert"
         \/ call'[c].pc = "failed" /\ c \in abandoned'
      /\ \A e \in Calls \ {c} : call'[e] = call[e]
  BY FailType, GotoType DEF Save
<1>3. call[c].pc = "save"
  BY DEF Save
<1>4. NamesInv'
  BY <1>1, <1>2 DEF NamesInv
<1>5. LifeInv'
  BY <1>1, <1>2, <1>3 DEF LifeInv, IsDelete
<1>6. ListedIsStored'
  BY <1>1 DEF ListedIsStored, NamesInv
<1>7. OrphansAreOwned'
  BY <1>1, <1>2, <1>3 DEF OrphansAreOwned
<1>8. DeletedOnce' /\ GetIsWhatWasAdded'
  BY <1>1 DEF DeletedOnce, GetIsWhatWasAdded
<1>9. QED
  BY <1>4, <1>5, <1>6, <1>7, <1>8

\* The insert lists a document whose object is there; no delete ever named it.
LEMMA InsertSafe ==
  ASSUME SafetyInv, TypeOK', NEW c \in Calls, Insert(c)
  PROVE  SafetyInv'
<1> USE DEF SafetyInv
<1>1. call[c].pc = "insert" /\ call[c].req \in AddRequest
  BY DEF Insert, TypeOK
<1>2. /\ docs'[c] # None /\ docs'[c].object = c /\ docs'[c].checksum = c
      /\ \A d \in Calls \ {c} : docs'[d] = docs[d]
      /\ docs[c] = None /\ c \notin deleting /\ blobs[c] = c
      /\ blobs' = blobs /\ deleting' = deleting /\ abandoned' = abandoned
      /\ blurred \subseteq blurred'
  BY <1>1, MetadataType, NoneAssumption DEF Insert, TypeOK, LifeInv
<1>3. LET r == [op |-> "add", meta |-> MetadataOf(c)]
      IN  /\ \/ call'[c].pc = "done" /\ reply'[c] = r
             \/ call'[c].pc = "cleanup" /\ c \in blurred' /\ reply'[c] = reply[c]
          /\ \A e \in Calls \ {c} : call'[e] = call[e] /\ reply'[e] = reply[e]
  <2>1. [op |-> "add", meta |-> MetadataOf(c)] \in Reply
    BY <1>1, MetadataType DEF Reply
  <2>2. QED
    BY <2>1, SucceedType, GotoType DEF Insert, TypeOK
<1>4. \A e \in Calls : reply'[e] = reply[e] \/ reply'[e].op = "add"
  BY <1>3
<1>5. NamesInv'
  BY <1>1, <1>2, <1>3 DEF NamesInv
<1>6. LifeInv'
  BY <1>1, <1>2, <1>3, <1>4 DEF LifeInv, IsDelete, TypeOK
<1>7. ListedIsStored'
  BY <1>2 DEF ListedIsStored
<1>8. OrphansAreOwned'
  BY <1>2, <1>3 DEF OrphansAreOwned
<1>9. DeletedOnce'
  <2>1. \A e \in Calls : IsDelete(reply[e]) => reply[e].doc # c
    BY <1>1 DEF LifeInv
  <2>2. \A e \in Calls : IsDelete(reply'[e]) =>
          reply'[e] = reply[e] /\ reply[e].doc \in Calls \ {c}
    BY <1>4, <2>1, DeleteReplyType DEF IsDelete, TypeOK
  <2>3. ASSUME NEW e \in Calls, IsDelete(reply'[e]) PROVE docs'[reply'[e].doc] = None
    BY <1>2, <2>2, <2>3 DEF DeletedOnce, IsDelete
  <2>4. ASSUME NEW e \in Calls, IsDelete(reply'[e]), NEW x \in Calls \ {e}
        PROVE  reply'[x] # reply'[e]
    BY <1>4, <2>2, <2>4 DEF DeletedOnce, IsDelete
  <2>5. QED
    BY <2>3, <2>4 DEF DeletedOnce, IsDelete
<1>10. GetIsWhatWasAdded'
  BY <1>4 DEF GetIsWhatWasAdded
<1>11. QED
  BY <1>5, <1>6, <1>7, <1>8, <1>9, <1>10

\* An object is only deleted when nobody listed it, or with a blurred insert.
LEMMA CleanupSafe ==
  ASSUME SafetyInv, TypeOK', NEW c \in Calls, Cleanup(c)
  PROVE  SafetyInv'
<1> USE DEF SafetyInv
<1>1. /\ call[c].pc = "cleanup" /\ call'[c].pc = "failed"
      /\ \A e \in Calls \ {c} : call'[e] = call[e]
      /\ docs' = docs /\ reply' = reply /\ deleting' = deleting
      /\ blurred' = blurred /\ abandoned \subseteq abandoned'
      /\ docs[c] = None \/ c \in blurred
      /\ \A k \in Calls \ {c} : blobs'[k] = blobs[k]
      /\ \/ blobs'[c] = None
         \/ blobs'[c] = blobs[c] /\ c \in abandoned'
  BY FailType DEF Cleanup, TypeOK, LifeInv
<1>2. NamesInv'
  BY <1>1 DEF NamesInv
<1>3. LifeInv'
  BY <1>1 DEF LifeInv, IsDelete
<1>4. ListedIsStored'
  BY <1>1 DEF ListedIsStored, NamesInv
<1>5. OrphansAreOwned'
  BY <1>1 DEF OrphansAreOwned
<1>6. DeletedOnce' /\ GetIsWhatWasAdded'
  BY <1>1 DEF DeletedOnce, GetIsWhatWasAdded
<1>7. QED
  BY <1>2, <1>3, <1>4, <1>5, <1>6

LEMMA InsertFailsSafe ==
  ASSUME SafetyInv, TypeOK', NEW c \in Calls, InsertFails(c)
  PROVE  SafetyInv'
<1> USE DEF SafetyInv
<1>1. /\ call[c].pc = "insert" /\ call'[c].pc = "cleanup"
      /\ \A e \in Calls \ {c} : call'[e] = call[e]
      /\ docs' = docs /\ blobs' = blobs /\ reply' = reply
      /\ deleting' = deleting /\ abandoned' = abandoned /\ blurred' = blurred
  BY GotoType DEF InsertFails
<1>2. NamesInv' /\ LifeInv'
  BY <1>1 DEF NamesInv, LifeInv, IsDelete
<1>3. ListedIsStored' /\ OrphansAreOwned'
  BY <1>1 DEF ListedIsStored, OrphansAreOwned
<1>4. DeletedOnce' /\ GetIsWhatWasAdded'
  BY <1>1 DEF DeletedOnce, GetIsWhatWasAdded
<1>5. QED
  BY <1>2, <1>3, <1>4

\* Only one delete finds the record; it hands the object to its goroutine.
LEMMA RemoveSafe ==
  ASSUME SafetyInv, TypeOK', NEW c \in Calls, Remove(c)
  PROVE  SafetyInv'
<1> USE DEF SafetyInv
<1> DEFINE d == call[c].req.doc
           r == [op |-> "delete", doc |-> d]
<1>1. /\ call[c].pc = "remove" /\ d \in Calls /\ docs[d] # None
      /\ call[c].seen.object = d
  BY DEF Remove, TypeOK, DocRequest, NamesInv
<1>2. r \in Reply
  BY <1>1 DEF Reply
<1>3. /\ docs'[d] = None
      /\ \A e \in Calls \ {d} : docs'[e] = docs[e]
      /\ blobs' = blobs /\ blurred' = blurred
  BY <1>1 DEF Remove, TypeOK
<1>4. /\ \A e \in Calls \ {c} : call'[e] = call[e] /\ reply'[e] = reply[e]
      /\ \/ /\ call'[c].pc = "done" /\ reply'[c] = r
            /\ deleting' = deleting \cup {d} /\ abandoned' = abandoned
         \/ /\ call'[c].pc = "failed" /\ reply'[c] = reply[c]
            /\ deleting' = deleting /\ abandoned' = abandoned \cup {d}
  BY <1>1, <1>2, FailType, SucceedType DEF Remove
<1>5. r.op = "delete" /\ r.doc = d
  OBVIOUS
<1> HIDE DEF d, r
<1>6. call[d].pc \notin {"new", "save", "insert"}
  BY <1>1 DEF LifeInv
<1>7. NamesInv'
  BY <1>1, <1>3, <1>4 DEF NamesInv
<1>8. LifeInv'
  <2>1. ASSUME NEW e \in Calls, call'[e].pc \in {"new", "save", "insert"}
        PROVE  /\ docs'[e] = None
               /\ e \notin deleting'
               /\ \A x \in Calls : IsDelete(reply'[x]) => reply'[x].doc # e
    BY <1>3, <1>4, <1>5, <1>6, <2>1 DEF LifeInv, IsDelete
  <2>2. QED
    BY <1>3, <1>4, <2>1 DEF LifeInv, TypeOK
<1>9. ListedIsStored'
  BY <1>3 DEF ListedIsStored
<1>10. OrphansAreOwned'
  BY <1>1, <1>3, <1>4 DEF OrphansAreOwned
<1>11. DeletedOnce'
  <2>1. \A e \in Calls : IsDelete(reply[e]) => reply[e].doc \in Calls \ {d}
    BY <1>1, DeleteReplyType DEF IsDelete, DeletedOnce, TypeOK
  <2>2. ASSUME NEW e \in Calls, IsDelete(reply'[e]) PROVE docs'[reply'[e].doc] = None
    BY <1>3, <1>4, <1>5, <2>1, <2>2 DEF DeletedOnce, IsDelete
  <2>3. \A e \in Calls : reply[e] # r
    BY <1>5, <2>1, <1>2, NoneAssumption DEF IsDelete
  <2>4. ASSUME NEW e \in Calls, IsDelete(reply'[e]), NEW x \in Calls \ {e}
        PROVE  reply'[x] # reply'[e]
    BY <1>4, <2>3, <2>4 DEF DeletedOnce, IsDelete
  <2>5. QED
    BY <2>2, <2>4 DEF DeletedOnce, IsDelete
<1>12. GetIsWhatWasAdded'
  BY <1>4, <1>5 DEF GetIsWhatWasAdded
<1>13. QED
  BY <1>7, <1>8, <1>9, <1>10, <1>11, <1>12

\* A download returns what the handler opened, under the document's own key.
LEMMA ReadAllSafe ==
  ASSUME SafetyInv, TypeOK', NEW c \in Calls, ReadAll(c)
  PROVE  SafetyInv'
<1> USE DEF SafetyInv
<1> DEFINE r == [op |-> "get", doc |-> call[c].req.doc, content |-> call[c].opened]
<1>1. /\ call[c].pc = "read" /\ r.op = "get" /\ r.content = r.doc
      /\ docs' = docs /\ blobs' = blobs /\ deleting' = deleting
      /\ abandoned' = abandoned /\ blurred' = blurred
  BY DEF ReadAll, NamesInv
<1>2. r \in Reply
  BY <1>1 DEF TypeOK, DocRequest, Reply
<1>3. /\ call'[c].pc \in {"done", "failed"}
      /\ reply'[c] \in {r, reply[c]}
      /\ \A e \in Calls \ {c} : call'[e] = call[e] /\ reply'[e] = reply[e]
  BY <1>2, FailType, SucceedType DEF ReadAll
<1> HIDE DEF r
<1>4. \A e \in Calls : reply'[e] = reply[e] \/ reply'[e] = r
  BY <1>3
<1>5. NamesInv' /\ ListedIsStored' /\ OrphansAreOwned'
  BY <1>1, <1>3 DEF NamesInv, ListedIsStored, OrphansAreOwned
<1>6. LifeInv'
  BY <1>1, <1>3, <1>4 DEF LifeInv, IsDelete
<1>7. DeletedOnce'
  BY <1>1, <1>4 DEF DeletedOnce
<1>8. GetIsWhatWasAdded'
  BY <1>1, <1>4 DEF GetIsWhatWasAdded
<1>9. QED
  BY <1>5, <1>6, <1>7, <1>8

\* The goroutine's record has gone before.
LEMMA DeleteBlobSafe ==
  ASSUME SafetyInv, TypeOK', NEW k \in Calls, DeleteBlob(k)
  PROVE  SafetyInv'
<1> USE DEF SafetyInv
<1>1. /\ k \in deleting /\ docs[k] = None /\ call[k].pc # "insert"
      /\ deleting' = deleting \ {k}
      /\ docs' = docs /\ call' = call /\ reply' = reply /\ blurred' = blurred
      /\ abandoned \subseteq abandoned'
      /\ \A e \in Calls \ {k} : blobs'[e] = blobs[e]
      /\ \/ blobs'[k] = None
         \/ blobs'[k] = blobs[k] /\ k \in abandoned'
  BY DEF DeleteBlob, TypeOK, LifeInv
<1>2. NamesInv'
  BY <1>1 DEF NamesInv
<1>3. LifeInv'
  BY <1>1 DEF LifeInv, IsDelete
<1>4. ListedIsStored'
  BY <1>1 DEF ListedIsStored, NamesInv
<1>5. OrphansAreOwned'
  BY <1>1 DEF OrphansAreOwned
<1>6. DeletedOnce' /\ GetIsWhatWasAdded'
  BY <1>1 DEF DeletedOnce, GetIsWhatWasAdded
<1>7. QED
  BY <1>2, <1>3, <1>4, <1>5, <1>6

\* The process ends, with or without its handlers, and comes back.
LEMMA LifecycleSafe ==
  ASSUME SafetyInv, TypeOK', Stop \/ Exit \/ Crash \/ Restart \/ UNCHANGED vars
  PROVE  SafetyInv'
<1> USE DEF SafetyInv
<1>1. /\ docs' = docs /\ blobs' = blobs /\ reply' = reply /\ blurred' = blurred
      /\ deleting' \subseteq deleting
      /\ abandoned \cup (deleting \ deleting') \subseteq abandoned'
  BY DEF Stop, Exit, Crash, Restart, vars, TypeOK
<1>2. ASSUME NEW c \in Calls
      PROVE  \/ call'[c] = call[c]
             \/ /\ call'[c].pc = "failed"
                /\ call[c].pc \in {"insert", "cleanup"} => c \in abandoned'
  BY IdleType DEF Stop, Exit, Crash, Restart, vars, TypeOK
<1>3. NamesInv'
  BY <1>1, <1>2 DEF NamesInv
<1>4. LifeInv'
  BY <1>1, <1>2 DEF LifeInv, IsDelete
<1>5. ListedIsStored' /\ DeletedOnce' /\ GetIsWhatWasAdded'
  BY <1>1 DEF ListedIsStored, DeletedOnce, GetIsWhatWasAdded
<1>6. OrphansAreOwned'
  BY <1>1, <1>2 DEF OrphansAreOwned
<1>7. QED
  BY <1>3, <1>4, <1>5, <1>6

LEMMA SafetyStep == SafetyInv /\ [Next]_vars => SafetyInv'
<1> SUFFICES ASSUME SafetyInv, [Next]_vars PROVE SafetyInv'
  OBVIOUS
<1>1. TypeOK /\ TypeOK' /\ NamesInv
  BY TypeStep DEF SafetyInv
<1>2. ASSUME NEW c \in Calls,
             Reject(c) \/ RemoveGone(c) \/ StoreError(c) \/ Leave(c)
      PROVE  SafetyInv'
  <2>1. call'[c].pc = "failed" /\ reply' = reply
        /\ \A e \in Calls \ {c} : call'[e] = call[e]
    BY <1>1, <1>2, FailType DEF Reject, RemoveGone, StoreError, Leave
  <2>2. call[c].pc \notin {"insert", "cleanup"}
    BY <1>1, <1>2 DEF Reject, RemoveGone, StoreError, Leave, TypeOK, Unbounded
  <2>3. QED
    BY <1>1, <1>2, <2>1, <2>2, QuietStep
       DEF Reject, RemoveGone, StoreError, Leave
<1>3. ASSUME NEW c \in Calls, NEW by \in Users, NEW owner \in Users,
             ReceiveAdd(c, by, owner)
      PROVE  SafetyInv'
  <2>1. call'[c].pc = "save" /\ \A e \in Calls \ {c} : call'[e] = call[e]
    BY <1>1, <1>3 DEF ReceiveAdd, TypeOK, Handler
  <2>2. QED
    BY <1>1, <1>3, <2>1, QuietStep DEF ReceiveAdd
<1>4. ASSUME NEW c \in Calls, NEW r \in DocRequest, ReceiveDoc(c, r)
      PROVE  SafetyInv'
  <2>1. call'[c].pc = "find" /\ \A e \in Calls \ {c} : call'[e] = call[e]
    BY <1>1, <1>4 DEF ReceiveDoc, TypeOK, Handler
  <2>2. QED
    BY <1>1, <1>4, <2>1, QuietStep DEF ReceiveDoc
<1>5. ASSUME NEW c \in Calls, Find(c) PROVE SafetyInv'
  <2>1. call[c].req.doc \in Calls
    BY <1>1, <1>5 DEF Find, TypeOK, DocRequest
  <2>2. /\ \/ call'[c].pc = "failed"
           \/ /\ call'[c].pc \in {"stat", "remove"}
              /\ call'[c].seen.object = call'[c].req.doc
        /\ reply' = reply
        /\ \A e \in Calls \ {c} : call'[e] = call[e]
    <3>1. CASE Fail(c)
      BY <1>1, <3>1, FailType
    <3>2. CASE ~Fail(c)
      BY <1>1, <1>5, <2>1, <3>2 DEF Find, TypeOK, Handler, NamesInv
    <3>3. QED
      BY <3>1, <3>2
  <2>3. QED
    BY <1>1, <1>5, <2>2, QuietStep DEF Find
<1>6. ASSUME NEW c \in Calls, Open(c) PROVE SafetyInv'
  <2>1. call[c].seen.object \in Calls
    BY <1>1, <1>6 DEF Open, TypeOK, Metadata
  <2>2. /\ \/ call'[c].pc = "failed"
           \/ /\ call'[c].pc = "read"
              /\ call'[c].seen.object = call'[c].req.doc
              /\ call'[c].opened = call'[c].req.doc
        /\ reply' = reply
        /\ \A e \in Calls \ {c} : call'[e] = call[e]
    <3>1. CASE Fail(c)
      BY <1>1, <3>1, FailType
    <3>2. CASE ~Fail(c)
      <4> DEFINE k == call[c].seen.object
      <4>1. /\ call' = [call EXCEPT ![c].pc = "read", ![c].opened = blobs[k]]
            /\ reply' = reply
        BY <1>6, <3>2 DEF Open
      <4>2. call[c] \in Handler /\ k = call[c].req.doc /\ blobs[k] = k
        BY <1>1, <1>6, <2>1, <3>2 DEF Open, TypeOK, NamesInv
      <4>3. /\ call'[c] = [call[c] EXCEPT !.pc = "read", !.opened = blobs[k]]
            /\ \A e \in Calls \ {c} : call'[e] = call[e]
        BY <1>1, <4>1 DEF TypeOK
      <4>4. /\ call'[c].pc = "read" /\ call'[c].opened = blobs[k]
            /\ call'[c].req = call[c].req /\ call'[c].seen = call[c].seen
        BY <4>2, <4>3 DEF Handler
      <4>5. QED
        BY <4>1, <4>2, <4>3, <4>4
    <3>3. QED
      BY <3>1, <3>2
  <2>3. QED
    BY <1>1, <1>6, <2>2, QuietStep DEF Open
<1>7. ASSUME NEW c \in Calls, Hang(c) \/ Wake(c) PROVE SafetyInv'
  BY <1>1, <1>7 DEF Hang, Wake, SafetyInv, NamesInv, LifeInv, IsDelete,
                    ListedIsStored, OrphansAreOwned, DeletedOnce,
                    GetIsWhatWasAdded
<1>8. QED
  BY <1>1, <1>2, <1>3, <1>4, <1>5, <1>6, <1>7, SaveSafe, InsertSafe, CleanupSafe,
     InsertFailsSafe, RemoveSafe, ReadAllSafe, DeleteBlobSafe, LifecycleSafe
     DEF Next, Receive, Step

LEMMA Safety == Spec => []SafetyInv
BY SafetyInit, SafetyStep, PTL DEF Spec

\* A listed document can be downloaded and is the one uploaded, in whatever
\* order calls, failures and restarts come, unless its own insert was reported
\* failed (service.go 98-121, 138-146).
THEOREM ListedCanBeDownloaded == Spec => []ListedIsStored
<1>1. SafetyInv => ListedIsStored
  BY DEF SafetyInv
<1>2. QED
  BY <1>1, Safety, PTL

\* No object is forgotten: it has its record, or a handler or goroutine that is
\* about to see to it, or a fault cut that short (service.go 113-116, 142-146).
THEOREM OrphansHaveOwners == Spec => []OrphansAreOwned
<1>1. SafetyInv => OrphansAreOwned
  BY DEF SafetyInv
<1>2. QED
  BY <1>1, Safety, PTL

\* At most one delete of a document succeeds, and it stays deleted
\* (repository.go 64-73).
THEOREM DeleteSucceedsOnce == Spec => []DeletedOnce
<1>1. SafetyInv => DeletedOnce
  BY DEF SafetyInv
<1>2. QED
  BY <1>1, Safety, PTL

\* A successful download is the content of the upload it names, even when the
\* document is deleted meanwhile (service.go 157-180).
THEOREM DownloadIsUpload == Spec => []GetIsWhatWasAdded
<1>1. SafetyInv => GetIsWhatWasAdded
  BY DEF SafetyInv
<1>2. QED
  BY <1>1, Safety, PTL
-----------------------------------------------------------------------------
(* Refinement: the service implements DocumentRegistry.  A call that is    *)
(* not over has not been answered, and an add that has not reached its     *)
(* insert has listed nothing; a handler is on the path of its request.     *)

AnswerInv ==
  \A c \in Calls :
    /\ reply[c] # None => call[c].pc = "done"
    /\ call[c].pc \in {"new", "save", "insert"} => c \notin blurred
    /\ call[c].pc = "remove" => call[c].req.op = "delete"
    /\ call[c].pc \in {"stat", "read"} => call[c].req.op = "get"

RefinementInv == SafetyInv /\ AnswerInv

LEMMA AnswerStep == SafetyInv /\ AnswerInv /\ [Next]_vars => AnswerInv'
<1> SUFFICES ASSUME SafetyInv, AnswerInv, [Next]_vars PROVE AnswerInv'
  OBVIOUS
<1> USE DEF AnswerInv
<1>1. TypeOK
  BY DEF SafetyInv
<1>2. ASSUME NEW c \in Calls,
             \/ Reject(c) \/ Cleanup(c) \/ RemoveGone(c) \/ StoreError(c)
             \/ Leave(c)
      PROVE  AnswerInv'
  <2>1. Fail(c) /\ blurred' = blurred
    BY <1>2 DEF Reject, Cleanup, RemoveGone, StoreError, Leave
  <2>2. call[c].pc # "done"
    BY <1>1, <1>2 DEF Reject, Cleanup, RemoveGone, StoreError, Leave, TypeOK,
                      Unbounded
  <2>3. QED
    BY <1>1, <2>1, <2>2, FailType
<1>3. ASSUME NEW c \in Calls, NEW by \in Users, NEW owner \in Users,
             ReceiveAdd(c, by, owner)
      PROVE  AnswerInv'
  <2>1. call'[c].pc = "save" /\ \A e \in Calls \ {c} : call'[e] = call[e]
    BY <1>1, <1>3 DEF ReceiveAdd, TypeOK, Handler
  <2>2. QED
    BY <1>3, <2>1 DEF ReceiveAdd
<1>4. ASSUME NEW c \in Calls, NEW r \in DocRequest, ReceiveDoc(c, r)
      PROVE  AnswerInv'
  <2>1. call'[c].pc = "find" /\ \A e \in Calls \ {c} : call'[e] = call[e]
    BY <1>1, <1>4 DEF ReceiveDoc, TypeOK, Handler
  <2>2. QED
    BY <1>4, <2>1 DEF ReceiveDoc
<1>5. ASSUME NEW c \in Calls, Save(c) \/ InsertFails(c) PROVE AnswerInv'
  BY <1>1, <1>5, FailType, GotoType DEF Save, InsertFails
<1>6. ASSUME NEW c \in Calls, Insert(c) PROVE AnswerInv'
  <2>1. [op |-> "add", meta |-> MetadataOf(c)] \in Reply
    BY <1>1, <1>6, MetadataType DEF TypeOK, Insert, Reply
  <2>2. QED
    BY <1>1, <1>6, <2>1, SucceedType, GotoType DEF Insert
<1>7. ASSUME NEW c \in Calls, Find(c) \/ Open(c) PROVE AnswerInv'
  <2>1. CASE Fail(c)
    BY <1>1, <1>7, <2>1, FailType DEF Find, Open
  <2>2. CASE ~Fail(c)
    BY <1>1, <1>7, <2>2 DEF Find, Open, TypeOK, Handler, DocRequest
  <2>3. QED
    BY <2>1, <2>2
<1>8. ASSUME NEW c \in Calls, Remove(c) PROVE AnswerInv'
  <2>1. [op |-> "delete", doc |-> call[c].req.doc] \in Reply
    BY <1>1, <1>8 DEF TypeOK, Remove, DocRequest, Reply
  <2>2. QED
    BY <1>1, <1>8, <2>1, FailType, SucceedType DEF Remove
<1>9. ASSUME NEW c \in Calls, ReadAll(c) PROVE AnswerInv'
  <2>1. [op |-> "get", doc |-> call[c].req.doc, content |-> call[c].opened]
          \in Reply
    BY <1>1, <1>9 DEF TypeOK, ReadAll, DocRequest, Reply
  <2>2. QED
    BY <1>1, <1>9, <2>1, FailType, SucceedType DEF ReadAll
<1>10. ASSUME NEW k \in Calls, DeleteBlob(k) PROVE AnswerInv'
  BY <1>10 DEF DeleteBlob
<1>11. CASE Stop \/ Exit \/ Restart \/ UNCHANGED vars
  BY <1>11 DEF Stop, Exit, Restart, vars
<1>12. CASE Crash
  <2>1. \A c \in Calls : c \in Active => reply[c] = None /\ call'[c].pc = "failed"
    BY <1>1, <1>12, IdleType DEF Crash, Active
  <2>2. \A c \in Calls : c \notin Active => call'[c] = call[c]
    BY <1>12 DEF Crash
  <2>3. QED
    BY <1>12, <2>1, <2>2 DEF Crash
<1>13. ASSUME NEW c \in Calls, Hang(c) \/ Wake(c) PROVE AnswerInv'
  BY <1>13 DEF Hang, Wake
<1>14. QED
  BY <1>2, <1>3, <1>4, <1>5, <1>6, <1>7, <1>8, <1>9, <1>10, <1>11, <1>12, <1>13
     DEF Next, Receive, Step

LEMMA RefinementInvariant == Spec => []RefinementInv
<1>1. Init => RefinementInv
  BY SafetyInit DEF RefinementInv, AnswerInv, Init, Idle
<1>2. RefinementInv /\ [Next]_vars => RefinementInv'
  BY SafetyStep, AnswerStep DEF RefinementInv
<1>3. QED
  BY <1>1, <1>2, PTL DEF Spec

\* The registry's view of the state, and what a step leaves of it.
Holding == {"remove", "stat", "read"}

HeldView == [c \in Calls |-> IF call[c].pc \in Holding THEN call[c].req ELSE None]

AnswerView == [c \in Calls |-> Told(reply[c])]

UsedView == blurred \cup {c \in Calls : reply[c] # None /\ reply[c].op = "add"}

View == <<ListedOwner, UsedView, HeldView, AnswerView>>

\* A step that only moves handlers that look nothing up is none of the registry.
LEMMA SameView ==
  ASSUME docs' = docs, reply' = reply, blurred' = blurred,
         \A c \in Calls : \/ call'[c] = call[c]
                          \/ /\ call[c].pc \notin Holding
                             /\ call'[c].pc \notin Holding
                          \/ /\ call[c].pc \in Holding
                             /\ call'[c].pc \in Holding
                             /\ call'[c].req = call[c].req
  PROVE  UNCHANGED View
<1>1. HeldView' = HeldView
  BY DEF HeldView
<1>2. ListedOwner' = ListedOwner /\ UsedView' = UsedView /\ AnswerView' = AnswerView
  BY DEF ListedOwner, UsedView, AnswerView, Told
<1>3. QED
  BY <1>1, <1>2 DEF View

\* A call that fails gives up.
LEMMA FailGivesUp ==
  ASSUME TypeOK, NEW c \in Calls, Fail(c), UNCHANGED <<docs, blurred>>
  PROVE  Registry!GiveUp({c})
<1>1. /\ reply' = reply /\ call'[c].pc = "failed"
      /\ \A e \in Calls \ {c} : call'[e] = call[e]
  BY FailType
<1>2. HeldView' = [e \in Calls |-> IF e \in {c} THEN None ELSE HeldView[e]]
  BY <1>1 DEF HeldView, Holding
<1>3. QED
  BY <1>1, <1>2 DEF Registry!GiveUp, HeldView, Holding, ListedOwner, Told
LEMMA AnswerGiven ==
  ASSUME TypeOK, NEW c \in Calls, NEW r, reply' = [reply EXCEPT ![c] = r]
  PROVE  AnswerView' = [AnswerView EXCEPT ![c] = Told(r)]
<1>1. \A e \in Calls : Told(reply'[e]) = IF e = c THEN Told(r) ELSE Told(reply[e])
  BY DEF TypeOK
<1>2. QED
  BY <1>1 DEF AnswerView

\* An insert lists the document, whatever the handler is told of it.
LEMMA InsertAdds ==
  ASSUME RefinementInv, NEW c \in Calls, Insert(c)
  PROVE  \E owner \in Users : Registry!Add(c, owner)
<1> USE DEF RefinementInv
<1> DEFINE r == [op |-> "add", meta |-> MetadataOf(c)]
<1>0. call[c].req \in AddRequest /\ call[c].req.owner \in Users
  BY DEF Insert, TypeOK, SafetyInv, AddRequest
<1> PICK owner \in Users : owner = call[c].req.owner
  BY <1>0
<1>1. /\ TypeOK /\ call[c].pc = "insert" /\ call[c].req \in AddRequest
      /\ owner \in Users /\ r \in Reply /\ r # None
      /\ r.op = "add" /\ r.meta.owner = owner
  BY MetadataType, NoneAssumption
     DEF Insert, TypeOK, SafetyInv, AddRequest, Reply, MetadataOf
<1>2. c \notin UsedView /\ reply[c] = None
  BY <1>1 DEF AnswerInv, UsedView
<1>3. /\ docs'[c] # None /\ docs'[c].owner = owner
      /\ docs' = [docs EXCEPT ![c] = docs'[c]]
  BY <1>1, MetadataType, NoneAssumption DEF Insert, TypeOK, MetadataOf
<1>4. ListedOwner' = [ListedOwner EXCEPT ![c] = owner]
  BY <1>1, <1>3 DEF ListedOwner, TypeOK
<1>5. /\ call'[c].pc \notin Holding
      /\ \A e \in Calls \ {c} : call'[e] = call[e] /\ reply'[e] = reply[e]
      /\ \/ reply' = [reply EXCEPT ![c] = r] /\ blurred' = blurred
         \/ ReplyLost /\ reply' = reply /\ blurred' = blurred \cup {c}
  BY <1>1, SucceedType, GotoType DEF Insert, Succeed, Holding
<1>6. HeldView' = HeldView
  BY <1>1, <1>5 DEF HeldView, Holding
<1>7. \/ AnswerView' = [AnswerView EXCEPT ![c] = [op |-> "add", owner |-> owner]]
      \/ Faults # {} /\ AnswerView' = AnswerView
  <2>1. CASE ReplyLost /\ reply' = reply
    BY <2>1 DEF AnswerView, Told, ReplyLost
  <2>2. CASE reply' = [reply EXCEPT ![c] = r]
    <3>1. Told(r) = [op |-> "add", owner |-> owner]
      BY <1>1 DEF Told
    <3>2. QED
      BY <1>1, <2>2, <3>1, AnswerGiven
  <2>3. QED
    BY <1>5, <2>1, <2>2
<1>8. UsedView' = UsedView \cup {c}
  <2>1. CASE ReplyLost /\ reply' = reply /\ blurred' = blurred \cup {c}
    BY <2>1 DEF UsedView
  <2>2. CASE reply' = [reply EXCEPT ![c] = r] /\ blurred' = blurred
    <3>1. reply'[c] = r
      BY <1>1, <2>2 DEF TypeOK
    <3>2. QED
      BY <1>1, <1>2, <1>5, <2>2, <3>1 DEF UsedView
  <2>3. QED
    BY <1>5, <2>1, <2>2
<1>9. Registry!Add(c, owner)
  BY <1>2, <1>4, <1>6, <1>7, <1>8
     DEF Registry!Add, UsedView, HeldView, AnswerView, Holding
<1>10. QED
  BY <1>9

\* A handler that finds the record, with the rights on it, has looked.
LEMMA FindLooks ==
  ASSUME RefinementInv, NEW c \in Calls, Find(c), ~Fail(c)
  PROVE  \E r \in DocRequest : Registry!Look(c, r)
<1> USE DEF RefinementInv
<1>0. call[c].req \in DocRequest
  BY DEF Find, TypeOK, SafetyInv
<1> PICK r \in DocRequest : r = call[c].req
  BY <1>0
<1>1. /\ TypeOK /\ call[c].pc = "find"
      /\ r.doc \in Calls /\ docs[r.doc] \in Metadata
      /\ docs[r.doc] # None /\ docs[r.doc].owner \in Users
      /\ MayActFor(r.by, docs[r.doc].owner)
  BY DEF Find, TypeOK, SafetyInv, DocRequest, Metadata
<1>2. /\ call'[c].pc \in Holding /\ call'[c].req = r
      /\ \A e \in Calls \ {c} : call'[e] = call[e]
      /\ docs' = docs /\ reply' = reply /\ blurred' = blurred
  BY <1>1 DEF Find, TypeOK, Handler, Holding
<1>3. reply[c] = None
  BY <1>1 DEF AnswerInv
<1>4. /\ HeldView[c] = None /\ AnswerView[c] = None
      /\ HeldView' = [HeldView EXCEPT ![c] = r]
  BY <1>1, <1>2, <1>3 DEF HeldView, AnswerView, Told, Holding
<1>5. /\ ListedOwner[r.doc] = docs[r.doc].owner
      /\ ListedOwner[r.doc] # None
  BY <1>1, NoneAssumption DEF ListedOwner
<1>6. UNCHANGED <<ListedOwner, UsedView, AnswerView>>
  BY <1>2 DEF ListedOwner, UsedView, AnswerView, Told
<1>7. Registry!Look(c, r)
  BY <1>1, <1>4, <1>5, <1>6
     DEF Registry!Look, Registry!Mine, MayActFor, UsedView, HeldView,
         AnswerView, Holding
<1>8. QED
  BY <1>7

\* A delete takes the record away before it answers, or fails to.
LEMMA RemoveDeletes ==
  ASSUME RefinementInv, NEW c \in Calls, Remove(c)
  PROVE  Registry!Delete(c)
<1> USE DEF RefinementInv
<1> DEFINE d == call[c].req.doc
           r == [op |-> "delete", doc |-> d]
<1>1. /\ TypeOK /\ call[c].pc = "remove" /\ call[c].req \in DocRequest
      /\ d \in Calls /\ docs[d] \in Metadata /\ docs[d] # None
      /\ docs[d].owner \in Users
      /\ r \in Reply /\ r # None /\ r.op = "delete"
  BY NoneAssumption DEF Remove, TypeOK, SafetyInv, DocRequest, Metadata, Reply
<1>2. reply[c] = None
  BY <1>1 DEF AnswerInv
<1>3. docs' = [docs EXCEPT ![d] = None] /\ blurred' = blurred
  BY DEF Remove
<1>4. /\ call'[c].pc \notin Holding
      /\ \A e \in Calls \ {c} : call'[e] = call[e] /\ reply'[e] = reply[e]
      /\ \/ reply' = [reply EXCEPT ![c] = r]
         \/ Faults # {} /\ reply' = reply
  BY <1>1, FailType, SucceedType DEF Remove, Succeed, Holding, ReplyLost
<1>5. ListedOwner' = [ListedOwner EXCEPT ![d] = None] /\ ListedOwner[d] # None
  BY <1>1, <1>3, NoneAssumption DEF ListedOwner, TypeOK
<1>6. HeldView' = [HeldView EXCEPT ![c] = None]
  BY <1>4 DEF HeldView
<1>7. \/ AnswerView' = [AnswerView EXCEPT ![c] = r]
      \/ Faults # {} /\ AnswerView' = AnswerView
  <2>1. CASE Faults # {} /\ reply' = reply
    BY <2>1 DEF AnswerView, Told
  <2>2. CASE reply' = [reply EXCEPT ![c] = r]
    <3>1. Told(r) = r
      BY <1>1 DEF Told
    <3>2. QED
      BY <1>1, <2>2, <3>1, AnswerGiven
  <2>3. QED
    BY <1>4, <2>1, <2>2
<1>8. UsedView' = UsedView
  <2>1. \A e \in Calls : (reply'[e] # None /\ reply'[e].op = "add")
                           <=> (reply[e] # None /\ reply[e].op = "add")
    BY <1>1, <1>2, <1>4 DEF TypeOK
  <2>2. QED
    BY <1>3, <2>1 DEF UsedView
<1>9. HeldView[c] = call[c].req /\ call[c].req.op = "delete" /\ HeldView[c] # None
  <2>1. call[c].req.op = "delete"
    BY <1>1 DEF AnswerInv
  <2>2. QED
    BY <1>1, <2>1, NoneAssumption DEF HeldView, Holding
<1>10. QED
  BY <1>5, <1>6, <1>7, <1>8, <1>9
     DEF Registry!Delete, UsedView, HeldView, AnswerView, Holding
\* A download answers with what the add of that document brought, or gives up.
LEMMA ReadAllGets ==
  ASSUME RefinementInv, NEW c \in Calls, ReadAll(c), ~Fail(c)
  PROVE  Registry!Get(c)
<1> USE DEF RefinementInv
<1> DEFINE d == call[c].req.doc
           r == [op |-> "get", doc |-> d, content |-> d]
<1>1. /\ TypeOK /\ call[c].pc = "read" /\ call[c].req \in DocRequest
      /\ d \in Calls /\ call[c].opened = d /\ call[c].req.op = "get"
      /\ r \in Reply /\ r # None /\ r.op = "get"
  BY NoneAssumption
     DEF ReadAll, TypeOK, SafetyInv, NamesInv, AnswerInv, DocRequest, Reply
<1>2. /\ reply[c] = None
      /\ docs' = docs /\ blurred' = blurred
      /\ reply' = [reply EXCEPT ![c] = r]
      /\ call'[c].pc \notin Holding
      /\ \A e \in Calls \ {c} : call'[e] = call[e] /\ reply'[e] = reply[e]
  BY <1>1, SucceedType DEF ReadAll, Succeed, AnswerInv, Holding
<1>3. reply'[c] = r /\ Told(r) = r
  BY <1>1, <1>2 DEF TypeOK, Told
<1>4. AnswerView' = [AnswerView EXCEPT ![c] = r]
  <2>1. AnswerView' = [AnswerView EXCEPT ![c] = Told(r)]
    BY <1>1, <1>2, AnswerGiven
  <2>2. QED
    BY <1>3, <2>1
<1>5. HeldView' = [HeldView EXCEPT ![c] = None]
  BY <1>2 DEF HeldView
<1>6. HeldView[c] = call[c].req /\ HeldView[c] # None
  BY <1>1, NoneAssumption DEF HeldView, Holding
<1>7. UsedView' = UsedView /\ ListedOwner' = ListedOwner
  <2>1. \A e \in Calls : (reply'[e] # None /\ reply'[e].op = "add")
                           <=> (reply[e] # None /\ reply[e].op = "add")
    BY <1>1, <1>2, <1>3
  <2>2. QED
    BY <1>2, <2>1 DEF UsedView, ListedOwner
<1>8. QED
  BY <1>1, <1>4, <1>5, <1>6, <1>7
     DEF Registry!Get, UsedView, HeldView, AnswerView, Holding

LEMMA CrashGivesUp ==
  ASSUME TypeOK, Crash
  PROVE  \E S \in SUBSET Calls : Registry!GiveUp(S)
<1> PICK S \in SUBSET Calls : S = Active
  BY DEF Active
<1>1. \A c \in Calls : call'[c].pc = IF c \in Active THEN "failed" ELSE call[c].pc
  BY IdleType DEF Crash
<1>2. \A c \in Calls \ Active : call'[c] = call[c] /\ call[c].pc \notin Holding
  BY DEF Crash, Active, Holding
<1>3. HeldView' = [c \in Calls |-> IF c \in S THEN None ELSE HeldView[c]]
  BY <1>1, <1>2 DEF HeldView, Holding
<1>4. Registry!GiveUp(S)
  BY <1>3 DEF Crash, Registry!GiveUp, HeldView, Holding, ListedOwner, Told
<1>5. QED
  BY <1>4

\* A step of the service is a step of the registry, or none.
LEMMA RegistryStep ==
  ASSUME RefinementInv, [Next]_vars
  PROVE  [Registry!Next]_View
<1>1. TypeOK
  BY DEF RefinementInv, SafetyInv
<1>2. ASSUME NEW c \in Calls, Fail(c), UNCHANGED <<docs, blurred>>
      PROVE  Registry!Next
  BY <1>1, <1>2, FailGivesUp DEF Registry!Next
<1>3. ASSUME NEW c \in Calls,
             \/ Reject(c) \/ RemoveGone(c) \/ StoreError(c) \/ Cleanup(c)
             \/ Leave(c)
      PROVE  Registry!Next
  BY <1>2, <1>3 DEF Reject, RemoveGone, StoreError, Cleanup, Leave
<1>4. ASSUME NEW c \in Calls, NEW by \in Users, NEW owner \in Users,
             ReceiveAdd(c, by, owner)
      PROVE  UNCHANGED View
  BY <1>1, <1>4, SameView DEF ReceiveAdd, TypeOK, Handler, Holding
<1>5. ASSUME NEW c \in Calls, NEW r \in DocRequest, ReceiveDoc(c, r)
      PROVE  UNCHANGED View
  BY <1>1, <1>5, SameView DEF ReceiveDoc, TypeOK, Handler, Holding
<1>6. ASSUME NEW c \in Calls, Save(c) \/ InsertFails(c)
      PROVE  [Registry!Next]_View
  <2>1. CASE Fail(c)
    BY <1>2, <1>6, <2>1 DEF Save, InsertFails
  <2>2. CASE ~Fail(c)
    BY <1>1, <1>6, <2>2, GotoType, SameView DEF Save, InsertFails, Holding
  <2>3. QED
    BY <2>1, <2>2
<1>7. ASSUME NEW c \in Calls, Insert(c) PROVE Registry!Next
  BY <1>7, InsertAdds DEF Registry!Next
<1>8. ASSUME NEW c \in Calls, Find(c) PROVE Registry!Next
  <2>1. CASE Fail(c)
    BY <1>2, <1>8, <2>1 DEF Find
  <2>2. CASE ~Fail(c)
    BY <1>8, <2>2, FindLooks DEF Registry!Next, Registry!Request, DocRequest
  <2>3. QED
    BY <2>1, <2>2
<1>9. ASSUME NEW c \in Calls, Remove(c) PROVE Registry!Next
  BY <1>9, RemoveDeletes DEF Registry!Next
<1>10. ASSUME NEW c \in Calls, Open(c) PROVE [Registry!Next]_View
  <2>1. CASE Fail(c)
    BY <1>2, <1>10, <2>1 DEF Open
  <2>2. CASE ~Fail(c)
    <3>1. /\ call[c].pc \in Holding /\ call'[c].pc \in Holding
          /\ call'[c].req = call[c].req
          /\ \A e \in Calls \ {c} : call'[e] = call[e]
          /\ docs' = docs /\ reply' = reply /\ blurred' = blurred
      BY <1>1, <1>10, <2>2 DEF Open, TypeOK, Handler, Holding
    <3>2. QED
      BY <3>1, SameView
  <2>3. QED
    BY <2>1, <2>2
<1>11. ASSUME NEW c \in Calls, ReadAll(c) PROVE Registry!Next
  <2>1. CASE Fail(c)
    BY <1>2, <1>11, <2>1 DEF ReadAll
  <2>2. CASE ~Fail(c)
    BY <1>11, <2>2, ReadAllGets DEF Registry!Next
  <2>3. QED
    BY <2>1, <2>2
<1>12. ASSUME NEW k \in Calls, DeleteBlob(k) PROVE UNCHANGED View
  BY <1>12, SameView DEF DeleteBlob
<1>13. CASE Stop \/ Exit \/ Restart \/ UNCHANGED vars
  BY <1>13, SameView DEF Stop, Exit, Restart, vars
<1>14. CASE Crash
  BY <1>1, <1>14, CrashGivesUp DEF Registry!Next
<1>15. ASSUME NEW c \in Calls, Hang(c) \/ Wake(c) PROVE UNCHANGED View
  BY <1>15, SameView DEF Hang, Wake
<1>16. QED
  BY <1>3, <1>4, <1>5, <1>6, <1>7, <1>8, <1>9, <1>10, <1>11, <1>12, <1>13, <1>14,
     <1>15 DEF Next, Receive, Step

\* The service, with its two stores and no transaction, implements the list of
\* documents whose every call is atomic (service.go 68-181).
THEOREM RegistryImplemented == Spec => ImplementsRegistry
<1>1. Init => Registry!Init
  BY DEF Init, Idle, Registry!Init, ListedOwner, Told
<1>2. RefinementInv /\ [Next]_vars =>
        [Registry!Next]_<<ListedOwner,
               blurred \cup {c \in Calls : reply[c] # None /\ reply[c].op = "add"},
               [c \in Calls |-> IF call[c].pc \in {"remove", "stat", "read"}
                                THEN call[c].req ELSE None],
               [c \in Calls |-> Told(reply[c])]>>
  BY RegistryStep DEF View, UsedView, HeldView, AnswerView, Holding
<1>3. QED
  BY <1>1, <1>2, RefinementInvariant, PTL
     DEF Spec, ImplementsRegistry, Registry!Spec
=============================================================================
