-------------------------- MODULE DocumentService --------------------------
(***************************************************************************)
(* The document service (document/internal/document): a document is a      *)
(* metadata record in a MongoDB collection and an object in a MinIO        *)
(* bucket.  The two stores are written one after the other, without a      *)
(* transaction, by handlers that overlap; the object of a deleted document *)
(* is removed by a goroutine nobody waits for.                             *)
(*                                                                         *)
(* Calls is the set of RPCs the service ever receives.  uuid.New and       *)
(* MongoDB give each Add an object key and a document id that no other     *)
(* Add has: both are named here by the call.  So is the content it brings. *)
(***************************************************************************)
EXTENDS Naturals, FiniteSets

CONSTANTS
  Calls,    \* the RPCs received, each handled once
  Users,    \* user ids in tokens
  Admins,   \* users with role admin
  None,     \* no record, no object, no value
  Faults    \* which of FaultKinds the environment may inject

FaultKinds == {"error",        \* a store refuses a call, or times it out
               "reply_lost",   \* it times out after its effect
               "hang",         \* it never answers a call without a deadline
               "shutdown", "crash"}

ASSUME AdminsAssumption == Admins \subseteq Users
ASSUME FaultsAssumption == Faults \subseteq FaultKinds

VARIABLES
  docs,       \* the collection: metadata by document id
  blobs,      \* the bucket: content by object key
  call,       \* the handler of each RPC
  reply,      \* what each successful RPC returned
  hung,       \* handlers whose store does not answer
  deleting,   \* keys held by deleting goroutines
  server,     \* "serving", "stopping" or "down"
  abandoned,  \* history: keys whose removal a fault cut short
  blurred     \* history: Adds whose insert took effect but was reported failed

vars == <<docs, blobs, call, reply, hung, deleting, server, abandoned, blurred>>

-----------------------------------------------------------------------------
Metadata == [owner : Users, object : Calls, checksum : Calls,
             uploadedAt : {"unset", "set"}]

AddRequest == [op : {"add"}, owner : Users]
DocRequest == [op : {"get", "delete"}, doc : Calls, by : Users]

Reply == [op : {"add"}, meta : Metadata]
         \cup [op : {"get"}, doc : Calls, content : Calls]
         \cup [op : {"delete"}, doc : Calls]

ASSUME NoneAssumption ==
  None \notin Metadata \cup Calls \cup Users
             \cup AddRequest \cup DocRequest \cup Reply

\* A handler's progress, its request, the metadata it found and the object it
\* has opened.
Handler == [pc : {"new", "save", "insert", "cleanup", "find", "remove", "stat",
                  "read", "done", "failed"},
            req : AddRequest \cup DocRequest \cup {None},
            seen : Metadata \cup {None},
            opened : Calls \cup {None}]

Idle(pc) == [pc |-> pc, req |-> None, seen |-> None, opened |-> None]

Active == {c \in Calls : call[c].pc \notin {"new", "done", "failed"}}

Init ==
  /\ docs = [d \in Calls |-> None]
  /\ blobs = [k \in Calls |-> None]
  /\ call = [c \in Calls |-> Idle("new")]
  /\ reply = [c \in Calls |-> None]
  /\ hung = {}
  /\ deleting = {}
  /\ server = "serving"
  /\ abandoned = {}
  /\ blurred = {}

Goto(c, pc) == call' = [call EXCEPT ![c].pc = pc]

Fail(c) == call' = [call EXCEPT ![c] = Idle("failed")] /\ UNCHANGED reply

Succeed(c, r) ==
  /\ call' = [call EXCEPT ![c] = Idle("done")]
  /\ reply' = [reply EXCEPT ![c] = r]

Errors == "error" \in Faults
ReplyLost == "reply_lost" \in Faults
-----------------------------------------------------------------------------
\* Admins act on every document, other users on their own.
MayActFor(u, owner) == u \in Admins \/ u = owner

\* The token, the rights on the owner, the id, or a field is not accepted.
Reject(c) ==
  /\ server = "serving"
  /\ call[c].pc = "new"
  /\ Fail(c)
  /\ UNCHANGED <<docs, blobs, hung, deleting, server, abandoned, blurred>>

ReceiveAdd(c, by, owner) ==
  /\ server = "serving"
  /\ call[c].pc = "new"
  /\ MayActFor(by, owner)
  /\ call' = [call EXCEPT ![c].pc = "save",
                          ![c].req = [op |-> "add", owner |-> owner]]
  /\ UNCHANGED <<docs, blobs, reply, hung, deleting, server, abandoned, blurred>>

ReceiveDoc(c, r) ==
  /\ server = "serving"
  /\ call[c].pc = "new"
  /\ call' = [call EXCEPT ![c].pc = "find", ![c].req = r]
  /\ UNCHANGED <<docs, blobs, reply, hung, deleting, server, abandoned, blurred>>

\* Mutant of Save: the object is keyed by the file name, which another document
\* may have.
SaveByName(c) ==
  /\ call[c].pc = "save"
  /\ \E k \in Calls : blobs' = [blobs EXCEPT ![c] = c, ![k] = c]
  /\ Goto(c, "insert")
  /\ UNCHANGED <<docs, reply, hung, deleting, server, abandoned, blurred>>

\* AddDocument puts the object first.  An error is returned as it is: an object
\* that was stored all the same stays.
Save(c) ==
  /\ call[c].pc = "save"
  /\ blobs' = [blobs EXCEPT ![c] = c]
  /\ \/ Goto(c, "insert") /\ UNCHANGED <<reply, abandoned>>
     \/ ReplyLost /\ Fail(c) /\ abandoned' = abandoned \cup {c}
  /\ UNCHANGED <<docs, hung, deleting, server, blurred>>

MetadataOf(c) == [owner |-> call[c].req.owner, object |-> c, checksum |-> c,
                  uploadedAt |-> "unset"]

\* Then it inserts the metadata.  Insert stamps its own copy of the record, so
\* what the handler replies with has no time of upload.
Insert(c) ==
  /\ call[c].pc = "insert"
  /\ docs' = [docs EXCEPT ![c] = [MetadataOf(c) EXCEPT !.uploadedAt = "set"]]
  /\ \/ Succeed(c, [op |-> "add", meta |-> MetadataOf(c)]) /\ UNCHANGED blurred
     \/ /\ ReplyLost
        /\ Goto(c, "cleanup")
        /\ blurred' = blurred \cup {c}
        /\ UNCHANGED reply
  /\ UNCHANGED <<blobs, hung, deleting, server, abandoned>>

\* Mutant of InsertFails: the early return forgets the object.
InsertFailsEarly(c) ==
  /\ Errors
  /\ call[c].pc = "insert"
  /\ Fail(c)
  /\ UNCHANGED <<docs, blobs, hung, deleting, server, abandoned, blurred>>

InsertFails(c) ==
  /\ Errors
  /\ call[c].pc = "insert"
  /\ Goto(c, "cleanup")
  /\ UNCHANGED <<docs, blobs, reply, hung, deleting, server, abandoned, blurred>>

\* After an insert that was reported failed the object is deleted, without a
\* second try and whatever became of the metadata.
Cleanup(c) ==
  /\ call[c].pc = "cleanup"
  /\ c \notin hung
  /\ Fail(c)
  /\ \/ blobs' = [blobs EXCEPT ![c] = None] /\ UNCHANGED abandoned
     \/ Errors /\ abandoned' = abandoned \cup {c} /\ UNCHANGED blobs
  /\ UNCHANGED <<docs, hung, deleting, server, blurred>>

\* Mutant of Find: ErrNoDocuments is ignored, the record is empty.
FindUnchecked(c) ==
  LET r == call[c].req IN
  /\ call[c].pc = "find"
  /\ c \notin hung
  /\ IF r.by \in Admins \/ (docs[r.doc] # None /\ r.by = docs[r.doc].owner)
     THEN /\ call' = [call EXCEPT
                        ![c].pc = IF r.op = "get" THEN "stat" ELSE "remove",
                        ![c].seen = docs[r.doc]]
          /\ UNCHANGED reply
     ELSE Fail(c)
  /\ UNCHANGED <<docs, blobs, hung, deleting, server, abandoned, blurred>>

\* DeleteDocument and GetDocument look the metadata up and check rights on it.
Find(c) ==
  LET r == call[c].req IN
  /\ call[c].pc = "find"
  /\ c \notin hung
  /\ IF docs[r.doc] # None /\ MayActFor(r.by, docs[r.doc].owner)
     THEN /\ call' = [call EXCEPT
                        ![c].pc = IF r.op = "get" THEN "stat" ELSE "remove",
                        ![c].seen = docs[r.doc]]
          /\ UNCHANGED reply
     ELSE Fail(c)
  /\ UNCHANGED <<docs, blobs, hung, deleting, server, abandoned, blurred>>

\* Mutant of RemoveGone: DeletedCount is not looked at.
RemoveGoneSucceeds(c) ==
  /\ call[c].pc = "remove"
  /\ c \notin hung
  /\ docs[call[c].req.doc] = None
  /\ Succeed(c, [op |-> "delete", doc |-> call[c].req.doc])
  /\ deleting' = deleting \cup {call[c].seen.object}
  /\ UNCHANGED <<docs, blobs, hung, server, abandoned, blurred>>

\* DeleteOne: a document another call has removed meanwhile is not found.
RemoveGone(c) ==
  /\ call[c].pc = "remove"
  /\ c \notin hung
  /\ docs[call[c].req.doc] = None
  /\ Fail(c)
  /\ UNCHANGED <<docs, blobs, hung, deleting, server, abandoned, blurred>>

\* Mutant of Remove: the goroutine starts before the result is checked.
RemoveSpawnsFirst(c) ==
  LET d == call[c].req.doc IN
  /\ call[c].pc = "remove"
  /\ c \notin hung
  /\ deleting' = deleting \cup {call[c].seen.object}
  /\ \/ docs' = [docs EXCEPT ![d] = None] /\ Succeed(c, [op |-> "delete", doc |-> d])
     \/ Errors /\ Fail(c) /\ UNCHANGED docs
  /\ UNCHANGED <<blobs, hung, server, abandoned, blurred>>

\* Otherwise the metadata is gone, and a goroutine takes care of the object of
\* the metadata the handler FOUND.
Remove(c) ==
  LET d == call[c].req.doc
      key == call[c].seen.object
  IN
  /\ call[c].pc = "remove"
  /\ c \notin hung
  /\ docs[d] # None
  /\ docs' = [docs EXCEPT ![d] = None]
  /\ \/ /\ Succeed(c, [op |-> "delete", doc |-> d])
        /\ deleting' = deleting \cup {key}
        /\ UNCHANGED abandoned
     \/ /\ ReplyLost
        /\ Fail(c)
        /\ abandoned' = abandoned \cup {key}
        /\ UNCHANGED deleting
  /\ UNCHANGED <<blobs, hung, server, blurred>>

\* Mutant of Open: it polls for a missing object.
OpenWaits(c) ==
  LET key == call[c].seen.object IN
  /\ call[c].pc = "stat"
  /\ blobs[key] # None
  /\ call' = [call EXCEPT ![c].pc = "read", ![c].opened = blobs[key]]
  /\ UNCHANGED <<docs, blobs, reply, hung, deleting, server, abandoned, blurred>>

\* GetObject and Stat.
Open(c) ==
  LET key == call[c].seen.object IN
  /\ call[c].pc = "stat"
  /\ IF blobs[key] # None
     THEN /\ call' = [call EXCEPT ![c].pc = "read", ![c].opened = blobs[key]]
          /\ UNCHANGED reply
     ELSE Fail(c)
  /\ UNCHANGED <<docs, blobs, hung, deleting, server, abandoned, blurred>>

\* ReadAll: an object removed meanwhile may or may not have been streamed.
ReadAll(c) ==
  /\ call[c].pc = "read"
  /\ \/ Succeed(c, [op |-> "get", doc |-> call[c].req.doc,
                    content |-> call[c].opened])
     \/ blobs[call[c].seen.object] = None /\ Fail(c)
  /\ UNCHANGED <<docs, blobs, hung, deleting, server, abandoned, blurred>>

\* Any other call to a store fails without effect: the error is returned.
StoreError(c) ==
  /\ Errors
  /\ call[c].pc \in {"save", "find", "remove", "stat", "read"}
  /\ c \notin hung
  /\ Fail(c)
  /\ UNCHANGED <<docs, blobs, hung, deleting, server, abandoned, blurred>>

\* The calls whose context has no deadline: the look-up and the DeleteOne have
\* the RPC's, and the clean-up has none that could end.
Unbounded == {"find", "remove", "cleanup"}

\* A store does not answer such a call ...
Hang(c) ==
  /\ "hang" \in Faults
  /\ call[c].pc \in Unbounded
  /\ c \notin hung
  /\ hung' = hung \cup {c}
  /\ UNCHANGED <<docs, blobs, call, reply, deleting, server, abandoned, blurred>>

\* ... until, if ever, it does,
Wake(c) ==
  /\ c \in hung
  /\ hung' = hung \ {c}
  /\ UNCHANGED <<docs, blobs, call, reply, deleting, server, abandoned, blurred>>

\* or the client leaves, which ends the RPC's context, not that of a clean-up.
Leave(c) ==
  /\ c \in hung
  /\ call[c].pc # "cleanup"
  /\ Fail(c)
  /\ hung' = hung \ {c}
  /\ UNCHANGED <<docs, blobs, deleting, server, abandoned, blurred>>

\* Mutant of DeleteBlob: it runs under the request's context, canceled by then.
DeleteBlobCanceled(k) ==
  /\ k \in deleting
  /\ deleting' = deleting \ {k}
  /\ UNCHANGED <<docs, blobs, call, reply, hung, server, abandoned, blurred>>

\* The deleting goroutine: one try, ten seconds, the error is ignored.
DeleteBlob(k) ==
  /\ k \in deleting
  /\ deleting' = deleting \ {k}
  /\ \/ blobs' = [blobs EXCEPT ![k] = None] /\ UNCHANGED abandoned
     \/ Errors /\ abandoned' = abandoned \cup {k} /\ UNCHANGED blobs
  /\ UNCHANGED <<docs, call, reply, hung, server, blurred>>
-----------------------------------------------------------------------------
\* GracefulStop refuses new calls and waits for the running handlers,
Stop ==
  /\ "shutdown" \in Faults
  /\ server = "serving"
  /\ server' = "stopping"
  /\ UNCHANGED <<docs, blobs, call, reply, hung, deleting, abandoned, blurred>>

\* but not for the deleting goroutines, which end with the process.
Exit ==
  /\ server = "stopping"
  /\ Active = {}
  /\ server' = "down"
  /\ abandoned' = abandoned \cup deleting
  /\ deleting' = {}
  /\ UNCHANGED <<docs, blobs, call, reply, hung, blurred>>

Crash ==
  /\ "crash" \in Faults
  /\ server # "down"
  /\ server' = "down"
  /\ abandoned' = abandoned \cup deleting
                    \cup {c \in Calls : call[c].pc \in {"insert", "cleanup"}}
  /\ deleting' = {}
  /\ call' = [c \in Calls |-> IF c \in Active THEN Idle("failed") ELSE call[c]]
  /\ hung' = {}
  /\ UNCHANGED <<docs, blobs, reply, blurred>>

Restart ==
  /\ server = "down"
  /\ server' = "serving"
  /\ UNCHANGED <<docs, blobs, call, reply, hung, deleting, abandoned, blurred>>
-----------------------------------------------------------------------------
Receive(c) ==
  \/ Reject(c)
  \/ \E by, owner \in Users : ReceiveAdd(c, by, owner)
  \/ \E r \in DocRequest : ReceiveDoc(c, r)

Step(c) == \/ Save(c) \/ Insert(c) \/ Cleanup(c)
           \/ Find(c) \/ RemoveGone(c) \/ Remove(c)
           \/ Open(c) \/ ReadAll(c)

Next ==
  \/ \E c \in Calls : Receive(c) \/ Step(c) \/ InsertFails(c) \/ StoreError(c)
  \/ \E c \in Calls : Hang(c) \/ Wake(c) \/ Leave(c)
  \/ \E k \in Calls : DeleteBlob(k)
  \/ Stop \/ Exit \/ Crash \/ Restart

Spec == Init /\ [][Next]_vars

\* Handlers, goroutines and a stopping main go on: Go schedules them, and most
\* calls to a store end by a timeout of ten or thirty seconds (service.go 91, 110,
\* 143, 166).  Nothing makes a store answer the others (Wake) or the client leave
\* (Leave): their handlers may wait for ever.
Fairness ==
  /\ \A c \in Calls : WF_vars(Step(c))
  /\ \A k \in Calls : WF_vars(DeleteBlob(k))
  /\ WF_vars(Exit)

FairSpec == Spec /\ Fairness
-----------------------------------------------------------------------------
\* Records, objects and handlers have the shapes of the code's types, and a
\* handler holds what its place in the code needs.
TypeOK ==
  /\ docs \in [Calls -> Metadata \cup {None}]
  /\ blobs \in [Calls -> Calls \cup {None}]
  /\ call \in [Calls -> Handler]
  /\ reply \in [Calls -> Reply \cup {None}]
  /\ hung \subseteq {c \in Calls : call[c].pc \in Unbounded}
  /\ deleting \subseteq Calls
  /\ server \in {"serving", "stopping", "down"}
  /\ abandoned \subseteq Calls
  /\ blurred \subseteq Calls
  /\ \A c \in Calls :
       /\ call[c].pc \in {"save", "insert", "cleanup"} =>
            call[c].req \in AddRequest
       /\ call[c].pc \in {"find", "remove", "stat", "read"} =>
            call[c].req \in DocRequest
       /\ call[c].pc \in {"remove", "stat", "read"} => call[c].seen \in Metadata
       /\ call[c].pc = "read" => call[c].opened \in Calls

\* A document that is listed can be downloaded, and is the one uploaded: no
\* order of adds, deletes, failures and restarts removes its object first.  The
\* exception is an insert that took effect and was reported failed, whose object
\* is deleted under it (service.go 113-116).
ListedIsStored ==
  \A d \in Calls :
    docs[d] # None /\ d \notin blurred => blobs[docs[d].object] = docs[d].checksum

\* An object without metadata is someone's business: a handler between its two
\* writes or a deleting goroutine, unless a fault cut its removal short.
OrphansAreOwned ==
  \A k \in Calls :
    blobs[k] # None /\ docs[k] = None =>
      \/ k \in deleting \cup abandoned
      \/ call[k].pc \in {"insert", "cleanup"}

\* Of overlapping deletes of one document one succeeds, and the document is gone
\* for good (repository.go 64-73 counts what was deleted).
DeletedOnce ==
  \A c \in Calls :
    reply[c] # None /\ reply[c].op = "delete" =>
      /\ docs[reply[c].doc] = None
      /\ \A e \in Calls \ {c} : reply[e] # reply[c]

\* A download, when it succeeds, is what the Add of that document brought, even
\* when the document is deleted during the call.
GetIsWhatWasAdded ==
  \A c \in Calls :
    reply[c] # None /\ reply[c].op = "get" => reply[c].content = reply[c].doc

\* The time of upload in the reply to an Add is that of the stored document, as
\* document.proto 44 ("the upload timestamp") says of the reply's field.
AddReplyIsStored ==
  \A c \in Calls :
    reply[c] # None /\ reply[c].op = "add" /\ docs[c] # None =>
      reply[c].meta = docs[c]

Orphan(k) == blobs[k] # None /\ docs[k] = None

\* Objects that lost their metadata, or never got it, are removed in the end,
\* unless a fault cut that short or the clean-up hangs for good: no handler or
\* goroutine forgets one.
OrphansGo ==
  \A k \in Calls : Orphan(k) ~> ~Orphan(k) \/ k \in abandoned \cup hung

\* GracefulStop has no deadline (cmd/server/main.go 106) and neither have some of
\* the calls to a store of the handlers it waits for (service.go 115, 129, 138,
\* 157): the process ends unless one of these hangs for good.
StopCompletes ==
  server = "stopping" ~> server = "down" \/ hung # {}
-----------------------------------------------------------------------------
\* The registry the service implements: the metadata collection, and the
\* handlers between their look and their answer.
ListedOwner == [d \in Calls |-> IF docs[d] = None THEN None ELSE docs[d].owner]

Told(r) == IF r # None /\ r.op = "add"
           THEN [op |-> "add", owner |-> r.meta.owner]
           ELSE r

Registry == INSTANCE DocumentRegistry WITH
              listed <- ListedOwner,
              used <- blurred \cup {c \in Calls : reply[c] # None
                                                  /\ reply[c].op = "add"},
              held <- [c \in Calls |->
                         IF call[c].pc \in {"remove", "stat", "read"}
                         THEN call[c].req ELSE None],
              answer <- [c \in Calls |-> Told(reply[c])],
              Lossy <- Faults # {}

\* Every step of the handlers, goroutines and faults, on two stores that have no
\* transaction, is one step of the list of documents, or none (service.go
\* 68-181): what a client is told is what the list holds.
ImplementsRegistry == Registry!Spec
=============================================================================
