# task_system_control: verification development

The repository is a task tracker made of Go microservices: an HTTP gateway in
front of three gRPC services (auth, task, document), and a notification service
that consumes what the task service publishes to Kafka. It has no tests. What
can go wrong in it goes wrong between statements: handlers of overlapping calls,
goroutines nobody waits for, two stores written one after the other, a counter
kept with four Redis commands, a consumer that commits before it works; and
between processes, where a gateway turns what a service answered, or failed to,
into what a client is told. That is what the modules here model. Paths below are
relative to the repository.

To check a model: `tlc -config <run>.cfg <MC module>`; to check the proofs of a
module: `tlapm <module>.tla`. `PROJECT.json` lists the runs, the mutants that
show each property can fail, the source lines behind each definition, the
findings, the hazards and the theorems.

## 1. Inventory

| Component | State | Operations | Talks to |
|---|---|---|---|
| task service (`task/internal/task`) | Postgres table `tasks` | CreateTask, UpdateTask, TaskList | Postgres; starts publishing goroutines |
| task event publisher (`kafka.go`, `service.go` 102-118) | goroutines holding events, kafka-go writer | SendTaskEvent, Close | Kafka topic |
| notification consumer (`notification/consumer.go`) | group offsets in Kafka, reader position | Start loop | Kafka, event handler |
| notification handler (`handler.go`, `authclient`) | none | HandleEvent, ResolveManager | auth GetManager, log |
| document service (`document/internal/document`) | Mongo collection, MinIO bucket | Add, Delete, Get, ByTask, ByOwner | Mongo, MinIO; starts deleting goroutines |
| document authorizer | Redis blacklist (read only) | Authorize | Redis |
| auth service (`auth/internal/auth`) | Postgres table `users` | Register, Login, ValidateToken, GetManager | Postgres, Redis |
| login attempt counter (`grpc_handler.go` 81-119) | Redis key `auth:login:attempts:grpc:*` with TTL | Login | Redis |
| gateway rate limiter (`middleware/ratelimit.go`) | map of windows per client, in memory | hit | - |
| gateway routers (`routers/*.go`) | running handlers | HTTP handlers, error mapping, limits on bodies and files | gRPC clients |
| gateway clients (`services/*.go`) | connections | dial (auth up to ten times, task and document once), calls without deadline | gRPC servers |
| gateway lifecycle (`cmd/server/main.go`, `docker-compose.yml` 193) | process, signal context | dial, serve, Shutdown with a grace period, restart on failure | clients, Docker |
| CORS, JWT verification | - | per-request headers | - |
| process lifecycle (`*/cmd/server/main.go`) | servers, signal context | start, stop | all of the above |
| generated code (`gen/`), migrations, configuration | - | - | - |

Interactions: the gateway calls auth, task and document over gRPC; the task
service shares the Kafka topic with the notification service, which calls auth
for the manager of a worker. The services share nothing else: a task's
`worker_id` and a document's `task_id` are not checked by anyone.

### Hard behaviours

* **task**: UpdateTask is read, validate, UPDATE, read again, without a
  transaction; the first read decides both a column and the event. The event is
  published by a goroutine the handler, and a graceful stop, do not wait for.
* **notification**: `ReadMessage` commits the offset before the handler runs,
  so a failure in between loses the event; nothing retries.
* **document**: content in MinIO and metadata in Mongo are written one after the
  other; each write may fail, or succeed without saying so; deletion of the
  content is a goroutine.
* **login counter**: GET, password check, INCR, EXPIRE, DEL are separate
  commands; handlers overlap between them; a key without TTL never expires.
* **rate limiter**: fixed windows, a boundary compared with a strict `After`.
* **lifecycle**: `GracefulStop` without deadline, waiting for handlers whose
  database calls have none either; the gateway's Shutdown with
  one, after which it closes the connections under handlers still running.
* **gateway**: a call's error says little about its effect, and `mapRPCError`
  turns it into a status that says more; calls have no deadline; four limits on
  sizes (JSON body, uploaded file, gRPC message, the service's own) meet in one
  request, and one of them cuts instead of refusing.
* **start**: the gateway dials three services in turn and gives up; Docker starts
  it again.

### What makes each component correct

* task: a row that needs help has a reason; a status changes only because
  someone asked; an event tells of a write that happened; each entry into
  NEEDS_HELP is announced once where clients take turns, and a task in need by some
  call where they do not, unless a fault cut the call short; as seen by clients who
  take turns, updates are atomic.
* notification: each event handled at most once, in partition order, told to the
  manager of its worker; nothing skipped but what an outage itself met; no record
  blocks those behind it.
* document: what the registry lists can be downloaded and is what was uploaded;
  content without metadata has an owner and goes away unless something failed; a
  document is deleted once.
* login counter: it overshoots by no more than the logins that overlap, and every
  counter expires.
* rate limiter: what it lets through in any interval is bounded, and nobody is
  refused without cause.
* gateway: a client told that its request is at fault can rely on it that nothing
  happened, one told of a success that it did; what is stored is what was sent, in
  the name of the token's user; rows change only as was asked, and documents only
  for those who may; requests and shutdowns end, and the gateway comes up.

## 2. Modules

| Module | Models | State |
|---|---|---|
| `TaskBoard` | what the task service promises: atomic creates and updates, one announcement per entry into NEEDS_HELP | `board`, `owed`, `told` |
| `TaskService` | `task/internal/task`: handlers, publishing goroutines, process | `tasks` (table), `call` (handlers), `hung` (statements without an answer), `outbox` (goroutines), `topic`, `server` |
| `Notification` | the consumer loop and the event handler | `topic`, `users` (auth), `committed`, `position`, `consumer`, `current`, `sent` |
| `HelpPipeline` | TaskService and Notification over one topic | both |
| `DocumentService` | the document service over MongoDB and MinIO | `docs`, `blobs`, `call`, `hung`, `reply`, `deleting`, `server` |
| `DocumentRegistry` | what the document service promises: a list of documents, each call atomic | `listed`, `used`, `held`, `answer` |
| `Api` | the messages of the three gRPC services (`gen/proto`), as sets of records | - |
| `Backends` | the handlers of auth, task and document: which answers and effects a call may have | - (operators on the stores) |
| `Gateway` | the gateway's routers, clients and life, over `Backends` | `handler`, `calls`, `db` (the stores), `up`, `phase`, `tries`, `asked`, `expired`, `wish` |
| `RateLimiter` | the gateway's limiter | `now`, `clients` (windows), `admitted` (history) |
| `LoginGuard` | auth's counter of failed logins | `attempts`, `expiring` (keys with a TTL), `server`, `handler` |
| `LoginPath` | limiter, login route and counter together | both |
| `MC*` | instances for the model checker | - |
| `*Proofs` | theorems | - |

Variables marked *history* in the modules record what happened for the sake of a
property; no action's guard reads them, except a counter that bounds the model.

### TaskService

An RPC is a member of `Calls` and its handler a program counter. `ReceiveCreate`
and `ReceiveUpdate` are the gRPC handler up to the service call, `Reject` every
early return with InvalidArgument. Then every statement on the table is a step:
`Insert`; `ReadExisting` with the validations of lines 69-84; `Write`, the one
UPDATE, which sets `reason` by the status *read before* and touches only the
columns named (`Updated`, `NewReason`); `Reread`, which hands the event to a
goroutine. `Publish` is that goroutine, to any partition, since the balancer
ignores the key. `Faults` adds statements that fail, statements that commit and
are reported failed (gorm returns the error of a lost reply), publications lost
or stored twice, `Stop` (GracefulStop waits for handlers, not for goroutines)
and `Crash`. A statement runs under the RPC's context, which carries no deadline
(the gateway sets none), so it may also `Hang`, until Postgres answers after all
(`Wake`) or for good; it keeps its connection, and when the pool's
(`MaxOpenConns`) are all taken nobody's statement is answered (`Answered`). The
history `cut` holds the calls whose handler or goroutine a fault cut short. `Serialised = TRUE` states the assumption that clients do not
overlap calls that name one task; it is a constant so that both worlds are
checked with the same actions. `Board` is the atomic board in the service's state:
a row without its message, and as owed announcements the events of the outbox and
of the handlers past their UPDATE, unless they are in the topic already.

### Notification and HelpPipeline

`Fetch`, `Commit` and the handling of a record (`Notify`, `Drop`) are the three
steps of one turn of the loop; `CommitFails` is the `continue` of consumer.go 64,
after which the reader's position, but not the group's, has moved. `Restart`
begins again at the committed offsets. `Drop` stands for every early return of
HandleEvent: junk, no manager, unknown user, auth does not answer. The history
`spoiled` holds the places of the log whose own handling an outage ended: a commit
or a call that failed, a crash with the record in hand. HelpPipeline
puts `TaskService!Next` and `Notification!ConsumerNext` side by side on one
`topic`, and lets workers register at any time (`RegisterStep`).

### DocumentService

An Add is `Save` (MinIO) then `Insert` (Mongo) and, if that fails, `Cleanup`; a
Delete is `Find`, `Remove`, and a goroutine in `deleting` (`DeleteBlob`); a Get is
`Find`, `Open`, `ReadAll`. Each may fail (`error`), or fail after its effect
(`reply_lost`). Two deletes may both pass `Find`: `RemoveGone` is the one that
finds nothing to delete. Four calls have no deadline of their own (service.go 115,
129, 138 and 157, at the counters in `Unbounded`) and may `Hang`, for good or until
the store answers or, where the call runs under the RPC's context, the client
leaves. Ids, keys and contents are named by the call that
brought them. `abandoned` remembers objects whose removal a fault cut short and
`blurred` the inserts that took effect but were reported failed.

`DocumentRegistry` says the same without the bucket: `Add`, `Look`, `Get`,
`Delete`, `GiveUp`. A document is listed from `Insert` on and no more from `Remove`
on, so these are the steps that change the registry; `Find` is its `Look`, `ReadAll`
its `Get`, an error or a crash its `GiveUp`, all others leave it alone
(`DocumentService!Registry` holds the mapping).

### Api, Backends, Gateway

`Api` has one set of records for each message type protoc generates, with the
fields that decide something. `Backends` has one operator for each gRPC method,
which gives the set of outcomes a call may have: a code, a message, the stores it
leaves and whether it took effect. `StoreFails` lets every call that changes
something fail before its effect or after it; what a handler leaves behind *half*
way is the business of the modules above. Three things there surprise: a task or a
document that does not exist is `Internal` and not `NotFound`, the document
authorizer's errors carry no code and reach the gateway as `Unknown`, and
ValidateToken answers every question, a store's failure too, with "not valid".

`Gateway` follows one client's attempts (`Tries`) at one wish. Requests share
nothing in the gateway but the rate limiter, which has its own module, so other
clients would only add rows. `Accept` is a handler up to its call: `Refusal` is
its checks in their order and `CallOf` the call it makes. `Serve` is the service,
`Return` the handler from the answer on, with `StatusOf` for `mapRPCError`.
`CallFails`, `Outage`, `Hang` and `Recover` are the connection; `Leave`, `Return`'s
second disjunct and `End` are the ways a client gets no answer, and `Serve` may
still carry out such a call. `Dial`, `DialAgain`, `DialFails`, `Signal`, `Drained`,
`GraceOver`, `Crash`, `Restart` and `StartAgain` are `main.run` and its container:
`phase` is the service being dialled, then "serving" and "draining", in the end
"stopped" or "failed" by the exit status, which decides whether Docker restarts it.
A file is its size: `FileOf` is the reader that cuts at `ForwardLimit`
(document.go 78), `UploadRefusal` the checks around it, `CallFits` and `ReplyFits`
gRPC's limit on both sides, listings included. A dial waits for the connection
(`WithBlock`), so to a service that is down or hangs it times out. `ReadFails` is a
body that breaks off: 413 inside `ParseMultipartForm`, 500 while the file is read.

### RateLimiter, LoginGuard, LoginPath

`hit` holds a mutex from the reading of the clock to its return, so it is one
step: `OpenWindow` or `JoinWindow`; a refusal changes nothing. `Open` keeps the
strict `After`, `Full` the `>=`. A restart of the gateway forgets all windows.

A login is `Take`, `Get` (refused at the limit), `Verify`, and then `Count`
(INCR; only the one who sees 1 goes on) and `Expire`, or `Clear` (DEL). The
handler goes on when a command fails: `GetFails` skips the check, `CountFails`
counts without setting the time to live, because the error is thrown away and
the value it returns is not 1; the client library may also repeat an INCR whose
reply was lost. `KeyExpires` is Redis; `GuardStop`, `GuardExit`, `GuardCrash` and
`GuardRestart` are auth's process, which takes no login while it stops or is gone. LoginPath lets a request reach `Take` only
through `Admit`, beside other requests of the client.

## 3. Runs

The passing runs are exhaustive for their bounds and between them fire every action of the
modules; each property is shown to bite by a mutant (see `PROJECT.json`).

| Run | Bounds | Shows |
|---|---|---|
| `task_faults` | four overlapping calls on one task, failing statements, lost and repeated publications, crashes; 2 reasons | `TypeOK`, `NeedsHelpHasReason`, `EventsAreTrue`, `NeedIsAnnounced`, `StatusChangeIsRequested` |
| `task_board` | two tasks, four calls in order, clients take turns; one connection, hanging statements, lost replies and publications, stops, crashes; fairness | `ReasonOnlyWhenNeedsHelp`, `OneEventPerEntry`; the service implements `TaskBoard` (`ImplementsBoard`); `StopCompletes` |
| `task_stale_reason` | two overlapping updates | **violates** `ReasonOnlyWhenNeedsHelp` |
| `notify_outages` | two partitions of two records, every outage; fairness | `TypeOK`, `OnceInOrder`, `ToldTheManager`, `NothingSkipped`, `NothingBlocks` |
| `pipeline_faults` | three overlapping calls, two partitions, faults on both sides | `NotificationsAreTrue`, `ToldOncePerCall` |
| `pipeline_live` | four calls that take turns, so that a task comes to need help twice; publications lost, commits and calls to auth fail, both services crash; fairness | `HelpIsHeard` |
| `document_faults` | three calls, an owner and an admin, every fault; fairness | `TypeOK`, `ListedIsStored`, `OrphansAreOwned`, `DeletedOnce`, `GetIsWhatWasAdded`; the service implements `DocumentRegistry` (`ImplementsRegistry`); `OrphansGo`, `StopCompletes` |
| `document_upload_time` | two calls, nothing fails | **violates** `AddReplyIsStored` |
| `login_path` | two overlapping logins of one e-mail, limit 2, window 1, two requests per window, time to 4, every fault; fairness | `GuardTypeOK`, `OvershootIsBounded`, `CountersAreMortal`, `LimiterTypeOK`, `TwiceTheLimit`, `RefusalsAreDeserved`, `LockoutsEnd` |
| `rate_limit_burst` | one client, window 3, time to 5 | **violates** `NeverMoreThanTheLimit` |
| `gateway_path` | 35 wishes over all routes, two attempts, two users, one of them admin, stores with a user, a task and a document of each user, one outage, every fault; fairness | `TypeOK`, `RefusalsChangeNothing`, `SuccessIsDone`, `StoredAsSent`, `RowsChangeAsAsked`, `EveryRequestEnds`, `GatewayStops`, `ComesUp` |
| `upload_limit` | multipart uploads of seven sizes, nothing fails | **violates** `FilesUpToTheLimitAreStored` |

### Why the bounds are enough

* *Task*: the interactions are between two updates and the row; a create that
  makes the row, two that overlap and one that comes later is four calls. Calls
  on different rows share nothing but the topic, so one task is enough, and a
  second reason tells whose reason a row has. `MaxLog` bounds only the records a
  redelivery may add. With three connections and no hanging statement the pool plays
  no part; `task_board` has one connection, so one hanging call stops all others.
* *Notification*: a commit covers everything before it in the same partition and
  nothing of another, so two records and two partitions show both.
* *Document*: an add and two calls that overlap on it (two deletes, a delete and
  a get) need three calls. Instead of symmetry, which liveness forbids, adds take
  the first names in the order they arrive and other calls the last
  (`OrderedSpec`), which loses nothing but names.
* *Task board*: liveness and refinement forbid symmetry, so calls arrive in a
  fixed order (`OrderedSpec`), which loses nothing but names, and updates leave the
  message alone (`Bare`), on which nothing depends. Two tasks show that turns are
  taken per task.
* *Pipeline*: two entries of one task are two records in one partition, so a commit
  may cover a record that was skipped, and an outage or a crash may fall between
  them.
* *Gateway*: a wish tried twice has every pair of attempts that can meet: the
  second overlaps the first, finds what it did, or comes after an outage or a
  restart. The bad answers come from failing stores and lost connections, and one
  outage, hang or crash (`MaxOutages`) in a behaviour is one between any two steps.
  Sizes are in thirds of a megabyte, so that JSON's megabyte, gRPC's four and the
  files' ten are 3, 12 and 30; a call adds 1 to its file and a reply 2, which
  keeps their order, and the sizes used lie on both sides of each limit.
* *Login*: with a limit of 2 instead of 5, two handlers overlap before and at the
  limit. `MaxSlips` bounds GETs that fail and INCRs that are doubled, both of
  which only let more logins through. Window 1 and a clock to 4 hold five
  windows' beginnings; the violation uses window 3 to place requests within one.

The proofs of section 5 do without these bounds.

### Fairness

* A handler that took up a call takes its next step (`Step`): it is a goroutine the
  runtime schedules. The step is disabled while its statement hangs, and nothing
  says that it is ever answered (`Wake` is not fair): no deadline stands over the
  task service's statements (repository.go 26, 56, 61) nor over four calls of the
  document service. So `StopCompletes`, `OrphansGo` and `EveryRequestEnds` all hold
  but for what hangs for good. Auth's Redis commands end by the client's own
  timeouts; its password check has none and is not fair, which `LockoutsEnd` does
  not need. Requests are never fair: nobody has to call.
* A publishing goroutine gets its turn, since the Kafka writer gives up after its
  attempts, and a deleting one, since its context ends after 10 seconds; `Exit` follows when
  GracefulStop has no handler left to wait for.
* The consumer fetches from every partition (strong: a partition is ready only
  between two turns of the loop) and finishes what it fetched. Nobody has to
  restart it (docker-compose.yml restarts only the gateway), so `NothingBlocks`
  is stated for a consumer that stays up in the end.
* Redis drops a key whose time to live is over.
* Gateway: a service that is up answers (`Serve`), and a handler that has its
  answer, or no connection, goes on (`Return`, `CallFails`). A hung service answers
  nothing: `EveryRequestEnds` excepts the very service that was called. A dial ends by its timeout, the grace period
  passes, and Docker restarts a container that failed (docker-compose.yml 193).
  Services that are down need not come back: `ComesUp` is about those that do.
* No fault is fair, and no crash need be followed by a restart.

## 4. Findings

| Run | What the code does | What is written |
|---|---|---|
| `task_stale_reason` | a reason-only update that read NEEDS_HELP writes its reason after another call completed the task (service.go 87) | the reason is there "if status NEEDS_HELP" (task.proto 49, orm.go 23) |
| `document_upload_time` | Insert sets the time on its own copy; the reply carries the zero time | `uploaded_at` is the upload time (document.proto 44, API_Gateway_JSON_Examples.md 305) |
| `rate_limit_burst` | fixed windows let up to twice the limit through around a boundary | more than the limit within a window get 429 (api_gateway_testing.md 114) |
| `upload_limit` | the gRPC servers and clients keep the default limit of 4 MB, so a larger file is refused with 429 (document/cmd/server/main.go 74) | "maximum file size: 10 MB" (API_Gateway_JSON_Examples.md 463) |

Seen while modelling, without a run of its own:

* The gateway dials the document service with gRPC's default limit as well, and a
  reply holds more beside the file than the call did, so a file near that limit can
  be stored and is then refused with 429 (services/document.go 27; `ReplyFits`, the
  document `large` of MCGateway), where api_gateway_overview.md 36 and 73 promise
  documents up to 10 MiB and 413 beyond.
* CreateTask stores any worker id, and events about a worker nobody knows are
  dropped, although "the existence of users must be validated by the application"
  (000001_Tasks_table.up.sql 14).
* The documented 404 "task not found" (API_Gateway_JSON_Examples.md 444) is a 502,
  since the service answers Internal; a token that expires between the gateway's
  check and the document service's is a 502, not a 401.
* The 413 for a long multipart file (routers/document.go 124) is never given: the
  reader cuts the file first. That the stump is not stored is due to gRPC's
  smaller limit alone: raise it, as the previous finding suggests, and
  `StoredAsSent` fails (its mutant does that).
* A record whose insert timed out after it took effect stays listed although its
  object is deleted (document service.go 113-116; `blurred`); an object whose PUT is
  reported failed, or whose deleting goroutine dies, stays for good (`abandoned`);
  a crash between INCR and EXPIRE leaves a counter that locks the account out
  until somebody deletes the key (`stuck`). Nothing in the repository promises
  otherwise, so the properties except exactly these cases and show that they are the
  only ones.
* `escapeFilenameForHeader` (routers/document.go 289-302) escapes quotes before
  backslashes and so escapes its own escapes.

## 5. Theorems

Each is proved for every value of the constants that satisfies the named
assumptions (`None` is not one of the values it stands beside, sets of faults are
sets of known faults, `None` and `Absent` are not managers, limits are positive,
handlers are finitely many). No bound of a model is needed: the proofs about the
consumer are about a topic of any length (`AnyNext`), of which `Spec` is a part, and
`MaxLog` is any number.

**TaskServiceProofs**. `TypeCorrect`, with "a handler that writes holds a
validated request on an existing row" as part of the type. `HelpHasReason` is
then inductive: a write into NEEDS_HELP carries a reason, and a write that leaves
the status leaves the reason or replaces it by another. `StatusRequested` needs
`FreshIds` (no two pending inserts draw one id, so an insert never meets a row).
`EventsTrue` needs `OwedIsAsked`: what a handler *would* publish, were it to read
the row now, is something a committed write asked for; that only holds because
worker and task of a row never change. `SerialReason`, for `Serialised`, needs
`SerialInv`: running calls name different tasks, so what a call read is still so.

The events are then accounted for. `EventsAreOver`: an event outside a handler is
that of a call that returned, so no handler adds a second one; hence
`PublishedAtMostOnce` (one place for a call's event, where Kafka repeats nothing).
`EntriesAreAnnounced`, for `Serialised` and under every fault: what is announced, or
will be by a handler past its UPDATE, is an entry into NEEDS_HELP, and every entry is
announced unless a fault cut its call short. It needs `SerialInv`: the status that was
read is the status the write replaces. `NothingIsCut`: a fault-free service cuts none.
Where calls overlap, a call may enter NEEDS_HELP and stay silent because it read that
status before; `NeedsAreAnnounced` by `NeedInv`: then another call entered it earlier,
and the task it announced is the same.

`BoardImplemented` is the refinement of `TaskBoard` for `Serialised`. A step that
touches neither rows nor announcements leaves the `View` of the board alone
(`QuietWrite`, `RereadHides`: the event passes from handler to outbox, which the
board does not tell apart). An insert is `Create` because ids are fresh; a write is
`CallForHelp`, `Settle`, `Reword` or nothing, by the request and the status read,
which `SerialInv` says is the row's; a publication is `Tell`, a repeated one
nothing; a lost event, a failed reread, an exit and a crash are `Forget`.

**NotificationProofs**. `ToldOnceInOrder` and `TheManagerIsTold` by `OrderInv`:
what was told lies at or before the committed offset, and strictly before the
record in hand (`Behind`). `NoneIsSkipped`, under every outage, by `SkipInv`:
what lies between the committed offset and the reader's position, and a later commit
will cover, is the record being committed or one whose own commit failed
(`AheadIsKnown`); and a user who had a manager keeps one (`StaffInv`).

**HelpPipelineProofs**. `PipelineImplementsBoth`: neither service does to the other
what it could not meet alone, so the theorems above hold of the pipeline. The prover
cannot cite a theorem through an instance, so the three invariants of the consumer
are proved once more for the topic of task events (`ReaderInv`, `SkipInv`). With
them: `TrueNotifications` (what is told is published, what is published was asked,
and `AskedInv`: the row is still there with that worker); `OncePerCall` (an event
has one place, a place is told once). From end to end, for clients that take turns
and under every fault and outage: `OnlyEntriesAreTold`, and `NoEntryIsLost`: each
start of a need for help is with a handler or a goroutine, in the topic ahead of the
consumer, in its hand, told, about a worker who need not have a manager, or itself
cut short or spoiled. That the first four end is `HelpIsHeard`, which is left to the
model checker.

**DocumentServiceProofs**. One inductive invariant, `SafetyInv`: `NamesInv` (keys
and checksums in records, and what handlers saw, name the document they are
about) and `LifeInv` (before its insert nobody has seen a document; from put to
insert its object is there; after a failed insert only a blurred one left a
record; who deletes an object has deleted its record). From it
`ListedCanBeDownloaded`, `OrphansHaveOwners`, `DeleteSucceedsOnce`,
`DownloadIsUpload`. `RegistryImplemented` is the refinement: with `AnswerInv` (a
call that is not over has not been answered, an add before its insert has listed
nothing, a handler is on the path of its request) every step is `Add`, `Look`,
`Get`, `Delete`, `GiveUp` or leaves the registry's `View` alone (`RegistryStep`).

**GatewayProofs**. `OutcomesSound` is about `Backends` alone: every outcome of
every call is `Sound`, that is, codes that mean "your fault" come without an
effect, OK on a changing method with one, and an effect is the one row the call
describes. On it rests `IInv`: `TypeOK` and, for each attempt, that its call is
the wish's (`CallIsWished`), that an effect and its answer agree
(`EffectIsAnswered`, `AnswerIsSound`), that rows are the wish's (`RowsAreWished`)
and that the status given is true (`StatusIsTrue`). From it
`RefusalsChangeNothingHolds`, `SuccessIsDoneHolds`, `StoredAsSentHolds`
and `RowsChangeAsAskedHolds`: only a service that handles a call writes
(`WrittenByServe`), the call is the wish's, and its `Rows` say what may differ;
nobody's document goes but by a delete of its owner or an admin whose token is
still valid then. `NoHandlerIsStranded` is the safety half of `EveryRequestEnds`:
every call has an outcome for any stores (`CallsAreAnswered`), so a handler waits
for a service that has an answer, is gone, or hangs. `StoredAsSentHolds` needs that
gRPC's limit is below the gateway's (`LimitsAssumption`, `FittingFilesAreWhole`): a
file that was cut never fits.

**LoginGuardProofs**. `CountersExpire` is inductive with the type invariant.
`OvershootBounded` counts: attempts plus the handlers past the check
(`PastCheck`) stay below limit plus handlers plus slips (`OvershootInv`); a
handler that passes the check does so below the limit, and one that counts
leaves the set it was counted in.

**RateLimiterProofs**. `BurstsAreBounded` and `NoUndeservedRefusal` by
`LimiterInv`: the history of a client is cut into windows. An entry that *began*
a window is followed, `Requests` later, only by what came after the window's end;
and every entry is followed within `Requests` by one that began a later window
(`Windows`). Two such jumps make twice the limit more than a window long.

**LoginPathProofs**. `PathImplementsBoth`: the composition is a behaviour of the
limiter and one of the counter, so `PathIsSafe`.

Some theorems carry the hypothesis the run's constants give: `Serialised` where
clients take turns, in `pipeline_live` and `task_board`; `task_faults`,
`pipeline_faults` and `task_stale_reason` are without it. Only `NothingIsCut`,
`PublishedAtMostOnce` and `OncePerCall` restrict the faults.

Only model-checked: the liveness properties, since the prover has no rule for
fairness or ENABLED here: `StopCompletes`, `NothingBlocks`, `HelpIsHeard`,
`OrphansGo`, `LockoutsEnd`, `EveryRequestEnds`, `GatewayStops`,
`ComesUp`. The properties of the runs that expect a violation are false. Every other
property of a run is proved.

## 6. Not modelled

* The text of messages, notifications and errors; `updated_at`; tags; JSON and
  base64 beyond the size they add; the headers of CORS and of a download.
* Password hashing: a comparison. `validation.go` of auth and document is dead
  code; so are `gen/proto/task/v1` and `gen/proto/document/v1`, copies nobody
  imports. The blacklist of tokens is read and never written by any code here.
* HTTP servers and middleware of the services: they have no routes.
* `AuthService.GetManager` of the gateway: no route calls it. (The notification
  service's client is in `Notification`.)
* A second instance of any service (docker-compose.yml runs one of each), the
  election of Kafka or database replicas, and rebalancing.
* Start-up of the services, their configuration and migrations. Of the gateway,
  ReadTimeout and IdleTimeout, which end requests before a handler has them.
* Overflow and memory: the limiter's map, which is never pruned.

## 7. Plan

All components of section 1 that keep state or decide something are modelled.
Every invariant, action property and refinement that a passing run checks is proved;
liveness stays with the model checker. What is left to prove are the safety halves
of the other liveness properties, as `NoEntryIsLost` is that of `HelpIsHeard` and
`NoHandlerIsStranded` that of `EveryRequestEnds`.
