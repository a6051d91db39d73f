# Models and proofs of the system-design sandbox

The repository is a sandbox for distributed systems: a dev server (`frontend/server`) that edits
and runs docker compose systems from a diagram (`frontend/src`), templates for the programs it
generates (`frontend/server/templates`), and three systems built with it (`systems/*`). This
directory holds TLA+ modules of the parts whose behaviour is concurrent, distributed or
failure-prone, the TLC configurations that check them, and proofs of the main theorems.

Run a module with `tlc -workers 2 -config X.cfg M` and check the proofs with `tlapm M_proofs.tla`.

## 1. Inventory

| Part | State it keeps | Operations | Hard because | What makes it correct | Status |
|---|---|---|---|---|---|
| service-1 (payments) | `order_payment.status` in order-db; transactions, entries, readiness, payout, refund rows in ledger-db | `payment_webhook`, `step2a_payment_webhook`, `step2b_payment_webhook`, `payment_flow_refund` | threads read in autocommit and write in a later transaction; two databases; redelivered webhooks; answers lost | double entry, one payout, one refund, no payment both fulfilled and refunded, 200 only for what is posted | `PaymentLedger` |
| orders-service (checkout) | `order_payment` rows | `/checkout` (start, resume, register) and CRUD | concurrent checkouts, a call that fails after it took effect, another writer of the row | one open attempt, one token per attempt, rows only advance, one payment per order | `OrderCheckout` |
| payments-api (provider) | in-memory maps and lists | create, complete, cancel, process, refund | a thread pool over unlocked lists; answers of service-1 lost; restarts | every completion ends in exactly one list; a processed payin is settled | `PaymentsApi` |
| postgres failover watcher, topology actions | `STATE`, `_down_since`, `_last_promotion`; roles, fences and `synchronous_standby_names` in the members | the tick; `handleFailover`, `handleRejoin` | acts on a snapshot taken member by member; SQL calls that fail half-way; operators and crashes in between | one writable primary, acknowledged writes survive, commits do not hang | `PgFailover` |
| refund-service | refund rows, Kafka offsets | `_process_refund` | at-least-once delivery | one refund per row | planned |
| payout pipeline | outbox, Kafka offsets, payouts | CDC, consumer, payout-service-2, payout-api | at-least-once delivery, crash between call and offset commit | one payout per row at the provider | planned |
| websocket relay | local map per server, presence cache, bus channels | connect, close, pong, route, deliver | a reconnect to another server races with the cleanup of the old connection; publish is at most once | a connected client is reachable; a message has one fate | `WebsocketRelay` |
| llm-app coordinator and workers | assignment in etcd, worker registry, prompt slots | rebalance, watch, add_prompt, reap | debounced rebalances, watches that resume, a worker that dies with prompts | each worker in one assignment; each prompt ends | planned |
| llm-app usr-msg-consumer | registry copy, Kafka offsets | consume, choose a worker, register | stale registry, redelivery | each message reaches a worker | planned |
| llm-app chat-service, db-writers | messages, redis streams | stream tokens, claim and persist | a stream read while it is written, two writers claiming one message | a message persisted once and whole | planned |
| download coordinator | chunks, assignments | distribute, download, write chunk | workers die with chunks assigned | all chunks arrive, none twice | planned |
| autoscalers | spec and target counts | decide, apply | decision on old metrics, cooldown, concurrent apply | bounds kept, target reached | planned |
| dev server: add, edit, delete (`scaffold`, `services`, `serviceLb`, `replicas`, `replicaGroup`, `remove`, `eventstreams`, `consumers`, `cdc`, `databases`, `etcd`, `endpoints`, `models`, `scenarios`, `endtoend`, ...) | a system's manifest, compose, nginx and prometheus files; a registry file per domain (streams, consumers, cdc, etcd, endpoints, models, scenarios, endtoend); values in etcd and Kafka | one handler per request | one fact is in several files; derived ids; handlers that await between a load and a save; delete has to know what all the others wrote | nothing names what is gone, the copies of a fact agree, a node owns exactly its containers, no update lost | `SystemEdit` |
| system lock, rebuilds, activation, outages | compose commands under and outside the lock, activation chain and marker file, timers per outage | rebuild, activate, delete, start/end outage, shutdown | a command reads the file when it starts and acts when it ends; a timer races with requests | what runs is what the active system declares, but for the nodes that are out | `Runtime` |
| edit queue and terminal (`App.tsx`, `EditQueuePanel`, `Terminal`, `server/terminal.js`) | queue in local storage, advance timers, websocket per terminal, pty per session | enqueue, start, done, exit, advance, cancel, hide, reload | a done token only a new connection is watched for; timers; a page reload | one session at a time, in order, each watched until its task is done | `EditQueue` |
| dialogs that have code written | a registry record, its flags, the code, the dialog's open request | open, edit, save, delete, resume | the record is saved at once and the code written later, by a session that may be displaced | the code ends up as the records say | `Dialogs`, `Authoring` |
| interviews (`server/interview.js`) | interview.json, turns map, child processes | start, message, stop, end, reset | a stopped child still writes; a start wipes across awaits | one conversation, told only by its own turns | `Interview` |
| dev server: gRPC bank (`grpc`, `grpcProto`, `grpcInstall`) | `_registry.json`, .proto files, the grpc blocks of manifest.json | create, edit, upload, describe, attach, detach, wire, delete; the custom types bring contracts | bindings are generated between a load and a save; a text is parsed, edited and written back | registry, texts and manifest agree; a field number never changes its meaning; one server per contract | `GrpcBank` |
| dev server: redis (`redisTopology`, `redisKeyspaces`, `redisPersistence`) | the node, its containers, scrape jobs, sentinel folder, keyspaces with their services | set topology, set persistence, keyspaces and roles, scan | each mode has files of its own under derived ids; a scan awaits redis; a tab saves the entry it shows | the files tell of one topology; what the user declared stays | `RedisConfig` |
| dev server: postgres topology (`postgresTopology`) | manifest, compose, ha.json; the live roles | Apply, convert, failover, rejoin, delete a standby | docker is awaited between load and save while members fail and are promoted | the three files tell of one cluster, which has the newest data | `PostgresConfig` |
| dev server: seeds (`dbseed`, `dbschema`, `DbSeed.tsx`) | seeds.json, the artifact, the mount, the live rows | add, remove by position, apply again | three stores updated one after the other, two tabs with lists of their own | the artifact and the live rows are the entries asked for | `DbSeeds` |
| websocket tier, custom service types, policies (`websockets`, `customTypes/*`, `resilience`, `connectionPool`) | the same files as the handlers above, and a registry each | create, scale, delete, attach | a component of many nodes with derived ids; two who need one arrow or one folder | as for the other handlers | `WebsocketTier`, `CustomTypes`, `Policies` |
| diagram (`App.tsx`) | the manifest shown and a state per polled source | a timer per source | answers that are late, fail, or are of an effect cleaned up | the diagram catches up and shows nothing of what is gone | `ConsoleViews` |
| interview chat (`InterviewPanel.tsx`) | the lines shown, the stream being read, the polled transcript | open, send, read an event, take over, stop | the line is shown before it is accepted; lines come by two ways; other tabs | the lines are the transcript's, none twice | `InterviewPanel` |
| frontend/src: rendering, forms, layout; dev server: indexes, layout, settings, skills | none to speak of | rendering, one record in one turn | no protocol | | not modelled |
| notification-service, client scripts, configuration | none | reads, load generation | | | not modelled |

How they interact. A client checks out at orders-service, which registers the attempt at
payments-api; the client completes it there; payments-api calls the webhooks of service-1 (payin,
then step 2a during a sweep), and the merchant calls 2b or refund. order-db has two writers,
orders-service and service-1; ledger-db has one, and its payout and refund tables feed the CDC
pipelines. The failover watcher and the operator actions of the dev server write to the same
postgres members without knowing of each other. The dialogs post to the dev server, which edits a
system's files, rebuilds its containers under the system's lock, and answers with the prompt of a
Claude session, if there is code to write; the console queues that session and runs it in a terminal.

`PROJECT.json` lists every component with its sources, and every hazard with its line.

## 2. Modules

| Module | Models |
|---|---|
| `AppendOnlyLedger` | abstract specification: per payment order a growing set of steps, each posted once and after the steps it needs, the payout in the same transaction as the last trigger |
| `PaymentLedger`, `MCPaymentLedger` | service-1; implements `AppendOnlyLedger` |
| `PaymentLedger_proofs` | its theorems |
| `OrderCheckout`, `MCOrderCheckout` | checkout of orders-service, with payments-api and service-1 as environment |
| `OrderCheckout_proofs` | its theorems |
| `PaymentsApi`, `MCPaymentsApi` | payments-api, with service-1 seen through its answers |
| `PaymentsApi_proofs` | its theorems |
| `PgFailover`, `MCPgFailover` | the watcher's tick, the members, the operator actions |
| `PgFailover_proofs` | its theorems |
| `WebsocketRelay`, `MCWebsocketRelay` | the relay servers, the presence cache, the bus, the notification hook of the chat app |
| `WebsocketRelay_proofs` | its theorems |
| `SystemFiles` | the files every handler of the dev server edits; services, externals, clients, members of groups and load balancers |
| `Streams` | event streams, topics, consumer functions and groups |
| `Contracts` | the model bank, endpoints, client functions and their scripts, end-to-end processes |
| `EtcdRegistry` | the etcd cluster, registrations and listeners, configuration values |
| `Databases` | databases, replicas, change capture |
| `WebsocketTier` | the websocket tier, created and deleted as one, and the folder of its hooks |
| `CustomTypes` | llm workers, persistence readers, download coordinators and their peers; the loop that applies what scalers want |
| `Policies` | circuit breaking, retries and pools as fields of an arrow |
| `SystemEdit`, `MCSystemEdit` | all of these in one system, with the delete handler |
| `EditQueue` | the queue of sessions, the terminal of the page and the ptys of the server |
| `Dialogs`, `Authoring` | what each dialog may save and what session it launches; the records, the code, and the sessions that bring the one to the other |
| `Runtime` | compose commands, activation, outages |
| `Editing_proofs` | the theorems about the queue, with the dialogs that feed it, and about `Runtime` |
| `Interview` | the mock interview |
| `GrpcBank` | the bank of gRPC contracts, their texts, servers and clients |
| `RedisConfig` | topology, persistence and keyspaces of a redis |
| `PostgresConfig` | the topology of a postgres database as its tab changes it |
| `DbSeeds` | the seed entries of a database, their artifact and its rows |
| `Databases_proofs` | the theorems about `RedisConfig`, `PostgresConfig` and `DbSeeds` |
| `ConsoleViews` | the polls that keep the diagram of `App.tsx` up to date |
| `InterviewPanel` | the chat of an interview in the browser |
| `Console_proofs` | the theorems about `Interview`, `GrpcBank`, `ConsoleViews` and `InterviewPanel`, and about what the console shows and keeps as a whole |
| `MCConsole` | `Authoring` (with `EditQueue` and `Dialogs`), `Runtime`, `Interview` and the six above, each a part of one run |

### PaymentLedger
One action per SQL statement or `with conn.transaction()` block. `job[t]` is the request a thread
serves: the place between two steps and the steps it has read (`saw`), which may be stale by the
time it writes. `Abandon` ends a handler anywhere (crash, `psycopg.Error`, missing account);
`UniqueViolation` is the `except UniqueViolation` branch, which answers as if the step were posted.
Redelivery is a new request for the same payment at any time. orders-service appears as
`OrdersServiceWrites`, the environment that `StatusOnlyAdvances` of `OrderCheckout` justifies.
`raced` is a history variable: payments that a fulfilment and a refund held between read and
transaction at the same time. `IdCollisions` says whether two `_snowflake_id()` may be equal.

### OrderCheckout
A row is `<order>:<attempt>`. A checkout reads the attempts, inserts or resumes one, registers it
(the call may succeed, fail before, or fail after it took effect), and writes the outcome. Tokens
are numbers in the order they were minted. `ApiRestart` empties the idempotency maps.

### PaymentsApi
Every operation on a shared list is a step; `create_payment` runs on the event loop. `overlapped`
is history: another handler changed the queue between the snapshot and the clear of a sweep.

### PgFailover
`Probe` reads one member at a time into `live`; `DecideKeep`, `DecidePromote` and `DecideWait` are
the branches of `tick` and turn the snapshot into `calls`; every call (fence, repoint, configure,
promote) is an action that fails when its member is down. A tick is the unit of `downFor` and
`cooling`. `handleFailover` is two SQL steps (`FenceOldPrimary`, `PromoteTarget`) that may be cut
short; `handleRejoin` wipes a fenced member and clones the primary it found (`BaseBackup`, which
copies `synchronous_standby_names` with postgresql.auto.conf). Postgres is external: a write waits
until the named standbys that stream from the member hold it, flushed or, with `remote_apply`,
replayed; a standby whose history diverged cannot stream. `sync.method` FIRST is not modelled (ANY
is), nor a crash between two statements of one SQL call.

### WebsocketRelay
A socket is a number in `conns`: `open`, `lost` (the client is gone, the server cannot know),
`closing` (readyState is not OPEN, the close event is still to come) or `closed`. `issued[s]` holds
the presence commands a server has sent on its one connection and not heard back from; they are
executed in that order, and the handlers that wait for an answer (`route`, the hook) go on when
theirs is. `SendFrame` is the whole turn of the event loop in which `route` and the hook start: the
sender is any client connected to that server. The time to live of a presence entry is two
heartbeats after the last pong, so `Expire` needs that no socket of the client can still pong.
`Crash` is the restart by compose. `moved` and `clean` are history: clients whose newest socket was
opened while another server still held them (or whose `presence.set` failed), and frames whose
recipient was settled when they were sent and neither came nor went until they were done with.
Metrics, `onSend` (empty in the repository) and a failing insert of a notification are left out.

### SystemEdit
A request is one action when its handler edits the files without awaiting anything, for then no other
request comes in between (the server is one event loop). A handler that awaits is a start, which puts
what it has loaded in `pending`, and an end, which writes from what it loaded: `Delete`/`DeleteSave`
(a member is taken out of the replica set in between), `ReplicaStart`/`ReplicaSave`, `CaptureStart`/
`CaptureSave`/`EnsureTopic`, the Kafka alter and the etcd puts. `kind`, `parent` and `edges` are
manifest.json, `compose` the owner and etcd environment of each container, `routes` and `jobs` count
the locations of nginx.conf and the scrape jobs of prometheus.yml, because the splices are blind: a
second one leaves two. Ids are strings, as the ids of exporters, scalers, members and workers are made
of another id and a suffix, and may meet an id somebody has chosen. Only the delete handler, `Owned`
and `Dependents`, has to know what every other handler wrote. Text beside these facts (images, ports,
resource limits, positions in the diagram) is left out.

`mishaps` is history, and names what the properties except: `lost` (a file written from an older
load), `stale` (one decided by it), `failed` (an etcd or Kafka command), `refused` (an etcd edit cut
short by a name that is taken, after etcd.json was written), `group taken` (a rename onto a group that
another function has), `collided` (two nodes want one container), `cascaded` (a child of what is deleted is still used),
`unseen` (a call that a script has and its list has not yet), `ghost` (a call of a service or client
that is gone), `balanced` (a service with consumer functions is put behind, or scaled behind, a load
balancer: its groups keep the members they had), `unsynced` (a group service is scaled while a function has
another group than the one saved last), `undrawn` (the last policy of an arrow takes it along although a
consumer function has come to need it), `namesake` (a service called `ws-shared`, which shares the folder
of the hooks), `removed` and `overwritten` (an endpoint removed under a call,
or renamed with the text of another call matching).

`WebsocketTier` makes all nodes of a tier in one action; `CustomTypes` awaits protoc between loading the
manifest and saving it (`CustomStart`, `LlmSave`, `CoordinatorSave`), and reads a scaler between finding
its base and scaling it (`AutoscaleStart`, `AutoscaleApplies`, `AutoscaleSkips`). `Policies` has its own
setup without awaits, as what a waiting request has loaded (`Manifest`) does not hold the policies.

### EditQueue, Dialogs, Authoring
`queue` is the list in local storage. An item runs in the terminal over a websocket that is opened as
`new` or as a resume; only for a new one the server looks for the done token. `lapsed` are the items
that the code itself gives up: displaced by a resume, hidden, skipped, lost with the page, or whose
session exited. `Dialogs` is one operator per dialog: the set of saves it allows, each a change of the
registry, of the flags and (for capture workers) of the code, and the task of the session launched,
if any. `Authoring` opens and closes dialogs (the list shown is the one of the time it was opened),
posts, answers, loses answers, and lets a session carry out its task: Claude is external and does what
its prompt says. A key stands for whatever names a record. `Unseen` holds the keys deleted by
a list that no longer held, or while a session that writes their code still waits and none is asked to drop it, and `Astray` the keys that some unanswered save or lapsed item was about.

### Runtime
A compose command reads the file when it begins and has its effect when it ends. Commands under the
lock of a system are its `chain`; those of deletes, activations and some scalings are `loose`.
Activations follow one another, and an outage is a kill, a timer and a start. Docker is external.
`struck` are the systems with a command that failed, or ran beside another or an activation outside
the lock, or on a system that is not active, or beside an outage, with two requests at once about one
outage, or with a kill that failed and left its node down: for those the property promises nothing.

### Interview
A child is the headless `claude` process of a turn, which creates the conversation or resumes it; what
it prints reaches interview.json until it exits, stopped or not. `amiss` notes starts that overlap, a
child that outlives its interview and the retry of a stopped first turn.

### GrpcBank
`bank` is the registry, `protos` the texts: rpcs, their message types, field numbers and reserved
numbers. `BuildMessage` is how a message is written anew from the fields wanted and the message parsed, and
`Parsed` what the parser makes of a message with a word of the language in it. A contract made in the form
is synthesized from the registry, one uploaded is spliced. A request that needs bindings waits for
`Generated` or `GenerateFails`; `CustomAdded` is the installation by a custom type. `bound` is the history of
all numbers given while their message lives, `told` of what was described, and `slips` notes what the
property excepts: `lost` (a write from an older load), `overtaken` (a contract deleted or replaced while its
custom service was being added), `overwritten` (a custom type writes its contract over a user's), `retyped` (a
text uploaded over a contract that a custom type brought makes it an uploaded one, whatever serves it). A
method's request stands for its reply.

### RedisConfig
`store` is the manifest, `services` the compose file, `scraped` the targets of prometheus.yml, `folders` the
system's folders. Ids are sequences of parts, so that derived ids may be asked for by a user.
`SetTopology` is the whole of `handleSet`, refusals half-way included; `DeleteComponent` is the delete handler
for redis and services. `ScanStarts` and `ScanSaves` are the scan, which saves the manifest it loaded; the tab
(`displayed`) sends the whole entry it shows. `wrong` notes `lost`, `collided` (two nodes want one
container, or a change of topology or a delete removes by its derived name, as `<id>-init`, one that is
another's), `shared` (a node called `<id>-sentinel` has the folder and scrape job of the sentinels), `torn`
(a refused cluster has removed the sentinel folder already) and `behind` (the entry shown was old).

### PostgresConfig
The files (`cluster`, `declared`, `haJson`) against the members (`roles`, `answering`, `newest`, the last to
take writes). Apply, conversion, failover and rejoin are a start and an end with the docker calls between, in
which members crash, return, and are promoted by the watcher. Every `up -d` brings all members up
(`AllUp`); of ex-primaries that come back the watcher leaves one, or none beside one that is written, and fences
the others. The last command of a rejoin renews the volume of its member whatever the compose file says of it
by then (`RejoinRenews`): a standby clones, and an entry that a conversion has restored meanwhile is an empty
database (`Renewed`). `discarded` in `awry` notes that a conversion or a rejoin has emptied the member that
was written last, which `NewestIsKept` forbids. The others are exceptions: `lost`, `dropped` (an Apply or a
delete takes the standby that is primary), `unseen` (a conversion that found no live primary), `unmounted` (a
conversion removed what a waiting Apply had mounted), `renewed` (a member came to be written after its
rejoin had looked for the primary), `ordinals` (a synchronous ordinal names no standby) and `unheard` (CDC
enabled after the standbys). The watcher's own races, and how a switchover that is between its fence and its
promotion meets it, are in `PgFailover`.

### DbSeeds
`seeds`, `artifact` and `mounted` are files, `rows` the table, keyed rows and rows whose key the database makes.
`Insert`, `Replayed` and the delete follow the statements of each engine; `Replayed` is written in closed form
(of the entries with one key the first counts, or where the statement overwrites, the last), so that it can be proved about. Add, remove and apply are a step per
await; the database may be down, wiped or rebuilt, and the dev server may stop between two. A removal carries
whether it could read the schema (`read`) to its delete: without the types of the columns dynamo has no
key to delete by and returns, mongo may match nothing (`RemovedFrom`), even if the database answers again.
A replay is a step per statement (`ApplyInserts`; one for postgres, whose `psql -c` is a transaction), and the
mount and the answer are another (`ApplyEnds`), so that the server, or the client with the database, may stop
after any of them (`SeedsStopped`, `Severed`, `BreaksOff`). A client that goes on after the dev server has stopped is
a server that stops later. `meant` is
history: what the user has added and not removed. `marred` notes `mistaken` (an entry removed by a position
that is another's), `outdated`, `kept` and `unrecorded` (stopped, failed or made without the schema), `together`
(requests that overlap), `confused` (a delete may take an equal row of another entry), `doubled` (rows without a key
applied again), `halfway` (a replay that overwrites broke off and has put a row back to an earlier entry) and
`wiped`. The types of the values are left out.

### ConsoleViews, InterviewPanel
`ConsoleViews` is about the manifest and one source of each kind: for the whole system (`plain`), only while
the manifest calls for it (`gated`), once per id (`keyed`), merged over the custom runtimes (`merged`), or
with the nodes of the manifest (`nodes`, `pollSystem`). A poll is a set of requests that the server answers one by
one; the cleanup of an effect cancels its polls. `slow` notes a poll asked before the one of the same effect
had its answer. `InterviewPanel` has the transcript of the server, the poll of App.tsx (`polled`), what
the effect has run for (`adopted`) and the lines shown (`messages`). `flaws` holds what is wrong with the
lines until they are taken over anew: `refused`, `unsaid` (a failed turn), `broken` (a stream cut off), `behind`
(sent without knowing the lines before), `others` (other tabs' lines while a message is being sent) and
`replaced` (another start then, or while the panel shows lines of an interview that App never polled).

## 3. Runs

| Run | Instance | Shows |
|---|---|---|
| `ledger` | 2 attempts of one order with amounts 25 and 7, 2 threads | types, one payout, readiness row, balances, `PaidMeansPayin`, refund rows, `AckedIsPosted`, `OverdrawnOnlyByRace`, and `AppendOnlyLedger` implemented |
| `ledger_race` | 1 payment, 2 threads | violation: 2b and refund both read before either commits, and escrow is paid out twice |
| `checkout` | 1 order, 3 attempts, 2 threads, 1 restart | types, `SupersededIsClosed`, `OneTokenPerAttempt`, `StatusOnlyAdvances` |
| `checkout_double` | 1 order, 2 attempts, 2 threads | violation: a failed registration overwrites a successful one, a second attempt opens, both are paid |
| `api` | 1 key and unknown tokens, 2 completions, 2 threads, fair | types, `ProcessedOnceAndSettled`, `OutcomeReached` |
| `failover` | 3 members, 1 write, 2 disturbances of any kind, fair | types, `PromotionKeepsSynced`, `FenceLeavesPrimaryUnlessOverlapped`, `Converges`, `CommitsResolve` |
| `failover_switch` | the same | violation: a tick that overlaps a switchover fences the promoted member |
| `failover_sync` | the same with commitLevel `on` | violation: an acknowledged write is lost because replay, not flush, positions are compared |
| `relay` | 2 servers, 1 client with 2 sockets, 2 frames taken in by one server, 1 crash or failed presence command, fair | types, `RegistriesKeepNewest` (local maps, and the cache), `ArrivesOnceInOrder`, `OneOutcomeWhenSteady`, `OutcomeComes`, `LostClientForgotten` |
| `system_edit` | one system in 12 setups of 3 to 5 requests, 2 at a time waiting | types, `ReferencesResolve` (with the calls of client scripts), `RegistriesAgree`, `LiveMatchesRegistry`, `FootprintMatches` |
| `system_edit_lost` | the same | violation: an update of the manifest is lost to a request that awaits between its load and its save |
| `console` | nine parts, see the bounds below | `QueueServed`, `AuthoredAsRecorded`, `RunsWhatIsDeclared`, `OneConversation`, `ContractsHold` (`GrpcBank`), `RedisHolds`, `DatabasesHold` (`PostgresHolds` and `SeedsHold`), `ShownHolds` (`ViewsHold` and `PanelAgrees`) |

Why the bounds are enough. The hazards of service-1 and payments-api are pairs of handlers around
one payment: two threads give every pair, and handlers that stop and are requested again give every
longer sequence of requests, because a thread is reused without limit. Amounts that do not divide
by ten, and one below ten, exercise the rounding. Two attempts of one order give the choice
`FindPaid` makes; three attempts give a superseded attempt of a superseded attempt. Three members
are the smallest cluster with an asynchronous and a synchronous standby, listed last so that ties of
`max()` go against it; two disturbances give crash and return, crash of the new primary, crash with
a watcher restart, a switchover meeting a crash, two switchovers, and fence then rejoin. In the relay, clients share
nothing but the order of a server's commands, so one is enough; two sockets give every overlap of an
old and a new connection, on one server or on two; two frames of one server give an order to keep,
and the client may be on that server or on the other one.

In `system_edit` a setup has the nodes one domain needs (registration, configuration, groups, balancing,
models, calls, databases of two engines, custom types with and without nodes, policies, the websocket tier),
written in every file as the handlers would have, and three requests of that domain (more where an add, a
scaling and a delete are to meet), a delete of anything included; two waiting requests are enough for one to write over the other. `MaxPartitions` 3
allows two alterations of a topic, clusters of size 1 and 3 are the two the code treats differently,
and `Chosen` has ids that meet derived ones (`k-2`, `k-init`). In `console` a behaviour is about one
of its parts, as they share no variable. Two keys make a rename, `InUse` one key that code already
uses and one it does not, three conversations a displaced item behind a displaced item; the kinds with
most saves per dialog (listeners, functions, processes) have two, as a third adds only
interleavings of independent sessions; registrations have four and no disturbance, which is the shortest way to a
keyspace deleted, made again and deleted once more while its sessions wait. `Upsets` bounds reloads,
closed sockets and lost answers, `edits` the file edits, `MaxWipes` the
start and reset requests under way at the same time; two turns give a stopped first turn and the one after
it. Of the other parts:
- contracts: two contracts, two methods, three fields (one a word of the language), three services, one
  request waiting (`MaxWaiting`) beside those that wait for nothing; two requests for the texts of a contract
  that is there, which free a number and give another, four or five for the wiring; three of all kinds together, which
  replace the text of a contract that a custom type has brought.
- redis: a redis and nodes with two ids made of its id; five requests about topology, as three changes of mode
  with an add and a delete; four about keyspaces, as a scan, its save, and a role given and taken meanwhile.
  `ClusterSizes` has clusters of three and of four shards, so that one is changed into the other.
- postgres: two standbys with ordinals up to 3, so that one can be dropped and another added; four requests one
  after the other or three with two under way; one crash. A capture is one of the requests. An entry that a
  conversion restores while its rejoin waits, and that is therefore renewed as a primary, needs a second crash or
  a request more, with two under way: it is beyond these bounds. Three requests with two crashes and two under way (218 000 states of
  this part alone) pass too, and the theorem covers it for any number.
- seeds: four engines, one key with two values and rows without a key, two tabs; three requests
  undisturbed with two under way, three with one disturbance one after the other, two with one disturbance and
  overlap, two with two disturbances.
- views: one id (two where the source is asked once per id), two editions of the manifest, two figures per id, and
  two polls on their way when a timer asks: an answer overtaken by the next.
- chat: two messages with a line; one with two lines; a start with a message, a line and two polls; two starts
  with a message and a poll.

Where deadlock checking is off, the system stops at a bound: an order whose last allowed attempt
failed, a cluster whose members are all down or wait for a clone, a relay without clients, a system
whose requests are used up, and a console with all conversations drawn.

Fairness. payments-api: every call of a handler has a timeout, so `Continue` is weakly fair; the
trigger client asks for sweeps again and again, and one gets a thread whenever threads become free
infinitely often (strong fairness of `SnapshotQueue`). Failover: `while True: tick` makes the
watcher weakly fair, and postgres streams, replays and acknowledges; nothing is assumed of crashes,
restarts, clients or operators. Relay: the heartbeat timer fires, terminated sockets get their
close event, redis answers in order and expires keys, the bus delivers; nothing is assumed of the
clients, which need not even answer a ping. The other modules state safety only.

Conditions in the properties, and what happens without them:
- `OneTokenPerAttempt` holds while payments-api has not restarted. After a restart the same attempt
  gets a second token, as the maps are in memory.
- `ProcessedOnceAndSettled` and `OutcomeReached` except a queue changed between snapshot and clear: a
  completion appended there is dropped without an outcome, and two sweeps may take one snapshot.
- `AckedIsPosted` is checked with `IdCollisions = FALSE`. With `TRUE`, a primary key collision is
  answered 200 for a step that was never posted.
- `OverdrawnOnlyByRace` says that the race of `ledger_race` is the only way to overdraw escrow.
- `PromotionKeepsSynced` is about one crash without a switchover, at a moment when no primary is
  live. A primary that returns between the decision and the promotion may acknowledge writes that
  the winner lacks; a second crash may take the only standby that had them.
- `Converges` excepts a switchover that fenced and then did not promote (nobody is down, so the
  watcher never promotes; an operator must), and one that overlapped a tick.
- `CommitsResolve` excepts a stranded standby, which `can_ack` names though it cannot stream, and
  commits on a member that was fenced meanwhile.
- `PresenceKeptUnlessMoved` (of `RegistriesKeepNewest`) excepts a client that moves between servers. The comparison in the close
  handler protects the local map only: the old server still deletes (or overwrites, when its commands
  come late) the entry in the cache that the new one has set, and a pong extends an entry but never
  restores it.
- `OneOutcomeWhenSteady` is about recipients that stay as they are. `route` and the hook ask the
  cache separately; around a reconnect a frame may be both delivered and stored, and a frame
  published to a server that the client has just left, or that crashed, is neither.
- The properties of `SystemEdit` except the mishaps above, each one named where it matters:
  `RegistriesAgree` for instance holds of consumer groups unless one of six has happened, and of the
  hidden endpoints always. The other parts of the console do the same with `slips`, `wrong`, `awry`,
  `marred`, `slow` and `flaws`: each name in them was needed, as TLC finds the property violated
  without it.
- `AuthoredAsRecorded` says what the code will be when the queue has run out, so that it is about every
  state and not about the last one. Deleting a client's function leaves its script, and relaxing a
  schema leaves the code that enforced it, because the dialogs launch no session for these.
- `OneConversation` excepts a child that outlives its interview and the retry of a stopped first turn.
- `SeedsHold` speaks of a moment when no request is under way, `PanelAgrees` of one when no message is being
  sent and App has polled the server's transcript, and `ViewsHold` of answers no slower than the timer.
- `RunsWhatIsDeclared` speaks of a system when nothing that could touch its containers is under way.

Also seen and not given a run.
- payments: 2a after a refund credits the psp although the refund already did; a redelivered refund
  request is filed twice by payments-api.
- the watcher: `stale` is any member that is down, so that with a standby down for long one missed probe
  of the primary promotes at once, though the comment speaks of the configured primary; after a watcher
  restart a split brain is resolved in favour of the first member of ha.json, which may be the old primary.
- the relay: a client that opens a second socket on one server and closes it is unregistered although the
  first is still open.
- delete: it looks for calls to a node and not for calls to the children it takes along; the `chat_db` of a
  worker and a reader's database that is a replica are no dependents and dangle; deleting the last policy of an
  arrow drops an arrow that a consumer function has come to need, and deleting a function's arrow drops its
  policies; the tier's deletion removes the folder of a service called `ws-shared`.
- gRPC: a field called `message`, `enum` or `oneof` makes its message look nested, so that its numbers are
  given anew, although the header of grpcProto.js says that they are never reused; installing a second llm worker
  resets the descriptions and edits of the contract, and overwrites a contract of that name which a user made;
  a text uploaded over a custom type's contract (grpc.js:418) makes it one that services may have only one
  server of, while the members of the type go on serving it.
- custom types write the manifest they loaded before they awaited protoc, and containers of the names they
  derive are overwritten without a look.
- redis: the scrape job `<id>-sentinel` that the metrics of redisTopology.js:219 and remove.js:632 speak of is never
  added; a refused cluster (:523) has removed the sentinel folder by then (:506).
- event streams: cdc.js (:100) reads and writes only the topics of streams.json, so that a capture rule that is
  registered or removed there lets consumers that were paused (`consumersPaused`) go on.
- outages: startOutage forgets an earlier outage of the node, and its timer, before `docker compose kill`; when
  that fails the node stays down, unlisted and with nothing to start it (`KillFails`).
- postgres: the guard of a conversion (`if (live && live !== id)`, :574) passes when no primary is live, though the
  comment at :582 says that it has established `<id>` as the live primary; fewer replicas or a delete may
  remove the standby that is primary; the settings kept for a member go stale when CDC is enabled while replicated.
- seeds: an entry goes by its position in a list that may be old, and the answer is the list of before; a row
  without a key is doubled by "Re-seed now", though the artifact's header says that it may be applied again;
  a failed delete of a cassandra row is not told, nor that a dynamo row stays when the schema could not be read.
- console: an answer slower than its timer may replace a newer one until the next tick; a source asked per id
  drops an id whose request failed; a message that was refused or lost stays in the chat until the length of
  the transcript changes; a stopped interview turn goes on writing to the transcript while the next one
  does, though the comment in interview.js speaks of one turn at a time.

## 4. Proofs

`PaymentLedger_proofs` proves, for any payments, orders, amounts and threads:
- `LedgerTypes`: `TypeOK`, strengthened by: a busy handler has a payment.
- `PayoutPostedExactlyOnce`, `ReadinessRowAgrees`, `PaidHasPayin`, `RefundRowsMatch`: from one
  inductive invariant, `SafetyInv`. The named properties alone are not inductive: the payout depends
  on the readiness row agreeing with the steps, and `MarkPaid` and the posts need that a handler past
  its read knows of a payin (`JobPayin`) and that nothing is posted before the payin (`PayinFirst`).
- `BalancesInvariant`: every balance is explained by the posted steps. It rests on `SplitIsExact`
  (90% rounded down plus the rest is the whole, for every amount) and on `StepExplained`, which adds
  up the entries of one transaction.
- `AckedInvariant`: `AckedIsPosted` when identifiers do not collide.
- `RacesOnly`: `OverdrawnOnlyByRace`, from `RaceNoted` (two handlers on one payment are in `raced`),
  `ReadHolds` (what a handler saw stays posted, and what it did not see is unposted unless raced) and
  `OneTerminal`.
- `LedgerRefinement`: every step maps to `Post` or a stutter of `AppendOnlyLedger`.

`OrderCheckout_proofs` proves, for any orders, threads and number of attempts:
- `CheckoutTypes`: `TypeOK`.
- `RowsAdvance`: the action property `StatusOnlyAdvances`, from `WritersHaveRow` (a handler past the
  insert has a row).
- `SupersededStaysClosed`: `SupersededIsClosed`, from `AttemptsInv`: whoever is about to insert an
  attempt has seen all earlier ones closed, and closed rows stay closed.
- `TokenIsUnique`: `OneTokenPerAttempt`: rows, handlers and clients all hold the token that
  payments-api has registered for the attempt.

`PaymentsApi_proofs` proves, for any keys, completions and threads of the pool:
- `ApiTypeCorrect`: `TypeOK`, strengthened by what a handler has in hand at each of its places
  (`HandlersFit`).
- `ProcessedOnce`: `ProcessedOnceAndSettled`. The queue, the four outcome lists and what each handler
  holds are shelves (`Contents`), and every step takes one completion, or a whole list, from one shelf to
  another. `ApiInv` says that no two shelves hold one completion, as long as no handler changed the queue
  between a sweep's snapshot and its clear (`OncePlaced`; until then a snapshot is the queue), and that this
  is so of the queue and the cancellations always. The property counts only the four lists, which alone is
  not inductive: it needs to know that what a handler files is nowhere else.

`PgFailover_proofs` proves, for a cluster of any size and any order of ha.json:
- `FailoverTypeCorrect`: `TypeOK`, strengthened by: a switchover under way names its members (`OpNamed`).
  It rests on `ListedIs`, that any set of members can be listed in the order of ha.json.
- `LastPrimaryNotFenced`: the action property `FenceLeavesPrimaryUnlessOverlapped`, from `Fencing`. The
  property is about the step that fences, and the reason lies in the probes before: what the running tick saw
  as a primary still is one (`SeenIsPrimary`), and so is the member it decided to keep while fences are left
  to make (`KeptIsPrimary`), because nothing but the watcher and a switchover takes a primary away.
- `PromotionKept`: the action property `PromotionKeepsSynced`, from `Guarded`. As long as no second member
  crashes and no switchover starts, the cluster is in one of three phases. `Steady`: nobody has crashed, every
  tick sees the primary, and some standby holds each acknowledged write. `Fallen`: the primary is down; a tick
  that found it down probed the standbys afterwards, so that each acknowledged write was reported by a standby
  (`SeenSynced`), and the standby to promote reported most (`BestIsPromoted`); that standby's history is a
  prefix of the primary's, as every other one's is, so it has the write. `Safe`: some member is writable
  and stays so, and the property has nothing to say. `Fencing` is needed for `Safe`.
  The hypothesis is `RemoteApply`: without it the property is false, which is what `failover_sync` shows.

`WebsocketRelay_proofs` proves, for any servers, clients, sockets, frames and faults:
- `RelayTypeCorrect`: `TypeOK`, strengthened by `Bounds` (what is queued, carried or stored was sent).
- `NewestIsKept`: `RegistriesKeepNewest`, from `Registry` and `Presence`. The cache is written by commands that
  servers issued earlier, so that the invariant is about the sequences of commands: only the server of the
  newest socket has commands to come (`Alone`), and the last of them sets the entry (`Named`).
- `FramesOnceInOrder`: `ArrivesOnceInOrder`, from `Order`: a frame is in one place of look-ups, channels and
  sockets (`OnePlace`), the places of one server's frames are in order along the way (`InOrder`), and what a
  server sends itself was sent before any socket of the recipient it holds was opened.
- `OutcomeWhenSteady`: `OneOutcomeWhenSteady`, from `Order`, `Registry`, `Hooks` (a look-up of the router is
  followed by that of the hook) and `Clean` (a recipient that stays as it is answers both alike).

`Console_proofs` proves, for any conversations, turns and overlapping requests, for any contracts,
methods, services and a finite set of fields, and for any ids, editions, figures, messages and lines:
- `OneConversationHolds`: `OneConversation`, from `InterviewInv`. That a live child works for the interview
  there is is not inductive, because a stopped child still writes when it exits: every child, a stopped one
  too, is of the interview there is.
- `ContractsKept`: `ContractsHold`, from `BankInv`. The property asks that a given number is never free for
  another field; the invariant says where each number is (`Given`: a field of the message has it or it is
  reserved, unless a word of the language makes the parser take the message for nested), that names in the
  registry, the texts and the grpc blocks meet (`Files`, `Wires`), and that what a request under way will write
  fits what it has loaded (`Awaited`), which is still there when it writes unless `slips` says otherwise.
  `LargestIs` (the largest number of a finite set bounds it) and `SetToSeqIs` (every new field has a place, no
  two have one) are what makes the numbers of `BuildMessage` new. The proof found `retyped`: the model
  had said that a contract in the registry keeps its origin, and TLC then found two servers of one.
- `ViewsHoldAlways`: `ViewsHold`, from `ViewsInv`. What the diagram shows is as good as the polls whose answers
  it will still believe, so that the invariant is about these: a poll asks for the ids of the manifest that
  its effect ran with (`PollsFit`), an edition's number names one manifest, so that an effect that has not run
  anew has what the manifest has (`EditionsAgree`), and while no answer is slow there is one poll of each
  effect (`OneOfEach`) and `asOf`, the parts of the page that have an answer asked after the last change,
  have what the server has, as has any answer to come that will be believed (`UpToDate`). With a slow answer
  the last is false, which is why `CatchesUp` excepts it.
- `PanelAgreesHolds`: `PanelAgrees`, from `PanelInv`. The property is about moments when nothing is being sent;
  the invariant says what the lines are meanwhile: while the stream is open the transcript is what the
  panel shows and what has been streamed to come, together (`messages \o streamed`), and while none is open
  the panel has what App polled, or App has not polled the transcript there is. That lines are
  shown once needs their order: each line is numbered by its message, and the lines of the transcript, the
  panel, the stream and what App polled are sequences without repetition (`Sheet`). The proof found a start that the
  panel does not notice: the effect goes by the conversation and the length that App polled, so that lines
  of an interview that App has never polled stay when it is replaced. TLC shows it with two starts,
  which its budgets did not have; `replaced` now covers it.
- `ShownHoldsAlways`: `ShownHolds`, of the console as a whole, from these two.
- `DatabasesHoldAlways`: `DatabasesHold`, of the console as a whole, from `PostgresHoldsAlways` and
  `SeedsHoldAlways`.

`Databases_proofs` proves, for any ids, keyspaces, sizes of clusters and requests about redis, for any numbers of
standbys, targets and requests about a postgres, and for any keys, values, tabs and length of a seed list:
- `RedisHoldsAlways`: `RedisHolds`, from `RedisInv`. The property names each container from its node; the
  invariant goes both ways, so that a change of mode is seen to remove all that was there and nothing else:
  every container that a node's mode asks for is that node's, and every container of the compose file is asked for by its owner,
  with the flags of the primary it stores for (`BuiltAs`). `StoreFits` says what makes the names tell nodes apart: a
  replica is called after a primary with sentinels and has a number, and what a node has besides its keys (sentinels,
  members) belongs to primaries. `Met` is about the user's wishes, one by one, `TabFits` and `ScanFits` about what the tab
  and the scan hold, which a save will put back. Most of the proof is about names: no suffix is a number, the numbers
  differ, so that `NameGrows` and the lemmas after it tell the derived names of a node from each other and from its
  replicas'. What they cannot tell apart is a name that a user has asked for, and there the proof failed
  until `collided` was noted as well when a delete or a change of topology removes a container that is another's
  (`removeComposeService` does not look), and until a cluster that is formed anew left the containers of the
  base name alone (redisTopology.js:528).
- `PostgresHoldsAlways`: `PostgresHolds`, from `PostgresInv`. The property says that the files agree; the
  invariant says what each has, so that a request which rewrites all three from what it loaded is seen to keep
  them so: the manifest has a whole record of the cluster or none (`ClusterFits`), the other two follow from it, and
  only the entry is waited for, which waits for nobody, whichever member a failover or a rejoin is about
  (`PgFilesFit`); an entry that lets no standby in was either unmounted or has no cluster, and no Apply
  under way (`EntryFits`); what a capture set survives in the node's record, because a conversion rebuilds the entry
  from that (`SettingsKept`); the members that live are those of the files, the one written last is among them and is the one that is
  up and written (`PgLiveFits`, `OneIsWritten`), so that a conversion that found the entry written discards nothing newer;
  and a request under way has loaded a cluster that has the member it is about, which was not the one written when its
  rejoin saved (`RequestsFit`). A
  request that saves over what another has saved is `lost`: the model ends there, and the invariant claims nothing.
  `SyncIs` gives the number of synchronous standbys, which bounds the quorum when an Apply or a delete changes them.
- `SeedsHoldAlways`: `SeedsHold`, from `SeedsInv`. The property speaks of moments when no request is under
  way. Meanwhile the database is ahead of the list or behind it: an add has inserted its row before it is
  recorded, so the rows are those of the list with the entry to come (`Append`), and a removal has taken the
  entry from the list before its row is deleted, so that they are those of some list that gives this one when the entry is
  taken out (`TakenOut`). The artifact is the list but while a removal is between the two writes (`ArtifactFits`),
  an apply that is alone replays the list there is, and into an empty table the rows are those of the statements
  that have run, whatever went wrong before (`AloneFits`); what the user meant is the list as a bag (`MeantFits`).
  When a replay overwrites, a key of the statements run so far counts as these say and the others as the whole list
  says, which is the list again only at both ends (`Between`, `BetweenEnds`): that is what `halfway` excepts. The steps are carried by lemmas about the rows of a list, per engine: `InsertedIs` (inserting appends),
  `DeletedIs` (deleting takes out, unless an equal row of another entry may be taken), `ReplayedIs` and
  `ReplayedAgain` (an artifact refills an empty table and adds nothing to a full one but rows without a key), and
  `CountMore` and `CountLess` about the bag.

`Editing_proofs` proves, for any kinds of records, keys, conversations and disturbances, and for any systems,
containers, outage requests and budgets:
- `QueueIsServed`: `QueueServed`. The property is about the queue and is proved of the queue with the
  dialogs, because it needs to know where conversations come from: an id that was queued twice, or was stored
  before its turn, would be refused by Claude, and the queue would wait for a token that never comes. The
  invariant has two parts. `Orderly` is the queue's: the first item is the one whose turn it is and the others wait
  (`Places`), the terminal that is shown has one connection, to the session it shows (`Attached`), a session
  that has begun is stored and one that has worked has done its task (`Progressed`). `Drafts` is the dialogs':
  everything that is queued, stored or shown was launched, or belongs to a record whose session was lost
  (`Within`), a record names only such a conversation or the one that is about to be launched
  (`Records`), and that one is not known to the queue yet (`Sending`), so that `Enqueue` brings a new id
  and `Reopen` an old one. `SavesShaped` goes through the saves of all dialogs for `Records`.
- `ResumesAndRunsHold`: of `AuthoredAsRecorded`, that a Resume finds its conversation (`ResumeFindsConversation`) and
  that a queued run finds the server believing in it (`RunIsBelieved`). `Remembered` adds to the invariant of the queue
  that a launched conversation has begun, waits, or has lost its turn (`Known`, kept because an item is let go only
  when its task is done or its session is lost, `NobodyForgotten`), and that a session still to run a process is the
  run the server remembers, of a process on record (`RunsKept`): a second run is refused while one is believed in, and
  the process of that run cannot be deleted, which `SavesRun` reads off the saves of every dialog.
- `RunsWhatIsDeclaredHolds`: `RunsWhatIsDeclared`. The property speaks of systems about which nothing is under
  way; `RuntimeInv` says what holds meanwhile. `ActivationsOK`: one command at most is an activation's, of the
  system that its step is about, and only the first of a chain has read its file. `Present`, of a system whose
  containers exist (`Exists`): a `down` is the last of its chain, a command outside the lock is alone, the last
  command to have read the file has read what the file has now, what runs beyond the file has a prune to
  come, and with no command awaited everything of the file runs but for what is `Missing` (out, about to be killed, or
  being started). `Absent`, of any other: nothing runs, and the only commands awaited are an activation's.
  `OutagesOK`: a node that is out has its timer, which is of that outage and no other, and one request at
  a time is about a node. All but the types and `ActivationsOK` are for systems that were not struck;
  `CalmStays` carries them over the steps that are about another system. The prover found that a container
  could be started after its system was taken down, which the model then allowed.

The assumptions are the named ones of the modules: types of the constants, `None` outside the
sets it is no member of, ha.json lists every member once, budgets are numbers, the largest ordinal of a standby is a
natural number, the engines are those of `SEED_ENGINES`, and ids of redis are non-empty
sequences of strings, numbered by strings that differ from each other and from the suffixes. Only model-checked: liveness (`OutcomeReached`,
`Converges`, `CommitsResolve`, `OutcomeComes`, `LostClientForgotten`), which the prover cannot do under fairness;
`SystemEdit`, whose invariants hold but for mishaps that depend on which of fifty requests overlapped, so
that an induction is as long as the model; and of `AuthoredAsRecorded` its first part, `CodeFollowsRecords`, which folds
the queue over the code: a proof would be an induction over the queue for each of fourteen dialogs. What recursive definitions compute cannot be proved by
the installed provers, and no theorem needs it.

## 5. Plan

In this order, each with its MC module, one run, and proofs where they say something TLC cannot:
1. llm-app: `Rebalance` (abstract specification: an assignment that covers the live workers),
   `UserMessageConsumer`, `DbWriters`.
2. `DownloadCoordinator` with `ChunkStore`.
3. `PayoutPipeline` and `RefundPipeline`: an at-least-once consumer over the tables that
   `AppendOnlyLedger` promises, composed with `PaymentsApi`.
4. `ConsumerScaler`, the decider whose targets `CustomTypes` applies.
