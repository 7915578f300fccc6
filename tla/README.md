# ODW Desk: specifications, model checking and proofs

ODW Desk is a customer-service desk: customers write over WhatsApp, email or web
chat, an AI answers, human agents take over. The Python service (`src/src/desk`)
is one asyncio process with PostgreSQL, Redis Streams, a language model and a
knowledge base (the Vault) around it. This directory holds TLA+ modules of the
parts where order, concurrency and failure decide what is correct, TLC
configurations that check them on small instances, and theorems that TLAPS checks
for every instance.

Paths below are relative to `src/src/desk`.

## 1. The system

| Component | State | Operations | What makes it hard |
|---|---|---|---|
| Conversation manager, state machine (`conversations/`) | the conversation row: status, assigned agent, `ai_enabled`, timestamps, metadata | get_or_create (reopens finished threads), add_message, update_status, assign_agent | called by eight handlers in sessions of their own; READ COMMITTED writes changed columns over other commits |
| Message router (`router/message_router.py`) | none | route: resolve customer, open thread, duplicate check, store, publish | redelivered webhooks, two unique constraints, publish before commit |
| Customer resolver (`router/customer_resolver.py`) | customer rows | resolve_or_create | lookup and insert race; threads shared by several senders |
| Agent inbox (`agents/inbox_api.py`) | none | takeover, respond, resolve, status, read receipts | concurrent agents; locked and unlocked reads |
| SLA scan (`sla/`) | due dates | a periodic scan that escalates breaches | works from a snapshot, one commit for all |
| Message processor (`workers/message_processor.py`) | its batch | poll, wait for commit, check AI, generate, store, dispatch, acknowledge | sequential, crashes, Redis and database failures, slow generation |
| Event bus (`events/redis_streams.py`) | stream, group cursor, pending entries, dead letters | publish, subscribe, acknowledge, dead_letter | at-least-once delivery |
| AI engine (`ai/engine.py`) and its shield, router, prompt builder, Vault client | cached configuration, providers | process_detailed, escalation | settings change under a turn; what may leave the infrastructure |
| Policy engine (`policy/engine.py`) | policy rows | pre and post hooks, create, activate | order by priority, several actions at once |
| Personas (`persona/`) | persona rows, one active | create, update, activate | read-clear-set without a lock |
| Runtime settings (`admin/runtime_settings.py`) | table and process cache | persist; load (never called) | commit and cache in different orders |
| Web-chat sockets (`channels/webchat.py`) | visitor -> socket | connect, disconnect, push, frame loop | displaced sockets and late teardown between awaits |
| Agent sockets (`agents/websocket.py`) | agent -> sockets, subscriptions | connect, disconnect, (un)subscribe, broadcast | the registry changes under a broadcast |
| Compliance (`compliance/engine.py`, `compliance/service.py`) | hash-chained audit log; consent | log, verify, retention; export, anonymize, delete | concurrent appends; erasure against messages in flight |
| Rate limiter (`channels/rate_limit.py`) | visitor -> times of frames | allow | the edge of the window |
| CSAT survey (`surveys/csat_api.py`) | the conversation's metadata | submit | read-modify-write of a column with other writers |
| WhatsApp webhook (`channels/whatsapp_business.py`) | none of its own | route every message of a payload in one session, answer, commit | row locks kept across messages, redelivery of a whole payload, an answer before the commit |
| Email (`channels/email.py`) | none | inbound endpoint, `compute_thread_id`, `send_reply` | the thread is guessed from headers that clients build |
| Confidence scorer (`ai/confidence_scorer.py`) | none | score; the engine compares with a cached threshold | stale configuration; weighted factors at their edges |
| License manager | license row | validate | clock |
| Providers, reports, access control, i18n, observability, encryption | none or external | I/O and pure functions | not modelled (section 7) |

How they interact. A webhook, the email endpoint or a web-chat frame calls
`MessageRouter.route` in a database session; the router publishes
`conversation.routed` to Redis; the processor reads it, runs `AIEngine`, stores the
reply in another session and dispatches it through the channel (web chat: the
socket registry). The engine, the SLA scan and the inbox change the same
conversation row. The inbox and the scan broadcast to agents' sockets. Erasure and
retention rewrite and delete rows that the router is reading, and files in the Vault. No component holds a lock over another's
call except PostgreSQL's row locks.

What makes each part correct is listed as hazards in `PROJECT.json`, each at its
source line with the properties that would notice it.

## 2. Modules

| Module | Models | State, actions |
|---|---|---|
| `Lifecycle` | state machine and manager as pure operators | `CanTransition`, `GetOrCreate`, `AddCustomerMessage`, `AssignAgent`, `UpdateStatus`; `WriteDirty` is SQLAlchemy's flush of changed columns |
| `Ownership` | abstract specification of the inbox's promise | an owner is claimed only on an open, unowned conversation and released only by resolving; never replaced |
| `DeskCore` | one conversation and every handler that writes it | `row`, `inbox`, `routed` are committed; `txn[s]` is the open session: operation, argument, row as loaded, step. Row locks are derived (`Lock`, `Conflict`), a step waits until it can hold its lock, `Commit` writes the dirty columns over whatever is there |
| `MessagePipeline` | `DeskCore` plus stream, consumer group and processor | `events`, `cursor`, `pending`, `dlq` survive a crash; `batch`, `pc` and open transactions do not. Faults: crash, Redis, database |
| `WebChat` | one visitor's registry entry, socket handlers, pushes | an action is the code between two awaits |
| `AgentConnections` | agents' registry and broadcasts | dictionaries are functions with a changing domain; a broadcast is `targets` and `left`, one awaited send at a time |
| `CustomerThreads` | resolver and thread lookup against GDPR erasure | committed rows and `tx[s]`; unique constraints and foreign keys make inserts wait or fail |
| `AuditChain` | hash chain | writers read the newest visible entry, append, commit or roll back; a row may be tampered with |
| `AITurn` | one AI turn after another | shield, router, Vault, prompt and provider decide what is `disclosed`; messages arrive and settings change in between |
| `PolicyEngine` | policies around an answer | hooks scan the active rows in priority order; policies are created and switched meanwhile |
| `RuntimeSettings` | one settings key | its row, the override cache, requests that look up, write and activate; a restart empties the cache |
| `Personas` | which persona is active | rows, flags, and activations that read all flags, clear them and set one |
| `RateLimiter` | one visitor's sliding window | a clock, the times of admitted frames, `first` as the head of the deque |
| `Survey` | the metadata column of one conversation | ratings and status changes load the column, write it whole and commit; a reason goes into the loaded object, which SQLAlchemy takes for unchanged |
| `SLAScan` | the periodic SLA scan | clock, conversations, and the scan's session: loaded copies, rows flushed, conversations announced |
| `Webhook` | Meta's payloads of several messages next to the SLA scan | `rows` and `stored` are committed; `job[s]` is an open session: the objects it loaded (`obj`), the rows it wrote and keeps locked (`own`), the messages it inserted; `Blockers` are PostgreSQL's lock waits and `Deadlocked` its detector; `waiting`, `acked` are what Meta knows |
| `Retention` | retention sweep and GDPR erasure over one customer's rows and Vault files | `kept`, `masked`, `trail` are committed, `vault` is outside; `task[s]` is a job and the rows it holds |
| `Mail` | which conversation a mail belongs to | `mails`: the identifiers of every mail, written by clients of two kinds and by the desk; `topic` and `linked` are history |
| `Handover` | the confidence score, and the threshold the engine takes from the administrator's row | the row, the engine's cached `snapshot` and what it applied, the reply in progress |
| `DeskCore_proofs`, `MessagePipeline_proofs`, `Realtime_proofs`, `Conversation_proofs`, `Compliance_proofs`, `AI_proofs`, `Admin_proofs`, `LeastNumber` | theorems | section 5 |
| `MC*` | instances for TLC | `MCRealtime` joins the two socket registries and the webhook, `MCServices` the other twelve parts; the joined modules share no state and an initial choice (`side`) says which of them moves |

Composition: `MessagePipeline` EXTENDS `DeskCore` EXTENDS `Lifecycle`; the
processor's transactions are transactions of `DeskCore`, so its escalation and
replies meet the same locks as the inbox's. `DeskCore` instantiates `Ownership`
with `owner <- row.agent` and `open <-` the row exists and is not resolved or
closed.

Abstractions that hold everywhere: a message is a model value; a text either has
personal data or not; what depends on a model's answer or on text recognition (a
policy's trigger; outside `Handover` also the verdict on a reply) is a free choice,
and so is what depends on the clock outside `RateLimiter`, `SLAScan`, `Retention` and
`Handover`; formatting and logging are left out. Only `DeskCore` states its type
invariant on its own; in the modules with proofs the shape of the state is part of
the inductive invariant.

Two library behaviours are modelled from how the code uses them. PostgreSQL: READ
COMMITTED reads, FOR UPDATE, the lock an UPDATE takes, the key share of a foreign
key, unique-index waits, deadlocks. SQLAlchemy: an identity map keeps the loaded row
(`expire_on_commit=False`), a flush writes changed columns only.

## 3. Runs

| Run | Instance | Question |
|---|---|---|
| `desk_all` | 2 sessions, 2 agents, 2 messages, all eight endpoints; 0.3 M states | Do locked reads stay fresh (`ExclusiveIsFresh`), is ownership refined (`OwnershipKept`), does every stored message have its event (`NoSilentMessage`), is a new row never visible, does the AI flag switch only with an owner or a reopening (`AISwitchesWithOwner`)? Yes. |
| `pipeline_faults` | worker and one client, 2 messages, 3 events, 2 faults of any kind | At most one stored reply per event, nothing sent that was not stored, at most one reply after a takeover, nothing stranded without a fault. |
| `pipeline_drain` | no faults, 2 events, fair worker and clients | Every event is acknowledged; no session waits for a lock for ever. |
| `realtime` | 3 visitor sockets with 1 push; 2 agents, 3 sockets, 1 broadcast; 2 payloads of 2 messages over the same 2 threads in opposite orders, the scan, 1 fault or timeout; 70 k states | A torn-down socket is not registered and a dead one is dropped; agents' two dictionaries keep the same keys, open sockets are listed, a broadcast reaches whom it owed; a payload answered with a 200 is stored whole (`AckedIsStored`), and through deadlocks, races and redelivery every payload is answered in the end (`BacklogEmpties`). |
| `services` | 3 people on 2 threads with 2 sessions; 2 audit writers, 4 entries, 1 tampering; 2 texts; 6 policies; 2 settings requests; 3 personas, 2 activations; a budget of 2 frames in 3 ticks; 2 requests and 2 ratings on one metadata column; 2 conversations, deadlines of 1 and 2 ticks, 4 ticks; 2 jobs over 2 conversations and 2 files, 3 days; 5 mails; 3 thresholds, 3 changes, 5 ticks; 1.4 M states | No message in somebody else's thread, one customer per private thread, the thread's holder is the one resolved; links of the audit chain never dangle, an untouched unforked log verifies, tampering shows; the shield bars raw personal data; policies that must decide do; cache and table agree once settings requests that did not overlap are done; an activation alone leaves one active persona; no window holds more frames than the limit and no frame is refused without need; one rating per conversation as long as writes do not overlap; agents hear of an SLA breach before the escalation is visible, and a scan that commits has escalated all that were overdue when it began; what is gone is exactly what the audit trail says was deleted (`GoneIsAudited`), and a Vault file left after an erasure is reported (`OrphansReported`); mails of one discussion, and only they, share a thread (`ThreadIsDiscussion`); a threshold that stood for a minute governs the replies (`EngineCatchesUp`), and a reply without knowledge behind it is handed over (`UngroundedIsHandedOver`). |
| `desk_stale_status` | 2 sessions, endpoints inbound and status | violation: an illegal transition is committed from a stale read |
| `desk_ai_beside_owner` | inbound, takeover, status | violation: the AI answers in a thread an agent still owns |
| `pipeline_lost_event` | 1 event, 1 crash, fair | violation: an event read before a crash is never read again |
| `webchat_eviction` | 3 sockets, 1 push | violation: a failed push evicts the socket that replaced its own |
| `erasure_race` | 1 anonymization | violation: a message in flight is stored raw after it |
| `email_thread` | 2 people on one email thread | violation: the second person's message can never be stored |
| `pii_history` | 2 texts, 1 with personal data | violation: a message kept local is in the next frontier prompt |

Each violation is listed under `findings` in `PROJECT.json` with the comment, test
or document it contradicts. Every passing property has a mutant: a plausible bug
in one mapped operator that makes TLC find the property violated on the same
instance, so no property holds vacuously.

### Bounds, and why they are enough

- *Two database sessions* (`desk_all`): every rule of the model relates one session's
  loaded copy to the committed row, or two sessions' locks; a third session adds
  another such pair. The theorems of `DeskCore` hold for any number.
- *Two agents, two messages*: a rival for the owner, and a second message that finds
  the thread finished, are the interesting cases. Redelivery needs no bound: a
  delivery is repeated at will.
- `MaxEvents = 3`, `BatchSize = 2` (10 in the code): a batch smaller than the
  stream, so that events wait in the batch and in Redis at the same time.
  `MaxFaults = 2`: a fault in the handling of another.
- *Three sockets*: the displaced one, its replacement, and a third that displaces
  the replacement while the first is still being torn down.
- `MaxStamp = 3` bounds transactions that create rows; three people are one with a
  thread of her own and two that share one.
- `MaxEntries = 4`, two writers: enough for a fork with an entry before and behind it.
- `ContextMessages = 2` (10 in the code): history longer than the window.
- Six policies: two of equal priority, one of both phases, one withheld by
  severity only, two disclaimers.
- *Two settings requests* (`Editors`) and *two activations* (`Admins`) of three
  personas: a race needs two, and a third persona is one that neither activates.
- `Budget = 2`, `Window = 3`, `MaxTime = 8`, `MaxAdmitted = 5`: the window empties
  and fills again twice, with frames at its exact edge and several in one tick.
  The theorems of `RateLimiter` hold for any values.
- `MaxRatings = 2`: a second rating is the error. `MaxMinute = 4`, `FirstResponse = 1`,
  `Resolution = 2`: both deadlines pass during a scan, and a conversation can be
  opened late enough for only one of them to pass; two conversations, so that
  one is escalated while the other waits in the loop.

- *Two payloads of two messages over two threads*: the smallest pair of sessions that
  locks two rows in opposite orders; the scan locks both as well. `MaxFaults = 1`:
  each fault at each step; two would only repeat the redelivery. A deadlock the scan
  loses counts as its fault: two victims that start over for ever would otherwise be
  a run in which nothing ends.
- `RetentionDays = 1`, `MaxDay = 2`: a conversation is too young, old, and old but touched
  since. Two jobs: two sweeps, two erasures, or one of each over the same rows; one
  conversation has two files and one has none.
- `MaxMails = 5`: a discussion of three with a branch beside another one.
- `Thresholds = {0, 30, 90}` with the default 60 and the column's 70: one that counts
  as unset, one below and one above; `TTL = 2`, `MaxTick = 4`: a snapshot is read, ages
  and is read again; three changes, two of them within one snapshot's life. Replies
  take each of the scorer's length bands, and enough phrases to reach both caps.

`Symmetry` permutes sessions and agents or requests only in runs without a
liveness property, and only model values no definition tells apart.

`CHECK_DEADLOCK FALSE` is set where the bound or the inputs end: when all sockets
were used, all events published, all stamps taken, all mails written.

### Fairness

`PipelineFairness` is strong fairness of the worker and of each client that has
begun. The worker is one asyncio task of a process that runs for ever; both wait
only for row locks, which PostgreSQL grants in the order they were asked for, so
a waiter that is enabled again and again gets its turn. Clients are not assumed
to start anything. `WebChatFairness` is weak fairness of handlers that can run and
of sends that are in flight: asyncio runs every runnable task, and a receive on a
dead connection ends when the server's ping times out. `WebhookFairness` is weak
fairness of a request's next step (an asyncio task; a deadlock is found after a
second) and of Meta's redelivery (it retries for days), and strong fairness of the
scan's steps and of a request's lock in the middle of its payload: PostgreSQL grants
a row lock in the order of its queue, so a waiter that is enabled again and again
gets its turn. Timeouts and faults are never forced, and first deliveries are not
assumed. Nothing is assumed to be fair in the other modules.

## 4. What the code does otherwise than it says

Besides the seven findings, the models show behaviour that no run states:

- A redelivered webhook reopens a resolved conversation before the duplicate check
  finds it (`InboundOpenThread`, then `"duplicate"`).
- The findings of the shield go to the newest customer message, which may not be
  the analysed one (`WriteBack`).
- A block further down the priority order overrides a redirect or an escalation
  (`Scan`, `HighestDecides` says what does decide); escalate and redirect policies
  of the post phase change nothing.
- The shield's permission is read when it is built and the Vault client when the
  engine is: the endpoints that change them have no effect before a restart.
- `load_all` of the runtime settings has no caller: after a restart every saved
  override is back to the environment's value (`RestartProcess`), although the
  module calls the table durable across restarts and the cache refreshed at
  startup (`admin/runtime_settings.py:9`, `:32`). The next PUT of one field writes
  the environment's value over the other saved one (`InForce`).
- Two overlapping activations can leave two active personas or none, and an unknown
  persona id deactivates all (`CommitActivation` with an empty `of`).
- The reason of a status change is saved only while the metadata column is empty:
  afterwards it is written into the object SQLAlchemy loaded, which then looks
  unchanged (`WriteReason`). Two ratings, or a rating and the first reason, that
  overlap overwrite each other and both succeed (`overwrote`).
- Nothing sets `sla_resolution_due`, so the resolution deadline counts from the
  creation of the row: a conversation reopened after that deadline is escalated by
  the next scan (`Evaluate`, `CustomerWrites`). A scan whose commit fails has
  told the agents of escalations that did not happen (`ScanFails`).
- Concurrent audit writers fork the chain, and verification then fails without
  tampering (`forked`, `UntouchedVerifies`).
- The WhatsApp webhook answers 200 before `get_db` commits: a commit that fails then
  loses the payload (`CommitFails`, `unlucky`). A message that loses the race for its
  unique key is not reported as a duplicate, as `router/message_router.py:94-97` says,
  while others of its payload wait in the same session: the rollback expires the
  customer, reading `customer.id` raises, and the answer is a 500 (`LoseRace`); the
  redelivery then finds the duplicate.
- A customer's reply to the desk's own mail opens a new conversation, because
  `send_reply` gives its mail a new Message-ID and no References, although
  `channels/email.py:14-17` says that a reply reuses the original conversation
  (`DeskReplies`). A client that sends In-Reply-To alone splits a discussion at its
  second level. A mail without Message-ID gets a fresh one, so its redelivery is
  stored twice (`channels/email.py:156`); `smtp.quit()` raising after the mail is out
  reports a delivered mail as failed.
- The administration accepts a threshold of 0, and the engine takes it for "unset"
  (`Apply`). After a restart with another `SECRET_KEY` the stored API key cannot be
  decrypted; that raises outside the turn's try block, so that every turn ends in
  the dead letters until a new key is saved (`BeginReply`), although
  `_refresh_runtime_config` calls itself best-effort.
- Retention deletes what it read as old even when it was touched meanwhile (`SweepChat`);
  the counts of its answer include rows another job had deleted. A crash between an
  erasure's commit and its last Vault call leaves files nobody reports (`forsaken`).
- `provide_ai_feedback` (`agents/inbox_api.py:597-617`) changes the loaded metadata
  object in place, which SQLAlchemy takes for unchanged: the feedback is never stored,
  and success is returned. It is not modelled: there is no second state.
- A handler whose greeting fails, or that breaks out at the rate limit, leaves its
  socket registered until the next push (`"leaked"`).

## 5. Proofs

Every safety property that a passing run checks is a theorem for all values of the
constants; what stays with TLC is named at the end of this section. Seven modules
hold the proofs, `LeastNumber` what three of them need of numbers:

| Module | Proves about | Theorems (the property each states) |
|---|---|---|
| `DeskCore_proofs` | `DeskCore` | `TypeCorrect` (`TypeOK`), `LockedReadsStayFresh` (`ExclusiveIsFresh`), `EveryMessageRouted` (`NoSilentMessage`), `NewStaysInvisible` (`NewIsNeverVisible`), `AIFollowsOwner` (`AISwitchesWithOwner`), `OwnershipHolds` (`OwnershipKept`: `DeskCore` implements `Ownership`) |
| `MessagePipeline_proofs` | `MessagePipeline` | `AnsweredAtMostOnce` (`OneReplyPerEvent`), `SentIsStored` (`NothingSentUnstored`), `TakeoverSilencesSoon` (`AtMostOneLateReply`), `NothingIsStranded` (`NoneStranded`), `PipelineImplementsDesk` (the pipeline's visible steps are `DeskCore`'s or lose sessions), and what `DeskCore` promises with the worker beside it: `DeskHoldsInPipeline`, `OwnershipHoldsInPipeline`, `AIFollowsOwnerInPipeline` |
| `Realtime_proofs` | `AgentConnections`, `WebChat`, `Webhook` | `RegistryIsSound` (`KeysTogether`), `OpenSocketsListed` (`OpenIsListed`), `BroadcastsReachAll` (`BroadcastReachesAll`), `GoneStaysUnregistered` (`GoneIsUnregistered`), `AcknowledgedIsStored` (`AckedIsStored`) |
| `Conversation_proofs` | `CustomerThreads`, `Mail`, `Survey`, `SLAScan` | `NobodyElsesMail` (`NoCrossTalk`), `NeverTwice` (`OneCustomerPerPerson`), `TheHolderIsFound` (`HolderIsResolved`), `ThreadsAreDiscussions` (`ThreadIsDiscussion`), `RatedOnce` (`OneRating`), `ToldBeforeEscalated` (`ScanTellsFirst`), `ScanJudgesFairly` (`EscalatesTheOverdue`) |
| `Compliance_proofs` | `AuditChain`, `Retention` | `LinksLeadSomewhere` (`NoDanglingLink`), `VerificationAccepts` (`UntouchedVerifies`), `TamperingIsEvident` (`TamperingShows`), `DeletionsAreAudited` (`GoneIsAudited`), `FilesAreAccountedFor` (`OrphansReported`) |
| `AI_proofs` | `Handover`, `AITurn`, `PolicyEngine` | `ThresholdGoverns` (`EngineCatchesUp`), `UngroundedNeverSent` (`UngroundedIsHandedOver`), `ShieldAlwaysHolds` (`ShieldHolds`), `PoliciesGuard` (`GuardsGuard`), `HighestPriorityDecides` (`HighestDecides`) |
| `Admin_proofs` | `RateLimiter`, `RuntimeSettings`, `Personas` | `BudgetIsKept` (`WindowBudget`), `RefusalsAreDue` (`NoLockout`), `CacheFollowsTheTable` (`CacheAgrees`), `ActivationIsExclusive` (`ActivationRepairs`) |

Each proof has the same form: an inductive invariant (`Inv`, `PipelineInv`, `ConnInv`,
...), one lemma per action that keeps it, a theorem that it holds, and the properties
from it. None of the properties is inductive alone; what the invariants add, and why,
follows. The assumptions are the `ASSUME`s of the modules: sentinels (`NoAgent`,
`NoSocket`, `NoPolicy`, `NoEntry`, ...) are none of the values they stand beside,
inputs have the shape the code gives them, bounds are numbers, and in
`PolicyEngine` the catalogue is finite.

### The desk and the worker

`DeskCore`. `Inv` adds what a session remembers: `WellFormed` (what the handler's
guard checked of its loaded copy), `Grounded` (what of it the database still agrees
with: an existing row does not vanish, a duplicate is stored, a published message is
routed), `LocksApart` (no two sessions hold conflicting locks) and `RowGrounded` (no
row, no messages; never "new"). `LocksApart` is the core of the freshness proof: a
takeover holds its exclusive lock from the read on, every commit that changes the
row holds a lock that conflicts with it, so no such commit is possible in between.
With fresh reads the refinement follows commit by commit: only a takeover changes the
owner to another, and its guard holds of the row it commits over; only a resolve
clears it. `AIFollowsOwner` needs that the AI flag is written only by `AssignAgent`
and by the reopening in `GetOrCreate`, whatever columns other sessions write over.

`MessagePipeline`. The desk's part of every step is a step of `DeskCore`, the loss of
sessions (one that fails, all in a crash: they fall idle, the row stays) or none
(`DeskMoves`, and as a refinement `PipelineImplementsDesk`); a loss keeps `Inv`
(`LossKeepsInv`), so `Inv` holds here too.
`PipelineInv` adds where each event is: the batch is increasing and behind the cursor
(`BatchShape`), an event ahead of the worker is unanswered, and the one it is at is
answered only when the stage is past the reply (`AnsweredOnce`). That is why a reply
cannot be repeated: the group's cursor never goes back, so an answered event is in no
later batch. `answered` counts the committed replies of each event, and grows
nowhere but in `ReplyCommit`. `LateOnce` says why a takeover silences the AI after
one more reply: once a late reply is committed, the flag is off and the worker is at
no stage from which it could reply again without reading the flag (`CheckAIEnabled`).

### Connections and deliveries

`AgentConnections`. `ConnInv` adds `ListedIsOwned`, `OpenIsListed` and `WillVisit`: what a
broadcast still owes is in the list it is serving or belongs to an agent it has not
come to. `WillVisit` needs `OpenIsListed`, or an owed connection could be missing from
its agent's entry when the broadcast gets there.

`WebChat`. `GoneIsUnregistered` is kept by a handler that ends only if nobody enters a
socket again: a socket is entered by its own handler, once (`WebChatInv`).

`Webhook`. `PassedIsKept` says that a session passed a message of its payload only after
storing it in this transaction or finding it committed; committed messages stay, so
that a session that answers brings or finds all of them. Between the answer and the
commit `AckedIsStored` lives on the session itself, and whatever ends that session
otherwise is what `unlucky` records.

### The conversation's services

`CustomerThreads`. `ThreadsInv` has three layers. Of the committed rows (`RowsInv`): ids
are unique, a thread has one holder, a conversation has an owner, the owner is one
who writes to that thread, and a private sender's customer holds its thread. Of one
session (`Finder`, `Eraser`): its stamp is on no committed row, the rows it found are
still what it found or are gone, the customer it resolved belongs to the sender or was
anonymized, and a conversation it is about to make finds its thread free. Of two
sessions (`Apart`, `Guarded`): stamps differ, two cannot create one thread, and the
locks of a flushed erasure (`Touched`) keep it apart from messages stored meanwhile.
`OneCustomerPerPerson` has no index behind it: it holds since a new customer commits
with its conversation, a private sender's conversations compete for one thread, and
the thread leaves its customer only with an erasure of both. `Fresh` is a maximum, so
that it exists needs `GreatestNumber`.

`Mail`. The first element of a chain of references is handed down from answer to answer
(`ChainBegins`), so the thread of every mail with a whole chain is the mail its
discussion began with (`RootKept`).

`Survey`. A rating on its way was asked for when the copy it will write had none, and a
change of status writes back the rating it loaded (`RatesUnrated`); a copy that has
become old since is what `overwrote` records.

`SLAScan`. `Judged` says that a scan has judged every conversation it loaded, or has yet
to, and that those in breach when it began are in its list or in its hands; since the
clock only moves on, a breach lasts (`BreachLasts`). `ToldInOrder` follows the order
of flush and announcement through the loop.

### Compliance

`AuditChain`. `AuditInv` claims nothing of a log somebody edited; otherwise (`Sound`)
every entry's link leads to what its writer could see, and a writer that read its
predecessor has it still visible when it appends, because a session sees its own
entries and all commits. That a set of entries has a newest one is carried along
(`HasNewest`). `TamperingShows` needs an invariant that survives tampering: stamps
are unique among committed and uncommitted entries (`OneEntryPerStamp`), so the entry
behind a removed one names a hash no other entry has (`RemovalShows`).

`Retention`. `RetentionInv` adds `OneHolder` (a row is written by one transaction at a
time) and `Erasing`: an erasure loaded all rows the database still has, since nothing
creates any, so the files it knows are those of whatever it will erase; and once a
hard erasure flushed, it holds everything that is kept.

### The AI's side

`AITurn`. What the shield decided for the message in the pipeline is kept until its
answer: the turn carries its own copy of directive and redaction, so a setting that
changes meanwhile cannot reach it (`SafelyAnalysed`).

`PolicyEngine`. `Scan` is a recursive function. That it is what its equations say
(`ScanIs`), and that it decides for the first block or without one for the first
decisive policy (`ScanDecides`), is induction over the list; `HighestDecides` then
follows since the list is sorted by priority. `GuardsGuard` needs that what a turn
recorded of the policies at each hook is what they were at that hook (`PolicyInv`).

`Handover`. `StampsTell`: what was read or applied under the row's stamp agrees with the
row, and a clean snapshot younger than the last change is the row. The score of a
reply without documents is at most 56 (`UngroundedScore`), from bounds of each factor.

### The administrator's side

`RateLimiter`. `LimiterInv` adds `Ordered` (frames are recorded in the order of the
clock) and `DroppedIsStale` (what was pruned is a window old). A frame is admitted only
while fewer than the limit are left after pruning, so the frame `max_requests` places
before it was pruned, and is stale; `Ordered` is why pruning may stop at the first
fresh entry.

`RuntimeSettings`, `Personas`. As long as no two requests overlapped there is at most
one, and what it found and saved is the row (`AloneAndCurrent`); an activation no
other overlaps has read the flags as they are (`AloneIsCurrent`).

### Induction, and what the proofs changed

The library's induction theorems take an operator as a parameter and cannot be used
with the installed provers. `LeastNumber` takes their place: a non-empty set of
numbers has a least element, proved from the well-foundedness of strict inclusion on
finite sets. A property of all lists or numbers is then proved by looking at the
least counterexample (`ScanExists`, `ScanDecides`).

Proofs that failed for a reason, and the corrections of the model they led to:

- The arms of the `CASE` by which `Scan` weighs a policy overlapped, so that the model
  left open which one applies; the code's `if`/`elif` does not
  (`policy/engine.py:125-136`). `Weigh` now has disjoint guards.
- A hard erasure locked only the conversations it had loaded. PostgreSQL's cascade
  reaches every conversation the customer has by then (`models/conversation.py:36`), so
  a message stored in one opened after the load would have been left behind without
  its conversation, which the database excludes. TLC had not seen it, since each
  person of the instance has one thread; with two threads for one person it does.
  `Touched` is what the cascade reaches.
- `answered` had an entry for each number up to the bound of a run, which made the claim
  one about the bound; it now grows with the stream, one entry per published event.

### Only model-checked

The liveness properties: `EventsAcknowledged` and `SessionsEnd` (`pipeline_drain`),
`DeadIsDropped` and `BacklogEmpties` (`realtime`). Liveness under fairness and `ENABLED`
are out of reach of the prover. So are the violations, which are counterexamples.

## 6. Plan

Done, in this order: `Lifecycle`, `Ownership`, `DeskCore` and its proofs;
`MessagePipeline`; `WebChat`, `AgentConnections` and its proofs; `CustomerThreads`;
`AuditChain`; `AITurn`; `PolicyEngine`; `RuntimeSettings`, `Personas`, `RateLimiter`
and its proofs; `Survey`; `SLAScan`; `Webhook`, `Retention`, `Mail` and `Handover` with
their proofs, and those of `AuditChain`; the proofs of all other modules.

What would come next:

1. Read receipts: `mark_message_read` checks and sets without a lock, and has no
   other writer.
2. The license's grace period as arithmetic against a reference definition, once
   something calls its gates.
3. Theorems: lemmas about `compute_thread_id` for arbitrary chains; refinements of
   abstract specifications for the connections and the policies.

## 7. Not modelled

Providers, the NATS stub, SMTP and encryption are I/O or calls without state, and so
are the WhatsApp adapter's signature check, wire format, media and sending.
Access control, i18n, reports, metrics and tracing decide nothing about shared
state. The license manager compares dates of one row, and nothing outside its own
endpoints asks it. Complexity is a heuristic over text whose verdict is a free
choice. `Webhook` leaves the publishing of events and what else writes the rows to
`DeskCore`, where a deadlock over two rows is a
`Rollback`. In `DeskCore` the customer is already resolved; in `CustomerThreads` the
conversation's status is left out. `PROJECT.json` names the status of each part.
