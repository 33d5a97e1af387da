# BaseCommerce in TLA+

Specifications of the parts of BaseCommerce in which events, sessions and processes meet:
the outbox and its relay, the engines worker, the engines, the services for quotes and
orders, the WhatsApp webhook and worker, the web console with its accounts, and the command
line that deploys all of it. TLC checks them on small instances, TLAPS proves every safety
property of the passing runs for every value of the constants. `PROJECT.json` maps each
definition to the lines it models and lists the hazards of the code with the properties that
cover them.

Paths are relative to `src/`. `EC` is `packages/engines_core/src/engines_core`, `BC` is
`packages/basecore/src/basecore`, `CA` is
`apps/verticals/construction/src/construction_app`, `MW` is
`packages/messaging_whatsapp/src/messaging_whatsapp`, `AU` is `apps/auth/src/auth_app`, `BS`
is `infra/cli/basec`.

## 1. The system

| part | state it keeps | operations | modelled in |
|---|---|---|---|
| quotes and orders (`CA/application/services`) | `cotacoes`, `pedidos`, their items, `event_outbox` | create, edit, send, approve, cancel a quote; convert it into an order; create, cancel an order, change its status | `QuotesOrders`; creation in `WebConsole` |
| outbox relay (`apps/outbox-relay`) | `event_outbox.published_at`, the Redis stream | select a batch with row locks, XADD each, mark, commit | `OutboxRelay`, `OutboxPromise` |
| engines worker (`apps/engines`, `EC/consumer.py`, `BC/redis.py`) | consumer group, pending entries, `engine_processed_events` | read, reclaim, dispatch, mark, acknowledge | `EngineWorker`, `EventEffects` |
| engines (`EC/engines`, `EC/persistence`) | facts, alerts, suggestions | stock engine and sales engine on a sale | `SaleEngines` (data), `EngineWorker` (order of the commits) |
| pipeline of relay, stream and worker | the stream | | `Pipeline` |
| WhatsApp webhook (`apps/whatsapp-webhook`, `MW/routing`, `MW/providers`) | bindings, the inbound stream | parse a provider's call, resolve the tenant, publish | `WhatsAppInbound` |
| WhatsApp worker (`apps/whatsapp-worker`, `MW/service`, `MW/streams`) | conversations, messages, opt-outs, outbound stream, events | store, answer, announce; send, record; notify of vertical events; reclaim | `WhatsAppInbound`, `WhatsApp` |
| auth, tenants (`apps/auth`, `BC/security.py`, `BS/tenants.py`, `BS/users.py`) | `tenants`, `users`, cookies | log in and out, create users; the operator's commands | `Accounts` |
| web console (`CA/web`) | the wizard's dictionary, what a page shows | wizard, lists, buttons, creation | `WebConsole` |
| `basec` (`infra/cli`) | the droplets: sources, images, containers, history files, schema, certificates | deploy, redeploy, roll back, down, restart, migrate, reset, certificates | `Deploy` |
| legacy outbox consumer (`EC/consumer.py:319`, `CA/platform/events/outbox.py:114`) | `event_outbox.status`, `retry_count` | poll, lock, process, fail | no |
| insights, dashboard, master data | their rows | queries and single-row writes | no |
| `construction-backend` | | left over from before the split into services | no |

How they meet. A handler of the vertical writes a business row and a row of `event_outbox`
in one transaction. The relay copies the rows to the stream `events:<vertical>` and marks
them. Each worker process reads the stream through the group `engines` on its main thread,
reclaims idle entries on a second one, and hands every event to the engines, which read
facts and write facts, alerts and suggestions. Nothing is called directly: relay and
vertical share a table, relay and worker share a stream, worker threads share the engine
tables and the pending entries list. The WhatsApp worker reads the vertical's stream through
a group of its own, and the inbound and outbound streams of WhatsApp; the webhook shares
only the inbound stream with it. The vertical trusts the tokens of the auth service and asks
it nothing; `basec` writes the tables of the auth service with psql.

What is hard in it, and what has to be right:

* *Engine worker.* Two threads in every process and any number of processes apply the same
  event. The engines commit on their own (`EC/engines/stock.py:117`, `sales.py:99`), before
  the event is marked (`EC/consumer.py:149`) and acknowledged, so a failure leaves part of
  the work done and the retry has to do exactly the rest.
* *Relay.* Redis and PostgreSQL do not commit together: an event may be added and its row
  not marked. Relays run side by side.
* *Pipeline.* The duplicates of the relay meet the retries of the worker.
* *Quotes and orders.* All handlers but the conversion read without a lock and update by
  primary key. The order's number is computed from `created_at`, which is the time the
  transaction *began*.
* *Engines.* Sessions read what others are changing; idempotency keys are derived from the
  event and the product; rows are locked in the order in which products appear in a sale.
* *WhatsApp.* One database session serves a whole batch, so a failed flush concerns the
  entries after it; the worker acknowledges what it could not process; the provider's call
  lies between two commits; opt-outs, statuses and replies overtake each other.
* *Console.* The wizard is shared by a user's tabs and lives in the process; a page outlives
  the login it was loaded with; a token outlives the user it names.
* *Deployment.* A command is a sequence of remote steps of which some raise and some are
  passed over when they fail, not always with a warning; an answer can be lost, a job killed,
  and nothing keeps two jobs apart.

## 2. The modules

`EngineWorker` has one action per statement that another session can observe or that can
fail: `ReadNew` (XREADGROUP), `ListPending` and `Claim` (XPENDING, XCLAIM), `Take`,
`Dispatch`, `ReadSalesFact`, `WriteStock`, `CommitStock`, `WriteSales`, `CommitSales`,
`Mark`, `CommitMark`, `Ack`, and the ways out: `SkipProcessed`, `DuplicateFact`,
`LoseRace`, `RejectUnparsable`, `CallFails`, `ReclaimFails`, `Crash`. The rows of one event
and kind are one row (`txn`, `db`). `KeyFree` is PostgreSQL's wait on a unique key that
another session has inserted and not committed. `MaxStream` bounds the publications and
`MaxFaults` the failures.

`EventEffects` is what the worker promises: an event's facts and movements appear together
and once, associations after them, the mark after all of that, and only a marked event is
acknowledged. `EngineWorker!ImplementsEffects` is the refinement.

`OutboxRelay` has the statements of `relay_batch` in their order: `Select`, `Xadd`,
`MarkPublished` or `NothingSent`, and `XaddFails` (before or after Redis applied it),
`MarkFails`, `Crash`. An event is a number, the order of `created_at`; rows may become
visible in any order. `OutboxPromise` is the promise: written, then streamed, then closed.

`Pipeline` instantiates both on one variable `stream` and adds nothing: each step is a step
of one of them. It implements `EventEffects` too, now with `published` read as "the row is
committed in the outbox".

`QuotesOrders` has two actions per request, the read with its decision (`EnviarCotacao`,
`AprovarCotacao`, `CancelarCotacao`, `AtualizarCotacao`, `CancelarPedido`,
`AtualizarStatusPedido`) and the UPDATE with its commit (`WriteQuote`, `WriteOrder`), and
for the conversion `BeginConversion`, `LockQuote`, `NumberOrder`, `InsertOrder` or
`DuplicateNumber`. SQLAlchemy writes only a column that changes from what was loaded, which
is why an update carries the old value. `Abort` ends any session at any point. An event whose
publication raises before it has sent a statement is logged and the row is committed without
it (`GoOnWithout`; `logged` are such rows); when its flush raises, the session cannot commit any
more, and that is an `Abort`. The quotes are there from the start, in draft or approved;
`Underway` are the statuses of an order that no rule tells apart, one in
`quotes_cancel_race` and none in the two larger runs. `MaxConversions` and `MaxSales` are
the bounds.

`SaleEngines` opens what `EngineWorker` treats as one row: sales with items, quantities,
current stock, alerts, suggestions. A session handles a sale item by item (`RecordSale`,
`Assess`, `Find`, `Write`, `CommitStock`), then pairs of products (`Count`, `Find`,
`Write`, `CommitSales`). `WaitsFor` is a row lock and `Deadlock` is PostgreSQL's way out of
a cycle. `Fragile` and `MaxAborts` bound other failures. All sales are within the ninety
days the engines look back, and there is no event that brings stock in: `stock_updated` is
only logged (`EC/handlers/router.py:74`).

`WhatsAppInbound` is the way in: `ReceiveWebhook` turns a provider's call into entries of the
inbound stream (`MetaParsed` and `EvolutionParsed` are what the two parsers make of a message),
`ReadInbound` takes a batch, and per entry `SkipProcessed`, `HandleEnvelope` with
`CommitInbound` or `CommitFails` and `PublishInboundEvent`, `HandlingFails`,
`HandleDeliveryStatus` (up to its commit) with `AnnounceStatus` (the event of a status "failed",
after it) or `DeliveryStatusFails`. A Meta binding with no token is "tokenless". `session` is
the batch's session, "dead" once a flush failed and nobody rolled back. `WhatsApp` extends it to
the whole worker: `ReadOutbound`, `MaySend` or `Block` (can_send_message), `Prepare` (up to the
first commit) or `NotPrepared` (the binding is gone, or has no token), `CallProvider`,
`RecordSent`, or `RecordFailed` (the commit) with `AnnounceFailure` (the event after it),
`NotifyVertical`, `Reclaim`, which changes nothing because the code only counts what it claims,
and `Crash`. `MaxCalls`, `MaxReports` and `MaxFaults` are bounds. `late`, `attempts`, `dropped`
and `harmed` record what happened, for the properties.

`Accounts` has the tables of tenants and users, written by the auth service and, one psql
statement at a time, by `basec`: `LoginTenant`, `LoginUser`, `CreateUser` with `CheckMail`
and `InsertUser`, `Logout`, and the operator's `Tenants*` and `Users*`. A token is its claims
with the tick it ends at. `WebConsole` extends it: `WizardStep1`, `AddItem`, `RemoveItem`,
`Finalize` (which creates nothing while `AtivoIsTrue` is FALSE, as the code has it), the
endpoints `ApiCreateCotacao` and `ApiCreatePedido` over `CriarCotacao` and
`CriarPedido`, the lists and the buttons on their rows, `Restart`. `page` is what a browser
shows, and a button works on it whoever is logged in by then. `Mine` is the services' tenant
filter. `MaxWork` bounds requests and commands together, `MaxCart` the lines of a cart. A
product is its id as the database writes it, which is what the pages post: the cart compares the
form's string (`CA/web/router.py:1601`), the lookup before it a UUID, so a request that spells
the same id in another way would get a second line.

`Deploy` has a job per command and one action per remote step: `Plan` is the list of steps
a command takes on a droplet, `Done`, `Refused`, `Raise` and `Swallowed` say how a step ends
and what the command makes of it. A job has `lapsed` when a step of it failed and it went on,
whether a warning was printed (an upload that stops half way) or nothing was (git pull,
`BS/deploy.py:55`; a build, `:261` and `:270`; any command with `check=False`,
`BS/ssh.py:203`). A version is a commit and the tag of its image; an image
is known by its tag and by the code it holds, which may differ. `ran`, `latest` and
`overlapped` record what happened. `MaxVersion` and `MaxFaults` are bounds.

`*Proofs.tla` hold the theorems. `MC*.tla` name the model values and the sample orders.
An operator with the comment "Mutant of X" is a plausible mistake in X, kept next to it; no
specification uses it, and putting it in the place of X breaks a property.

## 3. What the runs show

| run | question | instance | result |
|---|---|---|---|
| `engine` | can reading, reclaiming, failing and retrying lose or half-apply an event, and is what parses acknowledged in the end? | 1 process (2 threads), two messages out of four kinds of event, 2 faults; 189 thousand states | holds |
| `relay` | is a row closed only when its event is on the stream, duplicated only by failures, published in the end? | 2 relays, 3 rows, batches of 2, 2 faults; 31 thousand states | holds |
| `pipeline` | does a committed change reach the engines once, completely, and in the end? | 1 relay, 1 process, 2 rows, 1 fault each; 314 thousand states | holds |
| `pipeline_version` | and as the vertical writes it? | one event with version "1.0" | violated |
| `quotes_safety` | one order per quote, of an approved quote, with its events? | 2 requests at a time, 2 quotes, 2 conversions; 5.9 million states | holds |
| `quotes_live` | does every request end? | the same without deliveries; 353 thousand states | holds |
| `quotes_cancel_race` | does a converted quote stay converted? | 1 quote | violated |
| `sale_engines` | do facts, alerts and suggestions agree, and is every sale booked in spite of deadlocks? | 2 sessions, 3 orders of two products, one of them the other way round, 1 failure; 556 thousand states | holds |
| `whatsapp` | is what the worker acknowledges kept, do rows, sends and announcements agree, is an opt-out obeyed, and does it take effect? | 2 workers, 2 customers, 2 webhook calls with 2 reports, 2 notices, 1 fault; 403 thousand states | holds |
| `deploy` | did a command that reports success do what it says? | 3 droplets, 2 of 17 commands, at once or one after the other, 3 versions, 2 faults; 1.6 million states | holds |
| `web` | is the tenant's data touched under its own tokens only, does access end, is the wizard kept? | 1 browser, 2 tenants, 2 users, 1 quote, 3 pieces of work of which 2 may be the operator's, 2 ticks; 1.2 million states | holds |
| `web_creation` | does a complete request create? | the API alone | violated |

Why the bounds are enough. A worker process has two threads, the same two concurrent readers
of the tables that two processes would be: they share nothing but the group and the
database. What the run does not have is a process that goes on while another one dies; for
safety the proof has it, for any number of processes. Two messages with the same event cover
duplicates; a third copy meets the same three situations (unmarked, being handled, marked).
Two faults let the retry after a failure fail too. Three rows in batches of two make a
second batch that overlaps in time with the first relay's. Two conversions are enough for
every race for a quote or a number, since each rule relates two transactions. Three orders
make a deadlock, its retry, and a sale that sees the rows of both. Two WhatsApp workers are
two sessions on one message, one status or one opt-out; two calls bring a message and its
repetition, or a message and a status. Two jobs in `deploy` are a command and the one that
comes after it or into it, and two faults are a failed step and the failed repair. A browser
whose user changes, a tenant that is there and one that is made, and two ticks with a
token's life of one make every combination of an old page, an old token and a row that
changed. Safety does not rest on the bounds where section 5 gives a proof.

All runs switch deadlock checking off: with publications, requests and sales bounded, the
system comes to rest, and liveness properties say it does so only with its work done.

### What the violated runs say of the code

* `pipeline_version`: `int("1.0")` raises in `parse_stream_message` (`EC/consumer.py:89`),
  and "1.0" is what `write_event` writes. As the code stands no event of the vertical is
  processed. The passing `pipeline` run has events that parse, that is, it shows what the
  rest of the code does.
* `quotes_cancel_race`: a cancellation that read the quote before its conversion commits
  turns a converted quote into a cancelled one. The same race cannot produce an order of a
  quote that is not approved (`ConvertsOnlyApproved`, proved): the UPDATE waits for the
  lock, and after it the order exists already.
* `web_creation`: `Produto.ativo is True` is Python's `is` between a column and True and
  False (`cotacao_service.py:118`, `pedido_service.py:117`), the product query finds nothing,
  and a quote or an order with items is never created.

### Seen while modelling, with no run of its own

* `EC/handlers/router.py:26` says that all processing is one transaction; each engine
  commits its own. The properties of `EngineWorker` show that the outcome is right all the
  same; what others may see in between is a sale without associations.
* `EC/persistence/repo.py:46` says "one active alert per product". Two first sales of a
  product that overlap insert one each; `SaleEngines` has both rows.
* `get_current_stock` promises the "last known quantity_after" (`EC/persistence/repo.py:227`),
  but a `quantity_after` of 0 is taken for none (`:239`) and the deltas are summed instead. Nothing
  brings stock in, so the first sale of a product records 0 and the level is below zero from
  then on. `CurrentStock` has it as the code has it, no property asks for the wrong level, and
  `SoldIsAlerted` says no more than zero or less, which holds with the promised level too.
* A delivered order can be cancelled, and a cancelled one delivered, by the status request
  (`CA/application/services/pedido_service.py:397`), although `cancelar_pedido` refuses it;
  a repeated "entregue" records the sale again, with an event id of its own.
* A conversion's number is one more than that of the order with the latest `created_at`,
  which is the begin of its transaction (`pedido_service.py:53`). Of two conversions the one
  that began first may commit last, and then the next number is taken: all later conversions
  fail on the unique index until someone repairs the data. `QuotesOrders` has it.
* An event that cannot be built is logged as a warning and the order is committed without it
  (`pedido_service.py:323`, `:436`): `EventsMatchOrders` says that this is the only way an
  order and its event come apart.
* An edit of a quote that was read as a draft may be written after the quote was sent, and
  empty it. A converted quote's event is built before its items are flushed, so that with
  autoflush off its items and its total are empty (`pedido_service.py:308`).
* The key of a sales fact is made of the event and the product (`EC/engines/stock.py:77`), so
  the second line of a product on one order is dropped, though `stock.py:44` says "decrease
  stock for each item".
* A suggestion whose pair falls below a fifth of the orders keeps its old frequency
  (`EC/engines/sales.py:203`), and no alert is ever resolved.
* `get_pending_messages` asks for the COUNT oldest entries and filters the idle ones
  afterwards (`BC/redis.py:170`): as many entries that never parse as COUNT (100) hide
  everything behind them. `EventuallyAcked` needs fewer of them than COUNT.

WhatsApp:

* The first message of a customer the database does not know is inserted with
  `conversation_id` NULL (`MW/persistence/repo.py:157`), refused, rolled back, and
  acknowledged (`MW/service/inbound_handler.py:217`): no conversation with a new customer
  begins. `AcknowledgedIsKept` is therefore about known customers.
* A failed send is never tried again. Its entry is left pending to "be retried by PEL reclaim"
  (`MW/service/outbound_handler.py:160`, `apps/whatsapp-worker/src/whatsapp_worker/main.py:167`),
  but the reclaim thread only counts what it claims (`main.py:281`) and the worker reads new
  entries only, so the retry count never grows, the dead-letter stream stays empty and
  `replay_dlq` has nothing to replay. `Attempted`, a part of the proved invariant, has it for every
  instance: the provider is called once at most for an entry. No property asks for that, since
  it is not what the code intends; nor does one ask for retries, which would send a message
  whose answer was lost a second time.
* Envelopes of the verticals carry version "1.0" like those of the engines; they fail to
  parse and are acknowledged. The templates for `quote_sent` and `order_created` are not in
  Meta's registry.
* An opt-out's confirmation is blocked by the opt-out once that is committed. "cancelar" is
  an opt-out keyword. A delivery status can go back from read to sent.
* `bind_tenant` fails always (`MW/cli/main.py:126`, a name that is not imported), and
  `unbind_tenant` finds Meta's bindings only; an Evolution instance whose binding failed to
  commit cannot be bound any more.

Accounts and console:

* `users` has no unique index on tenant and e-mail: the auth service and `basec users create`
  can both insert the same address, though `AU/main.py:356` says that it is unique.
* `create_user` does not look whether the tenant is active (`AU/main.py:358`): an
  administrator of a disabled tenant goes on until the token ends, as `AccessEnds` allows.
* Removing a line of the cart names it by its index on the page, and the answer does not
  refresh the page: a second click removes another line or none. Step 1 without a customer
  and step 3 without items end in a NameError; a quantity that is no number in a 500.

Deployment:

* `redeploy` removes the volumes, and with them the platform's database, by its default
  `--rebuild` (`BS/redeploy.py:79`), while it tells the operator that volumes are preserved
  (`BS/redeploy.py:432`).
* A redeploy without `--tag` of a tagged droplet builds new code and then pulls the old tag
  over it; it never writes the history. A failed read of the history empties it. Of two
  jobs, one's `up` may bring up the other's tag; no concurrency group prevents it.
* `validate_certificates` looks for "VALID", which "INVALID" contains (`BS/ssl.py:81`): any
  file passes, and only `nginx -t` stops a broken one, which stays on the disk. `ssl check`
  reports success when nginx is not running.
* The rollback of the pipeline never runs: the smoke step it waits for has
  `continue-on-error` (`.github/workflows/deploy-production.yml:190`). After a rollback of the
  code, alembic refuses a schema that is newer.

## 4. Fairness

Weak fairness of the threads' and relays' own steps: they are loops that only a crash ends,
and the containers have `restart: unless-stopped` (`Start`). `IdleElapses` is time passing.
Nothing is assumed of publications, requests, failures and crashes; failures are bounded in
number, which says that they cease for long enough, not that they are rare.

Two assumptions are stronger. `SaleEngines` assumes strong fairness of `Write`, a blocked
UPDATE: PostgreSQL queues the waiters of a row lock and serves them in order, so a waiter
is not passed over forever. And `Begin` does not take up a sale that lost a deadlock while
a session that was at work then still is (`behind`): the message becomes claimable only
after RECLAIM_IDLE_MS (a minute), while a handling takes milliseconds. Without it two
sales could be restarted into the same deadlock forever.

`WhatsApp` assumes weak fairness of a worker that has a batch in hand, and strong fairness of
its reads: `main_loop` reads the three streams in turn, each with a time limit, so a stream
that has entries again and again is read although other work keeps coming in between. Faults
end the promise: `StopTakesEffect` is about runs without one, since a failed call may lose
the request. `Accounts`, `WebConsole` and `Deploy` state no fairness: nobody must log in,
click or deploy, and a killed job stays killed.

## 5. What is proved

Every invariant and every action property that a passing run checks is a theorem, and so are
the three refinements: for all constants that satisfy the ASSUME of the module, any number of
processes, events, rows, droplets and jobs, and any bounds. The eight `*Proofs.tla` extend the
modules they are about. In each an inductive invariant is shown of the initial states, shown
to be preserved action by action, and shown to imply the properties; the refinements show
that a step of the detailed specification is a step of the abstract one or leaves its
variables unchanged, using the invariant.

* `EngineWorkerProofs`: `TypeCorrect`, `AckSafe`, `NoPartialEvent`, `SalesAndStockAgree`
  and `Refinement` (the worker implements `EventEffects`). The inductive invariant `IInv`
  says, beyond the properties, that a thread at a statement of an engine has in `txn`
  exactly the rows written so far, that two sessions never hold the same key of a sales
  fact or a mark (`KeysHeldOnce`), and that the effects which precede the thread's place in
  the handler are committed. It is needed because `ProcessedIsComplete` is about a mark
  that is inserted many steps after the decision that makes it true.
* `OutboxRelayProofs`: `RelayTypeCorrect`, `NothingLost`, `DuplicatesPaid` and
  `RelayRefinement`. The invariant: no row is locked by two relays (`Exclusive`); what a
  relay counts as sent is on the stream (`SentIsOnStream`); an event's copies are at most
  the failures so far, and one more if a relay has it sent or it is published
  (`CopiesBounded`). The last is what pays for a copy before the row is closed.
* `QuotesOrdersProofs`: `QuotesTypeCorrect`, `OneOrderPerQuote`, `EventsAccompanyOrders`,
  `ConversionIsOfApproved`. The invariant: one holder per lock, who finds the quote approved
  and without an order as long as it holds it (`LockInv`); conversions have distinct begin
  times and no order yet (`TimeInv`); a pending order update is about an order that exists
  (`TodoInv`). `LastOrder` shows that the CHOOSE of the last order is of an order, by
  well-foundedness, so that a number is a number.

* `PipelineProofs`: `Inductive`, `NothingIsDropped` and `PipelineRefinement`. Relay and worker
  share the stream alone, so the invariant is theirs, side by side: the proofs of both are
  instantiated with the pipeline's variables, a step of one is one the other tolerates (the
  stream grows at its end), and the worker's bound on the stream is paid for by the relay's
  bound on duplicates. `NothingDropped` then needs both: a published row is on the stream, and
  what was read is pending or processed.
* `SaleEnginesProofs`: `TypeCorrect`, `SoldAlerted`, `SuggestionsCount`, `BookedCounted`. The
  invariant says of every session what it has come past and what it has still to write: a fact
  for each line behind it, an alert for each of its facts, written or still to be written
  (`StockDone`), a suggestion for each two lines (`SalesDone`), and that no two sessions have
  the same sale (`Alone`). An alert's level is below zero and a suggestion's frequency at most
  the number of orders with its first product *in any view* (`Sound`), which is why it survives
  that a session computes it from what it sees and writes it later. The stock is a recursive sum
  over a set of facts; what is needed of it (adding a fact, a sum of zeros, a positive sum) is
  proved by looking at a counterexample with the least number of facts (`LeastNumber`), as the
  induction theorems of the library cannot be applied to an operator.
* `WhatsAppProofs`: `TypeCorrect`, `LateAreUnderway`, `AcknowledgedKept`, `SendsAgree`,
  `EventsAgree`. The invariant is about who works on what: no outbound entry is in two
  batches or twice in one (`Apart`), the provider has been called once for what is past its
  call and never for what is ahead (`Attempted`), an error that is about to be recorded of an
  accepted message is known as harm (`Recorded`). `Underway` counts: the messages sent to a
  customer after the opt-out and the workers that are past the check for this customer are
  together fewer than the workers, because the worker that takes up the opt-out is none of
  them.
* `WebConsoleProofs`: `TypeCorrect`, `AccessIsBounded`, `CartsAreDistinct`, `OnlyOwnTenant`,
  `WizardKept`, about `Accounts` and `WebConsole` together. `Access` is the part that access
  rests on: what is enabled was enabled at this tick, a login that has found its tenant
  enabled is over before time passes, and no token outlives its user or tenant by more than
  its life. `OnlyOwnTenant` and `WizardKept` are action properties.
* `DeployProofs`: `Inductive`, `TypeCorrect`, `HistoryUsable`, `ReportTrue`, `ImagesRight`,
  `DownReported`. A job's steps are the end of its plan (`Working`), so what is behind it is
  known: every step that is past has left its mark on the droplet (`Leaves`), and a command
  that is alone holds what it says on the droplets it is through with (`Holds`). `Leaves`
  survives because of the order of the plans, which `Rules` collects and `Plans` proves of
  all of them: the tag is written before the build and the pull, these before `up`, the
  history after it. `ReportTrue` and `ImagesRight` are `Holds` at the end of a command.
  `Blamed` holds whatever two jobs do to each other: containers that are down, and
  certificates that cannot be loaded, have a job that is guilty of it, because it failed,
  because it was to stop them, or because it is about to bring them up; when no job is under
  way the last is impossible, which is `DownReported`. The first half of `HistoryUsable`, that
  a history is short and without repetition, does not need a job to be alone: it is a property
  of what `Newest` makes of any such list, however old.

What the assumptions on the constants say of the code: a sale has at least one line
(`CA/application/services/pedido_service.py:149` and `:253` refuse an empty order); the
events of a pipeline, that is, the rows ever written, are finitely many, and so are the
workers of WhatsApp, at least one; `NoRow` and `NoCliente` are no row and no customer; a
rollback has a tag or looks one up, migrations and certificates are commands for one droplet,
and an environment has one edge (`infra/inventory.yaml`). `BookedAndCounted`
asks for a suggestion only while its product is in five orders at most, of which one is a
fifth (`Few`, in the property): with more of them a pair can fall below the threshold
(section 3).

Model-checked only: liveness (`EventuallyAcked`, `EventuallyPublished`, `EventuallyProcessed`,
`EveryRequestEnds`, `EventuallyBooked`, `StopTakesEffect`). It rests on fairness, hence on
ENABLED, which the prover cannot handle. The three violated properties are counterexamples,
which only TLC can show.

## 6. What is not modelled, and why

* Trimming of the stream (`MAXLEN ~` in `BC/redis.py:82`): a backlog longer than
  STREAM_MAX_LEN loses events whose rows are closed.
* Payloads, except where a rule reads them (items in `SaleEngines`, the version in
  `pipeline_version`). Discounts, remarks, prices. Risk levels, priorities and wording of
  alerts and suggestions. The ninety-day window. Pages and commands that only show something.
* The legacy outbox consumer: deprecated (`EC/consumer.py:325`), and no service starts it.
* Signatures, passwords and hashing: a request whose password or signature is wrong changes
  nothing. The stub provider and the test commands of WhatsApp.
* Insights, dashboard and master data: queries, and inserts and updates of single rows with
  no rule between rows. `construction-backend`: no compose file starts it.
* Handlers that only log (`quote_converted`, `order_status_changed`, `stock_updated`) are
  `Others`.
* Tenants, except in `Accounts` and `WebConsole`: every other query filters by tenant and no
  row of one is read for another, so a model of two tenants is two copies of one.
* PostgreSQL, Redis and SQLAlchemy are modelled by what this code relies on: read-committed
  visibility, unique keys that wait, row locks, SKIP LOCKED, rollback at disconnection,
  consumer groups. Redis keeps what it acknowledged; its own loss of data is left out.

## 7. Plan

Done: all modules of section 2; proofs of every invariant, action property and refinement
that the passing runs check.

Still worth proving, of what no run states yet:

1. `SaleEngines`: that a suggestion exists only for pairs that some sale has on two lines.
2. `QuotesOrders`: the numbers of committed conversions, in the order of their begins.
3. `Deploy`: what two overlapping jobs may and may not leave on a droplet, beyond `Blamed`
   and the history.

Possible extensions: the legacy consumer beside the relay; trimming in `Pipeline`;
products in more than five orders in `SaleEngines`, whose suggestions fall below their
threshold and stay.
