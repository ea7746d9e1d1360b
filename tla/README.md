# OmniSentinel: models and proofs

TLA+ models of OmniSentinel (`src/`), a NestJS service that receives network
fault events from `api_zaSmaOlt`, groups them into incidents, measures their
impact, notifies, and reports availability.  PostgreSQL (through Prisma) holds
its state; RabbitMQ, an HTTP endpoint and a polled feed deliver its events.
Paths below are relative to the repository; code paths start with `src/`.

## 1. Inventory

| Part | State | Operations | Talks to |
|---|---|---|---|
| Alert ingest (`src/alerts/alerts.service.ts`) | `alerts`, unique `externalEventId` | `ingest` | PostgreSQL |
| Incident engine (`src/incidents/incident-engine.service.ts`) | `incidents`, `incident_events` (unique `alertId`), `incident_sequences`, timeline | `processAlert` in one transaction | correlation engine |
| Correlation engine (`src/correlation/correlation-engine.service.ts`) | `correlation_rules`, `correlation_results` (unique `alertId`) | `analyze`, `record` | the engine's transaction |
| Incident operations (`src/incidents/incidents.service.ts`) | status and times of an incident | `transition`, `acknowledge`, `resolve`, `close` | notifications, after the commit |
| Alert consumer (`src/alerts/alert-consumer.service.ts`) | the queue, its retry queue and dead letters | `handleMessage`, `retryOrDeadLetter` | ingest, engine, impact, notifications |
| Event puller (`src/alerts/zasmaolt-event-puller.service.ts`) | cursor in memory and in `system_settings` | `poll`, `processItem`, `advanceCursor` | the provider's feed, then the same pipeline |
| HTTP ingestion (`src/alerts/alerts.controller.ts`) | none | `ingest` | the same pipeline |
| Impact engine (`src/impact/impact-engine.service.ts`) | `incident_customers`, counters of the incident | `refreshIncident` | the provider |
| Provider adapter (`src/integrations/zasmaolt/http-zasmaolt.adapter.ts`) | the circuit breaker | `request` and the queries over it | the provider |
| Notifications (`src/notifications/notifications.service.ts`) | `notifications`, rules | `dispatch`, `deliver` | SMTP, webhooks |
| Reports (`src/reports/reports.service.ts`) | `reports`, files | `generate`, `download` | rendering strategies |
| SLA (`src/sla/sla.service.ts`) | `sla_records` | `calculate`, `createSnapshot` | incidents, customers |
| Statistics, dashboard (`src/statistics`, `src/dashboard`) | none | read-only queries | incidents, SLA |
| RabbitMQ connection, health (`src/rabbitmq/rabbitmq.service.ts`, `src/health/health.service.ts`) | cached connection and attempt | `getConnection`, `check` | RabbitMQ |
| Authentication (`src/auth/auth.service.ts`) | `refresh_tokens` | `login`, `refresh`, `logout` | PostgreSQL |
| Dashboard client (`client/dashboard/app.ts`) | the tab's session, its view, names of OLTs | `api`, loads, dialogs | the HTTP API |
| Administration, inventory, metrics, configuration | single tables or none | CRUD, pass-through | - |

Hard behaviours: deliveries run concurrently (`prefetch` 20, HTTP requests and
the poller) in READ COMMITTED transactions that read before they lock; events
are repeated, late and out of order; a process may stop between any two of
ingest, incident, impact, notification and acknowledgement; operators race with
each other and with the engine; the provider fails, times out and restores an
older feed; the browser has several calls under way, whose answers nothing
orders.

What makes each part correct:

- engine: an alert is booked once, an incident's code is unique and gapless in
  its year, its verdict has evidence and is never below the one it was founded
  with, faults within a window are grouped, and split by a race no further than
  it has deliveries, a rule's threshold is not missed, no transaction leaves
  half of its rows;
- incident operations: only the transitions of the table, and the times that
  belong to a status;
- intake: no event is skipped, lost or given up early; none is notified twice;
  every event is settled in the end;
- impact: counters and rows agree, and a refresh repairs what earlier ones left;
  the circuit lets trials through again;
- notifications and reports: a row never claims what has not happened, and one
  is left unsettled only by an interruption;
- SLA and statistics: each minute of outage counts once, in every view alike;
- connection: one is shared, and a lost one is replaced when asked for;
- authentication and client: a spent token stays spent, a good session is not
  ended by the tab's own races, what a dialog shows is what its buttons act on.

## 2. Plan

| Order | Modules | Question |
|---|---|---|
| 1 | `IncidentStates`, `CorrelationEngine`, `IncidentEngine`, `AlertLedger`, `MCIncidentEngine`, `IncidentEngineProofs`, `IncidentVerdictProofs` | are alerts booked once, incidents numbered and graded right, under races and rollbacks? |
| 2 | `AlertPipeline`, `EventPuller`, `MCEventPuller` (proved in `AlertIntakeProofs`) | is an event of the feed ever skipped? |
| 3 | `AlertConsumer`, `MCAlertConsumer`, `AlertConsumerProofs` | what of a message survives failures, crashes, retries? |
| 4 | `AlertIntake`, `MCAlertIntake`, `AlertIntakeProofs` | do the channels keep their promises together? |
| 5 | `CircuitBreaker`, `ImpactEngine`, `MCImpactEngine`, `ImpactEngineProofs` | what do overlapping refreshes leave behind? |
| 6 | `Notifications`, `Reports`, `JobLedger` (proved in `ServicesProofs`) | does a row say what happened, and who leaves one behind? |
| 7 | `RabbitConnection`, `Availability`, `MCServices`, `AvailabilityProofs`, `ServicesProofs` | is one connection shared; is every minute counted once? |
| 8 | `Sessions`, `DashboardView`, `MCDashboard`, `DashboardProofs` | what do the races of one browser tab do to its session and its view? |

All of it is done.  `IncidentEngine` extends `CorrelationEngine` and
`IncidentStates` and implements `AlertLedger`.  `EventPuller` and
`AlertConsumer` extend `AlertPipeline`, which takes the engine's transaction as
one step; `AlertIntake` extends both and adds the HTTP endpoint.
`ImpactEngine` extends `CircuitBreaker`.  `Notifications` and `Reports` both
implement `JobLedger`.  `MCServices` and `MCDashboard` put modules that share no
modelled state side by side: a variable `part` names the one at work, so the
states add up instead of multiplying.  Every safety property a passing run
checks is also proved, but for `SomeoneProceeds` and for `VerdictCoversAlerts`,
which holds only where deliveries do not race; section 9 has what is proved of
the races instead.

## 3. The incident engine

### State and steps

| Variable | In the code |
|---|---|
| `alertStatus` | `alerts.status`; `"ABSENT"` is no row |
| `incidents` | the committed `incidents` rows: status, key, severity, diagnosis, confidence, `detectedAt`, year and number of the code, which of the three times are set |
| `links` | committed `incident_events` rows, with the kind of their timeline entry |
| `results` | committed `correlation_results` rows |
| `nextNumber` | `incident_sequences.nextNumber` of each year |
| `tx` | the open transaction of each worker (a delivery in progress): its program counter and what it has read and decided |
| `requests` | the open status change of each operator |

A worker's step is one statement of `processInTransaction`: `Ingest` (the
alert's own insert, then the transaction begins), `CheckLink`, `AnalyzeAlert`,
`FindIncident` or `FindRecovering`, `UpdateIncident` or `CreateIncident`,
`AttachAlert`, `Commit`; `CommitIgnored` for a recovery with no incident;
`Abort` wherever a statement can fail.  At READ COMMITTED each statement reads
what is committed when it starts; writes are private until `Commit`.  Locks are
the operators `HoldsIncident` (row lock of an updated incident), `HoldsSequence`
(row lock of the year's sequence) and `HoldsLink` (unique-index entry of a
link); a step that needs one waits for its holder.  An operator's request is
two statements, `ReadIncident` and `WriteStatus`, as `transition` is.

`CorrelationEngine` holds `analyze` as operators: the key, the alerts counted
in the window, the rules matched and the decision they give.  An event type is
the sequence of its dotted parts and a pattern matches a prefix of it; severities are their ranks.

Left out: `correlationKey` NULL (incidents older than that column), titles,
descriptions, counters, timeline text, and the time at which a stamp is set
(only whether it is set).  `Undiagnosed` stands for `UNKNOWN`.

### Runs

Times are in half windows (`Window = 2`) between 10 and 13, so alerts fall
inside, at the edge of, and outside a window of each other; two years make the
numbering start twice; three rules are enough for a rule that needs two events,
a rule of exact type and a rule that only raises severity.  Two workers suffice
for a race between two statements; three or four alerts let a third delivery see
what a race left behind; in one window they could make a third incident beside
two that a race made, which needs no rules to decide.  Two operators suffice for
a race between the check and the write of a request, and a request may begin
again at any time; an upgrade computed from an older copy than a request's write
needs one worker beside them.  Uuids, workers and
operators are interchangeable, which the
symmetry of these runs uses.

| Run | Instance | Shows |
|---|---|---|
| `engine_workers` | 4 faults on 2 PONs, 2 workers | `TypeOK`, `CodesSequential`, `NothingHalfDone`, `IncidentHoldsItsAlerts`, `VerdictHasEvidence`, `VerdictCoversFounder`, `EscalationNotMissed`; refinement `KeepsLedger` |
| `engine_operators` | 2 faults, 1 worker, 2 operators | `StampsMatchStatus`: the times stay those of the status; `SkipsAreRaces`: only a request that was overtaken skips the state machine, and no upgrade changes a status; `VerdictCoversAlerts`: with one delivery at a time no upgrade is lowered |
| `engine_recovery` | 3 faults of one window and a recovery, 2 workers, no rules | `AlertLinkedOnce` with ignored recoveries retried; `SplitsAreBounded`: a race splits the group into two, and no third delivery adds another; `RecoveryNotUndone`; `SomeoneProceeds`: no lock waits leave everyone stuck |

`Ingest` may happen again for an alert at any time: repeated and late delivery
need no bound, since deliveries in progress are bounded by the workers.

Recoveries do not pass the event types the DTO allows, so today only other
sources of alerts could cause one; the engine handles them and the model does.

### Progress

No liveness is claimed of the engine, so no fairness is assumed: a delivery may
fail at any statement and whether it is tried again is the channels' matter
(section 4).  What the engine itself owes is that its locks never form a
cycle; `SomeoneProceeds` states that as an invariant: while transactions are
open, one of them has a step other than failing.

## 4. The channels

`AlertPipeline` is one delivery: `ingest`, `process`, `measure` (impact),
`dispatch`, each an awaited call that may throw (`CallThrows`).  `delivery[s]` is
the delivery in slot `s`; `ingested`, `processed`, `measured` and `dispatched`
are what the database keeps of each event.  `fresh` is the outcome that has a
notification event.

`EventPuller` adds the provider's `outbox` with its restores, the cursor in
memory (`cursor`) and in `system_settings` (`stored`), the page being worked
on, and where the poll is (`pull`).  `AlertConsumer` adds the three queues, the
unacknowledged message of each slot (`inHand`) and the channel (`session`:
down with the process, open, or lost).  `AlertIntake` puts both and the HTTP
endpoint in one process: a crash, or the unhandled rejection of an answer on a
closed channel, stops them all.

Assumed of what is outside the repository: the provider always reports
`latestCursor`, numbers rows without gaps in the order they become visible, and
after a restore records nothing until the puller has noticed it
(`RegrowthWaits`, see section 8).  RabbitMQ handles what one channel sends in
order and returns unacknowledged messages; the delays of retries are ignored,
but that the acknowledgement sent right after a retry's copy arrives before
that copy expires and before any later copy.  A message published to a durable queue is kept.

| Run | Instance | Shows |
|---|---|---|
| `puller_feed` | 2 valid events, 1 invalid, pages of 2, 2 pages per poll, 1 restore, 1 crash | `NothingSkipped`; liveness `EventsReached` |
| `consumer_messages` | 1 valid event, 1 invalid, 2 handlers, 2 retries, 1 crash, 1 lost connection | `MessageNotLost`, `DeadLettersWereRetried`, `OneCopyPerFault`; liveness `ConcludedOrLost` |
| `intake_channels` | 1 event over all three channels, 1 crash, 1 lost connection, 1 restore | the channels together: `NotifiedAtMostOnce`, `OneFreshDelivery` |

Every bound is a constant: `MaxCrashes`, `MaxRestores` and `MaxLosses` bound the
faults and `MaxRetries` is the code's own.  One crash, loss or
restore is enough to come between any two steps of a poll or of a handler, and
the runs take each combination of them.  Pages of two with three events make
pages that are full, partial and the last; two retries make a copy of a copy,
and a copy can be redelivered beside its original, in the second handler.  The number of failed calls needs no bound.  The consumer's runs do
not check deadlock: once all messages are concluded and the faults are used up,
it is idle for good.

Fairness.  Of the puller: the container restarts and the interval timer fires
(weak), and whatever the poll awaits succeeds if it is tried again and again
(strong): failures are transient.  Of the consumer: the process restarts, a
queued message is handed to a free slot, retries expire and a handler that awaits
gets an answer, be it an error (weak); nothing reopens a lost connection, for
the code does not, hence `ConcludedOrLost`.  Nothing is assumed of the provider.

## 5. Impact and the circuit

A refresh (`ImpactEngine`) is `Send` or `Refuse` at the circuit, `GetCustomers`
(the provider answers with what it knows then, each word mapped as `mapStatus`
does), `ReadPrevious` (the rows of the incident) and `Commit` (the upserts and
the counters, one transaction).  It fails at each of them: `Fail` counts for the
circuit, `BodyFails` and a failed transaction do not, since `request` returns
the body's promise out of its `try` block.  `rows` are reduced to the status and
to which of `affectedFrom`, `restoredAt` and `impactDurationSeconds` are set;
`Upserted` keeps the difference between an undefined value and a null.  All
queries of the adapter share the circuit; those that write nothing are refreshes
that end before their commit.

Run `impact_refresh`: two refreshes, two customers, three words (one for each
status), two changes at the provider, a threshold of two failures and an open
period of two ticks.  Two changes let an answer be old, then older than the
other's; with two callers a late failure reopens the circuit that the other
closed.

- `RowsCoverCounters`: the counters are covered by the rows, whoever wrote last;
- `RefreshRepairs`: a refresh that none overtook between its read and its write
  leaves each customer it reports with an outage dated, and ended and measured
  once it is over, and forgets none;
- `CircuitLetsTrialsThrough` (liveness): an open circuit closes again and again.
  Fairness: time passes (`TimePasses`).  No call need succeed or even end.

## 6. Notifications, reports, the connection, availability

`Notifications`: a caller (`transition`, or a delivery of an alert after the
engine's commit) reads the rules, and for each destination due creates a row,
marks it SENDING, delivers, and marks it SENT or FAILED; each statement can
throw, the answer to a message that went out can be lost, a rule can be changed
or removed in between, and the process can stop.  `Reports`: a request creates
its row, reads the incidents, then the rest of its data while these change,
writes the file in two steps and completes the row.  Both implement
`JobLedger`: a row is never ahead of the effect it speaks of and a settled row
stays so (`KeepsJobLedger`).

`RabbitConnection` is `getConnection` with its cached connection and cached
attempt, as the health check and the consumer use them.  Everyone who awaits an
attempt goes on before any other event of the process, so an attempt's end is
one step with theirs.

`Availability` is `calculate`, `createSnapshot`, the statistics and the summary
of the dashboard, over incidents that are detected (late by up to `MaxDelay`),
resolved, reopened and found to be false positives, and customers that are
affected and restored.  A row has its customer's external id, and the code if the
provider has reported one; `customers` groups by the code or, without one, by the
external id (`CustomerKey`), while the SLA looks for the code alone.  Time is
counted in minutes.  `InOrder` sorts intervals
by their start and leaves it open in which order those come that start together;
`Merge` and `Minutes` are the loops of `mergeIntervals` and `totalMinutes`, as
functions of the rounds they have gone.

Run `services`: two dispatches to one rule that is changed once, two reports of
an incident that changes once, two users of the connection and one refused
attempt, two incidents on two PONs over four minutes, two customers, and one
stop of the process.  Two dispatches and two reports make each other's rows
visible as not theirs; two incidents nest, touch, overlap and are apart within
four minutes, in every order of detection; every period of the four minutes is
calculated in every state.  Of the customers (`FewOutages`), one gets its code
early, late or never, in either incident; the other has no code but the first
one's code for its external id, and is affected by one incident.  Their part
leaves out the last minute and reopened incidents, which the snapshots' part has.
Snapshots are requested one at a time: what
`SnapshotsNotOverstated` says of a row depends on the calculation it was written
from alone, and the incidents change between that and the write.

- `AnsweredIsNotified`: who is answered has a settled row for every destination;
- `WorkLeftIsInterrupted`: a row left unsettled has a request at work, that
  threw, or that a stop took down;
- `DownloadIsWhole`: what is downloaded is whole and not older inside than on
  its first page;
- `OneConnection`; liveness `ReplacedOrRefused`: a lost connection is replaced
  when asked for, unless the attempt is refused.  Fairness: somebody asks (the
  health endpoint is polled, `Polled`), and an attempt ends (`AttemptEnds`);
- `DowntimeIsCoverage`: downtime is the number of minutes covered by an outage;
- `ViewsAgree`: asked for a code, statistics and SLA give the same downtime;
  among all customers the statistics give it no less, and more only through rows
  without a code whose external id is that code; open incidents are the same in
  statistics and summary, and no incident is twice in a grouping;
- `SnapshotsNotOverstated`: no snapshot claims downtime that never was.

The run does not check deadlock: callers that are answered have nothing left to
do.

## 7. Sessions and the dashboard

`Sessions` is one tab against the server.  A call is sent with the access token
the tab has; refused, it presents the refresh token, once, and is sent again.
The server's `refresh` is `Check`, `Revoke`, `ReadAccount`, `Issue`, each an
await; `Lose` and `ExchangeFails` are lost requests and failed statements.  A
pair of tokens is one number; an access token is checked without the database,
a refresh token is a row.  The page boots with a stored session, users log in
and out, an account is deactivated and activated, tokens expire at any time.

`DashboardView` is what the page shows: the overview with its paging and timer,
the preview, the dialog with its operations, and the names of OLTs that all
three wait for.  Every answer is an event of its own.  `loadOltNames` looks names
up group by group (`groups`, `NextGroup`).  The dialog is emptied when
`showIncident` begins, and what arrives is appended: with two under way,
`summaries` holds two, of which `updateOltLabels` writes the first, by its id
(`Rewritten`).  When a detail fails the summaries go and `state.detailIncident`
stays, so the next update for its OLT throws (`Throws`), which ends every
`loadOltNames` that waited for it; the OLTs it had still to come to are kept in
`dropped`, until the table is drawn again.

Run `dashboard`: two calls, three pairs, one lost request; two incidents of two
OLTs on two pages, two details under way, names in groups of one, two clicks, one
failed load.  Two calls
are the race; three pairs are the stored one and one for each.  One incident
and one detail suffice for paging, and the details are explored without paging:
the dialog is modal, and a load does not touch it.  There the table is empty or
lists both incidents, and one `loadOltNames` is at work: with groups of one, two
OLTs make a lookup that is followed by another and can be cut off from it.

- `RevokedStaysSpent`: a refresh token that is spent stays so, and the pairs it
  gave and may still give never become more;
- `GoodSessionEnds`: only what the property lists ends a session whose refresh
  token is good; the tab's own token never gets it ended;
- `ActionsMatchHeader`: the buttons act on the incident the header names;
- `LabelsAreLookedUp`: a label of the preview, of the title or of a summary alone
  in the dialog that reads "Consultando" is being looked up at every moment; one
  of the table is, or will be when its group comes, or was dropped by an update
  that threw;
- `AskedPageIsShown` (liveness): the page asked for is shown in the end.
  Fairness: the timer fires (`TimerFires`) and a load ends, well or not
  (`OverviewEnds`: `whileLoading` has a `finally`).

## 8. Disagreements with the repository's own text

| Run | Property | What happens |
|---|---|---|
| `engine_two_operators` | `StatusFollowsMachine` | two operators read one status, both write by id |
| `puller_notified` | `PassedIsNotified` | a failure after the commit is retried as `ALREADY_PROCESSED`, without notification |
| `dashboard_labels` | `ConsultingIsTrue` | two details share one dialog, or one fails: a label says that the OLT is being looked up, and nothing will write it |

The quoted lines are in `PROJECT.json`.  Limits of the code that are known and
have no run of their own:

- two faults of a PON handled together each create an incident: the search for
  one and its creation are not one step (`incident-engine.service.ts:99`), so
  it finds one incident per window with one worker only; with more, the group is
  split into no more new incidents than there are deliveries at work
  (`SplitsAreBounded`);
- `VerdictCoversAlerts` holds with one worker only: `applyDecision` computes
  severity and confidence from the row read before its lock was waited for, so
  of two concurrent upgrades the second write may lower the first one's
  (`incident-engine.service.ts:245`), though never below the decision the
  incident was founded with (`VerdictCoversFounder`);
- statistics of all customers group a row without a code under its external id
  (`statistics.service.ts:257`), which the SLA, asked for a code, does not find
  (`sla.service.ts:158`): where an external id is another customer's code, the
  one's outages count for the other, which `ViewsAgree` leaves out by name;
- an alert delivered late joins an open incident detected more than a window
  after it, since the search bounds `detectedAt` from below only (line 110);
- a source restored to an older outbox that grows past the stored cursor before
  the next poll is not noticed, and its new events below that cursor are never
  read (`zasmaolt-event-puller.service.ts:107`); `RegrowthWaits` excludes it;
- a connection the broker closes while no handler runs is never subscribed on
  again (`rabbitmq.service.ts:18`), hence `ConcludedOrLost`;
- a refused connection attempt stays cached, so nothing is tried after it
  (`rabbitmq.service.ts:14`), hence `ReplacedOrRefused`;
- the retries of a message travel in it: a redelivery after a stop counts as none
  (`alert-consumer.service.ts:144`), so the stops are bounded;
- a customer's second outage in one incident is not dated
  (`impact-engine.service.ts:147`), which `RefreshRepairs` leaves out;
- the body of an answer is read outside the timeout
  (`http-zasmaolt.adapter.ts:166`): one that never ends keeps its caller waiting;
- the label of a snapshot replaces the key of its scope (`sla.service.ts:39`),
  although `create-sla-snapshot.dto.ts:8` speaks of snapshots without filters:
  two scopes with one label share a row;
- an incident that is reopened keeps its `resolvedAt`, so the outage after it
  is not counted;
- an exchange answered after a logout stores a session again (`app.ts:122`).

## 9. Proofs

All theorems hold for any constants that satisfy the named assumptions of the
modules, and are checked by TLAPS to the last leaf.

`IncidentEngineProofs`, from `AlertsAssumption`, `RulesAssumption`,
`WindowAssumption`, `NullAssumption` and `IdsAssumption`:

- `TypeCorrect`: `[]TypeOK`, with `TypeInv == TypeOK /\ TargetsExist`.
  `TypeOK` alone is not inductive: a link's incident must exist at the commit,
  so the target of every open transaction must.
- `LinkedOnce`: `[]AlertLinkedOnce`, with `LinkInv == TypeInv /\ LinkGuarded /\
  AlertLinkedOnce`.  The unique index makes the second transaction wait, so
  past it an alert has no link and no rival.
- `CodesAreSequential`: `[]CodesSequential`, with `CodeInv == TypeInv /\
  NumberGuarded /\ CodesSequential`.  The sequence row's lock is held until the
  commit, so the number taken stays the next one and is given back on a failure.
- `EngineInvariant`: the conjunction of what the locks guard.
- `NothingIsHalfDone`: `[]NothingHalfDone`, with `BooksInv`, which adds to
  `LinkInv` that a fault is never stored as RESOLVED.
- `TimesMatchStatus`: `[]StampsMatchStatus`, with `StampsInv`: no transaction of
  the engine writes RESOLVED or CLOSED (`OwnStatus`), and a request to close was
  accepted on an incident whose `resolvedAt` is set (`ClosesResolved`), which
  stays set whoever writes in between.
- `EngineKeepsLedger`: the refinement `KeepsLedger`.  A commit that creates is
  `Open`, because `NumberGuarded` makes its number the next one; any other is
  `Join`; `AlertLinkedOnce`, before and after the step, makes the entry of an
  alert a function of its only link.

- `NobodyWaitsInACircle`: the argument behind `SomeoneProceeds`.  Rows and
  sequences are held by transactions that wait for nothing but the unique index,
  and its entries by transactions that only commit (`LocksAreOrdered`), so a
  chain of waits has at most two links.

`IncidentVerdictProofs`, from the same assumptions, proves what the engine says
of an incident.  Its steps are reduced to what a statement lets a transaction
know (`Learns`), to what a commit does to the rows (`CommitRows`, `WrittenRow`)
and to what an operator changes of a row (`OperatorRow`).

- `IncidentsHoldTheirAlerts`: `[]IncidentHoldsItsAlerts`, with `HoldInv`: from
  its decision on, a transaction and the incident it makes or found go with its
  alert (`Bound`), for nothing rewrites the key or the time of a row.
- `VerdictsHaveEvidence`: `[]VerdictHasEvidence`, with `EvidenceInv`: a row that
  waits to be written takes its verdict from its own decision or from a result
  that is committed (`Backed`), and results stay.  It holds of racing upgrades
  although one of them is lost, for diagnosis and confidence are written
  together.
- `EscalationsAreNotMissed`: `[]EscalationNotMissed`, with `CountInv`.
  `OneCountsAll` extends it from committed results to the decisions in progress:
  it speaks of every choice of decisions that were taken, since the last of
  those to be taken read every alert of the set.
- `FoundersAreCovered`: `[]VerdictCoversFounder`, for racing upgrades too, with
  `CoverInv`: the copy an upgrade was computed from was committed, and the row
  with which its incident was committed had its founder's severity and
  confidence, so every copy covers them and so does what is computed from it
  (`AllCovering`), whichever is written last.  It needs of `BooksInv` that an
  alert has one result, and of `HoldInv` that an incident has one founder.
- `SplitsAreFew`: `[]SplitsAreBounded`, with `SplitInv`.  `PlacesBounded` counts,
  in any window of one key, the new incidents (`NewIn`) together with the
  deliveries that are about to found one (`FoundersIn`): never more than workers.
  A delivery becomes a founder when its search found none to join, which in that
  window there then is not; a commit turns a founder into an incident; and no
  request or recovery makes an incident new again (`NoneBackToNew`).
- `RecoveriesAreNotUndone`: `[]RecoveryNotUndone` without operators (run
  `engine_recovery`), whose statuses are theirs to change.
- `SkipsAreOnlyRaces`: `SkipsAreRaces`, for any requests, upgrades and
  recoveries, with `AcceptedInv`: what a request writes was accepted from the
  status it read (`Accepted`), and what a recovery writes is MONITORING
  (`OwnStatus`).  `StatusFollowsMachine`, without the exception, is refuted.

`AlertConsumerProofs`, from `PipelineAssumption` and `ConsumerAssumption`:

- `LosesNoMessage`: `[]MessageNotLost` for any finite set of consumers.
  `ConsumerInv`: a slot in use holds the message it handles, a handler with
  nothing left but to acknowledge has settled its event, one that has sent a
  retry has its copy in the retry queue until it acknowledges (the delays exceed
  that, section 4), and every published event is kept.
- `GivesUpAfterRetries`: `[]DeadLettersWereRetried`, with `RetriedInv`: no
  message that is queued or in hand says more retries than its event had
  failures, and only an invalid event is rejected.
- `RetriesDoNotMultiply`: `[]OneCopyPerFault`, with `CopiesInv`: at most one
  handler has sent a copy that it has not acknowledged for (`OneAnswered`), so
  that a requeue adds at most one copy, and what each step does to the number of
  carriers of an event is a lemma about bags (`PutCarriers`, `TakeCarriers`,
  `RequeueCarriers`).

`AlertIntakeProofs`, from those two, `PullerAssumption` and `SlotsAssumption`,
proves first what the puller does alone, then what the channels do together:

- `SkipsNothing`: `[]NothingSkipped` under `RegrowthWaits`.  `PullerInv` says
  that what is left of the page goes on from the cursor (`PageFollowsCursor`),
  that the rows of the page are still those of the outbox as far as it reaches
  (`PageIsOutbox`), that the delivery in progress is the first item's and has
  settled its event before it advances (`DeliversItem`), and that everything up
  to either cursor is settled (`CursorsSettled`).  A restore shortens the outbox;
  `RegrowthWaits` is needed where it grows again, for a new row under an old
  cursor would be unsettled.
- `NotifiedOnce`: `[]NotifiedAtMostOnce` for any number of events, slots,
  retries, crashes and losses.  `NotifiedAtMostOnce` alone is not inductive:
  `OneFreshDelivery` adds that of the deliveries of an event at most one was told
  that its outcome is new, and that nothing has been dispatched while it is
  under way, `DispatchesAreFresh` that only such a delivery dispatches.
  `IntakeTyped` and `SlotsHoldMessages` carry the types of messages through the
  queues.  Each step of the four groups (puller, consumer, requests, stops)
  leaves the notifications alone, makes a call, or throws in one; a lemma for
  each of these three does the work.
- `OneWillNotify`: those links themselves.
- `SkipsNothingInCompany` and `QueueKeepsItsPromises`: what the puller and the
  consumer promise alone they keep in one process with each other and with HTTP:
  `[]NothingSkipped`, again under `RegrowthWaits`, and `[]MessageNotLost`,
  `[]DeadLettersWereRetried`, `[]OneCopyPerFault`.  `PullerInv` and `QueueInv`
  (`RetriedInv` and `CopiesInv`) carry over because a channel's step moves no
  slot but its own and unmeasures nothing (`LeavesAlone`); the stops, which take
  all channels down at once, are steps of neither and have lemmas of their own.

`ImpactEngineProofs`: `CountersAreCovered`, `[]RowsCoverCounters`, with
`ImpactInv` (the rows are typed and the customers finite, so the sets that are
counted include each other); `RefreshesRepair`, the action property
`RefreshRepairs`: only the end of its own transaction finishes a refresh
(`OnlyCommitEnds`), and `UpsertIsCoherent` says what that makes of a row still
as it was read.

`ServicesProofs`, first of each service by itself: `ConnectionIsShared`,
`[]OneConnection`, with `Shared` (it adds the values `connecting` may have:
nothing begins an attempt while one is pending or a connection is open);
`AnsweredAreNotified`, `RowsLeftWereInterrupted`, `NotificationsKeepLedger`,
`DownloadsAreWhole`, `ReportsLeftWereInterrupted`, `ReportsKeepLedger`.  The
invariants say what a caller relies on at each of its stages: its rows, its file
and what it has read; a caller's step takes it from one to the next, and
disturbs no other's.  Then of their composition, each of whose steps is a step or
a stutter of each service (`PartsStep`): `WorkLeftWasInterrupted`,
`[]WorkLeftIsInterrupted`; `ServicesKeepLedgers`, the refinement
`KeepsJobLedger`; and, from `AvailabilityProofs`, `DowntimesAreCoverage`,
`ViewsAreAgreed` and `SnapshotsStayTrue`.

`AvailabilityProofs`, from `AvailabilityAssumption`, is about what `Availability`
calculates:

- *Loops.*  `merged` and `total` are recursive functions over the rounds of a
  loop.  `LoopRuns` says that such a function exists, `EveryRound` that what
  holds before the first round and is kept by each holds after every round; both
  follow from there being a least number in a nonempty set of naturals
  (`LeastNatural`), since induction itself takes an operator as its parameter.
- *Merging.*  After each round the merged intervals are in order, with a gap
  between any two (`Apart`), and cover the minutes that the rounds' intervals
  cover (`ExtendedIsApart`, `MergeIsApart`): the next interval starts no earlier
  than any before it, which is what the sort is for.  What is apart shares no
  minute, so the sum of the lengths is the number of minutes covered
  (`MinutesAreCovered`).  `IntervalsInOrder` shows that finitely many intervals
  can be sorted at all, so that `InOrder` denotes something.
- *Downtime.*  A clipped interval has the minutes of the period in which its
  outage lasted (`IntervalIsLasted`), hence `DowntimeOfOutages` and, in every
  typed state, `DowntimeIsCoverage`; `ServicesProofs` makes that
  `DowntimesAreCoverage`, `[]DowntimeIsCoverage`.
- *Views.*  `ViewsInv` has the types and that nothing is detected later than now
  (`DetectedByNow`), so statistics up to now see every open incident.  Of the rows
  of one code, statistics and SLA merge the same intervals; the group of that key
  among all rows is those and the ones whose external id it is, and more
  intervals cover no fewer minutes (`CustomerViewsAgree`).  And
  the groups by day and by PON, which are disjoint and leave nobody out, add up
  to the whole (`GroupsAddUp`): `ViewsAreAgreed`, `[]ViewsAgree`.
- *Snapshots.*  `SnapshotInv` says that what a request has calculated, or a row
  has stored, is no more than the minutes that are down now (`Sound`): the period
  has ended by the time of the calculation, and in what has ended minutes are
  only ever added (`SoundStays`).

`DashboardProofs`: `ButtonsMatchHeader` and `LabelsGetLookedUp`, with `ViewInv`: a
label of the screen waits for a name that is looked up, to come or dropped
(`LabelsWait`), and a summary alone in the dialog is the header's, its OLT looked
up while it reads "Consultando" (`SummaryWaits`);
`GoodSessionsEnd` and `RevokedTokensStaySpent`, two action properties, from
`SessionsInv`: pairs are issued in order, whoever presents a token has one that
was issued, and a token that is about to be exchanged, or was denied, is live no
more.  `TabKeepsItsPromises` states all four of the composition `MCDashboard`.

With these, each safety property but those below is proved of the specification
whose run checks it, `MCServices` and `MCDashboard` included.

Only model-checked: liveness (`EventsReached`, `ConcludedOrLost`,
`CircuitLetsTrialsThrough`, `ReplacedOrRefused`, `AskedPageIsShown`), which the
provers cannot do under fairness; and `SomeoneProceeds`, which uses `ENABLED`
and, since `IncidentIds` may run out where uuids do not, speaks of instances with
an id for every alert: what is proved of it is `NobodyWaitsInACircle`.  And
`VerdictCoversAlerts`, which races make false in general and which therefore is
no theorem of the specification: it is checked with one delivery at a time.

## 10. Not modelled

Inventory, metrics, logging and configuration have no state that another part
reads.  Administration is single statements over one table: of it, changes of
rules and of an account are modelled where they meet something under way, and
the permission checks are not.  Access tokens keep the permissions they were
issued with until they expire.  The queries of the adapter other than
those of events and customers are pass-through.  Reports are rendered in one
step; formatting, pages and styles are left out, as is the drawing of the
dashboard, whose loaders for inventory, alerts, reports and analytics no page
calls.  Listing endpoints change nothing.  The graceful shutdown of the
consumer is a stop at a quiet moment.
