# Verification of the AI calling platform

TLA+ models, TLC configurations and TLAPS proofs for the back end of the AI
voice-calling SaaS in this repository (`apps/api`).  Line numbers refer to
`apps/api/` unless a path says otherwise.

## 1. The system

A multi-tenant FastAPI application (several replicas, `infrastructure/k8s`),
a PostgreSQL database (READ COMMITTED, one SQLAlchemy session per request,
committed by `database.get_db` after the handler returned,
`expire_on_commit=False`), Redis (call sessions, Celery broker, rate limits)
and Celery workers.  A phone leg reaches it as a provider webhook, then as a
media-stream WebSocket that is bridged to OpenAI's realtime WebSocket.

| Component | Code | State it keeps | Operations | Interacts with |
|---|---|---|---|---|
| Call admission and lifecycle | `routers/voice.py`, `realtime/voice_bridge.py`, `realtime/session_manager.py` | Redis `pending_session:*`, `call_session:*`, `tenant_sessions:*`; `call_logs`, `usage_records` | inbound webhook, outbound API, media stream, status callback, cleanup | providers, OpenAI, billing, Celery, webhooks |
| Inside a bridged call | `realtime/voice_bridge.py:192-348`, `providers/openai/realtime.py`, `tools/` | current AI item, bytes played, transcript, tool log | audio, barge-in, transcripts, tool calls, transfer, end | both sockets, tools |
| Campaign dialer | `routers/campaigns.py`, `services/campaign_service.py`, `worker/tasks.py:101-184` | `campaigns`, `campaign_calls` | create, update (start, pause), dialer task | Celery, provider |
| Post-call worker and webhooks | `worker/tasks.py:10-68`, `services/webhook_service.py` | `call_logs`, endpoints | task with retries, dispatch | tenant's endpoints |
| Agents and versions | `routers/agents.py`, `services/agent_service.py` | `agents`, `agent_versions` | create, edit, publish, roll back, archive | inbound webhook, media stream |
| Billing and usage | `routers/billing.py`, `services/billing_service.py` | `subscriptions`, `usage_records` | first read, checkout, Stripe webhook, usage limit | Stripe, admission, cleanup |
| Do-not-call list | `routers/compliance.py`, `services/compliance_service.py` | `dnc_entries`, consents | add, remove, import, check | outbound API |
| Contacts, lists, appointments | `routers/contacts.py`, `services/contact_service.py`, `tools/definitions/` | contacts with their JSON fields, lists, members, counters | CRUD, import, tools during a call | bridge |
| Authentication and sessions | `routers/auth.py`, `services/auth_service.py` | users, `user_sessions`, reset, attempt and lockout keys in Redis | log in, refresh, log out, change, reset | every API |
| Tenants, users, phone numbers | `routers/users.py`, `routers/tenants.py`, `routers/phone_numbers.py`, their services | their tables | register, create, roles, suspend, provision, assign, release | every API, inbound webhook |
| Audit, analytics, knowledge, e-mail, rate limit, provider adapters, dashboard | `services/*`, `middleware/*`, `providers/*` | their tables, Redis windows | append, report, transform | |

What makes it hard: every `await` of the admission path is a point where the
other calls of the tenant, on any replica, run; Redis keys are shared, written
one command at a time and expire; the two loops of a bridge end independently;
a process may die at any step and nothing sweeps up after it; the cleanup has
several parts that fail separately; requests enqueue Celery tasks before their
transaction commits; the ORM's identity map returns rows as they were first
read.

What makes each part correct:

* admission: the number of a tenant's registered calls stays within a known
  bound; a live call is always counted; a slot comes back;
* cleanup: a call that happened is logged and billed once, in an order the
  worker can rely on;
* campaigns: an entry is not dialed twice, a pause stops the dialer, a launch
  reaches every contact;
* agents: the published version of an agent is one, frozen version;
* billing: the limit is enforced in its period, the row follows Stripe whatever
  the order and number of deliveries, and names the customer who pays;
* do-not-call list: a number whose listing was answered stays listed until its
  removal is asked for;
* contacts: what a tool confirmed to the caller is stored, a list's counter
  counts, and one request's failure is its own;
* authentication: a refresh token and a reset link are good for one use, a
  reset ends every session, an old password stays old, as far as no two requests
  overlap; guesses are bounded;
* tenants and users: an e-mail names one account, a question asked before an
  insert has the answer the constraint gives;
* post-call: an endpoint hears of each analysis once, in order, and what the log
  says; one endpoint's failure is not another's.

## 2. Modules

| Module | Models | Rests on |
|---|---|---|
| `VoiceCalls` | call admission and lifecycle | |
| `SlotPool` | abstract: a pool of call slots per tenant | |
| `VoiceCallsProofs` | proofs about `VoiceCalls` | `VoiceCalls`, `SlotPool` |
| `CampaignDialer` | campaigns: manager's requests, queue, dialer tasks | |
| `CampaignDialerProofs` | proofs about `CampaignDialer` | `CampaignDialer` |
| `AgentVersions` | versions of one agent, and the calls that use them | |
| `VersionRegistry` | abstract: a registry that takes one request at a time | |
| `AgentVersionsProofs` | proofs about `AgentVersions` | `AgentVersions`, `VersionRegistry` |
| `LiveCall` | inside one bridged call: the bridge, OpenAI's event loop, tools | |
| `Transcript` | abstract: what a call's transcript promises | |
| `LiveCallProofs` | proofs about `LiveCall` | `LiveCall`, `Transcript` |
| `AuthSessions` | one account: credentials, sessions, lockout, reset links | |
| `Tenancy` | tenants, users and phone numbers | |
| `AccountsProofs` | proofs about both | `AuthSessions`, `Tenancy` |
| `Billing` | one tenant's subscription, minutes and checkouts, with Stripe | |
| `BillingProofs` | proofs about `Billing` | `Billing` |
| `ContactRecords` | one tenant's contacts, lists, bookings and do-not-call list | |
| `ContactRecordsProofs` | proofs about `ContactRecords` | `ContactRecords` |
| `PostCall` | the end of a call's cleanup, the post-call task, webhook delivery | |
| `WebhookFeed` | abstract: what an endpoint is promised about a call | |
| `PostCallProofs` | proofs about `PostCall` | `PostCall`, `WebhookFeed` |
| `MC<module>` | the instances of `<module>` for TLC | `<module>` |

The four abstract modules say what a component promises without saying how; the
component's module names its instance of the abstract one (`Pool`, `Registry`,
`Record`, `Feed`), whose variables are functions of its own, and the property
`PoolSpecHolds`, `RegistrySpecHolds`, `RecordSpecHolds` or `FeedSpecHolds` says that
its every step is a step of the abstract one or changes none of its variables.

The parts meet in the database, in Redis and at the provider.  The dialer's calls
enter the system through the same webhook and admission as any outbound leg, and
the media stream of an admitted call reads the version that `AgentVersions`
publishes.  `LiveCall` refines what `VoiceCalls` calls `talking`; its end (both
loops gone) is the step there to `closing`.  `PostCall` begins where `VoiceCalls`
reaches `persisting` and follows the steps from `logged` to `done` into the
worker.  The answer of `check_usage_limit`, free in `VoiceCalls`, is
`LimitReached` in `Billing`, whose `StartCall` and `EndCall` are the admission and
the usage record there.  The parts share no variable that one writes and another
decides on, so each is checked against an environment that may do what the others
do.

Conventions common to the database modules (`AgentVersions`, `AuthSessions`,
`Tenancy`, `Billing`, `ContactRecords`).  A request is one READ COMMITTED
transaction: every SELECT is a step, since other requests commit between two of
them; a flush and the commit after it are one step, since a second writer of the
same row or unique key waits in between and then sees the committed state.  Where
a request holds locks over other steps (a reset, an import), these are state.
Every guard of an early return is a guard of the action; an error answer that
changes nothing is the absence of a step, unless a property is about it.  History
variables (marked so in the modules) are read by no guard; most record that two
requests overlapped.  The properties that fail under an overlap name it as their
only excuse, so that they say exactly which overlap does what.

### VoiceCalls

One element of `Calls` is a phone leg.  `pc[c]` names the last step its
handler completed:

| `pc` | Code position |
|---|---|
| `idle`, `dialing`, `ringing` | before the webhook; outbound leg handed to the provider (`voice.py:489`); webhook answered (175) |
| `verified` | pending session checked and deleted (242) |
| `counted` | below the concurrency limit (288) |
| `metered` | below the usage limit (298) |
| `hashed`, `keyed`, `listed` | after HSET, EXPIRE, SADD of `create_session` (`session_manager.py:93-101`) |
| `bridging`, `talking` | `bridge.start()`; inside `asyncio.gather` (`voice_bridge.py:117`) |
| `closing`, `marked`, `unlisted`, `persisting` | `_cleanup`: entered; state "completed"; SREM; DEL |
| `logged`, `notifying`, `done` | committed (453); webhook dispatched (457); task enqueued (474) |
| `refused`, `broken`, `crashed` | closed by a check; exception before the bridge ran; process died |

`members[t]` is `tenant_sessions:<t>`, `session` the `call_session` hashes with
their state and whether a TTL is set, `pending` the pending keys.  A leg has two
ids because the outbound API draws one (`voice.py:446`) and the inbound webhook
another (151); only the second ever gets a session.  `registered` and `cause`
are history variables that no action reads.

`SADD` and the `EXPIRE` after it are one action: what lies between them differs
only in the age of the set, and a set may expire at any time its members allow.
`HSET` and its `EXPIRE` are two, since a failure between them leaves a key that
never expires.  Admission is abstract in what `check_usage_limit` answers.
Rejections of the API before it changes state (unknown agent, 429, DNC, bad
signature) are the absence of a step.  An error of Redis whose command was
carried out is the step followed by the error.

Named bounds and assumptions:

* `MaxAdmitting`: how many handlers of one tenant are between the count and the
  registration at once.  The code does not bound it; every statement about the
  overshoot is relative to it, and holds for each value of it.
* `CallsOutliveTTL = FALSE`: no call lasts longer than `SESSION_TTL` (two
  hours).  The setting that could enforce it (`call_max_duration_seconds`,
  `config.py:67`) is used nowhere, so `LiveCallHoldsSlot` depends on callers.
  Nothing else depends on it.
* `Faults`: which of crash, Redis, database, OpenAI, provider and webhook
  failures occur.

### CampaignDialer

One campaign, its entries (`campaign_calls`) and the processes that may dial
it.  `status` is the committed `campaigns.status`, `writing` what a request has
written but `get_db` not yet committed (`database.py:28`): POST and PUT write
the row, enqueue the task (`campaigns.py:58`, `84`) and return, and the commit is
a later step.  A second request waits for the row's lock, so one value of
`writing` suffices.  Only "running" matters to the dialer; all other statuses
are "stopped".

| `pc` | Code position of a dialer (`worker/tasks.py`) |
|---|---|
| `idle` | no task |
| `started` | campaign found running (125) |
| `next` | batch loaded, or an entry finished: head of the loop (150) |
| `entry` | status "refreshed", contact not yet looked up (155) |
| `dialed`, `failing` | the provider accepted (173); an exception is being handled (176) |

`seen` is the campaign's status in the session's identity map, which
`RefreshedStatus` reads: the SELECT of `get_by_id` finds the object loaded at 124
and leaves its attributes alone, since nothing expires them
(`expire_on_commit=False`).  A database error in the loop makes the handler's own
update fail too (the session needs a rollback nobody calls), so it ends the
task: `TaskDies`.  `dials`, `mishap` and `died` are history variables.
`MaxTasks` bounds the tasks ever enqueued, in the guard of `WriteCampaign`.
An entry is made with the status the request names (`EntryStatuses`: what the
dialer writes, and `other` for the four it does not), which `mishap` records as
`preset` unless it is pending; a contact may have several entries.

The dialer reads no `max_concurrent_calls`, no calling hours and no
do-not-call entry, although its docstring says so (105); there is nothing to
model, and no property speaks of them.

### AgentVersions

One agent, its versions, requests of managers and calls.  `agent`, `status`
and `text` are the committed rows; a version's content is one value `text`.
A request is a READ COMMITTED transaction of separate SELECTs:

| `pc` of a request | What its session has loaded |
|---|---|
| `agent` | the agent's row (`get_with_versions`) |
| `loaded` | and its versions (`selectinload`), or, for an edit, the one version |
| `found` | and the version published by now (`get_published_version`) |
| `numbered` | and the highest version number |

`sawAgent` and `sawStatus` are the objects of the session, which later queries
do not refresh.  The flush writes only columns that differ from what was
loaded, which `Net` expresses, and its row locks order concurrent flushes, so
that flush and commit are one step.  `stale` records that some request wrote
after what it had read was changed by another: the properties that need fresh
reads say so, instead of pretending the overlap away.  `released` keeps the
content a version had when it was published.  A call (`call[c]`) is answered by
the webhook, then its stream loads agent and version in two statements.
`MaxVersion` bounds the version numbers.  An edit may write back the text it
read, which the code would not flush: that is a stutter of the rows.

`VersionRegistry` is the same agent without requests: publishing, editing, testing,
adding a version and archiving are each one step on the whole registry, with the
guard the code has on what it read.  A commit maps to that step if nothing the
request read has changed, all its reads to no step.  Once a commit has not
(`overlapped`, here `stale`), the registry only promises that versions keep their
numbers, that what was published is no draft again, and that the agent points to
something that was published.

### LiveCall

One call, from the start of the two loops to their end.  OpenAI, the caller and
Twilio's player are the environment: OpenAI sends events (`inbox`, in order) of
the response it generates, and the bridge handles one at a time.

| `handler` | Code position |
|---|---|
| `wait` | the receive loop awaits the next event (`openai/realtime.py:144`) |
| `cancelled`, `truncated` | `_on_speech_started` after `cancel_response`, after `truncate_item` (`voice_bridge.py:217-242`) |
| `executing` | `_on_tool_call` awaits the executor (248-257, `executor.py:63-142`) |
| `result`, `request` | about to send the result, to request a response (`openai/realtime.py:64-86`) |
| `acting` | back in the bridge: transfer, end of call, resets (262-348) |

Each `await` in a handler is a step, since OpenAI, Twilio and the Twilio loop go
on meanwhile; an exception (a closed socket, Redis, the provider) ends the
handler where it is, without the resets that follow, and the loop takes the next
event (162).  Audio is counted in deltas rather than bytes, transcripts are the
sequences of the responses their deltas belong to.  An `item` is named by its
response: OpenAI's responses here have one message and at most one function
call.  `sent`, `truncated`, `ran`, `answered` and `cleared` are history.  The
end of a call stops the Twilio loop's flag and asks the provider to hang up;
that the line then drops is `HangUp`.  A transfer never reaches the provider:
`transfer_call` returns no `phone_number` (`tools/definitions/transfer.py`), and
`_handle_transfer` needs one (320).  The tools' own writes belong to contacts
and appointments.

`Transcript` is the list of turns with the words made, the responses ended and the
speeches heard, and nothing of sockets, handlers or events.  A turn of the agent is
added when its response has ended and all before it have been settled, with all its
words unless it called a function (the tool's handler clears the text, 271); a turn of the
caller when the one before has been noted.  Turns are never changed or removed.

`MaxResponses`, `MaxDeltas`, `MaxSpeeches` and `MaxInbox` bound what the
environment generates, in the guards of its actions; no handler has a bound.

### AuthSessions

One account.  `password` is what `users.password_hash` is a hash of (`legacy`: of
the deprecated scheme), `session` the rows of `user_sessions`, `link`, `attempts`
and `locked` the Redis keys.

| `pc` | Code position |
|---|---|
| `asked` | log-in: the lockout key was not there (`routers/auth.py`, `auth_service.login`) |
| `counted`, `locking` | wrong password: after INCR at the threshold; after the lockout was set |
| `cleared` | right password: keys deleted, about to write and commit |
| `holding` | refresh: session and user read, about to revoke and insert |
| `changing` | change: current password verified |
| `linked`, `written`, `forgotten` | reset: link and user read; row and sessions written; link deleted, commit to come |

A reset locks the user's row and the sessions it revokes until its commit
(`writer`, `doomed`): a log-in, a change, a refresh of one of these sessions or a
log-out waits.  `Abort` is a crash, an error of Redis, of the mail server, of a
statement or of the commit: Redis keeps what it was told.  `late` are the requests
whose check has become outdated, `lateBorn` the sessions opened by those, `cut`
the sessions before the last reset or log-out of all, `heirs` and `uses` count
what one token led to, `guesses` the wrong passwords answered since a log-in or an
expiry.  Registration opens the first session and is in `Tenancy`.  Bounds:
`MaxSessions`, `MaxLinks` and `MaxAttempts`; `Threshold` is 5 in the code.

### Tenancy

`slug`, `role`, `activeUsers` and `number` are the rows of tenants, users and
phone numbers, `openTenants` the tenants that are not suspended, `draft` what a
request is about to insert, `place` where it is: `probing`, `free` (registration:
looking for a slug, slug found), `creating` and `provisioning` lie between a question
and its INSERT.  The INSERT that meets a constraint is an action of its own
(`SlugClash`, `UserClash`, `NumberClash`), and a request may be rolled back at any of
these places.  All tenants have one business name, so that slugs differ in their
counter only, the case in which they can clash.  Roles and the check constraint on
them differ in the code (`models/user.py` against the migration), hence `specialist`.
`manager` is AGENT_MANAGER, who may assign an agent to a number and nothing else;
one who does not also stands for the roles that do nothing here.
`status` of a number is left out: nothing reads it.  The names differ from those of
`AuthSessions` (`TenancySpec`, `Handlers`, `place`), so that `AccountsProofs` can
extend both modules.  Bound: `MaxTenants`.

### Billing

`row` is the tenant's `subscriptions` row, `used` the minutes recorded since it
exists, in the current month; `over` says that the row's only period has passed,
and `counted` are the minutes recorded in that period, which is all the limit ever
looks at.  In later months both are kept up to the limit only (`UpToLimit`).
`checkout` and `bought` are Stripe's: which customer a checkout session has, and
the status of what it led to.  `events` are those Stripe has not been acknowledged:
a delivery may be handled and its answer lost, so each may be handled again, in
any order.  `unknown`, `paying`, `named` are the places of a checkout (no row; row
without customer; customer known), `found` that of a webhook between its SELECT
and its write.  Plans other than the one bought, the portal and the summary, which
only read, are left out; `record_usage` is called nowhere.  Bounds:
`MaxCheckouts`, `MaxEvents`; `MaxMinutes` stands for what one call can take, which
the code does not bound (`MinutesBounded` holds for each value of it).

### ContactRecords

A contact's id is the request that inserted it and its number.  `fields` abstracts
`custom_fields` to the set of requests whose entry (booking, cancellation,
callback) it holds, which is what lost updates are about; a write replaces the
whole set, as the code writes the whole JSON.  `count` is `contact_count`, read
and written back as a whole.  `dnc` distinguishes no row, an active and an inactive
one, since `get_by_phone` asks for active rows and the unique index does not.  An
import (contacts or numbers) is one transaction over all rows, each a question and
an INSERT; its uncommitted rows are in others' way (`Held`), and two imports may
wait for each other (`ImportDeadlock`).  The look-up of `update_customer` finds only
the id and is merged with its UPDATE.  `excused` records an overlap on the same
row or number, a deletion, an overwrite or an abort; `skewed` the lists with such a
cause; `promised` the numbers whose listing was answered.  `RowRefused` is an INSERT
that a check constraint or a column's length refuses, in a request of one row as in
an import: status, source and number come from the request unchecked
(`schemas/contact.py:8`, `17`, `schemas/compliance.py:9`).  Bound: `MaxRows`; each
request is made once.

### PostCall

`pc[c]` goes from the cleanup (`persisting`, `persisted`, `completed`,
`enqueuing`) through the queue to the task (`loading`, `asking`, `saving`,
`reading`, `analyzed`, `closing`) and its end (`done`, `dropped` after the last
retry, `lost`).  `summary` in the log and `view` in the attempt are the number of
the attempt that made them, which is all the properties compare: what an endpoint
was told last is compared with the log by it (`AnalysisToldOnceAndLast`).  A dispatch reads
the endpoints, then all POSTs run side by side (`asyncio.gather`): each is
answered, fails, or is given up after ten seconds, in which case it may still
arrive (`slow`).  The handler around the analysis swallows a failed commit too;
its session is then unusable, and the attempt fails at the dispatch (`broken`).
Celery acknowledges a message when a worker takes it (no `acks_late`), so a dead
worker's task is gone.  Bound: `MaxRetries` (3 in the code).

`WebhookFeed` knows the logs, the analyses in them and the messages, not the tasks,
retries and workers that make them.  A message may be sent when it is due: the
completion while the endpoint has heard nothing of the call, an analysis when it is
the log's, and a second one only if the work was repeated or a message to this
endpoint was delayed.  A delayed message arrives at any time, once or never.

### Assumptions about what surrounds the code

* `set_tenant_context` (`database.py:36-40`) succeeds.  It sends `SET LOCAL ... =`
  with a bind parameter, which PostgreSQL does not accept, so a deployment in which
  it is called must have replaced it; the models leave it out.
* The database role bypasses row-level security, which the migration forces
  (`migrations/versions/001_initial_schema.py`) and most sessions would fail under.
* PostgreSQL's deadlock detection ends one of the requests that wait for each
  other; Stripe delivers each event at least once.

## 3. Runs

| Run | Instance | Shows |
|---|---|---|
| `voice_safety` | 2 calls, 1 tenant, limit 1, window 2; crash, Redis, database, OpenAI faults | `LiveCallHoldsSlot`, `LeakHasCause`, `RecordsComplete`; `SlotEventuallyReleased` under `FairSpecOpenAI` |
| `voice_slots` | 3 calls, limit 1, window 2; crash, provider, webhook faults; symmetry | the refinement of `SlotPool` (`PoolSpecHolds`), with more calls than slots |
| `campaign_safety` | 2 entries of any status, 2 dialers, 2 tasks, every fault | `RedialHasCause`, `RecordedOutcomeTrue`; `LoadedEntryResolved` under fairness |
| `campaign_pause` | 2 entries, 1 dialer, no fault | violated: a dialer goes on after a pause |
| `agents_safety` | 2 requests, 2 versions, 2 texts, 1 call | `OnlyReleasedVersionsServe`, `ReleasesHold`; the refinement of `VersionRegistry` (`RegistrySpecHolds`) |
| `live_safety` | 2 responses of 1 delta each kind, 1 barge-in, 2 events in flight, every fault | `TruncationWithinSent`, `CallsAnsweredInTurn`; `TranscriptKept`, the refinement of `Transcript` with `TranscriptFaithful`; `BargeInSilences` under fairness |
| `accounts` | 2 requests, 3 sessions, 1 link, threshold 2, aborts | `CutEndsSessions`, `TokensUsedOnce`, `GuessesBounded`, `LoginKeepsPassword` |
| `tenancy` | 2 requests, 2 tenants, 2 e-mails, 1 number, aborts | `EmailNamesOneAccount`, `FreshRequestsSucceed` |
| `billing` | 2 requests, 2 checkouts, 3 events, 2 lines, limit 1, calls of 1 minute, aborts | `MinutesBounded`, `StatusFollowsStripe`, `CustomerPaysSubscription` |
| `billing_period` | 1 request, 1 line, no checkout | violated: the monthly limit does not apply in the second month |
| `contacts` | 3 requests, 2 numbers (one the placeholder), 1 list, files of 2 rows, aborts and refused rows | `ConfirmedIsStored`, `MiscountHasCause`, `ListedUntilRemoved`, `FailureHasCause` |
| `postcall` | 1 call, 2 endpoints, 1 retry, every fault | `AnalysisToldOnceAndLast`, `FailureStaysWithItsEndpoint`; the refinement of `WebhookFeed` (`FeedSpecHolds`) |

Every passing run also checks its module's `TypeOK` (`TenancyTypeOK` in `tenancy`),
except `voice_slots`.

Bounds.  Two calls with a limit of one are the smallest instance where calls
race for a slot, one is refused, and one's registration meets the other's
cleanup, crash or expiry; three calls make the pool's capacity (two) smaller
than the demand.  Two dialers and two entries let both hold the same batch in
different orders, one dying between a call and its record while the other goes
on.  Two requests on two versions contain every pair of overlapping operations,
publish against publish and publish against edit among them, each requests
again and again.  Two responses are what a stale item, count or text needs: one
response whose leftovers meet the next; two events in flight put an event of the
old response behind a barge-in or a tool call of the new one.

In `accounts` two requests are any pair that overlaps; three sessions are a
session, its refreshed one and one more (a second refresh, or a log-in after a
reset); a threshold of two with three attempts lets a count grow past the lockout.
In `tenancy` two e-mails and two tenants of one name let a registration and a
creation of a user meet on either key, and one number is contended by both
tenants.  In `billing` two checkouts are the fewest that can mix up customers and
subscriptions; three events are a completion, a change and a deletion in every
order and repetition; two calls admitted together below a limit of one minute
overshoot it by as much as the bound allows.  In
`contacts` three requests let a pair overlap while a third has come before or
comes after; two rows per file are what two imports need to wait for each other;
the second number is the placeholder of leads without number.  In `postcall` two
endpoints are one that fails and one beside it; a retry is one repeated attempt; a
second call shares only the endpoints, which change freely anyway.

The proofs of section 4 lift every safety property of these runs, and the four
refinements, to instances of any size; the liveness properties and the two
violations rest on the bounds above.

Deadlock is not checked: calls end, the bounds on tasks, versions, sessions, tenants
and events run out, each request of `contacts` is made once, and nothing more need
happen; a live call stops when its bounds are used up.

Fairness.  `VoiceCalls`: `WF` of each handler's own steps (the event loop resumes
a handler whose await has completed) and of the end of the caller's media stream
(callers hang up).  `FairSpecOpenAI` adds that OpenAI closes its socket, as it
does after a session's maximal duration.  It is an assumption about the
environment and a necessary one: without it nothing the code does releases the
slot of a caller who hung up. `CampaignDialer`: `WF` of each worker's steps (a
worker takes a task that waits and goes on with it) and of the commit of a request
that has written; requests, faults and deletions are never forced.
`AgentVersions` and the modules about accounts, tenants, billing, contacts and the
post-call task state no liveness: their requests end by themselves, and a lost
task is never delivered again. `LiveCall`: `WF` of the bridge's handlers together,
which is one coroutine: the event loop resumes it when its await completes.  It
assumes that a tool returns. The executor's class promises a timeout
(`executor.py:41`) that `execute` does not apply (120), so `BargeInSilences`
depends on the tools.  The caller, OpenAI and the Twilio loop are never forced.

## 4. Proofs

`VoiceCallsProofs` proves, for every set of calls and tenants, limit, window
and set of faults, from `ConstantsAssumption` alone:

* `TypeCorrect`;
* `OvershootIsBounded`.  The count itself is not inductive: a handler past the
  count is a call to come.  `WindowBounded` counts the registered calls and the
  handlers in the window together (`Slots(t)`); only `CheckConcurrency` lets
  that set grow, by one, when both parts are below their bounds
  (`SlotsGrowBelow`), and every other step shrinks or keeps it (`SlotsShrink`);
* `CallInvariant`: `CallInv`, the conjunction of `WindowBounded` and of what
  holds of a call at each `pc` (registered from SADD on, recorded from the
  commit on, session key from HSET on);
* from it `LeaksAreExplained`, `RefusalsLeaveNothing`, `FinishedCallsAreBilled`,
  `TasksFindTheirLogs` and with both `RecordsAreComplete`, `ListedCallsAreLive`,
  and `LiveCallKeepsSlot` under the assumption `~CallsOutliveTTL`;
* `AdmissionIsSlotPool`: every step is a step of `SlotPool` or a stutter, with
  capacity `Limit + MaxAdmitting - 1`.  The slot that `SADD` takes exists since
  the call is in the window but not yet a member (`SlotIsLeft`).

`CampaignDialerProofs` proves, for every finite set of entries, every set of dialers
and faults and every `MaxTasks`, `TypeCorrect` and the invariant `DialerInv`, and from it
`RedialsHaveCause` and `RecordedOutcomesAreTrue`.  "Called twice only after a
mishap" is not inductive: the invariant says of an entry without mishap that it
has at most one holder, that its row is still pending while it is held, and
that, once it was called, either its caller has yet to record it or the row is
no longer pending (`CleanEntryCalledOnce`).  `HoldsFollowPc` gives the batch and
the current entry their place in the loop, `OutcomeFollowsPc` says that what is
about to be recorded happened, `UnloadedUncalled` that an entry not yet created
is held by nobody, `PresetUnloaded` that nobody loads one made with another status
than pending.  Two action properties are the part of `LoadedEntryResolved` that
does not depend on fairness: `EntriesAreHeld` (a dialer lets go of an entry with an
outcome or by dying; this needs `SeenFollowsPc`, that a dialer at work sees the
campaign running, or a task could end in the middle of a batch) and `BatchesShrink`
(`StepsLeft` falls with every step of a dialer that holds something, and nobody else
changes it).  What TLC adds is that a worker that may go on does.

`AgentVersionsProofs` proves, for every set of requests, calls and texts and
every `MaxVersion`, `TypeCorrect` and `AgentsInv`, and from it `OnlyReleasedServe`
(any overlap), `PublishedIsUnique` and `ReleasesAreFrozen` (as long as no request
wrote on outdated reads), together `PublicationsHold`.  The strengthening says what a session holds at each
`pc` (`SessionFollowsPc`: in particular that the check at the top of the operation
passed on what it loaded), that versions a request or a call refers to exist
(`LoadedVersionsExist`), and carries the guarantees themselves.

`RequestsAreSerial` is the refinement: `Spec` implies `VersionRegistry`.  A commit
whose reads are current is the registry's operation, because what it writes then
depends on the committed rows only (`PublishIsPublish`, `WriteIsOperation`); one whose
reads are not is an overlap, which keeps existing versions (`PublishKeepsExisting`)
and what was published (`StaleWriteOverlaps`).  That a new version gets the next
number needs one more invariant, `NumbersHaveNoGaps`: a request that was given a
number has all smaller ones before it, since versions are never deleted
(`NumbersKept`); the unique constraint does the rest.

`LiveCallProofs` proves, for any number of responses, deltas, barge-ins and events
in flight, `TypeCorrect` and:

* `TruncationsWithinSent`.  That the count belongs to the current item is not
  inductive: the next audio event might be of another item.  `OrderInv` says why it
  is not: audio in flight belongs to the last item announced before it, in flight
  or current (`AudioFollowsItem`), the response being generated is the last
  announced (`ActiveItemIsLast`), and a response not yet started has announced
  nothing (`FutureIsSilent`).  Sending at the end of the queue (`SendKeepsOrder`),
  receiving from its head (`ReceiveKeepsOrder`) and forgetting the item
  (`ForgetKeepsOrder`) each preserve it, and every action is one of the three.
* `CallsAreAnsweredInTurn`, from `CallInv`: a function call is on its way once and
  untouched, or in the handler, at whose step it has run or been answered or not,
  or is behind it (`CallFollowsHandler`).
* `TranscriptIsFaithful`, from `WordsInv`, a conservation law: the deltas of a
  response that calls no function are as many as those in flight and in the saved
  text together, until its end is received, and then all in one turn
  (`NothingIsLost`).  It is inductive because the responses follow each other on
  the wire (`PartsInOrder`), so that the saved text is that of the oldest one not
  yet ended (`TextIsOldest`) and never mixes two.
* `BridgeWritesTranscript`, the refinement: `Spec` implies `Transcript`; with the
  theorem before it, `TranscriptIsKept`.  Every action is one of three for the
  record (`StepOfThree`): OpenAI sends at the end of the queue, the bridge receives
  its head, or neither queue nor transcript is touched.  Only the receipt of a
  response's end or of a caller's transcript adds a turn (`TurnWritten`).  That it is
  the next one needs `RecordInv`: notes of the caller's words arrive in the order of
  the speeches (`NotesInOrder`), no more words of a response are in the text and on
  the wire than were made (`WordsBounded`), and ends are received in the order of the
  responses (`ClosedInOrder`).

`AccountsProofs` proves, for any number of requests, sessions, links and passwords
and any threshold, the theorems of `AuthSessions`:

* `TypeCorrect`; from `SessionInv`, `TokensAreUsedOnce` (which leaves uses by
  overlapping requests aside), `CutsEndSessions` and the
  action property `LoginsKeepPassword`.  A token that was used is over in the
  database, or gone from Redis, for good (`UsedIsOver`); what a handler that is not
  late has checked is still so (`ChecksHold`); one reset at a time holds the row
  lock (`OneWriter`), and the sessions it leaves alive were opened too late
  (`ResetDoomsAll`).  Each step that makes a check outdated records the request as
  late, which is what the proof of each action comes down to;
* `GuessesAreBounded`, from `GuessInv`.  The bound, requests times (threshold plus
  one), comes from a reserve: a request that has counted its way to the threshold
  deletes the count when it locks, so each one that is about to lock keeps a whole
  threshold of guesses in reserve, besides what is left of the count (`Room`).
  Among unlocked states at least one request is not about to lock; once locked,
  only those already past the question may still guess (`Guessing`).

The same module proves, for any number of requests, e-mails, phone numbers and
tenants (at least one), the theorems of `Tenancy`: `TenancyTypeCorrect`,
`EmailsNameOneAccount` and `RequestsSucceed`, from `TenancyInv`.  `SlugsTried` says
that a registration has passed only taken slugs; since there are more slugs than
tenants, its search ends (`SlugIsLeft`, by the pigeonhole principle).
`QuestionsHold` says that what a request asked keeps its answer unless it was
overtaken, for the e-mail over all tenants, and `EmailsApart` that two accounts of
one e-mail differ only where one of them is a twin.

`BillingProofs` proves, for any number of requests, lines and checkouts and any
limit, `TypeCorrect`; `MinutesAreBounded`, from the bound itself with a row that has
minutes only once it exists and counts all of them in its period, by arithmetic on
the number of lines with a call; and
from `BillingInv`, `StatusFollows` and `CustomerPays`.  Stripe numbers its events,
of which the greatest about a subscription tells its present status (`Pending`):
the row has it or will hear of it (`NewsArrive`).  Redelivery keeps this, because
an event that is acknowledged was handled and an older one that is handled late is
recorded as disorder.  `ReadsHold` is what a request that is not late still knows
of the row.

`ContactRecordsProofs` proves, for any requests, numbers, lists and files,
`TypeCorrect` and:

* `ConfirmedAreStored` and the action property `FailuresHaveCause` (a request that
  is not aborted, refused a row or excused fails in the three ways of `FailsAlone`
  only), from `StoredInv`: a request's draft is of the kind of its place and names rows among
  the keys it works on (`Drafts`); two requests in flight that share a key are both
  excused (`Overlaps`); a request without excuse would find again what it looked
  up (`LookupsHold`); and two sets of entries, a writer's and the row's, differ in
  excused entries and its own only (`WritersCarry`), so that writing the whole
  field back loses none of the others;
* `MiscountsHaveCause`, from `CountInv`: a counter not skewed is the cardinality of
  the list's members, and so is what a request in flight has read of it;
* `ListedStayListed`, from `ListedInv`: a removal takes the promise back when it
  looks the number up, not when it commits.

`PostCallProofs` proves, for any calls and endpoints and any number of retries,
`TypeCorrect`, `ToldAreStored`, `AnalysesComeOnceAndLast` and `FailuresStayApart`,
from `PostInv`: what an attempt holds of the log at each place (`Held`: in
particular that no attempt before it stored a later summary), that a POST that may
still arrive carries what the log held and is recorded as late (`SlowHold`), that
before the analysis is dispatched no endpoint that is neither late nor repeated has
heard of it (`ToldOnce`), and that afterwards each that subscribed in time has or
is about to (`Reached`).  `EndpointsAreFed` is the refinement: `Spec` implies
`WebhookFeed`.  Every body that is sent is due (`BodyIsDue`); for the completion this
takes `FeedInv`: until it is told, the endpoint has received nothing of the call, and
nothing that was given up can still arrive (`CompletionIsFirst`).

Assumed are the constants' assumptions that the modules declare and TLC evaluates
(`ConstantsAssumption`, `DialerAssumption`: finitely many entries; `AgentsAssumption`,
`LiveCallAssumption`, `AccountAssumption`: finitely many requests, at least one;
`TenancyAssumption`: at least one tenant; `BillingAssumption`: finitely many lines;
`ContactsAssumption`: the mark of a missing row is no number; `PostCallAssumption`),
and for `LiveCallKeepsSlot` that calls do not outlive the TTL.  Nothing else.

Only model-checked: `SlotEventuallyReleased`, `LoadedEntryResolved` and
`BargeInSilences`, since liveness under fairness is out of the proof system's
reach, and the two violations, which are counterexamples and need no proof.  Every
invariant a passing run checks, the refinements and the action properties are
proved.  No module has a RECURSIVE operator.

## 5. What the models found

Shown by a run, against what the code says of itself:

1. `campaign_pause`: the dialer's "refresh" of the campaign's status
   (`worker/tasks.py:151-154`) is answered by the identity map; a pause or a
   cancellation takes effect only after the whole batch was called.
2. `billing_period`: `check_usage_limit` (`billing_service.py:183-192`) measures in
   the row's first 30 days for ever; usage of later months is never counted.  A
   tenant below the limit in its first period is never stopped afterwards, and one
   that used it up is refused for good.

What follows from the models without a run of its own; these are the causes and
excuses the properties name, and where a document says otherwise it is named:

* Calls.  The concurrency limit can be exceeded by the handlers in the window
  minus one (`voice.py:287`, `322`).  A caller who hangs up keeps the slot until
  OpenAI closes the session, because `_cleanup` runs only after `gather`.  A leg
  placed by `/voice/outbound` (446, 489) gets a second id in the webhook (151): it
  is logged and greeted as inbound, and its status callback never finds a session.
  What a dead process leaves behind stays until it expires: the periodic clean-up of
  stale sessions of `docs/ARCHITECTURE.md:277` does not exist.
* Campaigns.  The task is enqueued before the request commits (`campaigns.py:58`),
  so a fast worker finds no running campaign and a launch reaches nobody.  Every
  PUT of a running campaign starts another dialer, and two dialers call the same
  entries.  A contact may have several entries, since the unique constraint of
  `docs/DATABASE.md:664` is not in the migration, and is called for each.  An entry
  may be made with any status (`schemas/campaign.py:69`), so that a row says dialing
  of a contact nobody called.  The dialer consults neither calling hours, pacing nor the do-not-call
  list, although its docstring (`tasks.py:105`) says it respects them.
* Agents.  An edit that read a version as a draft may commit after it was
  published (`agent_service.py:88-90`), although `docs/DATABASE.md:473` calls
  versions immutable snapshots.  Two overlapping publishes leave two
  published versions, after which `get_published_version` raises and nothing can
  be published.
* Live call.  The truncation reports what was sent to Twilio
  (`voice_bridge.py:226`), not what was heard.  `transfer_call` returns no number,
  so no transfer is placed.  A tool that hangs stops the loop, as the timeout the
  executor's class lists (`executor.py:41`) is not applied.
* Accounts.  Two refreshes of one token both succeed; a refresh or a log-in that
  overlaps a reset survives it; a log-in that rehashes may bring the old password
  back; a reset link, a one-time token in the repository's README (254), is usable
  twice by overlapping requests, and lost when the commit fails after its deletion
  (`routers/auth.py:189`).
* Tenants.  Two overlapping requests make two accounts of one e-mail, of which
  log-in finds one; two registrations of one business name may fail in one of
  them; an owner may demote or deactivate the last owner; three roles the model
  lists are refused by the table (`models/user.py:45`); a number another tenant
  has or had fails as an error instead of being refused.
* Billing.  A checkout paid by a tenant without a row is acknowledged and lost
  (`routers/billing.py:126`); two first reads meet the unique constraint
  (`billing_service.py:85`); an upgrade leaves `monthly_minute_limit` as it was;
  an old event revives a deleted subscription; a status Stripe knows and the table
  does not fails for ever; the status is not consulted at admission.
* Contacts.  A booking is confirmed without a number, or after its INSERT failed,
  and a callback without a contact; overlapping writes lose one another; a number
  removed from the do-not-call list cannot be added again (500); the second lead
  without number fails, as does adding a member twice; one row that a table refuses
  loses a whole import, though each row's exception is caught, and fails a request
  of its own with 500 instead of 422; deleting a contact leaves its
  lists' counters too high.
* Post-call.  A retry after the dispatch tells the analysis again, possibly
  another one; a POST that was given up may arrive after later events; a worker
  that dies loses its task.  The engine's pool belongs to the loop of the task
  that opened it (`tasks.py:182`), which the next task in the same process does
  not run in; the model has that error among the database failures.

## 6. Not modelled

* Knowledge base: text extraction and embeddings are transformations of data, and
  `process_document_task` is enqueued nowhere.  Beyond the creation of a row there
  is no protocol to model: its other operations call methods their repositories do
  not have.
* Compliance, the rest: consent records are appended and read by no decision;
  `check_calling_hours` is a pure function that only its own endpoint calls.
* Rate limiter: one atomic Redis pipeline on a window of timestamps; no other part
  reads its keys, and nothing but the answer 429 depends on it.
* Audit, analytics, e-mail: an append-only log, read-only reports, an SMTP call.
* Provider adapters: formatting and signature checks; their failures are choices
  of the models that call them.
* The web dashboard, migrations and deployment files; the constraints of the
  tables that matter are in the models of those tables.
* Within the modelled parts: names, notes, prompts and other texts; the labels of
  statuses nothing reads; the order of reports.

## 7. Plan

The safety properties of the runs are proved, and admission, agents, the live call's
transcript and the webhooks are shown to implement what an abstract module promises.
What could follow:

1. The state that a live call leaves behind, as one chain: a refinement of the
   talking part of `VoiceCalls` by `LiveCall`, and of its closing part by `PostCall`,
   which section 2 describes in words.
2. The part of the other liveness properties that is safety, as `EntriesAreHeld` and
   `BatchesShrink` are for `LoadedEntryResolved`: for `SlotEventuallyReleased`, what a
   handler may still do until its cleanup has run; for `BargeInSilences`, what may lie
   between a start of speech and the clearing of the line.
3. A change of the code that removes one of the excuses of section 5 (a lock, a
   unique index, an atomic command) should remove it from the property and from the
   history variable that records it, and the proof should still go through.
