# Verification of the AI call platform

TLA+ models, TLC runs and TLAPS proofs for the parts of this repository whose
correctness depends on the order in which requests, workers, timers and failures
meet. Everything is translated from the source; every definition that models code
is listed in `PROJECT.json` under `map` with the lines it stands for.

## 1. Inventory

The platform is a set of Python services (FastAPI under uvicorn) around Redis and
PostgreSQL, a few Node services for telephony, a Next.js dashboard, and shell and
Python tooling that deploys and repairs the whole. Line counts are those of the
Python sources.

| Part | State it keeps | Operations | How it interacts |
|---|---|---|---|
| **WBOM payroll** (`wbom/services/payroll_engine.py`, `wbom/routes/payroll.py`, migration 019) | `wbom_payroll_runs`, items, approval log | create, submit, approve, lock, pay, cancel, correct | requests on a thread pool, one database transaction per helper call |
| **WBOM payments** (`wbom/routes/payment.py`, `routes/transactions.py`, `services/payment_processor.py`) | staging payments, cash transactions, running programs | initiate, approve, execute, reject, create, change status, record from message | same pool and database; the WhatsApp pipeline calls it |
| **WBOM attendance, salary, escort, self-service** (`wbom/services`, `wbom/routes`) | attendance, salary records, escort programs, conversations | check-in/out, monthly generation, message commands | reads the cash transactions |
| **LLM queue** (`queue/main.py`) and **LLM workers** (`workers/main.py`) | task hashes with a TTL, the stream `llm_requests`, its consumer group | enqueue, poll, read, claim, process, report, retry | Redis streams, HTTP to the gateway and back to the queue |
| **LLM gateway** (`llm-gateway/main.py`) | response cache, rate-limit counters, batches | generate with fallback, batch, embed, log usage | OpenAI and Ollama |
| **Workflow engine** (`workflow-engine/main.py`) | workflows and logs in PostgreSQL, running flags in memory | create, start, run steps, stop, delete | a thread per start; calls brain, tools, memory |
| **Autonomous runner** (`autonomous-runner/main.py`) | tasks, run history and asyncio handles in memory | create, pause, resume, cancel, execute, loop | calls the autonomy engine |
| **Autonomy engine** (`autonomy-engine/main.py`) | plans, goals, proposals | plan, execute, follow up | brain, tools |
| **Task engine** (`tasks/main.py`) | APScheduler jobs, task rows, triggers | create, run, update, delete, fire event | API, learning engine |
| **Guardrail engine** (`guardrail-engine/main.py`) | policies, action log, reviews | check, review | called before actions |
| **Tool engine** (`tool-engine/main.py`), web tools (`tools/main.py`) | tool table and log in memory | execute, toggle, install | HTTP |
| **Social engine** (`social-engine/*.py`) | Redis dedup keys, sender locks, retry queue and dead letters; scheduled items in PostgreSQL | webhook receive, reply, retry sweep, scheduled sweep, broadcast | Meta APIs, brain, WBOM |
| **Brain** (`brain/*.py`) | conversation context, owner policies, pending approvals, playbooks | chat, control layer, safety, actions, learning | gateway, memory, social engine |
| **API gateway** (`api/*.py`) | users, tokens, audit, GDPR requests, governance facts | auth, proxy routes, admin access | every service |
| **Memory, knowledge graph, learning, self-learning, trainer** | vectors, graph and insights | store, search, learn | brain |
| **Voice** (`voice/*.py`, `ai-agent-service/`, `telephony-webhook/`, `dograh/`) | call sessions | answer, transcribe, speak, hang up | LiveKit, Twilio |
| **Watchdog, control plane** (`ai-watchdog/`, `ai-control-plane/`) | restart counters, repair history | observe, restart, scale workers | Docker |
| **Deployment** (`scripts/deploy-rolling.sh`, `scripts/rollback-rolling.sh`, nginx) | blue and green API, upstream file | deploy, health-check, switch, roll back | Docker, nginx |
| **Dashboards, data, configuration, one-off scripts** | - | - | - |

What is hard here, and for which part:

* **Stale reads.** WBOM and the workflow engine read a row, decide, and update by
  primary key in another transaction. No statement repeats the condition it decided
  on, so two requests can both be right and the outcome wrong.
* **At-least-once delivery.** The LLM queue delivers a message again when nobody has
  acknowledged it for a minute, while a single gateway call may take three. The social
  engine's retry queue pops an item before it is sent again.
* **Partial failure.** An operation is several commits (row, approval log, audit log;
  hash, TTL, stream). Each may be the last.
* **Expiry.** Redis task hashes, dedup keys and sender locks expire under their users.
* **Cancellation.** Pausing, stopping and deleting race with the work they address in
  the workflow engine and the autonomous runner, whose flags live in process memory.

What makes each part correct:

* payroll: a period has one live run, a payout key pays one run, no stage is skipped,
  the log tells the truth, a paid run never changes, a period is paid once;
* LLM queue: no task is stranded, every accepted task comes to a result, retries are
  bounded unless a message is delivered twice, results expire, a visible result stays;
* payments: one transaction per idempotency key, a rejected payment is not executed,
  the program completes with its payment or not at all;
* workflow engine and runner: a stopped or cancelled item does no further work, one
  run per item at a time, no item is left "running" for good;
* social engine: a message is answered at most once while Redis is up, none is forgotten,
  what WBOM did not take is tried again or given up after five failures;
* gateway: everybody who waits for a batch is answered, the cache holds real answers;
* autonomy engine and runner: no risky action without the owner, a task has one loop, a
  plan says that it is executed only while it is;
* deployment: a healthy container is reachable throughout, a rollback brings the image
  before.

## 2. Plan

In order of importance; a module is written so that it can be proved about as well as
checked (parameters as CONSTANTS, one action per operation, no RECURSIVE operator).

| Step | Modules | Abstract specification | Theorems |
|---|---|---|---|
| 1 (done) | `PayrollRuns`, `PayrollSerial` | `PayrollLifecycle` | `PayrollProofs` |
| 2 (done) | `LLMQueue`: queue service and workers composed | `TaskContract` | `LLMQueueProofs` |
| 3 (done) | `WorkflowEngine` | - | `WorkflowEngineProofs` |
| 4 (done) | `WhatsAppPipeline`: webhook, dedup, sender lock, drafts, retry queue and dead letters composed | - | `WhatsAppPipelineProofs` |
| 5 (done) | `LLMGateway`: limits, cache, batcher, fallback | - | `LLMGatewayProofs` |
| 6 (done) | `RollingDeploy`: deploy and rollback scripts | - | `RollingDeployProofs` |
| 7 (done) | `AutonomySuggestions`: the decision engine | - | `AutonomySuggestionsProofs` |
| 8 (done) | `AutonomyPlans`, and `AutonomousRunner`, which composes it with the runner | - | `AutonomousRunnerProofs` |
| 9 | the task engine's jobs; the control plane with the watchdog | - | - |

Left out of the plan for good, with the reason in section 7: WBOM payments and the
self-development part of the autonomy engine.

## 3. How the modules correspond to the code

### Payroll: `PayrollRuns`

The routes are plain `def` functions, which FastAPI runs on a thread pool, and every
helper of `wbom/database.py` takes a connection and commits by itself. A *handler* is a
thread serving one request; each of its database transactions is an action.

| State | Code |
|---|---|
| `runs` | rows of `wbom_payroll_runs`: status, the employee and month (`period`), which actor columns are set (`signed`), `payout_idempotency_key` (`key`) |
| `approvalLog` | rows of `wbom_payroll_approval_log`, as run and action |
| `handler` | the request and the statement it has come to |

| Action | Code |
|---|---|
| `CreateGuard`, `InsertRun` | `create_payroll_run`: the check for an active run, then the insert of the run and its log under the unique indexes |
| `BeginTransition`, `PayGuard` | the routes; pay looks the key up first |
| `ReadRun`, `UpdateRun`, `AppendLog` | `transition_run`: `get_row` and the checks, `update_row` by id, the insert of the log |
| `CorrectGuard`, `RecreateGuard` | `correct_payroll_run`: the check, a cancel through `transition_run`, a create |
| `Abort` | the request ends between two transactions (exhausted pool, lost connection, dead process) |

Left out: amounts, line items, deductions, remarks and listing routes, which no action
reads when it decides. `PayrollLifecycle` is what a caller expects of a run: it opens,
advances stage by stage, is paid once or cancelled, one open or paid run per period.
`PayrollSerial` is `PayrollRuns` with one request at a time, mapped on
`PayrollLifecycle` by reading `status`, `period` and `key` off the rows.

### LLM queue: `LLMQueue`

`queue/main.py` and `workers/main.py` share a Redis. Messages are named by their place
in the stream. `task` is the hash of a task (status, retries, whether it has a TTL),
`delivered` and `pel` are the consumer group's last delivered message and its pending
list, `evicted` what `MAXLEN` dropped. The enqueue route is three Redis commands
(`StoreTask`, `SetExpiry`, `AddMessage`). A worker's coroutine handles one message at a
time: `ReadBatch` or `ListPending`, `TakeNew`, `Claim` or `SkipPending`, then
`_process_task` in `FetchTask`, `MarkProcessing`, `CallGateway`, `ReportComplete` or
`ReportFailure`, `Retry`, `Requeue`, `GiveUp`, `RecordFailure`, and `Ack`. A report is
an HTTP call to the queue service, whose handler is three Redis commands as well: EXISTS
(`Post`), HSET (`WriteResult`) and EXPIRE (`RenewExpiry`), with workers and expiring keys
in between. The field `report` of `worker` says which comes next. The handlers never
await and the service is one process, so it has one request in hand at a time (`Free`).
The report may be applied, applied with its answer lost, lost, or refused
(`ReportOutcomes`); `BreakOff` is the service dying, or losing Redis, between HSET and
EXPIRE, and `aborts` counts that. Idle time is not counted: `Claim` takes any
message, and taking one a live worker holds uses up `MaxClaims`. The Redis operations
(`HSET` on a missing key, approximate `MAXLEN`, key expiry, the consumer group) are
modelled from how the two services use them and marked external.
Left out: prompts, results, the health and statistics routes, priorities (stored, never read).

`TaskContract` is what a client may expect of a task whose message is delivered once.
While the task is open, the gateway is called at most `1 + MaxRetries` times, and a
result may be shown and taken back, by a worker that never heard that its report had
arrived. Once it is over, nothing happens to it but the expiry of its key. `LLMQueue`
is mapped on it by asking whether an unread message, or one a worker holds and is not
about to acknowledge, still names the task (`Phase`). `KeepsContract` holds until a
message is claimed from a live worker or somebody dies: after that a task may be called
for more often, and one that is over may be opened again.

### Workflow engine: `WorkflowEngine`

`workflow-engine/main.py`. The handlers are coroutines that never await, so `handler` is
the one request the event loop serves; it has two steps where the code looks first and
writes later. `thread` is the place of each `_run_workflow` thread, one action per
statement: `RaiseFlag`, `Load`, `AddLog` (all seven log entries), `Check`, `MarkStep`,
`Execute`, `Advance`, `Stop`, `Fail`, `Complete`, `RecordCrash`, `DropFlag`. `flag` is
the dictionary `_running_workflows`, `status` the column of the row. `ThreadFault` and
`HandlerFault` let a statement raise, `Restart` kills the process. `late` counts the steps
a thread executed after its row was deleted (history). Left out: contexts,
results, step types, current_step, and the trigger route, which only reads.

### WhatsApp messages: `WhatsAppPipeline`

The webhook (`social-engine/webhooks.py`) answers Meta at once and handles the payload
in a task of the event loop, so an action is what runs from one `await` to the next.
`task[d]` is the place of the handling of webhook call `d` and the message of its batch
it is at.

| State | Code |
|---|---|
| `seen`, `locked` | the keys of `redis_dedup.py`: messages processed, senders in cooldown |
| `drafts` | the outgoing rows that are or were drafts, in the order of their ids |
| `retry`, `sweep` | `wbom_retry_queue` and the item the sweep has popped |
| `dead` | the dead letter queue, which no code reads |
| `stored`, `dropped`, `replies`, `unanswered` | history: what WBOM has, what the program gave up, what was answered or passed over |

| Action | Code |
|---|---|
| `Receive`, `SkipDuplicate`, `StoreIncoming`, `StoreFails`, `Finish` | `handle_whatsapp_webhook`, its loop over the messages, the duplicate check and the insert |
| `Forward` | the POST to WBOM, `enqueue_failed`, the reply cache and the sender's lock (`Prepare`), or, without Redis, no lock and perhaps no retry item (`PrepareUnlocked`) |
| `AskBrain`, `RouteReply`, `Send`, `Record`, `Notify` | the answer, unlocking (`Unlock`, which a failing Redis leaves undone), the safe-reply decision, the draft, the row of the reply |
| `Fallback` | the "always reply" branch: a fixed text, unless reading the credentials fails as well, and a dead letter, unless Redis fails |
| `Download`, `AskAgain`, `AskAboutMedia` | pictures, voice and documents |
| `AskOwnerChat`, `Release`, `Mark` | the owner's chat, and his "send": the latest draft goes out and is marked by its id |
| `StartSweep`, `RetryItem` | `wbom_retry.py`; `BreakOff` is Redis failing at the LPUSH of an item or the RPOP after it, each of which may have been applied |
| `LockExpires`, `Crash` | the lock's TTL; the process dies |

An HTTP call may be applied, applied with its answer lost, lost, or refused. Redis
outages and expired duplicate keys count as `forgets`: one per step in which Redis fails,
be it at the duplicate key, the lock, a push, a pop or the dead letter. Credentials are
taken to be configured; reading them is a statement that may fail. Left out: the owner's
commands (their rows are written by one statement each), the Facebook webhook (the same flow without WBOM),
contacts, campaigns, scheduled posts and every text.

### LLM gateway: `LLMGateway`

`POST /generate` of `llm-gateway/main.py`. `window` is the size of each rate limit's
sorted set (`Forget` lets an entry leave the window), `cache` maps a key to the replies
stored under it, `pc` and `reply` belong to the handler of each request. The batcher is
`pending`, `timer` (its `_timer` handle), `armed` (timers the event loop still holds) and
`flushing` (timers that fired and whose task has not run): `Submit` adds an entry and may
take a full batch, `Fire` and `Flush` are the two halves of a timer. A call returns, falls
back or fails (`Returned`, `FallBack`, `NoFallback`, `FallbackReturns`, `FallbackFails`);
`Stream` bypasses cache and batcher. A reply is its status, the model that gave it and the
request it was given to. `Succeed` is what follows a model's reply without an await: the
cache first, then the usage counters and `len` of the content, then the answer. A reply
whose content is null ("empty") is cached before `len` raises (751), so its request gets a
500 and the cache keeps it; `Hit` cannot build an answer of it, which counts as a miss
(648). `Restart` empties the memory and may strike between the cache and the answer, so
what it leaves in the cache may have been given to nobody. Left out: prompts, the values
of the usage counters, and `POST /embeddings`, a cache in front of one call.

### Deployment: `RollingDeploy`

`scripts/deploy-rolling.sh` and `scripts/rollback-rolling.sh` run line by line: `job.pc`
is the command that comes next, and each command may fail (`set -e`, or the script's own
handling of it) or the script may be killed (`Abort`). `state` and `image` are Docker's
containers, `loaded` the upstream nginx has loaded, `slot`, `latest`, `previous` and
`saved` the files and tags that survive a script. `method` is fixed per service: the API
has blue and green slots behind nginx, the others a container of their own and Docker's
DNS. `Warm` is a container becoming healthy. `Served` asks whether a healthy container is
where callers look. `current`, `former` and `straight` are history. Left out: the dry run,
waiting times and output.

### Decision engine: `AutonomySuggestions`

The monitoring part of `autonomy-engine/main.py`: coroutines over synchronous Redis
calls. A cycle (`Scan`, then for each suggestion `Skip`, `AutoExecute` or `Offer`,
`Notified`, `DriftBlocks` or `DriftPasses`, `Executed` or `ExecutionFails`) runs beside
other cycles and beside the owner's endpoints (`Approve`, `Approved`, `ApprovalFails`,
`Reject`, `ApplySandbox`, `SandboxApplied`, `RejectSandbox`, `UpdateRule`). What is in
Redis survives `Restart`, what is in memory does not. A call to the memory or the brain
is answered or raises, and nobody looks at the status of an answer: in either case the
service may have taken it or not (`taken`). `Callable` are the suggestions for whose type
`_auto_execute_action` has a call at all. `auto`, `owned`, `everLow` and `misheard` are
history: `auto` and `owned` count what services took, `misheard` has the suggestions of
which the process believes the wrong thing, since its last start.

### Plans and tasks: `AutonomyPlans`, `AutonomousRunner`

`AutonomyPlans` is the planning part of the autonomy engine: `CreatePlan`, `Generated`,
`NotGenerated`, `TriggerExecution`, `PausePlan`, `DeletePlan`, and an execution's
`BeginExecution`, `StepCompletes`, `StepFails`, `Reflect`. A plan keeps its place in the
model after it was removed from `_plans` (`listed`), because an execution that holds the
object goes on with it. `AutonomousRunner` EXTENDS it with `autonomous-runner/main.py`:
the tasks, `handle` (the asyncio handle of each task), and `work`, what each loop and
each request is at: `CreateTask`, `RunTask`, `Pause`, `Resume`, `CancelTask`, `Turn`,
`CancelledError`, `AskForPlan`, `Executed`. The two services meet where a custom
task asks for a plan (`AskForPlan` joins `CreatePlan`) and either may restart without
the other. Left out: what steps and tasks find, the recorded history, statistics.

## 4. Runs

Symmetry is used only where invariants and action properties are checked and the
constants are interchangeable model values.

| Run | Bounds | Shows |
|---|---|---|
| `payroll_concurrent` | 2 requests, 2 runs, 2 periods, 1 key, 1 abort | the two unique indexes, the signatures and the log hold however requests interleave |
| `payroll_serial` | 1 request, 3 runs, 1 period, 2 keys, 2 aborts | the engine implements `PayrollLifecycle`; a paid run is final; a period is paid once |
| `payroll_paid_run` | 2 requests, 2 runs | violated: an update by id overwrites a paid run |
| `queue_concurrent` | 2 workers, 2 tasks, 1 retry, 1 expiry, 1 report broken off, stream of 2, lost calls and replies | a waiting task is always carried by somebody; a completed result expires, unless a report of it was broken off; a task whose message is delivered once is treated as `TaskContract` says |
| `queue_live` | 2 workers, 1 task, 2 retries, 1 crash, 1 claim from a live worker | neither a crash nor a claim alone strands a task; the task comes to a result, whatever is lost, claimed or left behind |
| `workflow_engine` | 2 threads, 2 steps, 1 fault, 1 restart | a running workflow has a thread that will end it, and ends; a delete leaves a thread at most the one step it had logged |
| `workflow_twice` | 2 threads, 1 step | violated: two threads of one workflow |
| `whatsapp_pipeline` | 2 webhook calls: picture, text, approval and a question of the owner, the same text, another approval; sweeps of 1 item, 2 tries, 2 faults | what each failure may cost: a second answer, a message forgotten, a text lost on its way to WBOM, a sender locked out; nothing else costs any of these, and a row that says sent was received |
| `llm_gateway` | 3 calls sharing a prompt and 1 stream, batches of 2, 2 calls per user | nobody waits for a flush that does not come, everybody is answered, an answer out of the cache is what a model said to the same prompt, whatever was left there |
| `rolling_deploy` | 3 builds, 2 faults, both methods | when a service can go down, and what a rollback restores |
| `autonomy_suggestions` | 3 follow-ups of one contact, 2 cycles, 1 clerk, limit 1, 1 moved level, 1 suggestion that the owner has carried out, 1 misheard of at a time, restarts | no risky action without the owner's word, how far the limit is overshot, what an applied sandbox means |
| `autonomous_tasks` | an interval and a one-time task, 2 loops, 1 request, 1 plan of 2 steps, 1 retry, 2 executions, restarts | loops are neither doubled nor lost; a plan says executing only while it is |

Why the bounds are enough. Payroll: every conflict in the code is between two rows or
two requests; a second period shows that the index does not block others, a third run
lets a correction be corrected. Queue: the races need two workers; two
messages make a batch, a stream of two lets eviction happen, one expiry and one report
broken off are what a result without TTL takes, and two retries
separate a first, a middle and a last attempt. Crashes and claims are with the run of one
task, whose message is what they race for. Workflows do not share rows or flags, so one is enough,
and two threads let a start meet what the one before it left. WhatsApp: two deliveries
of one text race for its key and its lock, a picture before one of them leaves a draft
that the two approvals may meet before, with or after the text's, and with sweeps of one
item a requeued one waits for another sweep. One failure cannot tell what the second
costs, two can, wherever they fall. That the third, of which `ForgettingTakesThree` speaks,
is needed is what the run shows; that it is enough, TLC finds in five steps with the
text's two deliveries alone and `MaxFaults = 3`, where all the invariants hold too
(164,534 states).
Gateway: batches of two are the smallest that fill, the third call arrives between a
timer and its flush, and two models share a prompt. Deployment: three builds tell the
image before from the one before that. Suggestions: with a limit of one, two cycles that
overlap overshoot it, and the third follow-up shows that they do so once; what the
owner has carried out of one suggestion, or what is misheard of it, touches no other, except
through the type that it frees. Runner: two
loops are an old one told to end and its successor; two executions meet on one plan; two
steps tell the first from the last. The theorems of section 6 hold without bounds.

Counters named `Max...` bound failures and repetitions, and every property holds or
fails with the first one or two of them.

Deadlock is checked for payroll and the workflow engine. The others come to rest when
all tasks, messages or calls are answered, or when the builds and the failures they may
have are used up, or, in the runner, when every task and plan has been removed: the
bounds make them stop, not a wait of one for another.

### Fairness

`LLMQueue!FairSpec`: an enqueue request goes on once it began (weak), a worker's loop
never ends (weak; it catches everything and sleeps), and a message nobody acknowledges
is eventually idle for a minute when a scan reaches it (strong fairness of `Claim`: the
scan comes back every round, and the guard may be false in between). Crashes, expiry and
lost calls have no fairness. `WorkflowEngine!FairSpec`: a request the event loop began
and a thread that runs go on; each call of a step has a timeout, a delay is at most five
minutes, and the pool raises instead of waiting. Nothing makes users start or stop.
`LLMGateway!FairSpec`: an armed timer fires and a scheduled flush runs, because the event
loop goes on, and a model's call ends, because httpx has a timeout. Requests, expiry and
restarts have no fairness; a restart ends the requests in flight, whose callers see the
connection close.

## 5. What the violations say, and what else the models show

Each violating run quotes, in `PROJECT.json`, the sentence of the repository it refutes.

* **A paid run can change** (payroll). `transition_run` checks a status it read in an
  earlier transaction. The update would have to repeat it
  (`WHERE run_id = ... AND status = ...`). The signatures survive all the same, which
  is what `EveryStageSigned` proves.
* **Two threads run one workflow.** The thread raises its flag after the start was
  answered. A stop in that gap changes the row only, and the next start is accepted.

Behaviour that the models contain, and that no run or finding is kept for:

* Payroll: a correction checks that the run is neither locked nor paid
  (`payroll_engine.py:459`) and cancels it through `transition_run` (466), which permits
  cancelling a locked run: one that is locked in between is corrected, where the docstring
  (452) says that locked runs cannot be. Two requests that both looked a payout key up
  before either wrote it pay
  twice if it is the same run, since the index only tells runs apart; an approved run can
  be corrected, where the docstring says draft or reviewed (`payroll_engine.py:450`).
* Queue: claiming by idle time cannot tell a slow worker from a dead one. If the second
  worker marks a task as processing after the first completed it, the first acknowledges
  the message and the second dies, nothing brings the task to an end. So
  `NothingStranded` allows claims from live workers, or crashes, and not both in one
  run; either alone loses nothing, which is proved; "Retries failed tasks up to 3 times"
  (`docs/phase5-scalability.md:43`) is true of a task whose message is delivered once. A
  claim from a live worker, or a crash between the new message and the acknowledgement
  of the old one, makes two chains of retries that set each other's counter back
  (`workers/main.py:145`): with 2 retries TLC finds 7 calls after one claim and 5 after
  one crash; a lost reply sends a completed task back to pending; a failure the worker records
  by itself gets no TTL when the key was gone (`workers/main.py:163`), which is why
  `CompletedResultsExpire` speaks of completed results only, and a report broken off between
  HSET and EXPIRE (`queue/main.py:265-270`) on a key that expired and came back leaves a
  completed result for ever, against "600  # seconds to keep completed results"
  (`queue/main.py:28`), which is why it counts these; a report the queue service
  refuses is taken for done (`workers/main.py:123`), so `NothingStranded` and
  `TasksFinish` are checked without refused reports.
* Workflow engine: a delete in the gap above is accepted, and a thread's last act removes
  the flag of its successor, which then stops as if a user had asked
  (`workflow-engine/main.py:273`). A delete that commits behind a step's log entry (233) does
  not keep the step from being executed (235); the next log entry fails and ends the thread,
  which is what `DeletedEndsWithStep` says. A restart leaves a running row for which every start
  is refused until somebody stops it; `RunningHasThread` and `RunsEnd` exclude restarts
  because of it.
* WhatsApp: a message is marked as seen before it is stored (`webhooks.py:671`), so one
  whose insert fails is a duplicate when Meta repeats it; a reply whose row cannot be
  written is sent a second time (`webhooks.py:1166`), which is the `dbFailures` in
  `AnsweredOnce`. "ALWAYS-REPLY GUARANTEE" (`webhooks.py:1072`, `1230`) fails with the third
  failure: a statement, the credentials in the fallback (1238, 1249), and Redis at the dead
  letter (`redis_dedup.py:118`). An unlock that does not reach Redis is only logged
  (`redis_dedup.py:94`) and leaves the sender locked for the rest of two seconds, and an
  item whose requeue fails (`wbom_retry.py:99`, caught at 102) was popped and is gone. A
  text of a sender in cooldown is passed over without a word
  (`webhooks.py:1107`); the dead letters are written and never read.
* Gateway: a reply without content is cached (`llm-gateway/main.py:731`) although its request
  gets a 500 (751), and a restart behind the cache leaves one nobody got. A fallback's reply
  is stored under the model that was asked for, so a call
  that may not fall back can be served it.
* Deployment: a very first deploy that is cut off after nginx was switched leaves the
  slot at none, and its repetition removes the container that serves. `rollback_nginx`
  takes the current container for running when it merely exists
  (`rollback-rolling.sh:205`). `rolling-previous` moves before the build, so after a
  failed deploy a rollback does not restore "the previously deployed image"
  (`rollback-rolling.sh:8`); `RestoresAfterDeploys` says when it does.
* Decision engine: an offer is deleted when its work is done, so two approvals may both
  carry it out; a rejection through the sandbox route overwrites the answer. Nobody looks at
  the status of the memory's and the brain's answers (`autonomy-engine/main.py:917-960`,
  `1068-1090`, `1863-1876`), so a call refused with a 4xx or 5xx is recorded as
  auto_executed, approved or applied: `AppliedMeansDone` names the suggestions `misheard` of
  for that reason.
* Plans and tasks: a `continue` in the check of a step's dependencies goes on with the
  inner loop and skips nothing (`autonomy-engine/main.py:1579`); a step that failed with
  retries left goes back to pending and is not taken up again in that execution, whose
  plan then says completed; a pause is overwritten when the execution ends; a one-time
  task that completes overrides a pause; `max_concurrent_tasks` is never consulted; a
  cancelled task's plan goes on.

## 6. Proofs

Every theorem is proved for any values of the constants that satisfy the named ASSUMEs
of its module, which TLC evaluates in the runs: finite sets of cycles and of webhook calls,
distinct names, bounds that are natural numbers, and no more. Two assumptions are made by
theorems instead, because only some of them need these: `OneHandler`, that requests do
not overlap, by those about `PayrollSerial` (one of them is refuted without it, by
`payroll_paid_run`), and no "refused" in `ReportOutcomes` by `QueueNothingStranded`. Each proof module
states one inductive invariant, shows that it holds at first and that each action keeps
it, and derives the properties from it. Few of them are inductive as they stand; what had to be added is
the argument.

| Module | Proved | What the invariant adds |
|---|---|---|
| `PayrollProofs` | `TypeOK`, `OneActiveRunPerPeriod`, `OneRunPerPayoutKey`, `EveryStageSigned`, `LogTellsTruth` for any number of requests | an update whose read is stale is harmless to signatures because they never go away: each request about to update carries an action all of whose earlier stages the run has signed already (`HandlersServeSignedRuns`), and a request about to log has signed what it logs |
| `PayrollProofs` | `PaidRunIsFinal`, `PeriodPaidOnce`, and that `PayrollSerial` implements `PayrollLifecycle`, for requests one at a time | what the one request read and checked still holds when it writes, through every transaction and abort in between (`IsCurrent`); a payout key is only of a paid run (`OnlyPaidRunsHaveKeys`), and paid comes after signed (`PaidIsSigned`); each update, insert or key then is a step of the lifecycle, everything else a stutter |
| `LLMGatewayProofs` | `TypeOK`, `NoneStranded`, `AnsweredInKind` | the batcher has a timer exactly when somebody waits (`TimerMeansPending`), what is cached came from its key's model or, for a chat, from the fallback (`CachedInKind`), and only chats wait for the fallback (`OnlyChatsFallBack`) |
| `RollingDeployProofs` | `TypeOK`, `ZeroDowntime`, `RestoresAfterDeploys`, `DowntimeCauses` | who serves at every line of the scripts: the old container until the new one has passed its check, the new one from then on (`NginxServes`, without failures; `DnsServes`, with any); what the two tags and the file name at every line of a deploy that completes (`Straight`); for the causes of a downtime after one failure, that the container of the recorded slot, if it runs, is healthy and nginx has it loaded (`LeftRunning`) |
| `AutonomySuggestionsProofs` | `TypeOK`, `AutoNeedsConsent`, `FollowupBound`, `AppliedMeansDone` | a cycle acts on what it read two awaits ago, so the invariant says of a waiting cycle what was true when it asked, in terms of what only grows (`ConsentOK`), and adds the cycles that were admitted and have not counted yet to the count (`LimitOK`); `AppliedMeansDone` is inductive beside the types |
| `AutonomousRunnerProofs` | `TypeOK`, `OneLoopPerTask`, `ActiveKeepsLoop`, `ExecutingIsExecuted` | a handle is of a loop that was not told to end, and only tasks of their trigger have loops (`LoopsOK`); an execution at a step has only steps of its plan to go, so that no two plans share one (`LinksOK`); that the next step is the least one left needs induction on numbers (`LeastStep`) |
| `WhatsAppPipelineProofs` | `TypeOK`, `AnsweredOnce`, `ForgettingTakesThree`, `LockedMeansAnswering`, `SentWasReceived`, `IntakeAccounted` | the answers of a message that calls have yet to give are counted with those given, and each is paid for when it becomes due, by the message being new or by a fault (`Paid`); a message is in hand until it is settled, and settled before its reply's row is written (`Remembered`); a call in the fallback has paid for one failed statement, and a message forgotten there for the second (`Charged`); senders locked out and texts that strayed are charged one by one to the steps in which Redis failed (`OnePerFault`, `LockedFew`, `StrayedFew`); an approval under way holds a draft that Meta took, if Meta said so (`Picked`) |
| `LLMQueueProofs` | `TypeOK`, `NothingStranded` (no refused reports), `CompletedResultsExpire`, `CallsWithinRetries`, `KeepsContract` | having a message is not yet settling its task: a worker counts until it is about to acknowledge, or between HSET and EXPIRE of its report (`Settled`), and comes there only with the task at rest or queued again (`AllCovered`); while nobody claims from the living, the message of a worker that dies is still pending and nobody else is about to acknowledge it (`SoleHolder`); the calls made so far are in the key while the message waits and in the worker's copy while it is served (`Counted`), and nobody else touches them since a message has one holder and a task one message (`OneHolder`, `OneMessage`); so a worker's step changes only the open task it serves and may close tasks, and never opens one (`PhaseNext`, `PhaseOthers`), which maps it to a step of the contract; results left without a TTL are counted one by one against reports broken off (`FewLeft`) |
| `WorkflowEngineProofs` | `TypeOK`, `RunningHasThread`, `DeletedEndsWithStep` | a thread is in the except branch because a fault was spent on it or its row is gone (`CrashCause`); threads and starts are of workflows that were created (`OfRows`); a thread that executed a step of a deleted workflow is at a log entry, which fails, or on its way out (`LateIsLeaving`) |

Every invariant and action property that a passing run checks is proved, and the
refinements; `CallsWithinRetries`, which no run checks by itself, is the bound in the
contract. Only model-checked: liveness (`TasksFinish`, `RunsEnd`,
`EveryoneAnswered`), since fairness and ENABLED are out of the prover's reach, and what
the violating runs refute. TLC checks `NothingStranded` with neither claims nor crashes for two tasks
(`queue_concurrent`) and with both for one (`queue_live`); the theorem covers any number.
No definition is recursive.

## 7. What is not modelled

The components with status `not_modelled` in `PROJECT.json`, each with its reason: text,
prompts and intents (brain, learning); pure storage and proxies (memory, API gateway,
guardrails, tools); media streams (voice); user interfaces, configuration and one-off
scripts; sequential loops over Docker's containers (watchdog, control plane). These are
most of the repository's lines, and what they decide is in the words they handle: a model
would say that an answer comes, or does not, which is how the modules above see them.
Within the modelled components, authentication, logging, metrics and the shape of answers
are left out. Two things are assumed of time: a worker does not give its report up (10 s)
while the handler is at it, and a worker that died is not back before it is done. Redis
outages are modelled where a module's properties depend on them, in `WhatsAppPipeline` and
in the queue service's reports; in the autonomy engine and the gateway its commands succeed.

* WBOM payments. Staging payments (`routes/payment.py`) read columns (`id`,
  `employee_id`, `reviewed_by`) that the only definition of `wbom_staging_payments`
  (`tasks/migrations/011_audit_tables.sql:31`) does not have. Completing a program sets
  `updated_at` of `wbom_escort_programs` (`wbom/database.py:307`,
  `payment_processor.py:279`), a column none of its definitions has
  (`wbom/database.py:476`, `tasks/migrations/009_wbom_tables.sql:119`, `wbom/migrations/014_payroll_automation.sql:14`).
  `insert_row_dedup` (`wbom/database.py:255`) names a conflict target without the
  predicate of the only, partial, index. What these statements do depends on a schema
  that is not in the repository.
* The self-development governor of the autonomy engine (`main.py:3262`) rolls back to
  baselines that nothing writes.
* `api/watchdog_routes.py` calls `/workflows/pause-all` and `/workflows/resume-all`, which
  the workflow engine does not have; there is no behaviour to model.

## 8. Running

    tlc -workers 2 -config MCPayrollRuns.cfg MCPayrollRuns.tla
    tlapm PayrollProofs.tla

`PROJECT.json` names the module and configuration of every run. Definitions whose
comment begins with "Mistake" are never used by a specification: each is a plausible
bug of the definition below it, and replacing that by it must break the property
`PROJECT.json` names under `mutants`.
