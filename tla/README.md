# A verification development for code_explorer

code_explorer imports a source project, analyses it statically, lets a
language model investigate it, and runs commands on it in isolated containers.
These modules model the parts of the backend where several processes, threads
or restarts meet (two persistent queues, import and deletion of a project, event
streams, the requests of an agent run, the audit of experiments) and the
analyses whose results everything else rests on. TLC checks them on small
instances; TLAPS proves the central results for every value of the constants.

Paths without a prefix are below `src/backend/app/`.

To repeat the checks, in this directory: `tlc -config ExecutionClaim.cfg
MCExecutionQueue` and likewise for every run of PROJECT.json, and `tlapm M.tla`
for the eight modules `*Proofs`.

## 1. Inventory

| component | state it keeps | operations | hard behaviour | what makes it correct |
|---|---|---|---|---|
| Execution queue: `execution/` , `api/execution.py` | rows `execution_tasks`, `execution_events`; a worker process with its task; a Docker container per task | submit, cancel, claim, heartbeat, recover, launch, time limit, remove, finish | several worker processes and the API share SQLite and read before they write; crashes; a docker client that hangs | a command runs once; the final status tells the truth; queued tasks are served; quotas hold |
| Agent run queue: `agents/run_store.py`, `agents/worker.py`, `agents/orchestrator.py`, `api/agent.py` | rows `agent_runs`, `agent_jobs`, `agent_events`; a worker loop and a coroutine per run | create, cancel, ensure_jobs, claim, heartbeat, recover, run, complete, fail | the watch loop and the coroutine interleave at every await; leases; repeated cancellation; rows of an older version | a run is begun once; a cancellation stops it; orphans are failed |
| Project deletion: `services/projects/deletion_*.py`, `artifacts.py`, `project_workspace/filesystem.py` | the project's rows, two resources on disk, a journal file per request | check, quarantine, delete, restore, purge, recover at start | two media without a common transaction; each of nine calls may fail; a crash between any two; simultaneous requests | nothing is lost, the project is whole or gone |
| Event streams: `api/sse.py` | the sequence of each open stream | open at a sequence, poll, end | the final event is written after the final status, whatever became of the row; SQLite gives the keys of deleted rows out again; a cancellation writes over a final status | no event is skipped or repeated; a stream ends |
| Project import: `services/projects/import_service.py`, `transaction.py`, `project_workspace/` | a staging directory with its journal, the published workspace, the artifact, the row | begin, prepare, publish, save, create, commit, compensate, collect stale operations | partial failure, failing compensations, a second process that starts during an import | a row exists exactly if its files do |
| Import progress: `services/projects/progress.py` | a table of progress identifiers under a lock | create, claim, update, snapshot, prune | quota, expiry while uploading | one import per identifier, the quota, a true report |
| Agent rounds: `agents/orchestrator.py`, `batching.py`, `conversation_window.py` | the conversation, the selected and reported evidence | select, observe, publish, the rounds | long sequences of legal calls; cancellation at every await | evidence is reported once and only after it was shown |
| Agent tools, API knowledge: `agents/tools/`, `agents/api_knowledge.py` | none between calls | read-only queries | - | - |
| Model access: `llm/` | one request with attempts and deadlines | send, retry, cancel | a cancelled request's thread lives on and races the seal of the audit | bounded attempts, a true audit |
| Experiments: `experiments/` | pairs of runs, reviews, explanations | create a pair, review, unseal, explain | two rows in one transaction; a restart of an explanation | both arms or none; reviews last; explained once |
| Experiment audit: `experiments/audit/` | sessions with reserved and used bytes | reserve, append, finish, expire | concurrent reservations, retention against reading | the total is never exceeded, a seal is final |
| Static analysis: `services/dependency_analyzer`, `program_graph`, `security_analysis`, `semantic_index`, ... | none between runs | source text to graphs, graphs to flows, candidates and verdicts | fixpoints in any order, limits on every search, several languages, threads that read files | what is reported is there; what was cut is announced |
| Project queries: `services/projects/query_service.py` | one cached projection | list, snapshot, security paths | a cache against a replaced artifact | never a stale projection |
| HTTP surface: `api/`, `core/`, `middleware/`, `schemas/`, `main.py` | none | parsing, authentication, headers | - | - |
| Language helpers, frontend, tests, documents | none, or views | - | - | - |

How they meet. The API inserts rows; worker processes (or, for agent runs, a
loop embedded in the API process, `main.py`) claim them by a conditional
update. The queues and the deletion touch the same rows: a deletion refuses a
project with active tasks, and removes the rows of the others. A client learns
of everything from the event tables. An import publishes files and then a row
that the analyses and the agent read. A run of the agent sends requests to a
model and, when it belongs to an experiment, records each attempt in an audit
session whose bytes were reserved when the pair was created. Every repository
method opens a session of its own, and no foreign key is enforced: between two
methods anything may happen.

The components that are not modelled: project queries, HTTP surface, language
helpers, frontend, tests and documents. "Partly" in PROJECT.json: the two
queues (the order of the events of a row is the matter of `EventStream`), the
agent's rounds and tools (texts and results are abstracted), model access (token
budget and payloads), experiments (metrics), static analysis (section 5).

## 2. Modules

| module | what it is |
|---|---|
| `ClaimQueue` | abstract: a job is waiting, withdrawn, or given to one worker for ever, who runs it at most once |
| `ExecutionQueue` | the execution queue with workers, API and Docker; implements `ClaimQueue` |
| `AgentQueue` | the agent queue with workers, API and coroutines; implements `ClaimQueue` |
| `ProjectDeletion` | a deletion with its journal and its janitor |
| `ImportProgress`, `ProjectImport` | the table of progress identifiers; the imports over it, with files, journal, row and janitor |
| `OrderedLog` | abstract: logs that grow until they are withdrawn, and followers that are sent the entries in order |
| `EventStream` | event table, generators and the ends of tasks; implements `OrderedLog` |
| `ModelRequest` | one call of the model: retry loop, thread of an attempt, audit recorder |
| `AgentRounds` | the rounds of an audited run over `ModelRequest` |
| `ExperimentAudit` | comparisons, their runs and sessions, review and explanation |
| `FlowAnalysis`, `ControlDependence`, `SelectorValues` | over a finished control-flow graph: reaching definitions, control dependence, the values of indexes |
| `ControlFlow`, `PathConditions` | the graph of a function's statements; the query whether some path visits given statements |
| `StatementLowering`, `OperationLowering`, `ValueBinding` | what the frontends write down of statements, of one operation, of a pattern |
| `SourceCollection` | the walk of a file's syntax with its scopes |
| `TypeHierarchy`, `SymbolIndex`, `ReferenceResolution` | the symbols of a project and what its calls and members mean |
| `CallPaths`, `ValuePaths`, `FlowRoutes` | the bounded searches: for chains of calls, for a value's routes in a function, for flows through functions |
| `CandidateSelection` | the choice of what is reported |
| `GraphAnalyses` | composes the analyses of a finished graph: `FlowAnalysis`, `ControlDependence`, the three searches and `CandidateSelection` |
| `StaticAnalysis` | composes `GraphAnalyses` with the other modules of static analysis: a behaviour is one analysis of one input |
| `MC*` | each of them extended with the instance for TLC |
| `*Proofs` | theorems: `ExecutionQueue`, `AgentQueue`, `ProjectDeletion`, `EventStream`, `ProjectImport` (with `ImportProgress`), `ExperimentAudit`, `AgentRounds` (with `ModelRequest`), `StaticAnalysis` (about `GraphAnalyses` and the modules it composes) |

### How code becomes actions

* A repository method that reads a row and then writes it is **two steps**,
  because SQLite opens no transaction for the read and the ORM writes the
  assigned columns by primary key. `request_cancel`, `recover_stale`,
  `ensure_jobs` and the claim (`ReadCandidate`, then `Claim`) are such methods.
  A query `.update()` with a filter is one step with the filter as its guard.
* `add_event` is a transaction of its own and so an action of its own
  (`AnnounceQueued`, `AuditFinish`, `RecoverAudit`, `EmitResult`, ...). In the
  queues only the kinds of events are kept, as a set; their order is what
  `EventStream` is about.
* A process is a program counter (`wpc`, `apc`, `pc`, `ipc`, `jpc`, `process`,
  ...). The handlers of the execution API never await, so one of them runs at a
  time; an import and a deletion run in a thread (`asyncio.to_thread`), so
  several do. A coroutine's step goes from one await to the next.
* Time is an `age` in ticks, saturating at the bound it is compared with; `Tick`
  ages what is running at once. A lease of one tick is enough: the code only
  compares an age with the lease, and a heartbeat may come before or after.
* A crash is possible in any state of a process. It clears what the process
  held in memory and leaves rows, files, containers. `faults` counts crashes
  and failing calls and is bounded by `MaxFaults`.
* A work list whose order is a hash seed's is a set; a loop over sorted lists
  takes them in order. A limit of a search is a constant of its own.

### ExecutionQueue

`status`, `owner`, `age` are the row; `log` the events; `wpc`, `cur`,
`outcome`, `inHandler`, `stale` the worker (`run_once` with its `except`
clauses, `DockerExecutor.execute`); `apc`, `atask`, `aseen` the API operation;
`container` and `launches` what the Docker daemon knows, `client` the worker's
`docker run` process. The worker's path is `idle` -> `claim` -> `announce` ->
`prepare` (policy, workspace) -> `loop` (poll: heartbeat, cancel, deadline) ->
`remove` (`docker rm -f`) -> `loop` or `kill` -> `finish` -> `emit`. Faults:
`LaunchFails`, `LoopFault`, `FinishFault`, `ApiFault`, `Crash`.

The loop ends when the client has returned (`process.poll()`), not when the
container is down. The client returns after its container (`ClientReturns`) or
loses the daemon and then ends early or hangs (`ClientLost`). `forced_at` is
set anew by every removal, so `process.kill()` (`KillClient`) is reached only
from a removal that itself took five seconds: `RemoveSucceeds` and `RemoveFails`
go back to `loop` or to `kill`. A client that hangs while every removal is
quick is therefore never killed; such a task is `Stuck`.

### AgentQueue

`status` is `agent_runs`; `job`, `owner`, `flag`, `age` are `agent_jobs`;
`coro`, `result`, `sealed` the coroutine (`_run`, `_complete`, the `except`
clauses and the `finally` clause that awaits `audit.finish`); `wpc`, `cur`,
`stale` the worker. `Legacy` are active runs written before `agent_jobs`
existed (`ensure_jobs`), `Audited` the runs of an experiment. The rounds of
the model are one step here, `Conclude`, which nothing obliges to happen (the
model may never answer); they are the subject of `AgentRounds`.
`Interrupt` is what `execution.cancel()` does at the coroutine's current await.
`Spec` is a worker process that a process manager restarts (`StoreFault`,
`Shutdown`, `Exit`, `StartWorker`); `EmbeddedSpec` is the loop that `main.py`
starts once and nobody restarts.

### ProjectDeletion

`place` of each of the two resources is `home`, the quarantine of one request,
or `gone`; `journal` is the state in the file of each request; `pc` and
`dirty` are the thread of `_delete_sync` (`dirty` stands for its `warnings`
and `restoration_failures`); `row` and `task` are the database; `spc` is a
handler that creates a task; `pending` and `jop` are the janitor. The janitor
runs before the application serves (`main.py:29`), so `process` goes from
`down` through `janitor` to `up`. The deletions run in threads without a lock:
any number of requests is under way at once. Two history variables say what
happened: `company` holds the requests that moved resources while another one
did, `by` the request that deleted the row. A deletion is `Crossed` when `by` is
in `company`.

### ImportProgress, ProjectImport

`entries` is the table of the progress store with owners, phases and ages. For
each import, `ipc` is the thread of `_import_sync` (`Work(i)`), `tracked` and
`broken` its registered compensations and whether one failed, `dir` the staging
directory with its journal, `source` and `artifact` the files, `row` the
database, `lost` a refresh that failed after the commit, `age` the time since the
staging directory changed. `jpc`, `jop` are the
`WorkspaceJanitor` of a start (`BeginPass`, `Pass`), `todo` the directories it
has not looked at. Work in progress is
assumed to end within the six hours after which a janitor collects an operation
(`Patient`): a pass is begun, and time goes on during one, only under it.

### EventStream

`log` is the table with its keys; an event's payload is its place among all
events of its task, which `count` counts. `status` is the task's row. `Finish`
writes a final status and owes an event (`due`); `AppendFinal` writes that event
later, whatever the row says by then or if it is gone. `ReadCancel` and
`WriteCancel` are `request_cancel`, which may bring a final row back to
`cancel_requested` (here `active`). `Delete` removes a project with its tasks and
events, after which SQLite gives the largest keys out again. `conn`, `cursor`,
`batch`, `found` are `persisted_events`, one generator per client, and `last` the
place of the last event it sent. A client is any caller of the endpoint: it names
no event or one of its task (`Named`) as `after`. The front end's `sseClient.js`
opens one stream from the beginning, keeps no identifier and never reconnects;
its behaviours are those with one `Connect` at 0. What a client is sent refines
`OrderedLog`.

### ModelRequest, AgentRounds

`call` is the retry loop of `llm/http.py`, `thread` an attempt in a thread,
`wire` and `delivered` the endpoint; `planned`, `sent`, `resolved`, `verdicts`,
`sealed` the recorder of the audit. The thread of a cancelled call goes on, so
it races the seal. `AgentRounds` adds the run (`mode`, `run`, `status`), the
batch under way, the window (`kept`), the published `reports`, the one
resubmission, what the client was `told`, and `cancels`, delivered at every
await. Its protocols are those of the orchestrator: investigation and report in
one loop, a report per batch of evidence, one request with the whole source.

### ExperimentAudit

`run` and `worker` are the two runs of a comparison, `session` their audit
sessions (state, reserved, payload, records, expiry), `answered` the runs whose
final event told of a complete answer, `aged` the comparisons past their
retention, `reviewing`, `reviewed`, `exposed` the blind review, `diagnosis` the
explanation of a failed run, `requests` its requests, `cancelling` the run whose
cancellation read that it is queued and has not written yet. The handlers that
create, cancel and review never await, so one of them runs at a time
(`ApiIdle`).

### StaticAnalysis

One machine per analysis, each a translation of one part of the code, named in
its header with its abstractions. They share no state; the composition lets one
behaviour be the analysis of one input of one family. `SourceCollection` walks
a syntax with the agenda and the context of `dependency_analyzer/phases`;
`SymbolIndex` and `ReferenceResolution` register the declarations of files in
the order threads deliver them and resolve calls; `StatementLowering`,
`OperationLowering`, `ValueBinding` and `ControlFlow` are the frontends' way
from statements to a graph; `FlowAnalysis`, `ControlDependence`,
`SelectorValues` and `PathConditions` annotate and query the graph; `CallPaths`,
`ValuePaths` and `FlowRoutes` search it under limits; `CandidateSelection`
chooses. In `CallPaths` the variable `truncated` is the search's own: what a
caller gets is `Results`, whose paths carry the mark. An answer without a path
carries none. networkx's dominators and the solver's answers are external. The
analyses that work on a finished graph are composed in `GraphAnalyses`, which
needs no recursive operator and can therefore be proved about; `StaticAnalysis`
adds the others, and its steps on the former are those of `GraphAnalyses`.

## 3. Runs

| run | instance | shows |
|---|---|---|
| `exec_claim` | 2 workers, 1 task, 2 faults | `AtMostOnce`, `CompletedMeansExit0`, `NoEarlyAudit`, and that the queue implements `ClaimQueue` |
| `exec_progress` | 1 worker, 2 tasks, limit 2, fair | `StartsInOrder`, `TerminalIsAudited`; `QueuedIsServed` and `HeldTaskTerminates` unless a client hangs for ever after its container is down (`Stuck`) |
| `agent_claim` | 2 workers, 1 audited legacy run, 1 fault, fair | `StatusIsReported`, `ClaimQueue`, `OrphanIsRecovered`, and `CancelStopsRun` though the model may never answer |
| `agent_progress` | 1 worker, 2 runs, one of them legacy, 1 fault, fair | `QueuedIsServed` for a run behind another one, unless every worker waits for ever for an answer (`AllBusy`) |
| `deletion_sequence` | 2 requests at once, 3 faults, fair | `Recoverable`; `RestIsConsistent`, `NoRestoreWithoutRow` and `CrashIsRepaired` (the start after the last crash makes the project whole or gone) unless the deletion was `Crossed` |
| `import` | 1 import, a second identifier, 1 per user, 3 faults, crashes, fair | `Consistent` (files and row agree, the table keeps its quotas), `Recoverable`, `ReportIsTrue`, `LeftoverIsCollected`, `RunningEnds` |
| `events` | 2 tasks with an event besides those of their ends, 1 client that may open a stream anywhere again and again, deletions, late final events, fair | `NoGap`, `AllDelivered`, and `StreamEnds` for a task that stays final or is deleted |
| `experiments` | 2 comparisons, 3 bytes for 4 runs, 2 of them cancellable, 1 worker, 1 fault, fair | `AuditInv` (counters, quota, seals), `ExplainedOnce`, `ReviewPinsAudit`, `ReservationReturned` |
| `agent_run` | 1 run in three protocols, 3 steps, 1 retry, 2 cancellations, fair | `ReportedWasShown`, `ReportsAreExact`, `WithinPolicy`, `AuditIsTrue`, `SealedIsFinal`, `RunEnds` |
| `static` | every small input of twelve analyses | `AnnotationsAreExact`, `SearchIsHonest`, `PathsAreReal`, `MeaningIsExact`, `VerdictsAreTrue` |
| `exec_orphan`, `static_loops` | - | expect a violation, see below |

The five properties of `static` say what is wrong with an analysis in general,
and have a conjunct for each: what the passes write at an operation is what the
paths of the function say (`AnnotationsAreExact`: reaching definitions, control
dependence); a search says no more than it knows (`SearchIsHonest`: one unmarked
call path vouches for the whole answer, a target absent from it is out of the
depth or the states were used up, unmarked routes of values and flows are all
there are, a reason given is true, stronger leads come first); what is reported is
there in the code, whatever limit was hit (`PathsAreReal`: routes of a value,
flows through functions); what is written down of the code is what its runs and
the rules of its language say (`MeaningIsExact`: selector values, members and
hierarchies, bindings, operations, statements, collection); and a path called
satisfiable or infeasible is so (`VerdictsAreTrue`, with the graph it is judged
on).

The bounds. Two workers are every race there is about a row, since each step
of a third one is one of theirs; one task is enough where a property is about
one row, two where it is about order (the theorem `FirstComeFirstServed` covers
several workers). Two faults let a handler of a fault be hit by another one, or
a crash follow it; `exec_progress` has none, since what a crash leaves behind is
the subject of `exec_orphan`. `agent_progress` has more runs than workers, so that
a run waits behind a busy worker; `agent_claim` has more workers than runs, so
that they compete. In `deletion_sequence` and `import` three faults
are a failing call, a failing compensation and a crash. In `events` a second
task is what gives keys out again, and connections break and are opened again
without a bound; in `experiments` three bytes are fewer than the two pairs would
reserve, and `Cancelled` bounds which runs are cancelled: the second one of a
pair and the first one. In
`agent_run` three steps are an investigation, a batch and a report, two
cancellations are the one that ends the call and the one that hits its handling.
In `static` every limit is small enough to be hit by some input and large enough
to be missed by another; `MCStaticAnalysis` lists the inputs. The theorems of section 4 have no such bounds.

Deadlock is checked except where the system comes to rest: in
`deletion_sequence` (a deleted project, no request left), `events` (all
delivered, the client gone), `experiments`, `agent_run` (the run over and
sealed), `static` and `static_loops` (the analysis done).

### Fairness

Weak fairness of a process's own next step says that a running process runs
on; nothing obliges a user to submit, a clock-bound heartbeat to be in time, a
fault to occur, a container to exit by itself, a docker client to come back or a
model to answer. Beyond
that: a worker that ended is restarted (docs/EXECUTION.md and
docs/AGENT_QUEUE.md start it as a service); a docker client that has not hung
returns once its container is down (`ClientReturns`), and the daemon does not
refuse every removal at once for ever (`SF` of a removal that succeeds or takes
five seconds; the loop retries it); the agent
loop comes back to the queue and to recovery (`SF` of `ReadCandidate` and
`RecoverAgain`: both lie on the loop of `run_forever`, and the model's choice
between them is the code's timer). A started API process runs its janitor
(`Recover`, `Pass`) and its clock goes on (`Tick`, `Age`). In `events` a
generator whose connection stands runs on, and nothing is assumed of writers,
clients or the network. In `agent_run` an attempt that
nobody cancelled comes back (it has a deadline), but nothing obliges the thread
of a cancelled one. In `experiments` the lease of a worker that is gone runs out
and is recovered, and the retention is enforced. `static` needs none.

### Disagreements found

Two runs expect a violation; PROJECT.json quotes the sentence each refutes.
`exec_orphan`: recovery runs only at a worker's start, so a worker restarted
before the lease ends leaves the task running for ever. `static_loops`: a path
condition that a loop makes true in a later turn is called infeasible.

Stated as formulas in the modules, which the code does not satisfy, without a
run: a cancellation that read `queued` writes `cancelled` over a claimed task
(`QueuedCancelWithdraws`, `execution/repository.py:145`); a cancellation
repeated during `audit.finish` ends the embedded loop (`LoopGoesOn`,
`agents/worker.py:160`); of simultaneous deletions the slower one restores its
quarantine after the faster one committed (`OnlyCleanedAfterCommit`,
`services/projects/README.md:67`); a task created after
the check is deleted while active (`ActiveTaskIsProtected`,
`services/projects/repository.py:144`); a stream ends without the final event
when the status is written first (`EndsAfterFinal`, `api/sse.py:29`; the front end
opens no second stream to get it); a search for call paths that a limit cut has an
empty answer, or an answer without one of its targets, and no mark
(`LimitsAreMarked`, `path_finder.py:80`), which `find()` and
`candidate_search.py:45` take for absence; a review
is accepted after the audit was read (`BlindUntilReviewed`,
docs/EXPERIMENT_PROTOCOL.md:151).

Further things the behaviours contain: a cancellation that read `running`
overwrites a final status, in both queues (`WriteCancel`), and a stream of events
then polls on for a task nobody works at; a docker client that hangs after quick
removals holds its worker for ever (`Stuck`), and so does a model that never
answers (`AllBusy`); a final event is written after its project was deleted; the
container of a
crashed worker has no time limit (`Crash` leaves it `up`); an error of the
agent's watch loop leaves the coroutine running beside the next one
(`WatchFault`); a cancelled run may seal its audit as complete with a request
unresolved.

Where the static analyses were modelled, the properties exclude the following by
name, since the code does otherwise.

* Symbols: with names that tie, the graph depends on the order the threads
  deliver files in (`Tied`), although `_reference_edge_id` is called stable
  across runs (`graph.py:200`); overrides in grandchildren are missing
  (`graph.py:212`); `_find_c_implementation` ignores the owner; Java's
  `super.m()` takes the first in breadth-first order; a Python class with an
  unresolved base has no members at all.
* Collection: a JavaScript `const A = class {...}` stays a constant; Java
  overloads share one table of variable types; anonymous classes and object
  literals bind `this` to the class around them; closures do not see the types
  of outer variables; a variable's type is that of its last typed declaration;
  calls in C++ field initialisers and in parameter defaults are lost.
* Operations and statements: nested or chained assignments lose definitions;
  `a, *b = *xs, y` pairs positions wrongly; Go's `if v := f(); cond` loses the
  initialiser; JavaScript's `for ... of` defines no variable; a bare Java
  block, try-with-resources, labelled statements, C++'s range-for and Go's
  switch collapse into one leaf without saying so.
* Bindings: an aggregate that contains a call's result still counts as certain;
  a rest that is taken apart again is not counted.
* Searches: a value that passes through the node of its use under another name
  and comes back is dropped without a mark.

## 4. Proofs

The eight modules of proofs hold for every value of the constants: any number
of workers, tasks, runs, requests, imports, clients, comparisons, rounds,
retries, cancellations and faults, every lease, quota and limit, and every
graph and program. They assume only the named assumptions on the constants,
which TLC evaluates in the runs:

| assumption | why the code justifies it |
|---|---|
| `NoWorkerAssumption`, `RequestsAssumption`, `ImportAssumption`, `StreamAssumption` | names that must differ do (no worker, no import, a place is not a request), a client follows a task |
| `BoundsAssumption`, `ProgressAssumption`, `RetryAssumption`, `ExperimentAssumption`, `RoundsAssumption` | limits are the positive or natural numbers that settings and constructors enforce; routes and scopes are different items |
| `RunsAssumption` | the legacy and the audited runs are runs |
| `FlowAssumption`, `DependenceAssumption`, `PathAssumption`, `ValueAssumption` | edges join nodes, the graphs are finite, the virtual end is no node, edges are numbered apart |
| `CandidateAssumption` | limits and windows are positive, the lists of a scan are finite, and the source and the sink of a flow are in them (`service.py`, `candidate_search.py`) |
| `FlowRoutesAssumption` | a path stays in its function; a call's result is received where it was called; a boundary that resumes a call site leads to the function of that site; calls and boundaries have identifiers of their own (`program_graph.py`, `object_effects.py`, `factory_returns.py`) |

Every invariant and action property that a run checks is proved, except
`MeaningIsExact` and `VerdictsAreTrue` (below). None of them is inductive as it
stands. TLC checked each strengthening on the run's instance
before it was proved.

| theorem | property | the invariant it needs |
|---|---|---|
| `ExecutedAtMostOnce`, `CompletedIsTrue`, `AuditFollowsQueue`, `FirstComeFirstServed`, `Refinement`, `QuotaHolds` | `AtMostOnce`, `CompletedMeansExit0`, `NoEarlyAudit`, `StartsInOrder`, `ClaimSpec`, `QuotaRespected` | `Invariance` |
| `BegunAtMostOnce`, `AgentRefinement`, `RowIsReported` | `AtMostOnce`, `ClaimSpec`, `StatusIsReported` | `AgentInvariance`, `ReportInv` |
| `NothingIsLost`; `RestIsWhole`, `OnlyPurgedAfterCommit` | `Recoverable`; `RestIsConsistent`, `NoRestoreWithoutRow` | `DeletionInvariance`; `SequenceInv` |
| `RowsAreWhole`, `NothingIsLost`, `ReportsAreTrue` | `Consistent`, `Recoverable`, `ReportIsTrue` | `ImportInvariance` |
| `OrderedWithoutGap` | `NoGap` | `StreamInvariance` |
| `QuotaAndCountersHold`, `OneExplanation`, `ReviewedRecordsStay`, `SealedStaysSealed` | `AuditInv`, `ExplainedOnce`, `ReviewPinsAudit`, `SealedForever` | `AuditInvariance` |
| `ReportsWereShown`, `ReportsExactlyOnce`, `RunsStayInPolicy`, `AuditsAreTrue`, `SealedStays` | `ReportedWasShown`, `ReportsAreExact`, `WithinPolicy`, `AuditIsTrue`, `SealedIsFinal` | `RoundsInvariance` |
| `AnnotationsExact`, `SearchesHonest`, `PathsReal` | `AnnotationsAreExact`, `SearchIsHonest`, `PathsAreReal` | `GraphInvariance` |
| `ArrivesByPaths`, `DependenceIsExact` | the conjuncts of `AnnotationsAreExact` | `FlowInvariance` |
| `CallsAreSearchedHonestly`, `UnmarkedSearchIsExhaustive` | `CallsSearchedHonestly` of `SearchIsHonest` | `SearchInvariance` |
| `ValueRoutesReal`, `ValueRoutesComplete` | `ValueRoutesAreReal`, `UnmarkedHasAllRoutes` | `ValueInvariance` |
| `FlowsFollowRoutes`; `MissingFlowsAreMarked` | `FlowsAreReal`; `MissingIsMarked` | `RouteInvariance`; `MarkInvariance` |
| `CandidatesInOrder` | `StrongerFirst`, `ReasonIsTrue` | `CandidateInvariance` |

**Execution queue.** `AtMostOnce` does not say why a worker about to launch is
the first. `IInv` adds `RowInv` (a row without owner was never launched; a
completed row has a container with exit code 0; a final event implies a status
beyond `running`), `WorkerInv` (a worker owns the task it holds, has launched
nothing before `loop`, and its result agrees with the container; what it read as
stale was claimed) and `ApiInv` (what a handler read has moved at most forward).
The owner column is the key: it is written by the claim only, behind `status =
'queued'`, and no step brings a claimed row back to `queued`. In `Refinement`
each action is mapped to an action of `ClaimQueue` or a stutter.

**Agent queue.** Here the owner column is no key: `finish_job` and
`recover_stale` clear it. `IInv` uses the history variable `taker` instead,
which the claim sets: a run that may still be claimed was given to nobody, only
a run that was given away has a coroutine, a worker was given what it holds and
`recover_stale` only fails rows that were claimed. `RowIsReported` needs a
second invariant, `ReportInv`: while no fault occurs, a final status that is not
in the events yet has somebody who is about to report it (the cancelling
handler, the coroutine, the worker that failed its claim, or a worker that
recovers the row), and whoever overwrites the status takes over that duty. For
the last row of a recovery this is an argument about cardinality (`AuditReport`).

**Project deletion.** `Recoverable` needs to know that a request's journal
file outlives its quarantine. `IInv` adds `Journalled` (a thread that may
still move something has a journal file; without one its quarantine is empty),
`Progress` (after the commit the row is gone; without a warning what was
purged or restored is out of the quarantine, which is what licenses the
removal of the journal) and `ProcessInv` (a janitor has no request beside it).
`RestIsWhole` and `OnlyPurgedAfterCommit` are about any number of simultaneous
requests, too. `SequenceInv` adds that two requests that move resources at one
time are in `company` (`Apart`), that one which is not has left nothing at home
behind its own steps (`Ordered`), and that after a commit that was not `Crossed`
nothing is at home and no thread that may still compensate holds anything
(`NothingStays`). Without the exception both are false, which is the disagreement
above.

**Project import.** A step of an import, or of the janitor, disturbs only the
import it works for; so `IInv` says for each import by itself what files, journal
and row are at each point of its thread (`FilesFollow`, `RowFollows`), that what no
compensation is left for is gone unless one has failed (`Undone`), that files
without a row keep a journal (`Journalled`), and what the janitor may find
(`JanitorInv`). `Reported` ties the table of identifiers to the rows: an entry says
completed only after the commit. The quotas are about cardinalities of a finite
table (`ProgressAssumption`).

**Event streams.** The keys of a task's events grow with their places, although a
deletion gives keys out again: the key given out is above every key that is left,
and the events of a deleted task that come later stand alone (`Bounded`,
`TaskInv`). So what the table holds above a generator's cursor is later than what
it sent, and while the task is kept everything later is above it (`CursorInv`);
the batch is a piece of that without a gap (`BatchInv`). A late final event keeps
all this, since nothing is promised to be complete once the project is deleted:
`OrderedLog` lets a withdrawn log lose entries, but neither repeat nor reorder
them.

**Experiments.** The quota bounds a sum over all sessions. The first part of
the module proves of the fold that defines it that it satisfies its recursion and
grows with its values; induction over a finite set is by a smallest
counterexample, since the induction theorems of the library cannot be used.
`IInv` adds to the counters that a session follows its run (`SessionFollowsRun`:
it exists from the moment the run is queued, and is closed before the run counts
as completed, before a worker is about to say so, and while a review works) and
that a request of an explanation is sent when its first event is written, and
only then (`RequestsAreEvents`).

**Agent rounds.** `IInv` has two halves. `RequestInv` is about the call, its
thread and the audit: how call, thread and status stand to one another
(`Together`), that the counters agree with the records (`Counted`), that a run
that is not over has ended the record of every finished attempt (`Followed`),
that a run that is over has no thread behind it and a complete verdict misses no
answer (`Settled`), and that what is visible or answered was delivered (`Shown`).
`RoundInv` is about the batches, the reports and the rounds: what is reported was
delivered, once (`ReportedOnce`, `Reported`), and how much of the policy is spent
at each await (`Spent`). The steps of a request leave the coroutine alone and most steps of
the coroutine leave the request alone, so each half is proved for each group of
steps by itself.

**Static analysis.** For reaching definitions the invariant has two halves: no
definition is outside a set of places it cannot get out of (nothing made up),
and a node that is not queued agrees with its predecessors (nothing lost); when
the queue is empty the places of a definition are such a set. For the search of
call paths it says where each chain still is: found, or going on from a queued
one; that the queue holds shorter chains first and none that begins another; and
that, whatever was cut, a simple chain was cut only by one no longer than itself
or by a full store, which is why the first chain found is a shortest one. The
theorems speak of `Results`, the mark of a path that is returned: an unmarked one
means that no limit was hit at all, hence that every chain was found
(`AnswerIsWhole`), and of an absent target they claim no more than `AbsentIsFar`. For a
value's routes: what is queued is a walk the value can make, no two places of
the search hold one walk or one that goes on from another, and every route is
found or ahead while nothing was cut. For flows through functions: the level of
a hop (how many calls more than closings follow it) tells which calls are open;
`OpenAt` says that the stack holds exactly them in order, so that a closing hop
closes the call on top, and the depth counts exactly the hops that lead to a
further function. A flow therefore comes back only to where it came from. That
none is missing without a mark is a second invariant (`MarkInv`): while nothing
was thrown away, a route that goes on from one which the search was told of (it
has visited a state that shows the same) is told of too, or held in the queue
(`NothingForgotten`); the visit of a state found its flows, unless the sink had
enough already and says so (`ArrivalFound`). Two routes that show the same are
one to the search, so that the lemmas are about what routes that show the same
have in common (`StandsFor`, `GoesOn`). The routes of a program are defined over
a recursive function; that a route of any length is among them follows from a
smallest counterexample.

For control dependence the sets that only lead out through a node
(`LeadsOnlyTo`) give its post-dominators the order of a chain; the immediate one
is its smallest member, so that the walk up the tree, a recursive function,
meets exactly the post-dominators of one way that the other does not have
(`BranchesDecide`).

A candidate's place is decided by lists sorted from sets. `ListedByPlace` says
that the list of a finite set under a strict order has each member once, in its
order; each list of the choice is one. `CandidateInv` says that the flows are
taken from the front of theirs (`FlowsFirst`), that what was chosen of the routes
of calls are the first ones of the windows gone through, and that the others are
listed (`PairsInTurn`), nothing twice (`NoneTwice`), and which limit ended it
(`Explained`).

`GraphInvariance` puts these together for the machine that makes one of the
analyses: a step of one leaves the others alone (`OneAnalysisMoves`).

### What stays with TLC

* Liveness (`QueuedIsServed`, `HeldTaskTerminates`, `TerminalIsAudited`,
  `OrphanIsRecovered`, `CancelStopsRun`, `CrashIsRepaired`,
  `LeftoverIsCollected`, `RunningEnds`, `AllDelivered`, `StreamEnds`,
  `ReservationReturned`, `RunEnds`): the prover does not do `ENABLED`.
* `MeaningIsExact` and `VerdictsAreTrue`: the runs of a function and the meaning
  of an expression are defined by recursion over statements, which the prover
  cannot do induction about; their modules use RECURSIVE operators, which a
  module with proofs must not reach. For the same reason the three theorems
  about what `static` checks are stated of `GraphSpec`: the machine of `static`
  makes the same steps on the same variables (`OnGraph`), which is seen from its
  definition and not proved.

## 5. Not modelled, and what is abstracted

* Output of a process, stream chunks, redaction, payloads of events, the text of
  messages and reports: no property here distinguishes them.
* Two workers with the same identifier (the defaults of two processes on one
  host are equal) are not modelled: a claim is made once per row, so a worker
  compares identifiers only on rows it claimed itself.
* SQLite's `database is locked` is one of the faults; a torn commit is not,
  SQLite excludes it. A failing file operation changes nothing (`replace` is
  atomic); a purge that removes half a tree counts as not yet removed. A database
  error of `audit.finish` itself is not modelled.
* One user, one project: the queries filter by both and no operation relates
  two of them, except the quotas, which count a single user's tasks or imports.
* An import that works for longer than six hours in one process (`Patient`).
* Model access: the token budget and what a provider's payload says.
* Static analysis: parsers and rule tables, the rule engine and the language
  adapters, heap and object overlays, the native SSA projection, the semantic
  index and the pipeline that strings the analyses together, the composition of
  conditions across functions. In `PathConditions` the solver answers
  (no "unknown"), there is no arithmetic, and all reasons for doubt are one. In
  `SourceCollection` imports, names that count as noise, and the outline are left
  out; in `ReferenceResolution` Rust's impl-Trait references, enums and
  namespaces, and the line between standard library and third party. The order
  of flows within a group, and which flows of a pair `Retain` keeps, are open.
* The components listed as not modelled in PROJECT.json, each with its reason.

## 6. Plan

Done: all modules of section 2 and the theorems of section 4. Next, in order:

1. `EndsAfterFinal` and `ActiveTaskIsProtected` under the schedules for which
   they hold, as theorems with the schedule as an assumption.
2. Static analysis: the object references of `flow_analysis`, the rule engine
   and the language adapters, the manifest of a project, the analysis service.
3. `ExecutionQueue` and `AgentQueue` composed with `EventStream`, in place of
   sets of events.
