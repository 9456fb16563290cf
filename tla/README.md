# ThoroTest in TLA+

A verification development for ThoroTest (`src/`): TLA+ modules that model its
concurrent core and its clients, TLC configurations that check them on small
instances, and theorems that TLAPS checks for every value of the constants.
Paths below are relative to `src/`.

## 1. What the system is made of

ThoroTest is a FastAPI server (`backend/`) with one SQL database, run as any
number of processes; a React page (`frontend/`); and a command line client
(`cli/`).  Redis is optional and joins the processes.  Request handlers are
either coroutines, which share the event loop of their process, or plain
functions, which run in a thread pool; background loops run in every process.
The state that matters on the server is in database rows that several processes
read in one statement and write in another.  The state that matters in the page
is a set of copies of those rows, each with rules of its own about when it is
read, what it does while it waits, and which answer it believes.

### The server

| component | state | operations | who else touches that state |
|---|---|---|---|
| CI job queue, `backend/ci_worker.py` | `ci_jobs` rows: `queue_status`, `worker_id`, `lease_until`, `attempts`; the loop of every process | `claim_next`, `renew_lease`, `finish_job`, `cleanup_expired_jobs`, `start`, `close` | the executions, through `_update_job` |
| CI orchestration, `backend/routers/ci.py`, `github_actions.py`, `gitlab_actions.py` | `ci_jobs.status` and its links, `pipelines` rows, provider runs | `ci_run`, `_orchestrate`, `_orchestrate_gitlab`, `reconcile_running_pipelines`, `ci_job_status` | `DELETE /pipelines/{id}`, the pipelines page every five seconds |
| Manual runs, `backend/routers/runs.py` | `run_cases.status`; `runs` counters, progress, status | `update_run_case`, `update_run_status` | requests in every process |
| Sockets, `backend/ws_manager.py`, `notifications.py`, endpoint in `main.py` | lists of sockets per run, a gauge | `connect`, `disconnect`, `broadcast` | every coroutine of the process, at each `await` |
| Event bus, `backend/event_bus.py` | a Redis subscription per process | `publish`, `_dispatch`, `_listen` | |
| Integration sync, `backend/routers/integrations.py`, scheduler in `main.py` | sync jobs, `integrations.status` | `enqueue_sync_job`, `execute_sync_job` | two requests, or a request and the scheduler |
| Git sync and push, `backend/github_sync.py`, `gitlab_sync.py`, `git_push.py` | the tests, the file each was read from and its commit | `sync_repo`, `push_test` with a conflict guard | commits on git, `PATCH /tests/{id}`, `POST /sync` of the CLI |
| Jira, `backend/jira_sync.py` | requirements, a defect's issue link | `sync_jira_requirements`, `push_defect_to_jira` | users of Jira, a second execution of the job |
| Result import, `backend/importers/persist.py` | tests, runs, defects | `persist_import_result`: match by external identity, then by place, insert | other imports, the CI collectors |
| Rate limiter, `backend/rate_limit.py` | windows in memory or Redis, a bounded key table | `check`, `record`, `clear` | calls of the process, on its event loop; with Redis, other processes |
| Accounts, library, webhooks, AI, administration | single rows | one transaction each | |

### The clients

| component | state | operations |
|---|---|---|
| Run page, `frontend/views/view-runs.jsx` | `liveRun`, `cases`, the active case, a WebSocket | load, mark, pause and abort, retest, moving to another run, live messages |
| Lists and their forms, all `frontend/views/view-*.jsx`, `components/custom-fields.jsx`, `change-history.jsx` | rows, filter, "Loading...", an error; the open form and its `saving` flag | read on mount, on a filter or by a poll; create, edit, remove |
| Editors of stored data, `view-test-detail.jsx`, `view-overview.jsx`, `view-settings.jsx` | a copy that is typed into, a dirty flag | read, type, save, cancel |
| AI drafts, `view-config.jsx`, `view-overview.jsx` | drafts and a selection | ask, select, store one after another |
| Secrets shown once, `view-settings.jsx`, `view-config.jsx` | recovery codes, API tokens | set up, verify, regenerate, revoke, reveal |
| Bell, `components/notification-bell.jsx` | the newest notifications, a socket | load, receive, mark as read |
| Import page, `view-import.jsx` | file, detected and chosen format, mapping, preview | choose, detect, preview, import |
| Log-in and sessions, `app.jsx`, `api.js`, `view-login.jsx` | a token all tabs share, the user and the data of each tab | log in with one or two steps, OAuth, log out, a 401 anywhere |
| Route shell, `app.jsx`, `route-loader.js` | view, hash, the scripts that were loaded | navigate, load, retry |
| CLI, `cli/` | the working tree, one invocation at a time | `lint`, `sync`, `status`, `token`, `run` |
| Test files and lint, `cli/lib/yaml.js`, `lint.js`; `backend/importers/yaml_importer.py` | a document | parse line by line, lint, normalise |

How they interact.  `ci_run` asks a provider for a run and inserts a job.  A
worker loop of some process claims the job and executes it in a thread, which
writes the job, the pipelines row and an imported Run.  The pipelines page has
its own way to the same rows (reconcile), and `thorotest run` reads the job and
then the row.  A marking request commits a result, recomputes the run from all
results, and broadcasts through the sockets of its process and, over the bus,
those of the others; the run page puts together what it loaded, what those
messages say and what it has computed itself.  `thorotest sync` sends a tree of
files that the server stores by id or by path.

What is hard about it, and what would make each part correct:

- **Queue**: workers die, stall, are closed or lose their lease between any two
  statements.  A job must be executed and settled in spite of it; a lease that
  is live must not be taken; a settled job must not be opened again; `done`
  must mean that results were imported; the two status columns must agree.
- **Orchestration**: two executions of a job and any number of reconcile
  requests write one row without a fence, and rows are deleted under them.  A
  row with a verdict must tell the truth; a running one must get its verdict;
  the exit code of the client must agree with the provider.
- **Runs**: counters are recomputed from a read that may be old when it is
  committed.  A run must not read as passed with a failure in it, and its
  completion must be announced.
- **Sockets**: a list changes under the loop that iterates over it.  No viewer
  may get a message twice or out of order, and one who stays should get it.
- **Git**: others commit between the requests of a push, and rows change between
  its load and its commit.  A push must not replace what nobody here has seen,
  and a row must say what its source says.
- **Import**: a file is matched case by case against rows that its own earlier
  cases, and other imports, have changed.  Importing it again must add nothing.
- **Limiter**: a window has two ends, and the table of keys is bounded.  No key
  may get more than its share, none must wait longer than it is told, and none
  be forgotten while there is room.
- **Jira**: the board changes between two pages, syncs overlap when a lease is
  lost, and an issue is made before its defect is linked.
- **Pages**: an answer comes after the user went on to another run, filter, file
  or account; two requests of one page overtake one another; a request is made
  twice by Enter and a button; what was typed meets the answer of a read or a
  save.  A page must not show what the server never had, not create a record
  twice, not lose what was typed, not overwrite what it has not read, and not
  wait for ever.
- **Secrets**: the server has made them before the page can show them, and a
  dialog can be closed in between.
- **Sessions**: one token for all tabs, and answers to requests made with the
  one before.
- **CLI**: a request fails before or after the server acted; files are moved
  and given ids between two pushes; two parsers read one file.

`PROJECT.json` lists the hazards at their lines, with the properties that cover
them.  A hazard that a property excepts has a note that says so: it is then what
the code does, and section 5 has it.

## 2. Modules

| module | what it is |
|---|---|
| `JobLifecycle` | the abstract specification: what the queue promises of each job |
| `CIQueue` | the queue, its loops and the executing threads; shown to implement `JobLifecycle` |
| `CIQueueProofs` | theorems about `CIQueue` |
| `PipelineImport` | dispatch, executions, rows, reconcile and client; composes with the queue through `JobLifecycle`, whose actions it takes for the steps of a job |
| `PipelineImportProofs` | theorems about `PipelineImport` |
| `RunMarking` | marking the cases of a manual run, in several processes |
| `RunMarkingProofs` | theorems about `RunMarking` |
| `RunSockets` | the viewers of a run and the event bus |
| `RunSocketsProofs` | theorems about `RunSockets` |
| `RunView` | the page of one run |
| `RunPageProofs` | the theorem about `RunView` |
| `Panel`, `PanelCatalog` | a list with its form, and the rules of each list and form of the client |
| `Drafts` | text that is typed over what was read |
| `AIDrafts` | drafts stored one after another |
| `ShownOnce` | recovery codes and tokens |
| `Bell` | the notification bell |
| `ImportWizard` | the import page |
| `Session` | the token, the tabs and the log-in |
| `RouteShell` | the address, the view and the scripts |
| `Clients` | the pages of the web client side by side, and what is promised of each |
| `ClientProofs` | theorems about the other pages |
| `CLI` | the commands of `thorotest`, and the upsert they push to |
| `TestFile` | the parser and the lint of test files, against what a file means and what the server makes of it |
| `GitSync` | a test as code between its row and its file on git |
| `PersistImport` | the import of parsed results |
| `RateLimit` | the sliding-window limiter, in memory and in Redis |
| `JiraSync` | the pull of issues, who asks for it, and the push of a defect |
| `ServerProofs` | theorems about `GitSync`, `RateLimit` and `JiraSync` |
| `Lists`, `ListProofs` | what a removal leaves of a list, and lemmas about it, for `RunSockets`, `RateLimit` and `JiraSync` |
| `MC...` | constants for TLC: kinds, providers, where requests are handled, symmetry; `MCClients` adds the CLI and its files to `Clients`, `MCServer` puts the four server modules above side by side |

### CIQueue

One transition is one committed statement, one provider call, or one step of
the loop.  `row[j]` has the columns of a `ci_jobs` row the queue acts on; of
`lease_until` it has whether it is null, live or expired and an `epoch`, which
stands for its value (the claiming UPDATE compares values).  `cand[w]` is the
candidate list of `claim_next`: a snapshot that may be old when it is used.
`held[w]` is what a loop supervises, `saw[w]` what `finish_job` loaded before
its commit.  Threads follow a script per kind of job (`GitHubScript`, ...): the
sequence of fenced loads, provider calls, `_update_job`s and the import that
`_orchestrate`, `_orchestrate_gitlab` and `execute_sync_job` perform.

- `SelectCandidates`, `Claim`, `ClaimMissed`, `NothingClaimed`: `claim_next` and
  the TTL clean-up.  Head-first, as the loop over the candidates goes.
- `Renew`, `LeaseLost`, `Observe`, `FinishCommit`, `LoopError`: `_execute`,
  `renew_lease`, `finish_job` and the `except` of `_run`.
- `Close`, `Crash`: `close()` cancels the loop but neither the thread in which
  `claim_next` runs (`"closing"`) nor the executing thread; a dead process takes
  its threads with it.  A worker identity is one life of a process.
- `LeaseExpires`, `HeartbeatMissed`: time.  A lease nobody renews may run out at
  any moment; one whose loop renews it only by a fault.
- `ThreadFence`, `ThreadLoad`, `ThreadCommit`, `ThreadCall`, `ThreadImport`: the
  execution.  `_update_job` is two transitions, since it loads under the fence
  and commits by id alone.

An UPDATE of a loaded row names the columns that differ from what was loaded
(`Changed`): that is what SQLAlchemy sends, and it decides which late writers do
harm.

Two constants name assumptions.  `Prompt` excludes stalls between a SELECT and
its COMMIT that are long enough for a lease to expire or a second execution to
end; without it the settlement is only at least once.  `Wordless` admits
exceptions whose text is empty (see section 5).

### PipelineImport

A dispatch `d`, the provider run it starts and the row of that run share one
number.  `created` has the runs of GitHub in the order of their creation, so that
"the newest since the dispatch" (`Picked`) is what `pick_dispatched_run`
computes; a GitLab pipeline is never among them, since its dispatch answers with
its number.  `job` follows `JobLifecycle`, instantiated on the variable: `Take`,
`Lapse`, `End` and `Insert` are its `Take`, `Lapse`, `Settle` and `Submit`, with
what the code does besides.  `Stalls` lets a lease lapse while its execution
runs on, which gives two executions of one job.  Fenced writes are one step here
(the gap inside them is CIQueue's subject), upserts of a row are one step, and
every provider call, import and row write is a step of its own.

`Find` ... `Report` are the body of `_orchestrate`; a GitLab job starts at
`Poll`.  `Scan`, `Query`, `ReconcileImport`, `ReconcileRecord`, `Respond` are a
reconcile request: one list of running rows, taken one by one, each row's
failure skipped; using a row that was deleted after the request's own commit
expired it raises outside of what the loop catches and ends the request.
`word` is `ci_jobs.status`, which clients read and which an execution writes with
`_update_job` one commit before the settlement (`Report`, `Return`).  `PollJob` and
`ReadRow` are the client: the handler of its poll reads the job, then the row.
`Uploads` names the verdicts whose GitHub runs have a JUnit artifact (a GitLab
pipeline is imported from its jobs and always makes a Run), `Deletable` the rows
that users remove.

### RunMarking

`Load`, `CommitCase`, `ReadRun`, `ReadCases`, `CommitRun`, `SendStep` and
`SendComplete` are `update_run_case` in its order.  The handler awaits nothing
before its broadcasts, so that requests of one process do not interleave before
`SendStep` (`loop`), while those of two processes do.  `EditStatus` is
`PATCH /runs/{id}/status`, which runs in a thread and interleaves anywhere.
`Written` is the UPDATE of changed columns again.  The history `since` says whether
the status was edited, or a request cut short between its commits, since a marking
last read the run: `CountersAgree` says nothing of the verdict from an edit to the
next marking, and nothing at all from a cut to the next.

### RunSockets

`connections[run_id]` is a list object that others append to, remove from, or
replace, while a broadcast iterates over it by position and gives way at every
send; so `conns[p]` keeps every list object of a process, `reg[p]` says which of
them is registered, and a broadcast (`task[k]`) holds on to its own.  `Send` is
one step of the iteration, `Prune` the removals after it, including the
`ValueError` when somebody else has removed the socket and the `pop` of whatever
entry is registered by then.  `Publish`, `Dispatch` and `Resubscribe` are the
bus: Redis hands a message to every subscribed process in publishing order or
not at all, and a broken subscription loses what it held.

### The clients: conventions

The web client is one thread per tab.  What interleaves is the user, the events
the browser delivers, and the answers of the server.  A request is therefore an
element of a set that carries what was put into it when it was made; the server
takes it with one action (`...Served`, `...Stored`) and the answer arrives with
another (`...Answered`), so that answers overtake one another.  It fails before
or after the server took it (`...Failed`, `...Lost`).  What a handler sets
before its `await` belongs to the action of the user, what it sets afterwards to
the action of the answer.  History variables (`raced`, `crossed`, `stale`, ...)
mark the crossings that a property excepts: the exception is in the statement of
the property, with its reason, and no crossing is excluded from the model.

### RunView

`server[r]` are the rows of a run, `url` the run in the address, `live` and
`list` the page's two copies (`liveRun`, `cases`), which need not be of the same
run.  `Move`, `LoadServed`, `LoadAnswered` are the effect on `runId`, which
nothing cancels; `WsOpen`, `WsLost`, `WsMessage` the socket, with the effect that
opens it for a run that is running (`Socket`); `Mark`, `MarkStored`,
`MarkAnswered` are `markCase`, which writes back the list it held when the user
clicked (`MarkShown`), recomputes the run and goes on to the next open case
(`Advance`, `FirstOpen`), or stays where it is when none is open; `Edit...` and
`Retest...` are the buttons.

### Panel and PanelCatalog

The client writes its lists out once per page.  `Panel` has the steps they all
take (`Pick` a filter, `Poll`, `ReadServed`, `ReadAnswered`; `Open`, `Submit`,
`Dismiss` a form; `Patch`, `Remove` a row; `ChangeStored`, `ChangeAnswered`,
`ChangeFailed`).  Where pages differ, `PanelCatalog` has a rule for each page:
whether the answer of an older read is dropped, what an error does to the list,
whether a submit is guarded by the saving flag, whether a form survives its
dialog, what happens after a save and a removal.  `AllPanels` are the pairs of a
list and a form that exist; the initial state is any of them.

### Drafts, AIDrafts, ShownOnce

`Drafts`: a value is the set of the edits in it, and `"orig"` is what was stored
at first, so a value that lacks it has lost the old content.  Its rules are, like
a panel's, those of each editor (`DefinitionTab`, `TestCustomFieldsCard`,
`TestTitle`, `StatusSelect`, `ProfileTab`, `NotificationsTab`).

`AIDrafts`: `SaveSelected`, `Arrives`, `Proceeds` and `Breaks` are the loop that
awaits one POST (and, with the assistant, one PUT of steps) per draft.

`ShownOnce`: `Served` makes the secret, `Answered` shows it if the dialog that
asked is still there, `Cancel` closes it at any step, `Done` says it was copied.

### Bell, ImportWizard, Session, RouteShell

`Bell`: `Message` prepends, `Mark` sets the entry before it asks the server.
`ImportWizard`: each request carries the choices of its moment (`from`).
`Session`: `Write` is a change of `th_token` as the other tabs meet it; `Load`,
`MeAnswered`, `SubmitLogin`, `SubmitCode`, `LogInAnswered`, `Refused` (a 401
clears whatever token is there), `InitAnswered`, `ProfileAnswered`.
`RouteShell`: `Nav`, `Open`, `Browse`, `HashChanged` move the view; `Insert`,
`Pass`, `ScriptRan`, `ScriptFailed` are the loader, whose scripts are shared by
the loads that wait for them (`pending`); `Ready` checks that its load is still
the active one.

### CLI and TestFile

`CLI`: an invocation is `Parse` (options and configuration; `Given` is the order
of its sources), `Collect`, `Lint`, then requests in three steps (`Serve` or
`Refuse`, `Answer`), which `Fail` cuts before, after or in the middle.  `Serve`
answers a poll of `run` with the job and what its row says; "silent" is an answer
whose job is done and whose row is missing or running.  `Put` is
`sync_repo` for one file: the test with its id, else the one at its path, else a
new one.  `Exit` ends it with the code `Gives` and its neighbours assign.

`TestFile`: a line is what is left once its comment is stripped; each action is
one turn of the loop of `parse`.  `Meaning` says without a loop what a file
means, `FirstOffence` where it leaves the subset; `LintErrors` and the `...Warned`
operators are lint, `ServerRejects` and the `Server...` operators the normaliser.

### Clients and MCClients

The clients share no state.  A behaviour of `Clients` is one of a single part,
named by `part`; the parts lay their variables over the cells `v1` .. `v15`, to
which `Clients` gives the names the modules use, and the cells that a part does
not need are off.  So one specification, `ClientSpec`, has all the pages, and one
run checks them.  `MCClients` adds the command line ("push", two files pushed
again and again; "call", every command with a fault) and the files ("file").  Of
the things that may happen to the page of a run it takes three at a time
(`SomeOfARun`).

### GitSync

`log` is the branch: the file after each commit, so that a commit is an index and
"the file a row was synced from" is a position.  `row` has what the test says,
`source_body` and `source_ref`.  A push is `PushLoad` (the row, rendered),
`PushRead` with `check_conflict` (`Conflicts`), `PushPut`, `PushName` and
`PushCommit`; `CommitOutside`, `Edit`, `SyncFetch`, `SyncLoad` and `SyncApply`
come in between.  A sync fetches a commit, loads the row, and commits an UPDATE of
the columns that differ from what it loaded; so does `PushCommit`.  The owner of a
test, which a file need not name and which a sync then keeps, is left out.
GitHub's write compares the blob it was shown; GitLab's compares nothing
(`Accepts`), and the commit it made is asked for afterwards (`Named`).  A body
written by hand differs from the rendered one, whatever it says.

### PersistImport

`tests` are rows by id, of which a case sees title, folder and key.  `imp[p]` is
one call of `persist_import_result`: `over` what it has flushed, `titles` and
`keys` its two dictionaries, `runs` and `defects` what it will commit.  `Seen` is
what its queries find.  `ImportTest` is one turn of the first loop with the three
ways to treat a match (`Handled`), `ImportRun` one of the second with
`_resolve_test_id` (`Resolved`), `ImportDefect` one of the third, whose rows are
not flushed.  An overwrite computes its UPDATE from the row it has read
(`Changes`), waits until nobody else has changed that row without committing
(`Locked`), and leaves the other columns as they are by then (`Flush`).  Ids are
given out in their order, since only their identity matters.

### RateLimit

Time is in ticks, and does not go back.  `Check`, `Record` and `Clear` are the
three calls, each one step: every caller is on the event loop of its process and
awaits nothing between the clock and the table, and with Redis a script does it
all.  `Left` is what pruning leaves of a key: `Pruned` looks at the head only (the
script's range removal is the same on stamps that are in order).  `Refuse`,
`Permit`, `Enter` are the outcomes, `Dropped` is `_evict_if_needed`.  Where Redis
does not answer the request is refused and nothing changes.  Of the history,
`granted` has one event more than a window allows, so that a breach would show,
and `spent` the last event of each key.

### JiraSync

`AskLook` and `AskInsert` are the two statements of `enqueue_sync_job`; `Take` is
what the queue does with a job, once more if a lease was lost.  `Search` is one
request of the paged search, `FindByKey` and `FindById` the queries per issue,
which do not flush and so do not find what the sync itself has added; `Commit` is
refused if a row is there by then (`Collides`).  The status of the integration is
written without a fence, with the rows and once more in a commit of its own
(`Show`, `Failed`); the settlement of the job comes after it, with a fence (`End`).
`Disable` is a user's PATCH, and the history `patched` says that it came during
the job, after the status was last written.
`ReportLoad`, `ReportCreate`, `ReportLink` are `push_defect_to_jira`.  The id of a new
requirement is the key of the issue without its hyphen, or that with "-J": two
issues of one project never share it.  (A query of one's own that spans projects
AB and AB1 would find AB-12 and AB1-2 at one id; that is left out.)

### MCServer

As in `Clients`, one behaviour is one of a single part. `MCServer` extends
`GitSync`, `RateLimit` and `JiraSync` with their variables and constants, so
that what it checks is what `ServerProofs` proves; imports are two instances
over the cells `u1` .. `u8`. The parts are `git`, `limit` (more keys than fit,
in memory and with Redis), `jira` and `defect` (syncs, and pushes of a defect),
`import` and `overlap` (imports one after the other, and side by side). Workers
and pushes are symmetric.

## 3. The runs

| run | question | result |
|---|---|---|
| `ci_queue_faults` | one GitLab job, two workers that crash or are closed, one missed heartbeat or failed database call, arbitrary stalls: what survives everything? | `NeverReopened`, `LeaseNotStolen`, `RenewsOwnAttempt`, `DoneMeansImported`; implements `JobLifecycle` (settles at least once); the job is settled (`QueuedJobSettles`) |
| `ci_queue_restart` | a GitHub job and a sync job, heartbeats arrive, stalls are short, workers crash and close; candidate lists of one | types; settled exactly once (`ImplementsOnceLifecycle`), `StatusAgrees`, `SoleSupervisor`; no job starves (`QueuedJobSettles`) |
| `pipelines` | a GitLab dispatch with a fault, or a GitHub dispatch whose row anybody removes; executed twice at once, two reconcile requests | types; `ExitCodesTell` (which includes that a done GitLab job has its verdict on the row, `DoneJobHasVerdict`); `SettledRowTellsTruth` (with the types, as `RowsTellTruth`) |
| `reconcile_heals` | two GitLab rows, reconcile requests one after the other, deleted rows, a fault, results of every run (the provider is GitLab) | `RowsSelfHeal`, and `ImportedOnce` unless the fault strikes |
| `pipeline_two_dispatches` | two dispatches of one workflow | `TracksOwnRun` is violated |
| `run_one_process` | two requests in one process, marking and re-marking, a total below the number of cases, status edits, a crash | types; `CountersAgree`: counters, and the verdict from the first marking after a status edit |
| `run_cluster` | three requests in two processes, one may die | `PassMeansNoFailure`, `CompletionSeen`, `CompletionAnnounced` |
| `run_verdict` | two processes, one case each, one failure | `AnyFailureFails` is violated |
| `sockets` | two processes, two viewers in one of them, three messages, a lost publish or subscription | `DeliveredInOrder` (types, and no message twice or out of order), `GaugeCountsListed`, `MissedOnlyByDepartures` |
| `clients` | every page, the CLI and the parser, each by itself with late, lost and overtaking answers | types; the properties below |
| `server` | git, imports, the limiter and Jira, each by itself, with what others do in between | types; the properties below |
| `cli_repush` | a tree of two files, moved and given other ids, pushed again | `SyncIsIdempotent` is violated |

What `clients` shows:

| property | of | says |
|---|---|---|
| `ShowsOnlyStored` | `RunView` | a result on the page is one the server had for that case |
| `PanelKeeps` | `Panel` | a guarded form creates one record; a list nothing raced with shows what is stored, although it edits its own copy |
| `DraftKeeps` | `Drafts` | what is typed at rest stays; what is stored is overwritten only by a page that never read it; a page without changes shows what is stored |
| `DraftsStoredOnce` | `AIDrafts` | a draft becomes two tests only if a broken-off attempt is repeated; what is reported is stored, with its steps |
| `SecretsSeen` | `ShownOnce` | a secret that is good has been seen, unless its dialog was taken away; the page knows whether two-factor is on |
| `BellTells` | `Bell` | once everything has arrived the bell is the server's list |
| `WizardFits` | `ImportWizard` | format, mapping and preview belong to the file that is imported |
| `SessionOwn` | `Session` | a tab's requests carry the token of the user it shows, and it shows that user's data |
| `ShellShows` | `RouteShell` | a page is drawn once its scripts have run; the last choice wins; no address leads to the administration without the role |
| `ExitTells`, `TwoPushesStoreAll` | `CLI` | an exit code tells what happened; the second push of a tree has stored all of it |
| `FilesRead` | `TestFile` | the parser builds what the file says; lint agrees with the server but for the values it names |
| `Ends` | most | nothing stays in "Loading...", saving or waiting; every command ends; a run that has ended is not shown as running for good |

What `server` shows (each is the conjunction of the properties its module names):

| property | of | says |
|---|---|---|
| `GitKeeps` | `GitSync` | with GitHub no push replaces a file the row was not synced from, but for one that was removed; a row says what its source says unless it was edited, and its source is that of its commit, unless a sync or a push ended during a push or a sync |
| `ImportKeeps` | `PersistImport` | keys are unique unless imports overlapped or cases were renamed; each result is attached to the test of its key or title and none is lost; importing the same again adds nothing, with "overwrite" the third time |
| `LimiterKeeps` | `RateLimit` | no key is let through more often than the window allows; Retry-After suffices and is a second too long at most; a live key is forgotten only if more keys than fit were used within a window |
| `JiraKeeps` | `JiraSync` | one active job unless two asked at once; one requirement per issue unless syncs overlapped; a sync during which Jira was quiet is complete and not refused; the status agrees with the fenced verdict of the job unless it was patched, syncs overlapped or the commit was refused; one issue per defect unless pushes met or broke off |

Each property of a passing run also has a mutant of a modelled definition (a
dropped guard, a missing column, a swapped check), kept beside the definition and
marked "Faulty", under which the run finds it violated.

### Bounds

- Two workers, two jobs: what goes wrong in a leased queue takes a holder and a
  successor; a second job is needed for starvation and for a loop that goes on
  to other work.  Each crash consumes a worker identity, so that a third would
  only repeat the second's part.  The theorems have no such bounds.
- `MaxFaults = 1`, and 2 in `server`: missed heartbeats, failing database and
  provider calls, dying requests, lost answers. Crashes and closings of workers
  are not counted, only those of executions in PipelineImport. Two faults are
  beyond TLC in useful time for the queue; the theorems allow any number.
- `MaxAttempts = 2`: two executions of one job side by side.
- `pipelines` makes one of its two dispatches (`OneDispatch`), with two
  reconcile requests that overlap until the fault strikes; `reconcile_heals` has one
  request after the other, because two of them import twice (section 5).  The client is left out of
  the GitHub half, where no property reads it, and so are the faults.
- Three cases, three or four markings: enough for a last case in each of two
  processes and for one that is marked again.
- Two viewers and three messages, two by one request: the second tells order,
  the third comes from another process and is broadcast by the bus listener
  while a local broadcast iterates over the same list.
- `Cardinality`-sized `Gens` in CIQueue's fairness bounds the attempts a thread
  can belong to: every claim after the first takes a fault or a worker.
- `RunView`: three runs of two cases, two of them listed and the third for a
  retest; two marks of the user, one of another tester, one status edit, one move
  and one fault, three of these in one behaviour.  Two runs are what it takes to be
  on the wrong one.
- `Panel`: three records, two filters, one read beyond the first, two forms, two
  changes and one fault, for every pair of rules of `AllPanels`: two of each are
  what it takes to overtake.
- `Drafts`: two edits, three saves, two failures.  `AIDrafts`: two drafts, two
  questions, two errors.  `ShownOnce`: three secrets, one lost answer.  `Bell`: a
  list of two with three notifications, so that one falls off, one loss, one
  change of user.  `ImportWizard`: two files, two formats, two choices, one
  failure.  `Session`: two tabs, two users, one with a second factor, four steps.
  `RouteShell`: four pages of which two share a script, two moves, one failed
  script, one change of role.
- `CLI`: pushes of two paths with two ids, two edits, three invocations; and every
  command line with one fault and the settings the code tells apart.
- `GitSync`: two pushes, a sync at a time and two in all, three commits, one edit,
  two contents: a push in the way of a push, with a sync or a commit between any
  two of its steps.  `PersistImport`: files of one or two cases of one title, two
  folders, with or without a key, with the run and the defect of them, or a run
  alone; stored before or not; three imports, or two side by side.  `RateLimit`:
  three keys in a table of two, two events in two ticks, a second of two ticks, five
  ticks: enough for a window to begin, end and begin again.  `JiraSync`: a board of
  two issues and a third that may come, one per page, one id taken, two askers, two
  workers, two jobs; a change, crashes and lost leases, two of these together, so
  that a job whose worker died is taken again, and none once two have asked at the
  same time; three pushes and two faults.  The theorems about `GitSync`,
  `RateLimit` and `JiraSync` have none of these bounds.
- `TestFile`: every file of up to three lines over sixteen sorts of lines, of
  four lines over six, and files whose fields take every sort of value.

The largest are `pipelines` and `server` (1.4 million distinct states each),
`sockets` and `clients` (0.9 million); each ends within three minutes.
Histories, sets of requests and the lists of `created` runs and `runs` are
bounded by these.  No run checks for deadlock: every one of these systems may
come to rest when the bounded inputs are used up (no job left, all requests
answered, all workers closed, the user gone).

### Fairness

- `CIQueue!Fairness`: the loop of a worker that is alive takes its next step
  (`_run` is an endless loop on the event loop of the process), an execution
  takes its next step (every provider call has a time-out), and a lease nobody
  renews runs out.  Nothing forces a worker to start, a heartbeat to succeed or
  a fault to happen; `QueuedJobSettles` therefore speaks of the case that a
  worker's loop is left.
- `PipelineImport!FairSpec`: reconcile requests go on.  The pipelines page sends
  one every five seconds while it shows a running row, and a request ends.
- `RunMarking!FairSpec`: a handler that has begun runs on, unless it dies.
- `MCClients!FairSpec`: `Answers`, that is, the server takes a request and its
  answer arrives, a socket delivers what is in it, the browser fires its events,
  and a process runs on.  Users never have to act.  A page whose socket was lost,
  or whose load failed, is excepted in the properties: nobody reconnects.

## 4. The theorems

`CIQueueProofs` proves, for all sets of jobs and workers, every candidate limit,
any number of faults, with and without `Prompt`:

| theorem | states |
|---|---|
| `TypeCorrect` | `TypeOK` |
| `SettledJobsStaySettled` | `NeverReopened` |
| `LiveLeaseIsExclusive` | `LeaseNotStolen` |
| `DoneImpliesImported` | `DoneMeansImported`, assuming `~ Wordless` |
| `HeartbeatsKeepTheirAttempt` | `RenewsOwnAttempt` |
| `QueueImplementsLifecycle` | the queue implements `JobLifecycle` with settlement at least once |

The argument.  `ClaimInv` is types, `LoopOK` (a loop holds a claim exactly while
it works on it), `PosOK` (a thread is at a step of its script) and `CandOK`.
`CandOK` is the heart of the claim: a candidate that was selected as abandoned is
no newer than its row, and while the row still has the selected `lease_until` its
lease is not live.  Without it the conditional UPDATE of a worker with an old
list could match a live lease.  It is inductive because every step that makes a
lease live gives it a new epoch (`StaleStaysStale`).  `RowEffect` says once and
for all how a step may change a row; the invariants are then shown against those
eight cases.  `IInv` adds `ImportOK` (a thread past its import has imported, and
belongs to a counted attempt), `HeldOK` (while a row names the supervisor, the
supervised attempt is the latest, which is why `renew_lease` need not check it)
and `SawOK` (what `finish_job` loaded is success only after an import, and
settled only if the row still is).  `RefineStep` maps each action to an action of
`JobLifecycle` or a stutter.

`RunMarkingProofs` proves, for all cases, requests and totals, wherever the
requests are handled and however many of them die:

| theorem | states |
|---|---|
| `TypeCorrect` | `TypeOK`; progress is a percentage whatever the total |
| `SomebodySeesCompletion` | `CompletionSeen` |
| `PassedRunsPassed` | `PassMeansNoFailure`, assuming `MarkedOnce`: no case is marked twice or back to pending, the total is the number of cases, statuses are not edited |

The argument.  `CompletionSeen` is inductive given types (`SeenStep`): whoever
commits a result reads the cases afterwards, and nobody who has read them all
forgets it before the message.  For the verdict, `PassInv` says that wherever
"pass" is carried (the row, a loaded row, a recomputed row, a message) all cases
have passed; this stays true of a message that is late because, once no case is
pending, no request is left that could change one (`FirstMark`, `NobodyLoads`).
Without `MarkedOnce` it is false: a late request writes "pass" over a re-marked
failure.

### While heartbeats arrive

Three properties of the queue are false in general and stated by their runs for
what they need.  `CIQueueProofs` proves them under the same conditions, for all
jobs, workers and bounds:

| theorem | states | assuming |
|---|---|---|
| `OneSupervisor` | `SoleSupervisor` | `MaxFaults = 0`: no heartbeat is missed and no database call of a loop fails |
| `QueueImplementsOnceLifecycle` | `ImplementsOnceLifecycle` | the same |
| `SettledColumnsAgree` | `StatusAgrees` | the same, and `Prompt` |

Processes may still crash and be closed at any step, and in the first two a stall
may last as long as it likes.  The argument.  `OwnOK` says that a loop owns what
it supervises, with a live lease: a lease runs out only if nobody renews it, a
claim needs a lease that is not live (`ClaimInv`), and only the owner settles.
Two supervisors would be two owners.  The step that settles a job twice would be
`finish_job` of a loop that has lost its job, or of a job that is settled;
`SettledAlready` shows that the refinement maps it to a stutter, and any other
step of `JobLifecycle` is one of its strict form too.  For the columns,
`LoneThreads` says that a worker that is neither closed nor dead has no thread
but the one it supervises, and that a thread that is over holds nothing it has
yet to write; `FinishOK` and `QuietOK` say that from the load of `finish_job` on
nobody is about to write the row, so that what it loaded is still there when it
commits the difference.  `Prompt` is what keeps the thread of a closed worker
from writing to a job that its successor has settled.

### RunMarking in one process

`CountersAreRight` states `CountersAgree`, verdict included and for all sets of
edits, assuming that one process serves all requests (`Proc[g] = Proc[h]`); with
two it is false (section 5).  `LoopHeld`:
from its first statement to its broadcasts a request has the event loop of its
process, so that no two are between their load and their commit.  `AgreeInv`: a
request that has read the run holds its counters as they are, what it computes
from the cases agrees with them, and so does the row after its commit, although
the UPDATE leaves out the columns that did not change (`WrittenAgrees`).  Status
edits run in a thread and may fall in between; they touch only the status, and
`since` then says so until a marking has read the run again.

### RunSockets

`RunSocketsProofs` proves, for any number of processes, viewers, requests and
messages, whatever the bus loses:

| theorem | states |
|---|---|
| `GaugeIsRight` | `GaugeCountsListed` |
| `TypesHold` | `TypeOK` |
| `DeliveryInOrder` | `DeliveredInOrder` |
| `MissesArePaidFor` | `MissedOnlyByDepartures` |

The argument.  `CoreOK` has the shape of the state and three facts: whoever was
found dead is not connected any more (`DeadOK`), a request carries the message it
has counted (`CarryOK`, `LocalOK`), and in all the lists of a process, registered
or not, no socket is at two places (`ListsOK`).  The gauge follows from the last:
`Prune` takes each dead socket out of at most one place, and where another has
taken it out before, the `ValueError` comes before the gauge is touched.

For the order, `OrderOK` follows a message along its way: what waits in the queue
of a process, what its listener carries and what a viewer has got are increasing
for each request (`BusOK`, `HeardOK`).  The list may change under the broadcast
that iterates over it, so `BehindOK` says of a position rather than of a socket
that whoever is at or after the loop's position has not had the message: a
removal moves sockets towards the start, so that nobody gets to or past the
position from before it, and who joins comes at the end.  `OneCarrier`: two broadcasts of one process carry
messages of different requests.

For the misses, `AudienceOK` says that viewers of the list a broadcast began with
come before those who joined later, and are in the list as long as they are
connected.  `SkippedOK` counts: those before the loop's position who were not
served are no more than those who have left.  A departure moves the others down
by one and so lets one unserved viewer pass the position, but adds one to those
who left (`SkipCount`); `Without` (in `Lists`), what is left of a list, is therefore
defined by the rank of a position among those kept.

### PipelineImport

`PipelineImportProofs` proves, for any dispatches of both providers, executions,
reconcile requests, deletions and faults:

| theorem | states | assuming |
|---|---|---|
| `RowsAreTruthful` | `RowsTellTruth`: types and `SettledRowTellsTruth` | |
| `ClientsAreTold` | `ExitCodesTell` | |
| `ReconcilingImportsOnce` | `ImportedOnce` | `Workers = {}` and one reconciler |

The argument.  `TruthOK` says of everyone who is about to write a row - a thread
(`ThreadsOK`), a request (`ReconOK`), the row itself (`RowsOK`) - that the verdict
it holds is one the provider has given, and the link leads to results imported
from that run.  Verdicts are final and imports are never taken back, so that this
stays true however late it is written, also to a row that was deleted and made
again.  `VerdictOK` adds the order within an execution: the row has its verdict
before the job is done, and only a deletion can take it away again, which is why
the property leaves deletable rows out.  An announcement that is late does not,
because a GitLab row is announced by the request that dispatched it, before there
is a job.  `ImportedOnce` is false beside an execution or a second request
(section 5); within its limits `OnceOK` says that what is imported is being
recorded, or its row is not running and no request has it on its list.

### RateLimit

`ServerProofs` proves of `LimitSpec`, for any keys, limits and sizes of the table,
with Redis and without:

| theorem | states |
|---|---|
| `TypesHold` | `LimitTypeOK`: the table is bounded, and lists each key once if and only if it has stamps |
| `WindowIsKept` | `WindowHolds` |
| `RetryAfterIsTold` | `RetryAfterIsTrue` |
| `NoneForgottenEarly` | `TableFits` |
| `LimiterIsKept` | `LimiterKeeps`: all four, as `server` checks them |

They assume `Limits`: what the constructors check (`rate_limit.py:77`) and that the
keys are finitely many; `MCServer` asserts it of its constants.

The argument.  `LimiterInv` says of each key (`KeyOK`) that its stamps are in order
and no more than fit, and four things more.  `TrackOK` relates the stamps and the
history of granted events from their ends: the last stamp is the last event, the
one before it the one before, and an event whose stamp is gone is out of the
window.  An event is granted only beside fewer than `MaxEvents` stamps, so that the
event `MaxEvents` places before it has lost its stamp: that is `WindowHolds`.
`WaitOK` says that the head of a full key is no later than the head its refusal was
computed from, since stamps only leave and an event makes the promise void.
`SpentOK` says that the last stamp of a key is no later than its last event or is
out of the window; hence all keys among which a live one had to go are in `Recent`
(`CrowdIsRecent`), and they are more than fit.  `TableOK` says that the table lists
the keys that have stamps.  The eviction itself is `DroppedIs`: it is enough that
one key goes, for the table has one too many at most.

The history needs the one event more: if `granted` kept only `MaxEvents`,
`WindowHolds` could not fail.

### JiraSync

`ServerProofs` proves of `JiraSpec`, for any board, page size, workers, askers and
pushes, whatever crashes and leases are lost:

| theorem | states |
|---|---|
| `JiraTypesHold` | `JiraTypeOK`: no two requirements share an id |
| `OneJobIsActive` | `OneActiveJob` |
| `IssuesHaveOneRequirement` | `OneRequirementPerIssue` |
| `QuietSyncsAreComplete` | `QuietSyncIsComplete` |
| `StatusIsTold` | `StatusTells` |
| `DefectsBecomeOneIssue` | `OneBugPerDefect` |
| `JiraIsKept` | `JiraKeeps`: all six, as `server` checks them |

They assume `Assumed`: a query lists an issue once, a page has one issue at least;
`MCServer` asserts it of its constants.

The argument.  `PendOK` says of the rows a sync has not committed yet that a new one
is that of its place in the list and that one it found is held once; hence no two
requirements get one id even where syncs overlap (`MergedHolds`).  While it is
alone, `AloneOK` says that the rows it found are still there, that there is none
for an issue it makes a row of, and that the id it chose is still right; so two
rows of one issue would be two of one id, which the commit refuses (`MergedSole`).
`QuietOK` says that without changes at Jira the list is the board's beginning, page
by page, and then the whole board, and that each issue dealt with has its row: a row
that is found again replaces the one of the same issue only (`IdTellsKey`,
`ListedOnce`).  A row of a quiet sync that is alone does not collide, because an id
tells its issue (`QuietIsFree`).  `SoleOK` keeps how the last job ended unknown while
a sync is under way, and `ShownOK` follows the status through it: unless it was
patched it is what the sync found until the sync writes it, and then what the sync
wrote.  That is needed because an UPDATE names only what differs from what was
read: a sync that found "active" does not write "active" with its rows.

### GitSync

`ServerProofs` proves of `GitSpec`, for all values, any number of pushes, syncs,
commits and edits, and both providers, provided that the branch has a commit at
all:

| theorem | states |
|---|---|
| `GitTypesHold` | `GitTypeOK` |
| `NothingOverwrittenUnseenHolds` | `NothingOverwrittenUnseen`, the first half of `GitKeeps` |
| `RowFollowsSourceHolds` | `RowFollowsSource`, the second half |
| `GitIsKept` | `GitKeeps`, as `server` checks it |

The argument.  `Checked` says that a push which has read holds a file that is its
row's source or absent: `PushRead` decides that, nobody else touches the push, and
GitHub's write insists on the file that was read (`Accepts`), so that what a write
replaces is one of the two.  `Following` says of every push under way, as long as
nothing else was synced or pushed, that it started from the row's source, that
what it rendered is what the row says unless the row was edited meanwhile, and
that its commit holds what it rendered.  `Seeing` says the same of a sync: what it
has read is what the row still says, unless the row was edited, synced or pushed
since; without that its UPDATE of the columns that differ would mix two rows.
`FollowingKept` shows `Following` against every action that does not commit to the
row; `SyncApply` and `PushCommit`, which do, either find nothing else under way or
remember that they crossed it.  Without the part about edits the commit of a push
would seem to take an edit for told.

### The clients

`ClientProofs` and `RunPageProofs` prove of `ClientSpec`, whatever the constants of
the pages are within what `Clients` assumes of them (`RunAssumed` ...
`WizardAssumed`, evaluated by `clients`), what that run checks of each page:

| theorem | states | inductive invariant |
|---|---|---|
| `OwnSession` | `SessionOwn` | `SessionInv` |
| `ShellIsRight` | `ShellShows` | `ShellInv` |
| `BellIsRight` | `BellTells` | `BellInv` |
| `PanelsAreKept` | `PanelKeeps` | `PanelInv` |
| `DraftsAreKept` | `DraftKeeps` | `DraftInv` |
| `DraftsBecomeOne` | `DraftsStoredOnce` | `AIInv` |
| `SecretsAreSeen` | `SecretsSeen` | `OnceInv` |
| `FittingWizard` | `WizardFits` | `WizardInv` |
| `RunShowsWhatWasStored` | `ShowsOnlyStored` | `RunInv` |

What is inductive is `part = "bell" => BellInv`, and so on: a step is one of the
part it began in.  What each invariant adds to the property:

- **Session.**  `CallCurrent`: in a tab nothing has crossed, a request carries the
  token there is.  `DataFollows`: the data shown is the user's, or asked for.
- **Shell.**  `ShellRoute`: one load is active, and it is for the page chosen.
  `ShellCover`: what a load still waits for and what is loaded are together all that
  its page needs, so that a load which shares a script with an abandoned one is not
  ready too early.  `ShellAddress`: with no event under way the address is the page's.
- **Bell.**  `LoadAlone`: while nothing crossed, a load is alone.  `BellFollows`:
  otherwise the bell is the server's list up to the messages in the socket, with the
  marks of the requests under way.
- **Panel.**  `PanelNumbers` and `PanelBorn`: forms, reads, changes and the records
  they make are told apart.  `PanelOnce`: a form whose request is under way keeps its
  button disabled, and one that may be submitted has made nothing.  `PanelAlone`,
  `PanelFollows`: while nothing raced, each row agrees but those of changes whose
  answer is to come, and of these it is known what the answer will do (`Half`).  It
  holds for every rule of the kinds in `ListRules` and `FormRules`, of which
  `PanelCatalog` has those of the actual pages.
- **Drafts.**  `TypedIsSent`: an edit made at rest is in every save under way.
  `OriginIsSent`: while no save came from a page that had not read, the old content
  is in all that is shown, read and sent.  `PageFollows`: a save that met nothing is
  the only one, and a page without changes shows what it stored.
- **AI drafts.**  `AIStored`: what the loop has behind it is stored, with its steps.
  `AIOnce`: a draft of which there is a test is never offered again.
- **Secrets.**  `OnSecurity`: one set of codes is good, and whoever waits waits for the
  only request that was not given up.  `StatusFollows`: what the page knows of
  two-factor.
- **Import page.**  `WizardCall`: a request under way is about the file on the page, and
  a look at its format is alone.
- **Run page.**  `RunStored`: what the server has, what it answered, and the list of
  the run in the header were stored.  `RunSocket`: the socket is of the run in the
  header and carries results that were stored.  `RunMarked`: so was the list that a
  mark will write back, if the mark is of the run it was taken from.

### What is only model-checked

The assumptions are those the modules state about their constants (`Jobs` is a
finite set of naturals, the bounds are naturals, sockets are finite, a request
has a process, ...), evaluated by TLC in every run, and those of the tables.

Only model-checked: liveness (`QueuedJobSettles`, `RowsSelfHeal`,
`CompletionAnnounced`, `Ends`), since fairness and ENABLED are out of the
prover's reach; and `ExitTells`, `TwoPushesStoreAll`, `FilesRead` and
`ImportKeeps`.  `CLI`, `TestFile` and `PersistImport` compute over files and
documents of any length, and what a recursive definition or a fold yields for
every input is out of reach too.

## 5. Where the code and its documentation disagree

Three disagreements are kept as runs that end in a counterexample:

- **`pipeline_two_dispatches`.**  `pick_dispatched_run` takes the newest run
  since the dispatch, "the one our dispatch started"
  (`backend/github_actions.py:125`).  With two dispatches of one workflow and
  branch the first job takes the run of the second.  What is recorded is still
  true of the run it is recorded for (`SettledRowTellsTruth`).
- **`run_verdict`.**  A request that loaded the run as pending writes "running"
  over the verdict another process has just recorded, so the run with a failed
  case stays running; `backend/tests/test_run_case_marking.py:42` expects
  "any failure → run fails".
- **`cli_repush`.**  `docs/cli.md:371` says "Sync is an **idempotent upsert**",
  and `README.md:201` that a second sync "updates in place instead of
  duplicating".  Test X was stored from a file at `a`; the file is moved to `b`
  and another, with a new id Y, is written at `a`.  The first push finds no test
  Y and takes the one at the path (`backend/github_sync.py:218`), which is X; then
  finds X by the id of `b`, and moves it there.  The second push finds nothing at
  `a` and creates Y.  Two pushes are enough (`TwoPushesStoreAll`).

Others were met on the way; they show in the same models when a bound or a
property is changed as said:

- `finish_job(error=str(exc))` tells failure by the truth of that text
  (`ci_worker.py:115`), and some exceptions have none (a bare `TimeoutError()`).
  The job is then `done` with nothing imported, and `thorotest run` exits 0, where
  `docs/cli.md:280` says that such failures exit 3 (`DoneMeansImported` with
  `Wordless = TRUE`; the theorem assumes `~ Wordless`).
- `_update_job` loads under the fence and commits by id (`ci.py:109-117`), so a
  worker that lost its job in between does write to it, contrary to the
  docstring of `LostJobLease`.  It is why `StatusAgrees` needs `Prompt`.
- Two overlapping reconcile requests import the same results twice
  (`ImportedOnce` with two `Reconcilers`); `ci.py:447` calls the endpoint
  idempotent.
- A finished run without a JUnit artifact keeps its row running
  (`RowsSelfHeal` with a GitHub row and `Uploads = {}`); `ci.py:513` says that rows self-heal.
- The client exits 0 if the row of a failed run is deleted before it reads it
  (`ExitCodesTell` without `\ Deletable`).
- Counters of a run stay behind its cases when two processes mark at once
  (`CountersAgree` with `Proc` one-to-one), or when a request dies between its two
  commits, until the next marking (`CountersAgree` without `"cut" \notin since`).
- A viewer can miss a message, be left in a list nobody iterates over any more
  (so that the gauge never counts it out), and a broadcast can end in a
  `ValueError` before it publishes (`pc = "failed"`), all because of the list
  that changes under the loop.  `MissedOnlyByDepartures` and
  `GaugeCountsListed` say how far this goes.
- `docs/github-actions-ci.md:160` says that job tracking is in memory and lost on
  a restart; the queue is durable and recovers.
- A mark that is answered after the user has gone to another run puts the cases
  of the old run under the new header (`ShowsOnlyStored` without
  `list.of = live.id`).
- Enter submits the folder form and the comment box while they are saving
  (`OncePerForm` without `guarded`): two records.  Lists that do not drop the
  answer of an older filter show it (`ListAgrees` without `raced`).
- Steps saved before they were read, or after the read failed, replace all that
  was stored (`OldContentKept` without `blind`).
- A dialog that is closed while its code is verified leaves two-factor
  authentication on with recovery codes nobody has seen (`SecretsAreSeen` without
  `missed`).
- The assistant stores a draft twice when it is asked to try again after an error
  (`NoDraftTwice` without `again`); the box for edge cases was written to avoid it.
- A 401 clears the token that is stored when it arrives, also a newer one
  (`ActsAsShown` without `crossed`).
- An answer that breaks off in the middle is exit code 2, "usage", rather than 3
  (`cli/lib/api.js:49`; the second half of the `exit = 2` clause of `ExitTells`).
- Lint accepts a title or an id that is `no`, `0` or `false`, which the server
  takes for absent, and takes `constructor` for a known alias, since every
  JavaScript object has it; by `cli/lib/lint.js:5-9` whatever the server rejects is
  an error here (`LintForetells` without the values it names).
- GitLab's write has no guard, so that a commit between the read of a push and
  its write is lost (`NothingOverwrittenUnseen` for both providers), where
  `git_push.py:26` says "refuse to overwrite".  With both, a file that was removed
  on git is created again.
- A sync or a push that ends during another leaves a row with the fields of one file and the
  source of another (`RowFollowsSource` without `crossed`), until the next sync.
- Importing the same file again with "overwrite" may add a test
  (`ReimportAddsNothing` with `again >= 1`): a case without a key takes a stored
  test by its place, a later case of the file takes the test by its key and moves
  it to another folder, and next time the first finds nothing.  A run without an
  id, as the generic JSON format has it, is imported again each time.
  `README.md:309-310` says that a re-import matches rather than duplicates.
- A case without a key is linked to the last case of its title in the file, of
  whatever folder (`_resolve_test_id`).
- An issue that moves between two pages of a Jira search is listed twice; its two
  rows have one id, the commit is refused, and since the session is then unusable
  the integration keeps its status (`QuietSyncIsComplete` without `quiet`,
  `StatusTells` without "refused").
- A sync sets an integration that a user has disabled meanwhile active again: `Show`
  writes "active" whatever the status is by then, and so does a sync that found it
  disabled.
- Two requests that push one defect, or one that is repeated after a crash, make
  two issues (`OneBugPerDefect` without its exceptions).

## 6. What is not modelled

- `backend/routers/ci.py`: the parsing of provider answers, artifacts and logs,
  and what an import contains.  An import is one atomic commit that appends a Run.
- `POST /pipelines`, with which API clients push rows of their own.
- The clock resolution of `created_at`: runs and dispatches are ordered by event.
- On the server, export and PDF of runs; the DEMO_MODE simulation; e-mail and
  webhook delivery; the start, shutdown and back-off of the event bus.
- The lease of the Jira scheduler, the deletion of an integration under its job,
  listings of repositories and the folder trees that imports and syncs create.
- Accounts, the test library, plans, requirements, defects, administration: one
  row and one transaction each.  Importers other than persistence, GraphQL and
  AI: parsing of single documents and calls of services.
- On the run page: results of single steps, attachments, assignment.
- In the rest of the client: the requirements tab of a test, exports, the forms
  for a forgotten or changed password, the search box, the state of an
  integration's own sync button, the cards of the overview, the documentation
  view, the panel of display settings, language and theme.
- Characters: a value in a test file is one of the sorts the two readers tell
  apart, a line what is left of it once its comment is stripped.

## 7. Plan

Done, in this order: `JobLifecycle`, `CIQueue` and its proofs; `PipelineImport`;
`RunMarking` and its proofs; `RunSockets`; the clients: `RunView`, `Panel` with
its catalog, `Drafts`, `AIDrafts`, `ShownOnce`, `Bell`, `ImportWizard`, `Session`,
`RouteShell`, `CLI`, `TestFile`; `GitSync`, `PersistImport`, `RateLimit` and
`JiraSync` with `ServerProofs`; `Clients` with `ClientProofs` and `RunPageProofs`.

Next, with the hazards each is for:

1. `DispatchMatch`: `created_at` in whole seconds against `since` in microseconds
   (`github_actions.py:132`), and a dispatch whose server dies before it inserts
   the job (`ci.py:377`).
2. The lease by which processes elect the one whose scheduler ticks (`main.py`),
   and an integration that is deleted under its job.
3. The demo simulation as a further writer in `RunMarking`, and the float in the
   progress of a run (`runs.py:238`).

Proofs: of the queue, the marking of runs, the sockets, the pipelines, git, the
limiter, Jira and the pages all safety properties are proved.  What is left is
the CLI and the imports, for which what they compute would have to be stated
without recursion.
