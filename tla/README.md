# justprojects in TLA+

justprojects is a project tracker whose tasks and milestones can be kept in
step with GitHub and GitLab issues. Its backend is a Go program in two parts
that share one PostgreSQL database: the API (`services/backend/internal/httpapi`)
and any number of worker processes (`services/backend/cmd/worker`). Its frontend
is a Next.js application (`services/frontend`) that calls the API from the
browser. This directory holds TLA+ modules of both, TLC configurations that
check them, and TLAPS proofs. `src/` below stands for the repository's root;
Go file names without a directory are under `services/backend/internal`,
TypeScript ones under `services/frontend/components` (its `gantt*`, `cascader*`
and `filters*` under `reui/` there).

## 1. The system

### Components, their state and their operations

| Component | State it keeps | Operations | What makes it correct |
|---|---|---|---|
| Outbox queue (`queue/queue.go`) | `outbox_jobs`: status, attempts, run_at | `Enqueue`, `Claim`, `Succeed`, `Fail`, `DeferUntil`, `RunOnce` | a job is on one worker at a time; an outcome is written to the claim it belongs to; retries end; no job starves |
| Poll scheduler and sync runs (`sync/scheduler.go`, `sync/poll.go`, import endpoint of `httpapi/server.go`) | `git_sync_states` (cursor, next_run_at), `sync_events`, advisory locks | `SchedulePolls`, `importGitProject`, `processGitPoll`, `processGitHubImport`, attach and detach | polls and imports of a pair exclude each other; the cursor passes no change that is not reconciled; attached repositories are polled for ever |
| Issue reconciliation and conflicts (`sync/processor.go`, `sync/rules.go`) | `tasks`, `task_labels`, `external_links` (the merge base), `sync_conflicts` | `reconcileIssue`, `processIssueUpdate`, `processConflictResolution`, `updateTask`, `resolveConflict` | after every job is done both sides agree except for open conflicts; no edit is lost without a trace; a link never goes back |
| Outbound creation (`processIssueCreate`, `enqueueTaskIssueCreate`) | the creation's `sync_events` row, its jobs, `external_links` | create, requeue, link, import of the announced issue | one provider issue per task, none imported back as a second task |
| Milestone synchronization (`reconcileMilestone`, `processMilestone*`) | `milestones`, `external_links` | as for issues, with due dates | as for issues |
| Webhook intake (`githubWebhook`, `gitlabWebhook`, `process*Webhook`) | the delivery's `sync_events` row, a job per accepted request | verify, deduplicate, enqueue, find repository and project, reconcile, mark | an accepted delivery is kept until it is processed; a delivery sent twice is reconciled once |
| Workflow status labels (`sync/status_labels.go`, `sync/rules.go`) | none | status to labels and state, and back | the two directions agree |
| Task and milestone API (`httpapi/server.go`) | `tasks`, `task_hierarchy`, `task_statuses`, `milestones` | create, update, move, reorder | versions refuse stale edits, the hierarchy has no cycle |
| Connections, repositories, user mappings | `git_connections`, `project_repositories`, `external_user_mappings` | connect, attach, activate, map | work only for attached repositories |
| Permissions (`permissions/service.go`) | grants and roles | `Can`, `Resolve` | decisions follow role, grant and visibility |
| Accounts and platform administration (`auth/service.go`, `httpapi/platform_admin.go`) | `users`, `auth_sessions`, `platform_settings` | register, log in, bootstrap, disable | there is always an administrator; a disabled user has no session |
| Tenants, invitations, members | `tenants`, `memberships`, `invitations` | invite, accept, change role | a tenant keeps an owner |
| Project requests, updates, notifications (`httpapi/features.go`) | `project_requests`, `notifications` | submit, review, convert | a request is converted once |
| Public pages and viewers | share links, viewers | publish, open, revoke | only published content is shown |
| Schema and migrations (`db/migrations.go`, `migrations/*.sql`) | `schema_migrations`, UNIQUE constraints | `Migrate` | each migration is applied once |
| Provider clients (`integrations/*`) | rate-limit times | HTTP requests | errors and rate limits are reported |
| Workspace: lists and board (`project-workspace.tsx`, `task-dialog.tsx`, `kanban*.tsx`) | the tasks, milestones and statuses shown, the details sheet, the edit forms, the card being dragged | load, poll, create, edit, move, roll back, drag | what is shown becomes what the server has; no save overwrites what its user has not seen; a drop asks for what was shown |
| Workspace: integrations and settings (`project-workspace.tsx`, `git-*.tsx`, `sync-*.tsx`, `customer-page-controls.tsx`) | the connection, repositories, conflicts, mappings; pages, links, viewers, the order of statuses, roles | connect, attach, import, resolve, map; publish, issue a link, revoke, reorder | overlapping changes and rollbacks end with what the server has; a link shown is the one that opens |
| Request inbox (`request-inbox.tsx`) | the list, the request selected, its form | load, edit, save, convert | one conversion per request, beside other managers |
| Platform administration page (`platform-admin.tsx`) | users, projects, settings | load, suspend, promote, revoke sessions | an administrator remains |
| Public page and bell (`public-project-page.tsx`, `notification-bell.tsx`, `project-request-*.tsx`) | access, login form, notifications, the request dialog | open, log in, poll, mark, remove, clear, request | the bell becomes what the server has |
| Gantt chart (`gantt*.tsx`) | anchor, scale and range; scroll positions; rows folded and dragged; lanes; gestures and drafts | scroll, zoom, extend, navigate, fold, reorder, move, resize, paint, expand a recurrence | the view stays where it was put; things land where they were shown; a gesture leaves nothing behind; a recurrence does not depend on the window |
| Cascader (`cascader*.tsx`) | levels and their requests, path, query, selection | open, drill, page, search, resolve, select, invalidate | the path is one of the tree; nothing waits for ever |
| Filter bars (`filters*.tsx`) | the query tree, drafts, focus, popovers, the row drag | add, edit, copy, group, wrap, move, remove, clear | no condition is lost or doubled; a row lands where it was shown |
| Other pages, configuration, generated API, translations, deployment | none that outlives one request | | no protocol of their own |

### How they interact

API requests and workers never call each other. A request writes rows and
enqueues a job, mostly in two statements (a scheduled poll is the exception: one
transaction). A worker process is one loop (`cmd/worker/main.go:68-96`) whose
`select` takes a ready ticker: one ticker calls `RunOnce`, the other
`SchedulePolls`. `RunOnce` claims a row with `FOR UPDATE SKIP LOCKED`, calls
`Processor.Process`, and writes the outcome with a statement of its own.
Several worker processes may run; `SKIP LOCKED`, the scheduler's advisory lock
("more than one worker process", `sync/scheduler.go:18-19`) and the handling of
"a concurrent create race" (`sync/processor.go:1730`) are there for that.
Provider changes come in by webhook, by poll and by import, in any order and
more than once, and all three end in `reconcileIssue`.

The pages of the frontend share nothing with each other but the server. The App
Router mounts `ProjectWorkspace` anew for every `/projects/[projectId]/[view]`. A
page shows an edit at once and takes it back when the request fails; it polls
its lists every five seconds, conflicts every three, the bell every five while
the tab is visible. No request is cancelled: answers come in any order, and the
code after an `await` runs on the props and state of the render it was started
in. The widgets of `components/reui` know nothing of the server; they report to
the component that holds their value, which may refuse or replace it.

### What is hard about it

* **Interleaving without transactions.** Reconciling reads link, task and
  provider and then writes task, labels and link one by one. A user's edit, a
  second worker or a push comes in between.
* **Lost second steps.** Event and job, task and job, issue and link, outcome
  and row: each pair is two statements, and the process may die in between.
* **No lease.** Nothing reads `locked_at`: a claimed row whose worker is gone
  stays `processing`, and everything that waits for "no active run" with it.
* **Order and repetition.** Deliveries are late, duplicated and reordered; retries
  run what was already done; a requeued event has two jobs.
* **Clocks.** Cursors are the worker's time, stamps the provider's.
* **Answers that come late.** A poll sent before a write is answered after it, a
  rollback puts back what another write has changed since, a handler goes on
  with a version, a project or a connection that is no longer the current one.
* **Renders between events.** An effect, an animation frame, a timer, a scroll
  event or a second pointer comes between two steps of one gesture; the value
  is replaced from outside in the middle of it.
* **A window on something longer.** Lanes, numbers and positions are computed for
  the range that is rendered and have to agree with those of the next range.

The hazards are listed at their lines in `PROJECT.json`, with the properties
that would catch them, or the reason why none does. Further observations made
while modelling are in section 4.

## 2. The modules

| Module | Models |
|---|---|
| `JobLedger` | what a job queue promises: one taker per job, and only the taker puts back or closes |
| `OutboxQueue` | `queue.go` and the worker's loop around it |
| `OutboxQueueProofs` | theorems about it |
| `SyncRuns` | the runs of one project/repository pair: scheduler, import endpoint, poll and import processors, cursor |
| `SyncRunsProofs` | theorems about it |
| `IssueSync` | one linked task: three-way merge, push, conflicts and their resolution |
| `IssueCreate` | one unlinked task: creation of its issue, requests that touch it meanwhile, import of the announced issue |
| `WebhookIntake` | a provider's deliveries: both handlers, and the worker on a delivery's jobs |
| `Workspace` | a mounted `ProjectWorkspace`: its lists, polls, optimistic writes, details and edit forms, over the rows of the server |
| `KanbanBoard` | the drag of a card over a board whose columns change underneath |
| `Integrations` | the integrations view: connection, repositories, imports, conflicts, mappings |
| `Settings` | public pages and their links, viewers, order of statuses, roles |
| `RequestInbox` | a manager's inbox, its endpoints, and another manager |
| `PlatformAdmin` | the administration page, its endpoints, and other administrators |
| `PublicPage` | a customer's page, bell and request dialog |
| `GanttScroll`, `GanttTree`, `GanttLanes`, `GanttDrag`, `GanttRecurrence` | the Gantt chart: its time axis, its rows, the lanes of its bars, its gestures, its recurring events |
| `Cascader` | the cascader: levels, loader, query, path, selection |
| `FilterTree`, `Filters` | a filter's query and its edits; the bars that edit it |
| `IssueSyncProofs`, `IssueCreateProofs`, `WebhookIntakeProofs` | theorems about the modules they name |
| `FrontendProofs` | theorems about `Workspace`, `KanbanBoard`, `Integrations`, `Settings`, `RequestInbox` and `PlatformAdmin` |
| `GanttProofs` | theorems about `GanttDrag` and `GanttScroll` |
| `CascaderProofs` | a theorem about `Cascader` |
| `MCClient`, `MCWidgets` | the pages and webhooks, and the widgets, in one instance each: `part` says which one a behaviour is of, the others stay in an initial state |
| `MCFilters` and the other `MC*` | the finite instances TLC checks |

One action is one database statement, one committed transaction, or one
provider request together with the code around it that touches no shared state.
Where the code holds an advisory lock over several statements they are one
action. What a process carries between statements is a variable of the process
(`seen`, `read`, `link`, `snap`, `startedAt`), never read from the database
again: that is where the stale reads are.

**OutboxQueue.** `status`, `attempts`, `runAt`, `createdAt` are the columns;
`held`, `seen`, `outcome` are RunOnce's local `job` and `err`. `Claim` is the
single UPDATE with its sub-select, ordered by `run_at, created_at`; `Process` is
the processor's answer (nil, an error, an error with a retry time); `Succeed`,
`Fail` and `DeferUntil` are the three UPDATEs. `Retry` looks at the worker's copy
of `attempts`, `Backoff` at the row's, as in the code. `ClaimLost`, `SettleLost` and
`Crash` are the ways a row is left `processing` with no worker.

**SyncRuns.** A run is an event, its job, and the handler that has committed the
first and not enqueued the second. `SchedulePairs`, `ScheduleSelect` and
`ScheduleCommit` are the plain read, the locked selection and the commit of
`SchedulePolls`; `ImportStart` is `importGitProject` up to its commit, under the
same pair lock; `CreateStart` and `UpdateStart` take no lock. A worker on a poll
goes through `PollBegin` (cursor, time, event), `List`, `Reconcile` or
`ReconcileSome`, `PollSave`, `MarkEvent` (the deferred function) and `Settle`.
A change is its provider stamp and whether it was reconciled.

**IssueSync.** `base` and `linkAt` are `field_snapshot` and `remote_updated_at` of
the link. `LoadLink`, `LoadTask`, `SaveConflicts`, `SaveTask`, `SaveLabels` and
`SaveLink` are the statements of `reconcileIssue`; `TakeUpdate`, `Push`,
`SavePushed` of `processIssueUpdate`; `TakeResolve`, `ApplyRemote`, `SaveResolved` of
`processConflictResolution`. `Blocked`, `Taken` and `Merged` are the merge's
decision, `Sent` what a patch carries. `UserOpens` and `UpdateTask` are a browser and the versioned UPDATE,
which a client of the API may send without a version; `EnqueueUpdate` is what follows it, and may
fail without an answer that says so (`httpapi/server.go:2055`, `2065-2067`). A field is of one or more of these
kinds: plain; `StatusFields`, written only when the provider changed them; `LabelFields`, in a table of their
own, outside the version; `OmittedFields`, which GitHub's patch leaves out when they are empty
(`integrations/provider.go:71`); `FlaggedFields`, which a push carries only when its job says so, and of which
none counts as the base's (assignees). The theorems are about all of them; the runs have a description (omitted), a state and an
assignee (flagged), or a title. `RemoteStamp` cuts the provider's stamps to whole seconds, so two changes may have one (`tied`).
`lost` and `unsent` are history: the edits whose job was not queued, and what the last push did not carry. The dispatch of
`httpapi/server.go:1183`, which pushes tasks again when a status changes its category, is left out; it is one more push.

**IssueCreate.** The event's delivery id is made of task and repository, so
there is one event; each `EnqueueCreate` adds a job. `InsertEvent`, `LoadEvent` and
`RequeueEvent` are the statements of `enqueueTaskIssueCreate`. `strays` counts
imported tasks whose link could not be saved. `DeleteTask` lets the task go: no handler of the server deletes
one, but the processor has an answer to a row that is gone (`sync/processor.go:1621-1624`), so the model, too, has that case.

**WebhookIntake.** `whEvent` is the status of each delivery's row, `whJob` the job each
request enqueued. `InsertDelivery`, `LoadExisting`, `EnqueueDelivery` and `MarkUnqueued` are
the statements of the two handlers, which differ only in how a connection is
found; `LoadDelivery`, `MarkProcessing`, `ResolveRepository`, `FindProject`, `Reconcile` and
`MarkEnd` those of the two processors. GitHub's takes a failed lookup of the
connection for no match and ignores whether the mark of such a delivery was
written (`StepFails`, `MarkEndFails`). `Reconcile` is one step here, `IssueSync` has the
inside of it.

**The pages** share one form. A request is a record that is sent, answered by the
server, and ended by the code after the `await`; it carries what the closure of
the render it was started in saw, so that each handler goes on with its own
stale version, project or connection. The server part of each module has the
checks the page can run into (versions, permissions, unique keys) and other
clients that change the same rows: any row of a list, the project's connection and version (`AnotherClient`,
`updateProject`), repositories and conflicts, public pages and their links (`AnotherManager`), requests, users, notifications.
`Workspace` has two lists, tasks and milestones, with their loads and polls, and the creations, saves
and moves of rows with their rollbacks; the project and its statuses come with a load; tasks and milestones are never deleted. `KanbanBoard` has the
handlers of one drag: start, over, end, cancel, and the parent's new columns
between them. `Integrations` and `Settings` have one kind of request per handler. The server part of
`Integrations` and of `Settings` is that of the endpoints in `httpapi/server.go`; `gone`, `lent` and `other` are history, the
connections taken away since they were chosen, the one the project has of an import, and the
version, or token, another client wrote last. A page for signed-in viewers (`login`) keeps its token, as a new link is
made only for one in link mode (`httpapi/server.go:2644`).
`RequestInbox` and `PlatformAdmin` have both sides: the endpoints' statements with
their locks and transactions as well as the page. `PublicPage` has three parts
that share a session: access, bell, dialog.

**The Gantt chart.** `GanttScroll` keeps the store's anchor, scale and extra periods
and the scroller's position, with React's commit and layout effects before the
next event and scroll events and frames in any order after it; a pan of the header
(`BeginPan`, `PanMove`, `EndPan`) keeps the position of its press and writes from there. `GanttTree` keeps the
tree, what is folded, the drag of a row with the rows and the list of its start, the splitter and
the two panes; `TrAllows` is the consumer's `canReorderResource`, and a row dropped where it says no stays. `GanttLanes` lays out after every change and keeps the memory of
lanes and times. `GanttDrag` has one gesture per pointer over one shared drag and
one shared draft, with every way a gesture ends. `GanttRecurrence` is
`expandRecurrence`, fast-forward included, over a small calendar with days, weeks, months and years; `Store` is
`formatRRuleString`, and keeps of a rule only what that writes.

**Cascader.** A handler is an operator from the state of the last render to the next
one; `Became` is the effects that follow it. Requests carry `live` for signal, id and
epoch. **FilterTree** writes the query as functions on node ids and the edits of
`filters-query.tsx` as operators on it; **Filters** has the handlers of chip row,
advanced panel, draft and drag, where the consumer may refuse a write and may
replace the query at any time.

## 3. The runs

| Run | Question | Instance |
|---|---|---|
| `outboxqueue_full` | Is a job on one worker, its outcome written to its own claim, its retries bounded, and is it settled in the end? Is the outbox a `JobLedger`? | 2 jobs, 2 workers, 2 attempts, 1 deferral, 1 fault, clock to 5 |
| `syncruns_safety` | Do polls and imports exclude each other, and does no window skip a change, with every kind of run, an error, a fault and an attach or detach? | 2 runs, 2 workers, 1 change, clock to 2, the provider's up to 1 behind, overlap 1 |
| `syncruns_live` | Does every change arrive, and do polls recur, when errors are reported? | as above, imports, no fault, one clock |
| `syncruns_crash` | *violated:* is an attached repository polled for ever (README 109)? | 1 worker, 1 fault |
| `syncruns_overlap` | *violated:* does a poll never overlap a provider mutation (README 114-115)? | 2 workers |
| `issuesync_merge` | Do both sides agree in the end except for open conflicts and the named differences, is the base what the provider last said, does the link never go back, and does an edit that names a version go through only on the task its user saw? | description, state and assignee with 2 values, 1 worker, 1 user, 4 time stamps, 2 waiting pushes, 1 error, every resolution |
| `issuesync_race` | *violated:* a stale delivery does not move the link back (`processor.go:706`), with two workers | title, 3 values, 5 stamps |
| `issuesync_resolve` | *violated:* an open conflict can be resolved | title, 3 values, 5 stamps |
| `issuecreate_serial` | Is every extra issue or twin task explained by a lost answer, link or process? Is a succeeded run linked, unless its task is gone? Does every open run end, when errors are fewer than attempts? | 1 worker, 2 requests, 3 jobs, 3 issues, 3 attempts, 2 errors, 1 loss |
| `issuecreate_duplicate` | *violated:* the event that owns the job makes creation duplicate-free (`server.go:1697`) | 2 workers, 1 error |
| `client` | The pages: does a save overwrite only what its user saw, do lists and bell come to agree with the server, are the connection and the links shown the server's, does a drop ask for what was shown, is a request converted once, does an administrator remain? The webhooks: is an accepted delivery kept, and reconciled once? | scenes of 2 to 4 requests of a few kinds, with up to 2 other clients' changes and a fault; 2 rows per list; 2 requests for one delivery, 2 workers, 2 attempts |
| `widgets` | Does the chart stay where it was put, do rows, bars and conditions land where they were shown, does no gesture leave anything behind, is a recurrence independent of the window, is the cascader's path one of the tree, and does it stop waiting? | one to three gestures per scene, 2 scales, trees of 5 nodes of which one and the first place are pinned, 3 events, 2 pointers, queries of up to 4 nodes |

**Why the bounds are enough.** Two jobs and two workers show every race of
claims; `RetryLimit` 2 makes the retry, the give-up and, with the deferral, the
attempt beyond the limit happen. In `SyncRuns` two run identities are reused, so
any number of runs may follow one another, and two are active together; a clock
of 2 puts a change between a poll's start and its end, which is the window the
cursor could lose (`PollSaveNow` is that mistake), and, with the provider's clock one behind, before the
cursor (`PollingSinceCursor` is the window without the overlap). The theorem `NoChangeSkipped` covers every skew up to the overlap. In `IssueSync` four
stamps allow an edit on each side, a push and a write of the worker; two
values per field make a change and its reversal; a third value, and a fifth stamp, are used where a
conflict has to recur or two deliveries have to be in flight. Three kinds of resolution are tried; `Agreement`, `BaseIsTrue` and `LinkNeverBack`
are asked of the histories in which every resolution kept the local side, because
the other two resolutions write an old provider value (section 4). In `IssueCreate` three jobs are a retry and two requeues, and `MaxTouches` 2 the creation and an edit that meets it under way or failed.
In `WebhookIntake` two requests for one delivery are the first and its
repetition, two attempts the retry and the give-up. The scenes of `client` and
`widgets` each bring together the requests or gestures that touch the same state; a scene
bounds how many are started, never the order of their answers. A list of two rows shows a row that is
lost, doubled or swapped; a tree of five nodes has a group within the root, a leaf beside it
and a nested last row, which is where the gaps of a drag differ; a week of three
days, months of unequal length and a year of two (`RcYear`) give the cases of the calendar's
arithmetic; quarters' alignment to weeks and time zones are not among them. A scene of the cascader joins a new load key with a
search at the server. Symmetry is used only for invariants and action properties, never with a
liveness property, and only over sets whose members no action orders or
chooses between.
`CHECK_DEADLOCK FALSE` is in every configuration because every model may
come to rest: a queue whose jobs are settled, a bounded clock at its end.

**Fairness.** The statement that settles a job is tried and a ticker fires again
and again: weak fairness of `Settle` and `Claim` for each worker. In `SyncRuns` and
`IssueCreate` `Claim` has strong fairness: Go's `select` picks a ready case at
random, so neither the queue's ticker nor the scheduler's is passed over for
ever, but each choice of the other disables it for a while. `HandlerEnqueue` and
the requests of `IssueCreate` are weakly fair because a handler that is not
cancelled goes on. On the pages a poll is an interval that keeps firing while the
page is mounted and visible, the server answers what it was sent, and code after an
`await` is resumed: weak fairness for each list and each kind of request (`WsFairness`, `PpFairness`).
In the cascader timers fire and requests are answered or fail (`CaFairness`). Two assumptions are not the code's own. The provider answers
each request, with an error if need be: the clients use `http.DefaultClient`
(`integrations/github/client.go:101`, `integrations/gitlab/client.go:32`), which
has no timeout, so a request that hangs would hold its worker. And the queue
runs empty now and then: the worker's inner loop (`cmd/worker/main.go:78-92`)
drains it before the scheduler gets its turn. Nothing is fair about users,
provider edits, other clients, gestures, errors or crashes.

**Liveness needs the absence of faults**, and the properties say so:
`SettledOrStranded` exempts the one job a fault stranded; `PullsRecur` and `RunEnds`
are checked with errors that are reported and without crashes, and `syncruns_crash`
shows that with one crash `PullsRecur` is lost. On the pages faults are bounded by the scene:
`Converges` and `BellConverges` say what follows the last of them.

**Type invariants** are proved rather than checked (`TypeCorrect` of `OutboxQueueProofs` and
`SyncRunsProofs`; in the others it is part of the invariant); the `TypeOK` definitions are there for reading.

**What the properties except.** Each exception is a case in which the code does something else,
named in the property and listed in section 4:

| Property | Excepts |
|---|---|
| `Agreement` | an edit whose job was not queued (`lost`); what the last push did not carry, a cleared description or an assignee without the job's flag (`unsent`; such a push also takes a remote assignee into the base); two provider changes with one stamp (`tied`); after a failure, statuses and assignees (`LeftByFailure`); histories with a conflict resolved for the provider or ignored |
| `BaseIsTrue`, `LinkNeverBack` | the same histories; `BaseIsTrue` also `tied` |
| `NoBlindEdit` | labels; an edit without a version |
| `SucceededIsLinked` | a task that is gone |
| `ConnectionAgrees` | another client wrote the project after the version shown; a connection taken away since it was chosen, even when its account has come back; a connection the project got from an import |
| `ListedLinksOpen` | pages that were listed before the answer to their creation; a link issued before another manager issued one |
| `InPlace` | an anchor the parent controls; a hidden chart; until the next act, a move of a pan whose track is not that of the press (`Astray`); it assumes bounds wider than one period |
| `LandsInTheGap` | the gaps of `Misplaced`. It speaks of the list at the press, which the drop writes over a list passed since |
| `PromisedLane` | the draft's lane where the range cuts a bar below a slot; changes of the range or of what is folded. That overlapping bars never share a lane is not a property |
| `LandsWhereShown` | a tree the consumer changed during the drag; a drop on a group's own zone, which lights no row's edge |
| `WindowIndependent` | the occurrences of `CutShort`; the numbers of additions, which depend on the range; a rule stored as text, which has neither exceptions nor additions any more |
| `PathIsTrail` | paths that were `crossed`: the user moved on, or drilled into a hit of another branch, while a branch waited for its children; went to a hit or a selected value above which the index lacks a node; or the cache was dropped under a level the options do not name |
| `CaSettles` | a query whose search a new load key dropped (`asked.lost`) |
| `EffectsExplained` | one more reconciliation for each lost mark, outside mark and overlapping job |

## 4. What the violated runs show

* `syncruns_crash`: a worker that dies between claiming a poll and settling it, or
  whose event update fails (only logged), leaves an active run for ever; the
  scheduler then defers the pair's poll each time, and imports answer 409.
* `syncruns_overlap`: creates and updates look for no active run.
* `issuesync_race`: two workers read the link, both find their delivery newer, and
  the older snapshot's `UPDATE ... WHERE id` comes last.
* `issuesync_resolve`: `UNIQUE (external_link_id, field, status)` lets a link keep
  one resolved row per field; the second conflict of a field cannot be resolved.
* `issuecreate_duplicate`: the event is `failed` while its job waits for a retry; an
  edit requeues the event and adds a second job; two workers each make an issue.

Further observations, for which there is no run of their own. A document contradicts one of them: the comment
at `sync/scheduler.go:28-30` says that "a detach or connection deactivation cannot leave new work behind", as the
transaction looks at the joins again; a detach between that look and the commit leaves a new poll all the same.

*Queue and worker.* The worker's inner loop drains the queue before the scheduler gets
its turn (`cmd/worker/main.go:78`). The provider clients have no timeout
(`integrations/github/client.go:101`). A job whose last attempts all fail before the
deferred function is set leaves its event open (`sync/processor.go:1604`).

*Reconciling.* An unpushed local edit is taken back by a delivery about another field,
because title, body, labels, milestone and assignees are written whenever the sides
differ (`processor.go:783`). A recorded conflict moves the link's time on, so the next
provider edit of the field overwrites the local value (`770`). Resolving for the
provider writes the conflict's values and time over what the link has learnt since (`1932`).
Provider stamps have a resolution of a second: the second edit within one is turned
away (`705`). Labels are replaced without a version (`httpapi/server.go:2042`), and the
job of a task's edit is lost when the link cannot be read (`2055`) or the job not be enqueued (`2065`, only logged).
GitHub's patch leaves out an empty body, so a cleared description is never pushed
(`integrations/provider.go:71`); a push without the assignees' flag takes a remote assignee into the base,
and the task keeps its own (`processor.go:1537`).
The check for cycles in the task hierarchy takes no lock: two moves can make one
(`server.go:1916`, `2100`).

*Webhooks.* A failed lookup of GitHub's connection counts as no match: the delivery is
marked succeeded and never reconciled, nor is its repetition (`processor.go:610`). A
handler that could not enqueue marks the event failed even if another
request's job has finished it (`server.go:4088`); `EffectsExplained` counts that.

*Accounts and projects.* Two first registrations can both become administrator
(`auth/service.go:313`); a change of a member's role checks for the owner in one statement and writes in another (`server.go:497`); a save beside a conversion may set the request's status back (`features.go:389`);
two processes may run the same migration at once (`db/migrations.go`). An administrator by
configuration whose account lost the flag cannot be reactivated from the page.

*Pages.* The integrations view does not read the project again, so another client's choice of a connection stays
unseen; a link another manager issues ends the one shown, and the page offers no new one while it shows one. A retry after a failed load starts with an empty project id; a rollback
undoes other changes until the next poll; a refused reorder of statuses can leave a mixture of
two orders; a late answer to a save selects its request again; the statistics of the administration
count a late answer twice; a late 401 turns a customer who has just logged in out.

*Gantt.* When the range is extended before the axis during a pan of the header, the next move writes the position from the press
and the view jumps by what was added (`gantt-view.tsx:1947`, `1962`). The drop of a row writes the list of its press over one passed
during the drag (`2075`). Storing a rule as text drops its exceptions and additions (`gantt-recurrence.tsx:116-140`), and the number
of an addition depends on the range (`376`). With both bounds reached the scroll lock is not released
(`gantt-view.tsx:1569`); a drop above a row of the top level goes into the last
group if the last row is nested (`2063`, `Misplaced`); a weekly rule with days and UNTIL drops
the days before the anchor's weekday in its last week (`gantt-recurrence.tsx:321`, `CutShort`).

*Cascader and filters.* The latch of "load more" survives a failed page
(`cascader-async.tsx:688`); a query stays "searching" after the load key changes
while it is pending or answered, since nothing asks for it again (`733-734` against `782-794`). A branch that waits for its children is appended to whatever path is open when they come
(`cascader.tsx:1677`), also after the user drilled elsewhere; a hit or a selected value above which the index lacks a
node opens on a path that begins below the root (`cascader-lib.tsx:412`). A refused removal leaves the focus at a chip that does not
exist (`filters.tsx:815` against `800`); text typed into a cell is lost when a new value
comes from outside (`filters-advanced.tsx:616`).

## 5. What is proved

The theorems hold for every value of the constants that satisfies the module's
named assumption; TLC evaluates those assumptions on its instances.

`OutboxQueueProofs` (assumption `QueueAssumption`: the limits are naturals, the
retry limit, cap and bump positive, `NoJob` is no job and no worker):

* `TypeCorrect`, `ExclusiveClaims`, `OwnClaimWritten`, `SettledStays`,
  `StrandedOnlyByFaults`, `RetriesEnd`, and `OutboxImplementsLedger`, the
  refinement of `JobLedger`.
* The inductive invariant, `RowInv`, says of every worker that holds a job that the row is
  `processing` with the attempts the worker saw, that no other worker holds
  it, and that a worker without one has no outcome to write. `Exclusive` alone is not inductive: a claim takes only `pending` rows, so one
  must know that held rows are not pending. The bound on stranded rows is a
  counting argument: a fault adds at most the one row it hits, and every other
  step adds none.

`SyncRunsProofs` (assumption `RunsAssumption`, whose one substantial part is
`Skew <= Overlap`: the provider's clock is behind by no more than the second that
`pollingSince` subtracts):

* `TypeCorrect`, `PullsExclude`, `NoChangeSkipped`, `CursorNeverBack`.
* `Shape` ties the pieces of a run together: a claimed job is `processing` and held by
  one worker, a handler's event is there before its job, and only polls and
  imports read. With it `OnePullPerPair` is inductive, because a claimed run stays
  active until its job has left the queue, whatever its event says. `CursorInv` adds what a
  worker on its way knows: its start lies at or after the cursor and no later than the clock,
  and a change it did not fetch is newer than its start minus the overlap. Since there is one
  puller, its save moves the cursor forward and skips nothing.

`IssueCreateProofs` (assumption: `CreateAssumption`: finitely many issues, a positive retry limit, bounds that are naturals;
`NoJob` and `NoIssue` are none of theirs):

* `SucceededRunsLinked`, for any number of workers: with `Shown`, a worker is done only when
  the link is there or the task is gone; nothing takes a link away, and no task comes back.
* `NoIssueOnceLinked`, `IssuesAccounted` and `TwinsAccounted`, for one worker (`OneWorker`, a
  hypothesis of the theorems; `issuecreate_duplicate` shows that it is needed). `Fresh` says that what the worker read is
  still so when it acts on it; `Books` counts issues and stray tasks against what was
  lost, plus the issue that is or will be linked, plus the task being imported.

`IssueSyncProofs` (assumption `SyncAssumption`: the kinds are sets of fields, statuses are of no other kind and no label is
flagged, the empty value is a value, bounds are naturals):

* `EditsSeeTheTask`, for any workers and users: every write of a versioned field moves the
  version on, so equal versions mean equal fields (`Viewed`); an edit that names no version is none of the theorem's.
* `LinkKeepsForward`, for one worker: what it read of the link is still so at its write, and
  the stamps it carries lie between the link's and the provider's (`Forward`).
* `SidesAgree` and `MergeBaseIsTrue`, for one worker: task, base and provider agree at rest, except
  for open conflicts and what the properties name. `Merging` says it of every state: a link older than the provider has news
  on its way (`NewsDue`), one as new has the provider's fields as its base (`BaseNew`); where the
  task differs, a push is waiting, a conflict is open or the difference is one of those excepted (`Followed`, `TaskNew`); and a worker in the middle of
  its writes carries exactly what makes this so again (`Held`). All but `Followed` and `Held` need that the provider's last
  two states have two stamps.

`FrontendProofs`, of each page by itself (`KbSpec`, `WsSpec`, `IgSpec`, `SeSpec`, `IbSpec`, `PaSpec`):

* `DropsWhereShown` (assumption `ColumnAssumption`: no card is a column). A drop reorders or commits the columns of that moment, and
  of these only the one that holds the card can change; `Dragging` says that only cards are dragged and that a
  cancelled drag puts back columns.
* `SavesSeeTheRow`, for any rows, fields and other clients. A save carries the version of the copy its form was
  filled from, and the row it is accepted over has that version (`SoundSaves`): polls replace the list underneath a
  form, never the copy the form holds.
* `ConnectionShownIsTheServers`, for any connections, overlaps, lost requests, lost answers and other clients, from no assumption. Once a change has
  failed, the notice is there or will come, and it stays (`Warned`). Before that the view is in step (`InStep`): no closure holds a newer
  version than the view shows, and the view is behind the row by at most one change of its own, the one that was taken and
  not answered, and by what other clients wrote (`other`), which leaves it behind for good. Unless another client wrote after it, that change's answer
  brings what the project has, and every other change in flight is from an older version, which `updateProject` refuses. What disconnections and imports do to the row without a new version is what `gone` and `lent` record.
* `ShownLinksOpen` (assumption `SettingsAssumption`: scenes are well-formed and begin with no page excused), for pages in either mode and with other managers. `LinksHold` relates the list, the tokens shown and the answers still
  under way to the server's rows: a list that was read names only pages that exist, a page whose creation is not answered is
  not shown or is excused, and one whose link is being issued shows none until the answer, which brings the row's token; or a token of another manager's is the later one (`Current`, `OthersIssued`).
* `AdministratorRemains` (assumptions `SelfIsUser` and `Governed`: finitely many users, an active
  administrator to begin with). Requests are authorized before the lock and may come from somebody
  who is no administrator any more; the count under the lock is what carries the proof.
* `RequestsConvertOnce` (assumption `KeysAreKeys`: every key that is used is one). A row names
  the project it was converted into, and the UPDATE that enters it, in the transaction that makes the
  project, asks for a row that names none; `Sound` is what requests and tab must be for that to be well-formed.

`GanttProofs`:

* `GesturesLeaveNothing`, for any bars, pointers and ways a gesture ends: the drag of the store is that of
  a bar a pointer still has, the draft that of a pointer still painting (`Owned`).
* `ViewStaysPut` (assumption `ScrollAssumption`: periods are positive, a pane shows something at every zoom, the window may
  grow by at least one period, and bounds are wider than one period). `InPlace` speaks only of a view with everything
  rendered, and of no pan whose track has changed (`gsAim` is `Astray`); `Positioned` gives the phases in between what the next commit needs: `Navigated` a period
  at the anchor and no travel to respect, `Buffering` an axis that has grown since it was rendered, `Zooming`
  and `Extending` the remembered instant. Three facts about the scroller carry it: what is parked stays parked;
  an extension that is not refused changes the axis, so that there is a commit (`Extends`); a remembered instant is on the axis, or nothing overflows (`ParkClamped`).
  The last condition on bounds is needed: if one period reaches both bounds, the
  buffer is refused on both sides, nothing is rendered again, and the "re-run after the range
  grows" that would centre (`gantt-view.tsx:1569-1576`) never comes; the chart stays at its start.

`CascaderProofs` (assumption `CaAssumption`: the source is a finite tree, and lists in a level, in its pages and in
the options, only nodes whose parent that level is; a tree is what has no set of nodes in which every parent lies again):

* `OpenPathIsATrail`, for any tree and depth, any pages, options, hits and failures, and any number of acts. Until the path
  is crossed, two things are kept. `Store`: what a level fetched is listed there at the source, and whoever asks
  for a level, a timer or a request under way, names a node the loader has seen; otherwise `runLoad` would ask for
  the root in its place and file the root's page below the level. `Place`: the path is a trail of nodes the loader
  can name, and a branch that waits for its children belongs at the end of the path, or below the part of it that will be kept.
  `Resting` adds that the row a hover timer will drill into is still on the list.
* A handler runs through several functions of the state, then through the effects of the render, each of which may load,
  cancel or land; so `Sound` is stated of a state, shown of each function, and put together at `Became`. The one
  recursive definition on the way, the chain of ancestors that `getCascaderPath` walks, is shown to exist for every
  tree from the largest set of nodes for which it does, since the lowest node outside would extend it.

`WebhookIntakeProofs` (assumption `WhAssumption`: finitely many workers, a positive retry limit):

* `AcceptedDeliveriesKept`. With `Earned`, an event that says succeeded, and a worker that is
  about to say it, have a reconciliation or a dismissal behind them; so a duplicate that is answered without
  a job owes nothing.
* `DeliveriesReconciledOnce`, by a tally: the reconciliations of a delivery, plus the workers on it
  that may still add one, are at most one more than its excuses, as every worker that starts
  beside another enters one (`Tally`). When nobody is on it and it is not
  marked, there is not even that one.

Only model-checked:

* Liveness and the properties that rest on fairness: `SettledOrStranded`, `ChangesArrive`, `PullsRecur`, `RunEnds`,
  `Converges`, `BellConverges`, `CaSettles`. They are out of the prover's reach.
* `WindowIndependent`, `PromisedLane`, `LandsInTheGap`, `OneTree` and `LandsWhereShown`: what they say of trees, lanes and
  recurrences is computed by folds and recursive functions, and a proof would be an induction over the data.

## 6. Not modelled

* Milestone synchronization: `reconcileMilestone` and the milestone jobs repeat the protocols of
  `IssueSync` and `IssueCreate`, with due dates.
* Status labels and `Permissions.Can`: pure functions without state, with unit tests.
* The provider clients' HTTP and JSON, signatures and payloads: their outcomes are nondeterministic.
* Registration, bootstrap and sessions, tenants and invitations, the migration runner: one request or
  one statement each; what is worth knowing of them is in section 4.
* Of the frontend: the login page, the portfolio dashboard, redirects, the shell, toasts and the
  updates panel, which send one request at a time and show the answer; layout, keyboard focus beyond
  the filter bars, tooltips, translations and the generated types.
* Values are compared, never computed: which label stands for which status is outside `IssueSync`.
