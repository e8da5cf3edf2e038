# A verification of basa

basa is a web console that publishes applications to many Kubernetes clusters.
Its backend (`src/src/backend`, Go) is an API server over MySQL and the API
servers of the clusters, with an optional worker process over RabbitMQ; its
frontend (`src/src/frontend`, Angular) is nine tenths of the code, and much of it
is one page, one dialog and one form, copied for each kind of resource and edited
by hand. This directory holds TLA+ modules of both, the TLC configurations that
check them, and theorems that TLAPS proves. Backend paths below are relative to
`src/src/backend`, frontend paths (`portal`, `admin`, `shared`) to
`src/src/frontend/src/app`.

## The system: an inventory

Parts in bold are modelled, wholly or as "components" in `PROJECT.json` says.

| part | state | operations | hard behaviours | what makes it correct |
|---|---|---|---|---|
| **publish status** `models/publish_status.go` | the table `publish_status`: which template is online in which cluster | `Publish`/`Add`, `DeleteById`, reads | overlapping transactions, failure between statements, transactions left open | one row per cluster; an operation happens at one instant or not at all; nobody waits for ever |
| **deployment pipeline** `controllers/kubernetes/deployment`, `controllers/openapi/deployment.go`, `resources/deployment`, `models/deployment.go`, `models/publish_history.go` | the Deployment object in each cluster, the replica metadata, the history, `publish_status` | deploy, upgrade, restart, scale, modify replicas, offline | no transaction spans cluster and database; conflicts, lost answers, crashes, overlaps | the table names what runs; nothing is recorded that never ran; nothing runs unrecorded |
| **cluster managers** `client`, `initial/client.go` | a `sync.Map` of clients with running informers | `BuildApiserverClient` by a timer and by each miss, `Manager` | builders overlap; a channel closed twice panics; rows that cannot be built | the registry follows the table; no stopped manager is handed out; nothing is stopped or started twice |
| **RabbitMQ bus and audit worker** `bus/bus.go`, `cmd/worker`, `workers` | connection, channel, worker set, `audit_log` | `Run`, `processMessage`, reconnect, stop | redelivery, reconnection, a stop signal in between | no message is lost or written twice on a connection; the queue is served again after a reconnection |
| **portal resource pages** `portal/<kind>`, `shared/base/resource` | selection, tabs, templates, status entries, dialogs | tabs, list, create, delete, poll, publish, offline | answers in any order, after a change of tab, after the page was left; requests that fail one by one | what is shown, polled and deleted is what the user chose |
| **administration pages** `admin/<kind>`, the portal's pages of members, webhooks, API keys and apps, `shared/client/v1` | list, trash, dialog, confirmation box | list, create, edit, delete, restore | a dialog reopened before an answer; broadcast confirmations; listeners that stay | the dialog is never stuck; what is saved or deleted is what was asked for; the list comes true |
| **template forms** `portal/<kind>/create-edit-<kind>tpl` | the object in the form's own units | open, change, edit as text, save | a form used before its template was read; conversions to and fro | what was not changed is kept; what was not read is not saved |
| **Kubernetes administration pages** `admin/kubernetes`, `shared/base/kubernetes*` | chosen cluster and namespace, list, editor, migration dialog | switch, list, edit, create, delete, migrate | a cluster switched while answers are under way; caches that lag; other hands | the list is that of the chosen cluster; a text goes where it came from; a migration is whole |
| **kubernetes proxy** `client/handler.go`, `resources/proxy` | caches of the informers | one API call each | reads from a cache that lags | (as the pages that use it) |
| event bus and webhooks `bus/newbus`, `workers/webhook`, `models/webhook.go` | one handler; `web_hook` rows | `RegisterHandler`, `Publish`, `Process`, CRUD | a goroutine per message | - |
| users, groups, namespaces, apps, permissions | membership tables | CRUD, `Migrate`, `AddUser` | several statements without a transaction | members and apps of a namespace move together |
| API keys and the OpenAPI base | `api_key` rows | permission checks | scopes of keys | a key admits its scope only |
| publishing of the other resources `controllers/kubernetes/*`, `resources/*` | the objects, `publish_status`, the history | as deployment's deploy, without metadata | as the deployment pipeline | as the deployment pipeline |
| resources and templates, bills, notifications, links, configuration | one table each | CRUD | - | - |
| login, resource listings, terminals, pods and nodes, allocator, start-up, utilities, routers | none, or one session | reads, remote calls | a terminal's reader that is gone; a crash half-way through start-up | - |
| other views and the types of the web interface | none | reads | - | - |

How they interact. A page or a dialog sends requests and takes their answers
whenever they come; nothing cancels them. A request enters a controller. The
deployment controllers ask the **cluster managers** for a client, change the
object in the cluster, call **publish status**, write the metadata and the
history, and hand an event to the event bus. The timer and the requests share the
registry of managers; the requests share the database, which is the only place
where they synchronise. The pages of one console share one confirmation box and
one deletion dialog, through which they can meet although they are never shown
together. `PROJECT.json` lists every hazard at its line, with the properties that
cover it or the reason why none does.

## The modules

| module | models |
|---|---|
| `PublishStatus` | `publish_status` of one resource and the transactions on it, one action per statement; the refinement mapping to `StatusBoard` |
| `StatusBoard` | what callers are promised: one template per cluster, replaced or cleared at one instant |
| `DeployPipeline` | the requests that publish one deployment; takes the database actions from an instance of `PublishStatus` |
| `ClusterManagers` | the registry of cluster clients |
| `AuditWorker` | the worker process and the broker |
| `PortalPage`, `PublishDialog`, `ResourceKinds` | a portal page; the publish dialog it contains; what the copies differ in |
| `AdminPage`, `AdminKinds` | an administration page with list, trash and dialog; what the copies differ in |
| `TemplateForm`, `FormKinds` | a template form; the conversions and what the copies differ in |
| `KubePage`, `KubeKinds` | an administration page on objects in the clusters; what the copies differ in |
| `MC...` | the instances TLC checks |
| `PublishStatusProofs`, `DeployPipelineProofs`, `AuditWorkerProofs`, `ClusterManagersProofs`, `PortalPageProofs`, `AdminPageProofs`, `TemplateFormProofs`, `KubePageProofs` | the theorems about the module in the name |

Definitions named "Mutant of ..." are wrong variants of the operator that
follows them. Nothing refers to them; they show which bug each property rejects.

### PublishStatus

State: the committed rows; per goroutine the statement its call is at, its
arguments, the row it replaces and the row it has inserted; what the call
returned; and what calls left behind (`leaked`, `orphanLocks`). The actions
follow `Publish` (`Begin`, `Select...`, `Delete`, `Insert`, `Commit`, each with its
failure) and `DeleteById` (`Read`, `Remove`).

What is modelled of MySQL is what this code meets (`src/_dev/basa.sql` declares
InnoDB tables, and no isolation level is ever set):

- a plain SELECT takes no lock and sees committed rows; the Publish model
  reads them at one instant, its first statement, where REPEATABLE READ takes
  the snapshot;
- a DELETE waits for a lock that another transaction holds on the row, and
  deletes nothing, without an error, when the row has gone. Two publishes that
  replace the same row thus both insert;
- `MaxConns` is `max_connections`: a further `Begin` or statement fails. beego's
  pool sets no limit of its own, so nothing waits for a connection;
- a lock-wait timeout is the failure of the DELETE (`"delete"`, `"remove"` in
  `Faults`). MySQL rolls back only the statement, the code returns without
  Rollback: that is `Abandon`;
- a failing `Commit` commits nothing (or is the crash of the connection), and
  the code returns nil. `reply` is then "lost" where a commit that succeeds
  replies "ok": the callers cannot tell them apart (`Published` of
  DeployPipeline), the properties can;
- the death of the process rolls back what was open (`Crash`).

`One()` of a query that matches several rows returns any of them.

`Serial` states an assumption on clients, not on the code: nobody starts a
publish to a cluster while another one to it is in progress. It is how one
person uses the UI (one request per checked cluster), and nothing enforces it.
Runs with `Serial = FALSE` do without it.

### DeployPipeline

Per cluster a Deployment object (template, replicas, `resourceVersion`), the
replica metadata, the history rows, and per goroutine a request: its kind, what
it has read, where it stands. `publish_status` and its transactions are those of
`PublishStatus`, as an instance over the same variables; a request is in
`"called"` while its transaction runs. Two history variables, `applied` and
`unsettled`, only record.

- deploy: `ReadRow`, `CheckResourceAvailable`, `GetOld`, `Write`, `CallStatus`,
  `StatusReturns`, `UpdateMeta`, `Record` (`KubeDeploymentController.Create`);
- upgrade with `template_id` (`publishDeployment`): the same without quota and
  metadata; an upgrade of several clusters runs them one after the other, each
  as such a request;
- restart and scale: `GetObject`, `GetByCluster`, `GetOld`, `Write`, `CallStatus`
  ... (`updateDeployment`); scale ends with the metadata;
- modify replicas: `GetObject`, `Write`; offline: `DeleteObject`, then `DeleteById`.

The API server is external: a create fails if the object exists, an update
unless it carries the current `resourceVersion`. An answer can be lost after the
server has acted (`WriteFails`, `DeleteObject`). The quota check passes or fails
at will. A selector that does not match is the failure of `GetOld`.

### ClusterManagers

The table of clusters, the registry, the managers whose informers run, and per
goroutine (the timer and requests) the step of `BuildApiserverClient` it is at.
Each operation on the `sync.Map` is an action. A row's `conf` stands for master
and kubeconfig; `BadConfs` are those the loop skips (no master, a kubeconfig
that does not parse; whether a client can be built depends on nothing else, as
`api.GetResourceMap` is a fixed table). `status = "deleted"` is the deleted flag.
Closing a closed channel, or asserting the type of a missing entry, panics: beego
recovers it in a request; in the timer `wait.Forever` raises it again and the
process restarts with an empty registry (`Panic`). `GetAllNormal` fetches only
normal clusters, so no manager is ever built of a maintaining one and `Manager`
answers "not exist" where `ErrMaintaining` (client.go:32) was meant.

### AuditWorker

The loop of `run` (`main`: dial, make the workers, wait for their group, wait for
the connection to close), each worker's `Run` with the delivery in its hands and
those that wait in its channel, the signal handler, and the broker: the queue,
what it has pushed and not got acknowledged, and who publishes. When a
connection closes the broker takes back what was not acknowledged; it may come
back without its queues (`"wipe"`), and then the next worker cannot consume, since
`queueDeclared` is never reset. `RecoverableWorker` is one iteration of the loop:
the lock of the package is released before the next, so a signal fits in between.
Qos is not modelled: it is set on the channel that declares the queue only, and
what a worker does with a delivery is the same. Messages of the webhook worker
are not audit messages; its `Run` is the same code.

### The pages of the frontend

All four modules model one user, one console and a server: what the user can do
next, the requests under way (a set of slots), and the answers, which arrive in
any order, late, after the component was destroyed, or as errors; an error may
come after the server has acted. A callback does what the code's callback does
with the state that is current when it runs, which is the point: nothing in the
code relates an answer to what is shown by then.

Every component exists as several hand-made copies, and the bugs of such code are
in the copy that was not edited. `ResourceKinds`, `AdminKinds`, `FormKinds` and
`KubeKinds` therefore hold one record for each copied component, dialog, trash,
client or form, mapped to its file, whose fields say what its handlers do; the
actions of the page modules read the record of their kind. A record stands for
its whole component: the handlers whose control all copies have in common are
written once, as actions of the page module, and the record says in which way
each copy takes part in them.

- `PortalPage`: the first request, tabs, lists of templates with the clusters that
  run them, status requests counted per entry index, the deletion dialog (which
  belongs to the whole portal), creation, leaving; another user who publishes.
  `PublishDialog`, which it extends, has the requests per checked cluster and
  `forkJoin` where the copy uses it.
- `AdminPage`: list, dialog with its read and its save, list of owner names,
  confirmation box, trash, restoring, switches in a row, leaving for the trash or
  for another kind of row. The tables are what the pages make of them: a row is
  live, in the trash, or gone.
- `TemplateForm`: templates are never changed, each save stores another; a text is
  a record of facets, the parts that are converted; what a form stores as it shows
  it is left out. `FormKinds` has the conversions as operators, units and line
  breaks included.
- `KubePage`: the clusters and their caches, the chosen cluster and namespace, what
  the browser remembers, list, deletion, editor, the reread and merge of the
  kinds that have no namespace, the form of persistent volumes (which waits for its
  save and, after an error, can be submitted again), the migration of an object to
  a resource and a template. An object has an incarnation (`uid`), a
  `resourceVersion`, the text of its spec and the rest, which other hands change.

## What the runs check

| run | instance | result |
|---|---|---|
| `status` | 2 goroutines, 2 clusters, 2 templates, 3 rows ever, 2 connections, every failure, publishes to a cluster one at a time | `TypeOK`, `SerialOneRow`, `NoOrphanLocks`, `ImplementsBoard`, `PublishedStaysPublished`, `CallsReturn` hold |
| `status_duplicates` | 1 cluster, overlapping publishes, no failure | `OneRowPerCluster` is violated |
| `deploy_serial` | 2 goroutines, 2 clusters, 3 requests of any kind, every failure but commit's, serial | `TypeOK`, `InSyncUnlessUnsettled` hold |
| `deploy_overlap` | 2 goroutines, 1 cluster on which a template runs, 2 requests of any kind, every failure but a crash and a lost history row | `RecordedWasApplied`, `AppliedIsAudited`, `OnlyPublishChangesTemplate`, `RequestsEnd` hold |
| `deploy_replicas` | 2 clusters, deploys only, nothing fails | `ReplicasRecorded` is violated |
| `managers` | 1 cluster, the timer and a request, rows that cannot be built, 2 changes of the row | `TypeOK`, `RegisteredIsOpen`, `AloneIsClean`, `Converges` hold |
| `worker` | 2 messages, 2 consumers on each of 2 connections, every fault | `TypeOK`, `NothingIsLost`, `OncePerConnection`, `StaleAreStopped`, `QueueIsServed` hold |
| `worker_rerun` | 1 consumer, the connection is lost | `FailedIsRerun` is violated |
| `page` | 6 kinds of page, 2 resources, 2 clusters, 2 requests and 2 status requests under way, 2 actions of the user, 1 of others | `TypeOK`, `SelectionIsAsked`, `ShownIsTrue`, `LeftPageIsSilent`, `DeletesWhatWasAsked` hold |
| `admin` | 11 kinds of row, each with the pairs of actions in which it differs, 2 rows, 2 requests under way, 3 actions | `TypeOK`, `DialogRecovers`, `ListIsTrue`, `DeletesAsAsked`, `SavesWhatWasOpened` hold |
| `form` | 7 kinds of form, one stored template that differs from the plain one in one part or cannot be converted, 2 openings, 1 change each | `TypeOK`, `UnchangedIsKept`, `UnreadIsNotSaved`, `BusyIsSaving` hold |
| `kube` | 5 kinds of object, 2 clusters, 2 requests under way, 3 actions | `TypeOK`, `ShownIsOfCluster`, `TextIsItsOwn`, `MigrationIsWhole`, `OthersAreKept` hold |

The violated properties state what a comment of the code says of it; "findings" in
`PROJECT.json` quotes the comments:

1. Overlapping publishes to one cluster leave two rows, and no later publish
   removes both.
2. Deploying to two clusters at once, as the UI does, loses one replica count; a
   later upgrade deploys with the wrong one.
3. A worker whose `Run` failed is never run again, and one that fails while the
   others are being made blocks the loop for ever.

What the properties of the pages except is as telling as what they say. Each
exception is a conjunct with a name, and stands for what the code does do:

- `ShownIsTrue`, `ListIsTrue`, `ShownIsOfCluster`: a list whose answer was overtaken
  by an older one stays, until the next request (`muddled`);
- `ShownIsTrue` also where an overtaken list of tabs made the page select otherwise
  (`oldTabs`), and for a resource the page itself has deleted: when the list that
  follows fails, its address selects it again and nothing asks for its templates;
- `SelectionIsAsked`: an overtaken list of tabs brings a deleted tab back
  (`oldTabs`); the pages of deployments and those built on `shared/base/resource`
  ask for templates before they select (`early`), so that after a deletion the
  templates of the deleted resource are shown under the next tab;
- `LeftPageIsSilent`: the page of autoscalers never unsubscribes;
- `DeletesAsAsked`: pages that share a target (`SharedTargets`) hear each other's
  confirmations, and delete a row of their own with that id;
- `DialogRecovers`: a dialog whose list of names has not come, whose text is no
  JSON (namespaces), or that names a user that does not exist, throws or returns
  with its flag set and can never be submitted again;
- `SavesWhatWasOpened`: a read that is answered after the dialog was opened again
  fills the new one, and the dialogs of members keep the row of the last opening;
- `UnchangedIsKept` lists what a form cannot show (`Shows`): limits without a unit
  are read as Gi, a request of its own is replaced by a percentage, a strategy
  left to Kubernetes becomes the form's default;
- `UnreadIsNotSaved`: where the conversion of a stored template throws, the form
  shows and saves its defaults;
- `TextIsItsOwn`: kinds without a namespace merge a text into the object of the
  same name in the cluster chosen by then (`strayed`);
- `OthersAreKept`: kinds with a namespace drop `resourceVersion` and overwrite what
  others changed since;
- `MigrationIsWhole`: a migration that is begun or submitted before the answers of
  the last one mixes the two (`hurried`), and when a request fails the resource is
  left without a template; with that of another object it is not left.
- `QueueIsServed`: a `Run` that failed, a signal, and a broker that forgets its queues
  each end the service for good.

Where what is excepted is the hazard itself, "hazards" in `PROJECT.json` says so in
its note.

### Bounds

- Two goroutines show every overlap of two calls; `MaxId = 3` rows are enough for a
  row to be replaced, and replaced again. Two templates are needed to replace one
  by another. Two connections can be exhausted by one leaked transaction and one
  call. What more goroutines add is in the theorems.
- Three requests (`deploy_serial`) are enough for one to publish, one to replace,
  and one to read between the two; `deploy_overlap` starts from a published
  deployment instead and needs two. It has one cluster because only
  `ReplicasRecorded` relates clusters, and `deploy_replicas` has two.
- `Managers` bounds the managers alive at once, not those ever built: a stopped
  one that nothing refers to is used again (`Garbage`). Four are enough for one
  in the registry and one in the hands of each builder, with one left over.
- In `worker` a message can be in flight on the first connection when it is
  delivered again on the second; `StaleAreStopped` compares the two. The last
  connection is not lost, or nothing could be served.
- Symmetric sets (`Symmetry`) are those of model values that no definition orders
  or names: goroutines, templates and clusters in `deploy_serial`, the slots of
  requests, the rows of `admin`. No run with symmetry checks liveness.
- On the pages, two requests under way are enough for one to overtake the other,
  or to come after what the other has changed. `MaxNet`, `Slots`, `MaxPolls` are
  no waiting in the code: behaviours with more requests are left out.
- `Workloads` and `Cases` split the actions of a page into sets that are looked at
  together, and one instance checks all of them. A set names actions that read
  what the others of it write: tabs with deletion and creation, tabs with status
  requests, tabs with publications, each with leaving. `DistinctKinds` and `Cases2`
  leave out kinds whose records are equal to those of a kind that is there.
- `MaxId`, `MaxRequests`, `MaxChanges`, `MaxActs`, `MaxOthers`, `MaxOpenings`, `MaxStored`
  and the `MaxConns` of the worker end a behaviour. The runs that may stop for
  that reason, or because all is done, allow deadlock.

### Fairness

Goroutines that can run do run: weak fairness of `Proceed`, `Step`, `Work`, `Loop`,
`Run`. It is on the disjunction of what a call can do next, so a failure may be
what happens. Clients, administrators, failures and crashes are never forced.
Strong fairness of `Delete`, `Remove` and `StatusStep`: InnoDB grants row locks in
the order of the requests, so a waiting DELETE cannot be overtaken for ever. The
timer fires again and again (`wait.Forever`), and its query succeeds now and then
(`SF` of `GetAllNormal`), without which the registry could not follow anything. The
broker delivers (`WF` of `Delivers`). The pages have no fairness: an answer may
never come, and what they promise is safety.

## What is proved

For every value of the constants that their named assumptions allow (bounds are
naturals, `None` is no element of the other sets, some set is finite or not empty); no run
is needed to believe them, and each states a property that a run checks too, or
the invariant behind it.

`PublishStatusProofs`, for every number of goroutines, clusters, templates and
connections, and every set of failures:

- `TypeCorrect`, `TypeInvariant`. `TypeOK` is not inductive: that an inserted row
  is a `Row` needs that a call that publishes has a cluster and a template. `Holds`
  adds that, that a call replaces rows of its own cluster only, and that before
  the commit it has inserted one row for it.
- `OneRowWhereSerial` (`Spec => []SerialOneRow`). The commit keeps one row per
  cluster if the call replaces every row its cluster has *now*, several steps
  after its SELECT. `OneRowInv` says so (`Replaces`), and that nobody else is
  publishing to that cluster (`Sole`), since another insert would break it.
  `DeleteById` may take the row meanwhile: it only makes the set smaller.
- `OrphansLockNothing` (`Spec => []NoOrphanLocks`). Inductive as it stands: every
  abandoned call is at its SELECT or its DELETE.
- `OnlyDeleteByIdClears` (`Spec => PublishedStaysPublished`), without any
  assumption on clients: a commit that deletes a row inserts one of the same
  cluster, by `TypeInv`.
- `StatusImplementsBoard` (`Spec => ImplementsBoard`) under `Serial`. `Commit`,
  `SelectSame` and `Remove` map to the operations of the board, a failed commit to
  the loss of a publish, calls that report failure to refusals, all else to
  stutters. It needs one row per
  cluster (what clients read is a function of the table), and `IdInv`, that no id
  is given twice, so that a removal clears one cluster. What
  the assumption leaves out is real: without `Serial` finding 1 applies.

`DeployPipelineProofs`, for every number of goroutines, clusters, templates and
requests, every mix of requests and every set of failures. The transactions on
`publish_status` are those of an instance of `PublishStatusProofs` over the
same variables (`PSP`), so that its invariants hold of them here: what that
module assumes of its constants is `StatusAssumption`.

- `TypeCorrect`, `PipeInvariant` and `OnlyAppliedIsRecorded` (`Spec =>
  []RecordedWasApplied`). `PipeInv` says of each request which kinds may be where
  (`Placed`), which object it carries (`Carries`) and that its cluster ran the
  template it is about to name (`Truthful`). That a template is named truthfully
  is decided long before the row is written: restart and scale take it from the
  table, so what is in the table, or on its way into it in another goroutine's
  transaction, must have run too (`TableRan`).
- `OnlyPublishersChangeTemplates` (`Spec => OnlyPublishChangesTemplate`). By
  `Carries`, an object that was read carries a `resourceVersion` no newer than the
  cluster's, and if it is the same, the template is; and the API server accepts
  no other.
- `AppliedGetsAudited` (`Spec => []AppliedIsAudited`). `Audited` narrows the
  property to what is inductive: a template that ran has a history row, or a
  request past its write owes one (`Owes`) and still names that template.
- `SettledIsInSync` (`Spec => []InSyncUnlessUnsettled`). With one request for each
  cluster (`OnePerCluster`), a step is about one cluster and leaves what the
  requests of other clusters rest on (`OthersAgree`). `Tells` says that what a
  request will tell the table is what its cluster runs, from its write until its
  call returns; `Told` that the table says it when the call has succeeded;
  `Calls` that the transaction is about that cluster, an offline's too: it was
  given the id of a row of its cluster, and `IdInv` of the table keeps any later
  row from taking that id. The commit then leaves one row by `OneRowInv`.

`AuditWorkerProofs`, for every number of messages, consumers and connections and
every set of faults, from one inductive invariant `WorkerInv`:

- `WorkerTypes`, `NothingIsEverLost`, `WrittenOncePerConnection`,
  `StaleAreAlwaysStopped`. That a message is written no more often than
  connections were made is a count, which no step can keep alone: `Budget` says
  that every writing, past or to come (a message in a worker's buffer or in its
  hands, be its connection lost or not), has a connection of its own, and that one
  is left for a message that waits in the queue. It needs that a message is at one
  place (`OnePlace`), that what is pushed is pushed to a live worker (`PushedIsLive`), and that what is about to be acknowledged
  was settled (`AckedIsSettled`), which `NothingIsLost` rests on too. `StaleAreStopped`
  needs that workers are made in order (`MadeInOrder`).

`ClusterManagersProofs`, for every set of clusters, requests and managers, from
`RegistryInv`:

- `ManagersTypes`; `RegisteredIsAlwaysOpen`: builders overlap in every way, and
  panic, but a goroutine that closes a manager is the one that then replaces or
  deletes it, and a new manager is in nobody else's hands (`NewIsFresh`); a manager
  never leaves its cluster (`OneCluster`), so that a close for one cluster cannot
  stop another's.
- `TimerAloneIsClean` (`AloneIsClean`): while no request builds, the other
  goroutines hold nothing (`OthersIdle`), and what the timer holds is in the
  registry until it closes it (`TimerAlone`).

`PortalPageProofs`, for the nine kinds of page (`KindFacts` reads their records),
every set of resources, every finite set of clusters (`IsFiniteSet`: the list of
templates numbers them; they are the rows of a table), every number of requests
under way, every workload, from `PageInv`:

- `PortalTyped`, `PortalInvariant`. The entries of the list are a sequence without
  gaps because the ordinals of a finite set of numbers are 1 to their number
  (`OrdinalIs`).
- `PortalSelectionIsAsked` (`SelectionIsAsked`). While something is under way
  little can be said of the tabs, and so `TabsAreClean` says it only when nothing
  is. What it needs meanwhile is of the requests: the latest answer for the tabs
  names no deleted resource (`AnswersAreClean`; of those requests one is the latest,
  `NetIsWell`), the first request of a page meets an empty page (`FirstIsAlone`),
  and a page with nothing selected has deleted the resource of its own address
  (`SelectionIsWell`), which those with the base class would otherwise select.
- `PortalListIsTrue` (`ShownIsTrue`). `ListIsRight`: the list is right or a newer one
  is on its way; `AnswerIsRight`: and that one is right; where "right" (`Right`)
  allows that some request of the dialog has changed a cluster and will refresh
  the page when it returns (`Dirty`). That `forkJoin` returns after the last of its
  requests, failed or not, is why it will.
- `PortalDeletes` (`DeletesWhatWasAsked`), `PortalLeftIsSilent` (`LeftPageIsSilent`):
  only `Confirm` sends a deletion, of what the dialog names; and after leaving it
  finds no listener, and no answer starts a poll, but on the autoscalers' page.

`AdminPageProofs`, for all 37 kinds of row (the run has 11), every set of rows and
every finite set of slots, from its own `PageInv`:

- `PageTyped`, `PageRecovers` (`DialogRecovers`), `PageDeletes` (`DeletesAsAsked`),
  `PageSaves` (`SavesWhatWasOpened`). One page listens at a time (`OneHears`), and
  the box names the target of the page that asked (`BoxIsOfAsker`). What the dialog
  is filled with is what it was opened for as long as only the read of its last
  opening has filled it (`FilledAsOpened`).
- `PageListIsTrue` (`ListIsTrue`): the latest list holds what the table held since
  its last change (`LatestIsTrue`), or something that will ask again is under way
  (`TrueOrAwaited`). For lists that hold every row one needs that no row is ever
  deleted but for good (`NoneTrashed`), for switches that they write back the
  deleted flag they read (`SwitchesKeep`).

`TemplateFormProofs`, for the nine forms and every bound on templates, openings
and changes, from `FormInv`:

- `FormTyped`, `FormInvariant`, `FormKeepsUnchanged` (`UnchangedIsKept`),
  `FormSavesWhatWasRead` (`UnreadIsNotSaved`). The property relates a stored
  template to the one it was read from; the text has gone through the form, the
  editor and back any number of times. `Faithful` says, facet by facet, that
  the text which the form would write now still says what was read, and
  `WellWritten` the same of what is saved. It carries over a round through the
  form because what was shown can be written (`Shows`), and what was written is
  shown as it was: the lemmas about `Shown` and `Written`, one per facet.
- `FormIsReleased` (`BusyIsSaving`), both ways: a busy form has a save of its own under
  way or has thrown, and while a save of its own is under way it stays busy,
  whatever is answered to the saves of forms that were left. With `OneSave`.

`KubePageProofs`, for all kinds of object, every set of clusters, every number of
requests and of other hands, from `KubeInv`. `NoCluster`, the value of what is
chosen before the clusters are known, is assumed to be no cluster.

- `KubeTyped`, `KubeInvariant`; `KubeListIsTrue` (`ShownIsOfCluster`): as on the other
  pages, a list is right, or one that will be is on its way (`LatestIsRight`,
  `ShownOrAwaited`). It needs that before a cluster is chosen nothing is under way
  (`NothingYet`).
- `KubeTextIsItsOwn` (`TextIsItsOwn`): `OwnText` of every copy there is: the object,
  the cache, what is shown, edited, or carried by a request, as any of them
  may be written.
- `KubeOthersAreKept` (`OthersAreKept`): a copy of the `resourceVersion` that the
  object has now has its rest too (`NoLater`), and the API server accepts no other.
- `KubeMigrationIsWhole` (`MigrationIsWhole`): while nobody hurries one migration is
  under way, and its dialog still holds the object that gave the resource its
  name when the resource is answered (`OneMigration`). From it follows what holds
  whatever fails, that no entry gets the template of another (`TemplatesAreOwn`).

Some attempts failed for a reason, and changed the model:

- `ShownIsTrue` was too strong. Neither of its last two exceptions was in it, since
  the run's bounds are below both counterexamples, on the page of services: with
  three actions of the user an overtaken init answer (20 states), with four a
  deleted resource that is selected again (18 states). With the exceptions, TLC
  finds no violation on these instances either.
- `Opened` of `TemplateForm` was a CASE with overlapping guards. TLC takes the
  first that holds, TLA+ any; the code's conditions are in order, and so it is
  IF ... ELSE now.
- In `KubePage` a request for a resource carries no number before it is answered,
  a reread happens only on kinds that merge, and the dialog's object is as
  well as what is shown: TLC's states said so, nothing did. In `TemplateForm`
  the unit of a bare number has a name (`"bare"`).

Only model-checked: the liveness properties `CallsReturn`, `RequestsEnd`, `Converges`,
`QueueIsServed` (fairness and ENABLED are out of the prover's reach).
`ReplicasRecorded`, `OneRowPerCluster` and `FailedIsRerun` are violated: they are the
findings. The conversions of `FormKinds` are proved to keep what `Shows` allows for
the texts that are modelled, which are finitely many; that sums and sequences of
any length are converted as these are is not proved (induction over data).

## What is not modelled

- The classes under `shared/model`, a third of the frontend: they mirror the types of
  Kubernetes and of the tables field by field and hold data only.
- The parts of the inventory in plain type, for the reasons in "components".
  Event bus: its one handler is registered at start-up, before any request, so its
  lock is never contended; what follows a message are goroutines that nothing
  waits for. CRUD of single tables and permission checks: one statement each.
  Login, terminals, pods: remote calls. The allocator is imported by nothing.
- Of the deployment pipeline: the images mode of upgrade (it writes new templates),
  the arithmetic of the quota, creation and logical deletion of deployments;
  webhook events, which no modelled state depends on. Several API server
  replicas would each have a registry of their own and share the tables as
  goroutines of `PublishStatus` already do, except that they crash one by one. The
  removal of `Garbage` informers by the Go runtime is idealised.
- Of the worker: `Notify` of the API server, whose `bus.DefaultBus` is never set
  (`initial/bus.go:9` is commented out), so that `Publish` of the model stands for
  whoever publishes to the exchange.
- Of the pages: the portal page of volume claims, pods, terminals, publish history,
  the order of tabs; namespace migration, password reset, notifications, starred
  apps in detail; custom resources, images of robin volumes, taints and labels of
  nodes, units of the form of persistent volumes; sorting, paging, layout and
  messages. A page of objects in the clusters is not left in the model: its
  component holds no timer and no subscription to a dialog of the whole console.
