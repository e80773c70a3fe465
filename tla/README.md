# NovaPanel: a TLA+ verification project

NovaPanel is a hosting control panel. A Go API process (`backend/`) keeps its
state in PostgreSQL and Redis, changes managed servers by running shell scripts
on them over SSH, and tells browsers about it over WebSockets. This directory
holds TLA+ models of the parts of that process whose correctness depends on the
order of steps, the configurations that model-check them with TLC, and theorems
about them that TLAPS checks.

Paths below are relative to `backend/internal/` unless they start with
`backend/`. `PROJECT.json` maps every definition to the lines it models, lists
the hazards of the code with the properties that cover them, and has one mutant
(a plausible bug) per checked property.

    tlc -config QueueSafety.cfg MCTaskQueue.tla     # a run, see "Runs"
    tlapm TaskQueueProofs.tla                       # the proofs of a module

## 1. Inventory

### How the system hangs together

An HTTP request reaches a handler (`handlers/`), which calls a service
(`services/`). Three things can then happen outside the request:

* **a goroutine** on `context.Background()` runs a script through
  `provisioner.RunScript` and perhaps writes a row afterwards. Nothing serialises
  two such goroutines and nothing restarts one. This is the pattern of domains,
  PHP versions, databases, FTP, firewall, mail, WAF, server modules, transfers,
  key installation, billing events and updates;
* **a task** is pushed to a Redis list and taken by one of three workers
  (`queue/`), which runs its handler. Handlers are registered for `server_setup` and for
  `nginx:configure`; the second is enqueued for load balancers only, whose
  domains have no server_id, and always returns an error without one;
* **a ticker** in `backend/cmd/api/main.go` calls a service every so often
  (metrics, alerts, schedules, licence).

Every script goes through one process-wide **pool** of SSH connections. Progress
and metrics go to browsers through one **hub**. All statements are single SQL
statements (transactions are used in four places: migrations, the INSERTs of a
new domain, SetModules, and a password reset), so PostgreSQL orders them and the
interleaving of calls is that of their statements and scripts. A restart of the
process kills every goroutine and leaves rows, Redis and servers as they are.

### Components

| Component | State | Operations | Hard behaviour | What makes it correct |
|---|---|---|---|---|
| Task queue, workers (`queue/`) | Redis list, table `tasks`, three goroutines | Enqueue, Dequeue, Complete, Fail, Stop | two stores without a transaction, re-sent commands, restarts, hung handlers | a handler starts at most once; the row tells the truth; verdicts stick; nothing waits beside an idle worker |
| SSH pool (`provisioner/pool.go`) | `sync.Map` of clients, a mutex per entry, `lastUsed` | getOrDial, runSSHPooled, cleanPool | racing dials, a probe that goes stale, eviction under a running script, session limits | no corpse in the pool; one connection per key; one retry hides one failure; no call hangs on a mutex |
| WebSocket hub (`websocket/hub.go`) | map of clients, a buffered channel each, a broadcast channel | register, unregister, broadcast, pumps | two closers of one channel, slow browsers, disconnects at any step | never panics; never blocks the caller; no gaps; disconnects leave nothing |
| File transfers (`services/transfer_service.go`) | `transfer_jobs`, a goroutine per run | create, preview, run, cancel, retry, delete, schedules | the row and the run are tied by nothing | an active transfer has a run; progress and status agree; cancel means cancel |
| Licence (`services/license_service.go`) | field `status`, `system_settings` | Verify from a ticker and two handlers, Activate, persist | no lock, answers that come late, outages | memory and settings agree; outages cost nothing; it converges |
| Domains (`services/domain_service.go`) | `domains`, the vhost file and what is loaded of nginx and of Apache, certificate | Create, Update, Delete, SwitchDomain | Delete during Create, failing certbot, broken `nginx -t`, a change of web server, a status set by a request | server and row agree; the row gets its verdict from its own Create or a request |
| PHP versions (`services/php_service.go`) | `php_versions`, packages | Install, SetDefault, SwitchDomain, Uninstall | check-then-act, purge after install | active means installed; one default |
| Databases, FTP/SFTP, firewall, mail (`services/{database,ftp,firewall,email}_service.go`) | a table each, accounts, keys, rules, map lines | create, delete | script before, beside or after the DELETE | server matches rows |
| Server setup, modules (`provisioner/setup_handler.go`, `services/server_modules_service.go`) | `servers.setup_status`, `server_setup_logs`, `server_modules`, the server | server_setup task, Enable, Remove, SetModules | two setups at a time, a panic or restart in the middle | what is reported is installed; the status sums up the logs |
| Terminals (`handlers/ssh_handler.go`, `docker_exec_handler.go`) | a WebSocket, a connection to a shell, up to three goroutines | bridge a shell on a server or in a container | each goroutine blocks in its own read or write and is woken only by another's Close | it ends when either side does; nothing stays open |
| Authentication, sessions (`services/auth_service.go`, `middleware/auth.go`) | `users`, `user_sessions`, Redis set `revoked_tokens` | login, second factor, refresh, logout, revoke, reset | two records of one token, the second written by a goroutine; revocation beside refresh | the list of sessions shows the tokens that are accepted; a backup code works once |
| Request limits (`middleware/ratelimit.go`, `login_limiter.go`) | Redis counters and a lock | INCR, EXPIRE, SET, DEL | a crash or a reset between INCR and EXPIRE | a limit ends |
| Alerts, metrics (`services/alert_service.go`) | `alert_rules`, `alert_incidents`, samples, a mail per incident | rules, samples, a pass of EvaluateRules once a minute | the pass acts on rows it read at its start; lookups that fail | an incident is open exactly while its threshold is exceeded |
| Billing (`handlers/stripe_handler.go`) | plan columns of `users`, invoices | checkout, cancellation, webhook events | each event is answered at once and applied by a goroutine; repeated and reordered | the user has the plan it pays for |
| Panel update (`services/update_service.go`) | a bool without a lock, three settings | check, update | two requests test and set the bool; the process restarts itself | one update at a time; 'complete' means pulled |
| Servers (`services/server_service.go`) | `servers`, `server_metrics`, keys on the hosts | create, update, delete, heartbeat, SSH key installation | the key is stored by id after minutes of remote work | the key of a row opens its server |
| WAF (`services/waf_service.go`) | `waf_configs`, rule and address lists, main.conf, what nginx runs | UpdateConfig, lists | a goroutine per change | nginx runs the engine of the row |
| Accounts: teams, API keys, resellers (`services/{team,apikey,reseller}_service.go`) | `users`, `reseller_quotas`, `api_keys`, invitations | allocate, register, suspend, keys, invite | three statements without a transaction | a client has one reseller |
| Applications, deployments (`services/{app,deploy}_service.go`, `handlers/webhook_handler.go`) | `applications`, `deployments`, deliveries, an in-flight map | create, deploy, push | simultaneous deliveries; the row just inserted cannot be read back | one push at a time; what is recorded runs (it does not) |
| Backups (`services/backup_manager.go`, `backup_service.go`) | `backups`, files on the server | back up, restore, delete | a script, then a row in a request that may be gone; file names by the second, so that two scripts may be at one file | a completed backup has its file |
| Start-up (`backend/cmd/api/main.go`, `database/migrate.go`) | `schema_migrations`, the master's row, discovered databases and domains | migrate, register, discover, serve | two processes that start together; a restart at any step | each migration is committed once; one master; nothing registered twice |
| Docker (`services/docker_service.go`, `handlers/docker_handler.go`) | the daemon's containers, images, networks; a table of stacks that stays empty | create, duplicate, start, stop, remove, prune | several calls per request with others in between | what was reported as created and started has run |
| Kubernetes (`services/k8s_service.go`) | rows of clusters; objects of the cluster | scale, restart, suspend, run a job, delete | read, edit and write back beside the cluster's own controllers | no change undoes another |
| Cron (`services/cron_service.go`) | the crontab on the server, none of the panel's | list, add, update, delete | lines named by a number on an old page; read-edit-install pipelines that overlap | the crontab has the jobs asked for |
| Settings and mail (`handlers/settings.go`, `services/smtp_service.go`) | `system_settings`, live fields of the service | save, reload, send | keys stored one by one in the order of a map; two reloads; restart | mail goes out with what was saved |
| Cloudflare, services, files, database browser | rows of a token or a zone, or none | one remote command or API call per request | none | - |
| Audit log, configuration and crypto | append-only rows; constants | - | none | - |
| Agent, automation service, frontend, installer | none that the API depends on | - | - | - |

## 2. Modules

| Module | Code | State and actions |
|---|---|---|
| `TaskQueue` | `queue/queue.go`, `queue/worker.go` | `queue` is the Redis list, `row` the table; one action per Redis command, SQL statement and branch of the worker loop. Faults: an LPUSH whose reply is lost (go-redis sends it again), a BRPOP whose reply is lost, failing commands and statements, a restart, Stop |
| `TaskDelivery` | what callers rely on | the abstract specification: oldest first, each entry to one worker, a verdict only from the worker that has the task |
| `SSHPool` | `provisioner/pool.go` | one key; `slot` is the `sync.Map` entry, `lock` the entries' mutexes, `conn` each client. A thread per call plus the cleaner, one step per map operation, lock, probe, dial and close |
| `Hub` | `websocket/hub.go` | the hub goroutine, a handler and two pumps per client, broadcasters, and the browser's end as environment |
| `Transfer` | `services/transfer_service.go` | `status`, `progress` of a row per job; `pc` of each `executeTransfer`; one action per UPDATE and per handler |
| `License` | `services/license_service.go` | `mem` is the field `status`, `db` the persisted settings, `grant` the licence server's answers; `Verify` is a sequence of steps of each of several calls |
| `Background` | the shape of `services/*.go` | a call and the goroutine it leaves; scripts that fail, statements whose error is dropped (`GoLost`, which records the call in `lost`), restarts. Extended by all that follow but `Terminal` |
| `Domains` | `services/domain_service.go`, SwitchDomain of `php_service.go` | `row`; per web server `site` (the vhost file) and `served` (what it loaded); `cert`; and each call's own copy of the row, with the status its request `named` |
| `PhpVersions` | `services/php_service.go` | `reg` (the table) against `fpm` (the packages) |
| `Resources` | `services/{database,ftp,firewall,email}_service.go` | `rows` against `remote`; five services with one shape and five orders of script and DELETE; `bare` are the databases without a server |
| `ServerSetup` | `provisioner/setup_handler.go`, ProvisionServer, `services/server_modules_service.go` | `setup`, `log`, `enabled` (tables) against `present` (the server) |
| `Terminal` | `handlers/ssh_handler.go`, `docker_exec_handler.go` | the handler and the goroutines `out`, `err`, `in`, each at `read`, `write` or `close`; `conn` and `peer` are the two connections; the browser and the shell are environment |
| `Sessions` | `services/auth_service.go`, `handlers/auth.go`, `middleware/auth.go` | `issued`, `listed` (the table), `revoked` (Redis); the second factor, its backup codes, password reset |
| `Limits` | `middleware/ratelimit.go`, `login_limiter.go` | the two counters, whether each has an expiry, the lock; one action per Redis command |
| `Alerts` | `services/alert_service.go` and its tickers | `rules`, `sample`, `open` incidents; a call is one pass, `todo` the rows it has read |
| `Billing` | `handlers/stripe_handler.go` | `stripe`, `paid`, `due` are Stripe's side; `plan`, `sub`, `customer`, `months` the row of `users`; a call is one delivery |
| `PanelUpdate` | `services/update_service.go` | `applying` is the flag, `told` what the hub was told; pulls and restarts of two containers; the check and its settings |
| `Servers` | `services/server_service.go`, `handlers/server.go` | a row per call, `authorized` the key each host lets in; SetupSSHKey as read, install, log in, store |
| `Waf` | `services/waf_service.go` | `row`, `file`, `running`, and each call's own copy of the row |
| `Accounts` | `services/{reseller,apikey,team,auth}_service.go` | one client: `creator`, `quota` per reseller, `apiKey`, `invites` |
| `Deployments` | `services/{app,deploy}_service.go`, `handlers/webhook_handler.go`, `websocket.go` | `inFlight` map, `rows`, `started`, deliveries |
| `Backups` | `services/backup_manager.go`, `backup_service.go` | `row` per backup, `files` per path, written from the step `Script` to the step `Finish`; `shared` the files two scripts were at |
| `Startup` | `backend/cmd/api/main.go`, `database/migrate.go` | `applied` and `ran` per migration, `masters`, `known`; a call is one process |
| `Containers` | `services/docker_service.go`, `handlers/docker_handler.go` | `state`, `name`, `origin` of a container per call, images, one network. DeployStack panics before it does anything |
| `Kubernetes` | `services/k8s_service.go`, `handlers/k8s_handler.go` | `objs` with the version the cluster checks, `got` the object a call has read |
| `Crontab` | `services/cron_service.go` | `lines` of the crontab (jobs, their comments, what sed garbled), `page` the list the operator sees, `read` what each pipeline has read |
| `MailSettings` | `handlers/settings.go`, `services/smtp_service.go` | `stored` rows, `live` fields, the keys each request has `left` |

`MC...` modules give the constants small values. `MCHosting` composes the five
modules of what the panel does to a server (domains, PHP versions, `Resources`, `ServerSetup`,
`Terminal`), `MCPanel` the fifteen of its own services (`Sessions` and what
follows in the table). Their modules share the calls of `Background` and nothing
else, so a behaviour moves one of them, `part`, chosen at the start: the state
spaces add up instead of multiplying, and one run checks them all. A
property there is often the conjunction of those of several modules.
`...Proofs` modules hold the theorems.

`TaskQueue` and `ServerSetup` meet in the worker: `Dispatch` and `HandlerReturns`
of the first bracket what the second models as a call (`Handle` to `Finish`).
`SSHPool` is under every action that runs a script; the other modules take a
script to succeed, or to fail with or without effect as the code of its caller
tells the two apart. `PanelUpdate` uses the hub as `BroadcastReturns` of `Hub`
allows: a broadcast ends.

## 3. Runs

All runs set `CHECK_DEADLOCK FALSE`, because every instance is finite: requests,
messages and troubles run out and the system then rightly stops.

| Run | Bounds | What it shows |
|---|---|---|
| `queue_safety` | 2 tasks (one of a type nobody registered), 2 workers, 2 faults, 1 restart | `AtMostOnce`, `HonestRow`, `RunningHasOwner`, `TerminalIsFinal` |
| `queue_live` | 3 tasks, 2 workers, fair | `ImplementsDelivery`: the queue refines `TaskDelivery`; `WorkConserving`, `RunningSettles` |
| `queue_late_insert` | 2 tasks, 2 workers, no fault | **violated**: `FinishedIsMarked` |
| `pool_safety` | 3 calls and the cleaner, 6 clients, 1 trouble | `ClosedLeavesPool`, `KeepOnlyOne`, `RetryCovers` |
| `pool_live` | 2 calls, 4 clients, 1 session per connection, 2 troubles, fair | `EveryCallEnds` |
| `hub` | 2 clients, channels of capacity 1, 3 broadcasts, fair | `NeverPanics`, `NoGap`, `BroadcastReturns`, `DisconnectCleans` |
| `transfer` | 2 jobs, 3 runs, 1 lost UPDATE or restart, fair | `ActiveHasRun`, `ActiveSettles` |
| `transfer_cancel` | the same | **violated**: `CancelSticks` |
| `license` | 1 key, the checker and 1 request, 1 key change, 1 change of the server's answer, 1 trouble, fair | `PersistedIsCurrent`, `OutageKeepsPlan`, `Converges` |
| `hosting` | 3 calls (4 for PHP versions), 2 versions, 2 modules, 1 failing script or restart; 1 terminal with 3 bytes each way; fair | the domain, PHP, resource, setup and terminal properties below |
| `panel` | 2 to 5 calls, 1 fault or restart | the properties of the panel's own services below |
| `deploy_never_runs` | 2 calls, no fault | **violated**: `RecordedIsExecuted` |

### Why the bounds are enough

* Queue: two workers are enough to race for one entry and to work on different
  ones; the second task is there to be in front of or behind the first. Two
  faults let one fault meet another (a re-sent LPUSH and a lost UPDATE).
  The third task of `queue_live` makes tasks outnumber workers, which
  `WorkConserving` needs.
* Pool: an entry can be found dead by one call, replaced by a second and deleted
  by a third, so three calls. A call dials at most twice, so `MaxClients` is
  twice the number of calls and never limits. One session per connection makes
  refusal happen as soon as two calls meet.
* Hub: a capacity of one makes every channel full after one message; three
  broadcasts fill a client's channel, the broadcast channel and leave one waiting.
  A gap needs two clients and three messages.
* Transfer: three runs let a job be retried twice while its first run is alive.
* Licence: the two overlapping calls are the checker and one request; more add
  writers of the same kind. The second key is the trial's. 1,398,879 states.
* Hosting: the hazards are pairs of calls on one row plus a third that sees the
  result. Calls are interchangeable and are started in order of their names, which
  loses no behaviour up to renaming. In `ServerSetup` two requests overlap or
  three follow one another; two SetDefaults need two installs before them, hence
  the fourth call for PHP versions. An Update request names one column
  at a time (`OneColumn`), and of the statuses `provisioning` or `active`, which stands
  for all the others. Two web servers, since a domain can be moved from one to the other.
  299,867 states.

* Panel: a race of two requests and a third that sees the result, so three
  calls; four where the race is between requests that need an account or an
  application first; five webhook events, so that two subscriptions can be bought,
  charged and ended out of order; two processes that start; two
  writers of a cluster's object (its controllers are a third) and two saves of
  settings. One fault or restart. `BillingBounds` of `MCPanel` cuts what the property
  does not speak of (nothing is explored behind a fault or a late checkout), lets Stripe act
  only between goroutines, which cannot tell, and asks only the first subscription for a second
  month. `Billing` itself takes checkouts to be
  completed in the order in which they were begun. `Chosen` fixes what a call is about when a
  module does not use it. Two backup paths, one of them BackupFull's (`FullPaths`), since its
  script makes the file at its end. 1,281,955 states.
* Terminal: three bytes each way and one byte of window make both writes block.

### What the hosting properties say

`ProvisioningHasWorker`, `OwnerDecides`: a row in `provisioning` belongs to a
goroutine that will decide it, and nobody else does, even if the row was deleted
and created again under the same name. Update writes whatever status a request
names (`services/domain_service.go:697`), so a request may put a row to
`provisioning` or to a verdict as well (`named`), and Create drops the error of its
last UPDATE, which for a domain without a server is on the request's context
(`lost`); both are exceptions of the two properties, since then nobody decides. `ServerAgrees`, `ServerMatchesRows`: calls
that do not overlap keep server and table in step; the exceptions are named in
the invariants (the vhost of a load balancer outlives its row, since Delete finds
no server_id; an Update that moves a domain to the other web server leaves the file of
the first, and a Delete removes only the file of the second; a Delete that a foreign key makes fail has already removed the
vhost; deleting a firewall rule, forwarder or key takes equal ones with it).
`ServesTheFile`: each web server serves what its file says unless Update switched SSL
on, whose branch for obtaining a certificate (`services/domain_service.go:739`)
compares the request with the row it has just written and is dead.
`OneDefault` (with `SwitchedVersionStays`): the registry of PHP
versions has one default, never lost, and a domain keeps the version it was
switched to; Uninstall drops the errors of its two SELECTs (`lost`), and a check that
could not be made is passed. `InstalledIsThere`: an active PHP version is installed
(`ActiveIsInstalled`), and, whatever overlaps, a module logged as completed is on
the server (`ReportedIsInstalled`). `ServerMatchesRows` includes
`ActiveDatabaseIsThere`: a database shown as active exists. `SetupSumsUp`: setup_status
is the summary of the logs of the last setup. `RowsAreDecided`: every waiting row
gets a verdict unless the process dies, its UPDATE fails or a request set the status. `NothingLeftOpen`, `TerminalEnds`: when the
browser closes a terminal or the shell exits, every goroutine returns and both
connections are closed, unless the shell does not read what was typed.

Several of these hold only without overlap or faults, and say so in their
premise: that is what the code gives, since nothing in it serialises calls. The hazards these premises name are real, and
`PROJECT.json` says at each which premise of which property leaves it out. The
premises are needed: without any one of them, or of the exceptions, TLC finds a
counterexample within the bounds of the run. Two exceptions: without its premise
`ActiveDatabaseIsThere` fails only with four calls (two Deletes that overlap,
the second one's DROP after the next Create), and `RetryCovers` only with a
second trouble.

### What the panel properties say

* `ListIsTruth` (`Sessions`): once the goroutines have ended, a token is listed
  exactly when it would be accepted, for every order of logins, refreshes,
  revocations and resets, but for a row written between a SELECT and the DELETE that
  follows it. With it `CodesConsumed`: a backup code that let
  somebody in is gone, unless another call was at work or the UPDATE that removes it
  failed, whose error TOTPVerify discards (`services/auth_service.go:285`).
* `CountersExpire` (`Limits`): a counter that holds back an address has an
  expiry, or the request that will set it is at work.
* `IncidentsAreCurrent` (`Alerts`): a finished pass leaves exactly the incidents
  the latest sample calls for.
* `BilledRight` (`Billing`): when all events were applied, in whatever order, the
  row names the subscription bought last, or the community plan if that is over.
* `OnceOnly`: `OneUpdate`, `OnePush` (one delivery of a push at a time, and the
  in-flight mark is never left behind), `OneReseller`, `MigratedOnce`,
  `RegisteredOnce`.
* `SaidIsDone`: `CompleteMeansPulled`, `CreatedRuns` (`Containers`),
  `CompletedHasFile` (`Backups`: the file is there, and whole unless something failed or
  two scripts of one second were at it), `ChangeSticks` (`Kubernetes`),
  `JobsStay` (`Crontab`), `SettingsAreLive` (`MailSettings`).
* `ServerFollowsRows`: `KeyWorks` (`Servers`: the panel's key in a row opens its
  host, also when two rows are about one host), `MasterOpens` (`Startup`),
  `EngineFollowsRow` (`Waf`).

Their premises name what the code does not survive: a second token written
during a revocation (`slip`), a lookup that failed (`misread`), a late checkout
(`late`), two requests that both found the flag down (`raced`), two goroutines on
one server (`crossed`), two scripts at one file (`shared`), an old page, or a slash, ampersand or
backslash in a cron line (`outdated`, `mangled`), an UPDATE whose error is dropped (`lost`), a save that failed or a restart (`behind`). Each is a
variable that the steps set when it happens, so it is visible how little is excluded.

### Fairness

Goroutines that can run are scheduled, so every internal step of a goroutine is
weakly fair. A script that runs over SSH has no deadline (`session.Run` in
`provisioner/pool.go`): that it ends is not
part of the fairness of `TaskQueue` and `Transfer` but a premise of the
properties that need it (`HandlersEnd`, `RsyncsEnd`). `SSHPool` and the hosting
modules assume that scripts end. The handler and the goroutines of a terminal are
weakly fair, the browser and the shell are not. `panel` has no liveness property
and no fairness. Strong fairness appears twice: on `LockEntry`,
because `sync.Mutex` hands a starving waiter the lock, and on the hub's
`Register`/`Unregister`, because `select` picks among ready cases at random. The
licence ticker fires for ever. The environment (requests, browsers, faults,
restarts) is never fair.

### Findings

1. `queue/queue.go:54`: Enqueue pushes to Redis before it inserts the row. A
   worker that is quick enough completes the task first, its UPDATEs match no row,
   and the row then says `queued` for ever.
2. `services/transfer_service.go:55`: "CancelTransfer cancels a running transfer",
   but the rsync runs on and its UPDATEs set the status back.
3. `services/deploy_service.go:39`: "TriggerDeploy creates a deployment record AND
   executes it in the background", but Create reads NULL columns of the row it has
   inserted into strings, fails, and the deployment stays `pending` for ever.

Met while reading, without a run of their own:

* Pool: a session refused because of sshd's MaxSessions is taken for a dead
  connection (`provisioner/pool.go:102`), which is closed under the scripts of all
  other calls, although the comment on line 47 says that nobody but the pool
  closes. `lastUsed` is the time of the last probe, not of the last use (line 124).
* Licence: a Verify that found no key, overtaken by Activate, makes the installation
  a community one with a valid key (`services/license_service.go:97`).
* Domains: `nginx:configure` can never succeed (`handlers/domains.go:54`,
  `backend/cmd/api/main.go:142`); ProvisionWildcardSSL selects from a table no
  migration creates; `nginx -t && reload; echo` reports success though nothing
  was loaded. Server modules are never uninstalled: DisableModule has no caller.
* Schedules of transfers and backups never become due (`next_run` stays NULL, no
  INSERT into `backup_schedules`). The quota middleware is attached to no route.
* Sessions and limits: a request for the second factor counts as a failed login;
  status and role are those of the token's claims until it expires; the
  failures of an address expire two hours after the first, not after "2 hours
  of no activity".
* Alerts: `duration_min` of a request is ignored and `notified` is never set. The CPU
  meter keeps its last reading in package variables without a lock.
* Servers and accounts: nothing marks a server as disconnected; SuspendClient can bring
  a deleted client back; invitations with a NULL scope never conflict, and
  CheckAccess has no caller.
* Deployments: nothing sets `webhook_secret` of an application; the log WebSocket
  polls a `pending` deployment for ever.
* Backups: BackupService.Create reports an error after it has inserted, List skips
  every row it made (NULL `size_mb`); two backups in one second share a file, and
  two full ones a directory that the first to end removes; a
  failing dump is hidden by the pipe into gzip.
* Terminals: neither ping nor deadline; the process of a docker exec outlives the
  terminal.
* Start-up: discovery runs only once an administrator exists; what was deleted in
  the panel comes back at a restart while it is on the machine; a changed
  SSH_PASSWORD does not reach the row of the master.
* Domains: Update takes any string for a status, `active` and `provisioning`
  included; a change of web server leaves the vhost of the old one for good.
* Sessions: a failed UPDATE of the backup codes leaves the used one valid.
* Docker: every request to deploy a stack panics, because its handler asserts a string
  (`handlers/docker_handler.go:236`) and both middlewares set a `uuid.UUID`; the ports of a create request are ignored; errors inside the stream of a
  pull or build are answered as success; templates never pull.
* Kubernetes: the status of a cluster is never refreshed; a manual job is named by
  the second.
* Cron: an update whose new line has a slash empties the crontab
  (`services/cron_service.go:86`) and reports "Cron job updated"; so does a negative
  line number. An ampersand in it, as in `2>&1`, is replaced by the old line. Deleting a
  job leaves its comment.
* Mail: a restart forgets the stored settings (`backend/cmd/api/main.go:117`), an
  emptied host is ignored, an empty stored password replaces the one of the
  environment.

## 4. Proofs

TLAPS proves the following for every value of the constants, that is for any
number of tasks, workers, calls, clients, jobs, modules, requests, faults and restarts.
The assumptions are those named in the modules (`ConstantsAssumption`,
`CallsAssumption`, `LimitsAssumption`, `HostingAssumption`, `PanelAssumption`: bounds are natural numbers,
the null values are not members of the sets they stand apart from, the calls of
the pool are finitely many), and for `Domains`
alone that the default PHP version is one of the versions, a hypothesis of its theorems.

| Module | Theorems | Inductive invariant and why it is needed |
|---|---|---|
| `TaskQueueProofs` | `TypeCorrect`, `HandledAtMostOnce`, `StatusHonest`, `RunningOwned`, `WaitingCounted`, `VerdictFinal`, `QueueImplementsDelivery` | `InductiveInv` of `TaskQueue`. That a handler runs once does not say where the entry is, so `SingleDelivery` says that a task pushed once is at one place: not pushed, once in the list, or with one worker, and that the count is still zero in the first two. `RowFollowsTask` excludes a verdict while the task is on its way, which makes verdicts final; `VerdictGrounded` ties the branch a worker is in to the result of its handler, which makes the row honest. The refinement needs no more than the types: each step maps to a step of `TaskDelivery` or leaves its variables alone |
| `SSHPoolProofs` | `PoolTypeCorrect`, `NoCorpseInPool`, `PoolInductive`, `PoolKeepsOnlyOne`, `PoolRetryCovers` | `FreshIsPrivate`: a client just dialled is in nobody else's hands, so storing it cannot put a closed one into the pool; `LocksHeld`: who holds which mutex at which step; `InHand`: what EvictClose closes has left the pool before. `PoolKeepsOnlyOne` needs `QuietPool` besides: without trouble nothing is deleted from the pool, so the entry a thread has loaded is the pool's, and only the loser of a race to dial closes, its own client. `PoolRetryCovers` needs `RetryInv`: call a client spoiled when it is aged, broken, or closed and still in somebody's hands; one trouble spoils one client at most (`OneSpoiled`), and a call refused for the first time had that one, so once it has evicted it, neither the pool nor a call about to store has a spoiled client (`SecondTry`). That the server has a session for every call (`RoomForAll`) is a count of a finite set |
| `HubProofs` | `HubTypeCorrect`, `HubNeverPanics`, `HubNoGhost`, `HubNoGap` | `MembersOpen`: every member's channel is open, and what a broadcast has still to reach are members; both closers of a channel remove the client in the same step. `HubNoGap` needs `NumbersRun` besides: what a client has last written, has in hand and has in its channel is a run of consecutive numbers, which for a member ends at the last message its broadcasts owe it |
| `TransferProofs` | `TransferTypeCorrect`, `TransferActiveHasRun`, `TransferProgressFits`, `TransferDeletedIsFinal` | `OneRunUnlessMixed`: a transfer not retried during a run has one live run, and until that reports the row does not say complete |
| `LicenseProofs` | `LicenseTypeCorrect`, `LicensePersistedIsCurrent`, `LicenseOutageKeepsPlan` | `WriterAlone`: a Verify that runs alone has written, at each of its steps, what it is about to rely on. `OutageKeepsPlan` is an action property and follows step by step from `Settled` |
| `DomainsProofs` | `DomainsTypeCorrect`, `ProvisioningAlwaysHasWorker`, `OnlyOwnerDecides`, `ServerAlwaysAgrees`, `AlwaysServesTheFile` | `RowHasProvisioner`: the Create that inserted the row is still at a label of Create, unless its verdict was lost or a request named the status (`Abandoned`, which needs `IdleNamesNothing`: a call that has not started has named nothing); `WritesOwnRow`: a call at such a label writes under its own id, so a goroutine left over from a deleted row of the same name writes nowhere. For the last two `SerialInv`: `ServerAgrees` speaks of calls that did not overlap and have ended, and a call half done has broken what it will restore, so the invariant says of each label what the call there has still to do. With two web servers it must also say whose vhost is left where (`Leftovers`): some call saw the row at the web server it has now (`Seen`), so that the Update that moves it makes the old file an exception, and it stays one (`MovedStands`) |
| `HostingProofs` | each module on its own: `PhpCorrect`, `ResourcesCorrect`, `SetupCorrect`, `TerminalCorrect`; in the composition: `HostingTypeCorrect`, `InstalledIsAlwaysThere`, `AlwaysOneDefault`, `ServerAlwaysMatchesRows`, `SetupAlwaysSumsUp`, `NothingEverLeftOpen`, `HostedDomainAgrees` | `PhpAtWork`, `ResCalm`, `SetupAlone`: by label, what the one call at work has still to do, given that no other is (`OneLive`, itself an invariant since `clash` records the first overlap); for `Terminal` which of the handler and the goroutines will still close each connection |
| `PanelProofs` | each module on its own: `LimitsTypeCorrect`, `LimitsCountersExpire`, `SessionsCorrect`, `AlertsCorrect`, `BillingCorrect`, `UpdatesCorrect`, `ServersCorrect`, `WafCorrect`, `AccountsCorrect`, `DeploymentsCorrect`, `BackupsCorrect`, `StartupCorrect`, `ContainersCorrect`, `KubernetesCorrect`, `CrontabCorrect`, `MailCorrect`; in the composition: `PanelTypeCorrect`, `ListIsAlwaysTruth`, `IncidentsAlwaysCurrent`, `AlwaysBilledRight`, `CountersAlwaysExpire`, `AlwaysOnceOnly`, `SaidIsAlwaysDone`, `ServerAlwaysFollowsRows` | see below |

The panel's services have one invariant each:

* `Limits`: `CountersExpire` itself, with the types. "Not zero and without expiry"
  is entered only by the INCR that answers 1, whose call is then about to send
  EXPIRE, and every step that takes a call from there sets the expiry or counts as
  a trouble; a DEL leaves nothing to expire.
* `Sessions` (`SesAligned`): while nothing has slipped or failed, a token is listed and
  revoked only with its row about to go, and neither only with its row about to come.
  `SesCodes`: what the one second factor at work has read and will write back holds no
  spent code but one whose UPDATE was lost, and what was lost stays so.
* `Alerts` (`AlePass`, `AleCurrent`): a rule that has not changed since the pass read
  it was judged by the sample that counts, and has the right incidents, or the pass
  has yet to come to it, or has it at hand.
* `Billing` (`BilEmitted`, `BilApplied`, `BilPlan`): what Stripe has emitted is still to
  be delivered, or with a goroutine, or applied; and the row is that of the newest
  subscription whose checkout was applied, but for what is still on its way.
* `PanelUpdate` (`UpdOne`, `UpdPulled`): unless two requests raced, one update has got
  past the flag, and the flag is up while it works; an update has the images of the
  pulls it is past. `Deployments` (`DepOne`): the application's entry is in the map
  exactly while one push is between its claim and its release.
* `Servers` (`SrvKeys`): a host keeps the key it was given first, and a setup about to
  store its key has logged in with it. `Waf` (`WafApplied`): while no scripts crossed,
  the one on its way brings the row as it is. `Accounts` (`AccCreator`, `AccOwner`):
  only the call that inserted the user inserts a quota.
* `Startup` (`StaOrder`, `StaAlone`, `StaSites`): migrations are applied without a gap,
  and a process past them has seen the last; a process that starts alone finds what
  it checked unchanged.
* `Backups` (`BacFiles`): the file is there from the end of the script on, not only once
  the row says so, and whole while it is `Untouched`: nothing failed, no two scripts were
  at it and none is. `Containers` (`BoxAt`, `BoxNames`, `BoxRan`): what was created has run, or is with the
  call that will start it, or was reported as an error. `Kubernetes` (`KubWhere`,
  `KubRead`): while the cluster has the version that was read it has the object that
  was read, and a write checks the version.
* `Crontab` (`CroPipe`, `CroKept`): the one pipeline between its read and its install
  has read what is there; a line is a pair of its call and its kind, so that a job is
  never its comment nor what sed made of it (`CroNames`); what is asked for is what is there, but for what the calls
  at work take away and bring. `MailSettings` (`MaiOne`, `MaiSeen`, `MaiLive`): the one
  reload between its SELECT and its assignment has read what is stored, and when
  there is none the mail goes out with it.

The theorems on the modules alone hold for any calls in any order. In `MCHosting` and
`MCPanel` one module moves in a behaviour; `PanelSteps` and `OnePartMoves` (for the
hosting services `OneModuleMoves`) show that each step is one the moving module's own
Next allows, so its invariant goes over, and that the others keep what they started
with. The order of calls and the bounds on billing only leave steps out, and no proof
uses them. `HostingAssumption` and `PanelAssumption` say what the constants are: bounds
are natural numbers, the default PHP version is one of the versions, subscriptions are
numbered, nothing is both a database engine and a site.

Each proof has the same outline: the initial state, one step per action of Next,
and the conclusion by PTL. A lemma per kind of step (`CallsStayTyped`,
`UpdateRowEffect`, `MoveKeepsProvisioners`, ...) says once what many actions do.

Only model-checked: everything that leads to something (`WorkConserving`,
`RunningSettles`, `EveryCallEnds`, `BroadcastReturns`, `DisconnectCleans`,
`ActiveSettles`, `Converges`, `RowsAreDecided`, `TerminalEnds`), because it needs
fairness and ENABLED. Every safety and action property of a passing run is a theorem.

The other way round, the type invariants of the queue, pool, hub, transfers and
licence, `NoGhostMember` of `Hub` and `ProgressFits` of `Transfer` are theorems
and no longer part of a run: what is proved for every instance needs no small one.

## 5. What is not modelled

* Text: scripts, vhosts, SQL, JSON, quoting, passwords and their encryption.
  A script is what it changes on the server, and whether it reports success.
* In the modelled parts: EvictServer (no caller) and the pool's key; the columns
  of `tasks` that are written and never read; the schedules of transfers, which
  never become due; LICENSE_KEY in the environment and six of the eight licence
  settings, which are written like the two that are kept; the wildcard
  certificate and `nginx:configure`, which cannot succeed.
* Sessions: the expiry of tokens and reset links; the check of passwords, codes and
  signatures. Billing: plans and invoices, prices, signatures. Deployments:
  what would follow a successful Create (ExecuteDeployment, the fan-out to several
  servers), because no deployment gets there. Backups: schedules. Docker: volumes,
  restart policies, logs and statistics. Kubernetes: a write whose reply is lost,
  which client-go does not repeat. Docker's stacks, of which there never is one. Mail: the key
  the secrets are encrypted with, which must have 16, 24 or 32 bytes or saving one
  fails; the SMTP dialogue. Firewall: security events. Mail accounts: their
  deletion changes only the row.
* Cloudflare, services, files, database browser, audit log: each request is one call
  or one statement, and none uses what an earlier one has read. Configuration and
  crypto: functions of their inputs. Agent, automation service, frontend, installer: the
  API does not depend on them.
* A second API process at work beside the first. The code would allow one (Redis
  and PostgreSQL are shared) but nothing in the installer or documentation keeps
  two running; two that start together are in `Startup`.

## 6. Plan

The order of the work so far was by what other parts depend on: the queue, the
pool, the hub, then the services with the most intricate goroutines (transfers,
licence, domains), those that share their shape, the setup task, and then the
panel's own services, those with races first. What is left:

1. **Liveness** of the panel's services: an update lowers its flag,
   a discovered thing is registered, each under the fairness of its goroutine.
2. **Abstract specifications**: a register that agrees with its server, which
   `Domains`, `PhpVersions`, `Resources` and `Waf` implement when their calls do not
   overlap; an ordered broadcast with disconnection for `Hub`; a token that is
   accepted between its login and its revocation for `Sessions`.
3. **Larger pieces**: ExecuteDeployment and its fan-out, once Create can succeed;
   Docker volumes and restart policies; Cloudflare's zones.
