# Verification of the Superset K8s charm

TLA+ models of the `superset-k8s` charm, TLC configurations that check them on
small instances, and proofs of their main theorems for every instance, checked
by TLAPS. The reference is the code of this repository: paths below are relative
to its root. The parts of the system that are not modelled are named with the
reason.

## 1. The system

The charm operates Apache Superset on Kubernetes. Juju runs one charm process
per unit; each event starts a *hook*, a fresh Python process that sees one
snapshot of the model, runs one handler of `src/charm.py` and exits. The
workload is a second container, driven through Pebble. A deployment usually has
three applications of the same charm (UI, `worker`, `beat`) that share one
PostgreSQL metadata database and one Redis.

| Component | State it keeps | Operations | Talks to |
| --- | --- | --- | --- |
| Charm unit, `src/charm.py` | unit status, Pebble plan with layers merged into it, open ports; nothing of its own between hooks | nine observed events, the `restart` action, `_update` | Juju, Pebble, every component below |
| PostgreSQL relation, `src/relations/postgresql.py` | none; reads the databag and its secret | created, endpoints-changed, changed, broken: all run `_update` | `data_interfaces` library |
| Redis relation, `src/relations/redis.py`, `lib/charms/redis_k8s/v0/redis.py` | none; reads one arbitrary unit's databag and the application's `leader-host` | `redis_relation_updated` runs `_update` | Redis charm |
| SMTP secret, `_get_smtp_config` in `src/charm.py` | whether the unit tracks the secret (in Juju) | read, validate | Juju secrets |
| Trino catalog relation, `src/relations/trino_catalog.py`, `lib/charms/trino_k8s/v0/trino_catalog.py` | none between hooks; a list of connections and a role id within one | `sync_databases` on relation-changed, secret-changed, update-status; nothing on relation-broken | Superset REST API, Trino charm |
| Superset REST client, `src/superset_api.py` | access and refresh token, expiry, CSRF token, HTTP session; for one hook | log in, refresh, list, create, update, grant | the UI's own web server |
| Structured config, `src/structured_config.py` | none | validators, feature-flag parsing | `ready_to_start`, `_create_env` |
| Configuration template, `templates/superset_config.py` | Superset's settings; a patched `QueryObject.cache_key` | SQL normalisation for cache keys | Superset, Redis cache |
| Permission error rewriter, `templates/permission_error_messages.py` | none | rewrites Trino permission errors in responses | Superset |
| Start scripts, `superset_rock/startup-scripts/` | migrations and default roles in the metadata database | `k8s-init.sh`, `k8s-bootstrap.sh` | Superset CLI |
| Database relation library, `lib/charms/data_platform_libs/v0/data_interfaces.py` | what each unit diffs the databag against, labels of secrets | ask for a database, publish fields and secrets, turn a changed databag into events | PostgreSQL charm, Juju secrets |
| Metrics library, `lib/charms/prometheus_k8s/v0/prometheus_scrape.py` | none beside databags | publish addresses, jobs, rules; expand and deduplicate jobs; the leader reports refused jobs and rules | Prometheus charm |
| Log forwarding library, `lib/charms/loki_k8s/v1/loki_push_api.py` | log targets in the Pebble plan | publish endpoints; enable and disable targets, send rules | Loki charm, Pebble |
| Dashboards library, `lib/charms/grafana_k8s/v0/grafana_dashboard.py` | Grafana's peer data: what it could render of each relation | publish dashboards; render and deduplicate them | Grafana charm |
| Ingress library, `lib/charms/nginx_ingress_integrator/v0/nginx_route.py` | none beside databags | reconcile the route in every hook of the leader; the integrator's leader accepts, refuses or removes it | Nginx ingress integrator |
| SSO manager, Sentry interceptor, event logging | none that the charm's logic depends on | callbacks | |

What is hard in it:

* **No state of its own.** The charm decides from what it reads *now*. A change
  whose event does not rebuild the plan, or that has no event at all, is lost:
  `update-status` only rebuilds when the plan is absent.
* **Partial failure of a hook.** `add_layer` may succeed and `replan` fail, with
  the old service running on, restarted or stopped; a hook that raises is retried,
  and until it succeeds *no other event is dispatched*. What a handler did before
  the exception stays done. Opened ports are only committed by a hook that returns.
* **Merged layers.** What an earlier layer put in the plan stays there, the
  health check in particular; a container that restarts loses all layers.
* **Several writers of one database.** A synchronisation of Trino catalogs is a
  dozen HTTP requests. Leadership may move between two of them, so two units may
  work from two readings of the same list, while administrators rename, delete
  and edit roles in the UI.
* **Retries that must not duplicate.** A request may time out before or after
  its effect; `update-status` repeats the synchronisation every few minutes.
* **Notifications that reach the wrong unit.** A secret rotation is announced
  once to each unit; only the leader acts on it.
* **A session that outlives its requests.** One client makes all calls of a
  synchronisation: what a failed login or refresh left in it, later calls build
  on, while tokens expire between looking at the clock and the request.
* **Two ends that see each other through a databag.** Hooks are coalesced,
  retried and run on units of different revisions while leadership moves, at either
  end; the reader sees the last value only, and a reader that skips one, or does not
  lead when it reads it, keeps it stale.
* **Two parsers of one value.** The charm validates an option that Superset
  parses again; the cache key is made from SQL by a scanner of its own.

The full list, at the lines where the hazards bite and with the properties that
would catch them, is `hazards` in `PROJECT.json`.

Correctness of each component, in a sentence:

* charm unit: the plan follows the inputs (nothing is lost, nothing unaccepted
  gets in), the service follows the plan, the status is not wrong for ever;
* Trino synchronisation: one connection per catalog, each brought to the current
  address and credentials, each granted to the self-registration role, nothing
  of the administrators' undone;
* REST client: a request is sent with valid tokens or the job fails cleanly and
  recovers at the next one;
* cache keys: two queries share a key only if they mean the same (which section 4
  limits), and white space that means nothing makes no other key;
* options: what the charm accepts Superset can load, and it means what was set;
* integrations: once the hooks have run, the far end uses what this end has now
  and nothing it had before; no credential is readable in a databag.

## 2. Modules

```
TrinoCatalogs ----------> CatalogConnections   (what is promised)
   data of the sync            ^
      |                        | refinement, held <- offers of the running jobs
      +---------------> TrinoSync <---- MCTrinoSync, TrinoSync_proofs

SupersetCharm <---- MCSupersetCharm, SupersetCharm_proofs

SupersetApiClient <---- MCSupersetApiClient, SupersetApiClient_proofs

CacheKeyNorm, WorkloadConfig, PermissionRewriter <---- MCPureFunctions
      |                                                     |
CacheKeyNorm_proofs -------------------------------> PureFunctions_proofs

DatabaseRelation, Metrics, LogForwarding,
IngressRoute, Dashboards <---- MCIntegrations
      |                                                     |
DatabaseRelation_proofs, Metrics_proofs -----------> Integrations_proofs
```

`MCPureFunctions` and `MCIntegrations` put components side by side that share no
state. In `MCIntegrations` a behaviour is of one relation (`inUse`), so that the
state spaces add up instead of multiplying; the metrics relation has two kinds,
`metrics`, with pods and jobs that vary and rules that stay, and `alerts`, with rules
and the lead of Prometheus that vary and addresses that stay. The specification of each relation
alone (`DbSpec`, `MetricsSpec`, `LogSpec`, `RouteSpec`, `DashSpec`) is that
behaviour without its fairness; the theorems about them carry over to the
composed one (section 5).

### SupersetCharm: one unit, its hooks, plan, service and status

| Variable | In the code |
| --- | --- |
| `config`, `secret`, `pg`, `redis`, `dbRoles` | what a handler can read: config options, SMTP secret, databags, answer of `query_metadata_database` |
| `tracked` | the unit has called `get_secret`, so Juju sends it `secret-changed` |
| `reachable` | `container.can_connect()` |
| `plan`, `check`, `service` | environment of the `superset` service in the Pebble plan, its `up` check, environment the process was started with |
| `ports`, `status` | `model.unit.open_port`, `unit.status` |
| `pending`, `failed` | Juju's queue for this unit and the hook in error |

One action per observed event (`OnInstall`, `OnPebbleReady`, `OnConfigChanged`,
`OnPeerRelationChanged`, `OnSecretChanged`, `OnUpdateStatus`, `OnDatabaseEvent`,
`OnRedisRelationUpdated`, `OnTrinoRelationChanged`) and `RestartAction`; the rest
is the environment. A hook reads one snapshot, so a handler is atomic, except
for the calls it makes to others. `Replan` has three outcomes: success; a failure
up to `add_layer`, which leaves everything as it was; and a failure after it, which
leaves the new plan with a service that goes on in its old environment, was
restarted in the new one, or has stopped (`charm.py:563-564`). `Update` is `_update`
with its early returns in their order: unreachable container, `ready_to_start`, the
`AttributeError` of `get_db_info` over a database that has published credentials and
no endpoint (`EndpointsMissing`: the hook fails and is retried), `ValueError` of
`_create_env` (role, Redis, secret: `SecretReached` and `EnvUsable` keep the order,
since a stage that fails hides the later ones, and reading the secret has an effect).
Of a synchronisation of Trino catalogs in `trino` relation-changed, secret-changed and
update-status this module keeps what it does to the unit: `SyncStatus`, the status
`ready_to_start` may set, and `SyncRaises`, the exceptions that leave the hook.

Abstracted: the environment is the five values that can go stale and that a
property tells apart (function, role, database, Redis host, SMTP content); all
other options move with `config`. `config.valid` stands for everything that
makes pydantic reject the options. Deliveries of an event already queued are
merged. The three UI functions have one behaviour, and so have the others, so
runs use one of each; the config cannot name a function `add_layer` does not
know, since the structured config rejects it. The requirer of PostgreSQL emits
what `data_interfaces` documents; its requested-but-unpublished state is `pg =
"requested"`, and credentials without endpoints are `pg = "credentials"`.

`PlanUnreadable` is a plan that holds log targets and nothing else:
`_validate_pebble_plan` then reads `plan["services"]`, and the `KeyError` leaves
update-status. Superset's image brings services of its own
(`superset_rock/rockcraft.yaml:13`), so its plan always has the key; the path belongs
to an image without them, and is there under the change kind `bare_image`.

### TrinoCatalogs, CatalogConnections, TrinoSync: the synchronisation

`TrinoCatalogs` has the data both sides share: what Trino offers (URL, user,
password, catalogs) and what a Superset connection keeps of it. A URI carries a
password only on port 443 (`SslUrls`).

`CatalogConnections` is the abstract specification, the behaviour that
`documentation/how-to/integrate-with-trino.md` describes: a catalog without a
connection gets one, an existing connection only has its URI replaced, nothing is
removed or renamed, and a URI is written from one offer. A connection goes only in a
step of its own, of an administrator (`AdminDeletes`), and `removed` remembers its id:
`Add` takes an id that was never used, so no step of a synchronisation can pass for a
removal and a creation. The run of `KeepsPromise` has no administrators, so that there
no connection may go at all; the theorem covers them.

`TrinoSync` is the code. A synchronisation is a *job* of a unit, a record of
what it has read (offer, missing catalogs, outdated connections, role) and where
it stands; every HTTP request is an action:

| Action | Code |
| --- | --- |
| `Start` (`OnRelationChanged`, `OnSecretChanged`, `OnUpdateStatus`) | `_should_sync`, `_prepare_sync_config` |
| `ListConnections`, `ResolveRole` | `get_trino_databases`, `_resolve_role_id` |
| `CreateConnection` | `_create_new_connection`, `create_trino_database` |
| `FindPermission`, `ReadRole`, `PostRole` | `_grant_database_access`, the lookup by name, the read and the write of `update_role_permissions` |
| `UpdateConnection` | `_update_existing_connections`, `update_trino_database` |
| `Finish`, `Crash` | the hook returns; dies, or raises on an answer that is no JSON |
| `OnRelationBroken` | the handler, which only logs |

While `faulty` holds, a request may fail before or after its effect. Without any
fault, the role may not exist (change kind `no_role`, `trino_catalog.py:300-305`), a
new permission may not be found (`unlisted`, 491-496), and an answer may lack its
result (`no_result`); the connection is then created and not granted. The order in
which the code walks over missing and outdated entries is not fixed: it iterates
over parsed data, and no property depends on it. Administrators rename and delete
connections and toggle an unrelated permission of the role. Requests of the
client that only establish the session (login, CSRF, refresh) are part of the
request that needs them: when they fail, it fails.

### SupersetApiClient: the session and the listing

`access`, `refresh`, `exp`, `csrf` are the attributes of the client; an access
token is none, live or expired, and `exp` is `_access_exp` against the clock,
which Superset shares (it runs in the same pod). `call` is the call being made,
with the branch `_ensure_authenticated` took. Each HTTP request is an action
(`Authenticate`, `RefreshAccessToken`, `FetchCsrfToken`, `SendWrite`, `SendPage`,
`SendFails`), which succeeds, fails, or brings an answer that lacks a token or is
no JSON. `AuthenticationFails` is the fall-back of lines 206-212. `Expire` may come
between any two of them. The query asks for no order, so between two pages rows are
added in any place (`AddRow`), deleted (`DeleteRow`) and change places (`MoveRow`);
and a successful answer without `count` or `result` counts as 0 or as an empty page,
which ends the listing as if it were complete. Two histories are there for
`CompleteListing` alone: `call.owed`, the rows that were there when a listing began
and still are, and `call.disturbed`, what has happened to it that it cannot notice.
`TrinoSync` uses the client at a coarser grain: a call is
one of its requests, with what the session needs.

### CacheKeyNorm, WorkloadConfig, PermissionRewriter

`Norm` is `_qo_norm_sql_str` as a scanner over characters: it cuts the SQL into
chunks (comment marker, quoted region, word, white space, one of the 20 characters of
`_QO_TIGHT`) and emits each with or without a space. It is compared with an
independent lexer (`Lexed`), which tells comments and quoted regions apart and drops
white space. `Pieces` are the words, quoted regions and operator characters it reads,
and `Joints` say which neighbours among them SQL reads as one token, since nothing
stands between them: the two characters of `<=`, for example. Which pairs those are
is the constant `Compound`. A `Meaning` is both.
`cache_key` is stepped field by field (`NormaliseField`, `Restore`), since any of
them may raise. `WorkloadConfig` takes one option, of every validated kind and at
every bound, through charm, environment and template (`Validate`, `Env`, `Load`);
feature flags are a list of entries. `PermissionRewriter` has one action,
`RewriteResponse`, over every response the early returns tell apart.

### The integrations

Each module has both ends, since the property is about what arrives. Databags are
functions from the keys that are set; Juju commits what a hook wrote when it ends
and coalesces equal hooks that wait, so a queue is a set of kinds.

| Module | Superset's end | The other end | Environment |
| --- | --- | --- | --- |
| `DatabaseRelation` | `OnRelationCreated`, `OnRelationChanged` (diff, statuses, events, then the charm's handler), `OnDbSecretChanged`; a hook fails where `get_db_info` raises, after its events have been emitted | `OnRequestChanged`, `AnswerRequest`, `UpdateField`, `DeleteFields`, `BecomeSubordinate` | leadership |
| `Metrics` | `SetScrapeJobSpec`, `OnScrapeRelationChanged`, `OnMetricsUpdateStatus` | `OnTargetsChanged` of each unit: `Expanded`, `Dedupe`, and, by the leader, `Reported` | pods rescheduled, upgrades, leadership at both ends |
| `LogForwarding` | `UpdateLogging` (`HandleAlertRules`, `UpdateEndpoints`), `OnLogPebbleReady` | `PublishEndpoint` | Loki units join, leave, move; the container restarts |
| `IngressRoute` | `Reconciled`, run by the constructor in every hook | `OnRouteChanged`, `OnRouteBroken` of each unit, which only the leader acts on | options, upgrades, leadership at both ends, relation removed and made again |
| `Dashboards` | `PublishDashboards` in `PublishingHooks` | `OnDashboardsChanged`, `OnDashboardsBroken`, `Shown` | upgrades, leadership, relations, another application with equal uids |

The far ends run in other charms, but their code is in this repository, and it is
what `map` names. What no code here decides (Juju's queue, Kubernetes, what the
database charm writes) is marked external. `scrapeMissed` and `routeMissed` are
histories: the lead of the other end passed from a unit with a hook to run to one
without, so that nobody acts on the change. Values are numbers of writes, versions
or members of small sets; panels, URLs, texts of rules and compression are left
out.

## 3. Runs

`Changes` names the kinds of change the environment makes in a run, so that each
run varies what its properties depend on together; every kind that is off leaves
the value established. Sizes are distinct states.

| Run | Question | States |
| --- | --- | --- |
| `charm_faults` | Relations, container, failing Pebble calls, failing synchronisations, an unreadable plan and the restart action in any order: is a change lost (`NoLostChange`), does a service that was left in an old environment stay so (`ServiceFollows`)? | 1 039 000 |
| `charm_config` | Function, role, secret, role table, database, container, check and the restart action: `TypeOK`, `UiPlanIsProbed`, `UiServicePortsOpen`, `ActiveOutageIsTransient`, `OnlyAcceptedInputs`, `HookErrorsExplained`, `WorkloadSurvives` | 1 409 000 |
| `charm_live` | With fairness: `Reconciles`, `ReportsActive` | 214 000 |
| `sync_overlap` | Two units, failing requests, a role or permission that Superset does not have, crashes, leadership moving, the relation removed and made again at another address: `TypeOK`, `OneConnectionPerCatalog`, `KeepsPromise` (refinement of `CatalogConnections`), `EventuallyConnected` | 452 000 |
| `sync_single` | One unit, two catalogs, addresses and credentials changing, administrators at work: `CreatedIsGranted`, `PasswordFollows` | 434 000 |
| `api_session` | Calls of one client while tokens expire, Superset fails or answers badly, rows come, go and move: `TypeOK`, `CompleteListing`, `RejectedOnce`, `RecoversAtExpiry`, `CallReturns` | 602 000 |
| `pure_functions` | Every SQL of up to five characters, every option at its bounds, every response: `KeyKeepsMeaning`, `WhitespaceIgnored`, `QueryUntouched`, `AcceptedLoads`, `LoadedAsGiven`, `DenialsReworded` | 405 000 |
| `integrations` | Each relation with both ends: `IntegrationsTypeOK`, `CredentialsHidden`, `CreatedOnce`, `StatusFollowed`, `ConnectionCurrent`, `JobNamesUnique`, `ErrorsCurrent`, `TargetsHeal`, `ForwardingCurrent`, `RulesReachLoki`, `RouteCurrent`, `DashboardsCurrent` | 1 026 000 |
| `charm_stuck` | refutes `FunctionFulfilled` | |
| `sync_grant` | refutes `EventuallyGranted` | |
| `sync_rotate_lost` | refutes `PasswordFollows` when leadership moves | |
| `sync_role_race` | refutes `PermissionsPreserved` | |

**Bounds, and why they are enough.** The charm compares environments only for
equality, so two values of whatever changes in a run show a stale one: two Redis
hosts (also two units, one of which is behind), one function with UI and one
without, one default role and one that must be looked up. Relations with Redis vary in
`charm_faults` and `charm_live`, everything about roles and the secret in
`charm_config`; a change of the Redis leader that comes without an event (`leader`) is
in no run, and in the theorems that do not exclude it. One database endpoint
that comes and goes is as good as two: the plan of the earlier one has to be
recognised as not current, and it is, through Redis in the same run. For the
synchronisation two units give overlapping jobs; a third adds no kind of overlap,
since jobs interact only through `conns` and `granted`. `MaxId` bounds the
connections ever created; `CreateConnection` is not enabled beyond it, so it is
chosen above what the run can create, and `AdminDeletes` leaves an id for every
catalog (a job must not hang because the model ran out of ids).

In `api_session` three rows with pages of one and at most two pages, rows in any
order and in any number, show a listing of several pages, one that ends with its last
row, one that rows join on both sides of the place it has reached, and a list longer
than the limit; a page is then full or empty, and of pages of any size the theorem
says the same. In `pure_functions` five characters (`MaxSql`) hold a comment
marker, a doubled quote or an operator of two characters (`||`, `|/`) with something
on both sides; three entries (`MaxEntries`) contradict each other with one between. In `integrations` there are
two of everything that can be in disagreement: units with leadership moving between
them, at both ends, revisions of the charm, relations to one application; three addresses, so
that a pod rescheduled takes neither its old one nor its neighbour's; three Loki
units in two relations (`FirstLoki` has two of them). `MaxWrites`,
`MaxReschedules`, `MaxLokiChanges`, `MaxRouteChanges` and `MaxDashChanges` bound
how often the environment acts: one pod rescheduled or one upgrade, from every
initial address and from rules that load and rules that do not; elsewhere a
change, its undoing, and a change of who is ready or related between the two.
Leadership moves without a bound. The proofs of section 5 hold for all of these
bounds.

Each property has
a mutant in `PROJECT.json`, a plausible mistake in one definition, that TLC finds
under the same configuration.

**Fairness.** `SupersetCharm`: weak fairness of each handler, since Juju
dispatches queued events in finite time and raises `update-status` for ever, and
of `ContainerReady`, since Kubernetes restarts containers. No fairness of the
administrators, of related applications, of Pebble's success. `TrinoSync`: weak
fairness of dispatch and of the next request of a started job; every request has
a timeout (`DEFAULT_REQUEST_TIMEOUT`), so a job cannot wait for ever.
`SupersetApiClient`: weak fairness of each request of a call, by the same timeout;
none of new calls or of expiry. `MCIntegrations`: weak fairness of the hooks of the
metrics relation, those of Prometheus' units too, and of Superset's `update-status`,
which Juju runs. Nothing is
assumed about faults; `Settles`, in the properties themselves, says they end.
`ReportsActive` needs the queue to run empty again and again (`QueueSettles`),
since Juju raises `update-status` on an idle unit. The liveness premises
(`InputsSettle`, `QueueSettles`, `Settles`) are satisfied by behaviours of
each run, otherwise the mutants could not violate the properties.

**Where a property needs a restricted environment**, the restriction is a fact
about the code:

* `NoLostChange` and `ServiceFollows` without the kinds `roles`, `smtp` and `leader`:
  nothing notifies the charm when the metadata database can be read again, when a
  secret is granted, or when Redis changes `leader-host` (the library drops a change
  without a unit, `lib/charms/redis_k8s/v0/redis.py:70`). Such a change waits for the
  next unrelated event.
* `UiServicePortsOpen`, `ActiveOutageIsTransient` and `WorkloadSurvives` without
  `pebble`: a failing `replan` may stop the service, and ports are opened after it.
  `HookErrorsExplained` without `pebble`, `sync` and `bare_image`, which are other
  reasons for a hook to fail.
* `Reconciles` and `ReportsActive` without `pebble`, `sync`, `bare_image`, `roles`,
  `smtp`, `leader` (the same reasons: a hook that fails for ever, a change without an
  event) and without a change of function (finding 1).
* `CreatedIsGranted` without faults, crashes and a second unit, in a Superset that has
  the role and lists a new permission at once: finding 2 is about every other end of
  `_grant_database_access`. `PasswordFollows` without failing requests, changes of
  leader, and without catalogs or the relation going away: finding 3.
* `RejectedOnce` for a client that could read its token's expiry: without one
  `_ensure_authenticated` has nothing to look at.
* `CompleteListing` for listings during which no row was deleted or changed its place
  and every answer had its `result` and `count`, and up to `PageSize * MaxPages` rows:
  the run has all of this, and the code cannot tell such a listing from a complete one
  (section 4).
* `KeyKeepsMeaning` for SQL without line comments, without a CR in quotes and
  `Compact`, that is, with no white space or comment inside what would otherwise be one
  operator; `KeyKeepsPieces`, which is proved, without the last of these.
  `WhitespaceIgnored` for SQL without comments; `AcceptedLoads` except an SMTP port
  that is no number (section 4).
* `CreatedOnce` except the retry of the very hook that announced the database and then
  failed in `get_db_info`: Juju has rolled back what it stored, so it announces again,
  at every retry. Nothing else does. Not for a subordinate provider either, nor is
  `StatusFollowed`; `ForwardingCurrent` only while some Loki unit is ready (section 4).
* `ErrorsCurrent` and `RouteCurrent` unless the lead at the other end passed over the
  last hook (`scrapeMissed`, `routeMissed`); `ErrorsCurrent` for rules that Prometheus
  does not pass over, `RouteCurrent` for a hostname that is not empty (section 4).
* `OneConnectionPerCatalog` and `KeepsPromise` without `rename`: of a connection
  renamed during a job of one unit, an overlapping job with an older list creates
  a second one. Renaming with a single unit is in `sync_single`.

## 4. Findings

1. **A worker that was asked to become a UI is stuck** (`charm_stuck`).
   `_on_update_status` asks for the check `up` as soon as the *config* names a UI
   function. If the same change is rejected (here: a role that does not exist),
   `_update` blocks before `add_layer`, the plan has no such check, `get_check`
   raises, and the unit is in error on `update-status`. Juju retries only that
   hook; the corrected config waits in the queue behind it for ever. The first
   `update-status` reaches the hook before the correction does.
2. **A grant that failed once is never retried** (`sync_grant`). Only the job that
   creates a connection grants access to it; a role that does not exist yet, or a
   permission that is not listed yet, is as good as a failure.
3. **A rotated password is lost around a change of leader** (`sync_rotate_lost`).
   Only `secret-changed` forces a write, `needs_update` does not compare
   passwords, and a unit that is not leader ignores the event.
4. **A permission granted during a job is taken away** (`sync_role_race`).
   `update_role_permissions` writes back the list it read a request before.

Observed while modelling, and not in a run of its own; the model has each of them,
and the property next to it names it as a premise:

* **Charm.** `update-status` replaces a `Blocked` status by `Active` whenever a
  plan is present and its check is up, also when the cause (a role that is not
  allowed, say) persists. A Redis failover through `leader-host` emits no event.
* **REST client.** The token is set before the CSRF request: where that fails the
  client keeps the token and sends its writes without a CSRF token until the token
  expires. After a login whose answer lacked the refresh token it logs in again
  instead of refreshing. An answer to a login or refresh that is no JSON raises
  another exception than callers catch and fails the hook. A row deleted between
  two pages moves later rows to pages already read; no order is asked for, so rows
  may also change places; an answer without `result` or `count` ends a listing, and so
  does its `MAX_PAGES`th page, all without an error: a lookup misses what is not in it,
  although the docstring (`src/superset_api.py:278`) promises pages "until all results
  are retrieved or max_pages is reached".
* **Cache key.** The comment at `templates/superset_config.py:399-401` says that two
  expressions with one hash are the same query. Two kinds are not. `emit_tight` (446)
  drops the space between two operators unless they would open or close a comment, so
  `a < = b`, which SQL refuses, and `a <= b` have one key, as have `a | | b` and
  `a || b`. A line comment is taken without the newline that ends it (458), and the
  newline becomes a space: a condition on the line after `-- note`, and the same words
  as part of the note, have one key, and the cached result of one is shown for the
  other. A CR in quotes becomes LF. Without the premise about one of these TLC
  violates `KeyKeepsMeaning`.
* **Options.** The charm accepts an SMTP port that is no number; with alerts
  enabled the template calls `int()` on it, and Superset restarts for ever.
* **Database library.** Deleting fields of several secret groups removes none of
  the emptied secrets. Credentials removed and created again between two hooks
  raise no `database_created`. A hook that fails in `get_db_info` has emitted
  `database_created` before, and every retry emits it again. If leadership moves so that no unit was leader in
  its own relation-created, nobody asks for a database. Events for the statuses of
  a subordinate provider are raised before the unit is ready, and none when they
  are resolved.
* **Metrics.** Once the last error is gone the consumer publishes `{}`, and the
  provider never emits that the rules are valid again. Rules that are withdrawn, empty
  or not identified are passed over before their old error is taken back
  (`prometheus_scrape.py:1116`, `1134`), and `scrape_job_errors` never is (1054). Only
  the leader of Prometheus reports (1151): what a unit read before it led it does not
  report. Jobs and rules are only published by the unit that leads when the relation is
  joined or at the next config-changed.
* **Logging.** When the last Loki leaves, the early return keeps its target
  enabled. One unit that has not published makes its whole relation not ready.
  Alert rules are only sent once some endpoint exists.
* **Dashboards.** Among equal versions the highest relation id wins, compared as
  text, so 9 beats 10.
* **Ingress.** `config.yaml:17` says that `external-hostname` "will default to the name
  of the deployed application". An empty one does not: `src/charm.py:137` passes it on,
  since `get()` only replaces an absent key, Juju drops the empty field, and the
  integrator is blocked over missing fields; the property `external_hostname`
  (`src/charm.py:75`), which has the default, is not used there. At the integrator a
  unit that ran the hook before it led does not apply the route when it leads
  (`nginx_route.py:339`, `381`).

## 5. Proofs

Everything listed here is proved for all values of the constants that satisfy the
named assumptions (`ConstantsAssumption`, `NoPlanAssumption`, `CatalogsAssumption`,
`ChangesAssumption`, `NullsAssumption`, `PagesAssumption`, `UnitAssumption`, `LokiAssumption`,
`RouteAssumption`, `DashAssumption`, `MetricsAssumption`, `ValuesAssumption`: null
values differ from real ones, functions with UI are functions, page sizes are
positive, an application has a unit, bounds of an option are numbers with the
default between them, and so on), so for any number of units, Redis units, roles,
catalogs, rows, jobs, characters, flags and changes, and every selection of change
kinds that a theorem does not exclude in its `ASSUME`.

`SupersetCharm_proofs`

| Theorem | Property | Excluded change kinds |
| --- | --- | --- |
| `TypeCorrect` | `TypeOK` | none |
| `UiPlanProbed` | `UiPlanIsProbed` | none |
| `AcceptedInputs` | `OnlyAcceptedInputs` | none |
| `NoChangeIsLost` | `NoLostChange` | `roles`, `smtp`, `leader` |
| `ServiceIsNotForgotten` | `ServiceFollows` | `roles`, `smtp`, `leader` |
| `PortsOpen`, `Survival` | `UiServicePortsOpen`, `WorkloadSurvives` | `pebble` |
| `OutageIsTransient` | `ActiveOutageIsTransient` | `pebble` |
| `HookErrors` | `HookErrorsExplained` | `pebble`, `sync`, `bare_image` |

Neither `NoLostChange` nor `ServiceFollows` is inductive: a queue that is not empty
may hold an event that does not rebuild anything (`trino`), or `install`, which comes
first and only sets the status. `QueueInv` says that a *rebuilding* event is queued
(`Rebuilders`, the events whose handler runs `_update` unconditionally) unless plan
and service are both built from the inputs of now (`UpToDate`), and that `install` is
always accompanied by `config_changed` and not in error. It needs no word on which
plan the service runs: after a failure between `add_layer` and the end of `replan` the
service may be older than the plan or gone, and what counts is
that the hook that failed is still queued. The step for the handlers is one lemma,
`UpdateReconciles`: `_update` leaves plan and service up to date, or leaves inputs that
are not acceptable or a container that does not answer, or raises and stays queued;
`update-status` is never counted on. The restart action makes the service what the plan
is, which is current or has a rebuild queued.

`UiPlanIsProbed` is inductive by itself, since a layer with UI brings the check along
and no layer takes it away. Without Pebble failures `PebbleInv` holds
(the service *is* the plan, and a UI plan has its ports
committed), from which `PortsOpen` and `Survival` follow. `OutageInv` restates the
outage over the plan: Active with no plan in a container that answers means
`pebble-ready` is queued; the step that needs it is `update-status`, which only
reports Active over a plan. `HookErrors` goes through the ends of every handler: what
raises is `get_db_info` (`EndpointsMissing`), wherever the handler reaches it, or
`get_check` over a plan without the check, which by `UiPlanIsProbed` has no UI.
`Survival`, `AcceptedInputs` and `HookErrors` are action properties, proved by the same
case split over handlers (`HandlerCases`, `WorkloadSteps`, `ReplanEffect`).

`TrinoSync_proofs`

| Theorem | Property | Excluded change kinds |
| --- | --- | --- |
| `TypeCorrect` | `TypeOK` | none |
| `OneConnection` | `OneConnectionPerCatalog` | `rename` |
| `Refinement` | `KeepsPromise` | `rename` |
| `Granting` | `CreatedIsGranted` | `faults`, `crash`, `no_role`, `unlisted`, `no_result`; one unit |

`OneConnectionPerCatalog` needs `SyncInv`. Its part `ConnectionsInv`: every live
connection has the display name of its catalog (no renaming), so Superset's
uniqueness of names is uniqueness of catalogs, and its id is below `nextId`, as are
those of `removed`, which no connection has again. Its
part `JobsInv`: what a job still has to create is in the offer it holds, and what
it still has to update, if it is still there, too; deleted ids do not come back,
so a stale list cannot point at another connection. `Refinement` uses the same
invariant: a job's start maps to `Take`, a creation to `Add` (the uniqueness of
names and `nextId` give its guard), an update to `Update` (the offer of the job is
held), a deletion by an administrator, and nothing else, to `AdminDeletes`, a
job's end to `Release`, or to a stutter when another job holds the same offer,
everything else to a stutter. The runs of `TrinoSync` leave the kind `catalogs`
out; these theorems cover it.

`Granting` needs `GrantInv`: while names are unique (`NamesUnique`; a
connection an administrator renamed has no catalog's name), the permission a job has found is that of the
connection it created, and what it has read of the role still holds every grant
there is (`JobGrants`), since no other job writes. Each step is shown to leave
nothing owed (`NothingOwed`), or to owe it to the job that is granting
(`OwedInGrant`).

`SupersetApiClient_proofs`

| Theorem | Property |
| --- | --- |
| `TypeCorrect` | `TypeOK` |
| `OneRejection` | `RejectedOnce` |
| `RecoveryAtExpiry` | `RecoversAtExpiry` |
| `ListingComplete` | `CompleteListing` |

`SessionInv` says what the branch a call took implies about the tokens
(`TokensInv`: a call that logged in or refreshed sends with a fresh, live token and
a CSRF token; an expiry ahead is not that of an expired token), and what a rejection
leaves behind (`RejectedCalls`: an expired token that the next call notices, or,
where that call is at its request, a fresh one). `ListingInv` says that after page
`n` of an undisturbed listing every owed row at one of the first `n * PageSize` places
is in the result (`PagesRead`). A row that is added, anywhere, moves others only to
later places, past what was read, where they are read at the latest on the next page;
a deletion, a change of order and an answer without its fields disturb the listing.

Cache key, options, permission errors

| Module, theorem | Property |
| --- | --- |
| `CacheKeyNorm_proofs`, `NormKeepsPieces` | `Norm` keeps the pieces, for every sequence over any set of characters |
| `CacheKeyNorm_proofs`, `OneKeyOneMeaning` | two `Compact` pieces of SQL with one `Norm` have one `Meaning`, likewise and for any `Compound` |
| `CacheKeyNorm_proofs`, `SpacingKeepsKey` | white space that does not show in `Norm`, likewise |
| `PureFunctions_proofs`, `KeyKeepsItsPieces` | `KeyKeepsPieces`, of the SQL in `written` |
| `PureFunctions_proofs`, `SpacingIgnored` | `WhitespaceIgnored` |
| `PureFunctions_proofs`, `Untouched` | `QueryUntouched` |
| `PureFunctions_proofs`, `Rewording` | `DenialsReworded` |
| `PureFunctions_proofs`, `Loading` | `AcceptedLoads` |
| `PureFunctions_proofs`, `LoadedFaithfully` | `LoadedAsGiven` |

`NormKeepsPieces` is about two programs that both walk over SQL, the code's
scanner chunk by chunk and the lexer character by character. Their definitions are
recursive functions over indices, so what they compute is unfolded one index at a
time (`ScanStates`, `LexerStates`), and a statement about all indices is proved from
its least counterexample, a smallest element of a set of numbers that the library's
theorems give (induction rules take an operator, which the provers cannot
instantiate). The relation kept from chunk to chunk is `Follows`: the lexer has read
the output as far as it goes and the input as far as it has been scanned, and is in
the same state, up to a token that the next character will end in both. One lemma
for each kind of chunk (`ReadSpace`, `ReadTight`, `ReadLetter`, `ReadQuote`,
`ReadQuoted`, `QuoteRegion`) says what the lexer does over it; the hypotheses of the
theorem are used where a line comment ends and where a CR in quotes is replaced.
`OneKeyOneMeaning` follows: one `Norm` means the same pieces, and of `Compact` SQL the
joints are those the pieces have.

`SpacingKeepsKey` compares the normal forms of two pieces of SQL that the scanner
cuts into different chunks, so chunks are of no use there. For SQL without comments
the scanner's result is that of a listener that takes one character at a time
(`Heard`, `NormHeard`): it keeps every character in a quoted region and elsewhere
treats each as a chunk of its own, where the characters of one word follow each
other with nothing held back. Then the two pieces are compared character by
character. Inside quotes the extra white space makes the token longer for good
(`Differ`, `SpaceInQuotes`), which is why the theorem supposes that the meaning is
the same. In code it leaves the lexer between two tokens and the listener with a
space held back (`SpaceSeen`); the neighbour it supposes (`Loose`, or an end of the
SQL) is what makes that invisible one character later (`SpaceRejoined`), and from
there on both pieces are heard alike (`Rejoined`). Without such a neighbour the
space can show: a string and a word right after it are two tokens with and without
one, and the scanner keeps it.

`CacheInv` says that outside of `cache_key` the query is the chart's SQL and inside
it `saved` is. `ConfigInv` follows a value from the option through its environment
variable to what Superset's template makes of it.

Integrations

| Module, theorem | Property |
| --- | --- |
| `Integrations_proofs`, `IntegrationsTyped` | `IntegrationsTypeOK` |
| `Integrations_proofs`, `IntegrationsSafe` | the ten below, of the composed specification |
| `DatabaseRelation_proofs`, `DbTypeCorrect` | `DbTypeOK` |
| `Metrics_proofs`, `MetricsTypeCorrect` | `MetricsTypeOK` |
| `DatabaseRelation_proofs`, `Hidden` | `CredentialsHidden` |
| `DatabaseRelation_proofs`, `AnnouncedOnce` | `CreatedOnce` |
| `DatabaseRelation_proofs`, `StatusKept` | `StatusFollowed` |
| `DatabaseRelation_proofs`, `ConnectionFollows` | `ConnectionCurrent` |
| `Metrics_proofs`, `NamesUnique` | `JobNamesUnique` |
| `Metrics_proofs`, `ErrorsFollow` | `ErrorsCurrent` |
| `Integrations_proofs`, `Forwarding` | `ForwardingCurrent` |
| `Integrations_proofs`, `RulesSent` | `RulesReachLoki` |
| `Integrations_proofs`, `RouteFollows` | `RouteCurrent` |
| `Integrations_proofs`, `DashboardsFollow` | `DashboardsCurrent` |

Their invariants say of each stage between the two ends that it is current, or
that a hook which will make it so waits: `EndpointsInv` and `HooksInv` for the
endpoints of Loki, the plan and the rules; `BagInv` and `IngressInv` for the route
in the databag and, if its lead missed nothing, in the integrator (`Served`);
`ReportedInv` for the errors Prometheus' leader has reported, with `VerdictInv` for the
verdicts there are; `PublishedInv` and `ReadInv` for dashboards.
They speak of the leader's hook only where the leader's word counts, so that a move
of leadership to a unit whose hook waits keeps them. `HiddenInv` adds to
`CredentialsHidden` that the request for secrets is there whenever the request for
a database is, since the provider writes nothing before the latter;
`AnnouncedInv` says of each unit that credentials it has announced are in what it has
stored, or that the hook that announced them is in error (`AnnouncedKept`), and that
the secret of a later write is another one. `ConnectionFollows` rests on `SecretsInv`, that the
secrets there are, are exactly those the databag names, one of each group, and on
`LabelsInv`, that a label is bound within its group: together a label that still
leads to a secret leads to the one in the databag (`LabelsOfBag`), so a hook reads
what is published, and `PlannedInv` carries that to the units without hooks.
`StatusKept` ties what a unit believes to what it has stored (`StatusInv`).
`JobNamesUnique` follows from the two rounds of
`_dedupe_job_names` (`FirstDedupe`, `SecondDedupe`): a name that clashed carries a
hash of its content, one that did not carries none, and the second round never
makes the first kind out of the second.

Types are not inductive by themselves either. `DbTypeOK` says that a value in the
databag is a number of a write, which is so because hooks only copy what is there:
`KeysInv` says which keys a databag and what a unit has stored of it may have.
`MetricsInv` says that the consumer's jobs come from units of the relation, `ShownInv`
that Grafana shows what some unit of it rendered.

`IntegrationsSafe` is the composition. A behaviour of the composed `Spec` is, for
each relation, one of that relation alone or one in which it stays in its unused
state (`DbOrUnused` to `DashOrUnused`: `Spec => DbSpec \/ []DbUnused`, from the
variable `inUse` that no step changes), and the unused states satisfy the
properties (`UnusedTyped`, `UnusedSafe`).

Only model-checked: the liveness properties `Reconciles`, `ReportsActive`,
`EventuallyConnected`, `PasswordFollows`, `CallReturns` and `TargetsHeal` (liveness
under fairness is outside what the prover does), and `KeyKeepsMeaning`, of which the
part about pieces is a theorem, while that the normal form of `Compact` SQL has the
joints of the SQL is not. Every other invariant and every action property that a
passing run checks is stated by a theorem.

## 6. Not modelled

* `templates/superset_config.py` beside the numbers, the feature flags and the cache
  key: assignments Superset reads once.
* Start scripts: fixed command sequences whose idempotence lies in Superset.
* SSO manager, Sentry interceptor, event logging: callbacks that keep no state.
* Options that are enumerations, and everything else pydantic rejects:
  `config.valid` in `SupersetCharm`.
* Of the libraries, the classes Superset does not use: Kafka, OpenSearch, etcd and
  the like in `data_interfaces`, `PrometheusRulesProvider`,
  `LokiPushApiConsumer` and `LogProxyConsumer`, `GrafanaDashboardAggregator`. Also
  the rewriting of dashboard panels, and `CosTool`, an external program.

## 7. Plan

Done: `SupersetCharm`, `TrinoCatalogs`/`CatalogConnections`/`TrinoSync`,
`SupersetApiClient`, the pure functions, the five integrations, and their proofs.
Left:

1. Composition: the UI's availability (`SupersetCharm`) as the source of `faulty`
   in `TrinoSync`; several units of one application sharing the metadata database
   at bootstrap.

## 8. Running it

```
tlc -config charm_faults.cfg MCSupersetCharm.tla
tlc -config sync_overlap.cfg MCTrinoSync.tla
tlc -config api_session.cfg MCSupersetApiClient.tla
tlc -config pure_functions.cfg MCPureFunctions.tla
tlc -config integrations.cfg MCIntegrations.tla
tlapm SupersetCharm_proofs.tla
```

and `tlapm` on each other `*_proofs.tla`. Every passing run ends within four
minutes. Runs check for deadlock, since Juju's `update-status` never stops, except
`pure_functions` and `integrations`: a function that has returned its value is done,
and a relation on which nothing changes any more has nothing to run.
