# Unver: models, model checking and proofs

Unver is a reverse proxy with a management panel: one Rust process that keeps its configuration in
SQLite, listens on the ports of *port groups*, terminates TLS with certificates it issues by ACME
(DNS-01) or is given, keeps DNS records pointed at the host, and serves a React panel. This
directory holds TLA+ models of the parts where interleaving, failure and restart matter, TLC
configurations for them, and TLAPS proofs. Paths below are under `src/backend/src/` unless they
begin with `src/`; every definition that translates code is listed with its lines in
`PROJECT.json` ("map").

## 1. Inventory

Three facts about the whole program shape every model:

* Handlers are asynchronous tasks on one pool of two SQLite connections (`db.rs`). Except for
  `import_config` no handler uses a transaction: each statement commits alone, and others run
  between two statements. In the models **a statement is an action**.
* An error of a statement mostly returns from the handler with `?`; earlier statements stay. A
  client that disconnects makes the server drop the handler's future at an `.await`, that of its
  last statement included; the process can die anywhere. All of these leave a prefix of a handler's
  statements. Some errors do not end anything but are taken for a value: a key that does not
  decrypt is skipped (`ssl.rs:101`), a setting that cannot be read is empty
  (`unwrap_or_default`, `settings.rs:607`) or false (`unwrap_or(false)`, `cloudflare.rs:291`). Where
  a property depends on one of these it is an action of its own.
* Long-running tasks (proxy engine, SSL manager, DDNS, health) are told of changes by a channel,
  by a call, or not at all, and read the tables again later.

| Component | State | Operations | Interacts with | What makes it correct |
|---|---|---|---|---|
| Certificate cache, TLS resolver (`ssl.rs`, `proxy.rs` 320-350) | `cert_cache`, derived from `certificates` and `proxy_rules` | `load_certs_to_cache`; `resolve` | every handler on rules and certificates, SSL manager, restore | what is presented was asked for; nothing served is lost by a load; a coverable name is covered; newest version |
| Proxy rules (`api/proxies.rs`) | `proxy_rules` | create, field-by-field update, delete | loads the cache | see above |
| Port groups (`api/port_groups.rs`) | `port_groups` | create, update, delete with port probes | watch channel to the engine | refused changes leave nothing behind; ports distinct |
| Proxy engine (`proxy.rs` 367-464) | listener tasks | subscribe, abort all, read, spawn, bind | reads `port_groups` | no change lost; exactly the enabled groups run; never a mixture |
| Sessions (`api/auth.rs`, `middleware.rs`, `cli.rs` 457-520) | `users`, `refresh_tokens`, cookies, access tokens | setup, login, refresh, logout, change and reset of password | browsers; the CLI process | one account; a session is one chain; ended sessions stay ended; cookies are not lost |
| API keys (`middleware.rs`, `api/settings.rs`) | `api_keys`, a switch | create, delete, verify | every protected route | a valid key is accepted, a deleted one is not |
| Certificate jobs, SSL worker (`ssl_worker.rs`, `api/settings.rs` 645-783) | jobs, log buffers, a queue, one thread | issue, poll, finish | ACME issuance, panel | every job ends; every line is shown once |
| ACME issuance, renewal (`ssl.rs`) | account credentials, TXT records, orders | two issuance paths, renewal loop, clean-up | ACME server, DNS provider, cache | created records are removed; renewal makes progress |
| DDNS (`ddns/`) | last addresses, managed and disabled domains | periodic update, add, pause, delete | DNS zone | a wanted record is published unless the user removed it |
| Proxied connections (`proxy.rs` 470-898) | connection counters, streams | accept, sniff SNI, proxy, upgrade | rules, cache | counters return to zero; a counted connection is an open one |
| Backup and settings (`api/settings.rs`, `state.rs`) | `settings`, encrypted secrets | export, import, update with masked tokens | all tables, cache, engine | a restore is one snapshot; a mask never replaces a secret |
| Database pool (`db.rs`) | two connections | acquire, release | everything | no handler waits for itself |
| Frontend refresh (`src/frontend/src/api/client.js`) | a flag, a queue | refresh once, retry | refresh handler | every request settles |
| Lifecycle, CLI (`main.rs`, `cli.rs`) | process, binary, static files | start, restart, self-update, reset, uninstall | everything | start-up order; an update survives a crash |
| Health, network monitor, log, web server | samples, rows | loops | tables | independent of the rest |

`PROJECT.json` lists all of them with their status, and under "hazards" the places, line by line,
where this code is hard to test, with the properties that look there.

## 2. Modules

| Module | Content | Run |
|---|---|---|
| `CertCache` | rules, certificates, backup, cache, loads | `cert_cache`, `deleted_cert`, `in_sync` |
| `MCCertCache` | instance for TLC | |
| `CertCacheProofs` | theorems about `CertCache` | |
| `Listeners` | port groups, probes, signal, engine, listener tasks | `listeners`, `same_port` |
| `Reconcile` | abstract specification that `Listeners` implements | |
| `MCListeners`, `ListenersProofs` | instance, theorems | |
| `AuthSessions`, `MCAuthSessions` | account, sessions, cookies; instance | `auth_sessions`, `change_invalidates` |
| `AuthSessionsTypes`, `AuthSessionsProofs` | theorems about `AuthSessions`: types, then sessions | |
| `Issuance`, `MCIssuance` | certificate jobs, worker thread, renewals, both DNS-01 procedures, TXT records; instance | `issuance`, `renewal` |
| `Jobs` | abstract specification of background jobs that `Issuance` implements | |
| `IssuanceProofs` | theorems about `Issuance` | |
| `DdnsSync`, `MCDdnsSync`, `DdnsSyncProofs` | DDNS task, two providers, panel requests; instance, theorems | `ddns` |
| `Connections`, `MCConnections`, `ConnectionsProofs` | accepted connections, requests, counter; instance, theorems | `connections` |
| `TokenRefresh`, `MCTokenRefresh` | the panel's interceptor and its queue; instance | `token_refresh` |
| `SingleFlight`, `TokenRefreshProofs` | abstract specification of a shared refresh, which `TokenRefresh` implements; theorems | |

Conventions: `pc[t]` names the statement a task is about to run; constants with bounds are named
`Max...`; variables after the comment "history" are read by properties and by no guard; operators
whose comment begins "A bug:" are variants of the next definition that appear in no specification:
each shows that some property notices the mistake.

### 2.1 CertCache

| Variable | Code |
|---|---|
| `rules`, `certs` | tables `proxy_rules`, `certificates`; a certificate row is its name, its id and a version, the PEM it holds |
| `unusable` | versions whose `expires_at` has passed, or whose PEM or key never loads |
| `cache` | `AppState.cert_cache` |
| `backup` | a file `export_config` wrote, or one of another installation |
| `pc`, `target`, `todo`, `seenCerts`, `seenRules` | local variables of handlers and loads |
| `up` | `main` has finished its first load and started the servers |
| `everCerts`, `everRules`, `blame` | history |

`LoadCerts`, `LoadRules`, `WriteCache` are the two SELECTs and the locked section of
`load_certs_to_cache`. `LoadCerts` reads *any subset* of the usable rows: each key is decrypted with
a `jwt_secret` read anew, and a row where that fails is passed over by a load that still ends `Ok`.
`WriteCache` only overwrites, as the code does, and leaves the choice
among equal certificates open, as a SELECT without ORDER BY does. `ApplyField` is one UPDATE of
`update` and is followed by a load; `DeleteCertRow` and `UnbindRules` are the statements of
`delete_certificate`; `Import` is the transaction of `import_config`; `DeleteGroupRules` is the
deletion of a port group, which takes rules along without a load. Names are sequences of labels,
so `Covers` is the suffix test of `cert_covers_domain`, not a table.

`blame` says why the cache may lag behind the tables since the last load that saw all of them:
a load failed or was dropped ("failed"), a load skipped a key ("skipped"), a load wrote an old
snapshot over newer tables ("stale"), or rules went silently ("silent"). `LoadCutShort` is the first
two. Crashes, failures and skips together are bounded by `MaxFaults`. Properties:

* `PresentedIsJustified`: whatever `Resolve` returns was stored, and an active SSL rule for the
  name or for its wildcard, present or past, selected that certificate.
* `SettledCovered`, `SettledFresh`: when no task is between its first statement and its load and
  there is nothing to blame, names that should be covered are, and by the current version. For the
  first only a load cut short counts as a blame.
* `NoHandshakeGap`: no load takes a certificate away from a name.
* `EventuallyCovered`: a name that stays coverable is covered in the end, unless a load is cut
  short. Nothing in the code makes up for such a load before the next change of a rule, the next
  certificate or the next start.

Two claims of comments do not hold and have runs that show it: a deleted certificate stays in the
cache (`deleted_cert`), and two overlapping loads may leave a superseded version (`in_sync`).

### 2.2 Listeners and Reconcile

| Variable | Code |
|---|---|
| `groups` | table `port_groups`: the columns a listener is started from |
| `signal` | the watch channel holds a version the engine has not seen |
| `engine`, `rows` | position of `run_proxy_engine`, and what its SELECT returned |
| `listeners` | tasks spawned by `reload_listeners`: spawned, bound or refused, aborted or not |
| `pc`, `body`, `todo` | handlers |
| `wrote`, `blame`, `contested` | history |

A port probe is two actions, `ProbeOpens` and `ProbeCloses`: for that moment it holds the port,
also against the engine. `Changed` marks the version seen and aborts every task; `Drop` is the
runtime closing an aborted task's socket, at any later time, since the engine only sleeps for
100 ms; `Bind` tries once. `Free` compares ports after the cast to `u16`. `Import` is followed by
`LoadCertificates`, the load that `import_config` awaits between its commit and its send.
`StatementFails` is an error of a statement or the drop of a handler whose client has left, at the
await of a write (it may have been the last one), of that load, or of the statement before the
send; a reload that is not sent any more is "unsent" in `blame`.

* `NoLostReload`: an engine that waits with nothing pending, and no handler owing its send, runs
  exactly the enabled groups with the settings of their rows, unless since its last read a handler
  ended before its send ("unsent") or its own read failed ("unread").
* `RefusedOwesNoReload`: a request refused by a check or a probe has changed nothing the engine
  runs by. (The name of a group, which `update` writes first, does change.)
* `ClashesExplained`: two groups share a port of the machine only if a restore brought the port of
  one of them, or if two overlapping requests asked for it. The check of `create` and of `update`
  is a statement of its own before a probe and a write, and nothing reserves the port meanwhile;
  `contested` is the ports that two tasks were about to write at once (`Race`), or that came from
  a file.
* `EventuallyServed`, `EventuallyStopped`: liveness of both directions, with the exceptions the
  code has: a contended port, a bind lost to a probe or to a socket that closed late ("jostled"),
  an error, a handler that ended before its send. The second has the last one only: after a restore
  that is abandoned between commit and send, the listener of a deleted group goes on.
* `Reconciles`: `Listeners` implements `Reconcile`, an engine that stops everything, reads one
  snapshot and starts all of it.

`same_port` shows that the check of `listen_port` does not exclude two groups with one port.

### 2.3 AuthSessions

| Variable | Code |
|---|---|
| `password`, `complete`, `username` | table `users`, settings `setup_complete` and `username` |
| `tokens`, `born` | rows of `refresh_tokens` that can still be accepted; all tokens ever issued |
| `access` | users for whom an unexpired JWT exists |
| `jar` | the cookie `unver_refresh` of each browser |
| `pc`, `job` | handlers and the reset command |
| `era`, `ended`, `overtaken`, `raced`, `forked`, `lost`, `unrevoked`, `reopened` | history |

`Find`, `Rotate`, `Renew`, `Deliver` are the SELECT, DELETE, INSERT and the answer of `refresh`;
`UpdatePassword` and `Revoke` the two statements of `change_password` and of `reset_password`.
`Abandon` is every way a handler stops early, and the loss of its answer. The history variables
record *overlaps* when they occur, never the bad state that follows: `forked` when a second request
finds a token the first has found, `overtaken` when a session ends under a handler that has read it.
The setting `username`, which is only displayed, may hold anything after a restore.
The invariants then say that nothing goes wrong without such an overlap: `FirstRunOnly`,
`OneTokenPerSession`, `OldSessionsEnd`, `EndedSessionsEnd`, `CookieAccepted` and the action property
`NoResurrection`. `SessionsStayApart` needs no exception: a session is that of one browser, whatever
rotations overlap, get lost or stop half-way. `change_invalidates` shows the overlap in which a
session outlives a password change.

### 2.4 Issuance and Jobs

| Variable | Code |
|---|---|
| `status`, `reply` | `background_jobs`; the oneshot on which a job waits for the worker |
| `queue` | the channel of `ssl_worker.rs` |
| `said`, `spawned`, `buffer`, `shown` | log lines pushed, append tasks spawned on the worker's runtime and not yet run, `background_job_logs`, lines returned by polls |
| `flow[a]` | the procedure the worker or a renewing task is in, with its local variables |
| `acme[a]` | the order the ACME server keeps for it (external) |
| `saved` | setting `acme_credentials` |
| `zone`, `cleanups` | TXT records at the provider (external); clean-ups of deleted certificates under way |
| `cert` | table `certificates`: where a row comes from and the names it covers |
| `made`, `stored` | history |

`issue_certificate_sync` (the worker's) and `issue_certificate_multi` (the renewals') are two copies
of one procedure. They are one set of actions here, `OpenAccount` to `Finish`, which ask `flow[a]`
where the copies differ: only the worker calls `set_ready`, gives an authorization 240 s, and waits
for the order without a limit; the renewing copy polls, and gives up on the order in the 30th of its
40 rounds. `TxtAt` is where a provider puts the record: Cloudflare's search for a zone begins above
the name and fails for the name of a zone (`cloudflare.rs:442`), Aliyun always writes at the zone's
apex (`aliyun.rs:378`), so that a record may be where nobody looks. `Fail` is an error of any call,
`LoseAccount` an account whose credentials are not stored, `Leave` a request of the panel's renew
button that the client abandons, `Restart` a crash. Runtime tasks of a single-threaded runtime run
only while it blocks on something: `AppendLine` is therefore enabled only then, and the last line of
a job arrives with the next one. A poll drains and answers in one step: an answer that is lost after
the drain, and its lines with it, is not modelled. Neither is a restore, which may bring credentials
and certificates of its own.

* `KeepsPromise`: `Issuance` implements `Jobs`, a job that runs, settles once, and whose log is
  shown from the first line on, each line once and in order.
* `CompletedIsStored`: "completed" is said only of a job whose certificate was stored.
* `NoneForgotten`: the jobs the panel waits for are those in the channel of a thread that is alive
  and the one being served, each once. A worker that dies drops what it was sent and answers it.
* `NoLeftovers`: a challenge record is that of an authorization being decided, unless a call
  failed, a request was abandoned or the process died (those go to `Forsake` and leave the model).
* `FewAccounts`: overlapping issuances save at most one account each. There is no lock, so *one*
  would be false; what it rules out is credentials that are made again and again.
* `JobsSettle`: each job ends, if the server decides every order. An order it never decides blocks
  the worker for good; that is assumed away, not checked.

`renewal` shows that a renewal orders the name of the rule only and overwrites whatever row has
that name: names of a certificate are lost, and so is one uploaded meanwhile. (`auto_renew` is
never read.)

### 2.5 DdnsSync

| Variable | Code |
|---|---|
| `address` | what the detection services would answer (external) |
| `enabled`, `provider`, `listed` | settings `ddns_enabled`, `ddns_provider`, `ddns_domain(s)` |
| `paused` | setting `ddns_disabled` |
| `managed` | settings `ddns_ipv4_*`, `ddns_ipv6_*` |
| `record` | records at both providers (external) |
| `sync`, `request` | `run_ddns_manager` with `update_ddns`; the panel's requests |
| `Backups` (a constant) | what files of `export_config` hold of all these settings |
| `disturbed`, `deleted`, `overlapped`; `unread` in `sync` and `request` | history |

A round reads the settings and addresses, then takes key after key: look the record up, create or
update it, remember it. A failure ends the round with `?`. Cloudflare's upsert takes a record that
is missing but remembered for one the user deleted (`MissingLabel`); Aliyun's creates it again.
`Restore` is the transaction of `import_config`, which overwrites the provider, the domains, the
paused list and the remembered addresses with those of the file. Failed reads that the code takes
for a value are actions: `StartUnread` (a list of domains counts as empty, a type has no address),
`LookupUnread` (a lookup that failed counts as success), `LookupForgets` (the memory of a missing
record counts as none, so that it is created) and `ToggleUnread` (the paused list counts as empty
and is written back).

* `ManagedIsPublished`: the address remembered, which the panel shows, is in the record, unless
  somebody else changed the record, a failure kept it from being read or remembered, or a restore
  brought the address or another provider.
* `NotRecreated`: what is deleted at Cloudflare stays deleted, whatever round overlaps, unless the
  round that creates it could not read the memory of it, or a restore brought that memory after
  the round had looked.
* `TogglesAdd`: a toggle that has read the list and overlaps with no toggle and no restore keeps
  what the list says of other domains.
* `Settles`: once addresses, settings and records are left alone, every key the task can reach is
  published.

`Settles` has three exceptions the code has: keys behind a domain without a zone are never
reached; an IPv6 address with hexadecimal letters is not accepted by `fetch_ip`
(`ddns/mod.rs:156`); and keys that Cloudflare's upsert takes for deleted, which includes those of
a domain whose provider was switched, since what is remembered does not name the provider. The
list of paused domains is never read by the task.

### 2.6 Connections

| Variable | Code |
|---|---|
| `rules`, `force` | table `proxy_rules`; `force_https` of each group's listener |
| `counter` | `AppState.conn_counter` |
| `conn`, `stream` | `serve_connection` of each connection, `proxy_request` of each request |
| `offered`, `reached` | history |

A connection keeps its group and `force_https` for life, also across reloads; rules are looked up
for every tunnel and every request. `Cancel` is hyper dropping the future of a request, with the
`ConnGuard` in it; `Respond` with `"upgrade"` is an answer 101, which is not served; a body is
sent after the guard is gone, so a body or a tunnel is not counted. `Finish` ends a tunnel after
300 s at the latest; the TCP connection to an upstream has a time limit, and neither the TLS
handshake after it nor the answer has one.

* `CounterExact`: the counter of a rule is the number of its requests in handling, on every way
  out: answers, errors, dropped futures, closed connections, deleted rules.
* `OwnGroupOnly`: nothing is sent to a backend that no enabled rule of the connection's own group
  named since the connection was accepted.
* `WindsDown`: while a rule is off, nothing is sent by it anew, and what each connection and each
  request has of it in use only comes nearer its end.
* `WithdrawnRulesEnd`: a rule that is switched off falls out of use, except for requests whose
  upstream never ends the TLS handshake or never answers.

### 2.7 TokenRefresh

| Variable | Code |
|---|---|
| `page`, `stored`, `default`, `call` | the page, `access_token` in `localStorage`, the header a refresh leaves in the client, the calls with their `_retry` |
| `refreshing`, `refresh` | `isRefreshing` with `failedQueue`; the refresh, the cookie it was sent with, the call it is for |
| `cookie`, `elsewhere` | the browser's refresh cookie; a pair in an answer to another page of the browser |
| `issued`, `expired`, `live` | the server's (external): pairs issued, access tokens expired, cookies accepted |

An access token and a refresh cookie are issued as a pair and have one number. Any 401 starts a
refresh: that of a token which has expired, and that of `change_password` for a wrong current
password (`auth.rs:265`), which an accepted token does not prevent (`Verified`). Other pages share
cookie and `localStorage`: they log in and out and rotate the cookie, so a refresh is refused when
the session has ended, and also when another page has rotated the cookie just before and the session
goes on. The refresh is posted with the same client, so its own 401 passes the interceptor:
`RefreshRefused` puts it in the queue that only its end would empty. `token_refresh` shows it:
`EveryCallSettles` fails. Somebody may load the page afresh at any time, which drops what waits; the
model is of a page that nobody loads afresh.

What the interceptor does keep is proved in `TokenRefreshProofs`: calls share one refresh
(`TokenRefresh` implements `SingleFlight`), nobody waits unless a refresh is out or was refused,
and after a refusal whoever waits waits forever, whether the session has ended or not and whoever
logs in again.

## 3. Runs and bounds

| Run | Instance | Why it is enough |
|---|---|---|
| `cert_cache` | 2 rules, an exact and a wildcard name, 3 certificate versions, 2 tasks, 2 requests, 1 fault: a crash, a statement or load that fails, or a load that skips keys (559,000 states) | two tasks with two requests overlap any two loads; three versions allow a reissue of a certificate after the initial ones; a fault in every state |
| `deleted_cert`, `in_sync` | the same | |
| `listeners` | 3 groups, 2 handlers, 2 requests, 4 ports (two free, the panel's own, one that casts to another), a file with a port out of range and a row that an import skips, 1 restart, failures and dropped handlers without bound (217,000 states) | a send during each stage of a reload, probes against binds, contention by another group, by the panel and by the cast; two creations of one port beside a group that has it |
| `same_port` | the same | |
| `auth_sessions` | 2 names, 2 passwords, 2 browsers, 2 handlers, 4 requests, fresh and set-up databases (364,000 states) | login, then two overlapping rotations or endings, then a use of what is left; the properties also held with 5 requests (6.5 million states, too slow to repeat routinely) |
| `change_invalidates` | the same | |
| `issuance` | 2 jobs for one name at one provider, a renewal from the panel's button (417,000 states) | a job behind a job, a job beside a renewal, each with every call failing, abandoned, restarted |
| `renewal` | the same with both providers and two orders: two names, and a wildcard | the certificate whose names are lost needs two |
| `ddns` | 3 keys (a domain with A and AAAA before one with A), 2 addresses, 2 requests, 2 edits, 1 fault, a file with the second domain (819,000 states); Aliyun has no zone of the first domain | a toggle or a deletion beside a round beside a toggle, a restore or an edit at the provider, with a failure or an unread setting between |
| `connections` | 2 connections of 2 requests, 2 of them in handling, 2 groups, 2 rules, 1 edit, 1 fault (285,000 states) | two requests of a rule on one connection or on two, a rule changed or a group reloaded under each; also held with 2 edits (1.74 million states, 4 minutes) |
| `token_refresh` | 3 calls, one of them a change of password, 3 pairs | a call that refreshes, one queued, one that arrives later, beside a rotation and a login elsewhere |

What is bounded and by what: `MaxStamp`, `MaxRequests`, `MaxRestarts`, `MaxTokens`, `MaxEdits`,
`MaxFaults`, `MaxInHandling`, each in one guard or a few. Deadlock checking is on in `connections`,
where a client may always connect or hang up. It is off elsewhere: requests are bounded, and a
system nobody asks anything of is at rest. `auth_sessions` uses the symmetry of tasks and browsers
and checks no liveness; `renewal` that of jobs.

Fairness is weak throughout, and assumed only of what goes on by itself:

* `CertCache`, `Listeners`: what the runtime keeps polling once it has begun, that is a task past
  its first statement, the engine, the listener tasks.
* `Issuance`: the thread starts, receives and steps, waiting tasks are polled, and the ACME server
  decides the worker's order. The code has no limit of its own on the loop that waits for the
  order; it has one on the wait for an authorization.
* `DdnsSync`: the task. Its interval is a sleep, and each call has a time limit.
* `Connections`: a request that waits for no peer, the end of a tunnel, the end of a closing
  connection. Clients and upstreams owe nothing.
* `TokenRefresh`: a request of the browser is answered or fails; the refresh may be granted,
  refused or fail, and the page is not loaded afresh.

Requests, failures, expiry, edits and restarts are never assumed to happen.

## 4. Proofs

All proofs hold for every value of the constants that satisfies the named assumptions
(`CertCacheAssumption`, `ListenersAssumption`, `AuthAssumption`, `IssuanceAssumption`,
`DdnsAssumption`, `ConnectionsAssumption`; `TokenRefresh` needs none), which TLC evaluates in every
run: any number of rules, groups, users, browsers, tasks, jobs, names, connections and requests.

* `CertCacheProofs!TypeCorrect`, `PresentedCertificates`. `PresentedIsJustified` speaks of the
  cache only; a load writes what it read two awaits ago, and what it read may be gone from the
  tables. The inductive invariant adds `Provenance`: the tables, the backup and every load's
  snapshot lie within the history of rows, and each cache entry matches a rule of it.
* `CertCacheProofs!NamesAreCovered`, `NamesAreFresh`. Both speak of rest; the invariant
  `Settling` says what loads under way still owe. `Covering`: a rule and a certificate that match
  have an entry or *one* load that will see both. It takes the pair, since a load that will see
  some certificate for the name helps nothing if that one is gone by then. `Refreshing`: with
  nothing to blame, every name is fresh or a load is due. A load that has skipped a row is not one
  that will see both, and it is to blame until a load has seen everything.
* `CertCacheProofs!NoGaps`: `NoHandshakeGap`, from the types, as a load only overwrites.
* `ListenersProofs!TypeCorrect`, `ReloadsNotLost`, `RefusalsOweNoReload`, `EngineReconciles`.
  `NoLostReload` is about an engine that waits; the invariant has to say what holds on the way
  there. `Carries`: what a handler carries to its INSERT is a group. `Committed`: a handler that
  owes the engine a signal is past every check, with only fields, rules, a restore's load or the
  send before it; this alone gives `RefusedOwesNoReload`. `Current`: outside "wait" nothing runs
  that is not aborted, rows are there only to be spawned, and whenever nothing is pending, no
  handler owes a send and nothing failed, the engine's snapshot, or what runs, is the enabled
  groups. The refinement uses the first two parts of `Current`: they make `SpawnAll` a step of
  `Reconcile`.
* `ListenersProofs!ClashesHaveCauses`. Between its check and its write a handler holds a port in
  mind only, so `Explained` states `ClashesExplained` for the rows and for the rows about to be
  written: every two *claims* on one port have it in `contested`. That needs `Keyed`: an id is
  that of one row or of one group being created, since the check of a PATCH exempts its own id.
* `AuthSessionsTypes!TypeCorrect`. `TypeOK` includes the references: tokens, cookies and handlers
  point at issued tokens, access tokens at users. `Carries` adds that a handler carries what its
  place asks for, and that the user of a token exists; a user is never deleted.
* `AuthSessionsProofs!OneTokenAtATime`, `ChangeEndsSessions`, `EndedSessionsStay`,
  `NothingRevives`. Their common invariant is `Sessions`. A token is replaced by two statements,
  so what holds of the tokens in the table has to hold of the tokens handlers are about to issue:
  `Exclusive`, `Kept` and `Over` state each property of both. `OneUser` ties them together: a
  session has one user, and a handler that rotates a token knows it, so the DELETE of a password
  change overtakes every handler of the sessions it ends. Most statements touch none of this:
  `Quiet` says so once, and only eight actions need a case each.
* `AuthSessionsProofs!OneAccount`. `FirstRun` adds what setups under way have seen: a setup that
  may still insert has seen no user, unless another overlapped it.
* `AuthSessionsProofs!CookiesAccepted`. `Unique`: a token is the cookie of one browser only and is
  presented by it only, and a token whose answer has not arrived is known to nobody. So no other
  handler can rotate it on its way, and it arrives acceptable or with its session's reason.
* `AuthSessionsProofs!BrowsersApart`. `OneBrowser` says of the cookies *and* of the tokens in the
  hands of each browser's handlers that a session is in one of them only.
* `IssuanceProofs!TypeCorrect`. `TypeOK` alone is not inductive: a procedure must have the job,
  order, name and provider its place asks for, which `Employed` adds.
* `IssuanceProofs!CompletedAreStored`. `Ended` follows the answer: an "ok" on its way from the
  worker, in the oneshot or recorded is for a job that is in `stored`.
* `IssuanceProofs!JobsAreHeld`. `Answering` adds to `NoneForgotten` that an idle worker has no job
  in hand, so that receiving one loses none, and that an answer is for a job that was registered,
  so that a new id is not answered already.
* `IssuanceProofs!NoRecordsLeft`: the deletion is in the step that leaves the authorization, so
  only the zone has to be followed.
* `IssuanceProofs!AccountsAreFew`. `Accounts` counts: accounts made and those about to be made
  (`Creating`) are no more than the actors, and until credentials are saved, those made are the
  ones that are being saved (`Saving`).
* `IssuanceProofs!JobsKept`: the refinement. `Numbered` says that what is shown, buffered, spawned
  and still to be said of a job are consecutive numbers, so that a poll is a `Show` of `Jobs`.
* `DdnsSyncProofs!TypeCorrect`, `RememberedIsPublished`, `DeletedStaysDeleted`, `TogglesKeepOthers`.
  A round acts on what it read before: `Found` says that what it is about to remember is in the
  record or was disturbed since; `CreatesUnknown` that it creates only keys not remembered at
  Cloudflare, or whose memory it has not read, `DeletedKnown` that deleted ones are remembered,
  `Foreign` that a round for a provider which the settings no longer name has only disturbed keys
  left, and `Alone` that without overlap a toggle that has read the list writes over what it read.
* `DdnsSyncProofs!RoundsEnd`: a round takes at most three steps for each key and keeps the provider
  and the addresses it began with, whatever the panel does meanwhile (a restore changes nothing of
  it but `unread`). The measure is `Ahead`: three for each key left, less those taken for the key it
  is at. It is stated by no run; TLC confirmed it on the instance of `ddns` before it was proved.
* `ConnectionsProofs!TypeCorrect`, `CountersExact`, `NothingStrays`. `Attached`: a request belongs
  to a connection of its kind, so closing cannot leave a guard behind; the count itself is a case
  per way out, with `ConnOutcome` and `StreamOutcome` saying once where a step leads. `Offers`: the
  target a connection or request carries was offered to its group.
* `ConnectionsProofs!RulesWindDown`: `WindsDown`, a case per action. The rule is off before *and*
  after the step, so no row of the table offers it (`OffIsNotLive`).
* `TokenRefreshProofs!TypeCorrect`, `NobodyWaitsAlone`, `RefreshIsShared`, `RefusedMeansForever`,
  for any set of calls and any bound on pairs. `OneRefresh` ties the flag, the queue and the one
  refresh together, with the one call that posted it; `Fresh` says that a page loaded afresh has no
  call open. `RefusedMeansForever` asks nothing of the server: no action takes a refresh out of its
  own queue, however the session fares. The run of this module expects a violation, so these have no
  passing run; TLC confirmed each on its instance.

The strengthenings held in TLC runs of the same instances before they were proved.

Only model-checked: liveness, since fairness and `ENABLED` are out of the prover's reach:
`EventuallyCovered`, `EventuallyServed`, `EventuallyStopped`, `JobsSettle`, `Settles`,
`WithdrawnRulesEnd`. Three theorems prove what part of it is safety. `JobsSettle` needs the worker
to go on, and `JobsAreHeld` that no awaited job is outside its hands. `WithdrawnRulesEnd` needs
whatever is in use to move, and `RulesWindDown` that it cannot move back. `Settles` needs the task
to go on, and `RoundsEnd` that going on ends the round. Every other property of a passing run is
proved. The properties of the six runs that expect a violation are false and have nothing to prove,
except that `RefusedMeansForever` says where `EveryCallSettles` is. The modules have no RECURSIVE
operators.

## 5. What remains

The order followed the importance to a user of the proxy: `CertCache`, `Listeners` with
`Reconcile`, `AuthSessions`, `Issuance` with `Jobs`, `DdnsSync`, `Connections`, `TokenRefresh`.
Candidates for more, none of which interacts much with the rest:

* `DbPool`: two connections, and transactions that ask for another one (`settings.rs:472`);
* `SelfUpdate`: renames of the binary and of the static files with a crash between them;
* the parsing in `extract_sni`, the masks of tokens in settings, the comparison of an RFC 3339
  text with `datetime('now')`: pure operators, to be compared with reference definitions;
* API keys, whose rows may share a prefix.

## 6. Not modelled

* Vendored `instant-acme`, rendering in the panel, build and installation scripts, static file
  serving, statistics and the log have no interacting state of their own.
* TLS, HTTP, hashing and encryption are represented by their outcome; the headers and the bytes of
  a proxied request have no effect on any property here.
* The health checker writes one status per rule that no other part reads.
* The database pool appears as statements that may fail; a circular wait of two restores is listed
  as a hazard without a property.
* `self_update`, `restart_service` and `uninstall` act on files of the host; a restart of the
  process is in every module.
* Aliyun and Cloudflare, the ACME server and its DNS, browsers and upstreams are modelled from how
  the code uses them, and are marked external in the map.

A rule that is disabled or deleted keeps its cache entry, as a deleted certificate does
(`ssl.rs:113`): entries are only ever added. `PresentedIsJustified` therefore speaks of rules
present or past.
