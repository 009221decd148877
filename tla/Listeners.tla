----------------------------- MODULE Listeners -----------------------------
(***************************************************************************)
(* Port groups (api/port_groups.rs) and the listeners the proxy engine     *)
(* runs for them (proxy.rs, run_proxy_engine and reload_listeners).        *)
(*                                                                         *)
(* A handler changes the table statement by statement, probes ports by     *)
(* binding them for an instant, and finally sends on a watch channel.  The *)
(* engine answers by aborting every listener task, sleeping, reading the   *)
(* enabled groups and spawning a task for each, which binds its port once. *)
(* Aborting is asynchronous: the sleep gives an aborted task time to close *)
(* its socket, and nothing waits for it.                                   *)
(***************************************************************************)
EXTENDS Integers, FiniteSets

CONSTANTS
    GroupId,       \* identifiers of port groups
    Port,          \* values of listen_port in requests and in backups
    Task,          \* executions of handlers that may be in flight at once
    NewGroups,     \* groups that POST requests create
    PatchBodies,   \* what PATCH requests change: sets of <<field, value>>
    Backups,       \* port_groups sections of configuration files
    InitialGroups, \* groups an earlier run left in the database
    Occupied,      \* ports of the machine that other sockets hold, the panel's included
    MaxRequests,   \* bound: requests started
    MaxRestarts    \* bound: crashes or restarts of the process

VARIABLES
    groups,     \* table port_groups
    signal,     \* the watch channel holds a version its receiver has not seen
    engine,     \* where run_proxy_engine is
    rows,       \* the enabled groups it has read and not started yet
    listeners,  \* listener tasks that exist, the aborted ones included
    asked,      \* requests started so far
    restarts,   \* number of restarts so far
    pc,         \* where each handler is
    body,       \* the group a POST inserts or a PATCH is about
    todo,       \* fields a PATCH has still to write
    \* history, read by the properties and by no action
    wrote,      \* the handler has changed the table and not sent yet
    blame,      \* what kept the engine from serving the table since its last read:
                \* an unsent change, an unread table, a port taken for a moment
    contested   \* ports that a restore brought, or that two overlapping requests asked for

locals == <<pc, body, todo, wrote>>
vars == <<groups, signal, engine, rows, listeners, asked, restarts, locals, blame, contested>>

-----------------------------------------------------------------------------
\* The columns a listener is started from; the name of a group is only shown.
Row(ids) == [id : ids, port : Port, enabled : BOOLEAN, skip : BOOLEAN, force : BOOLEAN]
Group == Row(GroupId)
Listener == [group : Group, st : {"spawned", "bound", "refused"}, aborted : BOOLEAN]
Patch == ({"port"} \X Port) \cup ({"enabled", "skip", "force"} \X BOOLEAN)
BodyType == Group \cup [id : GroupId \cup {""}, port : Port \cup {0}]
ValidPort(p) == p \in 1..65535

ASSUME ListenersAssumption ==
    /\ Port \subseteq Int
    /\ MaxRequests \in Nat /\ MaxRestarts \in Nat
    /\ NewGroups \subseteq Group
    /\ InitialGroups \subseteq Group
    /\ \A g, h \in InitialGroups : g.id = h.id => g = h
    /\ \A p \in PatchBodies : p \subseteq Patch /\ \A u, w \in p : u[1] = w[1] => u = w
    /\ "" \notin GroupId
    /\ \A gs \in Backups : gs \subseteq Row(GroupId \cup {""}) /\ \A g, h \in gs : g.id = h.id => g = h

\* listen_port is an i64 that the engine casts to u16.
OsPort(p) == p % 65536

Enabled(gs) == {g \in gs : g.enabled}
Live == {k \in listeners : ~k.aborted}
Serving == {k \in listeners : k.st = "bound"}

\* A probe holds its port between the bind and the end of the statement.
Probing == {t \in Task : pc[t] \in {"probing create", "probing update", "probing settings"}}

\* Binding to 0.0.0.0:p succeeds unless a socket listens there; port 0 asks for any.
Free(p) ==
    \/ OsPort(p) = 0
    \/ /\ OsPort(p) \notin Occupied
       /\ \A k \in Serving : OsPort(k.group.port) # OsPort(p)
       /\ \A t \in Probing : OsPort(body[t].port) # OsPort(p)

\* A POST is past its checks and has not inserted yet; a handler is, and has not written.
Creating == {t \in Task : pc[t] \in {"probe create", "probing create", "insert"}}
Checked == Creating \cup {t \in Task : pc[t] \in {"probe update", "probing update", "write port"}}

\* The groups that have a port, or will have once a handler has written.
Claims == {<<g.id, g.port>> : g \in groups} \cup {<<body[t].id, body[t].port>> : t \in Checked}

\* The ports that two of the claims are for, or that no request could have asked for.
Doubtful(claims) ==
    {c[2] : c \in {d \in claims : ~ValidPort(d[2]) \/ \E e \in claims : e[1] # d[1] /\ e[2] = d[2]}}

\* Port p passes a check of handler t, in which another request that asks for it does not show.
Race(t, p) ==
    contested' = IF \E s \in Checked \ {t} : body[s].port = p THEN contested \cup {p} ELSE contested

-----------------------------------------------------------------------------
NoBody == [id |-> "", port |-> 0]

Init ==
    /\ groups = InitialGroups
    /\ signal = FALSE
    /\ engine = "start"
    /\ rows = {}
    /\ listeners = {}
    /\ asked = 0
    /\ restarts = 0
    /\ pc = [t \in Task |-> "idle"]
    /\ body = [t \in Task |-> NoBody]
    /\ todo = [t \in Task |-> {}]
    /\ wrote = [t \in Task |-> FALSE]
    /\ blame = {}
    /\ contested = Doubtful(Claims)

Goto(t, label) == pc' = [pc EXCEPT ![t] = label]

\* A free handler takes the next request.
Accept(t) ==
    /\ pc[t] = "idle"
    /\ asked < MaxRequests
    /\ asked' = asked + 1

\* The table becomes gs by a statement of handler t.
Commit(t, gs) ==
    /\ groups' = gs
    /\ wrote' = [wrote EXCEPT ![t] = TRUE]

\* The handler answers, with success or with an error, and is free again.
Answer(t) ==
    /\ Goto(t, "idle")
    /\ body' = [body EXCEPT ![t] = NoBody]
    /\ todo' = [todo EXCEPT ![t] = {}]
    /\ wrote' = [wrote EXCEPT ![t] = FALSE]

-----------------------------------------------------------------------------
(* Handlers: api/port_groups.rs, api/settings.rs                           *)

\* A new id is a random UUID: no row has it and no request knows it.
NewId(i) == (\A h \in groups : h.id # i) /\ (\A s \in Task : body[s].id # i)

\* A bug: whether a group has the port is left to the probe.
BeginCreateUnchecked(t, g) ==
    /\ Accept(t)
    /\ ValidPort(g.port)
    /\ NewId(g.id)
    /\ Race(t, g.port)
    /\ body' = [body EXCEPT ![t] = g]
    /\ Goto(t, "probe create")
    /\ UNCHANGED <<groups, signal, engine, rows, listeners, restarts, todo, wrote, blame>>

\* create: the port is valid and no group has it.
BeginCreate(t, g) ==
    /\ Accept(t)
    /\ ValidPort(g.port)
    /\ NewId(g.id)
    /\ \A h \in groups : h.port # g.port
    /\ Race(t, g.port)
    /\ body' = [body EXCEPT ![t] = g]
    /\ Goto(t, "probe create")
    /\ UNCHANGED <<groups, signal, engine, rows, listeners, restarts, todo, wrote, blame>>

\* The bind succeeds; the socket is dropped in the next step.
ProbeOpens(t) ==
    /\ pc[t] \in {"probe create", "probe update"}
    /\ Free(body[t].port)
    /\ Goto(t, IF pc[t] = "probe create" THEN "probing create" ELSE "probing update")
    /\ UNCHANGED <<groups, signal, engine, rows, listeners, asked, restarts, body, todo, wrote, blame, contested>>

ProbeCloses(t) ==
    /\ pc[t] \in {"probing create", "probing update"}
    /\ Goto(t, IF pc[t] = "probing create" THEN "insert" ELSE "write port")
    /\ UNCHANGED <<groups, signal, engine, rows, listeners, asked, restarts, body, todo, wrote, blame, contested>>

\* "Port .. is occupied by another process".
ProbeRefused(t) ==
    /\ pc[t] \in {"probe create", "probe update"}
    /\ ~Free(body[t].port)
    /\ Answer(t)
    /\ UNCHANGED <<groups, signal, engine, rows, listeners, asked, restarts, blame, contested>>

\* A bug: the engine is not told of a new group.
InsertGroupSilently(t) ==
    /\ pc[t] = "insert"
    /\ groups' = groups \cup {body[t]}
    /\ Answer(t)
    /\ UNCHANGED <<signal, engine, rows, listeners, asked, restarts, blame, contested>>

InsertGroup(t) ==
    /\ pc[t] = "insert"
    /\ Commit(t, groups \cup {body[t]})
    /\ Goto(t, "send")
    /\ UNCHANGED <<signal, engine, rows, listeners, asked, restarts, body, todo, blame, contested>>

\* update: the group exists.
BeginUpdate(t, i, fields) ==
    /\ Accept(t)
    /\ \E g \in groups : g.id = i
    /\ body' = [body EXCEPT ![t] = [id |-> i, port |-> 0]]
    /\ todo' = [todo EXCEPT ![t] = fields]
    /\ Goto(t, "patch")
    /\ UNCHANGED <<groups, signal, engine, rows, listeners, restarts, wrote, blame, contested>>

\* The new port is valid and the group still there: it differs from the current one
\* or is written back as it is.
ReadPort(t, p) ==
    /\ pc[t] = "patch"
    /\ <<"port", p>> \in todo[t]
    /\ IF ValidPort(p) /\ \E g \in groups : g.id = body[t].id
       THEN /\ body' = [body EXCEPT ![t].port = p]
            /\ Goto(t, IF \E g \in groups : g.id = body[t].id /\ g.port = p
                       THEN "write port" ELSE "conflict")
            /\ UNCHANGED <<todo, wrote>>
       ELSE Answer(t)
    /\ UNCHANGED <<groups, signal, engine, rows, listeners, asked, restarts, blame, contested>>

CheckConflict(t) ==
    /\ pc[t] = "conflict"
    /\ IF \E g \in groups : g.id # body[t].id /\ g.port = body[t].port
       THEN Answer(t) /\ UNCHANGED contested
       ELSE /\ Goto(t, "probe update") /\ UNCHANGED <<body, todo, wrote>>
            /\ Race(t, body[t].port)
    /\ UNCHANGED <<groups, signal, engine, rows, listeners, asked, restarts, blame>>

\* A bug: the port is checked and written after the other fields.
BeforePortLast(f, g) ==
    LET order == [enabled |-> 1, skip |-> 2, force |-> 3, port |-> 4]
    IN  order[f] < order[g]

Before(f, g) ==
    LET order == [port |-> 1, enabled |-> 2, skip |-> 3, force |-> 4]
    IN  order[f] < order[g]

Assign(g, u) ==
    CASE u[1] = "port"    -> [g EXCEPT !.port = u[2]]
      [] u[1] = "enabled" -> [g EXCEPT !.enabled = u[2]]
      [] u[1] = "skip"    -> [g EXCEPT !.skip = u[2]]
      [] u[1] = "force"   -> [g EXCEPT !.force = u[2]]

\* One UPDATE of the group of t, if it still exists.
Rewrite(t, u) ==
    /\ Commit(t, {IF g.id = body[t].id THEN Assign(g, u) ELSE g : g \in groups})
    /\ todo' = [todo EXCEPT ![t] = {w \in @ : w[1] # u[1]}]
    /\ Goto(t, "patch")

WritePort(t) ==
    /\ pc[t] = "write port"
    /\ Rewrite(t, <<"port", body[t].port>>)
    /\ UNCHANGED <<signal, engine, rows, listeners, asked, restarts, body, blame, contested>>

WriteField(t, u) ==
    /\ pc[t] = "patch"
    /\ u \in todo[t] /\ u[1] # "port"
    /\ \A w \in todo[t] \ {u} : Before(u[1], w[1])
    /\ Rewrite(t, u)
    /\ UNCHANGED <<signal, engine, rows, listeners, asked, restarts, body, blame, contested>>

\* All fields are written.
FinishUpdate(t) ==
    /\ pc[t] = "patch"
    /\ todo[t] = {}
    /\ Goto(t, "send")
    /\ UNCHANGED <<groups, signal, engine, rows, listeners, asked, restarts, body, todo, wrote, blame, contested>>

\* delete: NotFound without a row.  The rules of the group go in a second statement.
DeleteGroup(t, i) ==
    /\ Accept(t)
    /\ \E g \in groups : g.id = i
    /\ Commit(t, {g \in groups : g.id # i})
    /\ Goto(t, "rules")
    /\ UNCHANGED <<signal, engine, rows, listeners, restarts, body, todo, blame, contested>>

DeleteRules(t) ==
    /\ pc[t] = "rules"
    /\ Goto(t, "send")
    /\ UNCHANGED <<groups, signal, engine, rows, listeners, asked, restarts, body, todo, wrote, blame, contested>>

\* A bug: rows without an id are imported as well.
ImportUnfiltered(t, gs) ==
    /\ Accept(t)
    /\ Commit(t, {g \in groups : \A h \in gs : h.id # g.id} \cup gs)
    /\ Goto(t, "load")
    /\ UNCHANGED <<signal, engine, rows, listeners, restarts, body, todo, blame>>
    /\ contested' = contested \cup Doubtful(Claims')

\* import_config: rows replace those with their id, without any check of the port; the
\* transaction commits.  No file has the id of a group that is still being created.
Import(t, gs) ==
    LET kept == {g \in gs : g.id # ""} IN
    /\ Accept(t)
    /\ \A g \in kept, s \in Creating : g.id # body[s].id
    /\ Commit(t, {g \in groups : \A h \in kept : h.id # g.id} \cup kept)
    /\ Goto(t, "load")
    /\ UNCHANGED <<signal, engine, rows, listeners, restarts, body, todo, blame>>
    /\ contested' = contested \cup Doubtful(Claims')

\* import_config awaits load_certs_to_cache, whatever that returns, before it sends.
LoadCertificates(t) ==
    /\ pc[t] = "load"
    /\ Goto(t, "send")
    /\ UNCHANGED <<groups, signal, engine, rows, listeners, asked, restarts, body, todo, wrote, blame, contested>>

\* update_settings probes a new web_port and stores it for the next start.
ProbeWebPort(t, p) ==
    /\ Accept(t)
    /\ Free(p)
    /\ body' = [body EXCEPT ![t] = [NoBody EXCEPT !.port = p]]
    /\ Goto(t, "probing settings")
    /\ UNCHANGED <<groups, signal, engine, rows, listeners, restarts, todo, wrote, blame, contested>>

SaveWebPort(t) ==
    /\ pc[t] = "probing settings"
    /\ Answer(t)
    /\ UNCHANGED <<groups, signal, engine, rows, listeners, asked, restarts, blame, contested>>

\* A bug: a receiver that is not waiting misses the notification.
SendToWaiter(t) ==
    /\ pc[t] = "send"
    /\ signal' = (signal \/ engine = "wait")
    /\ Answer(t)
    /\ UNCHANGED <<groups, engine, rows, listeners, asked, restarts, blame, contested>>

\* port_group_reload.send: the versions that were not seen yet coalesce.
Send(t) ==
    /\ pc[t] = "send"
    /\ signal' = TRUE
    /\ Answer(t)
    /\ UNCHANGED <<groups, engine, rows, listeners, asked, restarts, blame, contested>>

\* A statement fails (a busy database, say) and the handler returns the error, or the client
\* disconnects and the handler is dropped at an await: that of the statement or load before
\* the send included, which has then been done and is followed by no send.
StatementFails(t) ==
    /\ pc[t] \in {"insert", "patch", "conflict", "write port", "rules", "load", "send"}
    /\ blame' = IF wrote[t] THEN blame \cup {"unsent"} ELSE blame
    /\ Answer(t)
    /\ UNCHANGED <<groups, signal, engine, rows, listeners, asked, restarts, contested>>

-----------------------------------------------------------------------------
(* The proxy engine: proxy.rs                                              *)

\* The receiver is created first, so the initial read misses nothing it is not told of.
Subscribe ==
    /\ engine = "start"
    /\ signal' = FALSE
    /\ engine' = "load"
    /\ UNCHANGED <<groups, rows, listeners, asked, restarts, locals, blame, contested>>

Abort(ks) == {[k EXCEPT !.aborted = TRUE] : k \in {l \in ks : l.st # "refused"}}

\* A bug: listeners of groups that are still enabled are left running.
ChangedKeepsEnabled ==
    /\ engine = "wait"
    /\ signal
    /\ signal' = FALSE
    /\ engine' = "load"
    /\ listeners' = Abort({k \in listeners : k.group \notin Enabled(groups)})
                        \cup {k \in listeners : k.group \in Enabled(groups)}
    /\ UNCHANGED <<groups, rows, asked, restarts, locals, blame, contested>>

\* A bug: the map is drained but the tasks are not aborted.
ChangedNoAbort ==
    /\ engine = "wait"
    /\ signal
    /\ signal' = FALSE
    /\ engine' = "load"
    /\ UNCHANGED <<groups, rows, listeners, asked, restarts, locals, blame, contested>>

\* changed() returns, having marked the version as seen, and every task is aborted.
Changed ==
    /\ engine = "wait"
    /\ signal
    /\ signal' = FALSE
    /\ engine' = "load"
    /\ listeners' = Abort(listeners)
    /\ UNCHANGED <<groups, rows, asked, restarts, locals, blame, contested>>

Spawn(g) == [group |-> g, st |-> "spawned", aborted |-> FALSE]

\* After the sleep: one SELECT.
ReadGroups ==
    /\ engine = "load"
    /\ rows' = Enabled(groups)
    /\ blame' = {}
    /\ engine' = "spawn"
    /\ UNCHANGED <<groups, signal, listeners, asked, restarts, locals, contested>>

\* A task for each group that was read; then the engine waits for the next version.
SpawnAll ==
    /\ engine = "spawn"
    /\ listeners' = listeners \cup {Spawn(g) : g \in rows}
    /\ rows' = {}
    /\ engine' = "wait"
    /\ UNCHANGED <<groups, signal, asked, restarts, locals, blame, contested>>

\* The SELECT fails: nothing is spawned until the next change.
ReloadFails ==
    /\ engine = "load"
    /\ blame' = blame \cup {"unread"}
    /\ engine' = "wait"
    /\ UNCHANGED <<groups, signal, rows, listeners, asked, restarts, locals, contested>>

\* Who keeps a port from a new listener only for a moment.
Passing(p) ==
    \/ \E t \in Probing : OsPort(body[t].port) = OsPort(p)
    \/ \E k \in Serving : k.aborted /\ OsPort(k.group.port) = OsPort(p)

Become(k, st) == listeners' = (listeners \ {k}) \cup {[k EXCEPT !.st = st]}

\* The task binds its port, also one that was being polled when it was aborted;
\* or the bind fails and the task ends: nobody tries again.
Bind(k) ==
    /\ k.st = "spawned"
    /\ IF Free(k.group.port)
       THEN /\ Become(k, "bound")
            /\ UNCHANGED blame
       ELSE /\ Become(k, "refused")
            /\ blame' = IF Passing(k.group.port) THEN blame \cup {"jostled"} ELSE blame
    /\ UNCHANGED <<groups, signal, engine, rows, asked, restarts, locals, contested>>

\* The runtime drops an aborted task, and its socket with it.
Drop(k) ==
    /\ k.aborted
    /\ listeners' = listeners \ {k}
    /\ UNCHANGED <<groups, signal, engine, rows, asked, restarts, locals, blame, contested>>

\* The process dies or is restarted at any point; the table survives.
Restart ==
    /\ restarts < MaxRestarts
    /\ restarts' = restarts + 1
    /\ signal' = FALSE
    /\ engine' = "start"
    /\ rows' = {}
    /\ listeners' = {}
    /\ pc' = [t \in Task |-> "idle"]
    /\ body' = [t \in Task |-> NoBody]
    /\ todo' = [t \in Task |-> {}]
    /\ wrote' = [t \in Task |-> FALSE]
    /\ blame' = {}
    /\ UNCHANGED <<groups, asked, contested>>

-----------------------------------------------------------------------------
Requests(t) ==
    \/ \E g \in NewGroups : BeginCreate(t, g)
    \/ \E i \in GroupId, fields \in PatchBodies : BeginUpdate(t, i, fields)
    \/ \E i \in GroupId : DeleteGroup(t, i)
    \/ \E gs \in Backups : Import(t, gs)
    \/ \E p \in Port : ProbeWebPort(t, p)

Proceed(t) ==
    \/ ProbeOpens(t)
    \/ ProbeCloses(t)
    \/ ProbeRefused(t)
    \/ InsertGroup(t)
    \/ \E p \in Port : ReadPort(t, p)
    \/ CheckConflict(t)
    \/ WritePort(t)
    \/ \E u \in todo[t] : WriteField(t, u)
    \/ FinishUpdate(t)
    \/ DeleteRules(t)
    \/ LoadCertificates(t)
    \/ SaveWebPort(t)
    \/ Send(t)

Engine == Subscribe \/ Changed \/ ReadGroups \/ SpawnAll

Next ==
    \/ \E t \in Task : Requests(t) \/ Proceed(t) \/ StatementFails(t)
    \/ Engine \/ ReloadFails
    \/ \E k \in listeners : Bind(k) \/ Drop(k)
    \/ Restart

\* The runtime keeps polling the engine, the handlers that are past their first
\* statement and the listener tasks; requests, failures and restarts are free.
Fairness ==
    /\ WF_vars(Engine)
    /\ \A t \in Task : WF_vars(Proceed(t))
    /\ WF_vars(\E k \in listeners : Bind(k) \/ Drop(k))

Spec == Init /\ [][Next]_vars
FairSpec == Spec /\ Fairness

-----------------------------------------------------------------------------
(* Properties                                                              *)

\* Type correctness.
TypeOK ==
    /\ groups \subseteq Group
    /\ signal \in BOOLEAN
    /\ rows \subseteq Group
    /\ engine \in {"start", "load", "spawn", "wait"}
    /\ listeners \subseteq Listener
    /\ asked \in 0..MaxRequests
    /\ restarts \in 0..MaxRestarts
    /\ pc \in [Task -> {"idle", "probe create", "probing create", "insert", "patch",
                        "conflict", "probe update", "probing update", "write port",
                        "rules", "probing settings", "load", "send"}]
    /\ body \in [Task -> BodyType]
    /\ todo \in [Task -> SUBSET Patch]
    /\ wrote \in [Task -> BOOLEAN]
    /\ blame \subseteq {"unsent", "unread", "jostled"}
    /\ contested \subseteq Port

\* The reload signal loses nothing: whenever the engine waits, nothing is pending on
\* the channel and no handler still owes its send, the tasks the engine runs are
\* those of exactly the groups that are enabled in the table, with the
\* port and the settings of their rows, however sends coalesce and handlers
\* interleave with a reload; unless since the engine last read the table a handler that
\* had changed it failed or was dropped before its send, or the engine's own read failed.
NoLostReload ==
    engine = "wait" /\ ~signal /\ (\A t \in Task : ~wrote[t]) /\ blame \subseteq {"jostled"} =>
        {k.group : k \in Live} = Enabled(groups)

\* A handler that a check or a probe refuses has changed nothing the engine runs by, so it
\* owes the engine no signal (update: the port is checked before anything but the name,
\* which a refused PATCH does leave changed and which no listener depends on).
RefusedOwesNoReload ==
    [][\A t \in Task :
        wrote[t] /\ pc[t] # "idle" /\ pc'[t] = "idle" /\ restarts' = restarts =>
            signal' \/ "unsent" \in blame']_vars

\* Two groups share a port of the machine only if a restore brought the port of one, which no
\* request would have passed, or two requests asked for it at the same time: the checks of
\* create and update, made statements before the write, miss nothing else.
ClashesExplained ==
    \A g, h \in groups : g # h /\ OsPort(g.port) = OsPort(h.port) =>
        g.port \in contested \/ h.port \in contested

Wanted(i) == \E g \in Enabled(groups) : g.id = i

Served(i) == \E k \in Live \cap Serving : k.group.id = i /\ k.group \in groups

\* Another listener has the port, or another program.
Contended(i) ==
    \E k \in Live : /\ k.group.id = i
                    /\ \/ OsPort(k.group.port) \in Occupied
                       \/ \E l \in Live \ {k} : OsPort(l.group.port) = OsPort(k.group.port)

\* An enabled group gets its listener, if nobody else has its port and no failure, client
\* that left, probe or socket that was slow to close got in the way.
EventuallyServed ==
    \A i \in GroupId : Wanted(i) ~> (Served(i) \/ ~Wanted(i) \/ Contended(i) \/ blame # {})

Stale(k) == k.st = "bound" /\ k.group \notin Enabled(groups)

\* A listener whose group was deleted, disabled or changed stops accepting, unless a
\* failure, or a client that left, keeps the engine from hearing of it.
EventuallyStopped ==
    (\E k \in Serving : Stale(k)) ~> ((\A k \in Serving : ~Stale(k)) \/ "unsent" \in blame)

\* Every reload replaces the whole set of listeners by one snapshot of the enabled groups.
Desired == INSTANCE Reconcile WITH
    Item <- Group, desired <- Enabled(groups), snapshot <- rows, running <- {k.group : k \in Live}

Reconciles == Desired!Spec

-----------------------------------------------------------------------------
(* A claim of the comments, which the code does not keep                   *)

\* port_groups.rs:118 and :169, "DB check: port not taken by another group".
PortsDistinct == \A g, h \in groups : g.port = h.port => g.id = h.id
=============================================================================
