---------------------------- MODULE Connections ----------------------------
(***************************************************************************)
(* What becomes of a connection that a listener has accepted (proxy.rs):   *)
(* serve_connection looks at its first bytes and makes it a TCP tunnel, a  *)
(* redirect to HTTPS, or a sequence of HTTP requests, each of which is     *)
(* routed by proxy_request; and the counter of active connections of a     *)
(* rule, which ConnGuard keeps.                                            *)
(*                                                                         *)
(* A connection keeps the group and the force_https of the listener that   *)
(* accepted it; rules are read from the table anew for every tunnel and    *)
(* every request, while the panel changes them.  Requests of an HTTP/2     *)
(* connection are tasks of their own, those of an HTTP/1 connection come   *)
(* one after the other; a request dies with its connection.                *)
(***************************************************************************)
EXTENDS Naturals, FiniteSets

CONSTANTS
    Conn,           \* connections that may be open at once
    Stream,         \* requests of one connection that may be in handling at once
    RuleId, Group, Domain, Target,
    None,           \* no rule, no target, no group
    Rows,           \* rows that the panel may write into proxy_rules
    InitialRules,   \* the rows at first
    MaxInHandling,  \* bound: requests in handling at once
    MaxEdits,       \* bound: what the panel changes
    MaxFaults       \* bound: queries that fail, and restarts

VARIABLES
    rules,      \* table proxy_rules
    force,      \* force_https of the listener of each group
    counter,    \* AppState.conn_counter; a rule without an entry has 0
    conn,       \* what serve_connection is doing with each connection
    stream,     \* what proxy_request is doing with each request
    edits,      \* edits so far
    faults,     \* failures so far
    \* history, read by the properties only
    offered,    \* targets of the connection's group since it was accepted
    reached     \* targets that anything of the connection was sent to

bounds == <<edits, faults>>
vars == <<rules, force, counter, conn, stream, bounds, offered, reached>>

Request == Conn \X Stream
Rule == [id : RuleId, group : Group, domain : Domain, type : {"proxy", "redirect", "tcp"},
         target : Target, on : BOOLEAN]

ASSUME ConnectionsAssumption ==
    /\ IsFiniteSet(Conn) /\ IsFiniteSet(Stream)
    /\ Rows \subseteq Rule
    /\ InitialRules \subseteq Rule
    /\ None \notin Group \cup RuleId \cup Target
    /\ MaxInHandling \in Nat /\ MaxEdits \in Nat /\ MaxFaults \in Nat

-----------------------------------------------------------------------------
Closed == [pc |-> "closed", group |-> None, force |-> FALSE, tls |-> FALSE,
           rule |-> None, target |-> None]
Resting == [pc |-> "idle", domain |-> None, rule |-> None, target |-> None]

\* Requests that hold a ConnGuard.
Handling == {"send", "wait", "answer", "upgrade", "refuse"}
Guarded(i) == {x \in Request : stream[x].pc \in Handling /\ stream[x].rule = i}

\* The WHERE clauses of the three lookups; fetch_optional takes any of the rows.
\* A bug: the switch of a rule is not read.
LiveAlways(r) == TRUE
Live(r) == r.on
\* A bug: the group is not compared.
TcpRulesAnywhere(g) == {r \in rules : r.type = "tcp" /\ Live(r)}
TcpRules(g) == {r \in rules : r.group = g /\ r.type = "tcp" /\ Live(r)}
Routes(g, d) == {r \in rules : r.group = g /\ r.domain = d /\ Live(r)}

OfferedBy(table, g) == {r.target : r \in {q \in table : q.group = g /\ q.on}}

Init ==
    /\ rules = InitialRules
    /\ force = [g \in Group |-> FALSE]
    /\ counter = [i \in RuleId |-> 0]
    /\ conn = [c \in Conn |-> Closed]
    /\ stream = [x \in Request |-> Resting]
    /\ edits = 0 /\ faults = 0
    /\ offered = [c \in Conn |-> {}]
    /\ reached = [c \in Conn |-> {}]

-----------------------------------------------------------------------------
\* serve_connection.

\* What a connection was is not asked again once it is closing.
ConnTo(c, label) ==
    conn' = [conn EXCEPT ![c] =
        IF label = "closing" THEN [Closed EXCEPT !.pc = label]
        ELSE [Closed EXCEPT !.pc = label, !.group = conn[c].group,
                            !.rule = conn[c].rule, !.target = conn[c].target]]

Accept(c, g) ==
    /\ conn[c] = Closed
    /\ conn' = [conn EXCEPT ![c] = [Closed EXCEPT !.pc = "peek", !.group = g, !.force = force[g]]]
    /\ offered' = [offered EXCEPT ![c] = OfferedBy(rules, g)]
    /\ UNCHANGED <<rules, force, counter, stream, bounds, reached>>

\* The first byte tells a ClientHello from anything else.
Peek(c, tls) ==
    /\ conn[c].pc = "peek"
    /\ conn' = [conn EXCEPT ![c].pc = "match", ![c].tls = tls]
    /\ UNCHANGED <<rules, force, counter, stream, bounds, offered, reached>>

\* TCP rules come first: by name for a ClientHello that has one, otherwise any of the group.
MatchTcp(c, r) ==
    /\ conn[c].pc = "match"
    /\ r \in TcpRules(conn[c].group)
    /\ conn' = [conn EXCEPT ![c] = [Closed EXCEPT !.pc = "connect", !.group = conn[c].group,
                                                  !.rule = r.id, !.target = r.target]]
    /\ UNCHANGED <<rules, force, counter, stream, bounds, offered, reached>>

\* What a connection becomes without a TCP rule: HTTP is chosen by the first bytes after
\* the handshake, and a handshake may fail.
Protocols(k) ==
    IF k.tls THEN {"http1", "http2", "closing"}
    ELSE IF k.force THEN {"redirect"} ELSE {"http1"}

NoTcp(c, label) ==
    /\ conn[c].pc = "match"
    /\ conn[c].tls \/ TcpRules(conn[c].group) = {}
    /\ label \in Protocols(conn[c])
    /\ ConnTo(c, label)
    /\ UNCHANGED <<rules, force, counter, stream, bounds, offered, reached>>

\* A lookup that fails counts as no rule.
MatchFails(c, label) ==
    /\ conn[c].pc = "match"
    /\ faults < MaxFaults
    /\ faults' = faults + 1
    /\ label \in Protocols(conn[c])
    /\ ConnTo(c, label)
    /\ UNCHANGED <<rules, force, counter, stream, edits, offered, reached>>

Connect(c) ==
    /\ conn[c].pc = "connect"
    /\ ConnTo(c, "tunnel")
    /\ reached' = [reached EXCEPT ![c] = @ \cup {conn[c].target}]
    /\ UNCHANGED <<rules, force, counter, stream, bounds, offered>>

\* No backend, or the tunnel ends: a peer closes it, or 300 s are over.
Finish(c) ==
    /\ conn[c].pc \in {"connect", "tunnel"}
    /\ ConnTo(c, "closing")
    /\ UNCHANGED <<rules, force, counter, stream, bounds, offered, reached>>

\* The headers have come, however long that takes, and are answered by a 301 to HTTPS.
Redirect(c) ==
    /\ conn[c].pc = "redirect"
    /\ ConnTo(c, "closing")
    /\ UNCHANGED <<rules, force, counter, stream, bounds, offered, reached>>

\* The client of an HTTP connection closes it, or breaks the protocol.
HangUp(c) ==
    /\ conn[c].pc \in {"peek", "http1", "http2"}
    /\ ConnTo(c, "closing")
    /\ UNCHANGED <<rules, force, counter, stream, bounds, offered, reached>>

Close(c) ==
    /\ conn[c].pc = "closing"
    /\ \A s \in Stream : stream[<<c, s>>].pc = "idle"
    /\ conn' = [conn EXCEPT ![c] = Closed]
    /\ offered' = [offered EXCEPT ![c] = {}]
    /\ reached' = [reached EXCEPT ![c] = {}]
    /\ UNCHANGED <<rules, force, counter, stream, bounds>>

-----------------------------------------------------------------------------
\* proxy_request.

Done(x) == stream' = [stream EXCEPT ![x] = Resting]

\* A bug: requests of an HTTP/1 connection overlap.
ReadyAlways(c, s) == conn[c].pc \in {"http1", "http2"} /\ stream[<<c, s>>].pc = "idle"
Ready(c, s) ==
    \/ conn[c].pc = "http2" /\ stream[<<c, s>>].pc = "idle"
    \/ conn[c].pc = "http1" /\ \A q \in Stream : stream[<<c, q>>].pc = "idle"

Receive(c, s, host) ==
    /\ Ready(c, s)
    /\ Cardinality({x \in Request : stream[x].pc # "idle"}) < MaxInHandling
    /\ stream' = [stream EXCEPT ![<<c, s>>] = [Resting EXCEPT !.pc = "lookup", !.domain = host]]
    /\ UNCHANGED <<rules, force, counter, conn, bounds, offered, reached>>

\* A rule of a proxy takes a guard before the request is sent.
Route(x, r) ==
    /\ stream[x].pc = "lookup"
    /\ r \in Routes(conn[x[1]].group, stream[x].domain)
    /\ r.type = "proxy"
    /\ counter' = [counter EXCEPT ![r.id] = @ + 1]
    /\ stream' = [stream EXCEPT ![x] =
           [Resting EXCEPT !.pc = "send", !.rule = r.id, !.target = r.target]]
    /\ UNCHANGED <<rules, force, conn, bounds, offered, reached>>

\* Other rules are answered in the same step, and the guard is gone with it; so is a host
\* without a rule.
AnswerAtOnce(x) ==
    /\ stream[x].pc = "lookup"
    /\ LET found == Routes(conn[x[1]].group, stream[x].domain)
       IN  found = {} \/ \E r \in found : r.type # "proxy"
    /\ Done(x)
    /\ UNCHANGED <<rules, force, counter, conn, bounds, offered, reached>>

LookupFails(x) ==
    /\ stream[x].pc = "lookup"
    /\ faults < MaxFaults
    /\ faults' = faults + 1
    /\ Done(x)
    /\ UNCHANGED <<rules, force, counter, conn, edits, offered, reached>>

\* The TCP connection to the upstream stands, a new one or one of the pool.
Send(x) ==
    /\ stream[x].pc = "send"
    /\ stream' = [stream EXCEPT ![x].pc = "wait", ![x].target = None]
    /\ reached' = [reached EXCEPT ![x[1]] = @ \cup {stream[x].target}]
    /\ UNCHANGED <<rules, force, counter, conn, bounds, offered>>

\* No TCP connection to the upstream within its time limit, which covers that and no more.
Unreachable(x) ==
    /\ stream[x].pc = "send"
    /\ stream' = [stream EXCEPT ![x].pc = "refuse", ![x].target = None]
    /\ UNCHANGED <<rules, force, counter, conn, bounds, offered, reached>>

\* The upstream answers, upgrades or breaks off, in its TLS handshake or later; nothing limits
\* how long the handshake, the request and the answer take together.
Respond(x, label) ==
    /\ stream[x].pc = "wait"
    /\ label \in {"answer", "refuse"} \cup (IF conn[x[1]].pc = "http1" THEN {"upgrade"} ELSE {})
    /\ stream' = [stream EXCEPT ![x].pc = label]
    /\ UNCHANGED <<rules, force, counter, conn, bounds, offered, reached>>

\* Drop for ConnGuard, saturating.
Dropped(n) == IF n = 0 THEN 0 ELSE n - 1
Release(x) == counter' = [counter EXCEPT ![stream[x].rule] = Dropped(@)]

\* After the log line the response is returned: the guard goes, the body is still to come.
\* Upgrades are not enabled on the server's side, so a 101 ends the connection.
Return(x) ==
    /\ stream[x].pc \in {"answer", "upgrade", "refuse"}
    /\ Release(x)
    /\ stream' = [stream EXCEPT ![x] =
           IF @.pc = "answer" THEN [Resting EXCEPT !.pc = "body"] ELSE Resting]
    /\ IF stream[x].pc = "upgrade" THEN ConnTo(x[1], "closing") ELSE UNCHANGED conn
    /\ UNCHANGED <<rules, force, bounds, offered, reached>>

\* The body ends, or nothing of it comes for 300 s.
EndBody(x) ==
    /\ stream[x].pc = "body"
    /\ Done(x)
    /\ UNCHANGED <<rules, force, counter, conn, bounds, offered, reached>>

\* The future of a request is dropped with its connection, or when its stream is reset.
\* A bug: only a request that returns gives its guard back.
CancelQuietly(x) ==
    /\ conn[x[1]].pc \in {"closing", "http2"}
    /\ stream[x].pc # "idle"
    /\ Done(x)
    /\ UNCHANGED <<rules, force, counter, conn, bounds, offered, reached>>

Cancel(x) ==
    /\ conn[x[1]].pc \in {"closing", "http2"}
    /\ stream[x].pc # "idle"
    /\ IF stream[x].pc \in Handling THEN Release(x) ELSE UNCHANGED counter
    /\ Done(x)
    /\ UNCHANGED <<rules, force, conn, bounds, offered, reached>>

-----------------------------------------------------------------------------
\* The panel and the process.

\* A statement changes the table.
Rewrite(table) ==
    /\ edits < MaxEdits
    /\ edits' = edits + 1
    /\ rules' = table
    /\ offered' = [c \in Conn |-> offered[c] \cup OfferedBy(table, conn[c].group)]
    /\ UNCHANGED <<force, counter, conn, stream, faults, reached>>

PutRule(r) == Rewrite({q \in rules : q.id # r.id} \cup {r})
DeleteRule(i) == Rewrite({q \in rules : q.id # i})

\* A reload starts new listeners; connections that were accepted go on.
ReloadGroup(g) ==
    /\ edits < MaxEdits
    /\ edits' = edits + 1
    /\ force' = [force EXCEPT ![g] = ~@]
    /\ UNCHANGED <<rules, counter, conn, stream, faults, offered, reached>>

Restart ==
    /\ faults < MaxFaults
    /\ faults' = faults + 1
    /\ counter' = [i \in RuleId |-> 0]
    /\ conn' = [c \in Conn |-> Closed]
    /\ stream' = [x \in Request |-> Resting]
    /\ offered' = [c \in Conn |-> {}]
    /\ reached' = [c \in Conn |-> {}]
    /\ UNCHANGED <<rules, force, edits>>

-----------------------------------------------------------------------------
Serve(x) ==
    \/ \E r \in rules : Route(x, r)
    \/ AnswerAtOnce(x) \/ Send(x) \/ Unreachable(x) \/ Return(x)
    \/ conn[x[1]].pc = "closing" /\ Cancel(x)

Tunnel(c) == Finish(c) \/ Redirect(c) \/ Close(c) \/ Connect(c)

Next ==
    \/ \E c \in Conn :
          \/ \E g \in Group : Accept(c, g)
          \/ \E tls \in BOOLEAN : Peek(c, tls)
          \/ \E r \in rules : MatchTcp(c, r)
          \/ \E label \in {"http1", "http2", "closing", "redirect"} :
                NoTcp(c, label) \/ MatchFails(c, label)
          \/ Tunnel(c) \/ HangUp(c)
          \/ \E s \in Stream, host \in Domain : Receive(c, s, host)
    \/ \E x \in Request :
          \/ Serve(x) \/ LookupFails(x) \/ EndBody(x) \/ Cancel(x)
          \/ \E label \in {"answer", "upgrade", "refuse"} : Respond(x, label)
    \/ \E r \in Rows : PutRule(r)
    \/ \E i \in RuleId : DeleteRule(i)
    \/ \E g \in Group : ReloadGroup(g)
    \/ Restart

\* The runtime goes on with what does not wait for a peer; a TCP connect and a tunnel have
\* time limits.  Nothing is assumed of clients and upstreams.
Fairness ==
    /\ \A x \in Request : WF_vars(Serve(x))
    /\ \A c \in Conn : WF_vars(Finish(c)) /\ WF_vars(Close(c))

Spec == Init /\ [][Next]_vars /\ Fairness

-----------------------------------------------------------------------------
Connection == [pc : {"closed", "peek", "match", "connect", "redirect", "tunnel",
                     "http1", "http2", "closing"},
               group : Group \cup {None}, force : BOOLEAN, tls : BOOLEAN,
               rule : RuleId \cup {None}, target : Target \cup {None}]
Exchange == [pc : {"idle", "lookup", "body"} \cup Handling,
             domain : Domain \cup {None}, rule : RuleId \cup {None}, target : Target \cup {None}]

Types ==
    /\ rules \subseteq Rule
    /\ force \in [Group -> BOOLEAN]
    /\ counter \in [RuleId -> Nat]
    /\ conn \in [Conn -> Connection]
    /\ stream \in [Request -> Exchange]
    /\ edits \in 0..MaxEdits /\ faults \in 0..MaxFaults
    /\ offered \in [Conn -> SUBSET Target] /\ reached \in [Conn -> SUBSET Target]

\* A guard is of a rule.
GuardsHaveRules == \A x \in Request : stream[x].pc \in Handling => stream[x].rule \in RuleId

\* Requests of an HTTP/1 connection come one after the other.
OneByOne ==
    \A c \in Conn : conn[c].pc = "http1" =>
        \A s, q \in Stream : stream[<<c, s>>].pc # "idle" /\ stream[<<c, q>>].pc # "idle" => s = q

TypeOK == Types /\ GuardsHaveRules /\ OneByOne

\* The counter of a rule is the number of its requests in handling, however requests are
\* answered, fail or are dropped, and whatever becomes of the rule meanwhile (ConnGuard).
CounterExact == \A i \in RuleId : counter[i] = Cardinality(Guarded(i))

\* Nothing of a connection is sent to a backend that no enabled rule of the connection's own
\* group named while it was open (serve_connection and proxy_request, whose rows may be stale).
OwnGroupOnly == \A c \in Conn : reached[c] \subseteq offered[c]

Off(i) == \A r \in rules : r.id = i => ~r.on
Quiet(i) ==
    /\ \A c \in Conn : conn[c].rule = i => conn[c].pc \notin {"connect", "tunnel"}
    /\ \A x \in Guarded(i) : stream[x].pc = "wait"

\* A rule that is off is not taken up again, and what it has in use only comes closer to the
\* end: nothing connects or is sent twice, whatever the connections go on with (serve_connection
\* and proxy_request, which read the rules anew).
Stages(pc) ==
    CASE pc = "send" -> 3
      [] pc \in {"wait", "connect"} -> 2
      [] pc \in {"answer", "upgrade", "refuse", "tunnel"} -> 1
      [] OTHER -> 0
Use(k, i) == IF k.rule = i THEN Stages(k.pc) ELSE 0
WindsDown ==
    [][\A i \in RuleId : Off(i) =>
          /\ \A c \in Conn : Use(conn'[c], i) <= Use(conn[c], i)
          /\ \A x \in Request : Use(stream'[x], i) <= Use(stream[x], i)]_vars

\* Once a rule is off for good, its tunnels end, and of its requests only those remain for which
\* a connected upstream has not finished the handshake or not answered: connections that stay
\* open do not keep the rule in use.
WithdrawnRulesEnd == \A i \in RuleId : <>[]Off(i) => <>[]Quiet(i)
=============================================================================
