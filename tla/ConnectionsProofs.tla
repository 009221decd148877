------------------------- MODULE ConnectionsProofs -------------------------
(***************************************************************************)
(* Type correctness of Connections, that the counter of every rule is the  *)
(* number of its requests in handling, that nothing is sent outside the    *)
(* group of its connection, and that a rule which is off only winds down,  *)
(* for any finite sets of connections and requests, any rules and any      *)
(* bounds.                                                                 *)
(*                                                                         *)
(* A step is of a connection, of a request, of the panel, or a restart.    *)
(* What a step of the first two kinds may leave behind is said once        *)
(* (ConnOutcome, StreamOutcome); the invariants follow from that alone.    *)
(***************************************************************************)
EXTENDS Connections, FiniteSetTheorems, TLAPS

Http == {"http1", "http2", "closing"}
Idle(c) == \A s \in Stream : stream[<<c, s>>].pc = "idle"

\* Only HTTP connections have requests.
Attached == \A c \in Conn : conn[c].pc \notin Http => Idle(c)

\* What a connection may be sent to next has been offered to it: the enabled rows of its group,
\* and the row that it, or one of its requests, has already chosen.
Offers ==
    /\ \A c \in Conn : OfferedBy(rules, conn[c].group) \subseteq offered[c]
    /\ \A c \in Conn : conn[c].pc = "connect" => conn[c].target \in offered[c]
    /\ \A x \in Request : stream[x].pc = "send" => stream[x].target \in offered[x[1]]
    /\ \A c \in Conn : conn[c].pc = "closed" => reached[c] = {}

IInv == TypeOK /\ Attached /\ Offers /\ CounterExact /\ OwnGroupOnly

-----------------------------------------------------------------------------
(* The kinds of steps                                                      *)

ConnStep(c) ==
    \/ \E g \in Group : Accept(c, g)
    \/ \E tls \in BOOLEAN : Peek(c, tls)
    \/ \E r \in rules : MatchTcp(c, r)
    \/ \E label \in {"http1", "http2", "closing", "redirect"} : NoTcp(c, label)
    \/ \E label \in {"http1", "http2", "closing", "redirect"} : MatchFails(c, label)
    \/ Connect(c) \/ Finish(c) \/ Redirect(c) \/ Close(c) \/ HangUp(c)

StreamStep(x) ==
    \/ \E host \in Domain : Receive(x[1], x[2], host)
    \/ \E r \in rules : Route(x, r)
    \/ AnswerAtOnce(x) \/ LookupFails(x) \/ Send(x) \/ Unreachable(x)
    \/ \E label \in {"answer", "upgrade", "refuse"} : Respond(x, label)
    \/ Return(x) \/ EndBody(x) \/ Cancel(x)

\* What a step of c may leave of the connection (k), of what it was offered (o) and of
\* where it was sent to (w).
ConnOutcome(c, k, o, w) ==
    /\ k \in Connection /\ o \in SUBSET Target /\ w \in SUBSET Target
    /\ k.pc \notin Http \/ k.pc = "http1" => Idle(c)
    /\ offered[c] \subseteq o \/ Idle(c)
    /\ k.pc = "connect" => k.target \in o
    /\ OfferedBy(rules, k.group) \subseteq o
    /\ w \subseteq o
    /\ k.pc = "closed" => w = {}

\* What a step of x may leave of the request (e), and how the counters n follow it.
Taken(x) == stream[x].pc \in Handling
StreamOutcome(x, e, n) ==
    /\ e \in Exchange
    /\ e.pc # "idle" /\ stream[x].pc = "idle" =>
          conn[x[1]].pc \in Http /\ (conn[x[1]].pc = "http1" => Idle(x[1]))
    /\ e.pc \in Handling => e.rule \in RuleId
    /\ e.pc = "send" => e.target \in offered[x[1]]
    /\ Taken(x) /\ e.pc \in Handling => e.rule = stream[x].rule /\ n = counter
    /\ ~Taken(x) /\ e.pc \notin Handling => n = counter
    /\ ~Taken(x) /\ e.pc \in Handling => n = [counter EXCEPT ![e.rule] = @ + 1]
    /\ Taken(x) /\ e.pc \notin Handling => n = [counter EXCEPT ![stream[x].rule] = Dropped(@)]

-----------------------------------------------------------------------------
(* Types                                                                   *)

LEMMA Parameters ==
    /\ IsFiniteSet(Request)
    /\ None \notin Group /\ None \notin RuleId /\ None \notin Target
    /\ Rows \subseteq Rule /\ InitialRules \subseteq Rule
    /\ MaxEdits \in Nat /\ MaxFaults \in Nat
BY ConnectionsAssumption, FS_Product DEF Request

LEMMA RequestParts ==
    /\ \A x \in Request : x[1] \in Conn /\ x[2] \in Stream /\ x = <<x[1], x[2]>>
    /\ \A c \in Conn, s \in Stream : <<c, s>> \in Request
BY DEF Request

LEMMA Restings ==
    /\ Closed \in Connection /\ Closed.pc = "closed" /\ Closed.group = None
    /\ Resting \in Exchange /\ Resting.pc = "idle" /\ "idle" \notin Handling
BY DEF Closed, Connection, Resting, Exchange, Handling

LEMMA OfferedTargets ==
    ASSUME NEW table \in SUBSET Rule, NEW g
    PROVE  OfferedBy(table, g) \in SUBSET Target
BY DEF OfferedBy, Rule

\* Nothing is offered to a connection without a group.
LEMMA NoGroup ==
    ASSUME NEW table \in SUBSET Rule
    PROVE  OfferedBy(table, None) = {}
BY Parameters DEF OfferedBy, Rule

\* A closing connection has no group.
LEMMA Closing ==
    LET k == [Closed EXCEPT !.pc = "closing"]
    IN  k \in Connection /\ k.pc = "closing" /\ k.group = None
BY DEF Closed, Connection

LEMMA Kinds ==
    ASSUME Next
    PROVE  \/ \E c \in Conn : ConnStep(c)
           \/ \E x \in Request : StreamStep(x)
           \/ \E r \in Rows : PutRule(r)
           \/ \E i \in RuleId : DeleteRule(i)
           \/ \E g \in Group : ReloadGroup(g)
           \/ Restart
<1>1. ASSUME NEW c \in Conn, NEW s \in Stream, NEW host \in Domain, Receive(c, s, host)
      PROVE  \E x \in Request : StreamStep(x)
  <2>1. <<c, s>> \in Request /\ <<c, s>>[1] = c /\ <<c, s>>[2] = s
    BY RequestParts
  <2>2. StreamStep(<<c, s>>)
    BY <1>1, <2>1 DEF StreamStep
  <2> QED BY <2>1, <2>2
<1>2. ASSUME NEW x \in Request,
             \/ Serve(x) \/ LookupFails(x) \/ EndBody(x) \/ Cancel(x)
             \/ \E label \in {"answer", "upgrade", "refuse"} : Respond(x, label)
      PROVE  StreamStep(x)
  BY <1>2 DEF Serve, StreamStep
<1>3. ASSUME NEW c \in Conn,
             \/ \E g \in Group : Accept(c, g)
             \/ \E tls \in BOOLEAN : Peek(c, tls)
             \/ \E r \in rules : MatchTcp(c, r)
             \/ \E label \in {"http1", "http2", "closing", "redirect"} :
                   NoTcp(c, label) \/ MatchFails(c, label)
             \/ Tunnel(c) \/ HangUp(c)
      PROVE  ConnStep(c)
  BY <1>3 DEF Tunnel, ConnStep
<1> QED BY <1>1, <1>2, <1>3 DEF Next

-----------------------------------------------------------------------------
(* A step of a connection                                                  *)

\* What ConnTo leaves of a connection fits.
LEMMA Label ==
    ASSUME Types, NEW c \in Conn,
           NEW label \in {"http1", "http2", "closing", "redirect", "tunnel"}, ConnTo(c, label)
    PROVE  \E k \in Connection :
              /\ conn' = [conn EXCEPT ![c] = k]
              /\ k.pc = label
              /\ k.group \in {conn[c].group, None}
<1>1. conn[c] \in Connection
  BY DEF Types
<1>2. CASE label = "closing"
  BY <1>2, Closing DEF ConnTo
<1>3. CASE label # "closing"
  <2> DEFINE k == [Closed EXCEPT !.pc = label, !.group = conn[c].group,
                                 !.rule = conn[c].rule, !.target = conn[c].target]
  <2>1. k \in Connection /\ k.pc = label /\ k.group = conn[c].group
    BY <1>1, <1>3 DEF Closed, Connection
  <2>2. conn' = [conn EXCEPT ![c] = k]
    BY <1>3 DEF ConnTo
  <2> QED BY <2>1, <2>2
<1> QED BY <1>2, <1>3

\* Whatever is offered to a connection is offered to what becomes of it.
LEMMA StillOffered ==
    ASSUME IInv, NEW c \in Conn, NEW g \in {conn[c].group, None}
    PROVE  OfferedBy(rules, g) \subseteq offered[c]
BY NoGroup DEF IInv, TypeOK, Types, Offers

\* A step that only gives a connection another label keeps what it was offered.
LEMMA Relabelled ==
    ASSUME IInv, NEW c \in Conn,
           NEW label \in {"http1", "http2", "closing", "redirect", "tunnel"}, ConnTo(c, label),
           label # "closing" => conn[c].pc \notin Http,
           UNCHANGED offered,
           NEW w \in SUBSET Target, w \subseteq offered[c]
    PROVE  \E k : conn' = [conn EXCEPT ![c] = k] /\ ConnOutcome(c, k, offered[c], w)
<1>1. PICK k \in Connection : /\ conn' = [conn EXCEPT ![c] = k]
                              /\ k.pc = label
                              /\ k.group \in {conn[c].group, None}
  BY Label DEF IInv, TypeOK
<1>2. OfferedBy(rules, k.group) \subseteq offered[c]
  BY <1>1, StillOffered
<1>3. k.pc \notin Http \/ k.pc = "http1" => Idle(c)
  BY <1>1 DEF IInv, Attached, Http
<1>4. offered[c] \in SUBSET Target
  BY DEF IInv, TypeOK, Types
<1>5. k.pc # "connect"
  BY <1>1
<1>6. k.pc # "closed"
  BY <1>1
<1> QED BY <1>1, <1>2, <1>3, <1>4, <1>5, <1>6 DEF ConnOutcome

ConnSafe(c) ==
    /\ UNCHANGED <<rules, force, counter, stream, edits>>
    /\ faults' \in 0..MaxFaults
    /\ \E k, o, w : /\ conn' = [conn EXCEPT ![c] = k]
                    /\ offered' = [offered EXCEPT ![c] = o]
                    /\ reached' = [reached EXCEPT ![c] = w]
                    /\ ConnOutcome(c, k, o, w)

LEMMA Unchanged ==
    ASSUME Types, NEW c \in Conn
    PROVE  /\ offered = [offered EXCEPT ![c] = offered[c]]
           /\ reached = [reached EXCEPT ![c] = reached[c]]
           /\ offered[c] \in SUBSET Target /\ reached[c] \in SUBSET Target
           /\ faults \in 0..MaxFaults
BY DEF Types

LEMMA ConnSteps ==
    ASSUME IInv, NEW c \in Conn, ConnStep(c)
    PROVE  ConnSafe(c)
<1> USE DEF ConnSafe
<1>0. /\ offered = [offered EXCEPT ![c] = offered[c]]
      /\ reached = [reached EXCEPT ![c] = reached[c]]
      /\ offered[c] \in SUBSET Target /\ reached[c] \in SUBSET Target
      /\ faults \in 0..MaxFaults /\ conn[c] \in Connection /\ rules \in SUBSET Rule
      /\ reached[c] \subseteq offered[c]
  BY Unchanged DEF IInv, TypeOK, Types, OwnGroupOnly
<1>1. ASSUME NEW g \in Group, Accept(c, g) PROVE ConnSafe(c)
  <2> DEFINE k == [Closed EXCEPT !.pc = "peek", !.group = g, !.force = force[g]]
             o == OfferedBy(rules, g)
  <2>1. k \in Connection /\ k.pc = "peek" /\ k.group = g
    BY DEF Closed, Connection, IInv, TypeOK, Types
  <2>2. o \in SUBSET Target
    BY <1>0, OfferedTargets
  <2>3. Idle(c)
    BY <1>1 DEF Accept, Closed, IInv, Attached, Http
  <2>4. reached[c] \subseteq o
    BY <1>1, Restings DEF Accept, IInv, Offers
  <2>5. ConnOutcome(c, k, o, reached[c])
    BY <1>0, <2>1, <2>2, <2>3, <2>4 DEF ConnOutcome
  <2> QED BY <1>0, <1>1, <2>5 DEF Accept, bounds
<1>2. ASSUME NEW tls \in BOOLEAN, Peek(c, tls) PROVE ConnSafe(c)
  <2> DEFINE k == [conn[c] EXCEPT !.pc = "match", !.tls = tls]
  <2>1. k \in Connection /\ k.pc = "match" /\ k.group = conn[c].group
    BY <1>0 DEF Connection
  <2>2. conn' = [conn EXCEPT ![c] = k]
    BY <1>0, <1>2 DEF Peek, Connection
  <2>3. Idle(c)
    BY <1>2 DEF Peek, IInv, Attached, Http
  <2>4. OfferedBy(rules, k.group) \subseteq offered[c]
    BY <2>1, StillOffered
  <2>5. ConnOutcome(c, k, offered[c], reached[c])
    BY <1>0, <2>1, <2>3, <2>4 DEF ConnOutcome
  <2> QED BY <1>0, <1>2, <2>2, <2>5 DEF Peek, bounds
<1>3. ASSUME NEW r \in rules, MatchTcp(c, r) PROVE ConnSafe(c)
  <2> DEFINE k == [Closed EXCEPT !.pc = "connect", !.group = conn[c].group,
                                 !.rule = r.id, !.target = r.target]
  <2>1. /\ k \in Connection /\ k.pc = "connect"
        /\ k.group = conn[c].group /\ k.target = r.target
    BY <1>0 DEF Closed, Connection, Rule
  <2>2. r.target \in OfferedBy(rules, conn[c].group)
    BY <1>3 DEF MatchTcp, TcpRules, Live, OfferedBy
  <2>3. Idle(c)
    BY <1>3 DEF MatchTcp, IInv, Attached, Http
  <2>4. OfferedBy(rules, k.group) \subseteq offered[c]
    BY <2>1, StillOffered
  <2>5. ConnOutcome(c, k, offered[c], reached[c])
    BY <1>0, <2>1, <2>2, <2>3, <2>4 DEF ConnOutcome
  <2> QED BY <1>0, <1>3, <2>5 DEF MatchTcp, bounds
<1>4. ASSUME NEW label \in {"http1", "http2", "closing", "redirect"}, NoTcp(c, label)
      PROVE  ConnSafe(c)
  <2>1. ConnTo(c, label) /\ conn[c].pc \notin Http /\ UNCHANGED offered
    BY <1>4 DEF NoTcp, Http
  <2> QED BY <1>0, <1>4, <2>1, Relabelled DEF NoTcp, bounds
<1>5. ASSUME NEW label \in {"http1", "http2", "closing", "redirect"}, MatchFails(c, label)
      PROVE  ConnSafe(c)
  <2>1. ConnTo(c, label) /\ conn[c].pc \notin Http /\ UNCHANGED offered
    BY <1>5 DEF MatchFails, Http
  <2>2. faults' \in 0..MaxFaults
    BY <1>0, <1>5, Parameters DEF MatchFails
  <2> QED BY <1>0, <1>5, <2>1, <2>2, Relabelled DEF MatchFails
<1>6. CASE Connect(c)
  <2> DEFINE w == reached[c] \cup {conn[c].target}
  <2>1. ConnTo(c, "tunnel") /\ conn[c].pc \notin Http /\ UNCHANGED offered
    BY <1>6 DEF Connect, Http
  <2>2. w \subseteq offered[c]
    BY <1>0, <1>6 DEF Connect, IInv, Offers
  <2>3. w \in SUBSET Target
    BY <1>0, <2>2
  <2>4. reached' = [reached EXCEPT ![c] = w]
    BY <1>6 DEF Connect
  <2> QED BY <1>0, <1>6, <2>1, <2>2, <2>3, <2>4, Relabelled DEF Connect, bounds
<1>7. CASE Finish(c) \/ Redirect(c) \/ HangUp(c)
  <2>1. ConnTo(c, "closing") /\ UNCHANGED <<rules, force, counter, stream, bounds, offered, reached>>
    BY <1>7 DEF Finish, Redirect, HangUp
  <2> QED BY <1>0, <2>1, Relabelled DEF bounds
<1>8. CASE Close(c)
  <2>1. Idle(c) /\ conn' = [conn EXCEPT ![c] = Closed]
    BY <1>8 DEF Close, Idle
  <2>2. OfferedBy(rules, Closed.group) \subseteq {}
    BY <1>0, Restings, NoGroup
  <2>3. ConnOutcome(c, Closed, {}, {})
    BY <2>1, <2>2, Restings DEF ConnOutcome
  <2> QED BY <1>0, <1>8, <2>1, <2>3 DEF Close, bounds
<1> QED BY <1>1, <1>2, <1>3, <1>4, <1>5, <1>6, <1>7, <1>8 DEF ConnStep

\* Every conjunct of the invariant survives a step of a connection.
LEMMA ConnKeeps ==
    ASSUME IInv, NEW c \in Conn, ConnSafe(c)
    PROVE  IInv'
<1>1. PICK k, o, w : /\ conn' = [conn EXCEPT ![c] = k]
                     /\ offered' = [offered EXCEPT ![c] = o]
                     /\ reached' = [reached EXCEPT ![c] = w]
                     /\ ConnOutcome(c, k, o, w)
  BY DEF ConnSafe
<1>2. /\ UNCHANGED <<rules, force, counter, stream, edits>>
      /\ faults' \in 0..MaxFaults
  BY DEF ConnSafe
<1>3. \A b \in Conn : /\ conn'[b] = IF b = c THEN k ELSE conn[b]
                      /\ offered'[b] = IF b = c THEN o ELSE offered[b]
                      /\ reached'[b] = IF b = c THEN w ELSE reached[b]
  BY <1>1 DEF IInv, TypeOK, Types
<1>4. Types'
  BY <1>1, <1>2 DEF IInv, TypeOK, Types, ConnOutcome
<1>5. GuardsHaveRules' /\ CounterExact'
  BY <1>2 DEF IInv, TypeOK, GuardsHaveRules, CounterExact, Guarded
<1>6. OneByOne'
  BY <1>1, <1>2, <1>3 DEF IInv, TypeOK, OneByOne, ConnOutcome, Idle
<1>7. Attached'
  BY <1>1, <1>2, <1>3 DEF IInv, Attached, ConnOutcome, Idle
<1>8. Offers'
  <2>1. ASSUME NEW b \in Conn
        PROVE  /\ OfferedBy(rules', conn'[b].group) \subseteq offered'[b]
               /\ conn'[b].pc = "connect" => conn'[b].target \in offered'[b]
               /\ conn'[b].pc = "closed" => reached'[b] = {}
    BY <1>1, <1>2, <1>3 DEF IInv, Offers, ConnOutcome
  <2>2. ASSUME NEW x \in Request, stream'[x].pc = "send"
        PROVE  stream'[x].target \in offered'[x[1]]
    <3>1. stream[x].pc = "send" /\ stream[x].target \in offered[x[1]] /\ stream' = stream
      BY <1>2, <2>2 DEF IInv, Offers
    <3>2. CASE x[1] = c
      <4>1. stream[<<x[1], x[2]>>].pc # "idle" /\ x[2] \in Stream
        BY <3>1, RequestParts
      <4>2. ~Idle(c)
        BY <3>2, <4>1 DEF Idle
      <4> QED BY <1>1, <1>3, <3>1, <3>2, <4>2 DEF ConnOutcome
    <3> QED BY <1>3, <3>1, <3>2, RequestParts
  <2> QED BY <2>1, <2>2 DEF Offers
<1>9. OwnGroupOnly'
  BY <1>1, <1>3 DEF IInv, OwnGroupOnly, ConnOutcome
<1> QED BY <1>4, <1>5, <1>6, <1>7, <1>8, <1>9 DEF IInv, TypeOK

-----------------------------------------------------------------------------
(* A step of a request                                                     *)

StreamSafe(x) ==
    /\ UNCHANGED <<rules, force, edits, offered>>
    /\ faults' \in 0..MaxFaults
    /\ conn[x[1]].pc \in Http
    /\ \/ conn' = conn
       \/ conn' = [conn EXCEPT ![x[1]] = [Closed EXCEPT !.pc = "closing"]]
    /\ \/ reached' = reached
       \/ \E t \in offered[x[1]] : reached' = [reached EXCEPT ![x[1]] = @ \cup {t}]
    /\ \E e : stream' = [stream EXCEPT ![x] = e] /\ StreamOutcome(x, e, counter')

\* A request that is let go.
LEMMA LetGo ==
    ASSUME NEW x \in Request, NEW n,
           Taken(x) => n = [counter EXCEPT ![stream[x].rule] = Dropped(@)],
           ~Taken(x) => n = counter
    PROVE  StreamOutcome(x, Resting, n)
BY Restings DEF StreamOutcome, Resting, Handling

LEMMA StreamSteps ==
    ASSUME IInv, NEW x \in Request, StreamStep(x)
    PROVE  StreamSafe(x)
<1> USE DEF StreamSafe
<1>0. /\ x[1] \in Conn /\ x[2] \in Stream /\ x = <<x[1], x[2]>>
      /\ stream[x] \in Exchange /\ conn[x[1]] \in Connection
      /\ faults \in 0..MaxFaults /\ rules \in SUBSET Rule
  BY RequestParts DEF IInv, TypeOK, Types
<1>a. stream[x].pc # "idle" => conn[x[1]].pc \in Http
  BY <1>0 DEF IInv, Attached, Idle
<1>1. ASSUME NEW host \in Domain, Receive(x[1], x[2], host) PROVE StreamSafe(x)
  <2> DEFINE e == [Resting EXCEPT !.pc = "lookup", !.domain = host]
  <2>1. e \in Exchange /\ e.pc = "lookup"
    BY DEF Resting, Exchange
  <2>2. stream' = [stream EXCEPT ![x] = e]
    BY <1>0, <1>1 DEF Receive
  <2>3. /\ stream[x].pc = "idle" /\ conn[x[1]].pc \in Http
        /\ conn[x[1]].pc = "http1" => Idle(x[1])
    BY <1>0, <1>1 DEF Receive, Ready, Http, Idle
  <2>4. ~Taken(x) /\ e.pc \notin Handling /\ e.pc # "send" /\ counter' = counter
    BY <1>1, <2>1, <2>3 DEF Taken, Handling, Receive
  <2>5. StreamOutcome(x, e, counter')
    BY <2>1, <2>3, <2>4 DEF StreamOutcome
  <2> QED BY <1>0, <1>1, <2>2, <2>3, <2>5 DEF Receive, bounds
<1>2. ASSUME NEW r \in rules, Route(x, r) PROVE StreamSafe(x)
  <2> DEFINE e == [Resting EXCEPT !.pc = "send", !.rule = r.id, !.target = r.target]
  <2>1. e \in Exchange /\ e.pc = "send" /\ e.rule = r.id /\ e.rule \in RuleId /\ e.target = r.target
    BY <1>0 DEF Resting, Exchange, Rule, Handling
  <2>2. stream[x].pc = "lookup" /\ ~Taken(x) /\ e.pc \in Handling
    BY <1>2, <2>1 DEF Route, Taken, Handling
  <2>3. r.target \in OfferedBy(rules, conn[x[1]].group)
    BY <1>2 DEF Route, Routes, Live, OfferedBy
  <2>4. e.target \in offered[x[1]]
    BY <1>0, <2>1, <2>3 DEF IInv, Offers
  <2>5. counter' = [counter EXCEPT ![e.rule] = @ + 1]
    BY <1>2, <2>1 DEF Route
  <2>6. StreamOutcome(x, e, counter')
    BY <2>1, <2>2, <2>4, <2>5 DEF StreamOutcome
  <2> QED BY <1>0, <1>a, <1>2, <2>2, <2>6 DEF Route, bounds
<1>3. CASE AnswerAtOnce(x) \/ LookupFails(x) \/ EndBody(x)
  <2>1. /\ stream[x].pc \in {"lookup", "body"} /\ stream' = [stream EXCEPT ![x] = Resting]
        /\ UNCHANGED <<rules, force, counter, conn, edits, offered, reached>>
    BY <1>3 DEF AnswerAtOnce, LookupFails, EndBody, Done, bounds
  <2>2. faults' \in 0..MaxFaults
    BY <1>0, <1>3, Parameters DEF AnswerAtOnce, LookupFails, EndBody, bounds
  <2>3. ~Taken(x) /\ stream[x].pc # "idle"
    BY <2>1 DEF Taken, Handling
  <2>4. StreamOutcome(x, Resting, counter')
    BY <2>1, <2>3, LetGo
  <2> QED BY <1>a, <2>1, <2>2, <2>3, <2>4
<1>4. CASE Send(x) \/ Unreachable(x)
  <2> DEFINE e == [stream[x] EXCEPT !.pc = IF Send(x) THEN "wait" ELSE "refuse", !.target = None]
  <2>1. /\ e \in Exchange /\ e.pc \in {"wait", "refuse"} /\ e.rule = stream[x].rule
    BY <1>0 DEF Exchange, Handling
  <2>2. stream[x].pc = "send" /\ counter' = counter /\ stream' = [stream EXCEPT ![x] = e]
    BY <1>0, <1>4 DEF Send, Unreachable, IInv, TypeOK, Types, Exchange
  <2>3. Taken(x) /\ e.pc \in Handling /\ e.pc # "send" /\ stream[x].pc # "idle"
    BY <2>1, <2>2 DEF Taken, Handling
  <2>4. e.rule \in RuleId
    BY <2>1, <2>3 DEF IInv, TypeOK, GuardsHaveRules, Taken
  <2>5. StreamOutcome(x, e, counter')
    BY <2>1, <2>2, <2>3, <2>4 DEF StreamOutcome
  <2>6. reached' = reached \/ reached' = [reached EXCEPT ![x[1]] = @ \cup {stream[x].target}]
    BY <1>4 DEF Send, Unreachable
  <2>7. stream[x].target \in offered[x[1]]
    BY <2>2 DEF IInv, Offers
  <2>8. UNCHANGED <<rules, force, conn, bounds, offered>>
    BY <1>4 DEF Send, Unreachable
  <2> QED BY <1>0, <1>a, <2>2, <2>3, <2>5, <2>6, <2>7, <2>8 DEF bounds
<1>5. ASSUME NEW label \in {"answer", "upgrade", "refuse"}, Respond(x, label) PROVE StreamSafe(x)
  <2> DEFINE e == [stream[x] EXCEPT !.pc = label]
  <2>1. e \in Exchange /\ e.pc = label /\ e.rule = stream[x].rule
    BY <1>0 DEF Exchange, Handling
  <2>2. stream[x].pc = "wait" /\ counter' = counter /\ stream' = [stream EXCEPT ![x] = e]
    BY <1>0, <1>5 DEF Respond, IInv, TypeOK, Types, Exchange
  <2>3. Taken(x) /\ e.pc \in Handling /\ e.pc # "send" /\ stream[x].pc # "idle"
    BY <2>1, <2>2 DEF Taken, Handling
  <2>4. e.rule \in RuleId
    BY <2>1, <2>3 DEF IInv, TypeOK, GuardsHaveRules, Taken
  <2>5. StreamOutcome(x, e, counter')
    BY <2>1, <2>2, <2>3, <2>4 DEF StreamOutcome
  <2> QED BY <1>0, <1>a, <1>5, <2>2, <2>3, <2>5 DEF Respond, bounds
<1>6. CASE Return(x)
  <2> DEFINE e == IF stream[x].pc = "answer" THEN [Resting EXCEPT !.pc = "body"] ELSE Resting
  <2>1. e \in Exchange /\ e.pc \notin Handling /\ e.pc # "send"
    BY DEF Resting, Exchange, Handling
  <2>2. Taken(x) /\ stream[x].pc # "idle"
    BY <1>6 DEF Return, Taken, Handling
  <2>3. counter' = [counter EXCEPT ![stream[x].rule] = Dropped(@)]
    BY <1>6 DEF Return, Release
  <2>4. StreamOutcome(x, e, counter')
    BY <2>1, <2>2, <2>3 DEF StreamOutcome
  <2>5. stream' = [stream EXCEPT ![x] = e]
    BY <1>0, <1>6 DEF Return, IInv, TypeOK, Types
  <2>6. conn' = conn \/ conn' = [conn EXCEPT ![x[1]] = [Closed EXCEPT !.pc = "closing"]]
    BY <1>6 DEF Return, ConnTo
  <2> QED BY <1>0, <1>a, <1>6, <2>2, <2>4, <2>5, <2>6 DEF Return, bounds
<1>7. CASE Cancel(x)
  <2>1. Taken(x) => counter' = [counter EXCEPT ![stream[x].rule] = Dropped(@)]
    BY <1>7 DEF Cancel, Release, Taken
  <2>2. ~Taken(x) => counter' = counter
    BY <1>7 DEF Cancel, Taken
  <2>3. StreamOutcome(x, Resting, counter')
    BY <2>1, <2>2, LetGo
  <2> QED BY <1>0, <1>a, <1>7, <2>3 DEF Cancel, Done, bounds
<1> QED BY <1>1, <1>2, <1>3, <1>4, <1>5, <1>6, <1>7 DEF StreamStep

LEMMA GuardedFinite ==
    ASSUME NEW i \in RuleId
    PROVE  IsFiniteSet(Guarded(i)) /\ Cardinality(Guarded(i)) \in Nat
<1>1. Guarded(i) \in SUBSET Request
  BY DEF Guarded
<1>2. IsFiniteSet(Guarded(i))
  BY <1>1, Parameters, FS_Subset
<1> QED BY <1>2, FS_CardinalityType

\* One request changes; the requests of a rule are those of before, with it or without it.
LEMMA GuardedChanges ==
    ASSUME Types, NEW x \in Request, NEW e, stream' = [stream EXCEPT ![x] = e],
           NEW i \in RuleId
    PROVE  Guarded(i)' = IF e.pc \in Handling /\ e.rule = i
                         THEN Guarded(i) \cup {x} ELSE Guarded(i) \ {x}
<1>1. \A y \in Request : stream'[y] = IF y = x THEN e ELSE stream[y]
  BY DEF Types
<1> QED BY <1>1 DEF Guarded

\* The counters follow the guards: the one thing ConnGuard is there for.
LEMMA CountersFollow ==
    ASSUME IInv, NEW x \in Request, NEW e, stream' = [stream EXCEPT ![x] = e],
           StreamOutcome(x, e, counter')
    PROVE  counter' \in [RuleId -> Nat] /\ CounterExact'
<1>1. /\ counter \in [RuleId -> Nat] /\ Types
      /\ \A i \in RuleId : counter[i] = Cardinality(Guarded(i))
      /\ Taken(x) => stream[x].rule \in RuleId
  BY DEF IInv, TypeOK, Types, GuardsHaveRules, CounterExact, Taken
<1>2. ASSUME NEW i \in RuleId
      PROVE  counter'[i] \in Nat /\ counter'[i] = Cardinality(Guarded(i)')
  <2> DEFINE S == Guarded(i)
  <2>1. IsFiniteSet(S) /\ Cardinality(S) \in Nat /\ counter[i] = Cardinality(S)
    BY <1>1, GuardedFinite
  <2>2. x \in S <=> Taken(x) /\ stream[x].rule = i
    BY DEF Guarded, Taken
  <2>3. Guarded(i)' = IF e.pc \in Handling /\ e.rule = i THEN S \cup {x} ELSE S \ {x}
    BY <1>1, GuardedChanges
  <2>4. /\ Cardinality(S \cup {x}) = IF x \in S THEN Cardinality(S) ELSE Cardinality(S) + 1
        /\ Cardinality(S \ {x}) = IF x \in S THEN Cardinality(S) - 1 ELSE Cardinality(S)
    BY <2>1, FS_AddElement, FS_RemoveElement
  <2> HIDE DEF S
  <2>5. CASE Taken(x) /\ e.pc \in Handling
    <3>1. e.rule = stream[x].rule /\ counter'[i] = counter[i]
      BY <2>5 DEF StreamOutcome
    <3>2. Cardinality(Guarded(i)') = Cardinality(S)
      BY <2>2, <2>3, <2>4, <2>5, <3>1
    <3> QED BY <2>1, <3>1, <3>2
  <2>6. CASE ~Taken(x) /\ e.pc \notin Handling
    <3>1. counter'[i] = counter[i]
      BY <2>6 DEF StreamOutcome
    <3>2. Cardinality(Guarded(i)') = Cardinality(S)
      BY <2>2, <2>3, <2>4, <2>6
    <3> QED BY <2>1, <3>1, <3>2
  <2>7. CASE ~Taken(x) /\ e.pc \in Handling
    <3>1. counter'[i] = IF e.rule = i THEN counter[i] + 1 ELSE counter[i]
      BY <1>1, <2>7 DEF StreamOutcome
    <3>2. Cardinality(Guarded(i)') = IF e.rule = i THEN Cardinality(S) + 1 ELSE Cardinality(S)
      BY <2>2, <2>3, <2>4, <2>7
    <3> QED BY <2>1, <3>1, <3>2
  <2>8. CASE Taken(x) /\ e.pc \notin Handling
    <3>1. counter'[i] = IF stream[x].rule = i THEN Dropped(counter[i]) ELSE counter[i]
      BY <1>1, <2>8 DEF StreamOutcome
    <3>2. Cardinality(Guarded(i)') =
             IF stream[x].rule = i THEN Cardinality(S) - 1 ELSE Cardinality(S)
      BY <2>2, <2>3, <2>4, <2>8
    <3>3. stream[x].rule = i => Cardinality(S) # 0
      <4>1. ASSUME stream[x].rule = i PROVE S # {}
        BY <2>2, <2>8, <4>1
      <4> QED BY <2>1, <4>1, FS_EmptySet
    <3> QED BY <2>1, <3>1, <3>2, <3>3 DEF Dropped
  <2> QED BY <2>5, <2>6, <2>7, <2>8
<1>3. \E f : counter' = [i \in RuleId |-> f[i]]
  BY <1>1 DEF StreamOutcome
<1>4. counter' \in [RuleId -> Nat]
  BY <1>2, <1>3
<1>5. CounterExact'
  BY <1>2 DEF CounterExact
<1> QED BY <1>4, <1>5

LEMMA StreamKeeps ==
    ASSUME IInv, NEW x \in Request, StreamSafe(x)
    PROVE  IInv'
<1> DEFINE c == x[1]
<1>0. c \in Conn /\ x[2] \in Stream /\ x = <<c, x[2]>> /\ conn \in [Conn -> Connection]
  BY RequestParts DEF IInv, TypeOK, Types
<1>1. PICK e : stream' = [stream EXCEPT ![x] = e] /\ StreamOutcome(x, e, counter')
  BY DEF StreamSafe
<1>2. \A y \in Request : stream'[y] = IF y = x THEN e ELSE stream[y]
  BY <1>1 DEF IInv, TypeOK, Types
<1>3. /\ UNCHANGED <<rules, force, edits, offered>> /\ faults' \in 0..MaxFaults
      /\ conn[c].pc \in Http
  BY DEF StreamSafe
<1>4. /\ conn' \in [Conn -> Connection]
      /\ \A b \in Conn : \/ conn'[b] = conn[b]
                         \/ b = c /\ conn'[b].pc = "closing" /\ conn'[b].group = None
  BY <1>0, Closing DEF StreamSafe
<1>5. /\ reached' \in [Conn -> SUBSET Target]
      /\ \A b \in Conn : \/ reached'[b] = reached[b]
                         \/ b = c /\ reached'[b] \subseteq reached[b] \cup offered[b]
  <2>1. reached \in [Conn -> SUBSET Target] /\ offered[c] \in SUBSET Target
    BY <1>0 DEF IInv, TypeOK, Types
  <2>2. CASE reached' = reached
    BY <2>1, <2>2
  <2>3. ASSUME NEW t \in offered[c], reached' = [reached EXCEPT ![c] = @ \cup {t}]
        PROVE  <1>5!1 /\ <1>5!2
    BY <1>0, <2>1, <2>3
  <2> QED BY <2>2, <2>3 DEF StreamSafe
<1>6. counter' \in [RuleId -> Nat] /\ CounterExact'
  BY <1>1, CountersFollow
<1>7. Types'
  <2>1. stream' \in [Request -> Exchange]
    BY <1>1 DEF IInv, TypeOK, Types, StreamOutcome
  <2> QED BY <1>3, <1>4, <1>5, <1>6, <2>1 DEF IInv, TypeOK, Types
<1>8. GuardsHaveRules'
  BY <1>1, <1>2 DEF IInv, TypeOK, GuardsHaveRules, StreamOutcome
<1>9. OneByOne'
  <2> SUFFICES ASSUME NEW b \in Conn, NEW s \in Stream, NEW q \in Stream, conn'[b].pc = "http1",
                      stream'[<<b, s>>].pc # "idle", stream'[<<b, q>>].pc # "idle"
               PROVE  s = q
    BY DEF OneByOne
  <2>1. conn[b].pc = "http1" /\ <<b, s>> \in Request /\ <<b, q>> \in Request
    BY <1>4, RequestParts
  <2>2. CASE stream[x].pc = "idle" /\ e.pc # "idle" /\ b = c
    <3>1. \A y \in Stream : stream[<<b, y>>].pc = "idle"
      BY <1>1, <2>1, <2>2 DEF StreamOutcome, Idle
    <3>2. <<b, s>> = x /\ <<b, q>> = x
      BY <1>2, <2>1, <3>1
    <3> QED BY <3>2
  <2>3. CASE ~(stream[x].pc = "idle" /\ e.pc # "idle" /\ b = c)
    <3>1. stream[<<b, s>>].pc # "idle" /\ stream[<<b, q>>].pc # "idle"
      BY <1>0, <1>2, <2>1, <2>3
    <3> QED BY <2>1, <3>1 DEF IInv, TypeOK, OneByOne
  <2> QED BY <2>2, <2>3
<1>10. Attached'
  <2> SUFFICES ASSUME NEW b \in Conn, NEW s \in Stream, conn'[b].pc \notin Http
               PROVE  stream'[<<b, s>>].pc = "idle"
    BY DEF Attached, Idle
  <2>1. conn[b].pc \notin Http /\ b # c /\ <<b, s>> \in Request
    BY <1>3, <1>4, RequestParts DEF Http
  <2>2. stream[<<b, s>>].pc = "idle" /\ <<b, s>> # x
    BY <1>0, <2>1 DEF IInv, Attached, Idle
  <2> QED BY <1>2, <2>1, <2>2
<1>11. Offers'
  <2>1. ASSUME NEW b \in Conn
        PROVE  /\ OfferedBy(rules', conn'[b].group) \subseteq offered'[b]
               /\ conn'[b].pc = "connect" => conn'[b].target \in offered'[b]
               /\ conn'[b].pc = "closed" => reached'[b] = {}
    <3>1. rules \in SUBSET Rule
      BY DEF IInv, TypeOK, Types
    <3>2. CASE conn'[b] = conn[b]
      <4>1. conn[b].pc = "closed" => reached'[b] = {}
        BY <1>3, <1>5, <3>2 DEF IInv, Offers, Http
      <4> QED BY <1>3, <3>2, <4>1 DEF IInv, Offers
    <3>3. CASE conn'[b].pc = "closing" /\ conn'[b].group = None
      BY <1>3, <3>1, <3>3, NoGroup
    <3> QED BY <1>4, <3>2, <3>3
  <2>2. ASSUME NEW y \in Request, stream'[y].pc = "send"
        PROVE  stream'[y].target \in offered'[y[1]]
    BY <1>1, <1>2, <1>3, <2>2 DEF IInv, Offers, StreamOutcome
  <2> QED BY <2>1, <2>2 DEF Offers
<1>12. OwnGroupOnly'
  BY <1>3, <1>5 DEF IInv, OwnGroupOnly
<1> QED BY <1>6, <1>7, <1>8, <1>9, <1>10, <1>11, <1>12 DEF IInv, TypeOK

-----------------------------------------------------------------------------
(* The panel, the process, and the theorems                                *)

LEMMA RewriteKeeps ==
    ASSUME IInv, NEW table \in SUBSET Rule, Rewrite(table)
    PROVE  IInv'
<1>1. /\ rules' = table /\ UNCHANGED <<force, counter, conn, stream, faults, reached>>
      /\ edits' \in 0..MaxEdits
  BY Parameters DEF Rewrite, IInv, TypeOK, Types
<1>2. /\ offered' \in [Conn -> SUBSET Target]
      /\ \A c \in Conn : offered'[c] = offered[c] \cup OfferedBy(table, conn[c].group)
  BY OfferedTargets DEF Rewrite, IInv, TypeOK, Types
<1>3. Types'
  BY <1>1, <1>2 DEF IInv, TypeOK, Types
<1>4. GuardsHaveRules' /\ OneByOne' /\ Attached' /\ CounterExact'
  BY <1>1 DEF IInv, TypeOK, GuardsHaveRules, OneByOne, Attached, Idle, CounterExact, Guarded
<1>5. Offers'
  BY <1>1, <1>2, RequestParts DEF IInv, Offers
<1>6. OwnGroupOnly'
  BY <1>1, <1>2 DEF IInv, OwnGroupOnly
<1> QED BY <1>3, <1>4, <1>5, <1>6 DEF IInv, TypeOK

LEMMA ReloadKeeps ==
    ASSUME IInv, NEW g \in Group, ReloadGroup(g)
    PROVE  IInv'
<1>1. /\ UNCHANGED <<rules, counter, conn, stream, faults, offered, reached>>
      /\ edits' \in 0..MaxEdits /\ force' \in [Group -> BOOLEAN]
  BY Parameters DEF ReloadGroup, IInv, TypeOK, Types
<1>2. Types' /\ GuardsHaveRules' /\ OneByOne'
  BY <1>1 DEF IInv, TypeOK, Types, GuardsHaveRules, OneByOne
<1>3. Attached' /\ Offers' /\ CounterExact' /\ OwnGroupOnly'
  BY <1>1 DEF IInv, Attached, Idle, Offers, CounterExact, Guarded, OwnGroupOnly
<1> QED BY <1>2, <1>3 DEF IInv, TypeOK

\* Nothing is open: at first, and after a restart.
Blank ==
    /\ rules \in SUBSET Rule /\ force \in [Group -> BOOLEAN]
    /\ edits \in 0..MaxEdits /\ faults \in 0..MaxFaults
    /\ counter = [i \in RuleId |-> 0]
    /\ conn = [c \in Conn |-> Closed]
    /\ stream = [x \in Request |-> Resting]
    /\ offered = [c \in Conn |-> {}]
    /\ reached = [c \in Conn |-> {}]

LEMMA BlankSafe == ASSUME Blank PROVE IInv
<1>1. Types
  BY Restings DEF Blank, Types
<1>2. GuardsHaveRules /\ OneByOne
  BY Restings DEF Blank, GuardsHaveRules, OneByOne
<1>3. Attached
  BY Restings, RequestParts DEF Blank, Attached, Idle
<1>4. Offers
  <2>1. \A c \in Conn : OfferedBy(rules, conn[c].group) = {} /\ conn[c].pc = "closed"
    BY Restings, NoGroup DEF Blank
  <2>2. \A x \in Request : stream[x].pc # "send"
    BY Restings DEF Blank
  <2> QED BY <2>1, <2>2 DEF Blank, Offers
<1>5. CounterExact
  <2>1. ASSUME NEW i \in RuleId PROVE Guarded(i) = {}
    BY Restings DEF Blank, Guarded
  <2> QED BY <2>1, FS_EmptySet DEF Blank, CounterExact
<1>6. OwnGroupOnly
  BY DEF Blank, OwnGroupOnly
<1> QED BY <1>1, <1>2, <1>3, <1>4, <1>5, <1>6 DEF IInv, TypeOK

LEMMA Initially == Init => IInv
<1>1. Init => Blank
  BY Parameters DEF Init, Blank
<1> QED BY <1>1, BlankSafe

LEMMA Inductive == IInv /\ [Next]_vars => IInv'
<1> SUFFICES ASSUME IInv, [Next]_vars PROVE IInv'
  OBVIOUS
<1>1. ASSUME NEW c \in Conn, ConnStep(c) PROVE IInv'
  BY <1>1, ConnSteps, ConnKeeps
<1>2. ASSUME NEW x \in Request, StreamStep(x) PROVE IInv'
  BY <1>2, StreamSteps, StreamKeeps
<1>3. rules \in SUBSET Rule
  BY DEF IInv, TypeOK, Types
<1>4. ASSUME NEW r \in Rows, PutRule(r) PROVE IInv'
  BY <1>3, <1>4, Parameters, RewriteKeeps DEF PutRule
<1>5. ASSUME NEW i \in RuleId, DeleteRule(i) PROVE IInv'
  BY <1>3, <1>5, RewriteKeeps DEF DeleteRule
<1>6. ASSUME NEW g \in Group, ReloadGroup(g) PROVE IInv'
  BY <1>6, ReloadKeeps
<1>7. CASE Restart
  <2>1. Blank'
    BY <1>7, Parameters DEF Restart, Blank, IInv, TypeOK, Types
  <2>2. (Blank => IInv)'
    BY BlankSafe, PTL
  <2> QED BY <2>1, <2>2
<1>8. CASE UNCHANGED vars
  <2>1. Types' /\ GuardsHaveRules' /\ OneByOne'
    BY <1>8 DEF vars, bounds, IInv, TypeOK, Types, GuardsHaveRules, OneByOne
  <2>2. Attached' /\ Offers' /\ CounterExact' /\ OwnGroupOnly'
    BY <1>8 DEF vars, IInv, Attached, Idle, Offers, CounterExact, Guarded, OwnGroupOnly
  <2> QED BY <2>1, <2>2 DEF IInv, TypeOK
<1> QED BY <1>1, <1>2, <1>4, <1>5, <1>6, <1>7, <1>8, Kinds

LEMMA Invariant == Spec => []IInv
BY Initially, Inductive, PTL DEF Spec

\* The variables keep their types, a guard is always of a rule, and the requests of an HTTP/1
\* connection come one after the other (proxy.rs:633-639).
THEOREM TypeCorrect == Spec => []TypeOK
<1>1. IInv => TypeOK
  BY DEF IInv
<1> QED BY <1>1, Invariant, PTL

\* The counter of every rule is the number of its requests in handling, in whatever way they
\* are answered, fail, are cancelled or lose their rule (proxy.rs:712-735).
THEOREM CountersExact == Spec => []CounterExact
<1>1. IInv => CounterExact
  BY DEF IInv
<1> QED BY <1>1, Invariant, PTL

\* Nothing of a connection reaches a backend that no enabled rule of its own group named while
\* it was open, however rules are moved, changed or deleted meanwhile (proxy.rs:495-546, 756-853).
THEOREM NothingStrays == Spec => []OwnGroupOnly
<1>1. IInv => OwnGroupOnly
  BY DEF IInv
<1> QED BY <1>1, Invariant, PTL

-----------------------------------------------------------------------------
(* Rules that are off                                                      *)

LEMMA StagesNat == \A pc : Stages(pc) \in 0..3
BY DEF Stages

LEMMA UseNat == \A k, i : Use(k, i) \in 0..3
BY StagesNat DEF Use

\* The labels that need no rule.
Ruleless == {"closed", "peek", "match", "redirect", "http1", "http2", "closing", "idle", "lookup", "body"}

LEMMA RulelessUse == \A k, i : k.pc \in Ruleless => Use(k, i) = 0
<1> SUFFICES ASSUME NEW k, NEW i, k.pc \in Ruleless PROVE Use(k, i) = 0
  OBVIOUS
<1>1. Stages(k.pc) = 0
  BY DEF Ruleless, Stages
<1> QED BY <1>1 DEF Use

\* A rule that is off is in no lookup.
LEMMA OffIsNotLive ==
    ASSUME NEW i, Off(i), NEW r \in rules, Live(r)
    PROVE  r.id # i
BY DEF Off, Live

\* A step of c, or of x, leaves it no further from giving up rule i.
ConnDown(c, i) == \E k : conn' = [conn EXCEPT ![c] = k] /\ Use(k, i) <= Use(conn[c], i)
RequestDown(x, i) == \E e : stream' = [stream EXCEPT ![x] = e] /\ Use(e, i) <= Use(stream[x], i)

LEMMA ConnWinds ==
    ASSUME Types, NEW c \in Conn, ConnStep(c), NEW i \in RuleId, Off(i)
    PROVE  /\ stream' = stream
           /\ \A b \in Conn : Use(conn'[b], i) <= Use(conn[b], i)
<1>0. conn \in [Conn -> Connection] /\ conn[c] \in Connection
  BY DEF Types
<1>1. ASSUME NEW k, conn' = [conn EXCEPT ![c] = k], k.pc \in Ruleless PROVE ConnDown(c, i)
  <2>1. Use(k, i) = 0 /\ Use(conn[c], i) \in 0..3
    BY <1>1, RulelessUse, UseNat
  <2>2. Use(k, i) <= Use(conn[c], i)
    BY <2>1
  <2> QED BY <1>1, <2>2 DEF ConnDown
<1>2. ASSUME NEW label \in {"http1", "http2", "closing", "redirect"}, ConnTo(c, label) PROVE ConnDown(c, i)
  <2>1. PICK k \in Connection : conn' = [conn EXCEPT ![c] = k] /\ k.pc = label
    BY <1>2, Label
  <2> QED BY <1>1, <2>1 DEF Ruleless
<1>3. ASSUME NEW g \in Group, Accept(c, g) PROVE ConnDown(c, i)
  <2> DEFINE k == [Closed EXCEPT !.pc = "peek", !.group = g, !.force = force[g]]
  <2>1. k.pc = "peek"
    BY DEF Closed
  <2>2. conn' = [conn EXCEPT ![c] = k]
    BY <1>3 DEF Accept
  <2> HIDE DEF k
  <2> QED BY <1>1, <2>1, <2>2 DEF Ruleless
<1>4. ASSUME NEW tls \in BOOLEAN, Peek(c, tls) PROVE ConnDown(c, i)
  <2> DEFINE k == [conn[c] EXCEPT !.pc = "match", !.tls = tls]
  <2>1. k.pc = "match"
    BY <1>0 DEF Connection
  <2>2. conn' = [conn EXCEPT ![c] = k]
    BY <1>0, <1>4 DEF Peek
  <2> HIDE DEF k
  <2> QED BY <1>1, <2>1, <2>2 DEF Ruleless
<1>5. ASSUME NEW r \in rules, MatchTcp(c, r) PROVE ConnDown(c, i)
  <2> DEFINE k == [Closed EXCEPT !.pc = "connect", !.group = conn[c].group,
                                 !.rule = r.id, !.target = r.target]
  <2>1. k.rule = r.id
    BY DEF Closed
  <2>2. r.id # i
    BY <1>5, OffIsNotLive DEF MatchTcp, TcpRules
  <2>3. conn' = [conn EXCEPT ![c] = k]
    BY <1>5 DEF MatchTcp
  <2> HIDE DEF k
  <2>4. Use(k, i) = 0 /\ Use(conn[c], i) \in 0..3
    BY <2>1, <2>2, UseNat DEF Use
  <2>5. Use(k, i) <= Use(conn[c], i)
    BY <2>4
  <2> QED BY <2>3, <2>5 DEF ConnDown
<1>6. ASSUME Connect(c) PROVE ConnDown(c, i)
  <2> DEFINE k == [Closed EXCEPT !.pc = "tunnel", !.group = conn[c].group,
                                 !.rule = conn[c].rule, !.target = conn[c].target]
  <2>1. k.rule = conn[c].rule /\ k.pc = "tunnel"
    BY DEF Closed
  <2>2. conn' = [conn EXCEPT ![c] = k] /\ conn[c].pc = "connect"
    BY <1>6 DEF Connect, ConnTo
  <2> HIDE DEF k
  <2>3. Stages("tunnel") = 1 /\ Stages("connect") = 2
    BY DEF Stages
  <2>4. Use(k, i) <= Use(conn[c], i)
    BY <2>1, <2>2, <2>3 DEF Use
  <2> QED BY <2>2, <2>4 DEF ConnDown
<1>7. ASSUME Finish(c) \/ Redirect(c) \/ HangUp(c) PROVE ConnDown(c, i)
  BY <1>2, <1>7 DEF Finish, Redirect, HangUp
<1>8. ASSUME Close(c) PROVE ConnDown(c, i)
  <2>1. Closed.pc = "closed"
    BY Restings
  <2> QED BY <1>1, <1>8, <2>1 DEF Close, Ruleless
<1>9. ConnDown(c, i)
  BY <1>2, <1>3, <1>4, <1>5, <1>6, <1>7, <1>8 DEF ConnStep, NoTcp, MatchFails
<1>10. \A b \in Conn : Use(conn'[b], i) <= Use(conn[b], i)
  <2>1. PICK k : conn' = [conn EXCEPT ![c] = k] /\ Use(k, i) <= Use(conn[c], i)
    BY <1>9 DEF ConnDown
  <2> SUFFICES ASSUME NEW b \in Conn PROVE Use(conn'[b], i) <= Use(conn[b], i)
    OBVIOUS
  <2>2. CASE b = c
    BY <1>0, <2>1, <2>2
  <2>3. CASE b # c
    <3>1. conn'[b] = conn[b] /\ Use(conn[b], i) \in 0..3
      BY <1>0, <2>1, <2>3, UseNat
    <3> QED BY <3>1
  <2> QED BY <2>2, <2>3
<1>11. stream' = stream
  BY DEF ConnStep, Accept, Peek, MatchTcp, NoTcp, MatchFails, Connect, Finish, Redirect, Close, HangUp
<1> QED BY <1>10, <1>11

LEMMA StreamWinds ==
    ASSUME Types, NEW x \in Request, StreamStep(x), NEW i \in RuleId, Off(i)
    PROVE  /\ \A c \in Conn : Use(conn'[c], i) <= Use(conn[c], i)
           /\ \A y \in Request : Use(stream'[y], i) <= Use(stream[y], i)
<1> DEFINE e == stream[x]
<1>0. stream \in [Request -> Exchange] /\ e \in Exchange /\ conn \in [Conn -> Connection] /\ x[1] \in Conn
  BY RequestParts DEF Types
<1>1. ASSUME NEW f, stream' = [stream EXCEPT ![x] = f], f.pc \in Ruleless PROVE RequestDown(x, i)
  <2>1. Use(f, i) = 0 /\ Use(e, i) \in 0..3
    BY <1>1, RulelessUse, UseNat
  <2>2. Use(f, i) <= Use(e, i)
    BY <2>1
  <2> QED BY <1>1, <2>2 DEF RequestDown
<1>2. ASSUME Done(x) PROVE RequestDown(x, i)
  BY <1>1, <1>2, Restings DEF Done, Ruleless
<1>3. ASSUME NEW f, stream' = [stream EXCEPT ![x] = f], f.rule = e.rule, Stages(f.pc) <= Stages(e.pc)
      PROVE  RequestDown(x, i)
  <2>1. Use(f, i) <= Use(e, i)
    BY <1>3 DEF Use
  <2> QED BY <1>3, <2>1 DEF RequestDown
<1>4. /\ Stages("send") = 3 /\ Stages("wait") = 2
      /\ Stages("answer") = 1 /\ Stages("upgrade") = 1 /\ Stages("refuse") = 1
  BY DEF Stages
<1>5. ASSUME NEW host \in Domain, Receive(x[1], x[2], host) PROVE RequestDown(x, i)
  <2> DEFINE f == [Resting EXCEPT !.pc = "lookup", !.domain = host]
  <2>1. f.pc = "lookup"
    BY DEF Resting
  <2>2. stream' = [stream EXCEPT ![x] = f]
    BY <1>5, RequestParts DEF Receive
  <2> HIDE DEF f
  <2> QED BY <1>1, <2>1, <2>2 DEF Ruleless
<1>6. ASSUME NEW r \in rules, Route(x, r) PROVE RequestDown(x, i)
  <2> DEFINE f == [Resting EXCEPT !.pc = "send", !.rule = r.id, !.target = r.target]
  <2>1. f.rule = r.id
    BY DEF Resting
  <2>2. r.id # i
    BY <1>6, OffIsNotLive DEF Route, Routes
  <2>3. stream' = [stream EXCEPT ![x] = f]
    BY <1>6 DEF Route
  <2> HIDE DEF f
  <2>4. Use(f, i) = 0 /\ Use(e, i) \in 0..3
    BY <2>1, <2>2, UseNat DEF Use
  <2>5. Use(f, i) <= Use(e, i)
    BY <2>4
  <2> QED BY <2>3, <2>5 DEF RequestDown
<1>7. ASSUME NEW label \in {"wait", "refuse"}, e.pc = "send",
             stream' = [stream EXCEPT ![x].pc = label, ![x].target = None]
      PROVE  RequestDown(x, i)
  <2> DEFINE f == [e EXCEPT !.pc = label, !.target = None]
  <2>1. f.rule = e.rule /\ f.pc = label
    BY <1>0 DEF Exchange
  <2>2. stream' = [stream EXCEPT ![x] = f]
    BY <1>0, <1>7
  <2>3. Stages(label) <= Stages(e.pc)
    BY <1>4, <1>7
  <2> HIDE DEF f
  <2> QED BY <1>3, <2>1, <2>2, <2>3
<1>8. ASSUME NEW label \in {"answer", "upgrade", "refuse"}, Respond(x, label) PROVE RequestDown(x, i)
  <2> DEFINE f == [e EXCEPT !.pc = label]
  <2>1. f.rule = e.rule /\ f.pc = label
    BY <1>0 DEF Exchange
  <2>2. stream' = [stream EXCEPT ![x] = f]
    BY <1>0, <1>8 DEF Respond
  <2>3. Stages(label) <= Stages(e.pc)
    BY <1>4, <1>8 DEF Respond
  <2> HIDE DEF f
  <2> QED BY <1>3, <2>1, <2>2, <2>3
<1>9. ASSUME Return(x) PROVE RequestDown(x, i)
  <2> DEFINE f == IF e.pc = "answer" THEN [Resting EXCEPT !.pc = "body"] ELSE Resting
  <2>1. f.pc \in Ruleless
    BY DEF Resting, Ruleless
  <2>2. stream' = [stream EXCEPT ![x] = f]
    BY <1>0, <1>9 DEF Return
  <2> HIDE DEF f
  <2> QED BY <1>1, <2>1, <2>2
<1>10. RequestDown(x, i)
  BY <1>2, <1>5, <1>6, <1>7, <1>8, <1>9
     DEF StreamStep, AnswerAtOnce, LookupFails, Send, Unreachable, EndBody, Cancel
<1>11. \A y \in Request : Use(stream'[y], i) <= Use(stream[y], i)
  <2>1. PICK f : stream' = [stream EXCEPT ![x] = f] /\ Use(f, i) <= Use(e, i)
    BY <1>10 DEF RequestDown
  <2> SUFFICES ASSUME NEW y \in Request PROVE Use(stream'[y], i) <= Use(stream[y], i)
    OBVIOUS
  <2>2. CASE y = x
    BY <1>0, <2>1, <2>2
  <2>3. CASE y # x
    <3>1. stream'[y] = stream[y] /\ Use(stream[y], i) \in 0..3
      BY <1>0, <2>1, <2>3, UseNat
    <3> QED BY <3>1
  <2> QED BY <2>2, <2>3
<1>12. \A c \in Conn : Use(conn'[c], i) <= Use(conn[c], i)
  <2> SUFFICES ASSUME NEW c \in Conn PROVE Use(conn'[c], i) <= Use(conn[c], i)
    OBVIOUS
  <2>1. Use(conn[c], i) \in 0..3
    BY UseNat
  <2>2. CASE conn' = conn
    BY <2>1, <2>2
  <2>3. CASE ConnTo(x[1], "closing")
    <3>1. PICK k \in Connection : conn' = [conn EXCEPT ![x[1]] = k] /\ k.pc = "closing"
      BY <1>0, <2>3, Label
    <3>2. Use(k, i) = 0
      BY <3>1, RulelessUse DEF Ruleless
    <3>3. conn'[c] = k \/ conn'[c] = conn[c]
      BY <1>0, <3>1
    <3> QED BY <2>1, <3>2, <3>3
  <2>4. conn' = conn \/ ConnTo(x[1], "closing")
    BY DEF StreamStep, Receive, Route, AnswerAtOnce, LookupFails, Send, Unreachable, Respond,
           Return, EndBody, Cancel
  <2> QED BY <2>2, <2>3, <2>4
<1> QED BY <1>11, <1>12

\* From when a rule is off, no tunnel and no request takes it up, and those it has come only
\* closer to their end, whatever else the panel changes (proxy.rs:495-546, 712-853).
THEOREM RulesWindDown == Spec => WindsDown
<1> DEFINE Down(i) == /\ \A c \in Conn : Use(conn'[c], i) <= Use(conn[c], i)
                      /\ \A x \in Request : Use(stream'[x], i) <= Use(stream[x], i)
<1>1. ASSUME IInv, [Next]_vars, NEW i \in RuleId, Off(i) PROVE Down(i)
  <2>1. Types
    BY <1>1 DEF IInv, TypeOK
  <2>2. ASSUME UNCHANGED <<conn, stream>> PROVE Down(i)
    <3>1. \A k : Use(k, i) <= Use(k, i)
      BY UseNat
    <3> QED BY <2>2, <3>1
  <2>3. ASSUME NEW c \in Conn, ConnStep(c) PROVE Down(i)
    <3>1. stream' = stream /\ \A b \in Conn : Use(conn'[b], i) <= Use(conn[b], i)
      BY <1>1, <2>1, <2>3, ConnWinds
    <3>2. \A x \in Request : Use(stream[x], i) <= Use(stream[x], i)
      BY UseNat
    <3> QED BY <3>1, <3>2
  <2>4. ASSUME NEW x \in Request, StreamStep(x) PROVE Down(i)
    BY <1>1, <2>1, <2>4, StreamWinds
  <2>5. CASE Restart
    <3>1. \A c \in Conn : Use(conn'[c], i) = 0
      BY <2>5, Restings, RulelessUse DEF Restart, Ruleless
    <3>2. \A x \in Request : Use(stream'[x], i) = 0
      BY <2>5, Restings, RulelessUse DEF Restart, Ruleless
    <3>3. \A k : 0 <= Use(k, i)
      BY UseNat
    <3> QED BY <3>1, <3>2, <3>3
  <2>6. CASE \/ \E r \in Rows : PutRule(r)
             \/ \E j \in RuleId : DeleteRule(j)
             \/ \E g \in Group : ReloadGroup(g)
             \/ UNCHANGED vars
    BY <2>2, <2>6 DEF PutRule, DeleteRule, Rewrite, ReloadGroup, vars
  <2> QED BY <1>1, <2>3, <2>4, <2>5, <2>6, Kinds
<1>2. IInv /\ [Next]_vars => [\A i \in RuleId : Off(i) => Down(i)]_vars
  BY <1>1
<1> QED BY <1>2, Invariant, PTL DEF Spec, WindsDown
=============================================================================
