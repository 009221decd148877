-------------------------- MODULE ListenersProofs --------------------------
(***************************************************************************)
(* Type correctness of Listeners, that no reload is lost, that every       *)
(* reload replaces one snapshot by another, and what must have happened    *)
(* when two groups share a port: for any groups, ports, tasks and bounds.  *)
(***************************************************************************)
EXTENDS Listeners, TLAPS

\* What a handler carries fits the place it is at: a POST a whole row, and a PATCH
\* that has read its port a port.
Carries ==
    \A t \in Task :
        /\ pc[t] \in {"probe create", "probing create", "insert"} => body[t] \in Group
        /\ pc[t] \in {"conflict", "probe update", "probing update", "write port"} =>
                body[t].port \in Port

\* A handler that owes the engine a signal is past every check that could refuse the
\* request: what is left is to write the other fields and to send.
Committed ==
    \A t \in Task :
        wrote[t] => /\ pc[t] \in {"patch", "rules", "load", "send"}
                    /\ pc[t] = "patch" => \A u \in todo[t] : u[1] # "port"

Fresh == ~signal /\ (\A t \in Task : ~wrote[t]) /\ blame \subseteq {"jostled"}

Running == {k.group : k \in Live}

\* The engine starts from nothing, and what it has read or runs is the table's, unless
\* somebody is still to tell it.
Current ==
    /\ engine # "wait" => Live = {}
    /\ engine # "spawn" => rows = {}
    /\ engine = "spawn" /\ Fresh => rows = Enabled(groups)
    /\ engine = "wait" /\ Fresh => Running = Enabled(groups)

\* A row has its id alone, and so has a group that is being created.
Keyed ==
    /\ \A g, h \in groups : g.id = h.id => g = h
    /\ \A t \in Creating : /\ \A g \in groups : g.id # body[t].id
                           /\ \A s \in Task \ {t} : body[s].id # body[t].id

\* ClashesExplained, for the rows and for the rows the handlers are about to write.
Explained ==
    /\ Keyed
    /\ \A t \in Task : pc[t] = "conflict" => ValidPort(body[t].port)
    /\ Doubtful(Claims) \subseteq contested

IInv == TypeOK /\ Carries /\ Committed /\ Current /\ Explained

-----------------------------------------------------------------------------
(* Types                                                                   *)

\* One UPDATE keeps a row a row.
LEMMA AssignType ==
    ASSUME NEW g \in Group, NEW u \in Patch
    PROVE  Assign(g, u) \in Group
<1>1. CASE u \in {"port"} \X Port
  <2>1. u[1] = "port" /\ u[2] \in Port
    BY <1>1
  <2>2. Assign(g, u) = [g EXCEPT !.port = u[2]]
    BY <2>1 DEF Assign
  <2> QED BY <2>1, <2>2 DEF Group, Row
<1>2. CASE u \in {"enabled", "skip", "force"} \X BOOLEAN
  <2>1. u[1] \in {"enabled", "skip", "force"} /\ u[2] \in BOOLEAN
    BY <1>2
  <2>2. CASE u[1] = "enabled"
    BY <2>1, <2>2 DEF Assign, Group, Row
  <2>3. CASE u[1] = "skip"
    BY <2>1, <2>3 DEF Assign, Group, Row
  <2>4. CASE u[1] = "force"
    BY <2>1, <2>4 DEF Assign, Group, Row
  <2> QED BY <2>1, <2>2, <2>3, <2>4
<1> QED BY <1>1, <1>2 DEF Patch

\* The listener of a row, and what becomes of it, are listeners.
LEMMA ListenerType ==
    /\ \A g \in Group : Spawn(g) \in Listener
    /\ \A k \in Listener, st \in {"bound", "refused"} : [k EXCEPT !.st = st] \in Listener
    /\ \A k \in Listener : [k EXCEPT !.aborted = TRUE] \in Listener
BY DEF Spawn, Listener

LEMMA Bounds == MaxRequests \in Nat /\ MaxRestarts \in Nat
BY ListenersAssumption

\* A counter below its bound may grow by one.
LEMMA Count ==
    ASSUME NEW m \in Nat, NEW n \in 0..m, n < m
    PROVE  n + 1 \in 0..m
OBVIOUS

LEMMA ConstantTypes ==
    /\ NewGroups \subseteq Group /\ InitialGroups \subseteq Group
    /\ \A p \in PatchBodies : p \subseteq Patch
    /\ \A gs \in Backups : gs \subseteq Row(GroupId \cup {""})
BY ListenersAssumption

\* Ports that are doubted are ports that are claimed.
LEMMA DoubtfulPorts ==
    ASSUME NEW claims, \A c \in claims : c[2] \in Port
    PROVE  Doubtful(claims) \subseteq Port
BY DEF Doubtful

LEMMA ClaimedPorts ==
    ASSUME groups \subseteq Group, Carries
    PROVE  \A c \in Claims : c[2] \in Port
<1>1. \A g \in Group : g.port \in Port
  BY DEF Group, Row
<1>2. \A t \in Checked : body[t].port \in Port
  BY <1>1 DEF Checked, Creating, Carries
<1> QED BY <1>1, <1>2 DEF Claims

LEMMA RaceType ==
    ASSUME contested \subseteq Port, NEW t \in Task, NEW p \in Port, Race(t, p)
    PROVE  contested' \subseteq Port
BY DEF Race

LEMMA InitType == Init => TypeOK
<1> SUFFICES ASSUME Init PROVE TypeOK
  OBVIOUS
<1>4. contested \subseteq Port
  <2>1. groups \subseteq Group /\ Carries
    BY ConstantTypes DEF Init, Carries
  <2> QED BY <2>1, ClaimedPorts, DoubtfulPorts DEF Init
<1> USE DEF Init
<1>1. groups \subseteq Group /\ rows \subseteq Group /\ listeners \subseteq Listener
  BY ConstantTypes
<1>2. asked \in 0..MaxRequests /\ restarts \in 0..MaxRestarts
  BY Bounds
<1>3. body \in [Task -> BodyType]
  BY DEF NoBody, BodyType
<1> QED BY <1>1, <1>2, <1>3, <1>4 DEF TypeOK

\* What an answer leaves in the handler's variables.
LEMMA AnswerType ==
    ASSUME TypeOK, NEW t \in Task, Answer(t)
    PROVE  /\ pc' = [pc EXCEPT ![t] = "idle"]
           /\ body' \in [Task -> BodyType]
           /\ todo' \in [Task -> SUBSET Patch]
           /\ wrote' \in [Task -> BOOLEAN]
           /\ wrote' = [wrote EXCEPT ![t] = FALSE]
<1>1. NoBody \in BodyType
  BY DEF NoBody, BodyType
<1> QED BY <1>1 DEF Answer, Goto, TypeOK

LEMMA RequestsType ==
    ASSUME TypeOK, Carries, NEW t \in Task, Requests(t)
    PROVE  TypeOK'
<1> USE DEF TypeOK, Goto, Accept
<1>0. asked < MaxRequests /\ asked' = asked + 1 => asked' \in 0..MaxRequests
  BY Bounds, Count
<1>1. ASSUME NEW g \in NewGroups, BeginCreate(t, g) PROVE TypeOK'
  <2>1. g \in BodyType
    BY ConstantTypes DEF BodyType
  <2>2. contested' \subseteq Port
    <3>1. g.port \in Port
      BY ConstantTypes DEF Group, Row
    <3> QED BY <1>1, <3>1, RaceType DEF BeginCreate
  <2> QED BY <1>0, <1>1, <2>1, <2>2 DEF BeginCreate
<1>2. ASSUME NEW i \in GroupId, NEW fields \in PatchBodies, BeginUpdate(t, i, fields)
      PROVE  TypeOK'
  <2>1. [id |-> i, port |-> 0] \in BodyType
    BY DEF BodyType
  <2> QED BY <1>0, <1>2, <2>1, ConstantTypes DEF BeginUpdate
<1>3. ASSUME NEW i \in GroupId, DeleteGroup(t, i) PROVE TypeOK'
  BY <1>0, <1>3 DEF DeleteGroup, Commit
<1>4. ASSUME NEW gs \in Backups, Import(t, gs) PROVE TypeOK'
  <2>1. {g \in gs : g.id # ""} \subseteq Group
    BY ConstantTypes DEF Row, Group
  <2>2. groups' \subseteq Group
    BY <1>4, <2>1 DEF Import, Commit
  <2>3. \A c \in Claims' : c \in Claims \/ \E g \in gs : g.id # "" /\ c = <<g.id, g.port>>
    BY <1>4 DEF Import, Commit, Claims, Checked, Creating
  <2>4. \A c \in Claims' : c[2] \in Port
    <3>1. \A g \in Group : g.port \in Port
      BY DEF Group, Row
    <3>2. \A c \in Claims : c[2] \in Port
      BY ClaimedPorts
    <3> SUFFICES ASSUME NEW c \in Claims' PROVE c[2] \in Port
      OBVIOUS
    <3>3. CASE c \in Claims
      BY <3>2, <3>3
    <3>4. CASE c \notin Claims
      <4>1. PICK g \in gs : g.id # "" /\ c = <<g.id, g.port>>
        BY <2>3, <3>4
      <4> QED BY <2>1, <3>1, <4>1
    <3> QED BY <3>3, <3>4
  <2>5. contested' \subseteq Port
    BY <1>4, <2>4, DoubtfulPorts DEF Import
  <2> QED BY <1>0, <1>4, <2>2, <2>5 DEF Import, Commit
<1>5. ASSUME NEW p \in Port, ProbeWebPort(t, p) PROVE TypeOK'
  <2>1. [NoBody EXCEPT !.port = p] \in BodyType
    BY DEF NoBody, BodyType
  <2> QED BY <1>0, <1>5, <2>1 DEF ProbeWebPort
<1> QED BY <1>1, <1>2, <1>3, <1>4, <1>5 DEF Requests

LEMMA ProceedType ==
    ASSUME TypeOK, Carries, NEW t \in Task, Proceed(t) \/ StatementFails(t)
    PROVE  TypeOK'
<1> USE DEF TypeOK, Goto, Commit
<1>1. ASSUME ProbeOpens(t) PROVE TypeOK'
  BY <1>1 DEF ProbeOpens
<1>2. ASSUME ProbeCloses(t) PROVE TypeOK'
  BY <1>2 DEF ProbeCloses
<1>3. ASSUME ProbeRefused(t) PROVE TypeOK'
  BY <1>3, AnswerType DEF ProbeRefused
<1>4. ASSUME InsertGroup(t) PROVE TypeOK'
  BY <1>4 DEF InsertGroup, Carries
<1>5. ASSUME NEW p \in Port, ReadPort(t, p) PROVE TypeOK'
  <2>1. CASE Answer(t)
    BY <1>5, <2>1, AnswerType DEF ReadPort
  <2>2. CASE ~Answer(t)
    <3>1. [body[t] EXCEPT !.port = p] \in BodyType
      <4>1. CASE body[t] \in Group
        BY <4>1 DEF BodyType, Group, Row
      <4>2. CASE body[t] \in [id : GroupId \cup {""}, port : Port \cup {0}]
        BY <4>2 DEF BodyType
      <4> QED BY <4>1, <4>2 DEF BodyType
    <3>2. body' = [body EXCEPT ![t] = [body[t] EXCEPT !.port = p]]
      BY <1>5, <2>2 DEF ReadPort
    <3>3. body' \in [Task -> BodyType]
      BY <3>1, <3>2 DEF BodyType
    <3>4. pc' \in {[pc EXCEPT ![t] = "write port"], [pc EXCEPT ![t] = "conflict"]}
      BY <1>5, <2>2 DEF ReadPort
    <3> QED BY <1>5, <2>2, <3>3, <3>4 DEF ReadPort
  <2> QED BY <2>1, <2>2
<1>6. ASSUME CheckConflict(t) PROVE TypeOK'
  <2>1. CASE Answer(t)
    BY <1>6, <2>1, AnswerType DEF CheckConflict
  <2>2. CASE ~Answer(t)
    <3>1. body[t].port \in Port
      BY <1>6 DEF CheckConflict, Carries
    <3>2. contested' \subseteq Port
      BY <1>6, <2>2, <3>1, RaceType DEF CheckConflict
    <3> QED BY <1>6, <2>2, <3>2 DEF CheckConflict
  <2> QED BY <2>1, <2>2
<1>7. ASSUME NEW u \in Patch, Rewrite(t, u),
             UNCHANGED <<signal, engine, rows, listeners, asked, restarts, body, blame, contested>>
      PROVE  TypeOK'
  <2>1. \A g \in groups : (IF g.id = body[t].id THEN Assign(g, u) ELSE g) \in Group
    BY AssignType
  <2>2. groups' \subseteq Group
    BY <1>7, <2>1 DEF Rewrite
  <2> QED BY <1>7, <2>2 DEF Rewrite
<1>8. ASSUME WritePort(t) PROVE TypeOK'
  <2>1. <<"port", body[t].port>> \in Patch
    BY <1>8 DEF WritePort, Carries, Patch
  <2> QED BY <1>7, <1>8, <2>1 DEF WritePort
<1>9. ASSUME NEW u \in todo[t], WriteField(t, u) PROVE TypeOK'
  <2>1. u \in Patch
    OBVIOUS
  <2> QED BY <1>7, <1>9, <2>1 DEF WriteField
<1>10. ASSUME FinishUpdate(t) \/ DeleteRules(t) \/ LoadCertificates(t) PROVE TypeOK'
  BY <1>10 DEF FinishUpdate, DeleteRules, LoadCertificates
<1>11. ASSUME SaveWebPort(t) PROVE TypeOK'
  BY <1>11, AnswerType DEF SaveWebPort
<1>12. ASSUME Send(t) PROVE TypeOK'
  BY <1>12, AnswerType DEF Send
<1>13. ASSUME StatementFails(t) PROVE TypeOK'
  <2>1. blame' \subseteq {"unsent", "unread", "jostled"}
    BY <1>13 DEF StatementFails
  <2> QED BY <1>13, <2>1, AnswerType DEF StatementFails
<1> QED BY <1>1, <1>2, <1>3, <1>4, <1>5, <1>6, <1>8, <1>9, <1>10, <1>11, <1>12, <1>13
        DEF Proceed

LEMMA EngineType ==
    ASSUME TypeOK, Engine \/ ReloadFails \/ Restart \/ \E k \in listeners : Bind(k) \/ Drop(k)
    PROVE  TypeOK'
<1> USE DEF TypeOK, locals
<1>1. ASSUME Subscribe PROVE TypeOK'
  BY <1>1 DEF Subscribe
<1>2. ASSUME Changed PROVE TypeOK'
  <2>1. listeners' \subseteq Listener
    BY <1>2, ListenerType DEF Changed, Abort
  <2> QED BY <1>2, <2>1 DEF Changed
<1>3. ASSUME ReadGroups PROVE TypeOK'
  BY <1>3 DEF ReadGroups, Enabled
<1>4. ASSUME SpawnAll PROVE TypeOK'
  <2>1. listeners' \subseteq Listener
    BY <1>4, ListenerType DEF SpawnAll
  <2> QED BY <1>4, <2>1 DEF SpawnAll
<1>5. ASSUME ReloadFails PROVE TypeOK'
  BY <1>5 DEF ReloadFails
<1>6. ASSUME NEW k \in listeners, Bind(k) PROVE TypeOK'
  <2>1. listeners' \subseteq Listener
    BY <1>6, ListenerType DEF Bind, Become
  <2>2. blame' \subseteq {"unsent", "unread", "jostled"}
    BY <1>6 DEF Bind
  <2> QED BY <1>6, <2>1, <2>2 DEF Bind
<1>7. ASSUME NEW k \in listeners, Drop(k) PROVE TypeOK'
  BY <1>7 DEF Drop
<1>8. ASSUME Restart PROVE TypeOK'
  <2>1. NoBody \in BodyType
    BY DEF NoBody, BodyType
  <2>2. /\ pc' = [t \in Task |-> "idle"] /\ body' \in [Task -> BodyType]
        /\ todo' \in [Task -> SUBSET Patch] /\ wrote' \in [Task -> BOOLEAN]
    BY <1>8, <2>1 DEF Restart
  <2>3. restarts' \in 0..MaxRestarts
    BY <1>8, Bounds, Count DEF Restart
  <2> QED BY <1>8, <2>2, <2>3 DEF Restart
<1> QED BY <1>1, <1>2, <1>3, <1>4, <1>5, <1>6, <1>7, <1>8 DEF Engine

LEMMA NextType == TypeOK /\ Carries /\ [Next]_vars => TypeOK'
<1> SUFFICES ASSUME TypeOK, Carries, [Next]_vars PROVE TypeOK'
  OBVIOUS
<1>1. CASE UNCHANGED vars
  BY <1>1 DEF TypeOK, vars, locals
<1> QED BY <1>1, RequestsType, ProceedType, EngineType DEF Next

-----------------------------------------------------------------------------
(* The handlers                                                            *)

\* A step of one handler keeps what holds of the others; what it must show is about itself.
Handled(t) ==
    /\ pc[t] \in {"probe create", "probing create", "insert"} => body[t] \in Group
    /\ pc[t] \in {"conflict", "probe update", "probing update", "write port"} =>
            body[t].port \in Port
    /\ wrote[t] => /\ pc[t] \in {"patch", "rules", "load", "send"}
                   /\ pc[t] = "patch" => \A u \in todo[t] : u[1] # "port"

Others(t) ==
    \A s \in Task \ {t} : /\ pc'[s] = pc[s] /\ body'[s] = body[s]
                          /\ todo'[s] = todo[s] /\ wrote'[s] = wrote[s]

LEMMA HandledForAll == Carries /\ Committed <=> \A t \in Task : Handled(t)
BY DEF Carries, Committed, Handled

LEMMA OneHandler ==
    ASSUME Carries, Committed, NEW t \in Task, Handled(t)', Others(t)
    PROVE  Carries' /\ Committed'
BY DEF Carries, Committed, Handled, Others

\* An answer leaves the handler with nothing to show.
LEMMA AnswerHandled ==
    ASSUME TypeOK, NEW t \in Task, Answer(t)
    PROVE  Handled(t)' /\ Others(t) /\ ~wrote'[t]
BY DEF TypeOK, Answer, Goto, Handled, Others

\* WriteField takes the fields in order, so none that follows is the port.
LEMMA PortComesFirst ==
    ASSUME NEW fields \in SUBSET Patch, NEW u \in fields, u[1] # "port",
           \A w \in fields \ {u} : Before(u[1], w[1])
    PROVE  \A w \in fields : w[1] # "port"
<1>1. u[1] \in {"enabled", "skip", "force"}
  BY DEF Patch
<1>2. ~Before(u[1], "port")
  BY <1>1 DEF Before
<1> QED BY <1>2

LEMMA RequestsHandled ==
    ASSUME TypeOK, Carries, Committed, NEW t \in Task, Requests(t)
    PROVE  Carries' /\ Committed'
<1> SUFFICES Handled(t)' /\ Others(t)
  BY OneHandler
<1>0. pc[t] = "idle" => ~wrote[t]
  BY DEF Committed
<1> USE DEF TypeOK, Accept, Goto, Commit, Handled, Others
<1>1. ASSUME NEW g \in NewGroups, BeginCreate(t, g) PROVE Handled(t)' /\ Others(t)
  BY <1>0, <1>1, ConstantTypes DEF BeginCreate
<1>2. ASSUME NEW i \in GroupId, NEW fields \in PatchBodies, BeginUpdate(t, i, fields)
      PROVE  Handled(t)' /\ Others(t)
  BY <1>0, <1>2 DEF BeginUpdate
<1>3. ASSUME NEW i \in GroupId, DeleteGroup(t, i) PROVE Handled(t)' /\ Others(t)
  BY <1>3 DEF DeleteGroup
<1>4. ASSUME NEW gs \in Backups, Import(t, gs) PROVE Handled(t)' /\ Others(t)
  BY <1>4 DEF Import
<1>5. ASSUME NEW p \in Port, ProbeWebPort(t, p) PROVE Handled(t)' /\ Others(t)
  BY <1>0, <1>5 DEF ProbeWebPort
<1> QED BY <1>1, <1>2, <1>3, <1>4, <1>5 DEF Requests

LEMMA ProceedHandled ==
    ASSUME TypeOK, Carries, Committed, NEW t \in Task, Proceed(t) \/ StatementFails(t)
    PROVE  Carries' /\ Committed'
<1> SUFFICES Handled(t)' /\ Others(t)
  BY OneHandler
<1>0. Handled(t)
  BY HandledForAll
<1>a. CASE Answer(t)
  BY <1>a, AnswerHandled
<1>1. ASSUME ProbeOpens(t) PROVE Handled(t)' /\ Others(t)
  BY <1>0, <1>1 DEF ProbeOpens, TypeOK, Goto, Handled, Others
<1>2. ASSUME ProbeCloses(t) PROVE Handled(t)' /\ Others(t)
  BY <1>0, <1>2 DEF ProbeCloses, TypeOK, Goto, Handled, Others
<1>4. ASSUME InsertGroup(t) PROVE Handled(t)' /\ Others(t)
  BY <1>4 DEF InsertGroup, Commit, TypeOK, Goto, Handled, Others
<1>5. ASSUME NEW p \in Port, ReadPort(t, p), ~Answer(t) PROVE Handled(t)' /\ Others(t)
  <2>1. /\ body' = [body EXCEPT ![t] = [body[t] EXCEPT !.port = p]]
        /\ pc' \in {[pc EXCEPT ![t] = "write port"], [pc EXCEPT ![t] = "conflict"]}
        /\ pc[t] = "patch" /\ <<"port", p>> \in todo[t]
        /\ UNCHANGED <<todo, wrote>>
    BY <1>5 DEF ReadPort, Goto
  <2>2. body'[t].port = p
    <3>1. body'[t] = [body[t] EXCEPT !.port = p]
      BY <2>1 DEF TypeOK
    <3>2. CASE body[t] \in Group
      BY <3>1, <3>2 DEF Group, Row
    <3>3. CASE body[t] \in [id : GroupId \cup {""}, port : Port \cup {0}]
      BY <3>1, <3>3
    <3> QED BY <3>2, <3>3 DEF TypeOK, BodyType
  <2>3. ~wrote[t] /\ ~wrote'[t]
    <3>1. ~(\A u \in todo[t] : u[1] # "port")
      BY <2>1
    <3>2. ~wrote[t]
      BY <1>0, <2>1, <3>1 DEF Handled
    <3> QED BY <2>1, <3>2
  <2>4. pc'[t] \in {"write port", "conflict"}
    BY <2>1 DEF TypeOK
  <2>5. Handled(t)'
    BY <2>2, <2>3, <2>4 DEF Handled
  <2> QED BY <2>1, <2>5 DEF TypeOK, Others
<1>6. ASSUME CheckConflict(t), ~Answer(t) PROVE Handled(t)' /\ Others(t)
  BY <1>0, <1>6 DEF CheckConflict, TypeOK, Goto, Handled, Others
<1>8. ASSUME WritePort(t) PROVE Handled(t)' /\ Others(t)
  BY <1>8 DEF WritePort, Rewrite, Commit, TypeOK, Goto, Handled, Others
<1>9. ASSUME NEW u \in todo[t], WriteField(t, u) PROVE Handled(t)' /\ Others(t)
  <2>1. \A w \in todo[t] : w[1] # "port"
    BY <1>9, PortComesFirst DEF WriteField, TypeOK
  <2> QED BY <1>9, <2>1 DEF WriteField, Rewrite, Commit, TypeOK, Goto, Handled, Others
<1>10. ASSUME FinishUpdate(t) \/ DeleteRules(t) \/ LoadCertificates(t) PROVE Handled(t)' /\ Others(t)
  BY <1>10 DEF FinishUpdate, DeleteRules, LoadCertificates, TypeOK, Goto, Handled, Others
<1> QED BY <1>a, <1>1, <1>2, <1>4, <1>5, <1>6, <1>8, <1>9, <1>10
        DEF Proceed, ProbeRefused, SaveWebPort, Send, StatementFails

-----------------------------------------------------------------------------
(* The engine                                                              *)

\* The request or the step of a handler that changes the table leaves a debt; one that
\* pays it sends.
LEMMA HandlerCurrent ==
    ASSUME TypeOK, Carries, Committed, Current,
           NEW t \in Task, Requests(t) \/ Proceed(t) \/ StatementFails(t)
    PROVE  Current'
<1>1. UNCHANGED <<engine, rows, listeners>>
  BY DEF Requests, Proceed, StatementFails, BeginCreate, BeginUpdate, DeleteGroup, Import,
         ProbeWebPort, ProbeOpens, ProbeCloses, ProbeRefused, InsertGroup, ReadPort,
         CheckConflict, WritePort, WriteField, FinishUpdate, DeleteRules, LoadCertificates, SaveWebPort, Send
<1>2. ASSUME wrote'[t] PROVE Current'
  BY <1>1, <1>2 DEF Current, Fresh, Live
<1>3. CASE Send(t)
  BY <1>1, <1>3 DEF Current, Fresh, Live, Send
<1>4. CASE StatementFails(t)
  <2>1. CASE wrote[t]
    BY <1>1, <1>4, <2>1 DEF Current, Fresh, Live, StatementFails
  <2>2. CASE ~wrote[t]
    <3>1. Fresh' => Fresh
      BY <1>4, <2>2 DEF Fresh, StatementFails, Answer, TypeOK
    <3> QED BY <1>1, <1>4, <3>1 DEF Current, Live, Running, StatementFails
  <2> QED BY <2>1, <2>2
<1>5. CASE ~wrote'[t] /\ ~Send(t) /\ ~StatementFails(t)
  <2>1. UNCHANGED <<groups, signal, blame>>
    BY <1>5 DEF Requests, Proceed, BeginCreate, BeginUpdate, DeleteGroup, Import,
         ProbeWebPort, ProbeOpens, ProbeCloses, ProbeRefused, InsertGroup, ReadPort,
         CheckConflict, WritePort, WriteField, FinishUpdate, DeleteRules, LoadCertificates, SaveWebPort,
         Commit, Rewrite, TypeOK
  <2>2. ~wrote[t] \/ UNCHANGED wrote
    BY <1>5 DEF Requests, Proceed, BeginCreate, BeginUpdate, DeleteGroup, Import,
         ProbeWebPort, ProbeOpens, ProbeCloses, ProbeRefused, InsertGroup, ReadPort,
         CheckConflict, WritePort, WriteField, FinishUpdate, DeleteRules, LoadCertificates, SaveWebPort,
         Commit, Rewrite, TypeOK, Committed
  <2>3. Others(t)
    BY <1>5, AnswerHandled DEF Requests, Proceed, BeginCreate, BeginUpdate, DeleteGroup, Import,
         ProbeWebPort, ProbeOpens, ProbeCloses, ProbeRefused, InsertGroup, ReadPort,
         CheckConflict, WritePort, WriteField, FinishUpdate, DeleteRules, LoadCertificates, SaveWebPort,
         Commit, Rewrite, Goto, TypeOK, Others
  <2>4. Fresh' => Fresh
    BY <2>1, <2>2, <2>3 DEF Fresh, Others
  <2> QED BY <1>1, <2>1, <2>4 DEF Current, Live, Running
<1> QED BY <1>2, <1>3, <1>4, <1>5

\* Binding and dropping change no live task's group.
LEMMA TasksCurrent ==
    ASSUME Current, NEW k \in listeners, Bind(k) \/ Drop(k)
    PROVE  Current' /\ Running' = Running
<1>1. UNCHANGED <<groups, signal, engine, rows, wrote>>
  BY DEF Bind, Drop, locals
<1>2. Running' = Running /\ (Live = {} => Live' = {})
  <2>1. CASE Drop(k)
    BY <2>1 DEF Drop, Live, Running
  <2>2. ASSUME NEW st, Become(k, st) PROVE Running' = Running /\ (Live = {} => Live' = {})
    <3>1. [k EXCEPT !.st = st].aborted = k.aborted /\ [k EXCEPT !.st = st].group = k.group
      OBVIOUS
    <3> QED BY <2>2, <3>1 DEF Become, Live, Running
  <2> QED BY <2>1, <2>2 DEF Bind
<1>3. Fresh' => Fresh
  BY <1>1 DEF Fresh, Bind, Drop
<1> QED BY <1>1, <1>2, <1>3 DEF Current

\* What runs after a spawn is what was read.
LEMMA SpawnsRows ==
    ASSUME Current, SpawnAll
    PROVE  Running = {} /\ Running' = rows
<1>1. \A g \in rows : Spawn(g).group = g /\ ~Spawn(g).aborted
  BY DEF Spawn
<1>2. Live = {}
  BY DEF SpawnAll, Current
<1>3. Live' = {Spawn(g) : g \in rows}
  <2>1. \A k \in listeners : k.aborted
    BY <1>2 DEF Live
  <2>2. listeners' = listeners \cup {Spawn(g) : g \in rows}
    BY DEF SpawnAll
  <2> QED BY <1>1, <2>1, <2>2 DEF Live
<1> QED BY <1>1, <1>2, <1>3 DEF Running

\* The engine aborts all, reads what is enabled and starts what it read.
LEMMA EngineCurrent ==
    ASSUME TypeOK, Current, Engine \/ ReloadFails \/ Restart
    PROVE  Current'
<1>1. CASE Subscribe
  BY <1>1 DEF Subscribe, Current, Live
<1>2. CASE Changed
  <2>1. \A k \in listeners : [k EXCEPT !.aborted = TRUE].aborted
    BY DEF TypeOK, Listener
  <2>2. Live' = {}
    BY <1>2, <2>1 DEF Changed, Abort, Live
  <2> QED BY <1>2, <2>2 DEF Changed, Current
<1>3. CASE ReadGroups
  BY <1>3 DEF ReadGroups, Current, Live
<1>4. CASE SpawnAll
  <2>3. Fresh' => Fresh
    BY <1>4 DEF SpawnAll, Fresh, locals
  <2> QED BY <1>4, <2>3, SpawnsRows DEF SpawnAll, Current
<1>5. CASE ReloadFails
  BY <1>5 DEF ReloadFails, Current, Fresh
<1>6. CASE Restart
  BY <1>6 DEF Restart, Current, Live
<1> QED BY <1>1, <1>2, <1>3, <1>4, <1>5, <1>6 DEF Engine

-----------------------------------------------------------------------------
(* Ports                                                                   *)

\* Handlers keep out of each other's variables.
LEMMA OthersKept ==
    ASSUME TypeOK, NEW t \in Task, Requests(t) \/ Proceed(t) \/ StatementFails(t)
    PROVE  Others(t)
<1>1. CASE Answer(t)
  BY <1>1, AnswerHandled
<1>2. CASE ~Answer(t)
  BY <1>2 DEF Requests, Proceed, StatementFails, BeginCreate, BeginUpdate, DeleteGroup, Import,
       ProbeWebPort, ProbeOpens, ProbeCloses, ProbeRefused, InsertGroup, ReadPort, CheckConflict,
       WritePort, WriteField, FinishUpdate, DeleteRules, LoadCertificates, SaveWebPort, Send, Commit, Rewrite, Goto,
       TypeOK, Others
<1> QED BY <1>1, <1>2

\* Fewer claims leave fewer doubts.
LEMMA FewerDoubts ==
    ASSUME NEW claims, NEW fewer \in SUBSET claims
    PROVE  Doubtful(fewer) \subseteq Doubtful(claims)
BY DEF Doubtful

\* Where the claims come from after a step of one handler.
LEMMA ClaimsAfter ==
    ASSUME NEW t \in Task, Others(t)
    PROVE  \A c \in Claims' : \/ \E g \in groups' : c = <<g.id, g.port>>
                              \/ \E s \in Checked \ {t} : c = <<body[s].id, body[s].port>>
                              \/ t \in Checked' /\ c = <<body'[t].id, body'[t].port>>
<1>1. \A s \in Checked' : s = t \/ (s \in Checked \ {t} /\ body'[s] = body[s])
  BY DEF Checked, Creating, Others
<1> SUFFICES ASSUME NEW c \in Claims', \A g \in groups' : c # <<g.id, g.port>>
             PROVE  \/ \E s \in Checked \ {t} : c = <<body[s].id, body[s].port>>
                    \/ t \in Checked' /\ c = <<body'[t].id, body'[t].port>>
  OBVIOUS
<1>2. PICK s \in Checked' : c = <<body'[s].id, body'[s].port>>
  BY DEF Claims
<1> QED BY <1>1, <1>2

\* Ids stay those of one row, and new ones new: what a step must show for it.
LEMMA KeyedFollows ==
    ASSUME Keyed, NEW t \in Task, Others(t),
           \A g, h \in groups' : g.id = h.id => g = h,
           \A g \in groups', s \in Creating \ {t} : (\E h \in groups : h.id = g.id) \/ g.id # body[s].id,
           \A s \in Creating \ {t} : body'[t].id # body[s].id,
           t \in Creating' => /\ \A g \in groups' : g.id # body'[t].id
                              /\ \A s \in Task \ {t} : body[s].id # body'[t].id
    PROVE  Keyed'
<1>1. \A s \in Creating' : s = t \/ s \in Creating
  BY DEF Creating, Others
<1>2. ASSUME NEW s \in Creating', s # t
      PROVE  /\ \A g \in groups' : g.id # body'[s].id
             /\ \A r \in Task \ {s} : body'[r].id # body'[s].id
  <2>1. s \in Creating /\ s \in Task /\ body'[s] = body[s]
    BY <1>1, <1>2 DEF Creating, Others
  <2>2. \A g \in groups : g.id # body[s].id
    BY <2>1 DEF Keyed
  <2>3. \A g \in groups' : g.id # body[s].id
    BY <1>2, <2>1, <2>2
  <2>4. ASSUME NEW r \in Task \ {s} PROVE body'[r].id # body[s].id
    BY <1>2, <2>1 DEF Keyed, Others
  <2> QED BY <2>1, <2>3, <2>4
<1>3. ASSUME t \in Creating'
      PROVE  /\ \A g \in groups' : g.id # body'[t].id
             /\ \A r \in Task \ {t} : body'[r].id # body'[t].id
  BY <1>3 DEF Others
<1> QED BY <1>2, <1>3 DEF Keyed

\* A handler that is past the request keeps its id, or has none.
LEMMA SameIds ==
    ASSUME TypeOK, Carries, Keyed, NEW t \in Task, Others(t), UNCHANGED groups,
           body'[t].id = body[t].id \/ body'[t].id = "",
           t \in Creating' => t \in Creating /\ body'[t].id = body[t].id
    PROVE  Keyed'
<1>1. \A s \in Creating : body[s].id # ""
  <2>1. \A g \in Group : g.id # ""
    BY ListenersAssumption DEF Group, Row
  <2> QED BY <2>1 DEF Creating, Carries
<1>2. \A s \in Creating \ {t} : body'[t].id # body[s].id
  BY <1>1 DEF Keyed, Creating
<1> QED BY <1>2, KeyedFollows DEF Keyed

\* A claim less, or none: nothing to show but the ids.
LEMMA ExplainedFollows ==
    ASSUME Explained, NEW t \in Task, Others(t), Keyed',
           pc'[t] = "conflict" => ValidPort(body'[t].port),
           Claims' \subseteq Claims, contested \subseteq contested'
    PROVE  Explained'
<1>1. Doubtful(Claims') \subseteq contested'
  BY FewerDoubts DEF Explained
<1> QED BY <1>1 DEF Explained, Others

\* The claims of a handler that answers, moves on, or writes what it had claimed.
LEMMA SameClaims ==
    ASSUME NEW t \in Task, Others(t),
           \A g \in groups' : <<g.id, g.port>> \in Claims,
           t \in Checked' => <<body'[t].id, body'[t].port>> \in Claims
    PROVE  Claims' \subseteq Claims
BY ClaimsAfter DEF Claims

LEMMA AnswerExplained ==
    ASSUME IInv, NEW t \in Task, Answer(t), UNCHANGED <<groups, contested>>
    PROVE  Explained'
<1>1. pc'[t] = "idle" /\ body'[t] = NoBody /\ Others(t)
  <2>1. Others(t)
    BY AnswerHandled DEF IInv
  <2> QED BY <2>1 DEF Answer, Goto, IInv, TypeOK
<1>2. body'[t].id = "" /\ t \notin Checked' /\ t \notin Creating'
  <2>1. NoBody.id = ""
    BY DEF NoBody
  <2> QED BY <1>1, <2>1 DEF Checked, Creating
<1>3. Keyed'
  BY <1>1, <1>2, SameIds DEF IInv, Explained
<1>4. Claims' \subseteq Claims
  BY <1>1, <1>2, SameClaims DEF Claims
<1> QED BY <1>1, <1>3, <1>4, ExplainedFollows DEF IInv

\* A check that port p passes for handler t, which will then write it for id i.
LEMMA CheckExplained ==
    ASSUME IInv, NEW t \in Task \ Checked, Others(t), UNCHANGED groups,
           NEW i, NEW p, ValidPort(p), Race(t, p),
           \A g \in groups : g.id # i => g.port # p,
           body'[t].id = i /\ body'[t].port = p
    PROVE  Doubtful(Claims') \subseteq contested'
<1>1. Claims' \subseteq Claims \cup {<<i, p>>}
  BY ClaimsAfter DEF Claims
<1>2. Doubtful(Claims) \subseteq contested'
  BY DEF IInv, Explained, Race
<1>3. (\E c \in Claims : c[1] # i /\ c[2] = p) => p \in contested'
  <2> SUFFICES ASSUME NEW c \in Claims, c[1] # i, c[2] = p PROVE p \in contested'
    OBVIOUS
  <2>1. PICK s \in Checked : c = <<body[s].id, body[s].port>>
    <3>1. ~\E g \in groups : c = <<g.id, g.port>>
      OBVIOUS
    <3> QED BY <3>1 DEF Claims
  <2>2. s \in Checked \ {t} /\ body[s].port = p
    BY <2>1
  <2> QED BY <2>2 DEF Race
<1> SUFFICES ASSUME NEW c \in Claims', ~ValidPort(c[2]) \/ \E e \in Claims' : e[1] # c[1] /\ e[2] = c[2]
             PROVE  c[2] \in contested'
  BY DEF Doubtful
<1>4. \A d \in Claims' : d \in Claims \/ (d[1] = i /\ d[2] = p)
  BY <1>1
<1>5. \A d \in Claims : ~ValidPort(d[2]) \/ (\E e \in Claims : e[1] # d[1] /\ e[2] = d[2]) =>
          d[2] \in contested'
  BY <1>2 DEF Doubtful
<1>6. CASE ~ValidPort(c[2])
  BY <1>4, <1>5, <1>6
<1>7. CASE \E e \in Claims' : e[1] # c[1] /\ e[2] = c[2]
  <2>1. PICK e \in Claims' : e[1] # c[1] /\ e[2] = c[2]
    BY <1>7
  <2>2. CASE c \in Claims /\ e \in Claims
    BY <1>5, <2>1, <2>2
  <2>3. CASE c[1] = i /\ c[2] = p /\ e \in Claims
    BY <1>3, <2>1, <2>3
  <2>4. CASE e[1] = i /\ e[2] = p /\ c \in Claims
    BY <1>3, <2>1, <2>4
  <2> QED BY <1>4, <2>1, <2>2, <2>3, <2>4
<1> QED BY <1>6, <1>7

LEMMA RequestsExplained ==
    ASSUME IInv, NEW t \in Task, Requests(t)
    PROVE  Explained'
<1>1. Others(t) /\ TypeOK /\ Carries /\ Keyed /\ Explained
  BY OthersKept DEF IInv, Explained
<1>2. pc[t] = "idle" /\ t \notin Checked /\ t \notin Creating
  <2>1. pc[t] = "idle"
    BY DEF Requests, BeginCreate, BeginUpdate, DeleteGroup, Import, ProbeWebPort, Accept
  <2> QED BY <2>1 DEF Checked, Creating
<1>3. ASSUME NEW g \in NewGroups, BeginCreate(t, g) PROVE Explained'
  <2>1. body'[t] = g /\ pc'[t] = "probe create" /\ UNCHANGED groups
    BY <1>3 DEF BeginCreate, Goto, IInv, TypeOK
  <2>2. Keyed'
    BY <1>1, <1>2, <1>3, <2>1, KeyedFollows DEF BeginCreate, NewId, Keyed, Creating
  <2>3. Doubtful(Claims') \subseteq contested'
    BY <1>1, <1>2, <1>3, <2>1, CheckExplained DEF BeginCreate
  <2> QED BY <1>1, <2>1, <2>2, <2>3 DEF Explained, Others
<1>4. ASSUME NEW i \in GroupId, NEW fields \in PatchBodies, BeginUpdate(t, i, fields) PROVE Explained'
  <2>1. body'[t] = [id |-> i, port |-> 0] /\ pc'[t] = "patch" /\ UNCHANGED <<groups, contested>>
        /\ \E g \in groups : g.id = i
    BY <1>4 DEF BeginUpdate, Goto, IInv, TypeOK
  <2>2. body'[t].id = i /\ t \notin Checked' /\ t \notin Creating'
    <3>1. [id |-> i, port |-> 0].id = i
      OBVIOUS
    <3> QED BY <2>1, <3>1 DEF Checked, Creating
  <2>3. Keyed'
    BY <1>1, <2>1, <2>2, KeyedFollows DEF Keyed
  <2>4. Claims' \subseteq Claims
    BY <1>1, <2>1, <2>2, SameClaims DEF Claims
  <2> QED BY <1>1, <2>1, <2>3, <2>4, ExplainedFollows
<1>5. ASSUME NEW i \in GroupId, DeleteGroup(t, i) PROVE Explained'
  <2>1. groups' \subseteq groups /\ pc'[t] = "rules" /\ body' = body /\ contested' = contested
    BY <1>5 DEF DeleteGroup, Commit, Goto, IInv, TypeOK
  <2>2. t \notin Checked' /\ t \notin Creating'
    BY <2>1 DEF Checked, Creating
  <2>3. Keyed'
    BY <1>1, <2>1, <2>2, KeyedFollows DEF Keyed, Creating
  <2>4. Claims' \subseteq Claims
    BY <1>1, <2>1, <2>2, SameClaims DEF Claims
  <2> QED BY <1>1, <2>1, <2>3, <2>4, ExplainedFollows
<1>6. ASSUME NEW gs \in Backups, Import(t, gs) PROVE Explained'
  <2> DEFINE kept == {g \in gs : g.id # ""}
  <2>1. /\ groups' = {g \in groups : \A h \in kept : h.id # g.id} \cup kept
        /\ pc'[t] = "load" /\ body' = body /\ Doubtful(Claims') \subseteq contested'
        /\ \A g \in kept, s \in Creating : g.id # body[s].id
    BY <1>6 DEF Import, Commit, Goto, IInv, TypeOK
  <2>2. t \notin Creating'
    BY <2>1 DEF Creating
  <2>3. \A g, h \in kept : g.id = h.id => g = h
    BY ListenersAssumption
  <2> HIDE DEF kept
  <2>4. \A g, h \in groups' : g.id = h.id => g = h
    BY <1>1, <2>1, <2>3 DEF Keyed
  <2>5. \A s \in Creating \ {t} : body'[t].id # body[s].id
    BY <1>1, <2>1 DEF Keyed, Creating
  <2>6. \A g \in groups', s \in Creating \ {t} : (\E h \in groups : h.id = g.id) \/ g.id # body[s].id
    BY <2>1
  <2>7. Keyed'
    BY <1>1, <2>2, <2>4, <2>5, <2>6, KeyedFollows
  <2> QED BY <1>1, <2>1, <2>7 DEF Explained, Others
<1>7. ASSUME NEW p \in Port, ProbeWebPort(t, p) PROVE Explained'
  <2>1. body'[t] = [NoBody EXCEPT !.port = p] /\ pc'[t] = "probing settings" /\ UNCHANGED <<groups, contested>>
    BY <1>7 DEF ProbeWebPort, Goto, IInv, TypeOK
  <2>2. body'[t].id = "" /\ t \notin Checked' /\ t \notin Creating'
    BY <2>1 DEF NoBody, Checked, Creating
  <2>3. Keyed'
    BY <1>1, <2>1, <2>2, SameIds
  <2>4. Claims' \subseteq Claims
    BY <1>1, <2>1, <2>2, SameClaims DEF Claims
  <2> QED BY <1>1, <2>1, <2>3, <2>4, ExplainedFollows
<1> QED BY <1>3, <1>4, <1>5, <1>6, <1>7 DEF Requests

\* One UPDATE changes no id, and the port only if it writes it.
LEMMA AssignKeeps ==
    ASSUME NEW g \in Group, NEW u \in Patch
    PROVE  /\ Assign(g, u).id = g.id
           /\ Assign(g, u).port = IF u[1] = "port" THEN u[2] ELSE g.port
<1>1. u[1] \in {"port", "enabled", "skip", "force"}
  BY DEF Patch
<1>2. CASE u[1] = "port"
  BY <1>2 DEF Assign, Group, Row
<1>3. CASE u[1] = "enabled"
  BY <1>3 DEF Assign, Group, Row
<1>4. CASE u[1] = "skip"
  BY <1>4 DEF Assign, Group, Row
<1>5. CASE u[1] = "force"
  BY <1>5 DEF Assign, Group, Row
<1> QED BY <1>1, <1>2, <1>3, <1>4, <1>5

LEMMA RewriteExplained ==
    ASSUME IInv, NEW t \in Task, Others(t), NEW u \in Patch, Rewrite(t, u), UNCHANGED <<body, contested>>,
           u[1] = "port" => t \in Checked /\ u[2] = body[t].port
    PROVE  Explained'
<1>1. TypeOK /\ Carries /\ Keyed /\ Explained /\ groups \subseteq Group
  BY DEF IInv, Explained, TypeOK
<1>2. pc'[t] = "patch" /\ t \notin Checked' /\ t \notin Creating'
  <2>1. pc'[t] = "patch"
    BY <1>1 DEF Rewrite, Goto, TypeOK
  <2> QED BY <2>1 DEF Checked, Creating
<1>3. groups' = {IF g.id = body[t].id THEN Assign(g, u) ELSE g : g \in groups}
  BY DEF Rewrite, Commit
<1>4. ASSUME NEW g \in groups'
      PROVE  \E h \in groups : /\ g.id = h.id
                               /\ g = IF h.id = body[t].id THEN Assign(h, u) ELSE h
  <2>1. PICK h \in groups : g = IF h.id = body[t].id THEN Assign(h, u) ELSE h
    BY <1>3
  <2>2. g.id = h.id
    BY <1>1, <2>1, AssignKeeps
  <2> QED BY <2>1, <2>2
<1>5. Keyed'
  <2>1. \A g, h \in groups' : g.id = h.id => g = h
    BY <1>1, <1>4 DEF Keyed
  <2>2. \A s \in Creating \ {t} : body'[t].id # body[s].id
    BY <1>1 DEF Keyed, Creating
  <2> QED BY <1>1, <1>2, <1>4, <2>1, <2>2, KeyedFollows
<1>6. ASSUME NEW g \in groups' PROVE <<g.id, g.port>> \in Claims
  <2>1. PICK h \in groups : g.id = h.id /\ g = IF h.id = body[t].id THEN Assign(h, u) ELSE h
    BY <1>4
  <2>2. CASE g.port = h.port
    BY <2>1, <2>2 DEF Claims
  <2>3. CASE g.port # h.port
    <3>1. h.id = body[t].id /\ u[1] = "port" /\ g.port = body[t].port
      BY <1>1, <2>1, <2>3, AssignKeeps
    <3> QED BY <2>1, <3>1 DEF Claims
  <2> QED BY <2>2, <2>3
<1> QED BY <1>1, <1>2, <1>5, <1>6, SameClaims, ExplainedFollows

LEMMA ProceedExplained ==
    ASSUME IInv, NEW t \in Task, Proceed(t) \/ StatementFails(t)
    PROVE  Explained'
<1>1. Others(t) /\ TypeOK /\ Carries /\ Keyed /\ Explained
  BY OthersKept DEF IInv, Explained
<1>2. CASE ProbeRefused(t) \/ SaveWebPort(t) \/ Send(t) \/ StatementFails(t)
  BY <1>2, AnswerExplained DEF ProbeRefused, SaveWebPort, Send, StatementFails
<1>3. CASE ProbeOpens(t) \/ ProbeCloses(t)
  <2>1. UNCHANGED <<groups, body, contested>> /\ (t \in Creating' => t \in Creating) /\ pc'[t] # "conflict"
        /\ t \in Checked
    BY <1>1, <1>3 DEF ProbeOpens, ProbeCloses, Goto, TypeOK, Creating, Checked
  <2>2. Keyed'
    BY <1>1, <2>1, SameIds
  <2>3. Claims' \subseteq Claims
    BY <1>1, <2>1, SameClaims DEF Claims
  <2> QED BY <1>1, <2>1, <2>2, <2>3, ExplainedFollows
<1>4. CASE InsertGroup(t)
  <2>1. groups' = groups \cup {body[t]} /\ UNCHANGED <<body, contested>> /\ pc'[t] = "send"
        /\ t \in Creating /\ t \in Checked
    BY <1>1, <1>4 DEF InsertGroup, Commit, Goto, TypeOK, Creating, Checked
  <2>2. t \notin Creating' /\ t \notin Checked'
    BY <2>1 DEF Creating, Checked
  <2>3. Keyed'
    <3>1. \A g, h \in groups' : g.id = h.id => g = h
      BY <1>1, <2>1 DEF Keyed
    <3>2. \A s \in Creating \ {t} : body[t].id # body[s].id
      BY <1>1, <2>1 DEF Keyed, Creating
    <3> QED BY <1>1, <2>1, <2>2, <3>1, <3>2, KeyedFollows
  <2>4. Claims' \subseteq Claims
    BY <1>1, <2>1, <2>2, SameClaims DEF Claims
  <2> QED BY <1>1, <2>1, <2>3, <2>4, ExplainedFollows
<1>5. ASSUME NEW p \in Port, ReadPort(t, p), ~Answer(t) PROVE Explained'
  <2>1. /\ body' = [body EXCEPT ![t] = [body[t] EXCEPT !.port = p]] /\ UNCHANGED <<groups, contested>>
        /\ ValidPort(p) /\ pc[t] = "patch"
        /\ \/ pc' = [pc EXCEPT ![t] = "conflict"]
           \/ pc' = [pc EXCEPT ![t] = "write port"] /\ \E g \in groups : g.id = body[t].id /\ g.port = p
    BY <1>5 DEF ReadPort, Goto
  <2>2. body'[t].id = body[t].id /\ body'[t].port = p
    <3>1. body'[t] = [body[t] EXCEPT !.port = p]
      BY <1>1, <2>1 DEF TypeOK
    <3>2. CASE body[t] \in Group
      BY <3>1, <3>2 DEF Group, Row
    <3>3. CASE body[t] \in [id : GroupId \cup {""}, port : Port \cup {0}]
      BY <3>1, <3>3
    <3> QED BY <1>1, <3>2, <3>3 DEF TypeOK, BodyType
  <2>3. pc'[t] \in {"conflict", "write port"} /\ t \notin Creating'
    BY <1>1, <2>1 DEF TypeOK, Creating
  <2>4. t \in Checked' => \E g \in groups : g.id = body[t].id /\ g.port = p
    BY <1>1, <2>1 DEF TypeOK, Checked, Creating
  <2>5. Keyed'
    BY <1>1, <2>1, <2>2, <2>3, SameIds
  <2>6. t \in Checked' => <<body'[t].id, body'[t].port>> \in Claims
    BY <2>2, <2>4 DEF Claims
  <2>7. Claims' \subseteq Claims
    BY <1>1, <2>1, <2>6, SameClaims DEF Claims
  <2> QED BY <1>1, <2>1, <2>2, <2>5, <2>7, ExplainedFollows
<1>6. CASE CheckConflict(t)
  <2>1. CASE Answer(t) /\ UNCHANGED contested
    BY <1>6, <2>1, AnswerExplained DEF CheckConflict
  <2>2. CASE ~(Answer(t) /\ UNCHANGED contested)
    <3>1. /\ pc' = [pc EXCEPT ![t] = "probe update"] /\ UNCHANGED <<groups, body>> /\ Race(t, body[t].port)
          /\ pc[t] = "conflict" /\ \A g \in groups : g.id # body[t].id => g.port # body[t].port
      BY <1>6, <2>2 DEF CheckConflict, Goto
    <3>2. t \notin Checked /\ t \notin Creating' /\ pc'[t] = "probe update"
      BY <1>1, <3>1 DEF TypeOK, Checked, Creating
    <3>3. ValidPort(body[t].port)
      BY <1>1, <3>1 DEF Explained
    <3>4. Keyed'
      BY <1>1, <3>1, <3>2, SameIds
    <3>5. Doubtful(Claims') \subseteq contested'
      <4>1. body'[t].id = body[t].id /\ body'[t].port = body[t].port /\ t \in Task \ Checked
        BY <3>1, <3>2
      <4> QED BY <1>1, <3>1, <3>3, <4>1, CheckExplained
    <3> QED BY <1>1, <3>1, <3>2, <3>4, <3>5 DEF Explained, Others
  <2> QED BY <2>1, <2>2
<1>7. CASE WritePort(t)
  <2>1. <<"port", body[t].port>> \in Patch /\ t \in Checked
    BY <1>1, <1>7 DEF WritePort, Carries, Patch, Checked
  <2> QED BY <1>1, <1>7, <2>1, RewriteExplained DEF WritePort
<1>8. ASSUME NEW u \in todo[t], WriteField(t, u) PROVE Explained'
  <2>1. u \in Patch
    BY <1>1 DEF TypeOK
  <2> QED BY <1>1, <1>8, <2>1, RewriteExplained DEF WriteField
<1>9. CASE FinishUpdate(t) \/ DeleteRules(t) \/ LoadCertificates(t)
  <2>1. UNCHANGED <<groups, body, contested>> /\ pc'[t] = "send"
    BY <1>1, <1>9 DEF FinishUpdate, DeleteRules, LoadCertificates, Goto, TypeOK
  <2>2. t \notin Creating' /\ t \notin Checked'
    BY <2>1 DEF Creating, Checked
  <2>3. Keyed'
    BY <1>1, <2>1, <2>2, SameIds
  <2>4. Claims' \subseteq Claims
    BY <1>1, <2>1, <2>2, SameClaims DEF Claims
  <2> QED BY <1>1, <2>1, <2>3, <2>4, ExplainedFollows
<1>10. ASSUME NEW p \in Port, ReadPort(t, p), Answer(t) PROVE Explained'
  BY <1>10, AnswerExplained DEF ReadPort
<1> QED BY <1>2, <1>3, <1>4, <1>5, <1>6, <1>7, <1>8, <1>9, <1>10 DEF Proceed

-----------------------------------------------------------------------------
(* The inductive invariant and what follows from it                        *)

LEMMA Initially == Init => IInv
<1> SUFFICES ASSUME Init PROVE IInv
  OBVIOUS
<1>1. Carries /\ Committed
  BY DEF Init, Carries, Committed
<1>2. Current
  BY DEF Init, Current, Live
<1>3. Checked = {} /\ Creating = {} /\ Keyed
  BY ListenersAssumption DEF Init, Checked, Creating, Keyed
<1>4. Explained
  BY <1>3 DEF Init, Explained
<1> QED BY <1>1, <1>2, <1>4, InitType DEF IInv

LEMMA Inductive == IInv /\ [Next]_vars => IInv'
<1> SUFFICES ASSUME IInv, [Next]_vars PROVE IInv'
  OBVIOUS
<1> USE DEF IInv
<1>1. TypeOK'
  BY NextType
<1>2. Carries' /\ Committed'
  <2>1. CASE UNCHANGED locals
    BY <2>1 DEF locals, Carries, Committed
  <2>2. CASE Restart
    BY <2>2 DEF Restart, Carries, Committed
  <2>3. Engine \/ ReloadFails \/ (\E k \in listeners : Bind(k) \/ Drop(k)) \/ UNCHANGED vars
            => UNCHANGED locals
    BY DEF Engine, Subscribe, Changed, ReadGroups, SpawnAll, ReloadFails, Bind, Drop, vars
  <2> QED BY <2>1, <2>2, <2>3, RequestsHandled, ProceedHandled DEF Next
<1>3. Current'
  <2>1. CASE UNCHANGED vars
    BY <2>1 DEF vars, locals, Current, Fresh, Live, Running
  <2> QED BY <2>1, HandlerCurrent, TasksCurrent, EngineCurrent DEF Next
<1>4. Explained'
  <2>1. CASE Engine \/ ReloadFails \/ (\E k \in listeners : Bind(k) \/ Drop(k)) \/ UNCHANGED vars
    <3>1. UNCHANGED <<groups, pc, body, contested>>
      BY <2>1 DEF Engine, Subscribe, Changed, ReadGroups, SpawnAll, ReloadFails, Bind, Drop, vars, locals
    <3>2. Creating' = Creating /\ Checked' = Checked
      BY <3>1 DEF Checked, Creating
    <3>3. Claims' = Claims /\ Keyed'
      BY <3>1, <3>2 DEF Claims, Keyed, Explained
    <3> QED BY <3>1, <3>3 DEF Explained
  <2>2. CASE Restart
    <3>1. pc' = [t \in Task |-> "idle"] /\ UNCHANGED <<groups, contested>>
      BY <2>2 DEF Restart
    <3>2. Checked' = {} /\ Creating' = {}
      BY <3>1 DEF Checked, Creating
    <3>3. Claims' \subseteq Claims
      BY <3>1, <3>2 DEF Claims
    <3>4. Doubtful(Claims') \subseteq contested'
      BY <3>1, <3>3, FewerDoubts DEF Explained
    <3> QED BY <3>1, <3>2, <3>4 DEF Explained, Keyed
  <2> QED BY <2>1, <2>2, RequestsExplained, ProceedExplained DEF Next
<1> QED BY <1>1, <1>2, <1>3, <1>4

\* Every value keeps its type, for any constants that meet the assumption.
THEOREM TypeCorrect == Spec => []TypeOK
<1>1. IInv => TypeOK
  BY DEF IInv
<1> QED BY Initially, Inductive, <1>1, PTL DEF Spec

\* The channel loses nothing, for any number of handlers and groups: an engine that
\* waits with nothing pending runs exactly what the table enables, unless a handler failed
\* or was dropped between its change and its send, or the engine's read failed
\* (proxy.rs:367-464, port_groups.rs:107-227, settings.rs:533-539).
THEOREM ReloadsNotLost == Spec => []NoLostReload
<1>1. IInv => NoLostReload
  BY DEF IInv, Current, Fresh, Running, NoLostReload
<1> QED BY Initially, Inductive, <1>1, PTL DEF Spec

-----------------------------------------------------------------------------
(* Refusals                                                                *)

\* A step of a handler leaves the places of the others alone.
LEMMA OthersStay ==
    ASSUME TypeOK, NEW s \in Task, Requests(s) \/ Proceed(s) \/ StatementFails(s), NEW t \in Task \ {s}
    PROVE  pc'[t] = pc[t]
<1> USE DEF TypeOK, Goto, Answer, Accept
<1>1. ASSUME Requests(s) PROVE pc'[t] = pc[t]
  BY <1>1 DEF Requests, BeginCreate, BeginUpdate, DeleteGroup, Import, ProbeWebPort
<1>2. ASSUME Proceed(s) PROVE pc'[t] = pc[t]
  BY <1>2 DEF Proceed, ProbeOpens, ProbeCloses, ProbeRefused, InsertGroup, ReadPort, CheckConflict,
         WritePort, WriteField, Rewrite, FinishUpdate, DeleteRules, LoadCertificates, SaveWebPort, Send
<1>3. ASSUME StatementFails(s) PROVE pc'[t] = pc[t]
  BY <1>3 DEF StatementFails
<1> QED BY <1>1, <1>2, <1>3

\* A handler ends after a write only by the send or by a failure that is recorded.
LEMMA WriterEnds ==
    ASSUME IInv, NEW t \in Task, wrote[t], pc'[t] = "idle",
           NEW s \in Task, Requests(s) \/ Proceed(s) \/ StatementFails(s)
    PROVE  signal' \/ "unsent" \in blame'
<1> USE DEF IInv, TypeOK
<1>0. pc[t] \in {"patch", "rules", "load", "send"}
  BY DEF Committed
<1>1. CASE s # t
  <2>1. pc'[t] = pc[t]
    BY <1>1, OthersStay
  <2> QED BY <1>0, <2>1
<1>2. CASE s = t
  <2>1. ~Requests(t)
    BY <1>0 DEF Requests, Accept, BeginCreate, BeginUpdate, DeleteGroup, Import, ProbeWebPort
  <2>2. CASE StatementFails(t)
    BY <2>2 DEF StatementFails
  <2>3. CASE Send(t)
    BY <2>3 DEF Send
  <2>4. CASE Proceed(t) /\ ~Send(t)
    <3>1. ASSUME NEW p \in Port, ReadPort(t, p) PROVE FALSE
      BY <3>1 DEF ReadPort, Committed
    <3>2. ASSUME NEW u \in todo[t], WriteField(t, u) PROVE FALSE
      BY <3>2 DEF WriteField, Rewrite, Goto
    <3>3. ~FinishUpdate(t) /\ ~DeleteRules(t) /\ ~LoadCertificates(t)
      BY DEF FinishUpdate, DeleteRules, LoadCertificates, Goto
    <3>4. ~(ProbeOpens(t) \/ ProbeCloses(t) \/ ProbeRefused(t) \/ InsertGroup(t)
              \/ CheckConflict(t) \/ WritePort(t) \/ SaveWebPort(t))
      BY <1>0 DEF ProbeOpens, ProbeCloses, ProbeRefused, InsertGroup, CheckConflict, WritePort,
             SaveWebPort
    <3> QED BY <2>4, <3>1, <3>2, <3>3, <3>4 DEF Proceed
  <2> QED BY <1>2, <2>1, <2>2, <2>3, <2>4
<1> QED BY <1>1, <1>2

\* A port that a request can ask for is the port of the machine.
LEMMA ValidPorts == \A p \in Int : ValidPort(p) => OsPort(p) = p
<1>1. \A p \in Int : p >= 1 /\ p <= 65535 => OsPort(p) = p
  BY DEF OsPort
<1>2. \A p \in Int : ValidPort(p) => p >= 1 /\ p <= 65535
  BY DEF ValidPort
<1> QED BY <1>1, <1>2

\* Two groups share a port of the machine only if a restore brought the port of one, or two
\* requests asked for it at the same time: of all orders of checks, probes, writes, deletions,
\* failures and restarts (port_groups.rs:119-135, 160-182).
THEOREM ClashesHaveCauses == Spec => []ClashesExplained
<1>1. ASSUME IInv, NEW g \in groups, NEW h \in groups, g # h, OsPort(g.port) = OsPort(h.port)
      PROVE  g.port \in contested \/ h.port \in contested
  <2>1. g.port \in Int /\ h.port \in Int
    BY <1>1, ListenersAssumption DEF IInv, TypeOK, Group, Row
  <2>2. g.id # h.id
    BY <1>1 DEF IInv, Explained, Keyed
  <2>3. <<g.id, g.port>> \in Claims /\ <<h.id, h.port>> \in Claims
    BY DEF Claims
  <2>4. \A c \in Claims : ~ValidPort(c[2]) => c[2] \in contested
    BY <1>1 DEF IInv, Explained, Doubtful
  <2>5. \A c, d \in Claims : c[1] # d[1] /\ c[2] = d[2] => c[2] \in contested
    BY <1>1 DEF IInv, Explained, Doubtful
  <2>6. CASE ValidPort(g.port) /\ ValidPort(h.port)
    <3>1. g.port = h.port
      BY <1>1, <2>1, <2>6, ValidPorts
    <3> QED BY <2>2, <2>3, <2>5, <3>1
  <2>7. CASE ~ValidPort(g.port) \/ ~ValidPort(h.port)
    BY <2>3, <2>4, <2>7
  <2> QED BY <2>6, <2>7
<1>2. IInv => ClashesExplained
  BY <1>1 DEF ClashesExplained
<1> QED BY <1>2, Initially, Inductive, PTL DEF Spec

\* A request that is refused owes the engine no reload: whatever interleaves with it, a
\* handler that has written ends with the send, with a failed statement, or dropped
\* (port_groups.rs:144-200).
THEOREM RefusalsOweNoReload == Spec => RefusedOwesNoReload
<1> DEFINE Owed(t) == wrote[t] /\ pc[t] # "idle" /\ pc'[t] = "idle" /\ restarts' = restarts =>
                          signal' \/ "unsent" \in blame'
<1>1. ASSUME IInv, [Next]_vars, NEW t \in Task PROVE Owed(t)
  <2> SUFFICES ASSUME wrote[t], pc[t] # "idle", pc'[t] = "idle", restarts' = restarts
               PROVE  signal' \/ "unsent" \in blame'
    OBVIOUS
  <2>1. CASE \E s \in Task : Requests(s) \/ Proceed(s) \/ StatementFails(s)
    BY <1>1, <2>1, WriterEnds
  <2>2. CASE UNCHANGED pc
    BY <2>2
  <2>3. ~Restart
    <3>0. restarts \in 0..MaxRestarts
      BY <1>1 DEF IInv, TypeOK
    <3>1. restarts \in Nat
      BY <3>0, Bounds
    <3>2. Restart => restarts' = restarts + 1
      BY DEF Restart
    <3> QED BY <3>1, <3>2
  <2>4. Engine \/ ReloadFails \/ (\E k \in listeners : Bind(k) \/ Drop(k)) \/ UNCHANGED vars
            => UNCHANGED pc
    BY DEF Engine, Subscribe, Changed, ReadGroups, SpawnAll, ReloadFails, Bind, Drop, vars, locals
  <2> QED BY <1>1, <2>1, <2>2, <2>3, <2>4 DEF Next
<1>2. IInv /\ [Next]_vars => [\A t \in Task : Owed(t)]_vars
  BY <1>1
<1> QED BY <1>2, Initially, Inductive, PTL DEF Spec, RefusedOwesNoReload

-----------------------------------------------------------------------------
(* Refinement                                                              *)

\* Every step of the handlers, the engine and the tasks is a step of Reconcile or a stutter.
LEMMA StepReconciles ==
    ASSUME IInv, IInv', [Next]_vars
    PROVE  [Desired!Next]_<<Enabled(groups), rows, Running>>
<1> USE DEF Desired!Next, Desired!Configure, Desired!Stop, Desired!Read, Desired!Start
<1>1. ASSUME UNCHANGED <<rows, listeners>> PROVE Desired!Configure
  <2>1. Enabled(groups)' \subseteq Group
    BY DEF IInv, TypeOK, Enabled
  <2> QED BY <1>1, <2>1 DEF Live
<1>2. ASSUME NEW t \in Task, Requests(t) \/ Proceed(t) \/ StatementFails(t)
      PROVE  UNCHANGED <<rows, listeners>>
  BY <1>2 DEF Requests, Proceed, StatementFails, BeginCreate, BeginUpdate, DeleteGroup, Import,
         ProbeWebPort, ProbeOpens, ProbeCloses, ProbeRefused, InsertGroup, ReadPort,
         CheckConflict, WritePort, WriteField, FinishUpdate, DeleteRules, LoadCertificates, SaveWebPort, Send
<1>3. CASE Subscribe \/ ReloadFails \/ UNCHANGED vars
  BY <1>1, <1>3 DEF Subscribe, ReloadFails, vars
<1>4. CASE Changed
  <2>1. Live' = {} /\ groups' = groups /\ rows' = {}
    BY <1>4 DEF IInv, Changed, Current
  <2>2. Running' = {}
    BY <2>1 DEF Running
  <2> QED BY <2>1, <2>2 DEF Enabled
<1>5. CASE ReadGroups
  BY <1>5 DEF ReadGroups, Running, Live
<1>6. CASE SpawnAll
  <2>1. Running = {} /\ Running' = rows
    BY <1>6, SpawnsRows DEF IInv
  <2>2. rows' = {} /\ groups' = groups
    BY <1>6 DEF SpawnAll
  <2> QED BY <2>1, <2>2 DEF Running, Enabled
<1>7. ASSUME NEW k \in listeners, Bind(k) \/ Drop(k) PROVE UNCHANGED <<Enabled(groups), rows, Running>>
  BY <1>7, TasksCurrent DEF IInv, Bind, Drop
<1>8. CASE Restart
  BY <1>8 DEF Restart, Running, Live
<1> QED BY <1>1, <1>2, <1>3, <1>4, <1>5, <1>6, <1>7, <1>8 DEF Next, Engine

\* The engine reconciles: whatever the handlers, the failures and the sockets do, what
\* runs is nothing or one snapshot of the enabled groups (proxy.rs:378-394).
THEOREM EngineReconciles == Spec => Reconciles
<1>1. Init => Desired!Init
  <2>1. ASSUME Init PROVE Desired!Init
    <3>1. Enabled(groups) \subseteq Group
      BY <2>1, InitType DEF TypeOK, Enabled
    <3> QED BY <2>1, <3>1 DEF Init, Desired!Init, Live
  <2> QED BY <2>1
<1>2. IInv /\ IInv' /\ [Next]_vars => [Desired!Next]_<<Enabled(groups), rows, Running>>
  BY StepReconciles
<1>3. <<Enabled(groups), rows, Running>> = <<Enabled(groups), rows, {k.group : k \in Live}>>
  BY DEF Running
<1> QED BY <1>1, <1>2, <1>3, Initially, Inductive, PTL DEF Spec, Reconciles, Desired!Spec, Running
=============================================================================
