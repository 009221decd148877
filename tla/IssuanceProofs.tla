--------------------------- MODULE IssuanceProofs ---------------------------
(***************************************************************************)
(* Type correctness of Issuance; that a completed job has its certificate; *)
(* that the jobs somebody awaits are those the worker holds; that only     *)
(* authorizations being decided have records in the zones; that there are  *)
(* no more accounts than actors; and that Issuance implements Jobs: for    *)
(* any names, orders, jobs, providers and renewers.                        *)
(***************************************************************************)
EXTENDS Issuance, FiniteSetTheorems, SequenceTheorems, TLAPS

\* The calls of the procedure, and those that are about one authorization.
Active == {"account", "create", "save", "order", "authorize", "ready", "poll", "wait", "store", "load"}
Proving == {"ready", "poll"}

\* A procedure that goes on has an order, the worker's a job, and an authorization a name.
Employed ==
    /\ flow[Worker].pc \in Active => flow[Worker].job \in Job
    /\ \A a \in Actor : /\ flow[a].pc \in Active => flow[a].order \in Wish
                        /\ flow[a].pc \in Active \cup {"next"} => flow[a].provider \in Provider
                        /\ flow[a].pc \in Proving => flow[a].at \in Name

-----------------------------------------------------------------------------
(* Single parts                                                            *)

LEMMA Parameters ==
    /\ Worker \in Actor /\ Worker \notin Renewer /\ Renewer \subseteq Actor
    /\ Button \subseteq Actor /\ Worker \notin Button
    /\ IsFiniteSet(Actor)
    /\ \A o \in Order : o.names \subseteq Name /\ o.primary \in o.names
    /\ Provider \subseteq {"cloudflare", "aliyun"}
    /\ None \notin Job /\ None \notin Name /\ None \notin Order
<1>1. IsFiniteSet(Actor)
  <2>1. IsFiniteSet(Renewer \cup {Worker})
    BY IssuanceAssumption, FS_AddElement
  <2>2. Actor = Renewer \cup {Worker}
    BY DEF Actor
  <2> QED BY <2>1, <2>2
<1> QED BY <1>1, IssuanceAssumption DEF Actor

LEMMA RowNames == Row \subseteq Name
BY Parameters DEF Row

LEMMA Wishes == \A o \in Wish : o.primary \in Row /\ o.names \subseteq Name
<1>1. \A o \in Order : o.primary \in Row /\ o.names \subseteq Name
  BY Parameters DEF Row
<1>2. \A n \in Row : LET o == [primary |-> n, names |-> {n}] IN o.primary = n /\ o.names \subseteq Name
  BY RowNames
<1> QED BY <1>1, <1>2 DEF Wish

LEMMA Blanks ==
    /\ NoFlow \in Procedure /\ NoFlow.pc = "idle"
    /\ [NoFlow EXCEPT !.pc = "starting"] \in Procedure
    /\ [NoFlow EXCEPT !.pc = "starting"].pc = "starting"
    /\ NoOrder \in Ordered
    /\ NoCert \in Certificate
BY DEF NoFlow, Procedure, Label, NoOrder, Ordered, NoCert, Certificate

LEMMA TxtSites ==
    ASSUME NEW p \in Provider, NEW n \in Name, TxtAt(p, n) # None
    PROVE  TxtAt(p, n) \in Sites
BY IssuanceAssumption DEF TxtAt, CloudflareSite, AliyunSite, Sites

\* What an actor may be doing.
Fit(a, f) ==
    /\ f \in Procedure
    /\ f.pc \in Active => f.order \in Wish /\ (a = Worker => f.job \in Job)
    /\ f.pc \in Active \cup {"next"} => f.provider \in Provider
    /\ f.pc \in Proving => f.at \in Name

LEMMA FlowFits ==
    ASSUME Shapes, Employed, NEW a \in Actor, NEW f, Fit(a, f), flow' = [flow EXCEPT ![a] = f]
    PROVE  /\ flow' \in [Actor -> Procedure] /\ Employed'
           /\ flow'[a] = f /\ \A b \in Actor : b # a => flow'[b] = flow[b]
<1>1. flow \in [Actor -> Procedure] /\ Worker \in Actor
  BY Parameters DEF Shapes
<1>2. /\ flow' \in [Actor -> Procedure]
      /\ flow'[a] = f /\ \A b \in Actor : b # a => flow'[b] = flow[b]
  BY <1>1 DEF Fit
<1>3. Employed'
  BY <1>1, <1>2 DEF Employed, Fit
<1> QED BY <1>2, <1>3

\* A procedure that goes on to another call.
LEMMA GotoFits ==
    ASSUME Shapes, Employed, NEW a \in Actor, NEW label \in Active,
           flow[a].pc \in Active, label \in Proving => flow[a].pc \in Proving,
           Goto(a, label)
    PROVE  /\ flow' \in [Actor -> Procedure] /\ Employed'
           /\ flow'[a] = [flow[a] EXCEPT !.pc = label]
           /\ \A b \in Actor : b # a => flow'[b] = flow[b]
<1> DEFINE f == [flow[a] EXCEPT !.pc = label]
<1>1. flow[a] \in Procedure /\ label \in Label
  BY DEF Shapes, Active, Label
<1>2. /\ f \in Procedure /\ f.pc = label /\ f.order = flow[a].order /\ f.job = flow[a].job
      /\ f.provider = flow[a].provider /\ f.at = flow[a].at
  BY <1>1 DEF Procedure
<1>3. Fit(a, f)
  BY <1>2 DEF Fit, Employed
<1>4. flow' = [flow EXCEPT ![a] = f]
  BY DEF Goto, Shapes
<1> QED BY <1>3, <1>4, FlowFits

\* A procedure that ends.
LEMMA EndFits ==
    ASSUME Shapes, Employed, NEW a \in Actor, flow[a].pc \in Active,
           NEW answer \in {"ok", "error"}, End(a, answer)
    PROVE  /\ flow' \in [Actor -> Procedure] /\ Employed'
           /\ flow'[a].pc \in {"idle", "next"}
           /\ \A b \in Actor : b # a => flow'[b] = flow[b]
           /\ acme' \in [Actor -> Ordered]
           /\ reply' \in [Job -> {"", "ok", "error", "lost"}]
           /\ reply' = IF a = Worker THEN [reply EXCEPT ![flow[a].job] = answer] ELSE reply
<1>1. flow[a] \in Procedure
  BY DEF Shapes
<1>2. acme' \in [Actor -> Ordered]
  BY Blanks DEF Shapes, End
<1>3. CASE a = Worker
  <2> DEFINE f == [NoFlow EXCEPT !.pc = "idle"]
  <2>1. f \in Procedure /\ f.pc = "idle"
    BY DEF NoFlow, Procedure, Label
  <2>2. Fit(a, f)
    BY <2>1 DEF Fit, Active, Proving
  <2>3. flow' = [flow EXCEPT ![a] = f] /\ reply' = [reply EXCEPT ![flow[a].job] = answer]
    BY <1>3 DEF End
  <2>4. reply' \in [Job -> {"", "ok", "error", "lost"}]
    BY <2>3 DEF Shapes
  <2> QED BY <1>2, <1>3, <2>1, <2>2, <2>3, <2>4, FlowFits
<1>4. CASE a # Worker
  <2> DEFINE f == [NoFlow EXCEPT !.pc = "next", !.provider = flow[a].provider, !.todo = flow[a].todo]
  <2>1. f \in Procedure /\ f.pc = "next" /\ f.provider = flow[a].provider
    BY <1>1 DEF NoFlow, Procedure, Label
  <2>2. Fit(a, f)
    BY <2>1 DEF Fit, Active, Proving, Employed
  <2>3. flow' = [flow EXCEPT ![a] = f] /\ reply' = reply
    BY <1>4 DEF End
  <2> QED BY <1>2, <1>4, <2>1, <2>2, <2>3, FlowFits DEF Shapes
<1> QED BY <1>3, <1>4

\* A log line.
LEMMA SaidType ==
    ASSUME Queues, Employed, NEW a \in Actor, flow[a].pc \in Active, Say(a)
    PROVE  /\ said' \in [Job -> Nat] /\ spawned' \in Seq([job : Job, line : Nat])
           /\ buffer' \in [Job -> Seq(Nat)] /\ shown' \in [Job -> Seq(Nat)]
<1>1. CASE a = Worker
  <2> DEFINE j == flow[a].job
             line == [job |-> j, line |-> said[j] + 1]
  <2>1. j \in Job
    BY <1>1 DEF Employed
  <2>2. said' = [said EXCEPT ![j] = @ + 1] /\ UNCHANGED <<buffer, shown>>
        /\ spawned' = Append(spawned, line)
    BY <1>1 DEF Say
  <2> HIDE DEF j
  <2>3. said \in [Job -> Nat] /\ spawned \in Seq([job : Job, line : Nat])
    BY DEF Queues
  <2>4. said[j] + 1 \in Nat
    BY <2>1, <2>3
  <2>5. line \in [job : Job, line : Nat]
    BY <2>1, <2>4
  <2> HIDE DEF line
  <2>6. spawned' \in Seq([job : Job, line : Nat])
    BY <2>2, <2>3, <2>5
  <2>7. said' \in [Job -> Nat]
    BY <2>2, <2>3, <2>4
  <2> QED BY <2>2, <2>6, <2>7 DEF Queues
<1>2. CASE a # Worker
  BY <1>2 DEF Say, logs, Queues
<1> QED BY <1>1, <1>2

-----------------------------------------------------------------------------
(* Types of the procedure                                                  *)

Typed == Shapes /\ Queues /\ Employed

LEMMA DeletedType == ASSUME Shapes, NEW a \in Actor PROVE zone \ Own(a) \subseteq Txt
BY DEF Shapes

LEMMA QuietQueues == Queues /\ UNCHANGED <<queue, logs>> => Queues'
BY DEF Queues, logs

\* The calls that only lead to the next one.
LEMMA CallTypes ==
    ASSUME Typed, NEW a \in Actor,
           OpenAccount(a) \/ CreateAccount(a) \/ SaveAccount(a) \/ SetReady(a) \/ Finalize(a)
    PROVE  Typed'
<1>0. Shapes /\ Queues /\ Employed
  BY DEF Typed
<1>1. PICK label \in Active :
         /\ flow[a].pc \in Active /\ (label \in Proving => flow[a].pc \in Proving)
         /\ Goto(a, label)
  BY DEF OpenAccount, CreateAccount, SaveAccount, SetReady, Finalize, Active, Proving
<1>2. /\ UNCHANGED <<jobs, logs, acme, dns, cert, stored>>
      /\ saved' = saved \/ saved' = TRUE
      /\ made' = made \/ made' = made + 1
  BY DEF OpenAccount, CreateAccount, SaveAccount, SetReady, Finalize, accounts
<1>a. saved' \in BOOLEAN /\ made' \in Nat
  <2>1. saved \in BOOLEAN /\ made \in Nat
    BY <1>0 DEF Shapes
  <2>2. made' \in Nat
    BY <1>2, <2>1
  <2>3. saved' \in BOOLEAN
    BY <1>2, <2>1, Zenon
  <2> QED BY <2>2, <2>3
<1>3. flow' \in [Actor -> Procedure] /\ Employed'
  BY <1>0, <1>1, GotoFits
<1>4. Shapes'
  BY <1>0, <1>2, <1>a, <1>3 DEF Shapes, jobs, dns
<1>5. Queues'
  BY <1>0, <1>2, QuietQueues DEF jobs
<1> QED BY <1>3, <1>4, <1>5 DEF Typed

LEMMA PlaceTypes ==
    ASSUME Typed, NEW a \in Actor, PlaceOrder(a)
    PROVE  Typed'
<1>0. Shapes /\ Queues /\ Employed
  BY DEF Typed
<1>1. flow[a].pc \in Active /\ Goto(a, "authorize") /\ "authorize" \in Active \ Proving
  BY DEF PlaceOrder, Active, Proving
<1>2. flow' \in [Actor -> Procedure] /\ Employed'
  BY <1>0, <1>1, GotoFits
<1>3. acme' \in [Actor -> Ordered]
  BY <1>0 DEF PlaceOrder, Shapes, Ordered
<1>4. Shapes'
  BY <1>0, <1>2, <1>3 DEF PlaceOrder, Shapes, jobs, accounts, dns
<1>5. Queues'
  <2>1. Say(a) /\ queue' = queue
    BY DEF PlaceOrder, jobs
  <2> QED BY <1>0, <1>1, <2>1, SaidType DEF Queues
<1> QED BY <1>2, <1>4, <1>5 DEF Typed

\* Authorize and Pass move along the names of the order.
LEMMA AuthorizeTypes ==
    ASSUME Typed, NEW a \in Actor, NEW n \in Name, Authorize(a, n)
    PROVE  Typed'
<1>0. Shapes /\ Queues /\ Employed /\ flow[a] \in Procedure
  BY DEF Typed, Shapes
<1> DEFINE label == IF a = Worker THEN "ready" ELSE "poll"
           f == [flow[a] EXCEPT !.pc = label, !.at = n]
<1>1. /\ f \in Procedure /\ f.pc = label /\ f.order = flow[a].order /\ f.job = flow[a].job
      /\ f.provider = flow[a].provider /\ f.at = n
  BY <1>0 DEF Procedure, Label
<1>2. flow[a].pc \in Active /\ flow[a].provider \in Provider
  BY <1>0 DEF Authorize, Active, Employed
<1>3. Fit(a, f)
  BY <1>0, <1>1, <1>2 DEF Fit, Employed
<1>4. flow' = [flow EXCEPT ![a] = f]
  BY <1>0 DEF Authorize, Shapes
<1>5. flow' \in [Actor -> Procedure] /\ Employed'
  BY <1>0, <1>3, <1>4, FlowFits
<1>6. zone' \subseteq Txt
  <2>1. TxtAt(flow[a].provider, n) \in Sites
    BY <1>2, TxtSites DEF Authorize
  <2>2. [provider |-> flow[a].provider, at |-> TxtAt(flow[a].provider, n), by |-> a] \in Txt
    BY <1>2, <2>1 DEF Txt
  <2> QED BY <1>0, <2>2 DEF Authorize, Shapes
<1>7. Shapes'
  BY <1>0, <1>5, <1>6 DEF Authorize, Shapes, jobs, accounts
<1>8. Queues'
  BY <1>0, QuietQueues DEF Authorize, jobs
<1> QED BY <1>5, <1>7, <1>8 DEF Typed

LEMMA PassTypes ==
    ASSUME Typed, NEW a \in Actor, Pass(a)
    PROVE  Typed'
<1>0. Shapes /\ Queues /\ Employed /\ flow[a] \in Procedure
  BY DEF Typed, Shapes
<1> DEFINE rest == flow[a].left \ {flow[a].at}
           label == IF rest = {} THEN "wait" ELSE "authorize"
           f == [flow[a] EXCEPT !.pc = label, !.left = rest, !.at = None]
<1>1. /\ f \in Procedure /\ f.pc = label /\ f.order = flow[a].order /\ f.job = flow[a].job
      /\ f.provider = flow[a].provider
  BY <1>0 DEF Procedure, Label
<1>2. flow[a].pc \in Active /\ label \notin Proving
  BY DEF Pass, Active, Proving
<1>3. Fit(a, f)
  BY <1>0, <1>1, <1>2 DEF Fit, Employed
<1>4. flow' = [flow EXCEPT ![a] = f]
  BY <1>0 DEF Pass, Shapes
<1>5. flow' \in [Actor -> Procedure] /\ Employed'
  BY <1>0, <1>3, <1>4, FlowFits
<1>6. Shapes'
  BY <1>0, <1>5, DeletedType DEF Pass, DeleteTxt, Shapes, jobs, accounts
<1>7. Queues'
  BY <1>0, QuietQueues DEF Pass, jobs
<1> QED BY <1>5, <1>6, <1>7 DEF Typed

\* The ways out.
LEMMA EndTypes ==
    ASSUME Typed, NEW a \in Actor,
           GiveUp(a) \/ OrderInvalid(a) \/ Fail(a) \/ LoseAccount(a) \/ Finish(a),
           LoseAccount(a) => made # 0
    PROVE  Typed'
<1>0. Shapes /\ Queues /\ Employed
  BY DEF Typed
<1>1. PICK answer \in {"ok", "error"} : flow[a].pc \in Active /\ End(a, answer)
  BY DEF GiveUp, OrderInvalid, Fail, LoseAccount, Finish, Calling, Active
<1>2. /\ flow' \in [Actor -> Procedure] /\ Employed' /\ acme' \in [Actor -> Ordered]
      /\ reply' \in [Job -> {"", "ok", "error", "lost"}]
  BY <1>0, <1>1, EndFits
<1>3. /\ UNCHANGED <<status, queue, saved, cleanups, cert, stored>>
      /\ made' = made \/ (made' = made - 1 /\ made # 0)
      /\ zone' \in {zone, zone \ Own(a)}
  BY DEF GiveUp, OrderInvalid, Fail, LoseAccount, Finish, accounts, dns, DeleteTxt, Forsake
<1>4. made' \in Nat /\ zone' \subseteq Txt
  <2>1. made \in Nat /\ zone \subseteq Txt
    BY <1>0 DEF Shapes
  <2>2. made' \in Nat
    BY <1>3, <2>1
  <2>3. zone' \subseteq Txt
    BY <1>0, <1>3, <2>1, DeletedType
  <2> QED BY <2>2, <2>3
<1>5. Shapes'
  BY <1>0, <1>2, <1>3, <1>4 DEF Shapes
<1>6. Queues'
  <2>1. CASE Finish(a)
    BY <1>0, <1>1, <1>3, <2>1, SaidType DEF Finish, Queues
  <2>2. CASE ~Finish(a)
    <3>1. UNCHANGED <<queue, logs>>
      BY <2>2 DEF GiveUp, OrderInvalid, Fail, LoseAccount
    <3> QED BY <1>0, <3>1, QuietQueues
  <2> QED BY <2>1, <2>2
<1> QED BY <1>2, <1>5, <1>6 DEF Typed

LEMMA StoreTypes ==
    ASSUME Typed, NEW a \in Actor, Store(a)
    PROVE  Typed'
<1>0. Shapes /\ Queues /\ Employed /\ flow[a] \in Procedure
  BY DEF Typed, Shapes
<1>1. flow[a].pc \in Active /\ Goto(a, "load") /\ "load" \in Active \ Proving
  BY DEF Store, Active, Proving
<1>2. flow' \in [Actor -> Procedure] /\ Employed'
  BY <1>0, <1>1, GotoFits
<1>3. cert' \in [Row -> Certificate]
  <2>1. flow[a].order.primary \in Row /\ flow[a].order.names \subseteq Name
    BY <1>0, <1>1, Wishes DEF Employed
  <2>2. [source |-> "acme", names |-> flow[a].order.names] \in Certificate
    BY <2>1 DEF Certificate
  <2> QED BY <1>0, <2>1, <2>2 DEF Store, Shapes
<1>4. stored' \subseteq Job
  BY <1>0 DEF Store, Shapes, Procedure
<1>5. Shapes'
  BY <1>0, <1>2, <1>3, <1>4 DEF Store, Shapes, jobs, accounts, dns
<1>6. Queues'
  BY <1>0, QuietQueues DEF Store, jobs
<1> QED BY <1>2, <1>5, <1>6 DEF Typed

LEMMA StepTypes ==
    ASSUME Typed, NEW a \in Actor, Step(a)
    PROVE  Typed'
<1>1. GiveUp(a) \/ OrderInvalid(a) \/ Finish(a) => ~LoseAccount(a)
  BY DEF GiveUp, OrderInvalid, Finish, LoseAccount
<1> QED BY <1>1, CallTypes, PlaceTypes, AuthorizeTypes, PassTypes, EndTypes, StoreTypes DEF Step

-----------------------------------------------------------------------------
(* Types of the rest                                                       *)

\* The elements of the queue.
Asked == [job : Job, order : Order, provider : Provider]

LEMMA WorkerTypes ==
    ASSUME Typed, (\E works \in BOOLEAN : StartWorker(works)) \/ Receive
    PROVE  Typed'
<1>0. Shapes /\ Queues /\ Employed /\ Worker \in Actor /\ queue \in Seq(Asked)
  BY Parameters DEF Typed, Queues, Asked
<1>1. ASSUME NEW works \in BOOLEAN, StartWorker(works) PROVE Typed'
  <2> DEFINE label == IF works THEN "idle" ELSE "dead"
             f == [flow[Worker] EXCEPT !.pc = label]
  <2>1. f \in Procedure /\ f.pc = label
    BY <1>0 DEF Shapes, Procedure, Label
  <2>2. Fit(Worker, f)
    BY <2>1 DEF Fit, Active, Proving
  <2>3. flow' = [flow EXCEPT ![Worker] = f]
    BY <1>0, <1>1 DEF StartWorker, Goto, Shapes
  <2>4. flow' \in [Actor -> Procedure] /\ Employed'
    BY <1>0, <2>2, <2>3, FlowFits
  <2>5. reply' \in [Job -> {"", "ok", "error", "lost"}]
    BY <1>0, <1>1 DEF StartWorker, Shapes
  <2>6. Shapes'
    BY <1>0, <1>1, <2>4, <2>5 DEF StartWorker, Shapes, accounts, dns
  <2>7. queue' = queue \/ queue' = <<>>
    BY <1>1 DEF StartWorker
  <2>8. queue' \in Seq(Asked)
    <3>1. <<>> \in Seq(Asked)
      BY EmptySeq
    <3> QED BY <1>0, <2>7, <3>1, Zenon
  <2>9. Queues'
    BY <1>0, <1>1, <2>8 DEF StartWorker, Queues, logs, Asked
  <2> QED BY <2>4, <2>6, <2>9 DEF Typed
<1>2. CASE Receive
  <2> DEFINE r == Head(queue)
             f == [NoFlow EXCEPT !.pc = "account", !.job = r.job, !.order = r.order,
                                 !.provider = r.provider, !.left = r.order.names]
  <2>1. r \in Asked /\ Tail(queue) \in Seq(Asked)
    BY <1>0, <1>2 DEF Receive
  <2> HIDE DEF r
  <2>2. /\ r.job \in Job /\ r.order \in Order /\ r.provider \in Provider
        /\ r.order.names \subseteq Name
    BY <2>1, Parameters DEF Asked
  <2>3. /\ f \in Procedure /\ f.pc = "account" /\ f.job = r.job /\ f.order = r.order
        /\ f.provider = r.provider
    BY <2>2 DEF NoFlow, Procedure, Label, Wish
  <2>4. Fit(Worker, f)
    BY <2>2, <2>3 DEF Fit, Wish, Proving
  <2>5. flow' = [flow EXCEPT ![Worker] = f]
    BY <1>2 DEF Receive, r
  <2>6. flow' \in [Actor -> Procedure] /\ Employed'
    BY <1>0, <2>4, <2>5, FlowFits
  <2>7. Shapes'
    BY <1>0, <1>2, <2>6 DEF Receive, Shapes, accounts, dns
  <2>8. Queues'
    BY <1>0, <1>2, <2>1 DEF Receive, Queues, logs, Asked
  <2> QED BY <2>6, <2>7, <2>8 DEF Typed
<1> QED BY <1>1, <1>2

\* The frame of a renewal that moves from rule to rule.
LEMMA RenewerTypes ==
    ASSUME Typed, NEW a \in Renewer,
           \/ StartRenewal(a) \/ EndRenewal(a)
           \/ \E n \in Row : Renew(a, n) \/ PassOver(a, n)
    PROVE  Typed'
<1>0. /\ Shapes /\ Queues /\ Employed /\ a \in Actor /\ a # Worker
      /\ flow[a] \in Procedure /\ flow \in [Actor -> Procedure]
  BY Parameters DEF Typed, Shapes
<1> DEFINE Moves == \E f : Fit(a, f) /\ flow' = [flow EXCEPT ![a] = f]
<1>1. Moves
  <2>1. CASE StartRenewal(a)
    <3>1. PICK p \in Provider :
             flow' = [flow EXCEPT ![a] = [NoFlow EXCEPT !.pc = "next", !.provider = p, !.todo = Row]]
      BY <2>1 DEF StartRenewal
    <3> DEFINE f == [NoFlow EXCEPT !.pc = "next", !.provider = p, !.todo = Row]
    <3>2. f \in Procedure /\ f.pc = "next" /\ f.provider = p
      BY DEF NoFlow, Procedure, Label
    <3>3. Fit(a, f)
      BY <3>2 DEF Fit, Active, Proving
    <3> QED BY <3>1, <3>3
  <2>2. CASE EndRenewal(a)
    <3>1. Fit(a, NoFlow)
      BY Blanks DEF Fit, Active, Proving
    <3> QED BY <2>2, <3>1 DEF EndRenewal
  <2>3. ASSUME NEW n \in Row, Renew(a, n) PROVE Moves
    <3> DEFINE o == [primary |-> n, names |-> {n}]
               f == [flow[a] EXCEPT !.pc = "account", !.order = o, !.left = {n},
                                    !.todo = flow[a].todo \ {n}]
    <3>1. o \in Wish /\ n \in Name
      BY RowNames DEF Wish
    <3> HIDE DEF o
    <3>2. f \in Procedure /\ f.pc = "account" /\ f.order = o /\ f.provider = flow[a].provider
      BY <1>0, <3>1 DEF Procedure, Label
    <3>3. Fit(a, f)
      BY <1>0, <2>3, <3>1, <3>2 DEF Fit, Proving, Renew, Employed
    <3>4. flow' = [flow EXCEPT ![a] = f]
      BY <1>0, <2>3 DEF Renew, o
    <3> QED BY <3>3, <3>4
  <2>4. ASSUME NEW n \in Row, PassOver(a, n) PROVE Moves
    <3> DEFINE f == [flow[a] EXCEPT !.todo = flow[a].todo \ {n}]
    <3>1. f \in Procedure /\ f.pc = "next" /\ f.provider = flow[a].provider
      BY <1>0, <2>4 DEF Procedure, PassOver
    <3>2. Fit(a, f)
      BY <1>0, <2>4, <3>1 DEF Fit, Active, Proving, PassOver, Employed
    <3>3. flow' = [flow EXCEPT ![a] = f]
      BY <1>0, <2>4 DEF PassOver
    <3> QED BY <3>2, <3>3
  <2> QED BY <2>1, <2>2, <2>3, <2>4
<1>2. flow' \in [Actor -> Procedure] /\ Employed'
  BY <1>0, <1>1, FlowFits
<1>3. UNCHANGED <<jobs, logs, acme, accounts, dns, cert, stored>>
  BY DEF StartRenewal, EndRenewal, Renew, PassOver
<1>4. Shapes'
  BY <1>0, <1>2, <1>3 DEF Shapes, jobs, accounts, dns
<1>5. Queues'
  BY <1>0, <1>3, QuietQueues DEF jobs
<1> QED BY <1>2, <1>4, <1>5 DEF Typed

LEMMA LeaveTypes ==
    ASSUME Typed, NEW a \in Button, Leave(a), flow[a].pc = "save" => made # 0
    PROVE  Typed'
<1>0. Shapes /\ Queues /\ Employed /\ a \in Actor
  BY Parameters DEF Typed
<1>1. Fit(a, NoFlow)
  BY Blanks DEF Fit, Active, Proving
<1>2. flow' \in [Actor -> Procedure] /\ Employed'
  BY <1>0, <1>1, FlowFits DEF Leave
<1>3. acme' \in [Actor -> Ordered]
  BY <1>0, Blanks DEF Leave, Shapes
<1>4. made' \in Nat
  <2>1. made' = made \/ (made' = made - 1 /\ made # 0)
    BY DEF Leave
  <2>2. made \in Nat
    BY <1>0 DEF Shapes
  <2> QED BY <2>1, <2>2
<1>5. zone' \subseteq Txt
  BY <1>0, DeletedType DEF Leave, Forsake
<1>6. Shapes'
  BY <1>0, <1>2, <1>3, <1>4, <1>5 DEF Leave, Shapes, jobs, Forsake
<1>7. Queues'
  BY <1>0, QuietQueues DEF Leave, jobs
<1> QED BY <1>2, <1>6, <1>7 DEF Typed

\* Nobody's procedure moves.
LEMMA StillEmployed == Employed /\ UNCHANGED flow => Employed'
BY DEF Employed

TableStep ==
    \/ \E j \in Job : Wait(j) \/ Poll(j) \/ \E o \in Order : Request(j, o)
    \/ \E n \in Row : Upload(n) \/ Delete(n) \/ CleanUp(n)

LEMMA TableTypes ==
    ASSUME Typed, TableStep
    PROVE  Typed'
<1>0. Shapes /\ Queues /\ Employed
  BY DEF Typed
<1>1. ASSUME NEW j \in Job, Wait(j) PROVE Typed'
  <2>1. Outcome(reply[j]) \in {"completed", "failed"}
    BY DEF Outcome
  <2>2. Shapes'
    BY <1>0, <1>1, <2>1 DEF Wait, Shapes, accounts, dns
  <2> QED BY <1>0, <1>1, <2>2, QuietQueues, StillEmployed DEF Wait, Typed
<1>2. ASSUME NEW j \in Job, Poll(j) PROVE Typed'
  <2>1. Shapes'
    BY <1>0, <1>2 DEF Poll, Shapes, jobs, accounts, dns
  <2>2. shown \in [Job -> Seq(Nat)] /\ buffer \in [Job -> Seq(Nat)]
    BY <1>0 DEF Queues
  <2>3. shown[j] \o buffer[j] \in Seq(Nat) /\ <<>> \in Seq(Nat)
    BY <2>2, ConcatProperties, EmptySeq
  <2>4. shown' \in [Job -> Seq(Nat)] /\ buffer' \in [Job -> Seq(Nat)]
    BY <1>2, <2>2, <2>3 DEF Poll, Drained
  <2>5. Queues'
    BY <1>0, <1>2, <2>4 DEF Poll, Queues, jobs
  <2> QED BY <1>0, <1>2, <2>1, <2>5, StillEmployed DEF Poll, Typed
<1>3. ASSUME NEW j \in Job, NEW o \in Order, Request(j, o) PROVE Typed'
  <2>1. status' \in [Job -> {"none", "running", "completed", "failed"}]
    BY <1>0, <1>3 DEF Request, Shapes
  <2>2. reply' \in [Job -> {"", "ok", "error", "lost"}]
    BY <1>0, <1>3 DEF Request, Shapes
  <2>3. Shapes'
    BY <1>0, <1>3, <2>1, <2>2 DEF Request, Shapes, accounts, dns
  <2>4. queue' \in Seq(Asked)
    <3>1. queue \in Seq(Asked)
      BY <1>0 DEF Queues, Asked
    <3>2. CASE queue' = queue
      BY <3>1, <3>2
    <3>3. ASSUME NEW p \in Provider, queue' = Append(queue, [job |-> j, order |-> o, provider |-> p])
          PROVE  queue' \in Seq(Asked)
      <4> DEFINE r == [job |-> j, order |-> o, provider |-> p]
      <4>1. r \in Asked
        BY DEF Asked
      <4> HIDE DEF r
      <4>2. queue' = Append(queue, r)
        BY <3>3 DEF r
      <4> QED BY <3>1, <4>1, <4>2, AppendProperties
    <3> QED BY <1>3, <3>2, <3>3 DEF Request
  <2>5. Queues'
    BY <1>0, <1>3, <2>4 DEF Request, Queues, Asked, logs
  <2> QED BY <1>0, <1>3, <2>3, <2>5, StillEmployed DEF Request, Typed
<1>4. ASSUME NEW n \in Row, Upload(n) \/ Delete(n) \/ CleanUp(n) PROVE Typed'
  <2>1. UNCHANGED <<jobs, logs, flow, acme, accounts, stored>>
    BY <1>4 DEF Upload, Delete, CleanUp
  <2>2. cert' \in [Row -> Certificate]
    <3>1. [source |-> "manual", names |-> {n}] \in Certificate
      BY RowNames DEF Certificate
    <3>2. \/ cert' = cert \/ cert' = [cert EXCEPT ![n] = NoCert]
          \/ cert' = [cert EXCEPT ![n] = [source |-> "manual", names |-> {n}]]
      BY <1>4 DEF Upload, Delete, CleanUp
    <3>3. cert \in [Row -> Certificate]
      BY <1>0 DEF Shapes
    <3> QED BY <3>1, <3>2, <3>3, Blanks
  <2>3. zone' \subseteq Txt /\ cleanups' \subseteq Row
    BY <1>0, <1>4 DEF Upload, Delete, CleanUp, dns, Shapes
  <2>4. Shapes'
    BY <1>0, <2>1, <2>2, <2>3 DEF Shapes, jobs, accounts
  <2> QED BY <1>0, <2>1, <2>4, QuietQueues, StillEmployed DEF Typed, jobs
<1> QED BY <1>1, <1>2, <1>3, <1>4 DEF TableStep

LEMMA AppendTypes ==
    ASSUME Typed, AppendLine
    PROVE  Typed'
<1> DEFINE Line == [job : Job, line : Nat]
           r == Head(spawned)
<1>0. Shapes /\ Queues /\ Employed /\ spawned \in Seq(Line) /\ buffer \in [Job -> Seq(Nat)]
  BY DEF Typed, Queues
<1>1. r \in Line /\ Tail(spawned) \in Seq(Line)
  BY <1>0, HeadTailProperties DEF AppendLine
<1>2. buffer' = [buffer EXCEPT ![r.job] = Append(@, r.line)] /\ spawned' = Tail(spawned)
  BY DEF AppendLine
<1> HIDE DEF r
<1>3. r.job \in Job /\ r.line \in Nat
  BY <1>1
<1>4. Append(buffer[r.job], r.line) \in Seq(Nat)
  BY <1>0, <1>3, AppendProperties
<1>5. buffer' \in [Job -> Seq(Nat)]
  BY <1>0, <1>2, <1>4
<1>6. Queues'
  BY <1>0, <1>1, <1>2, <1>5 DEF AppendLine, Queues, jobs
<1>7. Shapes'
  BY <1>0 DEF AppendLine, Shapes, jobs, accounts, dns
<1> QED BY <1>0, <1>6, <1>7, StillEmployed DEF Typed, AppendLine

LEMMA ServerTypes ==
    ASSUME Typed, NEW a \in Actor, Validate(a) \/ Decide(a)
    PROVE  Typed'
<1>0. Shapes /\ Queues /\ Employed
  BY DEF Typed
<1>1. acme' \in [Actor -> Ordered]
  <2>1. acme \in [Actor -> Ordered]
    BY <1>0 DEF Shapes
  <2>2. CASE Validate(a)
    <3>1. flow[a].at \in Name
      BY <1>0, <2>2 DEF Validate, Employed, Proving
    <3> QED BY <2>1, <2>2, <3>1 DEF Validate, Ordered
  <2>3. CASE Decide(a)
    BY <2>1, <2>3 DEF Decide, Ordered
  <2> QED BY <2>2, <2>3
<1>2. UNCHANGED <<jobs, logs, flow, accounts, dns, cert, stored>>
  BY DEF Validate, Decide
<1>3. Shapes'
  BY <1>0, <1>1, <1>2 DEF Shapes, jobs, accounts, dns
<1> QED BY <1>0, <1>2, <1>3, QuietQueues, StillEmployed DEF Typed, jobs

\* Nobody has started: at first, and after a restart.
Blank ==
    /\ status = [j \in Job |-> "none"] /\ queue = <<>> /\ reply = [j \in Job |-> ""]
    /\ said = [j \in Job |-> 0] /\ spawned = <<>>
    /\ buffer = [j \in Job |-> <<>>] /\ shown = [j \in Job |-> <<>>]
    /\ flow = [a \in Actor |-> IF a = Worker THEN [NoFlow EXCEPT !.pc = "starting"] ELSE NoFlow]
    /\ acme = [a \in Actor |-> NoOrder]
    /\ zone = {} /\ cleanups = {} /\ stored = {}
    /\ saved \in BOOLEAN /\ cert \in [Row -> Certificate] /\ made \in Nat

LEMMA BlankFlow ==
    ASSUME Blank
    PROVE  /\ flow \in [Actor -> Procedure]
           /\ \A a \in Actor : flow[a].pc \in {"starting", "idle"}
BY Blanks DEF Blank

LEMMA BlankTypes ==
    ASSUME Blank
    PROVE  Typed
<1>1. Shapes
  BY Blanks, BlankFlow DEF Blank, Shapes
<1>2. Queues
  <2>1. <<>> \in Seq(Nat) /\ <<>> \in Seq([job : Job, line : Nat])
        /\ <<>> \in Seq([job : Job, order : Order, provider : Provider])
    BY EmptySeq
  <2>2. said \in [Job -> Nat] /\ buffer \in [Job -> Seq(Nat)] /\ shown \in [Job -> Seq(Nat)]
    BY <2>1 DEF Blank
  <2>3. queue = <<>> /\ spawned = <<>>
    BY DEF Blank
  <2> QED BY <2>1, <2>2, <2>3 DEF Queues
<1>3. Employed
  BY BlankFlow, Parameters DEF Employed, Active, Proving
<1> QED BY <1>1, <1>2, <1>3 DEF Typed

-----------------------------------------------------------------------------

\* A procedure that is about to end well has stored its certificate, and so has one that did.
Ended ==
    /\ flow[Worker].pc = "load" => flow[Worker].job \in stored
    /\ \A j \in Job : reply[j] = "ok" => j \in stored
    /\ CompletedIsStored

\* Until one account is saved, the accounts are those that are about to be; and there is room
\* for those that are still to be created.
Creating == {a \in Actor : flow[a].pc = "create"}
Accounts ==
    /\ Cardinality(Saving) <= made
    /\ ~saved => made = Cardinality(Saving)
    /\ made + Cardinality(Creating) <= Cardinality(Actor)

\* The lines of a job are numbered as they were said: first those shown, then those buffered,
\* then those of spawned tasks.
Numbered(j) ==
    LET n == Len(shown[j])
        m == n + Len(buffer[j])
    IN  /\ \A i \in 1..n : shown[j][i] = i
        /\ \A i \in 1..Len(buffer[j]) : buffer[j][i] = n + i
        /\ m <= said[j]
        /\ \A i \in 1..Len(spawned) : spawned[i].job = j => spawned[i].line \in (m + 1)..said[j]
        /\ \A i, h \in 1..Len(spawned) :
               i < h /\ spawned[i].job = j /\ spawned[h].job = j => spawned[i].line < spawned[h].line
        /\ \A l \in (m + 1)..said[j] : \E i \in 1..Len(spawned) :
               spawned[i].job = j /\ spawned[i].line = l
Lines == \A j \in Job : Numbered(j)

IInv == TypeOK /\ Employed /\ Ended /\ NoLeftovers /\ Accounts /\ Lines

-----------------------------------------------------------------------------
(* Completed jobs have their certificates                                  *)

\* Certificates stay stored for a job, and nothing but what has one ends well.
LEMMA EndedFollows ==
    ASSUME Typed, Ended, UNCHANGED status, stored \subseteq stored',
           \A j \in Job : reply'[j] = "ok" => reply[j] = "ok" \/ j \in stored',
           flow'[Worker].pc = "load" => flow'[Worker].job \in stored'
    PROVE  Ended'
BY DEF Ended, CompletedIsStored

LEMMA GoingOnKeepsEnded ==
    ASSUME Typed, Ended, NEW a \in Actor,
           \/ OpenAccount(a) \/ CreateAccount(a) \/ SaveAccount(a) \/ PlaceOrder(a) \/ SetReady(a)
           \/ Finalize(a) \/ Pass(a) \/ \E n \in Name : Authorize(a, n)
    PROVE  Ended'
<1>0. Shapes /\ Queues /\ Employed /\ flow \in [Actor -> Procedure] /\ Worker \in Actor
  BY Parameters DEF Typed, Shapes
<1>1. UNCHANGED <<status, reply, stored>>
  BY DEF OpenAccount, CreateAccount, SaveAccount, PlaceOrder, SetReady, Finalize, Pass, Authorize, jobs
<1>2. flow'[Worker].pc = "load" => flow'[Worker] = flow[Worker]
  <2>1. ASSUME NEW label \in Label \ {"load"}, Goto(a, label)
        PROVE  flow'[Worker].pc = "load" => flow'[Worker] = flow[Worker]
    BY <1>0, <2>1 DEF Goto, Procedure
  <2>2. CASE Pass(a) \/ \E n \in Name : Authorize(a, n)
    <3>1. CASE Pass(a)
      <4> DEFINE rest == flow[a].left \ {flow[a].at}
                 f == [flow[a] EXCEPT !.pc = IF rest = {} THEN "wait" ELSE "authorize",
                                      !.left = rest, !.at = None]
      <4>1. flow' = [flow EXCEPT ![a] = f] /\ f.pc # "load"
        BY <1>0, <3>1 DEF Pass, Procedure
      <4> HIDE DEF f
      <4> QED BY <1>0, <4>1
    <3>2. ASSUME NEW n \in Name, Authorize(a, n)
          PROVE  flow'[Worker].pc = "load" => flow'[Worker] = flow[Worker]
      <4> DEFINE f == [flow[a] EXCEPT !.pc = IF a = Worker THEN "ready" ELSE "poll", !.at = n]
      <4>a. flow[a] \in Procedure
        BY <1>0
      <4>b. f.pc = (IF a = Worker THEN "ready" ELSE "poll")
        BY <4>a DEF Procedure
      <4>c. flow' = [flow EXCEPT ![a] = f]
        BY <1>0, <3>2 DEF Authorize
      <4>1. flow' = [flow EXCEPT ![a] = f] /\ f.pc # "load"
        BY <4>b, <4>c
      <4> HIDE DEF f
      <4> QED BY <1>0, <4>1
    <3> QED BY <2>2, <3>1, <3>2
  <2>3. CASE OpenAccount(a) \/ CreateAccount(a) \/ SaveAccount(a) \/ PlaceOrder(a) \/ SetReady(a)
             \/ Finalize(a)
    <3>1. PICK label \in Label \ {"load"} : Goto(a, label)
      BY <2>3 DEF OpenAccount, CreateAccount, SaveAccount, PlaceOrder, SetReady, Finalize, Label
    <3> QED BY <2>1, <3>1
  <2> QED BY <2>2, <2>3
<1>3. flow'[Worker].pc = "load" => flow'[Worker].job \in stored'
  BY <1>1, <1>2 DEF Ended
<1> QED BY <1>1, <1>3, EndedFollows

LEMMA EndingKeepsEnded ==
    ASSUME Typed, Ended, NEW a \in Actor,
           GiveUp(a) \/ OrderInvalid(a) \/ Fail(a) \/ LoseAccount(a) \/ Finish(a)
    PROVE  Ended'
<1>0. Shapes /\ Queues /\ Employed /\ reply \in [Job -> {"", "ok", "error", "lost"}]
  BY DEF Typed, Shapes
<1>1. PICK answer \in {"ok", "error"} :
          flow[a].pc \in Active /\ End(a, answer) /\ (answer = "ok" => flow[a].pc = "load")
  BY DEF GiveUp, OrderInvalid, Fail, LoseAccount, Finish, Calling, Active
<1>2. UNCHANGED <<status, stored>>
  BY DEF GiveUp, OrderInvalid, Fail, LoseAccount, Finish
<1>3. /\ flow'[a].pc \in {"idle", "next"}
      /\ \A b \in Actor : b # a => flow'[b] = flow[b]
      /\ reply' = IF a = Worker THEN [reply EXCEPT ![flow[a].job] = answer] ELSE reply
  BY <1>0, <1>1, EndFits
<1>4. \A j \in Job : reply'[j] = "ok" => reply[j] = "ok" \/ j \in stored'
  BY <1>0, <1>1, <1>2, <1>3 DEF Ended
<1>5. flow'[Worker].pc = "load" => flow'[Worker].job \in stored'
  BY <1>2, <1>3, Parameters DEF Ended
<1> QED BY <1>2, <1>4, <1>5, EndedFollows

LEMMA StoreKeepsEnded ==
    ASSUME Typed, Ended, NEW a \in Actor, Store(a)
    PROVE  Ended'
<1>0. /\ Shapes /\ Queues /\ Employed /\ flow \in [Actor -> Procedure] /\ Worker \in Actor
      /\ UNCHANGED <<status, reply>>
  BY Parameters DEF Typed, Shapes, Store, jobs
<1>1. stored \subseteq stored'
  BY DEF Store
<1>2. CASE a = Worker
  <2>1. flow[a].job \in Job /\ flow[a].job # None
    BY <1>0, <1>2, Parameters DEF Store, Employed, Active
  <2>2. flow'[Worker].job = flow[Worker].job
    BY <1>0, <1>2 DEF Store, Goto, Procedure
  <2>3. flow'[Worker].job \in stored'
    BY <1>2, <2>1, <2>2 DEF Store
  <2> QED BY <1>0, <1>1, <2>3, EndedFollows
<1>3. CASE a # Worker
  <2>1. flow'[Worker] = flow[Worker]
    BY <1>0, <1>3 DEF Store, Goto
  <2> QED BY <1>0, <1>1, <2>1, EndedFollows DEF Ended
<1> QED BY <1>2, <1>3

LEMMA OtherKeepsEnded ==
    ASSUME Typed, Ended,
           \/ (\E works \in BOOLEAN : StartWorker(works)) \/ Receive \/ AppendLine \/ TableStep
           \/ \E a \in Renewer : \/ StartRenewal(a) \/ EndRenewal(a)
                                 \/ \E n \in Row : Renew(a, n) \/ PassOver(a, n)
           \/ \E a \in Actor : Validate(a) \/ Decide(a)
           \/ \E a \in Button : Leave(a)
           \/ UNCHANGED vars
    PROVE  Ended'
<1>0. Shapes /\ Queues /\ Employed /\ flow \in [Actor -> Procedure] /\ Worker \in Actor
  BY Parameters DEF Typed, Shapes
<1>1. ASSUME NEW works \in BOOLEAN, StartWorker(works) PROVE Ended'
  <2>1. flow'[Worker].pc # "load" /\ UNCHANGED <<status, stored>>
    BY <1>0, <1>1 DEF StartWorker, Goto, Procedure
  <2>2. \A j \in Job : reply'[j] = "ok" => reply[j] = "ok"
    BY <1>1 DEF StartWorker
  <2> QED BY <2>1, <2>2, EndedFollows
<1>2. CASE Receive
  <2>1. flow'[Worker].pc # "load" /\ UNCHANGED <<status, reply, stored>>
    BY <1>0, <1>2 DEF Receive, NoFlow
  <2> QED BY <2>1, EndedFollows
<1>3. CASE UNCHANGED <<status, reply, stored>> /\ flow'[Worker] = flow[Worker]
  BY <1>3, EndedFollows DEF Ended
<1>4. CASE AppendLine \/ UNCHANGED vars
  BY <1>3, <1>4 DEF AppendLine, vars, jobs
<1>5. CASE TableStep
  <2>1. ASSUME NEW j \in Job, Wait(j) PROVE Ended'
    BY <1>0, <2>1 DEF Wait, Outcome, Ended, CompletedIsStored, Shapes
  <2>2. ASSUME NEW j \in Job, NEW o \in Order, Request(j, o) PROVE Ended'
    <3>1. /\ UNCHANGED <<flow, stored>> /\ status' = [status EXCEPT ![j] = "running"]
          /\ reply' = reply \/ reply' = [reply EXCEPT ![j] = "lost"]
      BY <2>2 DEF Request
    <3> QED BY <1>0, <3>1 DEF Ended, CompletedIsStored, Shapes
  <2>3. ASSUME NEW j \in Job, Poll(j) PROVE Ended'
    BY <1>3, <2>3 DEF Poll, jobs
  <2>4. ASSUME NEW n \in Row, Upload(n) \/ Delete(n) \/ CleanUp(n) PROVE Ended'
    BY <1>3, <2>4 DEF Upload, Delete, CleanUp, jobs
  <2> QED BY <1>5, <2>1, <2>2, <2>3, <2>4 DEF TableStep
<1>6. ASSUME NEW a \in Renewer, \/ StartRenewal(a) \/ EndRenewal(a)
                                \/ \E n \in Row : Renew(a, n) \/ PassOver(a, n)
      PROVE  Ended'
  <2>1. a # Worker
    BY Parameters
  <2> QED BY <1>0, <1>3, <1>6, <2>1 DEF StartRenewal, EndRenewal, Renew, PassOver, jobs
<1>7. ASSUME NEW a \in Actor, Validate(a) \/ Decide(a) PROVE Ended'
  BY <1>3, <1>7 DEF Validate, Decide, jobs
<1>8. ASSUME NEW a \in Button, Leave(a) PROVE Ended'
  <2>1. a # Worker
    BY Parameters
  <2> QED BY <1>0, <1>3, <1>8, <2>1 DEF Leave, jobs
<1> QED BY <1>1, <1>2, <1>4, <1>5, <1>6, <1>7, <1>8

-----------------------------------------------------------------------------
(* Records in the zones                                                    *)

\* The steps of the procedure of one actor.
Moves(a) ==
    \/ Step(a) \/ Fail(a) \/ LoseAccount(a)
    \/ a \in Renewer /\ (StartRenewal(a) \/ EndRenewal(a) \/ \E n \in Row : Renew(a, n) \/ PassOver(a, n))
    \/ a \in Button /\ Leave(a)

LEMMA OthersStay ==
    ASSUME Typed, NEW a \in Actor, Moves(a), NEW b \in Actor, b # a
    PROVE  flow'[b] = flow[b]
<1>0. flow \in [Actor -> Procedure]
  BY DEF Typed, Shapes
<1>1. CASE Step(a)
  <2>1. CASE \/ OpenAccount(a) \/ CreateAccount(a) \/ SaveAccount(a) \/ PlaceOrder(a)
             \/ SetReady(a) \/ Finalize(a) \/ Store(a)
    BY <1>0, <2>1 DEF OpenAccount, CreateAccount, SaveAccount, PlaceOrder, SetReady, Finalize,
                      Store, Goto
  <2>2. CASE Pass(a) \/ \E n \in Name : Authorize(a, n)
    BY <1>0, <2>2 DEF Pass, Authorize
  <2>3. CASE GiveUp(a) \/ OrderInvalid(a) \/ Finish(a)
    BY <1>0, <2>3 DEF GiveUp, OrderInvalid, Finish, End
  <2> QED BY <1>1, <2>1, <2>2, <2>3 DEF Step
<1>2. CASE Fail(a) \/ LoseAccount(a)
  BY <1>0, <1>2 DEF Fail, LoseAccount, End
<1>3. CASE StartRenewal(a) \/ EndRenewal(a) \/ \E n \in Row : Renew(a, n) \/ PassOver(a, n)
  BY <1>0, <1>3 DEF StartRenewal, EndRenewal, Renew, PassOver
<1>4. CASE Leave(a)
  BY <1>0, <1>4 DEF Leave
<1> QED BY <1>1, <1>2, <1>3, <1>4 DEF Moves

\* A step of a that leaves none of the records of a, or finds none.
LEMMA ZoneFollows ==
    ASSUME Typed, NoLeftovers, NEW a \in Actor, \A b \in Actor : b # a => flow'[b] = flow[b],
           zone' \subseteq zone, flow[a].pc \notin Proving \/ Own(a) \cap zone' = {}
    PROVE  NoLeftovers'
<1> SUFFICES ASSUME NEW r \in zone' PROVE (flow[r.by].pc \in Proving /\ r = Record(r.by))'
  BY DEF NoLeftovers, Proving
<1>1. r \in zone /\ r.by \in Actor /\ flow[r.by].pc \in Proving /\ r = Record(r.by)
  BY DEF NoLeftovers, Proving, Typed, Shapes, Txt
<1>2. r.by # a
  BY <1>1 DEF Own
<1> QED BY <1>1, <1>2 DEF Record

LEMMA AuthorizeKeepsZone ==
    ASSUME Typed, NoLeftovers, NEW a \in Actor, NEW n \in Name, Authorize(a, n)
    PROVE  NoLeftovers'
<1> DEFINE new == [provider |-> flow[a].provider, at |-> TxtAt(flow[a].provider, n), by |-> a]
           f == [flow[a] EXCEPT !.pc = IF a = Worker THEN "ready" ELSE "poll", !.at = n]
<1>0. flow \in [Actor -> Procedure] /\ zone \subseteq Txt
  BY DEF Typed, Shapes
<1>1. /\ flow' = [flow EXCEPT ![a] = f]
      /\ f.pc \in Proving /\ f.provider = flow[a].provider /\ f.at = n
  BY <1>0 DEF Authorize, Procedure, Proving
<1>2. zone' = zone \cup {new} /\ flow[a].pc \notin Proving
  BY DEF Authorize, Proving
<1> HIDE DEF f
<1>3. flow'[a] = f /\ \A b \in Actor : b # a => flow'[b] = flow[b]
  BY <1>0, <1>1
<1>4. Record(a)' = new
  BY <1>1, <1>3 DEF Record
<1> SUFFICES ASSUME NEW r \in zone' PROVE (flow[r.by].pc \in Proving /\ r = Record(r.by))'
  BY DEF NoLeftovers, Proving
<1>5. CASE r = new
  <2>1. r.by = a
    BY <1>5
  <2> QED BY <1>1, <1>3, <1>4, <1>5, <2>1
<1>6. CASE r \in zone
  <2>1. r.by \in Actor /\ flow[r.by].pc \in Proving /\ r = Record(r.by)
    BY <1>0, <1>6 DEF NoLeftovers, Proving, Txt
  <2>2. r.by # a
    BY <1>2, <2>1
  <2> QED BY <1>3, <2>1, <2>2 DEF Record
<1> QED BY <1>2, <1>5, <1>6

LEMMA MovesKeepZone ==
    ASSUME Typed, NoLeftovers, NEW a \in Actor, Moves(a)
    PROVE  NoLeftovers'
<1>0. flow \in [Actor -> Procedure] /\ \A b \in Actor : b # a => flow'[b] = flow[b]
  BY OthersStay DEF Typed, Shapes
<1>1. ASSUME NEW n \in Name, Authorize(a, n) PROVE NoLeftovers'
  BY <1>1, AuthorizeKeepsZone
<1>2. CASE SetReady(a)
  <2>1. /\ zone' = zone /\ flow'[a].pc = "poll"
        /\ flow'[a].at = flow[a].at /\ flow'[a].provider = flow[a].provider
    BY <1>0, <1>2 DEF SetReady, Goto, Procedure, dns
  <2>2. \A b \in Actor : Record(b)' = Record(b)
    BY <1>0, <2>1 DEF Record
  <2>3. \A b \in Actor : flow[b].pc \in Proving => flow'[b].pc \in Proving
    BY <1>0, <2>1 DEF Proving
  <2>4. \A r \in zone : r.by \in Actor
    BY DEF Typed, Shapes, Txt
  <2> QED BY <2>1, <2>2, <2>3, <2>4 DEF NoLeftovers, Proving
<1>3. CASE zone' = zone \ Own(a)
  BY <1>0, <1>3, ZoneFollows
<1>4. CASE flow[a].pc \notin Proving /\ zone' = zone
  BY <1>0, <1>4, ZoneFollows
<1>5. CASE Pass(a) \/ GiveUp(a) \/ Fail(a) \/ Leave(a)
  BY <1>3, <1>5 DEF Pass, GiveUp, Fail, Leave, DeleteTxt, Forsake
<1>6. CASE \/ OpenAccount(a) \/ CreateAccount(a) \/ SaveAccount(a) \/ PlaceOrder(a)
           \/ Finalize(a) \/ OrderInvalid(a) \/ Store(a) \/ Finish(a) \/ LoseAccount(a)
  BY <1>4, <1>6 DEF OpenAccount, CreateAccount, SaveAccount, PlaceOrder, Finalize, OrderInvalid,
                    Store, Finish, LoseAccount, dns, Proving
<1>7. CASE StartRenewal(a) \/ EndRenewal(a) \/ \E n \in Row : Renew(a, n) \/ PassOver(a, n)
  BY <1>4, <1>7 DEF StartRenewal, EndRenewal, Renew, PassOver, dns, Proving
<1> QED BY <1>1, <1>2, <1>5, <1>6, <1>7 DEF Moves, Step

LEMMA OtherKeepsZone ==
    ASSUME Typed, NoLeftovers,
           \/ (\E works \in BOOLEAN : StartWorker(works)) \/ Receive \/ AppendLine \/ TableStep
           \/ \E a \in Actor : Validate(a) \/ Decide(a)
           \/ UNCHANGED vars
    PROVE  NoLeftovers'
<1>0. flow \in [Actor -> Procedure] /\ Worker \in Actor /\ \A r \in zone : r.by \in Actor
  BY Parameters DEF Typed, Shapes, Txt
<1>1. CASE UNCHANGED flow /\ zone' \subseteq zone
  BY <1>1 DEF NoLeftovers, Record
<1>2. CASE AppendLine \/ UNCHANGED vars \/ \E a \in Actor : Validate(a) \/ Decide(a)
  BY <1>1, <1>2 DEF AppendLine, Validate, Decide, vars, dns
<1>3. CASE TableStep
  BY <1>1, <1>3 DEF TableStep, Wait, Poll, Request, Upload, Delete, CleanUp, dns
<1>4. CASE Receive \/ \E works \in BOOLEAN : StartWorker(works)
  <2>1. /\ zone' = zone /\ flow[Worker].pc \notin Proving
        /\ \A b \in Actor : b # Worker => flow'[b] = flow[b]
    BY <1>0, <1>4 DEF Receive, StartWorker, Goto, dns, Proving
  <2> QED BY <1>0, <2>1, ZoneFollows
<1> QED BY <1>2, <1>3, <1>4

-----------------------------------------------------------------------------
(* Accounts                                                                *)

LEMMA Disjoint ==
    ASSUME NEW S \in SUBSET Actor, NEW T \in SUBSET Actor, S \cap T = {}
    PROVE  /\ IsFiniteSet(S) /\ IsFiniteSet(T)
           /\ Cardinality(S) \in Nat /\ Cardinality(T) \in Nat /\ Cardinality(Actor) \in Nat
           /\ Cardinality(S) + Cardinality(T) <= Cardinality(Actor)
           /\ Cardinality(S) = 0 => S = {}
<1>1. IsFiniteSet(S) /\ IsFiniteSet(T) /\ IsFiniteSet(Actor)
  BY Parameters, FS_Subset
<1>2. Cardinality(S) \in Nat /\ Cardinality(T) \in Nat /\ Cardinality(Actor) \in Nat
  BY <1>1, FS_CardinalityType
<1>3. /\ IsFiniteSet(S \cup T)
      /\ Cardinality(S \cup T) = Cardinality(S) + Cardinality(T) - Cardinality(S \cap T)
  BY <1>1, FS_Union
<1>4. Cardinality(S \cap T) = 0
  BY FS_EmptySet
<1>5. S \cup T \in SUBSET Actor
  OBVIOUS
<1>6. Cardinality(S \cup T) <= Cardinality(Actor)
  BY <1>1, <1>5, FS_Subset
<1>7. Cardinality(S) = 0 => S = {}
  BY <1>1, FS_EmptySet
<1> QED BY <1>1, <1>2, <1>3, <1>4, <1>6, <1>7

LEMMA Sizes ==
    /\ IsFiniteSet(Saving) /\ IsFiniteSet(Creating)
    /\ Cardinality(Saving) \in Nat /\ Cardinality(Creating) \in Nat /\ Cardinality(Actor) \in Nat
    /\ Cardinality(Saving) + Cardinality(Creating) <= Cardinality(Actor)
    /\ Cardinality(Saving) = 0 => Saving = {}
<1>1. Saving \in SUBSET Actor /\ Creating \in SUBSET Actor /\ Saving \cap Creating = {}
  BY DEF Saving, Creating
<1> QED BY <1>1, Disjoint

\* An account that is about to be saved is one of those made.
LEMMA SaverMade ==
    ASSUME Typed, Accounts, NEW a \in Actor, flow[a].pc = "save"
    PROVE  made # 0
<1>1. a \in Saving
  BY DEF Saving
<1>2. Cardinality(Saving) # 0 /\ Cardinality(Saving) \in Nat /\ Cardinality(Saving) <= made
  BY <1>1, Sizes DEF Accounts
<1>3. made \in Nat
  BY DEF Typed, Shapes
<1> QED BY <1>2, <1>3

\* How the two sets follow the call of a.
LEMMA SetsFollow ==
    ASSUME Typed, NEW a \in Actor, \A b \in Actor : b # a => flow'[b] = flow[b]
    PROVE  /\ Saving' = IF flow'[a].pc = "save" THEN Saving \cup {a} ELSE Saving \ {a}
           /\ Creating' = IF flow'[a].pc = "create" THEN Creating \cup {a} ELSE Creating \ {a}
<1>1. CASE flow'[a].pc = "save"
  BY <1>1 DEF Saving, Creating
<1>2. CASE flow'[a].pc # "save"
  BY <1>2 DEF Saving, Creating
<1> QED BY <1>1, <1>2

\* A step of a that makes no account and begins or ends nothing that has to do with one.
LEMMA AccountsFollow ==
    ASSUME Typed, Accounts, NEW a \in Actor, \A b \in Actor : b # a => flow'[b] = flow[b],
           UNCHANGED accounts, flow[a].pc # "save", flow'[a].pc \notin {"create", "save"}
    PROVE  Accounts'
<1>1. Saving' = Saving /\ Creating' = Creating \ {a}
  BY SetsFollow DEF Saving
<1>2. Cardinality(Creating') \in Nat /\ Cardinality(Creating') <= Cardinality(Creating)
  <2>1. IsFiniteSet(Creating) /\ Creating' = Creating \ {a}
    BY <1>1, Sizes
  <2>2. Cardinality(Creating') = IF a \in Creating THEN Cardinality(Creating) - 1 ELSE Cardinality(Creating)
    BY <2>1, FS_RemoveElement
  <2>3. IsFiniteSet(Creating') /\ Cardinality(Creating') \in Nat
    BY <2>1, FS_RemoveElement, FS_CardinalityType
  <2>4. Cardinality(Creating) \in Nat
    BY Sizes
  <2> QED BY <2>2, <2>3, <2>4
<1>3. saved' = saved /\ made' = made /\ made \in Nat
  BY DEF accounts, Typed, Shapes
<1> QED BY <1>1, <1>2, <1>3, Sizes DEF Accounts

\* The account that a was about to save is dropped.
LEMMA DropKeepsAccounts ==
    ASSUME Typed, Accounts, NEW a \in Actor, \A b \in Actor : b # a => flow'[b] = flow[b],
           flow[a].pc = "save", flow'[a].pc \notin {"create", "save"},
           made' = made - 1, saved' = saved
    PROVE  Accounts'
<1>1. Saving' = Saving \ {a} /\ Creating' = Creating /\ a \in Saving
  BY SetsFollow DEF Saving, Creating
<1>2. Cardinality(Saving') = Cardinality(Saving) - 1
  BY <1>1, Sizes, FS_RemoveElement
<1>3. made \in Nat
  BY DEF Typed, Shapes
<1> QED BY <1>1, <1>2, <1>3, Sizes DEF Accounts

LEMMA OpenKeepsAccounts ==
    ASSUME Typed, Accounts, NEW a \in Actor, OpenAccount(a)
    PROVE  Accounts'
<1>0. flow \in [Actor -> Procedure] /\ made \in Nat
  BY DEF Typed, Shapes
<1>1. /\ \A b \in Actor : b # a => flow'[b] = flow[b]
      /\ flow'[a].pc = (IF saved THEN "order" ELSE "create")
      /\ saved' = saved /\ made' = made /\ flow[a].pc = "account"
  BY <1>0 DEF OpenAccount, Goto, Procedure, accounts
<1>2. CASE saved
  <2>1. flow'[a].pc = "order"
    BY <1>1, <1>2
  <2> QED BY <1>1, <2>1, AccountsFollow DEF accounts
<1>3. CASE ~saved
  <2>1. Saving' = Saving /\ Creating' = Creating \cup {a}
    BY <1>1, <1>3, SetsFollow DEF Saving
  <2>2. /\ Saving' \in SUBSET Actor /\ Creating' \in SUBSET Actor /\ Saving' \cap Creating' = {}
    BY DEF Saving, Creating
  <2>3. /\ Cardinality(Saving') + Cardinality(Creating') <= Cardinality(Actor)
        /\ Cardinality(Saving') \in Nat /\ Cardinality(Creating') \in Nat
    BY <2>2, Disjoint
  <2> QED BY <1>0, <1>1, <1>3, <2>1, <2>3, Sizes DEF Accounts
<1> QED BY <1>2, <1>3

LEMMA CreateKeepsAccounts ==
    ASSUME Typed, Accounts, NEW a \in Actor, CreateAccount(a)
    PROVE  Accounts'
<1>0. flow \in [Actor -> Procedure] /\ made \in Nat
  BY DEF Typed, Shapes
<1>1. /\ \A b \in Actor : b # a => flow'[b] = flow[b]
      /\ flow'[a].pc = "save" /\ flow[a].pc = "create"
      /\ saved' = saved /\ made' = made + 1
  BY <1>0 DEF CreateAccount, Goto, Procedure
<1>2. /\ Saving' = Saving \cup {a} /\ Creating' = Creating \ {a}
      /\ a \notin Saving /\ a \in Creating
  BY <1>1, SetsFollow DEF Saving, Creating
<1>3. /\ Cardinality(Saving') = Cardinality(Saving) + 1
      /\ Cardinality(Creating') = Cardinality(Creating) - 1
  BY <1>2, Sizes, FS_AddElement, FS_RemoveElement
<1> QED BY <1>0, <1>1, <1>3, Sizes DEF Accounts

LEMMA SaveKeepsAccounts ==
    ASSUME Typed, Accounts, NEW a \in Actor, SaveAccount(a)
    PROVE  Accounts'
<1>0. flow \in [Actor -> Procedure] /\ made \in Nat
  BY DEF Typed, Shapes
<1>1. /\ \A b \in Actor : b # a => flow'[b] = flow[b]
      /\ flow'[a].pc = "order" /\ flow[a].pc = "save"
      /\ saved' = TRUE /\ made' = made
  BY <1>0 DEF SaveAccount, Goto, Procedure
<1>2. Saving' = Saving \ {a} /\ Creating' = Creating /\ a \in Saving
  BY <1>1, SetsFollow DEF Saving, Creating
<1>3. Cardinality(Saving') = Cardinality(Saving) - 1
  BY <1>2, Sizes, FS_RemoveElement
<1> QED BY <1>0, <1>1, <1>2, <1>3, Sizes DEF Accounts

LEMMA MovesKeepAccounts ==
    ASSUME Typed, Accounts, NEW a \in Actor, Moves(a)
    PROVE  Accounts'
<1>0. flow \in [Actor -> Procedure] /\ \A b \in Actor : b # a => flow'[b] = flow[b]
  BY OthersStay DEF Typed, Shapes
<1>1. CASE OpenAccount(a) \/ CreateAccount(a) \/ SaveAccount(a)
  BY <1>1, OpenKeepsAccounts, CreateKeepsAccounts, SaveKeepsAccounts
<1>2. CASE PlaceOrder(a) \/ SetReady(a) \/ Finalize(a) \/ Store(a)
  <2>1. /\ UNCHANGED accounts /\ flow[a].pc # "save" /\ flow'[a].pc \notin {"create", "save"}
    BY <1>0, <1>2 DEF PlaceOrder, SetReady, Finalize, Store, Goto, Procedure
  <2> QED BY <1>0, <2>1, AccountsFollow
<1>3. CASE Pass(a) \/ \E n \in Name : Authorize(a, n)
  <2>1. UNCHANGED accounts /\ flow[a].pc # "save"
    BY <1>3 DEF Pass, Authorize
  <2>2. flow'[a].pc \in {"wait", "authorize", "ready", "poll"}
    <3>1. CASE Pass(a)
      <4> DEFINE rest == flow[a].left \ {flow[a].at}
                 f == [flow[a] EXCEPT !.pc = IF rest = {} THEN "wait" ELSE "authorize",
                                      !.left = rest, !.at = None]
      <4>1. flow' = [flow EXCEPT ![a] = f]
        BY <1>0, <3>1 DEF Pass
      <4>2. f.pc \in {"wait", "authorize"}
        BY <1>0 DEF Procedure
      <4> HIDE DEF f
      <4> QED BY <1>0, <4>1, <4>2
    <3>2. ASSUME NEW n \in Name, Authorize(a, n) PROVE flow'[a].pc \in {"ready", "poll"}
      <4> DEFINE label == IF a = Worker THEN "ready" ELSE "poll"
      <4>1. flow' = [flow EXCEPT ![a].pc = label, ![a].at = n] /\ label \in {"ready", "poll"}
        BY <3>2 DEF Authorize
      <4> HIDE DEF label
      <4>2. flow'[a].pc = label
        BY <1>0, <4>1 DEF Procedure
      <4> QED BY <4>1, <4>2
    <3> QED BY <1>3, <3>1, <3>2
  <2> QED BY <1>0, <2>1, <2>2, AccountsFollow
<1>4. CASE GiveUp(a) \/ OrderInvalid(a) \/ Finish(a) \/ Fail(a)
  <2>1. UNCHANGED accounts /\ flow[a].pc \in Active \ {"save"}
    BY <1>4 DEF GiveUp, OrderInvalid, Finish, Fail, Calling, Active
  <2>2. PICK answer \in {"ok", "error"} : End(a, answer)
    BY <1>4 DEF GiveUp, OrderInvalid, Finish, Fail
  <2>3. flow'[a].pc \in {"idle", "next"}
    BY <2>1, <2>2, EndFits DEF Typed
  <2> QED BY <1>0, <2>1, <2>3, AccountsFollow
<1>5. CASE LoseAccount(a)
  <2>1. flow[a].pc \in Active /\ End(a, "error")
    BY <1>5 DEF LoseAccount, Active
  <2>2. flow'[a].pc \in {"idle", "next"}
    BY <2>1, EndFits DEF Typed
  <2> QED BY <1>0, <1>5, <2>2, DropKeepsAccounts DEF LoseAccount
<1>6. CASE a \in Renewer /\ (StartRenewal(a) \/ EndRenewal(a) \/ \E n \in Row : Renew(a, n) \/ PassOver(a, n))
  <2>1. UNCHANGED accounts /\ flow[a].pc \in {"idle", "next"}
    BY <1>6 DEF StartRenewal, EndRenewal, Renew, PassOver
  <2>2. flow'[a].pc \in {"next", "account", "idle"}
    <3>1. CASE StartRenewal(a)
      <4>1. PICK p \in Provider : flow'[a] = [NoFlow EXCEPT !.pc = "next", !.provider = p, !.todo = Row]
        BY <1>0, <3>1 DEF StartRenewal
      <4> QED BY <4>1 DEF NoFlow
    <3>2. CASE EndRenewal(a)
      BY <1>0, <3>2, Blanks DEF EndRenewal
    <3>3. ASSUME NEW n \in Row, Renew(a, n) PROVE flow'[a].pc = "account"
      <4> DEFINE o == [primary |-> n, names |-> {n}]
                 f == [flow[a] EXCEPT !.pc = "account", !.order = o, !.left = {n},
                                      !.todo = flow[a].todo \ {n}]
      <4>1. flow' = [flow EXCEPT ![a] = f]
        BY <1>0, <3>3 DEF Renew
      <4>2. f.pc = "account"
        BY <1>0 DEF Procedure
      <4> HIDE DEF f
      <4> QED BY <1>0, <4>1, <4>2
    <3>4. ASSUME NEW n \in Row, PassOver(a, n) PROVE flow'[a].pc = "next"
      BY <1>0, <3>4 DEF PassOver, Procedure
    <3> QED BY <1>6, <3>1, <3>2, <3>3, <3>4
  <2> QED BY <1>0, <2>1, <2>2, AccountsFollow
<1>7. CASE Leave(a)
  <2>1. flow'[a].pc = "idle" /\ saved' = saved
    BY <1>0, <1>7, Blanks DEF Leave
  <2>2. CASE flow[a].pc = "save"
    BY <1>0, <1>7, <2>1, <2>2, DropKeepsAccounts DEF Leave
  <2>3. CASE flow[a].pc # "save"
    BY <1>0, <1>7, <2>1, <2>3, AccountsFollow DEF Leave, accounts
  <2> QED BY <2>2, <2>3
<1> QED BY <1>1, <1>2, <1>3, <1>4, <1>5, <1>6, <1>7 DEF Moves, Step

LEMMA OtherKeepsAccounts ==
    ASSUME Typed, Accounts,
           \/ (\E works \in BOOLEAN : StartWorker(works)) \/ Receive \/ AppendLine \/ TableStep
           \/ \E a \in Actor : Validate(a) \/ Decide(a)
           \/ UNCHANGED vars
    PROVE  Accounts'
<1>0. flow \in [Actor -> Procedure] /\ Worker \in Actor
  BY Parameters DEF Typed, Shapes
<1>1. CASE UNCHANGED flow /\ UNCHANGED accounts
  BY <1>1 DEF Accounts, Saving, Creating, accounts
<1>2. CASE AppendLine \/ UNCHANGED vars \/ \E a \in Actor : Validate(a) \/ Decide(a)
  BY <1>1, <1>2 DEF AppendLine, Validate, Decide, vars
<1>3. CASE TableStep
  BY <1>1, <1>3 DEF TableStep, Wait, Poll, Request, Upload, Delete, CleanUp
<1>4. CASE Receive \/ \E works \in BOOLEAN : StartWorker(works)
  <2>1. /\ UNCHANGED accounts /\ flow[Worker].pc # "save"
        /\ \A b \in Actor : b # Worker => flow'[b] = flow[b]
    BY <1>0, <1>4 DEF Receive, StartWorker, Goto
  <2>2. flow'[Worker].pc \in {"account", "idle", "dead"}
    <3>1. CASE Receive
      BY <1>0, <3>1 DEF Receive, NoFlow
    <3>2. ASSUME NEW works \in BOOLEAN, StartWorker(works) PROVE flow'[Worker].pc \in {"idle", "dead"}
      <4>1. PICK label \in {"idle", "dead"} : Goto(Worker, label)
        BY <3>2 DEF StartWorker
      <4> QED BY <1>0, <4>1 DEF Goto, Procedure
    <3> QED BY <1>4, <3>1, <3>2
  <2> QED BY <1>0, <2>1, <2>2, AccountsFollow
<1> QED BY <1>2, <1>3, <1>4

-----------------------------------------------------------------------------
(* Log lines                                                               *)

\* Sequences of lines, and what the steps do to them.
LEMMA SpawnedType ==
    ASSUME Typed
    PROVE  /\ spawned \in Seq([job : Job, line : Nat]) /\ Len(spawned) \in Nat
           /\ \A i \in 1..Len(spawned) : spawned[i].job \in Job /\ spawned[i].line \in Nat
<1>1. spawned \in Seq([job : Job, line : Nat])
  BY DEF Typed, Queues
<1>2. \A i \in 1..Len(spawned) : spawned[i] \in [job : Job, line : Nat]
  BY <1>1, ElementOfSeq
<1>3. Len(spawned) \in Nat
  BY <1>1, LenProperties
<1>4. \A i \in 1..Len(spawned) : spawned[i].job \in Job /\ spawned[i].line \in Nat
  BY <1>2
<1> QED BY <1>1, <1>3, <1>4

LEMMA JobTypes ==
    ASSUME Typed
    PROVE  /\ said \in [Job -> Nat]
           /\ buffer \in [Job -> Seq(Nat)] /\ shown \in [Job -> Seq(Nat)]
           /\ \A j \in Job : Len(buffer[j]) \in Nat /\ Len(shown[j]) \in Nat
<1>1. said \in [Job -> Nat] /\ buffer \in [Job -> Seq(Nat)] /\ shown \in [Job -> Seq(Nat)]
  BY DEF Typed, Queues
<1>2. \A j \in Job : Len(buffer[j]) \in Nat /\ Len(shown[j]) \in Nat
  BY <1>1, LenProperties
<1> QED BY <1>1, <1>2

\* A job whose lines are where they were.
LEMMA SameLines ==
    ASSUME Lines, UNCHANGED logs
    PROVE  Lines'
<1>1. said' = said /\ spawned' = spawned /\ buffer' = buffer /\ shown' = shown
  BY DEF logs
<1>2. ASSUME NEW j \in Job PROVE Numbered(j)' <=> Numbered(j)
  BY <1>1, Zenon DEF Numbered
<1> QED BY <1>2 DEF Lines

LEMMA SayKeepsLines ==
    ASSUME Typed, Lines, NEW a \in Actor, flow[a].pc \in Active, Say(a)
    PROVE  Lines'
<1>1. CASE a # Worker
  BY <1>1, SameLines DEF Say
<1>2. CASE a = Worker
  <2> DEFINE k == flow[a].job
             n == said[k] + 1
             line == [job |-> k, line |-> n]
  <2>1. k \in Job
    BY <1>2 DEF Typed, Employed
  <2>2. said' = [said EXCEPT ![k] = n] /\ UNCHANGED <<buffer, shown>> /\ spawned' = Append(spawned, line)
    BY <1>2 DEF Say
  <2>3. line.job = k /\ line.line = n
    OBVIOUS
  <2> HIDE DEF k
  <2>4. n \in Nat /\ n = said[k] + 1 /\ said[k] \in Nat
    BY <2>1, SpawnedType, JobTypes
  <2>5. line \in [job : Job, line : Nat]
    BY <2>1, <2>4
  <2> HIDE DEF line, n
  <2>6. /\ Len(spawned') = Len(spawned) + 1
        /\ \A i \in 1..Len(spawned) : spawned'[i] = spawned[i]
        /\ spawned'[Len(spawned) + 1] = line
    BY <2>2, <2>5, SpawnedType, JobTypes, AppendProperties
  <2>7. said'[k] = n /\ \A j \in Job : j # k => said'[j] = said[j]
    BY <2>1, <2>2, SpawnedType, JobTypes
  <2> SUFFICES ASSUME NEW j \in Job PROVE Numbered(j)'
    BY DEF Lines
  <2> DEFINE s == Len(spawned)
             m == Len(shown[j]) + Len(buffer[j])
  <2>8. s \in Nat /\ m \in Nat /\ said[j] \in Nat
    BY SpawnedType, JobTypes
  <2>9. Numbered(j)
    BY DEF Lines
  <2>10. /\ \A i \in 1..Len(shown[j]) : shown[j][i] = i
         /\ \A i \in 1..Len(buffer[j]) : buffer[j][i] = Len(shown[j]) + i
         /\ m <= said[j]
         /\ \A i \in 1..s : spawned[i].job = j => spawned[i].line \in (m + 1)..said[j]
         /\ \A i, h \in 1..s :
                i < h /\ spawned[i].job = j /\ spawned[h].job = j => spawned[i].line < spawned[h].line
         /\ \A l \in (m + 1)..said[j] : \E i \in 1..s : spawned[i].job = j /\ spawned[i].line = l
    BY <2>9 DEF Numbered
  <2>11. said[j] <= said'[j] /\ said'[j] \in Nat /\ (j = k => said'[j] = said[j] + 1)
    BY <2>1, <2>4, <2>7, <2>8
  <2>12. (Len(shown[j]) + Len(buffer[j]))' = m /\ UNCHANGED <<shown, buffer>>
    BY <2>2
  <2> HIDE DEF s, m
  <2>13. Len(spawned') = s + 1 /\ \A i \in 1..s : spawned'[i] = spawned[i] /\ spawned'[s + 1] = line
    BY <2>6 DEF s
  <2>14. \A i \in 1..(s + 1) : i \in 1..s \/ i = s + 1
    BY <2>8
  <2>15. \A i \in 1..(s + 1) : spawned'[i].job = j => spawned'[i].line \in (m + 1)..said'[j]
    <3> SUFFICES ASSUME NEW i \in 1..(s + 1), spawned'[i].job = j
                 PROVE  spawned'[i].line \in (m + 1)..said'[j]
      OBVIOUS
    <3>1. CASE i \in 1..s
      <4>1. spawned[i].line \in (m + 1)..said[j]
        BY <2>10, <2>13, <3>1
      <4>2. spawned'[i].line = spawned[i].line
        BY <2>13, <3>1
      <4> QED BY <2>8, <2>11, <4>1, <4>2
    <3>2. CASE i = s + 1
      <4>1. spawned'[i] = line
        BY <2>6, <3>2 DEF s
      <4>2. j = k /\ spawned'[i].line = n
        BY <2>3, <4>1
      <4> QED BY <2>4, <2>8, <2>10, <2>11, <4>2
    <3> QED BY <2>14, <3>1, <3>2
  <2>16. \A i, h \in 1..(s + 1) :
             i < h /\ spawned'[i].job = j /\ spawned'[h].job = j => spawned'[i].line < spawned'[h].line
    <3> SUFFICES ASSUME NEW i \in 1..(s + 1), NEW h \in 1..(s + 1), i < h,
                        spawned'[i].job = j, spawned'[h].job = j
                 PROVE  spawned'[i].line < spawned'[h].line
      OBVIOUS
    <3>1. i \in 1..s
      BY <2>8
    <3>2. spawned[i].job = j /\ spawned'[i].line = spawned[i].line
      BY <2>13, <3>1
    <3>3. CASE h \in 1..s
      <4>1. spawned[h].job = j /\ spawned'[h].line = spawned[h].line
        BY <2>13, <3>3
      <4> QED BY <2>10, <3>1, <3>2, <3>3, <4>1
    <3>4. CASE h = s + 1
      <4>1. spawned'[h] = line
        BY <2>6, <3>4 DEF s
      <4>2. j = k /\ spawned'[h].line = n
        BY <2>3, <4>1
      <4>3. spawned[i].line \in (m + 1)..said[j]
        BY <2>10, <3>1, <3>2
      <4> QED BY <2>4, <2>8, <3>2, <4>2, <4>3
    <3> QED BY <2>14, <3>3, <3>4
  <2>17. \A l \in (m + 1)..said'[j] : \E i \in 1..(s + 1) : spawned'[i].job = j /\ spawned'[i].line = l
    <3> SUFFICES ASSUME NEW l \in (m + 1)..said'[j]
                 PROVE  \E i \in 1..(s + 1) : spawned'[i].job = j /\ spawned'[i].line = l
      OBVIOUS
    <3>1. CASE l \in (m + 1)..said[j]
      <4>1. PICK i \in 1..s : spawned[i].job = j /\ spawned[i].line = l
        BY <2>10, <3>1
      <4>2. spawned'[i] = spawned[i] /\ i \in 1..(s + 1)
        BY <2>8, <2>13
      <4> QED BY <4>1, <4>2
    <3>2. CASE l \notin (m + 1)..said[j]
      <4>1. l > said[j]
        BY <2>8, <2>11, <3>2
      <4>2. said'[j] # said[j]
        BY <2>8, <4>1
      <4>3. j = k /\ said'[j] = said[j] + 1
        BY <2>7, <2>11, <4>2
      <4>4. l = n
        BY <2>4, <2>8, <4>1, <4>3
      <4>5. spawned'[s + 1] = line /\ s + 1 \in 1..(s + 1)
        BY <2>6, <2>8 DEF s
      <4>6. spawned'[s + 1].job = j /\ spawned'[s + 1].line = l
        BY <2>3, <4>3, <4>4, <4>5
      <4> QED BY <4>5, <4>6
    <3> QED BY <3>1, <3>2
  <2>18. m <= said'[j]
    BY <2>8, <2>10, <2>11
  <2> QED BY <2>10, <2>12, <2>13, <2>15, <2>16, <2>17, <2>18 DEF Numbered, m
<1> QED BY <1>1, <1>2

\* The first line of a gapless, growing numbering.
LEMMA FirstIsNext ==
    ASSUME NEW sp, NEW s \in Nat, 1 \in 1..s, NEW j, sp[1].job = j,
           NEW m \in Nat, NEW top \in Nat,
           \A i \in 1..s : sp[i].job = j => sp[i].line \in (m + 1)..top,
           \A i, h \in 1..s : i < h /\ sp[i].job = j /\ sp[h].job = j => sp[i].line < sp[h].line,
           \A l \in (m + 1)..top : \E i \in 1..s : sp[i].job = j /\ sp[i].line = l
    PROVE  sp[1].line = m + 1 /\ m + 1 <= top
<1>1. sp[1].line \in (m + 1)..top
  OBVIOUS
<1>2. m + 1 \in (m + 1)..top
  BY <1>1
<1>3. PICK i \in 1..s : sp[i].job = j /\ sp[i].line = m + 1
  BY <1>2
<1>4. CASE 1 < i
  <2>1. sp[1].line < m + 1
    BY <1>3, <1>4
  <2> QED BY <1>1, <2>1
<1>5. CASE i = 1
  BY <1>2, <1>3, <1>5
<1> QED BY <1>4, <1>5

\* The next line of the runtime is the first of its job that has not been buffered.
LEMMA NextLine ==
    ASSUME Typed, Lines, spawned # <<>>, NEW j, j = spawned[1].job
    PROVE  /\ 1 \in 1..Len(spawned) /\ j \in Job
           /\ spawned[1].line = Len(shown[j]) + Len(buffer[j]) + 1
           /\ spawned[1].line <= said[j]
<1> DEFINE s == Len(spawned)
           m == Len(shown[j]) + Len(buffer[j])
           top == said[j]
<1>1. 1 \in 1..s /\ s \in Nat
  BY SpawnedType, EmptySeq
<1>2. j \in Job
  BY <1>1, SpawnedType
<1>3. m \in Nat /\ top \in Nat
  BY <1>2, JobTypes
<1>4. Numbered(j)
  BY <1>2 DEF Lines
<1>5. /\ \A i \in 1..s : spawned[i].job = j => spawned[i].line \in (m + 1)..top
      /\ \A i, h \in 1..s :
             i < h /\ spawned[i].job = j /\ spawned[h].job = j => spawned[i].line < spawned[h].line
      /\ \A l \in (m + 1)..top : \E i \in 1..s : spawned[i].job = j /\ spawned[i].line = l
  BY <1>4 DEF Numbered
<1> HIDE DEF s, m, top
<1>6. spawned[1].line = m + 1 /\ m + 1 <= top
  BY <1>1, <1>3, <1>5, FirstIsNext
<1> QED BY <1>1, <1>2, <1>6 DEF s, m, top

LEMMA AppendKeepsLines ==
    ASSUME Typed, Lines, AppendLine
    PROVE  Lines'
<1> DEFINE r == spawned[1]
           k == r.job
           s == Len(spawned)
<1>0. spawned # <<>>
  BY DEF AppendLine
<1>1. /\ k \in Job /\ r.line \in Nat /\ s \in Nat \ {0}
      /\ r.line = Len(shown[k]) + Len(buffer[k]) + 1 /\ r.line <= said[k]
  <2>1. /\ 1 \in 1..s /\ k \in Job /\ r.line = Len(shown[k]) + Len(buffer[k]) + 1
        /\ r.line <= said[k]
    BY <1>0, NextLine
  <2>2. s \in Nat \ {0}
    BY <2>1, SpawnedType
  <2>3. r.line \in Nat
    BY <2>1, SpawnedType
  <2> QED BY <2>1, <2>2, <2>3
<1>2. /\ Head(spawned) = r /\ Tail(spawned) \in Seq([job : Job, line : Nat])
      /\ Len(Tail(spawned)) = s - 1
      /\ \A i \in 1..(s - 1) : Tail(spawned)[i] = spawned[i + 1]
  BY <1>0, SpawnedType, HeadTailProperties
<1>3. /\ spawned' = Tail(spawned) /\ UNCHANGED <<said, shown>>
      /\ buffer' = [buffer EXCEPT ![k] = Append(@, r.line)]
  BY <1>2 DEF AppendLine
<1>4. /\ Len(Append(buffer[k], r.line)) = Len(buffer[k]) + 1
      /\ \A i \in 1..Len(buffer[k]) : Append(buffer[k], r.line)[i] = buffer[k][i]
      /\ Append(buffer[k], r.line)[Len(buffer[k]) + 1] = r.line
  BY <1>1, JobTypes, AppendProperties
<1>5. buffer'[k] = Append(buffer[k], r.line) /\ \A j \in Job : j # k => buffer'[j] = buffer[j]
  BY <1>1, <1>3, JobTypes
<1>6. /\ Len(spawned') = s - 1
      /\ \A i \in 1..(s - 1) : i + 1 \in 1..s /\ spawned'[i] = spawned[i + 1]
  BY <1>1, <1>2, <1>3
<1> SUFFICES ASSUME NEW j \in Job PROVE Numbered(j)'
  BY DEF Lines
<1> DEFINE n == Len(shown[j])
           b == Len(buffer[j])
<1>7. n \in Nat /\ b \in Nat /\ said[j] \in Nat
  BY JobTypes
<1>8. /\ \A i \in 1..n : shown[j][i] = i
      /\ \A i \in 1..b : buffer[j][i] = n + i
      /\ n + b <= said[j]
      /\ \A i \in 1..s : spawned[i].job = j => spawned[i].line \in (n + b + 1)..said[j]
      /\ \A i, h \in 1..s :
             i < h /\ spawned[i].job = j /\ spawned[h].job = j => spawned[i].line < spawned[h].line
      /\ \A l \in (n + b + 1)..said[j] : \E i \in 1..s : spawned[i].job = j /\ spawned[i].line = l
  BY DEF Lines, Numbered
<1>9. 1 \in 1..s
  BY <1>1
<1>14. Len(shown[j]) = n /\ Len(buffer[j]) = b
  OBVIOUS
<1> HIDE DEF s, n, b
<1>10. \A i, h \in 1..(s - 1) :
           i < h /\ spawned'[i].job = j /\ spawned'[h].job = j => spawned'[i].line < spawned'[h].line
  BY <1>1, <1>6, <1>8
<1>11. \A i \in 1..s : i = 1 \/ (i - 1 \in 1..(s - 1) /\ spawned'[i - 1] = spawned[i])
  BY <1>1, <1>6
<1>12. CASE j # k
  <2>1. buffer'[j] = buffer[j]
    BY <1>5, <1>12
  <2>2. \A i \in 1..(s - 1) : spawned'[i].job = j => spawned'[i].line \in (n + b + 1)..said[j]
    BY <1>6, <1>8
  <2>3. \A l \in (n + b + 1)..said[j] : \E i \in 1..(s - 1) : spawned'[i].job = j /\ spawned'[i].line = l
    <3> SUFFICES ASSUME NEW l \in (n + b + 1)..said[j]
                 PROVE  \E i \in 1..(s - 1) : spawned'[i].job = j /\ spawned'[i].line = l
      OBVIOUS
    <3>1. PICK i \in 1..s : spawned[i].job = j /\ spawned[i].line = l
      BY <1>8
    <3>2. i # 1
      BY <1>12, <3>1
    <3> QED BY <1>11, <3>1, <3>2
  <2> QED BY <1>3, <1>6, <1>8, <1>10, <1>14, <2>1, <2>2, <2>3 DEF Numbered
<1>13. CASE j = k
  <2>1. /\ Len(buffer'[j]) = b + 1 /\ r.line = n + b + 1
        /\ \A i \in 1..b : buffer'[j][i] = buffer[j][i]
        /\ buffer'[j][b + 1] = r.line
    BY <1>1, <1>4, <1>5, <1>13, <1>14
  <2>2. \A i \in 1..(b + 1) : buffer'[j][i] = n + i
    <3> SUFFICES ASSUME NEW i \in 1..(b + 1) PROVE buffer'[j][i] = n + i
      OBVIOUS
    <3>1. i \in 1..b \/ i = b + 1
      BY <1>7
    <3>2. CASE i \in 1..b
      BY <1>8, <2>1, <3>2
    <3>3. CASE i = b + 1
      BY <1>7, <2>1, <3>3
    <3> QED BY <3>1, <3>2, <3>3
  <2>3. n + (b + 1) <= said[j] /\ n + (b + 1) + 1 = n + b + 2
    <3>1. r.line <= said[j]
      BY <1>1, <1>13
    <3> QED BY <1>7, <2>1, <3>1
  <2>4. \A i \in 1..(s - 1) : spawned'[i].job = j => spawned'[i].line \in (n + b + 2)..said[j]
    <3> SUFFICES ASSUME NEW i \in 1..(s - 1), spawned'[i].job = j
                 PROVE  spawned'[i].line \in (n + b + 2)..said[j]
      OBVIOUS
    <3>1. i + 1 \in 1..s /\ 1 < i + 1 /\ spawned'[i] = spawned[i + 1]
      BY <1>1, <1>6
    <3>2. spawned[1].line < spawned[i + 1].line /\ spawned[i + 1].line \in (n + b + 1)..said[j]
      BY <1>8, <1>9, <1>13, <3>1
    <3> QED BY <1>7, <2>1, <3>1, <3>2
  <2>5. \A l \in (n + b + 2)..said[j] : \E i \in 1..(s - 1) : spawned'[i].job = j /\ spawned'[i].line = l
    <3> SUFFICES ASSUME NEW l \in (n + b + 2)..said[j]
                 PROVE  \E i \in 1..(s - 1) : spawned'[i].job = j /\ spawned'[i].line = l
      OBVIOUS
    <3>1. l \in (n + b + 1)..said[j] /\ l # n + b + 1
      BY <1>7
    <3>2. PICK i \in 1..s : spawned[i].job = j /\ spawned[i].line = l
      BY <1>8, <3>1
    <3>3. i # 1
      BY <2>1, <3>1, <3>2
    <3> QED BY <1>11, <3>2, <3>3
  <2> QED BY <1>3, <1>6, <1>8, <1>10, <1>14, <2>1, <2>2, <2>3, <2>4, <2>5 DEF Numbered
<1> QED BY <1>12, <1>13

\* What a poll leaves: all lines up to the last one buffered.
LEMMA PollShows ==
    ASSUME Typed, Lines, NEW j \in Job, Poll(j)
    PROVE  /\ shown'[j] \in Seq(Nat) /\ Len(shown'[j]) = Len(shown[j]) + Len(buffer[j])
           /\ \A i \in 1..Len(shown'[j]) : shown'[j][i] = i
           /\ buffer'[j] = <<>> /\ Len(buffer'[j]) = 0
           /\ \A k \in Job : k # j => buffer'[k] = buffer[k] /\ shown'[k] = shown[k]
           /\ Len(buffer[j]) > 0
<1> DEFINE old == shown[j]
           new == buffer[j]
           n == Len(old)
           b == Len(new)
<1>1. old \in Seq(Nat) /\ new \in Seq(Nat) /\ n \in Nat /\ b \in Nat
  BY JobTypes
<1>2. /\ old \o new \in Seq(Nat) /\ Len(old \o new) = n + b
      /\ \A i \in 1..(n + b) : (old \o new)[i] = IF i <= n THEN old[i] ELSE new[i - n]
  BY <1>1, ConcatProperties
<1>3. /\ shown' = [shown EXCEPT ![j] = shown[j] \o buffer[j]]
      /\ buffer' = [buffer EXCEPT ![j] = <<>>] /\ new # <<>>
  BY DEF Poll, Drained
<1>4. /\ shown'[j] = old \o new /\ buffer'[j] = <<>>
      /\ \A k \in Job : k # j => buffer'[k] = buffer[k] /\ shown'[k] = shown[k]
  BY <1>3, JobTypes
<1>5. b > 0 /\ Len(buffer'[j]) = 0
  BY <1>1, <1>3, <1>4, EmptySeq
<1>6. /\ \A i \in 1..n : old[i] = i
      /\ \A i \in 1..b : new[i] = n + i
  BY DEF Lines, Numbered
<1> DEFINE all == old \o new
<1> HIDE DEF old, new, n, b, all
<1>7. \A i \in 1..(n + b) : all[i] = i
  <2> SUFFICES ASSUME NEW i \in 1..(n + b) PROVE all[i] = i
    OBVIOUS
  <2>1. CASE i <= n
    <3>1. i \in 1..n
      BY <1>1, <2>1
    <3> QED BY <1>2, <1>6, <2>1, <3>1 DEF all
  <2>2. CASE ~(i <= n)
    <3>1. i - n \in 1..b /\ n + (i - n) = i
      BY <1>1, <2>2
    <3>2. all[i] = new[i - n]
      BY <1>2, <2>2 DEF all
    <3> QED BY <1>6, <3>1, <3>2
  <2> QED BY <2>1, <2>2
<1> QED BY <1>2, <1>4, <1>5, <1>7 DEF old, new, n, b, all

LEMMA PollKeepsLines ==
    ASSUME Typed, Lines, NEW j \in Job, Poll(j)
    PROVE  Lines'
<1>1. UNCHANGED <<said, spawned>>
  BY DEF Poll
<1>2. ASSUME NEW k \in Job, k # j PROVE Numbered(k)'
  <2>1. Numbered(k) /\ buffer'[k] = buffer[k] /\ shown'[k] = shown[k]
    BY <1>2, PollShows DEF Lines
  <2> QED BY <1>1, <2>1 DEF Numbered
<1>3. Numbered(j)'
  <2> DEFINE n == Len(shown[j])
             b == Len(buffer[j])
             m == n + b
  <2>1. n \in Nat /\ b \in Nat
    BY JobTypes
  <2>2. Numbered(j)
    BY DEF Lines
  <2>3. /\ Len(shown'[j]) = m /\ Len(buffer'[j]) = 0
        /\ \A i \in 1..m : shown'[j][i] = i
    BY PollShows
  <2>4. Len(shown'[j]) + Len(buffer'[j]) = m
    BY <2>1, <2>3
  <2>5. \A i \in 1..Len(buffer'[j]) : buffer'[j][i] = m + i
    BY <2>3
  <2>6. /\ m <= said[j]
        /\ \A i \in 1..Len(spawned) : spawned[i].job = j => spawned[i].line \in (m + 1)..said[j]
        /\ \A i, h \in 1..Len(spawned) :
               i < h /\ spawned[i].job = j /\ spawned[h].job = j => spawned[i].line < spawned[h].line
        /\ \A l \in (m + 1)..said[j] : \E i \in 1..Len(spawned) :
               spawned[i].job = j /\ spawned[i].line = l
    BY <2>2 DEF Numbered
  <2> HIDE DEF m
  <2> QED BY <1>1, <2>3, <2>4, <2>5, <2>6 DEF Numbered
<1> QED BY <1>2, <1>3 DEF Lines

LEMMA MovesKeepLines ==
    ASSUME Typed, Lines, NEW a \in Actor, Moves(a)
    PROVE  Lines' /\ shown' = shown
<1>1. CASE PlaceOrder(a) \/ Finish(a)
  <2>1. flow[a].pc \in Active /\ Say(a)
    BY <1>1 DEF PlaceOrder, Finish, Active
  <2> QED BY <2>1, SayKeepsLines DEF Say, logs
<1>2. CASE UNCHANGED logs
  BY <1>2, SameLines DEF logs
<1>3. CASE Step(a) /\ ~PlaceOrder(a) /\ ~Finish(a)
  BY <1>2, <1>3 DEF Step, OpenAccount, CreateAccount, SaveAccount, Authorize, SetReady, Pass,
                    GiveUp, Finalize, OrderInvalid, Store
<1>4. CASE ~Step(a)
  BY <1>2, <1>4 DEF Moves, Fail, LoseAccount, StartRenewal, EndRenewal, Renew, PassOver, Leave
<1> QED BY <1>1, <1>3, <1>4

LEMMA OtherKeepsLines ==
    ASSUME Typed, Lines,
           \/ (\E works \in BOOLEAN : StartWorker(works)) \/ Receive \/ AppendLine \/ TableStep
           \/ \E a \in Actor : Validate(a) \/ Decide(a)
           \/ UNCHANGED vars
    PROVE  Lines'
<1>1. CASE UNCHANGED logs
  BY <1>1, SameLines
<1>2. CASE TableStep
  BY <1>1, <1>2, PollKeepsLines DEF TableStep, Wait, Request, Upload, Delete, CleanUp
<1>3. CASE \/ (\E works \in BOOLEAN : StartWorker(works)) \/ Receive \/ UNCHANGED vars
           \/ \E a \in Actor : Validate(a) \/ Decide(a)
  BY <1>1, <1>3 DEF StartWorker, Receive, Validate, Decide, vars
<1> QED BY <1>2, <1>3, AppendKeepsLines

-----------------------------------------------------------------------------
(* The invariant                                                           *)

Safe == Typed /\ Ended /\ NoLeftovers /\ Accounts /\ Lines

LEMMA SafeIsIInv == Safe <=> IInv
BY DEF Safe, IInv, Typed, TypeOK

\* Nobody has started, and the accounts are those that were saved.
LEMMA BlankSafe ==
    ASSUME Blank, made <= Cardinality(Actor), ~saved => made = 0
    PROVE  Safe
<1>1. Typed
  BY BlankTypes
<1>2. Ended
  <2>1. flow[Worker].pc # "load"
    BY BlankFlow, Parameters
  <2> QED BY <2>1 DEF Blank, Ended, CompletedIsStored
<1>3. NoLeftovers
  BY DEF Blank, NoLeftovers
<1>4. Accounts
  <2>1. Saving = {} /\ Creating = {}
    BY BlankFlow DEF Saving, Creating
  <2>2. Cardinality(Saving) = 0 /\ Cardinality(Creating) = 0
    BY <2>1, FS_EmptySet
  <2>3. made \in Nat /\ made <= Cardinality(Actor) /\ (~saved => made = 0)
    BY DEF Blank
  <2>4. Cardinality(Actor) \in Nat
    BY Sizes
  <2> QED BY <2>2, <2>3, <2>4 DEF Accounts
<1>5. Lines
  <2> SUFFICES ASSUME NEW j \in Job PROVE Numbered(j)
    BY DEF Lines
  <2>1. shown[j] = <<>> /\ buffer[j] = <<>> /\ spawned = <<>> /\ said[j] = 0
    BY DEF Blank
  <2>2. Len(shown[j]) = 0 /\ Len(buffer[j]) = 0 /\ Len(spawned) = 0
    BY <2>1
  <2> QED BY <2>1, <2>2 DEF Numbered
<1> QED BY <1>1, <1>2, <1>3, <1>4, <1>5 DEF Safe

LEMMA InitBlank ==
    ASSUME Init
    PROVE  Blank
BY Blanks DEF Init, Blank

LEMMA Initially == Init => IInv
<1> SUFFICES ASSUME Init PROVE Safe
  BY SafeIsIInv
<1>1. Blank
  BY InitBlank
<1>2. made = 0 /\ Cardinality(Actor) \in Nat
  BY Parameters, FS_CardinalityType DEF Init
<1> QED BY <1>1, <1>2, BlankSafe

LEMMA RestartBlank ==
    ASSUME Safe, Restart
    PROVE  Blank' /\ made' <= Cardinality(Actor) /\ (~saved' => made' = 0)
<1>1. /\ Cardinality(Saving) \in Nat /\ made \in Nat /\ saved \in BOOLEAN
      /\ cert \in [Row -> Certificate] /\ Accounts
  BY Sizes DEF Safe, Typed, Shapes
<1>2. made' = made - Cardinality(Saving) /\ saved' = saved /\ cert' = cert
  BY DEF Restart
<1>3. Cardinality(Saving) <= made /\ Cardinality(Creating) \in Nat /\ Cardinality(Actor) \in Nat
      /\ made + Cardinality(Creating) <= Cardinality(Actor) /\ (~saved => made = Cardinality(Saving))
  BY <1>1, Sizes DEF Accounts
<1>4. made' \in Nat /\ made' <= Cardinality(Actor) /\ (~saved' => made' = 0)
  BY <1>1, <1>2, <1>3
<1>5. saved' \in BOOLEAN /\ cert' \in [Row -> Certificate]
  BY <1>1, <1>2
<1>6. Blank'
  BY <1>4, <1>5 DEF Restart, Blank
<1> QED BY <1>4, <1>6

LEMMA RestartSafe ==
    ASSUME Safe, Restart
    PROVE  Safe'
<1>1. (Blank /\ made <= Cardinality(Actor) /\ (~saved => made = 0) => Safe)'
  BY BlankSafe, PTL
<1> QED BY <1>1, RestartBlank

LEMMA MovesSafe ==
    ASSUME Safe, NEW a \in Actor, Moves(a)
    PROVE  Safe'
<1>0. Typed /\ Ended /\ NoLeftovers /\ Accounts /\ Lines
  BY DEF Safe
<1>1. Typed'
  <2>1. flow[a].pc = "save" => made # 0
    BY <1>0, SaverMade
  <2>2. CASE Step(a)
    BY <1>0, <2>2, StepTypes
  <2>3. CASE Fail(a) \/ LoseAccount(a)
    BY <1>0, <2>1, <2>3, EndTypes DEF LoseAccount
  <2>4. CASE a \in Renewer /\ (StartRenewal(a) \/ EndRenewal(a) \/ \E n \in Row : Renew(a, n) \/ PassOver(a, n))
    BY <1>0, <2>4, RenewerTypes
  <2>5. CASE a \in Button /\ Leave(a)
    BY <1>0, <2>1, <2>5, LeaveTypes
  <2> QED BY <2>2, <2>3, <2>4, <2>5 DEF Moves
<1>2. Ended'
  <2>1. CASE Step(a) \/ Fail(a) \/ LoseAccount(a)
    BY <1>0, <2>1, GoingOnKeepsEnded, EndingKeepsEnded, StoreKeepsEnded DEF Step
  <2>2. CASE \/ a \in Renewer /\ (StartRenewal(a) \/ EndRenewal(a) \/ \E n \in Row : Renew(a, n) \/ PassOver(a, n))
             \/ a \in Button /\ Leave(a)
    BY <1>0, <2>2, OtherKeepsEnded
  <2> QED BY <2>1, <2>2 DEF Moves
<1>3. NoLeftovers'
  BY <1>0, MovesKeepZone
<1>4. Accounts'
  BY <1>0, MovesKeepAccounts
<1>5. Lines'
  BY <1>0, MovesKeepLines
<1> QED BY <1>1, <1>2, <1>3, <1>4, <1>5 DEF Safe

LEMMA OtherSafe ==
    ASSUME Safe,
           \/ (\E works \in BOOLEAN : StartWorker(works)) \/ Receive \/ AppendLine \/ TableStep
           \/ \E a \in Actor : Validate(a) \/ Decide(a)
           \/ UNCHANGED vars
    PROVE  Safe'
<1>0. Typed /\ Ended /\ NoLeftovers /\ Accounts /\ Lines
  BY DEF Safe
<1>1. Typed'
  <2>1. CASE (\E works \in BOOLEAN : StartWorker(works)) \/ Receive
    BY <1>0, <2>1, WorkerTypes
  <2>2. CASE AppendLine \/ TableStep \/ \E a \in Actor : Validate(a) \/ Decide(a)
    BY <1>0, <2>2, AppendTypes, TableTypes, ServerTypes
  <2>3. CASE UNCHANGED vars
    <3>1. Shapes /\ Queues /\ Employed
      BY <1>0 DEF Typed
    <3>2. UNCHANGED <<jobs, logs, flow, acme, accounts, dns, cert, stored>>
      BY <2>3 DEF vars
    <3>3. Shapes'
      BY <3>1, <3>2 DEF Shapes, jobs, accounts, dns
    <3> QED BY <3>1, <3>2, <3>3, QuietQueues, StillEmployed DEF Typed, jobs
  <2> QED BY <2>1, <2>2, <2>3
<1>2. Ended'
  BY <1>0, OtherKeepsEnded
<1>3. NoLeftovers'
  BY <1>0, OtherKeepsZone
<1>4. Accounts'
  BY <1>0, OtherKeepsAccounts
<1>5. Lines'
  BY <1>0, OtherKeepsLines
<1> QED BY <1>1, <1>2, <1>3, <1>4, <1>5 DEF Safe

\* Every step is one of these.
LEMMA Kinds ==
    ASSUME [Next]_vars
    PROVE  \/ \E a \in Actor : Moves(a)
           \/ (\E works \in BOOLEAN : StartWorker(works)) \/ Receive \/ AppendLine \/ TableStep
           \/ \E a \in Actor : Validate(a) \/ Decide(a)
           \/ Restart \/ UNCHANGED vars
BY Parameters DEF Next, Moves, TableStep

LEMMA Inductive == IInv /\ [Next]_vars => IInv'
<1> SUFFICES ASSUME Safe, [Next]_vars PROVE Safe'
  <2>1. (Safe <=> IInv)'
    BY SafeIsIInv, PTL
  <2> QED BY <2>1, SafeIsIInv
<1> QED BY Kinds, MovesSafe, OtherSafe, RestartSafe

LEMMA Invariant == Spec => []IInv
BY Initially, Inductive, PTL DEF Spec

\* The variables keep their types, whatever the procedures, the panel and the server do in
\* between.
THEOREM TypeCorrect == Spec => []TypeOK
<1>1. IInv => TypeOK
  BY DEF IInv
<1> QED BY <1>1, Invariant, PTL

\* A job that is called completed has put its certificate into the table: for any number of
\* jobs and renewals (api/settings.rs:723-753, ssl_worker.rs:69-84).
THEOREM CompletedAreStored == Spec => []CompletedIsStored
<1>1. IInv => CompletedIsStored
  BY DEF IInv, Ended
<1> QED BY <1>1, Invariant, PTL

\* Only authorizations that are being decided have a record, other than what failed calls left
\* (ssl.rs:247-300, 431-484).
THEOREM NoRecordsLeft == Spec => []NoLeftovers
<1>1. IInv => NoLeftovers
  BY DEF IInv
<1> QED BY <1>1, Invariant, PTL

\* There are never more accounts than actors, though nothing keeps two of them from creating
\* one at once (ssl.rs:334-356).
THEOREM AccountsAreFew == Spec => []FewAccounts
<1>1. IInv => FewAccounts
  <2> SUFFICES ASSUME IInv PROVE FewAccounts
    OBVIOUS
  <2>1. made \in Nat /\ made + Cardinality(Creating) <= Cardinality(Actor)
    BY DEF IInv, TypeOK, Shapes, Accounts
  <2> QED BY <2>1, Sizes DEF FewAccounts
<1> QED BY <1>1, Invariant, PTL

-----------------------------------------------------------------------------
(* Jobs and the worker                                                     *)

\* A worker that serves nothing has no job in hand, and only jobs that are there are answered.
Answering ==
    /\ NoneForgotten
    /\ flow[Worker].pc \notin Active => flow[Worker].job = None
    /\ \A j \in Job : reply[j] # "" => status[j] # "none"

\* The jobs stay where they are.
LEMMA SameAnswering ==
    ASSUME Answering, UNCHANGED jobs, flow'[Worker].job = flow[Worker].job,
           flow'[Worker].pc \in Active \/ flow'[Worker].pc = flow[Worker].pc
    PROVE  Answering'
<1>1. UNCHANGED <<status, queue, reply>> /\ "dead" \notin Active
  BY DEF jobs, Active
<1>2. Awaited' = Awaited /\ Queued' = Queued /\ Served' = Served
  BY <1>1 DEF Awaited, Queued, Served
<1> QED BY <1>1, <1>2 DEF Answering, NoneForgotten

\* A procedure of the worker that goes on keeps its job.
LEMMA WorkerGoesOn ==
    ASSUME Typed, Answering,
           \/ OpenAccount(Worker) \/ CreateAccount(Worker) \/ SaveAccount(Worker) \/ PlaceOrder(Worker)
           \/ SetReady(Worker) \/ Finalize(Worker) \/ Pass(Worker) \/ Store(Worker)
           \/ \E n \in Name : Authorize(Worker, n)
    PROVE  Answering'
<1>0. flow \in [Actor -> Procedure] /\ Worker \in Actor /\ flow[Worker] \in Procedure
  BY Parameters DEF Typed, Shapes
<1>1. UNCHANGED jobs
  BY DEF OpenAccount, CreateAccount, SaveAccount, PlaceOrder, SetReady, Finalize, Pass, Store, Authorize
<1>2. CASE \/ OpenAccount(Worker) \/ CreateAccount(Worker) \/ SaveAccount(Worker)
           \/ PlaceOrder(Worker) \/ SetReady(Worker) \/ Finalize(Worker) \/ Store(Worker)
  <2>1. PICK label \in Active : Goto(Worker, label)
    BY <1>2 DEF OpenAccount, CreateAccount, SaveAccount, PlaceOrder, SetReady, Finalize, Store, Active
  <2>2. flow'[Worker].job = flow[Worker].job /\ flow'[Worker].pc = label
    BY <1>0, <2>1 DEF Goto, Procedure
  <2> QED BY <1>1, <2>2, SameAnswering
<1>3. CASE Pass(Worker)
  <2> DEFINE rest == flow[Worker].left \ {flow[Worker].at}
             label == IF rest = {} THEN "wait" ELSE "authorize"
             f == [flow[Worker] EXCEPT !.pc = label, !.left = rest, !.at = None]
  <2>1. f.job = flow[Worker].job /\ f.pc = label
    BY <1>0 DEF Procedure
  <2>2. flow' = [flow EXCEPT ![Worker] = f]
    BY <1>0, <1>3 DEF Pass
  <2>3. label \in Active
    BY DEF Active
  <2> HIDE DEF f, label
  <2>4. flow'[Worker] = f
    BY <1>0, <2>2
  <2> QED BY <1>1, <2>1, <2>3, <2>4, SameAnswering
<1>4. ASSUME NEW n \in Name, Authorize(Worker, n) PROVE Answering'
  <2> DEFINE f == [flow[Worker] EXCEPT !.pc = "ready", !.at = n]
  <2>1. f.job = flow[Worker].job /\ f.pc \in Active
    BY <1>0 DEF Procedure, Active
  <2>2. flow' = [flow EXCEPT ![Worker] = f]
    BY <1>0, <1>4 DEF Authorize
  <2> HIDE DEF f
  <2>3. flow'[Worker] = f
    BY <1>0, <2>2
  <2> QED BY <1>1, <2>1, <2>3, SameAnswering
<1> QED BY <1>2, <1>3, <1>4

\* The job it serves is answered, and leaves its hands.
LEMMA WorkerEnds ==
    ASSUME Typed, Answering,
           GiveUp(Worker) \/ OrderInvalid(Worker) \/ Fail(Worker) \/ LoseAccount(Worker) \/ Finish(Worker)
    PROVE  Answering'
<1> DEFINE j == flow[Worker].job
<1>0. /\ flow \in [Actor -> Procedure] /\ Worker \in Actor /\ None \notin Job
      /\ reply \in [Job -> {"", "ok", "error", "lost"}]
  BY Parameters DEF Typed, Shapes
<1>1. PICK answer \in {"ok", "error"} : flow[Worker].pc \in Active /\ End(Worker, answer)
  BY DEF GiveUp, OrderInvalid, Fail, LoseAccount, Finish, Calling, Active
<1>2. UNCHANGED <<status, queue>>
  BY DEF GiveUp, OrderInvalid, Fail, LoseAccount, Finish
<1>3. j \in Job
  BY <1>1 DEF Typed, Employed
<1>4. /\ reply' = [reply EXCEPT ![j] = answer]
      /\ flow'[Worker].pc = "idle" /\ flow'[Worker].job = None
  <2>1. [NoFlow EXCEPT !.pc = "idle"].pc = "idle" /\ [NoFlow EXCEPT !.pc = "idle"].job = None
    BY DEF NoFlow
  <2> QED BY <1>0, <1>1, <2>1 DEF End
<1>5. Served = {j} /\ Served' = {}
  BY <1>0, <1>3, <1>4 DEF Served
<1> HIDE DEF j
<1>6. Queued' = Queued /\ j \notin Queued /\ Awaited = Queued \cup {j}
  BY <1>2, <1>5 DEF Queued, Answering, NoneForgotten
<1>7. Awaited' = Awaited \ {j}
  BY <1>0, <1>2, <1>3, <1>4 DEF Awaited
<1>8. NoneForgotten'
  BY <1>2, <1>4, <1>5, <1>6, <1>7 DEF Answering, NoneForgotten
<1>9. \A k \in Job : reply'[k] # "" => status'[k] # "none"
  <2>1. status[j] # "none"
    BY <1>6 DEF Awaited
  <2> QED BY <1>0, <1>2, <1>3, <1>4, <2>1 DEF Answering
<1> QED BY <1>4, <1>8, <1>9 DEF Answering

\* The thread starts, or is gone with all it was sent.
LEMMA StartKeepsAnswering ==
    ASSUME Typed, Answering, NEW works \in BOOLEAN, StartWorker(works)
    PROVE  Answering'
<1>0. flow \in [Actor -> Procedure] /\ Worker \in Actor /\ flow[Worker] \in Procedure
  BY Parameters DEF Typed, Shapes
<1>1. flow[Worker].pc = "starting" /\ flow[Worker].job = None /\ status' = status
  BY DEF StartWorker, Answering, Active
<1>2. flow'[Worker].job = None /\ flow'[Worker].pc = (IF works THEN "idle" ELSE "dead")
  BY <1>0, <1>1 DEF StartWorker, Goto, Procedure
<1>3. Served = {} /\ Served' = {}
  BY <1>1, <1>2 DEF Served
<1>4. CASE works
  <2>1. UNCHANGED <<status, queue, reply>>
    BY <1>1, <1>4 DEF StartWorker
  <2>2. Awaited' = Awaited /\ Queued' = Queued
    BY <2>1 DEF Awaited, Queued
  <2> QED BY <1>2, <1>3, <1>4, <2>1, <2>2 DEF Answering, NoneForgotten
<1>5. CASE ~works
  <2>1. queue' = <<>> /\ reply' = [j \in Job |-> IF status[j] = "running" THEN "lost" ELSE reply[j]]
    BY <1>5 DEF StartWorker
  <2>2. Awaited' = {}
    BY <1>1, <2>1 DEF Awaited
  <2>3. Len(queue') = 0
    BY <2>1
  <2>4. Queued' = {}
    BY <2>3 DEF Queued
  <2>5. NoneForgotten'
    BY <1>3, <2>1, <2>2, <2>3, <2>4 DEF NoneForgotten
  <2>6. \A j \in Job : reply'[j] # "" => status'[j] # "none"
    BY <1>1, <2>1 DEF Answering
  <2> QED BY <1>2, <2>5, <2>6 DEF Answering
<1> QED BY <1>4, <1>5

\* The first job of the channel moves into the hands of the worker.
LEMMA ReceiveKeepsAnswering ==
    ASSUME Typed, Answering, Receive
    PROVE  Answering'
<1> DEFINE r == Head(queue)
           n == Len(queue)
<1>0. /\ flow \in [Actor -> Procedure] /\ Worker \in Actor /\ queue \in Seq(Asked) /\ None \notin Job
      /\ queue # <<>> /\ queue' = Tail(queue) /\ UNCHANGED <<status, reply>>
  BY Parameters DEF Typed, Shapes, Queues, Asked, Receive
<1>1. /\ r = queue[1] /\ n \in Nat /\ n > 0 /\ Len(queue') = n - 1
      /\ \A i \in 1..(n - 1) : queue'[i] = queue[i + 1]
  BY <1>0
<1>2. r \in Asked /\ r.job \in Job
  <2>1. r \in Asked
    BY <1>0
  <2> QED BY <2>1 DEF Asked
<1>3. flow'[Worker].job = r.job /\ flow'[Worker].pc = "account"
  BY <1>0 DEF Receive, NoFlow
<1>4. Served = {} /\ Served' = {r.job}
  <2>1. flow[Worker].job = None
    BY DEF Receive, Answering, Active
  <2> QED BY <1>0, <1>2, <1>3, <2>1 DEF Served
<1> HIDE DEF r, n
<1>5. \A i, k \in 1..n : queue[i].job = queue[k].job => i = k
  BY DEF Answering, NoneForgotten, n
<1>6. Queued = {r.job} \cup Queued'
  <2>1. Queued = {queue[i].job : i \in 1..n} /\ Queued' = {queue'[i].job : i \in 1..(n - 1)}
    BY <1>1 DEF Queued, n
  <2>2. ASSUME NEW i \in 1..n PROVE queue[i].job \in {r.job} \cup Queued'
    <3>1. CASE i = 1
      BY <1>1, <3>1
    <3>2. CASE i # 1
      <4>1. i - 1 \in 1..(n - 1) /\ (i - 1) + 1 = i
        BY <1>1, <3>2
      <4>2. queue'[i - 1] = queue[i]
        BY <1>1, <4>1
      <4> QED BY <2>1, <4>1, <4>2
    <3> QED BY <3>1, <3>2
  <2>3. ASSUME NEW i \in 1..(n - 1) PROVE queue'[i].job \in Queued
    <3>1. i + 1 \in 1..n
      BY <1>1
    <3> QED BY <1>1, <2>1, <3>1
  <2>4. r.job \in Queued
    <3>1. 1 \in 1..n
      BY <1>1
    <3> QED BY <1>1, <2>1, <3>1
  <2> QED BY <2>1, <2>2, <2>3, <2>4
<1>7. r.job \notin Queued'
  <2> SUFFICES ASSUME NEW i \in 1..(n - 1), queue'[i].job = r.job PROVE FALSE
    BY <1>1 DEF Queued
  <2>1. i + 1 \in 1..n /\ 1 \in 1..n /\ i + 1 # 1
    BY <1>1
  <2>2. queue[i + 1].job = queue[1].job
    BY <1>1
  <2> QED BY <1>5, <2>1, <2>2
<1>8. \A i, k \in 1..Len(queue') : queue'[i].job = queue'[k].job => i = k
  <2> SUFFICES ASSUME NEW i \in 1..(n - 1), NEW k \in 1..(n - 1), queue'[i].job = queue'[k].job PROVE i = k
    BY <1>1
  <2>1. i + 1 \in 1..n /\ k + 1 \in 1..n
    BY <1>1
  <2>2. queue[i + 1].job = queue[k + 1].job
    BY <1>1
  <2>3. i + 1 = k + 1
    BY <1>5, <2>1, <2>2
  <2> QED BY <2>3
<1>9. Awaited' = Awaited
  BY <1>0 DEF Awaited
<1>10. NoneForgotten'
  BY <1>3, <1>4, <1>6, <1>7, <1>8, <1>9 DEF Answering, NoneForgotten
<1> QED BY <1>0, <1>3, <1>10 DEF Answering, Active

\* A new job joins the channel, or is answered at once when there is none.
LEMMA RequestKeepsAnswering ==
    ASSUME Typed, Answering, NEW j \in Job, NEW o \in Order, Request(j, o)
    PROVE  Answering'
<1>0. /\ queue \in Seq(Asked) /\ status[j] = "none" /\ reply[j] = ""
      /\ status' = [status EXCEPT ![j] = "running"] /\ flow' = flow
      /\ status \in [Job -> {"none", "running", "completed", "failed"}]
      /\ reply \in [Job -> {"", "ok", "error", "lost"}]
  BY DEF Typed, Shapes, Queues, Asked, Request, Answering
<1>1. Served' = Served /\ j \notin Queued /\ j \notin Served
  <2>1. j \notin Awaited
    BY <1>0 DEF Awaited
  <2> QED BY <1>0, <2>1 DEF Served, Answering, NoneForgotten
<1>2. CASE flow[Worker].pc = "dead"
  <2>1. reply' = [reply EXCEPT ![j] = "lost"] /\ queue' = queue
    BY <1>2 DEF Request
  <2>2. Awaited' = Awaited
    BY <1>0, <2>1 DEF Awaited
  <2>3. Queued' = Queued
    BY <2>1 DEF Queued
  <2> QED BY <1>0, <1>1, <2>1, <2>2, <2>3 DEF Answering, NoneForgotten
<1>3. CASE flow[Worker].pc # "dead"
  <2> DEFINE n == Len(queue)
  <2>1. PICK p \in Provider : queue' = Append(queue, [job |-> j, order |-> o, provider |-> p])
    BY <1>3 DEF Request
  <2>2. reply' = reply
    BY <1>3 DEF Request
  <2> DEFINE r == [job |-> j, order |-> o, provider |-> p]
  <2>3. r.job = j /\ r \in Asked
    BY DEF Asked
  <2> HIDE DEF r
  <2>4. queue' = Append(queue, r)
    BY <2>1 DEF r
  <2>5. /\ n \in Nat /\ Len(queue') = n + 1 /\ queue'[n + 1] = r
        /\ \A i \in 1..n : queue'[i] = queue[i]
    <3>1. queue \in Seq(Asked) /\ r \in Asked
      BY <1>0, <2>3
    <3> QED BY <2>4, <3>1, AppendProperties, LenProperties
  <2> HIDE DEF n
  <2>6. \A i \in 1..(n + 1) : i \in 1..n \/ i = n + 1
    BY <2>5
  <2>7. 1..n \subseteq 1..(n + 1) /\ n + 1 \in 1..(n + 1)
    BY <2>5
  <2>8. Queued = {queue[i].job : i \in 1..n} /\ Queued' = {queue'[i].job : i \in 1..(n + 1)}
    BY <2>5 DEF Queued, n
  <2>9. Queued' = Queued \cup {j}
    BY <2>3, <2>5, <2>6, <2>7, <2>8
  <2>10. Awaited' = Awaited \cup {j}
    BY <1>0, <2>2 DEF Awaited
  <2>11. \A i, k \in 1..n : queue[i].job = queue[k].job => i = k
    BY DEF Answering, NoneForgotten, n
  <2>12. \A i \in 1..n : queue[i].job # j
    BY <1>1, <2>8
  <2>13. \A i, k \in 1..(n + 1) : queue'[i].job = queue'[k].job => i = k
    BY <2>3, <2>5, <2>6, <2>11, <2>12
  <2>14. NoneForgotten'
    BY <1>0, <1>1, <1>3, <2>5, <2>9, <2>10, <2>13 DEF Answering, NoneForgotten
  <2> QED BY <1>0, <2>2, <2>14 DEF Answering
<1> QED BY <1>2, <1>3

LEMMA MovesKeepAnswering ==
    ASSUME Typed, Answering, NEW a \in Actor, Moves(a)
    PROVE  Answering'
<1>1. CASE a = Worker
  <2>1. CASE GiveUp(a) \/ OrderInvalid(a) \/ Fail(a) \/ LoseAccount(a) \/ Finish(a)
    BY <1>1, <2>1, WorkerEnds
  <2>2. CASE Step(a) /\ ~GiveUp(a) /\ ~OrderInvalid(a) /\ ~Finish(a)
    BY <1>1, <2>2, WorkerGoesOn DEF Step
  <2> QED BY <1>1, <2>1, <2>2, Parameters DEF Moves, Step
<1>2. CASE a # Worker
  <2>1. flow'[Worker] = flow[Worker]
    BY <1>2, OthersStay, Parameters
  <2>2. UNCHANGED jobs
    <3>1. CASE Step(a)
      BY <1>2, <3>1 DEF Step, OpenAccount, CreateAccount, SaveAccount, PlaceOrder, Authorize, SetReady,
                        Pass, GiveUp, Finalize, OrderInvalid, Store, Finish, End, jobs
    <3>2. CASE ~Step(a)
      BY <1>2, <3>2 DEF Moves, Fail, LoseAccount, End, StartRenewal, EndRenewal, Renew, PassOver,
                        Leave, jobs
    <3> QED BY <3>1, <3>2
  <2> QED BY <2>1, <2>2, SameAnswering
<1> QED BY <1>1, <1>2

LEMMA BlankAnswering == Blank => Answering
<1> SUFFICES ASSUME Blank PROVE Answering
  OBVIOUS
<1>1. flow[Worker].pc = "starting" /\ flow[Worker].job = None
  BY Parameters DEF Blank, NoFlow
<1>2. Awaited = {} /\ Served = {} /\ Len(queue) = 0 /\ queue = <<>>
  BY <1>1 DEF Blank, Awaited, Served
<1>3. Queued = {}
  BY <1>2 DEF Queued
<1>4. NoneForgotten
  BY <1>2, <1>3 DEF NoneForgotten
<1> QED BY <1>1, <1>4 DEF Answering, Blank

LEMMA NextKeepsAnswering ==
    ASSUME Safe, Answering, [Next]_vars
    PROVE  Answering'
<1>0. Typed
  BY DEF Safe
<1>1. CASE \E a \in Actor : Moves(a)
  BY <1>0, <1>1, MovesKeepAnswering
<1>2. CASE (\E works \in BOOLEAN : StartWorker(works)) \/ Receive
  BY <1>0, <1>2, StartKeepsAnswering, ReceiveKeepsAnswering
<1>3. CASE AppendLine \/ UNCHANGED vars \/ \E a \in Actor : Validate(a) \/ Decide(a)
  <2>1. UNCHANGED <<jobs, flow>>
    BY <1>3 DEF AppendLine, Validate, Decide, vars
  <2> QED BY <2>1, SameAnswering
<1>4. CASE TableStep
  <2>1. ASSUME NEW j \in Job, Wait(j) PROVE Answering'
    <3>1. /\ reply[j] # "" /\ UNCHANGED <<queue, reply, flow>> /\ Outcome(reply[j]) # "none"
          /\ status' = [status EXCEPT ![j] = Outcome(reply[j])]
          /\ status \in [Job -> {"none", "running", "completed", "failed"}]
      BY <1>0, <2>1 DEF Wait, Outcome, Typed, Shapes
    <3>2. Awaited' = Awaited
      BY <3>1 DEF Awaited
    <3>3. Queued' = Queued /\ Served' = Served
      BY <3>1 DEF Queued, Served
    <3>4. \A k \in Job : reply'[k] # "" => status'[k] # "none"
      BY <3>1 DEF Answering
    <3> QED BY <3>1, <3>2, <3>3, <3>4 DEF Answering, NoneForgotten
  <2>2. ASSUME NEW j \in Job, NEW o \in Order, Request(j, o) PROVE Answering'
    BY <1>0, <2>2, RequestKeepsAnswering
  <2>3. ASSUME NEW j \in Job, Poll(j) PROVE Answering'
    <3>1. UNCHANGED <<jobs, flow>>
      BY <2>3 DEF Poll
    <3> QED BY <3>1, SameAnswering
  <2>4. ASSUME NEW n \in Row, Upload(n) \/ Delete(n) \/ CleanUp(n) PROVE Answering'
    <3>1. UNCHANGED <<jobs, flow>>
      BY <2>4 DEF Upload, Delete, CleanUp
    <3> QED BY <3>1, SameAnswering
  <2> QED BY <1>4, <2>1, <2>2, <2>3, <2>4 DEF TableStep
<1>5. CASE Restart
  <2>1. Blank'
    BY <1>5, RestartBlank
  <2>2. (Blank => Answering)'
    BY BlankAnswering, PTL
  <2> QED BY <2>1, <2>2
<1> QED BY <1>1, <1>2, <1>3, <1>4, <1>5, Kinds

\* The jobs the panel waits for are those that the worker has in its channel or in its hands,
\* each once: for any number of jobs and renewals, none is lost on the way, though the thread
\* may die with what it was sent (api/settings.rs:689-753, ssl_worker.rs:57-89).
THEOREM JobsAreHeld == Spec => []NoneForgotten
<1>1. Init => Answering
  BY InitBlank, BlankAnswering
<1>2. IInv /\ Answering /\ [Next]_vars => Answering'
  BY SafeIsIInv, NextKeepsAnswering
<1>3. Answering => NoneForgotten
  BY DEF Answering
<1> QED BY <1>1, <1>2, <1>3, Invariant, PTL DEF Spec

-----------------------------------------------------------------------------
(* The promise of background jobs                                          *)

LEMMA PollIsShow ==
    ASSUME Typed, Lines, NEW j \in Job, Poll(j)
    PROVE  Promise!Show(j)
<1> DEFINE p == shown'[j]
           n == Len(p)
<1>1. /\ p \in Seq(Nat) /\ n = Len(shown[j]) + Len(buffer[j]) /\ Len(buffer[j]) > 0
      /\ \A i \in 1..n : p[i] = i
  BY PollShows
<1>2. n > Len(shown[j])
  <2> DEFINE l == Len(shown[j])
             b == Len(buffer[j])
  <2>1. l \in Nat /\ b \in Nat /\ n = l + b /\ b > 0
    BY <1>1, JobTypes
  <2> HIDE DEF n, l, b
  <2>2. n > l
    BY <2>1
  <2> QED BY <2>2 DEF l
<1>3. p \in [1..n -> Nat]
  BY <1>1, LenProperties
<1>4. p = [i \in 1..n |-> i]
  <2> HIDE DEF n, p
  <2> QED BY <1>1, <1>3
<1>5. shown' = [shown EXCEPT ![j] = p]
  <2>1. shown' = [shown EXCEPT ![j] = shown[j] \o buffer[j]] /\ shown \in [Job -> Seq(Nat)]
    BY JobTypes DEF Poll
  <2> DEFINE q == shown[j] \o buffer[j]
  <2> HIDE DEF q
  <2>2. shown' = [shown EXCEPT ![j] = q]
    BY <2>1 DEF q
  <2>3. shown'[j] = q
    BY <2>1, <2>2
  <2> QED BY <2>2, <2>3
<1>6. status[j] # "none" /\ UNCHANGED status
  BY DEF Poll, jobs
<1>7. shown' = [shown EXCEPT ![j] = [i \in 1..Len(shown'[j]) |-> i]]
  BY <1>4, <1>5
<1> QED BY <1>2, <1>6, <1>7 DEF Promise!Show

LEMMA StepsKeepPromise ==
    ASSUME Safe, [Next]_vars
    PROVE  Promise!Next \/ UNCHANGED <<status, shown>>
<1>0. Typed /\ Lines
  BY DEF Safe
<1>1. ASSUME NEW a \in Actor, Moves(a) PROVE UNCHANGED <<status, shown>>
  <2>1. shown' = shown
    BY <1>0, <1>1, MovesKeepLines
  <2>2. CASE Step(a)
    BY <2>1, <2>2 DEF Step, OpenAccount, CreateAccount, SaveAccount, PlaceOrder, Authorize,
                      SetReady, Pass, GiveUp, Finalize, OrderInvalid, Store, Finish, jobs
  <2>3. CASE ~Step(a)
    BY <1>1, <2>1, <2>3 DEF Moves, Fail, LoseAccount, StartRenewal, EndRenewal, Renew, PassOver,
                            Leave, jobs
  <2> QED BY <2>2, <2>3
<1>2. CASE \/ (\E works \in BOOLEAN : StartWorker(works)) \/ Receive \/ AppendLine
           \/ \E a \in Actor : Validate(a) \/ Decide(a)
           \/ UNCHANGED vars
  BY <1>2 DEF StartWorker, Receive, AppendLine, Validate, Decide, vars, jobs, logs
<1>3. CASE Restart
  BY <1>3 DEF Restart, Promise!Next, Promise!Forget
<1>4. CASE TableStep
  <2>1. ASSUME NEW j \in Job, Wait(j) PROVE Promise!Settle(j)
    <3>1. Outcome(reply[j]) \in {"completed", "failed"}
      BY DEF Outcome
    <3> QED BY <2>1, <3>1 DEF Wait, Promise!Settle, logs
  <2>2. ASSUME NEW j \in Job, NEW o \in Order, Request(j, o) PROVE Promise!Register(j)
    BY <2>2 DEF Request, Promise!Register, logs
  <2>3. ASSUME NEW j \in Job, Poll(j) PROVE Promise!Show(j)
    BY <1>0, <2>3, PollIsShow
  <2>4. ASSUME NEW n \in Row, Upload(n) \/ Delete(n) \/ CleanUp(n) PROVE UNCHANGED <<status, shown>>
    BY <2>4 DEF Upload, Delete, CleanUp, jobs, logs
  <2> QED BY <1>4, <2>1, <2>2, <2>3, <2>4 DEF TableStep, Promise!Next
<1> QED BY <1>1, <1>2, <1>3, <1>4, Kinds

\* Issuance implements Jobs: a job settles once, and polls return its lines in order, each
\* once, though tasks of another thread append them and polls take them away
\* (api/settings.rs:756-783, ssl.rs:383-404).
THEOREM JobsKept == Spec => KeepsPromise
<1>1. Init => Promise!Init
  BY DEF Init, Promise!Init
<1>2. IInv /\ [Next]_vars => [Promise!Next]_<<status, shown>>
  BY SafeIsIInv, StepsKeepPromise
<1> QED BY <1>1, <1>2, Invariant, PTL DEF Spec, KeepsPromise, Promise!Spec
=============================================================================
