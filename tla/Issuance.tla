------------------------------ MODULE Issuance ------------------------------
(***************************************************************************)
(* Certificates from an ACME server: the jobs the panel starts and polls   *)
(* (api/settings.rs), the thread that serves them one by one               *)
(* (ssl_worker.rs), the renewals of the manager task and of the panel's    *)
(* renew button, and the two copies of the DNS-01 procedure they follow    *)
(* (ssl.rs), with the TXT records of both DNS providers.                   *)
(*                                                                         *)
(* The ACME server and the DNS are external and modelled from how they are *)
(* used: the server may look for a record before it is told to, decides    *)
(* when it likes, and any call to either may fail.  A step of the          *)
(* procedure is one call; of the log lines one in the middle and the last  *)
(* one are kept.                                                           *)
(***************************************************************************)
EXTENDS Naturals, Sequences, FiniteSets

CONSTANTS
    Name,           \* DNS names a certificate can be for
    Base,           \* each name without a leading "*."
    Zone,           \* the zone of each name
    Order,          \* the orders that are asked for: [primary |-> a name, names |-> its names]
    Job,            \* ids of background jobs
    Provider,       \* the values setting ddns_provider takes
    Renewer,        \* tasks that renew: the manager's, every 12 hours, and others
    Button,         \* those of them that are requests of the panel
    Worker,         \* the thread that serves the jobs
    None            \* no job, name or order

VARIABLES
    status,     \* background_jobs: the status of each job, "none" without an entry
    queue,      \* the channel of the worker
    reply,      \* the oneshot of each job: "" until the worker answers or drops it
    said,       \* log lines pushed for each job
    spawned,    \* tasks of the worker's runtime that have yet to append their line
    buffer,     \* background_job_logs: lines that no poll has taken
    shown,      \* lines that polls have returned
    flow,       \* the procedure each of Worker, Manager and Button is in
    acme,       \* the order the server keeps for it
    saved,      \* setting acme_credentials is stored
    zone,       \* TXT records in the zones, except those given up by what Forsake is for
    cleanups,   \* names whose records a deleted certificate has yet to clean up
    cert,       \* table certificates: the row of each name
    \* history, read by the properties only
    made,       \* accounts created, less those whose credentials were never saved
    stored      \* jobs whose certificate reached the table

jobs == <<status, queue, reply>>
logs == <<said, spawned, buffer, shown>>
dns == <<zone, cleanups>>
accounts == <<saved, made>>
vars == <<jobs, logs, flow, acme, accounts, dns, cert, stored>>

Actor == {Worker} \cup Renewer
Row == {o.primary : o \in Order}

ASSUME IssuanceAssumption ==
    /\ Base \in [Name -> Name \cup {Zone[n] : n \in Name}]
    /\ \A o \in Order : o.names \subseteq Name /\ o.primary \in o.names
    /\ Provider \subseteq {"cloudflare", "aliyun"}
    /\ Button \subseteq Renewer /\ Worker \notin Renewer /\ IsFiniteSet(Renewer)
    /\ None \notin Job /\ None \notin Name /\ None \notin Order

-----------------------------------------------------------------------------
NoFlow == [pc |-> "idle", job |-> None, order |-> None, provider |-> "",
           left |-> {}, at |-> None, todo |-> {}]
NoOrder == [status |-> "none", valid |-> {}]
NoCert == [source |-> "none", names |-> {}]

\* Where a provider puts the record for n.  Cloudflare looks for a zone above the name, and
\* has none for the name of the zone itself; Aliyun always uses the name of the zone.
CloudflareSite(n) == IF Base[n] = Zone[n] THEN None ELSE Base[n]
AliyunSite(n) == Zone[n]
TxtAt(p, n) == IF p = "aliyun" THEN AliyunSite(n) ELSE CloudflareSite(n)

\* The record of the authorization that a is working on.
Record(a) ==
    [provider |-> flow[a].provider, at |-> TxtAt(flow[a].provider, flow[a].at), by |-> a]
Own(a) == {r \in zone : r.by = a}

\* The thread starts; its runtime may turn out not to start.
Init ==
    /\ status = [j \in Job |-> "none"]
    /\ queue = <<>>
    /\ reply = [j \in Job |-> ""]
    /\ said = [j \in Job |-> 0]
    /\ spawned = <<>>
    /\ buffer = [j \in Job |-> <<>>]
    /\ shown = [j \in Job |-> <<>>]
    /\ flow = [a \in Actor |-> IF a = Worker THEN [NoFlow EXCEPT !.pc = "starting"] ELSE NoFlow]
    /\ acme = [a \in Actor |-> NoOrder]
    /\ saved = FALSE
    /\ zone = {} /\ cleanups = {}
    /\ cert = [n \in Row |-> NoCert]
    /\ made = 0
    /\ stored = {}

-----------------------------------------------------------------------------
\* The panel and the job table.

\* POST /certificates: the job is registered and sent, and a task waits for its answer.
\* A channel without a receiver drops the request, and with it the sender of the answer.
Request(j, o) ==
    /\ status[j] = "none"
    /\ status' = [status EXCEPT ![j] = "running"]
    /\ IF flow[Worker].pc = "dead"
       THEN reply' = [reply EXCEPT ![j] = "lost"] /\ UNCHANGED queue
       ELSE /\ \E p \in Provider : queue' = Append(queue, [job |-> j, order |-> o, provider |-> p])
            /\ UNCHANGED reply
    /\ UNCHANGED <<logs, flow, acme, accounts, dns, cert, stored>>

\* A bug: the answer is stored as it came.
OutcomeAsIs(answer) == answer

\* The waiting task records the answer.
Outcome(answer) == IF answer = "ok" THEN "completed" ELSE "failed"
Wait(j) ==
    /\ reply[j] # ""
    /\ status[j] = "running"
    /\ status' = [status EXCEPT ![j] = Outcome(reply[j])]
    /\ UNCHANGED <<queue, reply, logs, flow, acme, accounts, dns, cert, stored>>

\* A bug: the poll takes a copy of the lines.
DrainedCopy(j) == buffer

\* GET /certificates/status: takes the lines that have arrived.
Drained(j) == [buffer EXCEPT ![j] = <<>>]
Poll(j) ==
    /\ status[j] # "none"
    /\ buffer[j] # <<>>
    /\ shown' = [shown EXCEPT ![j] = @ \o buffer[j]]
    /\ buffer' = Drained(j)
    /\ UNCHANGED <<jobs, said, spawned, flow, acme, accounts, dns, cert, stored>>

\* POST /certificates/upload.
Upload(n) ==
    /\ cert' = [cert EXCEPT ![n] = [source |-> "manual", names |-> {n}]]
    /\ UNCHANGED <<jobs, logs, flow, acme, accounts, dns, stored>>

\* DELETE /certificates/:id, which leaves the records of the name to a task.
Delete(n) ==
    /\ cert[n] # NoCert
    /\ cert' = [cert EXCEPT ![n] = NoCert]
    /\ cleanups' = cleanups \cup {n}
    /\ UNCHANGED <<jobs, logs, flow, acme, accounts, zone, stored>>

\* What the providers list for it: Cloudflare the records of the name as it was written,
\* Aliyun all challenge records of its zone.
CloudflareList(n) == {r \in zone : r.provider = "cloudflare" /\ r.at = n}
AliyunList(n) == {r \in zone : r.provider = "aliyun" /\ r.at = Zone[n]}

\* That task.  The listing and each deletion may fail.
CleanUp(n) ==
    /\ n \in cleanups
    /\ cleanups' = cleanups \ {n}
    /\ \E p \in Provider :
          \E gone \in SUBSET (IF p = "aliyun" THEN AliyunList(n) ELSE CloudflareList(n)) :
             zone' = zone \ gone
    /\ UNCHANGED <<jobs, logs, flow, acme, accounts, cert, stored>>

-----------------------------------------------------------------------------
\* The steps of the procedure.

Goto(a, label) == flow' = [flow EXCEPT ![a].pc = label]

\* Of the two copies only the worker's has a log: a task of its runtime appends the line.
Say(a) ==
    IF a = Worker
    THEN LET j == flow[a].job
         IN  /\ said' = [said EXCEPT ![j] = @ + 1]
             /\ spawned' = Append(spawned, [job |-> j, line |-> said[j] + 1])
             /\ UNCHANGED <<buffer, shown>>
    ELSE UNCHANGED logs

\* The runtime runs its tasks while the procedure waits for something, and at no other time.
AppendLine ==
    /\ flow[Worker].pc \notin {"starting", "idle", "dead"}
    /\ spawned # <<>>
    /\ spawned' = Tail(spawned)
    /\ buffer' = [buffer EXCEPT ![Head(spawned).job] = Append(@, Head(spawned).line)]
    /\ UNCHANGED <<jobs, said, shown, flow, acme, accounts, dns, cert, stored>>

\* The worker answers the job; a renewal goes on with the next rule.
End(a, answer) ==
    /\ acme' = [acme EXCEPT ![a] = NoOrder]
    /\ IF a = Worker
       THEN /\ reply' = [reply EXCEPT ![flow[a].job] = answer]
            /\ flow' = [flow EXCEPT ![a] = [NoFlow EXCEPT !.pc = "idle"]]
       ELSE /\ flow' = [flow EXCEPT ![a] = [NoFlow EXCEPT
                !.pc = "next", !.provider = flow[a].provider, !.todo = flow[a].todo]]
            /\ UNCHANGED reply

\* A failed call ends the procedure, and its record stays.  No later challenge has the value
\* of that record, so it is followed no further.
Forsake(a) == zone' = zone \ Own(a) /\ UNCHANGED cleanups

\* delete_acme_txt, or its failure, which is ignored and leaves the record like Forsake.
DeleteTxt(a) == zone' = zone \ Own(a) /\ UNCHANGED cleanups

\* A bug: the requests of a thread that panics are kept.
StartWorkerQuietly(works) ==
    /\ flow[Worker].pc = "starting"
    /\ Goto(Worker, IF works THEN "idle" ELSE "dead")
    /\ UNCHANGED <<jobs, logs, acme, accounts, dns, cert, stored>>

\* The thread builds its runtime, or panics and drops the receiver with what was sent.
StartWorker(works) ==
    /\ flow[Worker].pc = "starting"
    /\ Goto(Worker, IF works THEN "idle" ELSE "dead")
    /\ IF works
       THEN UNCHANGED <<queue, reply>>
       ELSE /\ queue' = <<>>
            /\ reply' = [j \in Job |-> IF status[j] = "running" THEN "lost" ELSE reply[j]]
    /\ UNCHANGED <<status, logs, acme, accounts, dns, cert, stored>>

Receive ==
    /\ flow[Worker].pc = "idle"
    /\ queue # <<>>
    /\ queue' = Tail(queue)
    /\ LET r == Head(queue)
       IN  flow' = [flow EXCEPT ![Worker] = [NoFlow EXCEPT !.pc = "account", !.job = r.job,
               !.order = r.order, !.provider = r.provider, !.left = r.order.names]]
    /\ UNCHANGED <<status, reply, logs, acme, accounts, dns, cert, stored>>

\* check_and_renew_certs: the rules with TLS are read.  Those that are not there are passed
\* over below.
StartRenewal(a) ==
    /\ flow[a].pc = "idle"
    /\ \E p \in Provider :
          flow' = [flow EXCEPT ![a] = [NoFlow EXCEPT !.pc = "next", !.provider = p, !.todo = Row]]
    /\ UNCHANGED <<jobs, logs, acme, accounts, dns, cert, stored>>

\* A certificate of the very name of a rule that came from the server is ordered again, for
\* that name alone, when it has less than ten days left.
Renew(a, n) ==
    /\ flow[a].pc = "next"
    /\ n \in flow[a].todo
    /\ cert[n].source = "acme"
    /\ flow' = [flow EXCEPT ![a].pc = "account", ![a].order = [primary |-> n, names |-> {n}],
                            ![a].left = {n}, ![a].todo = @ \ {n}]
    /\ UNCHANGED <<jobs, logs, acme, accounts, dns, cert, stored>>

PassOver(a, n) ==
    /\ flow[a].pc = "next"
    /\ n \in flow[a].todo
    /\ flow' = [flow EXCEPT ![a].todo = @ \ {n}]
    /\ UNCHANGED <<jobs, logs, acme, accounts, dns, cert, stored>>

EndRenewal(a) ==
    /\ flow[a].pc = "next"
    /\ flow[a].todo = {}
    /\ flow' = [flow EXCEPT ![a] = NoFlow]
    /\ UNCHANGED <<jobs, logs, acme, accounts, dns, cert, stored>>

\* get_or_create_account, with the registration at ZeroSSL before it.
OpenAccount(a) ==
    /\ flow[a].pc = "account"
    /\ Goto(a, IF saved THEN "order" ELSE "create")
    /\ UNCHANGED <<jobs, logs, acme, accounts, dns, cert, stored>>

CreateAccount(a) ==
    /\ flow[a].pc = "create"
    /\ Goto(a, "save")
    /\ made' = made + 1
    /\ UNCHANGED <<jobs, logs, acme, saved, dns, cert, stored>>

\* A bug: the credentials are not saved.
SaveAccountNot(a) ==
    /\ flow[a].pc = "save"
    /\ Goto(a, "order")
    /\ UNCHANGED <<jobs, logs, acme, accounts, dns, cert, stored>>
SaveAccount(a) ==
    /\ flow[a].pc = "save"
    /\ Goto(a, "order")
    /\ saved' = TRUE
    /\ UNCHANGED <<jobs, logs, acme, made, dns, cert, stored>>

PlaceOrder(a) ==
    /\ flow[a].pc = "order"
    /\ Goto(a, "authorize")
    /\ acme' = [acme EXCEPT ![a] = [status |-> "pending", valid |-> {}]]
    /\ Say(a)
    /\ UNCHANGED <<jobs, accounts, dns, cert, stored>>

\* The next authorization: its record is created.
Authorize(a, n) ==
    /\ flow[a].pc = "authorize"
    /\ n \in flow[a].left
    /\ TxtAt(flow[a].provider, n) # None
    /\ flow' = [flow EXCEPT ![a].pc = IF a = Worker THEN "ready" ELSE "poll", ![a].at = n]
    /\ zone' = zone \cup
           {[provider |-> flow[a].provider, at |-> TxtAt(flow[a].provider, n), by |-> a]}
    /\ UNCHANGED <<jobs, logs, acme, accounts, cleanups, cert, stored>>

\* The worker tells the server that the challenge is ready.  The renewal does not.
SetReady(a) ==
    /\ flow[a].pc = "ready"
    /\ Goto(a, "poll")
    /\ UNCHANGED <<jobs, logs, acme, accounts, dns, cert, stored>>

\* A round of the poll finds the authorization valid.
Pass(a) ==
    /\ flow[a].pc = "poll"
    /\ flow[a].at \in acme[a].valid
    /\ LET rest == flow[a].left \ {flow[a].at}
       IN  flow' = [flow EXCEPT ![a].pc = IF rest = {} THEN "wait" ELSE "authorize",
                                ![a].left = rest, ![a].at = None]
    /\ DeleteTxt(a)
    /\ UNCHANGED <<jobs, logs, acme, accounts, cert, stored>>

\* A bug: an invalid authorization returns at once.
GiveUpAtOnce(a) ==
    /\ flow[a].pc = "poll"
    /\ flow[a].at \notin acme[a].valid
    /\ End(a, "error")
    /\ UNCHANGED <<status, queue, logs, accounts, dns, cert, stored>>

\* A round of the poll finds it invalid, or the last one finds it undecided.
GiveUp(a) ==
    /\ flow[a].pc = "poll"
    /\ flow[a].at \notin acme[a].valid
    /\ DeleteTxt(a)
    /\ End(a, "error")
    /\ UNCHANGED <<status, queue, logs, accounts, cert, stored>>

\* A bug: the certificate is not stored.
FinalizeOnly(a) ==
    /\ flow[a].pc = "wait"
    /\ acme[a].status = "ready"
    /\ Goto(a, "load")
    /\ UNCHANGED <<jobs, logs, acme, accounts, dns, cert, stored>>

\* The loop that waits for the order has no limit.  Once it is ready, the CSR is sent and the
\* certificate fetched.
Finalize(a) ==
    /\ flow[a].pc = "wait"
    /\ acme[a].status = "ready"
    /\ Goto(a, "store")
    /\ UNCHANGED <<jobs, logs, acme, accounts, dns, cert, stored>>

OrderInvalid(a) ==
    /\ flow[a].pc = "wait"
    /\ acme[a].status = "invalid"
    /\ End(a, "error")
    /\ UNCHANGED <<status, queue, logs, accounts, dns, cert, stored>>

Store(a) ==
    /\ flow[a].pc = "store"
    /\ cert' = [cert EXCEPT ![flow[a].order.primary] =
           [source |-> "acme", names |-> flow[a].order.names]]
    /\ stored' = stored \cup ({flow[a].job} \ {None})
    /\ Goto(a, "load")
    /\ UNCHANGED <<jobs, logs, acme, accounts, dns>>

\* The cache is loaded, which CertCache models, and the procedure ends well.
Finish(a) ==
    /\ flow[a].pc = "load"
    /\ Say(a)
    /\ End(a, "ok")
    /\ UNCHANGED <<status, queue, accounts, dns, cert, stored>>

\* A call or a statement fails, whose error ends the procedure at once.
Calling == {"account", "create", "order", "authorize", "ready", "poll", "wait", "store"}
Fail(a) ==
    /\ flow[a].pc \in Calling
    /\ Forsake(a)
    /\ End(a, "error")
    /\ UNCHANGED <<status, queue, logs, accounts, cert, stored>>

LoseAccount(a) ==
    /\ flow[a].pc = "save"
    /\ made' = made - 1
    /\ End(a, "error")
    /\ UNCHANGED <<status, queue, logs, saved, dns, cert, stored>>

\* The browser that pressed the button goes away: the server drops the handler where it is.
Leave(a) ==
    /\ flow[a].pc # "idle"
    /\ flow' = [flow EXCEPT ![a] = NoFlow]
    /\ acme' = [acme EXCEPT ![a] = NoOrder]
    /\ made' = IF flow[a].pc = "save" THEN made - 1 ELSE made
    /\ Forsake(a)
    /\ UNCHANGED <<jobs, logs, saved, cert, stored>>

\* Only the tables survive, and what others hold.
Saving == {a \in Actor : flow[a].pc = "save"}
Restart ==
    /\ made' = made - Cardinality(Saving)
    /\ status' = [j \in Job |-> "none"]
    /\ queue' = <<>>
    /\ reply' = [j \in Job |-> ""]
    /\ said' = [j \in Job |-> 0]
    /\ spawned' = <<>>
    /\ buffer' = [j \in Job |-> <<>>]
    /\ shown' = [j \in Job |-> <<>>]
    /\ flow' = [a \in Actor |-> IF a = Worker THEN [NoFlow EXCEPT !.pc = "starting"] ELSE NoFlow]
    /\ acme' = [a \in Actor |-> NoOrder]
    /\ zone' = {}
    /\ cleanups' = {}
    /\ stored' = {}
    /\ UNCHANGED <<saved, cert>>

-----------------------------------------------------------------------------
\* The server.  It finds the record it looks for, or not, or gives up on the order.
Validate(a) ==
    /\ flow[a].pc \in {"ready", "poll"}
    /\ acme[a].status = "pending"
    /\ flow[a].at \notin acme[a].valid
    /\ Record(a) \in zone
    /\ Record(a).at = Base[flow[a].at]
    /\ acme' = [acme EXCEPT ![a].valid = @ \cup {flow[a].at}]
    /\ UNCHANGED <<jobs, logs, flow, accounts, dns, cert, stored>>

\* The order is ready once all its authorizations are valid, and invalid when it expires or one
\* of them is refused or taken back.
Decide(a) ==
    /\ acme[a].status = "pending"
    /\ \E end \in {"ready", "invalid"} :
        /\ end = "ready" => acme[a].valid = flow[a].order.names
        /\ acme' = [acme EXCEPT ![a].status = end]
    /\ UNCHANGED <<jobs, logs, flow, accounts, dns, cert, stored>>

-----------------------------------------------------------------------------
Step(a) ==
    \/ OpenAccount(a) \/ CreateAccount(a) \/ SaveAccount(a) \/ PlaceOrder(a)
    \/ \E n \in Name : Authorize(a, n)
    \/ SetReady(a) \/ Pass(a) \/ GiveUp(a)
    \/ Finalize(a) \/ OrderInvalid(a) \/ Store(a) \/ Finish(a)

Next ==
    \/ \E j \in Job : Wait(j) \/ Poll(j) \/ \E o \in Order : Request(j, o)
    \/ \E n \in Row : Upload(n) \/ Delete(n) \/ CleanUp(n)
    \/ \E works \in BOOLEAN : StartWorker(works)
    \/ Receive \/ AppendLine
    \/ \E a \in Renewer : StartRenewal(a) \/ EndRenewal(a) \/ \E n \in Row : Renew(a, n) \/ PassOver(a, n)
    \/ \E a \in Actor : Step(a) \/ Fail(a) \/ LoseAccount(a) \/ Validate(a) \/ Decide(a)
    \/ \E a \in Button : Leave(a)
    \/ Restart

\* Threads run and tasks are polled; nothing obliges a renewal, a person or a failure.  The
\* loop on the order ends only if the server decides every order it was given.
Fairness ==
    /\ WF_vars(\E works \in BOOLEAN : StartWorker(works))
    /\ WF_vars(Receive)
    /\ WF_vars(Step(Worker))
    /\ WF_vars(Decide(Worker))
    /\ \A j \in Job : WF_vars(Wait(j))

Spec == Init /\ [][Next]_vars /\ Fairness

-----------------------------------------------------------------------------
Label == {"starting", "dead", "idle", "next", "account", "create", "save", "order", "authorize",
          "ready", "poll", "wait", "store", "load"}
Wish == Order \cup {[primary |-> n, names |-> {n}] : n \in Row}
Sites == Name \cup {Zone[n] : n \in Name}
Procedure == [pc : Label, job : Job \cup {None}, order : Wish \cup {None},
              provider : Provider \cup {""}, left : SUBSET Name, at : Name \cup {None},
              todo : SUBSET Row]
Ordered == [status : {"none", "pending", "ready", "invalid"}, valid : SUBSET Name]
Txt == [provider : Provider, at : Sites, by : Actor]
Certificate == [source : {"none", "acme", "manual"}, names : SUBSET Name]

Shapes ==
    /\ status \in [Job -> {"none", "running", "completed", "failed"}]
    /\ reply \in [Job -> {"", "ok", "error", "lost"}]
    /\ flow \in [Actor -> Procedure]
    /\ acme \in [Actor -> Ordered]
    /\ saved \in BOOLEAN
    /\ zone \subseteq Txt
    /\ cleanups \subseteq Row
    /\ cert \in [Row -> Certificate]
    /\ made \in Nat
    /\ stored \subseteq Job

Queues ==
    /\ queue \in Seq([job : Job, order : Order, provider : Provider])
    /\ said \in [Job -> Nat]
    /\ spawned \in Seq([job : Job, line : Nat])
    /\ buffer \in [Job -> Seq(Nat)] /\ shown \in [Job -> Seq(Nat)]

TypeOK == Shapes /\ Queues

\* A job that the panel calls completed has put its certificate into the table, whatever
\* failed, was dropped or answered late (issue_certificate, the worker and the waiting task).
CompletedIsStored == \A j \in Job : status[j] = "completed" => j \in stored

\* The records in the zones are those of authorizations that are being decided, and those a
\* failed call, a restart or a lost request left: every other way out deletes its own.
NoLeftovers ==
    \A r \in zone : flow[r.by].pc \in {"ready", "poll"} /\ r = Record(r.by)

\* However issuances overlap, each makes at most one account whose credentials are saved
\* (get_or_create_account, which holds no lock).
FewAccounts == made <= Cardinality(Actor)

\* The jobs the panel waits for are those the worker has yet to answer, each in one place: in
\* the channel of a thread that is alive, or being served.  None is forgotten, and none is
\* answered twice (issue_certificate and its waiting task, spawn of ssl_worker.rs).
Awaited == {j \in Job : status[j] = "running" /\ reply[j] = ""}
Queued == {queue[i].job : i \in 1..Len(queue)}
Served == {flow[Worker].job} \ {None}
NoneForgotten ==
    /\ Awaited = Queued \cup Served
    /\ Queued \cap Served = {}
    /\ \A i, k \in 1..Len(queue) : queue[i].job = queue[k].job => i = k
    /\ flow[Worker].pc = "dead" => queue = <<>>

\* The job table and the log buffers do what is promised of background jobs.
Promise == INSTANCE Jobs
KeepsPromise == Promise!Spec

\* Every job settles or is forgotten by a restart: none waits behind another for ever.
JobsSettle == \A j \in Job : status[j] = "running" ~> status[j] # "running"

\* A renewal replaces a certificate by one that is as good: it came from the server too, and
\* no name is lost (check_and_renew_certs, issue_certificate_multi).
RenewalPreserves ==
    [][\A a \in Renewer, n \in Row :
          flow[a].pc = "store" /\ flow'[a].pc = "load" /\ flow[a].order.primary = n =>
              cert[n].source # "manual" /\ cert[n].names \subseteq cert'[n].names]_vars
=============================================================================
