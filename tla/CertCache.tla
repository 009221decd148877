----------------------------- MODULE CertCache -----------------------------
(***************************************************************************)
(* The in-memory certificate cache that the TLS resolver reads             *)
(* (proxy.rs, CertResolver) and the handlers that change the two tables it *)
(* is derived from (api/proxies.rs, api/settings.rs, ssl.rs).              *)
(*                                                                         *)
(* Every handler commits its SQL statements one at a time and then runs    *)
(* load_certs_to_cache, which reads the certificates, then the rules, and  *)
(* then inserts into the cache under the write lock.  Handlers interleave  *)
(* at every await, so each statement is an action of its own.              *)
(*                                                                         *)
(* Names are sequences of labels up to letter case.  A certificate row is  *)
(* its id and a version: both are taken from one counter, `stamp', which   *)
(* stands for the fresh UUID and for the new PEM an insert stores.         *)
(***************************************************************************)
EXTENDS Integers, Sequences, FiniteSets

CONSTANTS
    RuleId,       \* identifiers of proxy rules
    Host,         \* names a rule may carry
    CertName,     \* names a certificate may be stored under, "*" first for a wildcard
    Task,         \* executions that may be in flight at once: requests, renewals, loads
    NewRules,     \* rules that POST requests create
    PatchBodies,  \* what PATCH requests change: sets of <<field, value>>
    Main,         \* the one that boots the process, runs the SSL manager's first load
                  \* and is free for requests or renewals afterwards
    InitialDb,    \* rules, certificates and stamp an earlier run left in the database
    InitialBackup, \* a configuration file exported by another installation
    MaxStamp,     \* bound: certificates stored
    MaxRequests,  \* bound: requests and renewals started
    MaxFaults     \* bound: crashes, statements and loads that fail, loads that skip keys

VARIABLES
    rules,      \* table proxy_rules
    certs,      \* table certificates
    stamp,      \* last identifier handed out
    unusable,   \* versions expired, or whose PEM or key never loads
    backup,     \* the last exported configuration
    cache,      \* AppState.cert_cache: host -> certificate row, or NoCert
    asked,      \* requests started so far
    up,         \* main() is past its first load and serves requests
    faults,     \* crashes and failures so far
    pc,         \* where each task is
    target,     \* the rule a PATCH, or the certificate a DELETE, is about
    todo,       \* fields a PATCH has still to write
    seenCerts,  \* certificates a load or an export has read
    seenRules,  \* rules a load or an export has read
    \* history, read by the properties and by no action
    everCerts,  \* certificate rows ever stored
    everRules,  \* rows of active SSL rules ever stored
    blame       \* what the cache owes since the last load that saw the whole database

tables == <<rules, certs, stamp, unusable>>
locals == <<pc, target, todo, seenCerts, seenRules>>
vars == <<tables, backup, cache, asked, up, faults, locals, everCerts, everRules, blame>>

-----------------------------------------------------------------------------
CertId == 1..MaxStamp
Unbound == 0                       \* a rule without cert_id: NULL or the empty string
CertRow == [domain : CertName, id : CertId, ver : CertId]
NoCert == [domain |-> <<>>, id |-> Unbound, ver |-> 0]
Rule == [id : RuleId, domain : Host, ssl : BOOLEAN, enabled : BOOLEAN,
         cert : CertId \cup {Unbound}]
Field == {"domain", "ssl", "enabled", "cert"}
Patch == ({"domain"} \X Host) \cup ({"ssl", "enabled"} \X BOOLEAN)
            \cup ({"cert"} \X (CertId \cup {Unbound}))

ASSUME CertCacheAssumption ==
    /\ Main \in Task
    /\ MaxStamp \in Nat /\ MaxRequests \in Nat /\ MaxFaults \in Nat
    /\ Host \cup CertName \subseteq Seq(STRING) \ {<<>>}
    /\ NewRules \subseteq Rule
    /\ {} \notin PatchBodies
    /\ \A p \in PatchBodies : p \subseteq Patch /\ \A u, w \in p : u[1] = w[1] => u = w
    /\ InitialDb.stamp \in 0..MaxStamp
    /\ \A db \in {InitialDb, InitialBackup} :
        /\ db.rules \subseteq Rule
        /\ db.certs \subseteq CertRow
        /\ \A c \in db.certs : c.id <= InitialDb.stamp /\ c.ver <= InitialDb.stamp

IsWildcard(name) == name[1] = "*"

\* cert_covers_domain: the same name, or "*." followed by everything after the first dot.
Covers(name, host) ==
    \/ name = host
    \/ /\ IsWildcard(name)
       /\ Len(name) > 1 /\ Len(host) > 1
       /\ Tail(name) = Tail(host)

\* The three-way test load_certs_to_cache applies to a certificate and a rule.
Matches(r, c) ==
    \/ r.cert = c.id
    \/ r.cert = Unbound /\ Covers(c.domain, r.domain)

Active(rs) == {r \in rs : r.ssl /\ r.enabled}
Usable(cs) == {c \in cs : c.ver \notin unusable}

\* A bug: a rule without cert_id takes any certificate.
WinnersAnyAuto(host, cs, rs) ==
    {c \in cs : \E r \in rs : r.domain = host /\ r.cert \in {Unbound, c.id}}

\* A bug: the wildcards-first sort of ssl.rs:110 is lost.
WinnersUnsorted(host, cs, rs) ==
    {c \in cs : \E r \in rs : r.domain = host /\ Matches(r, c)}

\* Certificates that the double loop of load_certs_to_cache may leave in the
\* cache for host: wildcards are inserted first and exact names overwrite them;
\* SELECT has no ORDER BY, so among equals any may come last.
Winners(host, cs, rs) ==
    LET matching == {c \in cs : \E r \in rs : r.domain = host /\ Matches(r, c)}
        exact == {c \in matching : ~IsWildcard(c.domain)}
    IN  IF exact # {} THEN exact ELSE matching

-----------------------------------------------------------------------------
\* The process starts on the database it finds; main() is about to load.
Init ==
    /\ rules = InitialDb.rules
    /\ certs = InitialDb.certs
    /\ stamp = InitialDb.stamp
    /\ unusable = {}
    /\ backup = InitialBackup
    /\ cache = [h \in Host |-> NoCert]
    /\ asked = 0
    /\ up = FALSE
    /\ faults = 0
    /\ pc = [t \in Task |-> IF t = Main THEN "certs" ELSE "idle"]
    /\ target = [t \in Task |-> Unbound]
    /\ todo = [t \in Task |-> {}]
    /\ seenCerts = [t \in Task |-> {}]
    /\ seenRules = [t \in Task |-> {}]
    /\ everCerts = certs
    /\ everRules = Active(rules)
    /\ blame = {}

Goto(t, label) == pc' = [pc EXCEPT ![t] = label]

\* A free task takes the next request.
Accept(t) ==
    /\ up
    /\ pc[t] = "idle"
    /\ asked < MaxRequests
    /\ asked' = asked + 1

\* The history of a statement that leaves the tables as rules' and certs'.
Remember ==
    /\ everCerts' = everCerts \cup certs'
    /\ everRules' = everRules \cup Active(rules')

Fault == faults < MaxFaults /\ faults' = faults + 1

Elsewhere == <<backup, cache, up, faults, seenCerts, seenRules, blame>>

-----------------------------------------------------------------------------
(* Proxy rules: api/proxies.rs                                             *)

\* validate_domain admits letters, digits and "-" in a label, so no "*".
ValidDomain(name) == ~IsWildcard(name)

\* create: one INSERT; the cache is loaded only for a rule with ssl_enabled.
CreateRule(t, r) ==
    /\ Accept(t)
    /\ ValidDomain(r.domain)
    /\ \A q \in rules : q.id # r.id
    /\ rules' = rules \cup {r}
    /\ IF r.ssl THEN Goto(t, "certs") ELSE UNCHANGED pc
    /\ UNCHANGED <<certs, stamp, unusable, target, todo, Elsewhere>>
    /\ Remember

\* update: the rule exists when the request is accepted; its fields follow.
BeginPatch(t, i, fields) ==
    /\ Accept(t)
    /\ \E q \in rules : q.id = i
    /\ \A u \in fields : u[1] = "domain" => ValidDomain(u[2])
    /\ target' = [target EXCEPT ![t] = i]
    /\ todo' = [todo EXCEPT ![t] = fields]
    /\ Goto(t, "patch")
    /\ UNCHANGED <<tables, Elsewhere, everCerts, everRules>>

Before(f, g) ==
    LET order == [domain |-> 1, ssl |-> 2, enabled |-> 3, cert |-> 4]
    IN  order[f] < order[g]

Assign(r, u) ==
    CASE u[1] = "domain"  -> [r EXCEPT !.domain = u[2]]
      [] u[1] = "ssl"     -> [r EXCEPT !.ssl = u[2]]
      [] u[1] = "enabled" -> [r EXCEPT !.enabled = u[2]]
      [] u[1] = "cert"    -> [r EXCEPT !.cert = u[2]]

\* A bug: switching a rule on is not followed by a load.
ApplyFieldNoLoad(t, u) ==
    /\ pc[t] = "patch"
    /\ u \in todo[t]
    /\ \A w \in todo[t] \ {u} : Before(u[1], w[1])
    /\ rules' = {IF r.id = target[t] THEN Assign(r, u) ELSE r : r \in rules}
    /\ todo' = [todo EXCEPT ![t] = @ \ {u}]
    /\ Goto(t, IF u[1] # "enabled" THEN "certs" ELSE IF todo[t] = {u} THEN "idle" ELSE "patch")
    /\ UNCHANGED <<asked, certs, stamp, unusable, target, Elsewhere>>
    /\ Remember

\* update: one UPDATE per field, in the order of the source, each followed by a
\* load.  A rule deleted meanwhile is not recreated.
ApplyField(t, u) ==
    /\ pc[t] = "patch"
    /\ u \in todo[t]
    /\ \A w \in todo[t] \ {u} : Before(u[1], w[1])
    /\ rules' = {IF r.id = target[t] THEN Assign(r, u) ELSE r : r \in rules}
    /\ todo' = [todo EXCEPT ![t] = @ \ {u}]
    /\ Goto(t, "certs")
    /\ UNCHANGED <<asked, certs, stamp, unusable, target, Elsewhere>>
    /\ Remember

\* delete: NotFound without a row, otherwise one DELETE and a load.
DeleteRule(t, i) ==
    /\ Accept(t)
    /\ \E q \in rules : q.id = i
    /\ rules' = {q \in rules : q.id # i}
    /\ Goto(t, "certs")
    /\ UNCHANGED <<certs, stamp, unusable, target, todo, Elsewhere>>
    /\ Remember

\* delete of a port group takes the group's rules along, and nothing loads the cache.
DeleteGroupRules(t, gone) ==
    /\ Accept(t)
    /\ rules' = rules \ gone
    /\ blame' = blame \cup {"silent"}
    /\ UNCHANGED <<certs, stamp, unusable, locals, backup, cache, up, faults>>
    /\ Remember

-----------------------------------------------------------------------------
(* Certificates: api/settings.rs, ssl.rs                                   *)

\* A bug: the check for an empty domain is gone.
UpsertEmptyName(name) ==
    /\ stamp < MaxStamp
    /\ stamp' = stamp + 1
    /\ certs' = certs \cup {[domain |-> <<>>, id |-> stamp + 1, ver |-> stamp + 1]}

\* INSERT .. ON CONFLICT(domain) DO UPDATE: a stored name keeps its id.  A
\* row whose PEM or key does not load is one that Expire takes out at once.
Upsert(name) ==
    LET old == {c \in certs : c.domain = name}
        ids == IF old = {} THEN {stamp + 1} ELSE {c.id : c \in old}
    IN  /\ stamp < MaxStamp
        /\ stamp' = stamp + 1
        /\ certs' = (certs \ old) \cup
                        {[domain |-> name, id |-> i, ver |-> stamp + 1] : i \in ids}

\* upload_certificate, issue_certificate_sync and issue_certificate_multi end alike.
StoreCert(t, name) ==
    /\ Accept(t)
    /\ Upsert(name)
    /\ Goto(t, "certs")
    /\ UNCHANGED <<rules, unusable, target, todo, Elsewhere>>
    /\ Remember

\* delete_certificate, first statement: NotFound, or the handler goes on.
BeginDeleteCert(t, i) ==
    /\ Accept(t)
    /\ \E c \in certs : c.id = i
    /\ target' = [target EXCEPT ![t] = i]
    /\ Goto(t, "delete")
    /\ UNCHANGED <<tables, todo, Elsewhere, everCerts, everRules>>

DeleteCertRow(t) ==
    /\ pc[t] = "delete"
    /\ certs' = {c \in certs : c.id # target[t]}
    /\ Goto(t, "unbind")
    /\ UNCHANGED rules
    /\ UNCHANGED <<asked, stamp, unusable, target, todo, Elsewhere>>
    /\ Remember

Unbind(r) == [r EXCEPT !.ssl = FALSE, !.cert = Unbound]

\* Rules bound to the certificate lose SSL and the binding; then a load.
UnbindRules(t) ==
    /\ pc[t] = "unbind"
    /\ rules' = {IF r.cert = target[t] THEN Unbind(r) ELSE r : r \in rules}
    /\ Goto(t, "certs")
    /\ UNCHANGED certs
    /\ UNCHANGED <<asked, stamp, unusable, target, todo, Elsewhere>>
    /\ Remember

\* Time passes, or jwt_secret is replaced and the key no longer decrypts.
Expire(c) ==
    /\ c \in Usable(certs)
    /\ unusable' = unusable \cup {c.ver}
    /\ UNCHANGED <<asked, rules, certs, stamp, backup, cache, up, faults, locals,
                   everCerts, everRules, blame>>

-----------------------------------------------------------------------------
(* Backup and restore: api/settings.rs                                     *)

\* export_config reads the rules, and the certificates in a later statement.
BeginExport(t) ==
    /\ Accept(t)
    /\ seenRules' = [seenRules EXCEPT ![t] = rules]
    /\ Goto(t, "export")
    /\ UNCHANGED <<tables, backup, cache, up, faults, target, todo, seenCerts,
                   everCerts, everRules, blame>>

FinishExport(t) ==
    /\ pc[t] = "export"
    /\ backup' = [rules |-> seenRules[t], certs |-> certs]
    /\ seenRules' = [seenRules EXCEPT ![t] = {}]
    /\ Goto(t, "idle")
    /\ UNCHANGED <<asked, tables, cache, up, faults, target, todo, seenCerts,
                   everCerts, everRules, blame>>

\* INSERT OR REPLACE: a row gives way to one with its id or its domain.
Replace(old, new) ==
    {c \in old : \A n \in new : n.id # c.id /\ n.domain # c.domain} \cup new

\* A bug: the tables are replaced and the cache is left as it is.
ImportNoLoad(t, sections) ==
    /\ Accept(t)
    /\ certs' = IF "certs" \in sections THEN Replace(certs, backup.certs) ELSE certs
    /\ rules' = IF "rules" \in sections THEN backup.rules ELSE rules
    /\ UNCHANGED <<pc, stamp, unusable, target, todo, Elsewhere>>
    /\ Remember

\* import_config commits both sections, or the one the file has, in a transaction.
Import(t, sections) ==
    /\ Accept(t)
    /\ certs' = IF "certs" \in sections THEN Replace(certs, backup.certs) ELSE certs
    /\ rules' = IF "rules" \in sections THEN backup.rules ELSE rules
    /\ Goto(t, "certs")
    /\ UNCHANGED <<stamp, unusable, target, todo, Elsewhere>>
    /\ Remember

-----------------------------------------------------------------------------
(* load_certs_to_cache: ssl.rs                                             *)

\* The first SELECT, and the decryption of each key, which reads jwt_secret from the
\* database every time: a row where that fails is skipped and the load goes on.
LoadCerts(t, read) ==
    /\ pc[t] = "certs"
    /\ read \subseteq Usable(certs)
    /\ seenCerts' = [seenCerts EXCEPT ![t] = read]
    /\ IF read = Usable(certs) THEN UNCHANGED <<faults, blame>>
       ELSE Fault /\ blame' = blame \cup {"skipped"}
    /\ Goto(t, "rules")
    /\ UNCHANGED <<asked, tables, backup, cache, up, target, todo, seenRules,
                   everCerts, everRules>>

LoadRules(t) ==
    /\ pc[t] = "rules"
    /\ seenRules' = [seenRules EXCEPT ![t] = Active(rules)]
    /\ Goto(t, "write")
    /\ UNCHANGED <<asked, tables, backup, cache, up, faults, target, todo, seenCerts,
                   everCerts, everRules, blame>>

\* Where a task goes on after its load.  The first load is main's: only then do
\* the proxy engine, the API and the SSL manager start, and the latter loads again.
Return(t) ==
    /\ up' = TRUE
    /\ Goto(t, IF ~up THEN "certs" ELSE IF todo[t] # {} THEN "patch" ELSE "idle")
    /\ seenCerts' = [seenCerts EXCEPT ![t] = {}]
    /\ seenRules' = [seenRules EXCEPT ![t] = {}]
    /\ target' = IF todo[t] # {} THEN target ELSE [target EXCEPT ![t] = Unbound]

\* A bug: each load rebuilds the map from its own snapshot.
WriteCacheRebuild(t) ==
    /\ pc[t] = "write"
    /\ cache' \in {f \in [Host -> seenCerts[t] \cup {NoCert}] :
            \A h \in Host :
                LET w == Winners(h, seenCerts[t], seenRules[t])
                IN  IF w = {} THEN f[h] = NoCert ELSE f[h] \in w}
    /\ blame' = IF seenCerts[t] = Usable(certs) /\ seenRules[t] = Active(rules)
                THEN {} ELSE blame \cup {"stale"}
    /\ Return(t)
    /\ UNCHANGED <<asked, tables, backup, faults, todo, everCerts, everRules>>

\* Insert the winners over what is there; a name without a winner keeps its entry.
WriteCache(t) ==
    /\ pc[t] = "write"
    /\ cache' \in {f \in [Host -> seenCerts[t] \cup {cache[h] : h \in Host}] :
            \A h \in Host :
                LET w == Winners(h, seenCerts[t], seenRules[t])
                IN  IF w = {} THEN f[h] = cache[h] ELSE f[h] \in w}
    /\ blame' = IF seenCerts[t] = Usable(certs) /\ seenRules[t] = Active(rules)
                THEN {} ELSE blame \cup {"stale"}
    /\ Return(t)
    /\ UNCHANGED <<asked, tables, backup, faults, todo, everCerts, everRules>>

\* Either SELECT fails (a busy pool, say): the callers ignore or log the error.
LoadFails(t) ==
    /\ Fault
    /\ pc[t] \in {"certs", "rules"}
    /\ blame' = blame \cup {"failed"}
    /\ Return(t)
    /\ UNCHANGED <<asked, tables, backup, cache, todo, everCerts, everRules>>

\* A statement of a handler fails: it returns the error, without the load that its
\* earlier statements call for if it was deleting a certificate.
StatementFails(t) ==
    /\ Fault
    /\ pc[t] \in {"patch", "delete", "unbind", "export"}
    /\ blame' = IF pc[t] = "unbind" THEN blame \cup {"failed"} ELSE blame
    /\ Goto(t, "idle")
    /\ target' = [target EXCEPT ![t] = Unbound]
    /\ todo' = [todo EXCEPT ![t] = {}]
    /\ seenRules' = [seenRules EXCEPT ![t] = {}]
    /\ UNCHANGED <<asked, tables, backup, cache, up, seenCerts, everCerts, everRules>>

\* The process dies or is restarted at any point; the tables survive.
Restart ==
    /\ Fault
    /\ cache' = [h \in Host |-> NoCert]
    /\ up' = FALSE
    /\ pc' = [t \in Task |-> IF t = Main THEN "certs" ELSE "idle"]
    /\ target' = [t \in Task |-> Unbound]
    /\ todo' = [t \in Task |-> {}]
    /\ seenCerts' = [t \in Task |-> {}]
    /\ seenRules' = [t \in Task |-> {}]
    /\ blame' = {}
    /\ UNCHANGED <<asked, tables, backup, everCerts, everRules>>

WildcardOf(host) == <<"*">> \o Tail(host)

\* The TLS resolver: the exact name, then the wildcard of its parent.
Resolve(sni) ==
    IF sni \in Host /\ cache[sni] # NoCert THEN cache[sni]
    ELSE IF Len(sni) > 1 /\ WildcardOf(sni) \in Host THEN cache[WildcardOf(sni)]
    ELSE NoCert

-----------------------------------------------------------------------------
RuleOps(t) ==
    \/ \E r \in NewRules : CreateRule(t, r)
    \/ \E i \in RuleId, fields \in PatchBodies : BeginPatch(t, i, fields)
    \/ \E u \in todo[t] : ApplyField(t, u)
    \/ \E i \in RuleId : DeleteRule(t, i)
    \/ \E gone \in (SUBSET rules) \ {{}} : DeleteGroupRules(t, gone)

CertOps(t) ==
    \/ \E name \in CertName : StoreCert(t, name)
    \/ \E i \in CertId : BeginDeleteCert(t, i)
    \/ DeleteCertRow(t)
    \/ UnbindRules(t)

BackupOps(t) ==
    \/ BeginExport(t)
    \/ FinishExport(t)
    \/ \E sections \in (SUBSET {"rules", "certs"}) \ {{}} : Import(t, sections)

Load(t) ==
    \/ \E read \in SUBSET Usable(certs) : LoadCerts(t, read)
    \/ LoadRules(t)
    \/ WriteCache(t)

Next ==
    \/ \E t \in Task : RuleOps(t) \/ CertOps(t) \/ BackupOps(t) \/ Load(t)
    \/ \E t \in Task : LoadFails(t) \/ StatementFails(t)
    \/ \E c \in certs : Expire(c)
    \/ Restart

\* The runtime keeps polling a handler that is past its first statement; nothing
\* obliges anyone to send a request, to let a certificate expire or to crash.
Fairness ==
    \A t \in Task :
        WF_vars(\/ Load(t)
                \/ \E u \in todo[t] : ApplyField(t, u)
                \/ DeleteCertRow(t) \/ UnbindRules(t) \/ FinishExport(t))

Spec == Init /\ [][Next]_vars
FairSpec == Spec /\ Fairness

-----------------------------------------------------------------------------
(* Properties                                                              *)

\* Type correctness.
TypeOK ==
    /\ rules \subseteq Rule
    /\ certs \subseteq CertRow
    /\ stamp \in Nat
    /\ unusable \subseteq CertId
    /\ backup.rules \subseteq Rule /\ backup.certs \subseteq CertRow
    /\ cache \in [Host -> CertRow \cup {NoCert}]
    /\ asked \in 0..MaxRequests
    /\ up \in BOOLEAN
    /\ faults \in 0..MaxFaults
    /\ pc \in [Task -> {"idle", "certs", "rules", "write", "patch", "delete", "unbind",
                        "export"}]
    /\ target \in [Task -> RuleId \cup CertId \cup {Unbound}]
    /\ todo \in [Task -> SUBSET Patch]
    /\ seenCerts \in [Task -> SUBSET CertRow]
    /\ seenRules \in [Task -> SUBSET Rule]
    /\ everCerts \subseteq CertRow
    /\ everRules \subseteq Rule
    /\ blame \subseteq {"stale", "failed", "skipped", "silent"}

\* However the loads interleave with the handlers, a certificate the resolver
\* presents for a name was stored in the table at some time, and some rule that
\* had SSL switched on for that name (or for its wildcard) asked for it: it
\* named the certificate, or named none and the certificate is for the name
\* or its wildcard.  No mixture of an old read of one table with a new read
\* of the other hands a name somebody else's certificate.
PresentedIsJustified ==
    \A sni \in Host :
        LET c == Resolve(sni) IN
        c # NoCert =>
            /\ c \in everCerts
            /\ \E r \in everRules :
                /\ r.domain \in {sni, WildcardOf(sni)}
                /\ \/ r.cert = c.id
                   \/ r.cert = Unbound /\ c.domain \in {r.domain, WildcardOf(r.domain)}

Quiescent == up /\ \A t \in Task : pc[t] = "idle"

Coverable(host) == Winners(host, Usable(certs), Active(rules)) # {}

\* Since a load that saw the whole database one has failed, or has skipped a key.
LoadCutShort == blame \cap {"failed", "skipped"} # {}

\* When no handler is in flight and no load has failed or skipped a key since one
\* that saw the whole database, every name with SSL on and a usable matching
\* certificate has an entry: no order of handlers and loads loses the only load a
\* change needs.
SettledCovered ==
    Quiescent /\ ~LoadCutShort =>
        \A host \in Host : Coverable(host) => cache[host] # NoCert

\* A name that can be served has the very version the tables prescribe, exact names
\* before wildcards (an entry that expired after it was loaded aside, which stays
\* until the next load).
Fresh(host) ==
    LET auto == {r \in Active(rules) : r.domain = host}
        exact == {c \in Usable(certs) : c.domain = host}
    IN  Coverable(host) /\ cache[host].ver \notin unusable =>
            /\ cache[host] \in certs
            /\ \E r \in auto : Matches(r, cache[host])
            /\ (\E r \in auto : r.cert = Unbound) /\ exact # {} /\ ~IsWildcard(host) =>
                    ~IsWildcard(cache[host].domain)

\* A stale entry at rest is always the work of a load that wrote a snapshot older
\* than the tables, failed, skipped a key, or was never asked for: otherwise every
\* name is fresh.
SettledFresh == Quiescent /\ blame = {} => \A host \in Host : Fresh(host)

\* Reloading never opens a window without a certificate: while the process runs,
\* a name that has an entry and can be covered before and after a step keeps one.
NoHandshakeGap ==
    [][\A host \in Host :
        up' /\ Coverable(host) /\ Coverable(host)' /\ cache[host] # NoCert
            => cache'[host] # NoCert]_vars

\* A name that stays coverable gets its entry, unless a load fails or skips a key.
EventuallyCovered ==
    \A host \in Host :
        Coverable(host) ~> (cache[host] # NoCert \/ ~Coverable(host) \/ LoadCutShort)

-----------------------------------------------------------------------------
(* Claims of the comments, which the code does not keep                    *)

\* settings.rs:803: deleting a certificate and loading the cache takes it away from
\* the names it was served for: at rest, the last load having seen the whole
\* database, every entry stands for a certificate in the table.
DeletedCertIsGone ==
    Quiescent /\ blame = {} =>
        \A host \in Host : cache[host] # NoCert => \E c \in certs : c.id = cache[host].id

\* proxy.rs:321: "keeps this cache in sync with issued Let's Encrypt certificates":
\* at rest, no load having failed or skipped a key, an entry of a stored certificate is
\* its last version.
InSyncWithIssued ==
    Quiescent /\ ~LoadCutShort =>
        \A host \in Host : \A c \in certs :
            cache[host].id = c.id /\ Coverable(host) => cache[host].ver = c.ver
=============================================================================
