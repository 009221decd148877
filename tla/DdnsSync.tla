------------------------------ MODULE DdnsSync ------------------------------
(***************************************************************************)
(* Dynamic DNS: the task that publishes the addresses of the host          *)
(* (ddns/mod.rs) through one of two providers (cloudflare.rs, aliyun.rs),  *)
(* beside the requests of the panel that pause a domain, delete its        *)
(* records, change the settings or restore them from a file                *)
(* (api/settings.rs), and beside people who edit the same records with the *)
(* provider.                                                               *)
(*                                                                         *)
(* What the task remembers of a record is a setting, ddns_ipv4_<domain> or *)
(* ddns_ipv6_<domain>: the panel shows it as the address of the domain,    *)
(* and Cloudflare's upsert takes a record that is remembered and missing   *)
(* for one that a person has deleted.  A key is a domain with a record     *)
(* type, and has one record at most.  The providers are external: any call *)
(* may fail.  So may a read of the settings, which is sometimes taken for  *)
(* an empty one.  The paused list is read by nobody but the panel.         *)
(***************************************************************************)
EXTENDS Naturals, Sequences

CONSTANTS
    KeyOrder,       \* all keys, in the order the settings name the domains, A before AAAA
    Address,        \* addresses the host can have
    Refused,        \* <<type, address>> that fetch_ip does not accept: IPv6 with letters
    Hosted,         \* the keys each provider finds a zone for
    Backups,        \* configuration files: what an export of some installation holds of all this
    Task,           \* requests of the panel that may be in flight at once
    None,           \* no address, no record, no key
    MaxEdits,       \* bound: what people change, in the panel or with the provider
    MaxFaults       \* bound: calls and statements that fail, and restarts

VARIABLES
    address,    \* the address of the host of each type, None without one
    enabled,    \* setting ddns_enabled, with the credentials of the provider
    provider,   \* setting ddns_provider
    listed,     \* settings ddns_domain and ddns_domains: the keys to publish
    paused,     \* setting ddns_disabled
    managed,    \* settings ddns_ipv4_* and ddns_ipv6_*: the address remembered for each key
    record,     \* the content of the record of each key with each provider
    sync,       \* what the task is doing
    request,    \* what each request is doing
    edits,      \* edits so far
    faults,     \* failures so far
    \* history, read by the properties only
    disturbed,  \* keys whose record was changed by somebody else, or could not be read,
                \* or whose remembered address a restore brought
    deleted,    \* keys deleted at Cloudflare while they were remembered
    overlapped  \* a toggle was in flight beside another one or a restore

settings == <<enabled, provider, listed>>
bounds == <<edits, faults>>
vars == <<address, settings, paused, managed, record, sync, request, bounds,
          disturbed, deleted, overlapped>>

Provider == {"cloudflare", "aliyun"}
Key == {KeyOrder[i] : i \in 1..Len(KeyOrder)}
Domain == {k[1] : k \in Key}
Type == {k[2] : k \in Key}
Content == Address \cup {None}

ASSUME DdnsAssumption ==
    /\ KeyOrder \in Seq(Key)
    /\ None \notin Address
    /\ Refused \subseteq (Type \X Address)
    /\ Hosted \in [Provider -> SUBSET Domain]
    /\ \A b \in Backups :
        /\ b.managed \in UNION {[keys -> Address] : keys \in SUBSET Key}
        /\ "enabled" \in DOMAIN b => b.enabled \in BOOLEAN
        /\ "provider" \in DOMAIN b => b.provider \in Provider
        /\ "listed" \in DOMAIN b => b.listed \subseteq Domain
        /\ "paused" \in DOMAIN b => b.paused \subseteq Domain
    /\ MaxEdits \in Nat /\ MaxFaults \in Nat

-----------------------------------------------------------------------------
\* unread: the round, or the toggle, goes by something it has not read.
Idle == [pc |-> "idle", provider |-> "aliyun", todo |-> {},
         ip |-> [t \in Type |-> None], unread |-> FALSE]
NoRequest == [pc |-> "idle", domain |-> None, on |-> FALSE, read |-> {}, left |-> {},
              unread |-> FALSE]

\* An endpoint answers with the address as text: hexadecimal letters are not accepted.
Detect(t) == IF <<t, address[t]>> \in Refused THEN None ELSE address[t]

Keys(domains) == {k \in Key : k[1] \in domains}

\* The keys are worked through in order.
FirstIndex(keys) ==
    CHOOSE i \in 1..Len(KeyOrder) :
        KeyOrder[i] \in keys /\ \A j \in 1..(i - 1) : KeyOrder[j] \notin keys
First(keys) == KeyOrder[FirstIndex(keys)]
At == First(sync.todo)
Wanted == sync.ip[At[2]]

Init ==
    /\ address \in [Type -> Address]
    /\ enabled = TRUE
    /\ provider \in Provider
    /\ listed = Domain
    /\ paused = {}
    /\ managed = [k \in Key |-> None]
    /\ record = [p \in Provider |-> [k \in Key |-> None]]
    /\ sync = Idle
    /\ request = [h \in Task |-> NoRequest]
    /\ edits = 0 /\ faults = 0
    /\ disturbed = {} /\ deleted = {}
    /\ overlapped = FALSE

-----------------------------------------------------------------------------
\* The task.

Fault == faults < MaxFaults /\ faults' = faults + 1

Goto(label) == sync' = [sync EXCEPT !.pc = label]

\* A bug: the loop ends with the error of a round.
AbandonForGood == sync' = [Idle EXCEPT !.pc = "ended"]
Abandon == sync' = Idle

\* The next key, or the end of the round.
\* A bug: the end is not noticed.
AdvancePast == sync' = [sync EXCEPT !.pc = "lookup", !.todo = @ \ {At}, !.unread = FALSE]
Advance ==
    sync' = IF sync.todo = {At}
            THEN Idle
            ELSE [sync EXCEPT !.pc = "lookup", !.todo = @ \ {At}, !.unread = FALSE]

\* A round reads the settings and detects the addresses.
Begin(domains, types) ==
    /\ sync.pc = "idle"
    /\ enabled
    /\ domains # {}
    /\ sync' = [pc |-> "lookup", provider |-> provider, todo |-> Keys(domains),
                ip |-> [t \in Type |-> IF t \in types THEN Detect(t) ELSE None], unread |-> FALSE]

Start ==
    /\ Begin(listed, Type)
    /\ UNCHANGED <<address, settings, paused, managed, record, request, bounds,
                   disturbed, deleted, overlapped>>

\* A list that could not be read counts as empty, and endpoints that fail give no address.
StartUnread(domains, types) ==
    /\ Begin(domains, types)
    /\ Fault
    /\ UNCHANGED <<address, settings, paused, managed, record, request, edits,
                   disturbed, deleted, overlapped>>

\* Without an address of its type a key is passed over.
Skip ==
    /\ sync.pc = "lookup"
    /\ Wanted = None
    /\ Advance
    /\ UNCHANGED <<address, settings, paused, managed, record, request, bounds,
                   disturbed, deleted, overlapped>>

\* A domain of no known zone is an error, which ends the round for those after it, too.
NoZone ==
    /\ sync.pc = "lookup"
    /\ Wanted # None
    /\ At[1] \notin Hosted[sync.provider]
    /\ Abandon
    /\ UNCHANGED <<address, settings, paused, managed, record, request, bounds,
                   disturbed, deleted, overlapped>>

\* What Cloudflare's upsert makes of a missing record.
\* A bug: the domain is remembered, not its type.
RememberedDomain(k) == \E j \in Key : j[1] = k[1] /\ managed[j] # None
Remembered(k) == managed[k] # None
\* A bug: what is missing is created.
MissingCreated(p, k) == "create"
MissingLabel(p, k) == IF p = "cloudflare" /\ Remembered(k) THEN "mark" ELSE "create"

\* What the upserts do next with the record they found.
Verdict(found) ==
    CASE found = Wanted -> "mark"
      [] found = None -> MissingLabel(sync.provider, At)
      [] OTHER -> "update"

Lookup ==
    /\ sync.pc = "lookup"
    /\ Wanted # None
    /\ At[1] \in Hosted[sync.provider]
    /\ Goto(Verdict(record[sync.provider][At]))
    /\ UNCHANGED <<address, settings, paused, managed, record, request, bounds,
                   disturbed, deleted, overlapped>>

\* Cloudflare answers that it could not look: that is logged and counts as success.
LookupUnread ==
    /\ sync.pc = "lookup"
    /\ Wanted # None
    /\ sync.provider = "cloudflare"
    /\ At[1] \in Hosted["cloudflare"]
    /\ Fault
    /\ sync' = [sync EXCEPT !.pc = "mark", !.unread = TRUE]
    /\ UNCHANGED <<address, settings, paused, managed, record, request, edits,
                   disturbed, deleted, overlapped>>

\* That the remembered address cannot be read counts as no address: the record is created.
LookupForgets ==
    /\ sync.pc = "lookup"
    /\ Wanted # None
    /\ sync.provider = "cloudflare"
    /\ At[1] \in Hosted["cloudflare"]
    /\ record["cloudflare"][At] = None
    /\ Fault
    /\ sync' = [sync EXCEPT !.pc = "create", !.unread = TRUE]
    /\ UNCHANGED <<address, settings, paused, managed, record, request, edits,
                   disturbed, deleted, overlapped>>

Publish == record' = [record EXCEPT ![sync.provider][At] = Wanted]

\* A record that somebody created since is another record of the key: the provider refuses.
Create ==
    /\ sync.pc = "create"
    /\ record[sync.provider][At] = None
    /\ Publish
    /\ deleted' = IF sync.unread THEN deleted \ {At} ELSE deleted
    /\ Goto("mark")
    /\ UNCHANGED <<address, settings, paused, managed, request, bounds, disturbed, overlapped>>

Update ==
    /\ sync.pc = "update"
    /\ record[sync.provider][At] # None
    /\ Publish
    /\ Goto("mark")
    /\ UNCHANGED <<address, settings, paused, managed, request, bounds,
                   disturbed, deleted, overlapped>>

\* The record came or went since it was looked up.
Refuse ==
    /\ \/ sync.pc = "create" /\ record[sync.provider][At] # None
       \/ sync.pc = "update" /\ record[sync.provider][At] = None
    /\ Abandon
    /\ UNCHANGED <<address, settings, paused, managed, record, request, bounds,
                   disturbed, deleted, overlapped>>

Published(k, ip) == record[provider][k] = ip

Mark ==
    /\ sync.pc = "mark"
    /\ managed' = [managed EXCEPT ![At] = Wanted]
    /\ disturbed' = (IF sync.unread THEN disturbed \cup {At} ELSE disturbed)
                        \ (IF Published(At, Wanted) THEN {At} ELSE {})
    /\ Advance
    /\ UNCHANGED <<address, settings, paused, record, request, bounds, deleted, overlapped>>

\* A key that has been written and not remembered.
Unmarked == IF sync.pc = "mark" THEN {At} ELSE {}

\* A call or a statement of the round fails, which ends it.
Fail ==
    /\ sync.pc # "idle"
    /\ Fault
    /\ disturbed' = disturbed \cup Unmarked
    /\ Abandon
    /\ UNCHANGED <<address, settings, paused, managed, record, request, edits, deleted, overlapped>>

Restart ==
    /\ Fault
    /\ disturbed' = disturbed \cup Unmarked
    /\ Abandon
    /\ request' = [h \in Task |-> NoRequest]
    /\ UNCHANGED <<address, settings, paused, managed, record, edits, deleted, overlapped>>

-----------------------------------------------------------------------------
\* The panel.

Take(h, r) ==
    /\ request[h].pc = "idle"
    /\ edits < MaxEdits
    /\ edits' = edits + 1
    /\ request' = [request EXCEPT ![h] = r]

Answer(h) == request' = [request EXCEPT ![h] = NoRequest]

\* PATCH /ddns/toggle/:domain reads the list ...
Toggling == \E h \in Task : request[h].pc = "toggle"
ToggleRead(h, d, on) ==
    /\ Take(h, [NoRequest EXCEPT !.pc = "toggle", !.domain = d, !.on = on, !.read = paused])
    /\ overlapped' = (overlapped \/ Toggling)
    /\ UNCHANGED <<address, settings, paused, managed, record, sync, faults, disturbed, deleted>>

\* ... or takes a list that it cannot read for an empty one ...
ToggleUnread(h, d, on) ==
    /\ Take(h, [NoRequest EXCEPT !.pc = "toggle", !.domain = d, !.on = on, !.unread = TRUE])
    /\ overlapped' = (overlapped \/ Toggling)
    /\ Fault
    /\ UNCHANGED <<address, settings, paused, managed, record, sync, disturbed, deleted>>

\* ... and writes it back.
\* A bug: the list is replaced.
ToggledAlone(read, d, on) == IF on THEN read \ {d} ELSE {d}
Toggled(read, d, on) == IF on THEN read \ {d} ELSE read \cup {d}
ToggleWrite(h) ==
    /\ request[h].pc = "toggle"
    /\ paused' = Toggled(request[h].read, request[h].domain, request[h].on)
    /\ Answer(h)
    /\ UNCHANGED <<address, settings, managed, record, sync, bounds,
                   disturbed, deleted, overlapped>>

\* DELETE /ddns/domain/:domain: the records of a domain go, one type after the other; the
\* settings stay as they are.
BeginDelete(h, d) ==
    /\ d \in Hosted[provider]
    /\ Take(h, [NoRequest EXCEPT !.pc = provider, !.domain = d, !.left = Keys({d})])
    /\ UNCHANGED <<address, settings, paused, managed, record, sync, faults,
                   disturbed, deleted, overlapped>>

\* What a change of a record at Cloudflare makes of the keys deleted there.
Gone(p, k, content) ==
    IF p # "cloudflare" THEN deleted
    ELSE IF content # None THEN deleted \ {k}
    ELSE IF managed[k] # None THEN deleted \cup {k} ELSE deleted

\* The keys that are left to a deletion after the one it is at.
KeysAfter(h) == request[h].left \ {First(request[h].left)}

DeleteRecord(h) ==
    LET k == First(request[h].left)
    IN  /\ request[h].pc \in Provider
        /\ record' = [record EXCEPT ![request[h].pc][k] = None]
        /\ disturbed' = disturbed \cup {k}
        /\ deleted' = Gone(request[h].pc, k, None)
        /\ request' = [request EXCEPT ![h] =
               IF KeysAfter(h) = {} THEN NoRequest ELSE [request[h] EXCEPT !.left = KeysAfter(h)]]
        /\ UNCHANGED <<address, settings, paused, managed, sync, bounds, overlapped>>

\* A listing fails, or the client leaves; that a deletion fails is not looked at.
ForsakeRequest(h) ==
    /\ request[h].pc # "idle"
    /\ Fault
    /\ \/ Answer(h)
       \/ /\ request[h].pc \in Provider
          /\ KeysAfter(h) # {}
          /\ request' = [request EXCEPT ![h].left = KeysAfter(h)]
    /\ UNCHANGED <<address, settings, paused, managed, record, sync, edits,
                   disturbed, deleted, overlapped>>

Edit ==
    /\ edits < MaxEdits
    /\ edits' = edits + 1

\* PATCH /settings.
SetDdns ==
    /\ Edit
    /\ \/ enabled' \in BOOLEAN /\ UNCHANGED <<provider, listed, disturbed>>
       \/ listed' \in SUBSET Domain /\ UNCHANGED <<enabled, provider, disturbed>>
       \/ provider' \in Provider /\ disturbed' = Key /\ UNCHANGED <<enabled, listed>>
    /\ UNCHANGED <<address, paused, managed, record, sync, request, faults, deleted, overlapped>>

\* POST /system/restore: one transaction writes the settings that the file has, the remembered
\* addresses among them.  A round that is about to create a record has read the old ones.
Restored(b, setting, old) == IF setting \in DOMAIN b THEN b[setting] ELSE old
Restore(b) ==
    /\ Edit
    /\ enabled' = Restored(b, "enabled", enabled)
    /\ provider' = Restored(b, "provider", provider)
    /\ listed' = Restored(b, "listed", listed)
    /\ paused' = Restored(b, "paused", paused)
    /\ managed' = [k \in Key |-> IF k \in DOMAIN b.managed THEN b.managed[k] ELSE managed[k]]
    /\ sync' = [sync EXCEPT !.unread = @ \/ (sync.pc = "create" /\ At \in DOMAIN b.managed)]
    /\ disturbed' = IF provider' = provider THEN disturbed \cup DOMAIN b.managed ELSE Key
    /\ overlapped' = (overlapped \/ Toggling)
    /\ UNCHANGED <<address, record, request, faults, deleted>>

-----------------------------------------------------------------------------
\* People at the provider, and the network.

EditRecord(p, k, content) ==
    /\ Edit
    /\ record[p][k] # content
    /\ record' = [record EXCEPT ![p][k] = content]
    /\ disturbed' = disturbed \cup {k}
    /\ deleted' = Gone(p, k, content)
    /\ UNCHANGED <<address, settings, paused, managed, sync, request, faults, overlapped>>

Readdress(t, a) ==
    /\ Edit
    /\ address' = [address EXCEPT ![t] = a]
    /\ UNCHANGED <<settings, paused, managed, record, sync, request, faults,
                   disturbed, deleted, overlapped>>

-----------------------------------------------------------------------------
Sync == Start \/ Skip \/ NoZone \/ Lookup \/ Create \/ Update \/ Refuse \/ Mark

Next ==
    \/ Sync \/ LookupUnread \/ LookupForgets \/ Fail \/ Restart
    \/ \E domains \in SUBSET listed, types \in SUBSET Type : StartUnread(domains, types)
    \/ \E h \in Task :
          \/ \E d \in Domain : \/ \E on \in BOOLEAN : ToggleRead(h, d, on)
                               \/ \E on \in BOOLEAN : ToggleUnread(h, d, on)
                               \/ BeginDelete(h, d)
          \/ ToggleWrite(h) \/ DeleteRecord(h) \/ ForsakeRequest(h)
    \/ SetDdns
    \/ \E b \in Backups : Restore(b)
    \/ \E k \in Key, p \in Provider, content \in Content : EditRecord(p, k, content)
    \/ \E t \in Type, a \in Content : Readdress(t, a)

\* The interval is a sleep, so rounds begin for ever; a round has finitely many calls, each
\* with a time limit.
Spec == Init /\ [][Next]_vars /\ WF_vars(Sync)

-----------------------------------------------------------------------------
Round == [pc : {"idle", "lookup", "create", "update", "mark"}, provider : Provider,
          todo : SUBSET Key, ip : [Type -> Content], unread : BOOLEAN]
Handling == [pc : {"idle", "toggle"} \cup Provider, domain : Domain \cup {None},
             on : BOOLEAN, read : SUBSET Domain, left : SUBSET Key, unread : BOOLEAN]

Types ==
    /\ address \in [Type -> Content]
    /\ enabled \in BOOLEAN
    /\ provider \in Provider
    /\ listed \subseteq Domain
    /\ paused \subseteq Domain
    /\ managed \in [Key -> Content]
    /\ record \in [Provider -> [Key -> Content]]
    /\ sync \in Round
    /\ request \in [Task -> Handling]
    /\ edits \in 0..MaxEdits /\ faults \in 0..MaxFaults
    /\ disturbed \subseteq Key /\ deleted \subseteq Key
    /\ overlapped \in BOOLEAN

\* A round that goes on has keys left, and writes only addresses that the host has.
InRound ==
    /\ sync.pc # "idle" => sync.todo # {}
    /\ sync.pc \in {"create", "update", "mark"} => Wanted # None

\* A request that goes on is about a domain, and a deletion has keys of it left.
InRequest ==
    \A h \in Task :
        /\ request[h].pc # "idle" => request[h].domain \in Domain
        /\ request[h].pc \in Provider =>
              request[h].left # {} /\ \A k \in request[h].left : k[1] = request[h].domain

TypeOK == Types /\ InRound /\ InRequest

\* The address the panel shows for a domain is the one in its record, unless somebody else
\* changed the record, a failure kept the task from reading or remembering it (update_ddns
\* remembers what upsert_record did not refuse), or a restore brought the address or
\* another provider.
ManagedIsPublished ==
    \A k \in Key : managed[k] # None =>
        \/ Published(k, managed[k])
        \/ k \in disturbed
        \/ sync.pc = "mark" /\ k = At

\* A record deleted at Cloudflare, by a person or by the panel, stays deleted, however rounds
\* overlap with the deletion ("Don't auto-recreate", upsert_record), unless a round creates it
\* that has not read what is remembered: the read failed and counted as "not managed", or a
\* restore brought the address after it.
NotRecreated == \A k \in deleted : record["cloudflare"][k] = None

\* A toggle that has read the list, and overlaps with no other and no restore, changes what
\* the list says of its own domain only (ddns_toggle).
TogglesAdd ==
    [][\A h \in Task :
        LET d == request[h].domain IN
        /\ request[h].pc = "toggle" /\ request'[h].pc # "toggle" /\ paused' # paused
        /\ ~request[h].unread /\ ~overlapped
        => paused \ {d} = paused' \ {d}]_vars

\* A key the task can reach: no domain before it is without a zone.
Reached(k) ==
    /\ k[1] \in listed
    /\ \A i, j \in 1..Len(KeyOrder) :
          i <= j /\ KeyOrder[j] = k /\ KeyOrder[i][1] \in listed
              /\ Detect(KeyOrder[i][2]) # None
          => KeyOrder[i][1] \in Hosted[provider]
Shunned(k) == provider = "cloudflare" /\ record[provider][k] = None /\ managed[k] # None

\* Once addresses, settings and records are left alone, every key the task can reach has the
\* address of the host, unless Cloudflare's upsert takes it for deleted (run_ddns_manager).
Settles ==
    \A k \in Key :
        <>[](enabled /\ Reached(k) /\ Detect(k[2]) # None =>
                Published(k, address[k[2]]) \/ Shunned(k))
=============================================================================
