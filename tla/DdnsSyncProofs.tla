--------------------------- MODULE DdnsSyncProofs ---------------------------
(***************************************************************************)
(* Type correctness of DdnsSync, that a remembered address is a published  *)
(* one, that what is deleted at Cloudflare stays deleted, that toggles add *)
(* up, and that a round ends after finitely many steps, for any keys,      *)
(* addresses, zones, requests and bounds.                                  *)
(***************************************************************************)
EXTENDS DdnsSync, FiniteSetTheorems, WellFoundedInduction, TLAPS

\* A key counts as deleted only while it is remembered, and the task is about to create a
\* record at Cloudflare only of a key that is not, or of which it has not read it.
DeletedKnown == \A k \in deleted : managed[k] # None
CreatesUnknown ==
    sync.pc = "create" /\ sync.provider = "cloudflare" => managed[At] = None \/ sync.unread

\* A round for a provider that is no longer the one of the settings has only keys left of
\* which nothing is claimed.
Foreign == sync.pc # "idle" /\ sync.provider # provider => sync.todo \subseteq disturbed

\* What is about to be remembered has been found or written, unless it was disturbed since.
Found == sync.pc = "mark" /\ ~sync.unread => record[sync.provider][At] = Wanted \/ At \in disturbed

\* A toggle that has read the list, and been alone since, has read what is in it.
Alone ==
    ~overlapped => \A g \in Task : request[g].pc = "toggle" =>
        /\ ~request[g].unread => request[g].read = paused
        /\ \A h \in Task : request[h].pc = "toggle" => h = g

IInv ==
    /\ TypeOK
    /\ DeletedKnown /\ CreatesUnknown /\ NotRecreated
    /\ Foreign /\ Found /\ ManagedIsPublished
    /\ Alone

-----------------------------------------------------------------------------
(* The order of the keys, and types                                        *)

LEMMA Parameters ==
    /\ None \notin Address
    /\ \A p \in Provider : Hosted[p] \subseteq Domain
    /\ MaxEdits \in Nat /\ MaxFaults \in Nat
    /\ Len(KeyOrder) \in Nat
BY DdnsAssumption

\* What a configuration file may hold.
LEMMA BackupType ==
    ASSUME NEW b \in Backups
    PROVE  /\ DOMAIN b.managed \subseteq Key
           /\ \A k \in DOMAIN b.managed : b.managed[k] \in Address
           /\ enabled \in BOOLEAN => Restored(b, "enabled", enabled) \in BOOLEAN
           /\ provider \in Provider => Restored(b, "provider", provider) \in Provider
           /\ listed \subseteq Domain => Restored(b, "listed", listed) \subseteq Domain
           /\ paused \subseteq Domain => Restored(b, "paused", paused) \subseteq Domain
<1>1. PICK keys \in SUBSET Key : b.managed \in [keys -> Address]
  BY DdnsAssumption
<1>2. DOMAIN b.managed \subseteq Key /\ \A k \in DOMAIN b.managed : b.managed[k] \in Address
  BY <1>1
<1>3. /\ enabled \in BOOLEAN => Restored(b, "enabled", enabled) \in BOOLEAN
      /\ provider \in Provider => Restored(b, "provider", provider) \in Provider
      /\ listed \subseteq Domain => Restored(b, "listed", listed) \subseteq Domain
      /\ paused \subseteq Domain => Restored(b, "paused", paused) \subseteq Domain
  BY DdnsAssumption DEF Restored
<1> QED BY <1>2, <1>3

LEMMA KeyParts == \A k \in Key : k[1] \in Domain /\ k[2] \in Type
BY DEF Domain, Type

\* There is a first one of any keys.
LEMMA FirstIsOne ==
    ASSUME NEW keys \in SUBSET Key, keys # {}
    PROVE  First(keys) \in keys
<1> DEFINE T == {i \in 1..Len(KeyOrder) : KeyOrder[i] \in keys}
<1>1. T \subseteq Nat /\ T # {}
  <2>1. PICK k \in keys : TRUE
    OBVIOUS
  <2>2. PICK i \in 1..Len(KeyOrder) : k = KeyOrder[i]
    BY <2>1 DEF Key
  <2> QED BY <2>1, <2>2, Parameters
<1>2. PICK i \in T : \A j \in T : ~ (<<j, i>> \in OpToRel(<, Nat))
  BY <1>1, NatLessThanWellFounded, WFMin
<1>3. \A j \in 1..(i - 1) : KeyOrder[j] \notin keys
  <2> SUFFICES ASSUME NEW j \in 1..(i - 1), KeyOrder[j] \in keys PROVE FALSE
    OBVIOUS
  <2>1. j \in T /\ j \in Nat /\ i \in Nat /\ j < i
    BY Parameters
  <2>2. <<j, i>> \in OpToRel(<, Nat)
    BY <2>1 DEF OpToRel
  <2> QED BY <1>2, <2>1, <2>2
<1>4. \E n \in 1..Len(KeyOrder) :
         KeyOrder[n] \in keys /\ \A j \in 1..(n - 1) : KeyOrder[j] \notin keys
  BY <1>2, <1>3
<1>5. KeyOrder[FirstIndex(keys)] \in keys
  BY <1>4 DEF FirstIndex
<1> QED BY <1>5 DEF First

\* The key that a round is at, and the address it would publish for it.
LEMMA AtType ==
    ASSUME Types, sync.todo # {}
    PROVE  At \in sync.todo /\ At \in Key /\ Wanted \in Content
<1>1. At \in sync.todo /\ At \in Key
  BY FirstIsOne DEF Types, Round, At
<1> QED BY <1>1, KeyParts DEF Types, Round, Wanted

LEMMA IdleRound == Idle \in Round /\ Idle.pc = "idle"
BY DEF Idle, Round, Provider, Content

LEMMA NoRequestType == NoRequest \in Handling /\ NoRequest.pc = "idle"
BY DEF NoRequest, Handling, Provider

\* A step within a round.
LEMMA GotoRound ==
    ASSUME sync \in Round, NEW label \in {"lookup", "create", "update", "mark"}, Goto(label)
    PROVE  /\ sync' \in Round /\ sync'.pc = label
           /\ sync'.todo = sync.todo /\ sync'.provider = sync.provider
           /\ sync'.unread = sync.unread
           /\ At' = At /\ Wanted' = Wanted
<1>1. /\ sync' \in Round /\ sync'.pc = label /\ sync'.todo = sync.todo
      /\ sync'.provider = sync.provider /\ sync'.unread = sync.unread /\ sync'.ip = sync.ip
  BY DEF Goto, Round
<1>2. At' = At
  BY <1>1 DEF At
<1> QED BY <1>1, <1>2 DEF Wanted

\* The step to the next key.
LEMMA AdvanceRound ==
    ASSUME sync \in Round, sync.todo # {}, Advance
    PROVE  /\ sync' \in Round /\ sync'.pc \in {"idle", "lookup"}
           /\ sync'.pc = "lookup" =>
                 /\ sync'.todo # {} /\ sync'.todo = sync.todo \ {At}
                 /\ sync'.provider = sync.provider
<1>1. CASE sync.todo = {At}
  BY <1>1, IdleRound DEF Advance
<1>2. CASE sync.todo # {At}
  <2> DEFINE s == [sync EXCEPT !.pc = "lookup", !.todo = @ \ {At}, !.unread = FALSE]
  <2>1. sync' = s
    BY <1>2 DEF Advance
  <2>2. s \in Round /\ s.pc = "lookup" /\ s.todo = sync.todo \ {At} /\ s.provider = sync.provider
    BY DEF Round
  <2>3. sync.todo \ {At} # {}
    BY <1>2
  <2> QED BY <2>1, <2>2, <2>3
<1> QED BY <1>1, <1>2

\* The steps of the task, and those of everybody else.
Beginning ==
    \/ Start
    \/ \E domains \in SUBSET listed, types \in SUBSET Type : StartUnread(domains, types)
RoundStep == Sync \/ Beginning \/ LookupUnread \/ LookupForgets \/ Fail
RequestStep(h) ==
    \/ \E d \in Domain, on \in BOOLEAN : ToggleRead(h, d, on) \/ ToggleUnread(h, d, on)
    \/ \E d \in Domain : BeginDelete(h, d)
    \/ ToggleWrite(h) \/ DeleteRecord(h) \/ ForsakeRequest(h)
OutsideStep ==
    \/ SetDdns
    \/ \E k \in Key, p \in Provider, content \in Content : EditRecord(p, k, content)
    \/ \E t \in Type, a \in Content : Readdress(t, a)
RestoreStep == \E b \in Backups : Restore(b)

LEMMA Kinds ==
    Next => \/ RoundStep \/ Restart \/ OutsideStep \/ RestoreStep
            \/ \E h \in Task : RequestStep(h)
BY DEF Next, RoundStep, Beginning, OutsideStep, RestoreStep, RequestStep

\* The task keeps everything but the records, its memory and the failures.
LEMMA RoundFrame ==
    ASSUME RoundStep
    PROVE  /\ UNCHANGED <<address, enabled, provider, listed, paused, request, edits, overlapped>>
           /\ deleted' = deleted \/ Create
<1> USE DEF settings, bounds
<1>1. CASE Beginning
  BY <1>1 DEF Beginning, Start, StartUnread
<1>2. CASE Skip \/ NoZone \/ Lookup \/ LookupUnread \/ LookupForgets
  BY <1>2 DEF Skip, NoZone, Lookup, LookupUnread, LookupForgets
<1>3. CASE Create \/ Update \/ Refuse
  BY <1>3 DEF Create, Update, Refuse
<1>4. CASE Mark \/ Fail
  BY <1>4 DEF Mark, Fail
<1> QED BY <1>1, <1>2, <1>3, <1>4 DEF RoundStep, Sync, Beginning

\* What a step makes of the round: it is over, at another key, or goes on with this one.
RoundOver == sync' \in Round /\ sync'.pc = "idle"
NextKey ==
    /\ sync' \in Round /\ sync'.pc = "lookup" /\ sync'.provider = sync.provider
    /\ sync'.todo # {} /\ sync'.todo = sync.todo \ {At}
SameKey(label) ==
    /\ sync' \in Round /\ sync'.pc = label /\ sync'.provider = sync.provider
    /\ sync'.todo = sync.todo
    /\ At' = At /\ Wanted' = Wanted

LEMMA Rounds ==
    ASSUME TypeOK, sync.pc # "idle"
    PROVE  /\ Advance => RoundOver \/ NextKey
           /\ Abandon => RoundOver
           /\ \A label \in {"lookup", "create", "update", "mark"} :
                 Goto(label) => SameKey(label) /\ sync'.unread = sync.unread
<1>1. sync \in Round /\ sync.todo # {}
  BY DEF TypeOK, Types, InRound
<1>2. Advance => RoundOver \/ NextKey
  BY <1>1, AdvanceRound DEF RoundOver, NextKey
<1>3. Abandon => RoundOver
  BY IdleRound DEF Abandon, RoundOver
<1>4. ASSUME NEW label \in {"lookup", "create", "update", "mark"}, Goto(label)
      PROVE  SameKey(label) /\ sync'.unread = sync.unread
  BY <1>1, <1>4, GotoRound DEF SameKey
<1> QED BY <1>2, <1>3, <1>4

LEMMA UnreadRound ==
    ASSUME sync \in Round, NEW label \in {"create", "mark"},
           sync' = [sync EXCEPT !.pc = label, !.unread = TRUE]
    PROVE  SameKey(label) /\ sync'.unread /\ sync'.ip = sync.ip
<1>1. /\ sync' \in Round /\ sync'.pc = label /\ sync'.todo = sync.todo
      /\ sync'.provider = sync.provider /\ sync'.unread /\ sync'.ip = sync.ip
  BY DEF Round
<1>2. At' = At
  BY <1>1 DEF At
<1> QED BY <1>1, <1>2 DEF Wanted, SameKey

\* A restore is noticed by a round that is about to create a record, and no other.
LEMMA RestoredRound ==
    ASSUME sync \in Round, NEW b \in Backups, Restore(b)
    PROVE  /\ SameKey(sync.pc) /\ sync'.ip = sync.ip
           /\ sync.unread => sync'.unread
           /\ sync.pc = "create" /\ At \in DOMAIN b.managed => sync'.unread
           /\ sync.pc # "create" => sync'.unread = sync.unread
<1> DEFINE u == sync.unread \/ (sync.pc = "create" /\ At \in DOMAIN b.managed)
<1>1. u \in BOOLEAN
  BY DEF Round
<1>2. sync' = [sync EXCEPT !.unread = u]
  BY DEF Restore
<1>3. /\ sync' \in Round /\ sync'.pc = sync.pc /\ sync'.todo = sync.todo
      /\ sync'.provider = sync.provider /\ sync'.unread = u /\ sync'.ip = sync.ip
  <2> HIDE DEF u
  <2> QED BY <1>1, <1>2 DEF Round
<1>4. At' = At
  BY <1>3 DEF At
<1>5. SameKey(sync.pc)
  BY <1>3, <1>4 DEF SameKey, Wanted
<1>6. u = (sync.unread \/ (sync.pc = "create" /\ At \in DOMAIN b.managed)) /\ sync.unread \in BOOLEAN
  BY DEF Round
<1> HIDE DEF u
<1> QED BY <1>3, <1>5, <1>6

\* A round begins with all keys of the domains that it knows of.
LEMMA Begins ==
    ASSUME Types, Beginning
    PROVE  /\ sync' \in Round /\ sync'.pc = "lookup" /\ sync'.todo # {} /\ sync'.provider = provider
           /\ sync.pc = "idle" /\ UNCHANGED <<managed, record, disturbed, deleted>>
<1>1. PICK domains \in SUBSET listed, types \in SUBSET Type : Begin(domains, types)
  <2>1. listed \in SUBSET listed /\ Type \in SUBSET Type
    OBVIOUS
  <2> QED BY <2>1 DEF Beginning, Start, StartUnread
<1>2. Keys(domains) \in SUBSET Key
  BY DEF Keys
<1>3. Keys(domains) # {}
  <2>1. PICK d \in domains : d \in Domain
    BY <1>1 DEF Begin, Types
  <2>2. PICK k \in Key : k[1] = d
    BY <2>1 DEF Domain
  <2> QED BY <2>1, <2>2 DEF Keys
<1>4. [t \in Type |-> IF t \in types THEN Detect(t) ELSE None] \in [Type -> Content]
  BY DEF Types, Detect, Content
<1>5. UNCHANGED <<managed, record, disturbed, deleted>>
  BY DEF Beginning, Start, StartUnread
<1> QED BY <1>1, <1>2, <1>3, <1>4, <1>5 DEF Begin, Types, Round

\* The label that the upserts choose.
LEMMA VerdictType ==
    ASSUME NEW found
    PROVE  Verdict(found) \in {"mark", "create", "update"}
BY DEF Verdict, MissingLabel

-----------------------------------------------------------------------------
(* Types                                                                   *)

LEMMA RoundTypes ==
    ASSUME TypeOK, RoundStep
    PROVE  TypeOK'
<1>0. /\ Types /\ sync \in Round
      /\ UNCHANGED <<address, enabled, provider, listed, paused, request, edits, overlapped>>
      /\ deleted' \subseteq Key
  BY RoundFrame DEF TypeOK, Types, Create
<1>a. InRequest'
  BY <1>0 DEF TypeOK, InRequest
<1>b. sync.pc # "idle" => sync.todo # {} /\ At \in Key /\ Wanted \in Content /\ sync.provider \in Provider
  BY <1>0, AtType DEF TypeOK, InRound, Round
<1>c. Unmarked \subseteq Key
  BY <1>b DEF Unmarked
<1>d. Fault => faults' \in 0..MaxFaults
  BY <1>0, Parameters DEF Fault, Types
<1>1. CASE Beginning
  <2>1. InRound'
    BY <1>0, <1>1, Begins DEF InRound
  <2>2. faults' \in 0..MaxFaults
    BY <1>0, <1>1, <1>d DEF Beginning, Start, StartUnread, Types, bounds
  <2>3. Types'
    BY <1>0, <1>1, <2>2, Begins DEF Types
  <2> QED BY <1>a, <2>1, <2>3 DEF TypeOK
<1>2. CASE Skip \/ NoZone \/ Refuse
  <2>1. sync.pc # "idle" /\ UNCHANGED <<managed, record, faults, disturbed>> /\ (Advance \/ Abandon)
    BY <1>2 DEF Skip, NoZone, Refuse, bounds
  <2>2. RoundOver \/ NextKey
    BY <2>1, Rounds
  <2>3. InRound'
    BY <2>2 DEF InRound, RoundOver, NextKey
  <2>4. Types'
    BY <1>0, <2>1, <2>2 DEF Types, RoundOver, NextKey
  <2> QED BY <1>a, <2>3, <2>4 DEF TypeOK
<1>3. CASE Lookup
  <2> DEFINE label == Verdict(record[sync.provider][At])
  <2>1. sync.pc # "idle" /\ UNCHANGED <<managed, record, faults, disturbed>> /\ Goto(label)
    BY <1>3 DEF Lookup, bounds
  <2>2. label \in {"mark", "create", "update"}
    BY VerdictType
  <2> HIDE DEF label
  <2>3. SameKey(label) /\ Wanted # None
    BY <1>3, <2>1, <2>2, Rounds DEF Lookup
  <2>4. InRound'
    BY <1>b, <2>1, <2>3 DEF InRound, SameKey
  <2>5. Types'
    BY <1>0, <2>1, <2>3 DEF Types, SameKey
  <2> QED BY <1>a, <2>4, <2>5 DEF TypeOK
<1>4. CASE LookupUnread \/ LookupForgets
  <2>1. sync.pc # "idle" /\ UNCHANGED <<managed, record, disturbed>> /\ Wanted # None /\ Fault
    BY <1>4 DEF LookupUnread, LookupForgets
  <2>2. PICK label \in {"create", "mark"} : SameKey(label)
    BY <1>0, <1>4, UnreadRound DEF LookupUnread, LookupForgets
  <2>3. InRound'
    BY <1>b, <2>1, <2>2 DEF InRound, SameKey
  <2>4. Types'
    BY <1>0, <1>d, <2>1, <2>2 DEF Types, SameKey
  <2> QED BY <1>a, <2>3, <2>4 DEF TypeOK
<1>5. CASE Create \/ Update
  <2>1. sync.pc \in {"create", "update"} /\ UNCHANGED <<managed, faults, disturbed>>
        /\ Goto("mark") /\ Publish
    BY <1>5 DEF Create, Update, bounds
  <2>2. SameKey("mark") /\ Wanted # None
    BY <2>1, Rounds DEF TypeOK, InRound
  <2>3. InRound'
    BY <1>b, <2>1, <2>2 DEF InRound, SameKey
  <2>4. record' \in [Provider -> [Key -> Content]]
    BY <1>0, <1>b, <2>1 DEF Publish, Types
  <2>5. Types'
    BY <1>0, <2>1, <2>2, <2>4 DEF Types, SameKey
  <2> QED BY <1>a, <2>3, <2>5 DEF TypeOK
<1>6. CASE Mark
  <2>1. sync.pc = "mark" /\ UNCHANGED <<record, faults>> /\ Advance
    BY <1>6 DEF Mark, bounds
  <2>2. managed' \in [Key -> Content] /\ disturbed' \subseteq Key
    BY <1>0, <1>b, <1>6 DEF Mark, Types
  <2>3. RoundOver \/ NextKey
    BY <2>1, Rounds
  <2>4. InRound'
    BY <2>3 DEF InRound, RoundOver, NextKey
  <2>5. Types'
    BY <1>0, <2>1, <2>2, <2>3 DEF Types, RoundOver, NextKey
  <2> QED BY <1>a, <2>4, <2>5 DEF TypeOK
<1>7. CASE Fail
  <2>1. UNCHANGED <<managed, record>> /\ Abandon /\ Fault /\ disturbed' = disturbed \cup Unmarked
    BY <1>7 DEF Fail
  <2>2. RoundOver
    BY <1>7, <2>1, Rounds DEF Fail
  <2>3. InRound'
    BY <2>2 DEF InRound, RoundOver
  <2>4. Types'
    BY <1>0, <1>c, <1>d, <2>1, <2>2 DEF Types, RoundOver
  <2> QED BY <1>a, <2>3, <2>4 DEF TypeOK
<1> QED BY <1>1, <1>2, <1>3, <1>4, <1>5, <1>6, <1>7 DEF RoundStep, Sync, Beginning

\* Whoever is not the task leaves it as it is.
LEMMA Bystander ==
    ASSUME UNCHANGED sync
    PROVE  At' = At /\ Wanted' = Wanted
<1>1. At' = At
  BY DEF At
<1> QED BY <1>1 DEF Wanted

\* A deletion is at one of its keys.
LEMMA DeletionAt ==
    ASSUME TypeOK, NEW h \in Task, request[h].pc \in Provider
    PROVE  First(request[h].left) \in request[h].left /\ First(request[h].left) \in Key
<1>1. request[h].left \in SUBSET Key /\ request[h].left # {}
  BY DEF TypeOK, Types, InRequest, Handling
<1> QED BY <1>1, FirstIsOne

\* What a request may become.
Fits(r) ==
    /\ r \in Handling
    /\ r.pc # "idle" => r.domain \in Domain
    /\ r.pc \in Provider => r.left # {} /\ \A k \in r.left : k[1] = r.domain

LEMMA RequestFits ==
    ASSUME TypeOK, NEW h \in Task, NEW r, Fits(r), request' = [request EXCEPT ![h] = r]
    PROVE  request' \in [Task -> Handling] /\ InRequest'
<1>1. request \in [Task -> Handling] /\ InRequest
  BY DEF TypeOK, Types
<1>2. request' \in [Task -> Handling]
  BY <1>1 DEF Fits
<1>3. \A g \in Task : request'[g] = IF g = h THEN r ELSE request[g]
  BY <1>1
<1>4. InRequest'
  BY <1>1, <1>3 DEF InRequest, Fits
<1> QED BY <1>2, <1>4

LEMMA EditCounts ==
    ASSUME Types, edits < MaxEdits, edits' = edits + 1
    PROVE  edits' \in 0..MaxEdits
BY Parameters DEF Types

\* DeleteRecord and EditRecord change the record of one key.
LEMMA RecordType ==
    ASSUME Types, NEW p \in Provider, NEW k \in Key, NEW content \in Content
    PROVE  /\ [record EXCEPT ![p][k] = content] \in [Provider -> [Key -> Content]]
           /\ Gone(p, k, content) \in SUBSET Key
BY DEF Types, Gone

\* A deletion goes on with the keys it has left.
LEMMA NextFits ==
    ASSUME TypeOK, NEW h \in Task, request[h].pc \in Provider, KeysAfter(h) # {}
    PROVE  Fits([request[h] EXCEPT !.left = KeysAfter(h)])
<1> DEFINE q == [request[h] EXCEPT !.left = KeysAfter(h)]
<1>1. request[h] \in Handling /\ KeysAfter(h) \subseteq request[h].left
  BY DEF TypeOK, Types, KeysAfter
<1>2. /\ q \in Handling /\ q.pc = request[h].pc /\ q.domain = request[h].domain
      /\ q.left = KeysAfter(h)
  BY <1>1 DEF Handling
<1>3. q.domain \in Domain /\ \A j \in q.left : j[1] = q.domain
  BY <1>1, <1>2 DEF TypeOK, InRequest, Provider
<1> QED BY <1>2, <1>3 DEF Fits

LEMMA RequestTypes ==
    ASSUME TypeOK, NEW h \in Task, RequestStep(h)
    PROVE  TypeOK'
<1> USE DEF settings, bounds
<1>0. Types /\ request[h] \in Handling
  BY DEF TypeOK, Types
<1>a. ASSUME UNCHANGED sync PROVE InRound'
  BY <1>a, Bystander DEF TypeOK, InRound
<1>b. Fits(NoRequest)
  BY NoRequestType DEF Fits, Provider
<1>1. ASSUME NEW d \in Domain, NEW on \in BOOLEAN, ToggleRead(h, d, on) PROVE TypeOK'
  <2> DEFINE r == [NoRequest EXCEPT !.pc = "toggle", !.domain = d, !.on = on, !.read = paused]
  <2>1. Fits(r)
    BY <1>0 DEF Fits, NoRequest, Handling, Types, Provider
  <2>2. request' = [request EXCEPT ![h] = r] /\ edits < MaxEdits /\ edits' = edits + 1
    BY <1>1 DEF ToggleRead, Take
  <2>3. request' \in [Task -> Handling] /\ InRequest'
    BY <2>1, <2>2, RequestFits
  <2>4. edits' \in 0..MaxEdits
    BY <1>0, <2>2, EditCounts
  <2>5. overlapped' \in BOOLEAN
    BY <1>0, <1>1 DEF ToggleRead, Toggling, Types
  <2>6. Types' /\ UNCHANGED sync
    BY <1>0, <1>1, <2>3, <2>4, <2>5 DEF ToggleRead, Types
  <2> QED BY <1>a, <2>3, <2>6 DEF TypeOK
<1>2. ASSUME NEW d \in Domain, BeginDelete(h, d) PROVE TypeOK'
  <2> DEFINE r == [NoRequest EXCEPT !.pc = provider, !.domain = d, !.left = Keys({d})]
  <2>1. Keys({d}) \in SUBSET Key /\ (\A k \in Keys({d}) : k[1] = d) /\ Keys({d}) # {}
    BY DEF Keys, Domain
  <2>2. Fits(r)
    BY <1>0, <2>1 DEF Fits, NoRequest, Handling, Types
  <2>3. request' = [request EXCEPT ![h] = r] /\ edits < MaxEdits /\ edits' = edits + 1
    BY <1>2 DEF BeginDelete, Take
  <2>4. request' \in [Task -> Handling] /\ InRequest'
    BY <2>2, <2>3, RequestFits
  <2>5. edits' \in 0..MaxEdits
    BY <1>0, <2>3, EditCounts
  <2>6. Types' /\ UNCHANGED sync
    BY <1>0, <1>2, <2>4, <2>5 DEF BeginDelete, Types
  <2> QED BY <1>a, <2>4, <2>6 DEF TypeOK
<1>3. CASE ToggleWrite(h)
  <2>1. request' = [request EXCEPT ![h] = NoRequest]
    BY <1>3 DEF ToggleWrite, Answer
  <2>2. request' \in [Task -> Handling] /\ InRequest'
    BY <1>b, <2>1, RequestFits
  <2>3. request[h].domain \in Domain
    BY <1>3 DEF ToggleWrite, TypeOK, InRequest
  <2>4. paused' \subseteq Domain
    BY <1>0, <1>3, <2>3 DEF ToggleWrite, Toggled, Handling
  <2>5. Types' /\ UNCHANGED sync
    BY <1>0, <1>3, <2>2, <2>4 DEF ToggleWrite, Types
  <2> QED BY <1>a, <2>2, <2>5 DEF TypeOK
<1>4. CASE DeleteRecord(h)
  <2> DEFINE k == First(request[h].left)
             p == request[h].pc
             q == [request[h] EXCEPT !.left = KeysAfter(h)]
             r == IF KeysAfter(h) = {} THEN NoRequest ELSE q
  <2>1. p \in Provider /\ k \in request[h].left /\ k \in Key
    BY <1>4, DeletionAt DEF DeleteRecord
  <2>2. Fits(r)
    BY <1>4, <1>b, NextFits DEF DeleteRecord
  <2>3. request' = [request EXCEPT ![h] = r]
    BY <1>4 DEF DeleteRecord
  <2>4. request' \in [Task -> Handling] /\ InRequest'
    BY <2>2, <2>3, RequestFits
  <2>5. record' \in [Provider -> [Key -> Content]] /\ deleted' \subseteq Key
    <3>1. record' = [record EXCEPT ![p][k] = None] /\ deleted' = Gone(p, k, None)
      BY <1>4 DEF DeleteRecord
    <3>2. None \in Content
      BY DEF Content
    <3> QED BY <1>0, <2>1, <3>1, <3>2, RecordType
  <2>6. disturbed' \subseteq Key /\ UNCHANGED <<address, settings, paused, managed, sync, bounds, overlapped>>
    BY <1>0, <1>4, <2>1 DEF DeleteRecord, Types
  <2>7. Types'
    BY <1>0, <2>4, <2>5, <2>6 DEF Types
  <2> QED BY <1>a, <2>4, <2>6, <2>7 DEF TypeOK
<1>5. CASE ForsakeRequest(h)
  <2>1. /\ UNCHANGED <<address, settings, paused, managed, record, sync, edits,
                       disturbed, deleted, overlapped>>
        /\ faults < MaxFaults /\ faults' = faults + 1
    BY <1>5 DEF ForsakeRequest, Fault
  <2>2. faults' \in 0..MaxFaults
    BY <1>0, <2>1, Parameters DEF Types
  <2>3. request' \in [Task -> Handling] /\ InRequest'
    <3>1. CASE Answer(h)
      BY <1>b, <3>1, RequestFits DEF Answer
    <3>2. CASE ~Answer(h)
      <4> DEFINE q == [request[h] EXCEPT !.left = KeysAfter(h)]
      <4>1. /\ request[h].pc \in Provider /\ KeysAfter(h) # {}
            /\ request' = [request EXCEPT ![h] = q]
        BY <1>0, <1>5, <3>2 DEF ForsakeRequest, Types, Handling
      <4>2. Fits(q)
        BY <4>1, NextFits
      <4> QED BY <4>1, <4>2, RequestFits
    <3> QED BY <3>1, <3>2
  <2>4. Types'
    BY <1>0, <2>1, <2>2, <2>3 DEF Types
  <2> QED BY <1>a, <2>1, <2>3, <2>4 DEF TypeOK
<1>6. ASSUME NEW d \in Domain, NEW on \in BOOLEAN, ToggleUnread(h, d, on) PROVE TypeOK'
  <2> DEFINE r == [NoRequest EXCEPT !.pc = "toggle", !.domain = d, !.on = on, !.unread = TRUE]
  <2>1. Fits(r)
    BY DEF Fits, NoRequest, Handling, Provider
  <2>2. request' = [request EXCEPT ![h] = r] /\ edits < MaxEdits /\ edits' = edits + 1
    BY <1>6 DEF ToggleUnread, Take
  <2>3. request' \in [Task -> Handling] /\ InRequest'
    BY <2>1, <2>2, RequestFits
  <2>4. edits' \in 0..MaxEdits /\ faults' \in 0..MaxFaults
    BY <1>0, <1>6, <2>2, EditCounts, Parameters DEF ToggleUnread, Fault, Types
  <2>5. overlapped' \in BOOLEAN
    BY <1>0, <1>6 DEF ToggleUnread, Toggling, Types
  <2>6. Types' /\ UNCHANGED sync
    BY <1>0, <1>6, <2>3, <2>4, <2>5 DEF ToggleUnread, Types
  <2> QED BY <1>a, <2>3, <2>6 DEF TypeOK
<1> QED BY <1>1, <1>2, <1>3, <1>4, <1>5, <1>6 DEF RequestStep

LEMMA OutsideTypes ==
    ASSUME TypeOK, OutsideStep
    PROVE  TypeOK'
<1> USE DEF settings
<1>0. Types /\ InRound /\ InRequest
  BY DEF TypeOK
<1>1. UNCHANGED <<sync, request, paused, managed, overlapped, faults>> /\ edits < MaxEdits /\ edits' = edits + 1
  BY DEF OutsideStep, SetDdns, EditRecord, Readdress, Edit
<1>2. InRound' /\ InRequest'
  BY <1>0, <1>1, Bystander DEF InRound, InRequest
<1>3. edits' \in 0..MaxEdits
  BY <1>0, <1>1, EditCounts
<1>4. CASE SetDdns
  BY <1>0, <1>1, <1>2, <1>3, <1>4 DEF SetDdns, Types, TypeOK
<1>5. ASSUME NEW k \in Key, NEW p \in Provider, NEW content \in Content, EditRecord(p, k, content)
      PROVE  TypeOK'
  <2>1. record' \in [Provider -> [Key -> Content]] /\ deleted' \in SUBSET Key
    BY <1>0, <1>5, RecordType DEF EditRecord
  <2> QED BY <1>0, <1>1, <1>2, <1>3, <1>5, <2>1 DEF EditRecord, Types, TypeOK
<1>6. ASSUME NEW t \in Type, NEW a \in Content, Readdress(t, a) PROVE TypeOK'
  BY <1>0, <1>1, <1>2, <1>3, <1>6 DEF Readdress, Types, TypeOK
<1> QED BY <1>4, <1>5, <1>6 DEF OutsideStep

LEMMA RestoreTypes ==
    ASSUME TypeOK, NEW b \in Backups, Restore(b)
    PROVE  TypeOK'
<1>0. Types /\ sync \in Round /\ UNCHANGED <<address, record, request, faults, deleted>>
  BY DEF TypeOK, Types, Restore
<1>1. /\ enabled' \in BOOLEAN /\ provider' \in Provider
      /\ listed' \subseteq Domain /\ paused' \subseteq Domain
  BY <1>0, BackupType DEF Restore, Types
<1>2. managed' \in [Key -> Content]
  BY <1>0, BackupType DEF Restore, Types, Content
<1>3. SameKey(sync.pc)
  BY <1>0, RestoredRound
<1>4. disturbed' \subseteq Key /\ overlapped' \in BOOLEAN
  BY <1>0, BackupType DEF Restore, Types, Toggling
<1>5. edits' \in 0..MaxEdits
  BY <1>0, EditCounts DEF Restore, Edit
<1>6. Types'
  BY <1>0, <1>1, <1>2, <1>3, <1>4, <1>5 DEF Types, SameKey
<1>7. InRound' /\ InRequest'
  BY <1>0, <1>3 DEF TypeOK, InRound, InRequest, SameKey
<1> QED BY <1>6, <1>7 DEF TypeOK

LEMMA RestartTypes ==
    ASSUME TypeOK, Restart
    PROVE  TypeOK'
<1>0. Types /\ UNCHANGED <<address, settings, paused, managed, record, edits, deleted, overlapped>>
  BY DEF TypeOK, Restart
<1>1. sync' \in Round /\ sync'.pc = "idle"
  BY IdleRound DEF Restart, Abandon
<1>2. request' \in [Task -> Handling] /\ InRequest'
  BY NoRequestType DEF Restart, InRequest, Provider
<1>3. disturbed' \subseteq Key
  <2>1. sync.pc = "mark" => At \in Key
    BY <1>0, AtType DEF TypeOK, InRound
  <2> QED BY <1>0, <2>1 DEF Restart, Unmarked, Types
<1>4. faults' \in 0..MaxFaults
  BY <1>0, Parameters DEF Restart, Fault, Types
<1>5. InRound'
  BY <1>1 DEF InRound
<1>6. Types'
  BY <1>0, <1>1, <1>2, <1>3, <1>4 DEF Types, settings
<1> QED BY <1>2, <1>5, <1>6 DEF TypeOK

LEMMA StutterTypes ==
    ASSUME TypeOK, UNCHANGED vars
    PROVE  TypeOK'
<1>1. Types' /\ InRequest' /\ UNCHANGED sync
  BY DEF TypeOK, Types, InRequest, vars, settings, bounds
<1>2. InRound'
  BY <1>1, Bystander DEF TypeOK, InRound
<1> QED BY <1>1, <1>2 DEF TypeOK

LEMMA TypesKept ==
    ASSUME TypeOK, [Next]_vars
    PROVE  TypeOK'
BY RoundTypes, RequestTypes, OutsideTypes, RestoreTypes, RestartTypes, StutterTypes, Kinds DEF RestoreStep

-----------------------------------------------------------------------------
(* What is deleted stays deleted                                           *)

Deletions == DeletedKnown /\ CreatesUnknown /\ NotRecreated

LEMMA RoundKeepsDeletions ==
    ASSUME IInv, RoundStep
    PROVE  Deletions'
<1> USE DEF Deletions
<1>0. /\ deleted' = deleted \/ Create
      /\ deleted \subseteq Key
      /\ managed \in [Key -> Content] /\ record \in [Provider -> [Key -> Content]]
      /\ DeletedKnown /\ CreatesUnknown /\ NotRecreated
      /\ sync.pc # "idle" => At \in Key /\ sync.provider \in Provider
  BY RoundFrame, AtType DEF IInv, TypeOK, Types, InRound, Round
<1>a. TypeOK /\ Types /\ sync \in Round
  BY DEF IInv, TypeOK, Types
<1>1. CASE Beginning \/ Skip \/ NoZone \/ Refuse \/ LookupUnread \/ LookupForgets \/ Fail
  <2>1. UNCHANGED <<managed, record, deleted>>
    BY <1>1, <1>a, Begins DEF Skip, NoZone, Refuse, LookupUnread, LookupForgets, Fail
  <2>2. sync'.pc = "create" => sync'.unread
    <3>1. CASE Beginning
      BY <1>a, <3>1, Begins
    <3>2. CASE Skip \/ NoZone \/ Refuse \/ Fail
      BY <1>a, <3>2, Rounds DEF Skip, NoZone, Refuse, Fail, RoundOver, NextKey
    <3>3. CASE LookupUnread \/ LookupForgets
      BY <1>a, <3>3, UnreadRound DEF LookupUnread, LookupForgets
    <3> QED BY <1>1, <3>1, <3>2, <3>3
  <2> QED BY <1>0, <2>1, <2>2 DEF DeletedKnown, CreatesUnknown, NotRecreated
<1>2. CASE Lookup
  <2> DEFINE label == Verdict(record[sync.provider][At])
  <2>1. UNCHANGED <<managed, record, deleted>> /\ sync.pc # "idle" /\ Goto(label)
    BY <1>2 DEF Lookup
  <2>2. label \in {"mark", "create", "update"}
    BY VerdictType
  <2>3. label = "create" /\ sync.provider = "cloudflare" => managed[At] = None
    BY DEF Verdict, MissingLabel, Remembered
  <2> HIDE DEF label
  <2>4. SameKey(label)
    BY <1>a, <2>1, <2>2, Rounds
  <2>5. CreatesUnknown'
    BY <2>1, <2>3, <2>4 DEF CreatesUnknown, SameKey
  <2> QED BY <1>0, <2>1, <2>5 DEF DeletedKnown, NotRecreated
<1>3. CASE Create \/ Update
  <2>1. sync.pc \in {"create", "update"} /\ managed' = managed /\ Publish /\ Goto("mark")
    BY <1>3 DEF Create, Update
  <2>2. sync'.pc = "mark"
    BY <1>a, <2>1, Rounds DEF SameKey
  <2>3. sync.provider = "cloudflare" => At \notin deleted'
    BY <1>0, <1>3 DEF Create, Update, DeletedKnown, CreatesUnknown, NotRecreated
  <2>6. deleted' \subseteq deleted
    BY <1>3 DEF Create, Update
  <2>4. \A k \in Key : k # At \/ sync.provider # "cloudflare" =>
            record'["cloudflare"][k] = record["cloudflare"][k]
    BY <1>0, <2>1 DEF Publish, Provider
  <2>5. NotRecreated'
    BY <1>0, <2>3, <2>4, <2>6 DEF NotRecreated
  <2> QED BY <1>0, <2>1, <2>2, <2>5, <2>6 DEF DeletedKnown, CreatesUnknown
<1>4. CASE Mark
  <2>1. /\ sync.pc = "mark" /\ UNCHANGED <<record, deleted>> /\ Advance
        /\ managed' = [managed EXCEPT ![At] = Wanted]
    BY <1>4 DEF Mark
  <2>2. sync'.pc # "create"
    BY <1>a, <2>1, Rounds DEF RoundOver, NextKey
  <2>3. Wanted # None
    BY <1>a, <2>1 DEF TypeOK, InRound
  <2> QED BY <1>0, <2>1, <2>2, <2>3 DEF DeletedKnown, CreatesUnknown, NotRecreated
<1> QED BY <1>1, <1>2, <1>3, <1>4 DEF RoundStep, Sync, Beginning

\* A restore remembers more, and nothing less.
LEMMA RestoreKeepsDeletions ==
    ASSUME IInv, NEW b \in Backups, Restore(b)
    PROVE  Deletions'
<1>0. /\ deleted' = deleted /\ record' = record /\ deleted \subseteq Key /\ sync \in Round
      /\ DeletedKnown /\ CreatesUnknown /\ NotRecreated
      /\ sync.pc # "idle" => At \in Key
  BY AtType DEF Restore, IInv, TypeOK, Types, InRound
<1>1. \A k \in Key : managed'[k] = IF k \in DOMAIN b.managed THEN b.managed[k] ELSE managed[k]
  BY DEF Restore
<1>2. \A k \in DOMAIN b.managed : b.managed[k] # None
  BY BackupType, Parameters
<1>3. DeletedKnown' /\ NotRecreated'
  BY <1>0, <1>1, <1>2 DEF DeletedKnown, NotRecreated
<1>4. CreatesUnknown'
  BY <1>0, <1>1, RestoredRound DEF CreatesUnknown, SameKey
<1> QED BY <1>3, <1>4 DEF Deletions

\* A change of a record by somebody else, of which Gone keeps account.
LEMMA GoneKeepsDeletions ==
    ASSUME IInv, NEW p \in Provider, NEW k \in Key, NEW content \in Content,
           record' = [record EXCEPT ![p][k] = content],
           deleted' = Gone(p, k, content), UNCHANGED <<managed, sync>>
    PROVE  Deletions'
<1>0. /\ deleted \subseteq Key /\ record \in [Provider -> [Key -> Content]]
      /\ DeletedKnown /\ CreatesUnknown /\ NotRecreated
  BY DEF IInv, TypeOK, Types
<1>1. \A j \in Key : record'["cloudflare"][j] =
          IF p = "cloudflare" /\ j = k THEN content ELSE record["cloudflare"][j]
  BY <1>0 DEF Provider
<1>2. ASSUME NEW j \in deleted'
      PROVE  managed[j] # None /\ record'["cloudflare"][j] = None
  <2>1. CASE p # "cloudflare"
    BY <1>0, <1>1, <1>2, <2>1 DEF Gone, DeletedKnown, NotRecreated
  <2>2. CASE p = "cloudflare" /\ content # None
    BY <1>0, <1>1, <1>2, <2>2 DEF Gone, DeletedKnown, NotRecreated
  <2>3. CASE p = "cloudflare" /\ content = None
    BY <1>0, <1>1, <1>2, <2>3 DEF Gone, DeletedKnown, NotRecreated
  <2> QED BY <2>1, <2>2, <2>3
<1>3. DeletedKnown' /\ NotRecreated'
  BY <1>2 DEF DeletedKnown, NotRecreated
<1>4. CreatesUnknown'
  BY <1>0, Bystander DEF CreatesUnknown
<1> QED BY <1>3, <1>4 DEF Deletions

LEMMA QuietKeepsDeletions ==
    ASSUME IInv, UNCHANGED <<managed, record, deleted, sync>>
    PROVE  Deletions'
BY Bystander DEF IInv, Deletions, DeletedKnown, CreatesUnknown, NotRecreated

LEMMA DeletionsKept ==
    ASSUME IInv, [Next]_vars
    PROVE  Deletions'
<1> USE DEF settings, bounds
<1>1. ASSUME NEW h \in Task, RequestStep(h) PROVE Deletions'
  <2>1. CASE DeleteRecord(h)
    <3>1. None \in Content
      BY DEF Content
    <3> QED BY <2>1, <3>1, GoneKeepsDeletions, DeletionAt DEF DeleteRecord, IInv
  <2>2. CASE ~DeleteRecord(h)
    <3>1. UNCHANGED <<managed, record, deleted, sync>>
      BY <1>1, <2>2 DEF RequestStep, ToggleRead, ToggleUnread, BeginDelete, ToggleWrite,
                            ForsakeRequest
    <3> QED BY <3>1, QuietKeepsDeletions
  <2> QED BY <2>1, <2>2
<1>2. CASE OutsideStep
  <2>1. ASSUME NEW k \in Key, NEW p \in Provider, NEW content \in Content, EditRecord(p, k, content)
        PROVE  Deletions'
    BY <2>1, GoneKeepsDeletions DEF EditRecord
  <2>2. CASE SetDdns \/ \E t \in Type, a \in Content : Readdress(t, a)
    <3>1. UNCHANGED <<managed, record, deleted, sync>>
      BY <2>2 DEF SetDdns, Readdress
    <3> QED BY <3>1, QuietKeepsDeletions
  <2> QED BY <1>2, <2>1, <2>2 DEF OutsideStep
<1>3. CASE Restart
  <2>1. UNCHANGED <<managed, record, deleted>> /\ sync'.pc = "idle"
    BY <1>3, IdleRound DEF Restart, Abandon
  <2> QED BY <2>1 DEF IInv, Deletions, DeletedKnown, CreatesUnknown, NotRecreated
<1>4. CASE UNCHANGED vars
  BY <1>4, QuietKeepsDeletions DEF vars
<1> QED BY <1>1, <1>2, <1>3, <1>4, RoundKeepsDeletions, RestoreKeepsDeletions, Kinds DEF RestoreStep

-----------------------------------------------------------------------------
(* What is remembered is published                                         *)

Memory == Foreign /\ Found /\ ManagedIsPublished

\* A record that does not have what is remembered of its key is disturbed, outside "mark".
LEMMA Undisturbed ==
    ASSUME IInv, sync.pc # "mark", NEW k \in Key, managed[k] # None, k \notin disturbed
    PROVE  record[provider][k] = managed[k]
BY DEF IInv, ManagedIsPublished, Published

LEMMA RoundKeepsMemory ==
    ASSUME IInv, RoundStep
    PROVE  Memory'
<1> USE DEF Memory
<1>0. /\ provider' = provider /\ provider \in Provider /\ disturbed \subseteq Key
      /\ managed \in [Key -> Content] /\ record \in [Provider -> [Key -> Content]]
      /\ Foreign /\ Found /\ ManagedIsPublished
      /\ sync.pc # "idle" => At \in Key /\ At \in sync.todo /\ sync.provider \in Provider
  BY RoundFrame, AtType DEF IInv, TypeOK, Types, InRound, Round
<1>a. TypeOK /\ Types /\ sync \in Round
  BY DEF IInv, TypeOK, Types
<1>1. CASE Beginning
  <2>1. UNCHANGED <<managed, record, disturbed>> /\ sync.pc = "idle"
    BY <1>a, <1>1, Begins
  <2>2. sync'.pc = "lookup" /\ sync'.provider = provider
    BY <1>a, <1>1, Begins
  <2> QED BY <1>0, <2>1, <2>2 DEF Foreign, Found, ManagedIsPublished, Published
<1>2. CASE Skip \/ NoZone \/ Refuse
  <2>1. UNCHANGED <<managed, record, disturbed>> /\ sync.pc \notin {"idle", "mark"} /\ (Advance \/ Abandon)
    BY <1>2 DEF Skip, NoZone, Refuse
  <2>2. RoundOver \/ NextKey
    BY <1>a, <2>1, Rounds
  <2> QED BY <1>0, <2>1, <2>2 DEF Foreign, Found, ManagedIsPublished, Published, RoundOver, NextKey
<1>3. CASE Lookup
  <2> DEFINE label == Verdict(record[sync.provider][At])
  <2>1. UNCHANGED <<managed, record, disturbed>> /\ sync.pc = "lookup" /\ Goto(label)
    BY <1>3 DEF Lookup
  <2>2. label \in {"mark", "create", "update"}
    BY VerdictType
  <2>3. label = "mark" => record[sync.provider][At] = Wanted \/ At \in disturbed
    <3> SUFFICES ASSUME label = "mark", record[sync.provider][At] # Wanted, At \notin disturbed
                 PROVE  FALSE
      OBVIOUS
    <3>1. record[sync.provider][At] = None /\ managed[At] # None
      BY DEF Verdict, MissingLabel, Remembered
    <3>2. sync.provider = provider
      BY <1>0, <2>1 DEF Foreign
    <3> QED BY <1>0, <2>1, <3>1, <3>2, Undisturbed
  <2> HIDE DEF label
  <2>4. SameKey(label) /\ sync'.unread = sync.unread
    BY <1>a, <2>1, <2>2, Rounds
  <2>5. Foreign' /\ ManagedIsPublished'
    BY <1>0, <2>1, <2>4 DEF Foreign, ManagedIsPublished, Published, SameKey
  <2>6. Found'
    BY <2>1, <2>3, <2>4 DEF Found, SameKey
  <2> QED BY <2>5, <2>6
<1>4. CASE LookupUnread \/ LookupForgets
  <2>1. UNCHANGED <<managed, record, disturbed>> /\ sync.pc = "lookup"
    BY <1>4 DEF LookupUnread, LookupForgets
  <2>2. PICK label \in {"create", "mark"} : SameKey(label) /\ sync'.unread
    BY <1>a, <1>4, UnreadRound DEF LookupUnread, LookupForgets
  <2> QED BY <1>0, <2>1, <2>2 DEF Foreign, Found, ManagedIsPublished, Published, SameKey
<1>5. CASE Create \/ Update
  <2>1. sync.pc \in {"create", "update"} /\ UNCHANGED <<managed, disturbed>> /\ Publish /\ Goto("mark")
    BY <1>5 DEF Create, Update
  <2>2. SameKey("mark")
    BY <1>a, <2>1, Rounds
  <2>3. /\ record'[sync.provider][At] = Wanted
        /\ \A k \in Key : k # At => record'[provider][k] = record[provider][k]
    BY <1>0, <2>1 DEF Publish
  <2>4. Found' /\ Foreign'
    BY <1>0, <2>1, <2>2, <2>3 DEF Found, Foreign, SameKey
  <2>5. ManagedIsPublished'
    BY <1>0, <2>1, <2>2, <2>3 DEF ManagedIsPublished, Published, SameKey
  <2> QED BY <2>4, <2>5
<1>6. CASE Mark
  <2>1. /\ sync.pc = "mark" /\ record' = record /\ managed' = [managed EXCEPT ![At] = Wanted]
        /\ disturbed' = (IF sync.unread THEN disturbed \cup {At} ELSE disturbed)
                            \ (IF Published(At, Wanted) THEN {At} ELSE {})
        /\ Advance
    BY <1>6 DEF Mark
  <2>2. RoundOver \/ NextKey
    BY <1>a, <2>1, Rounds
  <2>3. Found'
    BY <2>2 DEF Found, RoundOver, NextKey
  <2>4. Foreign'
    BY <1>0, <2>1, <2>2 DEF Foreign, RoundOver, NextKey
  <2>5. ~Published(At, Wanted) => At \in disturbed'
    BY <1>0, <2>1 DEF Found, Foreign, Published
  <2>6. ASSUME NEW k \in Key, managed'[k] # None
        PROVE  record'[provider'][k] = managed'[k] \/ k \in disturbed'
    <3>1. CASE k = At
      BY <1>0, <2>1, <2>5, <3>1 DEF Published
    <3>2. CASE k # At
      BY <1>0, <2>1, <2>6, <3>2 DEF ManagedIsPublished, Published
    <3> QED BY <3>1, <3>2
  <2>7. ManagedIsPublished'
    BY <2>6 DEF ManagedIsPublished, Published
  <2> QED BY <2>3, <2>4, <2>7
<1>7. CASE Fail
  <2>1. UNCHANGED <<managed, record>> /\ disturbed' = disturbed \cup Unmarked /\ sync'.pc = "idle"
    BY <1>a, <1>7, Rounds DEF Fail, RoundOver
  <2> QED BY <1>0, <2>1 DEF Foreign, Found, ManagedIsPublished, Published, Unmarked
<1> QED BY <1>1, <1>2, <1>3, <1>4, <1>5, <1>6, <1>7 DEF RoundStep, Sync, Beginning

\* A restore is noted for the addresses that it brings, or for all of them.
LEMMA RestoreKeepsMemory ==
    ASSUME IInv, NEW b \in Backups, Restore(b)
    PROVE  Memory'
<1>0. /\ record' = record /\ Foreign /\ Found /\ ManagedIsPublished
      /\ disturbed \subseteq Key /\ sync \in Round /\ DOMAIN b.managed \subseteq Key
      /\ sync.todo \subseteq Key /\ (sync.pc # "idle" => At \in Key)
  BY AtType, BackupType DEF Restore, IInv, TypeOK, Types, InRound, Round
<1>1. \A k \in Key : managed'[k] = IF k \in DOMAIN b.managed THEN b.managed[k] ELSE managed[k]
  BY DEF Restore
<1>2. SameKey(sync.pc) /\ (sync.unread => sync'.unread)
  BY <1>0, RestoredRound
<1>3. CASE provider' # provider
  <2>1. disturbed' = Key
    BY <1>3 DEF Restore
  <2> QED BY <1>0, <1>2, <2>1 DEF Memory, Foreign, Found, ManagedIsPublished, SameKey
<1>4. CASE provider' = provider
  <2>1. disturbed' = disturbed \cup DOMAIN b.managed
    BY <1>4 DEF Restore
  <2>2. Foreign' /\ Found'
    BY <1>0, <1>2, <1>4, <2>1 DEF Foreign, Found, SameKey
  <2>3. ManagedIsPublished'
    BY <1>0, <1>1, <1>2, <1>4, <2>1 DEF ManagedIsPublished, Published, SameKey
  <2> QED BY <2>2, <2>3 DEF Memory
<1> QED BY <1>3, <1>4

\* Somebody else changes the record of one key, and is noted.
LEMMA EditKeepsMemory ==
    ASSUME IInv, NEW p \in Provider, NEW j \in Key, NEW content,
           record' = [record EXCEPT ![p][j] = content], disturbed' = disturbed \cup {j},
           UNCHANGED <<managed, provider, sync>>
    PROVE  Memory'
<1>0. /\ record \in [Provider -> [Key -> Content]] /\ provider \in Provider
      /\ Foreign /\ Found /\ ManagedIsPublished
      /\ sync.pc # "idle" => At \in Key /\ sync.provider \in Provider
      /\ At' = At /\ Wanted' = Wanted
  BY AtType, Bystander DEF IInv, TypeOK, Types, InRound, Round
<1>1. \A q \in Provider, k \in Key : k # j => record'[q][k] = record[q][k]
  BY <1>0
<1>2. Foreign'
  BY <1>0 DEF Foreign
<1>3. Found'
  BY <1>0, <1>1 DEF Found
<1>4. ManagedIsPublished'
  BY <1>0, <1>1 DEF ManagedIsPublished, Published
<1> QED BY <1>2, <1>3, <1>4 DEF Memory

LEMMA QuietKeepsMemory ==
    ASSUME IInv, UNCHANGED <<managed, record, disturbed, provider, sync>>
    PROVE  Memory'
<1>1. At' = At /\ Wanted' = Wanted
  BY Bystander
<1> QED BY <1>1 DEF IInv, Memory, Foreign, Found, ManagedIsPublished, Published

LEMMA MemoryKept ==
    ASSUME IInv, [Next]_vars
    PROVE  Memory'
<1> USE DEF settings, bounds
<1>1. ASSUME NEW h \in Task, RequestStep(h) PROVE Memory'
  <2>1. CASE DeleteRecord(h)
    BY <2>1, EditKeepsMemory, DeletionAt DEF DeleteRecord, IInv
  <2>2. CASE ~DeleteRecord(h)
    <3>1. UNCHANGED <<managed, record, disturbed, provider, sync>>
      BY <1>1, <2>2 DEF RequestStep, ToggleRead, ToggleUnread, BeginDelete, ToggleWrite,
                            ForsakeRequest
    <3> QED BY <3>1, QuietKeepsMemory
  <2> QED BY <2>1, <2>2
<1>2. CASE OutsideStep
  <2>1. ASSUME NEW k \in Key, NEW p \in Provider, NEW content \in Content, EditRecord(p, k, content)
        PROVE  Memory'
    BY <2>1, EditKeepsMemory DEF EditRecord
  <2>2. CASE SetDdns /\ provider' # provider
    <3>1. disturbed' = Key /\ UNCHANGED <<managed, record, sync>>
      BY <2>2 DEF SetDdns
    <3>2. sync.todo \subseteq Key /\ (sync.pc # "idle" => At \in Key) /\ At' = At
      BY <3>1, AtType, Bystander DEF IInv, TypeOK, Types, InRound, Round
    <3>3. Foreign' /\ Found' /\ ManagedIsPublished'
      BY <3>1, <3>2 DEF Foreign, Found, ManagedIsPublished
    <3> QED BY <3>3 DEF Memory
  <2>3. CASE (SetDdns /\ provider' = provider) \/ \E t \in Type, a \in Content : Readdress(t, a)
    <3>1. CASE UNCHANGED <<managed, record, disturbed, provider, sync>>
      BY <3>1, QuietKeepsMemory
    <3>2. CASE disturbed' = Key /\ UNCHANGED <<managed, record, provider, sync>>
      <4>1. sync.todo \subseteq Key /\ (sync.pc # "idle" => At \in Key) /\ At' = At
        BY <3>2, AtType, Bystander DEF IInv, TypeOK, Types, InRound, Round
      <4>2. Foreign' /\ Found' /\ ManagedIsPublished'
        BY <3>2, <4>1 DEF Foreign, Found, ManagedIsPublished
      <4> QED BY <4>2 DEF Memory
    <3> QED BY <2>3, <3>1, <3>2 DEF SetDdns, Readdress
  <2> QED BY <1>2, <2>1, <2>2, <2>3 DEF OutsideStep
<1>3. CASE Restart
  <2>1. /\ UNCHANGED <<managed, record, provider>> /\ disturbed' = disturbed \cup Unmarked
        /\ sync'.pc = "idle"
    BY <1>3, IdleRound DEF Restart, Abandon
  <2> QED BY <2>1 DEF IInv, Memory, Foreign, Found, ManagedIsPublished, Published, Unmarked
<1>4. CASE UNCHANGED vars
  BY <1>4, QuietKeepsMemory DEF vars
<1> QED BY <1>1, <1>2, <1>3, <1>4, RoundKeepsMemory, RestoreKeepsMemory, Kinds DEF RestoreStep

-----------------------------------------------------------------------------
(* Toggles, and the theorems                                               *)

LEMMA AloneKept ==
    ASSUME IInv, [Next]_vars
    PROVE  Alone'
<1> USE DEF settings, bounds
<1>0. Alone /\ request \in [Task -> Handling]
  BY DEF IInv, TypeOK, Types
<1>1. ASSUME NEW h \in Task, RequestStep(h) PROVE Alone'
  <2>1. ASSUME NEW d \in Domain, NEW on \in BOOLEAN, ToggleRead(h, d, on) \/ ToggleUnread(h, d, on)
        PROVE  Alone'
    <3>1. /\ paused' = paused
          /\ overlapped' = (overlapped \/ \E g \in Task : request[g].pc = "toggle")
          /\ ~request'[h].unread => request'[h].read = paused
          /\ \A g \in Task : g # h => request'[g] = request[g]
      BY <1>0, <2>1 DEF ToggleRead, ToggleUnread, Toggling, Take, NoRequest
    <3> QED BY <1>0, <3>1 DEF Alone
  <2>2. ASSUME request'[h].pc # "toggle", \A g \in Task : g # h => request'[g] = request[g],
               overlapped' = overlapped,
               paused' = paused \/ (request[h].pc = "toggle" /\ ToggleWrite(h))
        PROVE  Alone'
    BY <1>0, <2>2 DEF Alone
  <2>3. CASE ToggleWrite(h)
    BY <1>0, <2>2, <2>3, NoRequestType DEF ToggleWrite, Answer
  <2>4. ASSUME NEW d \in Domain, BeginDelete(h, d) PROVE Alone'
    <3>1. request'[h].pc = provider /\ provider # "toggle"
      BY <1>0, <2>4 DEF BeginDelete, Take, NoRequest, IInv, TypeOK, Types, Provider
    <3> QED BY <1>0, <2>2, <2>4, <3>1 DEF BeginDelete, Take
  <2>5. CASE DeleteRecord(h)
    <3>1. request[h].pc \in Provider /\ request'[h].pc \in {"idle", request[h].pc}
      BY <1>0, <2>5, NoRequestType DEF DeleteRecord, Handling
    <3>2. request'[h].pc # "toggle"
      BY <3>1 DEF Provider
    <3> QED BY <1>0, <2>2, <2>5, <3>2 DEF DeleteRecord
  <2>6. CASE ForsakeRequest(h)
    <3>1. request'[h].pc = "idle" \/ (request[h].pc \in Provider /\ request'[h].pc = request[h].pc)
      BY <1>0, <2>6, NoRequestType DEF ForsakeRequest, Answer, Handling
    <3>2. request'[h].pc # "toggle"
      BY <3>1 DEF Provider
    <3> QED BY <1>0, <2>2, <2>6, <3>2 DEF ForsakeRequest, Answer
  <2> QED BY <1>1, <2>1, <2>3, <2>4, <2>5, <2>6 DEF RequestStep
<1>2. CASE RoundStep \/ OutsideStep \/ UNCHANGED vars
  <2>1. UNCHANGED <<request, paused, overlapped>>
    BY <1>2, RoundFrame DEF OutsideStep, SetDdns, EditRecord, Readdress, vars
  <2> QED BY <1>0, <2>1 DEF Alone
<1>3. CASE Restart
  BY <1>3, NoRequestType DEF Restart, Alone
<1>4. CASE RestoreStep
  <2>1. request' = request /\ overlapped' = (overlapped \/ \E g \in Task : request[g].pc = "toggle")
    BY <1>4 DEF RestoreStep, Restore, Toggling
  <2> QED BY <2>1 DEF Alone
<1> QED BY <1>1, <1>2, <1>3, <1>4, Kinds

LEMMA Initially == Init => IInv
<1> SUFFICES ASSUME Init PROVE IInv
  OBVIOUS
<1>1. Types
  <2>1. /\ address \in [Type -> Content] /\ managed \in [Key -> Content]
        /\ record \in [Provider -> [Key -> Content]]
    BY DEF Init, Content
  <2>2. sync \in Round /\ request \in [Task -> Handling]
    BY IdleRound, NoRequestType DEF Init
  <2>3. edits \in 0..MaxEdits /\ faults \in 0..MaxFaults
    BY Parameters DEF Init
  <2> QED BY <2>1, <2>2, <2>3 DEF Init, Types
<1>2. InRound /\ InRequest
  BY IdleRound, NoRequestType DEF Init, InRound, InRequest, Provider
<1>3. DeletedKnown /\ CreatesUnknown /\ NotRecreated /\ Foreign /\ Found
  BY IdleRound DEF Init, DeletedKnown, CreatesUnknown, NotRecreated, Foreign, Found
<1>4. ManagedIsPublished /\ Alone
  BY NoRequestType DEF Init, ManagedIsPublished, Alone
<1> QED BY <1>1, <1>2, <1>3, <1>4 DEF IInv, TypeOK

LEMMA Inductive == IInv /\ [Next]_vars => IInv'
<1> SUFFICES ASSUME IInv, [Next]_vars PROVE IInv'
  OBVIOUS
<1>1. TypeOK'
  BY TypesKept DEF IInv
<1>2. Deletions' /\ Memory' /\ Alone'
  BY DeletionsKept, MemoryKept, AloneKept
<1> QED BY <1>1, <1>2 DEF IInv, Deletions, Memory

LEMMA Invariant == Spec => []IInv
BY Initially, Inductive, PTL DEF Spec

\* The variables keep their types, a round and a deletion always have a key to work on, and a
\* round writes only addresses of the host (ddns/mod.rs:57-111).
THEOREM TypeCorrect == Spec => []TypeOK
<1>1. IInv => TypeOK
  BY DEF IInv
<1> QED BY <1>1, Invariant, PTL

\* The address shown for a domain is the one in its record, unless somebody else changed the
\* record, a failure kept it from being read or remembered, or a restore brought the address
\* or another provider (ddns/mod.rs:96-107, settings.rs:512-531).
THEOREM RememberedIsPublished == Spec => []ManagedIsPublished
<1>1. IInv => ManagedIsPublished
  BY DEF IInv
<1> QED BY <1>1, Invariant, PTL

\* A record deleted at Cloudflare is not created again, however rounds overlap with the
\* deletion, by any round that has read what is remembered of it; a failed read, which
\* counts as "not managed", is the one exception, and a restore that brings the address
\* between the read and the creation (cloudflare.rs:281-304).
THEOREM DeletedStaysDeleted == Spec => []NotRecreated
<1>1. IInv => NotRecreated
  BY DEF IInv
<1> QED BY <1>1, Invariant, PTL

\* A toggle that has read the list, and overlaps with no other and no restore, keeps the rest
\* of the list.  One that could not read it takes it for empty (settings.rs:600-617).
THEOREM TogglesKeepOthers == Spec => TogglesAdd
<1> DEFINE Adds ==
      \A h \in Task :
          LET d == request[h].domain IN
          /\ request[h].pc = "toggle" /\ request'[h].pc # "toggle" /\ paused' # paused
          /\ ~request[h].unread /\ ~overlapped
          => paused \ {d} = paused' \ {d}
<1>1. IInv /\ [Next]_vars => [Adds]_vars
  <2> SUFFICES ASSUME IInv, Next, NEW h \in Task,
                      request[h].pc = "toggle", request'[h].pc # "toggle", paused' # paused,
                      ~request[h].unread, ~overlapped
               PROVE  paused \ {request[h].domain} = paused' \ {request[h].domain}
    OBVIOUS
  <2>1. request[h].read = paused /\ \A g \in Task : request[g].pc = "toggle" => g = h
    BY DEF IInv, Alone
  <2>2. ToggleWrite(h)
    <3>1. PICK g \in Task : ToggleWrite(g)
      <4>1. ~RoundStep /\ ~Restart /\ ~OutsideStep /\ ~RestoreStep
        BY RoundFrame DEF Restart, OutsideStep, SetDdns, EditRecord, Readdress, RestoreStep, Restore
      <4> QED BY <4>1, Kinds DEF RequestStep, ToggleRead, ToggleUnread, BeginDelete, DeleteRecord,
                                 ForsakeRequest
    <3> QED BY <2>1, <3>1 DEF ToggleWrite
  <2>3. paused' = Toggled(paused, request[h].domain, request[h].on)
    BY <2>1, <2>2 DEF ToggleWrite
  <2> QED BY <2>3 DEF Toggled
<1> QED BY <1>1, Invariant, PTL DEF Spec, TogglesAdd

-----------------------------------------------------------------------------
(* Rounds end                                                              *)

\* How many steps a round has before it at most: three for each key, of which those for the
\* key it is at may have been taken.
Done(pc) == CASE pc = "lookup" -> 0 [] pc = "mark" -> 2 [] OTHER -> 1
Ahead == IF sync.pc = "idle" THEN 0 ELSE 3 * Cardinality(sync.todo) - Done(sync.pc)

\* Every step of a round brings it nearer its end, and it keeps to the provider and the
\* addresses it began with.
RoundGoesOn ==
    sync' # sync /\ sync.pc # "idle" =>
        /\ <<sync'.pc, sync'.todo>> # <<sync.pc, sync.todo>> => Ahead' < Ahead
        /\ sync' = Idle \/ (sync'.provider = sync.provider /\ sync'.ip = sync.ip)

LEMMA KeysFinite == IsFiniteSet(Key)
<1> DEFINE n == Len(KeyOrder)
           f == [i \in 1..n |-> KeyOrder[i]]
<1>1. n \in Int /\ 1 \in Int
  BY Parameters
<1>2. f \in [1..n -> Key] /\ \A k \in Key : \E i \in 1..n : f[i] = k
  BY DEF Key
<1> HIDE DEF n, f
<1>3. IsFiniteSet(1..n)
  BY <1>1, FS_Interval
<1>4. f \in Surjection(1..n, Key)
  BY <1>2 DEF Surjection
<1> QED BY <1>3, <1>4, FS_Surjection

\* Of the keys of a round there are at least one, and one less without the one it is at.
LEMMA TodoSize ==
    ASSUME Types, sync.todo # {}
    PROVE  /\ Cardinality(sync.todo) \in Nat /\ Cardinality(sync.todo) >= 1
           /\ Cardinality(sync.todo \ {At}) = Cardinality(sync.todo) - 1
<1>1. IsFiniteSet(sync.todo)
  <2>1. sync.todo \subseteq Key
    BY DEF Types, Round
  <2> QED BY <2>1, KeysFinite, FS_Subset
<1>2. At \in sync.todo
  BY AtType
<1>3. /\ Cardinality(sync.todo) \in Nat
      /\ Cardinality(sync.todo \ {At}) = Cardinality(sync.todo) - 1
      /\ IsFiniteSet(sync.todo \ {At})
  BY <1>1, <1>2, FS_CardinalityType, FS_RemoveElement
<1>4. Cardinality(sync.todo \ {At}) \in Nat
  BY <1>3, FS_CardinalityType
<1> QED BY <1>3, <1>4

LEMMA DoneSize ==
    /\ Done("lookup") = 0 /\ Done("create") = 1 /\ Done("update") = 1 /\ Done("mark") = 2
    /\ \A pc : Done(pc) \in 0..2
BY DEF Done

\* From an open round there is always a step to the end.
LEMMA SomeAhead ==
    ASSUME TypeOK, sync.pc # "idle"
    PROVE  Ahead \in Nat /\ Ahead > 0
<1>1. Types /\ sync.todo # {}
  BY DEF TypeOK, InRound
<1> DEFINE n == Cardinality(sync.todo)
           d == Done(sync.pc)
<1>2. n \in Nat /\ n >= 1 /\ d \in 0..2
  BY <1>1, TodoSize, DoneSize
<1>3. Ahead = 3 * n - d
  BY DEF Ahead
<1> HIDE DEF n, d
<1> QED BY <1>2, <1>3

LEMMA AbandonEnds ==
    ASSUME TypeOK, sync.pc # "idle", Abandon
    PROVE  RoundGoesOn
<1>1. Ahead' = 0
  BY IdleRound DEF Abandon, Ahead
<1>2. Ahead \in Nat /\ Ahead > 0
  BY SomeAhead
<1> QED BY <1>1, <1>2 DEF Abandon, RoundGoesOn

\* The step from one label to a later one of the same key.
LEMMA LabelGoesOn ==
    ASSUME TypeOK, sync.pc # "idle",
           sync'.pc # "idle", sync'.todo = sync.todo, Done(sync.pc) < Done(sync'.pc),
           sync'.provider = sync.provider, sync'.ip = sync.ip
    PROVE  RoundGoesOn
<1> DEFINE n == Cardinality(sync.todo)
           d == Done(sync.pc)
           e == Done(sync'.pc)
<1>1. n \in Nat /\ d \in 0..2 /\ e \in 0..2 /\ d < e
  BY TodoSize, DoneSize DEF TypeOK, InRound
<1>2. Ahead = 3 * n - d /\ Ahead' = 3 * n - e
  BY DEF Ahead
<1> HIDE DEF n, d, e
<1>3. Ahead' < Ahead
  BY <1>1, <1>2
<1> QED BY <1>3 DEF RoundGoesOn

LEMMA AdvanceGoesOn ==
    ASSUME TypeOK, sync.pc # "idle", Advance
    PROVE  RoundGoesOn
<1>1. CASE sync.todo = {At}
  BY <1>1, AbandonEnds DEF Advance, Abandon
<1>2. CASE sync.todo # {At}
  <2> DEFINE n == Cardinality(sync.todo)
             d == Done(sync.pc)
             s == [sync EXCEPT !.pc = "lookup", !.todo = sync.todo \ {At}, !.unread = FALSE]
  <2>1. n \in Nat /\ d \in 0..2 /\ Cardinality(sync.todo \ {At}) = n - 1
    BY TodoSize, DoneSize DEF TypeOK, InRound
  <2>2. sync' = s
    BY <1>2 DEF Advance
  <2>3. s.pc = "lookup" /\ s.todo = sync.todo \ {At} /\ s.provider = sync.provider /\ s.ip = sync.ip
    BY DEF TypeOK, Types, Round
  <2> HIDE DEF s
  <2>4. Ahead = 3 * n - d /\ Ahead' = 3 * (n - 1) - 0
    BY <2>1, <2>2, <2>3, DoneSize DEF Ahead
  <2> HIDE DEF n, d
  <2>5. Ahead' < Ahead
    BY <2>1, <2>4
  <2> QED BY <2>2, <2>3, <2>5 DEF RoundGoesOn
<1> QED BY <1>1, <1>2

LEMMA GotoGoesOn ==
    ASSUME TypeOK, sync.pc # "idle", NEW label \in {"create", "update", "mark"}, Goto(label),
           Done(sync.pc) < Done(label)
    PROVE  RoundGoesOn
<1>1. /\ sync'.pc = label /\ sync'.todo = sync.todo
      /\ sync'.provider = sync.provider /\ sync'.ip = sync.ip
  BY DEF Goto, TypeOK, Types, Round
<1> QED BY <1>1, LabelGoesOn

\* A round ends: each of its steps, whatever the others do in between, lowers the number of
\* steps it has before it, and it publishes for the provider, and the addresses, it read at its
\* start (ddns/mod.rs:57-111).
THEOREM RoundsEnd == Spec => [][RoundGoesOn]_vars
<1>1. ASSUME IInv, Next PROVE RoundGoesOn
  <2> SUFFICES ASSUME sync' # sync, sync.pc # "idle" PROVE RoundGoesOn
    BY DEF RoundGoesOn
  <2>1. TypeOK
    BY <1>1 DEF IInv
  <2>2. CASE NoZone \/ Refuse \/ Fail \/ Restart
    BY <2>1, <2>2, AbandonEnds DEF NoZone, Refuse, Fail, Restart
  <2>3. CASE Skip \/ Mark
    BY <2>1, <2>3, AdvanceGoesOn DEF Skip, Mark
  <2>4. CASE Lookup
    <3> DEFINE label == Verdict(record[sync.provider][At])
    <3>1. label \in {"create", "update", "mark"}
      BY VerdictType
    <3>2. Goto(label) /\ sync.pc = "lookup"
      BY <2>4 DEF Lookup
    <3> HIDE DEF label
    <3>3. Done(sync.pc) < Done(label)
      BY <3>1, <3>2, DoneSize
    <3> QED BY <2>1, <3>1, <3>2, <3>3, GotoGoesOn
  <2>5. CASE LookupUnread \/ LookupForgets
    <3>1. sync \in Round /\ sync.pc = "lookup"
      BY <2>1, <2>5 DEF LookupUnread, LookupForgets, TypeOK, Types
    <3>2. PICK label \in {"create", "mark"} : SameKey(label) /\ sync'.ip = sync.ip
      BY <2>5, <3>1, UnreadRound DEF LookupUnread, LookupForgets
    <3>3. Done(sync.pc) < Done(sync'.pc)
      BY <3>1, <3>2, DoneSize DEF SameKey
    <3> QED BY <2>1, <3>2, <3>3, LabelGoesOn DEF SameKey
  <2>6. CASE Create \/ Update
    <3>1. Goto("mark") /\ Done(sync.pc) < Done("mark")
      BY <2>6, DoneSize DEF Create, Update
    <3> QED BY <2>1, <3>1, GotoGoesOn
  <2>7. ~Beginning
    BY <2>1, Begins DEF TypeOK
  <2>8. CASE RestoreStep
    <3>1. SameKey(sync.pc) /\ sync'.ip = sync.ip
      BY <2>1, <2>8, RestoredRound DEF RestoreStep, TypeOK, Types
    <3> QED BY <3>1 DEF RoundGoesOn, SameKey
  <2>9. ~OutsideStep /\ \A h \in Task : ~RequestStep(h)
    BY DEF OutsideStep, SetDdns, EditRecord, Readdress, RequestStep, ToggleRead, ToggleUnread,
           BeginDelete, ToggleWrite, DeleteRecord, ForsakeRequest
  <2> QED BY <1>1, <2>2, <2>3, <2>4, <2>5, <2>6, <2>7, <2>8, <2>9, Kinds DEF RoundStep, Sync, Beginning
<1>2. IInv /\ [Next]_vars => [RoundGoesOn]_vars
  BY <1>1
<1> QED BY <1>2, Invariant, PTL DEF Spec
=============================================================================
