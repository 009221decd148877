-------------------------- MODULE CertCacheProofs --------------------------
(***************************************************************************)
(* Type correctness of CertCache; that whatever the resolver presents is   *)
(* justified; that no order of handlers and loads leaves a name uncovered  *)
(* or stale at rest without a reason; and that no load opens a gap; for    *)
(* any rules, names, tasks and bounds.                                     *)
(***************************************************************************)
EXTENDS CertCache, TLAPS

\* What each place of a running load carries, and what the cache holds, goes back
\* to rows that were in the tables: the strengthening that makes
\* PresentedIsJustified inductive.
Justified(host, c) ==
    /\ c \in everCerts
    /\ \E r \in everRules : r.domain = host /\ Matches(r, c)

Provenance ==
    /\ certs \subseteq everCerts
    /\ Active(rules) \subseteq everRules
    /\ \A t \in Task : seenCerts[t] \subseteq everCerts
    /\ \A t \in Task : Active(seenRules[t]) \subseteq everRules
    /\ \A t \in Task : pc[t] = "write" => seenRules[t] \subseteq everRules
    /\ \A h \in Host : cache[h] # NoCert => Justified(h, cache[h])

IInv == TypeOK /\ Provenance

-----------------------------------------------------------------------------
LEMMA NoCertIsNoRow == NoCert \notin CertRow
BY CertCacheAssumption DEF NoCert, CertRow, CertId, Unbound

\* One field of a PATCH keeps a rule a rule.
LEMMA AssignType ==
    ASSUME NEW r \in Rule, NEW u \in Patch
    PROVE  Assign(r, u) \in Rule
<1>1. CASE u \in {"domain"} \X Host
  <2>1. u[1] = "domain" /\ u[2] \in Host
    BY <1>1
  <2> QED BY <2>1 DEF Assign, Rule
<1>2. CASE u \in {"ssl", "enabled"} \X BOOLEAN
  <2>1. u[1] \in {"ssl", "enabled"} /\ u[2] \in BOOLEAN
    BY <1>2
  <2>2. CASE u[1] = "ssl"
    BY <2>1, <2>2 DEF Assign, Rule
  <2>3. CASE u[1] = "enabled"
    BY <2>1, <2>3 DEF Assign, Rule
  <2> QED BY <2>1, <2>2, <2>3
<1>3. CASE u \in {"cert"} \X (CertId \cup {Unbound})
  <2>1. u[1] = "cert" /\ u[2] \in CertId \cup {Unbound}
    BY <1>3
  <2>2. Assign(r, u) = [r EXCEPT !.cert = u[2]]
    BY <2>1 DEF Assign
  <2> QED BY <2>1, <2>2 DEF Rule
<1>4. \/ u \in {"domain"} \X Host
      \/ u \in {"ssl", "enabled"} \X BOOLEAN
      \/ u \in {"cert"} \X (CertId \cup {Unbound})
  BY DEF Patch
<1> QED BY <1>1, <1>2, <1>3, <1>4

\* Losing the certificate, likewise.
LEMMA UnbindType ==
    ASSUME NEW r \in Rule
    PROVE  Unbind(r) \in Rule
BY DEF Unbind, Rule

\* Every winner is a certificate that was read, and a rule that was read asks for it.
LEMMA WinnersMatch ==
    ASSUME NEW h, NEW cs, NEW rs, NEW c \in Winners(h, cs, rs)
    PROVE  /\ c \in cs
           /\ \E r \in rs : r.domain = h /\ Matches(r, c)
BY DEF Winners

-----------------------------------------------------------------------------
(* Initial states                                                          *)

LEMMA InitType == Init => TypeOK
<1> SUFFICES ASSUME Init PROVE TypeOK
  OBVIOUS
<1> USE CertCacheAssumption DEF Init
<1>1. /\ rules \subseteq Rule /\ certs \subseteq CertRow
      /\ stamp \in Nat /\ unusable \subseteq CertId
  BY SMT
<1>6. cache \in [Host -> CertRow \cup {NoCert}]
  OBVIOUS
<1>2. /\ up \in BOOLEAN /\ asked \in 0..MaxRequests /\ faults \in 0..MaxFaults
  <2>1. up \in BOOLEAN
    BY Zenon
  <2>2. MaxRequests \in Nat /\ MaxFaults \in Nat /\ asked = 0 /\ faults = 0
    OBVIOUS
  <2> HIDE CertCacheAssumption DEF Init
  <2>3. asked \in 0..MaxRequests /\ faults \in 0..MaxFaults
    BY <2>2
  <2> QED BY <2>1, <2>3
<1>3. /\ pc \in [Task -> {"idle", "certs", "rules", "write", "patch", "delete", "unbind",
                          "export"}]
      /\ target \in [Task -> RuleId \cup CertId \cup {Unbound}]
      /\ todo \in [Task -> SUBSET Patch]
      /\ seenCerts \in [Task -> SUBSET CertRow]
      /\ seenRules \in [Task -> SUBSET Rule]
  OBVIOUS
<1>4. /\ everCerts \subseteq CertRow /\ everRules \subseteq Rule
      /\ blame \subseteq {"stale", "failed", "skipped", "silent"}
  BY <1>1 DEF Active
<1>5. InitialBackup.rules \subseteq Rule /\ InitialBackup.certs \subseteq CertRow
  OBVIOUS
<1> QED BY <1>1, <1>2, <1>3, <1>4, <1>5, <1>6 DEF TypeOK

LEMMA InitProvenance == Init => Provenance
BY DEF Init, Provenance, Active

-----------------------------------------------------------------------------
(* Every step preserves the types                                          *)

LEMMA RuleOpsType ==
    ASSUME TypeOK, NEW t \in Task, RuleOps(t)
    PROVE  TypeOK'
<1> USE CertCacheAssumption DEF TypeOK, Goto, Accept, Remember, Elsewhere, tables, Active
<1>1. ASSUME NEW r \in NewRules, CreateRule(t, r) PROVE TypeOK'
  BY <1>1 DEF CreateRule
<1>2. ASSUME NEW i \in RuleId, NEW fields \in PatchBodies, BeginPatch(t, i, fields)
      PROVE  TypeOK'
  BY <1>2 DEF BeginPatch
<1>3. ASSUME NEW u \in todo[t], ApplyField(t, u) PROVE TypeOK'
  <2>1. u \in Patch /\ rules \in SUBSET Rule
    BY <1>3
  <2>2. \A r \in rules : (IF r.id = target[t] THEN Assign(r, u) ELSE r) \in Rule
    BY <2>1, AssignType
  <2>3. rules' \subseteq Rule
    BY <1>3, <2>2 DEF ApplyField
  <2> QED BY <1>3, <2>3 DEF ApplyField
<1>4. ASSUME NEW i \in RuleId, DeleteRule(t, i) PROVE TypeOK'
  BY <1>4 DEF DeleteRule
<1>5. ASSUME NEW gone \in SUBSET rules, DeleteGroupRules(t, gone) PROVE TypeOK'
  BY <1>5 DEF DeleteGroupRules, locals
<1> QED BY <1>1, <1>2, <1>3, <1>4, <1>5 DEF RuleOps

LEMMA CertOpsType ==
    ASSUME TypeOK, NEW t \in Task, CertOps(t)
    PROVE  TypeOK'
<1> USE CertCacheAssumption DEF TypeOK, Goto, Accept, Remember, Elsewhere, tables, Active
<1>1. ASSUME NEW name \in CertName, StoreCert(t, name) PROVE TypeOK'
  <2>1. certs' \subseteq CertRow /\ stamp' \in Nat
    BY <1>1 DEF StoreCert, Upsert, CertRow, CertId
  <2> QED BY <1>1, <2>1 DEF StoreCert
<1>2. ASSUME NEW i \in CertId, BeginDeleteCert(t, i) PROVE TypeOK'
  BY <1>2 DEF BeginDeleteCert
<1>3. ASSUME DeleteCertRow(t) PROVE TypeOK'
  BY <1>3 DEF DeleteCertRow
<1>4. ASSUME UnbindRules(t) PROVE TypeOK'
  <2>1. \A r \in rules : (IF r.cert = target[t] THEN Unbind(r) ELSE r) \in Rule
    BY UnbindType
  <2>2. rules' \subseteq Rule
    BY <1>4, <2>1 DEF UnbindRules
  <2> QED BY <1>4, <2>2 DEF UnbindRules
<1> QED BY <1>1, <1>2, <1>3, <1>4 DEF CertOps

LEMMA BackupOpsType ==
    ASSUME TypeOK, NEW t \in Task, BackupOps(t)
    PROVE  TypeOK'
<1> USE CertCacheAssumption DEF TypeOK, Goto, Accept, Remember, Elsewhere, tables, Active
<1>1. ASSUME BeginExport(t) PROVE TypeOK'
  BY <1>1 DEF BeginExport
<1>2. ASSUME FinishExport(t) PROVE TypeOK'
  BY <1>2 DEF FinishExport
<1>3. ASSUME NEW sections, Import(t, sections) PROVE TypeOK'
  BY <1>3 DEF Import, Replace
<1> QED BY <1>1, <1>2, <1>3 DEF BackupOps

LEMMA LoadType ==
    ASSUME TypeOK, NEW t \in Task, Load(t) \/ LoadFails(t) \/ StatementFails(t)
    PROVE  TypeOK'
<1> USE CertCacheAssumption DEF TypeOK, Goto, tables, Fault
<1>1. ASSUME NEW read, LoadCerts(t, read) PROVE TypeOK'
  <2>1. /\ seenCerts' = [seenCerts EXCEPT ![t] = read] /\ read \subseteq CertRow
        /\ pc' = [pc EXCEPT ![t] = "rules"]
        /\ UNCHANGED <<asked, rules, certs, stamp, unusable, backup, cache, up, target, todo,
                       seenRules, everCerts, everRules>>
    BY <1>1 DEF LoadCerts, Usable
  <2>2. CASE read = Usable(certs)
    BY <1>1, <2>1, <2>2 DEF LoadCerts
  <2>3. CASE read # Usable(certs)
    <3>1. faults' = faults + 1 /\ faults < MaxFaults /\ blame' = blame \cup {"skipped"}
      BY <1>1, <2>3 DEF LoadCerts
    <3>2. faults' \in 0..MaxFaults
      BY <3>1
    <3> QED BY <2>1, <3>1, <3>2
  <2> QED BY <2>2, <2>3
<1>2. ASSUME LoadRules(t) PROVE TypeOK'
  BY <1>2 DEF LoadRules, Active
<1>3. ASSUME WriteCache(t) PROVE TypeOK'
  <2>1. cache' \in [Host -> CertRow \cup {NoCert}]
    BY <1>3 DEF WriteCache
  <2>2. blame' \subseteq {"stale", "failed", "skipped", "silent"}
    BY <1>3 DEF WriteCache
  <2> QED BY <1>3, <2>1, <2>2 DEF WriteCache, Return
<1>4. ASSUME LoadFails(t) PROVE TypeOK'
  BY <1>4 DEF LoadFails, Return
<1>5. ASSUME StatementFails(t) PROVE TypeOK'
  BY <1>5 DEF StatementFails
<1> QED BY <1>1, <1>2, <1>3, <1>4, <1>5 DEF Load

LEMMA NextType == TypeOK /\ [Next]_vars => TypeOK'
<1> SUFFICES ASSUME TypeOK, [Next]_vars PROVE TypeOK'
  OBVIOUS
<1>1. ASSUME NEW c \in certs, Expire(c) PROVE TypeOK'
  BY <1>1 DEF TypeOK, Expire, Usable, CertRow, locals
<1>2. ASSUME Restart PROVE TypeOK'
  <2>1. faults' \in 0..MaxFaults
    BY <1>2, CertCacheAssumption DEF TypeOK, Restart, Fault
  <2>2. cache' \in [Host -> CertRow \cup {NoCert}]
    BY <1>2 DEF Restart
  <2>3. /\ pc' \in [Task -> {"idle", "certs", "rules", "write", "patch", "delete", "unbind",
                             "export"}]
        /\ target' \in [Task -> RuleId \cup CertId \cup {Unbound}]
        /\ todo' \in [Task -> SUBSET Patch]
        /\ seenCerts' \in [Task -> SUBSET CertRow]
        /\ seenRules' \in [Task -> SUBSET Rule]
    BY <1>2 DEF Restart
  <2> QED BY <1>2, <2>1, <2>2, <2>3 DEF TypeOK, Restart, tables
<1>3. CASE UNCHANGED vars
  BY <1>3 DEF TypeOK, vars, tables, locals
<1> QED BY <1>1, <1>2, <1>3, RuleOpsType, CertOpsType, BackupOpsType, LoadType DEF Next

\* Every value keeps its type, for any constants that meet the assumption.
THEOREM TypeCorrect == Spec => []TypeOK
BY InitType, NextType, PTL DEF Spec

-----------------------------------------------------------------------------
(* Every step preserves the provenance of what is cached                   *)

\* Histories only grow, so what was justified stays so.
LEMMA JustifiedGrows ==
    ASSUME NEW h, NEW c, Justified(h, c),
           everCerts \subseteq everCerts', everRules \subseteq everRules'
    PROVE  Justified(h, c)'
BY DEF Justified, Matches

\* A statement on the tables records what it leaves there; loads and entries are
\* as they were, and no task comes to its write by it.
LEMMA StatementKeeps ==
    ASSUME Provenance, Remember, UNCHANGED <<cache, seenCerts, seenRules>>,
           \A s \in Task : pc'[s] = "write" => pc[s] = "write"
    PROVE  Provenance'
<1>1. everCerts \subseteq everCerts' /\ everRules \subseteq everRules'
  BY DEF Remember
<1>2. certs' \subseteq everCerts' /\ Active(rules)' \subseteq everRules'
  BY DEF Remember, Active
<1>3. \A h \in Host : cache'[h] # NoCert => Justified(h, cache[h])'
  BY <1>1, JustifiedGrows DEF Provenance
<1> QED BY <1>1, <1>2, <1>3 DEF Provenance, Justified, Active

\* A step that leaves tables, entries and histories alone, and whose loads carry
\* only what the histories hold.
LEMMA StepKeeps ==
    ASSUME Provenance,
           UNCHANGED <<rules, certs, cache, everCerts, everRules>>,
           \A s \in Task : seenCerts'[s] \subseteq everCerts,
           \A s \in Task : Active(seenRules'[s]) \subseteq everRules,
           \A s \in Task : pc'[s] = "write" => seenRules'[s] \subseteq everRules
    PROVE  Provenance'
BY DEF Provenance, Justified, Active, Matches

LEMMA LoadProvenance ==
    ASSUME TypeOK, Provenance, NEW t \in Task, Load(t) \/ LoadFails(t) \/ StatementFails(t)
    PROVE  Provenance'
<1> USE DEF Goto
<1>1. ASSUME NEW read, LoadCerts(t, read) PROVE Provenance'
  <2>1. /\ seenCerts' = [seenCerts EXCEPT ![t] = read] /\ read \subseteq Usable(certs)
        /\ pc' = [pc EXCEPT ![t] = "rules"]
        /\ UNCHANGED <<rules, certs, cache, seenRules, everCerts, everRules>>
    BY <1>1 DEF LoadCerts, tables
  <2>2. Usable(certs) \subseteq everCerts
    BY DEF Provenance, Usable
  <2>3. \A s \in Task : seenCerts'[s] \subseteq everCerts
    BY <2>1, <2>2 DEF TypeOK, Provenance
  <2>4. \A s \in Task : pc'[s] = "write" => pc[s] = "write"
    BY <2>1 DEF TypeOK
  <2> QED BY <2>1, <2>3, <2>4, StepKeeps DEF Provenance
<1>2. ASSUME LoadRules(t) PROVE Provenance'
  <2>1. /\ seenRules' = [seenRules EXCEPT ![t] = Active(rules)]
        /\ pc' = [pc EXCEPT ![t] = "write"]
        /\ UNCHANGED <<rules, certs, cache, seenCerts, everCerts, everRules>>
    BY <1>2 DEF LoadRules, tables
  <2>2. Active(rules) \subseteq everRules /\ Active(Active(rules)) \subseteq everRules
    BY DEF Provenance, Active
  <2>3. \A s \in Task : Active(seenRules'[s]) \subseteq everRules
    BY <2>1, <2>2 DEF TypeOK, Provenance
  <2>4. \A s \in Task : pc'[s] = "write" => seenRules'[s] \subseteq everRules
    BY <2>1, <2>2 DEF TypeOK, Provenance
  <2> QED BY <2>1, <2>3, <2>4, StepKeeps DEF Provenance
<1>3. ASSUME Return(t) PROVE /\ \A s \in Task : seenCerts'[s] \subseteq everCerts
                             /\ \A s \in Task : Active(seenRules'[s]) \subseteq everRules
                             /\ \A s \in Task : pc'[s] = "write" => seenRules'[s] \subseteq everRules
  <2>1. /\ seenCerts' = [seenCerts EXCEPT ![t] = {}]
        /\ seenRules' = [seenRules EXCEPT ![t] = {}]
    BY <1>3 DEF Return
  <2>2. \A s \in Task : pc'[s] = "write" => pc[s] = "write"
    BY <1>3 DEF Return, TypeOK
  <2> QED BY <2>1, <2>2 DEF TypeOK, Provenance, Active
<1>4. ASSUME WriteCache(t) PROVE Provenance'
  <2>1. ASSUME NEW h \in Host, cache'[h] # NoCert PROVE Justified(h, cache'[h])
    <3> DEFINE w == Winners(h, seenCerts[t], seenRules[t])
    <3>1. IF w = {} THEN cache'[h] = cache[h] ELSE cache'[h] \in w
      BY <1>4 DEF WriteCache
    <3>2. CASE w = {}
      BY <2>1, <3>1, <3>2 DEF Provenance
    <3>3. CASE w # {}
      <4>1. cache'[h] \in w
        BY <3>1, <3>3
      <4>2. /\ cache'[h] \in seenCerts[t]
            /\ \E r \in seenRules[t] : r.domain = h /\ Matches(r, cache'[h])
        BY <4>1, WinnersMatch
      <4>3. seenCerts[t] \subseteq everCerts /\ seenRules[t] \subseteq everRules
        BY <1>4 DEF WriteCache, Provenance
      <4> QED BY <4>2, <4>3 DEF Justified
    <3> QED BY <3>2, <3>3
  <2>2. UNCHANGED <<rules, certs, everCerts, everRules>> /\ Return(t)
    BY <1>4 DEF WriteCache, tables
  <2> QED BY <2>1, <2>2, <1>3 DEF Provenance, Justified, Active, Matches
<1>5. ASSUME LoadFails(t) PROVE Provenance'
  <2>1. UNCHANGED <<rules, certs, cache, everCerts, everRules>> /\ Return(t)
    BY <1>5 DEF LoadFails, tables
  <2> QED BY <2>1, <1>3, StepKeeps
<1>6. ASSUME StatementFails(t) PROVE Provenance'
  <2>1. /\ seenRules' = [seenRules EXCEPT ![t] = {}]
        /\ pc' = [pc EXCEPT ![t] = "idle"]
        /\ UNCHANGED <<rules, certs, cache, seenCerts, everCerts, everRules>>
    BY <1>6 DEF StatementFails, tables
  <2>2. /\ \A s \in Task : Active(seenRules'[s]) \subseteq everRules
        /\ \A s \in Task : pc'[s] = "write" => seenRules'[s] = seenRules[s] /\ pc[s] = "write"
    BY <2>1 DEF TypeOK, Provenance, Active
  <2> QED BY <2>1, <2>2, StepKeeps DEF Provenance
<1> QED BY <1>1, <1>2, <1>4, <1>5, <1>6 DEF Load

LEMMA RuleOpsProvenance ==
    ASSUME TypeOK, Provenance, NEW t \in Task, RuleOps(t)
    PROVE  Provenance'
<1> USE DEF Goto, Elsewhere, tables
<1>1. ASSUME NEW r \in NewRules, CreateRule(t, r) PROVE Provenance'
  <2>1. \A s \in Task : pc'[s] = "write" => pc[s] = "write"
    BY <1>1 DEF CreateRule, TypeOK
  <2> QED BY <1>1, <2>1, StatementKeeps DEF CreateRule
<1>2. ASSUME NEW i \in RuleId, NEW fields \in PatchBodies, BeginPatch(t, i, fields)
      PROVE  Provenance'
  <2>1. \A s \in Task : pc'[s] = "write" => pc[s] = "write"
    BY <1>2 DEF BeginPatch, TypeOK
  <2> QED BY <1>2, <2>1, StepKeeps DEF BeginPatch, Provenance
<1>3. ASSUME NEW u \in todo[t], ApplyField(t, u) PROVE Provenance'
  <2>1. \A s \in Task : pc'[s] = "write" => pc[s] = "write"
    BY <1>3 DEF ApplyField, TypeOK
  <2> QED BY <1>3, <2>1, StatementKeeps DEF ApplyField
<1>4. ASSUME NEW i \in RuleId, DeleteRule(t, i) PROVE Provenance'
  <2>1. \A s \in Task : pc'[s] = "write" => pc[s] = "write"
    BY <1>4 DEF DeleteRule, TypeOK
  <2> QED BY <1>4, <2>1, StatementKeeps DEF DeleteRule
<1>5. ASSUME NEW gone \in SUBSET rules, DeleteGroupRules(t, gone) PROVE Provenance'
  BY <1>5, StatementKeeps DEF DeleteGroupRules, locals
<1> QED BY <1>1, <1>2, <1>3, <1>4, <1>5 DEF RuleOps

LEMMA CertOpsProvenance ==
    ASSUME TypeOK, Provenance, NEW t \in Task, CertOps(t)
    PROVE  Provenance'
<1> USE DEF Goto, Elsewhere, tables
<1>1. ASSUME NEW name \in CertName, StoreCert(t, name) PROVE Provenance'
  <2>1. \A s \in Task : pc'[s] = "write" => pc[s] = "write"
    BY <1>1 DEF StoreCert, TypeOK
  <2> QED BY <1>1, <2>1, StatementKeeps DEF StoreCert
<1>2. ASSUME NEW i \in CertId, BeginDeleteCert(t, i) PROVE Provenance'
  <2>1. \A s \in Task : pc'[s] = "write" => pc[s] = "write"
    BY <1>2 DEF BeginDeleteCert, TypeOK
  <2> QED BY <1>2, <2>1, StepKeeps DEF BeginDeleteCert, Provenance
<1>3. ASSUME DeleteCertRow(t) PROVE Provenance'
  <2>1. \A s \in Task : pc'[s] = "write" => pc[s] = "write"
    BY <1>3 DEF DeleteCertRow, TypeOK
  <2> QED BY <1>3, <2>1, StatementKeeps DEF DeleteCertRow
<1>4. ASSUME UnbindRules(t) PROVE Provenance'
  <2>1. \A s \in Task : pc'[s] = "write" => pc[s] = "write"
    BY <1>4 DEF UnbindRules, TypeOK
  <2> QED BY <1>4, <2>1, StatementKeeps DEF UnbindRules
<1> QED BY <1>1, <1>2, <1>3, <1>4 DEF CertOps

LEMMA BackupOpsProvenance ==
    ASSUME TypeOK, Provenance, NEW t \in Task, BackupOps(t)
    PROVE  Provenance'
<1> USE DEF Goto, Elsewhere, tables
<1>1. ASSUME BeginExport(t) PROVE Provenance'
  <2>1. /\ seenRules' = [seenRules EXCEPT ![t] = rules]
        /\ pc' = [pc EXCEPT ![t] = "export"]
        /\ UNCHANGED <<rules, certs, cache, seenCerts, everCerts, everRules>>
    BY <1>1 DEF BeginExport
  <2>2. /\ \A s \in Task : Active(seenRules'[s]) \subseteq everRules
        /\ \A s \in Task : pc'[s] = "write" => seenRules'[s] = seenRules[s] /\ pc[s] = "write"
    BY <2>1 DEF TypeOK, Provenance
  <2> QED BY <2>1, <2>2, StepKeeps DEF Provenance
<1>2. ASSUME FinishExport(t) PROVE Provenance'
  <2>1. /\ seenRules' = [seenRules EXCEPT ![t] = {}]
        /\ pc' = [pc EXCEPT ![t] = "idle"]
        /\ UNCHANGED <<rules, certs, cache, seenCerts, everCerts, everRules>>
    BY <1>2 DEF FinishExport
  <2>2. /\ \A s \in Task : Active(seenRules'[s]) \subseteq everRules
        /\ \A s \in Task : pc'[s] = "write" => seenRules'[s] = seenRules[s] /\ pc[s] = "write"
    BY <2>1 DEF TypeOK, Provenance, Active
  <2> QED BY <2>1, <2>2, StepKeeps DEF Provenance
<1>3. ASSUME NEW sections, Import(t, sections) PROVE Provenance'
  <2>1. \A s \in Task : pc'[s] = "write" => pc[s] = "write"
    BY <1>3 DEF Import, TypeOK
  <2> QED BY <1>3, <2>1, StatementKeeps DEF Import
<1> QED BY <1>1, <1>2, <1>3 DEF BackupOps

LEMMA NextProvenance == TypeOK /\ Provenance /\ [Next]_vars => Provenance'
<1> SUFFICES ASSUME TypeOK, Provenance, [Next]_vars PROVE Provenance'
  OBVIOUS
<1>1. ASSUME NEW c \in certs, Expire(c) PROVE Provenance'
  BY <1>1, StepKeeps DEF Expire, locals, Provenance
<1>2. ASSUME Restart PROVE Provenance'
  BY <1>2 DEF Restart, tables, Provenance, Active
<1>3. CASE UNCHANGED vars
  BY <1>3, StepKeeps DEF vars, tables, locals, Provenance
<1> QED BY <1>1, <1>2, <1>3, RuleOpsProvenance, CertOpsProvenance, BackupOpsProvenance,
           LoadProvenance DEF Next

-----------------------------------------------------------------------------
(* What the invariant says to the resolver                                 *)

\* cert_covers_domain as the wildcard form of the name: a name covers a host only
\* if it is the host or "*" before the host's parent.
LEMMA CoversIsNameOrWildcard ==
    ASSUME NEW name \in Seq(STRING), NEW host \in Seq(STRING), Covers(name, host)
    PROVE  name \in {host, WildcardOf(host)}
<1>1. CASE name = host
  BY <1>1
<1>2. CASE name[1] = "*" /\ Len(name) > 1 /\ Len(host) > 1 /\ Tail(name) = Tail(host)
  <2>1. name = <<name[1]>> \o Tail(name)
    BY <1>2
  <2> QED BY <1>2, <2>1 DEF WildcardOf
<1> QED BY <1>1, <1>2 DEF Covers, IsWildcard

LEMMA ProvenanceJustifies == TypeOK /\ Provenance => PresentedIsJustified
<1> SUFFICES ASSUME TypeOK, Provenance, NEW sni \in Host, Resolve(sni) # NoCert
             PROVE  /\ Resolve(sni) \in everCerts
                    /\ \E r \in everRules :
                        /\ r.domain \in {sni, WildcardOf(sni)}
                        /\ \/ r.cert = Resolve(sni).id
                           \/ /\ r.cert = Unbound
                              /\ Resolve(sni).domain \in {r.domain, WildcardOf(r.domain)}
  BY DEF PresentedIsJustified
<1>1. PICK h \in Host : /\ h \in {sni, WildcardOf(sni)}
                        /\ cache[h] # NoCert /\ Resolve(sni) = cache[h]
  BY DEF Resolve, WildcardOf
<1>2. Justified(h, cache[h])
  BY <1>1 DEF Provenance
<1>3. PICK r \in everRules : r.domain = h /\ Matches(r, cache[h])
  BY <1>2 DEF Justified
<1>4. cache[h].domain \in Seq(STRING) /\ h \in Seq(STRING)
  BY <1>1, CertCacheAssumption DEF TypeOK, CertRow
<1>5. r.cert = cache[h].id \/ (r.cert = Unbound /\ cache[h].domain \in {h, WildcardOf(h)})
  BY <1>3, <1>4, CoversIsNameOrWildcard DEF Matches
<1> QED BY <1>1, <1>2, <1>3, <1>5 DEF Justified

\* For any tables, requests, tasks and bounds, and however loads and handlers
\* interleave, the resolver presents only certificates that some rule with SSL on
\* asked for (ssl.rs:95-138, proxy.rs:334-350).
THEOREM PresentedCertificates == Spec => []PresentedIsJustified
<1>1. Init => IInv
  BY InitType, InitProvenance DEF IInv
<1>2. IInv /\ [Next]_vars => IInv'
  BY NextType, NextProvenance DEF IInv
<1>3. IInv => PresentedIsJustified
  BY ProvenanceJustifies DEF IInv
<1> QED BY <1>1, <1>2, <1>3, PTL DEF Spec

-----------------------------------------------------------------------------
(* What loads still under way will bring                                   *)

\* The load of task t is going to see certificate c and rule r.
Brings(t, c, r) ==
    \/ pc[t] = "certs"
    \/ pc[t] = "rules" /\ c \in seenCerts[t]
    \/ pc[t] = "write" /\ c \in seenCerts[t] /\ r \in seenRules[t]

Brought(c, r) == cache[r.domain] # NoCert \/ \E t \in Task : Brings(t, c, r)

\* A rule and a certificate that match have an entry, or a load that will see both.
\* It takes the pair: a load that sees some other certificate for the name, or the
\* certificate with some other rule, does nothing for it if those are gone.
Covering ==
    ~LoadCutShort =>
        \A c \in Usable(certs), r \in Active(rules) : Matches(r, c) => Brought(c, r)

Pending == \E t \in Task : pc[t] \in {"certs", "rules", "write", "unbind"}

\* With nothing to blame, what is not fresh is about to be loaded.
Refreshing == blame = {} => Pending \/ \A h \in Host : Fresh(h)

Settling == Covering /\ Refreshing

\* A task that is loading, or owes a load, is left alone.
Undisturbed(s) ==
    pc[s] \in {"certs", "rules", "write", "unbind"} =>
        pc'[s] = pc[s] /\ seenCerts'[s] = seenCerts[s] /\ seenRules'[s] = seenRules[s]

\* A handler whose statement is followed by a load owes nothing else.
LEMMA ComesToLoad ==
    ASSUME NEW t \in Task, pc'[t] = "certs"
    PROVE  Settling'
BY DEF Settling, Covering, Brought, Brings, Refreshing, Pending

\* Fewer rules or certificates, with the loads under way: nothing more to bring.
LEMMA CoveringShrinks ==
    ASSUME Covering, Usable(certs)' \subseteq Usable(certs), Active(rules)' \subseteq Active(rules),
           cache' = cache, blame \subseteq blame', \A s \in Task : Undisturbed(s)
    PROVE  Covering'
<1> SUFFICES ASSUME ~LoadCutShort', NEW c \in Usable(certs)', NEW r \in Active(rules)',
                    Matches(r, c)'
             PROVE  Brought(c, r)'
  BY DEF Covering
<1>1. Brought(c, r)
  BY DEF Covering, Matches, LoadCutShort
<1> QED BY <1>1 DEF Brought, Brings, Undisturbed

\* What a name is served depends on the active rules and the certificates alone.
LEMMA FreshStays ==
    ASSUME NEW h, Fresh(h), Active(rules)' = Active(rules), UNCHANGED <<certs, unusable, cache>>
    PROVE  Fresh(h)'
<1>1. Usable(certs)' = Usable(certs)
  BY DEF Usable
<1>2. Coverable(h)' = Coverable(h)
  BY <1>1 DEF Coverable, Winners, Matches
<1> QED BY <1>1, <1>2 DEF Fresh, Matches

LEMMA LeavesAll ==
    ASSUME Settling, Active(rules)' = Active(rules), UNCHANGED <<certs, unusable, cache, blame>>,
           \A s \in Task : Undisturbed(s)
    PROVE  Settling'
<1>1. Covering'
  BY CoveringShrinks DEF Settling, Usable
<1>2. Refreshing'
  <2>1. Pending => Pending'
    BY DEF Pending, Undisturbed
  <2> QED BY <2>1, FreshStays DEF Refreshing, Settling
<1> QED BY <1>1, <1>2 DEF Settling

\* A load that has seen what is in the tables now leaves every name fresh.
LEMMA ExactLoadIsFresh ==
    ASSUME TypeOK, NEW t \in Task, WriteCache(t), seenCerts[t] = Usable(certs),
           seenRules[t] = Active(rules), NEW h \in Host
    PROVE  Fresh(h)'
<1> DEFINE cs == Usable(certs)
           rs == Active(rules)
           w == Winners(h, cs, rs)
<1>1. UNCHANGED <<rules, certs, unusable>> /\ (w # {} => cache'[h] \in w)
  BY DEF WriteCache, tables
<1>2. Usable(certs)' = cs /\ Active(rules)' = rs /\ (Coverable(h)' <=> w # {})
  BY <1>1 DEF Usable, Active, Coverable, Winners, Matches
<1>3. SUFFICES ASSUME w # {}
               PROVE  /\ cache'[h] \in certs
                      /\ \E r \in {q \in rs : q.domain = h} : Matches(r, cache'[h])
                      /\ /\ \E r \in {q \in rs : q.domain = h} : r.cert = Unbound
                         /\ {c \in cs : c.domain = h} # {}
                         /\ ~IsWildcard(h)
                         => ~IsWildcard(cache'[h].domain)
  BY <1>1, <1>2 DEF Fresh, Matches
<1>4. cache'[h] \in cs /\ \E r \in rs : r.domain = h /\ Matches(r, cache'[h])
  BY <1>1, <1>3, WinnersMatch
<1>5. ASSUME NEW r \in rs, r.domain = h, r.cert = Unbound, NEW c \in cs, c.domain = h,
             ~IsWildcard(h)
      PROVE  ~IsWildcard(cache'[h].domain)
  <2>1. Matches(r, c)
    BY <1>5 DEF Matches, Covers
  <2>2. c \in {d \in cs : (\E q \in rs : q.domain = h /\ Matches(q, d)) /\ ~IsWildcard(d.domain)}
    BY <1>5, <2>1
  <2>3. \A d \in w : ~IsWildcard(d.domain)
    BY <2>2 DEF Winners
  <2> QED BY <1>1, <1>3, <2>3
<1> QED BY <1>4, <1>5 DEF Usable

\* The three steps of a load, and its failure.
LEMMA LoadSettling ==
    ASSUME TypeOK, Settling, NEW t \in Task, Load(t) \/ LoadFails(t) \/ StatementFails(t)
    PROVE  Settling'
<1> USE DEF Goto
<1>1. ASSUME NEW read, LoadCerts(t, read) PROVE Settling'
  <2>1. /\ UNCHANGED <<rules, certs, unusable, cache, seenRules>>
        /\ pc[t] = "certs" /\ pc'[t] = "rules" /\ seenCerts'[t] = read
        /\ IF read = Usable(certs) THEN blame' = blame ELSE blame' = blame \cup {"skipped"}
        /\ \A s \in Task \ {t} : pc'[s] = pc[s] /\ seenCerts'[s] = seenCerts[s]
    BY <1>1 DEF LoadCerts, tables, TypeOK
  <2>2. Covering'
    <3>1. Usable(certs)' = Usable(certs) /\ Active(rules)' = Active(rules)
      BY <2>1 DEF Usable, Active
    <3>2. ASSUME read = Usable(certs), NEW c \in Usable(certs), NEW r PROVE Brings(t, c, r)'
      BY <2>1, <3>2 DEF Brings
    <3>3. read # Usable(certs) => LoadCutShort'
      BY <2>1 DEF LoadCutShort
    <3> QED BY <3>1, <3>2, <3>3 DEF Covering, Brought
  <2>3. Pending'
    BY <2>1 DEF Pending
  <2> QED BY <2>2, <2>3 DEF Settling, Refreshing
<1>2. ASSUME LoadRules(t) PROVE Settling'
  <2>1. /\ UNCHANGED <<rules, certs, unusable, cache, blame, seenCerts>>
        /\ pc[t] = "rules" /\ pc'[t] = "write" /\ seenRules'[t] = Active(rules)
        /\ \A s \in Task \ {t} : pc'[s] = pc[s] /\ seenRules'[s] = seenRules[s]
    BY <1>2 DEF LoadRules, tables, TypeOK
  <2>2. Covering'
    <3> SUFFICES ASSUME ~LoadCutShort', NEW c \in Usable(certs)',
                        NEW r \in Active(rules)', Matches(r, c)'
                 PROVE  Brought(c, r)'
      BY DEF Covering
    <3>1. c \in Usable(certs) /\ r \in Active(rules) /\ Matches(r, c)
      BY <2>1 DEF Usable, Active, Matches
    <3>2. Brought(c, r)
      BY <2>1, <3>1 DEF Settling, Covering, LoadCutShort
    <3>3. ASSUME NEW s \in Task, Brings(s, c, r) PROVE Brings(s, c, r)'
      BY <2>1, <3>1, <3>3 DEF Brings
    <3> QED BY <2>1, <3>2, <3>3 DEF Brought
  <2>3. Pending'
    BY <2>1 DEF Pending
  <2> QED BY <2>2, <2>3 DEF Settling, Refreshing
<1>3. ASSUME WriteCache(t) PROVE Settling'
  <2>1. /\ UNCHANGED <<rules, certs, unusable>> /\ pc[t] = "write"
        /\ \A s \in Task \ {t} : /\ pc'[s] = pc[s] /\ seenCerts'[s] = seenCerts[s]
                                 /\ seenRules'[s] = seenRules[s]
        /\ \A h \in Host :
            LET w == Winners(h, seenCerts[t], seenRules[t])
            IN  IF w = {} THEN cache'[h] = cache[h] ELSE cache'[h] \in w
        /\ blame' = IF seenCerts[t] = Usable(certs) /\ seenRules[t] = Active(rules)
                    THEN {} ELSE blame \cup {"stale"}
    BY <1>3 DEF WriteCache, Return, tables, TypeOK
  <2>2. ASSUME NEW c \in seenCerts[t], NEW r \in seenRules[t], Matches(r, c)
        PROVE  cache'[r.domain] # NoCert
    <3>1. r.domain \in Host /\ seenCerts[t] \subseteq CertRow
      BY DEF TypeOK, Rule
    <3>2. c \in {d \in seenCerts[t] :
                    \E q \in seenRules[t] : q.domain = r.domain /\ Matches(q, d)}
      BY <2>2
    <3>3. Winners(r.domain, seenCerts[t], seenRules[t]) # {}
      BY <3>2 DEF Winners
    <3>4. cache'[r.domain] \in seenCerts[t]
      BY <2>1, <3>1, <3>3, WinnersMatch
    <3> QED BY <3>1, <3>4, NoCertIsNoRow
  <2>3. \A h \in Host : cache[h] # NoCert => cache'[h] # NoCert
    <3>1. seenCerts[t] \subseteq CertRow
      BY DEF TypeOK
    <3> QED BY <2>1, <3>1, WinnersMatch, NoCertIsNoRow
  <2>4. Covering'
    <3> SUFFICES ASSUME ~LoadCutShort', NEW c \in Usable(certs)',
                        NEW r \in Active(rules)', Matches(r, c)'
                 PROVE  Brought(c, r)'
      BY DEF Covering
    <3>1. c \in Usable(certs) /\ r \in Active(rules) /\ Matches(r, c) /\ r.domain \in Host
      BY <2>1 DEF Usable, Active, Matches, TypeOK, Rule
    <3>2. CASE seenCerts[t] = Usable(certs) /\ seenRules[t] = Active(rules)
      BY <2>2, <3>1, <3>2 DEF Brought
    <3>3. CASE ~(seenCerts[t] = Usable(certs) /\ seenRules[t] = Active(rules))
      <4>1. Brought(c, r)
        BY <2>1, <3>1, <3>3 DEF Settling, Covering, LoadCutShort
      <4>2. CASE Brings(t, c, r)
        BY <2>1, <2>2, <3>1, <4>2 DEF Brings, Brought
      <4>3. ASSUME NEW s \in Task \ {t}, Brings(s, c, r) PROVE Brings(s, c, r)'
        BY <2>1, <4>3 DEF Brings
      <4> QED BY <2>3, <3>1, <4>1, <4>2, <4>3 DEF Brought
    <3> QED BY <3>2, <3>3
  <2>5. Refreshing'
    BY <1>3, <2>1, ExactLoadIsFresh DEF Refreshing
  <2> QED BY <2>4, <2>5 DEF Settling
<1>4. ASSUME LoadFails(t) PROVE Settling'
  BY <1>4 DEF LoadFails, Settling, Covering, Refreshing, LoadCutShort
<1>5. ASSUME StatementFails(t) PROVE Settling'
  <2>1. /\ UNCHANGED <<rules, certs, unusable, cache, seenCerts>>
        /\ pc[t] \in {"patch", "delete", "unbind", "export"}
        /\ \A s \in Task \ {t} : pc'[s] = pc[s] /\ seenRules'[s] = seenRules[s]
        /\ blame' = IF pc[t] = "unbind" THEN blame \cup {"failed"} ELSE blame
    BY <1>5 DEF StatementFails, tables, TypeOK
  <2>2. CASE pc[t] = "unbind"
    BY <2>1, <2>2 DEF Settling, Covering, Refreshing, LoadCutShort
  <2>3. CASE pc[t] # "unbind"
    <3>1. Active(rules)' = Active(rules) /\ \A s \in Task : Undisturbed(s)
      BY <2>1, <2>3 DEF Active, Undisturbed
    <3> QED BY <2>1, <2>3, <3>1, LeavesAll
  <2> QED BY <2>2, <2>3
<1> QED BY <1>1, <1>2, <1>3, <1>4, <1>5 DEF Load

LEMMA RuleOpsSettling ==
    ASSUME TypeOK, Settling, NEW t \in Task, RuleOps(t)
    PROVE  Settling'
<1> USE DEF Goto, Accept, Elsewhere, tables
<1>1. ASSUME NEW r \in NewRules, CreateRule(t, r) PROVE Settling'
  <2>1. CASE r.ssl
    BY <1>1, <2>1, ComesToLoad DEF CreateRule, TypeOK
  <2>2. CASE ~r.ssl
    <3>1. Active(rules)' = Active(rules)
      BY <1>1, <2>2 DEF CreateRule, Active
    <3>2. \A s \in Task : Undisturbed(s)
      BY <1>1, <2>2 DEF CreateRule, Undisturbed
    <3> QED BY <1>1, <3>1, <3>2, LeavesAll DEF CreateRule
  <2> QED BY <2>1, <2>2
<1>2. ASSUME NEW i \in RuleId, NEW fields \in PatchBodies, BeginPatch(t, i, fields)
      PROVE  Settling'
  <2>1. Active(rules)' = Active(rules) /\ \A s \in Task : Undisturbed(s)
    BY <1>2 DEF BeginPatch, Active, Undisturbed, TypeOK
  <2> QED BY <1>2, <2>1, LeavesAll DEF BeginPatch
<1>3. ASSUME NEW u \in todo[t], ApplyField(t, u) PROVE Settling'
  BY <1>3, ComesToLoad DEF ApplyField, TypeOK
<1>4. ASSUME NEW i \in RuleId, DeleteRule(t, i) PROVE Settling'
  BY <1>4, ComesToLoad DEF DeleteRule, TypeOK
<1>5. ASSUME NEW gone \in SUBSET rules, DeleteGroupRules(t, gone) PROVE Settling'
  <2>1. /\ Active(rules)' \subseteq Active(rules) /\ Usable(certs)' = Usable(certs)
        /\ blame \subseteq blame' /\ "silent" \in blame' /\ cache' = cache
        /\ \A s \in Task : Undisturbed(s)
    BY <1>5 DEF DeleteGroupRules, locals, Active, Usable, Undisturbed
  <2> QED BY <2>1, CoveringShrinks DEF Settling, Refreshing
<1> QED BY <1>1, <1>2, <1>3, <1>4, <1>5 DEF RuleOps

LEMMA CertOpsSettling ==
    ASSUME TypeOK, Settling, NEW t \in Task, CertOps(t)
    PROVE  Settling'
<1> USE DEF Goto, Accept, Elsewhere, tables
<1>1. ASSUME NEW name \in CertName, StoreCert(t, name) PROVE Settling'
  BY <1>1, ComesToLoad DEF StoreCert, TypeOK
<1>2. ASSUME NEW i \in CertId, BeginDeleteCert(t, i) PROVE Settling'
  <2>1. Active(rules)' = Active(rules) /\ \A s \in Task : Undisturbed(s)
    BY <1>2 DEF BeginDeleteCert, Active, Undisturbed, TypeOK
  <2> QED BY <1>2, <2>1, LeavesAll DEF BeginDeleteCert
<1>3. ASSUME DeleteCertRow(t) PROVE Settling'
  <2>1. /\ Active(rules)' = Active(rules) /\ Usable(certs)' \subseteq Usable(certs)
        /\ blame' = blame /\ cache' = cache /\ \A s \in Task : Undisturbed(s)
    BY <1>3 DEF DeleteCertRow, Active, Usable, Undisturbed, TypeOK
  <2>2. Pending'
    BY <1>3 DEF DeleteCertRow, Pending, TypeOK
  <2> QED BY <2>1, <2>2, CoveringShrinks DEF Settling, Refreshing
<1>4. ASSUME UnbindRules(t) PROVE Settling'
  BY <1>4, ComesToLoad DEF UnbindRules, TypeOK
<1> QED BY <1>1, <1>2, <1>3, <1>4 DEF CertOps

LEMMA BackupOpsSettling ==
    ASSUME TypeOK, Settling, NEW t \in Task, BackupOps(t)
    PROVE  Settling'
<1> USE DEF Goto, Accept, Elsewhere, tables
<1>1. ASSUME BeginExport(t) PROVE Settling'
  <2>1. Active(rules)' = Active(rules) /\ \A s \in Task : Undisturbed(s)
    BY <1>1 DEF BeginExport, Active, Undisturbed, TypeOK
  <2> QED BY <1>1, <2>1, LeavesAll DEF BeginExport
<1>2. ASSUME FinishExport(t) PROVE Settling'
  <2>1. Active(rules)' = Active(rules) /\ \A s \in Task : Undisturbed(s)
    BY <1>2 DEF FinishExport, Active, Undisturbed, TypeOK
  <2> QED BY <1>2, <2>1, LeavesAll DEF FinishExport
<1>3. ASSUME NEW sections, Import(t, sections) PROVE Settling'
  BY <1>3, ComesToLoad DEF Import, TypeOK
<1> QED BY <1>1, <1>2, <1>3 DEF BackupOps

\* A certificate that expires leaves what is served as fresh as it was: the entry
\* that holds it is no longer asked to be.
LEMMA ExpireSettling ==
    ASSUME Settling, NEW x \in certs, Expire(x)
    PROVE  Settling'
<1>1. /\ UNCHANGED <<rules, certs, cache, blame, pc, seenCerts, seenRules>>
      /\ unusable \subseteq unusable'
  BY DEF Expire, locals
<1>2. Usable(certs)' \subseteq Usable(certs) /\ Active(rules)' = Active(rules)
  BY <1>1 DEF Usable, Active
<1>3. \A s \in Task : Undisturbed(s)
  BY <1>1 DEF Undisturbed
<1>4. Covering'
  BY <1>1, <1>2, <1>3, CoveringShrinks DEF Settling
<1>5. ASSUME NEW h \in Host, Fresh(h) PROVE Fresh(h)'
  <2>1. Coverable(h)' => Coverable(h)
    BY <1>2 DEF Coverable, Winners, Matches
  <2>2. {c \in Usable(certs)' : c.domain = h} \subseteq {c \in Usable(certs) : c.domain = h}
    BY <1>2
  <2> QED BY <1>1, <1>2, <1>5, <2>1, <2>2 DEF Fresh, Matches
<1>6. Refreshing'
  BY <1>1, <1>5 DEF Refreshing, Pending, Settling
<1> QED BY <1>4, <1>6 DEF Settling

LEMMA InitSettling == Init => Settling
BY CertCacheAssumption DEF Init, Settling, Covering, Brought, Brings, Refreshing, Pending

LEMMA NextSettling == TypeOK /\ Settling /\ [Next]_vars => Settling'
<1> SUFFICES ASSUME TypeOK, Settling, [Next]_vars PROVE Settling'
  OBVIOUS
<1>1. ASSUME Restart PROVE Settling'
  BY <1>1, ComesToLoad, CertCacheAssumption DEF Restart
<1>2. CASE UNCHANGED vars
  BY <1>2, LeavesAll DEF vars, tables, locals, Active, Undisturbed
<1> QED BY <1>1, <1>2, RuleOpsSettling, CertOpsSettling, BackupOpsSettling, LoadSettling,
           ExpireSettling DEF Next

-----------------------------------------------------------------------------
(* What that says once everything is quiet                                 *)

LEMMA CoveringSettles == Settling => SettledCovered
<1> SUFFICES ASSUME Settling, Quiescent, ~LoadCutShort, NEW host \in Host,
                    Coverable(host)
             PROVE  cache[host] # NoCert
  BY DEF SettledCovered
<1>1. PICK c \in Winners(host, Usable(certs), Active(rules)) : TRUE
  BY DEF Coverable
<1>2. c \in Usable(certs) /\ \E r \in Active(rules) : r.domain = host /\ Matches(r, c)
  BY <1>1, WinnersMatch
<1>3. \A t \in Task : \A r : ~Brings(t, c, r)
  BY DEF Quiescent, Brings
<1> QED BY <1>2, <1>3 DEF Settling, Covering, Brought

\* However handlers, loads, imports and faults interleave, for any tables, tasks and
\* bounds, no change of the tables is left without the load that covers the names it
\* makes coverable, unless a load fails or skips a key (ssl.rs:95-138, with every caller).
THEOREM NamesAreCovered == Spec => []SettledCovered
<1>1. Init => TypeOK /\ Settling
  BY InitType, InitSettling
<1>2. TypeOK /\ Settling /\ [Next]_vars => (TypeOK /\ Settling)'
  BY NextType, NextSettling
<1> QED BY <1>1, <1>2, CoveringSettles, PTL DEF Spec

LEMMA RefreshingSettles == Settling => SettledFresh
BY DEF Settling, Refreshing, Pending, SettledFresh, Quiescent

\* At rest a name is served a version the tables do not prescribe only after a load
\* that failed, skipped a key, wrote an older snapshot, or was never asked for
\* (ssl.rs:95-138, api/port_groups.rs:203-227): there is no fifth way.
THEOREM NamesAreFresh == Spec => []SettledFresh
<1>1. Init => TypeOK /\ Settling
  BY InitType, InitSettling
<1>2. TypeOK /\ Settling /\ [Next]_vars => (TypeOK /\ Settling)'
  BY NextType, NextSettling
<1> QED BY <1>1, <1>2, RefreshingSettles, PTL DEF Spec

-----------------------------------------------------------------------------
(* No gap                                                                  *)

Gapless ==
    \A host \in Host :
        up' /\ Coverable(host) /\ Coverable(host)' /\ cache[host] # NoCert
            => cache'[host] # NoCert

LEMMA NextGapless == TypeOK /\ [Next]_vars => Gapless
<1> SUFFICES ASSUME TypeOK, [Next]_vars, up', NEW host \in Host, cache[host] # NoCert
             PROVE  cache'[host] # NoCert
  BY DEF Gapless
<1>1. ASSUME NEW t \in Task, WriteCache(t) PROVE cache'[host] # NoCert
  <2>1. seenCerts[t] \subseteq CertRow
    BY DEF TypeOK
  <2> QED BY <1>1, <2>1, WinnersMatch, NoCertIsNoRow DEF WriteCache
<1>2. ASSUME NEW t \in Task, RuleOps(t) \/ CertOps(t) \/ BackupOps(t)
      PROVE  cache' = cache
  BY <1>2 DEF RuleOps, CreateRule, BeginPatch, ApplyField, DeleteRule, DeleteGroupRules,
              CertOps, StoreCert, BeginDeleteCert, DeleteCertRow, UnbindRules,
              BackupOps, BeginExport, FinishExport, Import, Elsewhere
<1>3. ASSUME NEW t \in Task,
             \/ \E read \in SUBSET Usable(certs) : LoadCerts(t, read)
             \/ LoadRules(t) \/ LoadFails(t) \/ StatementFails(t)
      PROVE  cache' = cache
  BY <1>3 DEF LoadCerts, LoadRules, LoadFails, StatementFails
<1>4. ASSUME NEW c \in certs, Expire(c) PROVE cache' = cache
  BY <1>4 DEF Expire
<1>5. ~Restart
  BY DEF Restart
<1>6. CASE UNCHANGED vars
  BY <1>6 DEF vars
<1> QED BY <1>1, <1>2, <1>3, <1>4, <1>5, <1>6 DEF Next, Load

\* A load overwrites entries and never clears the map first: while the process runs no
\* handshake finds a name without the certificate it had (ssl.rs:117-138).
THEOREM NoGaps == Spec => NoHandshakeGap
<1>1. TypeOK /\ [Next]_vars => [Gapless]_vars
  BY NextGapless
<1> QED BY <1>1, TypeCorrect, PTL DEF Spec, NoHandshakeGap, Gapless
=============================================================================
