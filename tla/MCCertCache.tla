---------------------------- MODULE MCCertCache ----------------------------
(* A small installation for TLC: one zone, an exact name and its wildcard. *)
EXTENDS CertCache, TLC

CONSTANTS r1, r2, t1, main

MCRuleId == {r1, r2}
MCTask == {t1, main}
Exact == <<"app", "x">>
Wild == <<"*", "x">>
MCHost == {Exact, Wild}
MCCertName == {Exact, Wild}

MCNewRules == [id : {r2}, domain : {Exact}, ssl : BOOLEAN, enabled : {TRUE}, cert : {0}]

\* Disable, switch on both ways, and a change of name together with a binding.
MCPatchBodies ==
    {{<<"enabled", FALSE>>},
     {<<"ssl", TRUE>>, <<"enabled", TRUE>>},
     {<<"domain", Exact>>, <<"cert", 1>>}}

\* One rule with SSL on that the exact certificate covers.
MCInitialDb ==
    [rules |-> {[id |-> r1, domain |-> Exact, ssl |-> TRUE, enabled |-> TRUE, cert |-> 0]},
     certs |-> {[domain |-> Exact, id |-> 2, ver |-> 2]},
     stamp |-> 2]

\* A file from another installation: a rule on the wildcard name itself, which
\* only an import can create, and the wildcard certificate.
MCBackup ==
    [rules |-> {[id |-> r1, domain |-> Wild, ssl |-> TRUE, enabled |-> TRUE, cert |-> 0]},
     certs |-> {[domain |-> Wild, id |-> 1, ver |-> 1]}]
=============================================================================
