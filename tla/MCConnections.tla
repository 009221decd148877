--------------------------- MODULE MCConnections ---------------------------
(* A proxied and a tunnelled domain in two groups, for TLC; rows move both to the other group, *)
(* make a redirect of one and switch the other off.                                            *)
EXTENDS Connections, TLC

CONSTANTS c1, c2, s1, s2

Row(i, g, type, target, on) ==
    [id |-> i, group |-> g, domain |-> "a", type |-> type, target |-> target, on |-> on]

MCConn == {c1, c2}
MCStream == {s1, s2}
MCInitialRules == {Row("r1", "g1", "proxy", "t1", TRUE), Row("r2", "g2", "tcp", "t2", TRUE)}
MCRows == {Row("r1", "g2", "proxy", "t1", TRUE), Row("r1", "g1", "redirect", "t1", TRUE),
           Row("r2", "g1", "tcp", "t2", TRUE), Row("r1", "g1", "proxy", "t1", FALSE)}
=============================================================================
