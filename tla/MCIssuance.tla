----------------------------- MODULE MCIssuance -----------------------------
(* Names of one zone, two jobs and one renewal for TLC; the orders are the plain one or,  *)
(* for the run about renewals, one with a second name and one for a wildcard.            *)
EXTENDS Issuance, TLC

CONSTANTS j1, j2, r1

MCName == {"www", "api", "*"}
MCBase == [n \in MCName |-> IF n = "*" THEN "apex" ELSE n]
MCZone == [n \in MCName |-> "apex"]
Plain(n) == [primary |-> n, names |-> {n}]
OneOrder == {Plain("www")}
TwoOrders == {[primary |-> "www", names |-> {"www", "api"}], Plain("*")}
OneProvider == {"cloudflare"}
BothProviders == {"cloudflare", "aliyun"}
MCJob == {j1, j2}
MCRenewer == {r1}
Symmetric == Permutations(MCJob)
=============================================================================
