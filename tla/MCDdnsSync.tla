----------------------------- MODULE MCDdnsSync -----------------------------
(* A domain with both types before one with A only, for TLC.  Aliyun has no zone of the *)
(* first, and one of the addresses has letters when it is an IPv6 address.              *)
EXTENDS DdnsSync, TLC

CONSTANTS h1, h2

MCKeyOrder == <<<<"home", "A">>, <<"home", "AAAA">>, <<"nas", "A">>>>
MCAddress == {"x", "y"}
MCRefused == {<<"AAAA", "y">>}
MCHosted == [p \in {"cloudflare", "aliyun"} |->
                IF p = "aliyun" THEN {"nas"} ELSE {"home", "nas"}]
MCTask == {h1, h2}

\* A file that was exported while the second domain was published at Cloudflare.
MCBackups == {[enabled |-> TRUE, provider |-> "cloudflare", listed |-> {"nas"}, paused |-> {"nas"},
               managed |-> [k \in {<<"nas", "A">>} |-> "x"]]}
=============================================================================
