--------------------------- MODULE MCAuthSessions ---------------------------
(* Two names and two passwords, two browsers, two handlers, for TLC. *)
EXTENDS AuthSessions, TLC

CONSTANTS b1, b2, t1, t2

MCName == {"admin", "other"}
MCPassword == {"first", "second"}
MCBrowser == {b1, b2}
MCTask == {t1, t2}

Fresh == [n \in MCName |-> ""]
MCInitialTables == {Fresh, [Fresh EXCEPT !["admin"] = "first"]}

Symmetric == Permutations(MCTask) \cup Permutations(MCBrowser)
=============================================================================
