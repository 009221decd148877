----------------------------- MODULE Reconcile -----------------------------
(***************************************************************************)
(* What the proxy engine promises about its listeners: it stops all of     *)
(* them at once and starts all that it read in the configuration at once,  *)
(* so what runs is one snapshot and never a mixture of two.                *)
(***************************************************************************)
CONSTANT Item       \* what can be configured to run

VARIABLES
    desired,        \* what the configuration asks for
    snapshot,       \* what was last read of it and has not started yet
    running         \* what runs

Init ==
    /\ desired \subseteq Item
    /\ snapshot = {}
    /\ running = {}

Configure ==
    /\ desired' \in SUBSET Item
    /\ UNCHANGED <<snapshot, running>>

\* Also what a crash does.
Stop ==
    /\ running' = {}
    /\ snapshot' = {}
    /\ UNCHANGED desired

Read ==
    /\ snapshot' = desired
    /\ UNCHANGED <<desired, running>>

Start ==
    /\ running = {}
    /\ running' = snapshot
    /\ snapshot' = {}
    /\ UNCHANGED desired

Next == Configure \/ Stop \/ Read \/ Start

Spec == Init /\ [][Next]_<<desired, snapshot, running>>
=============================================================================
