---------------------------- MODULE SingleFlight ----------------------------
(***************************************************************************)
(* What calls that share one refresh are promised: the first that needs it *)
(* launches it, those that need it meanwhile join it and launch no other,  *)
(* and when it lands all of them go on at once and none is left behind.    *)
(***************************************************************************)
CONSTANT Call

VARIABLES
    waiting,        \* calls that wait for the refresh
    flying          \* a refresh is out

Init ==
    /\ waiting = {}
    /\ flying = FALSE

Launch(c) ==
    /\ ~flying /\ waiting = {}
    /\ waiting' = {c}
    /\ flying' = TRUE

Join(c) ==
    /\ flying /\ c \notin waiting
    /\ waiting' = waiting \cup {c}
    /\ UNCHANGED flying

Land ==
    /\ flying
    /\ waiting' = {}
    /\ flying' = FALSE

Next == Land \/ \E c \in Call : Launch(c) \/ Join(c)

Spec == Init /\ [][Next]_<<waiting, flying>>
=============================================================================
