-------------------------------- MODULE Jobs --------------------------------
(***************************************************************************)
(* What the panel is promised about a background job: it runs, it settles  *)
(* once and stays settled, and its log is shown line by line from the      *)
(* first, each line once.  Nothing is promised across a restart.           *)
(***************************************************************************)
EXTENDS Naturals, Sequences

CONSTANT Job

VARIABLES
    status,     \* of each job, "none" when it is unknown
    shown       \* the numbers of the log lines the polls of each job have returned

Init ==
    /\ status = [j \in Job |-> "none"]
    /\ shown = [j \in Job |-> <<>>]

Register(j) ==
    /\ status[j] = "none"
    /\ status' = [status EXCEPT ![j] = "running"]
    /\ UNCHANGED shown

Settle(j) ==
    /\ status[j] = "running"
    /\ \E end \in {"completed", "failed"} : status' = [status EXCEPT ![j] = end]
    /\ UNCHANGED shown

Show(j) ==
    /\ status[j] # "none"
    /\ Len(shown'[j]) > Len(shown[j])
    /\ shown' = [shown EXCEPT ![j] = [i \in 1..Len(shown'[j]) |-> i]]
    /\ UNCHANGED status

Forget ==
    /\ status' = [j \in Job |-> "none"]
    /\ shown' = [j \in Job |-> <<>>]

Next == Forget \/ \E j \in Job : Register(j) \/ Settle(j) \/ Show(j)

Spec == Init /\ [][Next]_<<status, shown>>
=============================================================================
