------------------------- MODULE TokenRefreshProofs -------------------------
(***************************************************************************)
(* What the interceptor of TokenRefresh does keep, for any number of calls *)
(* and of pages beside it: calls share one refresh (SingleFlight), and     *)
(* whoever waits, waits for a refresh that one of the calls has posted.    *)
(* And where it fails them: once that refresh is refused nothing undoes    *)
(* it, not even a new login, and whoever waits then waits forever.         *)
(***************************************************************************)
EXTENDS TokenRefresh, TLAPS

\* Where a call can be, the token it carries, and its _retry.
Calling == [pc : {"settled", "sent", "queued", "refreshing"}, token : Nat, retry : BOOLEAN]

Refreshing == [pc : {"none", "sent", "read", "granted", "queued"}, cookie : Nat, for : SUBSET Call]

\* The types of the variables.
TypeOK ==
    /\ page \in {"panel", "login"}
    /\ stored \in Nat /\ default \in Nat /\ cookie \in Nat /\ elsewhere \in Nat
    /\ issued \in Nat /\ expired \in Nat /\ live \subseteq Nat
    /\ call \in [Call -> Calling]
    /\ refreshing \in BOOLEAN
    /\ refresh \in Refreshing

\* The calls whose promise is open: those in failedQueue and the one that posted the refresh.
Waiting == Queue \cup refresh.for

\* isRefreshing tells whether a refresh is out, which is that of the one call that posted it,
\* and failedQueue is empty without it.
OneRefresh ==
    /\ refreshing <=> refresh.pc # "none"
    /\ \A c \in Call : call[c].pc = "refreshing" <=> c \in refresh.for
    /\ \A c, d \in refresh.for : c = d
    /\ refresh.for # {} <=> refreshing
    /\ Queue # {} => refreshing

\* Whoever waits, waits for a refresh that is out or was refused, and that exactly one of those
\* who wait has posted.
WaitersHaveRefresh ==
    Waiting # {} =>
        /\ refreshing /\ refresh.pc # "none"
        /\ \E c \in Waiting : refresh.for = {c} /\ \A d \in Waiting \ {c} : call[d].pc = "queued"

\* A page that was loaded afresh has no call open.
Fresh == page = "login" => \A c \in Call : call[c] = Settled

IInv == TypeOK /\ OneRefresh /\ Fresh

\* Call c waits for a refresh that waits for itself.
Stuck(c) == refresh.pc = "queued" /\ c \in Waiting

\* The calls that wait, and whether a refresh is out.
Flight == INSTANCE SingleFlight WITH waiting <- Waiting, flying <- refreshing

SharesOneRefresh == Flight!Spec

-----------------------------------------------------------------------------
(* The invariant                                                           *)

LEMMA Initially == Init => IInv
<1> SUFFICES ASSUME Init PROVE IInv
  OBVIOUS
<1>1. Settled \in Calling /\ Settled.pc = "settled" /\ Settled.token = 0
  BY DEF Settled, Calling
<1>2. NoRefresh \in Refreshing /\ NoRefresh.pc = "none" /\ NoRefresh.for = {}
  BY DEF NoRefresh, Refreshing
<1>3. TypeOK
  <2>1. call \in [Call -> Calling] /\ refresh \in Refreshing
    BY <1>1, <1>2 DEF Init
  <2>2. live \subseteq Nat
    BY DEF Init
  <2> QED BY <2>1, <2>2 DEF Init, TypeOK
<1>4. Queue = {} /\ OneRefresh
  BY <1>1, <1>2 DEF Init, OneRefresh, Queue
<1>5. Fresh
  BY DEF Init, Fresh
<1> QED BY <1>3, <1>4, <1>5 DEF IInv

\* What a step makes of call c: it is sent, settled, or queued, or it starts the refresh.
CallOutcome(c) ==
    LET new == call'[c]
        old == call[c]
    IN  /\ call' = [call EXCEPT ![c] = new] /\ new \in Calling /\ page = "panel"
        /\ UNCHANGED <<browser, server>>
        /\ \/ /\ old.pc \in {"settled", "sent"} /\ new.pc \in {"settled", "sent"}
              /\ UNCHANGED <<refreshing, refresh>>
           \/ /\ old.pc = "sent" /\ new.pc = "queued"
              /\ refreshing /\ UNCHANGED <<refreshing, refresh>>
           \/ /\ old.pc = "sent" /\ new.pc = "refreshing"
              /\ ~refreshing /\ refreshing' = TRUE
              /\ refresh' = [pc |-> "sent", cookie |-> cookie, for |-> {c}]

LEMMA CallSteps ==
    ASSUME IInv, NEW c \in Call, Request(c) \/ Respond(c)
    PROVE  CallOutcome(c)
<1>1. call[c] \in Calling /\ call \in [Call -> Calling] /\ Token \in Nat
  BY DEF IInv, TypeOK, Token
<1>2. page = "panel"
  BY DEF IInv, TypeOK, Fresh, Request, Respond, Answer, RejectAgain, Enqueue, StartRefresh, Settled,
         Unauthorized
<1>3. CASE Request(c)
  <2>1. call'[c] = [call[c] EXCEPT !.pc = "sent", !.token = Token] /\ call[c].pc = "settled"
        /\ call' = [call EXCEPT ![c] = [call[c] EXCEPT !.pc = "sent", !.token = Token]]
    BY <1>1, <1>3 DEF Request, Settled
  <2>2. call'[c] \in Calling /\ call'[c].pc = "sent"
    BY <1>1, <2>1 DEF Calling
  <2>3. UNCHANGED <<browser, server, refreshing, refresh>>
    BY <1>3 DEF Request
  <2> QED BY <1>2, <2>1, <2>2, <2>3 DEF CallOutcome
<1>4. CASE Answer(c) \/ RejectAgain(c)
  <2>1. call'[c] = Settled /\ call[c].pc = "sent" /\ call' = [call EXCEPT ![c] = Settled]
    BY <1>1, <1>4 DEF Answer, RejectAgain, Unauthorized
  <2>2. Settled \in Calling /\ Settled.pc = "settled"
    BY DEF Settled, Calling
  <2>3. UNCHANGED <<browser, server, refreshing, refresh>>
    BY <1>4 DEF Answer, RejectAgain
  <2> QED BY <1>2, <2>1, <2>2, <2>3 DEF CallOutcome
<1>5. CASE Enqueue(c)
  <2>1. call'[c] = [call[c] EXCEPT !.pc = "queued"] /\ call[c].pc = "sent" /\ refreshing
        /\ call' = [call EXCEPT ![c] = [call[c] EXCEPT !.pc = "queued"]]
    BY <1>1, <1>5 DEF Enqueue, Unauthorized
  <2>2. call'[c] \in Calling /\ call'[c].pc = "queued"
    BY <1>1, <2>1 DEF Calling
  <2>3. UNCHANGED <<browser, server, refreshing, refresh>>
    BY <1>5 DEF Enqueue
  <2> QED BY <1>2, <2>1, <2>2, <2>3 DEF CallOutcome
<1>6. CASE StartRefresh(c)
  <2>1. call'[c] = [call[c] EXCEPT !.pc = "refreshing", !.retry = TRUE] /\ call[c].pc = "sent"
        /\ call' = [call EXCEPT ![c] = [call[c] EXCEPT !.pc = "refreshing", !.retry = TRUE]]
    BY <1>1, <1>6 DEF StartRefresh, Unauthorized
  <2>2. call'[c] \in Calling /\ call'[c].pc = "refreshing"
    BY <1>1, <2>1 DEF Calling
  <2>3. UNCHANGED <<browser, server>> /\ ~refreshing /\ refreshing' = TRUE
        /\ refresh' = [pc |-> "sent", cookie |-> cookie, for |-> {c}]
    BY <1>6 DEF StartRefresh
  <2> QED BY <1>2, <2>1, <2>2, <2>3 DEF CallOutcome
<1> QED BY <1>3, <1>4, <1>5, <1>6 DEF Respond

LEMMA OutcomesKeep ==
    ASSUME IInv, NEW c \in Call, CallOutcome(c)
    PROVE  IInv'
<1>1. call \in [Call -> Calling] /\ UNCHANGED <<browser, server>>
  BY DEF IInv, TypeOK, CallOutcome
<1>2. \A d \in Call : d # c => call'[d] = call[d]
  BY <1>1 DEF CallOutcome
<1>3. TypeOK'
  <2>1. call' \in [Call -> Calling]
    BY <1>1 DEF CallOutcome
  <2>2. refreshing' \in BOOLEAN
    BY DEF CallOutcome, IInv, TypeOK
  <2>3. refresh' \in Refreshing
    BY DEF CallOutcome, IInv, TypeOK, Refreshing
  <2> QED BY <1>1, <2>1, <2>2, <2>3 DEF browser, server, IInv, TypeOK
<1>4. OneRefresh'
  BY <1>1, <1>2 DEF CallOutcome, IInv, OneRefresh, Queue
<1>5. Fresh'
  BY <1>1 DEF CallOutcome, Fresh, browser
<1> QED BY <1>3, <1>4, <1>5 DEF IInv

\* Where an answer of the refresh leaves: no call waits any more, or the refresh is refused.
Landed ==
    /\ refresh.pc # "none" /\ refresh' = NoRefresh /\ refreshing' = FALSE
    /\ \A c \in Call : call'[c].pc \in {"settled", "sent"}

LEMMA Lands == ASSUME IInv, Refreshed \/ RefreshFails PROVE Landed
<1>1. call \in [Call -> Calling]
  BY DEF IInv, TypeOK
<1>2. CASE Refreshed
  <2>1. \A c \in Call : c \in Queue \cup refresh.for =>
            call'[c] = [call[c] EXCEPT !.pc = "sent", !.token = refresh.cookie]
    BY <1>2 DEF Refreshed
  <2>2. \A c \in Call : c \notin Queue \cup refresh.for => call'[c] = call[c]
    BY <1>2 DEF Refreshed
  <2>3. \A c \in Call : call[c].pc \in {"queued", "refreshing"} <=> c \in Queue \cup refresh.for
    BY DEF IInv, OneRefresh, Queue
  <2>4. ASSUME NEW c \in Call PROVE call'[c].pc \in {"settled", "sent"}
    <3>1. call[c].pc \in {"settled", "sent", "queued", "refreshing"} /\ call[c] \in Calling
      BY <1>1 DEF Calling
    <3>2. CASE c \in Queue \cup refresh.for
      BY <2>1, <3>1, <3>2 DEF Calling
    <3>3. CASE c \notin Queue \cup refresh.for
      BY <2>2, <2>3, <3>1, <3>3
    <3> QED BY <3>2, <3>3
  <2> QED BY <1>2, <2>4 DEF Refreshed, Landed
<1>3. CASE RefreshFails
  <2>1. \A c \in Call : call'[c] = Settled
    BY <1>3 DEF RefreshFails
  <2>2. Settled.pc = "settled"
    BY DEF Settled
  <2> QED BY <1>3, <2>1, <2>2 DEF RefreshFails, Landed
<1> QED BY <1>2, <1>3

\* While the server is at the refresh, and when it has refused it, the same calls wait.
LEMMA StillOut ==
    ASSUME IInv, RefreshRead \/ RefreshRotates \/ RefreshRefused
    PROVE  /\ refresh.pc # "none" /\ refresh'.pc \in {"read", "granted", "queued"}
           /\ refresh'.for = refresh.for /\ UNCHANGED <<browser, call, refreshing>>
           /\ refresh' \in Refreshing
           /\ issued' \in Nat /\ live' \subseteq Nat /\ expired' = expired
<1>1. refresh \in Refreshing /\ issued \in Nat /\ live \subseteq Nat
  BY DEF IInv, TypeOK
<1>2. CASE RefreshRead \/ RefreshRefused
  <2>1. PICK label \in {"read", "queued"} : refresh' = [refresh EXCEPT !.pc = label]
    BY <1>2 DEF RefreshRead, RefreshRefused
  <2>2. /\ refresh' \in Refreshing /\ refresh'.pc = label /\ refresh'.for = refresh.for
    BY <1>1, <2>1 DEF Refreshing
  <2>3. UNCHANGED <<browser, server, call, refreshing>> /\ refresh.pc = "sent"
    BY <1>2 DEF RefreshRead, RefreshRefused
  <2> QED BY <1>1, <2>2, <2>3 DEF server
<1>3. CASE RefreshRotates
  <2>1. issued' = issued + 1 /\ live' = (live \ {refresh.cookie}) \cup {issued'} /\ expired' = expired
    BY <1>3 DEF RefreshRotates, Rotated
  <2>2. issued' \in Nat /\ live' \subseteq Nat
    <3>1. issued' \in Nat
      BY <1>1, <2>1
    <3> QED BY <1>1, <2>1, <3>1
  <2>3. refresh' = [refresh EXCEPT !.pc = "granted", !.cookie = issued']
    BY <1>3 DEF RefreshRotates
  <2>4. refresh' \in Refreshing /\ refresh'.pc = "granted" /\ refresh'.for = refresh.for
    BY <1>1, <2>2, <2>3 DEF Refreshing
  <2>5. UNCHANGED <<browser, call, refreshing>> /\ refresh.pc = "read"
    BY <1>3 DEF RefreshRotates
  <2> QED BY <2>1, <2>2, <2>4, <2>5
<1> QED BY <1>2, <1>3

LEMMA RefreshKeeps ==
    ASSUME IInv, RespondToRefresh
    PROVE  IInv'
<1>1. NoRefresh \in Refreshing /\ NoRefresh.pc = "none" /\ NoRefresh.for = {}
  BY DEF NoRefresh, Refreshing
<1>2. call \in [Call -> Calling] /\ refresh \in Refreshing /\ refresh.cookie \in Nat
  BY DEF IInv, TypeOK, Refreshing
<1>3. ASSUME Landed PROVE OneRefresh'
  BY <1>1, <1>3 DEF Landed, OneRefresh, Queue
<1>4. CASE Refreshed
  <2>1. Landed
    BY <1>4, Lands
  <2>2. /\ stored' = refresh.cookie /\ default' = refresh.cookie /\ cookie' = refresh.cookie
        /\ refreshing' = FALSE /\ refresh' = NoRefresh
        /\ UNCHANGED <<page, elsewhere, server>>
    BY <1>4 DEF Refreshed
  <2>3. ASSUME NEW c \in Call PROVE call'[c] \in Calling
    <3>1. CASE c \in Queue \cup refresh.for
      <4>1. call'[c] = [call[c] EXCEPT !.pc = "sent", !.token = refresh.cookie]
        BY <1>4, <3>1 DEF Refreshed
      <4> QED BY <1>2, <4>1 DEF Calling
    <3>2. CASE c \notin Queue \cup refresh.for
      <4>1. call'[c] = call[c]
        BY <1>4, <3>2 DEF Refreshed
      <4> QED BY <1>2, <4>1
    <3> QED BY <3>1, <3>2
  <2>4. call' \in [Call -> Calling]
    BY <1>4, <2>3 DEF Refreshed
  <2>5. TypeOK'
    BY <1>1, <1>2, <2>2, <2>4 DEF IInv, TypeOK, server
  <2>6. page = "panel"
    <3>1. PICK c \in Call : call[c].pc = "refreshing"
      BY <1>4 DEF Refreshed, IInv, TypeOK, OneRefresh, Refreshing
    <3>2. call[c] # Settled
      BY <3>1 DEF Settled
    <3> QED BY <3>2 DEF IInv, TypeOK, Fresh
  <2> QED BY <1>3, <2>1, <2>2, <2>5, <2>6 DEF IInv, Fresh
<1>5. CASE RefreshRead \/ RefreshRotates \/ RefreshRefused
  <2>1. TypeOK'
    BY <1>5, StillOut DEF IInv, TypeOK, browser
  <2>2. OneRefresh'
    BY <1>5, StillOut DEF IInv, OneRefresh, Queue
  <2>3. Fresh'
    BY <1>5, StillOut DEF IInv, Fresh, browser
  <2> QED BY <2>1, <2>2, <2>3 DEF IInv
<1>6. CASE RefreshFails
  <2>1. Landed
    BY <1>6, Lands
  <2>2. Settled \in Calling
    BY DEF Settled, Calling
  <2>3. /\ page' = "login" /\ stored' = 0 /\ default' = 0 /\ call' = [c \in Call |-> Settled]
        /\ refreshing' = FALSE /\ refresh' = NoRefresh
        /\ UNCHANGED <<cookie, elsewhere, issued, expired>> /\ live' \subseteq live
    BY <1>6 DEF RefreshFails
  <2>4. TypeOK'
    BY <1>1, <2>2, <2>3 DEF IInv, TypeOK
  <2>5. Fresh'
    BY <2>3 DEF Fresh
  <2> QED BY <1>3, <2>1, <2>4, <2>5 DEF IInv
<1> QED BY <1>4, <1>5, <1>6 DEF RespondToRefresh

\* The other pages and the clock leave the interceptor alone.
LEMMA ElsewhereKeeps ==
    ASSUME IInv, Elsewhere
    PROVE  IInv' /\ UNCHANGED <<call, refreshing, refresh>>
<1>1. UNCHANGED <<call, refreshing, refresh>>
  BY DEF Elsewhere, RotateElsewhere, AnswerElsewhere, Login, Logout, EndSessions, Expire, interceptor
<1>2. page' \in {page, "panel"} /\ default' = default
  BY DEF Elsewhere, RotateElsewhere, AnswerElsewhere, Login, Logout, EndSessions, Expire, browser
<1>3. issued' \in Nat /\ expired' \in Nat
  BY DEF Elsewhere, RotateElsewhere, AnswerElsewhere, Login, Logout, EndSessions, Expire, Rotated,
         server, IInv, TypeOK
<1>4. live' \subseteq Nat
  BY <1>3 DEF Elsewhere, RotateElsewhere, AnswerElsewhere, Login, Logout, EndSessions, Expire, Rotated,
         server, IInv, TypeOK
<1>5. stored' \in Nat /\ cookie' \in Nat /\ elsewhere' \in Nat
  BY <1>3 DEF Elsewhere, RotateElsewhere, AnswerElsewhere, Login, Logout, EndSessions, Expire, browser,
         IInv, TypeOK
<1>6. TypeOK'
  BY <1>1, <1>2, <1>3, <1>4, <1>5 DEF IInv, TypeOK
<1>7. OneRefresh' /\ Fresh'
  BY <1>1, <1>2 DEF IInv, OneRefresh, Fresh, Queue
<1> QED BY <1>1, <1>6, <1>7 DEF IInv

LEMMA Inductive == IInv /\ [Next]_vars => IInv'
<1> SUFFICES ASSUME IInv, [Next]_vars PROVE IInv'
  OBVIOUS
<1>1. ASSUME NEW c \in Call, Request(c) \/ Respond(c) PROVE IInv'
  BY <1>1, CallSteps, OutcomesKeep
<1>2. CASE RespondToRefresh
  BY <1>2, RefreshKeeps
<1>3. CASE Elsewhere
  BY <1>3, ElsewhereKeeps
<1>4. CASE UNCHANGED vars
  BY <1>4 DEF vars, browser, server, interceptor, IInv, TypeOK, OneRefresh, Fresh, Queue
<1> QED BY <1>1, <1>2, <1>3, <1>4 DEF Next

\* The types of every variable of the interceptor, for any number of calls (client.js:9-22).
THEOREM TypeCorrect == Spec => []TypeOK
<1>1. IInv => TypeOK
  BY DEF IInv
<1> QED BY <1>1, Initially, Inductive, PTL DEF Spec

\* Nobody waits without a refresh that is out or was refused, and that one of those who wait
\* has posted (client.js:23-38).
THEOREM NobodyWaitsAlone == Spec => []WaitersHaveRefresh
<1>1. IInv => WaitersHaveRefresh
  <2> SUFFICES ASSUME IInv, Waiting # {} PROVE WaitersHaveRefresh
    BY DEF WaitersHaveRefresh
  <2>1. refreshing /\ refresh.pc # "none"
    BY DEF IInv, OneRefresh, Waiting
  <2>2. PICK c \in refresh.for : refresh.for = {c}
    BY <2>1 DEF IInv, OneRefresh
  <2>3. \A d \in Waiting \ {c} : call[d].pc = "queued"
    BY <2>2 DEF Waiting, Queue
  <2> QED BY <2>1, <2>2, <2>3 DEF WaitersHaveRefresh, Waiting
<1> QED BY <1>1, Initially, Inductive, PTL DEF Spec

-----------------------------------------------------------------------------
(* One refresh for all                                                     *)

LEMMA StepShares ==
    ASSUME IInv, [Next]_vars
    PROVE  [Flight!Next]_<<Waiting, refreshing>>
<1>1. ASSUME NEW c \in Call, CallOutcome(c) PROVE UNCHANGED <<Waiting, refreshing>> \/ Flight!Join(c) \/ Flight!Launch(c)
  <2>1. \A d \in Call : d # c => call'[d] = call[d]
    BY <1>1 DEF CallOutcome, IInv, TypeOK
  <2>2. call[c].pc \in {"settled", "sent"} /\ c \notin Waiting
    BY <1>1 DEF CallOutcome, IInv, OneRefresh, Queue, Waiting
  <2>3. CASE call'[c].pc = "queued"
    <3>1. Queue' = Queue \cup {c}
      BY <2>1, <2>3 DEF Queue
    <3>2. refreshing /\ UNCHANGED <<refreshing, refresh>>
      BY <1>1, <2>3 DEF CallOutcome
    <3> QED BY <2>2, <3>1, <3>2 DEF Waiting, Flight!Join
  <2>4. CASE call'[c].pc = "refreshing"
    <3>1. ~refreshing /\ refreshing' = TRUE /\ refresh'.for = {c}
      BY <1>1, <2>4 DEF CallOutcome
    <3>2. Waiting = {} /\ Queue = {}
      BY <3>1 DEF IInv, OneRefresh, Waiting
    <3>3. Queue' = {}
      BY <2>1, <2>4, <3>2 DEF Queue
    <3> QED BY <3>1, <3>2, <3>3 DEF Waiting, Flight!Launch
  <2>5. CASE call'[c].pc \in {"settled", "sent"}
    <3>1. UNCHANGED <<refreshing, refresh>>
      BY <1>1, <2>5 DEF CallOutcome
    <3>2. Queue' = Queue
      BY <2>1, <2>2, <2>5 DEF Queue
    <3> QED BY <3>1, <3>2 DEF Waiting
  <2> QED BY <1>1, <2>3, <2>4, <2>5 DEF CallOutcome
<1>2. ASSUME NEW c \in Call, Request(c) \/ Respond(c) PROVE UNCHANGED <<Waiting, refreshing>> \/ Flight!Next
  BY <1>1, <1>2, CallSteps DEF Flight!Next
<1>3. CASE Refreshed \/ RefreshFails
  <2>1. Landed
    BY <1>3, Lands
  <2>2. refreshing
    BY <2>1 DEF Landed, IInv, OneRefresh
  <2>3. Waiting' = {}
    BY <2>1 DEF Landed, Waiting, Queue, NoRefresh
  <2> QED BY <2>1, <2>2, <2>3 DEF Landed, Flight!Next, Flight!Land
<1>4. CASE RefreshRead \/ RefreshRotates \/ RefreshRefused
  BY <1>4, StillOut DEF Waiting, Queue
<1>5. CASE Elsewhere
  BY <1>5, ElsewhereKeeps DEF Waiting, Queue
<1>6. CASE UNCHANGED vars
  BY <1>6 DEF vars, interceptor, Waiting, Queue
<1> QED BY <1>2, <1>3, <1>4, <1>5, <1>6 DEF Next, RespondToRefresh

\* Calls that are refused meanwhile share one refresh: the first launches it, no other does until
\* it has landed, and then the queue is empty (client.js:12-15, 22-52).
THEOREM RefreshIsShared == Spec => SharesOneRefresh
<1>1. Init => Flight!Init
  BY DEF Init, Flight!Init, Waiting, Queue, Settled, NoRefresh
<1>2. IInv /\ [Next]_vars => [Flight!Next]_<<Waiting, refreshing>>
  BY StepShares
<1> QED BY <1>1, <1>2, Initially, Inductive, PTL DEF Spec, SharesOneRefresh, Flight!Spec

-----------------------------------------------------------------------------
(* A refused refresh                                                       *)

LEMMA StuckStays ==
    ASSUME IInv, [Next]_vars, NEW c \in Call, Stuck(c)
    PROVE  Stuck(c)'
<1>1. refreshing /\ refresh.pc = "queued" /\ call[c].pc \in {"queued", "refreshing"}
  BY DEF Stuck, Waiting, Queue, IInv, OneRefresh
<1>2. ASSUME NEW d \in Call, Request(d) \/ Respond(d) PROVE Stuck(c)'
  <2>1. CallOutcome(d)
    BY <1>2, CallSteps
  <2>2. d # c /\ UNCHANGED refresh
    BY <1>1, <2>1 DEF CallOutcome
  <2>3. call'[c] = call[c]
    BY <2>1, <2>2 DEF CallOutcome, IInv, TypeOK
  <2> QED BY <2>2, <2>3 DEF Stuck, Waiting, Queue
<1>3. ~RespondToRefresh
  BY <1>1 DEF RespondToRefresh, RefreshRead, RefreshRotates, Refreshed, RefreshRefused, RefreshFails
<1>4. CASE Elsewhere
  BY <1>4, ElsewhereKeeps DEF Stuck, Waiting, Queue
<1>5. CASE UNCHANGED vars
  BY <1>5 DEF vars, interceptor, Stuck, Waiting, Queue
<1> QED BY <1>2, <1>3, <1>4, <1>5 DEF Next

\* Why EveryCallSettles fails, and how far: once the refresh has been refused, a call that waits
\* for it waits for ever, whatever becomes of the session and whoever logs in again, and so does
\* every later one that joins the queue, for isRefreshing is never reset (client.js:20-38).
THEOREM RefusedMeansForever ==
    ASSUME NEW c \in Call
    PROVE  Spec => [](Stuck(c) => [](Stuck(c) /\ call[c].pc # "settled" /\ refreshing))
<1>1. IInv /\ [Next]_vars /\ Stuck(c) => Stuck(c)'
  BY StuckStays
<1>2. IInv /\ Stuck(c) => call[c].pc # "settled" /\ refreshing
  BY DEF IInv, OneRefresh, Stuck, Waiting, Queue
<1> QED BY <1>1, <1>2, Initially, Inductive, PTL DEF Spec
=============================================================================
