---------------------------- MODULE TokenRefresh ----------------------------
(***************************************************************************)
(* The calls of one page of the panel and the interceptor they all pass    *)
(* (frontend/src/api/client.js): a call that is answered with 401 has the  *)
(* access token refreshed, once for all calls that are refused meanwhile,  *)
(* and is sent again.  The refresh passes the interceptor, too.            *)
(*                                                                         *)
(* A login and a refresh issue a pair, an access token that JavaScript     *)
(* keeps and a refresh cookie, which have one number here.  Other pages of *)
(* the browser share both: they log in and out, and rotate the pair, whose *)
(* answer is under way while the server no longer accepts the old cookie.  *)
(* What a handler of the server writes after it has read is a step of its  *)
(* own for the refresh of this page; the server is external otherwise.     *)
(***************************************************************************)
EXTENDS Naturals

CONSTANTS
    Call,           \* calls of the page that may be under way at once
    Verified,       \* those of them for which the server checks a password, too
    MaxTokens       \* bound: pairs issued

VARIABLES
    page,       \* "panel", or "login": loaded afresh after a failed refresh
    stored,     \* access_token in localStorage, 0 without one
    default,    \* the Authorization header of the client, 0 without one
    cookie,     \* the refresh cookie of the browser, 0 without one
    elsewhere,  \* the pair in an answer under way to another page, 0 without one
    issued,     \* the latest pair of the server
    expired,    \* the access tokens up to this one have expired
    live,       \* the refresh cookies that the server accepts
    call,       \* where each call is, the token it was sent with, and _retry
    refreshing, \* isRefreshing
    refresh     \* where the call that refreshes is, its cookie, and the call it is for

browser == <<page, stored, default, cookie, elsewhere>>
server == <<issued, expired, live>>
interceptor == <<call, refreshing, refresh>>
vars == <<browser, server, interceptor>>

Settled == [pc |-> "settled", token |-> 0, retry |-> FALSE]
NoRefresh == [pc |-> "none", cookie |-> 0, for |-> {}]

Init ==
    /\ page = "panel"
    /\ stored = 1 /\ default = 0 /\ cookie = 1 /\ elsewhere = 0
    /\ issued = 1 /\ expired = 0 /\ live = {1}
    /\ call = [c \in Call |-> Settled]
    /\ refreshing = FALSE
    /\ refresh = NoRefresh

Queue == {c \in Call : call[c].pc = "queued"}

\* A 401 tells that the token is not accepted, or that the password was not.
Accepted(token) == token > expired
Unauthorized(c) == call[c].pc = "sent" /\ (~Accepted(call[c].token) \/ c \in Verified)

\* A call takes the token that is stored when it is sent.
Token == IF stored = 0 THEN default ELSE stored

-----------------------------------------------------------------------------
Request(c) ==
    /\ page = "panel"
    /\ call[c] = Settled
    /\ call' = [call EXCEPT ![c] = [@ EXCEPT !.pc = "sent", !.token = Token]]
    /\ UNCHANGED <<browser, server, refreshing, refresh>>

\* An answer other than 401, or an error of the network, settles the call.
Answer(c) ==
    /\ call[c].pc = "sent"
    /\ call' = [call EXCEPT ![c] = Settled]
    /\ UNCHANGED <<browser, server, refreshing, refresh>>

\* A second 401 is passed on.
RejectAgain(c) ==
    /\ Unauthorized(c)
    /\ call[c].retry
    /\ call' = [call EXCEPT ![c] = Settled]
    /\ UNCHANGED <<browser, server, refreshing, refresh>>

Enqueue(c) ==
    /\ Unauthorized(c)
    /\ ~call[c].retry
    /\ refreshing
    /\ call' = [call EXCEPT ![c].pc = "queued"]
    /\ UNCHANGED <<browser, server, refreshing, refresh>>

StartRefresh(c) ==
    /\ Unauthorized(c)
    /\ ~call[c].retry
    /\ ~refreshing
    /\ refreshing' = TRUE
    /\ call' = [call EXCEPT ![c] = [@ EXCEPT !.pc = "refreshing", !.retry = TRUE]]
    /\ refresh' = [pc |-> "sent", cookie |-> cookie, for |-> {c}]
    /\ UNCHANGED <<browser, server>>

\* The server finds the cookie of the refresh ...
RefreshRead ==
    /\ refresh.pc = "sent"
    /\ refresh.cookie \in live
    /\ refresh' = [refresh EXCEPT !.pc = "read"]
    /\ UNCHANGED <<browser, server, call, refreshing>>

\* ... and replaces it, whatever has become of it meanwhile.
Rotated(old) ==
    /\ issued < MaxTokens
    /\ issued' = issued + 1
    /\ live' = (live \ {old}) \cup {issued'}
    /\ UNCHANGED expired

RefreshRotates ==
    /\ refresh.pc = "read"
    /\ Rotated(refresh.cookie)
    /\ refresh' = [refresh EXCEPT !.pc = "granted", !.cookie = issued']
    /\ UNCHANGED <<browser, call, refreshing>>

\* The queued calls and the one that started the refresh are sent again with the new token.
Refreshed ==
    /\ refresh.pc = "granted"
    /\ stored' = refresh.cookie /\ default' = refresh.cookie /\ cookie' = refresh.cookie
    /\ call' = [c \in Call |-> IF c \in Queue \cup refresh.for
                               THEN [call[c] EXCEPT !.pc = "sent", !.token = refresh.cookie]
                               ELSE call[c]]
    /\ refreshing' = FALSE
    /\ refresh' = NoRefresh
    /\ UNCHANGED <<page, elsewhere, server>>

\* A 401 of the refresh passes the interceptor while isRefreshing is set, so that the
\* refresh waits in the queue for itself.
RefreshRefused ==
    /\ refresh.pc = "sent"
    /\ refresh.cookie \notin live
    /\ refresh' = [refresh EXCEPT !.pc = "queued"]
    /\ UNCHANGED <<browser, server, call, refreshing>>

\* Any other error rejects every call that waits, and the page is left.
RefreshFails ==
    /\ refresh.pc \in {"sent", "read", "granted"}
    /\ \/ live' = live
       \/ refresh.pc = "read" /\ live' = live \ {refresh.cookie}
    /\ page' = "login"
    /\ stored' = 0 /\ default' = 0
    /\ call' = [c \in Call |-> Settled]
    /\ refreshing' = FALSE
    /\ refresh' = NoRefresh
    /\ UNCHANGED <<cookie, elsewhere, issued, expired>>

-----------------------------------------------------------------------------
\* The other pages, and the clock.

RotateElsewhere ==
    /\ elsewhere = 0
    /\ cookie \in live
    /\ Rotated(cookie)
    /\ elsewhere' = issued'
    /\ UNCHANGED <<page, stored, default, cookie, interceptor>>

AnswerElsewhere ==
    /\ elsewhere # 0
    /\ stored' = elsewhere /\ cookie' = elsewhere /\ elsewhere' = 0
    /\ UNCHANGED <<page, default, server, interceptor>>

\* A login, here or elsewhere.
Login ==
    /\ issued < MaxTokens
    /\ issued' = issued + 1
    /\ live' = live \cup {issued'}
    /\ stored' = issued' /\ cookie' = issued'
    /\ page' = "panel"
    /\ UNCHANGED <<default, elsewhere, expired, interceptor>>

\* A logout, here or elsewhere, which loads no page afresh.
Logout ==
    /\ cookie # 0
    /\ live' = live \ {cookie}
    /\ stored' = 0 /\ cookie' = 0
    /\ UNCHANGED <<page, default, elsewhere, issued, expired, interceptor>>

\* A change of password, or time, ends sessions.
EndSessions ==
    /\ live' \in SUBSET live
    /\ live' # live
    /\ UNCHANGED <<browser, issued, expired, interceptor>>

Expire ==
    /\ expired < issued
    /\ expired' = expired + 1
    /\ UNCHANGED <<browser, issued, live, interceptor>>

-----------------------------------------------------------------------------
Respond(c) == Answer(c) \/ RejectAgain(c) \/ Enqueue(c) \/ StartRefresh(c)
RespondToRefresh == RefreshRead \/ RefreshRotates \/ Refreshed \/ RefreshRefused \/ RefreshFails
Elsewhere == RotateElsewhere \/ AnswerElsewhere \/ Login \/ Logout \/ EndSessions \/ Expire

Next ==
    \/ \E c \in Call : Request(c) \/ Respond(c)
    \/ RespondToRefresh
    \/ Elsewhere

\* Every call that was sent is answered or fails in the end.
Spec ==
    /\ Init /\ [][Next]_vars
    /\ \A c \in Call : WF_vars(Respond(c))
    /\ WF_vars(RespondToRefresh)

-----------------------------------------------------------------------------
\* "Intercept 401 -> try refresh -> retry once": every call settles, with an answer, with an
\* error, or because the page is left for the login page.
EveryCallSettles == \A c \in Call : call[c].pc # "settled" ~> call[c].pc = "settled"
=============================================================================
