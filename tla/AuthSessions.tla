---------------------------- MODULE AuthSessions ----------------------------
(***************************************************************************)
(* The administrator's account and the sessions of its browsers:           *)
(* api/auth.rs, the Bearer branch of middleware.rs, and reset-password of  *)
(* cli.rs, which writes the same database from another process.            *)
(*                                                                         *)
(* A session is what one login begins: a chain of refresh tokens, each     *)
(* traded for the next.  No handler uses a transaction: each statement is  *)
(* an action, handlers interleave between them, and a handler may stop     *)
(* between any two.  The cookie of a browser travels with its requests and *)
(* is replaced by their answers, which may be lost.                        *)
(*                                                                         *)
(* Passwords are compared, never hashed.  A row past its expires_at is     *)
(* left out of tokens: it stays in the table, where only statements that   *)
(* delete it could still meet it.                                          *)
(***************************************************************************)
EXTENDS Integers, Sequences

CONSTANTS
    Name,           \* usernames
    Password,       \* passwords that validate_password accepts
    Browser,        \* browsers, each with a cookie jar its tabs share
    Task,           \* handlers and commands that may be in flight at once
    InitialTables,  \* the users an earlier run may have left, as values of password
    MaxRequests     \* bound: requests and commands started

VARIABLES
    password,   \* table users: the password of each name, "" without a row
    complete,   \* setting setup_complete
    username,   \* setting username, read for display only; a restore may overwrite it, too
    tokens,     \* table refresh_tokens: the rows that can still be accepted
    access,     \* users for whom someone holds an access token that has not expired
    jar,        \* the refresh cookie of each browser, 0 without one
    asked,      \* requests started so far
    pc,         \* where each handler is
    job,        \* what each handler has been asked and has read
    born,       \* the refresh tokens ever issued, each with its user_id; a token is its index
    \* history, read by the properties only, as are the session and the era of a token
    era,        \* number of password changes of each user
    ended,      \* sessions with a token that was deleted or expired
    overtaken,  \* handlers whose session ended after they read it
    raced,      \* sessions such a handler then gave a token
    forked,     \* sessions a token of which two requests found
    lost,       \* sessions with a rotation whose answer never came
    unrevoked,  \* users with a password change that stopped half-way
    reopened    \* a setup overlapped another one, or stopped half-way

account == <<password, complete, username>>
client == <<access, jar>>
past == <<born, era, ended, overtaken, raced, forked, lost, unrevoked, reopened>>
vars == <<account, tokens, client, asked, pc, job, past>>

-----------------------------------------------------------------------------
ASSUME AuthAssumption ==
    /\ "" \notin Name /\ "" \notin Password /\ "" \notin Browser
    /\ \A table \in InitialTables :
          /\ table \in [Name -> Password \cup {""}]
          /\ \A m, n \in Name : table[m] # "" /\ table[n] # "" => m = n
    /\ MaxRequests \in Nat

Users == {n \in Name : password[n] # ""}
Token == 1..Len(born)
SessionOf(i) == born[i].session
TokensOf(u) == {i \in tokens : born[i].user = u}

NoJob == [browser |-> "", user |-> "", word |-> "", era |-> 0, token |-> 0, fresh |-> 0]

\* A refresh handler that has found a token and not issued the next one.
Rotating(t) == pc[t] \in {"rotate", "renew"}

Init ==
    /\ password \in InitialTables
    /\ complete = (Users # {})
    /\ username = IF Users = {} THEN "" ELSE CHOOSE n \in Users : TRUE
    /\ tokens = {}
    /\ access = {}
    /\ jar = [b \in Browser |-> 0]
    /\ asked = 0
    /\ pc = [t \in Task |-> "idle"]
    /\ job = [t \in Task |-> NoJob]
    /\ born = <<>>
    /\ era = [n \in Name |-> 0]
    /\ ended = {} /\ overtaken = {} /\ raced = {} /\ forked = {} /\ lost = {}
    /\ unrevoked = {}
    /\ reopened = FALSE

-----------------------------------------------------------------------------
Goto(t, label) == pc' = [pc EXCEPT ![t] = label]

\* A free handler takes the next request: it reads and checks, and goes on at label.
Accept(t, label, request) ==
    /\ pc[t] = "idle"
    /\ asked < MaxRequests
    /\ asked' = asked + 1
    /\ job' = [job EXCEPT ![t] = request]
    /\ Goto(t, label)

\* The handler is over.
Answer(t) ==
    /\ Goto(t, "idle")
    /\ job' = [job EXCEPT ![t] = NoJob]
    /\ overtaken' = overtaken \ {t}

\* The rows in gone leave the table; late are the handlers that have read them.
Remove(gone, late) ==
    /\ tokens' = tokens \ gone
    /\ ended' = ended \cup {SessionOf(i) : i \in gone}
    /\ overtaken' = overtaken \cup late

\* The handlers that rotate a token of the sessions of gone.
Holding(gone) ==
    {t \in Task : Rotating(t) /\ \E i \in gone : SessionOf(i) = SessionOf(job[t].token)}

\* INSERT INTO refresh_tokens: a row for handler t.
Issue(t, row) ==
    /\ born' = Append(born, row)
    /\ tokens' = tokens \cup {Len(born) + 1}
    /\ job' = [job EXCEPT ![t].fresh = Len(born) + 1]
    /\ raced' = IF t \in overtaken THEN raced \cup {row.session} ELSE raced
    /\ Goto(t, "answer")

-----------------------------------------------------------------------------
(* do_setup                                                                *)

BeginSetup(t, n, p) ==
    /\ ~complete
    /\ Accept(t, "insert user", [NoJob EXCEPT !.user = n, !.word = p])
    /\ reopened' = (reopened \/ \E s \in Task : pc[s] \in {"insert user", "close setup"})
    /\ UNCHANGED <<account, tokens, client, born, era, ended, overtaken, raced, forked, lost, unrevoked>>

\* username is UNIQUE: the INSERT of a name that is there fails.
InsertUser(t) ==
    /\ pc[t] = "insert user"
    /\ IF password[job[t].user] = ""
       THEN /\ password' = [password EXCEPT ![job[t].user] = job[t].word]
            /\ Goto(t, "close setup")
            /\ UNCHANGED <<job, overtaken>>
       ELSE /\ Answer(t)
            /\ UNCHANGED password
    /\ UNCHANGED <<complete, username, tokens, client, asked, born, era, ended, raced, forked, lost,
                   unrevoked, reopened>>

\* A bug: setup stays open after the first account.
CloseSetupNever(t) ==
    /\ pc[t] = "close setup"
    /\ Goto(t, "store username")
    /\ UNCHANGED <<account, tokens, client, asked, job, past>>

CloseSetup(t) ==
    /\ pc[t] = "close setup"
    /\ complete' = TRUE
    /\ Goto(t, "store username")
    /\ UNCHANGED <<password, username, tokens, client, asked, job, past>>

StoreUsername(t) ==
    /\ pc[t] = "store username"
    /\ username' = job[t].user
    /\ Answer(t)
    /\ UNCHANGED <<password, complete, tokens, client, asked, born, era, ended, raced, forked, lost,
                   unrevoked, reopened>>

-----------------------------------------------------------------------------
(* login and refresh                                                       *)

\* A bug: the hash that stands in for a missing row verifies, and a name without one logs in.
BeginLoginUnknown(t, b, n, p) ==
    /\ complete
    /\ password[n] \in {p, ""}
    /\ Accept(t, "grant", [NoJob EXCEPT !.browser = b, !.user = n, !.era = era[n]])
    /\ UNCHANGED <<account, tokens, client, past>>

\* The password is verified against the row that was read.
BeginLogin(t, b, n, p) ==
    /\ complete
    /\ password[n] = p
    /\ Accept(t, "grant", [NoJob EXCEPT !.browser = b, !.user = n, !.era = era[n]])
    /\ UNCHANGED <<account, tokens, client, past>>

Grant(t) ==
    /\ pc[t] = "grant"
    /\ Issue(t, [user |-> job[t].user, session |-> Len(born) + 1, era |-> job[t].era])
    /\ UNCHANGED <<account, client, asked, era, ended, overtaken, forked, lost, unrevoked, reopened>>

\* The request carries the cookie the browser has now.
BeginRefresh(t, b) ==
    /\ jar[b] # 0
    /\ Accept(t, "find", [NoJob EXCEPT !.browser = b, !.token = jar[b]])
    /\ UNCHANGED <<account, tokens, client, past>>

\* A bug: any token that was ever issued is found.
FindIssued(t) ==
    /\ pc[t] = "find"
    /\ job' = [job EXCEPT ![t].user = born[job[t].token].user]
    /\ Goto(t, "rotate")
    /\ UNCHANGED <<account, tokens, client, asked, past>>

\* The SELECT by hash; Unauthorized without a row.
Find(t) ==
    /\ pc[t] = "find"
    /\ IF job[t].token \in tokens
       THEN /\ job' = [job EXCEPT ![t].user = born[job[t].token].user]
            /\ Goto(t, "rotate")
            /\ forked' = IF \E s \in Task : pc[s] = "rotate" /\ job[s].token = job[t].token
                         THEN forked \cup {SessionOf(job[t].token)} ELSE forked
            /\ UNCHANGED overtaken
       ELSE /\ Answer(t)
            /\ UNCHANGED forked
    /\ UNCHANGED <<account, tokens, client, asked, born, era, ended, raced, lost, unrevoked, reopened>>

\* A bug: the old token stays.
RotateKeepsOld(t) ==
    /\ pc[t] = "rotate"
    /\ Goto(t, "renew")
    /\ UNCHANGED <<account, tokens, client, asked, job, past>>

\* A bug: every token of the user is deleted.
RotateByUser(t) ==
    /\ pc[t] = "rotate"
    /\ tokens' = tokens \ TokensOf(job[t].user)
    /\ Goto(t, "renew")
    /\ UNCHANGED <<account, client, asked, job, past>>

\* DELETE by id: it may find the row gone and goes on all the same.
Rotate(t) ==
    /\ pc[t] = "rotate"
    /\ tokens' = tokens \ {job[t].token}
    /\ Goto(t, "renew")
    /\ UNCHANGED <<account, client, asked, job, past>>

Renew(t) ==
    /\ pc[t] = "renew"
    /\ Issue(t, born[job[t].token])
    /\ UNCHANGED <<account, client, asked, era, ended, overtaken, forked, lost, unrevoked, reopened>>

\* A bug: the cookie is made of the row that was inserted last, whoever inserted it.
DeliverLatest(t) ==
    /\ pc[t] = "answer"
    /\ jar' = [jar EXCEPT ![job[t].browser] = Len(born)]
    /\ access' = access \cup {job[t].user}
    /\ Answer(t)
    /\ UNCHANGED <<account, tokens, asked, born, era, ended, raced, forked, lost, unrevoked, reopened>>

\* The answer of login or refresh arrives: Set-Cookie, and an access token in its body.
Deliver(t) ==
    /\ pc[t] = "answer"
    /\ jar' = [jar EXCEPT ![job[t].browser] = job[t].fresh]
    /\ access' = access \cup {job[t].user}
    /\ Answer(t)
    /\ UNCHANGED <<account, tokens, asked, born, era, ended, raced, forked, lost, unrevoked, reopened>>

-----------------------------------------------------------------------------
(* logout, change_password, and reset-password of the command line         *)

BeginLogout(t, b) ==
    /\ Accept(t, "log out", [NoJob EXCEPT !.browser = b, !.token = jar[b]])
    /\ UNCHANGED <<account, tokens, client, past>>

\* A bug: the cookie is removed and the row is kept.
LogOutCookieOnly(t) ==
    /\ pc[t] = "log out"
    /\ ended' = IF job[t].token \in tokens THEN ended \cup {SessionOf(job[t].token)} ELSE ended
    /\ Goto(t, "clear cookie")
    /\ UNCHANGED <<account, tokens, client, asked, job, born, era, overtaken, raced, forked, lost,
                   unrevoked, reopened>>

LogOut(t) ==
    /\ pc[t] = "log out"
    /\ LET gone == tokens \cap {job[t].token} IN Remove(gone, Holding(gone))
    /\ Goto(t, "clear cookie")
    /\ UNCHANGED <<account, client, asked, job, born, era, raced, forked, lost, unrevoked, reopened>>

\* The error of the DELETE is ignored.
LogOutFails(t) ==
    /\ pc[t] = "log out"
    /\ Goto(t, "clear cookie")
    /\ UNCHANGED <<account, tokens, client, asked, job, past>>

ClearCookie(t) ==
    /\ pc[t] = "clear cookie"
    /\ jar' = [jar EXCEPT ![job[t].browser] = 0]
    /\ Answer(t)
    /\ UNCHANGED <<account, tokens, access, asked, born, era, ended, raced, forked, lost, unrevoked,
                   reopened>>

\* The request carries an access token of n, and p is verified against the row.
BeginChange(t, n, p, q) ==
    /\ n \in access
    /\ password[n] = p
    /\ Accept(t, "update", [NoJob EXCEPT !.user = n, !.word = q])
    /\ UNCHANGED <<account, tokens, client, past>>

\* The command takes a row of users, whichever comes first.
BeginReset(t, n, q) ==
    /\ n \in Users
    /\ Accept(t, "update", [NoJob EXCEPT !.user = n, !.word = q])
    /\ UNCHANGED <<account, tokens, client, past>>

\* The UPDATE does not ask whether the password is still the one that was verified.
UpdatePassword(t) ==
    /\ pc[t] = "update"
    /\ password' = [password EXCEPT ![job[t].user] = job[t].word]
    /\ era' = [era EXCEPT ![job[t].user] = @ + 1]
    /\ Goto(t, "revoke")
    /\ UNCHANGED <<complete, username, tokens, client, asked, job, born, ended, overtaken, raced, forked,
                   lost, unrevoked, reopened>>

\* A bug: one token is deleted, as a rotation would.
RevokeOne(t) ==
    /\ pc[t] = "revoke"
    /\ \E i \in TokensOf(job[t].user) : tokens' = tokens \ {i}
    /\ Answer(t)
    /\ UNCHANGED <<account, client, asked, born, era, ended, raced, forked, lost, unrevoked, reopened>>

Revoke(t) ==
    LET u == job[t].user IN
    /\ pc[t] = "revoke"
    /\ Remove(TokensOf(u), {s \in Task : (Rotating(s) \/ pc[s] = "grant") /\ job[s].user = u})
    /\ raced' = raced \ {SessionOf(i) : i \in TokensOf(u)}
    /\ unrevoked' = unrevoked \ {u}
    /\ Goto(t, "idle")
    /\ job' = [job EXCEPT ![t] = NoJob]
    /\ UNCHANGED <<account, client, asked, born, era, forked, lost, reopened>>

-----------------------------------------------------------------------------
(* What happens to handlers, tokens and cookies                            *)

\* A handler goes no further: a statement failed, the client hung up and the future was
\* dropped, or the process died; or the answer was lost.
Abandon(t) ==
    /\ pc[t] # "idle"
    /\ lost' = IF pc[t] \in {"renew", "answer"} /\ job[t].token # 0
               THEN lost \cup {SessionOf(job[t].token)} ELSE lost
    /\ unrevoked' = IF pc[t] = "revoke" THEN unrevoked \cup {job[t].user} ELSE unrevoked
    /\ reopened' = (reopened \/ pc[t] = "close setup")
    /\ Answer(t)
    /\ UNCHANGED <<account, tokens, client, asked, born, era, ended, raced, forked>>

\* expires_at of a refresh token, the expiry of access tokens, Max-Age of a cookie.
Expire(i) ==
    /\ Remove({i}, Holding({i}))
    /\ UNCHANGED <<account, client, asked, pc, job, born, era, raced, forked, lost, unrevoked, reopened>>

AccessExpires(n) ==
    /\ access' = access \ {n}
    /\ UNCHANGED <<account, tokens, jar, asked, pc, job, past>>

CookieExpires(b) ==
    /\ jar' = [jar EXCEPT ![b] = 0]
    /\ UNCHANGED <<account, tokens, access, asked, pc, job, past>>

Requests(t) ==
    \/ \E n \in Name, p \in Password : BeginSetup(t, n, p) \/ BeginReset(t, n, p)
    \/ \E b \in Browser, n \in Name, p \in Password : BeginLogin(t, b, n, p)
    \/ \E b \in Browser : BeginRefresh(t, b) \/ BeginLogout(t, b)
    \/ \E n \in Name, p, q \in Password : BeginChange(t, n, p, q)

Proceed(t) ==
    \/ InsertUser(t) \/ CloseSetup(t) \/ StoreUsername(t)
    \/ Grant(t) \/ Find(t) \/ Rotate(t) \/ Renew(t) \/ Deliver(t)
    \/ LogOut(t) \/ LogOutFails(t) \/ ClearCookie(t)
    \/ UpdatePassword(t) \/ Revoke(t)

Next ==
    \/ \E t \in Task : Requests(t) \/ Proceed(t) \/ Abandon(t)
    \/ \E i \in tokens : Expire(i)
    \/ \E n \in access : AccessExpires(n)
    \/ \E b \in Browser : jar[b] # 0 /\ CookieExpires(b)

Spec == Init /\ [][Next]_vars

-----------------------------------------------------------------------------
Row == [user : Name, session : Nat, era : Nat]
Label == {"idle", "insert user", "close setup", "store username", "grant", "find", "rotate", "renew",
          "answer", "log out", "clear cookie", "update", "revoke"}
Job == [browser : Browser \cup {""}, user : Name \cup {""}, word : Password \cup {""}, era : Nat,
        token : Nat, fresh : Nat]

\* Types, and the references of the tables: every token has an issued one behind it and a user.
TypeOK ==
    /\ password \in [Name -> Password \cup {""}]
    /\ complete \in BOOLEAN
    /\ username \in Name \cup {""}
    /\ born \in Seq(Row)
    /\ \A i \in Token : SessionOf(i) \in 1..i
    /\ tokens \subseteq Token
    /\ access \subseteq Users
    /\ jar \in [Browser -> Token \cup {0}]
    /\ asked \in 0..MaxRequests
    /\ pc \in [Task -> Label]
    /\ job \in [Task -> Job]
    /\ \A t \in Task : job[t].token \in Token \cup {0} /\ job[t].fresh \in Token \cup {0}
    /\ era \in [Name -> Nat]
    /\ ended \subseteq Token /\ raced \subseteq Token /\ forked \subseteq Token /\ lost \subseteq Token
    /\ overtaken \subseteq Task
    /\ unrevoked \subseteq Name
    /\ reopened \in BOOLEAN

\* Setup is for the first run: it closes only once there is an account, and makes a second
\* one only if two setups overlapped or one stopped between its statements (do_setup).
FirstRunOnly ==
    /\ complete => Users # {}
    /\ reopened \/ \A m, n \in Users : m = n

\* A session has one acceptable refresh token, unless two requests found the same token
\* before either deleted it (refresh: SELECT, DELETE, INSERT).
OneTokenPerSession ==
    \A i, j \in tokens : SessionOf(i) = SessionOf(j) => i = j \/ SessionOf(i) \in forked

\* No token vouches for a password that was replaced, except while the change has yet to
\* delete the tokens, when it never did, or when a handler that had read the old state
\* issued a token after the deletion (change_password, reset_password).
OldSessionsEnd ==
    \A i \in tokens : born[i].era < era[born[i].user] =>
        \/ \E t \in Task : pc[t] = "revoke" /\ job[t].user = born[i].user
        \/ born[i].user \in unrevoked
        \/ SessionOf(i) \in raced

\* A session that was logged out, revoked or left to expire has no token any more, unless a
\* rotation was under way or had split it in two (logout, change_password, expires_at).
EndedSessionsEnd ==
    \A i \in tokens : SessionOf(i) \in ended => SessionOf(i) \in raced \cup forked

\* The cookie of a browser is accepted, or there is a reason: its session ended or was split,
\* a rotation of it is under way, or the answer of one never arrived.
CookieAccepted ==
    \A b \in Browser : jar[b] # 0 =>
        \/ jar[b] \in tokens
        \/ SessionOf(jar[b]) \in ended \cup forked \cup lost
        \/ \E t \in Task : pc[t] \in {"renew", "answer"} /\ job[t].token = jar[b]

\* A session is that of one browser: whatever logins and rotations of other browsers run beside
\* its own, and whichever of them fail, their tokens never become its cookie (login, refresh).
SessionsStayApart ==
    \A b, c \in Browser : jar[b] # 0 /\ jar[c] # 0 /\ SessionOf(jar[b]) = SessionOf(jar[c]) => b = c

\* A session lives while it has a token or a handler that is rotating one of its tokens.
Alive(s) ==
    \/ \E i \in tokens : SessionOf(i) = s
    \/ \E t \in Task : Rotating(t) /\ SessionOf(job[t].token) = s

\* Once a session is over nothing revives it, whatever cookies are still presented (refresh).
NoResurrection == [][\A s \in Token : ~Alive(s) => ~Alive(s)']_vars

\* A change of password has invalidated every earlier refresh token of the user once it is done.
ChangeInvalidatesAll ==
    \A i \in tokens : born[i].era < era[born[i].user] =>
        \/ \E t \in Task : pc[t] = "revoke" /\ job[t].user = born[i].user
        \/ born[i].user \in unrevoked
=============================================================================
