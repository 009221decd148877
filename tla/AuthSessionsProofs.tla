------------------------- MODULE AuthSessionsProofs -------------------------
(***************************************************************************)
(* What the sessions, the first-run setup and the cookies of AuthSessions  *)
(* keep, and that no session moves from one browser to another: for any    *)
(* names, browsers, handlers and number of requests, and whatever handlers *)
(* overlap or stop half-way.                                               *)
(*                                                                         *)
(* The invariants of AuthSessions speak of tokens and cookies; each is     *)
(* strengthened here by the same statement about what the handlers have    *)
(* read and will write.                                                    *)
(***************************************************************************)
EXTENDS AuthSessionsTypes

\* The users with a password change that has yet to delete the tokens, or never did.
Changing == unrevoked \cup {job[t].user : t \in {s \in Task : pc[s] = "revoke"}}

\* A token that vouches for a password that was replaced.
Stale(i) == born[i].era < era[born[i].user]

\* The session that handler t rotates a token of.
Rotated(t) == SessionOf(job[t].token)

\* A session is of one user, and a handler that rotates knows which.
OneUser ==
    /\ \A i \in Token : born[i].user = born[SessionOf(i)].user
    /\ \A t \in Task : Rotating(t) => job[t].user = born[job[t].token].user

\* OldSessionsEnd, for the tokens and for what the handlers have read.
Kept ==
    /\ \A i \in tokens : Stale(i) => born[i].user \in Changing \/ SessionOf(i) \in raced
    /\ \A t \in Task : Rotating(t) /\ Stale(job[t].token) =>
          job[t].user \in Changing \/ Rotated(t) \in raced \/ t \in overtaken
    /\ \A t \in Task : pc[t] = "grant" /\ job[t].era < era[job[t].user] =>
          job[t].user \in Changing \/ t \in overtaken

\* OneTokenPerSession, for the tokens and for the tokens the handlers will issue.
Exclusive ==
    /\ OneTokenPerSession
    /\ \A t \in Task, i \in tokens : Rotating(t) /\ SessionOf(i) = Rotated(t) =>
          Rotated(t) \in forked \/ (pc[t] = "rotate" /\ job[t].token = i)
    /\ \A s, t \in Task : Rotating(s) /\ Rotating(t) /\ Rotated(s) = Rotated(t) =>
          s = t \/ Rotated(t) \in forked

\* EndedSessionsEnd, for the tokens and for the tokens the handlers will issue.
Over ==
    /\ EndedSessionsEnd
    /\ \A t \in Task : Rotating(t) /\ Rotated(t) \in ended =>
          t \in overtaken \/ Rotated(t) \in raced \cup forked

Sessions == Typed /\ OneUser /\ Kept /\ Exclusive /\ Over

-----------------------------------------------------------------------------
(* Steps that no session notices                                           *)

\* Handler t is at no statement about tokens, or where it was, or has just verified a password.
Undisturbed(t) ==
    \/ /\ pc'[t] \notin {"grant", "rotate", "renew"}
       /\ pc[t] = "revoke" => job[t].user \in unrevoked'
    \/ pc'[t] = pc[t] /\ job'[t] = job[t] /\ (t \in overtaken => t \in overtaken')
    \/ /\ pc[t] = "idle" /\ pc'[t] = "grant"
       /\ job'[t].era = era[job'[t].user] /\ era[job'[t].user] \in Nat

Quiet ==
    /\ UNCHANGED <<born, era, tokens, ended, raced, forked>>
    /\ unrevoked \subseteq unrevoked'
    /\ \A t \in Task : Undisturbed(t)

LEMMA QuietChanging ==
    ASSUME Quiet
    PROVE  Changing \subseteq Changing'
<1>1. unrevoked \subseteq unrevoked'
  BY DEF Quiet
<1>2. \A t \in Task : pc[t] = "revoke" =>
         job[t].user \in unrevoked' \/ (pc'[t] = "revoke" /\ job'[t].user = job[t].user)
  BY DEF Quiet, Undisturbed
<1> QED BY <1>1, <1>2 DEF Changing

LEMMA QuietKeeps ==
    ASSUME Sessions, Quiet
    PROVE  OneUser' /\ Kept' /\ Exclusive' /\ Over'
<1>1. /\ Token' = Token /\ \A i : SessionOf(i)' = SessionOf(i) /\ (Stale(i)' <=> Stale(i))
      /\ UNCHANGED <<born, era, tokens, ended, raced, forked>>
  BY DEF Quiet, Token, SessionOf, Stale
<1>2. Changing \subseteq Changing'
  BY QuietChanging
<1>3. \A t \in Task : Rotating(t)' => 
         /\ Rotating(t) /\ pc'[t] = pc[t] /\ job'[t] = job[t] /\ (t \in overtaken => t \in overtaken')
         /\ Rotated(t)' = Rotated(t)
  BY <1>1 DEF Quiet, Undisturbed, Rotating, Rotated, SessionOf
<1>4. \A t \in Task : (pc'[t] = "grant" /\ pc[t] = "grant" /\ job'[t] = job[t]
                          /\ (t \in overtaken => t \in overtaken'))
                      \/ pc'[t] # "grant" \/ ~(job'[t].era < era'[job'[t].user])
  BY <1>1 DEF Quiet, Undisturbed
<1>5. OneUser'
  BY <1>1, <1>3 DEF Sessions, OneUser
<1>6. Kept'
  <2>1. \A i \in tokens' : Stale(i)' => born'[i].user \in Changing' \/ SessionOf(i)' \in raced'
    BY <1>1, <1>2 DEF Sessions, Kept
  <2>2. \A t \in Task : Rotating(t)' /\ Stale(job[t].token)' =>
          job'[t].user \in Changing' \/ Rotated(t)' \in raced' \/ t \in overtaken'
    BY <1>1, <1>2, <1>3 DEF Sessions, Kept, Stale
  <2>3. \A t \in Task : pc'[t] = "grant" /\ job'[t].era < era'[job'[t].user] =>
          job'[t].user \in Changing' \/ t \in overtaken'
    BY <1>1, <1>2, <1>4 DEF Sessions, Kept
  <2> QED BY <2>1, <2>2, <2>3 DEF Kept
<1>7. Exclusive'
  BY <1>1, <1>3 DEF Sessions, Exclusive, OneTokenPerSession
<1>8. Over'
  BY <1>1, <1>3 DEF Sessions, Over, EndedSessionsEnd
<1> QED BY <1>5, <1>6, <1>7, <1>8

\* A handler that comes to a place that no session notices.
LEMMA LeaveQuiet ==
    ASSUME Typed, NEW t \in Task, NEW label \in Label \ {"grant", "rotate", "renew"},
           Goto(t, label), \A s \in Task \ {t} : job'[s] = job[s],
           pc[t] = "revoke" => job[t].user \in unrevoked', overtaken \subseteq overtaken' \cup {t},
           UNCHANGED <<born, era, tokens, ended, raced, forked>>, unrevoked \subseteq unrevoked'
    PROVE  Quiet
<1>1. pc' = [pc EXCEPT ![t] = label] /\ pc \in [Task -> Label]
  BY DEF Goto, Typed, TypeOK
<1>2. pc'[t] = label /\ \A s \in Task \ {t} : pc'[s] = pc[s]
  BY <1>1
<1>3. Undisturbed(t)
  BY <1>2 DEF Undisturbed
<1>4. \A s \in Task \ {t} : Undisturbed(s)
  BY <1>2 DEF Undisturbed
<1> QED BY <1>3, <1>4 DEF Quiet

LEMMA RequestsQuiet ==
    ASSUME Typed, NEW t \in Task, Requests(t)
    PROVE  Quiet
<1>1. ASSUME NEW label \in Label, NEW request, Accept(t, label, request)
      PROVE  /\ pc[t] = "idle" /\ Goto(t, label) /\ job'[t] = request
             /\ \A s \in Task \ {t} : job'[s] = job[s]
  BY <1>1 DEF Accept, Typed, TypeOK
<1>2. ASSUME NEW n \in Name, NEW p \in Password, BeginSetup(t, n, p) \/ BeginReset(t, n, p)
      PROVE  Quiet
  BY <1>1, <1>2, LeaveQuiet DEF BeginSetup, BeginReset, past, Label
<1>3. ASSUME NEW b \in Browser, BeginRefresh(t, b) \/ BeginLogout(t, b)
      PROVE  Quiet
  BY <1>1, <1>3, LeaveQuiet DEF BeginRefresh, BeginLogout, past, Label
<1>4. ASSUME NEW n \in Name, NEW p \in Password, NEW q \in Password, BeginChange(t, n, p, q)
      PROVE  Quiet
  BY <1>1, <1>4, LeaveQuiet DEF BeginChange, past, Label
<1>5. ASSUME NEW b \in Browser, NEW n \in Name, NEW p \in Password, BeginLogin(t, b, n, p)
      PROVE  Quiet
  <2> DEFINE request == [NoJob EXCEPT !.browser = b, !.user = n, !.era = era[n]]
  <2>1. request.user = n /\ request.era = era[n] /\ era[n] \in Nat
    BY DEF NoJob, Typed, TypeOK
  <2>2. Accept(t, "grant", request) /\ "grant" \in Label /\ UNCHANGED <<tokens, past>>
    BY <1>5 DEF BeginLogin, Label
  <2> HIDE DEF request
  <2>3. /\ pc[t] = "idle" /\ pc'[t] = "grant" /\ job'[t] = request
        /\ \A s \in Task \ {t} : job'[s] = job[s] /\ pc'[s] = pc[s]
    BY <1>1, <2>2 DEF Goto, Typed, TypeOK
  <2>4. Undisturbed(t)
    BY <2>1, <2>2, <2>3 DEF Undisturbed, past
  <2>5. \A s \in Task \ {t} : Undisturbed(s)
    BY <2>2, <2>3 DEF Undisturbed, past
  <2> QED BY <2>2, <2>4, <2>5 DEF Quiet, past
<1> QED BY <1>2, <1>3, <1>4, <1>5 DEF Requests

LEMMA AnswerQuiet ==
    ASSUME Typed, NEW t \in Task, Answer(t), pc[t] = "revoke" => job[t].user \in unrevoked',
           UNCHANGED <<born, era, tokens, ended, raced, forked>>, unrevoked \subseteq unrevoked'
    PROVE  Quiet
<1>1. Goto(t, "idle") /\ \A s \in Task \ {t} : job'[s] = job[s]
  BY DEF Answer, Typed, TypeOK
<1>2. overtaken \subseteq overtaken' \cup {t}
  BY DEF Answer
<1> QED BY <1>1, <1>2, LeaveQuiet DEF Label

LEMMA StatementsQuiet ==
    ASSUME Typed, NEW t \in Task,
           \/ InsertUser(t) \/ CloseSetup(t) \/ StoreUsername(t) \/ Deliver(t) \/ LogOutFails(t)
           \/ ClearCookie(t) \/ Abandon(t) \/ (Find(t) /\ job[t].token \notin tokens)
    PROVE  Quiet
<1>1. CASE InsertUser(t)
  <2>1. CASE password[job[t].user] = ""
    BY <1>1, <2>1, LeaveQuiet DEF InsertUser, Label
  <2>2. CASE password[job[t].user] # ""
    BY <1>1, <2>2, AnswerQuiet DEF InsertUser
  <2> QED BY <2>1, <2>2
<1>2. CASE CloseSetup(t) \/ LogOutFails(t)
  BY <1>2, LeaveQuiet DEF CloseSetup, LogOutFails, past, Label
<1>3. CASE StoreUsername(t) \/ Deliver(t) \/ ClearCookie(t)
  BY <1>3, AnswerQuiet DEF StoreUsername, Deliver, ClearCookie
<1>4. CASE Abandon(t)
  <2>1. /\ unrevoked \subseteq unrevoked' /\ (pc[t] = "revoke" => job[t].user \in unrevoked')
        /\ UNCHANGED <<born, era, tokens, ended, raced, forked>> /\ Answer(t)
    BY <1>4 DEF Abandon
  <2> QED BY <2>1, AnswerQuiet
<1>5. CASE Find(t) /\ job[t].token \notin tokens
  BY <1>5, AnswerQuiet DEF Find
<1> QED BY <1>1, <1>2, <1>3, <1>4, <1>5

LEMMA ExpiriesQuiet ==
    ASSUME Typed,
           \/ \E n \in access : AccessExpires(n)
           \/ \E b \in Browser : CookieExpires(b)
           \/ UNCHANGED vars
    PROVE  Quiet
BY DEF AccessExpires, CookieExpires, vars, past, Quiet, Undisturbed

-----------------------------------------------------------------------------
(* Rows that leave the table                                               *)

\* A logout or an expiry: the handlers that rotate a token of the session are overtaken.
LEMMA RemoveKeeps ==
    ASSUME Sessions, NEW gone \in SUBSET tokens, Remove(gone, Holding(gone)), job' = job,
           UNCHANGED <<born, era, raced, forked, unrevoked>>,
           \A t \in Task : \/ pc'[t] = pc[t]
                           \/ pc[t] # "revoke" /\ pc'[t] \notin {"grant", "rotate", "renew"}
    PROVE  OneUser' /\ Kept' /\ Exclusive' /\ Over'
<1>1. /\ Token' = Token /\ \A i : SessionOf(i)' = SessionOf(i) /\ (Stale(i)' <=> Stale(i))
      /\ \A t \in Task : Rotated(t)' = Rotated(t) /\ (Rotating(t)' => Rotating(t) /\ pc'[t] = pc[t])
  BY DEF Token, SessionOf, Stale, Rotated, Rotating
<1>2. Changing \subseteq Changing'
  BY DEF Changing
<1>3. tokens' = tokens \ gone /\ overtaken' = overtaken \cup Holding(gone)
      /\ ended' = ended \cup {SessionOf(i) : i \in gone}
  BY DEF Remove
<1>4. OneUser'
  BY <1>1 DEF Sessions, OneUser
<1>5. Kept'
  <2>1. \A i \in tokens' : Stale(i)' => born'[i].user \in Changing' \/ SessionOf(i)' \in raced'
    BY <1>1, <1>2, <1>3 DEF Sessions, Kept
  <2>2. \A t \in Task : Rotating(t)' /\ Stale(job[t].token)' =>
          job'[t].user \in Changing' \/ Rotated(t)' \in raced' \/ t \in overtaken'
    BY <1>1, <1>2, <1>3 DEF Sessions, Kept, Stale
  <2>3. \A t \in Task : pc'[t] = "grant" /\ job'[t].era < era'[job'[t].user] =>
          job'[t].user \in Changing' \/ t \in overtaken'
    BY <1>2, <1>3 DEF Sessions, Kept
  <2> QED BY <2>1, <2>2, <2>3 DEF Kept
<1>6. Exclusive'
  BY <1>1, <1>3 DEF Sessions, Exclusive, OneTokenPerSession
<1>7. Over'
  <2>1. ASSUME NEW i \in tokens', SessionOf(i) \in ended'
        PROVE  SessionOf(i) \in raced \cup forked
    <3>1. CASE SessionOf(i) \in ended
      BY <1>3, <2>1, <3>1 DEF Sessions, Over, EndedSessionsEnd
    <3>2. CASE \E j \in gone : SessionOf(i) = SessionOf(j)
      BY <1>3, <3>2 DEF Sessions, Exclusive, OneTokenPerSession
    <3> QED BY <1>3, <2>1, <3>1, <3>2
  <2>2. ASSUME NEW t \in Task, Rotating(t), Rotated(t) \in ended'
        PROVE  t \in overtaken' \/ Rotated(t) \in raced \cup forked
    <3>1. CASE Rotated(t) \in ended
      BY <1>3, <2>2, <3>1 DEF Sessions, Over
    <3>2. CASE \E j \in gone : Rotated(t) = SessionOf(j)
      BY <1>3, <2>2, <3>2 DEF Holding, Rotated
    <3> QED BY <1>3, <2>2, <3>1, <3>2
  <2> QED BY <1>1, <2>1, <2>2 DEF Over, EndedSessionsEnd
<1> QED BY <1>4, <1>5, <1>6, <1>7

LEMMA EndKeeps ==
    ASSUME Sessions, NEW t \in Task, LogOut(t) \/ \E i \in tokens : Expire(i)
    PROVE  OneUser' /\ Kept' /\ Exclusive' /\ Over'
<1>1. CASE LogOut(t)
  <2> DEFINE gone == tokens \cap {job[t].token}
  <2>1. gone \in SUBSET tokens /\ Remove(gone, Holding(gone))
    BY <1>1 DEF LogOut
  <2> HIDE DEF gone
  <2>2. \A s \in Task : \/ pc'[s] = pc[s]
                        \/ pc[s] # "revoke" /\ pc'[s] \notin {"grant", "rotate", "renew"}
    <3>1. pc[t] = "log out" /\ pc' = [pc EXCEPT ![t] = "clear cookie"] /\ pc \in [Task -> Label]
      BY <1>1 DEF LogOut, Goto, Sessions, Typed, TypeOK
    <3>2. pc'[t] = "clear cookie" /\ \A s \in Task \ {t} : pc'[s] = pc[s]
      BY <3>1
    <3>3. pc[t] # "revoke" /\ pc'[t] \notin {"grant", "rotate", "renew"}
      BY <3>1, <3>2
    <3> QED BY <3>2, <3>3
  <2> QED BY <1>1, <2>1, <2>2, RemoveKeeps DEF LogOut
<1>2. CASE \E i \in tokens : Expire(i)
  <2>1. PICK i \in tokens : Expire(i)
    BY <1>2
  <2>2. {i} \in SUBSET tokens
    OBVIOUS
  <2> QED BY <2>1, <2>2, RemoveKeeps DEF Expire
<1> QED BY <1>1, <1>2

\* The DELETE of a rotation: the token that goes is the one the handler replaces.
LEMMA RotateKeeps ==
    ASSUME Sessions, NEW t \in Task, Rotate(t)
    PROVE  OneUser' /\ Kept' /\ Exclusive' /\ Over'
<1>1. /\ tokens' = tokens \ {job[t].token} /\ pc[t] = "rotate"
      /\ UNCHANGED <<job, born, era, ended, overtaken, raced, forked, unrevoked>>
  BY DEF Rotate, past
<1>2. pc'[t] = "renew" /\ \A s \in Task \ {t} : pc'[s] = pc[s]
  BY DEF Rotate, Goto, Sessions, Typed, TypeOK
<1>3. /\ Token' = Token /\ \A i : SessionOf(i)' = SessionOf(i) /\ (Stale(i)' <=> Stale(i))
      /\ \A s \in Task : Rotated(s)' = Rotated(s) /\ (Rotating(s)' <=> Rotating(s))
  BY <1>1, <1>2 DEF Token, SessionOf, Stale, Rotated, Rotating
<1>4. Changing \subseteq Changing'
  BY <1>1, <1>2 DEF Changing
<1>5. OneUser'
  BY <1>1, <1>3 DEF Sessions, OneUser
<1>6. Kept'
  <2>1. \A i \in tokens' : Stale(i)' => born'[i].user \in Changing' \/ SessionOf(i)' \in raced'
    BY <1>1, <1>3, <1>4 DEF Sessions, Kept
  <2>2. \A s \in Task : Rotating(s)' /\ Stale(job[s].token)' =>
          job'[s].user \in Changing' \/ Rotated(s)' \in raced' \/ s \in overtaken'
    BY <1>1, <1>3, <1>4 DEF Sessions, Kept, Stale
  <2>3. \A s \in Task : pc'[s] = "grant" /\ job'[s].era < era'[job'[s].user] =>
          job'[s].user \in Changing' \/ s \in overtaken'
    BY <1>1, <1>2, <1>4 DEF Sessions, Kept
  <2> QED BY <2>1, <2>2, <2>3 DEF Kept
<1>7. Exclusive'
  <2>1. OneTokenPerSession'
    BY <1>1, <1>3 DEF Sessions, Exclusive, OneTokenPerSession
  <2>2. \A s \in Task, i \in tokens' : Rotating(s) /\ SessionOf(i) = Rotated(s) =>
          Rotated(s) \in forked \/ (pc'[s] = "rotate" /\ job[s].token = i)
    BY <1>1, <1>2 DEF Sessions, Exclusive
  <2> QED BY <1>1, <1>3, <2>1, <2>2 DEF Sessions, Exclusive
<1>8. Over'
  BY <1>1, <1>3 DEF Sessions, Over, EndedSessionsEnd
<1> QED BY <1>5, <1>6, <1>7, <1>8

\* The DELETE of a password change: no token of the user is left, and every handler that had
\* read the old state is overtaken.
LEMMA RevokeKeeps ==
    ASSUME Sessions, NEW t \in Task, Revoke(t)
    PROVE  OneUser' /\ Kept' /\ Exclusive' /\ Over'
<1> DEFINE u == job[t].user
<1>1. /\ UNCHANGED <<born, era, forked>> /\ pc[t] = "revoke"
      /\ tokens' = tokens \ TokensOf(u)
      /\ ended' = ended \cup {SessionOf(i) : i \in TokensOf(u)}
      /\ overtaken' = overtaken \cup
             {s \in Task : (Rotating(s) \/ pc[s] = "grant") /\ job[s].user = u}
      /\ raced' = raced \ {SessionOf(i) : i \in TokensOf(u)}
      /\ unrevoked' = unrevoked \ {u}
  BY DEF Revoke, Remove
<1>2. pc'[t] = "idle" /\ \A s \in Task \ {t} : pc'[s] = pc[s] /\ job'[s] = job[s]
  BY DEF Revoke, Goto, Sessions, Typed, TypeOK
<1> HIDE DEF u
<1>3. /\ Token' = Token /\ \A i : SessionOf(i)' = SessionOf(i) /\ (Stale(i)' <=> Stale(i))
      /\ \A s \in Task : Rotating(s)' => s # t /\ Rotating(s) /\ Rotated(s)' = Rotated(s)
  BY <1>1, <1>2 DEF Token, SessionOf, Stale, Rotated, Rotating
<1>4. Changing \ {u} \subseteq Changing'
  BY <1>1, <1>2 DEF Changing, u
<1>5. \A i \in tokens' : born[i].user # u /\ i \in tokens
  BY <1>1 DEF TokensOf
<1>6. \A s \in Task : Rotating(s) => /\ job[s].token \in Token
                                    /\ born[Rotated(s)].user = job[s].user
  <2>1. \A s \in Task : Rotating(s) => job[s].token \in Token
    BY DEF Sessions, Typed, Carries, Fits, Rotating
  <2> QED BY <2>1 DEF Sessions, OneUser, Rotated
<1>7. \A j \in TokensOf(u) : born[SessionOf(j)].user = u
  BY DEF TokensOf, Sessions, Typed, TypeOK, OneUser
<1>8. \A i \in tokens' : born[SessionOf(i)].user # u
  BY <1>5 DEF Sessions, Typed, TypeOK, OneUser
<1>9. OneUser'
  BY <1>1, <1>2, <1>3 DEF Sessions, OneUser
<1>10. Kept'
  <2>1. \A i \in tokens' : Stale(i)' => born'[i].user \in Changing' \/ SessionOf(i)' \in raced'
    BY <1>1, <1>3, <1>4, <1>5, <1>7, <1>8 DEF Sessions, Kept
  <2>2. ASSUME NEW s \in Task, Rotating(s)', Stale(job[s].token)'
        PROVE  job'[s].user \in Changing' \/ Rotated(s)' \in raced' \/ s \in overtaken'
    <3>1. s # t /\ Rotating(s) /\ job'[s] = job[s] /\ Rotated(s)' = Rotated(s)
          /\ Stale(job[s].token)
      BY <1>1, <1>2, <1>3, <2>2 DEF Stale
    <3>2. CASE job[s].user = u
      BY <1>1, <3>1, <3>2
    <3>3. CASE job[s].user # u
      BY <1>1, <1>4, <1>6, <1>7, <3>1, <3>3 DEF Sessions, Kept
    <3> QED BY <3>2, <3>3
  <2>3. ASSUME NEW s \in Task, pc'[s] = "grant", job'[s].era < era'[job'[s].user]
        PROVE  job'[s].user \in Changing' \/ s \in overtaken'
    <3>1. s # t /\ pc[s] = "grant" /\ job'[s] = job[s]
      BY <1>2, <2>3
    <3>2. CASE job[s].user = u
      BY <1>1, <3>1, <3>2
    <3>3. CASE job[s].user # u
      BY <1>1, <1>4, <2>3, <3>1, <3>3 DEF Sessions, Kept
    <3> QED BY <3>2, <3>3
  <2> QED BY <2>1, <2>2, <2>3 DEF Kept
<1>11. Exclusive'
  BY <1>1, <1>2, <1>3 DEF Sessions, Exclusive, OneTokenPerSession
<1>12. Over'
  <2>1. ASSUME NEW i \in tokens', SessionOf(i) \in ended'
        PROVE  SessionOf(i) \in raced' \cup forked
    BY <1>1, <1>5, <1>7, <1>8, <2>1 DEF Sessions, Over, EndedSessionsEnd
  <2>2. ASSUME NEW s \in Task, Rotating(s)', Rotated(s) \in ended'
        PROVE  s \in overtaken' \/ Rotated(s) \in raced' \cup forked
    <3>1. CASE job[s].user = u
      BY <1>1, <1>3, <2>2, <3>1
    <3>2. CASE job[s].user # u
      BY <1>1, <1>3, <1>6, <1>7, <2>2, <3>2 DEF Sessions, Over
    <3> QED BY <3>1, <3>2
  <2> QED BY <1>1, <1>3, <2>1, <2>2 DEF Over, EndedSessionsEnd
<1> QED BY <1>9, <1>10, <1>11, <1>12

\* The UPDATE of a password makes every earlier token of the user stale and leaves the change pending.
LEMMA UpdateKeeps ==
    ASSUME Sessions, NEW t \in Task, UpdatePassword(t)
    PROVE  OneUser' /\ Kept' /\ Exclusive' /\ Over'
<1> DEFINE u == job[t].user
<1>1. /\ UNCHANGED <<job, born, tokens, ended, overtaken, raced, forked, unrevoked>>
      /\ pc[t] = "update" /\ era' = [era EXCEPT ![u] = @ + 1]
  BY DEF UpdatePassword
<1>2. pc'[t] = "revoke" /\ \A s \in Task \ {t} : pc'[s] = pc[s]
  BY DEF UpdatePassword, Goto, Sessions, Typed, TypeOK
<1>3. \A v \in Name \ {u} : era'[v] = era[v]
  BY <1>1 DEF Sessions, Typed, TypeOK
<1>4. u \in Changing' /\ Changing \subseteq Changing'
  BY <1>1, <1>2 DEF Changing, u
<1> HIDE DEF u
<1>5. /\ Token' = Token /\ \A i : SessionOf(i)' = SessionOf(i)
      /\ \A s \in Task : Rotated(s)' = Rotated(s) /\ (Rotating(s)' <=> Rotating(s))
  BY <1>1, <1>2 DEF Token, SessionOf, Rotated, Rotating
<1>6. \A i \in Token : born[i].user \in Name
  BY DEF Sessions, Typed, Carries, Users
<1>7. \A i \in Token : born[i].user # u => (Stale(i)' <=> Stale(i))
  BY <1>1, <1>3, <1>6 DEF Stale
<1>8. \A s \in Task : Rotating(s) => job[s].token \in Token /\ born[job[s].token].user = job[s].user
  BY DEF Sessions, Typed, Carries, Fits, Rotating, OneUser
<1>9. OneUser'
  BY <1>1, <1>5 DEF Sessions, OneUser
<1>10. Kept'
  <2>1. ASSUME NEW i \in tokens', Stale(i)'
        PROVE  born'[i].user \in Changing' \/ SessionOf(i)' \in raced'
    <3>1. i \in Token /\ i \in tokens
      BY <1>1 DEF Sessions, Typed, TypeOK
    <3>2. born[i].user # u => born[i].user \in Changing \/ SessionOf(i) \in raced
      BY <1>7, <2>1, <3>1 DEF Sessions, Kept
    <3> QED BY <1>1, <1>4, <1>5, <3>2
  <2>2. ASSUME NEW s \in Task, Rotating(s)', Stale(job[s].token)'
        PROVE  job'[s].user \in Changing' \/ Rotated(s)' \in raced' \/ s \in overtaken'
    <3>1. Rotating(s) /\ job'[s] = job[s] /\ (job[s].user # u => Stale(job[s].token))
      BY <1>1, <1>5, <1>7, <1>8, <2>2 DEF Stale
    <3>2. job[s].user # u => job[s].user \in Changing \/ Rotated(s) \in raced \/ s \in overtaken
      BY <3>1 DEF Sessions, Kept
    <3> QED BY <1>1, <1>4, <1>5, <3>1, <3>2
  <2>3. ASSUME NEW s \in Task, pc'[s] = "grant", job'[s].era < era'[job'[s].user]
        PROVE  job'[s].user \in Changing' \/ s \in overtaken'
    <3>1. pc[s] = "grant" /\ job'[s] = job[s] /\ job[s].user \in Name
      BY <1>1, <1>2, <2>3 DEF Sessions, Typed, Carries, Fits, Users
    <3>2. job[s].user # u => job[s].user \in Changing \/ s \in overtaken
      BY <1>3, <2>3, <3>1 DEF Sessions, Kept
    <3> QED BY <1>1, <1>4, <3>1, <3>2
  <2> QED BY <2>1, <2>2, <2>3 DEF Kept
<1>11. Exclusive'
  BY <1>1, <1>2, <1>5 DEF Sessions, Exclusive, OneTokenPerSession
<1>12. Over'
  BY <1>1, <1>5 DEF Sessions, Over, EndedSessionsEnd
<1> QED BY <1>9, <1>10, <1>11, <1>12

\* The SELECT of a refresh: what held of the token holds of the handler that found it.
LEMMA FindKeeps ==
    ASSUME Sessions, NEW t \in Task, Find(t), job[t].token \in tokens
    PROVE  OneUser' /\ Kept' /\ Exclusive' /\ Over'
<1> DEFINE k == job[t].token
<1>1. /\ UNCHANGED <<born, era, tokens, ended, overtaken, raced, unrevoked>> /\ pc[t] = "find"
      /\ job' = [job EXCEPT ![t].user = born[k].user]
      /\ forked \subseteq forked'
      /\ (\E s \in Task : pc[s] = "rotate" /\ job[s].token = k) => SessionOf(k) \in forked'
  BY DEF Find
<1>2. pc'[t] = "rotate" /\ \A s \in Task \ {t} : pc'[s] = pc[s] /\ job'[s] = job[s]
  BY DEF Find, Goto, Sessions, Typed, TypeOK
<1>3. job'[t].token = k /\ job'[t].user = born[k].user /\ k \in Token /\ k \in tokens
  BY <1>1 DEF Sessions, Typed, TypeOK, Job
<1> HIDE DEF k
<1>4. /\ Token' = Token /\ \A i : SessionOf(i)' = SessionOf(i) /\ (Stale(i)' <=> Stale(i))
      /\ Rotating(t)' /\ Rotated(t)' = SessionOf(k)
      /\ \A s \in Task \ {t} : Rotated(s)' = Rotated(s) /\ (Rotating(s)' <=> Rotating(s))
  BY <1>1, <1>2, <1>3 DEF Token, SessionOf, Stale, Rotated, Rotating
<1>5. Changing \subseteq Changing'
  BY <1>1, <1>2 DEF Changing
<1>6. OneUser'
  BY <1>1, <1>2, <1>3, <1>4 DEF Sessions, OneUser
<1>7. Kept'
  <2>1. \A i \in tokens' : Stale(i)' => born'[i].user \in Changing' \/ SessionOf(i)' \in raced'
    BY <1>1, <1>4, <1>5 DEF Sessions, Kept
  <2>2. ASSUME NEW s \in Task, Rotating(s)', Stale(job[s].token)'
        PROVE  job'[s].user \in Changing' \/ Rotated(s)' \in raced' \/ s \in overtaken'
    <3>1. CASE s = t
      <4>1. Stale(k)
        BY <1>1, <1>3, <2>2, <3>1 DEF Stale
      <4>2. born[k].user \in Changing \/ SessionOf(k) \in raced
        BY <1>3, <4>1 DEF Sessions, Kept
      <4> QED BY <1>1, <1>3, <1>4, <1>5, <3>1, <4>2
    <3>2. CASE s # t
      <4>1. Rotating(s) /\ job'[s] = job[s] /\ Stale(job[s].token) /\ Rotated(s)' = Rotated(s)
        BY <1>1, <1>2, <1>4, <2>2, <3>2 DEF Stale
      <4>2. job[s].user \in Changing \/ Rotated(s) \in raced \/ s \in overtaken
        BY <4>1 DEF Sessions, Kept
      <4> QED BY <1>1, <1>5, <4>1, <4>2
    <3> QED BY <3>1, <3>2
  <2>3. \A s \in Task : pc'[s] = "grant" /\ job'[s].era < era'[job'[s].user] =>
          job'[s].user \in Changing' \/ s \in overtaken'
    BY <1>1, <1>2, <1>5 DEF Sessions, Kept
  <2> QED BY <2>1, <2>2, <2>3 DEF Kept
<1>8. Exclusive'
  <2>1. OneTokenPerSession'
    BY <1>1, <1>4 DEF Sessions, Exclusive, OneTokenPerSession
  <2>2. ASSUME NEW s \in Task, NEW i \in tokens, Rotating(s)', SessionOf(i) = Rotated(s)'
        PROVE  Rotated(s)' \in forked' \/ (pc'[s] = "rotate" /\ job'[s].token = i)
    <3>1. CASE s = t
      BY <1>1, <1>2, <1>3, <1>4, <2>2, <3>1 DEF Sessions, Exclusive, OneTokenPerSession
    <3>2. CASE s # t
      BY <1>1, <1>2, <1>4, <2>2, <3>2 DEF Sessions, Exclusive
    <3> QED BY <3>1, <3>2
  <2>3. ASSUME NEW s \in Task \ {t}, Rotating(s), Rotated(s) = SessionOf(k)
        PROVE  SessionOf(k) \in forked'
    BY <1>1, <1>3, <2>3 DEF Sessions, Exclusive
  <2>4. ASSUME NEW r \in Task, NEW s \in Task, Rotating(r)', Rotating(s)', Rotated(r)' = Rotated(s)'
        PROVE  r = s \/ Rotated(s)' \in forked'
    <3>1. CASE r # t /\ s # t
      BY <1>1, <1>4, <2>4, <3>1 DEF Sessions, Exclusive
    <3>2. CASE r = t \/ s = t
      BY <1>4, <2>3, <2>4, <3>2
    <3> QED BY <3>1, <3>2
  <2> QED BY <1>1, <1>4, <2>1, <2>2, <2>4 DEF Exclusive
<1>9. Over'
  <2>1. EndedSessionsEnd'
    BY <1>1, <1>4 DEF Sessions, Over, EndedSessionsEnd
  <2>2. ASSUME NEW s \in Task, Rotating(s)', Rotated(s)' \in ended
        PROVE  s \in overtaken \/ Rotated(s)' \in raced \cup forked'
    <3>1. CASE s = t
      BY <1>1, <1>3, <1>4, <2>2, <3>1 DEF Sessions, Over, EndedSessionsEnd
    <3>2. CASE s # t
      BY <1>1, <1>4, <2>2, <3>2 DEF Sessions, Over
    <3> QED BY <3>1, <3>2
  <2> QED BY <1>1, <2>1, <2>2 DEF Over
<1> QED BY <1>6, <1>7, <1>8, <1>9

-----------------------------------------------------------------------------
(* Rows that are inserted                                                  *)

\* A new token keeps the sessions if what held of the handler that issues it holds of its row.
LEMMA IssueKeeps ==
    ASSUME Sessions, NEW t \in Task, NEW row \in Row, Issue(t, row),
           UNCHANGED <<era, ended, overtaken, forked, unrevoked>>, pc[t] # "revoke",
           row.session = Len(born) + 1 \/ (/\ row.session \in Token
                                           /\ born[row.session].user = row.user),
           row.era < era[row.user] =>
               row.user \in Changing \/ row.session \in raced \/ t \in overtaken,
           row.session \in ended => t \in overtaken \/ row.session \in raced \cup forked,
           \A i \in tokens : SessionOf(i) = row.session => row.session \in forked,
           \A s \in Task \ {t} : Rotating(s) /\ Rotated(s) = row.session => row.session \in forked
    PROVE  OneUser' /\ Kept' /\ Exclusive' /\ Over'
<1>0. PICK n : n = Len(born) + 1
  OBVIOUS
<1>1. /\ Token' = Token \cup {n} /\ n \notin Token
      /\ \A i \in Token : born'[i] = born[i]
      /\ born'[n] = row
  BY <1>0, IssueAppends DEF Sessions, Typed
<1>2. /\ pc'[t] = "answer"
      /\ \A s \in Task \ {t} : pc'[s] = pc[s] /\ job'[s] = job[s]
      /\ tokens' = tokens \cup {n} /\ raced \subseteq raced'
      /\ (t \in overtaken => row.session \in raced')
  BY <1>0 DEF Issue, Goto, Sessions, Typed, TypeOK
<1>3. /\ tokens \subseteq Token
      /\ \A i \in Token : SessionOf(i) \in Token /\ SessionOf(i)' = SessionOf(i)
      /\ SessionOf(n)' = row.session
  BY <1>1, SessionType DEF Sessions, Typed, TypeOK, SessionOf
<1>4. \A s \in Task : Rotating(s) => job[s].token \in Token /\ Rotated(s) \in Token
  BY <1>3 DEF Sessions, Typed, Carries, Fits, Rotating, Rotated
<1>5. \A s \in Task : Rotating(s)' => /\ s # t /\ Rotating(s) /\ pc'[s] = pc[s] /\ job'[s] = job[s]
                                     /\ Rotated(s)' = Rotated(s)
                                     /\ born'[job[s].token] = born[job[s].token]
  BY <1>1, <1>2, <1>4 DEF Rotating, Rotated, SessionOf
<1>6. Changing \subseteq Changing'
  <2>1. \A s \in Task : pc[s] = "revoke" => pc'[s] = "revoke" /\ job'[s].user = job[s].user
    BY <1>2
  <2> QED BY <2>1 DEF Changing
<1>7. OneUser'
  <2>1. ASSUME NEW i \in Token' PROVE born'[i].user = born'[SessionOf(i)'].user
    <3>1. CASE i \in Token
      BY <1>1, <1>3, <3>1 DEF Sessions, OneUser
    <3>2. CASE i = n
      BY <1>0, <1>1, <1>3, <3>2
    <3> QED BY <1>1, <3>1, <3>2
  <2>2. \A s \in Task : Rotating(s)' => job'[s].user = born'[job'[s].token].user
    BY <1>5 DEF Sessions, OneUser
  <2> QED BY <2>1, <2>2 DEF OneUser
<1>8. Kept'
  <2>1. ASSUME NEW i \in tokens', Stale(i)'
        PROVE  born'[i].user \in Changing' \/ SessionOf(i)' \in raced'
    <3>1. CASE i \in tokens
      BY <1>1, <1>2, <1>3, <1>6, <2>1, <3>1 DEF Sessions, Kept, Stale
    <3>2. CASE i = n
      BY <1>1, <1>2, <1>3, <1>6, <2>1, <3>2 DEF Stale
    <3> QED BY <1>2, <3>1, <3>2
  <2>2. \A s \in Task : Rotating(s)' /\ Stale(job[s].token)' =>
          job'[s].user \in Changing' \/ Rotated(s)' \in raced' \/ s \in overtaken'
    BY <1>2, <1>5, <1>6 DEF Sessions, Kept, Stale
  <2>3. \A s \in Task : pc'[s] = "grant" /\ job'[s].era < era'[job'[s].user] =>
          job'[s].user \in Changing' \/ s \in overtaken'
    BY <1>2, <1>6 DEF Sessions, Kept
  <2> QED BY <2>1, <2>2, <2>3 DEF Kept
<1>9. Exclusive'
  <2>1. ASSUME NEW i \in tokens', NEW j \in tokens', SessionOf(i)' = SessionOf(j)'
        PROVE  i = j \/ SessionOf(i)' \in forked
    <3>1. CASE i \in tokens /\ j \in tokens
      BY <1>3, <2>1, <3>1 DEF Sessions, Exclusive, OneTokenPerSession
    <3>2. CASE i = n /\ j \in tokens
      BY <1>3, <2>1, <3>2
    <3>3. CASE j = n /\ i \in tokens
      BY <1>3, <2>1, <3>3
    <3> QED BY <1>2, <3>1, <3>2, <3>3
  <2>2. ASSUME NEW s \in Task, NEW i \in tokens', Rotating(s)', SessionOf(i)' = Rotated(s)'
        PROVE  Rotated(s)' \in forked \/ (pc'[s] = "rotate" /\ job'[s].token = i)
    <3>1. CASE i \in tokens
      BY <1>3, <1>5, <2>2, <3>1 DEF Sessions, Exclusive
    <3>2. CASE i = n
      BY <1>3, <1>5, <2>2, <3>2
    <3> QED BY <1>2, <3>1, <3>2
  <2>3. \A r, s \in Task : Rotating(r)' /\ Rotating(s)' /\ Rotated(r)' = Rotated(s)' =>
          r = s \/ Rotated(s)' \in forked
    BY <1>5 DEF Sessions, Exclusive
  <2> QED BY <2>1, <2>2, <2>3 DEF Exclusive, OneTokenPerSession
<1>10. Over'
  <2>1. ASSUME NEW i \in tokens', SessionOf(i)' \in ended
        PROVE  SessionOf(i)' \in raced' \cup forked
    <3>1. CASE i \in tokens
      BY <1>2, <1>3, <2>1, <3>1 DEF Sessions, Over, EndedSessionsEnd
    <3>2. CASE i = n
      BY <1>2, <1>3, <2>1, <3>2
    <3> QED BY <1>2, <3>1, <3>2
  <2>2. \A s \in Task : Rotating(s)' /\ Rotated(s)' \in ended =>
          s \in overtaken \/ Rotated(s)' \in raced' \cup forked
    BY <1>2, <1>5 DEF Sessions, Over
  <2> QED BY <2>1, <2>2 DEF Over, EndedSessionsEnd
<1> QED BY <1>7, <1>8, <1>9, <1>10

\* A login: its session is new.
LEMMA GrantKeeps ==
    ASSUME Sessions, NEW t \in Task, Grant(t)
    PROVE  OneUser' /\ Kept' /\ Exclusive' /\ Over'
<1> DEFINE row == [user |-> job[t].user, session |-> Len(born) + 1, era |-> job[t].era]
<1>1. pc[t] = "grant" /\ job[t].user \in Name /\ job[t].era \in Nat
  BY DEF Grant, Sessions, Typed, TypeOK, Carries, Fits, Job, Users
<1>2. Len(born) + 1 \in Nat /\ Len(born) + 1 \notin Token
  BY TokenNat DEF Sessions, Typed, Token
<1>3. row \in Row /\ row.user = job[t].user /\ row.session = Len(born) + 1 /\ row.era = job[t].era
  BY <1>1, <1>2 DEF Row
<1>4. Issue(t, row) /\ UNCHANGED <<era, ended, overtaken, forked, unrevoked>>
  BY DEF Grant
<1> HIDE DEF row
<1>5. row.era < era[row.user] => row.user \in Changing \/ t \in overtaken
  BY <1>1, <1>3 DEF Sessions, Kept
<1>6. row.session \notin Token /\ ended \subseteq Token /\ tokens \subseteq Token
  BY <1>2, <1>3 DEF Sessions, Typed, TypeOK
<1>7. \A i \in tokens : SessionOf(i) # row.session
  BY <1>6, SessionType DEF Sessions, Typed
<1>8. \A s \in Task : Rotating(s) => Rotated(s) # row.session
  <2>1. \A s \in Task : Rotating(s) => job[s].token \in Token
    BY DEF Sessions, Typed, Carries, Fits, Rotating
  <2> QED BY <1>6, <2>1, SessionType DEF Sessions, Typed, Rotated
<1> QED BY <1>1, <1>3, <1>4, <1>5, <1>6, <1>7, <1>8, IssueKeeps

\* A refresh: its row continues the session of the token it replaces.
LEMMA RenewKeeps ==
    ASSUME Sessions, NEW t \in Task, Renew(t)
    PROVE  OneUser' /\ Kept' /\ Exclusive' /\ Over'
<1> DEFINE row == born[job[t].token]
<1>1. Rotating(t) /\ pc[t] = "renew" /\ job[t].token \in Token /\ row \in Row
  <2>1. Rotating(t) /\ pc[t] = "renew" /\ job[t].token \in Token
    BY DEF Renew, Rotating, Sessions, Typed, Carries, Fits
  <2>2. born \in Seq(Row) /\ job[t].token \in 1..Len(born)
    BY <2>1 DEF Sessions, Typed, TypeOK, Token
  <2> QED BY <2>1, <2>2
<1>2. row.session = Rotated(t) /\ row.session \in Token /\ born[row.session].user = row.user
  BY <1>1, SessionType DEF Sessions, Typed, OneUser, Rotated, SessionOf
<1>3. row.era < era[row.user] => row.user \in Changing \/ row.session \in raced \/ t \in overtaken
  BY <1>1, <1>2 DEF Sessions, OneUser, Kept, Stale
<1>4. Issue(t, row) /\ UNCHANGED <<era, ended, overtaken, forked, unrevoked>>
  BY DEF Renew
<1> HIDE DEF row
<1>5. row.session \in ended => t \in overtaken \/ row.session \in raced \cup forked
  BY <1>1, <1>2 DEF Sessions, Over
<1>6. \A i \in tokens : SessionOf(i) = row.session => row.session \in forked
  BY <1>1, <1>2 DEF Sessions, Exclusive
<1>7. \A s \in Task \ {t} : Rotating(s) /\ Rotated(s) = row.session => row.session \in forked
  BY <1>1, <1>2 DEF Sessions, Exclusive
<1> QED BY <1>1, <1>2, <1>3, <1>4, <1>5, <1>6, <1>7, IssueKeeps

-----------------------------------------------------------------------------
(* The sessions of any browsers                                            *)

LEMMA InitSessions == Init => Sessions
<1> SUFFICES ASSUME Init PROVE Sessions
  OBVIOUS
<1>1. Typed /\ tokens = {} /\ born = <<>> /\ \A t \in Task : pc[t] = "idle"
  BY InitTyped DEF Init
<1>2. Token = {}
  BY <1>1 DEF Token
<1> QED BY <1>1, <1>2 DEF Sessions, OneUser, Kept, Exclusive, Over, OneTokenPerSession,
                          EndedSessionsEnd, Rotating

LEMMA NextSessions ==
    ASSUME Sessions, [Next]_vars
    PROVE  Sessions'
<1>1. Typed /\ Typed'
  BY NextTyped DEF Sessions
<1>2. Quiet => Sessions'
  BY <1>1, QuietKeeps DEF Sessions
<1>3. ASSUME NEW t \in Task, Requests(t) \/ Abandon(t) PROVE Sessions'
  BY <1>1, <1>2, <1>3, RequestsQuiet, StatementsQuiet
<1>4. ASSUME NEW t \in Task, Proceed(t) PROVE Sessions'
  <2>1. CASE \/ InsertUser(t) \/ CloseSetup(t) \/ StoreUsername(t) \/ Deliver(t) \/ LogOutFails(t)
             \/ ClearCookie(t) \/ (Find(t) /\ job[t].token \notin tokens)
    BY <1>1, <1>2, <2>1, StatementsQuiet
  <2>2. CASE Grant(t) \/ Renew(t) \/ Rotate(t) \/ Revoke(t) \/ UpdatePassword(t) \/ LogOut(t)
    BY <1>1, <2>2, GrantKeeps, RenewKeeps, RotateKeeps, RevokeKeeps, UpdateKeeps, EndKeeps
       DEF Sessions
  <2>3. CASE Find(t) /\ job[t].token \in tokens
    BY <1>1, <2>3, FindKeeps DEF Sessions
  <2> QED BY <1>4, <2>1, <2>2, <2>3 DEF Proceed
<1>5. ASSUME NEW i \in tokens, Expire(i) PROVE Sessions'
  <2>1. {i} \in SUBSET tokens
    OBVIOUS
  <2> QED BY <1>1, <1>5, <2>1, RemoveKeeps DEF Expire, Sessions
<1>6. CASE \/ \E n \in access : AccessExpires(n)
           \/ \E b \in Browser : CookieExpires(b)
           \/ UNCHANGED vars
  BY <1>1, <1>2, <1>6, ExpiriesQuiet
<1> QED BY <1>3, <1>4, <1>5, <1>6 DEF Next

\* No session has two acceptable refresh tokens unless two requests found the same token
\* before either deleted it (refresh in api/auth.rs).
THEOREM OneTokenAtATime == Spec => []OneTokenPerSession
<1>1. Sessions /\ [Next]_vars => Sessions'
  BY NextSessions
<1>2. Sessions => OneTokenPerSession
  BY DEF Sessions, Exclusive
<1> QED BY InitSessions, <1>1, <1>2, PTL DEF Spec

\* A token that vouches for a replaced password is there only while the change has yet to
\* delete the tokens or never will, or if it was issued by a handler that had read the old
\* state before the deletion (change_password, reset_password).
THEOREM ChangeEndsSessions == Spec => []OldSessionsEnd
<1>1. Sessions /\ [Next]_vars => Sessions'
  BY NextSessions
<1>2. Sessions => OldSessionsEnd
  BY DEF Sessions, Kept, Changing, Stale, OldSessionsEnd
<1> QED BY InitSessions, <1>1, <1>2, PTL DEF Spec

\* A session that was logged out, revoked or left to expire has a token again only if a
\* rotation was under way or had split it in two (logout, change_password, expires_at).
THEOREM EndedSessionsStay == Spec => []EndedSessionsEnd
<1>1. Sessions /\ [Next]_vars => Sessions'
  BY NextSessions
<1>2. Sessions => EndedSessionsEnd
  BY DEF Sessions, Over
<1> QED BY InitSessions, <1>1, <1>2, PTL DEF Spec

\* A refresh begins with a token that is in the table, and a login with a session of its own.
LEMMA NoStepRevives ==
    ASSUME Typed, [Next]_vars, NEW s \in Token, Alive(s)'
    PROVE  Alive(s)
<1>1. ASSUME Token' = Token, \A i : SessionOf(i)' = SessionOf(i), tokens' \subseteq tokens,
             \A t \in Task : Rotating(t)' => Rotating(t) /\ job'[t] = job[t]
      PROVE  Alive(s)
  <2>1. CASE \E i \in tokens' : SessionOf(i)' = s
    BY <1>1, <2>1 DEF Alive
  <2>2. CASE \E t \in Task : Rotating(t)' /\ SessionOf(job[t].token)' = s
    <3>1. PICK t \in Task : Rotating(t)' /\ SessionOf(job[t].token)' = s
      BY <2>2
    <3>2. SessionOf(job[t].token)' = SessionOf(job[t].token)
      BY <1>1, <3>1 DEF SessionOf
    <3> QED BY <1>1, <3>1, <3>2 DEF Alive
  <2> QED BY <2>1, <2>2 DEF Alive
<1>2. CASE Quiet
  <2>1. \A t \in Task : Rotating(t)' => Rotating(t) /\ job'[t] = job[t]
    BY <1>2 DEF Quiet, Undisturbed, Rotating
  <2> QED BY <1>1, <1>2, <2>1 DEF Quiet, Token, SessionOf
<1>3. ASSUME NEW t \in Task, Rotate(t) \/ LogOut(t) \/ UpdatePassword(t) \/ Revoke(t)
      PROVE  Alive(s)
  <2>1. born' = born /\ tokens' \subseteq tokens
    BY <1>3 DEF Rotate, LogOut, Remove, UpdatePassword, Revoke, past
  <2>2. /\ \A r \in Task \ {t} : pc'[r] = pc[r] /\ job'[r] = job[r]
        /\ pc'[t] = "renew" => pc[t] = "rotate" /\ job'[t] = job[t]
        /\ pc'[t] \in {"renew", "clear cookie", "revoke", "idle"}
    BY <1>3 DEF Rotate, LogOut, UpdatePassword, Revoke, Goto, Typed, TypeOK
  <2>3. \A r \in Task : Rotating(r)' => Rotating(r) /\ job'[r] = job[r]
    BY <2>2 DEF Rotating
  <2> QED BY <1>1, <2>1, <2>3 DEF Token, SessionOf
<1>4. ASSUME NEW t \in Task, Find(t), job[t].token \in tokens
      PROVE  Alive(s)
  <2>1. born' = born /\ tokens' = tokens /\ job'[t].token = job[t].token
        /\ \A r \in Task \ {t} : pc'[r] = pc[r] /\ job'[r] = job[r]
    BY <1>4 DEF Find, Goto, Typed, TypeOK, Job
  <2>2. CASE \E r \in Task : Rotating(r)' /\ SessionOf(job[r].token)' = s
    <3>1. PICK r \in Task : Rotating(r)' /\ SessionOf(job[r].token)' = s
      BY <2>2
    <3>2. SessionOf(job[r].token) = s
      BY <2>1, <3>1 DEF SessionOf
    <3>3. r = t \/ Rotating(r)
      BY <2>1, <3>1 DEF Rotating
    <3> QED BY <1>4, <3>2, <3>3 DEF Alive
  <2>3. CASE \E i \in tokens' : SessionOf(i)' = s
    BY <2>1, <2>3 DEF Alive, SessionOf
  <2> QED BY <2>2, <2>3 DEF Alive
<1>5. ASSUME NEW t \in Task, NEW row \in Row, Issue(t, row), row.session \notin Token \/ Alive(row.session)
      PROVE  Alive(s)
  <2>0. PICK n : n = Len(born) + 1
    OBVIOUS
  <2>1. /\ \A i \in Token : SessionOf(i)' = SessionOf(i)
        /\ SessionOf(n)' = row.session
    BY <1>5, <2>0, IssueAppends DEF Typed, SessionOf
  <2>2. /\ pc'[t] = "answer" /\ \A r \in Task \ {t} : pc'[r] = pc[r] /\ job'[r] = job[r]
        /\ tokens' = tokens \cup {n} /\ tokens \subseteq Token
    BY <1>5, <2>0 DEF Issue, Goto, Typed, TypeOK
  <2>3. CASE \E r \in Task : Rotating(r)' /\ SessionOf(job[r].token)' = s
    <3>1. PICK r \in Task : Rotating(r)' /\ SessionOf(job[r].token)' = s
      BY <2>3
    <3>2. Rotating(r) /\ job'[r] = job[r] /\ job[r].token \in Token
      BY <2>2, <3>1 DEF Rotating, Typed, Carries, Fits
    <3>3. SessionOf(job[r].token) = s
      BY <1>5, <3>1, <3>2, IssueAppends DEF Typed, SessionOf
    <3> QED BY <3>2, <3>3 DEF Alive
  <2>4. CASE \E i \in tokens' : SessionOf(i)' = s
    BY <1>5, <2>1, <2>2, <2>4 DEF Alive
  <2> QED BY <2>3, <2>4 DEF Alive
<1>6. ASSUME NEW t \in Task, Grant(t) PROVE Alive(s)
  <2> DEFINE row == [user |-> job[t].user, session |-> Len(born) + 1, era |-> job[t].era]
  <2>1. job[t].user \in Name /\ job[t].era \in Nat
    BY <1>6 DEF Grant, Typed, TypeOK, Carries, Fits, Job, Users
  <2>2. Len(born) + 1 \in Nat /\ Len(born) + 1 \notin Token
    BY TokenNat DEF Typed, Token
  <2>3. row \in Row /\ row.session = Len(born) + 1
    BY <2>1, <2>2 DEF Row
  <2>4. Issue(t, row)
    BY <1>6 DEF Grant
  <2> HIDE DEF row
  <2> QED BY <1>5, <2>2, <2>3, <2>4
<1>7. ASSUME NEW t \in Task, Renew(t) PROVE Alive(s)
  <2> DEFINE row == born[job[t].token]
  <2>1. Rotating(t) /\ job[t].token \in Token
    BY <1>7 DEF Renew, Rotating, Typed, Carries, Fits
  <2>2. row \in Row
    <3>1. born \in Seq(Row) /\ job[t].token \in 1..Len(born)
      BY <2>1 DEF Typed, TypeOK, Token
    <3> QED BY <3>1
  <2>3. Issue(t, row) /\ Alive(row.session)
    BY <1>7, <2>1 DEF Renew, Alive, SessionOf
  <2> QED BY <1>5, <2>2, <2>3
<1>8. ASSUME NEW i \in tokens, Expire(i) PROVE Alive(s)
  BY <1>1, <1>8 DEF Expire, Remove, Token, SessionOf, Rotating
<1>9. ASSUME NEW t \in Task, Proceed(t) PROVE Alive(s)
  BY <1>2, <1>3, <1>4, <1>6, <1>7, <1>9, StatementsQuiet DEF Proceed
<1>10. ASSUME NEW t \in Task, Requests(t) \/ Abandon(t) PROVE Alive(s)
  BY <1>2, <1>10, RequestsQuiet, StatementsQuiet
<1> QED BY <1>2, <1>8, <1>9, <1>10, ExpiriesQuiet DEF Next

\* Once a session is over no step revives it, whatever cookies are still presented (refresh).
THEOREM NothingRevives == Spec => NoResurrection
<1>1. Typed /\ [Next]_vars => Typed'
  BY NextTyped
<1>2. Typed /\ [Next]_vars => [\A s \in Token : ~Alive(s) => ~Alive(s)']_vars
  BY NoStepRevives
<1> QED BY InitTyped, <1>1, <1>2, PTL DEF Spec, NoResurrection

-----------------------------------------------------------------------------
(* The first run                                                           *)

\* A setup that may still make the account, or has made it and not closed the setup.
Opening(t) == pc[t] \in {"insert user", "close setup"}

\* FirstRunOnly, and what the setups under way have seen.
FirstRun ==
    /\ FirstRunOnly
    /\ ~complete /\ Users # {} => reopened \/ \E t \in Task : pc[t] = "close setup"
    /\ \A t \in Task : pc[t] = "insert user" => reopened \/ Users = {}
    /\ \A s, t \in Task : Opening(s) /\ Opening(t) => s = t \/ reopened

\* A step of handlers that are no setups.
LEMMA ElsewhereKeeps ==
    ASSUME FirstRun, complete' = complete, Users' = Users, reopened => reopened',
           \A t \in Task : /\ Opening(t)' => pc'[t] = pc[t]
                           /\ pc[t] = "close setup" => pc'[t] = pc[t] \/ reopened'
    PROVE  FirstRun'
<1>1. FirstRunOnly'
  BY DEF FirstRun, FirstRunOnly
<1>2. \A t \in Task : Opening(t)' => Opening(t) /\ pc'[t] = pc[t]
  BY DEF Opening
<1>3. \A t \in Task : pc'[t] = "insert user" => reopened' \/ Users' = {}
  BY <1>2 DEF FirstRun, Opening
<1> QED BY <1>1, <1>2, <1>3 DEF FirstRun

LEMMA SetupKeeps ==
    ASSUME Typed, FirstRun, NEW t \in Task,
           \/ \E n \in Name, p \in Password : BeginSetup(t, n, p)
           \/ InsertUser(t)
           \/ CloseSetup(t)
    PROVE  FirstRun'
<1>1. CASE \E n \in Name, p \in Password : BeginSetup(t, n, p)
  <2>1. /\ ~complete /\ complete' = complete /\ password' = password
        /\ reopened' = (reopened \/ \E s \in Task : Opening(s))
        /\ pc[t] = "idle" /\ pc'[t] = "insert user" /\ \A s \in Task \ {t} : pc'[s] = pc[s]
    BY <1>1 DEF BeginSetup, Accept, Goto, account, Opening, Typed, TypeOK
  <2>2. Users' = Users
    BY <2>1 DEF Users
  <2>3. FirstRunOnly'
    BY <2>1, <2>2 DEF FirstRun, FirstRunOnly
  <2>4. Users # {} => reopened'
    BY <2>1 DEF FirstRun, Opening
  <2>5. \A r, s \in Task : Opening(r)' /\ Opening(s)' => r = s \/ reopened'
    BY <2>1 DEF Opening
  <2>6. \A s \in Task : pc'[s] = "insert user" => reopened' \/ Users' = {}
    BY <2>2, <2>4
  <2> QED BY <2>2, <2>3, <2>4, <2>5, <2>6 DEF FirstRun
<1>2. CASE InsertUser(t) /\ password[job[t].user] = ""
  <2> DEFINE u == job[t].user
  <2>1. /\ complete' = complete /\ reopened' = reopened /\ pc[t] = "insert user"
        /\ password' = [password EXCEPT ![u] = job[t].word]
        /\ Goto(t, "close setup")
    BY <1>2 DEF InsertUser
  <2>2. u \in Name /\ job[t].word \in Password /\ job[t].word # ""
    BY <2>1, NoWord DEF Typed, Carries, Fits
  <2>3. pc'[t] = "close setup" /\ \A s \in Task \ {t} : pc'[s] = pc[s]
    BY <2>1 DEF Goto, Typed, TypeOK
  <2>4. Users' = Users \cup {u}
    BY <2>1, <2>2 DEF Users, Typed, TypeOK
  <2>5. reopened \/ Users = {}
    BY <2>1 DEF FirstRun
  <2>6. \A r, s \in Task : Opening(r)' /\ Opening(s)' => r = s \/ reopened
    <3>1. \A s \in Task : Opening(s)' => Opening(s)
      BY <2>1, <2>3 DEF Opening
    <3> QED BY <3>1 DEF FirstRun
  <2>7. \A s \in Task : pc'[s] = "insert user" => reopened \/ Users' = {}
    BY <2>1, <2>3 DEF FirstRun, Opening
  <2>8. FirstRunOnly'
    BY <2>1, <2>4, <2>5 DEF FirstRun, FirstRunOnly
  <2> QED BY <2>1, <2>3, <2>6, <2>7, <2>8 DEF FirstRun
<1>3. CASE InsertUser(t) /\ password[job[t].user] # ""
  <2>1. /\ complete' = complete /\ password' = password /\ reopened' = reopened
        /\ pc[t] = "insert user" /\ pc'[t] = "idle" /\ \A s \in Task \ {t} : pc'[s] = pc[s]
    BY <1>3 DEF InsertUser, Answer, Goto, Typed, TypeOK
  <2> QED BY <2>1, ElsewhereKeeps DEF Users, Opening
<1>4. CASE CloseSetup(t)
  <2>1. /\ complete' = TRUE /\ password' = password /\ reopened' = reopened
        /\ pc[t] = "close setup" /\ pc'[t] = "store username"
        /\ \A s \in Task \ {t} : pc'[s] = pc[s]
    BY <1>4 DEF CloseSetup, Goto, past, Typed, TypeOK
  <2>2. Users' = Users /\ job[t].user \in Users
    BY <2>1 DEF Users, Typed, Carries, Fits
  <2>3. FirstRunOnly'
    BY <2>1, <2>2 DEF FirstRun, FirstRunOnly
  <2>4. \A s \in Task : Opening(s)' => Opening(s) /\ pc'[s] = pc[s]
    BY <2>1 DEF Opening
  <2>5. \A s \in Task : pc'[s] = "insert user" => reopened' \/ Users' = {}
    BY <2>1, <2>2 DEF FirstRun
  <2> QED BY <2>1, <2>3, <2>4, <2>5 DEF FirstRun
<1> QED BY <1>1, <1>2, <1>3, <1>4

LEMMA NextFirstRun ==
    ASSUME Typed, FirstRun, [Next]_vars
    PROVE  FirstRun'
<1>1. ASSUME NEW t \in Task, NEW label \in Label \ {"insert user", "close setup"}, Goto(t, label),
             pc[t] = "close setup" => reopened'
      PROVE  \A s \in Task : /\ Opening(s)' => pc'[s] = pc[s]
                             /\ pc[s] = "close setup" => pc'[s] = pc[s] \/ reopened'
  <2>1. pc'[t] = label /\ \A s \in Task \ {t} : pc'[s] = pc[s]
    BY <1>1 DEF Goto, Typed, TypeOK
  <2> QED BY <1>1, <2>1 DEF Opening
<1>2. ASSUME UNCHANGED <<complete, password, pc, reopened>> PROVE FirstRun'
  BY <1>2, ElsewhereKeeps DEF Users
<1>3. ASSUME NEW t \in Task, Requests(t) PROVE FirstRun'
  <2>1. CASE \E n \in Name, p \in Password : BeginSetup(t, n, p)
    BY <2>1, SetupKeeps
  <2>2. CASE \/ \E n \in Name, p \in Password : BeginReset(t, n, p)
             \/ \E b \in Browser, n \in Name, p \in Password : BeginLogin(t, b, n, p)
             \/ \E b \in Browser : BeginRefresh(t, b) \/ BeginLogout(t, b)
             \/ \E n \in Name, p, q \in Password : BeginChange(t, n, p, q)
    <3>1. PICK label \in {"update", "grant", "find", "log out"} : pc[t] = "idle" /\ Goto(t, label)
      BY <2>2 DEF BeginReset, BeginLogin, BeginRefresh, BeginLogout, BeginChange, Accept
    <3>2. complete' = complete /\ password' = password /\ reopened' = reopened
      BY <2>2 DEF BeginReset, BeginLogin, BeginRefresh, BeginLogout, BeginChange, account, past
    <3>3. label \in Label \ {"insert user", "close setup"}
      BY DEF Label
    <3> QED BY <1>1, <3>1, <3>2, <3>3, ElsewhereKeeps DEF Users
  <2> QED BY <1>3, <2>1, <2>2 DEF Requests
<1>4. ASSUME NEW t \in Task, Proceed(t) \/ Abandon(t) PROVE FirstRun'
  <2>1. CASE InsertUser(t) \/ CloseSetup(t)
    BY <2>1, SetupKeeps
  <2>2. CASE UpdatePassword(t)
    <3>1. job[t].user \in Users /\ job[t].word \in Password /\ job[t].word # ""
      BY <2>2, NoWord DEF UpdatePassword, Typed, Carries, Fits
    <3>2. password' = [password EXCEPT ![job[t].user] = job[t].word] /\ Goto(t, "revoke")
          /\ pc[t] = "update" /\ complete' = complete /\ reopened' = reopened
      BY <2>2 DEF UpdatePassword
    <3>3. Users' = Users
      BY <3>1, <3>2 DEF Users, Typed, TypeOK
    <3> QED BY <1>1, <3>2, <3>3, ElsewhereKeeps DEF Label
  <2>3. CASE Abandon(t)
    <3>1. Goto(t, "idle") /\ complete' = complete /\ password' = password
          /\ reopened' = (reopened \/ pc[t] = "close setup")
      BY <2>3 DEF Abandon, Answer, account
    <3> QED BY <1>1, <3>1, ElsewhereKeeps DEF Label, Users
  <2>4. CASE \/ StoreUsername(t) \/ Grant(t) \/ Find(t) \/ Rotate(t) \/ Renew(t) \/ Deliver(t)
             \/ LogOut(t) \/ LogOutFails(t) \/ ClearCookie(t) \/ Revoke(t)
    <3>1. PICK label \in {"idle", "answer", "rotate", "renew", "clear cookie"} : Goto(t, label)
      BY <2>4 DEF StoreUsername, Grant, Find, Rotate, Renew, Deliver, LogOut, LogOutFails,
                  ClearCookie, Revoke, Answer, Issue
    <3>2. /\ complete' = complete /\ password' = password /\ reopened' = reopened
          /\ pc[t] # "close setup"
      BY <2>4 DEF StoreUsername, Grant, Find, Rotate, Renew, Deliver, LogOut, LogOutFails,
                  ClearCookie, Revoke, account, past
    <3>3. label \in Label \ {"insert user", "close setup"}
      BY DEF Label
    <3> QED BY <1>1, <3>1, <3>2, <3>3, ElsewhereKeeps DEF Users
  <2> QED BY <1>4, <2>1, <2>2, <2>3, <2>4 DEF Proceed
<1>5. CASE \/ \E i \in tokens : Expire(i)
           \/ \E n \in access : AccessExpires(n)
           \/ \E b \in Browser : CookieExpires(b)
           \/ UNCHANGED vars
  BY <1>2, <1>5 DEF Expire, AccessExpires, CookieExpires, vars, account, past
<1> QED BY <1>3, <1>4, <1>5 DEF Next

LEMMA InitFirstRun == Init => FirstRun
<1> SUFFICES ASSUME Init PROVE FirstRun
  OBVIOUS
<1>1. complete = (Users # {}) /\ \A t \in Task : pc[t] = "idle"
  BY DEF Init
<1>2. \A m, n \in Users : m = n
  BY AuthAssumption DEF Init, Users
<1> QED BY <1>1, <1>2 DEF FirstRun, FirstRunOnly, Opening

\* Setup is closed only over an account, and makes a second account only if two setups
\* overlapped or one stopped between its statements (do_setup in api/auth.rs).
THEOREM OneAccount == Spec => []FirstRunOnly
<1>1. Init => Typed /\ FirstRun
  BY InitTyped, InitFirstRun
<1>2. (Typed /\ FirstRun) /\ [Next]_vars => (Typed /\ FirstRun)'
  BY NextTyped, NextFirstRun
<1>3. Typed /\ FirstRun => FirstRunOnly
  BY DEF FirstRun
<1> QED BY <1>1, <1>2, <1>3, PTL DEF Spec

-----------------------------------------------------------------------------
(* The cookies of the browsers                                             *)

\* A token that is accepted, or whose session gives the reason why it is not.
Sound(i) == i \in tokens \/ SessionOf(i) \in ended \cup forked \cup lost

\* A token is the cookie of one browser, presented by that browser only, and nobody else
\* has a token that has yet to be delivered.
Unique ==
    /\ \A b, c \in Browser : jar[b] = jar[c] => b = c \/ jar[b] = 0
    /\ \A t \in Task, b \in Browser : job[t].token = jar[b] => jar[b] = 0 \/ job[t].browser = b
    /\ \A t \in Task, b \in Browser : job[t].fresh # 0 => jar[b] # job[t].fresh
    /\ \A s, t \in Task : job[t].fresh # 0 =>
          job[s].token # job[t].fresh /\ (job[s].fresh = job[t].fresh => s = t)

\* CookieAccepted, for the cookies and for the tokens that are on their way to become one.
Cookies ==
    /\ Unique
    /\ CookieAccepted
    /\ \A t \in Task : pc[t] = "answer" => Sound(job[t].fresh)

\* Cookies that go and handlers that are over or keep their tokens.
LEMMA UniqueStays ==
    ASSUME Unique, \A b \in Browser : jar'[b] \in {jar[b], 0},
           \A t \in Task : \/ job'[t].token = 0 /\ job'[t].fresh = 0
                           \/ /\ job'[t].token = job[t].token /\ job'[t].fresh = job[t].fresh
                              /\ job'[t].browser = job[t].browser
    PROVE  Unique'
<1>1. \A b, c \in Browser : jar'[b] = jar'[c] => b = c \/ jar'[b] = 0
  BY DEF Unique
<1>2. \A t \in Task, b \in Browser : job'[t].token = jar'[b] => jar'[b] = 0 \/ job'[t].browser = b
  BY DEF Unique
<1>3. \A t \in Task, b \in Browser : job'[t].fresh # 0 => jar'[b] # job'[t].fresh
  BY DEF Unique
<1>4. \A s, t \in Task : job'[t].fresh # 0 =>
          job'[s].token # job'[t].fresh /\ (job'[s].fresh = job'[t].fresh => s = t)
  BY DEF Unique
<1> QED BY <1>1, <1>2, <1>3, <1>4 DEF Unique

LEMMA RequestsUnique ==
    ASSUME Typed, Unique, NEW t \in Task, Requests(t)
    PROVE  Unique'
<1>1. jar' = jar
  BY DEF Requests, BeginSetup, BeginReset, BeginLogin, BeginRefresh, BeginLogout, BeginChange, client
<1>2. ASSUME NEW label, NEW request, Accept(t, label, request)
      PROVE  job'[t] = request /\ \A s \in Task \ {t} : job'[s] = job[s]
  BY <1>2 DEF Accept, Typed, TypeOK
<1>3. CASE \/ \E n \in Name, p \in Password : BeginSetup(t, n, p) \/ BeginReset(t, n, p)
           \/ \E b \in Browser, n \in Name, p \in Password : BeginLogin(t, b, n, p)
           \/ \E n \in Name, p, q \in Password : BeginChange(t, n, p, q)
  <2>1. job'[t].token = 0 /\ job'[t].fresh = 0
    <3>1. ASSUME NEW n \in Name, NEW p \in Password, BeginSetup(t, n, p) \/ BeginReset(t, n, p)
          PROVE  job'[t].token = 0 /\ job'[t].fresh = 0
      <4> DEFINE request == [NoJob EXCEPT !.user = n, !.word = p]
      <4>1. request.token = 0 /\ request.fresh = 0
        BY DEF NoJob
      <4>2. \E label \in Label : Accept(t, label, request)
        BY <3>1 DEF BeginSetup, BeginReset, Label
      <4> HIDE DEF request
      <4> QED BY <1>2, <4>1, <4>2
    <3>2. ASSUME NEW b \in Browser, NEW n \in Name, NEW p \in Password, BeginLogin(t, b, n, p)
          PROVE  job'[t].token = 0 /\ job'[t].fresh = 0
      <4> DEFINE request == [NoJob EXCEPT !.browser = b, !.user = n, !.era = era[n]]
      <4>1. request.token = 0 /\ request.fresh = 0
        BY DEF NoJob
      <4> HIDE DEF request
      <4>2. Accept(t, "grant", request)
        BY <3>2 DEF BeginLogin, request
      <4> QED BY <1>2, <4>1, <4>2
    <3>3. ASSUME NEW n \in Name, NEW p \in Password, NEW q \in Password, BeginChange(t, n, p, q)
          PROVE  job'[t].token = 0 /\ job'[t].fresh = 0
      <4> DEFINE request == [NoJob EXCEPT !.user = n, !.word = q]
      <4>1. request.token = 0 /\ request.fresh = 0
        BY DEF NoJob
      <4>2. Accept(t, "update", request)
        BY <3>3 DEF BeginChange
      <4> HIDE DEF request
      <4> QED BY <1>2, <4>1, <4>2
    <3> QED BY <1>3, <3>1, <3>2, <3>3
  <2>2. \A s \in Task \ {t} : job'[s] = job[s]
    BY <1>2, <1>3 DEF BeginSetup, BeginReset, BeginLogin, BeginChange
  <2> QED BY <1>1, <2>1, <2>2, UniqueStays
<1>4. ASSUME NEW b \in Browser, BeginRefresh(t, b) \/ BeginLogout(t, b) PROVE Unique'
  <2> DEFINE request == [NoJob EXCEPT !.browser = b, !.token = jar[b]]
  <2>1. request.token = jar[b] /\ request.fresh = 0 /\ request.browser = b
    BY DEF NoJob
  <2>2. job'[t] = request /\ \A s \in Task \ {t} : job'[s] = job[s]
    BY <1>2, <1>4 DEF BeginRefresh, BeginLogout
  <2> HIDE DEF request
  <2>3. \A s \in Task, c \in Browser : job'[s].token = jar[c] => jar[c] = 0 \/ job'[s].browser = c
    BY <2>1, <2>2 DEF Unique
  <2>4. \A s \in Task, c \in Browser : job'[s].fresh # 0 => jar[c] # job'[s].fresh
    BY <2>1, <2>2 DEF Unique
  <2>5. \A r, s \in Task : job'[s].fresh # 0 =>
          job'[r].token # job'[s].fresh /\ (job'[r].fresh = job'[s].fresh => r = s)
    BY <2>1, <2>2 DEF Unique
  <2> QED BY <1>1, <2>3, <2>4, <2>5 DEF Unique
<1> QED BY <1>3, <1>4 DEF Requests

LEMMA ProceedUnique ==
    ASSUME Typed, Unique, NEW t \in Task, Proceed(t) \/ Abandon(t)
    PROVE  Unique'
<1>0. NoJob.token = 0 /\ NoJob.fresh = 0
  BY DEF NoJob
<1>1. ASSUME job'[t] = NoJob, \A s \in Task \ {t} : job'[s] = job[s],
             \A b \in Browser : jar'[b] \in {jar[b], 0}
      PROVE  Unique'
  BY <1>0, <1>1, UniqueStays
<1>2. ASSUME Answer(t) PROVE job'[t] = NoJob /\ \A s \in Task \ {t} : job'[s] = job[s]
  BY <1>2 DEF Answer, Typed, TypeOK
<1>3. ASSUME job' = job, jar' = jar PROVE Unique'
  BY <1>3, UniqueStays
<1>4. CASE InsertUser(t) \/ StoreUsername(t) \/ Abandon(t)
  BY <1>1, <1>2, <1>3, <1>4 DEF InsertUser, StoreUsername, Abandon, client
<1>5. CASE ClearCookie(t)
  <2>1. \A b \in Browser : jar'[b] \in {jar[b], 0}
    BY <1>5 DEF ClearCookie, Typed, TypeOK
  <2> QED BY <1>1, <1>2, <1>5, <2>1 DEF ClearCookie
<1>6. CASE Revoke(t)
  <2>1. job'[t] = NoJob /\ jar' = jar /\ \A s \in Task \ {t} : job'[s] = job[s]
    BY <1>6 DEF Revoke, client, Typed, TypeOK
  <2> QED BY <1>1, <2>1
<1>7. CASE CloseSetup(t) \/ Rotate(t) \/ LogOut(t) \/ LogOutFails(t) \/ UpdatePassword(t)
  BY <1>3, <1>7 DEF CloseSetup, Rotate, LogOut, LogOutFails, UpdatePassword, client
<1>8. CASE Find(t)
  <2>1. CASE job[t].token \in tokens
    <3>1. /\ jar' = jar /\ \A s \in Task \ {t} : job'[s] = job[s]
          /\ job'[t].token = job[t].token /\ job'[t].fresh = job[t].fresh
          /\ job'[t].browser = job[t].browser
      <4>1. /\ job' = [job EXCEPT ![t].user = born[job[t].token].user] /\ jar' = jar
            /\ job[t] \in Job /\ job \in [Task -> Job]
        BY <1>8, <2>1 DEF Find, client, Typed, TypeOK
      <4>2. /\ job'[t] = [job[t] EXCEPT !.user = born[job[t].token].user]
            /\ \A s \in Task \ {t} : job'[s] = job[s]
        BY <4>1
      <4> QED BY <4>1, <4>2 DEF Job
    <3> QED BY <3>1, UniqueStays
  <2>2. CASE job[t].token \notin tokens
    BY <1>1, <1>2, <1>8, <2>2 DEF Find, client
  <2> QED BY <2>1, <2>2
<1>9. ASSUME NEW row, Issue(t, row), jar' = jar PROVE Unique'
  <2>0. PICK n : n = Len(born) + 1
    OBVIOUS
  <2>1. n \notin Token \cup {0} /\ n # 0
    BY <2>0, TokenNat DEF Typed, Token
  <2>2. /\ job'[t].fresh = n /\ job'[t].token = job[t].token /\ job'[t].browser = job[t].browser
        /\ \A s \in Task \ {t} : job'[s] = job[s]
    BY <1>9, <2>0 DEF Issue, Typed, TypeOK, Job
  <2>3. /\ \A b \in Browser : jar[b] # n
        /\ \A s \in Task : job[s].token # n /\ job[s].fresh # n
    BY <2>1 DEF Typed, TypeOK
  <2>4. \A s \in Task, c \in Browser : job'[s].token = jar[c] => jar[c] = 0 \/ job'[s].browser = c
    BY <2>2 DEF Unique
  <2>5. \A s \in Task, c \in Browser : job'[s].fresh # 0 => jar[c] # job'[s].fresh
    BY <2>2, <2>3 DEF Unique
  <2>6. \A r, s \in Task : job'[s].fresh # 0 =>
          job'[r].token # job'[s].fresh /\ (job'[r].fresh = job'[s].fresh => r = s)
    BY <2>2, <2>3 DEF Unique
  <2> QED BY <1>9, <2>4, <2>5, <2>6 DEF Unique
<1>10. CASE Grant(t) \/ Renew(t)
  BY <1>9, <1>10 DEF Grant, Renew, client
<1>11. CASE Deliver(t)
  <2> DEFINE c == job[t].browser
             i == job[t].fresh
  <2>1. c \in Browser /\ i # 0
    <3>1. c \in Browser /\ i \in Token
      BY <1>11 DEF Deliver, Typed, Carries, Fits
    <3>2. 0 \notin Token
      BY TokenNat DEF Typed, Token
    <3> QED BY <3>1, <3>2
  <2>2. jar'[c] = i /\ \A b \in Browser \ {c} : jar'[b] = jar[b]
    <3>1. jar' = [jar EXCEPT ![c] = i] /\ jar \in [Browser -> Token \cup {0}]
      BY <1>11 DEF Deliver, Typed, TypeOK
    <3> HIDE DEF c, i
    <3> QED BY <2>1, <3>1
  <2>3. job'[t].token = 0 /\ job'[t].fresh = 0 /\ \A s \in Task \ {t} : job'[s] = job[s]
    BY <1>0, <1>2, <1>11 DEF Deliver
  <2>4. /\ \A b \in Browser : jar[b] # i
        /\ \A s \in Task : job[s].token # i
        /\ \A s \in Task \ {t} : job[s].fresh # i
    BY <2>1 DEF Unique
  <2> HIDE DEF c, i
  <2>5. \A b, d \in Browser : jar'[b] = jar'[d] => b = d \/ jar'[b] = 0
    BY <2>2, <2>4 DEF Unique
  <2>6. \A s \in Task, b \in Browser : job'[s].token = jar'[b] => jar'[b] = 0 \/ job'[s].browser = b
    BY <2>1, <2>2, <2>3, <2>4 DEF Unique
  <2>7. \A s \in Task, b \in Browser : job'[s].fresh # 0 => jar'[b] # job'[s].fresh
    BY <2>2, <2>3, <2>4 DEF Unique
  <2>8. \A r, s \in Task : job'[s].fresh # 0 =>
          job'[r].token # job'[s].fresh /\ (job'[r].fresh = job'[s].fresh => r = s)
    BY <2>3 DEF Unique
  <2> QED BY <2>5, <2>6, <2>7, <2>8 DEF Unique
<1> QED BY <1>4, <1>5, <1>6, <1>7, <1>8, <1>10, <1>11 DEF Proceed

\* A token stays sound unless a handler deletes it to replace it.
LEMMA SoundStays ==
    ASSUME Typed, [Next]_vars, NEW i \in Token, Sound(i)
    PROVE  Sound(i)' \/ \E t \in Task : Rotate(t) /\ job[t].token = i
<1>1. ASSUME born' = born, i \in tokens => i \in tokens' \/ SessionOf(i) \in ended',
             ended \subseteq ended', forked \subseteq forked', lost \subseteq lost'
      PROVE  Sound(i)'
  BY <1>1 DEF Sound, SessionOf
<1>2. ASSUME Quiet, lost \subseteq lost' PROVE Sound(i)'
  BY <1>1, <1>2 DEF Quiet
<1>3. ASSUME NEW gone, NEW late, Remove(gone, late), UNCHANGED <<born, forked, lost>>
      PROVE  Sound(i)'
  BY <1>1, <1>3 DEF Remove
<1>4. ASSUME NEW t \in Task, NEW row \in Row, Issue(t, row), UNCHANGED <<ended, forked, lost>>
      PROVE  Sound(i)'
  <2>1. born'[i] = born[i]
    BY <1>4, IssueAppends DEF Typed
  <2> QED BY <1>4, <2>1 DEF Issue, Sound, SessionOf
<1>5. ASSUME NEW t \in Task, Requests(t) PROVE Sound(i)'
  <2>1. lost' = lost
    BY <1>5 DEF Requests, BeginSetup, BeginReset, BeginLogin, BeginRefresh, BeginLogout, BeginChange, past
  <2> QED BY <1>2, <1>5, <2>1, RequestsQuiet
<1>6. ASSUME NEW t \in Task,
             \/ InsertUser(t) \/ CloseSetup(t) \/ StoreUsername(t) \/ Deliver(t) \/ LogOutFails(t)
             \/ ClearCookie(t) \/ Abandon(t) \/ (Find(t) /\ job[t].token \notin tokens)
      PROVE  Sound(i)'
  <2>1. lost \subseteq lost'
    BY <1>6 DEF InsertUser, CloseSetup, StoreUsername, Deliver, LogOutFails, ClearCookie, Abandon, Find,
                past
  <2> QED BY <1>2, <1>6, <2>1, StatementsQuiet
<1>7. ASSUME NEW t \in Task, Proceed(t)
      PROVE  Sound(i)' \/ (Rotate(t) /\ job[t].token = i)
  <2>1. CASE Grant(t)
    <3> DEFINE row == [user |-> job[t].user, session |-> Len(born) + 1, era |-> job[t].era]
    <3>1. job[t].user \in Name /\ job[t].era \in Nat
      BY <2>1 DEF Grant, Typed, TypeOK, Carries, Fits, Job, Users
    <3>2. row \in Row
      BY <3>1, TokenNat DEF Row, Typed
    <3>3. Issue(t, row) /\ UNCHANGED <<ended, forked, lost>>
      BY <2>1 DEF Grant
    <3> HIDE DEF row
    <3> QED BY <1>4, <3>2, <3>3
  <2>2. CASE Renew(t)
    <3>1. born \in Seq(Row) /\ job[t].token \in 1..Len(born)
      BY <2>2 DEF Renew, Typed, TypeOK, Carries, Fits, Token
    <3>2. born[job[t].token] \in Row
      BY <3>1
    <3> QED BY <1>4, <2>2, <3>2 DEF Renew
  <2>3. CASE LogOut(t) \/ Revoke(t)
    BY <1>3, <2>3 DEF LogOut, Revoke
  <2>4. CASE UpdatePassword(t) \/ (Find(t) /\ job[t].token \in tokens)
    BY <1>1, <2>4 DEF UpdatePassword, Find
  <2>5. CASE Rotate(t)
    BY <1>1, <2>5 DEF Rotate, past
  <2> QED BY <1>6, <1>7, <2>1, <2>2, <2>3, <2>4, <2>5 DEF Proceed
<1>8. ASSUME NEW j \in tokens, Expire(j) PROVE Sound(i)'
  BY <1>3, <1>8 DEF Expire
<1>9. CASE \/ \E n \in access : AccessExpires(n)
           \/ \E b \in Browser : CookieExpires(b)
           \/ UNCHANGED vars
  <2>1. lost' = lost
    BY <1>9 DEF AccessExpires, CookieExpires, vars, past
  <2> QED BY <1>2, <1>9, <2>1, ExpiriesQuiet
<1> QED BY <1>5, <1>6, <1>7, <1>8, <1>9 DEF Next

\* A handler that has deleted the token of a cookie excuses it until its answer arrives, and
\* if the answer is lost the session says so.
LEMMA ExcuseStays ==
    ASSUME Typed, [Next]_vars, NEW i \in Token, NEW t \in Task, pc[t] \in {"renew", "answer"},
           job[t].token = i
    PROVE  \/ pc'[t] \in {"renew", "answer"} /\ job'[t].token = i
           \/ Sound(i)'
           \/ Deliver(t)
<1>1. CASE pc'[t] = pc[t] /\ job'[t] = job[t]
  BY <1>1
<1>2. ASSUME NEW s \in Task, Requests(s) PROVE pc'[t] = pc[t] /\ job'[t] = job[t]
  <2>1. \E label, request : Accept(s, label, request)
    BY <1>2 DEF Requests, BeginSetup, BeginReset, BeginLogin, BeginRefresh, BeginLogout, BeginChange
  <2> QED BY <2>1 DEF Accept, Goto, Typed, TypeOK
<1>3. ASSUME NEW s \in Task \ {t}, Proceed(s) \/ Abandon(s) PROVE pc'[t] = pc[t] /\ job'[t] = job[t]
  <2>1. pc \in [Task -> Label] /\ job \in [Task -> Job]
    BY DEF Typed, TypeOK
  <2>2. CASE Grant(s) \/ Renew(s)
    BY <2>1, <2>2 DEF Grant, Renew, Issue, Goto
  <2>3. CASE InsertUser(s) \/ StoreUsername(s) \/ Deliver(s) \/ ClearCookie(s) \/ Abandon(s)
    BY <2>1, <2>3 DEF InsertUser, StoreUsername, Deliver, ClearCookie, Abandon, Answer, Goto
  <2>4. CASE CloseSetup(s) \/ Rotate(s) \/ LogOut(s) \/ LogOutFails(s) \/ UpdatePassword(s) \/ Revoke(s)
    BY <2>1, <2>4 DEF CloseSetup, Rotate, LogOut, LogOutFails, UpdatePassword, Revoke, Goto
  <2>5. CASE Find(s)
    BY <2>1, <2>5 DEF Find, Answer, Goto
  <2> QED BY <1>3, <2>2, <2>3, <2>4, <2>5 DEF Proceed
<1>4. CASE Renew(t)
  BY <1>4 DEF Renew, Issue, Goto, Typed, TypeOK, Job
<1>5. CASE Abandon(t)
  <2>1. 0 \notin Token
    BY TokenNat DEF Typed, Token
  <2>2. SessionOf(i) \in lost' /\ born' = born
    BY <1>5, <2>1 DEF Abandon
  <2> QED BY <2>2 DEF Sound, SessionOf
<1>6. CASE Proceed(t) /\ ~Renew(t) /\ ~Deliver(t)
  BY <1>6 DEF Proceed, InsertUser, CloseSetup, StoreUsername, Grant, Find, Rotate, LogOut, LogOutFails,
              ClearCookie, UpdatePassword, Revoke
<1>7. CASE \/ \E j \in tokens : Expire(j)
           \/ \E n \in access : AccessExpires(n)
           \/ \E b \in Browser : CookieExpires(b)
           \/ UNCHANGED vars
  BY <1>7 DEF Expire, AccessExpires, CookieExpires, vars
<1> QED BY <1>1, <1>2, <1>3, <1>4, <1>5, <1>6, <1>7 DEF Next

\* A cookie that changes is gone, or is the token of an answer that arrives.
LEMMA JarStep ==
    ASSUME Typed, [Next]_vars, NEW b \in Browser
    PROVE  \/ jar'[b] \in {jar[b], 0}
           \/ \E t \in Task : Deliver(t) /\ job[t].browser = b /\ jar'[b] = job[t].fresh
<1>0. jar \in [Browser -> Token \cup {0}]
  BY DEF Typed, TypeOK
<1>1. ASSUME NEW t \in Task, Requests(t) PROVE jar' = jar
  BY <1>1 DEF Requests, BeginSetup, BeginReset, BeginLogin, BeginRefresh, BeginLogout, BeginChange, client
<1>2. ASSUME NEW t \in Task, Proceed(t) \/ Abandon(t), ~Deliver(t) PROVE jar'[b] \in {jar[b], 0}
  <2>1. jar' = jar \/ \E c \in Browser \cup {""} : jar' = [jar EXCEPT ![c] = 0]
    <3>1. job[t].browser \in Browser \cup {""}
      BY DEF Typed, TypeOK, Job
    <3> QED BY <1>2, <3>1 DEF Proceed, Abandon, InsertUser, CloseSetup, StoreUsername, Grant, Find, Rotate,
              Renew, LogOut, LogOutFails, ClearCookie, UpdatePassword, Revoke, client
  <2> QED BY <1>0, <2>1
<1>3. ASSUME NEW t \in Task, Deliver(t)
      PROVE  jar'[b] = jar[b] \/ (job[t].browser = b /\ jar'[b] = job[t].fresh)
  BY <1>0, <1>3 DEF Deliver
<1>4. CASE \E c \in Browser : CookieExpires(c)
  BY <1>0, <1>4 DEF CookieExpires
<1>5. CASE \/ \E i \in tokens : Expire(i)
           \/ \E n \in access : AccessExpires(n)
           \/ UNCHANGED vars
  BY <1>5 DEF Expire, AccessExpires, vars, client
<1>6. ASSUME NEW t \in Task, Proceed(t) \/ Abandon(t)
      PROVE  \/ jar'[b] \in {jar[b], 0}
             \/ Deliver(t) /\ job[t].browser = b /\ jar'[b] = job[t].fresh
  BY <1>2, <1>3, <1>6
<1> QED BY <1>1, <1>4, <1>5, <1>6 DEF Next

\* A handler comes to "answer" with a token it has just issued.
LEMMA AnswerStep ==
    ASSUME Typed, [Next]_vars, NEW t \in Task, pc'[t] = "answer"
    PROVE  \/ pc[t] = "answer" /\ job'[t] = job[t]
           \/ job'[t].fresh \in tokens'
<1>0. pc \in [Task -> Label] /\ job \in [Task -> Job]
  BY DEF Typed, TypeOK
<1>1. ASSUME NEW s \in Task, Requests(s) PROVE pc[t] = "answer" /\ job'[t] = job[t]
  <2>1. PICK label \in {"insert user", "update", "grant", "find", "log out"} :
          \E request : Accept(s, label, request)
    BY <1>1 DEF Requests, BeginSetup, BeginReset, BeginLogin, BeginRefresh, BeginLogout, BeginChange
  <2> QED BY <1>0, <2>1 DEF Accept, Goto
<1>2. ASSUME NEW s \in Task, Grant(s) \/ Renew(s)
      PROVE  (pc[t] = "answer" /\ job'[t] = job[t]) \/ job'[t].fresh \in tokens'
  <2>1. CASE s = t
    <3>1. PICK n : job' = [job EXCEPT ![t].fresh = n] /\ n \in tokens'
      BY <1>2, <2>1 DEF Grant, Renew, Issue
    <3>2. job[t] \in Job /\ job'[t] = [job[t] EXCEPT !.fresh = n]
      BY <1>0, <3>1
    <3> QED BY <3>1, <3>2 DEF Job
  <2>2. CASE s # t
    BY <1>0, <1>2, <2>2 DEF Grant, Renew, Issue, Goto
  <2> QED BY <2>1, <2>2
<1>3. ASSUME NEW s \in Task, Proceed(s) \/ Abandon(s), ~Grant(s), ~Renew(s)
      PROVE  pc[t] = "answer" /\ job'[t] = job[t]
  <2>1. /\ \E label \in {"idle", "close setup", "store username", "rotate", "renew", "clear cookie",
                         "revoke"} : Goto(s, label)
        /\ \A r \in Task \ {s} : job'[r] = job[r]
    <3>1. CASE InsertUser(s) \/ StoreUsername(s) \/ Deliver(s) \/ ClearCookie(s) \/ Abandon(s)
      BY <1>0, <3>1 DEF InsertUser, StoreUsername, Deliver, ClearCookie, Abandon, Answer
    <3>2. CASE \/ CloseSetup(s) \/ Rotate(s) \/ LogOut(s) \/ LogOutFails(s) \/ UpdatePassword(s)
               \/ Revoke(s)
      BY <1>0, <3>2 DEF CloseSetup, Rotate, LogOut, LogOutFails, UpdatePassword, Revoke
    <3>3. CASE Find(s)
      BY <1>0, <3>3 DEF Find, Answer
    <3> QED BY <1>3, <3>1, <3>2, <3>3 DEF Proceed
  <2> QED BY <1>0, <2>1 DEF Goto
<1>4. CASE \/ \E i \in tokens : Expire(i)
           \/ \E n \in access : AccessExpires(n)
           \/ \E b \in Browser : CookieExpires(b)
           \/ UNCHANGED vars
  BY <1>4 DEF Expire, AccessExpires, CookieExpires, vars
<1> QED BY <1>1, <1>2, <1>3, <1>4 DEF Next

LEMMA NextUnique ==
    ASSUME Typed, Unique, [Next]_vars
    PROVE  Unique'
<1>1. ASSUME NEW t \in Task, Requests(t) \/ Proceed(t) \/ Abandon(t) PROVE Unique'
  BY <1>1, RequestsUnique, ProceedUnique
<1>2. CASE \/ \E i \in tokens : Expire(i)
           \/ \E n \in access : AccessExpires(n)
           \/ \E b \in Browser : CookieExpires(b)
           \/ UNCHANGED vars
  <2>1. job' = job /\ \A b \in Browser : jar'[b] \in {jar[b], 0}
    BY <1>2 DEF Expire, AccessExpires, CookieExpires, vars, client, Typed, TypeOK
  <2> QED BY <2>1, UniqueStays
<1> QED BY <1>1, <1>2 DEF Next

LEMMA NextCookies ==
    ASSUME Typed, Cookies, [Next]_vars
    PROVE  Cookies'
<1>0. Unique /\ 0 \notin Token
  BY TokenNat DEF Cookies, Typed, Token
<1>1. Unique'
  BY NextUnique DEF Cookies
<1>2. ASSUME NEW t \in Task, pc'[t] = "answer" PROVE Sound(job[t].fresh)'
  <2>1. PICK i : i = job'[t].fresh
    OBVIOUS
  <2>2. CASE i \in tokens'
    BY <2>1, <2>2 DEF Sound
  <2>3. CASE pc[t] = "answer" /\ job'[t] = job[t]
    <3>1. i \in Token /\ job[t].fresh = i /\ Sound(i)
      BY <2>1, <2>3 DEF Typed, Carries, Fits, Cookies
    <3>2. \A s \in Task : job[s].token # i
      BY <1>0, <3>1 DEF Unique
    <3>3. Sound(i)'
      BY <3>1, <3>2, SoundStays
    <3> QED BY <2>1, <3>3 DEF Sound
  <2> QED BY <1>2, <2>1, <2>2, <2>3, AnswerStep
<1>3. ASSUME NEW b \in Browser, jar'[b] # 0
      PROVE  \/ Sound(jar[b])'
             \/ \E t \in Task : pc'[t] \in {"renew", "answer"} /\ job'[t].token = jar'[b]
  <2>1. PICK i : i = jar'[b]
    OBVIOUS
  <2>2. ASSUME NEW t \in Task, Deliver(t), job[t].browser = b
        PROVE  Sound(i)'
    <3>0. jar'[b] = job[t].fresh
      BY <2>2 DEF Deliver, Typed, TypeOK
    <3>1. i \in Token /\ Sound(i)
      BY <2>1, <2>2, <3>0 DEF Deliver, Typed, Carries, Fits, Cookies
    <3>2. \A s \in Task : job[s].token # i
      BY <1>0, <2>1, <3>0, <3>1 DEF Unique
    <3> QED BY <3>1, <3>2, SoundStays
  <2>3. CASE jar'[b] = jar[b] /\ ~\E t \in Task : Deliver(t) /\ job[t].browser = b
    <3>1. i = jar[b] /\ i \in Token
      BY <1>3, <2>1, <2>3 DEF Typed, TypeOK
    <3>2. CASE Sound(i)
      <4>1. CASE Sound(i)'
        BY <2>1, <4>1 DEF Sound
      <4>2. CASE \E t \in Task : Rotate(t) /\ job[t].token = i
        <5>1. PICK t \in Task : Rotate(t) /\ job[t].token = i
          BY <4>2
        <5>2. pc'[t] = "renew" /\ job'[t].token = i
          BY <5>1 DEF Rotate, Goto, Typed, TypeOK
        <5> QED BY <2>1, <5>2
      <4> QED BY <2>1, <3>1, <3>2, <4>1, <4>2, SoundStays DEF Sound
    <3>3. CASE \E t \in Task : pc[t] \in {"renew", "answer"} /\ job[t].token = i
      <4>1. PICK t \in Task : pc[t] \in {"renew", "answer"} /\ job[t].token = i
        BY <3>3
      <4>2. ~Deliver(t)
        BY <1>0, <2>3, <3>1, <4>1 DEF Unique
      <4>3. Sound(i)' \/ (pc'[t] \in {"renew", "answer"} /\ job'[t].token = i)
        BY <3>1, <4>1, <4>2, ExcuseStays
      <4> QED BY <2>1, <4>3 DEF Sound
    <3> QED BY <1>0, <3>1, <3>2, <3>3 DEF Cookies, CookieAccepted, Sound
  <2>4. Sound(i)' => Sound(jar[b])'
    BY <2>1 DEF Sound
  <2>5. CASE \E t \in Task : Deliver(t) /\ job[t].browser = b
    BY <2>2, <2>4, <2>5
  <2>6. CASE ~\E t \in Task : Deliver(t) /\ job[t].browser = b
    <3>1. jar'[b] = jar[b]
      BY <1>3, <2>6, JarStep
    <3> QED BY <2>3, <2>6, <3>1
  <2> QED BY <2>5, <2>6
<1>4. CookieAccepted'
  BY <1>3 DEF CookieAccepted, Sound
<1> QED BY <1>1, <1>2, <1>4 DEF Cookies

LEMMA InitCookies == Init => Cookies
<1> SUFFICES ASSUME Init PROVE Cookies
  OBVIOUS
<1>1. /\ \A b \in Browser : jar[b] = 0
      /\ \A t \in Task : pc[t] = "idle" /\ job[t].token = 0 /\ job[t].fresh = 0
  BY DEF Init, NoJob
<1> QED BY <1>1 DEF Cookies, Unique, CookieAccepted

\* The cookie a browser holds is accepted, or its session ended or was split, or a rotation of
\* it is under way or its answer was lost (refresh and the cookies it sets).
THEOREM CookiesAccepted == Spec => []CookieAccepted
<1>1. Init => Typed /\ Cookies
  BY InitTyped, InitCookies
<1>2. (Typed /\ Cookies) /\ [Next]_vars => (Typed /\ Cookies)'
  BY NextTyped, NextCookies
<1>3. Typed /\ Cookies => CookieAccepted
  BY DEF Cookies
<1> QED BY <1>1, <1>2, <1>3, PTL DEF Spec

-----------------------------------------------------------------------------
(* The sessions of different browsers                                      *)

\* Browser b keeps token i, has sent it to a handler, or will be answered with it.
Has(b, i) ==
    \/ jar[b] = i
    \/ \E t \in Task : job[t].browser = b /\ i \in {job[t].token, job[t].fresh}

\* SessionsStayApart, for the cookies and for what the handlers of a browser carry.
OneBrowser ==
    \A b, c \in Browser : \A i, j \in Token :
        Has(b, i) /\ Has(c, j) /\ SessionOf(i) = SessionOf(j) => b = c

LEMMA ApartStays ==
    ASSUME Typed, OneBrowser, born' = born,
           \A b \in Browser, i \in Token : Has(b, i)' => Has(b, i)
    PROVE  OneBrowser'
<1>1. Token' = Token /\ \A i \in Token : SessionOf(i)' = SessionOf(i)
  BY SameTokens
<1>2. \A b, c \in Browser : \A i, j \in Token :
        Has(b, i)' /\ Has(c, j)' /\ SessionOf(i)' = SessionOf(j)' => b = c
  BY <1>1 DEF OneBrowser
<1> QED BY <1>1, <1>2 DEF OneBrowser

\* A handler is given a request of one browser with its cookie, or drops what it carried.
LEMMA JobApart ==
    ASSUME Typed, OneBrowser, NEW t \in Task, born' = born,
           \A s \in Task \ {t} : job'[s] = job[s],
           \A b \in Browser : jar'[b] \in {jar[b], 0},
           \A b \in Browser, i \in {job'[t].token, job'[t].fresh} :
               job'[t].browser = b /\ i # 0 => Has(b, i)
    PROVE  OneBrowser'
<1>1. 0 \notin Token
  BY TokenNat DEF Typed, Token
<1>2. ASSUME NEW b \in Browser, NEW i \in Token, Has(b, i)' PROVE Has(b, i)
  <2>1. CASE jar'[b] = i
    BY <1>1, <2>1 DEF Has
  <2>2. CASE \E s \in Task : job'[s].browser = b /\ i \in {job'[s].token, job'[s].fresh}
    <3>1. PICK s \in Task : job'[s].browser = b /\ i \in {job'[s].token, job'[s].fresh}
      BY <2>2
    <3>2. CASE s = t
      BY <1>1, <3>1, <3>2
    <3>3. CASE s # t
      BY <3>1, <3>3 DEF Has
    <3> QED BY <3>2, <3>3
  <2> QED BY <1>2, <2>1, <2>2 DEF Has
<1> QED BY <1>2, ApartStays

LEMMA NothingCarried == NoJob.token = 0 /\ NoJob.fresh = 0 /\ NoJob.browser \notin Browser
BY AuthAssumption DEF NoJob

LEMMA RequestsApart ==
    ASSUME Typed, OneBrowser, NEW t \in Task, Requests(t)
    PROVE  OneBrowser'
<1>1. born' = born /\ jar' = jar
  BY DEF Requests, BeginSetup, BeginReset, BeginLogin, BeginRefresh, BeginLogout, BeginChange, client,
         past
<1>2. ASSUME NEW label, NEW request, Accept(t, label, request), request.fresh = 0,
             request.token = 0 \/ (request.browser \in Browser /\ request.token = jar[request.browser])
      PROVE  OneBrowser'
  <2>1. job'[t] = request /\ \A s \in Task \ {t} : job'[s] = job[s]
    BY <1>2 DEF Accept, Typed, TypeOK
  <2>2. \A b \in Browser, i \in {job'[t].token, job'[t].fresh} :
           job'[t].browser = b /\ i # 0 => Has(b, i)
    BY <1>2, <2>1 DEF Has
  <2> QED BY <1>1, <2>1, <2>2, JobApart
<1>3. ASSUME NEW n \in Name, NEW p \in Password, BeginSetup(t, n, p) \/ BeginReset(t, n, p)
      PROVE  OneBrowser'
  <2> DEFINE request == [NoJob EXCEPT !.user = n, !.word = p]
  <2>1. request.token = 0 /\ request.fresh = 0
    BY DEF NoJob
  <2>2. \E label \in Label : Accept(t, label, request)
    BY <1>3 DEF BeginSetup, BeginReset, Label
  <2> HIDE DEF request
  <2> QED BY <1>2, <2>1, <2>2
<1>4. ASSUME NEW b \in Browser, NEW n \in Name, NEW p \in Password, BeginLogin(t, b, n, p)
      PROVE  OneBrowser'
  <2> DEFINE request == [NoJob EXCEPT !.browser = b, !.user = n, !.era = era[n]]
  <2>1. request.token = 0 /\ request.fresh = 0
    BY DEF NoJob
  <2>2. Accept(t, "grant", request)
    BY <1>4 DEF BeginLogin
  <2> HIDE DEF request
  <2> QED BY <1>2, <2>1, <2>2
<1>5. ASSUME NEW n \in Name, NEW p \in Password, NEW q \in Password, BeginChange(t, n, p, q)
      PROVE  OneBrowser'
  <2> DEFINE request == [NoJob EXCEPT !.user = n, !.word = q]
  <2>1. request.token = 0 /\ request.fresh = 0
    BY DEF NoJob
  <2>2. Accept(t, "update", request)
    BY <1>5 DEF BeginChange
  <2> HIDE DEF request
  <2> QED BY <1>2, <2>1, <2>2
<1>6. ASSUME NEW b \in Browser, BeginRefresh(t, b) \/ BeginLogout(t, b) PROVE OneBrowser'
  <2> DEFINE request == [NoJob EXCEPT !.browser = b, !.token = jar[b]]
  <2>1. request.token = jar[b] /\ request.fresh = 0 /\ request.browser = b
    BY DEF NoJob
  <2>2. \E label \in Label : Accept(t, label, request)
    BY <1>6 DEF BeginRefresh, BeginLogout, Label
  <2> HIDE DEF request
  <2> QED BY <1>2, <2>1, <2>2
<1> QED BY <1>3, <1>4, <1>5, <1>6 DEF Requests

\* A new token is for the browser of its handler, and its session new or that browser's already.
LEMMA IssueApart ==
    ASSUME Typed, OneBrowser, NEW t \in Task, NEW row \in Row, Issue(t, row), jar' = jar,
           row.session = Len(born) + 1 \/
               (job[t].token \in Token /\ row.session = SessionOf(job[t].token))
    PROVE  OneBrowser'
<1>0. PICK n : n = Len(born) + 1
  OBVIOUS
<1>1. /\ Token' = Token \cup {n} /\ n \notin Token
      /\ \A i \in Token : SessionOf(i)' = SessionOf(i) /\ SessionOf(i) \in Token
      /\ SessionOf(n)' = row.session
  BY <1>0, IssueAppends, SessionType DEF Typed, SessionOf
<1>2. /\ job'[t].fresh = n /\ job'[t].token = job[t].token /\ job'[t].browser = job[t].browser
      /\ \A s \in Task \ {t} : job'[s] = job[s]
  BY <1>0 DEF Issue, Typed, TypeOK, Job
<1>3. ASSUME NEW b \in Browser, NEW i \in Token, Has(b, i)' PROVE Has(b, i)
  <2>1. CASE jar'[b] = i
    BY <2>1 DEF Has
  <2>2. CASE \E s \in Task : job'[s].browser = b /\ i \in {job'[s].token, job'[s].fresh}
    <3>1. PICK s \in Task : job'[s].browser = b /\ i \in {job'[s].token, job'[s].fresh}
      BY <2>2
    <3>2. job[s].browser = b /\ i \in {job[s].token, job[s].fresh}
      BY <1>1, <1>2, <3>1
    <3> QED BY <3>2 DEF Has
  <2> QED BY <1>3, <2>1, <2>2 DEF Has
<1>4. ASSUME NEW b \in Browser, Has(b, n)' PROVE job[t].browser = b
  <2>1. /\ jar[b] # n
        /\ \A s \in Task : job[s].token # n /\ job[s].fresh # n
    <3>1. n # 0
      BY <1>0, TokenNat DEF Typed
    <3>2. n \notin Token \cup {0}
      BY <1>1, <3>1
    <3>3. jar[b] \in Token \cup {0}
      BY DEF Typed, TypeOK
    <3>4. \A s \in Task : job[s].token \in Token \cup {0} /\ job[s].fresh \in Token \cup {0}
      BY DEF Typed, TypeOK
    <3> QED BY <3>2, <3>3, <3>4
  <2>2. PICK s \in Task : job'[s].browser = b /\ n \in {job'[s].token, job'[s].fresh}
    BY <1>4, <2>1 DEF Has
  <2>3. s = t
    BY <1>2, <2>1, <2>2
  <2> QED BY <1>2, <2>2, <2>3
<1>5. ASSUME NEW b \in Browser, NEW c \in Browser, NEW j \in Token, Has(b, n)', Has(c, j)',
             SessionOf(n)' = SessionOf(j)'
      PROVE  b = c
  <2>1. job[t].token \in Token /\ row.session = SessionOf(job[t].token)
    BY <1>0, <1>1, <1>5
  <2>2. Has(b, job[t].token)
    BY <1>4, <1>5 DEF Has
  <2>3. Has(c, j) /\ SessionOf(j) = SessionOf(job[t].token)
    BY <1>1, <1>3, <1>5, <2>1
  <2> QED BY <2>1, <2>2, <2>3 DEF OneBrowser
<1>6. ASSUME NEW b \in Browser, NEW c \in Browser, NEW i \in Token', NEW j \in Token',
             Has(b, i)', Has(c, j)', SessionOf(i)' = SessionOf(j)'
      PROVE  b = c
  <2>1. CASE i = n /\ j = n
    BY <1>4, <1>6, <2>1
  <2>2. CASE i = n /\ j \in Token
    BY <1>5, <1>6, <2>2
  <2>3. CASE i \in Token /\ j = n
    BY <1>5, <1>6, <2>3
  <2>4. CASE i \in Token /\ j \in Token
    BY <1>1, <1>3, <1>6, <2>4 DEF OneBrowser
  <2> QED BY <1>1, <2>1, <2>2, <2>3, <2>4
<1> QED BY <1>6 DEF OneBrowser

LEMMA ProceedApart ==
    ASSUME Typed, OneBrowser, NEW t \in Task, Proceed(t) \/ Abandon(t)
    PROVE  OneBrowser'
<1>1. ASSUME job'[t] = NoJob, \A s \in Task \ {t} : job'[s] = job[s], born' = born,
             \A b \in Browser : jar'[b] \in {jar[b], 0}
      PROVE  OneBrowser'
  BY <1>1, NothingCarried, JobApart
<1>2. ASSUME Answer(t) PROVE job'[t] = NoJob /\ \A s \in Task \ {t} : job'[s] = job[s]
  BY <1>2 DEF Answer, Typed, TypeOK
<1>3. ASSUME job' = job, jar' = jar, born' = born PROVE OneBrowser'
  <2>1. \A b \in Browser, i \in Token : Has(b, i)' => Has(b, i)
    BY <1>3 DEF Has
  <2> QED BY <1>3, <2>1, ApartStays
<1>4. CASE InsertUser(t) \/ StoreUsername(t) \/ Abandon(t)
  BY <1>1, <1>2, <1>3, <1>4 DEF InsertUser, StoreUsername, Abandon, client
<1>5. CASE ClearCookie(t)
  <2>1. \A b \in Browser : jar'[b] \in {jar[b], 0}
    BY <1>5 DEF ClearCookie, Typed, TypeOK
  <2> QED BY <1>1, <1>2, <1>5, <2>1 DEF ClearCookie
<1>6. CASE Revoke(t)
  <2>1. job'[t] = NoJob /\ jar' = jar /\ born' = born /\ \A s \in Task \ {t} : job'[s] = job[s]
    BY <1>6 DEF Revoke, client, Typed, TypeOK
  <2> QED BY <1>1, <2>1
<1>7. CASE CloseSetup(t) \/ Rotate(t) \/ LogOut(t) \/ LogOutFails(t) \/ UpdatePassword(t)
  BY <1>3, <1>7 DEF CloseSetup, Rotate, LogOut, LogOutFails, UpdatePassword, client, past
<1>8. CASE Find(t)
  <2>1. CASE job[t].token \in tokens
    <3>1. /\ jar' = jar /\ born' = born /\ job[t] \in Job /\ job \in [Task -> Job]
          /\ job' = [job EXCEPT ![t].user = born[job[t].token].user]
      BY <1>8, <2>1 DEF Find, client, Typed, TypeOK
    <3>2. /\ job'[t] = [job[t] EXCEPT !.user = born[job[t].token].user]
          /\ \A s \in Task \ {t} : job'[s] = job[s]
      BY <3>1
    <3>3. /\ job'[t].token = job[t].token /\ job'[t].fresh = job[t].fresh
          /\ job'[t].browser = job[t].browser
      BY <3>1, <3>2 DEF Job
    <3>4. \A b \in Browser, i \in {job'[t].token, job'[t].fresh} :
             job'[t].browser = b /\ i # 0 => Has(b, i)
      BY <3>3 DEF Has
    <3> QED BY <3>1, <3>2, <3>4, JobApart
  <2>2. CASE job[t].token \notin tokens
    BY <1>1, <1>2, <1>8, <2>2 DEF Find, client
  <2> QED BY <2>1, <2>2
<1>9. CASE Grant(t)
  <2> DEFINE row == [user |-> job[t].user, session |-> Len(born) + 1, era |-> job[t].era]
  <2>1. job[t].user \in Name /\ job[t].era \in Nat
    BY <1>9 DEF Grant, Typed, TypeOK, Carries, Fits, Job, Users
  <2>2. row \in Row /\ row.session = Len(born) + 1
    BY <2>1, TokenNat DEF Row, Typed
  <2>3. Issue(t, row) /\ jar' = jar
    BY <1>9 DEF Grant, client
  <2> HIDE DEF row
  <2> QED BY <2>2, <2>3, IssueApart
<1>10. CASE Renew(t)
  <2>1. job[t].token \in Token /\ Issue(t, born[job[t].token]) /\ jar' = jar
    BY <1>10 DEF Renew, client, Typed, Carries, Fits
  <2>2. born[job[t].token] \in Row
    <3>1. born \in Seq(Row) /\ job[t].token \in 1..Len(born)
      BY <2>1 DEF Typed, TypeOK, Token
    <3> QED BY <3>1
  <2>3. born[job[t].token].session = SessionOf(job[t].token)
    BY DEF SessionOf
  <2> QED BY <2>1, <2>2, <2>3, IssueApart
<1>11. CASE Deliver(t)
  <2>1. /\ born' = born /\ job'[t] = NoJob /\ \A s \in Task \ {t} : job'[s] = job[s]
        /\ \A b \in Browser : jar'[b] = jar[b] \/ (job[t].browser = b /\ jar'[b] = job[t].fresh)
    BY <1>2, <1>11 DEF Deliver, Typed, TypeOK
  <2>2. ASSUME NEW b \in Browser, NEW i \in Token, Has(b, i)' PROVE Has(b, i)
    <3>1. CASE jar'[b] = i
      BY <2>1, <3>1 DEF Has
    <3>2. CASE \E s \in Task : job'[s].browser = b /\ i \in {job'[s].token, job'[s].fresh}
      BY <2>1, <3>2, NothingCarried DEF Has
    <3> QED BY <2>2, <3>1, <3>2 DEF Has
  <2> QED BY <2>1, <2>2, ApartStays
<1> QED BY <1>4, <1>5, <1>6, <1>7, <1>8, <1>9, <1>10, <1>11 DEF Proceed

LEMMA NextApart ==
    ASSUME Typed, OneBrowser, [Next]_vars
    PROVE  OneBrowser'
<1>1. ASSUME NEW t \in Task, Requests(t) \/ Proceed(t) \/ Abandon(t) PROVE OneBrowser'
  BY <1>1, RequestsApart, ProceedApart
<1>2. CASE \/ \E i \in tokens : Expire(i)
           \/ \E n \in access : AccessExpires(n)
           \/ \E b \in Browser : CookieExpires(b)
           \/ UNCHANGED vars
  <2>1. /\ job' = job /\ born' = born
        /\ \A b \in Browser : jar'[b] \in {jar[b], 0}
    BY <1>2 DEF Expire, AccessExpires, CookieExpires, vars, client, past, Typed, TypeOK
  <2>2. 0 \notin Token
    BY TokenNat DEF Typed, Token
  <2>3. \A b \in Browser, i \in Token : Has(b, i)' => Has(b, i)
    BY <2>1, <2>2 DEF Has
  <2> QED BY <2>1, <2>3, ApartStays
<1> QED BY <1>1, <1>2 DEF Next

\* Two browsers never hold cookies of one session, whatever logins and rotations run beside
\* each other and whichever of them fail (login, refresh and the cookies they set).
THEOREM BrowsersApart == Spec => []SessionsStayApart
<1>1. Init => Typed /\ OneBrowser
  <2>1. Len(<<>>) = 0 /\ 1..0 = {}
    OBVIOUS
  <2>2. Init => Token = {}
    BY <2>1 DEF Init, Token
  <2> QED BY <2>2, InitTyped DEF OneBrowser
<1>2. (Typed /\ OneBrowser) /\ [Next]_vars => (Typed /\ OneBrowser)'
  BY NextTyped, NextApart
<1>3. Typed /\ OneBrowser => SessionsStayApart
  <2>1. TypeOK => \A b \in Browser : jar[b] # 0 => jar[b] \in Token
    BY DEF TypeOK
  <2> QED BY <2>1 DEF Typed, OneBrowser, Has, SessionsStayApart
<1> QED BY <1>1, <1>2, <1>3, PTL DEF Spec
=============================================================================
