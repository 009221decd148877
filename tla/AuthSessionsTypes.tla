------------------------- MODULE AuthSessionsTypes -------------------------
(***************************************************************************)
(* The types of AuthSessions, and the references between its tables, for   *)
(* any names, browsers, handlers and number of requests.                   *)
(***************************************************************************)
EXTENDS AuthSessions, TLAPS

\* What a handler carries fits the place it is at.
Fits(label, j) ==
    /\ label \in {"insert user", "update"} => j.word \in Password
    /\ label = "insert user" => j.user \in Name
    /\ label \in {"close setup", "store username", "grant", "rotate", "renew", "answer", "update",
                  "revoke"} => j.user \in Users
    /\ label \in {"find", "rotate", "renew"} => j.token \in Token
    /\ label = "answer" => j.fresh \in Token
    /\ label \in {"grant", "answer", "clear cookie", "find", "rotate", "renew", "log out"} =>
          (j.browser \in Browser)

\* And a token has a user.
Carries ==
    /\ \A t \in Task : Fits(pc[t], job[t])
    /\ \A i \in Token : born[i].user \in Users

Typed == TypeOK /\ Carries

-----------------------------------------------------------------------------
(* Types                                                                   *)

LEMMA NoWord == "" \notin Name /\ "" \notin Password /\ MaxRequests \in Nat
BY AuthAssumption

LEMMA NoJobType == NoJob \in Job
BY DEF NoJob, Job

\* What the handlers make of a job.
LEMMA JobType ==
    ASSUME NEW j \in Job
    PROVE  /\ \A u \in Name : [j EXCEPT !.user = u] \in Job
           /\ \A i \in Nat : [j EXCEPT !.fresh = i] \in Job
BY DEF Job

\* The jobs that requests begin with.
LEMMA AccountRequest ==
    ASSUME NEW n \in Name, NEW p \in Password
    PROVE  /\ [NoJob EXCEPT !.user = n, !.word = p] \in Job
           /\ [NoJob EXCEPT !.user = n, !.word = p].user = n
           /\ [NoJob EXCEPT !.user = n, !.word = p].word = p
           /\ [NoJob EXCEPT !.user = n, !.word = p].token = 0
           /\ [NoJob EXCEPT !.user = n, !.word = p].fresh = 0
BY DEF NoJob, Job

LEMMA CookieRequest ==
    ASSUME NEW b \in Browser, NEW i \in Nat
    PROVE  /\ [NoJob EXCEPT !.browser = b, !.token = i] \in Job
           /\ [NoJob EXCEPT !.browser = b, !.token = i].browser = b
           /\ [NoJob EXCEPT !.browser = b, !.token = i].token = i
           /\ [NoJob EXCEPT !.browser = b, !.token = i].fresh = 0
BY DEF NoJob, Job

LEMMA TokenNat ==
    ASSUME TypeOK
    PROVE  Len(born) \in Nat /\ \A i \in Token : i \in Nat
<1>1. born \in Seq(Row)
  BY DEF TypeOK
<1>2. Len(born) \in Nat
  BY <1>1
<1> QED BY <1>2 DEF Token

\* An INSERT extends the history by its row and touches nothing before it.
LEMMA IssueAppends ==
    ASSUME TypeOK, NEW t \in Task, NEW row \in Row, Issue(t, row)
    PROVE  /\ born' \in Seq(Row)
           /\ Token' = Token \cup {Len(born) + 1}
           /\ Len(born) + 1 \notin Token
           /\ \A i \in Token : born'[i] = born[i]
           /\ born'[Len(born) + 1] = row
<1>1. born \in Seq(Row) /\ born' = Append(born, row)
  BY DEF TypeOK, Issue
<1>2. Len(born) \in Nat
  BY <1>1
<1>3. born' \in Seq(Row) /\ Len(born') = Len(born) + 1
  BY <1>1
<1>4. \A i \in 1..Len(born) : born'[i] = born[i]
  BY <1>1
<1>5. born'[Len(born) + 1] = row
  BY <1>1
<1>6. 1..Len(born') = (1..Len(born)) \cup {Len(born) + 1} /\ Len(born) + 1 \notin 1..Len(born)
  BY <1>2, <1>3
<1> QED BY <1>3, <1>4, <1>5, <1>6 DEF Token

LEMMA InitTyped == Init => Typed
<1> SUFFICES ASSUME Init PROVE Typed
  OBVIOUS
<1>1. password \in [Name -> Password \cup {""}]
  BY AuthAssumption DEF Init
<1>2. username \in Name \cup {""}
  BY DEF Init, Users
<1>3. born = <<>> /\ Token = {} /\ born \in Seq(Row)
  <2>1. born = <<>>
    BY DEF Init
  <2>2. <<>> \in Seq(Row) /\ Len(<<>>) = 0
    OBVIOUS
  <2>3. 1..0 = {}
    OBVIOUS
  <2> QED BY <2>1, <2>2, <2>3 DEF Token
<1>4. job \in [Task -> Job]
  BY NoJobType DEF Init
<1>5. \A t \in Task : job[t].token = 0 /\ job[t].fresh = 0
  BY DEF Init, NoJob
<1>6. complete \in BOOLEAN
  BY DEF Init
<1>7. TypeOK
  <2>1. /\ tokens = {} /\ access = {} /\ ended = {} /\ overtaken = {} /\ raced = {}
        /\ forked = {} /\ lost = {} /\ unrevoked = {} /\ reopened = FALSE /\ asked = 0
        /\ jar = [b \in Browser |-> 0] /\ pc = [t \in Task |-> "idle"] /\ era = [n \in Name |-> 0]
    BY DEF Init
  <2>2. jar \in [Browser -> Token \cup {0}] /\ era \in [Name -> Nat] /\ pc \in [Task -> Label]
    BY <2>1 DEF Label
  <2>3. asked \in 0..MaxRequests
    <3>1. asked = 0
      BY <2>1
    <3>2. MaxRequests \in Nat
      BY NoWord
    <3> QED BY <3>1, <3>2
  <2>4. /\ \A i \in Token : SessionOf(i) \in 1..i
        /\ \A t \in Task : job[t].token \in Token \cup {0} /\ job[t].fresh \in Token \cup {0}
    BY <1>3, <1>5
  <2>5. /\ tokens \subseteq Token /\ access \subseteq Users /\ ended \subseteq Token
        /\ raced \subseteq Token /\ forked \subseteq Token /\ lost \subseteq Token
        /\ overtaken \subseteq Task /\ unrevoked \subseteq Name /\ reopened \in BOOLEAN
    BY <2>1
  <2> QED BY <1>1, <1>2, <1>3, <1>4, <1>6, <2>2, <2>3, <2>4, <2>5 DEF TypeOK
<1>8. Carries
  BY <1>3 DEF Init, Carries, Fits
<1> QED BY <1>7, <1>8 DEF Typed

\* A request that is accepted: a job, a place, and everything else as it was.
LEMMA AcceptTyped ==
    ASSUME Typed, NEW t \in Task, NEW label \in Label, NEW request \in Job,
           request.token \in Token \cup {0}, request.fresh = 0, Fits(label, request),
           Accept(t, label, request), reopened' \in BOOLEAN,
           UNCHANGED <<account, tokens, client, born, era, ended, overtaken, raced, forked, lost,
                       unrevoked>>
    PROVE  Typed'
<1> USE DEF Typed
<1>1. asked' \in 0..MaxRequests
  <2>1. asked \in 0..MaxRequests /\ asked < MaxRequests /\ asked' = asked + 1
    BY DEF Accept, TypeOK
  <2>2. MaxRequests \in Nat
    BY NoWord
  <2> QED BY <2>1, <2>2
<1>2. Token' = Token /\ Users' = Users
  BY DEF Token, Users, account
<1>3. \A i \in Token' : SessionOf(i)' \in 1..i
  BY <1>2 DEF SessionOf, TypeOK
<1>4. /\ \A s \in Task \ {t} : pc'[s] = pc[s] /\ job'[s] = job[s]
      /\ pc'[t] = label /\ job'[t] = request
  BY DEF Accept, Goto, TypeOK
<1>5. /\ pc' \in [Task -> Label] /\ job' \in [Task -> Job]
      /\ \A s \in Task : job'[s].token \in Token' \cup {0} /\ job'[s].fresh \in Token' \cup {0}
  BY <1>2, <1>4 DEF Accept, Goto, TypeOK
<1>6. TypeOK'
  BY <1>1, <1>2, <1>3, <1>5 DEF account, client, TypeOK
<1>7. \A s \in Task : Fits(pc[s], job[s])'
  <2>1. \A s \in Task : Fits(pc'[s], job'[s])
    BY <1>4 DEF Carries
  <2> QED BY <1>2, <2>1 DEF Fits
<1>8. \A i \in Token' : born'[i].user \in Users'
  BY <1>2 DEF Carries
<1>9. Carries'
  BY <1>7, <1>8 DEF Carries
<1> QED BY <1>6, <1>9

LEMMA RequestsTyped ==
    ASSUME Typed, NEW t \in Task, Requests(t)
    PROVE  Typed'
<1> USE DEF Typed
<1>1. ASSUME NEW n \in Name, NEW p \in Password, BeginSetup(t, n, p) PROVE Typed'
  <2> DEFINE request == [NoJob EXCEPT !.user = n, !.word = p]
  <2>1. request \in Job /\ request.token = 0 /\ request.fresh = 0 /\ Fits("insert user", request)
    BY AccountRequest DEF Fits
  <2> QED BY AcceptTyped, <1>1, <2>1 DEF Label, BeginSetup, TypeOK
<1>2. ASSUME NEW n \in Name, NEW p \in Password, BeginReset(t, n, p) PROVE Typed'
  <2> DEFINE request == [NoJob EXCEPT !.user = n, !.word = p]
  <2>1. request \in Job /\ request.token = 0 /\ request.fresh = 0 /\ Fits("update", request)
    BY <1>2, AccountRequest DEF Fits, BeginReset
  <2> QED BY AcceptTyped, <1>2, <2>1 DEF Label, BeginReset, past, TypeOK
<1>3. ASSUME NEW b \in Browser, NEW n \in Name, NEW p \in Password, BeginLogin(t, b, n, p)
      PROVE  Typed'
  <2> DEFINE request == [NoJob EXCEPT !.browser = b, !.user = n, !.era = era[n]]
  <2>1. n \in Users
    BY <1>3, NoWord DEF BeginLogin, Users
  <2>2. era[n] \in Nat
    BY DEF TypeOK
  <2>3. /\ request \in Job /\ request.user = n /\ request.browser = b
        /\ request.token = 0 /\ request.fresh = 0
    BY <2>2 DEF NoJob, Job
  <2>4. Fits("grant", request)
    BY <2>1, <2>3 DEF Fits
  <2> QED BY AcceptTyped, <1>3, <2>3, <2>4 DEF Label, BeginLogin, past, TypeOK
<1>4. ASSUME NEW b \in Browser, NEW i \in Token \cup {0}, NEW label \in Label,
             (label = "find" /\ i \in Token) \/ label = "log out"
      PROVE  LET request == [NoJob EXCEPT !.browser = b, !.token = i]
             IN  /\ request \in Job /\ request.token = i /\ request.fresh = 0
                 /\ Fits(label, request)
  <2>1. i \in Nat
    <3>1. TypeOK
      OBVIOUS
    <3>2. \A j \in Token : j \in Nat
      BY <3>1, TokenNat
    <3> QED BY <3>2
  <2> QED BY <1>4, <2>1, CookieRequest DEF Fits
<1>5. ASSUME NEW b \in Browser, BeginRefresh(t, b) PROVE Typed'
  BY AcceptTyped, <1>4, <1>5 DEF Label, BeginRefresh, past, TypeOK
<1>6. ASSUME NEW b \in Browser, BeginLogout(t, b) PROVE Typed'
  BY AcceptTyped, <1>4, <1>6 DEF Label, BeginLogout, past, TypeOK
<1>7. ASSUME NEW n \in Name, NEW p \in Password, NEW q \in Password, BeginChange(t, n, p, q)
      PROVE  Typed'
  <2> DEFINE request == [NoJob EXCEPT !.user = n, !.word = q]
  <2>1. n \in Users
    BY <1>7 DEF BeginChange, TypeOK
  <2>2. request \in Job /\ request.token = 0 /\ request.fresh = 0 /\ Fits("update", request)
    BY <2>1, AccountRequest DEF Fits
  <2> QED BY AcceptTyped, <1>7, <2>2 DEF Label, BeginChange, past, TypeOK
<1> QED BY <1>1, <1>2, <1>3, <1>5, <1>6, <1>7 DEF Requests

\* The three parts of TypeOK: the handlers, the tables and the clients, the history.
Places ==
    /\ pc \in [Task -> Label]
    /\ job \in [Task -> Job]
    /\ \A t \in Task : job[t].token \in Token \cup {0} /\ job[t].fresh \in Token \cup {0}

Tables ==
    /\ password \in [Name -> Password \cup {""}]
    /\ complete \in BOOLEAN
    /\ username \in Name \cup {""}
    /\ tokens \subseteq Token
    /\ access \subseteq Users
    /\ jar \in [Browser -> Token \cup {0}]

Past ==
    /\ born \in Seq(Row)
    /\ \A i \in Token : SessionOf(i) \in 1..i
    /\ asked \in 0..MaxRequests
    /\ era \in [Name -> Nat]
    /\ ended \subseteq Token /\ raced \subseteq Token /\ forked \subseteq Token /\ lost \subseteq Token
    /\ overtaken \subseteq Task
    /\ unrevoked \subseteq Name
    /\ reopened \in BOOLEAN

LEMMA Parts == (TypeOK <=> Places /\ Tables /\ Past) /\ (TypeOK' <=> Places' /\ Tables' /\ Past')
BY DEF TypeOK, Places, Tables, Past

\* A session is itself a token that was issued: the first one of its chain.
LEMMA SessionType ==
    ASSUME TypeOK, NEW i \in Token
    PROVE  SessionOf(i) \in Token
<1>1. SessionOf(i) \in 1..i /\ i \in 1..Len(born) /\ Len(born) \in Nat
  BY TokenNat DEF TypeOK, Token
<1> QED BY <1>1 DEF Token

\* A handler that answers is idle and carries nothing.
LEMMA AnswerTyped ==
    ASSUME Typed, NEW t \in Task, Answer(t), born' = born, Users \subseteq Users'
    PROVE  Places' /\ Carries' /\ overtaken' \subseteq Task
<1>1. Token' = Token
  BY DEF Token
<1>2. /\ \A s \in Task \ {t} : pc'[s] = pc[s] /\ job'[s] = job[s]
      /\ pc'[t] = "idle" /\ job'[t] = NoJob
  BY DEF Typed, TypeOK, Answer, Goto
<1>3. Places'
  <2>1. NoJob \in Job /\ NoJob.token = 0 /\ NoJob.fresh = 0
    BY NoJobType DEF NoJob
  <2> QED BY <1>1, <1>2, <2>1 DEF Places, Typed, TypeOK, Answer, Goto, Label
<1>4. \A s \in Task : Fits(pc[s], job[s])'
  <2>1. \A s \in Task : Fits(pc'[s], job'[s])
    BY <1>2 DEF Typed, Carries, Fits
  <2> QED BY <1>1, <2>1 DEF Fits
<1>5. \A i \in Token' : born'[i].user \in Users'
  BY <1>1 DEF Typed, Carries
<1>6. overtaken' \subseteq Task
  BY DEF Typed, TypeOK, Answer
<1> QED BY <1>3, <1>4, <1>5, <1>6 DEF Carries

\* A handler that goes on carries what its new place asks for.
LEMMA GotoTyped ==
    ASSUME Typed, NEW t \in Task, NEW label \in Label, Goto(t, label), job' = job, born' = born,
           Users \subseteq Users', Fits(label, job[t])'
    PROVE  Places' /\ Carries'
<1>1. Token' = Token
  BY DEF Token
<1>2. /\ \A s \in Task \ {t} : pc'[s] = pc[s]
      /\ pc'[t] = label
  BY DEF Typed, TypeOK, Goto
<1>3. Places'
  BY <1>1, <1>2 DEF Places, Typed, TypeOK, Goto
<1>4. \A s \in Task : Fits(pc[s], job[s])'
  <2>1. ASSUME NEW s \in Task \ {t} PROVE Fits(pc[s], job[s])'
    <3>1. Fits(pc[s], job[s]) /\ pc'[s] = pc[s]
      BY <1>2 DEF Typed, Carries
    <3> QED BY <1>1, <3>1 DEF Fits
  <2>2. Fits(pc[t], job[t])'
    BY <1>2
  <2> QED BY <2>1, <2>2
<1>5. \A i \in Token' : born'[i].user \in Users'
  BY <1>1 DEF Typed, Carries
<1> QED BY <1>3, <1>4, <1>5 DEF Carries

\* The handlers are where they were.
LEMMA StayTyped ==
    ASSUME Typed, UNCHANGED <<pc, job, born, password>>
    PROVE  Places' /\ Carries'
<1>1. Token' = Token /\ Users' = Users
  BY DEF Token, Users
<1>2. \A s \in Task : Fits(pc[s], job[s])'
  <2>1. \A s \in Task : Fits(pc[s], job[s])
    BY DEF Typed, Carries
  <2> QED BY <1>1, <2>1 DEF Fits
<1> QED BY <1>1, <1>2 DEF Places, Carries, Typed, TypeOK

LEMMA SameTokens ==
    ASSUME born' = born
    PROVE  Token' = Token /\ \A i \in Token : SessionOf(i)' = SessionOf(i)
BY DEF Token, SessionOf

LEMMA PastStays ==
    ASSUME Typed, UNCHANGED <<born, asked>>, era' \in [Name -> Nat], ended' \subseteq Token,
           raced' \subseteq Token, forked' \subseteq Token, lost' \subseteq Token,
           overtaken' \subseteq Task, unrevoked' \subseteq Name, reopened' \in BOOLEAN
    PROVE  Past'
BY SameTokens DEF Typed, TypeOK, Past

\* Rows that leave the table were issued.
LEMMA RemoveTyped ==
    ASSUME Typed, NEW gone \in SUBSET tokens, NEW late \in SUBSET Task, Remove(gone, late)
    PROVE  tokens' \subseteq Token /\ ended' \subseteq Token /\ overtaken' \subseteq Task
<1>1. \A i \in gone : SessionOf(i) \in Token
  BY SessionType DEF Typed, TypeOK
<1> QED BY <1>1 DEF Remove, Typed, TypeOK

\* An INSERT keeps every type.
LEMMA IssueTyped ==
    ASSUME Typed, NEW t \in Task, NEW row \in Row, Issue(t, row), row.user \in Users,
           row.session \in Token \cup {Len(born) + 1}, job[t].user \in Users, job[t].browser \in Browser,
           UNCHANGED <<account, client, asked, era, ended, overtaken, forked, lost, unrevoked, reopened>>
    PROVE  Typed'
<1> DEFINE n == Len(born) + 1
<1>1. /\ born' \in Seq(Row) /\ Token' = Token \cup {n} /\ n \notin Token
      /\ \A i \in Token : born'[i] = born[i]
      /\ born'[n] = row
  BY IssueAppends DEF Typed
<1>2. n \in Nat /\ 1..n = Token \cup {n} /\ \A i \in Token : i \in Nat
  <2>1. Len(born) \in Nat /\ \A i \in Token : i \in Nat
    BY TokenNat DEF Typed
  <2>2. 1..(Len(born) + 1) = (1..Len(born)) \cup {Len(born) + 1}
    BY <2>1
  <2> QED BY <2>1, <2>2 DEF Token
<1> HIDE DEF n
<1>3. Users' = Users
  BY DEF account, Users
<1>4. /\ \A s \in Task \ {t} : pc'[s] = pc[s] /\ job'[s] = job[s]
      /\ pc'[t] = "answer" /\ job'[t] = [job[t] EXCEPT !.fresh = n]
      /\ tokens' = tokens \cup {n}
  BY DEF Typed, TypeOK, Issue, Goto, n
<1>5. job[t] \in Job /\ job'[t] \in Job
  <2>1. job[t] \in Job
    BY DEF Typed, TypeOK
  <2> QED BY <1>2, <1>4, <2>1, JobType
<1>6. job'[t].fresh = n /\ job'[t].token = job[t].token /\ job'[t].user = job[t].user
      /\ job'[t].browser = job[t].browser
  BY <1>4, <1>5 DEF Job
<1>7. Places'
  <2>1. pc' \in [Task -> Label]
    BY DEF Issue, Goto, Typed, TypeOK, Label
  <2>2. job' \in [Task -> Job]
    BY <1>4, <1>5 DEF Issue, Typed, TypeOK
  <2>3. \A s \in Task : job'[s].token \in Token' \cup {0} /\ job'[s].fresh \in Token' \cup {0}
    BY <1>1, <1>4, <1>6 DEF Typed, TypeOK
  <2> QED BY <2>1, <2>2, <2>3 DEF Places
<1>8. Tables'
  BY <1>1, <1>3, <1>4 DEF Tables, Typed, TypeOK, account, client
<1>9. Past'
  <2>1. ASSUME NEW i \in Token' PROVE born'[i].session \in 1..i
    <3>1. CASE i \in Token
      BY <1>1, <3>1 DEF Typed, TypeOK, SessionOf
    <3>2. CASE i = n
      BY <1>1, <1>2, <3>2 DEF n
    <3> QED BY <1>1, <3>1, <3>2
  <2>2. \A i \in Token' : SessionOf(i)' \in 1..i
    BY <2>1 DEF SessionOf
  <2>3. raced' \subseteq Token'
    <3>1. row.session \in Token'
      BY <1>1 DEF n
    <3>2. raced \subseteq Token'
      BY <1>1 DEF Typed, TypeOK
    <3> QED BY <3>1, <3>2 DEF Issue
  <2> QED BY <1>1, <2>2, <2>3 DEF Past, Typed, TypeOK
<1>10. Carries'
  <2>1. ASSUME NEW s \in Task \ {t} PROVE Fits(pc[s], job[s])'
    <3>1. Fits(pc[s], job[s]) /\ pc'[s] = pc[s] /\ job'[s] = job[s]
      BY <1>4 DEF Typed, Carries
    <3> QED BY <1>1, <1>3, <3>1 DEF Fits
  <2>2. Fits(pc[t], job[t])'
    BY <1>1, <1>3, <1>4, <1>6 DEF Fits
  <2>3. \A i \in Token' : born'[i].user \in Users'
    BY <1>1, <1>3 DEF Typed, Carries
  <2> QED BY <2>1, <2>2, <2>3 DEF Carries
<1> QED BY <1>7, <1>8, <1>9, <1>10, Parts DEF Typed

-----------------------------------------------------------------------------
(* Every statement of a handler keeps the types                            *)

LEMMA SetupTyped ==
    ASSUME Typed, NEW t \in Task, InsertUser(t) \/ CloseSetup(t) \/ StoreUsername(t)
    PROVE  Typed'
<1>1. CASE InsertUser(t)
  <2>1. job[t].user \in Name /\ job[t].word \in Password /\ job[t].word # ""
    BY <1>1, NoWord DEF Typed, Carries, Fits, InsertUser
  <2>2. CASE password[job[t].user] = ""
    <3>1. /\ password' = [password EXCEPT ![job[t].user] = job[t].word]
          /\ Goto(t, "close setup") /\ job' = job /\ overtaken' = overtaken
          /\ UNCHANGED <<complete, username, tokens, client, asked, born, era, ended, raced, forked,
                         lost, unrevoked, reopened>>
      BY <1>1, <2>2 DEF InsertUser
    <3>2. password' \in [Name -> Password \cup {""}] /\ password'[job[t].user] # ""
          /\ \A n \in Name \ {job[t].user} : password'[n] = password[n]
      BY <2>1, <3>1 DEF Typed, TypeOK
    <3>3. Users \subseteq Users' /\ job[t].user \in Users'
      BY <2>1, <3>2 DEF Users
    <3>4. Fits("close setup", job[t])'
      BY <3>1, <3>3 DEF Fits
    <3>5. Places' /\ Carries'
      BY <3>1, <3>3, <3>4, GotoTyped DEF Label
    <3>6. Tables'
      BY <3>1, <3>2, <3>3, SameTokens DEF Tables, Typed, TypeOK, client
    <3>7. Past'
      BY <3>1, PastStays DEF Typed, TypeOK
    <3> QED BY <3>5, <3>6, <3>7, Parts DEF Typed
  <2>3. CASE password[job[t].user] # ""
    <3>1. /\ Answer(t)
          /\ UNCHANGED <<account, tokens, client, asked, born, era, ended, raced, forked, lost,
                         unrevoked, reopened>>
      BY <1>1, <2>3 DEF InsertUser, account
    <3>2. Users' = Users
      BY <3>1 DEF Users, account
    <3>3. Places' /\ Carries' /\ overtaken' \subseteq Task
      BY <3>1, <3>2, AnswerTyped
    <3>4. Tables'
      BY <3>1, <3>2, SameTokens DEF Tables, Typed, TypeOK, client, account
    <3>5. Past'
      BY <3>1, <3>3, PastStays DEF Typed, TypeOK
    <3> QED BY <3>3, <3>4, <3>5, Parts DEF Typed
  <2> QED BY <2>2, <2>3
<1>2. CASE CloseSetup(t)
  <2>1. Users' = Users /\ job' = job /\ born' = born
    BY <1>2 DEF Users, CloseSetup, past
  <2>2. Fits("store username", job[t])'
    BY <1>2, <2>1 DEF Fits, CloseSetup, Typed, Carries
  <2>3. Places' /\ Carries'
    BY <1>2, <2>1, <2>2, GotoTyped DEF Label, CloseSetup
  <2>4. Tables'
    BY <1>2, <2>1, SameTokens DEF Tables, CloseSetup, Typed, TypeOK, client
  <2>5. Past'
    BY <1>2, PastStays DEF CloseSetup, past, Typed, TypeOK
  <2> QED BY <2>3, <2>4, <2>5, Parts DEF Typed
<1>3. CASE StoreUsername(t)
  <2>1. Users' = Users /\ born' = born
    BY <1>3 DEF Users, StoreUsername
  <2>2. Places' /\ Carries' /\ overtaken' \subseteq Task
    BY <1>3, <2>1, AnswerTyped DEF StoreUsername
  <2>3. username' \in Name
    BY <1>3 DEF StoreUsername, Typed, Carries, Fits, Users
  <2>4. Tables'
    BY <1>3, <2>1, <2>3, SameTokens DEF Tables, StoreUsername, Typed, TypeOK, client
  <2>5. Past'
    BY <1>3, <2>2, PastStays DEF StoreUsername, Typed, TypeOK
  <2> QED BY <2>2, <2>4, <2>5, Parts DEF Typed
<1> QED BY <1>1, <1>2, <1>3

LEMMA GrantTyped ==
    ASSUME Typed, NEW t \in Task, Grant(t)
    PROVE  Typed'
<1> DEFINE row == [user |-> job[t].user, session |-> Len(born) + 1, era |-> job[t].era]
<1>1. job[t].user \in Users /\ job[t].browser \in Browser /\ job[t].era \in Nat
  BY DEF Grant, Typed, TypeOK, Carries, Fits, Job
<1>2. Len(born) + 1 \in Nat
  BY TokenNat DEF Typed
<1>3. row \in Row /\ row.user \in Users /\ row.session = Len(born) + 1
  BY <1>1, <1>2 DEF Row, Users
<1> HIDE DEF row
<1>4. Issue(t, row)
  BY DEF Grant, row
<1> QED BY <1>1, <1>3, <1>4, IssueTyped DEF Grant

LEMMA RenewTyped ==
    ASSUME Typed, NEW t \in Task, Renew(t)
    PROVE  Typed'
<1>1. job[t].user \in Users /\ job[t].browser \in Browser /\ job[t].token \in Token
  BY DEF Renew, Typed, Carries, Fits
<1>2. born[job[t].token] \in Row
  <2>1. born \in Seq(Row) /\ job[t].token \in 1..Len(born)
    BY <1>1 DEF Typed, TypeOK, Token
  <2> QED BY <2>1
<1>3. born[job[t].token].user \in Users
  BY <1>1 DEF Typed, Carries
<1>4. born[job[t].token].session \in Token
  BY <1>1, SessionType DEF Typed, SessionOf
<1> QED BY <1>1, <1>2, <1>3, <1>4, IssueTyped DEF Renew

LEMMA FindTyped ==
    ASSUME Typed, NEW t \in Task, Find(t)
    PROVE  Typed'
<1>1. born' = born /\ Users' = Users /\ Token' = Token /\ \A i \in Token : SessionOf(i)' = SessionOf(i)
  BY SameTokens DEF Find, account, Users
<1>2. Tables'
  BY <1>1 DEF Find, Tables, Typed, TypeOK, account, client
<1>3. CASE job[t].token \in tokens
  <2> DEFINE u == born[job[t].token].user
  <2>1. job[t].token \in Token /\ job[t].browser \in Browser /\ job[t] \in Job
    BY DEF Find, Typed, TypeOK, Carries, Fits
  <2>2. u \in Users /\ u \in Name
    BY <2>1 DEF Typed, Carries, Users
  <2> HIDE DEF u
  <2>3. /\ Goto(t, "rotate") /\ job' = [job EXCEPT ![t].user = u] /\ overtaken' = overtaken
        /\ forked' \subseteq forked \cup {SessionOf(job[t].token)}
    BY <1>3 DEF Find, u
  <2>4. /\ \A s \in Task \ {t} : pc'[s] = pc[s] /\ job'[s] = job[s]
        /\ pc'[t] = "rotate" /\ job'[t] = [job[t] EXCEPT !.user = u]
    BY <2>3 DEF Goto, Typed, TypeOK
  <2>5. [job[t] EXCEPT !.user = u] \in Job
    BY <2>1, <2>2, JobType
  <2>6. /\ job'[t] \in Job /\ job'[t].user = u /\ job'[t].token = job[t].token
        /\ job'[t].fresh = job[t].fresh /\ job'[t].browser = job[t].browser
    BY <2>1, <2>4, <2>5 DEF Job
  <2>7. Places'
    <3>1. pc' \in [Task -> Label]
      BY <2>3 DEF Goto, Typed, TypeOK, Label
    <3>2. job' \in [Task -> Job]
      BY <2>3, <2>5 DEF Typed, TypeOK
    <3>3. \A s \in Task : job'[s].token \in Token' \cup {0} /\ job'[s].fresh \in Token' \cup {0}
      BY <1>1, <2>4, <2>6 DEF Typed, TypeOK
    <3> QED BY <3>1, <3>2, <3>3 DEF Places
  <2>8. Carries'
    <3>1. ASSUME NEW s \in Task \ {t} PROVE Fits(pc[s], job[s])'
      <4>1. Fits(pc[s], job[s]) /\ pc'[s] = pc[s] /\ job'[s] = job[s]
        BY <2>4 DEF Typed, Carries
      <4> QED BY <1>1, <4>1 DEF Fits
    <3>2. Fits(pc[t], job[t])'
      BY <1>1, <2>1, <2>2, <2>4, <2>6 DEF Fits
    <3>3. \A i \in Token' : born'[i].user \in Users'
      BY <1>1 DEF Typed, Carries
    <3> QED BY <3>1, <3>2, <3>3 DEF Carries
  <2>9. forked' \subseteq Token
    <3>1. SessionOf(job[t].token) \in Token
      BY <2>1, SessionType DEF Typed
    <3> QED BY <2>3, <3>1 DEF Typed, TypeOK
  <2>10. Past'
    BY <1>1, <2>3, <2>9, PastStays DEF Find, Typed, TypeOK
  <2> QED BY <1>2, <2>7, <2>8, <2>10, Parts DEF Typed
<1>4. CASE job[t].token \notin tokens
  <2>1. Answer(t) /\ forked' = forked
    BY <1>4 DEF Find
  <2>2. Places' /\ Carries' /\ overtaken' \subseteq Task
    BY <1>1, <2>1, AnswerTyped
  <2>3. Past'
    BY <1>1, <2>1, <2>2, PastStays DEF Find, Typed, TypeOK
  <2> QED BY <1>2, <2>2, <2>3, Parts DEF Typed
<1> QED BY <1>3, <1>4

LEMMA SessionStepsTyped ==
    ASSUME Typed, NEW t \in Task,
           Rotate(t) \/ Deliver(t) \/ LogOut(t) \/ LogOutFails(t) \/ ClearCookie(t)
    PROVE  Typed'
<1>1. /\ born' = born /\ Users' = Users /\ Token' = Token
      /\ \A i \in Token : SessionOf(i)' = SessionOf(i)
  BY SameTokens DEF Rotate, Deliver, LogOut, LogOutFails, ClearCookie, account, past, Users
<1>2. CASE Rotate(t)
  <2>1. Fits("renew", job[t])'
    BY <1>1, <1>2 DEF Rotate, Typed, Carries, Fits
  <2>2. Places' /\ Carries'
    BY <1>1, <1>2, <2>1, GotoTyped DEF Rotate, Label
  <2>3. Tables'
    BY <1>1, <1>2 DEF Rotate, Tables, Typed, TypeOK, account, client
  <2>4. Past'
    BY <1>2, PastStays DEF Rotate, past, Typed, TypeOK
  <2> QED BY <2>2, <2>3, <2>4, Parts DEF Typed
<1>3. CASE Deliver(t)
  <2>1. job[t].user \in Users /\ job[t].fresh \in Token /\ job[t].browser \in Browser
    BY <1>3 DEF Deliver, Typed, Carries, Fits
  <2>2. Places' /\ Carries' /\ overtaken' \subseteq Task
    BY <1>1, <1>3, AnswerTyped DEF Deliver
  <2>3. Tables'
    BY <1>1, <1>3, <2>1 DEF Deliver, Tables, Typed, TypeOK, account
  <2>4. Past'
    BY <1>3, <2>2, PastStays DEF Deliver, Typed, TypeOK
  <2> QED BY <2>2, <2>3, <2>4, Parts DEF Typed
<1>4. CASE LogOut(t)
  <2> DEFINE gone == tokens \cap {job[t].token}
  <2>1. gone \in SUBSET tokens /\ Holding(gone) \in SUBSET Task
    BY DEF Holding
  <2>2. Remove(gone, Holding(gone))
    BY <1>4 DEF LogOut
  <2> HIDE DEF gone
  <2>3. tokens' \subseteq Token /\ ended' \subseteq Token /\ overtaken' \subseteq Task
    BY <2>1, <2>2, RemoveTyped
  <2>4. Fits("clear cookie", job[t])'
    BY <1>1, <1>4 DEF LogOut, Typed, Carries, Fits
  <2>5. Places' /\ Carries'
    BY <1>1, <1>4, <2>4, GotoTyped DEF LogOut, Label
  <2>6. Tables'
    BY <1>1, <1>4, <2>3 DEF LogOut, Tables, Typed, TypeOK, account, client
  <2>7. Past'
    BY <1>4, <2>3, PastStays DEF LogOut, Typed, TypeOK
  <2> QED BY <2>5, <2>6, <2>7, Parts DEF Typed
<1>5. CASE LogOutFails(t)
  <2>1. Fits("clear cookie", job[t])'
    BY <1>1, <1>5 DEF LogOutFails, Typed, Carries, Fits
  <2>2. Places' /\ Carries'
    BY <1>1, <1>5, <2>1, GotoTyped DEF LogOutFails, Label
  <2>3. Tables'
    BY <1>1, <1>5 DEF LogOutFails, Tables, Typed, TypeOK, account, client
  <2>4. Past'
    BY <1>5, PastStays DEF LogOutFails, past, Typed, TypeOK
  <2> QED BY <2>2, <2>3, <2>4, Parts DEF Typed
<1>6. CASE ClearCookie(t)
  <2>1. Places' /\ Carries' /\ overtaken' \subseteq Task
    BY <1>1, <1>6, AnswerTyped DEF ClearCookie
  <2>2. Tables'
    BY <1>1, <1>6 DEF ClearCookie, Tables, Typed, TypeOK, account
  <2>3. Past'
    BY <1>6, <2>1, PastStays DEF ClearCookie, Typed, TypeOK
  <2> QED BY <2>1, <2>2, <2>3, Parts DEF Typed
<1> QED BY <1>2, <1>3, <1>4, <1>5, <1>6

LEMMA UpdateTyped ==
    ASSUME Typed, NEW t \in Task, UpdatePassword(t)
    PROVE  Typed'
<1> DEFINE u == job[t].user
<1>1. u \in Users /\ u \in Name /\ job[t].word \in Password /\ job[t].word # ""
  BY NoWord DEF UpdatePassword, Typed, Carries, Fits, Users
<1>2. password' = [password EXCEPT ![u] = job[t].word] /\ era' = [era EXCEPT ![u] = @ + 1]
  BY DEF UpdatePassword
<1> HIDE DEF u
<1>3. password' \in [Name -> Password \cup {""}] /\ Users' = Users
  BY <1>1, <1>2 DEF Typed, TypeOK, Users
<1>4. era' \in [Name -> Nat]
  <2>1. era \in [Name -> Nat]
    BY DEF Typed, TypeOK
  <2>2. era[u] + 1 \in Nat
    <3>1. era[u] \in Nat
      BY <1>1, <2>1
    <3> QED BY <3>1
  <2>3. era' = [era EXCEPT ![u] = era[u] + 1]
    BY <1>2
  <2> QED BY <2>1, <2>2, <2>3
<1>5. Fits("revoke", job[t])'
  BY <1>1, <1>3 DEF UpdatePassword, Fits, u
<1>6. Places' /\ Carries'
  BY <1>3, <1>5, GotoTyped DEF UpdatePassword, Label
<1>7. Tables'
  BY <1>3, SameTokens DEF UpdatePassword, Tables, Typed, TypeOK, client
<1>8. Past'
  BY <1>4, PastStays DEF UpdatePassword, Typed, TypeOK
<1> QED BY <1>6, <1>7, <1>8, Parts DEF Typed

LEMMA RevokeTyped ==
    ASSUME Typed, NEW t \in Task, Revoke(t)
    PROVE  Typed'
<1> DEFINE gone == TokensOf(job[t].user)
           late == {s \in Task : (Rotating(s) \/ pc[s] = "grant") /\ job[s].user = job[t].user}
<1>1. born' = born /\ Users' = Users /\ Token' = Token
  BY SameTokens DEF Revoke, account, Users
<1>2. gone \in SUBSET tokens /\ late \in SUBSET Task
  BY DEF TokensOf
<1>3. Remove(gone, late)
  BY DEF Revoke
<1> HIDE DEF gone, late
<1>4. tokens' \subseteq Token /\ ended' \subseteq Token /\ overtaken' \subseteq Task
  BY <1>2, <1>3, RemoveTyped
<1>5. /\ \A s \in Task \ {t} : pc'[s] = pc[s] /\ job'[s] = job[s]
      /\ pc'[t] = "idle" /\ job'[t] = NoJob
  BY DEF Revoke, Goto, Typed, TypeOK
<1>6. Places'
  <2>1. NoJob \in Job /\ NoJob.token = 0 /\ NoJob.fresh = 0
    BY NoJobType DEF NoJob
  <2> QED BY <1>1, <1>5, <2>1 DEF Places, Revoke, Goto, Typed, TypeOK, Label
<1>7. Carries'
  <2>1. \A s \in Task : Fits(pc'[s], job'[s])
    BY <1>5 DEF Typed, Carries, Fits
  <2> QED BY <1>1, <2>1 DEF Typed, Carries, Fits
<1>8. Tables'
  BY <1>1, <1>4 DEF Revoke, Tables, Typed, TypeOK, account, client
<1>9. Past'
  <2>1. raced' \subseteq Token /\ unrevoked' \subseteq Name
    BY DEF Revoke, Typed, TypeOK
  <2> QED BY <1>4, <2>1, PastStays DEF Revoke, Typed, TypeOK
<1> QED BY <1>6, <1>7, <1>8, <1>9, Parts DEF Typed

LEMMA AbandonTyped ==
    ASSUME Typed, NEW t \in Task, Abandon(t)
    PROVE  Typed'
<1>1. born' = born /\ Users' = Users /\ Token' = Token
  BY SameTokens DEF Abandon, account, Users
<1>2. Places' /\ Carries' /\ overtaken' \subseteq Task
  BY <1>1, AnswerTyped DEF Abandon
<1>3. Tables'
  BY <1>1 DEF Abandon, Tables, Typed, TypeOK, account, client
<1>4. lost' \subseteq Token
  <2>1. CASE pc[t] \in {"renew", "answer"} /\ job[t].token # 0
    <3>1. job[t].token \in Token
      BY <2>1 DEF Typed, TypeOK
    <3>2. SessionOf(job[t].token) \in Token
      BY <3>1, SessionType DEF Typed
    <3> QED BY <2>1, <3>2 DEF Abandon, Typed, TypeOK
  <2>2. CASE ~(pc[t] \in {"renew", "answer"} /\ job[t].token # 0)
    BY <2>2 DEF Abandon, Typed, TypeOK
  <2> QED BY <2>1, <2>2
<1>5. unrevoked' \subseteq Name
  <2>1. pc[t] = "revoke" => job[t].user \in Name
    BY DEF Typed, Carries, Fits, Users
  <2> QED BY <2>1 DEF Abandon, Typed, TypeOK
<1>6. reopened' \in BOOLEAN
  BY DEF Abandon, Typed, TypeOK
<1>7. Past'
  BY <1>2, <1>4, <1>5, <1>6, PastStays DEF Abandon, Typed, TypeOK
<1> QED BY <1>2, <1>3, <1>7, Parts DEF Typed

LEMMA ExpiryTyped ==
    ASSUME Typed,
           \/ \E i \in tokens : Expire(i)
           \/ \E n \in access : AccessExpires(n)
           \/ \E b \in Browser : CookieExpires(b)
    PROVE  Typed'
<1>1. /\ UNCHANGED <<pc, job, born, password>> /\ Users' = Users /\ Token' = Token
  BY SameTokens DEF Expire, AccessExpires, CookieExpires, account, past, Users
<1>2. Places' /\ Carries'
  BY <1>1, StayTyped
<1>3. CASE \E i \in tokens : Expire(i)
  <2>1. PICK i \in tokens : Expire(i)
    BY <1>3
  <2>2. {i} \in SUBSET tokens /\ Holding({i}) \in SUBSET Task /\ Remove({i}, Holding({i}))
    BY <2>1 DEF Holding, Expire
  <2>3. tokens' \subseteq Token /\ ended' \subseteq Token /\ overtaken' \subseteq Task
    BY <2>2, RemoveTyped
  <2>4. Tables'
    BY <1>1, <2>1, <2>3 DEF Expire, Tables, Typed, TypeOK, account, client
  <2>5. Past'
    BY <2>1, <2>3, PastStays DEF Expire, Typed, TypeOK
  <2> QED BY <1>2, <2>4, <2>5, Parts DEF Typed
<1>4. CASE \E n \in access : AccessExpires(n)
  <2>1. Tables'
    BY <1>1, <1>4 DEF AccessExpires, Tables, Typed, TypeOK, account
  <2>2. Past'
    BY <1>4, PastStays DEF AccessExpires, past, Typed, TypeOK
  <2> QED BY <1>2, <2>1, <2>2, Parts DEF Typed
<1>5. CASE \E b \in Browser : CookieExpires(b)
  <2>1. Tables'
    BY <1>1, <1>5 DEF CookieExpires, Tables, Typed, TypeOK, account
  <2>2. Past'
    BY <1>5, PastStays DEF CookieExpires, past, Typed, TypeOK
  <2> QED BY <1>2, <2>1, <2>2, Parts DEF Typed
<1> QED BY <1>3, <1>4, <1>5

LEMMA NextTyped ==
    ASSUME Typed, [Next]_vars
    PROVE  Typed'
<1>1. ASSUME NEW t \in Task, Requests(t) PROVE Typed'
  BY <1>1, RequestsTyped
<1>2. ASSUME NEW t \in Task, Proceed(t) PROVE Typed'
  BY <1>2, SetupTyped, GrantTyped, RenewTyped, FindTyped, SessionStepsTyped, UpdateTyped, RevokeTyped
     DEF Proceed
<1>3. ASSUME NEW t \in Task, Abandon(t) PROVE Typed'
  BY <1>3, AbandonTyped
<1>4. CASE UNCHANGED vars
  <2>1. UNCHANGED <<pc, job, born, password, complete, username, tokens, access, jar, asked>>
        /\ UNCHANGED past
    BY <1>4 DEF vars, account, client, past
  <2>2. Places' /\ Carries' /\ Token' = Token /\ Users' = Users
    BY <2>1, StayTyped, SameTokens DEF Users
  <2>3. Tables' /\ Past'
    BY <2>1, <2>2, PastStays DEF Tables, Typed, TypeOK, past
  <2> QED BY <2>2, <2>3, Parts DEF Typed
<1> QED BY <1>1, <1>2, <1>3, <1>4, ExpiryTyped DEF Next

\* Every row, cookie, access token and handler refers to a token that was issued and to a
\* user that exists, whatever handlers overlap and wherever they stop (api/auth.rs).
THEOREM TypeCorrect == Spec => []TypeOK
<1>1. Typed /\ [Next]_vars => Typed'
  BY NextTyped
<1>2. Typed => TypeOK
  BY DEF Typed
<1> QED BY InitTyped, <1>1, <1>2, PTL DEF Spec
=============================================================================
