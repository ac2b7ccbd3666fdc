--------------------------- MODULE Sessions_proofs ---------------------------
(***************************************************************************)
(* Proofs about Sessions, for any number of logins, requests and passwords *)
(* and any sets of faults.                                                 *)
(***************************************************************************)
EXTENDS Sessions, TLAPS

\* A token's row exists once its login was answered, and not before the INSERT.
LoginInv(t) ==
  /\ login[t] = "in" => session[t] # "absent"
  /\ login[t] \in {"idle", "verified"} => session[t] = "absent"

\* Where a request is tells what it asks for, what it was told, which lock it
\* has and what its transaction has updated.
RequestInv(r) ==
  /\ pc[r] \in InFlight => req[r] \in Asks /\ login[req[r].cookie] = "in"
  /\ pc[r] \in Points \ {"done"} => answer[r] = "none" /\ r \notin changed
  /\ pc[r] = "logout" => req[r].kind = "logout"
  /\ pc[r] \in {"check", "updateUser", "revokeAll", "commit"} => req[r].kind = "change"
  /\ pc[r] \in {"updateUser", "revokeAll", "commit"} => req[r].next \in Passwords
  /\ pc[r] \in {"revokeAll", "commit"} => lock = r
  /\ pc[r] = "commit" =>
       before[r] \subseteq staged /\ \A t \in staged : session[t] # "absent"
  /\ \A t \in before[r] : session[t] # "absent"

IndInv ==
  /\ TypeOK
  /\ \A t \in Tokens : LoginInv(t)
  /\ \A r \in Requests : RequestInv(r)
  /\ ChangeRevokes
  /\ AnswersTrue

LEMMA AsksOf ==
  ASSUME NEW a \in Asks
  PROVE  /\ a.kind \in {"logout", "change"}
         /\ a.cookie \in Tokens
         /\ a.kind = "change" =>
              a.current \in Passwords /\ a.next \in Passwords \cup {TooShort}
BY DEF Asks

LEMMA AskedCookie ==
  ASSUME TypeOK, NEW r \in Requests, req[r] \in Asks \/ req[r].kind = "logout"
  PROVE  req[r].cookie \in Tokens
<1>1. req[r] \in Asks \cup {NotAsked}
  BY DEF TypeOK
<1> QED
  BY <1>1, AsksOf DEF NotAsked

LEMMA IndInit == Init => IndInv
<1> SUFFICES ASSUME Init PROVE IndInv
  OBVIOUS
<1>1. TypeOK
  BY DEF Init, TypeOK, Points
<1>2. \A t \in Tokens : LoginInv(t)
  BY DEF Init, LoginInv
<1>3. \A r \in Requests : RequestInv(r)
  BY DEF Init, RequestInv, InFlight
<1>4. ChangeRevokes
  BY DEF Init, ChangeRevokes
<1>5. AnswersTrue
  BY DEF Init, AnswersTrue
<1> QED
  BY <1>1, <1>2, <1>3, <1>4, <1>5 DEF IndInv

\* Logins: only the session row of a token that had none changes.
LEMMA IndLogin ==
  ASSUME NEW t \in Tokens, IndInv, Login(t) \/ Expire(t)
  PROVE  IndInv'
<1> USE DEF rows, transaction
<1>1. CASE VerifyLogin(t) \/ LoginFails(t)
  <2>1. TypeOK'
    BY <1>1 DEF VerifyLogin, LoginFails, IndInv, TypeOK
  <2>2. \A s \in Tokens : LoginInv(s)'
    BY <1>1 DEF VerifyLogin, LoginFails, IndInv, LoginInv, TypeOK
  <2>3. \A r \in Requests : RequestInv(r)'
    <3>1. \A s \in Tokens : login[s] = "in" => login'[s] = "in"
      BY <1>1 DEF VerifyLogin, LoginFails, IndInv, TypeOK
    <3>2. \A r \in Requests : req[r] \in Asks => req[r].cookie \in Tokens
      BY AskedCookie DEF IndInv
    <3> QED
      BY <1>1, <3>1, <3>2 DEF VerifyLogin, LoginFails, IndInv, RequestInv
  <2> QED
    BY <1>1, <2>1, <2>2, <2>3
    DEF VerifyLogin, LoginFails, IndInv, ChangeRevokes, AnswersTrue
<1>2. CASE InsertSession(t)
  <2>1. TypeOK'
    BY <1>2 DEF InsertSession, IndInv, TypeOK
  <2>2. /\ session[t] = "absent"
        /\ session' = [session EXCEPT ![t] = "live"]
        /\ session \in [Tokens -> {"absent", "live", "revoked"}]
    BY <1>2 DEF InsertSession, IndInv, LoginInv, TypeOK
  <2>3. \A s \in Tokens : LoginInv(s)'
    BY <1>2, <2>2 DEF InsertSession, IndInv, LoginInv, TypeOK
  <2>4. \A r \in Requests : RequestInv(r)'
    <3> SUFFICES ASSUME NEW r \in Requests PROVE RequestInv(r)'
      OBVIOUS
    <3>1. RequestInv(r) /\ before[r] \subseteq Tokens /\ staged \subseteq Tokens
      BY DEF IndInv, TypeOK
    <3>2. req[r] \in Asks => req[r].cookie \in Tokens
      BY AskedCookie DEF IndInv
    <3>3. \A s \in Tokens : login[s] = "in" => login'[s] = "in"
      BY <1>2 DEF InsertSession, IndInv, TypeOK
    <3>4. \A s \in Tokens : session[s] # "absent" => session'[s] # "absent"
      BY <2>2
    <3>5. UNCHANGED <<pc, req, answer, lock, staged, before, changed>>
      BY <1>2 DEF InsertSession
    <3> QED
      BY <3>1, <3>2, <3>3, <3>4, <3>5 DEF RequestInv
  <2>5. ChangeRevokes'
    BY <1>2, <2>2 DEF InsertSession, IndInv, ChangeRevokes, TypeOK
  <2>6. AnswersTrue'
    BY <1>2, <2>2 DEF InsertSession, IndInv, AnswersTrue, TypeOK
  <2> QED
    BY <2>1, <2>3, <2>4, <2>5, <2>6 DEF IndInv
<1>3. CASE Expire(t)
  BY <1>3 DEF Expire, IndInv, TypeOK, LoginInv, RequestInv, ChangeRevokes, AnswersTrue
<1> QED
  BY <1>1, <1>2, <1>3 DEF Login

\* A step of a request under way that changes no row: the invariant has to be
\* shown of that request and of its answer only.
LEMMA IndQuiet ==
  ASSUME NEW r \in Requests, IndInv, TypeOK', r \notin changed,
         UNCHANGED <<rows, login, faults>>,
         \A q \in Requests \ {r} :
           /\ pc'[q] = pc[q] /\ req'[q] = req[q] /\ answer'[q] = answer[q]
           /\ before'[q] = before[q]
           /\ pc[q] \in {"revokeAll", "commit"} => UNCHANGED transaction,
         RequestInv(r)',
         answer'[r] = "ok" => req'[r].kind = "logout" /\ "statement" \in faults
  PROVE  IndInv'
<1> USE DEF rows, transaction
<1>1. \A t \in Tokens : LoginInv(t)'
  BY DEF IndInv, LoginInv
<1>2. \A q \in Requests : RequestInv(q)'
  BY DEF IndInv, RequestInv
<1>3. ChangeRevokes'
  BY DEF IndInv, ChangeRevokes, TypeOK
<1>4. AnswersTrue'
  BY DEF IndInv, AnswersTrue
<1> QED
  BY <1>1, <1>2, <1>3, <1>4 DEF IndInv

\* A request under way is not changed yet and was told nothing, and only the
\* one with the lock is past UpdateUser.
LEMMA UnderWay ==
  ASSUME NEW r \in Requests, IndInv, pc[r] # "done"
  PROVE  /\ r \notin changed
         /\ answer[r] = "none"
         /\ pc[r] \in InFlight => req[r] \in Asks /\ login[req[r].cookie] = "in"
         /\ \A t \in before[r] : session[t] # "absent"
         /\ \A q \in Requests : pc[q] \in {"revokeAll", "commit"} => lock = q
BY DEF IndInv, RequestInv, TypeOK

LEMMA IndArrive ==
  ASSUME NEW r \in Requests, IndInv, Arrive(r)
  PROVE  IndInv'
<1> USE DEF rows, transaction
<1>1. PICK a \in Asks : login[a.cookie] = "in" /\ req' = [req EXCEPT ![r] = a]
  BY DEF Arrive
<1>2. TypeOK'
  BY <1>1 DEF Arrive, Goto, IndInv, TypeOK, Points
<1>3. /\ req'[r] = a /\ pc'[r] = "auth" /\ answer'[r] = "none" /\ r \notin changed'
      /\ before'[r] = {t \in Tokens : login[t] = "in"}
  BY <1>1, UnderWay DEF Arrive, Goto, IndInv, TypeOK
<1>4. RequestInv(r)'
  BY <1>1, <1>3 DEF Arrive, IndInv, RequestInv, LoginInv
<1>5. \A q \in Requests \ {r} :
        /\ pc'[q] = pc[q] /\ req'[q] = req[q] /\ answer'[q] = answer[q]
        /\ before'[q] = before[q]
  BY <1>1 DEF Arrive, Goto, IndInv, TypeOK
<1>6. r \notin changed
  BY UnderWay DEF Arrive
<1>7. UNCHANGED <<rows, login, faults, transaction>>
  BY DEF Arrive
<1> QED
  BY <1>2, <1>3, <1>4, <1>5, <1>6, <1>7, IndQuiet

\* Common to the steps after Arrive that change no row: a request goes to a
\* point or is answered, and nothing else of the requests changes.
LEMMA IndStep ==
  ASSUME NEW r \in Requests, IndInv,
         NEW point \in Points, NEW what \in {"none", "refused", "error", "ok"},
         pc[r] \in InFlight,
         pc' = [pc EXCEPT ![r] = point],
         answer' = [answer EXCEPT ![r] = what],
         UNCHANGED <<rows, expired, login, req, before, faults>>,
         point # "done" => what = "none",
         point = "logout" => req[r].kind = "logout",
         point \in {"check", "updateUser", "revokeAll", "commit"}
           => req[r].kind = "change",
         point \in {"updateUser", "revokeAll", "commit"} => req[r].next \in Passwords,
         point \in {"revokeAll", "commit"} => lock' = r,
         point = "commit" =>
           before[r] \subseteq staged' /\ \A t \in staged' : session[t] # "absent",
         what = "ok" => req[r].kind = "logout" /\ "statement" \in faults,
         \/ lock' = NoRequest /\ staged' = {} /\ lock \in {NoRequest, r}
         \/ lock' = r /\ staged' \subseteq Tokens /\ lock \in {NoRequest, r}
              /\ point \in {"revokeAll", "commit"}
         \/ UNCHANGED transaction /\ lock # r
  PROVE  IndInv'
<1> USE DEF rows, transaction
<1>1. /\ pc \in [Requests -> Points] /\ answer \in [Requests -> {"none", "refused", "error", "ok"}]
      /\ r # NoRequest
  BY RequestsAssumption DEF IndInv, TypeOK
<1>2. TypeOK'
  BY <1>1 DEF IndInv, TypeOK
<1>3. /\ pc[r] # "done" /\ r \notin changed
      /\ req[r] \in Asks /\ login[req[r].cookie] = "in"
      /\ \A t \in before[r] : session[t] # "absent"
      /\ \A q \in Requests : pc[q] \in {"revokeAll", "commit"} => lock = q
  BY UnderWay DEF InFlight
<1>4. RequestInv(r)'
  BY <1>1, <1>3 DEF RequestInv, InFlight, Points
<1>5. \A q \in Requests \ {r} :
        /\ pc'[q] = pc[q] /\ req'[q] = req[q] /\ answer'[q] = answer[q]
        /\ before'[q] = before[q]
        /\ pc[q] \in {"revokeAll", "commit"} => UNCHANGED transaction
  BY <1>1, <1>3, RequestsAssumption
<1>6. answer'[r] = "ok" => req'[r].kind = "logout" /\ "statement" \in faults
  BY <1>1
<1>7. UNCHANGED <<rows, login, faults>>
  OBVIOUS
<1> QED
  BY <1>2, <1>3, <1>4, <1>5, <1>6, <1>7, IndQuiet

\* What IndStep needs to know of a request that has not been answered.
LEMMA NotAnswered ==
  ASSUME NEW r \in Requests, IndInv, pc[r] \in InFlight
  PROVE  /\ answer = [answer EXCEPT ![r] = "none"]
         /\ r # NoRequest
         /\ req[r] \in Asks
         /\ pc[r] \notin {"revokeAll", "commit"} => lock # r
<1>1. answer[r] = "none" /\ answer \in [Requests -> {"none", "refused", "error", "ok"}]
  BY UnderWay DEF IndInv, TypeOK, InFlight
<1>2. r # NoRequest /\ req[r] \in Asks
  BY UnderWay, RequestsAssumption DEF InFlight
<1>3. pc[r] \notin {"revokeAll", "commit"} => lock # r
  BY <1>2 DEF IndInv, TypeOK
<1> QED
  BY <1>1, <1>2, <1>3

LEMMA IndRequire ==
  ASSUME NEW r \in Requests, IndInv, require(r)
  PROVE  IndInv'
<1> USE DEF rows, transaction
<1>1. /\ pc[r] = "auth" /\ pc[r] \in InFlight
      /\ UNCHANGED <<rows, expired, login, req, before, faults, transaction>>
  BY DEF require, InFlight, Points
<1>2. /\ answer = [answer EXCEPT ![r] = "none"]
      /\ req[r].kind \in {"logout", "change"} /\ lock # r
  BY <1>1, NotAnswered, AsksOf
<1>3. CASE /\ pc' = [pc EXCEPT ![r] = IF req[r].kind = "logout" THEN "logout" ELSE "check"]
           /\ UNCHANGED answer
  <2>1. CASE req[r].kind = "logout"
    <3>1. pc' = [pc EXCEPT ![r] = "logout"]
      BY <1>3, <2>1
    <3> QED
      BY <1>1, <1>2, <1>3, <2>1, <3>1, IndStep DEF Points
  <2>2. CASE req[r].kind = "change"
    <3>1. pc' = [pc EXCEPT ![r] = "check"]
      BY <1>3, <2>2
    <3> QED
      BY <1>1, <1>2, <1>3, <2>2, <3>1, IndStep DEF Points
  <2> QED
    BY <1>2, <2>1, <2>2
<1>4. CASE Answer(r, "refused")
  BY <1>1, <1>2, <1>4, IndStep DEF Answer, Goto, Points
<1> QED
  BY <1>3, <1>4 DEF require, Goto

\* An error of ChangePassword.
LEMMA IndFail ==
  ASSUME NEW r \in Requests, IndInv, Fail(r),
         pc[r] \in {"check", "updateUser", "revokeAll", "commit"},
         UNCHANGED <<rows, expired, login, req, before, faults>>
  PROVE  IndInv'
<1>1. pc[r] \in InFlight
  BY DEF InFlight, Points
<1>2. \/ lock' = NoRequest /\ staged' = {} /\ lock \in {NoRequest, r}
      \/ UNCHANGED transaction /\ lock # r
  BY DEF Fail, transaction
<1>3. pc' = [pc EXCEPT ![r] = "done"] /\ answer' = [answer EXCEPT ![r] = "error"]
  BY DEF Fail, Answer, Goto
<1> QED
  BY <1>1, <1>2, <1>3, IndStep DEF Points

LEMMA IndCheckPassword ==
  ASSUME NEW r \in Requests, IndInv, CheckPassword(r)
  PROVE  IndInv'
<1>1. /\ pc[r] = "check" /\ pc[r] \in InFlight
      /\ UNCHANGED <<rows, expired, login, req, before, faults>>
  BY DEF CheckPassword, InFlight, Points
<1>2. CASE /\ req[r].next # TooShort
           /\ Goto(r, "updateUser") /\ UNCHANGED <<answer, transaction>>
  <2>1. req[r].kind = "change" /\ req[r].next \in Passwords
    BY <1>1, <1>2, NotAnswered, AsksOf DEF IndInv, RequestInv
  <2> QED
    BY <1>1, <1>2, <2>1, NotAnswered, IndStep DEF Goto, Points
<1>3. CASE Fail(r)
  BY <1>1, <1>3, IndFail
<1> QED
  BY <1>2, <1>3 DEF CheckPassword

LEMMA IndUpdateUser ==
  ASSUME NEW r \in Requests, IndInv, UpdateUser(r)
  PROVE  IndInv'
<1>1. /\ pc[r] = "updateUser" /\ pc[r] \in InFlight
      /\ UNCHANGED <<rows, expired, login, req, before, faults>>
      /\ lock = NoRequest /\ lock' = r /\ staged' = staged
      /\ pc' = [pc EXCEPT ![r] = "revokeAll"]
  BY DEF UpdateUser, Goto, InFlight, Points
<1>2. req[r].kind = "change" /\ req[r].next \in Passwords /\ staged' \subseteq Tokens
  BY <1>1 DEF IndInv, RequestInv, TypeOK
<1>3. answer' = [answer EXCEPT ![r] = "none"]
  BY <1>1, NotAnswered DEF UpdateUser
<1> QED
  BY <1>1, <1>2, <1>3, IndStep DEF Points

\* The rows that exist include the one of every session answered before.
LEMMA IndRevokeSessions ==
  ASSUME NEW r \in Requests, IndInv, RevokeSessions(r)
  PROVE  IndInv'
<1>1. /\ pc[r] = "revokeAll" /\ pc[r] \in InFlight
      /\ UNCHANGED <<rows, expired, login, req, before, faults>>
      /\ lock' = lock
      /\ pc' = [pc EXCEPT ![r] = "commit"]
  BY DEF RevokeSessions, Goto, InFlight, Points
<1>2. /\ req[r].kind = "change" /\ req[r].next \in Passwords /\ lock = r
      /\ before[r] \subseteq staged' /\ staged' \subseteq Tokens
      /\ \A t \in staged' : session[t] # "absent"
  BY <1>1 DEF RevokeSessions, IndInv, RequestInv, TypeOK
<1>3. answer' = [answer EXCEPT ![r] = "none"]
  BY <1>1, NotAnswered DEF RevokeSessions
<1> QED
  BY <1>1, <1>2, <1>3, IndStep DEF Points

LEMMA IndStatementFails ==
  ASSUME NEW r \in Requests, IndInv, StatementFails(r)
  PROVE  IndInv'
<1>1. /\ "statement" \in faults
      /\ UNCHANGED <<rows, expired, login, req, before, faults>>
  BY DEF StatementFails
<1>2. CASE pc[r] = "auth" /\ Answer(r, "refused") /\ UNCHANGED transaction
  <2>1. pc[r] \in InFlight
    BY <1>2 DEF InFlight, Points
  <2> QED
    BY <1>1, <1>2, <2>1, NotAnswered, IndStep DEF Answer, Goto, Points
<1>3. CASE pc[r] = "logout" /\ Answer(r, "ok") /\ UNCHANGED transaction
  <2>1. pc[r] \in InFlight /\ req[r].kind = "logout"
    BY <1>3 DEF InFlight, Points, IndInv, RequestInv
  <2> QED
    BY <1>1, <1>3, <2>1, NotAnswered, IndStep DEF Answer, Goto, Points
<1>4. CASE pc[r] \in {"check", "updateUser", "revokeAll", "commit"} /\ Fail(r)
  BY <1>1, <1>4, IndFail
<1> QED
  BY <1>2, <1>3, <1>4 DEF StatementFails

\* Revoking a session keeps what the rows say: it existed, since its login was
\* answered, and revoked sessions stay revoked.
LEMMA IndLogout ==
  ASSUME NEW r \in Requests, IndInv, logout(r)
  PROVE  IndInv'
<1> USE DEF rows, transaction
<1> DEFINE c == req[r].cookie
<1>1. /\ pc[r] = "logout" /\ pc[r] \in InFlight /\ pc[r] # "done"
      /\ session' = [session EXCEPT ![c] = "revoked"]
      /\ pc' = [pc EXCEPT ![r] = "done"] /\ answer' = [answer EXCEPT ![r] = "ok"]
      /\ UNCHANGED <<password, changed, expired, login, req, lock, staged, before, faults>>
  BY DEF logout, Answer, Goto, InFlight, Points
<1>2. c \in Tokens /\ req[r].kind = "logout" /\ r \notin changed /\ lock # r
  BY <1>1, UnderWay, NotAnswered, AsksOf DEF IndInv, RequestInv
<1>3. TypeOK'
  BY <1>1, <1>2 DEF IndInv, TypeOK, Points
<1>4. /\ session \in [Tokens -> {"absent", "live", "revoked"}]
      /\ pc \in [Requests -> Points]
      /\ answer \in [Requests -> {"none", "refused", "error", "ok"}]
      /\ \A q \in Requests : before[q] \subseteq Tokens
      /\ \A t \in Tokens : session'[t] = session[t] \/ session'[t] = "revoked"
  BY <1>1, <1>2 DEF IndInv, TypeOK
<1>5. login[c] \notin {"idle", "verified"}
  BY <1>1, <1>2, UnderWay
<1>6. \A t \in Tokens : LoginInv(t)'
  BY <1>1, <1>2, <1>4, <1>5 DEF IndInv, LoginInv
<1>7. \A q \in Requests : RequestInv(q)'
  BY <1>1, <1>2, <1>4 DEF IndInv, RequestInv, InFlight, Points
<1>8. ChangeRevokes'
  BY <1>1, <1>4 DEF IndInv, ChangeRevokes, TypeOK
<1>9. AnswersTrue'
  <2> SUFFICES ASSUME NEW q \in Requests
               PROVE  /\ answer'[q] = "ok" /\ req[q].kind = "change" => q \in changed
                      /\ answer'[q] \in {"refused", "error"} /\ "lostReply" \notin faults
                           => q \notin changed
                      /\ answer'[q] = "ok" /\ req[q].kind = "logout"
                           /\ "statement" \notin faults
                           => session'[req[q].cookie] = "revoked"
    BY <1>1 DEF AnswersTrue
  <2>1. CASE q = r
    BY <1>1, <1>2, <1>4, <2>1
  <2>2. CASE q # r
    BY <1>1, <1>2, <1>4, <2>2 DEF IndInv, AnswersTrue
  <2> QED
    BY <2>1, <2>2
<1> QED
  BY <1>3, <1>6, <1>7, <1>8, <1>9 DEF IndInv

\* COMMIT: whichever answer the caller gets, the sessions of before are among
\* the staged rows.
LEMMA IndCommit ==
  ASSUME NEW r \in Requests, IndInv, CommitChange(r) \/ CommitLost(r)
  PROVE  IndInv'
<1> USE DEF rows, transaction
<1>1. PICK what \in {"ok", "error"} :
        /\ answer' = [answer EXCEPT ![r] = what]
        /\ what = "error" => "lostReply" \in faults
  BY DEF CommitChange, CommitLost, Answer
<1>2. /\ pc[r] = "commit" /\ pc[r] \in InFlight /\ pc[r] # "done"
      /\ pc' = [pc EXCEPT ![r] = "done"]
      /\ password' = req[r].next
      /\ session' = [t \in Tokens |-> IF t \in staged THEN "revoked" ELSE session[t]]
      /\ changed' = changed \cup {r}
      /\ lock' = NoRequest /\ staged' = {}
      /\ UNCHANGED <<expired, login, req, before, faults>>
  BY DEF CommitChange, CommitLost, Durable, Answer, Goto, InFlight, Points
<1>3. /\ req[r].kind = "change" /\ req[r].next \in Passwords
      /\ before[r] \subseteq staged /\ before[r] \subseteq Tokens
      /\ lock = r /\ r # NoRequest
      /\ \A q \in Requests : pc[q] \in {"revokeAll", "commit"} => q = r
  BY <1>2, RequestsAssumption DEF IndInv, RequestInv, TypeOK
<1>4. TypeOK'
  BY <1>1, <1>2, <1>3 DEF IndInv, TypeOK, Points
<1>5. /\ session \in [Tokens -> {"absent", "live", "revoked"}]
      /\ pc \in [Requests -> Points]
      /\ answer \in [Requests -> {"none", "refused", "error", "ok"}]
      /\ \A q \in Requests : before[q] \subseteq Tokens
      /\ \A t \in Tokens : session'[t] = session[t] \/ session'[t] = "revoked"
      /\ \A t \in staged : session[t] # "absent"
      /\ \A t \in Tokens \ staged : session'[t] = session[t]
      /\ \A t \in staged : t \in Tokens /\ session'[t] = "revoked"
  BY <1>2, <1>3 DEF IndInv, TypeOK, RequestInv
<1>6. \A t \in Tokens : LoginInv(t)'
  BY <1>2, <1>5 DEF IndInv, LoginInv
<1>7. \A q \in Requests : RequestInv(q)'
  BY <1>1, <1>2, <1>3, <1>5 DEF IndInv, RequestInv, InFlight, Points
<1>8. ChangeRevokes'
  BY <1>2, <1>3, <1>5 DEF IndInv, ChangeRevokes, TypeOK
<1>9. AnswersTrue'
  <2>1. \A q \in Requests : req[q].kind = "logout" => req[q].cookie \in Tokens
    BY AskedCookie DEF IndInv
  <2> QED
    BY <1>1, <1>2, <1>3, <1>5, <2>1 DEF IndInv, AnswersTrue
<1> QED
  BY <1>4, <1>6, <1>7, <1>8, <1>9 DEF IndInv

LEMMA IndRestart ==
  ASSUME IndInv, Restart
  PROVE  IndInv'
<1> USE DEF rows, transaction, Restart
<1>1. TypeOK'
  BY DEF IndInv, TypeOK, Points
<1>2. \A t \in Tokens : LoginInv(t)'
  BY DEF IndInv, LoginInv, TypeOK
<1>3. \A r \in Requests : RequestInv(r)'
  BY DEF IndInv, RequestInv, TypeOK, InFlight, Points
<1>4. ChangeRevokes' /\ AnswersTrue'
  BY DEF IndInv, ChangeRevokes, AnswersTrue
<1> QED
  BY <1>1, <1>2, <1>3, <1>4 DEF IndInv

LEMMA IndNext == IndInv /\ [Next]_vars => IndInv'
<1> SUFFICES ASSUME IndInv, [Next]_vars PROVE IndInv'
  OBVIOUS
<1>1. ASSUME NEW t \in Tokens, Login(t) \/ Expire(t) PROVE IndInv'
  BY <1>1, IndLogin
<1>2. ASSUME NEW r \in Requests, Arrive(r) PROVE IndInv'
  BY <1>2, IndArrive
<1>3. ASSUME NEW r \in Requests, Handle(r) PROVE IndInv'
  <2>1. CASE require(r)
    BY <2>1, IndRequire
  <2>2. CASE logout(r)
    BY <2>2, IndLogout
  <2>3. CASE CheckPassword(r)
    BY <2>3, IndCheckPassword
  <2>4. CASE UpdateUser(r)
    BY <2>4, IndUpdateUser
  <2>5. CASE RevokeSessions(r)
    BY <2>5, IndRevokeSessions
  <2>6. CASE CommitChange(r)
    BY <2>6, IndCommit
  <2> QED
    BY <1>3, <2>1, <2>2, <2>3, <2>4, <2>5, <2>6 DEF Handle, ChangePassword
<1>4. ASSUME NEW r \in Requests, StatementFails(r) PROVE IndInv'
  BY <1>4, IndStatementFails
<1>5. ASSUME NEW r \in Requests, CommitLost(r) PROVE IndInv'
  BY <1>5, IndCommit
<1>6. CASE Restart
  BY <1>6, IndRestart
<1>7. CASE UNCHANGED vars
  BY <1>7 DEF vars, rows, transaction, IndInv, TypeOK, LoginInv, RequestInv,
              ChangeRevokes, AnswersTrue
<1> QED
  BY <1>1, <1>2, <1>3, <1>4, <1>5, <1>6, <1>7 DEF Next

LEMMA Inductive == Spec => []IndInv
BY IndInit, IndNext, PTL DEF Spec

\* The types hold, and the user's row is never locked by a request that is not
\* inside ChangePassword's transaction: every error path rolls back.
THEOREM TypeCorrect == Spec => []TypeOK
<1>1. IndInv => TypeOK
  BY DEF IndInv
<1> QED
  BY <1>1, Inductive, PTL

\* ChangePassword: a durable change has revoked every session that was handed
\* out before the change was asked for, whatever logins, logouts, other changes,
\* failing statements, lost replies and restarts come between.
THEOREM ChangesRevoke == Spec => []ChangeRevokes
<1>1. IndInv => ChangeRevokes
  BY DEF IndInv
<1> QED
  BY <1>1, Inductive, PTL

\* The answers of logout and ChangePassword agree with the rows.
THEOREM AnswersAreTrue == Spec => []AnswersTrue
<1>1. IndInv => AnswersTrue
  BY DEF IndInv
<1> QED
  BY <1>1, Inductive, PTL
=============================================================================
