------------------------------ MODULE Sessions ------------------------------
(***************************************************************************)
(* The sessions of one user: logins that create them, and the logout and   *)
(* password-change requests that revoke them, all running concurrently.    *)
(*                                                                         *)
(* ChangePassword reads and verifies the hash first and only then opens a  *)
(* transaction, which updates the user's row and revokes the sessions.     *)
(* The first UPDATE locks the row, so one such transaction runs at a time; *)
(* the second locks the session rows it finds.  Rows inserted by a login   *)
(* after that statement are not among them: the INSERT waits for no lock.  *)
(* Audit rows, whose errors are ignored, are left out, and so are roles:   *)
(* the three routes ask for no permission.                                 *)
(***************************************************************************)
EXTENDS Naturals

CONSTANTS
  Tokens,      \* random tokens, one for each Login that may happen
  Requests,    \* logout and password requests that may arrive
  Passwords,   \* acceptable passwords
  TooShort,    \* a password that HashPassword refuses
  NoRequest,   \* "the user's row is not locked"
  FaultSets    \* what may go wrong together: sets of FaultKinds

\* statement: a statement fails, or the client has gone and its context is
\* done.  lostReply: a write takes effect although its caller gets an error.
\* restart: the process dies with the requests in it.
FaultKinds == {"statement", "lostReply", "restart"}

ASSUME RequestsAssumption == NoRequest \notin Requests
ASSUME PasswordsAssumption == TooShort \notin Passwords
ASSUME SessionFaultsAssumption == FaultSets \subseteq SUBSET FaultKinds

VARIABLES
  password,    \* users.password_hash: the password it was made from
  session,     \* rows of sessions: absent, live or revoked
  expired,     \* tokens whose expires_at has passed
  login,       \* Login by token: idle, verified, in (answered) or failed
  pc, req,     \* each request: where it is, and what it asks for
  answer,      \* what each request was told: none, refused, error or ok
  lock,        \* the request whose transaction has locked the user's row
  staged,      \* session rows that transaction has updated
  before,      \* tokens whose login was answered before the request came
  changed,     \* requests whose password change is durable
  faults       \* the faults this behaviour may suffer

rows == <<password, session, changed>>
transaction == <<lock, staged>>
vars == <<rows, expired, login, pc, req, answer, transaction, before, faults>>

Points == {"idle", "auth", "logout", "check", "updateUser", "revokeAll",
           "commit", "done", "gone"}
InFlight == Points \ {"idle", "done", "gone"}

\* What a request carries: the session cookie, and for a password change the
\* body.
Asks ==
  [kind : {"logout"}, cookie : Tokens]
    \cup [kind : {"change"}, cookie : Tokens,
          current : Passwords, next : Passwords \cup {TooShort}]

NotAsked == [kind |-> "none"]

Init ==
  /\ password \in Passwords
  /\ session = [t \in Tokens |-> "absent"]
  /\ expired = {}
  /\ login = [t \in Tokens |-> "idle"]
  /\ pc = [r \in Requests |-> "idle"]
  /\ req = [r \in Requests |-> NotAsked]
  /\ answer = [r \in Requests |-> "none"]
  /\ lock = NoRequest /\ staged = {}
  /\ before = [r \in Requests |-> {}]
  /\ changed = {}
  /\ faults \in FaultSets

-----------------------------------------------------------------------------
\* Store.Login, up to VerifyPassword, with some password.  It reads the hash
\* outside of any transaction.
VerifyLogin(t) ==
  /\ login[t] = "idle"
  /\ \E p \in Passwords :
       login' = [login EXCEPT ![t] = IF p = password THEN "verified" ELSE "failed"]
  /\ UNCHANGED <<rows, expired, pc, req, answer, transaction, before, faults>>

\* The INSERT of the session, and the answer with its cookies.
InsertSession(t) ==
  /\ login[t] = "verified"
  /\ session' = [session EXCEPT ![t] = "live"]
  /\ \/ login' = [login EXCEPT ![t] = "in"]
     \/ "lostReply" \in faults /\ login' = [login EXCEPT ![t] = "failed"]
  /\ UNCHANGED <<password, changed, expired, pc, req, answer, transaction, before, faults>>

LoginFails(t) ==
  /\ "statement" \in faults
  /\ login[t] \in {"idle", "verified"}
  /\ login' = [login EXCEPT ![t] = "failed"]
  /\ UNCHANGED <<rows, expired, pc, req, answer, transaction, before, faults>>

-----------------------------------------------------------------------------
Goto(r, point) == pc' = [pc EXCEPT ![r] = point]

Answer(r, what) ==
  /\ Goto(r, "done")
  /\ answer' = [answer EXCEPT ![r] = what]

\* A browser that was given the cookie sends the request.
Arrive(r) ==
  /\ pc[r] = "idle"
  /\ \E a \in Asks : login[a.cookie] = "in" /\ req' = [req EXCEPT ![r] = a]
  /\ Goto(r, "auth")
  /\ before' = [before EXCEPT ![r] = {t \in Tokens : login[t] = "in"}]
  /\ UNCHANGED <<rows, expired, login, answer, transaction, faults>>

\* The WHERE clause of Authenticate.
Valid(t) == session[t] = "live" /\ t \notin expired

\* Server.require: the session, then the CSRF header, which is the token that
\* was issued with the session or is not.
require(r) ==
  /\ pc[r] = "auth"
  /\ \E csrfMatches \in BOOLEAN :
     IF Valid(req[r].cookie) /\ csrfMatches
       THEN /\ Goto(r, IF req[r].kind = "logout" THEN "logout" ELSE "check")
            /\ UNCHANGED answer
       ELSE Answer(r, "refused")
  /\ UNCHANGED <<rows, expired, login, req, transaction, before, faults>>

\* Server.logout with Store.Revoke, which waits for a transaction that has
\* updated the row.
logout(r) ==
  /\ pc[r] = "logout" /\ req[r].cookie \notin staged
  /\ session' = [session EXCEPT ![req[r].cookie] = "revoked"]
  /\ Answer(r, "ok")
  /\ UNCHANGED <<password, changed, expired, login, req, transaction, before, faults>>

\* Mutant: the transaction is not rolled back.
Fail_NoRollback(r) ==
  /\ Answer(r, "error")
  /\ UNCHANGED transaction

\* Mutant: the error is swallowed.
Fail_Swallowed(r) ==
  /\ Answer(r, "ok")
  /\ IF lock = r THEN lock' = NoRequest /\ staged' = {} ELSE UNCHANGED transaction

\* ChangePassword returns an error; the deferred Rollback ends a transaction.
Fail(r) ==
  /\ Answer(r, "error")
  /\ IF lock = r THEN lock' = NoRequest /\ staged' = {} ELSE UNCHANGED transaction

\* ChangePassword before its transaction: the current password has to match
\* the hash that is read here, and the next one has to be acceptable.  (A body
\* that cannot be decoded ends in the same answer.)
CheckPassword(r) ==
  /\ pc[r] = "check"
  /\ IF req[r].current = password /\ req[r].next # TooShort
       THEN Goto(r, "updateUser") /\ UNCHANGED <<answer, transaction>>
       ELSE Fail(r)
  /\ UNCHANGED <<rows, expired, login, req, before, faults>>

\* Mutant: the UPDATE runs on the pool and not in the transaction.
UpdateUser_Autocommit(r) ==
  /\ pc[r] = "updateUser" /\ lock = NoRequest
  /\ lock' = r
  /\ password' = req[r].next /\ changed' = changed \cup {r}
  /\ Goto(r, "revokeAll")
  /\ UNCHANGED <<session, staged, expired, login, req, answer, before, faults>>

UpdateUser(r) ==
  /\ pc[r] = "updateUser" /\ lock = NoRequest
  /\ lock' = r
  /\ Goto(r, "revokeAll")
  /\ UNCHANGED <<rows, staged, expired, login, req, answer, before, faults>>

\* The second UPDATE takes every session row of the user that it sees.
RevokeSessions(r) ==
  /\ pc[r] = "revokeAll"
  /\ staged' = {t \in Tokens : session[t] # "absent"}
  /\ Goto(r, "commit")
  /\ UNCHANGED <<rows, lock, expired, login, req, answer, before, faults>>

\* What COMMIT makes durable, and the locks it releases.
Durable(r) ==
  /\ password' = req[r].next
  /\ session' = [t \in Tokens |-> IF t \in staged THEN "revoked" ELSE session[t]]
  /\ changed' = changed \cup {r}
  /\ lock' = NoRequest /\ staged' = {}

CommitChange(r) ==
  /\ pc[r] = "commit"
  /\ Durable(r)
  /\ Answer(r, "ok")
  /\ UNCHANGED <<expired, login, req, before, faults>>

-----------------------------------------------------------------------------
\* A statement of a request fails.  Authenticate's error is a 401; logout
\* ignores the error of Revoke; ChangePassword returns it.
StatementFails(r) ==
  /\ "statement" \in faults
  /\ \/ pc[r] = "auth" /\ Answer(r, "refused") /\ UNCHANGED transaction
     \/ pc[r] = "logout" /\ Answer(r, "ok") /\ UNCHANGED transaction
     \/ pc[r] \in {"check", "updateUser", "revokeAll", "commit"} /\ Fail(r)
  /\ UNCHANGED <<rows, expired, login, req, before, faults>>

\* The server commits and the caller gets an error.
CommitLost(r) ==
  /\ "lostReply" \in faults /\ pc[r] = "commit"
  /\ Durable(r)
  /\ Answer(r, "error")
  /\ UNCHANGED <<expired, login, req, before, faults>>

\* Twelve hours pass.
Expire(t) ==
  /\ session[t] # "absent" /\ t \notin expired
  /\ expired' = expired \cup {t}
  /\ UNCHANGED <<rows, login, pc, req, answer, transaction, before, faults>>

\* The process dies: what is in flight is gone, an open transaction rolls back.
Restart ==
  /\ "restart" \in faults
  /\ pc' = [r \in Requests |-> IF pc[r] \in InFlight THEN "gone" ELSE pc[r]]
  /\ login' = [t \in Tokens |-> IF login[t] = "verified" THEN "failed" ELSE login[t]]
  /\ lock' = NoRequest /\ staged' = {}
  /\ UNCHANGED <<rows, expired, req, answer, before, faults>>

Login(t) == VerifyLogin(t) \/ InsertSession(t) \/ LoginFails(t)

ChangePassword(r) ==
  CheckPassword(r) \/ UpdateUser(r) \/ RevokeSessions(r) \/ CommitChange(r)

Handle(r) == require(r) \/ logout(r) \/ ChangePassword(r)

Next ==
  \/ \E t \in Tokens : Login(t) \/ Expire(t)
  \/ \E r \in Requests :
       Arrive(r) \/ Handle(r) \/ StatementFails(r) \/ CommitLost(r)
  \/ Restart

Spec == Init /\ [][Next]_vars

\* A handler goes on when it can; no fault is bound to happen.
FairSpec == Spec /\ \A r \in Requests : WF_vars(Handle(r))

-----------------------------------------------------------------------------
\* The type of every variable; the user's row is locked only by a request
\* that is inside its transaction, and only then are there staged updates.
TypeOK ==
  /\ password \in Passwords
  /\ session \in [Tokens -> {"absent", "live", "revoked"}]
  /\ expired \subseteq Tokens
  /\ login \in [Tokens -> {"idle", "verified", "in", "failed"}]
  /\ pc \in [Requests -> Points]
  /\ req \in [Requests -> Asks \cup {NotAsked}]
  /\ answer \in [Requests -> {"none", "refused", "error", "ok"}]
  /\ lock # NoRequest => lock \in Requests /\ pc[lock] \in {"revokeAll", "commit"}
  /\ staged \subseteq (IF lock = NoRequest THEN {} ELSE Tokens)
  /\ before \in [Requests -> SUBSET Tokens]
  /\ changed \subseteq Requests
  /\ faults \in FaultSets

\* A password change that is durable, answered or not, has revoked every
\* session whose login was answered before the change was asked for
\* (docs/authentication.md: all are revoked on password change).
ChangeRevokes ==
  \A r \in changed : \A t \in before[r] : session[t] = "revoked"

\* The answers are true: a password change is reported done exactly if it is
\* durable, unless the reply to COMMIT is lost, and a logout only of a session
\* that is revoked, unless the ignored statement failed.
AnswersTrue ==
  \A r \in Requests :
    /\ answer[r] = "ok" /\ req[r].kind = "change" => r \in changed
    /\ answer[r] \in {"refused", "error"} /\ "lostReply" \notin faults => r \notin changed
    /\ answer[r] = "ok" /\ req[r].kind = "logout" /\ "statement" \notin faults
         => session[req[r].cookie] = "revoked"

\* Every request is answered, unless the process dies: nobody keeps the row
\* locks of an abandoned transaction.
RequestsReturn ==
  \A r \in Requests : (pc[r] \in InFlight) ~> (pc[r] \in {"done", "gone"})
=============================================================================
