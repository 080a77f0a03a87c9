------------------------------ MODULE Accounts ------------------------------
(***************************************************************************)
(* The accounts of the users: registration, login and password reset       *)
(* (api/v1/auth.py), the profile (api/v1/users.py), and the sessions that  *)
(* core/auth.py signs, for requests that run at the same time.             *)
(*                                                                         *)
(* A request is one transaction (get_async_session): it flushes what it    *)
(* changed, which takes the lock of its row and its place in the unique    *)
(* index of the emails, and commits after the handler returned. A flush    *)
(* waits for whoever holds either. Nothing deletes an account, so the      *)
(* handlers' answers to a missing one are not reached.                     *)
(*                                                                         *)
(* Reset tokens live in the memory of one API process. Another process     *)
(* knows none of them and refuses the request, which changes nothing; a    *)
(* restart forgets them. A password stands for the request that set it:    *)
(* each is hashed with a salt of its own, so no two hashes are equal.      *)
(***************************************************************************)
EXTENDS Naturals, FiniteSets

CONSTANTS
  Requests,             \* each made at most once; an account is named by the
                        \* request that registered it
  Emails,
  None,
  MaxTokens             \* bound: reset tokens issued

\* The columns of users that a request can set.
Columns == {"email", "password"}
Rows == [email : Emails, password : Requests]

ASSUME AccountsAssumption ==
  /\ None \notin Requests \cup Emails /\ None \notin Rows
  /\ MaxTokens \in Nat

\* What a request was asked to set, and what it has loaded.
Changes == [email : Emails \cup {None}, password : Requests \cup {None}]
NoChange == [email |-> None, password |-> None]

VARIABLES
  accounts,             \* committed rows of users, None where there is none
  req,                  \* the session of each request
  tokens,               \* _password_reset_tokens
  issued,               \* how many tokens so far, which name them
  sessions              \* accounts with an access token that has not expired

vars == <<accounts, req, tokens, issued, sessions>>

\* A session that has written nothing.
Session(op, pc, user, loaded, new, token) ==
  [op |-> op, pc |-> pc, user |-> user, new |-> new, loaded |-> loaded,
   written |-> {}, token |-> token]

Idle == Session("none", "idle", None, NoChange, NoChange, 0)

Init ==
  /\ accounts = [u \in Requests |-> None]
  /\ req = [r \in Requests |-> Idle]
  /\ tokens = {} /\ issued = 0 /\ sessions = {}

Users == {u \in Requests : accounts[u] # None}

Start(r, session) ==
  /\ req[r].pc = "idle"
  /\ req' = [req EXCEPT ![r] = session]
  /\ UNCHANGED <<accounts, issued, sessions>>

-----------------------------------------------------------------------------
(* Writing: flush and commit *)

\* Mutant: the row is written back as it was loaded.
WrittenWhole(r) == Columns

\* What SQLAlchemy writes: the columns set to another value than was loaded.
Written(r) == {c \in Columns : req[r].new[c] \notin {None, req[r].loaded[c]}}

\* The row as the session has it.
Row(r) == [email    |-> IF req[r].new.email = None THEN req[r].loaded.email
                        ELSE req[r].new.email,
           password |-> IF req[r].new.password = None THEN req[r].loaded.password
                        ELSE req[r].new.password]

\* Transactions that have flushed and not ended.
Pending(r) == req[r].pc \in {"use", "commit"}

\* The row is locked, or the email is in a transaction that may put it there or
\* take it away.
Waits(r) ==
  \E q \in Requests \ {r} :
    /\ Pending(q)
    /\ \/ Written(r) # {} /\ req[q].written # {} /\ req[q].user = req[r].user
       \/ /\ "email" \in Written(r) /\ "email" \in req[q].written
          /\ \/ Row(r).email = Row(q).email
             \/ req[q].user \in Users /\ Row(r).email = accounts[req[q].user].email

\* Mutant: the index is not unique.
TakenNever(r) == FALSE

\* ix_users_email_unique
Taken(r) ==
  "email" \in Written(r) /\ \E u \in Users \ {req[r].user} : accounts[u].email = Row(r).email

Flush(r) ==
  /\ req[r].pc = "flush" /\ ~Waits(r)
  /\ req' = [req EXCEPT ![r].pc = IF Taken(r) THEN "failed"
                                  ELSE IF req[r].op = "confirm" THEN "use" ELSE "commit",
                        ![r].written = Written(r)]
  /\ UNCHANGED <<accounts, tokens, issued, sessions>>

Commit(r) ==
  /\ req[r].pc = "commit"
  /\ LET kept == IF req[r].op = "register" THEN Row(r) ELSE accounts[req[r].user]
         Value(c) == IF c \in req[r].written THEN Row(r)[c] ELSE kept[c]
     IN accounts' = [accounts EXCEPT ![req[r].user] =
                       [email |-> Value("email"), password |-> Value("password")]]
  /\ req' = [req EXCEPT ![r].pc = "done"]
  /\ UNCHANGED <<tokens, issued, sessions>>

InFlight == {"check", "flush", "use", "commit"}

\* An error of the database, the commit's included: rollback.
Abort(r) ==
  /\ req[r].pc \in InFlight
  /\ req' = [req EXCEPT ![r].pc = "failed"]
  /\ UNCHANGED <<accounts, tokens, issued, sessions>>

-----------------------------------------------------------------------------
(* Registration, login, profile *)

\* Another account has the email, as far as is committed.
InUse(e, own) == \E u \in Users \ {own} : accounts[u].email = e

Register(r) ==
  /\ \E e \in Emails :
       Start(r, Session("register", IF InUse(e, None) THEN "refused" ELSE "flush", r,
                        NoChange, [email |-> e, password |-> r], 0))
  /\ UNCHANGED tokens

\* Mutant: the account is not looked for.
LoginUnchecked ==
  /\ \E u \in Requests : sessions' = sessions \cup {u}
  /\ UNCHANGED <<accounts, req, tokens, issued>>

\* With the password the account has; it changes nothing else.
Login ==
  /\ \E u \in Users : sessions' = sessions \cup {u}
  /\ UNCHANGED <<accounts, req, tokens, issued>>

\* The exp of the access token. Nothing else ends a session.
SessionExpires ==
  /\ \E u \in sessions : sessions' = sessions \ {u}
  /\ UNCHANGED <<accounts, req, tokens, issued>>

\* get_current_user, and the row.
ProfileBegin(r) ==
  /\ \E u \in sessions, e \in Emails \cup {None}, p \in {None, r} :
       Start(r, Session("profile", IF e = None THEN "flush" ELSE "check", u,
                        accounts[u], [email |-> e, password |-> p], 0))
  /\ UNCHANGED tokens

\* The email among the others' rows.
ProfileCheck(r) ==
  /\ req[r].pc = "check"
  /\ req' = [req EXCEPT ![r].pc =
               IF InUse(req[r].new.email, req[r].user) THEN "refused" ELSE "flush"]
  /\ UNCHANGED <<accounts, tokens, issued, sessions>>

-----------------------------------------------------------------------------
(* Password reset *)

RequestReset ==
  /\ issued < MaxTokens
  /\ issued' = issued + 1
  /\ \E u \in Users : tokens' = tokens \cup {[id |-> issued + 1, user |-> u, expired |-> FALSE]}
  /\ UNCHANGED <<accounts, req, sessions>>

\* An hour after it was issued.
TokenExpires ==
  /\ \E t \in tokens : tokens' = (tokens \ {t}) \cup {[t EXCEPT !.expired = TRUE]}
  /\ UNCHANGED <<accounts, req, issued, sessions>>

\* A token that has expired is removed.
ConfirmBegin(r) ==
  \E t \in tokens :
    /\ Start(r, Session("confirm", IF t.expired THEN "refused" ELSE "flush", t.user,
                        accounts[t.user], [email |-> None, password |-> r], t.id))
    /\ tokens' = IF t.expired THEN tokens \ {t} ELSE tokens

\* Mutant: a token that is not there any more is passed over.
UseTolerant(r) ==
  /\ req[r].pc = "use"
  /\ tokens' = {t \in tokens : t.id # req[r].token}
  /\ req' = [req EXCEPT ![r].pc = "commit"]
  /\ UNCHANGED <<accounts, issued, sessions>>

\* del: a token that is not there any more is a KeyError, and a rollback.
Use(r) ==
  /\ req[r].pc = "use"
  /\ tokens' = {t \in tokens : t.id # req[r].token}
  /\ req' = [req EXCEPT ![r].pc = IF tokens' = tokens THEN "failed" ELSE "commit"]
  /\ UNCHANGED <<accounts, issued, sessions>>

\* The API process ends: what it had in memory and what was not committed is lost.
Restart ==
  /\ tokens' = {}
  /\ req' = [r \in Requests |-> IF req[r].pc \in InFlight
                                  THEN [req[r] EXCEPT !.pc = "failed"] ELSE req[r]]
  /\ UNCHANGED <<accounts, issued, sessions>>

-----------------------------------------------------------------------------

Handle(r) ==
  \/ Register(r) \/ ProfileBegin(r) \/ ProfileCheck(r)
  \/ ConfirmBegin(r) \/ Use(r)
  \/ Flush(r) \/ Commit(r) \/ Abort(r)

Next ==
  \/ Login \/ SessionExpires \/ RequestReset \/ TokenExpires \/ Restart
  \/ \E r \in Requests : Handle(r)

Spec == Init /\ [][Next]_vars

-----------------------------------------------------------------------------
(* Properties *)

Sessions ==
  [op : {"none", "register", "profile", "confirm"},
   pc : {"idle", "check", "flush", "use", "commit", "done", "failed", "refused"},
   user : Requests \cup {None}, new : Changes, loaded : Changes,
   written : SUBSET Columns, token : 0..MaxTokens]

\* Types; and access tokens and reset tokens are those of accounts that exist.
TypeOK ==
  /\ accounts \in [Requests -> Rows \cup {None}]
  /\ req \in [Requests -> Sessions]
  /\ issued \in 0..MaxTokens
  /\ tokens \subseteq [id : 1..issued, user : Users, expired : BOOLEAN]
  /\ sessions \subseteq Users

\* No two accounts have one email, whichever registrations and profile changes
\* overlap between their check and their commit (auth.py:106, users.py:170).
\* Otherwise login and reset raise MultipleResultsFound.
EmailsUnique ==
  \A u, v \in Users : accounts[u].email = accounts[v].email => u = v

\* "Single-use (deleted after successful password reset)" (auth.py:258): a token
\* sets at most one password, although it is looked up long before it is deleted.
SingleUse ==
  \A q, r \in Requests :
    /\ req[q].op = "confirm" /\ req[q].pc = "done"
    /\ req[r].op = "confirm" /\ req[r].pc = "done"
    /\ req[q].token = req[r].token
    => q = r

\* An email or a password changes only to what the request that commits was asked
\* to set it to: a request that changes the one never brings back the other's old
\* value, which it has loaded before someone else changed it (users.py:158-184,
\* auth.py:369-380).
ChangesAsked ==
  [][\A u \in Users, c \in Columns :
       accounts'[u][c] # accounts[u][c] =>
         \E r \in Requests : /\ req[r].pc = "commit" /\ req'[r].pc = "done"
                             /\ req[r].user = u /\ req[r].new[c] = accounts'[u][c]]_vars

=============================================================================
