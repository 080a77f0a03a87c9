--------------------------- MODULE AccountsProofs ---------------------------
(* Theorems about Accounts, for any requests, emails and number of tokens. *)
EXTENDS Accounts, TLAPS

-----------------------------------------------------------------------------
(* The inductive invariant *)

\* A session is that of its operation, and has flushed what it was to write.
SessionSound(r) ==
  /\ req[r].op = "none" => req[r].pc = "idle"
  /\ req[r].op = "register" =>
       /\ req[r].user = r /\ req[r].loaded = NoChange
       /\ req[r].new.email # None /\ req[r].new.password # None
  /\ req[r].op \in {"profile", "confirm"} => req[r].user \in Users /\ req[r].loaded \in Rows
  /\ req[r].pc = "use" => req[r].op = "confirm"
  /\ Pending(r) => req[r].written = Written(r)
  /\ req[r].token <= issued

SessionsSound == \A r \in Requests : SessionSound(r)

\* A transaction that has a place in the index of emails.
Places(r) == Pending(r) /\ "email" \in req[r].written

\* Nobody else has the email, nor another place for it.
PlacesFree ==
  \A r \in Requests : Places(r) =>
    /\ \A u \in Users \ {req[r].user} : accounts[u].email # Row(r).email
    /\ \A q \in Requests \ {r} : Places(q) => Row(q).email # Row(r).email

\* A confirmation that has deleted its token.
Spent(r) == req[r].op = "confirm" /\ req[r].pc \in {"commit", "done"}

\* The token of such a one is gone, and is its own.
TokensSpent ==
  \A r \in Requests : Spent(r) =>
    /\ \A t \in tokens : t.id # req[r].token
    /\ \A q \in Requests : Spent(q) /\ req[q].token = req[r].token => q = r

IInv == TypeOK /\ SessionsSound /\ EmailsUnique /\ PlacesFree /\ TokensSpent

-----------------------------------------------------------------------------

LEMMA InitInv == Init => IInv
<1> SUFFICES ASSUME Init PROVE IInv
  OBVIOUS
<1>1. Idle \in Sessions
  BY AccountsAssumption DEF Idle, Session, Sessions, Changes, NoChange
<1>2. Users = {}
  BY DEF Users, Init
<1>3. TypeOK
  BY <1>1, <1>2, AccountsAssumption DEF Init, TypeOK
<1>4. SessionsSound
  BY DEF Init, SessionsSound, SessionSound, Idle, Session, Pending
<1>5. EmailsUnique /\ PlacesFree /\ TokensSpent
  BY <1>2 DEF Init, EmailsUnique, PlacesFree, Places, Pending, TokensSpent, Spent, Idle, Session
<1> QED
  BY <1>3, <1>4, <1>5 DEF IInv

\* The row a session has is a whole one, and what it writes is what it was asked for.
LEMMA RowWhole ==
  ASSUME IInv, NEW r \in Requests, req[r].op # "none"
  PROVE  /\ Row(r) \in Rows
         /\ req[r].user \in Requests
         /\ \A c \in Written(r) : Row(r)[c] = req[r].new[c]
         /\ req[r].op = "register" => Written(r) = Columns
<1>1. req[r] \in Sessions /\ req[r].new \in Changes
  BY DEF IInv, TypeOK, Sessions
<1>2. SessionSound(r)
  BY DEF IInv, SessionsSound
<1>3. CASE req[r].op = "register"
  BY <1>1, <1>2, <1>3 DEF SessionSound, Row, Rows, Written, Columns, NoChange, Changes
<1>4. CASE req[r].op \in {"profile", "confirm"}
  <2>1. req[r].loaded \in Rows /\ req[r].user \in Requests
    BY <1>2, <1>4 DEF SessionSound, Users
  <2>2. Row(r) \in Rows
    BY <1>1, <2>1 DEF Row, Rows, Changes
  <2>3. \A c \in Written(r) : Row(r)[c] = req[r].new[c]
    BY <1>1 DEF Row, Written, Columns, Changes
  <2> QED
    BY <1>4, <2>1, <2>2, <2>3
<1> QED
  BY <1>1, <1>3, <1>4 DEF Sessions

\* Where no account changes, and no request flushes, the emails stay.
LEMMA EmailsKept ==
  ASSUME IInv, UNCHANGED accounts,
         \A q \in Requests : Places(q)' => req'[q] = req[q]
                                          \/ /\ Places(q) /\ req'[q].user = req[q].user
                                             /\ Row(q)' = Row(q)
  PROVE  EmailsUnique' /\ PlacesFree'
<1>1. Users' = Users
  BY DEF Users
<1>2. \A q \in Requests : Places(q)' => Places(q) /\ req'[q].user = req[q].user
                                       /\ Row(q)' = Row(q)
  BY DEF Places, Pending, Row
<1>3. EmailsUnique'
  BY <1>1 DEF IInv, EmailsUnique
<1>4. PlacesFree'
  BY <1>1, <1>2 DEF IInv, PlacesFree
<1> QED
  BY <1>3, <1>4

\* Where no confirmation gets past its token, spent ones stay so.
LEMMA SpentKept ==
  ASSUME IInv,
         \A t \in tokens' : t.id = issued + 1 \/ \E x \in tokens : x.id = t.id,
         \A q \in Requests : Spent(q)' => Spent(q) /\ req'[q].token = req[q].token
  PROVE  TokensSpent'
<1> SUFFICES ASSUME NEW r \in Requests, Spent(r)'
             PROVE  /\ \A t \in tokens' : t.id # req'[r].token
                    /\ \A q \in Requests : Spent(q)' /\ req'[q].token = req'[r].token => q = r
  BY DEF TokensSpent
<1>1. Spent(r) /\ req'[r].token = req[r].token
  OBVIOUS
<1>2. req[r].token <= issued /\ req[r].token \in Nat /\ issued \in Nat
  BY AccountsAssumption DEF IInv, SessionsSound, SessionSound, TypeOK, Sessions
<1>3. \A t \in tokens : t.id # req[r].token
  BY <1>1 DEF IInv, TokensSpent
<1>4. \A t \in tokens' : t.id # req'[r].token
  BY <1>1, <1>2, <1>3
<1>5. \A q \in Requests : Spent(q)' /\ req'[q].token = req'[r].token => q = r
  BY <1>1 DEF IInv, TokensSpent
<1> QED
  BY <1>4, <1>5

-----------------------------------------------------------------------------
(* Requests that begin, go on without a flush, or give up *)

\* A request begins with a session that has written nothing.
LEMMA Begins ==
  ASSUME IInv, NEW r \in Requests, NEW s \in Sessions, Start(r, s),
         s.pc \in {"check", "flush", "refused"},
         s.op = "register" => /\ s.user = r /\ s.loaded = NoChange
                              /\ s.new.email # None /\ s.new.password # None,
         s.op \in {"profile", "confirm"} => s.user \in Users /\ s.loaded \in Rows,
         s.op # "none", s.token <= issued,
         tokens' \subseteq tokens
  PROVE  IInv'
<1>1. /\ req' \in [Requests -> Sessions] /\ req'[r] = s
      /\ \A q \in Requests \ {r} : req'[q] = req[q]
      /\ UNCHANGED <<accounts, issued, sessions>>
  BY DEF IInv, TypeOK, Start
<1>2. Users' = Users
  BY <1>1 DEF Users
<1>3. TypeOK'
  BY <1>1, <1>2 DEF IInv, TypeOK
<1>4. SessionsSound'
  <2> SUFFICES ASSUME NEW q \in Requests PROVE SessionSound(q)'
    BY DEF SessionsSound
  <2>1. CASE q = r
    BY <1>1, <1>2, <2>1 DEF SessionSound, Pending
  <2>2. CASE q # r
    BY <1>1, <1>2, <2>2 DEF IInv, SessionsSound, SessionSound, Pending, Written
  <2> QED
    BY <2>1, <2>2
<1>5. EmailsUnique' /\ PlacesFree'
  BY <1>1, EmailsKept DEF Places, Pending
<1>6. TokensSpent'
  BY <1>1, SpentKept DEF Spent
<1> QED
  BY <1>3, <1>4, <1>5, <1>6 DEF IInv

LEMMA SessionType ==
  ASSUME NEW op \in {"register", "profile", "confirm"}, NEW pc \in {"check", "flush", "refused"},
         NEW user \in Requests, NEW loaded \in Changes, NEW new \in Changes,
         NEW token \in 0..MaxTokens
  PROVE  LET s == Session(op, pc, user, loaded, new, token)
         IN  /\ s \in Sessions /\ s.op = op /\ s.pc = pc /\ s.user = user
             /\ s.loaded = loaded /\ s.new = new /\ s.token = token
BY DEF Session, Sessions

LEMMA RegisterStep == ASSUME IInv, NEW r \in Requests, Register(r) PROVE IInv'
<1>1. PICK e \in Emails, p \in {"refused", "flush"} :
        Start(r, Session("register", p, r, NoChange, [email |-> e, password |-> r], 0))
  BY DEF Register
<1> DEFINE n == [email |-> e, password |-> r]
<1>2. n \in Changes /\ NoChange \in Changes /\ n.email # None /\ n.password # None
  BY AccountsAssumption DEF Changes, NoChange
<1>3. 0 \in 0..MaxTokens /\ 0 <= issued /\ tokens' \subseteq tokens
  BY AccountsAssumption DEF IInv, TypeOK, Register
<1> HIDE DEF n
<1> DEFINE s == Session("register", p, r, NoChange, n, 0)
<1>4. Start(r, s) /\ p \in {"check", "flush", "refused"}
  BY <1>1 DEF n
<1>5. /\ s \in Sessions /\ s.op = "register" /\ s.pc = p /\ s.user = r
      /\ s.loaded = NoChange /\ s.new = n /\ s.token = 0
  BY <1>2, <1>3, <1>4, SessionType
<1> HIDE DEF s
<1> QED
  BY <1>2, <1>3, <1>4, <1>5, Begins

LEMMA ProfileStep == ASSUME IInv, NEW r \in Requests, ProfileBegin(r) PROVE IInv'
<1>1. PICK u \in sessions, e \in Emails \cup {None}, w \in {None, r}, p \in {"check", "flush"} :
        Start(r, Session("profile", p, u, accounts[u], [email |-> e, password |-> w], 0))
  BY DEF ProfileBegin
<1> DEFINE n == [email |-> e, password |-> w]
<1>2. u \in Users /\ u \in Requests /\ accounts[u] \in Rows /\ accounts[u] \in Changes
  BY AccountsAssumption DEF IInv, TypeOK, Users, Rows, Changes
<1>3. n \in Changes
  BY DEF Changes
<1>4. 0 \in 0..MaxTokens /\ 0 <= issued /\ tokens' \subseteq tokens
  BY AccountsAssumption DEF IInv, TypeOK, ProfileBegin
<1> HIDE DEF n
<1> DEFINE s == Session("profile", p, u, accounts[u], n, 0)
<1>5. Start(r, s) /\ p \in {"check", "flush", "refused"}
  BY <1>1 DEF n
<1>6. /\ s \in Sessions /\ s.op = "profile" /\ s.pc = p /\ s.user = u
      /\ s.loaded = accounts[u] /\ s.token = 0
  BY <1>2, <1>3, <1>4, <1>5, SessionType
<1> HIDE DEF s
<1> QED
  BY <1>2, <1>4, <1>5, <1>6, Begins

LEMMA ConfirmStep == ASSUME IInv, NEW r \in Requests, ConfirmBegin(r) PROVE IInv'
<1>1. PICK t \in tokens, p \in {"refused", "flush"} :
        Start(r, Session("confirm", p, t.user, accounts[t.user], [email |-> None, password |-> r],
                         t.id))
  BY DEF ConfirmBegin
<1> DEFINE n == [email |-> None, password |-> r]
<1>2. /\ t.user \in Users /\ t.user \in Requests
      /\ accounts[t.user] \in Rows /\ accounts[t.user] \in Changes
      /\ t.id \in 0..MaxTokens /\ t.id <= issued
  BY AccountsAssumption DEF IInv, TypeOK, Users, Rows, Changes
<1>3. n \in Changes /\ tokens' \subseteq tokens
  BY DEF Changes, ConfirmBegin
<1> HIDE DEF n
<1> DEFINE s == Session("confirm", p, t.user, accounts[t.user], n, t.id)
<1>4. Start(r, s) /\ p \in {"check", "flush", "refused"}
  BY <1>1 DEF n
<1>5. /\ s \in Sessions /\ s.op = "confirm" /\ s.pc = p /\ s.user = t.user
      /\ s.loaded = accounts[t.user] /\ s.token = t.id
  BY <1>2, <1>3, <1>4, SessionType
<1> HIDE DEF s
<1> QED
  BY <1>2, <1>3, <1>4, <1>5, Begins

\* Requests go on to a point where they hold nothing.
LEMMA Withdraws ==
  ASSUME IInv, UNCHANGED <<accounts, issued, sessions>>, tokens' \subseteq tokens,
         NEW p \in {"flush", "refused", "failed"},
         req' \in [Requests -> Sessions],
         \A q \in Requests : \/ req'[q] = req[q]
                             \/ /\ req[q].pc \in InFlight
                                /\ req'[q] = [req[q] EXCEPT !.pc = p]
  PROVE  IInv'
<1>1. Users' = Users
  BY DEF Users
<1>2. \A q \in Requests : req[q] \in Sessions
  BY DEF IInv, TypeOK
<1>3. TypeOK'
  BY <1>1 DEF IInv, TypeOK
<1>4. \A q \in Requests : /\ req'[q].op = req[q].op /\ req'[q].user = req[q].user
                          /\ req'[q].loaded = req[q].loaded /\ req'[q].new = req[q].new
                          /\ req'[q].written = req[q].written /\ req'[q].token = req[q].token
                          /\ req'[q].pc = req[q].pc \/ (req[q].pc \in InFlight /\ req'[q].pc = p)
  BY <1>2 DEF Sessions
<1>5. SessionsSound'
  <2> SUFFICES ASSUME NEW q \in Requests PROVE SessionSound(q)'
    BY DEF SessionsSound
  <2> QED
    BY <1>1, <1>4 DEF IInv, SessionsSound, SessionSound, Pending, Written, InFlight
<1>6. \A q \in Requests : Places(q)' => req'[q] = req[q]
  BY <1>2 DEF Places, Pending, Sessions
<1>7. EmailsUnique' /\ PlacesFree'
  BY <1>6, EmailsKept
<1>8. TokensSpent'
  BY <1>4, SpentKept DEF Spent
<1> QED
  BY <1>3, <1>5, <1>7, <1>8 DEF IInv

LEMMA ProfileCheckStep == ASSUME IInv, NEW r \in Requests, ProfileCheck(r) PROVE IInv'
<1>1. PICK p \in {"refused", "flush"} : req' = [req EXCEPT ![r].pc = p]
  BY DEF ProfileCheck
<1>2. /\ req[r].pc \in InFlight /\ req' \in [Requests -> Sessions]
      /\ \A q \in Requests : req'[q] = IF q = r THEN [req[q] EXCEPT !.pc = p] ELSE req[q]
  BY <1>1 DEF ProfileCheck, InFlight, IInv, TypeOK, Sessions
<1> QED
  BY <1>2, Withdraws DEF ProfileCheck

LEMMA AbortStep == ASSUME IInv, NEW r \in Requests, Abort(r) PROVE IInv'
<1>1. /\ req[r].pc \in InFlight /\ req' \in [Requests -> Sessions]
      /\ \A q \in Requests : req'[q] = IF q = r THEN [req[q] EXCEPT !.pc = "failed"] ELSE req[q]
  BY DEF Abort, IInv, TypeOK, Sessions
<1> QED
  BY <1>1, Withdraws DEF Abort

LEMMA RestartStep == ASSUME IInv, Restart PROVE IInv'
<1>1. /\ req' \in [Requests -> Sessions] /\ tokens' = {}
      /\ \A q \in Requests : req'[q] = IF req[q].pc \in InFlight
                                       THEN [req[q] EXCEPT !.pc = "failed"] ELSE req[q]
  BY DEF Restart, IInv, TypeOK, Sessions
<1> QED
  BY <1>1, Withdraws DEF Restart

-----------------------------------------------------------------------------
(* Tokens and access tokens *)

LEMMA SessionSteps == ASSUME IInv, Login \/ SessionExpires PROVE IInv'
<1>1. UNCHANGED <<accounts, req, tokens, issued>> /\ sessions' \subseteq Users
  BY DEF Login, SessionExpires, IInv, TypeOK
<1>2. Users' = Users
  BY <1>1 DEF Users
<1>3. TypeOK'
  BY <1>1, <1>2 DEF IInv, TypeOK
<1>4. SessionsSound' /\ EmailsUnique' /\ PlacesFree' /\ TokensSpent'
  BY <1>1, <1>2 DEF IInv, SessionsSound, SessionSound, Pending, Written, EmailsUnique, PlacesFree,
                    Places, Row, TokensSpent, Spent
<1> QED
  BY <1>3, <1>4 DEF IInv

LEMMA TokenSteps == ASSUME IInv, RequestReset \/ TokenExpires PROVE IInv'
<1>1. /\ UNCHANGED <<accounts, req, sessions>>
      /\ issued \in Nat /\ issued' \in 0..MaxTokens /\ issued <= issued'
      /\ tokens' \subseteq [id : 1..issued', user : Users, expired : BOOLEAN]
      /\ \A t \in tokens' : t.id = issued + 1 \/ \E x \in tokens : x.id = t.id
  <2>1. CASE RequestReset
    <3>1. PICK u \in Users :
            tokens' = tokens \cup {[id |-> issued + 1, user |-> u, expired |-> FALSE]}
      BY <2>1 DEF RequestReset
    <3>2. issued \in Nat /\ issued' = issued + 1 /\ issued' \in 0..MaxTokens
      BY <2>1, AccountsAssumption DEF RequestReset, IInv, TypeOK
    <3>3. tokens \subseteq [id : 1..issued', user : Users, expired : BOOLEAN]
      BY <3>2 DEF IInv, TypeOK
    <3>4. [id |-> issued + 1, user |-> u, expired |-> FALSE]
            \in [id : 1..issued', user : Users, expired : BOOLEAN]
      BY <3>2
    <3>5. tokens' \subseteq [id : 1..issued', user : Users, expired : BOOLEAN]
      BY <3>1, <3>3, <3>4
    <3>6. \A t \in tokens' : t.id = issued + 1 \/ \E x \in tokens : x.id = t.id
      BY <3>1
    <3> QED
      BY <2>1, <3>2, <3>5, <3>6 DEF RequestReset
  <2>2. CASE TokenExpires
    <3>1. PICK t \in tokens : tokens' = (tokens \ {t}) \cup {[t EXCEPT !.expired = TRUE]}
      BY <2>2 DEF TokenExpires
    <3>2. /\ [t EXCEPT !.expired = TRUE] \in [id : 1..issued, user : Users, expired : BOOLEAN]
          /\ [t EXCEPT !.expired = TRUE].id = t.id
      BY <3>1 DEF IInv, TypeOK
    <3>3. issued' = issued /\ issued \in 0..MaxTokens /\ issued \in Nat
      BY <2>2, AccountsAssumption DEF TokenExpires, IInv, TypeOK
    <3>4. tokens' \subseteq [id : 1..issued, user : Users, expired : BOOLEAN]
      BY <3>1, <3>2 DEF IInv, TypeOK
    <3>5. \A x \in tokens' : \E y \in tokens : y.id = x.id
      BY <3>1, <3>2
    <3> QED
      BY <2>2, <3>3, <3>4, <3>5 DEF TokenExpires
  <2> QED
    BY <2>1, <2>2
<1>2. Users' = Users
  BY <1>1 DEF Users
<1>3. TypeOK'
  BY <1>1, <1>2 DEF IInv, TypeOK
<1>4. SessionsSound'
  <2> SUFFICES ASSUME NEW r \in Requests PROVE SessionSound(r)'
    BY DEF SessionsSound
  <2>1. req[r].token \in Nat
    BY DEF IInv, TypeOK, Sessions
  <2> QED
    BY <1>1, <1>2, <2>1, AccountsAssumption
    DEF IInv, SessionsSound, SessionSound, Pending, Written
<1>5. EmailsUnique' /\ PlacesFree'
  BY <1>1, EmailsKept
<1>6. TokensSpent'
  BY <1>1, SpentKept DEF Spent
<1> QED
  BY <1>3, <1>4, <1>5, <1>6 DEF IInv

LEMMA UseStep == ASSUME IInv, NEW r \in Requests, Use(r) PROVE IInv'
<1> DEFINE p == IF tokens' = tokens THEN "failed" ELSE "commit"
<1>1. /\ req[r].pc = "use" /\ req[r] \in Sessions /\ req' = [req EXCEPT ![r].pc = p]
      /\ tokens' = {t \in tokens : t.id # req[r].token}
      /\ UNCHANGED <<accounts, issued, sessions>>
  BY DEF Use, IInv, TypeOK
<1> HIDE DEF p
<1>2. /\ req'[r].pc = p /\ req'[r].op = req[r].op /\ req'[r].user = req[r].user
      /\ req'[r].loaded = req[r].loaded /\ req'[r].new = req[r].new
      /\ req'[r].written = req[r].written /\ req'[r].token = req[r].token
      /\ \A q \in Requests \ {r} : req'[q] = req[q]
      /\ p \in {"failed", "commit"}
      /\ req' \in [Requests -> Sessions]
  BY <1>1 DEF IInv, TypeOK, Sessions, p
<1>3. Users' = Users
  BY <1>1 DEF Users
<1>4. TypeOK'
  BY <1>1, <1>2, <1>3 DEF IInv, TypeOK
<1>5. SessionsSound'
  <2> SUFFICES ASSUME NEW q \in Requests PROVE SessionSound(q)'
    BY DEF SessionsSound
  <2>1. CASE q = r
    BY <1>1, <1>2, <1>3, <2>1 DEF IInv, SessionsSound, SessionSound, Pending, Written
  <2>2. CASE q # r
    BY <1>1, <1>2, <1>3, <2>2 DEF IInv, SessionsSound, SessionSound, Pending, Written
  <2> QED
    BY <2>1, <2>2
<1>6. EmailsUnique' /\ PlacesFree'
  <2>1. \A q \in Requests : Places(q)' => req'[q] = req[q]
                                       \/ /\ Places(q) /\ req'[q].user = req[q].user
                                          /\ Row(q)' = Row(q)
    BY <1>1, <1>2 DEF Places, Pending, Row
  <2> QED
    BY <1>1, <2>1, EmailsKept
<1>7. TokensSpent'
  <2>1. CASE p = "failed"
    BY <1>1, <1>2, <2>1, SpentKept DEF Spent
  <2>2. CASE p = "commit"
    <3>1. PICK x \in tokens : x.id = req[r].token
      BY <1>1, <2>2 DEF p
    <3>2. \A q \in Requests \ {r} : Spent(q) => req[q].token # req[r].token
      BY <3>1 DEF IInv, TokensSpent
    <3> SUFFICES ASSUME NEW q \in Requests, Spent(q)'
                 PROVE  /\ \A t \in tokens' : t.id # req'[q].token
                        /\ \A o \in Requests : Spent(o)' /\ req'[o].token = req'[q].token => o = q
      BY DEF TokensSpent
    <3>3. CASE q = r
      BY <1>1, <1>2, <3>2, <3>3 DEF Spent
    <3>4. CASE q # r
      BY <1>1, <1>2, <3>2, <3>4 DEF Spent, IInv, TokensSpent
    <3> QED
      BY <3>3, <3>4
  <2> QED
    BY <1>2, <2>1, <2>2
<1> QED
  BY <1>4, <1>5, <1>6, <1>7 DEF IInv

-----------------------------------------------------------------------------
(* Flush and commit *)

\* While the accounts stay, a place is free if nobody else has its email.
LEMMA PlacesStay ==
  ASSUME UNCHANGED accounts, Users' = Users,
         \A q \in Requests : Row(q)' = Row(q) /\ req'[q].user = req[q].user,
         \A o \in Requests : Places(o)' =>
           /\ \A u \in Users \ {req[o].user} : accounts[u].email # Row(o).email
           /\ \A q \in Requests \ {o} : Places(q)' => Row(q).email # Row(o).email
  PROVE  PlacesFree'
<1>1. ASSUME NEW o \in Requests, Places(o)', NEW u \in Users' \ {req'[o].user}
      PROVE  accounts'[u].email # Row(o)'.email
  <2>1. Row(o)' = Row(o) /\ req'[o].user = req[o].user /\ accounts' = accounts
    OBVIOUS
  <2>2. u \in Users \ {req[o].user}
    BY <1>1, <2>1
  <2>3. accounts[u].email # Row(o).email
    BY <1>1, <2>2
  <2> QED
    BY <2>1, <2>3
<1>2. ASSUME NEW o \in Requests, Places(o)', NEW q \in Requests \ {o}, Places(q)'
      PROVE  Row(q)'.email # Row(o)'.email
  <2>1. Row(o)' = Row(o) /\ Row(q)' = Row(q)
    OBVIOUS
  <2>2. Row(q).email # Row(o).email
    BY <1>2
  <2> QED
    BY <2>1, <2>2
<1> QED
  BY <1>1, <1>2 DEF PlacesFree

LEMMA FlushStep == ASSUME IInv, NEW r \in Requests, Flush(r) PROVE IInv'
<1> DEFINE p == IF Taken(r) THEN "failed" ELSE IF req[r].op = "confirm" THEN "use" ELSE "commit"
<1>1. /\ req[r].pc = "flush" /\ req[r] \in Sessions /\ ~Waits(r)
      /\ req' = [req EXCEPT ![r].pc = p, ![r].written = Written(r)]
      /\ UNCHANGED <<accounts, tokens, issued, sessions>>
  BY DEF Flush, IInv, TypeOK
<1>2. /\ p \in {"failed", "use", "commit"} /\ (p = "use" <=> ~Taken(r) /\ req[r].op = "confirm")
      /\ (p = "failed" <=> Taken(r))
  OBVIOUS
<1> HIDE DEF p
<1>3. /\ req'[r].pc = p /\ req'[r].op = req[r].op /\ req'[r].user = req[r].user
      /\ req'[r].loaded = req[r].loaded /\ req'[r].new = req[r].new
      /\ req'[r].written = Written(r) /\ req'[r].token = req[r].token
      /\ \A q \in Requests \ {r} : req'[q] = req[q]
      /\ Written(r) \in SUBSET Columns
  BY <1>1 DEF IInv, TypeOK, Sessions, Written
<1>4. req' \in [Requests -> Sessions]
  BY <1>1, <1>2, <1>3 DEF IInv, TypeOK, Sessions
<1>5. Users' = Users
  BY <1>1 DEF Users
<1>6. TypeOK'
  BY <1>1, <1>4, <1>5 DEF IInv, TypeOK
<1>7. SessionsSound'
  <2> SUFFICES ASSUME NEW q \in Requests PROVE SessionSound(q)'
    BY DEF SessionsSound
  <2>0. Written(q)' = Written(q) /\ SessionSound(q) /\ issued' = issued
    <3>1. req'[q].new = req[q].new /\ req'[q].loaded = req[q].loaded
      BY <1>3
    <3>2. Written(q)' = Written(q)
      BY <3>1 DEF Written
    <3> QED
      BY <1>1, <3>2 DEF IInv, SessionsSound
  <2>1. CASE q = r
    BY <1>1, <1>2, <1>3, <1>5, <2>0, <2>1 DEF SessionSound, Pending
  <2>2. CASE q # r
    BY <1>3, <1>5, <2>0, <2>2 DEF SessionSound, Pending
  <2> QED
    BY <2>1, <2>2
<1>8. EmailsUnique'
  BY <1>1, <1>5 DEF IInv, EmailsUnique
<1>9. PlacesFree'
  <2>1. \A q \in Requests : Row(q)' = Row(q) /\ req'[q].user = req[q].user
    BY <1>3 DEF Row
  <2>2. \A q \in Requests \ {r} : Places(q)' <=> Places(q)
    BY <1>3 DEF Places, Pending
  <2>3. CASE Places(r)'
    <3>1. "email" \in Written(r) /\ ~Taken(r)
      BY <1>2, <1>3, <2>3 DEF Places, Pending
    <3>2. \A u \in Users \ {req[r].user} : accounts[u].email # Row(r).email
      BY <3>1 DEF Taken
    <3>3. \A q \in Requests \ {r} : Places(q) => Row(q).email # Row(r).email
      BY <1>1, <3>1 DEF Waits, Places
    <3> SUFFICES ASSUME NEW o \in Requests, Places(o)'
                 PROVE  /\ \A u \in Users \ {req[o].user} : accounts[u].email # Row(o).email
                        /\ \A q \in Requests \ {o} : Places(q)' => Row(q).email # Row(o).email
      BY <1>1, <1>5, <2>1, PlacesStay
    <3>4. CASE o = r
      BY <2>2, <3>2, <3>3, <3>4
    <3>5. CASE o # r
      BY <2>2, <3>3, <3>5 DEF IInv, PlacesFree
    <3> QED
      BY <3>4, <3>5
  <2>4. CASE ~Places(r)'
    <3>1. \A q \in Requests : Places(q)' => q # r /\ Places(q)
      BY <2>2, <2>4
    <3> SUFFICES ASSUME NEW o \in Requests, Places(o)'
                 PROVE  /\ \A u \in Users \ {req[o].user} : accounts[u].email # Row(o).email
                        /\ \A q \in Requests \ {o} : Places(q)' => Row(q).email # Row(o).email
      BY <1>1, <1>5, <2>1, PlacesStay
    <3> QED
      BY <3>1 DEF IInv, PlacesFree
  <2> QED
    BY <2>3, <2>4
<1>10. TokensSpent'
  <2>1. \A q \in Requests : Spent(q)' => Spent(q) /\ req'[q].token = req[q].token
    BY <1>2, <1>3 DEF Spent
  <2> QED
    BY <1>1, <2>1, SpentKept
<1> QED
  BY <1>6, <1>7, <1>8, <1>9, <1>10 DEF IInv

\* What a commit does to the accounts.
LEMMA CommitRow ==
  ASSUME IInv, NEW r \in Requests, Commit(r)
  PROVE  /\ req[r].user \in Requests
         /\ \A u \in Requests \ {req[r].user} : accounts'[u] = accounts[u]
         /\ accounts' \in [Requests -> Rows \cup {None}]
         /\ accounts'[req[r].user] \in Rows
         /\ \A c \in req[r].written : accounts'[req[r].user][c] = req[r].new[c]
         /\ \A c \in Columns \ req[r].written :
              /\ req[r].user \in Users
              /\ accounts'[req[r].user][c] = accounts[req[r].user][c]
         /\ "email" \in req[r].written => accounts'[req[r].user].email = Row(r).email
<1>1. req[r].pc = "commit" /\ req[r].op # "none" /\ req[r].written = Written(r)
  BY DEF Commit, IInv, SessionsSound, SessionSound, Pending
<1>2. /\ Row(r) \in Rows /\ req[r].user \in Requests
      /\ \A c \in Written(r) : Row(r)[c] = req[r].new[c]
      /\ req[r].op = "register" => Written(r) = Columns
  BY <1>1, RowWhole
<1> DEFINE kept == IF req[r].op = "register" THEN Row(r) ELSE accounts[req[r].user]
           Value(c) == IF c \in req[r].written THEN Row(r)[c] ELSE kept[c]
           new == [email |-> Value("email"), password |-> Value("password")]
<1>3. accounts' = [accounts EXCEPT ![req[r].user] = new] /\ accounts \in [Requests -> Rows \cup {None}]
  BY DEF Commit, IInv, TypeOK
<1>4. req[r].op # "register" => req[r].user \in Users /\ accounts[req[r].user] \in Rows
  <2> SUFFICES ASSUME req[r].op # "register"
               PROVE  req[r].user \in Users /\ accounts[req[r].user] \in Rows
    OBVIOUS
  <2>1. req[r].op \in {"profile", "confirm"}
    BY <1>1 DEF IInv, TypeOK, Sessions
  <2> QED
    BY <1>3, <2>1 DEF IInv, SessionsSound, SessionSound, Users
<1>5. kept \in Rows
  BY <1>2, <1>4
<1>6. new \in Rows /\ new.email = Value("email") /\ new.password = Value("password")
  BY <1>2, <1>5 DEF Rows
<1>7. \A c \in Columns : new[c] = Value(c)
  BY <1>6 DEF Columns
<1>8. accounts'[req[r].user] = new
  BY <1>2, <1>3
<1>9. req[r].written \subseteq Columns
  BY <1>1 DEF Written
<1>10. \A u \in Requests \ {req[r].user} : accounts'[u] = accounts[u]
  BY <1>3
<1>11. accounts' \in [Requests -> Rows \cup {None}]
  BY <1>3, <1>6
<1>12. \A c \in req[r].written : accounts'[req[r].user][c] = req[r].new[c]
  BY <1>1, <1>2, <1>7, <1>8, <1>9
<1>13. \A c \in Columns \ req[r].written : accounts'[req[r].user][c] = kept[c]
  BY <1>7, <1>8
<1>14. \A c \in Columns \ req[r].written :
         req[r].user \in Users /\ accounts'[req[r].user][c] = accounts[req[r].user][c]
  BY <1>1, <1>2, <1>4, <1>13
<1> HIDE DEF kept, Value, new
<1>15. "email" \in req[r].written => accounts'[req[r].user].email = Row(r).email
  BY <1>6, <1>8 DEF Value
<1> QED
  BY <1>2, <1>6, <1>8, <1>10, <1>11, <1>12, <1>14, <1>15

LEMMA CommitStep == ASSUME IInv, NEW r \in Requests, Commit(r) PROVE IInv'
<1> DEFINE u == req[r].user
<1>1. /\ req[r].pc = "commit" /\ req[r] \in Sessions /\ req' = [req EXCEPT ![r].pc = "done"]
      /\ UNCHANGED <<tokens, issued, sessions>>
      /\ SessionSound(r) /\ req[r].op # "none" /\ req[r].written = Written(r)
  BY DEF Commit, IInv, TypeOK, SessionsSound, SessionSound, Pending
<1>2. /\ req'[r].pc = "done" /\ req'[r].written = req[r].written
      /\ \A q \in Requests : /\ req'[q].op = req[q].op /\ req'[q].user = req[q].user
                             /\ req'[q].loaded = req[q].loaded /\ req'[q].new = req[q].new
                             /\ req'[q].token = req[q].token
      /\ \A q \in Requests \ {r} : req'[q] = req[q]
      /\ req' \in [Requests -> Sessions]
  BY <1>1 DEF IInv, TypeOK, Sessions
<1>3. /\ u \in Requests /\ accounts' \in [Requests -> Rows \cup {None}] /\ accounts'[u] \in Rows
      /\ \A v \in Requests \ {u} : accounts'[v] = accounts[v]
      /\ "email" \in req[r].written => accounts'[u].email = Row(r).email
      /\ "email" \notin req[r].written => u \in Users /\ accounts'[u]["email"] = accounts[u]["email"]
  BY CommitRow DEF Columns
<1>4. Users' = Users \cup {u}
  BY <1>3, AccountsAssumption DEF Users
<1>5. TypeOK'
  BY <1>1, <1>2, <1>3, <1>4 DEF IInv, TypeOK
<1>6. \A q \in Requests : Row(q)' = Row(q) /\ Written(q)' = Written(q)
  <2> SUFFICES ASSUME NEW q \in Requests PROVE Row(q)' = Row(q) /\ Written(q)' = Written(q)
    OBVIOUS
  <2>1. req'[q].new = req[q].new /\ req'[q].loaded = req[q].loaded
    BY <1>2
  <2> QED
    BY <2>1 DEF Row, Written
<1>7. SessionsSound'
  <2> SUFFICES ASSUME NEW q \in Requests PROVE SessionSound(q)'
    BY DEF SessionsSound
  <2>1. SessionSound(q) /\ issued' = issued
    BY <1>1 DEF IInv, SessionsSound
  <2>2. CASE q = r
    BY <1>1, <1>2, <1>4, <2>1, <2>2 DEF SessionSound, Pending
  <2>3. CASE q # r
    BY <1>2, <1>4, <1>6, <2>1, <2>3 DEF SessionSound, Pending
  <2> QED
    BY <2>2, <2>3
<1>8. \A q \in Requests \ {r} : Places(q)' <=> Places(q)
  BY <1>2 DEF Places, Pending
<1>9. ~Places(r)'
  BY <1>2 DEF Places, Pending
<1>10. ASSUME "email" \in req[r].written PROVE EmailsUnique' /\ PlacesFree'
  <2>1. Places(r)
    BY <1>1, <1>10 DEF Places, Pending
  <2>2. \A v \in Users \ {u} : accounts'[v].email # accounts'[u].email
    <3> SUFFICES ASSUME NEW v \in Users \ {u} PROVE accounts'[v].email # accounts'[u].email
      OBVIOUS
    <3>1. accounts[v].email # Row(r).email
      BY <2>1 DEF IInv, PlacesFree
    <3> QED
      BY <1>3, <1>10, <3>1 DEF Users
  <2>3. EmailsUnique'
    BY <1>3, <1>4, <2>2 DEF IInv, EmailsUnique, Users
  <2>4. PlacesFree'
    <3> SUFFICES ASSUME NEW o \in Requests, Places(o)'
                 PROVE  /\ \A v \in Users' \ {req[o].user} : accounts'[v].email # Row(o).email
                        /\ \A q \in Requests \ {o} : Places(q)' => Row(q).email # Row(o).email
      BY <1>2, <1>6 DEF PlacesFree
    <3>1. o # r /\ Places(o)
      BY <1>8, <1>9
    <3>2. Row(r).email # Row(o).email
      BY <2>1, <3>1 DEF IInv, PlacesFree
    <3>3. \A v \in Users' \ {req[o].user} : accounts'[v].email # Row(o).email
      BY <1>3, <1>4, <1>10, <3>1, <3>2 DEF IInv, PlacesFree, Users
    <3>4. \A q \in Requests \ {o} : Places(q)' => Row(q).email # Row(o).email
      BY <1>8, <1>9, <3>1 DEF IInv, PlacesFree
    <3> QED
      BY <3>3, <3>4
  <2> QED
    BY <2>3, <2>4
<1>11. ASSUME "email" \notin req[r].written PROVE EmailsUnique' /\ PlacesFree'
  <2>1. Users' = Users /\ \A v \in Users : accounts'[v].email = accounts[v].email
    BY <1>3, <1>4, <1>11 DEF Users
  <2>2. EmailsUnique'
    BY <2>1 DEF IInv, EmailsUnique
  <2>3. PlacesFree'
    BY <1>2, <1>6, <1>8, <1>9, <2>1 DEF IInv, PlacesFree
  <2> QED
    BY <2>2, <2>3
<1>12. TokensSpent'
  <2>1. \A q \in Requests : Spent(q)' => Spent(q) /\ req'[q].token = req[q].token
    BY <1>1, <1>2 DEF Spent
  <2> QED
    BY <1>1, <2>1, SpentKept
<1> QED
  BY <1>5, <1>7, <1>10, <1>11, <1>12 DEF IInv

-----------------------------------------------------------------------------
(* The theorems *)

LEMMA NextInv == IInv /\ [Next]_vars => IInv'
<1> SUFFICES ASSUME IInv, [Next]_vars PROVE IInv'
  OBVIOUS
<1>1. CASE UNCHANGED vars
  BY <1>1 DEF vars, IInv, TypeOK, SessionsSound, SessionSound, EmailsUnique, PlacesFree, Places,
              TokensSpent, Spent, Users, Pending, Row, Written
<1>2. ASSUME NEW r \in Requests, Handle(r) PROVE IInv'
  BY <1>2, RegisterStep, ProfileStep, ProfileCheckStep, ConfirmStep, UseStep, FlushStep,
     CommitStep, AbortStep DEF Handle
<1> QED
  BY <1>1, <1>2, SessionSteps, TokenSteps, RestartStep DEF Next

\* The invariant that the theorems rest on.
THEOREM Inductive == Spec => []IInv
<1>1. Init => IInv
  BY InitInv
<1>2. IInv /\ [Next]_vars => IInv'
  BY NextInv
<1> QED
  BY <1>1, <1>2, PTL DEF Spec

\* Every reachable state is well typed, and tokens are those of accounts.
THEOREM AccountsTyped == Spec => []TypeOK
<1>1. IInv => TypeOK
  BY DEF IInv
<1> QED
  BY <1>1, Inductive, PTL

\* However many registrations and profile changes overlap between their check of
\* the email and their commit, no two accounts share one.
THEOREM OneAccountEach == Spec => []EmailsUnique
<1>1. IInv => EmailsUnique
  BY DEF IInv
<1> QED
  BY <1>1, Inductive, PTL

\* However many confirmations hold a reset token at once, one sets a password.
THEOREM TokensOnce == Spec => []SingleUse
<1>1. IInv => SingleUse
  BY DEF IInv, TokensSpent, Spent, SingleUse
<1> QED
  BY <1>1, Inductive, PTL

\* What a commit changes is what its request was asked for; nothing else changes
\* an account.
THEOREM NothingUnasked == Spec => ChangesAsked
<1> DEFINE Asked == \A u \in Users, c \in Columns :
       accounts'[u][c] # accounts[u][c] =>
         \E r \in Requests : /\ req[r].pc = "commit" /\ req'[r].pc = "done"
                             /\ req[r].user = u /\ req[r].new[c] = accounts'[u][c]
<1>1. ASSUME IInv, [Next]_vars PROVE [Asked]_vars
  <2>1. CASE accounts' = accounts
    BY <2>1
  <2>2. ASSUME NEW r \in Requests, Commit(r) PROVE Asked
    <3> SUFFICES ASSUME NEW u \in Users, NEW c \in Columns, accounts'[u][c] # accounts[u][c]
                 PROVE  \E q \in Requests : /\ req[q].pc = "commit" /\ req'[q].pc = "done"
                                            /\ req[q].user = u /\ req[q].new[c] = accounts'[u][c]
      OBVIOUS
    <3>1. u \in Requests
      BY DEF Users
    <3>2. u = req[r].user
      BY <1>1, <2>2, <3>1, CommitRow
    <3>3. c \in req[r].written
      BY <1>1, <2>2, <3>2, CommitRow
    <3>4. req[r].new[c] = accounts'[u][c]
      BY <1>1, <2>2, <3>2, <3>3, CommitRow
    <3>5. req[r].pc = "commit" /\ req'[r].pc = "done"
      <4>1. req \in [Requests -> Sessions] /\ req' = [req EXCEPT ![r].pc = "done"]
        BY <1>1, <2>2 DEF Commit, IInv, TypeOK
      <4> QED
        BY <2>2, <4>1 DEF Commit, Sessions
    <3> QED
      BY <3>2, <3>4, <3>5
  <2>3. accounts' = accounts \/ \E r \in Requests : Commit(r)
    BY <1>1 DEF vars, Next, Handle, Login, SessionExpires, RequestReset, TokenExpires, Restart,
                Register, ProfileBegin, ProfileCheck, ConfirmBegin, Use, Flush, Abort, Start
  <2> QED
    BY <2>1, <2>2, <2>3
<1> QED
  BY <1>1, Inductive, PTL DEF Spec, ChangesAsked

=============================================================================
