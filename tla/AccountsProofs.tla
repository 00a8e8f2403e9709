--------------------------- MODULE AccountsProofs ---------------------------
(***************************************************************************)
(* Proofs about Accounts.  What the tables and the operations under way    *)
(* say of each other (KnownInv) holds for any number of custody operations *)
(* at a time; that a notebook is owned or locked, and that a disablement   *)
(* leaves no notebook behind (CustodyInv), for one at a time.              *)
(***************************************************************************)
EXTENDS Accounts, SequenceTheorems, TLAPS

Roles == {"none", "owner", "editor", "viewer"}

Row == [made : BOOLEAN, column : {"none", "locked"}, event : {"none", "locked", "scheduled", "transferred"},
        role : [People -> Roles]]

Session == [user : People, live : BOOLEAN]

(* A request and a custody operation under way.                            *)
Ticket == [op : {"none", "register", "bootstrap", "login", "rotate", "logout", "notebook"},
           at : {"none", "create", "issue", "principal", "handler", "rotate", "logout"},
           who : People \cup {"none"}, token : Nat]

Work == [op : {"none", "disable", "transfer", "schedule"},
         at : {"none", "status", "revoke", "list", "next", "lock", "locked", "remove", "unlock", "unlocked",
               "save", "saved"},
         actor : People \cup {"none"}, who : People \cup {"none"}, book : Notebooks \cup {"none"},
         listed : SUBSET (Notebooks \cup People), left : SUBSET (Notebooks \cup People)]

TablesInv ==
  /\ accounts \in [People -> [status : {"absent", "active", "disabled"}, admin : BOOLEAN]]
  /\ tokens \in Seq(Session)
  /\ custody \in [Notebooks -> Row]
  /\ desk \in [Requests -> Ticket]
  /\ clerk \in [Clerks -> Work]

Known(p) == p \in People /\ accounts[p].status # "absent"

AccountsInv == \A p \in People : accounts[p].admin => Known(p)

TokensInv == \A s \in 1..Len(tokens) : Known(tokens[s].user)

RowsInv ==
  \A n \in Notebooks :
    /\ custody[n].event # "none" => custody[n].made
    /\ \A p \in People : custody[n].role[p] # "none" => custody[n].made /\ Known(p)

DeskInv ==
  \A r \in Requests :
    /\ desk[r].at # "none" => desk[r].who \in People
    /\ desk[r].at \notin {"none", "create"} => Known(desk[r].who)
    /\ desk[r].token <= Len(tokens)
    /\ desk[r].at \in {"principal", "handler", "rotate", "logout"} => desk[r].token >= 1

Made(n) == n \in Notebooks /\ custody[n].made

ClerkInv ==
  \A k \in Clerks :
    /\ clerk[k].op = "disable" =>
         /\ Known(clerk[k].who)
         /\ \A n \in clerk[k].listed \cup clerk[k].left : Made(n)
         /\ clerk[k].at \in {"lock", "locked"} => Made(clerk[k].book)
    /\ clerk[k].op = "transfer" =>
         /\ Known(clerk[k].who) /\ clerk[k].actor # clerk[k].who
         /\ Made(clerk[k].book)
         /\ clerk[k].left \subseteq People
    /\ clerk[k].op = "schedule" => Made(clerk[k].book)

KnownInv == TablesInv /\ AccountsInv /\ TokensInv /\ RowsInv /\ DeskInv /\ ClerkInv

-----------------------------------------------------------------------------
(* Steps that leave all but one or two of the variables alone.             *)

(* Accounts that are known stay known, notebooks that are made stay made.  *)
LEMMA DeskFrame ==
  ASSUME KnownInv, UNCHANGED <<accounts, tokens, custody, clerk>>,
         desk' \in [Requests -> Ticket],
         DeskInv'
  PROVE  KnownInv'
<1>1. \A p : Known(p)' <=> Known(p)
  BY DEF Known
<1>2. \A n : Made(n)' <=> Made(n)
  BY DEF Made
<1>3. TablesInv'
  BY DEF KnownInv, TablesInv
<1>4. AccountsInv' /\ TokensInv' /\ RowsInv'
  BY <1>1 DEF KnownInv, AccountsInv, TokensInv, RowsInv
<1>5. ClerkInv'
  BY <1>1, <1>2 DEF KnownInv, ClerkInv
<1> QED BY <1>3, <1>4, <1>5 DEF KnownInv

LEMMA ClerkFrame ==
  ASSUME KnownInv, UNCHANGED <<accounts, tokens, desk>>,
         custody' \in [Notebooks -> Row], RowsInv',
         clerk' \in [Clerks -> Work],
         ClerkInv'
  PROVE  KnownInv'
<1>1. \A p : Known(p)' <=> Known(p)
  BY DEF Known
<1>2. TablesInv'
  BY DEF KnownInv, TablesInv
<1>3. AccountsInv' /\ TokensInv' /\ DeskInv'
  BY <1>1 DEF KnownInv, AccountsInv, TokensInv, DeskInv
<1> QED BY <1>2, <1>3 DEF KnownInv

-----------------------------------------------------------------------------
(* Requests.                                                               *)

LEMMA BeginRequestKeeps ==
  ASSUME KnownInv, NEW r \in Requests,
         NEW request \in Ticket,
         BeginRequest(r, request),
         request.who \in People,
         request.at # "create" => Known(request.who),
         request.token <= Len(tokens),
         request.at \in {"principal", "handler", "rotate", "logout"} => request.token >= 1
  PROVE  KnownInv'
<1>1. /\ desk' = [desk EXCEPT ![r] = request]
      /\ UNCHANGED <<accounts, tokens, custody, clerk>>
  BY DEF BeginRequest
<1>2. desk' \in [Requests -> Ticket]
  BY <1>1 DEF KnownInv, TablesInv, Ticket
<1>3. DeskInv'
  BY <1>1 DEF KnownInv, TablesInv, DeskInv, Known, Ticket
<1> QED BY <1>1, <1>2, <1>3, DeskFrame

LEMMA EndRequestKeeps ==
  ASSUME KnownInv, NEW r \in Requests, EndRequest(r), UNCHANGED <<accounts, tokens, custody, clerk>>
  PROVE  KnownInv'
<1>1. desk' = [desk EXCEPT ![r] = NoRequestYet]
  BY DEF EndRequest
<1>2. desk' \in [Requests -> Ticket]
  BY <1>1 DEF KnownInv, TablesInv, NoRequestYet, Ticket
<1>3. Len(tokens) \in Nat
  BY DEF KnownInv, TablesInv
<1>4. DeskInv'
  BY <1>1, <1>3 DEF KnownInv, TablesInv, DeskInv, Known, NoRequestYet, Ticket
<1> QED BY <1>2, <1>4, DeskFrame

LEMMA GoesKeeps ==
  ASSUME KnownInv, NEW r \in Requests, NEW at \in {"handler", "rotate", "logout"}, Goes(r, at),
         desk[r].at \in {"principal", "handler"}, UNCHANGED <<accounts, tokens, custody, clerk>>
  PROVE  KnownInv'
<1>1. desk' = [desk EXCEPT ![r].at = at]
  BY DEF Goes
<1>2. desk' \in [Requests -> Ticket]
  BY <1>1 DEF KnownInv, TablesInv, Ticket
<1>3. DeskInv'
  BY <1>1 DEF KnownInv, TablesInv, DeskInv, Known, Ticket
<1> QED BY <1>2, <1>3, DeskFrame

(* The account and the requests, when one request creates an account.      *)
LEMMA CreateKeeps ==
  ASSUME KnownInv, NEW r \in Requests, Create(r)
  PROVE  KnownInv'
<1> DEFINE p == desk[r].who
<1>1. p \in People /\ desk[r].at = "create"
  BY DEF KnownInv, DeskInv, Create
<1>2. /\ desk' = [desk EXCEPT ![r] = NoRequestYet]
      /\ UNCHANGED <<tokens, custody, clerk>>
  BY DEF Create, EndRequest
<1>3. /\ accounts' \in [People -> [status : {"absent", "active", "disabled"}, admin : BOOLEAN]]
      /\ \A q \in People : accounts'[q].status = "absent" => accounts[q].status = "absent"
      /\ \A q \in People : accounts'[q].admin => accounts[q].admin \/ accounts'[q].status # "absent"
  BY <1>1 DEF KnownInv, TablesInv, Create
<1>4. \A q : Known(q) => Known(q)'
  BY <1>3 DEF Known
<1>5. TablesInv'
  BY <1>2, <1>3 DEF KnownInv, TablesInv, NoRequestYet, Ticket
<1>6. AccountsInv'
  BY <1>3, <1>4 DEF KnownInv, AccountsInv, Known
<1>7. TokensInv' /\ RowsInv'
  BY <1>2, <1>4 DEF KnownInv, TokensInv, RowsInv
<1>8. Len(tokens) \in Nat
  BY DEF KnownInv, TablesInv
<1>9. DeskInv'
  BY <1>2, <1>4, <1>8 DEF KnownInv, TablesInv, DeskInv, NoRequestYet, Ticket
<1>10. ClerkInv'
  <2>1. \A n : Made(n) => Made(n)'
    BY <1>2 DEF Made
  <2> QED BY <1>2, <1>4, <2>1 DEF KnownInv, ClerkInv
<1> QED BY <1>5, <1>6, <1>7, <1>9, <1>10 DEF KnownInv

LEMMA TokenFacts ==
  ASSUME KnownInv
  PROVE  /\ tokens \in Seq(Session) /\ Len(tokens) \in Nat
         /\ tokens \in [1..Len(tokens) -> Session] /\ DOMAIN tokens = 1..Len(tokens)
         /\ \A s \in 1..Len(tokens) : tokens[s] \in Session /\ Known(tokens[s].user)
<1>1. tokens \in Seq(Session)
  BY DEF KnownInv, TablesInv
<1> QED BY <1>1, LenProperties DEF KnownInv, TokensInv

(* A session that is ended is still a session of its account.              *)
LEMMA SessionEnds ==
  ASSUME KnownInv, NEW t \in 1..Len(tokens)
  PROVE  LET ended == [tokens EXCEPT ![t].live = FALSE]
         IN  /\ ended \in Seq(Session) /\ Len(ended) = Len(tokens)
             /\ \A s \in 1..Len(tokens) : Known(ended[s].user)
<1> DEFINE e == [tokens[t] EXCEPT !.live = FALSE]
           ended == [tokens EXCEPT ![t] = e]
<1>1. tokens[t] \in Session /\ Known(tokens[t].user)
  BY TokenFacts
<1>2. e \in Session /\ e.user = tokens[t].user
  BY <1>1 DEF Session
<1>3. /\ ended \in Seq(Session) /\ Len(ended) = Len(tokens)
      /\ \A s \in 1..Len(tokens) : ended[s] = IF s = t THEN e ELSE tokens[s]
  <2> HIDE DEF e
  <2> QED BY <1>2, TokenFacts, ExceptSeq
<1>4. \A s \in 1..Len(tokens) : Known(ended[s].user)
  <2> HIDE DEF e, ended
  <2> QED BY <1>1, <1>2, <1>3, TokenFacts
<1>5. ended = [tokens EXCEPT ![t].live = FALSE]
  OBVIOUS
<1> QED BY <1>3, <1>4, <1>5

(* Sessions are only added, or lose their life.                            *)
LEMMA TokensKeep ==
  ASSUME KnownInv, UNCHANGED <<accounts, custody>>,
         desk' \in [Requests -> Ticket],
         \A r \in Requests : desk'[r] \in {desk[r], NoRequestYet},
         clerk' \in [Clerks -> Work],
         ClerkInv',
         tokens' \in Seq(Session),
         Len(tokens) <= Len(tokens'),
         \A s \in 1..Len(tokens') : Known(tokens'[s].user)
  PROVE  KnownInv'
<1>1. \A p : Known(p)' <=> Known(p)
  BY DEF Known
<1>2. TablesInv'
  BY DEF KnownInv, TablesInv
<1>3. AccountsInv' /\ TokensInv' /\ RowsInv'
  BY <1>1 DEF KnownInv, AccountsInv, TokensInv, RowsInv
<1>4. Len(tokens) \in Nat /\ Len(tokens') \in Nat
  BY DEF KnownInv, TablesInv
<1>5. DeskInv'
  <2> SUFFICES ASSUME NEW r \in Requests
      PROVE  /\ desk'[r].at # "none" => desk'[r].who \in People
             /\ desk'[r].at \notin {"none", "create"} => Known(desk[r].who)'
             /\ desk'[r].token <= Len(tokens')
             /\ desk'[r].at \in {"principal", "handler", "rotate", "logout"} => desk'[r].token >= 1
    BY DEF DeskInv
  <2>1. CASE desk'[r] = desk[r]
    BY <1>1, <1>4, <2>1 DEF KnownInv, DeskInv, TablesInv, Ticket
  <2>2. CASE desk'[r] = NoRequestYet
    BY <1>4, <2>2 DEF NoRequestYet, Ticket
  <2> QED BY <2>1, <2>2
<1> QED BY <1>2, <1>3, <1>5 DEF KnownInv

LEMMA ClerkKept ==
  ASSUME KnownInv, UNCHANGED <<accounts, custody, clerk>>
  PROVE  /\ ClerkInv'
         /\ clerk' \in [Clerks -> Work]
<1>1. \A p : Known(p)' <=> Known(p)
  BY DEF Known
<1>2. \A n : Made(n)' <=> Made(n)
  BY DEF Made
<1> QED BY <1>1, <1>2 DEF KnownInv, TablesInv, ClerkInv

LEMMA DeskEnds ==
  ASSUME KnownInv, NEW r \in Requests, EndRequest(r)
  PROVE  /\ desk' \in [Requests -> Ticket]
         /\ \A q \in Requests : desk'[q] \in {desk[q], NoRequestYet}
BY DEF KnownInv, TablesInv, EndRequest, NoRequestYet, Ticket

LEMMA IssueKeeps ==
  ASSUME KnownInv, NEW r \in Requests, Issue(r)
  PROVE  KnownInv'
<1>1. /\ tokens' = Append(tokens, [user |-> desk[r].who, live |-> TRUE])
      /\ UNCHANGED <<accounts, custody, clerk>> /\ EndRequest(r)
  BY DEF Issue
<1>2. Known(desk[r].who)
  BY DEF KnownInv, DeskInv, Issue
<1>3. /\ tokens' \in Seq(Session)
      /\ Len(tokens') = Len(tokens) + 1 /\ Len(tokens) \in Nat
      /\ \A s \in 1..Len(tokens') : Known(tokens'[s].user)
  <2>1. [user |-> desk[r].who, live |-> TRUE] \in Session
    BY <1>2 DEF Known, Session
  <2> QED BY <1>1, <1>2, <2>1, TokenFacts, AppendProperties
<1> QED BY <1>1, <1>3, ClerkKept, DeskEnds, TokensKeep

LEMMA RotateKeeps ==
  ASSUME KnownInv, NEW r \in Requests, Rotate(r)
  PROVE  KnownInv'
<1> DEFINE t == desk[r].token
           ended == [tokens EXCEPT ![t].live = FALSE]
<1>1. /\ tokens' = Append(ended, [user |-> tokens[t].user, live |-> TRUE])
      /\ UNCHANGED <<accounts, custody, clerk>> /\ EndRequest(r)
  BY DEF Rotate
<1>2. t \in 1..Len(tokens)
  BY TokenFacts DEF KnownInv, DeskInv, TablesInv, Rotate, Ticket
<1>3. /\ ended \in Seq(Session) /\ Len(ended) = Len(tokens)
      /\ \A s \in 1..Len(tokens) : Known(ended[s].user)
  BY <1>2, SessionEnds
<1>4. Known(tokens[t].user) /\ [user |-> tokens[t].user, live |-> TRUE] \in Session
  BY <1>2, TokenFacts DEF Session
<1>5. /\ tokens' \in Seq(Session)
      /\ Len(tokens') = Len(tokens) + 1 /\ Len(tokens) \in Nat
      /\ \A s \in 1..Len(tokens') : Known(tokens'[s].user)
  <2> HIDE DEF ended, t
  <2> QED BY <1>1, <1>3, <1>4, TokenFacts DEF Known
<1> QED BY <1>1, <1>5, ClerkKept, DeskEnds, TokensKeep

LEMMA LogoutKeeps ==
  ASSUME KnownInv, NEW r \in Requests, Logout(r)
  PROVE  KnownInv'
<1>1. /\ tokens' = [tokens EXCEPT ![desk[r].token].live = FALSE]
      /\ UNCHANGED <<accounts, custody, clerk>> /\ EndRequest(r)
  BY DEF Logout
<1>2. desk[r].token \in 1..Len(tokens)
  BY TokenFacts DEF KnownInv, DeskInv, TablesInv, Logout, Ticket
<1>3. /\ tokens' \in Seq(Session) /\ Len(tokens') = Len(tokens)
      /\ \A s \in 1..Len(tokens') : Known(tokens'[s].user)
  BY <1>1, <1>2, SessionEnds
<1>4. Len(tokens) <= Len(tokens')
  BY <1>3, TokenFacts
<1> QED BY <1>1, <1>3, <1>4, ClerkKept, DeskEnds, TokensKeep

LEMMA ExpireKeeps ==
  ASSUME KnownInv, Expire
  PROVE  KnownInv'
<1>1. PICK s \in 1..Len(tokens) : tokens' = [tokens EXCEPT ![s].live = FALSE]
  BY DEF Expire
<1>2. UNCHANGED <<accounts, custody, desk, clerk>>
  BY DEF Expire
<1>3. /\ tokens' \in Seq(Session) /\ Len(tokens') = Len(tokens)
      /\ \A t \in 1..Len(tokens') : Known(tokens'[t].user)
  BY <1>1, SessionEnds
<1>4. Len(tokens) <= Len(tokens')
  BY <1>3, TokenFacts
<1>5. /\ desk' \in [Requests -> Ticket]
      /\ \A q \in Requests : desk'[q] \in {desk[q], NoRequestYet}
  BY <1>2 DEF KnownInv, TablesInv
<1> QED BY <1>2, <1>3, <1>4, <1>5, ClerkKept, TokensKeep

LEMMA CreateNotebookKeeps ==
  ASSUME KnownInv, NEW r \in Requests, CreateNotebook(r)
  PROVE  KnownInv'
<1> DEFINE p == desk[r].who
<1>1. PICK n \in Notebooks : ~custody[n].made /\ custody' = [custody EXCEPT ![n] = OwnedBy(p)]
  BY DEF CreateNotebook
<1>2. Known(p) /\ EndRequest(r) /\ UNCHANGED <<accounts, tokens, clerk>>
  BY DEF CreateNotebook, KnownInv, DeskInv
<1>3. /\ OwnedBy(p) \in Row /\ OwnedBy(p).made /\ OwnedBy(p).event = "none"
      /\ \A q \in People : OwnedBy(p).role[q] # "none" => q = p
  BY <1>2 DEF OwnedBy, Unmade, Row, Roles, Known
<1>4. custody' \in [Notebooks -> Row]
  BY <1>1, <1>3 DEF KnownInv, TablesInv
<1>5. RowsInv'
  <2> HIDE DEF p
  <2> QED BY <1>1, <1>2, <1>3 DEF KnownInv, TablesInv, RowsInv, Known
<1>6. \A m : Made(m) => Made(m)'
  BY <1>1, <1>3 DEF Made, KnownInv, TablesInv
<1>7. \A q : Known(q)' <=> Known(q)
  BY <1>2 DEF Known
<1>8. ClerkInv' /\ AccountsInv' /\ TokensInv'
  BY <1>2, <1>6, <1>7 DEF KnownInv, ClerkInv, AccountsInv, TokensInv
<1>9. /\ desk' \in [Requests -> Ticket]
      /\ \A q \in Requests : desk'[q] \in {desk[q], NoRequestYet}
  BY <1>2, DeskEnds
<1>10. TablesInv'
  BY <1>2, <1>4, <1>9 DEF KnownInv, TablesInv
<1>11. Len(tokens) \in Nat
  BY DEF KnownInv, TablesInv
<1>12. DeskInv'
  <2> SUFFICES ASSUME NEW q \in Requests
      PROVE  /\ desk'[q].at # "none" => desk'[q].who \in People
             /\ desk'[q].at \notin {"none", "create"} => Known(desk[q].who)'
             /\ desk'[q].token <= Len(tokens')
             /\ desk'[q].at \in {"principal", "handler", "rotate", "logout"} => desk'[q].token >= 1
    BY DEF DeskInv
  <2>1. CASE desk'[q] = desk[q]
    BY <1>2, <1>7, <2>1 DEF KnownInv, DeskInv
  <2>2. CASE desk'[q] = NoRequestYet
    BY <1>2, <1>11, <2>2 DEF NoRequestYet, Ticket
  <2> QED BY <1>9, <2>1, <2>2
<1> QED BY <1>5, <1>8, <1>10, <1>12 DEF KnownInv

LEMMA RequestStepKeeps ==
  ASSUME KnownInv, NEW r \in Requests, RequestStep(r)
  PROVE  KnownInv'
<1>0. Len(tokens) \in Nat
  BY DEF KnownInv, TablesInv
<1>1. ASSUME NEW p \in People, Registers(r, p) PROVE KnownInv'
  <2> DEFINE request == [NoRequestYet EXCEPT !.op = "register", !.at = "create", !.who = p]
  <2>1. request \in Ticket /\ request.who = p /\ request.at = "create" /\ request.token = 0
    BY DEF NoRequestYet, Ticket
  <2>2. BeginRequest(r, request)
    BY <1>1 DEF Registers
  <2> HIDE DEF request
  <2> QED BY <1>0, <2>1, <2>2, BeginRequestKeeps
<1>2. ASSUME NEW p \in People, Bootstraps(r, p) PROVE KnownInv'
  <2> DEFINE request == [NoRequestYet EXCEPT !.op = "bootstrap", !.at = "create", !.who = p]
  <2>1. request \in Ticket /\ request.who = p /\ request.at = "create" /\ request.token = 0
    BY DEF NoRequestYet, Ticket
  <2>2. BeginRequest(r, request)
    BY <1>2 DEF Bootstraps
  <2> HIDE DEF request
  <2> QED BY <1>0, <2>1, <2>2, BeginRequestKeeps
<1>3. ASSUME NEW p \in People, LogsIn(r, p) PROVE KnownInv'
  <2> DEFINE request == [NoRequestYet EXCEPT !.op = "login", !.at = "issue", !.who = p]
  <2>1. request \in Ticket /\ request.who = p /\ request.at = "issue" /\ request.token = 0
    BY DEF NoRequestYet, Ticket
  <2>2. BeginRequest(r, request) /\ Known(p)
    BY <1>3 DEF LogsIn, Enabled, Known
  <2> HIDE DEF request
  <2> QED BY <1>0, <2>1, <2>2, BeginRequestKeeps
<1>4. ASSUME NEW s \in 1..Len(tokens), NEW op \in {"rotate", "logout", "notebook"}, Presents(r, s, op)
      PROVE  KnownInv'
  <2>1. Known(tokens[s].user)
    BY DEF KnownInv, TokensInv
  <2> DEFINE request == [op |-> op, at |-> "principal", who |-> tokens[s].user, token |-> s]
  <2>2. request \in Ticket
    BY <1>0, <2>1 DEF Known, Ticket
  <2>3. BeginRequest(r, request)
    BY <1>4 DEF Presents
  <2>4. /\ request.who = tokens[s].user /\ request.at = "principal" /\ request.token = s
        /\ s <= Len(tokens) /\ s >= 1
    BY <1>0
  <2> HIDE DEF request
  <2> QED BY <2>1, <2>2, <2>3, <2>4, BeginRequestKeeps DEF Known
<1>5. CASE Resolve(r)
  BY <1>5, GoesKeeps, EndRequestKeeps DEF Resolve
<1>6. CASE Reauthenticate(r)
  BY <1>6, GoesKeeps, EndRequestKeeps DEF Reauthenticate
<1>7. CASE CutRequest(r)
  BY <1>7, EndRequestKeeps DEF CutRequest
<1> QED BY <1>1, <1>2, <1>3, <1>4, <1>5, <1>6, <1>7, CreateKeeps, IssueKeeps, RotateKeeps, LogoutKeeps,
          CreateNotebookKeeps DEF RequestStep

-----------------------------------------------------------------------------
(* Custody operations.                                                     *)

(* What ClerkInv says of one operation.                                    *)
WorkOK(work) ==
  /\ work.op = "disable" =>
       /\ Known(work.who)
       /\ \A n \in work.listed \cup work.left : Made(n)
       /\ work.at \in {"lock", "locked"} => Made(work.book)
  /\ work.op = "transfer" =>
       /\ Known(work.who) /\ work.actor # work.who
       /\ Made(work.book)
       /\ work.left \subseteq People
  /\ work.op = "schedule" => Made(work.book)

LEMMA WorksOK == ClerkInv <=> \A k \in Clerks : WorkOK(clerk[k])
BY DEF ClerkInv, WorkOK

(* An operation takes new work, or drops it, and the rows stay.            *)
LEMMA WorkKeeps ==
  ASSUME KnownInv, NEW k \in Clerks, NEW work \in Work, WorkOK(work),
         clerk' = [clerk EXCEPT ![k] = work], UNCHANGED <<accounts, tokens, custody, desk>>
  PROVE  KnownInv'
<1>1. clerk' \in [Clerks -> Work]
  BY DEF KnownInv, TablesInv, Work
<1>2. \A p : Known(p)' <=> Known(p)
  BY DEF Known
<1>3. \A n : Made(n)' <=> Made(n)
  BY DEF Made
<1>4. \A l \in Clerks : WorkOK(clerk'[l])
  BY WorksOK DEF KnownInv, TablesInv
<1>5. ClerkInv'
  BY <1>2, <1>3, <1>4 DEF ClerkInv, WorkOK
<1>6. RowsInv' /\ custody' \in [Notebooks -> Row]
  BY <1>2 DEF KnownInv, RowsInv, TablesInv
<1> QED BY <1>1, <1>5, <1>6, ClerkFrame DEF Work

(* An operation writes the row of its notebook, which stays made.          *)
LEMMA RowKeeps ==
  ASSUME KnownInv, NEW k \in Clerks, NEW work \in Work, WorkOK(work), NEW n, Made(n), NEW row \in Row,
         row.made, \A p \in People : row.role[p] # "none" => Known(p),
         custody' = [custody EXCEPT ![n] = row],
         clerk' = [clerk EXCEPT ![k] = work], UNCHANGED <<accounts, tokens, desk>>
  PROVE  KnownInv'
<1>1. clerk' \in [Clerks -> Work] /\ custody' \in [Notebooks -> Row]
  BY DEF KnownInv, TablesInv, Work
<1>2. \A p : Known(p)' <=> Known(p)
  BY DEF Known
<1>3. \A m : Made(m) => Made(m)'
  BY DEF Made, KnownInv, TablesInv
<1>4. \A l \in Clerks : WorkOK(clerk'[l])
  BY WorksOK DEF KnownInv, TablesInv
<1>5. ClerkInv'
  BY <1>2, <1>3, <1>4 DEF ClerkInv, WorkOK
<1>6. RowsInv'
  BY <1>2 DEF KnownInv, RowsInv, TablesInv, Made
<1> QED BY <1>1, <1>5, <1>6, ClerkFrame DEF Work

LEMMA NoWork == NoCustodyWork \in Work /\ WorkOK(NoCustodyWork)
BY DEF NoCustodyWork, Work, WorkOK

LEMMA BeginCustodyKeeps ==
  ASSUME KnownInv, NEW k \in Clerks, NEW work \in Work, WorkOK(work), BeginCustody(k, work)
  PROVE  KnownInv'
<1>1. clerk' = [clerk EXCEPT ![k] = work] /\ UNCHANGED <<accounts, tokens, custody, desk>>
  BY DEF BeginCustody
<1> QED BY <1>1, WorkKeeps

LEMMA EndCustodyKeeps ==
  ASSUME KnownInv, NEW k \in Clerks, EndCustody(k), UNCHANGED <<accounts, tokens, custody, desk>>
  PROVE  KnownInv'
<1>1. clerk' = [clerk EXCEPT ![k] = NoCustodyWork]
  BY DEF EndCustody
<1> QED BY <1>1, NoWork, WorkKeeps

(* The operations of clerk k as records.                                   *)
LEMMA ClerkFacts ==
  ASSUME KnownInv, NEW k \in Clerks
  PROVE  /\ clerk[k] \in Work /\ WorkOK(clerk[k])
         /\ clerk \in [Clerks -> Work]
BY WorksOK DEF KnownInv, TablesInv, Work

(* A row of custody, whose column, event or one role is written.           *)
LEMMA RowFacts ==
  ASSUME KnownInv, NEW n, Made(n)
  PROVE  /\ custody[n] \in Row /\ custody[n].made
         /\ \A p \in People : custody[n].role[p] # "none" => Known(p)
BY DEF KnownInv, TablesInv, RowsInv, Made

LEMMA BeginsKeep ==
  ASSUME KnownInv, NEW k \in Clerks, NEW a \in People, NEW p \in People
  PROVE  /\ BeginDisable(k, a, p) => KnownInv'
         /\ \A n \in Notebooks : BeginTransfer(k, a, n, p) => KnownInv'
         /\ \A n \in Notebooks : BeginSchedule(k, a, n) => KnownInv'
<1>1. ASSUME BeginDisable(k, a, p) PROVE KnownInv'
  <2> DEFINE work == [NoCustodyWork EXCEPT !.op = "disable", !.at = "status", !.actor = a, !.who = p]
  <2>1. Known(p) /\ BeginCustody(k, work)
    BY <1>1 DEF BeginDisable, Known
  <2>2. work \in Work /\ WorkOK(work)
    BY <2>1 DEF NoCustodyWork, Work, WorkOK
  <2> QED BY <2>1, <2>2, BeginCustodyKeeps
<1>2. ASSUME NEW n \in Notebooks, BeginTransfer(k, a, n, p) PROVE KnownInv'
  <2> DEFINE work == [op |-> "transfer", at |-> "remove", actor |-> a, who |-> p, book |-> n,
                      listed |-> Owners(n), left |-> Owners(n)]
  <2>1. Known(p) /\ p # a /\ Made(n) /\ BeginCustody(k, work)
    BY <1>2 DEF BeginTransfer, MayReceive, Enabled, Known, Made
  <2>2. Owners(n) \subseteq People
    BY DEF Owners
  <2>3. work \in Work /\ WorkOK(work)
    BY <2>1, <2>2 DEF Work, WorkOK
  <2> QED BY <2>1, <2>3, BeginCustodyKeeps
<1>3. ASSUME NEW n \in Notebooks, BeginSchedule(k, a, n) PROVE KnownInv'
  <2> DEFINE work == [NoCustodyWork EXCEPT !.op = "schedule", !.at = "save", !.actor = a, !.book = n]
  <2>1. Made(n) /\ BeginCustody(k, work)
    BY <1>3 DEF BeginSchedule, Made
  <2>2. work \in Work /\ WorkOK(work)
    BY <2>1 DEF NoCustodyWork, Work, WorkOK
  <2> QED BY <2>1, <2>2, BeginCustodyKeeps
<1> QED BY <1>1, <1>2, <1>3

(* The account is disabled, and the sessions that are live are revoked.    *)
LEMMA SetDisabledKeeps ==
  ASSUME KnownInv, NEW k \in Clerks, SetDisabled(k)
  PROVE  KnownInv'
<1>1. /\ accounts' = [accounts EXCEPT ![clerk[k].who].status = "disabled"]
      /\ clerk' = [clerk EXCEPT ![k].at = "revoke"] /\ clerk[k].op = "disable"
      /\ UNCHANGED <<tokens, custody, desk>>
  BY DEF SetDisabled, Doing
<1>2. Known(clerk[k].who)
  BY <1>1, ClerkFacts DEF WorkOK
<1>3. /\ accounts' \in [People -> [status : {"absent", "active", "disabled"}, admin : BOOLEAN]]
      /\ \A q : Known(q)' <=> Known(q)
      /\ \A q \in People : accounts'[q].admin = accounts[q].admin
  BY <1>1, <1>2 DEF KnownInv, TablesInv, Known
<1>4. \A n : Made(n)' <=> Made(n)
  BY <1>1 DEF Made
<1>5. clerk' \in [Clerks -> Work] /\ \A l \in Clerks : WorkOK(clerk'[l])
  BY <1>1, <1>2, ClerkFacts DEF WorkOK, Work
<1>6. ClerkInv'
  BY <1>3, <1>4, <1>5 DEF ClerkInv, WorkOK
<1>7. TablesInv'
  BY <1>1, <1>3, <1>5 DEF KnownInv, TablesInv, Work
<1>8. AccountsInv' /\ TokensInv' /\ RowsInv' /\ DeskInv'
  BY <1>1, <1>3 DEF KnownInv, AccountsInv, TokensInv, RowsInv, DeskInv
<1> QED BY <1>6, <1>7, <1>8 DEF KnownInv

LEMMA RevokeAllKeeps ==
  ASSUME KnownInv, NEW k \in Clerks, RevokeAll(k)
  PROVE  KnownInv'
<1>1. /\ tokens' = Revoked(clerk[k].who)
      /\ clerk' = [clerk EXCEPT ![k].at = "list"] /\ clerk[k].op = "disable"
      /\ UNCHANGED <<accounts, custody, desk>>
  BY DEF RevokeAll, Doing
<1>2. /\ tokens' \in Seq(Session) /\ Len(tokens') = Len(tokens) /\ Len(tokens) \in Nat
      /\ \A s \in 1..Len(tokens) : tokens'[s].user = tokens[s].user
  <2>1. /\ DOMAIN tokens' = 1..Len(tokens)
        /\ \A s \in 1..Len(tokens) : tokens'[s] \in Session /\ tokens'[s].user = tokens[s].user
    BY <1>1, TokenFacts DEF Revoked, Session
  <2>2. tokens' \in [1..Len(tokens) -> Session]
    BY <1>1, <2>1, TokenFacts DEF Revoked
  <2>3. tokens' \in Seq(Session)
    BY <2>2, TokenFacts, SeqDef
  <2> QED BY <2>1, <2>3, TokenFacts, LenProperties
<1>3. \A s \in 1..Len(tokens') : Known(tokens'[s].user)
  BY <1>2 DEF KnownInv, TokensInv
<1>4. clerk' \in [Clerks -> Work] /\ \A l \in Clerks : WorkOK(clerk'[l])
  BY <1>1, ClerkFacts DEF WorkOK, Work
<1>5. ClerkInv'
  BY <1>1, <1>4 DEF ClerkInv, WorkOK, Known, Made
<1>6. /\ desk' \in [Requests -> Ticket]
      /\ \A q \in Requests : desk'[q] \in {desk[q], NoRequestYet}
  BY <1>1 DEF KnownInv, TablesInv
<1> QED BY <1>1, <1>2, <1>3, <1>4, <1>5, <1>6, TokensKeep DEF Work

LEMMA DisableStepsKeep ==
  ASSUME KnownInv, NEW k \in Clerks
  PROVE  /\ ListSoleOwned(k) => KnownInv'
         /\ TakeNext(k) => KnownInv'
         /\ SaveLocked(k) => KnownInv'
         /\ RecordLocked(k) => KnownInv'
<1>1. ASSUME ListSoleOwned(k) PROVE KnownInv'
  <2> DEFINE found == SoleOwned(clerk[k].who)
             work == [clerk[k] EXCEPT !.at = "next", !.listed = found, !.left = found]
  <2>1. /\ clerk' = [clerk EXCEPT ![k] = work] /\ clerk[k].op = "disable"
        /\ UNCHANGED <<accounts, tokens, custody, desk>>
    BY <1>1, ClerkFacts DEF ListSoleOwned, Doing
  <2>2. \A n \in found : Made(n)
    <3>1. Known(clerk[k].who)
      BY <2>1, ClerkFacts DEF WorkOK
    <3> QED BY <3>1 DEF SoleOwned, Owners, Made, KnownInv, RowsInv, Known
  <2>3. work \in Work /\ WorkOK(work)
    <3>1. found \subseteq Notebooks
      BY <2>2 DEF Made
    <3> HIDE DEF found
    <3>2. work \in Work
      BY <3>1, ClerkFacts DEF Work
    <3>3. /\ work.op = clerk[k].op /\ work.at = "next" /\ work.who = clerk[k].who
          /\ work.listed = found /\ work.left = found
      BY ClerkFacts DEF Work
    <3>4. Known(clerk[k].who)
      BY <2>1, ClerkFacts DEF WorkOK
    <3> HIDE DEF work
    <3>5. WorkOK(work)
      BY <2>1, <2>2, <3>3, <3>4 DEF WorkOK
    <3> QED BY <3>2, <3>5
  <2> HIDE DEF work
  <2> QED BY <2>1, <2>3, WorkKeeps
<1>2. ASSUME TakeNext(k) PROVE KnownInv'
  <2>1. PICK n \in clerk[k].left :
           clerk' = [clerk EXCEPT ![k].left = @ \ {n}, ![k].book = n,
                                  ![k].at = IF MustLock(n) THEN "lock" ELSE "next"]
    BY <1>2 DEF TakeNext
  <2> DEFINE work == [clerk[k] EXCEPT !.left = @ \ {n}, !.book = n,
                                      !.at = IF MustLock(n) THEN "lock" ELSE "next"]
  <2>2. clerk' = [clerk EXCEPT ![k] = work] /\ clerk[k].op = "disable"
        /\ UNCHANGED <<accounts, tokens, custody, desk>>
    BY <1>2, <2>1, ClerkFacts DEF TakeNext, Doing
  <2>3. Made(n)
    BY <2>2, ClerkFacts DEF WorkOK
  <2>4. work \in Work /\ WorkOK(work)
    <3>1. n \in Notebooks
      BY <2>3 DEF Made
    <3>2. work \in Work
      <4> DEFINE at == IF MustLock(n) THEN "lock" ELSE "next"
                 left == clerk[k].left \ {n}
      <4>1. clerk[k] \in Work
        BY ClerkFacts
      <4>2. at \in {"lock", "next"} /\ left \in SUBSET (Notebooks \cup People)
        BY <4>1 DEF Work
      <4> HIDE DEF at, left
      <4>3. [clerk[k] EXCEPT !.left = left, !.book = n, !.at = at] \in Work
        BY <3>1, <4>1, <4>2 DEF Work
      <4> QED BY <4>3 DEF at, left
    <3>3. /\ work.op = clerk[k].op /\ work.who = clerk[k].who /\ work.book = n
          /\ work.listed = clerk[k].listed /\ work.left \subseteq clerk[k].left
      BY ClerkFacts DEF Work
    <3>4. Known(clerk[k].who) /\ \A o \in clerk[k].listed \cup clerk[k].left : Made(o)
      BY <2>2, ClerkFacts DEF WorkOK
    <3> HIDE DEF work
    <3>5. WorkOK(work)
      BY <2>2, <2>3, <3>3, <3>4 DEF WorkOK
    <3> QED BY <3>2, <3>5
  <2> HIDE DEF work
  <2> QED BY <2>2, <2>4, WorkKeeps
<1>3. ASSUME SaveLocked(k) PROVE KnownInv'
  <2> DEFINE n == clerk[k].book
             row == [custody[n] EXCEPT !.column = "locked"]
             work == [clerk[k] EXCEPT !.at = "locked"]
  <2>1. /\ custody' = [custody EXCEPT ![n] = row] /\ clerk' = [clerk EXCEPT ![k] = work]
        /\ clerk[k].op = "disable" /\ clerk[k].at = "lock"
        /\ UNCHANGED <<accounts, tokens, desk>>
    BY <1>3, ClerkFacts DEF SaveLocked, Writes, Doing
  <2>2. Made(n)
    BY <2>1, ClerkFacts DEF WorkOK
  <2>3. work \in Work /\ WorkOK(work)
    BY <2>1, <2>2, ClerkFacts DEF Work, WorkOK
  <2>4. row \in Row /\ row.made /\ row.role = custody[n].role
    BY <2>2, RowFacts DEF Row
  <2> HIDE DEF work, row, n
  <2> QED BY <2>1, <2>2, <2>3, <2>4, RowFacts, RowKeeps
<1>4. ASSUME RecordLocked(k) PROVE KnownInv'
  <2> DEFINE n == clerk[k].book
             row == [custody[n] EXCEPT !.event = "locked"]
             work == [clerk[k] EXCEPT !.at = "next"]
  <2>1. /\ custody' = [custody EXCEPT ![n] = row] /\ clerk' = [clerk EXCEPT ![k] = work]
        /\ clerk[k].op = "disable" /\ clerk[k].at = "locked"
        /\ UNCHANGED <<accounts, tokens, desk>>
    BY <1>4, ClerkFacts DEF RecordLocked, Writes, Doing
  <2>2. Made(n)
    BY <2>1, ClerkFacts DEF WorkOK
  <2>3. work \in Work /\ WorkOK(work)
    BY <2>1, <2>2, ClerkFacts DEF Work, WorkOK
  <2>4. row \in Row /\ row.made /\ row.role = custody[n].role
    BY <2>2, RowFacts DEF Row
  <2> HIDE DEF work, row, n
  <2> QED BY <2>1, <2>2, <2>3, <2>4, RowFacts, RowKeeps
<1> QED BY <1>1, <1>2, <1>3, <1>4

LEMMA TransferStepsKeep ==
  ASSUME KnownInv, NEW k \in Clerks
  PROVE  /\ RemoveOwner(k) => KnownInv'
         /\ AddOwner(k) => KnownInv'
         /\ Unlock(k) => KnownInv'
         /\ RecordTransfer(k) => KnownInv'
<1>1. ASSUME RemoveOwner(k) PROVE KnownInv'
  <2>1. PICK p \in clerk[k].left :
           /\ custody' = [custody EXCEPT ![clerk[k].book] = Without(clerk[k].book, p)]
           /\ clerk' = [clerk EXCEPT ![k].left = @ \ {p}]
    BY <1>1 DEF RemoveOwner
  <2> DEFINE n == clerk[k].book
             row == Without(n, p)
             work == [clerk[k] EXCEPT !.left = @ \ {p}]
  <2>2. /\ custody' = [custody EXCEPT ![n] = row] /\ clerk' = [clerk EXCEPT ![k] = work]
        /\ clerk[k].op = "transfer"
        /\ UNCHANGED <<accounts, tokens, desk>>
    BY <1>1, <2>1, ClerkFacts DEF RemoveOwner, Doing
  <2>3. Made(n) /\ p \in People
    BY <2>2, ClerkFacts DEF WorkOK
  <2>4. work \in Work /\ WorkOK(work)
    BY <2>2, <2>3, ClerkFacts DEF Work, WorkOK
  <2>5. row \in Row /\ row.made /\ \A q \in People : row.role[q] # "none" => Known(q)
    BY <2>3, RowFacts DEF Row, Roles, Without
  <2> HIDE DEF work, row, n
  <2> QED BY <2>2, <2>3, <2>4, <2>5, RowKeeps
<1>2. ASSUME AddOwner(k) PROVE KnownInv'
  <2> DEFINE n == clerk[k].book
             row == [custody[n] EXCEPT !.role[clerk[k].who] = "owner"]
             work == [clerk[k] EXCEPT !.at = "unlock"]
  <2>1. /\ custody' = [custody EXCEPT ![n] = row] /\ clerk' = [clerk EXCEPT ![k] = work]
        /\ clerk[k].op = "transfer" /\ clerk[k].at = "remove"
        /\ UNCHANGED <<accounts, tokens, desk>>
    BY <1>2, ClerkFacts, RowFacts DEF AddOwner, Writes, Doing, WorkOK, Made
  <2>2. Made(n)
    BY <2>1, ClerkFacts DEF WorkOK
  <2>3. work \in Work /\ WorkOK(work)
    BY <2>1, <2>2, ClerkFacts DEF Work, WorkOK
  <2>4. row \in Row /\ row.made /\ \A p \in People : row.role[p] # "none" => Known(p)
    BY <2>1, <2>2, RowFacts, ClerkFacts DEF Row, Roles, WorkOK, Known
  <2> HIDE DEF work, row, n
  <2> QED BY <2>1, <2>2, <2>3, <2>4, RowKeeps
<1>3. ASSUME Unlock(k) PROVE KnownInv'
  <2> DEFINE n == clerk[k].book
             row == [custody[n] EXCEPT !.column = "none"]
             work == [clerk[k] EXCEPT !.at = "unlocked"]
  <2>1. /\ custody' = [custody EXCEPT ![n] = row] /\ clerk' = [clerk EXCEPT ![k] = work]
        /\ clerk[k].op = "transfer" /\ clerk[k].at = "unlock"
        /\ UNCHANGED <<accounts, tokens, desk>>
    BY <1>3, ClerkFacts, RowFacts DEF Unlock, Writes, Doing, WorkOK, Made
  <2>2. Made(n)
    BY <2>1, ClerkFacts DEF WorkOK
  <2>3. work \in Work /\ WorkOK(work)
    BY <2>1, <2>2, ClerkFacts DEF Work, WorkOK
  <2>4. row \in Row /\ row.made /\ \A p \in People : row.role[p] # "none" => Known(p)
    BY <2>1, <2>2, RowFacts, ClerkFacts DEF Row, Roles, WorkOK, Known
  <2> HIDE DEF work, row, n
  <2> QED BY <2>1, <2>2, <2>3, <2>4, RowKeeps
<1>4. ASSUME RecordTransfer(k) PROVE KnownInv'
  <2> DEFINE n == clerk[k].book
             row == [custody[n] EXCEPT !.event = "transferred"]
             work == NoCustodyWork
  <2>1. /\ custody' = [custody EXCEPT ![n] = row] /\ clerk' = [clerk EXCEPT ![k] = work]
        /\ clerk[k].op = "transfer" /\ clerk[k].at = "unlocked"
        /\ UNCHANGED <<accounts, tokens, desk>>
    BY <1>4, ClerkFacts, RowFacts DEF RecordTransfer, EndCustody, Doing, WorkOK, Made
  <2>2. Made(n)
    BY <2>1, ClerkFacts DEF WorkOK
  <2>3. work \in Work /\ WorkOK(work)
    BY NoWork
  <2>4. row \in Row /\ row.made /\ \A p \in People : row.role[p] # "none" => Known(p)
    BY <2>1, <2>2, RowFacts, ClerkFacts DEF Row, Roles, WorkOK, Known
  <2> HIDE DEF work, row, n
  <2> QED BY <2>1, <2>2, <2>3, <2>4, RowKeeps
<1> QED BY <1>1, <1>2, <1>3, <1>4

LEMMA ScheduleStepsKeep ==
  ASSUME KnownInv, NEW k \in Clerks
  PROVE  /\ SaveScheduled(k) => KnownInv'
         /\ RecordScheduled(k) => KnownInv'
<1>1. ASSUME SaveScheduled(k) PROVE KnownInv'
  <2> DEFINE n == clerk[k].book
             row == [custody[n] EXCEPT !.column = "locked"]
             work == [clerk[k] EXCEPT !.at = "saved"]
  <2>1. /\ custody' = [custody EXCEPT ![n] = row] /\ clerk' = [clerk EXCEPT ![k] = work]
        /\ clerk[k].op = "schedule" /\ clerk[k].at = "save"
        /\ UNCHANGED <<accounts, tokens, desk>>
    BY <1>1, ClerkFacts, RowFacts DEF SaveScheduled, Writes, Doing, WorkOK, Made
  <2>2. Made(n)
    BY <2>1, ClerkFacts DEF WorkOK
  <2>3. work \in Work /\ WorkOK(work)
    BY <2>1, <2>2, ClerkFacts DEF Work, WorkOK
  <2>4. row \in Row /\ row.made /\ \A p \in People : row.role[p] # "none" => Known(p)
    BY <2>1, <2>2, RowFacts, ClerkFacts DEF Row, Roles, WorkOK, Known
  <2> HIDE DEF work, row, n
  <2> QED BY <2>1, <2>2, <2>3, <2>4, RowKeeps
<1>2. ASSUME RecordScheduled(k) PROVE KnownInv'
  <2> DEFINE n == clerk[k].book
             row == [custody[n] EXCEPT !.event = "scheduled"]
             work == NoCustodyWork
  <2>1. /\ custody' = [custody EXCEPT ![n] = row] /\ clerk' = [clerk EXCEPT ![k] = work]
        /\ clerk[k].op = "schedule" /\ clerk[k].at = "saved"
        /\ UNCHANGED <<accounts, tokens, desk>>
    BY <1>2, ClerkFacts, RowFacts DEF RecordScheduled, EndCustody, Doing, WorkOK, Made
  <2>2. Made(n)
    BY <2>1, ClerkFacts DEF WorkOK
  <2>3. work \in Work /\ WorkOK(work)
    BY NoWork
  <2>4. row \in Row /\ row.made /\ \A p \in People : row.role[p] # "none" => Known(p)
    BY <2>1, <2>2, RowFacts, ClerkFacts DEF Row, Roles, WorkOK, Known
  <2> HIDE DEF work, row, n
  <2> QED BY <2>1, <2>2, <2>3, <2>4, RowKeeps
<1> QED BY <1>1, <1>2

LEMMA CustodyStepKeeps ==
  ASSUME KnownInv, NEW k \in Clerks, CustodyStep(k)
  PROVE  KnownInv'
<1>1. CASE EndDisable(k)
  BY <1>1, EndCustodyKeeps DEF EndDisable
<1>2. CASE CutCustody(k)
  BY <1>2, EndCustodyKeeps DEF CutCustody
<1> QED BY <1>1, <1>2, BeginsKeep, SetDisabledKeeps, RevokeAllKeeps, DisableStepsKeep, TransferStepsKeep,
          ScheduleStepsKeep DEF CustodyStep

LEMMA KnownInit == AccountsInit => KnownInv
<1> SUFFICES ASSUME AccountsInit PROVE KnownInv
  OBVIOUS
<1>0. /\ tokens = <<>> /\ desk = [r \in Requests |-> NoRequestYet] /\ clerk = [k \in Clerks |-> NoCustodyWork]
  BY DEF AccountsInit
<1>1. /\ accounts \in [People -> [status : {"absent", "active", "disabled"}, admin : BOOLEAN]]
      /\ custody \in [Notebooks -> Row] /\ AccountsInv /\ RowsInv
  <2>1. Unmade \in Row /\ ~Unmade.made /\ Unmade.event = "none" /\ \A p \in People : Unmade.role[p] = "none"
    BY DEF Unmade, Row, Roles
  <2>2. \A o \in People : /\ OwnedBy(o) \in Row /\ OwnedBy(o).made /\ OwnedBy(o).event = "none"
    BY DEF OwnedBy, Unmade, Row, Roles
  <2>3. CASE /\ accounts = [p \in People |-> [status |-> "absent", admin |-> FALSE]]
             /\ custody = [n \in Notebooks |-> Unmade]
    BY <2>1, <2>3 DEF AccountsInv, RowsInv
  <2>4. CASE \E a, o \in People, m \in Notebooks :
               /\ accounts = [p \in People |-> [status |-> "active", admin |-> p = a]]
               /\ custody = [n \in Notebooks |-> IF n = m THEN OwnedBy(o) ELSE Unmade]
    <3>1. PICK a \in People, o \in People, m \in Notebooks :
               /\ accounts = [p \in People |-> [status |-> "active", admin |-> p = a]]
               /\ custody = [n \in Notebooks |-> IF n = m THEN OwnedBy(o) ELSE Unmade]
      BY <2>4
    <3>2. \A p \in People : Known(p)
      BY <3>1 DEF Known
    <3> QED BY <2>1, <2>2, <3>1, <3>2 DEF AccountsInv, RowsInv
  <2> QED BY <2>3, <2>4 DEF AccountsInit
<1>2. TablesInv
  <2>1. NoRequestYet \in Ticket
    BY DEF NoRequestYet, Ticket
  <2>2. tokens \in Seq(Session)
    BY <1>0, EmptySeq
  <2> QED BY <1>0, <1>1, <2>1, <2>2, NoWork DEF TablesInv
<1>3. TokensInv /\ DeskInv /\ ClerkInv
  BY <1>0, NoWork, WorksOK DEF TokensInv, DeskInv, NoRequestYet, Ticket
<1> QED BY <1>1, <1>2, <1>3 DEF KnownInv

LEMMA KnownStep == KnownInv /\ [AccountsNext]_accountsVars => KnownInv'
<1> SUFFICES ASSUME KnownInv, [AccountsNext]_accountsVars PROVE KnownInv'
  OBVIOUS
<1>1. CASE UNCHANGED accountsVars
  BY <1>1 DEF accountsVars, KnownInv, TablesInv, AccountsInv, TokensInv, RowsInv, DeskInv, ClerkInv, Known, Made
<1> QED BY <1>1, RequestStepKeeps, CustodyStepKeeps, ExpireKeeps DEF AccountsNext

(* What the tables and the operations under way say of each other, for any *)
(* number of requests and custody operations at a time.                    *)
THEOREM KnownAlways == AccountsSpec => []KnownInv
BY KnownInit, KnownStep, PTL DEF AccountsSpec

(* The type invariant of the runs.                                         *)
THEOREM AccountsTypeCorrect == AccountsSpec => []AccountsTypeOK
<1>1. ASSUME KnownInv PROVE AccountsTypeOK
  <2>1. \A r \in Requests : desk[r].token \in 0..Len(tokens)
    BY <1>1, TokenFacts DEF KnownInv, TablesInv, DeskInv, Ticket
  <2>2. tokens \in Seq(Session)
    BY <1>1, TokenFacts
  <2> QED BY <1>1, <2>1, <2>2
          DEF KnownInv, TablesInv, AccountsInv, RowsInv, Known, Row, Roles, Session, AccountsTypeOK
<1> QED BY <1>1, KnownAlways, PTL

-----------------------------------------------------------------------------
(* What follows from KnownInv, step by step.                               *)

(* An account that is enabled by a step was absent before it.              *)
LEMMA EnablingCreates ==
  ASSUME KnownInv, [AccountsNext]_accountsVars, NEW p \in People, ~Enabled(p), Enabled(p)'
  PROVE  ~Known(p)
<1>1. accounts' # accounts
  BY DEF Enabled
<1>2. ASSUME NEW r \in Requests, RequestStep(r) PROVE Create(r)
  BY <1>1, <1>2 DEF RequestStep, Registers, Bootstraps, LogsIn, Presents, BeginRequest, Issue, Resolve,
     Reauthenticate, Rotate, Logout, CreateNotebook, CutRequest
<1>3. ASSUME NEW k \in Clerks, CustodyStep(k) PROVE SetDisabled(k)
  BY <1>1, <1>3 DEF CustodyStep, BeginDisable, BeginTransfer, BeginSchedule, BeginCustody, RevokeAll,
     ListSoleOwned, TakeNext, SaveLocked, RecordLocked, EndDisable, RemoveOwner, AddOwner, Unlock,
     RecordTransfer, SaveScheduled, RecordScheduled, CutCustody, Writes
<1>4. ASSUME NEW r \in Requests, Create(r) PROVE ~Known(p)
  BY <1>4 DEF Create, Enabled, Known, KnownInv, TablesInv
<1>5. ASSUME NEW k \in Clerks, SetDisabled(k) PROVE FALSE
  BY <1>5 DEF SetDisabled, Enabled, KnownInv, TablesInv
<1>6. ~Expire /\ ~UNCHANGED accountsVars
  BY <1>1 DEF Expire, accountsVars
<1> QED BY <1>2, <1>3, <1>4, <1>5, <1>6 DEF AccountsNext

(* The steps that write into custody.                                      *)
CustodyWrite(k) ==
  \/ SaveLocked(k) \/ RecordLocked(k) \/ RemoveOwner(k) \/ AddOwner(k) \/ Unlock(k) \/ RecordTransfer(k)
  \/ SaveScheduled(k) \/ RecordScheduled(k)

LEMMA CustodyWriters ==
  ASSUME [AccountsNext]_accountsVars, custody' # custody
  PROVE  (\E r \in Requests : CreateNotebook(r)) \/ (\E k \in Clerks : CustodyWrite(k))
<1>1. ASSUME NEW r \in Requests, RequestStep(r) PROVE CreateNotebook(r)
  BY <1>1 DEF RequestStep, Registers, Bootstraps, LogsIn, Presents, BeginRequest, Create, Issue, Resolve,
     Reauthenticate, Rotate, Logout, CutRequest
<1>2. ASSUME NEW k \in Clerks, CustodyStep(k) PROVE CustodyWrite(k)
  BY <1>2 DEF CustodyStep, CustodyWrite, BeginDisable, BeginTransfer, BeginSchedule, BeginCustody, SetDisabled,
     RevokeAll, ListSoleOwned, TakeNext, EndDisable, CutCustody
<1>3. ~Expire /\ ~UNCHANGED accountsVars
  BY DEF Expire, accountsVars
<1> QED BY <1>1, <1>2, <1>3 DEF AccountsNext

(* A membership comes with a new notebook or from a transfer to another.   *)
LEMMA MembershipComes ==
  ASSUME KnownInv, [AccountsNext]_accountsVars, NEW n \in Notebooks, NEW p \in People,
         custody[n].role[p] = "none", custody'[n].role[p] # "none"
  PROVE  \/ ~custody[n].made
         \/ \E k \in Clerks : clerk[k].op = "transfer" /\ clerk[k].book = n /\ clerk[k].actor # p
<1>1. custody \in [Notebooks -> Row]
  BY DEF KnownInv, TablesInv
<1>2. ASSUME NEW r \in Requests, CreateNotebook(r) PROVE ~custody[n].made
  BY <1>1, <1>2 DEF CreateNotebook
<1>3. ASSUME NEW k \in Clerks, AddOwner(k)
      PROVE  clerk[k].op = "transfer" /\ clerk[k].book = n /\ clerk[k].actor # p
  <2>1. clerk[k].op = "transfer" /\ clerk[k].actor # clerk[k].who
    BY <1>3, ClerkFacts DEF AddOwner, Doing, WorkOK
  <2>2. custody' = [custody EXCEPT ![clerk[k].book] =
                      [custody[clerk[k].book] EXCEPT !.role[clerk[k].who] = "owner"]]
    BY <1>3 DEF AddOwner, Writes
  <2> QED BY <1>1, <2>1, <2>2 DEF Row
<1>4. ASSUME NEW k \in Clerks, CustodyWrite(k), ~AddOwner(k) PROVE FALSE
  <2> DEFINE m == clerk[k].book
  <2>1. \/ \E row : /\ custody' = [custody EXCEPT ![m] = row]
                    /\ \/ \E c : row = [custody[m] EXCEPT !.column = c]
                       \/ \E e : row = [custody[m] EXCEPT !.event = e]
                       \/ \E q : row = [custody[m] EXCEPT !.role[q] = "none"]
    BY <1>4 DEF CustodyWrite, Writes, SaveLocked, RecordLocked, RemoveOwner, Unlock, RecordTransfer,
       SaveScheduled, RecordScheduled, Without
  <2>2. PICK row : /\ custody' = [custody EXCEPT ![m] = row]
                   /\ \/ \E c : row = [custody[m] EXCEPT !.column = c]
                      \/ \E e : row = [custody[m] EXCEPT !.event = e]
                      \/ \E q : row = [custody[m] EXCEPT !.role[q] = "none"]
    BY <2>1
  <2>3. m = n /\ row.role[p] # "none"
    BY <1>1, <2>2
  <2>4. custody[m] \in Row /\ custody[m].role[p] = "none"
    BY <1>1, <2>3
  <2> HIDE DEF m
  <2> QED BY <2>2, <2>3, <2>4 DEF Row
<1> QED BY <1>2, <1>3, <1>4, CustodyWriters

(* Administration gives no content, for any number of custody operations.  *)
THEOREM NoContentByCustody == AccountsSpec => CustodyGivesNoContent
<1>1. KnownInv /\ [AccountsNext]_accountsVars
      => [\A n \in Notebooks, p \in People :
            ~CanRead(p, n) /\ CanRead(p, n)' =>
               \/ ~custody[n].made
               \/ \E k \in Clerks : clerk[k].op = "transfer" /\ clerk[k].book = n /\ clerk[k].actor # p]_accountsVars
  <2> SUFFICES ASSUME KnownInv, [AccountsNext]_accountsVars, NEW n \in Notebooks, NEW p \in People,
                      ~CanRead(p, n), CanRead(p, n)'
               PROVE  \/ ~custody[n].made
                      \/ \E k \in Clerks : clerk[k].op = "transfer" /\ clerk[k].book = n /\ clerk[k].actor # p
    OBVIOUS
  <2>1. CASE custody[n].role[p] = "none"
    BY <2>1, MembershipComes DEF CanRead
  <2>2. CASE custody[n].role[p] # "none"
    <3>1. ~Enabled(p) /\ Enabled(p)' /\ Known(p)
      BY <2>2 DEF CanRead, KnownInv, RowsInv
    <3> QED BY <3>1, EnablingCreates
  <2> QED BY <2>1, <2>2
<1> QED BY <1>1, KnownAlways, PTL DEF AccountsSpec, CustodyGivesNoContent

(* A session that outlives its account's disablement admits nobody.        *)
THEOREM DisabledStayOut == AccountsSpec => DisabledAreShutOut
<1>1. KnownInv /\ [AccountsNext]_accountsVars
      => [\A r \in Requests :
            desk[r].at = "principal" /\ desk'[r].at = "handler" => Enabled(desk[r].who)]_accountsVars
  <2> SUFFICES ASSUME KnownInv, [AccountsNext]_accountsVars, NEW r \in Requests,
                      desk[r].at = "principal", desk'[r].at = "handler"
               PROVE  Enabled(desk[r].who)
    OBVIOUS
  <2>0. desk \in [Requests -> Ticket]
    BY DEF KnownInv, TablesInv
  <2>1. ASSUME NEW q \in Requests, RequestStep(q), ~Resolve(q) PROVE FALSE
    <3>1. \A at : desk' = [desk EXCEPT ![q] = NoRequestYet] => desk'[r].at # "handler"
      BY <2>0 DEF NoRequestYet, Ticket
    <3>2. \A request : desk' = [desk EXCEPT ![q] = request] /\ request.at # "handler" => desk'[r].at # "handler"
      BY <2>0
    <3>3. \A at : desk' = [desk EXCEPT ![q].at = at] /\ at # "handler" => desk'[r].at # "handler"
      BY <2>0
    <3>4. CASE \E p \in People : Registers(q, p) \/ Bootstraps(q, p) \/ LogsIn(q, p)
      <4>1. PICK op, at, p : /\ at # "handler"
                             /\ BeginRequest(q, [NoRequestYet EXCEPT !.op = op, !.at = at, !.who = p])
        BY <3>4 DEF Registers, Bootstraps, LogsIn
      <4>2. [NoRequestYet EXCEPT !.op = op, !.at = at, !.who = p].at = at
        BY DEF NoRequestYet
      <4> QED BY <4>1, <4>2, <3>2 DEF BeginRequest
    <3>5. CASE \E s \in 1..Len(tokens), op \in {"rotate", "logout", "notebook"} : Presents(q, s, op)
      BY <3>2, <3>5 DEF Presents, BeginRequest
    <3>6. CASE Reauthenticate(q)
      BY <3>1, <3>3, <3>6 DEF Reauthenticate, EndRequest, Goes
    <3> QED BY <2>1, <3>1, <3>4, <3>5, <3>6 DEF RequestStep, Create, Issue, Rotate, Logout, CreateNotebook,
                                                   CutRequest, EndRequest
  <2>2. ASSUME NEW q \in Requests, Resolve(q) PROVE Enabled(desk[r].who)
    BY <2>0, <2>2 DEF Resolve, Goes, EndRequest, NoRequestYet, MayAct
  <2>3. ASSUME NEW k \in Clerks, CustodyStep(k) PROVE UNCHANGED desk
    BY <2>3 DEF CustodyStep, BeginDisable, BeginTransfer, BeginSchedule, BeginCustody, SetDisabled, RevokeAll,
       ListSoleOwned, TakeNext, SaveLocked, RecordLocked, EndDisable, RemoveOwner, AddOwner, Unlock,
       RecordTransfer, SaveScheduled, RecordScheduled, CutCustody, Writes
  <2>4. Expire \/ UNCHANGED accountsVars => UNCHANGED desk
    BY DEF Expire, accountsVars
  <2> QED BY <2>1, <2>2, <2>3, <2>4 DEF AccountsNext
<1> QED BY <1>1, KnownAlways, PTL DEF AccountsSpec, DisabledAreShutOut

-----------------------------------------------------------------------------
(* Custody, when one operation runs at a time.                             *)

OneClerk == \A k, l \in Clerks : k = l

(* What a custody operation knows of the notebook it is at, and a          *)
(* disablement of the notebooks it has been through.                       *)
TransferInv(k) ==
  clerk[k].op = "transfer" =>
    IF clerk[k].at = "remove" THEN custody[clerk[k].book].column = "locked"
                              ELSE custody[clerk[k].book].role[clerk[k].who] = "owner"

DisableInv(k) ==
  clerk[k].op = "disable" =>
    /\ clerk[k].at = "locked" => custody[clerk[k].book].column = "locked"
    /\ \A n \in clerk[k].listed \ clerk[k].left :
          Phase(n) # "none" \/ (clerk[k].at # "next" /\ n = clerk[k].book)

CustodyInv == OwnedOrLocked /\ \A k \in Clerks : TransferInv(k) /\ DisableInv(k)

LEMMA CustodyInit == AccountsInit => CustodyInv
<1> SUFFICES ASSUME AccountsInit PROVE CustodyInv
  OBVIOUS
<1>1. clerk = [k \in Clerks |-> NoCustodyWork]
  BY DEF AccountsInit
<1>2. \A k \in Clerks : TransferInv(k) /\ DisableInv(k)
  BY <1>1 DEF TransferInv, DisableInv, NoCustodyWork
<1>3. OwnedOrLocked
  <2>1. ~Unmade.made /\ \A o \in People : OwnedBy(o).role[o] = "owner"
    BY DEF OwnedBy, Unmade
  <2>2. CASE custody = [n \in Notebooks |-> Unmade]
    BY <2>1, <2>2 DEF OwnedOrLocked
  <2>3. CASE \E o \in People, m \in Notebooks :
               custody = [n \in Notebooks |-> IF n = m THEN OwnedBy(o) ELSE Unmade]
    BY <2>1, <2>3 DEF OwnedOrLocked, Owners
  <2> QED BY <2>2, <2>3 DEF AccountsInit
<1> QED BY <1>2, <1>3 DEF CustodyInv

(* The steps that leave custody alone.                                     *)
LEMMA SameCustody ==
  ASSUME CustodyInv, UNCHANGED custody, \A k \in Clerks : TransferInv(k)' /\ DisableInv(k)'
  PROVE  CustodyInv'
BY DEF CustodyInv, OwnedOrLocked, Owners

(* One operation, which leaves custody alone, goes on.                     *)
LEMMA OneGoesOn ==
  ASSUME KnownInv, CustodyInv, OneClerk, UNCHANGED custody, NEW k \in Clerks, TransferInv(k)', DisableInv(k)'
  PROVE  CustodyInv'
BY SameCustody DEF OneClerk

LEMMA CustodyEnds ==
  ASSUME KnownInv, CustodyInv, OneClerk, UNCHANGED custody, NEW k \in Clerks, EndCustody(k)
  PROVE  CustodyInv'
<1>1. clerk'[k] = NoCustodyWork
  BY ClerkFacts DEF EndCustody
<1>2. TransferInv(k)' /\ DisableInv(k)'
  BY <1>1 DEF TransferInv, DisableInv, NoCustodyWork
<1> QED BY <1>2, OneGoesOn

LEMMA QuietStepsKeepCustody ==
  ASSUME KnownInv, CustodyInv, OneClerk, NEW k \in Clerks, CustodyStep(k), ~CustodyWrite(k)
  PROVE  CustodyInv'
<1>0. clerk \in [Clerks -> Work] /\ TransferInv(k) /\ DisableInv(k)
  BY ClerkFacts DEF CustodyInv
<1>u. UNCHANGED custody
  BY DEF CustodyStep, CustodyWrite, BeginDisable, BeginTransfer, BeginSchedule, BeginCustody, SetDisabled,
     RevokeAll, ListSoleOwned, TakeNext, EndDisable, CutCustody
<1> DEFINE new == clerk'[k]
<1>1. CASE \E a, p \in People : BeginDisable(k, a, p)
  <2>1. new.op = "disable" /\ new.at = "status" /\ new.listed = {}
    BY <1>0, <1>1 DEF BeginDisable, BeginCustody, NoCustodyWork
  <2> QED BY <2>1, <1>u, OneGoesOn DEF TransferInv, DisableInv
<1>2. CASE \E a, p \in People, n \in Notebooks : BeginTransfer(k, a, n, p)
  <2>1. PICK n \in Notebooks : /\ new.op = "transfer" /\ new.at = "remove" /\ new.book = n
                               /\ Phase(n) = "locked"
    BY <1>0, <1>2 DEF BeginTransfer, BeginCustody
  <2>2. custody[n].column = "locked"
    BY <2>1 DEF Phase, KnownInv, TablesInv, Row
  <2> QED BY <2>1, <2>2, <1>u, OneGoesOn DEF TransferInv, DisableInv
<1>3. CASE \E a \in People, n \in Notebooks : BeginSchedule(k, a, n)
  <2>1. new.op = "schedule"
    BY <1>0, <1>3 DEF BeginSchedule, BeginCustody, NoCustodyWork
  <2> QED BY <2>1, <1>u, OneGoesOn DEF TransferInv, DisableInv
<1>4. CASE SetDisabled(k)
  <2>1. new = [clerk[k] EXCEPT !.at = "revoke"] /\ clerk[k].op = "disable" /\ clerk[k].at = "status"
    BY <1>0, <1>4 DEF SetDisabled, Doing
  <2>2. /\ new.op = "disable" /\ new.at = "revoke" /\ new.listed = clerk[k].listed
        /\ new.left = clerk[k].left /\ new.book = clerk[k].book
    BY <1>0, <2>1 DEF Work
  <2>3. \A n : Phase(n)' = Phase(n)
    BY <1>u DEF Phase
  <2> QED BY <1>0, <2>1, <2>2, <2>3, <1>u, OneGoesOn DEF TransferInv, DisableInv
<1>5. CASE RevokeAll(k)
  <2>1. new = [clerk[k] EXCEPT !.at = "list"] /\ clerk[k].op = "disable" /\ clerk[k].at = "revoke"
    BY <1>0, <1>5 DEF RevokeAll, Doing
  <2>2. /\ new.op = "disable" /\ new.at = "list" /\ new.listed = clerk[k].listed
        /\ new.left = clerk[k].left /\ new.book = clerk[k].book
    BY <1>0, <2>1 DEF Work
  <2>3. \A n : Phase(n)' = Phase(n)
    BY <1>u DEF Phase
  <2> QED BY <1>0, <2>1, <2>2, <2>3, <1>u, OneGoesOn DEF TransferInv, DisableInv
<1>6. CASE ListSoleOwned(k)
  <2>1. clerk[k].op = "disable" /\ new.op = "disable" /\ new.at = "next" /\ new.listed = new.left
    BY <1>0, <1>6 DEF ListSoleOwned, Doing, Work
  <2> QED BY <2>1, <1>u, OneGoesOn DEF TransferInv, DisableInv
<1>7. CASE TakeNext(k)
  <2>1. PICK n \in clerk[k].left :
           new = [clerk[k] EXCEPT !.left = @ \ {n}, !.book = n,
                                  !.at = IF MustLock(n) THEN "lock" ELSE "next"]
    BY <1>0, <1>7 DEF TakeNext
  <2>2. clerk[k].op = "disable" /\ clerk[k].at = "next"
    BY <1>7 DEF TakeNext, Doing
  <2>3. /\ new.op = "disable" /\ new.at = (IF MustLock(n) THEN "lock" ELSE "next")
        /\ new.listed = clerk[k].listed /\ new.left = clerk[k].left \ {n} /\ new.book = n
    BY <1>0, <2>1, <2>2 DEF Work
  <2>4. \A m : Phase(m)' = Phase(m)
    BY <1>u DEF Phase
  <2>5. DisableInv(k)'
    BY <1>0, <2>2, <2>3, <2>4 DEF DisableInv, MustLock
  <2>6. TransferInv(k)'
    BY <2>3 DEF TransferInv
  <2> QED BY <1>u, <2>5, <2>6, OneGoesOn
<1>8. CASE EndDisable(k) \/ CutCustody(k)
  BY <1>u, <1>8, CustodyEnds DEF EndDisable, CutCustody
<1> QED BY <1>1, <1>2, <1>3, <1>4, <1>5, <1>6, <1>7, <1>8 DEF CustodyStep, CustodyWrite

(* One notebook is written, which then has an owner or is locked.          *)
LEMMA RowOwned ==
  ASSUME OwnedOrLocked, NEW n \in Notebooks, \A m \in Notebooks : m # n => custody'[m] = custody[m],
         (\E p \in People : custody'[n].role[p] = "owner") \/ custody'[n].column = "locked"
  PROVE  OwnedOrLocked'
<1> SUFFICES ASSUME NEW m \in Notebooks, custody'[m].made
             PROVE  Owners(m)' # {} \/ custody'[m].column = "locked"
  BY DEF OwnedOrLocked
<1>1. CASE m = n
  BY <1>1 DEF Owners
<1>2. CASE m # n
  BY <1>2 DEF OwnedOrLocked, Owners
<1> QED BY <1>1, <1>2

LEMMA CustodyWritesKeepCustody ==
  ASSUME KnownInv, CustodyInv, OneClerk, NEW k \in Clerks, CustodyWrite(k)
  PROVE  CustodyInv'
<1> DEFINE n == clerk[k].book
           new == clerk'[k]
<1>0. /\ clerk \in [Clerks -> Work] /\ TransferInv(k) /\ DisableInv(k) /\ OwnedOrLocked /\ WorkOK(clerk[k])
      /\ custody \in [Notebooks -> Row]
  BY ClerkFacts DEF CustodyInv, KnownInv, TablesInv
<1>a. SUFFICES OwnedOrLocked' /\ TransferInv(k)' /\ DisableInv(k)'
  BY DEF CustodyInv, OneClerk
<1>1. CASE SaveLocked(k)
  <2>1. /\ custody' = [custody EXCEPT ![n] = [custody[n] EXCEPT !.column = "locked"]]
        /\ clerk[k].op = "disable" /\ clerk[k].at = "lock" /\ new = [clerk[k] EXCEPT !.at = "locked"]
    BY <1>0, <1>1 DEF SaveLocked, Writes, Doing
  <2>2. Made(n)
    BY <1>0, <2>1 DEF WorkOK
  <2>3. /\ new.op = "disable" /\ new.at = "locked" /\ new.listed = clerk[k].listed
        /\ new.left = clerk[k].left /\ new.book = n
    BY <1>0, <2>1 DEF Work
  <2>4. OwnedOrLocked'
    BY <1>0, <2>1, <2>2, RowOwned DEF Made, Row
  <2>5. custody'[n].column = "locked" /\ \A m \in Notebooks : m # n => Phase(m)' = Phase(m)
    BY <1>0, <2>1, <2>2 DEF Made, Row, Phase
  <2>6. \A m \in clerk[k].listed : m \in Notebooks
    BY <1>0, <2>1 DEF WorkOK, Made
  <2>7. DisableInv(k)'
    BY <1>0, <2>1, <2>3, <2>5, <2>6 DEF DisableInv
  <2> QED BY <2>3, <2>4, <2>7 DEF TransferInv
<1>2. CASE RecordLocked(k)
  <2>1. /\ custody' = [custody EXCEPT ![n] = [custody[n] EXCEPT !.event = "locked"]]
        /\ clerk[k].op = "disable" /\ clerk[k].at = "locked" /\ new = [clerk[k] EXCEPT !.at = "next"]
    BY <1>0, <1>2 DEF RecordLocked, Writes, Doing
  <2>2. Made(n) /\ custody[n].column = "locked"
    BY <1>0, <2>1 DEF WorkOK, DisableInv
  <2>3. /\ new.op = "disable" /\ new.at = "next" /\ new.listed = clerk[k].listed
        /\ new.left = clerk[k].left
    BY <1>0, <2>1 DEF Work
  <2>4. OwnedOrLocked'
    BY <1>0, <2>1, <2>2, RowOwned DEF Made, Row
  <2>5. Phase(n)' = "locked" /\ \A m \in Notebooks : m # n => Phase(m)' = Phase(m)
    BY <1>0, <2>1, <2>2 DEF Made, Row, Phase
  <2>6. \A m \in clerk[k].listed : m \in Notebooks
    BY <1>0, <2>1 DEF WorkOK, Made
  <2>7. DisableInv(k)'
    BY <1>0, <2>1, <2>3, <2>5, <2>6 DEF DisableInv
  <2> QED BY <2>3, <2>4, <2>7 DEF TransferInv
<1>3. CASE RemoveOwner(k)
  <2>1. PICK p \in clerk[k].left :
           /\ custody' = [custody EXCEPT ![n] = [custody[n] EXCEPT !.role[p] = "none"]]
           /\ new = [clerk[k] EXCEPT !.left = @ \ {p}]
    BY <1>0, <1>3 DEF RemoveOwner, Without
  <2>2. clerk[k].op = "transfer" /\ clerk[k].at = "remove"
    BY <1>3 DEF RemoveOwner, Doing
  <2>3. Made(n) /\ custody[n].column = "locked"
    BY <1>0, <2>2 DEF WorkOK, TransferInv
  <2>4. new.op = "transfer" /\ new.at = "remove" /\ new.book = n
    BY <1>0, <2>1, <2>2 DEF Work
  <2>5. OwnedOrLocked' /\ custody'[n].column = "locked"
    BY <1>0, <2>1, <2>3, RowOwned DEF Made, Row
  <2> QED BY <2>4, <2>5 DEF TransferInv, DisableInv
<1>4. CASE AddOwner(k)
  <2>1. /\ custody' = [custody EXCEPT ![n] = [custody[n] EXCEPT !.role[clerk[k].who] = "owner"]]
        /\ clerk[k].op = "transfer" /\ new = [clerk[k] EXCEPT !.at = "unlock"]
    BY <1>0, <1>4 DEF AddOwner, Writes, Doing
  <2>2. Made(n) /\ clerk[k].who \in People
    BY <1>0, <2>1 DEF WorkOK, Known
  <2>3. new.op = "transfer" /\ new.at = "unlock" /\ new.book = n /\ new.who = clerk[k].who
    BY <1>0, <2>1 DEF Work
  <2>4. [custody[n] EXCEPT !.role[clerk[k].who] = "owner"].role[clerk[k].who] = "owner"
    BY <1>0, <2>2 DEF Made, Row
  <2>5. OwnedOrLocked' /\ custody'[n].role[clerk[k].who] = "owner"
    BY <1>0, <2>1, <2>2, <2>4, RowOwned DEF Made
  <2> QED BY <2>3, <2>5 DEF TransferInv, DisableInv
<1>5. CASE Unlock(k)
  <2>1. /\ custody' = [custody EXCEPT ![n] = [custody[n] EXCEPT !.column = "none"]]
        /\ clerk[k].op = "transfer" /\ clerk[k].at = "unlock" /\ new = [clerk[k] EXCEPT !.at = "unlocked"]
    BY <1>0, <1>5 DEF Unlock, Writes, Doing
  <2>2. Made(n) /\ clerk[k].who \in People /\ custody[n].role[clerk[k].who] = "owner"
    BY <1>0, <2>1 DEF WorkOK, Known, TransferInv
  <2>3. new.op = "transfer" /\ new.at = "unlocked" /\ new.book = n /\ new.who = clerk[k].who
    BY <1>0, <2>1 DEF Work
  <2>4. OwnedOrLocked' /\ custody'[n].role[clerk[k].who] = "owner"
    BY <1>0, <2>1, <2>2, RowOwned DEF Made, Row
  <2> QED BY <2>3, <2>4 DEF TransferInv, DisableInv
<1>6. CASE RecordTransfer(k) \/ RecordScheduled(k)
  <2>1. PICK e : custody' = [custody EXCEPT ![n].event = e]
    BY <1>6 DEF RecordTransfer, RecordScheduled
  <2>2. \A m \in Notebooks : /\ custody'[m].made = custody[m].made /\ custody'[m].role = custody[m].role
                             /\ custody'[m].column = custody[m].column
    BY <1>0, <2>1 DEF Row
  <2>3. OwnedOrLocked'
    BY <1>0, <2>2 DEF OwnedOrLocked, Owners
  <2>4. new = NoCustodyWork
    BY <1>0, <1>6 DEF RecordTransfer, RecordScheduled, EndCustody
  <2> QED BY <2>3, <2>4 DEF TransferInv, DisableInv, NoCustodyWork
<1>7. CASE SaveScheduled(k)
  <2>1. /\ custody' = [custody EXCEPT ![n] = [custody[n] EXCEPT !.column = "locked"]]
        /\ clerk[k].op = "schedule" /\ new = [clerk[k] EXCEPT !.at = "saved"]
    BY <1>0, <1>7 DEF SaveScheduled, Writes, Doing
  <2>2. Made(n) /\ new.op = "schedule"
    BY <1>0, <2>1 DEF WorkOK, Work
  <2>3. OwnedOrLocked'
    BY <1>0, <2>1, <2>2, RowOwned DEF Made, Row
  <2> QED BY <2>2, <2>3 DEF TransferInv, DisableInv
<1> QED BY <1>1, <1>2, <1>3, <1>4, <1>5, <1>6, <1>7 DEF CustodyWrite

LEMMA CreateNotebookKeepsCustody ==
  ASSUME KnownInv, CustodyInv, NEW r \in Requests, CreateNotebook(r)
  PROVE  CustodyInv'
<1>1. PICK n \in Notebooks : ~custody[n].made /\ custody' = [custody EXCEPT ![n] = OwnedBy(desk[r].who)]
  BY DEF CreateNotebook
<1>2. desk[r].who \in People /\ clerk' = clerk /\ custody \in [Notebooks -> Row]
  BY DEF CreateNotebook, KnownInv, DeskInv, TablesInv
<1>3. OwnedBy(desk[r].who).role[desk[r].who] = "owner"
  BY <1>2 DEF OwnedBy, Unmade
<1>4. OwnedOrLocked'
  BY <1>1, <1>2, <1>3, RowOwned DEF CustodyInv
<1>5. \A m : Made(m) => custody'[m] = custody[m] /\ Phase(m)' = Phase(m)
  BY <1>1, <1>2 DEF Made, Phase
<1>6. ASSUME NEW k \in Clerks PROVE TransferInv(k)' /\ DisableInv(k)'
  <2>1. TransferInv(k) /\ DisableInv(k) /\ WorkOK(clerk[k])
    BY ClerkFacts DEF CustodyInv
  <2>2. TransferInv(k)'
    BY <1>2, <1>5, <2>1 DEF TransferInv, WorkOK
  <2>3. DisableInv(k)'
    BY <1>2, <1>5, <2>1 DEF DisableInv, WorkOK
  <2> QED BY <2>2, <2>3
<1> QED BY <1>4, <1>6 DEF CustodyInv

LEMMA CustodyStepInv ==
  ASSUME OneClerk, KnownInv, CustodyInv, [AccountsNext]_accountsVars
  PROVE  CustodyInv'
<1>1. CASE UNCHANGED <<custody, clerk>>
  BY <1>1 DEF CustodyInv, OwnedOrLocked, Owners, TransferInv, DisableInv, Phase
<1>2. ASSUME NEW r \in Requests, RequestStep(r), ~CreateNotebook(r) PROVE UNCHANGED <<custody, clerk>>
  BY <1>2 DEF RequestStep, Registers, Bootstraps, LogsIn, Presents, BeginRequest, Create, Issue, Resolve,
     Reauthenticate, Rotate, Logout, CutRequest
<1>3. Expire \/ UNCHANGED accountsVars => UNCHANGED <<custody, clerk>>
  BY DEF Expire, accountsVars
<1> QED BY <1>1, <1>2, <1>3, CreateNotebookKeepsCustody, QuietStepsKeepCustody, CustodyWritesKeepCustody
        DEF AccountsNext

(* With one custody operation at a time (two transfers of one notebook at  *)
(* once leave it unowned and unlocked), wherever it dies: a notebook is    *)
(* owned or locked, and a disablement passes no notebook over.             *)
THEOREM CustodyHolds ==
  ASSUME OneClerk
  PROVE  AccountsSpec => []CustodyInv
<1>1. CustodyInv /\ KnownInv /\ [AccountsNext]_accountsVars => CustodyInv'
  BY CustodyStepInv
<1> QED BY <1>1, CustodyInit, KnownAlways, PTL DEF AccountsSpec

THEOREM AccountsAreSafe ==
  ASSUME OneClerk
  PROVE  AccountsSpec => AccountsSafe
<1>1. CustodyInv => OwnedOrLocked
  BY DEF CustodyInv
<1>2. CustodyInv /\ KnownInv /\ [AccountsNext]_accountsVars
        => [\A k \in Clerks :
              EndDisable(k) => \A n \in clerk[k].listed \cap SoleOwned(clerk[k].who) : Phase(n) # "none"]_accountsVars
  BY DEF EndDisable, Doing, CustodyInv, DisableInv
<1>3. AccountsSpec => DisablementLocks
  BY <1>2, CustodyHolds, KnownAlways, PTL DEF AccountsSpec, DisablementLocks
<1>4. AccountsSpec => []OwnedOrLocked
  BY <1>1, CustodyHolds, PTL
<1> QED BY <1>3, <1>4, AccountsTypeCorrect, DisabledStayOut, NoContentByCustody, PTL DEF AccountsSafe
=============================================================================
