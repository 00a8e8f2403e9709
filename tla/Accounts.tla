------------------------------ MODULE Accounts ------------------------------
(***************************************************************************)
(* Accounts, browser sessions, notebook ownership and administrative       *)
(* custody. An operation is a row of short transactions: what it read may  *)
(* have changed when it writes, and it may die between two of them.        *)
(***************************************************************************)
EXTENDS Naturals, Sequences

CONSTANTS People,            \* email addresses: one account each
          Notebooks,
          Requests,          \* requests of the API served at the same time
          Clerks,            \* custody operations that run at the same time
          MaxSessions,       \* bound on sessions ever issued
          MaxRequests,       \* bound on requests and custody operations begun
          MaxRequestDeaths   \* bound on operations cut short

ASSUME AccountsAssumption == /\ MaxSessions \in Nat
                             /\ MaxRequests \in Nat
                             /\ MaxRequestDeaths \in Nat

VARIABLES accounts,   \* person -> status and the administrator grant
          tokens,     \* sessions in the order of issue: whose, and whether live
          custody,    \* notebook -> column, latest custody event, role of each person
          desk,       \* request -> operation under way
          clerk,      \* custody operation under way
          begun, cut  \* operations begun and cut short

accountsVars == <<accounts, tokens, custody, desk, clerk, begun, cut>>

NoRequestYet == [op |-> "none", at |-> "none", who |-> "none", token |-> 0]
NoCustodyWork == [op |-> "none", at |-> "none", actor |-> "none", who |-> "none", book |-> "none",
                  listed |-> {}, left |-> {}]

Unmade == [made |-> FALSE, column |-> "none", event |-> "none", role |-> [p \in People |-> "none"]]
OwnedBy(p) == [Unmade EXCEPT !.made = TRUE, !.role[p] = "owner"]

-----------------------------------------------------------------------------
(* What the tables say.                                                    *)

\* Only active accounts may authenticate.
Enabled(p) == accounts[p].status = "active"

Owners(n) == {p \in People : custody[n].role[p] = "owner"}

SoleOwned(p) == {n \in Notebooks : Owners(n) = {p}}

\* The phase is rebuilt from the column and the latest custody event: a locked
\* column without any event reads as no custody at all.
Phase(n) == IF custody[n].column = "none" \/ custody[n].event = "none" THEN "none"
            ELSE IF custody[n].event = "scheduled" THEN "scheduled" ELSE "locked"

\* Reading content takes an enabled account and a membership of any role; being
\* an administrator adds nothing.
CanRead(p, n) == Enabled(p) /\ custody[n].role[p] # "none"

-----------------------------------------------------------------------------
(* Requests of the API.                                                    *)

BeginRequest(r, request) ==
    /\ desk[r] = NoRequestYet
    /\ begun < MaxRequests
    /\ begun' = begun + 1
    /\ desk' = [desk EXCEPT ![r] = request]
    /\ UNCHANGED <<accounts, tokens, custody, clerk, cut>>

EndRequest(r) == desk' = [desk EXCEPT ![r] = NoRequestYet]

Goes(r, at) == desk' = [desk EXCEPT ![r].at = at]

\* RegisterUser and BootstrapAdmin look before they create; the answer of the
\* look is not held until the row is written.
Registers(r, p) ==
    /\ accounts[p].status = "absent"
    /\ BeginRequest(r, [NoRequestYet EXCEPT !.op = "register", !.at = "create", !.who = p])

Bootstraps(r, p) ==
    /\ \A q \in People : accounts[q].status = "absent"
    /\ BeginRequest(r, [NoRequestYet EXCEPT !.op = "bootstrap", !.at = "create", !.who = p])

\* The email is unique: the later of two creations fails.
Create(r) ==
    /\ desk[r].at = "create"
    /\ accounts' = IF accounts[desk[r].who].status # "absent" THEN accounts
                   ELSE [accounts EXCEPT ![desk[r].who] =
                            [status |-> "active", admin |-> desk[r].op = "bootstrap"]]
    /\ EndRequest(r)
    /\ UNCHANGED <<tokens, custody, clerk, begun, cut>>

\* The record is read and the password verified; the session is issued later.
LogsIn(r, p) ==
    /\ Enabled(p)
    /\ BeginRequest(r, [NoRequestYet EXCEPT !.op = "login", !.at = "issue", !.who = p])

Issue(r) ==
    /\ desk[r].at = "issue" /\ Len(tokens) < MaxSessions
    /\ tokens' = Append(tokens, [user |-> desk[r].who, live |-> TRUE])
    /\ EndRequest(r)
    /\ UNCHANGED <<accounts, custody, clerk, begun, cut>>

Live(s) == s \in 1..Len(tokens) /\ tokens[s].live

\* A request presents its cookie: the session is looked up ...
Presents(r, s, op) ==
    /\ Live(s)
    /\ BeginRequest(r, [op |-> op, at |-> "principal", who |-> tokens[s].user, token |-> s])

AnyAccount(p) == TRUE               \* mutated form
MayAct(p) == Enabled(p)

\* ... and then the account.
Resolve(r) ==
    /\ desk[r].at = "principal"
    /\ IF MayAct(desk[r].who) THEN Goes(r, "handler") ELSE EndRequest(r)
    /\ UNCHANGED <<accounts, tokens, custody, clerk, begun, cut>>

\* Rotation and logout authenticate the token again, then write.
Reauthenticate(r) ==
    /\ desk[r].at = "handler" /\ desk[r].op \in {"rotate", "logout"}
    /\ IF Live(desk[r].token) THEN Goes(r, desk[r].op) ELSE EndRequest(r)
    /\ UNCHANGED <<accounts, tokens, custody, clerk, begun, cut>>

\* The new session is inserted whatever has become of the old one.
Rotate(r) ==
    /\ desk[r].at = "rotate" /\ Len(tokens) < MaxSessions
    /\ tokens' = Append([tokens EXCEPT ![desk[r].token].live = FALSE],
                        [user |-> tokens[desk[r].token].user, live |-> TRUE])
    /\ EndRequest(r)
    /\ UNCHANGED <<accounts, custody, clerk, begun, cut>>

Logout(r) ==
    /\ desk[r].at = "logout"
    /\ tokens' = [tokens EXCEPT ![desk[r].token].live = FALSE]
    /\ EndRequest(r)
    /\ UNCHANGED <<accounts, custody, clerk, begun, cut>>

\* The notebook and the membership of its creator are one transaction.
CreateNotebook(r) ==
    /\ desk[r].at = "handler" /\ desk[r].op = "notebook"
    /\ \E n \in Notebooks :
          /\ ~custody[n].made
          /\ custody' = [custody EXCEPT ![n] = OwnedBy(desk[r].who)]
    /\ EndRequest(r)
    /\ UNCHANGED <<accounts, tokens, clerk, begun, cut>>

Expire ==
    /\ \E s \in 1..Len(tokens) : Live(s) /\ tokens' = [tokens EXCEPT ![s].live = FALSE]
    /\ UNCHANGED <<accounts, custody, desk, clerk, begun, cut>>

-----------------------------------------------------------------------------
(* Custody operations. The gate asks for the administrator grant only.     *)

BeginCustody(k, work) ==
    /\ clerk[k] = NoCustodyWork
    /\ accounts[work.actor].admin
    /\ begun < MaxRequests
    /\ begun' = begun + 1
    /\ clerk' = [clerk EXCEPT ![k] = work]
    /\ UNCHANGED <<accounts, tokens, custody, desk, cut>>

Doing(k, op, at) == clerk[k].op = op /\ clerk[k].at = at

\* The operation writes its part of a notebook and goes on.
Writes(k, n, row, at) ==
    /\ custody' = [custody EXCEPT ![n] = row]
    /\ clerk' = [clerk EXCEPT ![k].at = at]
    /\ UNCHANGED <<accounts, tokens, desk, begun, cut>>

BeginDisable(k, a, p) ==
    /\ accounts[p].status = "active"
    /\ BeginCustody(k, [NoCustodyWork EXCEPT !.op = "disable", !.at = "status", !.actor = a, !.who = p])

SetDisabled(k) ==
    /\ Doing(k, "disable", "status")
    /\ accounts' = [accounts EXCEPT ![clerk[k].who].status = "disabled"]
    /\ clerk' = [clerk EXCEPT ![k].at = "revoke"]
    /\ UNCHANGED <<tokens, custody, desk, begun, cut>>

Revoked(p) == [s \in DOMAIN tokens |-> [tokens[s] EXCEPT !.live = @ /\ tokens[s].user # p]]

RevokeAll(k) ==
    /\ Doing(k, "disable", "revoke")
    /\ tokens' = Revoked(clerk[k].who)
    /\ clerk' = [clerk EXCEPT ![k].at = "list"]
    /\ UNCHANGED <<accounts, custody, desk, begun, cut>>

ListSoleOwned(k) ==
    /\ Doing(k, "disable", "list")
    /\ LET found == SoleOwned(clerk[k].who)
       IN clerk' = [clerk EXCEPT ![k].at = "next", ![k].listed = found, ![k].left = found]
    /\ UNCHANGED <<accounts, tokens, custody, desk, begun, cut>>

NeverInCustody(n) == custody[n].event = "none"       \* mutated form
MustLock(n) == Phase(n) = "none"

\* Each notebook in turn is read; one already in custody is passed over.
TakeNext(k) ==
    /\ Doing(k, "disable", "next")
    /\ \E n \in clerk[k].left :
          clerk' = [clerk EXCEPT ![k].left = @ \ {n}, ![k].book = n,
                                 ![k].at = IF MustLock(n) THEN "lock" ELSE "next"]
    /\ UNCHANGED <<accounts, tokens, custody, desk, begun, cut>>

SaveLocked(k) ==
    /\ Doing(k, "disable", "lock")
    /\ Writes(k, clerk[k].book, [custody[clerk[k].book] EXCEPT !.column = "locked"], "locked")

\* The event that gives the locked column its phase is a transaction of its own.
RecordLocked(k) ==
    /\ Doing(k, "disable", "locked")
    /\ Writes(k, clerk[k].book, [custody[clerk[k].book] EXCEPT !.event = "locked"], "next")

EndCustody(k) == clerk' = [clerk EXCEPT ![k] = NoCustodyWork]

EndDisable(k) ==
    /\ Doing(k, "disable", "next") /\ clerk[k].left = {}
    /\ EndCustody(k)
    /\ UNCHANGED <<accounts, tokens, custody, desk, begun, cut>>

AnyoneMayReceive(p, actor) == Enabled(p)              \* mutated form
MayReceive(p, actor) == Enabled(p) /\ p # actor

\* The stale owners are compared by identity with the new one, which the rows
\* just read never share: every owner is removed, the new one included.
BeginTransfer(k, a, n, p) ==
    /\ custody[n].made /\ Phase(n) = "locked"
    /\ MayReceive(p, a)
    /\ custody[n].role[a] = "none"
    /\ BeginCustody(k, [op |-> "transfer", at |-> "remove", actor |-> a, who |-> p, book |-> n,
                        listed |-> Owners(n), left |-> Owners(n)])

FreedWithout(n, p) == [custody[n] EXCEPT !.role[p] = "none", !.column = "none"]  \* mutated form
Without(n, p) == [custody[n] EXCEPT !.role[p] = "none"]

RemoveOwner(k) ==
    /\ Doing(k, "transfer", "remove")
    /\ \E p \in clerk[k].left :
          /\ custody' = [custody EXCEPT ![clerk[k].book] = Without(clerk[k].book, p)]
          /\ clerk' = [clerk EXCEPT ![k].left = @ \ {p}]
    /\ UNCHANGED <<accounts, tokens, desk, begun, cut>>

AddOwner(k) ==
    /\ Doing(k, "transfer", "remove") /\ clerk[k].left = {}
    /\ Writes(k, clerk[k].book, [custody[clerk[k].book] EXCEPT !.role[clerk[k].who] = "owner"], "unlock")

Unlock(k) ==
    /\ Doing(k, "transfer", "unlock")
    /\ Writes(k, clerk[k].book, [custody[clerk[k].book] EXCEPT !.column = "none"], "unlocked")

RecordTransfer(k) ==
    /\ Doing(k, "transfer", "unlocked")
    /\ custody' = [custody EXCEPT ![clerk[k].book].event = "transferred"]
    /\ EndCustody(k)
    /\ UNCHANGED <<accounts, tokens, desk, begun, cut>>

BeginSchedule(k, a, n) ==
    /\ custody[n].made /\ Phase(n) = "locked"
    /\ BeginCustody(k, [NoCustodyWork EXCEPT !.op = "schedule", !.at = "save", !.actor = a, !.book = n])

SaveScheduled(k) ==
    /\ Doing(k, "schedule", "save")
    /\ Writes(k, clerk[k].book, [custody[clerk[k].book] EXCEPT !.column = "locked"], "saved")

RecordScheduled(k) ==
    /\ Doing(k, "schedule", "saved")
    /\ custody' = [custody EXCEPT ![clerk[k].book].event = "scheduled"]
    /\ EndCustody(k)
    /\ UNCHANGED <<accounts, tokens, desk, begun, cut>>

-----------------------------------------------------------------------------
\* An operation is cut short where it stands: nothing resumes it.
CutRequest(r) ==
    /\ desk[r] # NoRequestYet /\ cut < MaxRequestDeaths
    /\ cut' = cut + 1
    /\ EndRequest(r)
    /\ UNCHANGED <<accounts, tokens, custody, clerk, begun>>

CutCustody(k) ==
    /\ clerk[k] # NoCustodyWork /\ cut < MaxRequestDeaths
    /\ cut' = cut + 1
    /\ EndCustody(k)
    /\ UNCHANGED <<accounts, tokens, custody, desk, begun>>

\* A new installation, or one with an administrator, other accounts, and a
\* notebook one of them created.
AccountsInit ==
    /\ \/ /\ accounts = [p \in People |-> [status |-> "absent", admin |-> FALSE]]
          /\ custody = [n \in Notebooks |-> Unmade]
       \/ \E a, o \in People, m \in Notebooks :
             /\ a # o
             /\ accounts = [p \in People |-> [status |-> "active", admin |-> p = a]]
             /\ custody = [n \in Notebooks |-> IF n = m THEN OwnedBy(o) ELSE Unmade]
    /\ tokens = <<>>
    /\ desk = [r \in Requests |-> NoRequestYet]
    /\ clerk = [k \in Clerks |-> NoCustodyWork]
    /\ begun = 0 /\ cut = 0

RequestStep(r) ==
    \/ \E p \in People : Registers(r, p) \/ Bootstraps(r, p) \/ LogsIn(r, p)
    \/ \E s \in 1..Len(tokens), op \in {"rotate", "logout", "notebook"} : Presents(r, s, op)
    \/ Create(r) \/ Issue(r) \/ Resolve(r) \/ Reauthenticate(r) \/ Rotate(r) \/ Logout(r)
    \/ CreateNotebook(r) \/ CutRequest(r)

CustodyStep(k) ==
    \/ \E a, p \in People : BeginDisable(k, a, p)
    \/ \E a, p \in People, n \in Notebooks : BeginTransfer(k, a, n, p)
    \/ \E a \in People, n \in Notebooks : BeginSchedule(k, a, n)
    \/ SetDisabled(k) \/ RevokeAll(k) \/ ListSoleOwned(k) \/ TakeNext(k)
    \/ SaveLocked(k) \/ RecordLocked(k) \/ EndDisable(k)
    \/ RemoveOwner(k) \/ AddOwner(k) \/ Unlock(k) \/ RecordTransfer(k)
    \/ SaveScheduled(k) \/ RecordScheduled(k) \/ CutCustody(k)

AccountsNext ==
    \/ \E r \in Requests : RequestStep(r)
    \/ \E k \in Clerks : CustodyStep(k)
    \/ Expire

AccountsSpec == AccountsInit /\ [][AccountsNext]_accountsVars

-----------------------------------------------------------------------------
(* Properties.                                                             *)

\* Accounts, sessions and notebooks hold what their tables admit.
AccountsTypeOK ==
    /\ \A p \in People : /\ accounts[p].status \in {"absent", "active", "disabled"}
                         /\ accounts[p].admin => accounts[p].status # "absent"
    /\ tokens \in Seq([user : People, live : BOOLEAN])
    /\ \A n \in Notebooks :
          /\ custody[n].column \in {"none", "locked"}
          /\ custody[n].event \in {"none", "locked", "scheduled", "transferred"}
          /\ custody[n].event # "none" => custody[n].made
          /\ custody[n].role \in [People -> {"none", "owner", "editor", "viewer"}]
    /\ \A r \in Requests : desk[r].token \in 0..Len(tokens)

\* A notebook has an owner or is in administrative custody (custody.py:4), at
\* every point of a disablement, a transfer or a scheduled deletion, and
\* wherever one of them dies.
OwnedOrLocked ==
    \A n \in Notebooks : custody[n].made => Owners(n) # {} \/ custody[n].column = "locked"

\* A session that survives the disablement of its account (a login or a rotation
\* may issue one after the revocation) admits nobody: no request reaches its
\* handler for an account that is disabled when the request begins.
DisabledAreShutOut ==
    [][\A r \in Requests :
          desk[r].at = "principal" /\ desk'[r].at = "handler" => Enabled(desk[r].who)]_accountsVars

\* Administration gives no content: no account comes to read a notebook through
\* a custody operation of its own.
CustodyGivesNoContent ==
    [][\A n \in Notebooks, p \in People :
          ~CanRead(p, n) /\ CanRead(p, n)' =>
             \/ ~custody[n].made
             \/ \E k \in Clerks : clerk[k].op = "transfer" /\ clerk[k].book = n /\ clerk[k].actor # p]_accountsVars

\* When a disablement ends, every notebook it found with this only owner is in
\* custody an administrator can resolve, also one that had been in custody and
\* transferred before.
DisablementLocks ==
    [][\A k \in Clerks :
          EndDisable(k) => \A n \in clerk[k].listed \cap SoleOwned(clerk[k].who) : Phase(n) # "none"]_accountsVars

\* Together.
AccountsSafe ==
    /\ []AccountsTypeOK
    /\ []OwnedOrLocked
    /\ DisabledAreShutOut
    /\ CustodyGivesNoContent
    /\ DisablementLocks
=============================================================================
