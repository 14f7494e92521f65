------------------------------ MODULE Accounts ------------------------------
(***************************************************************************)
(* The users of the organizations: administrators create, update, delete   *)
(* and promote them (api/routers/admin.py), authorised by an identity that *)
(* nothing compares with the rows (api/deps.py, api/auth_oidc.py), in      *)
(* transactions that row-level security confines to the organization of    *)
(* that identity (core/db.py, migration 0001).  A local client signs in as *)
(* an administrator of the demo organization, provisioned on first use     *)
(* (api/routers/dev.py).                                                   *)
(*                                                                         *)
(* Every handler reads a row in one statement and writes it in a later     *)
(* one, and nothing locks or re-reads the row in between.                  *)
(***************************************************************************)
EXTENDS Naturals, Sequences, FiniteSets, SequencesExt

CONSTANTS
  Orgs,
  Demo,        \* settings.dev_demo_org
  Users,       \* ids: a new account draws one at random, an identity may name any
  HomeOf,      \* the organization of the users there are at first, None for the others
  Requests,    \* requests to admin/users and to dev/auto-login
  None         \* SQL NULL, an attribute the body leaves out, a row that is not there

Roles == {"tech", "curator", "admin"}
AutoAdmin == "Auto Admin"
Names == {AutoAdmin, "somebody"}

ASSUME AccountsAssumption ==
  /\ Demo \in Orgs
  /\ None \notin Orgs \cup Users \cup Roles \cup Names
  /\ HomeOf \in [Users -> Orgs \cup {None}]

VARIABLES
  row,      \* the rows of `users`
  audit,    \* the audit events of users, in the order of their commits
  req,      \* the requests
  doubted   \* history: two sign-ins both found no Auto Admin, or an admin gave the name

vars == <<row, audit, req, doubted>>

-----------------------------------------------------------------------------
Row ==
  [ there : BOOLEAN, org : Orgs \cup {None}, role : Roles \cup {None},
    name : Names \cup {None} ]

NoRow == [there |-> FALSE, org |-> None, role |-> None, name |-> None]

Account(o, r, n) == [there |-> TRUE, org |-> o, role |-> r, name |-> n]

\* The `before` and `after` of an event, as far as the role goes.  Its actor_id is not
\* checked against anything, and left out.
Event ==
  [ org : Orgs, user : Users, action : {"create", "update", "delete", "set_role"},
    before : Roles \cup {None}, after : Roles \cup {None} ]

\* AuthContext.
Token == [ org : Orgs, user : Users, role : Roles ]

\* What a body asks for.
Body == [ role : Roles \cup {None}, name : Names \cup {None} ]

Request ==
  [ pc     : {"none", "loaded", "looked", "done", "failed"},
    action : {"none", "create", "update", "delete", "set_role"},
    token  : Token \cup {None}, user : Users \cup {None},
    body   : Body, seen : Row ]

NoRequest ==
  [ pc |-> "none", action |-> "none", token |-> None, user |-> None,
    body |-> [role |-> None, name |-> None], seen |-> NoRow ]

Init ==
  /\ row = [u \in Users |->
              IF HomeOf[u] = None THEN NoRow ELSE Account(HomeOf[u], "admin", "somebody")]
  /\ audit = <<>>
  /\ req = [q \in Requests |-> NoRequest]
  /\ doubted = FALSE

-----------------------------------------------------------------------------
\* Who asks, and what the database lets them see.

Admin == {"admin"}

\* Development headers, and the claims of a token, give an organization, a subject and a
\* role, the highest of those listed.  Neither is looked up: the subject may have no row,
\* not any more or never, one with another role, or one of another organization.
Tokens(allowed) == {t \in Token : t.role \in allowed}

\* The tenant of every transaction of a session, and the policy on `users`.
Visible_Unscoped(t) == {u \in Users : row[u].there}
Visible(t) == {u \in Users : row[u].there /\ row[u].org = t.org}

\* Ids are drawn at random: a new one is any that never had a row.
Fresh == {u \in Users : row[u].org = None}

Running(q) == req[q].pc \in {"loaded", "looked"}

\* What is left of a request that is over.
Ends(q, pc) == req' = [req EXCEPT ![q] = [NoRequest EXCEPT !.pc = pc]]

-----------------------------------------------------------------------------
\* The administrators' requests.

Audit(t, action, u, before, after) ==
  audit' = Append(audit, [org |-> t.org, user |-> u, action |-> action,
                          before |-> before, after |-> after])

Create(q) ==
  /\ req[q].pc = "none"
  /\ \E t \in Tokens(Admin), u \in Fresh, role \in Roles, name \in Names :
       /\ Ends(q, "done")
       /\ row' = [row EXCEPT ![u] = Account(t.org, role, name)]
       /\ Audit(t, "create", u, None, role)
       /\ doubted' = (doubted \/ name = AutoAdmin)

Load(q, action, t, u, body) ==
  /\ req[q].pc = "none"
  /\ u \in Visible(t)
  /\ req' = [req EXCEPT ![q] = [pc |-> "loaded", action |-> action, token |-> t, user |-> u,
                                body |-> body, seen |-> row[u]]]
  /\ UNCHANGED <<row, audit, doubted>>

LoadForUpdate(q) ==
  \E t \in Tokens(Admin), u \in Users, body \in Body : Load(q, "update", t, u, body)

LoadForRole(q) ==
  \E t \in Tokens(Admin), u \in Users, role \in Roles :
    Load(q, "set_role", t, u, [role |-> role, name |-> None])

MayDelete_Anybody(t, u) == TRUE
MayDelete(t, u) == t.user # u

LoadForDelete(q) ==
  \E t \in Tokens(Admin), u \in Users :
    /\ MayDelete(t, u)
    /\ Load(q, "delete", t, u, NoRequest.body)

\* The value of a column in the object in memory, and whether the flush writes it:
\* only when it differs from the value loaded.
Assigned_Always(q, column) == req[q].body[column]
Assigned(q, column) ==
  IF req[q].body[column] = None THEN req[q].seen[column] ELSE req[q].body[column]

Dirty(q, column) == Assigned(q, column) # req[q].seen[column]

\* slip: every column written, as it was when the row was loaded
Flushed_WholeRow(q) ==
  [row[req[q].user] EXCEPT !.role = Assigned(q, "role"), !.name = Assigned(q, "name")]

Flushed(q) ==
  [row[req[q].user] EXCEPT !.role = IF Dirty(q, "role") THEN Assigned(q, "role") ELSE @,
                           !.name = IF Dirty(q, "name") THEN Assigned(q, "name") ELSE @]

\* An UPDATE that finds no row fails; without one the event is stored all the same.
Writable(q) == row[req[q].user].there \/ ~ (Dirty(q, "role") \/ Dirty(q, "name"))

Before(q) == req[q].seen.role

CommitChange(q) ==
  LET u == req[q].user IN
  /\ req[q].pc = "loaded" /\ req[q].action \in {"update", "set_role"}
  /\ Writable(q)
  /\ Ends(q, "done")
  /\ row' = [row EXCEPT ![u] = Flushed(q)]
  /\ Audit(req[q].token, req[q].action, u, Before(q), Assigned(q, "role"))
  /\ doubted' = (doubted \/ (Dirty(q, "name") /\ Assigned(q, "name") = AutoAdmin))

\* A DELETE that finds no row is only logged.
CommitDelete(q) ==
  LET u == req[q].user IN
  /\ req[q].pc = "loaded" /\ req[q].action = "delete"
  /\ Ends(q, "done")
  /\ row' = [row EXCEPT ![u].there = FALSE]
  /\ Audit(req[q].token, "delete", u, Before(q), None)
  /\ UNCHANGED doubted

\* A lost row, or any other error before the commit: the transaction is rolled back.
Fails(q) ==
  /\ Running(q)
  /\ Ends(q, "failed")
  /\ UNCHANGED <<row, audit, doubted>>

-----------------------------------------------------------------------------
\* Signing in to the demo organization, on the owner's connection: no policy applies.

AutoAdmins_InCharge ==
  {u \in Users : row[u].there /\ row[u].org = Demo /\ row[u].name = AutoAdmin
                 /\ row[u].role = "admin"}
AutoAdmins == {u \in Users : row[u].there /\ row[u].org = Demo /\ row[u].name = AutoAdmin}

\* The identity says admin whatever the role in the row.
FindAutoAdmin(q) ==
  /\ req[q].pc = "none"
  /\ AutoAdmins # {}
  /\ Ends(q, "done")
  /\ UNCHANGED <<row, audit, doubted>>

FindNone(q) ==
  /\ req[q].pc = "none"
  /\ AutoAdmins = {}
  /\ req' = [req EXCEPT ![q].pc = "looked"]
  /\ doubted' = (doubted \/ \E p \in Requests : req[p].pc = "looked")
  /\ UNCHANGED <<row, audit>>

Provision(q) ==
  /\ req[q].pc = "looked"
  /\ \E u \in Fresh :
       /\ Ends(q, "done")
       /\ row' = [row EXCEPT ![u] = Account(Demo, "admin", AutoAdmin)]
  /\ UNCHANGED <<audit, doubted>>

-----------------------------------------------------------------------------
Next ==
  \E q \in Requests :
    \/ Create(q)
    \/ LoadForUpdate(q)
    \/ LoadForRole(q)
    \/ LoadForDelete(q)
    \/ CommitChange(q)
    \/ CommitDelete(q)
    \/ Fails(q)
    \/ FindAutoAdmin(q)
    \/ FindNone(q)
    \/ Provision(q)

Spec == Init /\ [][Next]_vars

-----------------------------------------------------------------------------
\* Properties.

TypeOK ==
  /\ row \in [Users -> Row]
  /\ \A u \in Users : row[u].there => None \notin {row[u].org, row[u].role, row[u].name}
  /\ audit \in Seq(Event)
  /\ req \in [Requests -> Request]
  /\ doubted \in BOOLEAN

\* Whatever organization an identity names and whatever ids its requests are made for, an
\* account is created, changed or deleted only together with an event about it in the trail
\* of its own organization, which it never leaves; the one exception is the account that
\* signing in provisions, in the demo organization (core/db.py:38, the policies of
\* migration 0001, admin.py:66-142, dev.py:61-71).
TenantsApart ==
  [][\A u \in Users :
       row'[u] # row[u] =>
         \/ row[u].org = None /\ row'[u] = Account(Demo, "admin", AutoAdmin)
         \/ /\ Len(audit') = Len(audit) + 1
            /\ Last(audit').user = u
            /\ Last(audit').org = row'[u].org
            /\ row[u].org \in {None, row'[u].org}]_vars

\* The events that tell of another role of an account.
RoleChanges(u) ==
  {i \in 1..Len(audit) : audit[i].user = u /\ audit[i].before # audit[i].after}

RoleOf(u) == IF row[u].there THEN row[u].role ELSE None

\* However requests on an account overlap, its role is what the last event that tells of a
\* change of it left there, though the `before` and `after` of an event are of the row as
\* loaded and of the object in memory, not of what the commit finds and leaves, and later
\* events may repeat an older role (admin.py:94-113, 163-176).
TrailExplainsRole ==
  \A u \in Users : \A i \in RoleChanges(u) :
    (\A j \in RoleChanges(u) : j <= i) => RoleOf(u) = audit[i].after

\* Those who administer an organization now.
Administers(u, o) == row[u].there /\ row[u].org = o /\ row[u].role = "admin"

Administered(o) == \E u \in Users : Administers(u, o)

\* An organization loses its last administrator only by demoting oneself, which nothing
\* refuses, or through an identity that says more than the rows: somebody who is an
\* administrator of the organization when the change commits never leaves it without one
\* by removing or demoting others, and cannot remove their own account (admin.py:124-127,
\* whose guard compares ids before any row is read).
OrphanedOnlyByOutsiders ==
  [][\A o \in Orgs :
       Administered(o) /\ ~ Administered(o)' =>
         \E q \in Requests :
           /\ req[q].pc = "loaded" /\ req'[q].pc = "done"
           /\ \/ ~ Administers(req[q].token.user, o)
              \/ req[q].action # "delete" /\ req[q].token.user = req[q].user]_vars

\* Signing in provisions one administrator of the demo organization however often it is
\* done, and whatever has become of that account's role, unless two sign-ins overlap or
\* an administrator gives an account that name (dev.py:24-25, 56-71).
OneAutoAdmin ==
  ~ doubted =>
    \A u, w \in Users :
      (\A x \in {u, w} : row[x].there /\ row[x].org = Demo /\ row[x].name = AutoAdmin) => u = w

\* What dev.py:24-25 says of the accounts that signing in provisions, those no event is
\* about: there are never two.  Overlapping sign-ins both find none (dev.py:56-71).
NoDuplicateAdmins ==
  \A u, w \in AutoAdmins :
    (\A i \in 1..Len(audit) : audit[i].user \notin {u, w}) => u = w

=============================================================================
