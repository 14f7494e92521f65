--------------------------- MODULE AccountsProofs ---------------------------
(***************************************************************************)
(* Proofs about Accounts, for every set of organizations, users and        *)
(* requests.                                                               *)
(***************************************************************************)
EXTENDS Accounts, TLAPS

-----------------------------------------------------------------------------
(***************************************************************************)
(* The inductive invariant.  A request acts on what it loaded, for an      *)
(* identity that may have nothing to do with the rows: so the invariant    *)
(* relates the request, the rows as they are now, and the trail.  An       *)
(* account never moves to another organization, and a request writes the   *)
(* role it logs whenever it logs another role than the one it loaded, so   *)
(* that no overlap parts the role from the last such event.                *)
(***************************************************************************)

\* A request that was let in is about an account of the organization it names.
\* The assignments a flush compares are to a row that was there.
RequestInv(r) ==
  r.pc = "loaded" =>
    /\ r.action \in {"update", "delete", "set_role"}
    /\ r.token \in Token /\ r.user \in Users
    /\ row[r.user].org = r.token.org
    /\ None \notin {r.seen.role, r.seen.name}
    /\ r.action = "delete" => r.token.user # r.user

\* Events are about accounts that there are, or were.
TrailInv == \A i \in 1..Len(audit) : row[audit[i].user].org # None

\* A sign-in that found no Auto Admin is the only one, and there is still none.
SignInInv ==
  ~ doubted =>
    \A q \in Requests :
      req[q].pc = "looked" =>
        AutoAdmins = {} /\ \A p \in Requests : req[p].pc = "looked" => p = q

AccountsInv ==
  /\ TypeOK /\ \A q \in Requests : RequestInv(req[q])
  /\ TrailInv /\ TrailExplainsRole
  /\ SignInInv /\ OneAutoAdmin

-----------------------------------------------------------------------------
(***************************************************************************)
(* Types.                                                                  *)
(***************************************************************************)

\* What is left of a request that is over is a request that owes nothing.
LEMMA Ended ==
  ASSUME NEW pc \in {"done", "failed"}
  PROVE  /\ [NoRequest EXCEPT !.pc = pc] \in Request
         /\ [NoRequest EXCEPT !.pc = pc].pc = pc
  <1>1. NoRow \in Row
    BY DEF NoRow, Row
  <1>2. NoRequest \in Request
    BY <1>1 DEF NoRequest, Request, Body
  <1>3. QED
    BY <1>2 DEF Request

\* A new account.
LEMMA AccountType ==
  ASSUME NEW o \in Orgs, NEW r \in Roles, NEW n \in Names
  PROVE  /\ Account(o, r, n) \in Row
         /\ Account(o, r, n).there /\ Account(o, r, n).org = o
         /\ Account(o, r, n).role = r /\ Account(o, r, n).name = n
         /\ None \notin {o, r, n}
  BY AccountsAssumption DEF Account, Row

\* An account that is there has an organization.
LEMMA FreshIsNone ==
  ASSUME AccountsInv, NEW u \in Fresh
  PROVE  u \in Users /\ row[u].org = None /\ ~ row[u].there
  BY DEF Fresh, AccountsInv, TypeOK

\* The events of the trail, place by place.
LEMMA Events ==
  ASSUME TypeOK
  PROVE  Len(audit) \in Nat /\ \A i \in 1..Len(audit) : audit[i].user \in Users
  <1>1. audit \in Seq(Event)
    BY DEF TypeOK
  <1>2. Len(audit) \in Nat /\ \A i \in 1..Len(audit) : audit[i] \in Event
    BY <1>1
  <1>3. QED
    BY <1>2 DEF Event

\* The trail and one more event.
LEMMA Logged ==
  ASSUME TypeOK, NEW t \in Token, NEW action \in {"create", "update", "delete", "set_role"},
         NEW u \in Users, NEW before \in Roles \cup {None}, NEW after \in Roles \cup {None},
         Audit(t, action, u, before, after)
  PROVE  /\ audit' \in Seq(Event)
         /\ Len(audit) \in Nat /\ Len(audit') = Len(audit) + 1
         /\ \A i \in 1..Len(audit) : audit'[i] = audit[i]
         /\ audit'[Len(audit) + 1] =
              [org |-> t.org, user |-> u, action |-> action,
               before |-> before, after |-> after]
  <1> DEFINE e == [org |-> t.org, user |-> u, action |-> action,
                   before |-> before, after |-> after]
  <1>1. e \in Event
    BY DEF Event, Token
  <1>2. audit \in Seq(Event) /\ audit' = Append(audit, e)
    BY DEF TypeOK, Audit
  <1> HIDE DEF e
  <1>3. /\ audit' \in Seq(Event)
        /\ Len(audit) \in Nat /\ Len(audit') = Len(audit) + 1
        /\ \A i \in 1..Len(audit) : audit'[i] = audit[i]
        /\ audit'[Len(audit) + 1] = e
    BY <1>1, <1>2
  <1>4. QED
    BY <1>3 DEF e

-----------------------------------------------------------------------------
(***************************************************************************)
(* What steps do to the parts of the invariant.                            *)
(***************************************************************************)

\* An account stays in its organization.
OrgsStay == \A u \in Users : row[u].org # None => row'[u].org = row[u].org

\* A request that moves no other and is itself over, or has loaded its row.
LEMMA RequestsMove ==
  ASSUME AccountsInv, OrgsStay, NEW q \in Requests, NEW r \in Request,
         req' = [req EXCEPT ![q] = r], RequestInv(r)'
  PROVE  /\ req' \in [Requests -> Request]
         /\ req'[q] = r /\ \A p \in Requests \ {q} : req'[p] = req[p]
         /\ \A p \in Requests : RequestInv(req[p])'
  <1>1. /\ req' \in [Requests -> Request]
        /\ req'[q] = r /\ \A p \in Requests \ {q} : req'[p] = req[p]
    BY DEF AccountsInv, TypeOK
  <1>2. ASSUME NEW p \in Requests \ {q} PROVE RequestInv(req[p])'
    <2> SUFFICES ASSUME req[p].pc = "loaded"
                 PROVE  /\ req[p].action \in {"update", "delete", "set_role"}
                        /\ req[p].token \in Token /\ req[p].user \in Users
                        /\ row'[req[p].user].org = req[p].token.org
                        /\ None \notin {req[p].seen.role, req[p].seen.name}
                        /\ req[p].action = "delete" => req[p].token.user # req[p].user
      BY <1>1, <1>2 DEF RequestInv
    <2>1. RequestInv(req[p])
      BY DEF AccountsInv
    <2>2. req[p].token.org # None
      BY <2>1, AccountsAssumption DEF RequestInv, Token
    <2>3. QED
      BY <2>1, <2>2 DEF RequestInv, OrgsStay
  <1>3. RequestInv(req[q])'
    BY <1>1
  <1>4. QED
    BY <1>1, <1>2, <1>3

\* Nothing is logged and no role changes but of accounts without a trail.
LEMMA TrailStays ==
  ASSUME AccountsInv, OrgsStay, UNCHANGED audit,
         \A u \in Users : row[u].org # None => row'[u] = row[u]
  PROVE  TrailInv' /\ TrailExplainsRole'
  <1>1. ASSUME NEW i \in 1..Len(audit)
        PROVE  audit[i].user \in Users /\ row'[audit[i].user] = row[audit[i].user]
    BY Events DEF AccountsInv, TrailInv
  <1>2. TrailInv'
    BY <1>1 DEF AccountsInv, TrailInv
  <1>3. TrailExplainsRole'
    BY <1>1 DEF AccountsInv, TrailExplainsRole, RoleChanges, RoleOf
  <1>4. QED
    BY <1>2, <1>3

\* A new event says what the role of its account is now, if it tells of another one at
\* all, and if not the role is what it was.
LEMMA TrailGrows ==
  ASSUME AccountsInv, OrgsStay, NEW u \in Users, NEW e, e.user = u,
         audit' \in Seq(Event), Len(audit') = Len(audit) + 1,
         \A i \in 1..Len(audit) : audit'[i] = audit[i], audit'[Len(audit) + 1] = e,
         row'[u].org # None,
         \A w \in Users \ {u} : row'[w] = row[w],
         e.before # e.after => RoleOf(u)' = e.after,
         e.before = e.after => RoleOf(u)' = RoleOf(u)
  PROVE  TrailInv' /\ TrailExplainsRole'
  <1>1. Len(audit) \in Nat /\ \A i \in 1..Len(audit) : audit[i].user \in Users
    BY Events DEF AccountsInv
  <1>2. TrailInv'
    <2> SUFFICES ASSUME NEW i \in 1..Len(audit') PROVE row'[audit'[i].user].org # None
      BY DEF TrailInv
    <2>1. CASE i \in 1..Len(audit)
      BY <1>1, <2>1 DEF AccountsInv, TrailInv, OrgsStay
    <2>2. CASE i = Len(audit) + 1
      BY <2>2
    <2>3. QED
      BY <1>1, <2>1, <2>2
  <1>3. TrailExplainsRole'
    <2> SUFFICES ASSUME NEW w \in Users, NEW i \in RoleChanges(w)',
                        \A j \in RoleChanges(w)' : j <= i
                 PROVE  RoleOf(w)' = audit'[i].after
      BY DEF TrailExplainsRole
    <2>1. /\ i \in 1..(Len(audit) + 1) /\ audit'[i].user = w
          /\ audit'[i].before # audit'[i].after
      BY DEF RoleChanges
    <2>2. RoleChanges(w) \subseteq RoleChanges(w)'
      BY <1>1 DEF RoleChanges
    <2>3. CASE i = Len(audit) + 1
      BY <2>1, <2>3
    <2>4. CASE i # Len(audit) + 1
      <3>1. i \in 1..Len(audit) /\ audit'[i] = audit[i]
        BY <1>1, <2>1, <2>4
      <3>2. i \in RoleChanges(w)
        BY <2>1, <3>1 DEF RoleChanges
      <3>3. RoleOf(w) = audit[i].after
        BY <2>2, <3>2 DEF AccountsInv, TrailExplainsRole
      <3>4. CASE w # u
        <4>1. RoleOf(w)' = RoleOf(w)
          BY <3>4 DEF RoleOf
        <4>2. QED
          BY <3>1, <3>3, <4>1
      <3>5. CASE w = u
        <4>1. ~ Len(audit) + 1 <= i
          BY <1>1, <3>1
        <4>2. Len(audit) + 1 \notin RoleChanges(u)'
          BY <3>5, <4>1
        <4>3. e.before = e.after
          BY <1>1, <4>2 DEF RoleChanges
        <4>4. QED
          BY <3>1, <3>3, <3>5, <4>3
      <3>6. QED
        BY <3>4, <3>5
    <2>5. QED
      BY <2>3, <2>4
  <1>4. QED
    BY <1>2, <1>3

\* The accounts with the name, and the sign-ins that found none, do not get more.
LEMMA SignInStays ==
  ASSUME AccountsInv, ~ doubted' => ~ doubted /\ AutoAdmins' \subseteq AutoAdmins,
         \A p \in Requests : req'[p].pc = "looked" => req[p].pc = "looked"
  PROVE  SignInInv' /\ OneAutoAdmin'
  <1>1. SignInInv'
    BY DEF AccountsInv, SignInInv
  <1>2. OneAutoAdmin'
    BY DEF AccountsInv, OneAutoAdmin, AutoAdmins
  <1>3. QED
    BY <1>1, <1>2

\* A request is over.
LEMMA EndMoves ==
  ASSUME AccountsInv, OrgsStay, NEW q \in Requests, NEW pc \in {"done", "failed"}, Ends(q, pc)
  PROVE  /\ req' \in [Requests -> Request]
         /\ req'[q].pc = pc /\ \A p \in Requests \ {q} : req'[p] = req[p]
         /\ \A p \in Requests : RequestInv(req[p])'
  <1> DEFINE r == [NoRequest EXCEPT !.pc = pc]
  <1>1. r \in Request /\ r.pc = pc
    BY Ended
  <1>2. req' = [req EXCEPT ![q] = r]
    BY DEF Ends
  <1> HIDE DEF r
  <1>3. RequestInv(r)'
    BY <1>1 DEF RequestInv
  <1>4. QED
    BY <1>1, <1>2, <1>3, RequestsMove

-----------------------------------------------------------------------------
(***************************************************************************)
(* One lemma per kind of step.                                             *)
(***************************************************************************)

\* An account is created, by an administrator or for a sign-in.
LEMMA NewAccount ==
  ASSUME AccountsInv, NEW u \in Fresh, NEW o \in Orgs, NEW role \in Roles, NEW name \in Names,
         row' = [row EXCEPT ![u] = Account(o, role, name)]
  PROVE  /\ OrgsStay /\ row' \in [Users -> Row]
         /\ \A w \in Users : row'[w].there => None \notin {row'[w].org, row'[w].role, row'[w].name}
         /\ u \in Users /\ row'[u] = Account(o, role, name)
         /\ \A w \in Users \ {u} : row'[w] = row[w]
         /\ \A w \in Users : row[w].org # None => row'[w] = row[w]
  <1>1. u \in Users /\ row[u].org = None
    BY FreshIsNone
  <1>2. /\ Account(o, role, name) \in Row /\ Account(o, role, name).org = o
        /\ Account(o, role, name).role = role /\ Account(o, role, name).name = name
        /\ None \notin {o, role, name}
    BY AccountType
  <1>3. row'[u] = Account(o, role, name) /\ \A w \in Users \ {u} : row'[w] = row[w]
    BY <1>1 DEF AccountsInv, TypeOK
  <1>4. row' \in [Users -> Row]
    BY <1>1, <1>2 DEF AccountsInv, TypeOK
  <1>5. \A w \in Users : row'[w].there => None \notin {row'[w].org, row'[w].role, row'[w].name}
    BY <1>2, <1>3 DEF AccountsInv, TypeOK
  <1>6. \A w \in Users : row[w].org # None => row'[w] = row[w]
    BY <1>1, <1>3
  <1>7. OrgsStay
    BY <1>6 DEF OrgsStay
  <1>8. QED
    BY <1>1, <1>3, <1>4, <1>5, <1>6, <1>7

\* An administrator creates an account.
LEMMA CreateStep ==
  ASSUME AccountsInv, NEW q \in Requests, Create(q)
  PROVE  AccountsInv'
  <1>1. PICK t \in Tokens(Admin), u \in Fresh, role \in Roles, name \in Names :
          /\ Ends(q, "done")
          /\ row' = [row EXCEPT ![u] = Account(t.org, role, name)]
          /\ Audit(t, "create", u, None, role)
          /\ doubted' = (doubted \/ name = AutoAdmin)
    BY DEF Create
  <1>2. t \in Token /\ t.org \in Orgs
    BY DEF Tokens, Token
  <1>3. /\ OrgsStay /\ row' \in [Users -> Row]
        /\ \A w \in Users : row'[w].there => None \notin {row'[w].org, row'[w].role, row'[w].name}
        /\ u \in Users /\ row'[u] = Account(t.org, role, name)
        /\ \A w \in Users \ {u} : row'[w] = row[w]
    BY <1>1, <1>2, NewAccount
  <1>4. /\ row'[u].there /\ row'[u].org = t.org /\ row'[u].role = role /\ row'[u].name = name
        /\ t.org # None /\ role # None
    BY <1>2, <1>3, AccountType
  <1>5. /\ req' \in [Requests -> Request]
        /\ req'[q].pc = "done" /\ \A p \in Requests \ {q} : req'[p] = req[p]
        /\ \A p \in Requests : RequestInv(req[p])'
    BY <1>1, <1>3, EndMoves
  <1> DEFINE e == [org |-> t.org, user |-> u, action |-> "create",
                   before |-> None, after |-> role]
  <1>6. /\ audit' \in Seq(Event)
        /\ Len(audit) \in Nat /\ Len(audit') = Len(audit) + 1
        /\ \A i \in 1..Len(audit) : audit'[i] = audit[i]
        /\ audit'[Len(audit) + 1] = e
    BY <1>1, <1>2, <1>3, Logged DEF AccountsInv
  <1>7. e.user = u /\ e.before = None /\ e.after = role
    OBVIOUS
  <1> HIDE DEF e
  <1>8. RoleOf(u)' = e.after /\ e.before # e.after
    BY <1>4, <1>7 DEF RoleOf
  <1>9. TrailInv' /\ TrailExplainsRole'
    BY <1>3, <1>4, <1>6, <1>7, <1>8, TrailGrows
  <1>10. SignInInv' /\ OneAutoAdmin'
    <2>1. ~ doubted' => ~ doubted /\ AutoAdmins' \subseteq AutoAdmins
      BY <1>1, <1>3, <1>4 DEF AutoAdmins
    <2>2. \A p \in Requests : req'[p].pc = "looked" => req[p].pc = "looked"
      BY <1>5
    <2>3. QED
      BY <2>1, <2>2, SignInStays
  <1>11. TypeOK'
    BY <1>1, <1>3, <1>5, <1>6 DEF AccountsInv, TypeOK
  <1>12. QED
    BY <1>5, <1>9, <1>10, <1>11 DEF AccountsInv

\* A request loads the row it is about.
LEMMA LoadStep ==
  ASSUME AccountsInv, NEW q \in Requests, NEW action \in {"update", "delete", "set_role"},
         NEW t \in Tokens(Admin), NEW u \in Users, NEW body \in Body,
         action = "delete" => t.user # u, Load(q, action, t, u, body)
  PROVE  AccountsInv'
  <1>0. PICK r : r = [pc |-> "loaded", action |-> action, token |-> t, user |-> u,
                      body |-> body, seen |-> row[u]]
    OBVIOUS
  <1>1. /\ req[q].pc = "none" /\ row[u].there /\ row[u].org = t.org
        /\ req' = [req EXCEPT ![q] = r]
        /\ UNCHANGED <<row, audit, doubted>>
    BY <1>0 DEF Load, Visible
  <1>2. t \in Token /\ row[u] \in Row
    BY DEF Tokens, AccountsInv, TypeOK
  <1>3. /\ r \in Request /\ r.pc = "loaded" /\ r.action = action /\ r.token = t /\ r.user = u
        /\ r.seen = row[u]
    BY <1>0, <1>2 DEF Request
  <1>4. OrgsStay
    BY <1>1 DEF OrgsStay
  <1>5. RequestInv(r)'
    BY <1>1, <1>2, <1>3 DEF RequestInv, AccountsInv, TypeOK
  <1>6. /\ req' \in [Requests -> Request]
        /\ req'[q] = r /\ \A p \in Requests \ {q} : req'[p] = req[p]
        /\ \A p \in Requests : RequestInv(req[p])'
    BY <1>1, <1>3, <1>4, <1>5, RequestsMove
  <1>7. TrailInv' /\ TrailExplainsRole'
    BY <1>1, <1>4, TrailStays
  <1>8. SignInInv' /\ OneAutoAdmin'
    <2>1. ~ doubted' => ~ doubted /\ AutoAdmins' \subseteq AutoAdmins
      BY <1>1 DEF AutoAdmins
    <2>2. \A p \in Requests : req'[p].pc = "looked" => req[p].pc = "looked"
      BY <1>3, <1>6
    <2>3. QED
      BY <2>1, <2>2, SignInStays
  <1>9. TypeOK'
    BY <1>1, <1>6 DEF AccountsInv, TypeOK
  <1>10. QED
    BY <1>6, <1>7, <1>8, <1>9 DEF AccountsInv

\* What a request that has loaded its row is about.
LEMMA LoadedFacts ==
  ASSUME AccountsInv, NEW q \in Requests, req[q].pc = "loaded"
  PROVE  /\ req[q].token \in Token /\ req[q].token.org # None
         /\ req[q].user \in Users /\ row[req[q].user] \in Row
         /\ row[req[q].user].org = req[q].token.org
         /\ req[q].seen \in Row /\ req[q].seen.role \in Roles /\ req[q].seen.name \in Names
         /\ req[q].body \in Body
  <1>1. RequestInv(req[q]) /\ req[q] \in Request
    BY DEF AccountsInv, TypeOK
  <1>2. req[q].seen \in Row /\ req[q].body \in Body
    BY <1>1 DEF Request
  <1>3. /\ req[q].token \in Token /\ req[q].user \in Users
        /\ row[req[q].user].org = req[q].token.org
        /\ req[q].seen.role # None /\ req[q].seen.name # None
    BY <1>1 DEF RequestInv
  <1>4. req[q].token.org # None /\ row[req[q].user] \in Row
    BY <1>3, AccountsAssumption DEF Token, AccountsInv, TypeOK
  <1>5. QED
    BY <1>2, <1>3, <1>4 DEF Row

\* What a flush makes of the row.
LEMMA FlushFacts ==
  ASSUME AccountsInv, NEW q \in Requests, req[q].pc = "loaded"
  PROVE  LET old == row[req[q].user] IN
         /\ Flushed(q) \in Row /\ Flushed(q).org = old.org /\ Flushed(q).there = old.there
         /\ Assigned(q, "role") \in Roles /\ Assigned(q, "name") \in Names
         /\ Flushed(q).role = IF Assigned(q, "role") # req[q].seen.role
                              THEN Assigned(q, "role") ELSE old.role
         /\ Flushed(q).name = IF Assigned(q, "name") # req[q].seen.name
                              THEN Assigned(q, "name") ELSE old.name
  <1>1. /\ row[req[q].user] \in Row /\ req[q].body \in Body
        /\ req[q].seen.role \in Roles /\ req[q].seen.name \in Names
    BY LoadedFacts
  <1>2. Assigned(q, "role") \in Roles /\ Assigned(q, "name") \in Names
    BY <1>1 DEF Assigned, Body
  <1> DEFINE role == IF Assigned(q, "role") # req[q].seen.role
                     THEN Assigned(q, "role") ELSE row[req[q].user].role
             name == IF Assigned(q, "name") # req[q].seen.name
                     THEN Assigned(q, "name") ELSE row[req[q].user].name
  <1>3. Flushed(q) = [row[req[q].user] EXCEPT !.role = role, !.name = name]
    BY <1>1 DEF Flushed, Dirty
  <1>4. role \in Roles \cup {None} /\ name \in Names \cup {None}
    BY <1>1, <1>2 DEF Row
  <1> HIDE DEF role, name
  <1>5. /\ Flushed(q) \in Row /\ Flushed(q).org = row[req[q].user].org
        /\ Flushed(q).there = row[req[q].user].there
        /\ Flushed(q).role = role /\ Flushed(q).name = name
    BY <1>1, <1>3, <1>4 DEF Row
  <1>6. QED
    BY <1>2, <1>5 DEF role, name

\* The event of a request on the account it loaded.
LEMMA ChangeLogged ==
  ASSUME AccountsInv, NEW q \in Requests, req[q].pc = "loaded", NEW u, u = req[q].user,
         NEW action \in {"update", "delete", "set_role"}, NEW after \in Roles \cup {None},
         Audit(req[q].token, action, u, Before(q), after),
         OrgsStay, \A w \in Users \ {u} : row'[w] = row[w],
         req[q].seen.role # after => RoleOf(u)' = after,
         req[q].seen.role = after => RoleOf(u)' = RoleOf(u)
  PROVE  audit' \in Seq(Event) /\ TrailInv' /\ TrailExplainsRole'
  <1>1. PICK t, before : t = req[q].token /\ before = req[q].seen.role
    OBVIOUS
  <1>2. /\ t \in Token /\ t.org # None /\ row[u].org = t.org /\ u \in Users
        /\ before \in Roles
    BY <1>1, LoadedFacts
  <1>3. Audit(t, action, u, before, after)
    BY <1>1 DEF Before
  <1>4. PICK e : e = [org |-> t.org, user |-> u, action |-> action,
                      before |-> before, after |-> after]
    OBVIOUS
  <1>5. /\ audit' \in Seq(Event)
        /\ Len(audit') = Len(audit) + 1
        /\ \A i \in 1..Len(audit) : audit'[i] = audit[i]
        /\ audit'[Len(audit) + 1] = e
    BY <1>2, <1>3, <1>4, Logged DEF AccountsInv
  <1>6. e.user = u /\ e.before = before /\ e.after = after
    BY <1>4
  <1>7. row'[u].org # None
    BY <1>2 DEF OrgsStay
  <1>8. /\ e.before # e.after => RoleOf(u)' = e.after
        /\ e.before = e.after => RoleOf(u)' = RoleOf(u)
    BY <1>1, <1>6
  <1>9. TrailInv' /\ TrailExplainsRole'
    BY <1>2, <1>5, <1>6, <1>7, <1>8, TrailGrows
  <1>10. QED
    BY <1>5, <1>9

\* An update or a change of role commits.
LEMMA CommitChangeStep ==
  ASSUME AccountsInv, NEW q \in Requests, CommitChange(q)
  PROVE  AccountsInv'
  <1>1. PICK u, new, after :
          u = req[q].user /\ new = Flushed(q) /\ after = Assigned(q, "role")
    OBVIOUS
  <1>2. /\ req[q].pc = "loaded" /\ req[q].action \in {"update", "set_role"}
        /\ Ends(q, "done")
        /\ row' = [row EXCEPT ![u] = new]
        /\ Audit(req[q].token, req[q].action, req[q].user, Before(q), after)
        /\ doubted' = (doubted \/ (Dirty(q, "name") /\ Assigned(q, "name") = AutoAdmin))
        /\ row[u].there \/ after = req[q].seen.role
    BY <1>1 DEF CommitChange, Writable, Dirty
  <1>3. u \in Users /\ row[u] \in Row /\ row[u].org # None
    BY <1>1, <1>2, LoadedFacts
  <1>4. /\ new \in Row /\ new.org = row[u].org /\ new.there = row[u].there
        /\ after \in Roles
        /\ new.role = IF after # req[q].seen.role THEN after ELSE row[u].role
        /\ new.name = IF Assigned(q, "name") # req[q].seen.name
                      THEN Assigned(q, "name") ELSE row[u].name
        /\ Assigned(q, "name") \in Names
    BY <1>1, <1>2, FlushFacts
  <1>5. row' \in [Users -> Row] /\ row'[u] = new /\ \A w \in Users \ {u} : row'[w] = row[w]
    BY <1>2, <1>3, <1>4 DEF AccountsInv, TypeOK
  <1>6. OrgsStay
    BY <1>4, <1>5 DEF OrgsStay
  <1>7. /\ req' \in [Requests -> Request]
        /\ req'[q].pc = "done" /\ \A p \in Requests \ {q} : req'[p] = req[p]
        /\ \A p \in Requests : RequestInv(req[p])'
    BY <1>2, <1>6, EndMoves
  <1>8. \A w \in Users : row'[w].there => None \notin {row'[w].org, row'[w].role, row'[w].name}
    <2>1. row[u].there => None \notin {row[u].org, row[u].role, row[u].name}
      BY <1>3 DEF AccountsInv, TypeOK
    <2>2. new.there => None \notin {new.org, new.role, new.name}
      BY <1>4, <2>1, AccountsAssumption
    <2>3. QED
      BY <1>5, <2>2 DEF AccountsInv, TypeOK
  <1>9. /\ req[q].seen.role # after => RoleOf(u)' = after
        /\ req[q].seen.role = after => RoleOf(u)' = RoleOf(u)
    BY <1>2, <1>4, <1>5 DEF RoleOf
  <1>10. audit' \in Seq(Event) /\ TrailInv' /\ TrailExplainsRole'
    <2>1. PICK action \in {"update", "delete", "set_role"} : action = req[q].action
      BY <1>2
    <2>2. Audit(req[q].token, action, u, Before(q), after)
      BY <1>1, <1>2, <2>1
    <2>3. QED
      BY <1>1, <1>2, <1>4, <1>5, <1>6, <1>9, <2>2, ChangeLogged
  <1>11. SignInInv' /\ OneAutoAdmin'
    <2>1. ASSUME ~ doubted' PROVE ~ doubted /\ AutoAdmins' \subseteq AutoAdmins
      <3>1. ~ doubted /\ ~ (Dirty(q, "name") /\ Assigned(q, "name") = AutoAdmin)
        BY <1>2, <2>1
      <3>2. new.name = AutoAdmin => row[u].name = AutoAdmin
        BY <1>4, <3>1 DEF Dirty
      <3>3. QED
        BY <1>4, <1>5, <3>1, <3>2 DEF AutoAdmins
    <2>2. \A p \in Requests : req'[p].pc = "looked" => req[p].pc = "looked"
      BY <1>7
    <2>3. QED
      BY <2>1, <2>2, SignInStays
  <1>12. TypeOK'
    BY <1>2, <1>5, <1>7, <1>8, <1>10 DEF AccountsInv, TypeOK
  <1>13. QED
    BY <1>7, <1>10, <1>11, <1>12 DEF AccountsInv

\* An account is deleted, or was by somebody else.
LEMMA CommitDeleteStep ==
  ASSUME AccountsInv, NEW q \in Requests, CommitDelete(q)
  PROVE  AccountsInv'
  <1>1. PICK u, new : u = req[q].user /\ new = [row[u] EXCEPT !.there = FALSE]
    OBVIOUS
  <1>2. /\ req[q].pc = "loaded" /\ req[q].action = "delete"
        /\ Ends(q, "done")
        /\ row' = [row EXCEPT ![u] = new]
        /\ Audit(req[q].token, "delete", req[q].user, Before(q), None)
        /\ UNCHANGED doubted
    BY <1>1 DEF CommitDelete
  <1>3. u \in Users /\ row[u] \in Row
    BY <1>1, <1>2, LoadedFacts
  <1>4. /\ new \in Row /\ new.org = row[u].org /\ ~ new.there
        /\ new.role = row[u].role /\ new.name = row[u].name
    BY <1>1, <1>3 DEF Row
  <1>5. row' \in [Users -> Row] /\ row'[u] = new /\ \A w \in Users \ {u} : row'[w] = row[w]
    BY <1>2, <1>3, <1>4 DEF AccountsInv, TypeOK
  <1>6. OrgsStay
    BY <1>4, <1>5 DEF OrgsStay
  <1>7. /\ req' \in [Requests -> Request]
        /\ req'[q].pc = "done" /\ \A p \in Requests \ {q} : req'[p] = req[p]
        /\ \A p \in Requests : RequestInv(req[p])'
    BY <1>2, <1>6, EndMoves
  <1>8. audit' \in Seq(Event) /\ TrailInv' /\ TrailExplainsRole'
    <2>1. RoleOf(u)' = None /\ req[q].seen.role # None
      BY <1>2, <1>4, <1>5, LoadedFacts, AccountsAssumption DEF RoleOf
    <2>2. Audit(req[q].token, "delete", u, Before(q), None)
      BY <1>1, <1>2
    <2>3. QED
      BY <1>1, <1>2, <1>5, <1>6, <2>1, <2>2, ChangeLogged
  <1>9. SignInInv' /\ OneAutoAdmin'
    <2>1. AutoAdmins' \subseteq AutoAdmins
      BY <1>4, <1>5 DEF AutoAdmins
    <2>2. \A p \in Requests : req'[p].pc = "looked" => req[p].pc = "looked"
      BY <1>7
    <2>3. QED
      BY <1>2, <2>1, <2>2, SignInStays
  <1>10. TypeOK'
    BY <1>2, <1>4, <1>5, <1>7, <1>8 DEF AccountsInv, TypeOK
  <1>11. QED
    BY <1>7, <1>8, <1>9, <1>10 DEF AccountsInv

\* A step in which no account and no event changes.
LEMMA NothingWritten ==
  ASSUME AccountsInv, UNCHANGED <<row, audit>>
  PROVE  OrgsStay /\ TrailInv' /\ TrailExplainsRole'
  <1>1. OrgsStay
    BY DEF OrgsStay
  <1>2. QED
    BY <1>1, TrailStays

\* A request fails.
LEMMA FailsStep ==
  ASSUME AccountsInv, NEW q \in Requests, Fails(q)
  PROVE  AccountsInv'
  <1>1. Ends(q, "failed") /\ UNCHANGED <<row, audit, doubted>>
    BY DEF Fails
  <1>2. OrgsStay
    BY <1>1 DEF OrgsStay
  <1>3. /\ req' \in [Requests -> Request]
        /\ req'[q].pc = "failed" /\ \A p \in Requests \ {q} : req'[p] = req[p]
        /\ \A p \in Requests : RequestInv(req[p])'
    BY <1>1, <1>2, EndMoves
  <1>4. TrailInv' /\ TrailExplainsRole'
    BY <1>1, NothingWritten
  <1>5. SignInInv' /\ OneAutoAdmin'
    BY <1>1, <1>3, SignInStays DEF AutoAdmins
  <1>6. TypeOK'
    BY <1>1, <1>3 DEF AccountsInv, TypeOK
  <1>7. QED
    BY <1>3, <1>4, <1>5, <1>6 DEF AccountsInv

\* A sign-in finds the Auto Admin.
LEMMA FindAutoAdminStep ==
  ASSUME AccountsInv, NEW q \in Requests, FindAutoAdmin(q)
  PROVE  AccountsInv'
  <1>1. Ends(q, "done") /\ UNCHANGED <<row, audit, doubted>>
    BY DEF FindAutoAdmin
  <1>2. OrgsStay
    BY <1>1 DEF OrgsStay
  <1>3. /\ req' \in [Requests -> Request]
        /\ req'[q].pc = "done" /\ \A p \in Requests \ {q} : req'[p] = req[p]
        /\ \A p \in Requests : RequestInv(req[p])'
    BY <1>1, <1>2, EndMoves
  <1>4. TrailInv' /\ TrailExplainsRole'
    BY <1>1, NothingWritten
  <1>5. SignInInv' /\ OneAutoAdmin'
    BY <1>1, <1>3, SignInStays DEF AutoAdmins
  <1>6. TypeOK'
    BY <1>1, <1>3 DEF AccountsInv, TypeOK
  <1>7. QED
    BY <1>3, <1>4, <1>5, <1>6 DEF AccountsInv

\* A sign-in finds no Auto Admin.
LEMMA FindNoneStep ==
  ASSUME AccountsInv, NEW q \in Requests, FindNone(q)
  PROVE  AccountsInv'
  <1>1. PICK r : r = [req[q] EXCEPT !.pc = "looked"]
    OBVIOUS
  <1>2. /\ req[q].pc = "none" /\ AutoAdmins = {}
        /\ req' = [req EXCEPT ![q] = r]
        /\ doubted' = (doubted \/ \E p \in Requests : req[p].pc = "looked")
        /\ UNCHANGED <<row, audit>>
    BY <1>1 DEF FindNone
  <1>3. r \in Request /\ r.pc = "looked"
    <2>1. req[q] \in Request
      BY DEF AccountsInv, TypeOK
    <2>2. QED
      BY <1>1, <2>1 DEF Request
  <1>4. OrgsStay
    BY <1>2 DEF OrgsStay
  <1>5. RequestInv(r)'
    BY <1>3 DEF RequestInv
  <1>6. /\ req' \in [Requests -> Request]
        /\ req'[q] = r /\ \A p \in Requests \ {q} : req'[p] = req[p]
        /\ \A p \in Requests : RequestInv(req[p])'
    BY <1>2, <1>3, <1>4, <1>5, RequestsMove
  <1>7. TrailInv' /\ TrailExplainsRole'
    BY <1>2, NothingWritten
  <1>8. AutoAdmins' = AutoAdmins /\ doubted \in BOOLEAN
    BY <1>2 DEF AutoAdmins, AccountsInv, TypeOK
  <1>9. SignInInv'
    BY <1>2, <1>3, <1>6, <1>8 DEF SignInInv
  <1>10. OneAutoAdmin'
    BY <1>2, <1>8 DEF OneAutoAdmin, AutoAdmins
  <1>11. TypeOK'
    BY <1>2, <1>6, <1>8 DEF AccountsInv, TypeOK
  <1>12. QED
    BY <1>6, <1>7, <1>9, <1>10, <1>11 DEF AccountsInv

\* A sign-in provisions the Auto Admin.
LEMMA ProvisionStep ==
  ASSUME AccountsInv, NEW q \in Requests, Provision(q)
  PROVE  AccountsInv'
  <1>1. PICK u \in Fresh :
          /\ Ends(q, "done")
          /\ row' = [row EXCEPT ![u] = Account(Demo, "admin", AutoAdmin)]
    BY DEF Provision
  <1>2. UNCHANGED <<audit, doubted>> /\ req[q].pc = "looked"
    BY DEF Provision
  <1>3. Demo \in Orgs /\ "admin" \in Roles /\ AutoAdmin \in Names
    BY AccountsAssumption DEF Roles, Names
  <1>4. /\ OrgsStay /\ row' \in [Users -> Row]
        /\ \A w \in Users : row'[w].there => None \notin {row'[w].org, row'[w].role, row'[w].name}
        /\ u \in Users
        /\ \A w \in Users \ {u} : row'[w] = row[w]
        /\ \A w \in Users : row[w].org # None => row'[w] = row[w]
    BY <1>1, <1>3, NewAccount
  <1>5. /\ req' \in [Requests -> Request]
        /\ req'[q].pc = "done" /\ \A p \in Requests \ {q} : req'[p] = req[p]
        /\ \A p \in Requests : RequestInv(req[p])'
    BY <1>1, <1>4, EndMoves
  <1>6. TrailInv' /\ TrailExplainsRole'
    BY <1>2, <1>4, TrailStays
  <1>7. SignInInv' /\ OneAutoAdmin'
    <2> SUFFICES ASSUME ~ doubted
                 PROVE  /\ \A p \in Requests : req'[p].pc # "looked"
                        /\ AutoAdmins' \subseteq {u}
      BY <1>2 DEF SignInInv, OneAutoAdmin, AutoAdmins
    <2>1. AutoAdmins = {} /\ \A p \in Requests : req[p].pc = "looked" => p = q
      BY <1>2 DEF AccountsInv, SignInInv
    <2>2. \A p \in Requests : req'[p].pc # "looked"
      BY <1>5, <2>1
    <2>3. ASSUME NEW w \in AutoAdmins', w # u PROVE FALSE
      <3>1. w \in Users /\ row'[w] = row[w]
        BY <1>4, <2>3 DEF AutoAdmins
      <3>2. w \in AutoAdmins
        BY <3>1, <2>3 DEF AutoAdmins
      <3>3. QED
        BY <2>1, <3>2
    <2>4. QED
      BY <2>2, <2>3
  <1>8. TypeOK'
    BY <1>2, <1>4, <1>5 DEF AccountsInv, TypeOK
  <1>9. QED
    BY <1>4, <1>5, <1>6, <1>7, <1>8 DEF AccountsInv

-----------------------------------------------------------------------------
(***************************************************************************)
(* The invariant, and what follows from it.                                *)
(***************************************************************************)

\* At first there are administrators, and no requests.
LEMMA AccountsInvInit == Init => AccountsInv
  <1> SUFFICES ASSUME Init PROVE AccountsInv
    OBVIOUS
  <1>1. NoRequest \in Request /\ NoRequest.pc = "none"
    <2>1. NoRow \in Row
      BY DEF NoRow, Row
    <2>2. QED
      BY <2>1 DEF NoRequest, Request, Body
  <1>2. ASSUME NEW u \in Users
        PROVE  /\ row[u] \in Row /\ row[u].name # AutoAdmin
               /\ row[u].there => None \notin {row[u].org, row[u].role, row[u].name}
    <2>1. CASE HomeOf[u] = None
      <3>1. row[u] = NoRow
        BY <2>1 DEF Init
      <3>2. NoRow \in Row /\ ~ NoRow.there /\ NoRow.name # AutoAdmin
        BY AccountsAssumption DEF NoRow, Row, Names
      <3>3. QED
        BY <3>1, <3>2
    <2>2. CASE HomeOf[u] # None
      <3>1. row[u] = Account(HomeOf[u], "admin", "somebody")
        BY <2>2 DEF Init
      <3>2. HomeOf[u] \in Orgs /\ "admin" \in Roles /\ "somebody" \in Names
        BY <2>2, AccountsAssumption DEF Roles, Names
      <3>3. "somebody" # AutoAdmin
        BY DEF AutoAdmin
      <3>4. QED
        BY <2>2, <3>1, <3>2, <3>3, AccountType
    <2>3. QED
      BY <2>1, <2>2
  <1>3. TypeOK
    <2>1. row \in [Users -> Row]
      BY <1>2 DEF Init
    <2>2. audit \in Seq(Event)
      <3>1. audit = <<>>
        BY DEF Init
      <3>2. QED
        BY <3>1
    <2>3. doubted \in BOOLEAN
      BY DEF Init
    <2>4. req \in [Requests -> Request]
      BY <1>1 DEF Init
    <2>5. QED
      BY <1>2, <2>1, <2>2, <2>3, <2>4 DEF TypeOK
  <1>4. \A q \in Requests : RequestInv(req[q])
    BY <1>1 DEF Init, RequestInv
  <1>5. SignInInv
    BY <1>1 DEF Init, SignInInv
  <1>6. TrailInv /\ TrailExplainsRole
    BY DEF Init, TrailInv, TrailExplainsRole, RoleChanges
  <1>7. OneAutoAdmin
    BY <1>2 DEF OneAutoAdmin
  <1>8. QED
    BY <1>3, <1>4, <1>5, <1>6, <1>7 DEF AccountsInv

\* Every step preserves the invariant.
LEMMA AccountsInvNext == AccountsInv /\ [Next]_vars => AccountsInv'
  <1> SUFFICES ASSUME AccountsInv, [Next]_vars PROVE AccountsInv'
    OBVIOUS
  <1>1. CASE UNCHANGED vars
    <2>1. UNCHANGED <<row, audit, req, doubted>>
      BY <1>1 DEF vars
    <2>2. TypeOK' /\ \A q \in Requests : RequestInv(req[q])'
      BY <2>1 DEF AccountsInv, TypeOK, RequestInv
    <2>3. TrailInv' /\ TrailExplainsRole'
      BY <2>1, NothingWritten
    <2>4. SignInInv' /\ OneAutoAdmin'
      BY <2>1, SignInStays DEF AutoAdmins
    <2>5. QED
      BY <2>2, <2>3, <2>4 DEF AccountsInv
  <1>2. NoRequest.body \in Body
    BY DEF NoRequest, Body
  <1>3. ASSUME NEW q \in Requests, LoadForUpdate(q) PROVE AccountsInv'
    BY <1>3, LoadStep DEF LoadForUpdate
  <1>4. ASSUME NEW q \in Requests, LoadForRole(q) PROVE AccountsInv'
    <2>1. \A role \in Roles : [role |-> role, name |-> None] \in Body
      BY DEF Body
    <2>2. PICK t \in Tokens(Admin), u \in Users, role \in Roles :
            Load(q, "set_role", t, u, [role |-> role, name |-> None])
      BY <1>4 DEF LoadForRole
    <2>3. QED
      BY <2>1, <2>2, LoadStep
  <1>5. ASSUME NEW q \in Requests, LoadForDelete(q) PROVE AccountsInv'
    <2>1. PICK t \in Tokens(Admin), u \in Users :
            t.user # u /\ Load(q, "delete", t, u, NoRequest.body)
      BY <1>5 DEF LoadForDelete, MayDelete
    <2>2. QED
      BY <1>2, <2>1, LoadStep
  <1>6. QED
    BY <1>1, <1>3, <1>4, <1>5, CreateStep, CommitChangeStep, CommitDeleteStep, FailsStep,
       FindAutoAdminStep, FindNoneStep, ProvisionStep DEF Next

\* The invariant holds of every behaviour.
LEMMA AccountsInvAlways == Spec => []AccountsInv
  BY AccountsInvInit, AccountsInvNext, PTL DEF Spec

\* Every account, event and request is well formed, and an account that is there
\* has an organization, a role and a name, whatever requests overlap on it.
THEOREM AccountsTypeCorrect == Spec => []TypeOK
  <1>1. AccountsInv => TypeOK
    BY DEF AccountsInv
  <1>2. QED
    BY <1>1, AccountsInvAlways, PTL

\* However requests on an account overlap, its role is what the last event that tells of a
\* change of it left there.
THEOREM TrailIsTrue == Spec => []TrailExplainsRole
  <1>1. AccountsInv => TrailExplainsRole
    BY DEF AccountsInv
  <1>2. QED
    BY <1>1, AccountsInvAlways, PTL

\* Signing in provisions one Auto Admin, unless two sign-ins overlap or an administrator
\* gives an account that name.
THEOREM AutoAdminIsOne == Spec => []OneAutoAdmin
  <1>1. AccountsInv => OneAutoAdmin
    BY DEF AccountsInv
  <1>2. QED
    BY <1>1, AccountsInvAlways, PTL

-----------------------------------------------------------------------------
(***************************************************************************)
(* What a step may never do.                                               *)
(***************************************************************************)

\* An account that has, or had, a row changes only when the request that loaded it commits,
\* and then nothing else does, and the commit leaves an event.
LEMMA OnlyCommitsChange ==
  ASSUME AccountsInv, [Next]_vars, NEW u \in Users, row[u].org # None, row'[u] # row[u]
  PROVE  \E q \in Requests, after \in Roles \cup {None} :
           /\ req[q].pc = "loaded" /\ req[q].user = u
           /\ req'[q].pc = "done"
           /\ \A w \in Users \ {u} : row'[w] = row[w]
           /\ row'[u].org = row[u].org
           /\ Audit(req[q].token, req[q].action, u, Before(q), after)
  <1>1. row[u] \in Row
    BY DEF AccountsInv, TypeOK
  <1>2. row' # row
    OBVIOUS
  <1>3. PICK q \in Requests :
          \/ Create(q) \/ LoadForUpdate(q) \/ LoadForRole(q) \/ LoadForDelete(q)
          \/ CommitChange(q) \/ CommitDelete(q) \/ Fails(q)
          \/ FindAutoAdmin(q) \/ FindNone(q) \/ Provision(q)
    BY <1>2 DEF Next, vars
  <1>4. ASSUME NEW w \in Fresh, NEW new, row' = [row EXCEPT ![w] = new] PROVE FALSE
    <2>1. w \in Users /\ row[w].org = None
      BY FreshIsNone
    <2>2. row'[u] = row[u]
      BY <1>1, <1>4, <2>1 DEF AccountsInv, TypeOK
    <2>3. QED
      BY <2>2
  <1>5. ~ Create(q) /\ ~ Provision(q)
    BY <1>4 DEF Create, Provision
  <1>6. ~ LoadForUpdate(q) /\ ~ LoadForRole(q) /\ ~ LoadForDelete(q)
    BY <1>2 DEF LoadForUpdate, LoadForRole, LoadForDelete, Load
  <1>7. ~ Fails(q) /\ ~ FindAutoAdmin(q) /\ ~ FindNone(q)
    BY <1>2 DEF Fails, FindAutoAdmin, FindNone
  <1>8. ASSUME NEW new, req[q].pc = "loaded", Ends(q, "done"),
               row' = [row EXCEPT ![req[q].user] = new]
        PROVE  /\ req[q].user = u /\ req'[q].pc = "done" /\ row'[u] = new
               /\ \A w \in Users \ {u} : row'[w] = row[w]
    <2>1. req[q].user \in Users
      BY <1>8, LoadedFacts
    <2>2. req'[q].pc = "done"
      BY <1>8, Ended DEF Ends, AccountsInv, TypeOK
    <2>3. \A w \in Users \ {req[q].user} : row'[w] = row[w]
      BY <1>8, <2>1 DEF AccountsInv, TypeOK
    <2>4. req[q].user = u
      BY <2>3
    <2>5. row'[u] = new
      BY <1>8, <2>4 DEF AccountsInv, TypeOK
    <2>6. QED
      BY <2>2, <2>3, <2>4, <2>5
  <1>9. CASE CommitChange(q)
    <2>1. /\ req[q].pc = "loaded" /\ Ends(q, "done")
          /\ row' = [row EXCEPT ![req[q].user] = Flushed(q)]
          /\ Audit(req[q].token, req[q].action, req[q].user, Before(q), Assigned(q, "role"))
      BY <1>9 DEF CommitChange
    <2>2. /\ req[q].user = u /\ req'[q].pc = "done" /\ row'[u] = Flushed(q)
          /\ \A w \in Users \ {u} : row'[w] = row[w]
      BY <1>8, <2>1
    <2>3. PICK after : after = Assigned(q, "role")
      OBVIOUS
    <2>4. after \in Roles \cup {None}
      BY <2>1, <2>3, FlushFacts
    <2>5. Audit(req[q].token, req[q].action, u, Before(q), after)
      BY <2>1, <2>2, <2>3
    <2>6. row'[u].org = row[u].org
      BY <2>1, <2>2, FlushFacts
    <2>7. QED
      BY <2>1, <2>2, <2>4, <2>5, <2>6
  <1>10. CASE CommitDelete(q)
    <2>1. PICK new : new = [row[req[q].user] EXCEPT !.there = FALSE]
      OBVIOUS
    <2>2. /\ req[q].pc = "loaded" /\ req[q].action = "delete" /\ Ends(q, "done")
          /\ row' = [row EXCEPT ![req[q].user] = new]
          /\ Audit(req[q].token, "delete", req[q].user, Before(q), None)
      BY <1>10, <2>1 DEF CommitDelete
    <2>3. /\ req[q].user = u /\ req'[q].pc = "done" /\ row'[u] = new
          /\ \A w \in Users \ {u} : row'[w] = row[w]
      BY <1>8, <2>2
    <2>4. Audit(req[q].token, req[q].action, u, Before(q), None)
      BY <2>2, <2>3
    <2>5. row'[u].org = row[u].org
      BY <1>1, <2>1, <2>3 DEF Row
    <2>6. QED
      BY <2>2, <2>3, <2>4, <2>5
  <1>11. QED
    BY <1>3, <1>5, <1>6, <1>7, <1>9, <1>10

\* An account that never had a row gets one from the administrators of the organization it
\* comes to be in, or from signing in.
LEMMA OnlyCreationAdds ==
  ASSUME AccountsInv, [Next]_vars, NEW u \in Users, row[u].org = None, row'[u] # row[u]
  PROVE  \/ row'[u] = Account(Demo, "admin", AutoAdmin)
         \/ \E t \in Token, role \in Roles :
              row'[u].org = t.org /\ Audit(t, "create", u, None, role)
  <1>1. row' # row
    OBVIOUS
  <1>2. PICK q \in Requests :
          \/ Create(q) \/ LoadForUpdate(q) \/ LoadForRole(q) \/ LoadForDelete(q)
          \/ CommitChange(q) \/ CommitDelete(q) \/ Fails(q)
          \/ FindAutoAdmin(q) \/ FindNone(q) \/ Provision(q)
    BY <1>1 DEF Next, vars
  <1>3. ~ LoadForUpdate(q) /\ ~ LoadForRole(q) /\ ~ LoadForDelete(q)
    BY <1>1 DEF LoadForUpdate, LoadForRole, LoadForDelete, Load
  <1>4. ~ Fails(q) /\ ~ FindAutoAdmin(q) /\ ~ FindNone(q)
    BY <1>1 DEF Fails, FindAutoAdmin, FindNone
  <1>5. ASSUME NEW new, req[q].pc = "loaded", row' = [row EXCEPT ![req[q].user] = new]
        PROVE  FALSE
    <2>1. req[q].user \in Users /\ row[req[q].user].org # None
      BY <1>5, LoadedFacts
    <2>2. row'[u] = row[u]
      BY <1>5, <2>1 DEF AccountsInv, TypeOK
    <2>3. QED
      BY <2>2
  <1>6. ~ CommitChange(q) /\ ~ CommitDelete(q)
    BY <1>5 DEF CommitChange, CommitDelete
  <1>7. ASSUME NEW w \in Fresh, NEW new, row' = [row EXCEPT ![w] = new]
        PROVE  w = u /\ row'[u] = new
    <2>1. w \in Users
      BY FreshIsNone
    <2>2. w = u
      BY <1>7, <2>1 DEF AccountsInv, TypeOK
    <2>3. QED
      BY <1>7, <2>2 DEF AccountsInv, TypeOK
  <1>8. CASE Create(q)
    <2>1. PICK t \in Tokens(Admin), w \in Fresh, role \in Roles, name \in Names :
            /\ row' = [row EXCEPT ![w] = Account(t.org, role, name)]
            /\ Audit(t, "create", w, None, role)
      BY <1>8 DEF Create
    <2>2. t \in Token
      BY DEF Tokens
    <2>3. w = u /\ row'[u] = Account(t.org, role, name)
      BY <1>7, <2>1
    <2>4. row'[u].org = t.org
      BY <2>3 DEF Account
    <2>5. QED
      BY <2>1, <2>2, <2>3, <2>4
  <1>9. CASE Provision(q)
    BY <1>7, <1>9 DEF Provision
  <1>10. QED
    BY <1>2, <1>3, <1>4, <1>6, <1>8, <1>9

\* Accounts are created, changed and deleted only by requests that name their own
\* organization, each with its event, but for the one that signing in provisions.
THEOREM TenantsStayApart == Spec => TenantsApart
  <1>0. ASSUME AccountsInv, NEW t \in Token, NEW action, NEW u \in Users,
               action \in {"create", "update", "delete", "set_role"},
               NEW before \in Roles \cup {None}, NEW after \in Roles \cup {None},
               Audit(t, action, u, before, after)
        PROVE  Len(audit') = Len(audit) + 1 /\ Last(audit').user = u /\ Last(audit').org = t.org
    <2>1. PICK e : e = [org |-> t.org, user |-> u, action |-> action,
                        before |-> before, after |-> after]
      OBVIOUS
    <2>2. /\ Len(audit) \in Nat /\ Len(audit') = Len(audit) + 1
          /\ audit'[Len(audit) + 1] = e
      BY <1>0, <2>1, Logged DEF AccountsInv
    <2>3. Last(audit') = e
      BY <2>2 DEF Last
    <2>4. QED
      BY <2>1, <2>2, <2>3
  <1>1. ASSUME AccountsInv, [Next]_vars, NEW u \in Users, row'[u] # row[u]
        PROVE  \/ row[u].org = None /\ row'[u] = Account(Demo, "admin", AutoAdmin)
               \/ /\ Len(audit') = Len(audit) + 1
                  /\ Last(audit').user = u
                  /\ Last(audit').org = row'[u].org
                  /\ row[u].org \in {None, row'[u].org}
    <2>1. CASE row[u].org # None
      <3>1. PICK q \in Requests, after \in Roles \cup {None} :
              /\ req[q].pc = "loaded" /\ req[q].user = u /\ row'[u].org = row[u].org
              /\ Audit(req[q].token, req[q].action, u, Before(q), after)
        BY <1>1, <2>1, OnlyCommitsChange
      <3>2. PICK t, action, before :
              t = req[q].token /\ action = req[q].action /\ before = Before(q)
        OBVIOUS
      <3>3. t \in Token /\ t.org = row[u].org /\ before \in Roles
        BY <1>1, <3>1, <3>2, LoadedFacts DEF Before
      <3>4. action \in {"update", "delete", "set_role"}
        BY <1>1, <3>1, <3>2 DEF AccountsInv, RequestInv
      <3>5. Audit(t, action, u, before, after)
        BY <3>1, <3>2
      <3>6. QED
        BY <1>0, <1>1, <3>1, <3>3, <3>4, <3>5
    <2>2. CASE row[u].org = None
      <3>1. CASE row'[u] = Account(Demo, "admin", AutoAdmin)
        BY <2>2, <3>1
      <3>2. CASE \E t \in Token, role \in Roles :
                   row'[u].org = t.org /\ Audit(t, "create", u, None, role)
        BY <1>0, <1>1, <2>2, <3>2
      <3>3. QED
        BY <1>1, <2>2, <3>1, <3>2, OnlyCreationAdds
    <2>3. QED
      BY <2>1, <2>2
  <1>2. AccountsInv /\ [Next]_vars =>
          [\A u \in Users :
             row'[u] # row[u] =>
               \/ row[u].org = None /\ row'[u] = Account(Demo, "admin", AutoAdmin)
               \/ /\ Len(audit') = Len(audit) + 1
                  /\ Last(audit').user = u
                  /\ Last(audit').org = row'[u].org
                  /\ row[u].org \in {None, row'[u].org}]_vars
    BY <1>1
  <1>3. QED
    BY <1>2, AccountsInvAlways, PTL DEF Spec, TenantsApart

\* An organization loses its last administrator only by its own step down, or by the
\* request of somebody who is not an administrator of it when the request commits.
THEOREM OrphansNeedOutsiders == Spec => OrphanedOnlyByOutsiders
  <1>1. ASSUME AccountsInv, [Next]_vars, NEW o \in Orgs, Administered(o), ~ Administered(o)'
        PROVE  \E q \in Requests :
                 /\ req[q].pc = "loaded" /\ req'[q].pc = "done"
                 /\ \/ ~ Administers(req[q].token.user, o)
                    \/ req[q].action # "delete" /\ req[q].token.user = req[q].user
    <2>1. PICK u \in Users : row[u].org = o /\ row[u].there /\ row[u].role = "admin"
      BY <1>1 DEF Administered, Administers
    <2>2. \A w \in Users : ~ (row'[w].org = o /\ row'[w].there /\ row'[w].role = "admin")
      BY <1>1 DEF Administered, Administers
    <2>3. row'[u] # row[u] /\ row[u].org # None
      BY <2>1, <2>2, AccountsAssumption
    <2>4. PICK q \in Requests :
            /\ req[q].pc = "loaded" /\ req[q].user = u /\ req'[q].pc = "done"
            /\ \A w \in Users \ {u} : row'[w] = row[w]
      BY <1>1, <2>3, OnlyCommitsChange
    <2>5. req[q].token.user \in Users
      BY <1>1, <2>4, LoadedFacts DEF Token
    <2>6. ASSUME Administers(req[q].token.user, o) PROVE req[q].token.user = u
      BY <2>2, <2>4, <2>5, <2>6 DEF Administers
    <2>7. req[q].action = "delete" => req[q].token.user # u
      BY <1>1, <2>4 DEF AccountsInv, RequestInv
    <2>8. QED
      BY <2>4, <2>6, <2>7
  <1>2. AccountsInv /\ [Next]_vars =>
          [\A o \in Orgs :
             Administered(o) /\ ~ Administered(o)' =>
               \E q \in Requests :
                 /\ req[q].pc = "loaded" /\ req'[q].pc = "done"
                 /\ \/ ~ Administers(req[q].token.user, o)
                    \/ req[q].action # "delete" /\ req[q].token.user = req[q].user]_vars
    BY <1>1
  <1>3. QED
    BY <1>2, AccountsInvAlways, PTL DEF Spec, OrphanedOnlyByOutsiders

=============================================================================
