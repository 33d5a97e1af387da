------------------------------- MODULE Accounts -------------------------------
(***************************************************************************)
(* Tenants, their users and the tokens they log in for: the auth service,  *)
(* and the tenants and users commands of basec, which write the same two   *)
(* tables with psql, one statement at a time.                              *)
(*                                                                         *)
(* The auth service is one process and its handlers never wait inside, so  *)
(* it works on one request at a time; the operator's statements commit in  *)
(* between.  A password matches the row it is tried on, or the request is  *)
(* refused and nothing changes.  tenant.json and branding, names and       *)
(* telephone numbers are left out.                                         *)
(*                                                                         *)
(* Time passes in ticks, longer than a request or a command.  A token is   *)
(* what its claims say; the browser keeps it in one cookie for all tabs.   *)
(***************************************************************************)
EXTENDS Naturals

CONSTANTS Tenants, Users, Mails, Browsers,
          FirstUsers,   \* FirstUsers[u]: the row of u at the start, or NoRow
          NoRow, NoToken, Idle,
          TokenLife,    \* ACCESS_TOKEN_EXPIRE_MINUTES, in ticks
          MaxClock,     \* bound: time the model runs for
          MaxCommands   \* bound: commands the operator gives

Roles == {"admin", "vendedor"}

Row(tenant, mail, role) ==
  [tenant |-> tenant, mail |-> mail, role |-> role, ativo |-> TRUE]

Rows == [tenant : Tenants, mail : Mails, role : Roles, ativo : BOOLEAN]

ASSUME AccountsAssumption ==
  /\ FirstUsers \in [Users -> Rows \cup {NoRow}]
  /\ NoRow \notin Rows
  /\ TokenLife \in Nat \ {0}
  /\ MaxClock \in Nat
  /\ MaxCommands \in Nat

VARIABLES
  clock,     \* ticks since the start
  tenant,    \* tenant[t]: "absent", "on" or "off"
  user,      \* user[u]: the row with this id
  cookie,    \* cookie[b]: the access_token of browser b
  auth,      \* the request the auth service works on, or Idle
  terminal,  \* the command the operator's terminal works on, or Idle
  commands,  \* commands given
  seen       \* seen[x]: the last time tenant or user x was enabled

accounts == <<clock, tenant, user, cookie, auth, terminal, commands, seen>>
tables == <<tenant, user, seen>>

Tokens == [user : Users, tenant : Tenants, role : Roles,
           exp : TokenLife..(MaxClock + TokenLife)]

Work == [op : {"login"}, browser : Browsers, tenant : Tenants]
  \cup [op : {"check", "insert"}, tenant : Tenants, mail : Mails]

(* Beyond the types: what a token claims is what the row of its user says. *)
AccountsTypeOK ==
  /\ clock \in 0..MaxClock
  /\ tenant \in [Tenants -> {"absent", "on", "off"}]
  /\ user \in [Users -> Rows \cup {NoRow}]
  /\ cookie \in [Browsers -> Tokens \cup {NoToken}]
  /\ auth \in Work \cup {Idle}
  /\ terminal \in Work \cup {Idle}
  /\ commands \in 0..MaxCommands
  /\ seen \in [Tenants \cup Users -> 0..MaxClock]
  /\ \A b \in Browsers : cookie[b] # NoToken =>
       /\ user[cookie[b].user] # NoRow
       /\ user[cookie[b].user].tenant = cookie[b].tenant
       /\ user[cookie[b].user].role = cookie[b].role

AccountsInit ==
  /\ clock = 0
  /\ tenant = [t \in Tenants |->
       IF \E u \in Users : FirstUsers[u] # NoRow /\ FirstUsers[u].tenant = t THEN "on" ELSE "absent"]
  /\ user = FirstUsers
  /\ cookie = [b \in Browsers |-> NoToken]
  /\ auth = Idle
  /\ terminal = Idle
  /\ commands = 0
  /\ seen = [x \in Tenants \cup Users |-> 0]

-------------------------------------------------------------------------------
(* Mutant of Token: the role of every token is that of the default user. *)
TokenOfDefaultRole(u) ==
  [user |-> u, tenant |-> user[u].tenant, role |-> "vendedor", exp |-> clock + TokenLife]

(* create_access_token, and what decode_access_token accepts. *)
Token(u) ==
  [user |-> u, tenant |-> user[u].tenant, role |-> user[u].role, exp |-> clock + TokenLife]

Valid(token) == token # NoToken /\ clock <= token.exp

Enabled(u) == user[u] # NoRow /\ user[u].ativo

(* get_current_user of the auth service asks the table; the tenant's own   *)
(* ativo is not asked.  require_admin_user reads the role of the row.      *)
CurrentUsers(b) ==
  {u \in Users : /\ Valid(cookie[b])
                 /\ u = cookie[b].user
                 /\ Enabled(u)
                 /\ user[u].tenant = cookie[b].tenant}

Taken(t, mail) ==
  \E u \in Users : user[u] # NoRow /\ user[u].tenant = t /\ user[u].mail = mail

(* A row is inserted under an id nobody has. *)
Insert(row) ==
  \E u \in Users : /\ user[u] = NoRow
                   /\ user' = [user EXCEPT ![u] = row]
                   /\ seen' = [seen EXCEPT ![u] = clock]

-------------------------------------------------------------------------------
(* login_json and login_form: first the tenant, then the user in it. *)
LoginTenant(b, t) ==
  /\ auth = Idle
  /\ tenant[t] = "on"
  /\ auth' = [op |-> "login", browser |-> b, tenant |-> t]
  /\ UNCHANGED <<clock, tables, cookie, terminal, commands>>

(* Mutant of LoginUser: the query does not filter on ativo. *)
LoginAnyUser ==
  /\ auth # Idle /\ auth.op = "login"
  /\ \/ \E u \in Users :
          /\ user[u] # NoRow
          /\ user[u].tenant = auth.tenant
          /\ cookie' = [cookie EXCEPT ![auth.browser] = Token(u)]
     \/ UNCHANGED cookie
  /\ auth' = Idle
  /\ UNCHANGED <<clock, tables, terminal, commands>>

LoginUser ==
  /\ auth # Idle /\ auth.op = "login"
  /\ \/ \E u \in Users :
          /\ Enabled(u)
          /\ user[u].tenant = auth.tenant
          /\ cookie' = [cookie EXCEPT ![auth.browser] = Token(u)]
     \/ UNCHANGED cookie
  /\ auth' = Idle
  /\ UNCHANGED <<clock, tables, terminal, commands>>

Logout(b) ==
  /\ cookie' = [cookie EXCEPT ![b] = NoToken]
  /\ UNCHANGED <<clock, tables, auth, terminal, commands>>

(* create_user: an administrator, an e-mail the tenant has not, a new row. *)
CreateUser(b, mail) ==
  /\ auth = Idle
  /\ \E u \in CurrentUsers(b) :
       /\ user[u].role = "admin"
       /\ auth' = [op |-> "check", tenant |-> user[u].tenant, mail |-> mail]
  /\ UNCHANGED <<clock, tables, cookie, terminal, commands>>

CheckMail ==
  /\ auth # Idle /\ auth.op = "check"
  /\ auth' = IF Taken(auth.tenant, auth.mail) THEN Idle ELSE [auth EXCEPT !.op = "insert"]
  /\ UNCHANGED <<clock, tables, cookie, terminal, commands>>

InsertUser ==
  /\ auth # Idle /\ auth.op = "insert"
  /\ \E role \in Roles : Insert(Row(auth.tenant, auth.mail, role))
  /\ auth' = Idle
  /\ UNCHANGED <<clock, tenant, cookie, terminal, commands>>

-------------------------------------------------------------------------------
(* The operator gives one command at a time. *)
Command ==
  /\ terminal = Idle
  /\ commands < MaxCommands
  /\ commands' = commands + 1
  /\ UNCHANGED <<clock, cookie, auth>>

(* tenants create: a slug that exists is refused by its unique index. *)
TenantsCreate(t) ==
  /\ Command
  /\ tenant[t] = "absent"
  /\ tenant' = [tenant EXCEPT ![t] = "on"]
  /\ seen' = [seen EXCEPT ![t] = clock]
  /\ UNCHANGED <<user, terminal>>

(* tenants disable and enable: an UPDATE by slug, which finds no row when  *)
(* the tenant is absent.                                                   *)
TenantsSwitch(t, to) ==
  /\ Command
  /\ tenant[t] # "absent"
  /\ tenant' = [tenant EXCEPT ![t] = to]
  /\ seen' = [seen EXCEPT ![t] = IF to = "on" \/ tenant[t] = "on" THEN clock ELSE @]
  /\ UNCHANGED <<user, terminal>>

(* users create: the tenant, then the e-mail, then the row. *)
UsersCreate(t, mail) ==
  /\ Command
  /\ tenant[t] = "on"
  /\ terminal' = [op |-> "check", tenant |-> t, mail |-> mail]
  /\ UNCHANGED tables

UsersCheckMail ==
  /\ terminal # Idle /\ terminal.op = "check"
  /\ terminal' = IF Taken(terminal.tenant, terminal.mail) THEN Idle
                 ELSE [terminal EXCEPT !.op = "insert"]
  /\ UNCHANGED <<clock, tables, cookie, auth, commands>>

UsersInsert ==
  /\ terminal # Idle /\ terminal.op = "insert"
  /\ \E role \in Roles : Insert(Row(terminal.tenant, terminal.mail, role))
  /\ terminal' = Idle
  /\ UNCHANGED <<clock, tenant, cookie, auth, commands>>

(* users disable and enable: an UPDATE of every row with the e-mail, in a  *)
(* tenant that need not be enabled.                                        *)
UsersSwitch(t, mail, to) ==
  /\ Command
  /\ Taken(t, mail)
  /\ LET rows == {u \in Users : user[u] # NoRow /\ user[u].tenant = t /\ user[u].mail = mail}
     IN /\ user' = [u \in Users |-> IF u \in rows THEN [user[u] EXCEPT !.ativo = to] ELSE user[u]]
        /\ seen' = [x \in Tenants \cup Users |->
                      IF x \in rows /\ (to \/ user[x].ativo) THEN clock ELSE seen[x]]
  /\ UNCHANGED <<tenant, terminal>>

-------------------------------------------------------------------------------
Tick ==
  /\ clock < MaxClock
  /\ auth = Idle
  /\ terminal = Idle
  /\ clock' = clock + 1
  /\ seen' = [x \in Tenants \cup Users |->
       IF (x \in Tenants /\ tenant[x] = "on") \/ (x \in Users /\ Enabled(x))
       THEN clock + 1 ELSE seen[x]]
  /\ UNCHANGED <<tenant, user, cookie, auth, terminal, commands>>

AccountsNext ==
  \/ Tick
  \/ \E b \in Browsers :
       \/ Logout(b)
       \/ \E t \in Tenants : LoginTenant(b, t)
       \/ \E mail \in Mails : CreateUser(b, mail)
  \/ LoginUser
  \/ CheckMail
  \/ InsertUser
  \/ UsersCheckMail
  \/ UsersInsert
  \/ \E t \in Tenants :
       \/ TenantsCreate(t)
       \/ \E to \in {"on", "off"} : TenantsSwitch(t, to)
       \/ \E mail \in Mails :
            \/ UsersCreate(t, mail)
            \/ \E to \in BOOLEAN : UsersSwitch(t, mail, to)

-------------------------------------------------------------------------------
(* Who is disabled, or whose tenant is, keeps at most one token's life of  *)
(* access: the vertical asks the token only (construction_app/web/deps.py),*)
(* so this rests on a login that asks both rows, the one after the other,  *)
(* while the operator writes them.                                         *)
AccessEnds ==
  \A b \in Browsers : Valid(cookie[b]) =>
    /\ clock <= seen[cookie[b].user] + TokenLife
    /\ clock <= seen[cookie[b].tenant] + TokenLife
===============================================================================
