--------------------------- MODULE WebConsoleProofs ---------------------------
(***************************************************************************)
(* Proofs about the accounts and the web console, for any number of        *)
(* tenants, users, browsers, quotes and products.                          *)
(*                                                                         *)
(* That access ends rests on Access: what is enabled was enabled just now, *)
(* a login that has found its tenant enabled is over before time passes,   *)
(* and no token outlives its user and its tenant by more than its life.    *)
(***************************************************************************)
EXTENDS WebConsole, TLAPS

Access ==
  /\ \A x \in Tenants \cup Users : seen[x] <= clock
  /\ \A t \in Tenants : tenant[t] = "on" => seen[t] = clock
  /\ \A u \in Users : Enabled(u) => seen[u] = clock
  /\ auth # Idle /\ auth.op = "login" => seen[auth.tenant] = clock
  /\ \A b \in Browsers : cookie[b] # NoToken =>
       /\ cookie[b].exp <= seen[cookie[b].user] + TokenLife
       /\ cookie[b].exp <= seen[cookie[b].tenant] + TokenLife

AInv == AccountsTypeOK /\ Access

(* A wizard is a customer, a site and a cart of distinct products. *)
Carts ==
  /\ wizard \in [Users -> [cliente : Clientes \cup {NoCliente},
                           obra : Obras \cup {NoObra},
                           itens : Seq(Produtos)]]
  /\ \A u \in Users : IsInjective(wizard[u].itens)

(* A button of the page of orders is there only for a quote that has one. *)
Records ==
  /\ requests \in 0..MaxRequests
  /\ restarts \in 0..requests
  /\ quote \in [Quotes -> QuoteStatus]
  /\ order \in [Quotes -> OrderStatus \cup {"none"}]
  /\ created \in [Services -> Nat]
  /\ page \in [Browsers -> SUBSET (Quotes \X Services)]
  /\ \A q \in Quotes : quote[q] = "convertida" <=> order[q] # "none"
  /\ \A b \in Browsers, q \in Quotes : <<q, "pedido">> \in page[b] => order[q] # "none"

Inv == AInv /\ Carts /\ Records

-------------------------------------------------------------------------------
(* Lemmas about the parts of the model. *)

(* A row that is inserted was no row of anybody with a token, and its user *)
(* is enabled from now on.                                                 *)
LEMMA InsertKeeps ==
  ASSUME AInv, NEW row \in Rows, Insert(row),
         UNCHANGED <<clock, tenant, cookie, commands>>,
         auth' \in {auth, Idle}, terminal' \in Work \cup {Idle}
  PROVE  AInv'
<1> USE AccountsAssumption DEF AInv
<1>1. PICK u \in Users : /\ user[u] = NoRow
                         /\ user' = [user EXCEPT ![u] = row]
                         /\ seen' = [seen EXCEPT ![u] = clock]
  BY DEF Insert
<1>2. AccountsTypeOK'
  BY <1>1 DEF AccountsTypeOK, Tokens
<1>3. \A x \in Tenants \cup Users : seen[x] <= seen'[x] /\ seen'[x] <= clock
  BY <1>1 DEF AccountsTypeOK, Access
<1>4. Access'
  <2>1. \A v \in Users : Enabled(v)' => seen'[v] = clock
    BY <1>1 DEF AccountsTypeOK, Access, Enabled
  <2>2. \A t \in Tenants : tenant[t] = "on" => seen'[t] = clock
    BY <1>1 DEF AccountsTypeOK, Access
  <2>3. auth' # Idle /\ auth'.op = "login" => seen'[auth'.tenant] = clock
    BY <1>1 DEF AccountsTypeOK, Access, Work
  <2>4. ASSUME NEW b \in Browsers, cookie[b] # NoToken
        PROVE  /\ cookie[b].exp <= seen'[cookie[b].user] + TokenLife
               /\ cookie[b].exp <= seen'[cookie[b].tenant] + TokenLife
    <3>1. cookie[b] \in Tokens
      BY <2>4 DEF AccountsTypeOK
    <3>2. /\ cookie[b].user \in Users /\ cookie[b].tenant \in Tenants
          /\ cookie[b].exp \in Nat
      BY <3>1 DEF Tokens
    <3>3. /\ seen[cookie[b].user] \in Nat /\ seen[cookie[b].tenant] \in Nat
          /\ seen'[cookie[b].user] \in Nat /\ seen'[cookie[b].tenant] \in Nat
      BY <1>2, <3>2 DEF AccountsTypeOK
    <3> QED BY <1>3, <2>4, <3>2, <3>3 DEF Access
  <2> QED BY <1>3, <2>1, <2>2, <2>3, <2>4 DEF Access
<1> QED BY <1>2, <1>4

(* What has a token is typed; the two clocks it is held against also.      *)
LEMMA TokenFacts ==
  ASSUME AccountsTypeOK, NEW b \in Browsers, cookie[b] # NoToken
  PROVE  /\ cookie[b] \in Tokens
         /\ cookie[b].user \in Users /\ cookie[b].tenant \in Tenants
         /\ cookie[b].exp \in Nat
         /\ seen[cookie[b].user] \in Nat /\ seen[cookie[b].tenant] \in Nat
  BY AccountsAssumption DEF AccountsTypeOK, Tokens

(* A step that keeps the cookies, the users' rows but for ativo, and takes *)
(* no time, keeps the tokens' part of the invariant.                       *)
LEMMA SwitchKeeps ==
  ASSUME AInv, UNCHANGED <<clock, cookie, auth>>,
         tenant' \in [Tenants -> {"absent", "on", "off"}],
         user' \in [Users -> Rows \cup {NoRow}],
         terminal' \in Work \cup {Idle}, commands' \in 0..MaxCommands,
         \A u \in Users : user[u] # NoRow => /\ user'[u] # NoRow
                                             /\ user'[u].tenant = user[u].tenant
                                             /\ user'[u].role = user[u].role,
         seen' \in [Tenants \cup Users -> 0..MaxClock],
         \A x \in Tenants \cup Users : seen'[x] \in {seen[x], clock},
         \A t \in Tenants : tenant'[t] = "on" => seen'[t] = clock,
         \A u \in Users : Enabled(u)' => seen'[u] = clock
  PROVE  AInv'
<1> USE AccountsAssumption DEF AInv
<1>1. AccountsTypeOK'
  BY DEF AccountsTypeOK, Tokens
<1>2. \A x \in Tenants \cup Users : seen[x] <= seen'[x] /\ seen'[x] <= clock
  BY DEF AccountsTypeOK, Access
<1>3. auth # Idle /\ auth.op = "login" => seen'[auth.tenant] = clock
  BY DEF AccountsTypeOK, Access, Work
<1>4. ASSUME NEW b \in Browsers, cookie[b] # NoToken
      PROVE  /\ cookie[b].exp <= seen'[cookie[b].user] + TokenLife
             /\ cookie[b].exp <= seen'[cookie[b].tenant] + TokenLife
  <2>1. /\ seen'[cookie[b].user] \in Nat /\ seen'[cookie[b].tenant] \in Nat
    BY <1>1, <1>4, TokenFacts DEF AccountsTypeOK
  <2> QED BY <1>2, <1>4, <2>1, TokenFacts DEF Access
<1> QED BY <1>1, <1>2, <1>3, <1>4 DEF Access

-------------------------------------------------------------------------------
(* At the start the tenants with a user are enabled, and nobody has a token. *)
LEMMA AccountsInitInv == AccountsInit => AInv
<1> SUFFICES ASSUME AccountsInit PROVE AInv
  OBVIOUS
<1> USE AccountsAssumption DEF AccountsInit
<1>1. AccountsTypeOK
  BY DEF AccountsTypeOK
<1>2. Access
  BY DEF Access, Enabled
<1> QED BY <1>1, <1>2 DEF AInv

(* Time passes between requests, and takes along what is enabled. *)
LEMMA TickKeeps ==
  ASSUME AInv, Tick
  PROVE  AInv'
<1> USE AccountsAssumption DEF AInv, Tick
<1>1. AccountsTypeOK'
  BY DEF AccountsTypeOK
<1>2. \A x \in Tenants \cup Users : seen[x] <= seen'[x] /\ seen'[x] <= clock'
  BY DEF AccountsTypeOK, Access
<1>3. ASSUME NEW b \in Browsers, cookie[b] # NoToken
      PROVE  /\ cookie[b].exp <= seen'[cookie[b].user] + TokenLife
             /\ cookie[b].exp <= seen'[cookie[b].tenant] + TokenLife
  <2>1. /\ seen'[cookie[b].user] \in Nat /\ seen'[cookie[b].tenant] \in Nat
    BY <1>1, <1>3, TokenFacts DEF AccountsTypeOK
  <2> QED BY <1>2, <1>3, <2>1, TokenFacts DEF Access
<1>4. \A u \in Users : Enabled(u)' => seen'[u] = clock'
  BY DEF AccountsTypeOK, Enabled
<1> QED BY <1>1, <1>2, <1>3, <1>4 DEF Access

(* Every step of the accounts keeps their invariant. *)
LEMMA AccountsKeeps ==
  ASSUME AInv, AccountsNext
  PROVE  AInv'
<1> USE AccountsAssumption DEF AInv
<1>1. ASSUME NEW b \in Browsers, Logout(b) PROVE AInv'
  BY <1>1 DEF Logout, tables, AccountsTypeOK, Access, Enabled
<1>2. ASSUME NEW b \in Browsers, NEW t \in Tenants, LoginTenant(b, t) PROVE AInv'
  <2>1. auth' \in Work
    BY <1>2 DEF LoginTenant, Work
  <2>2. AccountsTypeOK'
    BY <1>2, <2>1 DEF LoginTenant, tables, AccountsTypeOK
  <2>3. Access'
    BY <1>2 DEF LoginTenant, tables, Access, Enabled
  <2> QED BY <2>2, <2>3
<1>3. ASSUME LoginUser PROVE AInv'
  <2> USE <1>3 DEF LoginUser, tables
  <2>1. auth.browser \in Browsers /\ auth.tenant \in Tenants
    BY DEF AccountsTypeOK, Work
  <2>2. CASE UNCHANGED cookie
    BY <2>2 DEF AccountsTypeOK, Access, Enabled
  <2>3. ASSUME NEW u \in Users, Enabled(u), user[u].tenant = auth.tenant,
               cookie' = [cookie EXCEPT ![auth.browser] = Token(u)]
        PROVE  AInv'
    <3>1. user[u] \in Rows
      BY <2>3 DEF Enabled, AccountsTypeOK
    <3>2. /\ Token(u) \in Tokens
          /\ Token(u).user = u /\ Token(u).tenant = user[u].tenant /\ Token(u).role = user[u].role
      BY <3>1 DEF Token, Tokens, Rows, AccountsTypeOK
    <3>3. AccountsTypeOK'
      <4>1. cookie' \in [Browsers -> Tokens \cup {NoToken}]
        BY <2>3, <3>2 DEF AccountsTypeOK
      <4>2. \A b \in Browsers : cookie'[b] # NoToken =>
              /\ user[cookie'[b].user] # NoRow
              /\ user[cookie'[b].user].tenant = cookie'[b].tenant
              /\ user[cookie'[b].user].role = cookie'[b].role
        BY <2>1, <2>3, <3>2 DEF AccountsTypeOK, Enabled
      <4> QED BY <4>1, <4>2 DEF AccountsTypeOK
    <3>4. seen[u] = clock /\ seen[auth.tenant] = clock
      BY <2>3 DEF Access
    <3>5. Token(u).exp = clock + TokenLife /\ Token(u).user = u /\ Token(u).tenant = auth.tenant
      BY <2>3 DEF Token
    <3>6. \A b \in Browsers : cookie'[b] # NoToken =>
            /\ cookie'[b].exp <= seen[cookie'[b].user] + TokenLife
            /\ cookie'[b].exp <= seen[cookie'[b].tenant] + TokenLife
      BY <2>1, <2>3, <3>4, <3>5 DEF Access, AccountsTypeOK
    <3>7. Access'
      BY <3>6 DEF Access, Enabled
    <3> QED BY <3>3, <3>7
  <2> QED BY <2>2, <2>3
<1>4. ASSUME NEW b \in Browsers, NEW mail \in Mails, CreateUser(b, mail) PROVE AInv'
  <2>1. PICK u \in CurrentUsers(b) :
          auth' = [op |-> "check", tenant |-> user[u].tenant, mail |-> mail]
    BY <1>4 DEF CreateUser
  <2>2. user[u] \in Rows
    BY <2>1 DEF CurrentUsers, Enabled, AccountsTypeOK
  <2>3. auth' \in Work /\ auth'.op = "check"
    BY <2>1, <2>2 DEF Work, Rows
  <2> QED BY <1>4, <2>3 DEF CreateUser, tables, AccountsTypeOK, Access, Enabled
<1>5. ASSUME CheckMail PROVE AInv'
  <2>1. auth' \in Work \cup {Idle} /\ (auth' # Idle => auth'.op = "insert")
    BY <1>5 DEF CheckMail, AccountsTypeOK, Work
  <2> QED BY <1>5, <2>1 DEF CheckMail, tables, AccountsTypeOK, Access, Enabled
<1>6. ASSUME InsertUser PROVE AInv'
  <2>1. auth.tenant \in Tenants /\ auth.mail \in Mails
    BY <1>6 DEF InsertUser, AccountsTypeOK, Work
  <2>2. PICK role \in Roles : Insert(Row(auth.tenant, auth.mail, role))
    BY <1>6 DEF InsertUser
  <2>3. Row(auth.tenant, auth.mail, role) \in Rows
    BY <2>1 DEF Row, Rows
  <2> QED BY <1>6, <2>2, <2>3, InsertKeeps DEF InsertUser, AccountsTypeOK
<1>7. ASSUME UsersCheckMail PROVE AInv'
  <2>1. terminal' \in Work \cup {Idle}
    BY <1>7 DEF UsersCheckMail, AccountsTypeOK, Work
  <2> QED BY <1>7, <2>1 DEF UsersCheckMail, tables, AccountsTypeOK, Access, Enabled
<1>8. ASSUME UsersInsert PROVE AInv'
  <2>1. terminal.tenant \in Tenants /\ terminal.mail \in Mails
    BY <1>8 DEF UsersInsert, AccountsTypeOK, Work
  <2>2. PICK role \in Roles : Insert(Row(terminal.tenant, terminal.mail, role))
    BY <1>8 DEF UsersInsert
  <2>3. Row(terminal.tenant, terminal.mail, role) \in Rows
    BY <2>1 DEF Row, Rows
  <2> QED BY <1>8, <2>2, <2>3, InsertKeeps DEF UsersInsert, AccountsTypeOK
<1>9. Command => commands' \in 0..MaxCommands
  BY DEF Command, AccountsTypeOK
<1>10. ASSUME NEW t \in Tenants, TenantsCreate(t) PROVE AInv'
  BY <1>9, <1>10, SwitchKeeps DEF TenantsCreate, Command, AccountsTypeOK, Access, Enabled
<1>11. ASSUME NEW t \in Tenants, NEW to \in {"on", "off"}, TenantsSwitch(t, to) PROVE AInv'
  BY <1>9, <1>11, SwitchKeeps DEF TenantsSwitch, Command, AccountsTypeOK, Access, Enabled
<1>12. ASSUME NEW t \in Tenants, NEW mail \in Mails, UsersCreate(t, mail) PROVE AInv'
  <2>1. terminal' \in Work
    BY <1>12 DEF UsersCreate, Work
  <2> QED BY <1>9, <1>12, <2>1, SwitchKeeps
          DEF UsersCreate, tables, Command, AccountsTypeOK, Access, Enabled
<1>13. ASSUME NEW t \in Tenants, NEW mail \in Mails, NEW to \in BOOLEAN, UsersSwitch(t, mail, to)
       PROVE  AInv'
  <2> DEFINE rows == {u \in Users : /\ user[u] # NoRow /\ user[u].tenant = t
                                    /\ user[u].mail = mail}
  <2>1. /\ Command
        /\ user' = [u \in Users |-> IF u \in rows THEN [user[u] EXCEPT !.ativo = to] ELSE user[u]]
        /\ seen' = [x \in Tenants \cup Users |->
                      IF x \in rows /\ (to \/ user[x].ativo) THEN clock ELSE seen[x]]
        /\ UNCHANGED <<tenant, terminal>>
    BY <1>13 DEF UsersSwitch
  <2>2. ASSUME NEW u \in rows
        PROVE  /\ user'[u] \in Rows
               /\ user'[u].tenant = user[u].tenant /\ user'[u].role = user[u].role
               /\ user'[u].ativo = to
    <3>1. user[u] \in Rows
      BY DEF AccountsTypeOK
    <3> QED BY <2>1, <3>1 DEF Rows
  <2>3. /\ user' \in [Users -> Rows \cup {NoRow}]
        /\ \A u \in Users : user[u] # NoRow => /\ user'[u] # NoRow
                                               /\ user'[u].tenant = user[u].tenant
                                               /\ user'[u].role = user[u].role
    BY <2>1, <2>2 DEF AccountsTypeOK
  <2>4. /\ seen' \in [Tenants \cup Users -> 0..MaxClock]
        /\ \A x \in Tenants \cup Users : seen'[x] \in {seen[x], clock}
    BY <2>1 DEF AccountsTypeOK
  <2>5. \A u \in Users : Enabled(u)' => seen'[u] = clock
    BY <2>1, <2>2 DEF Access, Enabled
  <2>6. \A v \in Tenants : tenant'[v] = "on" => seen'[v] = clock
    BY <2>1 DEF Access
  <2> QED BY <1>9, <2>1, <2>3, <2>4, <2>5, <2>6, SwitchKeeps DEF Command, AccountsTypeOK
<1> QED
  BY <1>1, <1>2, <1>3, <1>4, <1>5, <1>6, <1>7, <1>8, <1>10, <1>11, <1>12, <1>13, TickKeeps
     DEF AccountsNext

-------------------------------------------------------------------------------
(* A line that is removed leaves a shorter cart, as distinct as before.    *)
LEMMA RemoveAtKeepsDistinct ==
  ASSUME NEW S, NEW s \in Seq(S), IsInjective(s), NEW i \in DOMAIN s
  PROVE  /\ RemoveAt(s, i) \in Seq(S)
         /\ Len(RemoveAt(s, i)) = Len(s) - 1
         /\ IsInjective(RemoveAt(s, i))
<1> DEFINE r == RemoveAt(s, i)
<1>1. i \in 1..Len(s) /\ Len(s) \in Nat
  OBVIOUS
<1>2. r \in Seq(S) /\ Len(r) = Len(s) - 1
  BY <1>1, SMTT(30) DEF RemoveAt
<1>3. \A j \in 1..Len(r) : r[j] = s[IF j < i THEN j ELSE j + 1]
  BY <1>1, SMTT(30) DEF RemoveAt
<1> HIDE DEF r
<1>4. ASSUME NEW j \in 1..Len(r), NEW k \in 1..Len(r), r[j] = r[k] PROVE j = k
  <2>1. PICK j2 \in 1..Len(s) : j2 = IF j < i THEN j ELSE j + 1
    BY <1>1, <1>2
  <2>2. PICK k2 \in 1..Len(s) : k2 = IF k < i THEN k ELSE k + 1
    BY <1>1, <1>2
  <2>3. s[j2] = s[k2]
    BY <1>3, <1>4, <2>1, <2>2
  <2>4. j2 = k2
    BY <2>3 DEF IsInjective
  <2>5. i \in Nat /\ j \in Nat /\ k \in Nat
    BY <1>1, <1>2
  <2> QED BY <2>1, <2>2, <2>4, <2>5
<1>5. IsInjective(r)
  BY <1>2, <1>4 DEF IsInjective
<1> QED BY <1>2, <1>5 DEF r

(* A product that is not in the cart makes it longer and no less distinct. *)
LEMMA AppendKeepsDistinct ==
  ASSUME NEW S, NEW s \in Seq(S), IsInjective(s), NEW e \in S, ~ Contains(s, e)
  PROVE  Append(s, e) \in Seq(S) /\ Len(Append(s, e)) = Len(s) + 1 /\ IsInjective(Append(s, e))
<1>1. \A i \in 1..Len(s) : s[i] # e
  BY DEF Contains
<1> QED BY <1>1 DEF IsInjective

(* What an accepted cart has done is one more row of one service. *)
LEMMA CreationCounts ==
  ASSUME Records, NEW t, NEW cliente, NEW obra, NEW itens
  PROVE  /\ CriarCotacao(t, cliente, obra, itens) \in [Services -> Nat]
         /\ CriarPedido(t, cliente, obra, itens) \in [Services -> Nat]
         /\ CriarCotacao(t, cliente, obra, itens) # created =>
              CriarCotacao(t, cliente, obra, itens)["cotacao"] > created["cotacao"]
  BY DEF Records, CriarCotacao, CriarPedido, Services

(* The user of a valid token is a user. *)
LEMMA ClaimsFacts ==
  ASSUME AInv, NEW b \in Browsers, NEW me \in Claims(b)
  PROVE  /\ me = cookie[b] /\ Valid(cookie[b])
         /\ me.user \in Users /\ me.tenant \in Tenants
  BY TokenFacts DEF AInv, Claims, Valid

-------------------------------------------------------------------------------
(* The wizard. *)

(* What a step may do to the wizard of a user. *)
Kept(u) ==
  \/ restarts' # restarts
  \/ created'["cotacao"] > created["cotacao"]
  \/ /\ wizard[u].cliente # NoCliente => wizard'[u].cliente # NoCliente
     /\ Len(wizard'[u].itens) >= Len(wizard[u].itens) - 1

(* A step that leaves the wizards alone. *)
LEMMA SameWizards ==
  ASSUME Carts, UNCHANGED wizard
  PROVE  Carts' /\ \A u \in Users : Kept(u)
<1>1. \A u \in Users : Len(wizard[u].itens) \in Nat
  BY DEF Carts
<1> QED BY <1>1 DEF Carts, Kept

(* A step that gives one user a new wizard. *)
LEMMA OneWizard ==
  ASSUME Carts, NEW u \in Users, NEW w,
         wizard' = [wizard EXCEPT ![u] = w],
         w \in [cliente : Clientes \cup {NoCliente}, obra : Obras \cup {NoObra}, itens : Seq(Produtos)],
         IsInjective(w.itens),
         \/ created'["cotacao"] > created["cotacao"]
         \/ /\ wizard[u].cliente # NoCliente => w.cliente # NoCliente
            /\ Len(w.itens) >= Len(wizard[u].itens) - 1
  PROVE  Carts' /\ \A v \in Users : Kept(v)
<1>1. \A v \in Users : Len(wizard[v].itens) \in Nat
  BY DEF Carts
<1>2. wizard'[u] = w /\ \A v \in Users \ {u} : wizard'[v] = wizard[v]
  BY DEF Carts
<1>3. Carts'
  BY <1>2 DEF Carts
<1> QED BY <1>1, <1>2, <1>3 DEF Kept

(* What a user finds who has entered nothing is a wizard with an empty cart. *)
LEMMA FreshFacts ==
  /\ Fresh \in [cliente : Clientes \cup {NoCliente}, obra : Obras \cup {NoObra}, itens : Seq(Produtos)]
  /\ IsInjective(Fresh.itens)
  BY DEF Fresh, IsInjective

(* Carts stay distinct and wizards are kept, whatever the console does. *)
LEMMA WizardStep ==
  ASSUME AInv, Carts, Records, ConsoleNext
  PROVE  Carts' /\ \A u \in Users : Kept(u)
<1> USE WebConsoleAssumption
<1>1. ASSUME Restart PROVE Carts' /\ \A u \in Users : Kept(u)
  BY <1>1, FreshFacts DEF Restart, Carts, Kept, Records
<1>2. ASSUME NEW b \in Browsers, NEW cliente \in Clientes, NEW obra \in Obras \cup {NoObra},
             WizardStep1(b, cliente, obra)
      PROVE  Carts' /\ \A u \in Users : Kept(u)
  <2>1. PICK me \in Claims(b) :
          wizard' = [wizard EXCEPT ![me.user].cliente = cliente, ![me.user].obra = obra]
    BY <1>2 DEF WizardStep1
  <2> DEFINE old == wizard[me.user]
             w == [old EXCEPT !.cliente = cliente, !.obra = obra]
  <2>2. me.user \in Users
    BY ClaimsFacts
  <2>3. old \in [cliente : Clientes \cup {NoCliente}, obra : Obras \cup {NoObra}, itens : Seq(Produtos)]
    BY <2>2 DEF Carts
  <2>4. wizard' = [wizard EXCEPT ![me.user] = w]
    BY <2>1, <2>2, <2>3 DEF Carts
  <2>5. /\ w \in [cliente : Clientes \cup {NoCliente}, obra : Obras \cup {NoObra}, itens : Seq(Produtos)]
        /\ w.itens = old.itens /\ w.cliente = cliente
    BY <2>3
  <2>6. IsInjective(w.itens) /\ w.cliente # NoCliente /\ Len(w.itens) >= Len(old.itens) - 1
    BY <2>2, <2>3, <2>5 DEF Carts
  <2> HIDE DEF w
  <2> QED BY <2>2, <2>4, <2>5, <2>6, OneWizard
<1>3. ASSUME NEW b \in Browsers, NEW me \in Claims(b), NEW itens \in Seq(Produtos),
             IsInjective(itens), Len(itens) >= Len(wizard[me.user].itens) - 1,
             wizard' = [wizard EXCEPT ![me.user].itens = itens]
      PROVE  Carts' /\ \A u \in Users : Kept(u)
  <2> DEFINE old == wizard[me.user]
             w == [old EXCEPT !.itens = itens]
  <2>1. me.user \in Users
    BY ClaimsFacts
  <2>2. old \in [cliente : Clientes \cup {NoCliente}, obra : Obras \cup {NoObra}, itens : Seq(Produtos)]
    BY <2>1 DEF Carts
  <2>3. wizard' = [wizard EXCEPT ![me.user] = w]
    BY <1>3
  <2>4. /\ w \in [cliente : Clientes \cup {NoCliente}, obra : Obras \cup {NoObra}, itens : Seq(Produtos)]
        /\ w.itens = itens /\ w.cliente = old.cliente
    BY <2>2
  <2> HIDE DEF w
  <2> QED BY <1>3, <2>1, <2>3, <2>4, OneWizard
<1>4. ASSUME NEW b \in Browsers, NEW p \in Produtos, AddItem(b, p)
      PROVE  Carts' /\ \A u \in Users : Kept(u)
  <2>1. PICK me \in Claims(b) :
          wizard' = [wizard EXCEPT ![me.user].itens = IF Contains(@, p) THEN @ ELSE Append(@, p)]
    BY <1>4 DEF AddItem
  <2> DEFINE old == wizard[me.user].itens
             new == IF Contains(old, p) THEN old ELSE Append(old, p)
  <2>2. old \in Seq(Produtos) /\ IsInjective(old) /\ Len(old) \in Nat
    BY ClaimsFacts DEF Carts
  <2>3. new \in Seq(Produtos) /\ IsInjective(new) /\ Len(new) >= Len(old) - 1
    BY <2>2, AppendKeepsDistinct
  <2>4. wizard' = [wizard EXCEPT ![me.user].itens = new]
    BY <2>1
  <2> HIDE DEF new
  <2> QED BY <1>3, <2>3, <2>4
<1>5. ASSUME NEW b \in Browsers, NEW i \in 1..MaxCart, RemoveItem(b, i)
      PROVE  Carts' /\ \A u \in Users : Kept(u)
  <2>1. PICK me \in Claims(b) :
          /\ i \in DOMAIN wizard[me.user].itens
          /\ wizard' = [wizard EXCEPT ![me.user].itens = RemoveAt(@, i)]
    BY <1>5 DEF RemoveItem
  <2> DEFINE old == wizard[me.user].itens
             new == RemoveAt(old, i)
  <2>2. old \in Seq(Produtos) /\ IsInjective(old) /\ Len(old) \in Nat
    BY ClaimsFacts DEF Carts
  <2>3. new \in Seq(Produtos) /\ IsInjective(new) /\ Len(new) >= Len(old) - 1
    BY <2>1, <2>2, RemoveAtKeepsDistinct
  <2>4. wizard' = [wizard EXCEPT ![me.user].itens = new]
    BY <2>1
  <2> HIDE DEF new
  <2> QED BY <1>3, <2>3, <2>4
<1>6. ASSUME NEW b \in Browsers, Finalize(b) PROVE Carts' /\ \A u \in Users : Kept(u)
  <2>1. PICK me \in Claims(b) :
          LET w == wizard[me.user]
          IN /\ created' = CriarCotacao(me.tenant, w.cliente, w.obra, w.itens)
             /\ wizard' = [wizard EXCEPT ![me.user] = IF created' # created THEN Fresh ELSE @]
    BY <1>6 DEF Finalize
  <2>2. CASE created' = created
    <3>1. UNCHANGED wizard
      BY <2>1, <2>2 DEF Carts
    <3> QED BY <3>1, SameWizards
  <2>3. CASE created' # created
    <3>1. created'["cotacao"] > created["cotacao"]
      BY <2>1, <2>3, CreationCounts
    <3>2. wizard' = [wizard EXCEPT ![me.user] = Fresh]
      BY <2>1, <2>3
    <3>3. me.user \in Users
      BY ClaimsFacts
    <3> QED BY <3>1, <3>2, <3>3, FreshFacts, OneWizard
  <2> QED BY <2>2, <2>3
<1>7. ASSUME NEW b \in Browsers,
             \/ ListQuotes(b) \/ ListOrders(b)
             \/ \E cliente \in Clientes, obra \in Obras \cup {NoObra}, p \in Produtos :
                  ApiCreateCotacao(b, cliente, obra, p) \/ ApiCreatePedido(b, cliente, obra, p)
             \/ \E q \in Quotes :
                  \/ EnviarCotacao(b, q) \/ AprovarCotacao(b, q) \/ CancelarCotacao(b, q)
                  \/ FromCotacao(b, q) \/ UpdatePedidoStatus(b, q) \/ CancelarPedido(b, q)
      PROVE  UNCHANGED wizard
  BY <1>7 DEF ListQuotes, ListOrders, ApiCreateCotacao, ApiCreatePedido, EnviarCotacao,
     AprovarCotacao, CancelarCotacao, FromCotacao, UpdatePedidoStatus, CancelarPedido, OrderButton
<1> QED
  BY <1>1, <1>2, <1>4, <1>5, <1>6, <1>7, SameWizards DEF ConsoleNext

-------------------------------------------------------------------------------
(* Quotes and orders. *)

(* Every step of the console keeps quote and order in step, and buttons    *)
(* only for what there is.                                                 *)
LEMMA RecordsStep ==
  ASSUME AInv, Records, ConsoleNext
  PROVE  Records'
<1> USE WebConsoleAssumption DEF Records
<1>1. Request => /\ requests' \in 0..MaxRequests
                 /\ \A n \in 0..requests : n \in 0..requests' /\ n + 1 \in 0..requests'
  BY DEF Request
<1>2. ASSUME Restart PROVE Records'
  BY <1>1, <1>2 DEF Restart, records
<1>3. ASSUME NEW b \in Browsers,
             \/ Finalize(b)
             \/ \E i \in 1..MaxCart : RemoveItem(b, i)
             \/ \E p \in Produtos : AddItem(b, p)
             \/ \E cliente \in Clientes, obra \in Obras \cup {NoObra} :
                  \/ WizardStep1(b, cliente, obra)
                  \/ \E p \in Produtos :
                       ApiCreateCotacao(b, cliente, obra, p) \/ ApiCreatePedido(b, cliente, obra, p)
      PROVE  Records'
  <2>1. Request /\ UNCHANGED <<restarts, records, page>>
    BY <1>3 DEF Finalize, RemoveItem, AddItem, WizardStep1, ApiCreateCotacao, ApiCreatePedido
  <2>2. \/ UNCHANGED created
        \/ \E t, cliente, obra, itens : \/ created' = CriarCotacao(t, cliente, obra, itens)
                                       \/ created' = CriarPedido(t, cliente, obra, itens)
    BY <1>3 DEF Finalize, RemoveItem, AddItem, WizardStep1, ApiCreateCotacao, ApiCreatePedido
  <2>3. created' \in [Services -> Nat]
    BY <2>2, CreationCounts
  <2> QED BY <1>1, <2>1, <2>3 DEF records
<1>4. ASSUME NEW b \in Browsers, ListQuotes(b) \/ ListOrders(b) PROVE Records'
  BY <1>4 DEF ListQuotes, ListOrders, records, Services
<1>5. ASSUME NEW b \in Browsers, NEW q \in Quotes,
             EnviarCotacao(b, q) \/ AprovarCotacao(b, q) \/ CancelarCotacao(b, q)
      PROVE  Records'
  BY <1>1, <1>5 DEF EnviarCotacao, AprovarCotacao, CancelarCotacao, QuoteStatus, Services
<1>6. ASSUME NEW b \in Browsers, NEW q \in Quotes, FromCotacao(b, q) PROVE Records'
  BY <1>1, <1>6 DEF FromCotacao, QuoteStatus, OrderStatus
<1>7. ASSUME NEW b \in Browsers, NEW q \in Quotes,
             UpdatePedidoStatus(b, q) \/ CancelarPedido(b, q)
      PROVE  Records'
  <2>1. PICK novo \in OrderStatus : OrderButton(b, q, novo)
    BY <1>7 DEF UpdatePedidoStatus, CancelarPedido, OrderStatus
  <2>2. order[q] # "none"
    BY <2>1 DEF OrderButton, Mine
  <2> QED BY <1>1, <2>1, <2>2 DEF OrderButton, OrderStatus, Services
<1> QED
  BY <1>2, <1>3, <1>4, <1>5, <1>6, <1>7 DEF ConsoleNext

(* A quote or an order changes through a button that found its row. *)
LEMMA ChangedByOwner ==
  ASSUME AInv, Records, ConsoleNext, NEW q \in Quotes,
         quote'[q] # quote[q] \/ order'[q] # order[q]
  PROVE  \E b \in Browsers : \E row \in {<<q, "cotacao">>, <<q, "pedido">>} : Mine(b, row)
<1>1. ASSUME UNCHANGED records PROVE FALSE
  BY <1>1 DEF records
<1>2. PICK b \in Browsers, r \in Quotes :
        \/ EnviarCotacao(b, r) \/ AprovarCotacao(b, r) \/ CancelarCotacao(b, r)
        \/ FromCotacao(b, r) \/ UpdatePedidoStatus(b, r) \/ CancelarPedido(b, r)
  BY <1>1 DEF ConsoleNext, Restart, Finalize, ListQuotes, ListOrders, RemoveItem, AddItem,
     WizardStep1, ApiCreateCotacao, ApiCreatePedido
<1>3. r = q
  BY <1>2 DEF EnviarCotacao, AprovarCotacao, CancelarCotacao, FromCotacao, UpdatePedidoStatus,
     CancelarPedido, OrderButton, Records
<1> QED
  BY <1>2, <1>3 DEF EnviarCotacao, AprovarCotacao, CancelarCotacao, FromCotacao,
     UpdatePedidoStatus, CancelarPedido, OrderButton

-------------------------------------------------------------------------------
(* At the start nobody has a cart, and no quote has an order. *)
LEMMA InitInv == Init => Inv
<1> SUFFICES ASSUME Init PROVE Inv
  OBVIOUS
<1>1. AInv
  BY AccountsInitInv DEF Init
<1>2. Carts
  BY FreshFacts DEF Init, Carts
<1>3. Records
  BY WebConsoleAssumption DEF Init, Records, QuoteStatus, Services
<1> QED BY <1>1, <1>2, <1>3 DEF Inv

(* A step of the console leaves the accounts alone, and one of the         *)
(* accounts the console.                                                   *)
LEMMA StepInv ==
  ASSUME Inv, [Next]_vars
  PROVE  Inv' /\ (ConsoleNext \/ UNCHANGED console)
<1> USE DEF Inv
<1>1. CASE ConsoleNext
  <2>1. UNCHANGED accounts
    BY <1>1, ZenonT(60) DEF ConsoleNext, Restart, Finalize, ListQuotes, ListOrders, RemoveItem,
       AddItem, WizardStep1, ApiCreateCotacao, ApiCreatePedido, EnviarCotacao, AprovarCotacao,
       CancelarCotacao, FromCotacao, UpdatePedidoStatus, CancelarPedido, OrderButton, Request
  <2>2. AInv'
    BY <2>1 DEF accounts, AInv, AccountsTypeOK, Access, Enabled
  <2> QED BY <1>1, <2>2, WizardStep, RecordsStep
<1>2. CASE AccountsNext /\ UNCHANGED console
  BY <1>2, AccountsKeeps DEF console, Carts, Records
<1>3. CASE UNCHANGED vars
  BY <1>3 DEF vars, accounts, console, AInv, AccountsTypeOK, Access, Enabled, Carts, Records
<1> QED BY <1>1, <1>2, <1>3 DEF Next

(* The invariants of the accounts and of the console hold together. *)
THEOREM Inductive == Spec => []Inv
<1>1. Init => Inv
  BY InitInv
<1>2. Inv /\ [Next]_vars => Inv'
  BY StepInv
<1> QED BY <1>1, <1>2, PTL DEF Spec

(* Every variable has its type; a token says what its user's row says, and *)
(* a quote is convertida exactly when it has an order.                     *)
THEOREM TypeCorrect == Spec => []TypeOK
<1>1. Inv => TypeOK
  BY WebConsoleAssumption DEF Inv, AInv, Carts, Records, TypeOK
<1> QED BY <1>1, Inductive, PTL

(* A token that is valid has not outlived its user or tenant by its life. *)
LEMMA AccessFollows == AInv => AccessEnds
<1> SUFFICES ASSUME AInv, NEW b \in Browsers, Valid(cookie[b])
             PROVE  /\ clock <= seen[cookie[b].user] + TokenLife
                    /\ clock <= seen[cookie[b].tenant] + TokenLife
  BY DEF AccessEnds
<1> QED BY TokenFacts, AccountsAssumption DEF AInv, Access, AccountsTypeOK, Valid

(* Who is disabled, or whose tenant is, keeps at most one token's life of  *)
(* access, however login and the operator's statements fall together.      *)
THEOREM AccessIsBounded == Spec => []AccessEnds
  BY AccessFollows, Inductive, PTL DEF Inv

(* A product has one line in a cart, whichever tab added or removed one.   *)
THEOREM CartsAreDistinct == Spec => []OneLinePerProduct
<1>1. Inv => OneLinePerProduct
  BY DEF Inv, Carts, OneLinePerProduct
<1> QED BY <1>1, Inductive, PTL

(* Quotes and orders change under a token of their tenant, whose user was  *)
(* enabled less than a token's life ago, old pages notwithstanding.        *)
THEOREM OnlyOwnTenant == Spec => OwnTenantOnly
<1>1. ASSUME Inv, [Next]_vars, NEW q \in Quotes,
             quote'[q] # quote[q] \/ order'[q] # order[q]
      PROVE  \E b \in Browsers : /\ Valid(cookie[b])
                                 /\ cookie[b].tenant = QuoteTenant[q]
                                 /\ clock <= seen[cookie[b].user] + TokenLife
  <2>1. ConsoleNext
    BY <1>1, StepInv DEF console
  <2>2. PICK b \in Browsers : \E row \in {<<q, "cotacao">>, <<q, "pedido">>} : Mine(b, row)
    BY <1>1, <2>1, ChangedByOwner DEF Inv
  <2>3. PICK me \in Claims(b) : QuoteTenant[q] = me.tenant
    BY <2>2 DEF Mine
  <2>4. Valid(cookie[b]) /\ cookie[b].tenant = QuoteTenant[q]
    BY <1>1, <2>3, ClaimsFacts DEF Inv
  <2> QED BY <1>1, <2>4, AccessFollows DEF Inv, AccessEnds
<1>2. Inv /\ [Next]_vars =>
        [\A q \in Quotes : (quote'[q] # quote[q] \/ order'[q] # order[q]) =>
           \E b \in Browsers : /\ Valid(cookie[b])
                               /\ cookie[b].tenant = QuoteTenant[q]
                               /\ clock <= seen[cookie[b].user] + TokenLife]_vars
  BY <1>1
<1> QED BY <1>2, Inductive, PTL DEF Spec, OwnTenantOnly

(* What a user has put into the wizard goes line by line, with the         *)
(* process, or into a quote.                                               *)
THEOREM WizardKept == Spec => WizardIsKept
<1>1. ASSUME Inv, [Next]_vars PROVE \A u \in Users : Kept(u)
  <2>1. CASE UNCHANGED console
    BY <1>1, <2>1, SameWizards DEF Inv, console
  <2>2. CASE ConsoleNext
    BY <1>1, <2>2, WizardStep DEF Inv
  <2> QED BY <1>1, <2>1, <2>2, StepInv
<1>2. Inv /\ [Next]_vars =>
        [\A u \in Users :
           \/ restarts' # restarts
           \/ created'["cotacao"] > created["cotacao"]
           \/ /\ wizard[u].cliente # NoCliente => wizard'[u].cliente # NoCliente
              /\ Len(wizard'[u].itens) >= Len(wizard[u].itens) - 1]_vars
  BY <1>1 DEF Kept
<1> QED BY <1>2, Inductive, PTL DEF Spec, WizardIsKept
===============================================================================
