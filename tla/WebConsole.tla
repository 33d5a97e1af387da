------------------------------ MODULE WebConsole ------------------------------
(***************************************************************************)
(* The pages of the construction vertical that write: the wizard that      *)
(* builds a quote, the lists of quotes and orders with their buttons, and  *)
(* the two endpoints of the API that create.                               *)
(*                                                                         *)
(* A handler knows its user by the claims of the token alone.  Handlers    *)
(* are async and never wait inside, and one process serves them, so each   *)
(* is one step.  (QuotesOrders models what several processes would do.)    *)
(* The wizard is a dictionary of that process, one entry a user, shared by *)
(* the user's tabs and lost with the process.  A page is shown until it is *)
(* replaced: its buttons may be old, and the browser may have logged in as *)
(* somebody else since.                                                    *)
(*                                                                         *)
(* Left out of the wizard: its step number, discount and remarks, which    *)
(* only the page and the quote's columns show, and step 3, which stores    *)
(* two of them; prices and quantities; the two steps that end in a         *)
(* NameError for lack of db, which change nothing.  Left out of the lists: *)
(* filters and pages of them.  Left out of an order: the two statuses on   *)
(* its way.                                                                *)
(***************************************************************************)
EXTENDS Accounts, Sequences, SequencesExt

CONSTANTS Quotes,       \* quotes that exist at the start
          QuoteTenant,  \* QuoteTenant[q]: the tenant of q
          Clientes, ClienteTenant, NoCliente,
          Obras, ObraCliente, NoObra,  \* building sites, each of a customer
          Produtos, ProdutoTenant,
          Ativos,       \* products whose row says ativo
          MaxCart,      \* bound: lines of a cart
          MaxRequests,  \* bound: writing requests to the vertical, and restarts of it
          MaxWork       \* bound: those and the operator's commands together

ASSUME WebConsoleAssumption ==
  /\ QuoteTenant \in [Quotes -> Tenants]
  /\ ClienteTenant \in [Clientes -> Tenants]
  /\ NoCliente \notin Clientes
  /\ ObraCliente \in [Obras -> Clientes]
  /\ ProdutoTenant \in [Produtos -> Tenants]
  /\ Ativos \subseteq Produtos
  /\ MaxCart \in Nat
  /\ MaxRequests \in Nat
  /\ MaxWork \in Nat

VARIABLES
  wizard,    \* wizard[u]: _wizard_states of user u
  restarts,  \* restarts of the vertical
  quote,     \* quote[q]: status of quote q
  order,     \* order[q]: status of the order made of q, or "none"
  created,   \* created[s]: how many rows service s has created
  page,      \* page[b]: rows the page that browser b shows has buttons for
  requests   \* writing requests so far

console == <<wizard, restarts, quote, order, created, page, requests>>
records == <<quote, order>>
vars == <<accounts, console>>

QuoteStatus == {"rascunho", "enviada", "aprovada", "convertida", "cancelada"}
OrderStatus == {"pendente", "entregue", "cancelado"}
Services == {"cotacao", "pedido"}

(* _get_wizard_state: what a user finds who has entered nothing. *)
Fresh == [cliente |-> NoCliente, obra |-> NoObra, itens |-> <<>>]

TypeOK ==
  /\ AccountsTypeOK
  /\ DOMAIN wizard = Users
  /\ \A u \in Users : /\ wizard[u].cliente \in Clientes \cup {NoCliente}
                      /\ wizard[u].obra \in Obras \cup {NoObra}
                      /\ wizard[u].itens \in Seq(Produtos)
  /\ restarts \in 0..MaxRequests
  /\ quote \in [Quotes -> QuoteStatus]
  /\ order \in [Quotes -> OrderStatus \cup {"none"}]
  /\ created \in [Services -> Nat]
  /\ page \in [Browsers -> SUBSET (Quotes \X Services)]
  /\ requests \in 0..MaxRequests
  /\ \A q \in Quotes : quote[q] = "convertida" <=> order[q] # "none"

Init ==
  /\ AccountsInit
  /\ wizard = [u \in Users |-> Fresh]
  /\ restarts = 0
  /\ quote \in [Quotes -> {"rascunho", "aprovada"}]
  /\ order = [q \in Quotes |-> "none"]
  /\ created = [s \in Services |-> 0]
  /\ page = [b \in Browsers |-> {}]
  /\ requests = 0

-------------------------------------------------------------------------------
(* The middleware puts tenant_slug into the request's state and no         *)
(* tenant_id, so require_web_user compares the token with nothing.         *)
RequestTenant == Idle

(* require_web_user, and get_current_user of the API: the token's claims. *)
Claims(b) ==
  {token \in {cookie[b]} : /\ Valid(token)
                           /\ RequestTenant \in {Idle, token.tenant}}

Request ==
  /\ requests < MaxRequests /\ requests + commands < MaxWork
  /\ requests' = requests + 1
  /\ UNCHANGED accounts

-------------------------------------------------------------------------------
(* The wizard. *)

(* The form's values are stored as they are; nothing is looked up. *)
WizardStep1(b, cliente, obra) ==
  /\ Request
  /\ \E me \in Claims(b) :
       wizard' = [wizard EXCEPT ![me.user].cliente = cliente, ![me.user].obra = obra]
  /\ UNCHANGED <<restarts, records, created, page>>

(* Mutant of AddItem: a product that is in the cart gets a second line. *)
AddItemAgain(b, p) ==
  /\ Request
  /\ p \in Ativos
  /\ \E me \in Claims(b) :
       /\ ProdutoTenant[p] = me.tenant
       /\ Len(wizard[me.user].itens) < MaxCart
       /\ wizard' = [wizard EXCEPT ![me.user].itens = Append(@, p)]
  /\ UNCHANGED <<restarts, records, created, page>>

(* A product that is in the cart has its quantity raised where it stands.  *)
(* The row is looked up by UUID(produto_id) and the line by the string of  *)
(* the form, so another spelling of an id would be another line; the pages *)
(* post the one spelling that the database gives them, which p is.         *)
AddItem(b, p) ==
  /\ Request
  /\ p \in Ativos
  /\ \E me \in Claims(b) :
       /\ ProdutoTenant[p] = me.tenant
       /\ Len(wizard[me.user].itens) < MaxCart
       /\ wizard' = [wizard EXCEPT ![me.user].itens = IF Contains(@, p) THEN @ ELSE Append(@, p)]
  /\ UNCHANGED <<restarts, records, created, page>>

(* By the line's number, as the page that asks has it. *)
RemoveItem(b, i) ==
  /\ Request
  /\ \E me \in Claims(b) :
       /\ i \in DOMAIN wizard[me.user].itens
       /\ wizard' = [wizard EXCEPT ![me.user].itens = RemoveAt(@, i)]
  /\ UNCHANGED <<restarts, records, created, page>>

(* The process ends and another takes its place; it counts as a request. *)
Restart ==
  /\ Request
  /\ restarts' = restarts + 1
  /\ wizard' = [u \in Users |-> Fresh]
  /\ UNCHANGED <<records, created, page>>

-------------------------------------------------------------------------------
(* Creation. *)

(* A customer of the tenant, and a building site of that customer. *)
Customer(t, cliente, obra) ==
  /\ cliente # NoCliente /\ ClienteTenant[cliente] = t
  /\ obra # NoObra => ObraCliente[obra] = cliente

(* What criar_cotacao and criar_pedido document: the customer and the site *)
(* exist, one item at least, products that exist and are active.           *)
Complete(t, cliente, obra, itens) ==
  /\ Customer(t, cliente, obra)
  /\ itens # <<>>
  /\ \A i \in DOMAIN itens : itens[i] \in Ativos /\ ProdutoTenant[itens[i]] = t

(* Their product query has Produto.ativo is True among its conditions:     *)
(* Python's identity of a column and True, no question about a row.        *)
AtivoIsTrue == FALSE

Found(t) == {p \in Produtos : ProdutoTenant[p] = t /\ AtivoIsTrue}

Accepted(t, cliente, obra, itens) ==
  /\ Customer(t, cliente, obra)
  /\ \A i \in DOMAIN itens : itens[i] \in Found(t)
  /\ itens # <<>>

CriarCotacao(t, cliente, obra, itens) ==
  IF Accepted(t, cliente, obra, itens) THEN [created EXCEPT !["cotacao"] = @ + 1] ELSE created

CriarPedido(t, cliente, obra, itens) ==
  IF Accepted(t, cliente, obra, itens) THEN [created EXCEPT !["pedido"] = @ + 1] ELSE created

(* Mutant of Finalize: the wizard is cleared before the quote is created. *)
FinalizeClearing(b) ==
  /\ Request
  /\ \E me \in Claims(b) :
       LET w == wizard[me.user]
       IN /\ created' = CriarCotacao(me.tenant, w.cliente, w.obra, w.itens)
          /\ wizard' = [wizard EXCEPT ![me.user] = Fresh]
  /\ UNCHANGED <<restarts, records, page>>

(* The wizard is cleared when the quote is created, and kept when the      *)
(* service refuses.                                                        *)
Finalize(b) ==
  /\ Request
  /\ \E me \in Claims(b) :
       LET w == wizard[me.user]
       IN /\ created' = CriarCotacao(me.tenant, w.cliente, w.obra, w.itens)
          /\ wizard' = [wizard EXCEPT ![me.user] = IF created' # created THEN Fresh ELSE @]
  /\ UNCHANGED <<restarts, records, page>>

ApiCreateCotacao(b, cliente, obra, p) ==
  /\ Request
  /\ \E me \in Claims(b) : created' = CriarCotacao(me.tenant, cliente, obra, <<p>>)
  /\ UNCHANGED <<wizard, restarts, records, page>>

ApiCreatePedido(b, cliente, obra, p) ==
  /\ Request
  /\ \E me \in Claims(b) : created' = CriarPedido(me.tenant, cliente, obra, <<p>>)
  /\ UNCHANGED <<wizard, restarts, records, page>>

-------------------------------------------------------------------------------
(* Quotes and orders. *)

ListQuotes(b) ==
  /\ \E me \in Claims(b) :
       page' = [page EXCEPT ![b] = {<<q, "cotacao">> : q \in {r \in Quotes : QuoteTenant[r] = me.tenant}}]
  /\ UNCHANGED <<accounts, wizard, restarts, records, created, requests>>

ListOrders(b) ==
  /\ \E me \in Claims(b) :
       page' = [page EXCEPT ![b] = {<<q, "pedido">> :
                  q \in {r \in Quotes : QuoteTenant[r] = me.tenant /\ order[r] # "none"}}]
  /\ UNCHANGED <<accounts, wizard, restarts, records, created, requests>>

(* Mutant of Mine: the services look rows up by their id alone. *)
Anybodys(b, row) == row \in page[b] /\ Claims(b) # {}

(* A button of the page is pressed, and the service finds the row among    *)
(* those of the tenant the token names.                                    *)
Mine(b, row) == row \in page[b] /\ \E me \in Claims(b) : QuoteTenant[row[1]] = me.tenant

(* The answer to a button of the list of quotes is that one quote. *)
EnviarCotacao(b, q) ==
  /\ Request
  /\ Mine(b, <<q, "cotacao">>)
  /\ quote[q] = "rascunho"
  /\ quote' = [quote EXCEPT ![q] = "enviada"]
  /\ page' = [page EXCEPT ![b] = {<<q, "cotacao">>}]
  /\ UNCHANGED <<wizard, restarts, order, created>>

AprovarCotacao(b, q) ==
  /\ Request
  /\ Mine(b, <<q, "cotacao">>)
  /\ quote[q] = "enviada"
  /\ quote' = [quote EXCEPT ![q] = "aprovada"]
  /\ page' = [page EXCEPT ![b] = {<<q, "cotacao">>}]
  /\ UNCHANGED <<wizard, restarts, order, created>>

CancelarCotacao(b, q) ==
  /\ Request
  /\ Mine(b, <<q, "cotacao">>)
  /\ quote[q] # "convertida"
  /\ quote' = [quote EXCEPT ![q] = "cancelada"]
  /\ page' = [page EXCEPT ![b] = {<<q, "cotacao">>}]
  /\ UNCHANGED <<wizard, restarts, order, created>>

(* A quote that has its order is answered with it; the browser goes to the *)
(* page of orders, whose table it has yet to load.                         *)
FromCotacao(b, q) ==
  /\ Request
  /\ Mine(b, <<q, "cotacao">>)
  /\ quote[q] \in {"aprovada", "convertida"}
  /\ quote' = [quote EXCEPT ![q] = "convertida"]
  /\ order' = [order EXCEPT ![q] = IF @ = "none" THEN "pendente" ELSE @]
  /\ page' = [page EXCEPT ![b] = {}]
  /\ UNCHANGED <<wizard, restarts, created>>

OrderButton(b, q, novo) ==
  /\ Request
  /\ Mine(b, <<q, "pedido">>)
  /\ order' = [order EXCEPT ![q] = novo]
  /\ page' = [page EXCEPT ![b] = {<<r, "pedido">> :
                r \in {s \in Quotes : QuoteTenant[s] = QuoteTenant[q] /\ order[s] # "none"}}]
  /\ UNCHANGED <<wizard, restarts, quote, created>>

UpdatePedidoStatus(b, q) == \E novo \in OrderStatus : OrderButton(b, q, novo)

CancelarPedido(b, q) == order[q] # "entregue" /\ OrderButton(b, q, "cancelado")

-------------------------------------------------------------------------------
ConsoleNext ==
  \/ Restart
  \/ \E b \in Browsers :
       \/ Finalize(b)
       \/ ListQuotes(b)
       \/ ListOrders(b)
       \/ \E i \in 1..MaxCart : RemoveItem(b, i)
       \/ \E p \in Produtos : AddItem(b, p)
       \/ \E cliente \in Clientes, obra \in Obras \cup {NoObra} :
            \/ WizardStep1(b, cliente, obra)
            \/ \E p \in Produtos :
                 ApiCreateCotacao(b, cliente, obra, p) \/ ApiCreatePedido(b, cliente, obra, p)
       \/ \E q \in Quotes :
            \/ EnviarCotacao(b, q)
            \/ AprovarCotacao(b, q)
            \/ CancelarCotacao(b, q)
            \/ FromCotacao(b, q)
            \/ UpdatePedidoStatus(b, q)
            \/ CancelarPedido(b, q)

Next ==
  \/ ConsoleNext
  \/ AccountsNext /\ commands' + requests <= MaxWork /\ UNCHANGED console

Spec == Init /\ [][Next]_vars

-------------------------------------------------------------------------------
(* Whatever happens to a quote or an order of a tenant is done under a     *)
(* token of that tenant, by a user who was enabled less than a token's     *)
(* life ago.  The page may have been loaded by another user: it is the     *)
(* tenant filter of the services that keeps an old button from working.    *)
OwnTenantOnly ==
  [][\A q \in Quotes : (quote'[q] # quote[q] \/ order'[q] # order[q]) =>
       \E b \in Browsers : /\ Valid(cookie[b])
                           /\ cookie[b].tenant = QuoteTenant[q]
                           /\ clock <= seen[cookie[b].user] + TokenLife]_vars

(* What a user has put into the wizard goes line by line, with the         *)
(* process, or into a quote: a finalization that is refused keeps it.      *)
WizardIsKept ==
  [][\A u \in Users :
       \/ restarts' # restarts
       \/ created'["cotacao"] > created["cotacao"]
       \/ /\ wizard[u].cliente # NoCliente => wizard'[u].cliente # NoCliente
          /\ Len(wizard'[u].itens) >= Len(wizard[u].itens) - 1]_vars

(* A product has one line in a cart, whichever tab added it: the page and  *)
(* the quote show one quantity of it.  This is about ids as the pages post *)
(* them; the cart compares strings (router.py:1601).                       *)
OneLinePerProduct == \A u \in Users : IsInjective(wizard[u].itens)

(* criar_cotacao and criar_pedido (cotacao_service.py, pedido_service.py)  *)
(* document what they refuse; tests/test_cotacao_flow.py creates a quote   *)
(* of a customer and an active product and expects 201 and one item.       *)
CompleteRequestsCreate ==
  [][\A b \in Browsers, cliente \in Clientes, obra \in Obras \cup {NoObra}, p \in Produtos :
       /\ ApiCreateCotacao(b, cliente, obra, p)
       /\ Complete(cookie[b].tenant, cliente, obra, <<p>>)
       => created'["cotacao"] = created["cotacao"] + 1]_vars
===============================================================================
