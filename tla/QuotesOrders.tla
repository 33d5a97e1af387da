------------------------------ MODULE QuotesOrders ------------------------------
(***************************************************************************)
(* Quotes (cotacoes) and orders (pedidos) of one tenant: the services      *)
(* CotacaoService and PedidoService behind the API and the web pages.      *)
(*                                                                         *)
(* A request runs in a database session of its own.  Every handler but the *)
(* conversion reads a row without locking it, decides, and then updates by *)
(* primary key and commits; several instances of the application may run,  *)
(* so other requests commit between the two.  The conversion locks the row *)
(* of the quote (SELECT .. FOR UPDATE): an UPDATE of it waits until the    *)
(* session ends.  SQLAlchemy updates only the columns whose value differs  *)
(* from the one it loaded.                                                 *)
(*                                                                         *)
(* created_at is now(), the time the transaction began: transactions are   *)
(* numbered by it, and an order is known by the transaction that made it.  *)
(* Quotes are there from the start: CotacaoService creates none, because   *)
(* its product query never returns a row.  For the same reason PedidoService *)
(* creates orders from quotes only.                                        *)
(***************************************************************************)
EXTENDS Naturals

CONSTANTS Sessions,        \* requests that may be in progress together
          Quotes,
          Underway,        \* statuses of an order on its way, all handled alike
          MaxConversions,  \* bound: conversion requests
          MaxSales         \* bound: no delivery is requested of an order sold so often

ASSUME QuotesAssumption ==
  /\ Underway \subseteq {"em_preparacao", "saiu_entrega"}
  /\ MaxConversions \in Nat
  /\ MaxSales \in Nat

OrderStatus == {"pendente", "entregue", "cancelado"} \cup Underway
QuoteStatus == {"rascunho", "enviada", "aprovada", "convertida", "cancelada"}

Nothing == [table |-> "none"]

(* An update a request has decided on: the column's value it read and the *)
(* value it will write.                                                    *)
Update(table, key, column, old, new) ==
  [table |-> table, key |-> key, column |-> column, old |-> old, new |-> new]

VARIABLES
  status,     \* status[q]: committed status of quote q
  filled,     \* filled[q]: the quote has items
  orders,     \* committed orders, by the transaction that created them
  sales,      \* sales[o]: committed sale_recorded events of order o
  announced,  \* announced[q]: committed quote_converted events of quote q
  logged,     \* the rows written without their event, "Falha ao publicar evento" logged
  clock,      \* conversions begun
  pc,         \* pc[s]: "idle", "write", "lock", "number" or "insert"
  todo,       \* todo[s]: the update the request will write
  conv        \* conv[s]: the conversion's quote, begin time and number

db == <<status, filled, orders, sales, announced, logged>>
vars == <<status, filled, orders, sales, announced, logged, clock, pc, todo, conv>>

Tx == 1..MaxConversions

Conversion == [quote : Quotes, at : Tx, numero : Nat]

Order == [quote : Quotes, numero : Nat, status : OrderStatus]

ItemUpdates == {Update("quote", q, "items", TRUE, FALSE) : q \in Quotes}

Updates ==
  ItemUpdates
    \cup {Update("quote", q, "status", old, new) : q \in Quotes, old, new \in QuoteStatus}
    \cup {Update("order", o, "status", old, new) : o \in Tx, old, new \in OrderStatus}

(* Beyond the types: a request writes what it has decided, and an order is *)
(* inserted with a number.                                                 *)
TypeOK ==
  /\ status \in [Quotes -> QuoteStatus]
  /\ filled \in [Quotes -> BOOLEAN]
  /\ DOMAIN orders \subseteq 1..clock
  /\ \A o \in DOMAIN orders : orders[o] \in Order
  /\ sales \in [Tx -> Nat]
  /\ announced \in [Quotes -> Nat]
  /\ logged \subseteq ({"quote"} \X Quotes) \cup ({"order"} \X Tx)
  /\ clock \in 0..MaxConversions
  /\ pc \in [Sessions -> {"idle", "write", "lock", "number", "insert"}]
  /\ todo \in [Sessions -> Updates \cup {Nothing}]
  /\ conv \in [Sessions -> Conversion \cup {Nothing}]
  /\ \A s \in Sessions : /\ (pc[s] = "write") <=> (todo[s] # Nothing)
                         /\ pc[s] \in {"lock", "number", "insert"} <=> conv[s] # Nothing
                         /\ pc[s] = "insert" => conv[s].numero > 0

Init ==
  /\ status \in [Quotes -> {"rascunho", "aprovada"}]
  /\ filled = [q \in Quotes |-> TRUE]
  /\ orders = [o \in {} |-> 0]
  /\ sales = [o \in Tx |-> 0]
  /\ announced = [q \in Quotes |-> 0]
  /\ logged = {}
  /\ clock = 0
  /\ pc = [s \in Sessions |-> "idle"]
  /\ todo = [s \in Sessions |-> Nothing]
  /\ conv = [s \in Sessions |-> Nothing]

-------------------------------------------------------------------------------
(* The session of s ends, its locks with it. *)
End(s) ==
  /\ pc' = [pc EXCEPT ![s] = "idle"]
  /\ todo' = [todo EXCEPT ![s] = Nothing]
  /\ conv' = [conv EXCEPT ![s] = Nothing]

(* s has read its row, found nothing to refuse, and will write u. *)
Decide(s, u) ==
  /\ pc[s] = "idle"
  /\ pc' = [pc EXCEPT ![s] = "write"]
  /\ todo' = [todo EXCEPT ![s] = u]
  /\ UNCHANGED <<db, clock, conv>>

EnviarCotacao(s, q) ==
  /\ status[q] = "rascunho"
  /\ filled[q]
  /\ Decide(s, Update("quote", q, "status", "rascunho", "enviada"))

AprovarCotacao(s, q) ==
  /\ status[q] = "enviada"
  /\ Decide(s, Update("quote", q, "status", "enviada", "aprovada"))

CancelarCotacao(s, q) ==
  /\ status[q] # "convertida"
  /\ Decide(s, Update("quote", q, "status", status[q], "cancelada"))

(* An edit with an empty list of items deletes the items; with other items *)
(* it is refused, the product query being empty.  Discount and remarks are *)
(* left out.                                                               *)
AtualizarCotacao(s, q) ==
  /\ status[q] = "rascunho"
  /\ filled[q]
  /\ Decide(s, Update("quote", q, "items", TRUE, FALSE))

CancelarPedido(s, o) ==
  /\ orders[o].status # "entregue"
  /\ Decide(s, Update("order", o, "status", orders[o].status, "cancelado"))

AtualizarStatusPedido(s, o, novo) ==
  /\ novo = "entregue" => sales[o] < MaxSales
  /\ Decide(s, Update("order", o, "status", orders[o].status, novo))

-------------------------------------------------------------------------------
(* Mutant of Locked: a conversion locks when it begins, in a session other *)
(* than the one that then reads the quote.                                 *)
LockedTwice(q) ==
  \E s \in Sessions : pc[s] \in {"lock", "number", "insert"} /\ conv[s].quote = q

(* A conversion holds the lock of its quote from its first row on. *)
Locked(q) == \E s \in Sessions : pc[s] \in {"number", "insert"} /\ conv[s].quote = q

OrderOf(q) == {o \in DOMAIN orders : orders[o].quote = q}

(* Mutant of WriteQuote: the UPDATE does not wait for the conversion. *)
WriteThroughLock(s) ==
  LET u == todo[s] IN
  /\ pc[s] = "write" /\ u.table = "quote" /\ u.column = "status"
  /\ status' = [status EXCEPT ![u.key] = u.new]
  /\ End(s)
  /\ UNCHANGED <<filled, orders, sales, announced, logged, clock>>

(* UPDATE by primary key and commit; the column is written only if the     *)
(* value changes from what the request had loaded.                         *)
WriteQuote(s) ==
  LET u == todo[s] IN
  /\ pc[s] = "write" /\ u.table = "quote"
  /\ u.column = "items" \/ u.new = u.old \/ ~Locked(u.key)
  /\ IF u.column = "items"
       THEN filled' = [filled EXCEPT ![u.key] = FALSE] /\ UNCHANGED status
       ELSE /\ status' = IF u.new = u.old THEN status ELSE [status EXCEPT ![u.key] = u.new]
            /\ UNCHANGED filled
  /\ End(s)
  /\ UNCHANGED <<orders, sales, announced, logged, clock>>

(* publish_event raised before it sent a statement (building the payload): *)
(* the handler logs a warning and commits without the event.  When it      *)
(* raises in the flush of the outbox row the session is of no more use and *)
(* the commit that follows raises too: that is Abort.                      *)
GoOnWithout(row) == logged' = logged \cup {row}

(* The same for an order; a delivery commits its sale_recorded event in    *)
(* the same transaction.                                                   *)
WriteOrder(s) ==
  LET u == todo[s] IN
  /\ pc[s] = "write" /\ u.table = "order"
  /\ orders' = IF u.new = u.old THEN orders ELSE [orders EXCEPT ![u.key].status = u.new]
  /\ \/ u.new # "entregue" /\ UNCHANGED <<sales, logged>>
     \/ /\ u.new = "entregue"
        /\ \/ sales' = [sales EXCEPT ![u.key] = @ + 1] /\ UNCHANGED logged
           \/ GoOnWithout(<<"order", u.key>>) /\ UNCHANGED sales
  /\ End(s)
  /\ UNCHANGED <<status, filled, announced, clock>>

(* converter_cotacao_em_pedido: the transaction begins... *)
BeginConversion(s, q) ==
  /\ pc[s] = "idle"
  /\ clock < MaxConversions
  /\ clock' = clock + 1
  /\ conv' = [conv EXCEPT ![s] = [quote |-> q, at |-> clock + 1, numero |-> 0]]
  /\ pc' = [pc EXCEPT ![s] = "lock"]
  /\ UNCHANGED <<db, todo>>

Convertible(q) == OrderOf(q) = {} /\ status[q] = "aprovada"

(* Mutant of LockQuote: the quote is read without FOR UPDATE. *)
ReadQuote(s) ==
  LET q == conv[s].quote IN
  /\ pc[s] = "lock"
  /\ IF Convertible(q) THEN pc' = [pc EXCEPT ![s] = "number"] /\ UNCHANGED <<todo, conv>>
                       ELSE End(s)
  /\ UNCHANGED <<db, clock>>

(* ... waits for the lock of the quote, and ends there if the quote has an *)
(* order (which it returns) or is not approved (which it refuses).         *)
LockQuote(s) ==
  LET q == conv[s].quote IN
  /\ pc[s] = "lock"
  /\ ~Locked(q)
  /\ IF Convertible(q) THEN pc' = [pc EXCEPT ![s] = "number"] /\ UNCHANGED <<todo, conv>>
                       ELSE End(s)
  /\ UNCHANGED <<db, clock>>

(* gerar_numero_pedido: one more than the number of the last order by      *)
(* created_at.                                                             *)
NextNumber ==
  IF DOMAIN orders = {} THEN 1
  ELSE orders[CHOOSE o \in DOMAIN orders : \A p \in DOMAIN orders : p <= o].numero + 1

(* Mutant of NumberOrder: the event is committed by a session of its own as *)
(* soon as the number is known.                                            *)
NumberAndAnnounce(s) ==
  LET q == conv[s].quote IN
  /\ pc[s] = "number"
  /\ IF filled[q]
       THEN /\ conv' = [conv EXCEPT ![s].numero = NextNumber]
            /\ pc' = [pc EXCEPT ![s] = "insert"]
            /\ announced' = [announced EXCEPT ![q] = @ + 1]
            /\ UNCHANGED todo
       ELSE End(s) /\ UNCHANGED announced
  /\ UNCHANGED <<status, filled, orders, sales, logged, clock>>

NumberOrder(s) ==
  /\ pc[s] = "number"
  /\ IF filled[conv[s].quote]
       THEN /\ conv' = [conv EXCEPT ![s].numero = NextNumber]
            /\ pc' = [pc EXCEPT ![s] = "insert"]
            /\ UNCHANGED todo
       ELSE End(s)
  /\ UNCHANGED <<db, clock>>

Used(n) == \E o \in DOMAIN orders : orders[o].numero = n

(* The order, its items, the quote's status and the event commit together, *)
(* or all but the event, with a warning.                                   *)
InsertOrder(s) ==
  LET c == conv[s] IN
  /\ pc[s] = "insert"
  /\ ~Used(c.numero)
  /\ orders' = [o \in DOMAIN orders \cup {c.at} |->
                  IF o = c.at THEN [quote |-> c.quote, numero |-> c.numero, status |-> "pendente"]
                              ELSE orders[o]]
  /\ status' = [status EXCEPT ![c.quote] = "convertida"]
  /\ \/ announced' = [announced EXCEPT ![c.quote] = @ + 1] /\ UNCHANGED logged
     \/ GoOnWithout(<<"quote", c.quote>>) /\ UNCHANGED announced
  /\ End(s)
  /\ UNCHANGED <<filled, sales, clock>>

(* Mutant of DuplicateNumber: the conversion forgets its number and goes on. *)
DuplicateNumberForgets(s) ==
  /\ pc[s] = "insert"
  /\ Used(conv[s].numero)
  /\ conv' = [conv EXCEPT ![s].numero = 0]
  /\ UNCHANGED <<db, clock, pc, todo>>

(* The unique index on the number refuses the order: rollback. *)
DuplicateNumber(s) ==
  /\ pc[s] = "insert"
  /\ Used(conv[s].numero)
  /\ End(s)
  /\ UNCHANGED <<db, clock>>

(* A statement or the commit fails, or the instance dies: rollback. *)
Abort(s) ==
  /\ pc[s] # "idle"
  /\ End(s)
  /\ UNCHANGED <<db, clock>>

-------------------------------------------------------------------------------
Request(s) ==
  \/ \E q \in Quotes : \/ EnviarCotacao(s, q) \/ AprovarCotacao(s, q)
                       \/ CancelarCotacao(s, q) \/ AtualizarCotacao(s, q)
                       \/ BeginConversion(s, q)
  \/ \E o \in DOMAIN orders : \/ CancelarPedido(s, o)
                              \/ \E novo \in OrderStatus : AtualizarStatusPedido(s, o, novo)

Proceed(s) ==
  \/ WriteQuote(s) \/ WriteOrder(s)
  \/ LockQuote(s) \/ NumberOrder(s) \/ InsertOrder(s) \/ DuplicateNumber(s)

Next == \E s \in Sessions : Request(s) \/ Proceed(s) \/ Abort(s)

Spec == Init /\ [][Next]_vars

(* A handler runs to its end; a new request is never forced. *)
LiveSpec == Spec /\ \A s \in Sessions : WF_vars(Proceed(s))
-------------------------------------------------------------------------------
(* CHANGELOG.md: the lock "avoids race conditions when several requests    *)
(* try to convert the same quote", and the endpoint "can be called several *)
(* times without side effects".                                            *)
AtMostOneOrder == \A q \in Quotes : \A o, p \in OrderOf(q) : o = p

(* An order appears only while its quote is approved: no request that read *)
(* the quote before it can withdraw the approval under the conversion.     *)
ConvertsOnlyApproved ==
  [][\A o \in DOMAIN orders' \ DOMAIN orders : status[orders'[o].quote] = "aprovada"]_vars

(* The outbox pattern: an order and its quote_converted event, a delivery  *)
(* and its sale_recorded event commit together, whatever other requests    *)
(* write to the same rows and wherever a request fails.  No event is of an *)
(* order that is not there, and an order is without its event only if a    *)
(* warning said so.                                                        *)
EventsMatchOrders ==
  /\ \A q \in Quotes :
       /\ announced[q] = IF OrderOf(q) = {} \/ <<"quote", q>> \in logged THEN 0 ELSE 1
       /\ <<"quote", q>> \in logged => OrderOf(q) # {}
  /\ \A o \in DOMAIN orders :
       orders[o].status = "entregue" => sales[o] > 0 \/ <<"order", o>> \in logged
  /\ \A o \in Tx : sales[o] > 0 \/ <<"order", o>> \in logged => o \in DOMAIN orders

(* No request waits forever for a lock, whoever loses the race for a quote *)
(* or for a number.                                                        *)
EveryRequestEnds == \A s \in Sessions : pc[s] # "idle" ~> pc[s] = "idle"

(* CotacaoService.cancelar_cotacao: "Cotação não pode estar convertida".   *)
(* A converted quote would then never become a cancelled one.              *)
ConvertedStays ==
  [][\A q \in Quotes : status[q] = "convertida" => status'[q] # "cancelada"]_vars

================================================================================
