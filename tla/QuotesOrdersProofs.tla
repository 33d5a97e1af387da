--------------------------- MODULE QuotesOrdersProofs ---------------------------
(***************************************************************************)
(* Proofs about quotes and orders, for any sessions, quotes and bounds.    *)
(***************************************************************************)
EXTENDS QuotesOrders, WellFoundedInduction, TLAPS

Holds(s) == pc[s] \in {"number", "insert"}
Converting(s) == pc[s] \in {"lock", "number", "insert"}

(* A session that holds a quote is alone with it, and what LockQuote found *)
(* is still so.                                                            *)
LockInv ==
  \A s \in Sessions : Holds(s) =>
    /\ Convertible(conv[s].quote)
    /\ \A t \in Sessions \ {s} : Holds(t) => conv[t].quote # conv[s].quote

(* A conversion has begun at a time of its own, at which no order was made. *)
TimeInv ==
  \A s \in Sessions : Converting(s) =>
    /\ conv[s].at <= clock
    /\ conv[s].at \notin DOMAIN orders
    /\ \A t \in Sessions \ {s} : Converting(t) => conv[t].at # conv[s].at

(* Updates of orders are of orders that exist. *)
TodoInv ==
  \A s \in Sessions :
    /\ pc[s] = "write" => todo[s] \in Updates
    /\ pc[s] = "write" /\ todo[s].table = "order" => todo[s].key \in DOMAIN orders

Inv == /\ TypeOK /\ LockInv /\ TimeInv /\ TodoInv
       /\ AtMostOneOrder /\ EventsMatchOrders

LEMMA ClockBound == ASSUME TypeOK PROVE clock \in Nat /\ 1..clock \subseteq Tx
BY QuotesAssumption DEF TypeOK, Tx

LEMMA UpdateShape ==
  ASSUME NEW u \in Updates
  PROVE  /\ u.table = "quote" => u.key \in Quotes
         /\ u.table = "quote" /\ u.column # "items" => u.new \in QuoteStatus
         /\ u.table = "order" => u.key \in Tx /\ u.new \in OrderStatus
BY DEF Updates, ItemUpdates, Update

LEMMA InitInv == Init => Inv
<1> SUFFICES ASSUME Init PROVE Inv
  OBVIOUS
<1>1. TypeOK
  BY QuotesAssumption DEF Init, TypeOK, QuoteStatus
<1>2. LockInv /\ TimeInv /\ TodoInv
  BY DEF Init, LockInv, TimeInv, TodoInv, Holds, Converting
<1>3. AtMostOneOrder /\ EventsMatchOrders
  BY DEF Init, AtMostOneOrder, EventsMatchOrders, OrderOf
<1> QED BY <1>1, <1>2, <1>3 DEF Inv

(* What ends a session without a write to the database. *)
LEMMA EndStep ==
  ASSUME Inv, NEW s \in Sessions, End(s), UNCHANGED <<db, clock>>
  PROVE  Inv'
<1> USE DEF Inv, db
<1>1. TypeOK'
  BY DEF End, TypeOK
<1>2. LockInv'
  BY DEF End, TypeOK, LockInv, Holds, Convertible, OrderOf
<1>3. TimeInv'
  BY DEF End, TypeOK, TimeInv, Converting
<1>4. TodoInv'
  BY DEF End, TypeOK, TodoInv
<1>5. AtMostOneOrder' /\ EventsMatchOrders'
  BY DEF AtMostOneOrder, EventsMatchOrders, OrderOf
<1> QED BY <1>1, <1>2, <1>3, <1>4, <1>5

LEMMA DecideStep ==
  ASSUME Inv, NEW s \in Sessions, NEW u \in Updates, Decide(s, u),
         u.table = "order" => u.key \in DOMAIN orders
  PROVE  Inv'
<1> USE DEF Inv, db
<1>0. u # Nothing
  BY DEF Updates, ItemUpdates, Update, Nothing
<1>1. TypeOK'
  BY <1>0 DEF Decide, TypeOK
<1>2. LockInv'
  BY DEF Decide, TypeOK, LockInv, Holds, Convertible, OrderOf
<1>3. TimeInv'
  BY DEF Decide, TypeOK, TimeInv, Converting
<1>4. TodoInv'
  BY DEF Decide, TypeOK, TodoInv
<1>5. AtMostOneOrder' /\ EventsMatchOrders'
  BY DEF Decide, AtMostOneOrder, EventsMatchOrders, OrderOf
<1> QED BY <1>1, <1>2, <1>3, <1>4, <1>5

LEMMA RequestStep ==
  ASSUME Inv, NEW s \in Sessions, Request(s)
  PROVE  Inv'
<1> USE DEF Inv
<1>1. ASSUME NEW q \in Quotes,
             EnviarCotacao(s, q) \/ AprovarCotacao(s, q) \/ CancelarCotacao(s, q)
               \/ AtualizarCotacao(s, q)
      PROVE  Inv'
  <2>1. PICK u : /\ Decide(s, u)
                 /\ \/ u = Update("quote", q, "status", "rascunho", "enviada")
                    \/ u = Update("quote", q, "status", "enviada", "aprovada")
                    \/ u = Update("quote", q, "status", status[q], "cancelada")
                    \/ u = Update("quote", q, "items", TRUE, FALSE)
    BY <1>1 DEF EnviarCotacao, AprovarCotacao, CancelarCotacao, AtualizarCotacao
  <2>2. u \in Updates
    <3>1. status[q] \in QuoteStatus /\ {"rascunho", "enviada", "aprovada", "cancelada"} \subseteq QuoteStatus
      BY DEF TypeOK, QuoteStatus
    <3>2. \A old, new \in QuoteStatus : Update("quote", q, "status", old, new) \in Updates
      BY DEF Updates, Update
    <3>3. Update("quote", q, "items", TRUE, FALSE) \in ItemUpdates
      BY DEF ItemUpdates
    <3>4. ItemUpdates \subseteq Updates
      BY DEF Updates
    <3> QED BY <2>1, <3>1, <3>2, <3>3, <3>4
  <2>3. u.table = "quote"
    BY <2>1 DEF Update
  <2> QED BY <2>1, <2>2, <2>3, DecideStep
<1>2. ASSUME NEW o \in DOMAIN orders,
             CancelarPedido(s, o) \/ \E novo \in OrderStatus : AtualizarStatusPedido(s, o, novo)
      PROVE  Inv'
  <2>1. PICK novo \in OrderStatus : Decide(s, Update("order", o, "status", orders[o].status, novo))
    BY <1>2 DEF CancelarPedido, AtualizarStatusPedido, OrderStatus
  <2>2. PICK u : u = Update("order", o, "status", orders[o].status, novo)
    OBVIOUS
  <2>3. o \in Tx /\ orders[o].status \in OrderStatus
    BY ClockBound DEF TypeOK, Order
  <2>4. u \in Updates /\ u.key = o
    BY <2>2, <2>3 DEF Updates, Update
  <2> QED BY <2>1, <2>2, <2>4, DecideStep
<1>3. ASSUME NEW q \in Quotes, BeginConversion(s, q)
      PROVE  Inv'
  <2>0. /\ pc[s] = "idle" /\ clock' = clock + 1 /\ clock' \in Tx /\ clock \in Nat
        /\ conv' = [conv EXCEPT ![s] = [quote |-> q, at |-> clock + 1, numero |-> 0]]
        /\ pc' = [pc EXCEPT ![s] = "lock"]
        /\ UNCHANGED <<db, todo>>
    BY <1>3, QuotesAssumption DEF BeginConversion, TypeOK, Tx
  <2>1. TypeOK'
    <3>1. conv'[s] \in Conversion
      BY <2>0 DEF Conversion, TypeOK
    <3>2. conv'[s] # Nothing
      BY <2>0 DEF Nothing, TypeOK
    <3>3. conv' \in [Sessions -> Conversion \cup {Nothing}]
      BY <2>0, <3>1 DEF TypeOK
    <3>4. clock' \in 0..MaxConversions /\ 1..clock \subseteq 1..clock'
      BY <2>0, QuotesAssumption DEF Tx, TypeOK
    <3>5. /\ status \in [Quotes -> QuoteStatus] /\ filled \in [Quotes -> BOOLEAN]
          /\ DOMAIN orders \subseteq 1..clock'
          /\ pc' \in [Sessions -> {"idle", "write", "lock", "number", "insert"}]
      BY <2>0, <3>4 DEF TypeOK
    <3>6. \A t \in Sessions :
            /\ (pc'[t] = "write") <=> (todo'[t] # Nothing)
            /\ pc'[t] \in {"lock", "number", "insert"} <=> conv'[t] # Nothing
            /\ pc'[t] = "insert" => conv'[t].numero > 0
      BY <2>0, <3>2 DEF TypeOK
    <3> QED BY <2>0, <3>3, <3>4, <3>5, <3>6 DEF TypeOK, db
  <2>2. LockInv'
    BY <2>0 DEF TypeOK, LockInv, Holds, Convertible, OrderOf, db
  <2>3. TimeInv'
    <3>1. clock + 1 \notin DOMAIN orders
      BY <2>0 DEF TypeOK
    <3>2. \A t \in Sessions : Converting(t) => conv[t].at \in Nat /\ conv[t].at <= clock
      BY DEF TimeInv, TypeOK, Conversion, Tx, Converting, Nothing
    <3>3. \A t \in Sessions \ {s} : conv'[t] = conv[t] /\ (Converting(t)' <=> Converting(t))
      BY <2>0 DEF TypeOK, Converting
    <3>4. conv'[s].at = clock + 1
      BY <2>0 DEF TypeOK
    <3> QED BY <2>0, <3>1, <3>2, <3>3, <3>4 DEF TimeInv, db
  <2>4. TodoInv'
    BY <2>0 DEF TypeOK, TodoInv, db
  <2>5. AtMostOneOrder' /\ EventsMatchOrders'
    BY <2>0 DEF AtMostOneOrder, EventsMatchOrders, OrderOf, db
  <2> QED BY <2>1, <2>2, <2>3, <2>4, <2>5
<1> QED BY <1>1, <1>2, <1>3 DEF Request

LEMMA WriteQuoteStep ==
  ASSUME Inv, NEW s \in Sessions, WriteQuote(s)
  PROVE  Inv'
<1> USE DEF Inv
<1> DEFINE u == todo[s]
<1>0. /\ pc[s] = "write" /\ u.table = "quote" /\ End(s)
      /\ UNCHANGED <<orders, sales, announced, logged, clock>>
      /\ u \in Updates
  BY DEF WriteQuote, TodoInv
<1>1. u.key \in Quotes
  BY <1>0, UpdateShape
<1>2. /\ status' \in [Quotes -> QuoteStatus]
      /\ filled' \in [Quotes -> BOOLEAN]
  <2>1. CASE u.column = "items"
    BY <1>1, <2>1 DEF WriteQuote, TypeOK
  <2>2. CASE u.column # "items"
    <3>1. u.new \in QuoteStatus
      BY <1>0, <2>2, UpdateShape
    <3> QED BY <1>1, <2>2, <3>1 DEF WriteQuote, TypeOK
  <2> QED BY <2>1, <2>2
<1>3. \A t \in Sessions : Holds(t) => status'[conv[t].quote] = status[conv[t].quote]
  <2>1. CASE status' = status
    BY <2>1
  <2>2. CASE status' # status
    <3>1. \A t \in Sessions : Holds(t) => conv[t].quote # u.key
      BY <2>2 DEF WriteQuote, Locked, Holds
    <3>2. \A q \in Quotes \ {u.key} : status'[q] = status[q]
      BY <2>2 DEF WriteQuote, TypeOK
    <3>3. \A t \in Sessions : Holds(t) => conv[t].quote \in Quotes
      BY DEF Holds, TypeOK, Conversion
    <3> QED BY <3>1, <3>2, <3>3
  <2> QED BY <2>1, <2>2
<1>4. TypeOK'
  BY <1>0, <1>2 DEF End, TypeOK
<1>5. LockInv'
  BY <1>0, <1>3 DEF End, TypeOK, LockInv, Holds, Convertible, OrderOf
<1>6. TimeInv'
  BY <1>0 DEF End, TypeOK, TimeInv, Converting
<1>7. TodoInv'
  BY <1>0 DEF End, TypeOK, TodoInv
<1>8. AtMostOneOrder' /\ EventsMatchOrders'
  BY <1>0 DEF AtMostOneOrder, EventsMatchOrders, OrderOf
<1> QED BY <1>4, <1>5, <1>6, <1>7, <1>8

LEMMA WriteOrderStep ==
  ASSUME Inv, NEW s \in Sessions, WriteOrder(s)
  PROVE  Inv'
<1> USE DEF Inv
<1> DEFINE u == todo[s]
<1>0. /\ pc[s] = "write" /\ u.table = "order" /\ End(s)
      /\ UNCHANGED <<status, filled, announced, clock>>
      /\ u \in Updates /\ u.key \in DOMAIN orders
  BY DEF WriteOrder, TodoInv
<1>1. u.key \in Tx /\ u.new \in OrderStatus
  BY <1>0, UpdateShape
<1>2. /\ DOMAIN orders' = DOMAIN orders
      /\ \A o \in DOMAIN orders : orders'[o] \in Order /\ orders'[o].quote = orders[o].quote
      /\ \A o \in DOMAIN orders : orders'[o].status = orders[o].status \/ (o = u.key /\ orders'[o].status = u.new)
  BY <1>0, <1>1 DEF WriteOrder, TypeOK, Order
<1>3. \A q \in Quotes : OrderOf(q)' = OrderOf(q)
  BY <1>2 DEF OrderOf
<1>4. /\ sales' \in [Tx -> Nat]
      /\ logged' = logged \/ logged' = logged \cup {<<"order", u.key>>}
      /\ \A o \in Tx : sales[o] > 0 => sales'[o] > 0
      /\ u.new = "entregue" => sales'[u.key] > 0 \/ <<"order", u.key>> \in logged'
      /\ \A o \in Tx : sales'[o] > 0 => sales[o] > 0 \/ o = u.key
      /\ \A q \in Quotes : <<"quote", q>> \in logged' <=> <<"quote", q>> \in logged
      /\ \A o \in Tx : <<"order", o>> \in logged' => <<"order", o>> \in logged \/ o = u.key
  <2>1. CASE u.new # "entregue"
    BY <1>0, <1>1, <2>1 DEF WriteOrder, TypeOK
  <2>2. CASE u.new = "entregue" /\ sales' = [sales EXCEPT ![u.key] = @ + 1] /\ logged' = logged
    BY <1>0, <1>1, <2>2 DEF TypeOK
  <2>3. CASE u.new = "entregue" /\ GoOnWithout(<<"order", u.key>>) /\ sales' = sales
    BY <1>0, <1>1, <2>3 DEF GoOnWithout, TypeOK
  <2> QED BY <2>1, <2>2, <2>3 DEF WriteOrder
<1>5. TypeOK'
  <2>1. logged' \subseteq ({"quote"} \X Quotes) \cup ({"order"} \X Tx)
    BY <1>1, <1>4 DEF TypeOK
  <2> QED BY <1>0, <1>2, <1>4, <2>1 DEF End, TypeOK
<1>6. LockInv'
  <2>1. \A t \in Sessions : Holds(t)' => Holds(t) /\ conv'[t] = conv[t] /\ conv[t].quote \in Quotes
    BY <1>0 DEF End, TypeOK, Holds, Conversion, Nothing
  <2> QED BY <1>0, <1>3, <2>1 DEF LockInv, Convertible
<1>7. TimeInv'
  BY <1>0, <1>2 DEF End, TypeOK, TimeInv, Converting
<1>8. TodoInv'
  BY <1>0, <1>2 DEF End, TypeOK, TodoInv
<1>9. AtMostOneOrder'
  BY <1>3 DEF AtMostOneOrder
<1>10. EventsMatchOrders'
  <2>1. \A q \in Quotes :
          /\ announced'[q] = IF OrderOf(q)' = {} \/ <<"quote", q>> \in logged' THEN 0 ELSE 1
          /\ <<"quote", q>> \in logged' => OrderOf(q)' # {}
    BY <1>0, <1>3, <1>4 DEF EventsMatchOrders
  <2>2. \A o \in DOMAIN orders' :
          orders'[o].status = "entregue" => sales'[o] > 0 \/ <<"order", o>> \in logged'
    <3>1. DOMAIN orders \subseteq Tx
      BY ClockBound DEF TypeOK
    <3> QED BY <1>2, <1>4, <3>1 DEF EventsMatchOrders
  <2>3. \A o \in Tx : sales'[o] > 0 \/ <<"order", o>> \in logged' => o \in DOMAIN orders'
    BY <1>0, <1>2, <1>4 DEF EventsMatchOrders
  <2> QED BY <2>1, <2>2, <2>3 DEF EventsMatchOrders
<1> QED BY <1>5, <1>6, <1>7, <1>8, <1>9, <1>10

LEMMA LockQuoteStep ==
  ASSUME Inv, NEW s \in Sessions, LockQuote(s)
  PROVE  Inv'
<1> USE DEF Inv
<1>1. CASE Convertible(conv[s].quote)
  <2>0. /\ pc[s] = "lock" /\ ~Locked(conv[s].quote)
        /\ pc' = [pc EXCEPT ![s] = "number"]
        /\ UNCHANGED <<db, clock, todo, conv>>
    BY <1>1 DEF LockQuote
  <2>1. TypeOK'
    BY <2>0 DEF TypeOK, db
  <2>2. LockInv'
    <3>1. \A t \in Sessions : Holds(t)' <=> Holds(t) \/ t = s
      BY <2>0 DEF Holds, TypeOK
    <3>2. \A t \in Sessions : Convertible(conv[t].quote)' <=> Convertible(conv[t].quote)
      BY <2>0 DEF Convertible, OrderOf, db
    <3>3. \A t \in Sessions : Holds(t) => conv[t].quote # conv[s].quote
      BY <2>0 DEF Locked, Holds
    <3> QED BY <1>1, <2>0, <3>1, <3>2, <3>3 DEF LockInv
  <2>3. TimeInv'
    BY <2>0 DEF TypeOK, TimeInv, Converting, db
  <2>4. TodoInv'
    BY <2>0 DEF TypeOK, TodoInv, db
  <2>5. AtMostOneOrder' /\ EventsMatchOrders'
    BY <2>0 DEF AtMostOneOrder, EventsMatchOrders, OrderOf, db
  <2> QED BY <2>1, <2>2, <2>3, <2>4, <2>5
<1>2. CASE ~Convertible(conv[s].quote)
  BY <1>2, EndStep DEF LockQuote
<1> QED BY <1>1, <1>2

(* There is a last order: the distance from now takes its least value. *)
LEMMA LastOrder ==
  ASSUME TypeOK, DOMAIN orders # {}
  PROVE  \E o \in DOMAIN orders : \A p \in DOMAIN orders : p <= o
<1> DEFINE R == OpToRel(<, Nat)
           T == {n \in Nat : clock - n \in DOMAIN orders}
<1>1. clock \in Nat /\ DOMAIN orders \subseteq 1..clock
  BY ClockBound DEF TypeOK
<1>2. \A p \in DOMAIN orders : clock - p \in T
  BY <1>1
<1>3. T \subseteq Nat /\ T # {}
  BY <1>2
<1>4. IsWellFoundedOn(R, Nat)
  BY NatLessThanWellFounded
<1> HIDE DEF T
<1>5. PICK n \in T : \A m \in T : <<m, n>> \notin R
  <2> HIDE DEF R
  <2> QED BY <1>3, <1>4, WFMin
<1>6. \A m \in T : ~(m < n)
  BY <1>3, <1>5 DEF OpToRel
<1>7. clock - n \in DOMAIN orders /\ n \in Nat
  BY DEF T
<1>8. \A p \in DOMAIN orders : p <= clock - n
  BY <1>1, <1>2, <1>6, <1>7
<1> QED BY <1>7, <1>8

(* The next number is a positive one. *)
LEMMA NextNumberPositive ==
  ASSUME TypeOK
  PROVE  NextNumber \in Nat /\ NextNumber > 0
<1>1. CASE DOMAIN orders = {}
  BY <1>1 DEF NextNumber
<1>2. CASE DOMAIN orders # {}
  <2> DEFINE last == CHOOSE o \in DOMAIN orders : \A p \in DOMAIN orders : p <= o
  <2>1. last \in DOMAIN orders
    BY <1>2, LastOrder
  <2>2. orders[last].numero \in Nat
    BY <2>1 DEF TypeOK, Order
  <2> QED BY <1>2, <2>2 DEF NextNumber
<1> QED BY <1>1, <1>2

LEMMA NumberOrderStep ==
  ASSUME Inv, NEW s \in Sessions, NumberOrder(s)
  PROVE  Inv'
<1> USE DEF Inv
<1>1. CASE filled[conv[s].quote]
  <2>0. /\ pc[s] = "number"
        /\ conv' = [conv EXCEPT ![s].numero = NextNumber]
        /\ pc' = [pc EXCEPT ![s] = "insert"]
        /\ UNCHANGED <<db, clock, todo>>
    BY <1>1 DEF NumberOrder
  <2>1. conv[s] \in Conversion
    BY <2>0 DEF TypeOK
  <2>2. /\ conv'[s] \in Conversion /\ conv'[s].numero > 0 /\ conv'[s] # Nothing
        /\ conv'[s].quote = conv[s].quote /\ conv'[s].at = conv[s].at
    BY <2>0, <2>1, NextNumberPositive DEF Conversion, TypeOK, Nothing
  <2>3. \A t \in Sessions \ {s} : conv'[t] = conv[t] /\ pc'[t] = pc[t]
    BY <2>0 DEF TypeOK
  <2>4. pc'[s] = "insert"
    BY <2>0 DEF TypeOK
  <2>5. TypeOK'
    <3>1. /\ conv' \in [Sessions -> Conversion \cup {Nothing}]
          /\ pc' \in [Sessions -> {"idle", "write", "lock", "number", "insert"}]
      BY <2>0, <2>2 DEF TypeOK
    <3>2. \A t \in Sessions :
            /\ (pc'[t] = "write") <=> (todo'[t] # Nothing)
            /\ pc'[t] \in {"lock", "number", "insert"} <=> conv'[t] # Nothing
            /\ pc'[t] = "insert" => conv'[t].numero > 0
      BY <2>0, <2>2, <2>3, <2>4 DEF TypeOK
    <3> QED BY <2>0, <3>1, <3>2 DEF TypeOK, db
  <2>6. LockInv'
    <3>1. \A t \in Sessions : (Holds(t)' <=> Holds(t)) /\ conv'[t].quote = conv[t].quote
      BY <2>0, <2>2, <2>3, <2>4 DEF Holds
    <3>2. \A q \in Quotes : Convertible(q)' <=> Convertible(q)
      BY <2>0 DEF Convertible, OrderOf, db
    <3>3. \A t \in Sessions : Holds(t) => conv[t].quote \in Quotes
      BY DEF Holds, TypeOK, Conversion
    <3> QED BY <3>1, <3>2, <3>3 DEF LockInv
  <2>7. TimeInv'
    <3>1. \A t \in Sessions : (Converting(t)' <=> Converting(t)) /\ conv'[t].at = conv[t].at
      BY <2>0, <2>2, <2>3, <2>4 DEF Converting
    <3> QED BY <2>0, <3>1 DEF TimeInv, db
  <2>8. TodoInv'
    BY <2>0 DEF TypeOK, TodoInv, db
  <2>9. AtMostOneOrder' /\ EventsMatchOrders'
    BY <2>0 DEF AtMostOneOrder, EventsMatchOrders, OrderOf, db
  <2> QED BY <2>5, <2>6, <2>7, <2>8, <2>9
<1>2. CASE ~filled[conv[s].quote]
  BY <1>2, EndStep DEF NumberOrder
<1> QED BY <1>1, <1>2

LEMMA InsertOrderStep ==
  ASSUME Inv, NEW s \in Sessions, InsertOrder(s)
  PROVE  Inv'
<1> USE DEF Inv
<1> DEFINE c == conv[s]
           new == [quote |-> c.quote, numero |-> c.numero, status |-> "pendente"]
<1>0. /\ pc[s] = "insert"
      /\ orders' = [o \in DOMAIN orders \cup {c.at} |-> IF o = c.at THEN new ELSE orders[o]]
      /\ status' = [status EXCEPT ![c.quote] = "convertida"]
      /\ \/ announced' = [announced EXCEPT ![c.quote] = @ + 1] /\ UNCHANGED logged
         \/ logged' = logged \cup {<<"quote", c.quote>>} /\ UNCHANGED announced
      /\ End(s) /\ UNCHANGED <<filled, sales, clock>>
  BY DEF InsertOrder, GoOnWithout
<1>1. /\ c \in Conversion /\ c.quote \in Quotes /\ c.numero \in Nat
      /\ c.at \in Tx /\ c.at \in 1..clock /\ c.at \notin DOMAIN orders
      /\ Convertible(c.quote)
  <2>1. c \in Conversion
    BY <1>0 DEF TypeOK
  <2>2. c.at <= clock /\ c.at \notin DOMAIN orders /\ Convertible(c.quote)
    BY <1>0 DEF TimeInv, LockInv, Holds, Converting
  <2> QED BY <2>1, <2>2, ClockBound DEF Conversion, Tx
<1>2. /\ DOMAIN orders' = DOMAIN orders \cup {c.at}
      /\ orders'[c.at] = new
      /\ \A o \in DOMAIN orders : orders'[o] = orders[o]
  BY <1>0, <1>1
<1> HIDE DEF new, c
<1>3. new \in Order /\ new.quote = c.quote /\ new.status = "pendente"
  BY <1>1 DEF new, Order, OrderStatus
<1>4. \A q \in Quotes : OrderOf(q)' = IF q = c.quote THEN {c.at} ELSE OrderOf(q)
  BY <1>1, <1>2, <1>3 DEF OrderOf, Convertible
<1>5. TypeOK'
  <2>1. /\ status' \in [Quotes -> QuoteStatus] /\ announced' \in [Quotes -> Nat]
        /\ logged' \subseteq ({"quote"} \X Quotes) \cup ({"order"} \X Tx)
    BY <1>0, <1>1 DEF TypeOK, QuoteStatus
  <2>2. DOMAIN orders' \subseteq 1..clock' /\ \A o \in DOMAIN orders' : orders'[o] \in Order
    BY <1>0, <1>1, <1>2, <1>3 DEF TypeOK
  <2> QED BY <1>0, <2>1, <2>2 DEF End, TypeOK
<1>6. \A t \in Sessions : Holds(t)' =>
        /\ Holds(t) /\ t # s /\ conv'[t] = conv[t]
        /\ conv[t].quote \in Quotes /\ conv[t].quote # c.quote
  <2>1. \A t \in Sessions : Holds(t)' => Holds(t) /\ t # s /\ conv'[t] = conv[t]
    BY <1>0 DEF End, TypeOK, Holds
  <2>2. \A t \in Sessions : Holds(t) => conv[t] \in Conversion
    BY DEF Holds, TypeOK
  <2>3. Holds(s)
    BY <1>0 DEF Holds
  <2> QED BY <2>1, <2>2, <2>3 DEF LockInv, Conversion, c
<1>7. LockInv'
  <2>1. \A q \in Quotes \ {c.quote} : Convertible(q)' <=> Convertible(q)
    BY <1>0, <1>1, <1>4 DEF Convertible, TypeOK
  <2> QED BY <1>6, <2>1 DEF LockInv
<1>8. TimeInv'
  <2>1. \A t \in Sessions : Converting(t)' => Converting(t) /\ t # s /\ conv'[t] = conv[t]
    BY <1>0 DEF End, TypeOK, Converting
  <2>2. Converting(s)
    BY <1>0 DEF Converting
  <2>3. \A t \in Sessions : Converting(t)' => conv'[t].at # c.at
    BY <2>1, <2>2 DEF TimeInv, c
  <2> QED BY <1>0, <1>2, <2>1, <2>3 DEF TimeInv
<1>9. TodoInv'
  BY <1>0, <1>2 DEF End, TypeOK, TodoInv
<1>10. AtMostOneOrder'
  BY <1>4 DEF AtMostOneOrder
<1>11. EventsMatchOrders'
  <2>1. \A q \in Quotes :
          /\ announced'[q] = IF OrderOf(q)' = {} \/ <<"quote", q>> \in logged' THEN 0 ELSE 1
          /\ <<"quote", q>> \in logged' => OrderOf(q)' # {}
    <3>1. /\ announced[c.quote] = 0 /\ <<"quote", c.quote>> \notin logged
          /\ {c.at} # {}
      BY <1>1 DEF EventsMatchOrders, Convertible
    <3>2. \A q \in Quotes \ {c.quote} :
            /\ announced'[q] = announced[q]
            /\ <<"quote", q>> \in logged' <=> <<"quote", q>> \in logged
      BY <1>0, <1>1 DEF TypeOK
    <3>3. announced'[c.quote] = IF <<"quote", c.quote>> \in logged' THEN 0 ELSE 1
      BY <1>0, <1>1, <3>1 DEF TypeOK
    <3> QED BY <1>4, <3>1, <3>2, <3>3 DEF EventsMatchOrders
  <2>2. \A o \in Tx : <<"order", o>> \in logged' <=> <<"order", o>> \in logged
    BY <1>0
  <2>3. \A o \in DOMAIN orders' :
          orders'[o].status = "entregue" => sales'[o] > 0 \/ <<"order", o>> \in logged'
    <3>1. DOMAIN orders \subseteq Tx
      BY ClockBound DEF TypeOK
    <3> QED BY <1>0, <1>2, <1>3, <2>2, <3>1 DEF EventsMatchOrders
  <2>4. \A o \in Tx : sales'[o] > 0 \/ <<"order", o>> \in logged' => o \in DOMAIN orders'
    BY <1>0, <1>2, <2>2 DEF EventsMatchOrders
  <2> QED BY <2>1, <2>3, <2>4 DEF EventsMatchOrders
<1> QED BY <1>5, <1>7, <1>8, <1>9, <1>10, <1>11

LEMMA NextInv ==
  ASSUME Inv, [Next]_vars
  PROVE  Inv'
<1>1. CASE UNCHANGED vars
  BY <1>1 DEF vars, Inv, TypeOK, LockInv, TimeInv, TodoInv, AtMostOneOrder, EventsMatchOrders,
              Holds, Converting, Convertible, OrderOf
<1>2. ASSUME NEW s \in Sessions, Request(s)
      PROVE  Inv'
  BY <1>2, RequestStep
<1>3. ASSUME NEW s \in Sessions, Proceed(s)
      PROVE  Inv'
  <2>1. ASSUME DuplicateNumber(s)
        PROVE  Inv'
    BY <2>1, EndStep DEF DuplicateNumber
  <2> QED BY <1>3, <2>1, WriteQuoteStep, WriteOrderStep, LockQuoteStep, NumberOrderStep,
             InsertOrderStep DEF Proceed
<1>4. ASSUME NEW s \in Sessions, Abort(s)
      PROVE  Inv'
  BY <1>4, EndStep DEF Abort
<1> QED BY <1>1, <1>2, <1>3, <1>4 DEF Next

THEOREM InvHolds == Spec => []Inv
<1>1. Init => Inv
  BY InitInv
<1>2. Inv /\ [Next]_vars => Inv'
  BY NextInv
<1> QED BY <1>1, <1>2, PTL DEF Spec

(* A session writes only what it has decided and inserts only an order that *)
(* has a number.                                                           *)
THEOREM QuotesTypeCorrect == Spec => []TypeOK
<1>1. Inv => TypeOK
  BY DEF Inv
<1> QED BY <1>1, InvHolds, PTL

(* The lock of the quote gives it one order, whatever the number of        *)
(* sessions that convert it.                                               *)
THEOREM OneOrderPerQuote == Spec => []AtMostOneOrder
<1>1. Inv => AtMostOneOrder
  BY DEF Inv
<1> QED BY <1>1, InvHolds, PTL

(* Orders and the events about them commit together; what commits without  *)
(* its event has left a warning, and no event is of an order that is not.  *)
THEOREM EventsAccompanyOrders == Spec => []EventsMatchOrders
<1>1. Inv => EventsMatchOrders
  BY DEF Inv
<1> QED BY <1>1, InvHolds, PTL

(* Only InsertOrder adds an order, and its session holds the quote.        *)
LEMMA AddsOrder ==
  ASSUME Inv, [Next]_vars, DOMAIN orders' # DOMAIN orders
  PROVE  \E s \in Sessions : InsertOrder(s)
BY DEF Next, vars, db, Request, Proceed, EnviarCotacao, AprovarCotacao, CancelarCotacao,
       AtualizarCotacao, CancelarPedido, AtualizarStatusPedido, BeginConversion, Decide,
       WriteQuote, WriteOrder, LockQuote, NumberOrder, DuplicateNumber, Abort

(* No order is made of a quote whose approval was withdrawn meanwhile.     *)
THEOREM ConversionIsOfApproved == Spec => ConvertsOnlyApproved
<1> DEFINE Approved ==
      \A o \in DOMAIN orders' \ DOMAIN orders : status[orders'[o].quote] = "aprovada"
<1>1. ASSUME Inv, [Next]_vars
      PROVE  Approved
  <2>1. CASE DOMAIN orders' = DOMAIN orders
    BY <2>1
  <2>2. CASE DOMAIN orders' # DOMAIN orders
    <3>1. PICK s \in Sessions : InsertOrder(s)
      BY <1>1, <2>2, AddsOrder
    <3>2. Convertible(conv[s].quote)
      BY <1>1, <3>1 DEF Inv, LockInv, Holds, InsertOrder
    <3> QED BY <3>1, <3>2 DEF InsertOrder, Convertible
  <2> QED BY <2>1, <2>2
<1>2. Inv /\ [Next]_vars => [Approved]_vars
  BY <1>1
<1> QED BY <1>2, InvHolds, PTL DEF Spec, ConvertsOnlyApproved
================================================================================
