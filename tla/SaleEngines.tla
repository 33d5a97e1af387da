------------------------------ MODULE SaleEngines ------------------------------
(***************************************************************************)
(* What the stock engine and the sales engine compute from the sales of    *)
(* one tenant: facts about the products sold, stock alerts per product and *)
(* suggestions per pair of products.                                       *)
(*                                                                         *)
(* A worker thread is a database session that handles one sale at a time,  *)
(* first by the stock engine, which commits, then by the sales engine,     *)
(* which commits.  EngineWorker says which events a thread gets and how    *)
(* often; here a sale is handled until both engines have committed.        *)
(*                                                                         *)
(* The database is read-committed PostgreSQL: a statement sees what is     *)
(* committed when it runs and what its own session has written.  An UPDATE *)
(* waits for a session that has updated the row; of sessions that wait for *)
(* each other PostgreSQL aborts one.                                       *)
(*                                                                         *)
(* Sales are numbered by their time of delivery, and all are younger than  *)
(* the ninety days the engines look back.  No event ever brings stock in.  *)
(***************************************************************************)
EXTENDS Integers, Sequences, FiniteSetsExt

CONSTANTS Sessions,   \* worker threads
          Lines,      \* Lines[e]: the items of sale e
          Fragile,    \* bound: sales on which a call may fail
          MaxAborts   \* bound: failed calls

Sales == DOMAIN Lines
Products == UNION {{Lines[e][i].product : i \in DOMAIN Lines[e]} : e \in Sales}

ASSUME EnginesAssumption ==
  /\ Lines \in Seq(Seq([product : Products, quantity : Nat \ {0}]))
  /\ \A e \in Sales : Lines[e] # <<>>
  /\ Fragile \subseteq Sales
  /\ MaxAborts \in Nat

VARIABLES
  facts,    \* committed facts: a row of sales and a row of stock facts each
  reports,  \* committed alerts and suggestions, active all of them
  done,     \* sales both engines have committed
  job,      \* job[s]: what session s is doing
  mine,     \* mine[s]: facts s has not committed
  drafts,   \* drafts[s]: alerts and suggestions s has not committed
  behind,   \* behind[e]: sessions that were at work when e lost a deadlock
  aborts

vars == <<facts, reports, done, job, mine, drafts, behind, aborts>>

Fact == [sale : Sales, product : Products, quantity : Nat, after : Nat]

(* An alert is about a product and has its stock, a suggestion is about a  *)
(* product and another and has the orders with both and with the first.  A *)
(* row is known by its subject and the sale that inserted it.              *)
Subject == {<<p>> : p \in Products} \cup (Products \X Products)
Row == [by : Sales, subject : Subject]

Rest == [pc |-> "idle", engine |-> "stock", sale |-> 0, line |-> 0, todo |-> <<>>, row |-> <<>>]

TypeOK ==
  /\ facts \subseteq Fact
  /\ DOMAIN reports \subseteq Row
  /\ done \subseteq Sales
  /\ \A s \in Sessions :
       /\ job[s].pc \in {"idle", "line", "assess", "find", "write", "commit"}
       /\ job[s].pc # "idle" => /\ job[s].sale \in Sales \ done
                                /\ job[s].line \in DOMAIN Lines[job[s].sale]
       /\ job[s].pc \in {"find", "write"} => DOMAIN job[s].todo # {}
       /\ mine[s] \subseteq Fact
       /\ DOMAIN drafts[s] \subseteq Row
  /\ behind \in [Sales -> SUBSET Sessions]
  /\ aborts \in 0..MaxAborts

Init ==
  /\ facts = {}
  /\ reports = <<>>
  /\ done = {}
  /\ job = [s \in Sessions |-> Rest]
  /\ mine = [s \in Sessions |-> {}]
  /\ drafts = [s \in Sessions |-> <<>>]
  /\ behind = [e \in Sales |-> {}]
  /\ aborts = 0

-------------------------------------------------------------------------------
Seen(s) == facts \cup mine[s]

Of(F, p) == {f \in F : f.product = p}

Sold(F, p) == MapThenSumSet(LAMBDA f : f.quantity, Of(F, p))

(* get_current_stock: quantity_after of the latest fact, unless there is   *)
(* none or it is zero (which Python takes for none); then the sum of the   *)
(* deltas, all of them sales.                                              *)
CurrentStock(F, p) ==
  LET latest == CHOOSE f \in Of(F, p) : \A g \in Of(F, p) : g.sale <= f.sale IN
  IF Of(F, p) # {} /\ latest.after # 0 THEN latest.after ELSE 0 - Sold(F, p)

(* A function, or a record, with some of its values changed or added. *)
Updated(f, change) ==
  [x \in DOMAIN f \cup DOMAIN change |-> IF x \in DOMAIN change THEN change[x] ELSE f[x]]

(* The session's place becomes what it was but for this change, which is a *)
(* bound variable for TLC to evaluate it once.                             *)
Go(s, change) == \E c \in {change} : job' = [job EXCEPT ![s] = Updated(@, c)]

At(s, engine, pc) == job[s].engine = engine /\ job[s].pc = pc

Item(s) == Lines[job[s].sale][job[s].line]

(* What follows the current line. *)
Advance(s) == IF job[s].line < Len(Lines[job[s].sale])
                THEN [pc |-> "line", line |-> job[s].line + 1, todo |-> <<>>]
                ELSE [pc |-> "commit", todo |-> <<>>]

Begin(s, e) ==
  /\ job[s].pc = "idle"
  /\ e \notin done
  /\ \A t \in Sessions : job[t].sale # e
  /\ behind[e] = {}
  /\ Go(s, [pc |-> "line", sale |-> e, line |-> 1])
  /\ UNCHANGED <<facts, reports, done, mine, drafts, behind, aborts>>

-------------------------------------------------------------------------------
(* The stock engine, for a line whose product the sale has no fact about. *)

(* Mutant of Recorded: facts are told apart by the event alone. *)
RecordedSale(s) == \E f \in Seen(s) : f.sale = job[s].sale

Recorded(s) == \E f \in Seen(s) : f.sale = job[s].sale /\ f.product = Item(s).product

(* Mutant of RecordSale: the stock after a sale is not kept above zero. *)
RecordBelowZero(s) ==
  /\ At(s, "stock", "line")
  /\ IF Recorded(s)
       THEN Go(s, Advance(s)) /\ UNCHANGED mine
       ELSE /\ mine' = [mine EXCEPT ![s] = @ \cup
                          {[sale |-> job[s].sale, product |-> Item(s).product,
                            quantity |-> Item(s).quantity,
                            after |-> CurrentStock(Seen(s), Item(s).product) - Item(s).quantity]}]
            /\ Go(s, [pc |-> "assess"])
  /\ UNCHANGED <<facts, reports, done, drafts, behind, aborts>>

RecordSale(s) ==
  LET left == CurrentStock(Seen(s), Item(s).product) - Item(s).quantity IN
  /\ At(s, "stock", "line")
  /\ IF Recorded(s)
       THEN Go(s, Advance(s)) /\ UNCHANGED mine
       ELSE /\ mine' = [mine EXCEPT ![s] = @ \cup
                          {[sale |-> job[s].sale, product |-> Item(s).product,
                            quantity |-> Item(s).quantity,
                            after |-> IF left < 0 THEN 0 ELSE left]}]
            /\ Go(s, [pc |-> "assess"])
  /\ UNCHANGED <<facts, reports, done, drafts, behind, aborts>>

(* Less in stock than 7 days of the average sales of 90 days, and a fifth. *)
Short(F, p) == Sold(F, p) > 0 /\ 900 * CurrentStock(F, p) < 84 * Sold(F, p)

(* Mutant of Assess: the facts of this session are not flushed. *)
AssessUnflushed(s) ==
  LET p == Item(s).product IN
  /\ At(s, "stock", "assess")
  /\ Go(s, IF Short(facts, p)
             THEN [pc |-> "find", todo |-> [r \in {<<p>>} |-> <<CurrentStock(facts, p)>>]]
             ELSE Advance(s))
  /\ UNCHANGED <<facts, reports, done, mine, drafts, behind, aborts>>

Assess(s) ==
  LET p == Item(s).product IN
  /\ At(s, "stock", "assess")
  /\ Go(s, IF Short(Seen(s), p)
             THEN [pc |-> "find", todo |-> [r \in {<<p>>} |-> <<CurrentStock(Seen(s), p)>>]]
             ELSE Advance(s))
  /\ UNCHANGED <<facts, reports, done, mine, drafts, behind, aborts>>

(* The sales engine, for a line: how often each other product was in an    *)
(* order with this one, if in a fifth of them or more.                     *)
With(F, p) == {f.sale : f \in Of(F, p)}

Both(F, p, o) == Cardinality(With(F, p) \cap With(F, o))

Companions(F, p) ==
  {o \in Products \ {p} : Both(F, p, o) > 0 /\ 5 * Both(F, p, o) >= Cardinality(With(F, p))}

Count(s) ==
  LET p == Item(s).product
      others == Companions(Seen(s), p)
  IN /\ At(s, "sales", "line")
     /\ Go(s, IF others = {} THEN Advance(s)
              ELSE [pc |-> "find", todo |-> [r \in {p} \X others |->
                      <<Both(Seen(s), p, r[2]), Cardinality(With(Seen(s), p))>>]])
     /\ UNCHANGED <<facts, reports, done, mine, drafts, behind, aborts>>

-------------------------------------------------------------------------------
(* upsert_stock_alert, upsert_sales_suggestion: find any active row of the *)
(* subject, update it or insert one.                                       *)

Find(s) ==
  /\ job[s].pc = "find"
  /\ \E subject \in DOMAIN job[s].todo :
       LET rows == {r \in DOMAIN reports \cup DOMAIN drafts[s] : r.subject = subject} IN
       \E r \in IF rows = {} THEN {[by |-> job[s].sale, subject |-> subject]} ELSE rows :
         Go(s, [pc |-> "write", row |-> r])
  /\ UNCHANGED <<facts, reports, done, mine, drafts, behind, aborts>>

WaitsFor(s, t) == s # t /\ job[s].pc = "write" /\ job[s].row \in DOMAIN drafts[t]

Write(s) ==
  LET todo == job[s].todo
      subject == job[s].row.subject
      left == [x \in DOMAIN todo \ {subject} |-> todo[x]]
  IN /\ job[s].pc = "write"
     /\ \A t \in Sessions : ~WaitsFor(s, t)
     /\ drafts' = [drafts EXCEPT ![s] = Updated(@, [r \in {job[s].row} |-> todo[subject]])]
     /\ Go(s, IF left = <<>> THEN Advance(s) ELSE [pc |-> "find", todo |-> left])
     /\ UNCHANGED <<facts, reports, done, mine, behind, aborts>>

-------------------------------------------------------------------------------
Commit(s) ==
  /\ facts' = Seen(s)
  /\ reports' = Updated(reports, drafts[s])
  /\ mine' = [mine EXCEPT ![s] = {}]
  /\ drafts' = [drafts EXCEPT ![s] = <<>>]

(* Mutant of Rested: nobody notices that the claim of an event is free. *)
RestedNever(s) == behind

Rested(s) == [e \in Sales |-> behind[e] \ {s}]

Finish(s) ==
  /\ done' = done \cup {job[s].sale}
  /\ job' = [job EXCEPT ![s] = Rest]
  /\ behind' = Rested(s)

(* A sale of one line ends here: the sales engine has nothing to pair. *)
CommitStock(s) ==
  /\ At(s, "stock", "commit")
  /\ Commit(s)
  /\ IF Len(Lines[job[s].sale]) < 2
       THEN Finish(s)
       ELSE /\ Go(s, [pc |-> "line", engine |-> "sales", line |-> 1])
            /\ UNCHANGED <<done, behind>>
  /\ UNCHANGED aborts

CommitSales(s) ==
  /\ At(s, "sales", "commit")
  /\ Commit(s)
  /\ Finish(s)
  /\ UNCHANGED aborts

Rollback(s) ==
  /\ job' = [job EXCEPT ![s] = Rest]
  /\ mine' = [mine EXCEPT ![s] = {}]
  /\ drafts' = [drafts EXCEPT ![s] = <<>>]
  /\ UNCHANGED <<facts, reports, done>>

(* A call fails or the process dies; the event is handled again later. *)
Abort(s) ==
  /\ job[s].sale \in Fragile
  /\ aborts < MaxAborts
  /\ aborts' = aborts + 1
  /\ behind' = Rested(s)
  /\ Rollback(s)

(* PostgreSQL aborts a session of a cycle of waiting ones.  Its event stays *)
(* pending and is claimed again when it has been idle for RECLAIM_IDLE_MS: *)
(* long after the sessions that are at work now have gone on.              *)
Deadlock(s) ==
  /\ \E S \in SUBSET Sessions :
       /\ s \in S
       /\ \A t \in S : (\E u \in S : WaitsFor(t, u)) /\ (\E u \in S : WaitsFor(u, t))
  /\ behind' = [Rested(s) EXCEPT ![job[s].sale] =
                  {t \in Sessions \ {s} : job[t].pc # "idle"}]
  /\ Rollback(s)
  /\ UNCHANGED aborts

-------------------------------------------------------------------------------
Proceed(s) ==
  \/ \E e \in Sales : Begin(s, e)
  \/ RecordSale(s) \/ Assess(s) \/ Count(s) \/ Find(s)
  \/ CommitStock(s) \/ CommitSales(s) \/ Deadlock(s)

Next == \E s \in Sessions : Proceed(s) \/ Write(s) \/ Abort(s)

Spec == Init /\ [][Next]_vars

(* The worker handles what is pending; PostgreSQL grants a row lock in the *)
(* order of the requests, so a waiting UPDATE is not passed over forever.  *)
LiveSpec == Spec /\ \A s \in Sessions : WF_vars(Proceed(s)) /\ SF_vars(Write(s))
-------------------------------------------------------------------------------
(* A sold product has an alert that nothing is left, from the commit of its *)
(* first fact on, in whatever order sales are handled, aborted and retried. *)
SoldIsAlerted ==
  \A f \in facts : \E r \in DOMAIN reports : r.subject = <<f.product>> /\ reports[r][1] <= 0

(* A suggestion counts orders: at least one with both products, at most as *)
(* many as have the first.                                                 *)
SuggestionsCountOrders ==
  \A r \in DOMAIN reports : Len(r.subject) = 2 =>
    /\ 0 < reports[r][1]
    /\ reports[r][1] <= reports[r][2]
    /\ reports[r][2] <= Cardinality(With(facts, r.subject[1]))

(* A product in five orders at most: one order is a fifth of them or more. *)
Few(p) == Cardinality(With(facts, p)) <= 5

(* When both engines are done with a sale, its products have facts, and a  *)
(* suggestion links one to another of the same order while an order alone  *)
(* is enough for it.                                                       *)
DoneIsBooked ==
  \A e \in done : \A i, j \in DOMAIN Lines[e] :
    LET p == Lines[e][i].product
        o == Lines[e][j].product
    IN /\ e \in With(facts, p)
       /\ p # o /\ Few(p) => \E r \in DOMAIN reports : r.subject = <<p, o>>

(* The engines' books after both of them: nothing a sale owes is missing,  *)
(* over repeated attempts, and nothing is counted that was not ordered.    *)
BookedAndCounted == DoneIsBooked /\ SuggestionsCountOrders

(* Every sale is booked in the end, although sessions may wait for each    *)
(* other's alerts.                                                         *)
EventuallyBooked == <>(done = Sales)

================================================================================
