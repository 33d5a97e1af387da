----------------------------- MODULE EngineWorker -----------------------------
(***************************************************************************)
(* The engines worker: processes that read the Redis stream of events      *)
(* through the consumer group "engines", apply each event to the engine    *)
(* tables and acknowledge it.                                              *)
(*                                                                         *)
(* A process has two threads with a database session each.  "main" first   *)
(* reclaims what earlier runs left pending and then reads new messages in  *)
(* batches; "reclaim" wakes up, claims the pending messages that have been *)
(* idle for RECLAIM_IDLE_MS and handles them with the same code.  Several  *)
(* processes may share the group.                                          *)
(*                                                                         *)
(* The database is read-committed PostgreSQL.  A thread's uncommitted rows *)
(* are in txn[t]; they become visible when it commits.  An INSERT of a key *)
(* another session has inserted and not yet committed waits for that       *)
(* session; if the key is committed, a plain INSERT fails and an INSERT    *)
(* .. ON CONFLICT DO NOTHING inserts nothing.  All rows of one event are   *)
(* one row here: they are written by one session in one order and become   *)
(* visible together.                                                       *)
(***************************************************************************)
EXTENDS Naturals, Sequences, FiniteSets

CONSTANTS
  Procs,         \* worker processes of the consumer group
  Sales,         \* sale_recorded events
  Pairs,         \* the sales with two products or more
  Others,        \* events whose handlers only log
  Poison,        \* events whose message does not parse into an envelope
  BatchSize,     \* BATCH_SIZE: messages per XREADGROUP
  ReclaimCount,  \* count: pending entries looked at by one reclaim
  MaxStream,     \* bound: messages published
  MaxFaults      \* bound: failed calls and process crashes

Events == Sales \cup Others \cup Poison

ASSUME WorkerAssumption ==
  /\ Pairs \subseteq Sales
  /\ Poison \cap (Sales \cup Others) = {}
  /\ Sales \cap Others = {}
  /\ BatchSize \in Nat \ {0}
  /\ ReclaimCount \in Nat \ {0}
  /\ MaxStream \in Nat
  /\ MaxFaults \in Nat

VARIABLES
  stream,     \* the stream: message m carries the event stream[m]
  delivered,  \* the group's last delivered message
  pending,    \* the group's pending entries list
  idle,       \* pending messages idle for at least RECLAIM_IDLE_MS
  db,         \* committed rows of the engine tables, per kind
  life,       \* life[p]: the state of process p
  pc,         \* pc[t]: what thread t does next
  batch,      \* batch[t]: messages t received and has not looked at yet
  hand,       \* hand[t]: the message t is processing, 0 if none
  txn,        \* txn[t]: kinds of rows t has written and not committed
  faults

redis == <<stream, delivered, pending, idle>>
vars == <<stream, delivered, pending, idle, db, life, pc, batch, hand, txn, faults>>

Threads == Procs \X {"main", "reclaim"}

(* engine_sales_facts, engine_stock_facts (with the alerts recomputed from *)
(* them), engine_sales_suggestions, engine_processed_events.               *)
Rows == {"sale", "stock", "assoc", "mark"}

Handling == {"check", "stockRead", "stockWrite", "stockCommit",
             "salesWrite", "salesCommit", "mark", "commit", "ack"}

Event(t) == stream[hand[t]]

Types ==
  /\ stream \in Seq(Events)
  /\ delivered \in 0..Len(stream)
  /\ pending \subseteq 1..delivered
  /\ idle \subseteq pending
  /\ db \in [Rows -> SUBSET (Sales \cup Others)]
  /\ life \in [Procs -> {"down", "starting", "draining", "up"}]
  /\ pc \in [Threads -> Handling \cup {"take", "claim"}]
  /\ batch \in [Threads -> SUBSET (1..delivered)]
  /\ hand \in [Threads -> 0..delivered]
  /\ txn \in [Threads -> SUBSET Rows]
  /\ faults \in 0..MaxFaults

(* Beyond the types: a thread keeps one session for all its messages, and  *)
(* what a failed one wrote is gone before the next is taken.               *)
TypeOK ==
  /\ Types
  /\ \A t \in Threads : txn[t] # {} => pc[t] \in {"stockCommit", "salesCommit", "commit"}

Init ==
  /\ stream = <<>>
  /\ delivered = 0
  /\ pending = {}
  /\ idle = {}
  /\ db = [r \in Rows |-> {}]
  /\ life = [p \in Procs |-> "down"]
  /\ pc = [t \in Threads |-> "take"]
  /\ batch = [t \in Threads |-> {}]
  /\ hand = [t \in Threads |-> 0]
  /\ txn = [t \in Threads |-> {}]
  /\ faults = 0

-------------------------------------------------------------------------------
(* The environment: the relay publishes, and may publish an event twice;  *)
(* time passes for the pending messages.                                  *)

Publish(e) ==
  /\ Len(stream) < MaxStream
  /\ stream' = Append(stream, e)
  /\ UNCHANGED <<delivered, pending, idle, db, life, pc, batch, hand, txn, faults>>

IdleElapses(m) ==
  /\ m \in pending \ idle
  /\ idle' = idle \cup {m}
  /\ UNCHANGED <<stream, delivered, pending, db, life, pc, batch, hand, txn, faults>>

-------------------------------------------------------------------------------
(* Receiving messages. *)

Resting(t) == pc[t] = "take" /\ batch[t] = {}

(* The process starts; its first work is one reclaim on the main thread. *)
Start(p) ==
  /\ life[p] = "down"
  /\ life' = [life EXCEPT ![p] = "starting"]
  /\ UNCHANGED <<redis, db, pc, batch, hand, txn, faults>>

(* The startup reclaim is over: the reclaim thread and the main loop run. *)
StartupDone(p) ==
  /\ life[p] = "draining"
  /\ Resting(<<p, "main">>)
  /\ life' = [life EXCEPT ![p] = "up"]
  /\ UNCHANGED <<redis, db, pc, batch, hand, txn, faults>>

(* XREADGROUP ">": the next messages of the stream become pending. *)
ReadNew(p) ==
  LET t == <<p, "main">>
      last == IF Len(stream) - delivered <= BatchSize THEN Len(stream)
                                                      ELSE delivered + BatchSize
      new == (delivered + 1)..last
  IN /\ life[p] = "up"
     /\ Resting(t)
     /\ delivered < Len(stream)
     /\ delivered' = last
     /\ pending' = pending \cup new
     /\ batch' = [batch EXCEPT ![t] = new]
     /\ UNCHANGED <<stream, idle, db, life, pc, hand, txn, faults>>

(* XPENDING - + ReclaimCount returns the entries with the lowest ids, of  *)
(* any consumer and idle or not; the idle ones are kept.                  *)
Oldest == {m \in pending : Cardinality({k \in pending : k < m}) < ReclaimCount}

ListPending(p, who) ==
  LET t == <<p, who>> IN
  /\ life[p] = IF who = "main" THEN "starting" ELSE "up"
  /\ Resting(t)
  /\ batch' = [batch EXCEPT ![t] = Oldest \cap idle]
  /\ pc' = [pc EXCEPT ![t] = IF Oldest \cap idle = {} THEN "take" ELSE "claim"]
  /\ life' = IF who = "main" THEN [life EXCEPT ![p] = "draining"] ELSE life
  /\ UNCHANGED <<redis, db, hand, txn, faults>>

(* Mutant of Claim: the claimed messages are dropped instead of handled. *)
ClaimAndForget(t) ==
  /\ pc[t] = "claim"
  /\ batch' = [batch EXCEPT ![t] = {}]
  /\ idle' = idle \ batch[t]
  /\ pc' = [pc EXCEPT ![t] = "take"]
  /\ UNCHANGED <<stream, delivered, pending, db, life, hand, txn, faults>>

(* XCLAIM with the minimum idle time: what another consumer claimed or    *)
(* acknowledged since the listing is not returned.                        *)
Claim(t) ==
  /\ pc[t] = "claim"
  /\ batch' = [batch EXCEPT ![t] = @ \cap idle]
  /\ idle' = idle \ batch[t]
  /\ pc' = [pc EXCEPT ![t] = "take"]
  /\ UNCHANGED <<stream, delivered, pending, db, life, hand, txn, faults>>

(* The next message of the batch, in stream order. *)
Take(t) ==
  /\ pc[t] = "take"
  /\ \E m \in batch[t] :
       /\ \A k \in batch[t] : m <= k
       /\ hand' = [hand EXCEPT ![t] = m]
       /\ batch' = [batch EXCEPT ![t] = @ \ {m}]
  /\ pc' = [pc EXCEPT ![t] = "check"]
  /\ UNCHANGED <<redis, db, life, txn, faults>>

-------------------------------------------------------------------------------
(* process_stream_message and the engines. *)

Goto(t, label) == pc' = [pc EXCEPT ![t] = label]

(* Rows of t's transaction become visible. *)
Commit(t) ==
  /\ db' = [r \in Rows |-> IF r \in txn[t] THEN db[r] \cup {Event(t)} ELSE db[r]]
  /\ txn' = [txn EXCEPT ![t] = {}]

(* The exception path: roll back, leave the message pending, go on with   *)
(* the rest of the batch.                                                 *)
Raise(t) ==
  /\ txn' = [txn EXCEPT ![t] = {}]
  /\ hand' = [hand EXCEPT ![t] = 0]
  /\ Goto(t, "take")
  /\ UNCHANGED <<redis, db, life, batch>>

(* No other session holds an uncommitted row of this kind for the event. *)
KeyFree(t, row) ==
  \A u \in Threads \ {t} : ~(row \in txn[u] /\ Event(u) = Event(t))

RejectUnparsable(t) ==
  /\ pc[t] = "check"
  /\ Event(t) \in Poison
  /\ Raise(t)
  /\ UNCHANGED faults

SkipProcessed(t) ==
  /\ pc[t] = "check"
  /\ Event(t) \in db["mark"]
  /\ Goto(t, "ack")
  /\ UNCHANGED <<redis, db, life, batch, hand, txn, faults>>

(* Mutant of Dispatch: the sales engine runs before the stock engine. *)
DispatchSalesFirst(t) ==
  /\ pc[t] = "check"
  /\ Event(t) \notin Poison \cup db["mark"]
  /\ Goto(t, IF Event(t) \in Pairs THEN "salesWrite" ELSE "mark")
  /\ UNCHANGED <<redis, db, life, batch, hand, txn, faults>>

Dispatch(t) ==
  /\ pc[t] = "check"
  /\ Event(t) \notin Poison \cup db["mark"]
  /\ Goto(t, IF Event(t) \in Sales THEN "stockRead" ELSE "mark")
  /\ UNCHANGED <<redis, db, life, batch, hand, txn, faults>>

(* Mutant of ReadSalesFact: facts already there end the handling. *)
ReadSalesFactAndReturn(t) ==
  /\ pc[t] = "stockRead"
  /\ Goto(t, IF Event(t) \in db["sale"] THEN "mark" ELSE "stockWrite")
  /\ UNCHANGED <<redis, db, life, batch, hand, txn, faults>>

(* Stock engine: look for the sales facts of the event. *)
ReadSalesFact(t) ==
  /\ pc[t] = "stockRead"
  /\ Goto(t, IF Event(t) \in db["sale"] THEN "stockCommit" ELSE "stockWrite")
  /\ UNCHANGED <<redis, db, life, batch, hand, txn, faults>>

(* Stock engine: insert the sales facts and with each its stock movement. *)
WriteStock(t) ==
  /\ pc[t] = "stockWrite"
  /\ KeyFree(t, "sale")
  /\ Event(t) \notin db["sale"]
  /\ txn' = [txn EXCEPT ![t] = {"sale", "stock"}]
  /\ Goto(t, "stockCommit")
  /\ UNCHANGED <<redis, db, life, batch, hand, faults>>

(* Mutant of DuplicateFact: the duplicate is taken for a processed event. *)
DuplicateFactSkipped(t) ==
  /\ pc[t] = "stockWrite"
  /\ Event(t) \in db["sale"]
  /\ Goto(t, "ack")
  /\ UNCHANGED <<redis, db, life, batch, hand, txn, faults>>

(* The sales facts were committed by another session after the look. *)
DuplicateFact(t) ==
  /\ pc[t] = "stockWrite"
  /\ Event(t) \in db["sale"]
  /\ Raise(t)
  /\ UNCHANGED faults

CommitStock(t) ==
  /\ pc[t] = "stockCommit"
  /\ Commit(t)
  /\ Goto(t, IF Event(t) \in Pairs THEN "salesWrite" ELSE "mark")
  /\ UNCHANGED <<redis, life, batch, hand, faults>>

(* Sales engine: record the sales facts if they are not there, recompute  *)
(* the associations of the products.                                      *)
WriteSales(t) ==
  /\ pc[t] = "salesWrite"
  /\ KeyFree(t, "sale")
  /\ txn' = [txn EXCEPT ![t] =
               IF Event(t) \in db["sale"] THEN {"assoc"} ELSE {"sale", "assoc"}]
  /\ Goto(t, "salesCommit")
  /\ UNCHANGED <<redis, db, life, batch, hand, faults>>

CommitSales(t) ==
  /\ pc[t] = "salesCommit"
  /\ Commit(t)
  /\ Goto(t, "mark")
  /\ UNCHANGED <<redis, life, batch, hand, faults>>

(* INSERT .. ON CONFLICT DO NOTHING into engine_processed_events. *)
Mark(t) ==
  /\ pc[t] = "mark"
  /\ KeyFree(t, "mark")
  /\ Event(t) \notin db["mark"]
  /\ txn' = [txn EXCEPT ![t] = {"mark"}]
  /\ Goto(t, "commit")
  /\ UNCHANGED <<redis, db, life, batch, hand, faults>>

(* Another session marked the event first: roll back and skip. *)
LoseRace(t) ==
  /\ pc[t] = "mark"
  /\ Event(t) \in db["mark"]
  /\ txn' = [txn EXCEPT ![t] = {}]
  /\ Goto(t, "ack")
  /\ UNCHANGED <<redis, db, life, batch, hand, faults>>

CommitMark(t) ==
  /\ pc[t] = "commit"
  /\ Commit(t)
  /\ Goto(t, "ack")
  /\ UNCHANGED <<redis, life, batch, hand, faults>>

(* XACK after success or skip, whoever holds the entry by then. *)
Ack(t) ==
  /\ pc[t] = "ack"
  /\ pending' = pending \ {hand[t]}
  /\ idle' = idle \ {hand[t]}
  /\ hand' = [hand EXCEPT ![t] = 0]
  /\ Goto(t, "take")
  /\ UNCHANGED <<stream, delivered, db, life, batch, txn, faults>>

-------------------------------------------------------------------------------
(* Failures. *)

(* Mutant of CallFails: the message is acknowledged after a failure too. *)
CallFailsAndAcks(t) ==
  /\ pc[t] \in Handling
  /\ faults < MaxFaults
  /\ faults' = faults + 1
  /\ txn' = [txn EXCEPT ![t] = {}]
  /\ Goto(t, "ack")
  /\ UNCHANGED <<redis, db, life, batch, hand>>

(* Mutant of CallFails: the except branch logs and does not roll back. *)
CallFailsKeepsRows(t) ==
  /\ pc[t] \in Handling
  /\ faults < MaxFaults
  /\ faults' = faults + 1
  /\ hand' = [hand EXCEPT ![t] = 0]
  /\ Goto(t, "take")
  /\ UNCHANGED <<redis, db, life, batch, txn>>

(* A database or Redis call of the handling raises. *)
CallFails(t) ==
  /\ pc[t] \in Handling
  /\ faults < MaxFaults
  /\ faults' = faults + 1
  /\ Raise(t)

(* XPENDING or XCLAIM raises: this reclaim is given up. *)
ReclaimFails(t) ==
  /\ pc[t] = "claim"
  /\ faults < MaxFaults
  /\ faults' = faults + 1
  /\ batch' = [batch EXCEPT ![t] = {}]
  /\ Goto(t, "take")
  /\ UNCHANGED <<redis, db, life, hand, txn>>

(* The process dies, both threads at whatever they were doing; PostgreSQL *)
(* rolls back their transactions.                                         *)
Crash(p) ==
  LET own == {p} \X {"main", "reclaim"} IN
  /\ life[p] # "down"
  /\ faults < MaxFaults
  /\ faults' = faults + 1
  /\ life' = [life EXCEPT ![p] = "down"]
  /\ pc' = [t \in Threads |-> IF t \in own THEN "take" ELSE pc[t]]
  /\ batch' = [t \in Threads |-> IF t \in own THEN {} ELSE batch[t]]
  /\ hand' = [t \in Threads |-> IF t \in own THEN 0 ELSE hand[t]]
  /\ txn' = [t \in Threads |-> IF t \in own THEN {} ELSE txn[t]]
  /\ UNCHANGED <<redis, db>>

-------------------------------------------------------------------------------
Handle(t) ==
  \/ RejectUnparsable(t) \/ SkipProcessed(t) \/ Dispatch(t)
  \/ ReadSalesFact(t) \/ WriteStock(t) \/ DuplicateFact(t) \/ CommitStock(t)
  \/ WriteSales(t) \/ CommitSales(t)
  \/ Mark(t) \/ LoseRace(t) \/ CommitMark(t) \/ Ack(t)

Work(t) == Claim(t) \/ Take(t) \/ Handle(t)

Run(p) ==
  \/ StartupDone(p) \/ ReadNew(p)
  \/ ListPending(p, "main") \/ ListPending(p, "reclaim")

Next ==
  \/ \E e \in Events : Publish(e)
  \/ \E m \in pending : IdleElapses(m)
  \/ \E p \in Procs : Start(p) \/ Run(p) \/ Crash(p)
  \/ \E t \in Threads : Work(t) \/ CallFails(t) \/ ReclaimFails(t)

Spec == Init /\ [][Next]_vars

(* The threads run, a stopped container is restarted, time passes for     *)
(* every pending message.  Nothing forces a publication or a failure.     *)
Fairness ==
  /\ \A m \in 1..MaxStream : WF_vars(IdleElapses(m))
  /\ \A p \in Procs : /\ WF_vars(Start(p))
                      /\ WF_vars(StartupDone(p))
                      /\ WF_vars(ReadNew(p))
                      /\ WF_vars(ListPending(p, "main"))
                      /\ WF_vars(ListPending(p, "reclaim"))
  /\ \A t \in Threads : WF_vars(Work(t))

LiveSpec == Spec /\ Fairness
-------------------------------------------------------------------------------
(* "XACK only after successful DB commit" (consumer.py): a message that    *)
(* left the pending list carries an event that is marked as processed.     *)
AckedIsProcessed ==
  \A m \in (1..delivered) \ pending : stream[m] \in db["mark"]

(* An event marked as processed has every effect its handlers owe: a retry *)
(* that finds part of the work of a failed attempt still does the rest.    *)
ProcessedIsComplete ==
  \A e \in db["mark"] : /\ e \in Sales => e \in db["sale"] \cap db["stock"]
                        /\ e \in Pairs => e \in db["assoc"]

(* Both engines record sales facts, only the stock engine moves stock: no  *)
(* order of sessions, failures and retries leaves a sales fact that makes  *)
(* the stock engine skip a movement that was never recorded.               *)
SaleMovesStock == db["sale"] = db["stock"]

(* Every message that parses is delivered and acknowledged in the end,     *)
(* whichever process dies with it in hand.                                 *)
EventuallyAcked ==
  \A m \in 1..MaxStream :
    (m <= Len(stream) /\ stream[m] \notin Poison) ~> (m <= delivered /\ m \notin pending)

(* The worker implements the abstract promise. *)
Effects == INSTANCE EventEffects WITH
  published <- {stream[m] : m \in 1..Len(stream)} \ Poison,
  recorded <- db["sale"],
  moved <- db["stock"],
  associated <- db["assoc"],
  done <- db["mark"],
  settled <- {stream[m] : m \in (1..delivered) \ pending}

ImplementsEffects == Effects!Spec
===============================================================================
