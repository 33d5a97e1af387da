-------------------------- MODULE EngineWorkerProofs --------------------------
(***************************************************************************)
(* Proofs about the engines worker, for any number of processes, events,   *)
(* messages, failures and crashes.                                         *)
(*                                                                         *)
(* The inductive invariant says what a thread knows at each place of the   *)
(* code (AtPlace) and what the unique keys of the tables guarantee between *)
(* sessions (KeysHeldOnce); with them the three safety properties are      *)
(* inductive.                                                              *)
(***************************************************************************)
EXTENDS EngineWorker, TLAPS

(* Every effect the handlers of e owe has been committed. *)
Complete(e) == /\ e \in Sales => e \in db["sale"] /\ e \in db["stock"]
               /\ e \in Pairs => e \in db["assoc"]

InStock == {"stockRead", "stockWrite", "stockCommit"}
InSales == {"salesWrite", "salesCommit"}
Committing == {"stockCommit", "salesCommit", "commit"}

AtPlace(t) ==
  /\ pc[t] \in Handling <=> hand[t] # 0
  /\ pc[t] \in Handling \ {"check"} => Event(t) \notin Poison
  /\ pc[t] \in InStock \cup InSales => Event(t) \in Sales
  /\ pc[t] \in InSales => Event(t) \in Pairs /\ Event(t) \in db["sale"]
  /\ pc[t] \in {"mark", "commit"} => Complete(Event(t))
  /\ pc[t] = "ack" => Event(t) \in db["mark"]
  /\ pc[t] \notin Committing => txn[t] = {}
  /\ pc[t] = "stockCommit" => \/ txn[t] = {"sale", "stock"}
                              \/ txn[t] = {} /\ Event(t) \in db["sale"]
  /\ pc[t] = "salesCommit" => txn[t] = {"assoc"}
  /\ pc[t] = "commit" => txn[t] = {"mark"}

Unique == {"sale", "mark"}

KeysHeldOnce ==
  \A t \in Threads : \A r \in Unique :
    r \in txn[t] => /\ Event(t) \notin db[r]
                    /\ \A u \in Threads \ {t} : r \in txn[u] => Event(u) # Event(t)

IInv == /\ Types
        /\ \A t \in Threads : AtPlace(t)
        /\ KeysHeldOnce
        /\ SaleMovesStock
        /\ ProcessedIsComplete
        /\ AckedIsProcessed

-------------------------------------------------------------------------------
LEMMA InitIInv == Init => IInv
  BY WorkerAssumption DEF Init, IInv, Types, AtPlace, KeysHeldOnce, SaleMovesStock,
     ProcessedIsComplete, AckedIsProcessed, Rows, Handling, Committing, InStock, InSales,
     Complete, Unique

(* What a thread with a message in hand is working on. *)
LEMMA InHand ==
  ASSUME IInv, NEW t \in Threads, hand[t] # 0
  PROVE  /\ hand[t] \in 1..delivered
         /\ hand[t] \in 1..Len(stream)
         /\ Event(t) \in Events
  BY DEF IInv, Types, Event

(* A step that only moves a thread and its session.  The step keeps the    *)
(* tables and the redis state; it is enough to look at the thread itself.  *)
LEMMA LocalStep ==
  ASSUME IInv, NEW t \in Threads, UNCHANGED <<redis, db>>,
         life' \in [Procs -> {"down", "starting", "draining", "up"}],
         faults' \in 0..MaxFaults,
         NEW place \in Handling \cup {"take", "claim"}, pc' = [pc EXCEPT ![t] = place],
         batch' \in [Threads -> SUBSET (1..delivered)],
         NEW h \in 0..delivered, hand' = [hand EXCEPT ![t] = h],
         NEW x \in SUBSET Rows, txn' = [txn EXCEPT ![t] = x],
         AtPlace(t)',
         \A r \in Unique : r \in x =>
            /\ Event(t)' \notin db[r]
            /\ \A u \in Threads \ {t} : r \in txn[u] => Event(u) # Event(t)'
  PROVE  IInv'
  <1>1. Types'
    BY DEF IInv, Types, redis
  <1>2. ASSUME NEW u \in Threads PROVE AtPlace(u)'
    <2>1. CASE u = t
      BY <2>1
    <2>2. CASE u # t
      <3>1. /\ pc'[u] = pc[u] /\ hand'[u] = hand[u] /\ txn'[u] = txn[u]
            /\ stream' = stream /\ db' = db
        BY <2>2 DEF IInv, Types, redis
      <3>2. AtPlace(u)
        BY DEF IInv
      <3> QED
        BY <3>1, <3>2 DEF AtPlace, Event, Complete
    <2> QED
      BY <2>1, <2>2
  <1>3. KeysHeldOnce'
    <2> SUFFICES ASSUME NEW u \in Threads, NEW r \in Unique, r \in txn'[u]
                 PROVE  /\ Event(u)' \notin db'[r]
                        /\ \A v \in Threads \ {u} : r \in txn'[v] => Event(v)' # Event(u)'
      BY DEF KeysHeldOnce
    <2>1. /\ \A v \in Threads \ {t} : txn'[v] = txn[v] /\ Event(v)' = Event(v)
          /\ txn'[t] = x /\ db' = db
      BY DEF IInv, Types, redis, Event
    <2>2. CASE u = t
      BY <2>1, <2>2
    <2>3. CASE u # t
      <3>1. /\ Event(u) \notin db[r]
            /\ \A v \in Threads \ {u} : r \in txn[v] => Event(v) # Event(u)
        BY <2>1, <2>3 DEF IInv, KeysHeldOnce
      <3> QED
        BY <2>1, <2>3, <3>1
    <2> QED
      BY <2>2, <2>3
  <1>4. (SaleMovesStock /\ ProcessedIsComplete /\ AckedIsProcessed)'
    BY DEF IInv, SaleMovesStock, ProcessedIsComplete, AckedIsProcessed, redis
  <1> QED
    BY <1>1, <1>2, <1>3, <1>4 DEF IInv

-------------------------------------------------------------------------------
(* The handlers of a message, up to the commits. *)

LEMMA RaiseStep ==
  ASSUME IInv, NEW t \in Threads, Raise(t), faults' \in 0..MaxFaults
  PROVE  IInv'
  <1>1. AtPlace(t)'
    BY DEF IInv, Types, AtPlace, Raise, Goto, Handling, Committing, InStock, InSales
  <1>2. /\ UNCHANGED <<redis, db>>
        /\ life' \in [Procs -> {"down", "starting", "draining", "up"}]
        /\ batch' \in [Threads -> SUBSET (1..delivered)]
        /\ "take" \in Handling \cup {"take", "claim"}
        /\ pc' = [pc EXCEPT ![t] = "take"]
        /\ 0 \in 0..delivered /\ hand' = [hand EXCEPT ![t] = 0]
        /\ {} \in SUBSET Rows /\ txn' = [txn EXCEPT ![t] = {}]
    BY DEF Raise, Goto, IInv, Types
  <1> QED
    BY <1>1, <1>2, LocalStep

LEMMA HandlerStep ==
  ASSUME IInv, NEW t \in Threads,
         \/ SkipProcessed(t) \/ Dispatch(t) \/ ReadSalesFact(t) \/ WriteStock(t)
         \/ WriteSales(t) \/ Mark(t) \/ LoseRace(t)
  PROVE  IInv'
  <1> USE DEF Goto
  <1>0. /\ pc[t] \in Handling /\ hand[t] # 0 /\ AtPlace(t)
        /\ UNCHANGED <<redis, db, life, batch, hand, faults>>
        /\ Event(t)' = Event(t)
    BY DEF IInv, AtPlace, Handling, SkipProcessed, Dispatch, ReadSalesFact, WriteStock,
           WriteSales, Mark, LoseRace, redis, Event
  <1>1. Event(t) \in Events /\ hand[t] \in 0..delivered
    BY <1>0, InHand DEF IInv, Types
  <1> DEFINE Moves(place, x) ==
        /\ place \in Handling
        /\ pc' = [pc EXCEPT ![t] = place]
        /\ x \in SUBSET Rows
        /\ txn' = [txn EXCEPT ![t] = x]
        /\ AtPlace(t)'
        /\ \A r \in Unique : r \in x =>
             /\ Event(t) \notin db[r]
             /\ \A u \in Threads \ {t} : r \in txn[u] => Event(u) # Event(t)
  <1>2. ASSUME NEW place, NEW x, Moves(place, x) PROVE IInv'
    <2>1. /\ place \in Handling \cup {"take", "claim"}
          /\ pc' = [pc EXCEPT ![t] = place]
          /\ x \in SUBSET Rows /\ txn' = [txn EXCEPT ![t] = x]
          /\ AtPlace(t)'
          /\ \A r \in Unique : r \in x =>
               /\ Event(t)' \notin db[r]
               /\ \A u \in Threads \ {t} : r \in txn[u] => Event(u) # Event(t)'
      BY <1>0, <1>2 DEF Moves
    <2>2. /\ hand' = [hand EXCEPT ![t] = hand[t]]
          /\ hand[t] \in 0..delivered
          /\ faults' \in 0..MaxFaults
          /\ life' \in [Procs -> {"down", "starting", "draining", "up"}]
          /\ batch' \in [Threads -> SUBSET (1..delivered)]
          /\ UNCHANGED <<redis, db>>
      BY <1>0 DEF IInv, Types
    <2> QED
      BY <2>1, <2>2, LocalStep
  <1> HIDE DEF Moves
  <1>3. CASE SkipProcessed(t) \/ LoseRace(t)
    <2>1. /\ pc' = [pc EXCEPT ![t] = "ack"] /\ txn' = [txn EXCEPT ![t] = {}]
          /\ pc'[t] = "ack" /\ txn'[t] = {} /\ hand'[t] = hand[t]
          /\ Event(t) \in db["mark"] /\ db' = db
      BY <1>0, <1>3 DEF SkipProcessed, LoseRace, AtPlace, Committing, IInv, Types
    <2>2. Event(t) \notin Poison
      BY <1>0, <2>1, WorkerAssumption DEF IInv, Types, Rows
    <2>3. Moves("ack", {})
      BY <1>0, <2>1, <2>2 DEF Moves, AtPlace, Handling, Committing, InStock, InSales
    <2> QED
      BY <1>2, <2>3
  <1>4. CASE Dispatch(t)
    <2>1. CASE Event(t) \in Sales
      <3>1. Moves("stockRead", {})
        BY <1>0, <1>4, <2>1 DEF Moves, Dispatch, AtPlace, Handling, Committing, InStock, InSales, IInv, Types
      <3> QED
        BY <1>2, <3>1
    <2>2. CASE Event(t) \notin Sales
      <3>1. Complete(Event(t))'
        BY <1>0, <2>2, WorkerAssumption DEF Complete
      <3>2. Moves("mark", {})
        BY <1>0, <1>4, <2>2, <3>1 DEF Moves, Dispatch, AtPlace, Handling, Committing, InStock, InSales, IInv, Types
      <3> QED
        BY <1>2, <3>2
    <2> QED
      BY <2>1, <2>2
  <1>5. CASE ReadSalesFact(t)
    <2>1. CASE Event(t) \in db["sale"]
      <3>1. Moves("stockCommit", {})
        BY <1>0, <1>5, <2>1 DEF Moves, ReadSalesFact, AtPlace, Handling, Committing, InStock, InSales, IInv, Types
      <3> QED
        BY <1>2, <3>1
    <2>2. CASE Event(t) \notin db["sale"]
      <3>1. Moves("stockWrite", {})
        BY <1>0, <1>5, <2>2 DEF Moves, ReadSalesFact, AtPlace, Handling, Committing, InStock, InSales, IInv, Types
      <3> QED
        BY <1>2, <3>1
    <2> QED
      BY <2>1, <2>2
  <1>6. CASE WriteStock(t)
    <2>1. Moves("stockCommit", {"sale", "stock"})
      BY <1>0, <1>6 DEF Moves, WriteStock, KeyFree, AtPlace, Handling, Committing, InStock,
         InSales, IInv, Types, Rows, Unique
    <2> QED
      BY <1>2, <2>1
  <1>7. CASE WriteSales(t)
    <2>1. Event(t) \in db["sale"] /\ pc[t] = "salesWrite"
      BY <1>0, <1>7 DEF WriteSales, AtPlace, InSales
    <2>2. Moves("salesCommit", {"assoc"})
      BY <1>0, <1>7, <2>1 DEF Moves, WriteSales, AtPlace, Handling, Committing, InStock,
         InSales, IInv, Types, Rows, Unique
    <2> QED
      BY <1>2, <2>2
  <1>8. CASE Mark(t)
    <2>1. Complete(Event(t))'
      BY <1>0, <1>8 DEF Mark, AtPlace, Complete
    <2>2. Moves("commit", {"mark"})
      BY <1>0, <1>8, <2>1 DEF Moves, Mark, KeyFree, AtPlace, Handling, Committing, InStock,
         InSales, IInv, Types, Rows, Unique
    <2> QED
      BY <1>2, <2>2
  <1> QED
    BY <1>3, <1>4, <1>5, <1>6, <1>7, <1>8

-------------------------------------------------------------------------------
(* The commits: the rows of the transaction become visible. *)

(* What another thread relies on survives the commit of t: tables only     *)
(* grow, and a key t commits is held by nobody else.                       *)
LEMMA CommitStep ==
  ASSUME IInv, NEW t \in Threads, pc[t] \in Committing, Commit(t),
         NEW place \in Handling \ Committing, pc' = [pc EXCEPT ![t] = place],
         UNCHANGED <<redis, life, batch, hand, faults>>,
         AtPlace(t)', SaleMovesStock', ProcessedIsComplete'
  PROVE  IInv'
  <1>1. /\ AtPlace(t) /\ hand[t] # 0 /\ pc[t] # "check"
        /\ Event(t) \in Sales \cup Others
    BY InHand DEF IInv, AtPlace, Committing, Handling, Events
  <1>2. /\ db' \in [Rows -> SUBSET (Sales \cup Others)]
        /\ \A r \in Rows : db[r] \subseteq db'[r]
        /\ \A r \in Rows : r \notin txn[t] => db'[r] = db[r]
        /\ \A r \in Rows : db'[r] \subseteq db[r] \cup {Event(t)}
        /\ txn' \in [Threads -> SUBSET Rows] /\ txn'[t] = {}
        /\ \A u \in Threads \ {t} : txn'[u] = txn[u]
    BY <1>1 DEF Commit, IInv, Types
  <1>3. \A u \in Threads : Event(u)' = Event(u)
    BY DEF Event, redis
  <1>4. Types'
    BY <1>2 DEF IInv, Types, redis
  <1>5. ASSUME NEW u \in Threads PROVE AtPlace(u)'
    <2>1. CASE u = t
      BY <2>1
    <2>2. CASE u # t
      <3>1. pc'[u] = pc[u] /\ hand'[u] = hand[u] /\ txn'[u] = txn[u] /\ Event(u)' = Event(u)
        BY <1>2, <1>3, <2>2 DEF IInv, Types
      <3>2. AtPlace(u)
        BY DEF IInv
      <3>3. db["sale"] \subseteq db'["sale"] /\ db["stock"] \subseteq db'["stock"]
            /\ db["assoc"] \subseteq db'["assoc"] /\ db["mark"] \subseteq db'["mark"]
        BY <1>2 DEF Rows
      <3>4. Complete(Event(u)) => Complete(Event(u))'
        BY <3>1, <3>3 DEF Complete
      <3> QED
        BY <3>1, <3>2, <3>3, <3>4 DEF AtPlace
    <2> QED
      BY <2>1, <2>2
  <1>6. KeysHeldOnce'
    <2> SUFFICES ASSUME NEW u \in Threads, NEW r \in Unique, r \in txn'[u]
                 PROVE  /\ Event(u)' \notin db'[r]
                        /\ \A v \in Threads \ {u} : r \in txn'[v] => Event(v)' # Event(u)'
      BY DEF KeysHeldOnce
    <2>1. u # t /\ r \in txn[u] /\ r \in Rows
      BY <1>2 DEF Unique, Rows
    <2>2. /\ Event(u) \notin db[r]
          /\ \A v \in Threads \ {u} : r \in txn[v] => Event(v) # Event(u)
      BY <2>1 DEF IInv, KeysHeldOnce
    <2>3. Event(u) \notin db'[r]
      <3>1. CASE r \in txn[t]
        BY <3>1, <2>1, <2>2, <1>2
      <3>2. CASE r \notin txn[t]
        BY <3>2, <2>1, <2>2, <1>2
      <3> QED
        BY <3>1, <3>2
    <2>4. \A v \in Threads \ {u} : r \in txn'[v] => r \in txn[v]
      BY <1>2
    <2> QED
      BY <1>3, <2>2, <2>3, <2>4
  <1>7. AckedIsProcessed'
    BY <1>2 DEF IInv, AckedIsProcessed, redis, Rows
  <1> QED
    BY <1>4, <1>5, <1>6, <1>7 DEF IInv

LEMMA CommitsStep ==
  ASSUME IInv, NEW t \in Threads, CommitStock(t) \/ CommitSales(t) \/ CommitMark(t)
  PROVE  IInv'
  <1> USE DEF Goto
  <1>0. /\ AtPlace(t) /\ hand[t] # 0 /\ Commit(t) /\ pc[t] \in Committing
        /\ Event(t) \in Sales \cup Others /\ Event(t) \notin Poison
        /\ UNCHANGED <<redis, life, batch, hand, faults>>
        /\ Event(t)' = Event(t)
    <2>1. /\ AtPlace(t) /\ Commit(t) /\ pc[t] \in Committing
          /\ UNCHANGED <<redis, life, batch, hand, faults>>
      BY DEF IInv, CommitStock, CommitSales, CommitMark, Committing
    <2>2. hand[t] # 0 /\ Event(t) \notin Poison
      BY <2>1 DEF AtPlace, Committing, Handling
    <2> QED
      BY <2>1, <2>2, InHand DEF Event, redis, Events
  <1>1. /\ db["sale"] = db["stock"]
        /\ \A e \in db["mark"] : Complete(e)
        /\ db'["sale"] = IF "sale" \in txn[t] THEN db["sale"] \cup {Event(t)} ELSE db["sale"]
        /\ db'["stock"] = IF "stock" \in txn[t] THEN db["stock"] \cup {Event(t)} ELSE db["stock"]
        /\ db'["assoc"] = IF "assoc" \in txn[t] THEN db["assoc"] \cup {Event(t)} ELSE db["assoc"]
        /\ db'["mark"] = IF "mark" \in txn[t] THEN db["mark"] \cup {Event(t)} ELSE db["mark"]
        /\ txn'[t] = {}
    BY <1>0 DEF Commit, IInv, SaleMovesStock, ProcessedIsComplete, Complete, Rows, Types
  <1>2. CASE CommitStock(t)
    <2>1. /\ pc[t] = "stockCommit" /\ Event(t) \in Sales
          /\ Event(t) \in db'["sale"] /\ Event(t) \in db'["stock"]
          /\ db'["sale"] = db'["stock"] /\ db'["mark"] = db["mark"]
          /\ db'["assoc"] = db["assoc"] /\ db["sale"] \subseteq db'["sale"]
      BY <1>0, <1>1, <1>2 DEF CommitStock, AtPlace, InStock
    <2>2. SaleMovesStock' /\ ProcessedIsComplete'
      BY <1>1, <2>1 DEF SaleMovesStock, ProcessedIsComplete, Complete
    <2>3. CASE Event(t) \in Pairs
      <3>1. pc' = [pc EXCEPT ![t] = "salesWrite"] /\ pc'[t] = "salesWrite"
        BY <1>2, <2>3 DEF CommitStock, IInv, Types
      <3>2. AtPlace(t)'
        BY <1>0, <1>1, <2>1, <2>3, <3>1 DEF AtPlace, Handling, Committing, InStock, InSales
      <3> QED
        BY <1>0, <2>2, <3>1, <3>2, CommitStep DEF Handling, Committing
    <2>4. CASE Event(t) \notin Pairs
      <3>1. pc' = [pc EXCEPT ![t] = "mark"] /\ pc'[t] = "mark"
        BY <1>2, <2>4 DEF CommitStock, IInv, Types
      <3>2. AtPlace(t)'
        BY <1>0, <1>1, <2>1, <2>4, <3>1 DEF AtPlace, Handling, Committing, InStock, InSales, Complete
      <3> QED
        BY <1>0, <2>2, <3>1, <3>2, CommitStep DEF Handling, Committing
    <2> QED
      BY <2>3, <2>4
  <1>3. CASE CommitSales(t)
    <2>1. /\ pc[t] = "salesCommit" /\ pc' = [pc EXCEPT ![t] = "mark"] /\ pc'[t] = "mark"
          /\ Event(t) \in db'["sale"] /\ Event(t) \in db'["stock"] /\ Event(t) \in db'["assoc"]
          /\ db'["sale"] = db["sale"] /\ db'["stock"] = db["stock"] /\ db'["mark"] = db["mark"]
          /\ db["assoc"] \subseteq db'["assoc"]
      BY <1>0, <1>1, <1>3 DEF CommitSales, AtPlace, InSales, IInv, Types
    <2>2. SaleMovesStock' /\ ProcessedIsComplete'
      BY <1>1, <2>1 DEF SaleMovesStock, ProcessedIsComplete, Complete
    <2>3. AtPlace(t)'
      BY <1>0, <1>1, <2>1 DEF AtPlace, Handling, Committing, InStock, InSales, Complete
    <2> QED
      BY <1>0, <2>1, <2>2, <2>3, CommitStep DEF Handling, Committing
  <1>4. CASE CommitMark(t)
    <2>1. /\ pc[t] = "commit" /\ pc' = [pc EXCEPT ![t] = "ack"] /\ pc'[t] = "ack"
          /\ Complete(Event(t)) /\ db'["mark"] = db["mark"] \cup {Event(t)}
          /\ db'["sale"] = db["sale"] /\ db'["stock"] = db["stock"] /\ db'["assoc"] = db["assoc"]
      BY <1>0, <1>1, <1>4 DEF CommitMark, AtPlace, IInv, Types
    <2>2. SaleMovesStock' /\ ProcessedIsComplete'
      BY <1>1, <2>1 DEF SaleMovesStock, ProcessedIsComplete, Complete
    <2>3. AtPlace(t)'
      BY <1>0, <1>1, <2>1 DEF AtPlace, Handling, Committing, InStock, InSales
    <2> QED
      BY <1>0, <2>1, <2>2, <2>3, CommitStep DEF Handling, Committing
  <1> QED
    BY <1>2, <1>3, <1>4

-------------------------------------------------------------------------------
(* Steps that leave every session as it is: publishing, receiving, time. *)

LEMMA ReceiveStep ==
  ASSUME IInv, UNCHANGED <<db, hand, txn>>,
         \A u \in Threads : pc'[u] = pc[u] \/ {pc[u], pc'[u]} \subseteq {"take", "claim"},
         \A m \in 1..Len(stream) : stream'[m] = stream[m],
         Types', AckedIsProcessed'
  PROVE  IInv'
  <1>1. \A u \in Threads : hand[u] # 0 => Event(u)' = Event(u)
    BY InHand DEF Event
  <1>2. ASSUME NEW u \in Threads PROVE AtPlace(u)'
    <2>1. AtPlace(u) /\ hand'[u] = hand[u] /\ txn'[u] = txn[u] /\ db' = db
      BY DEF IInv
    <2>2. CASE hand[u] = 0
      BY <2>1, <2>2 DEF AtPlace, Handling, Committing, InStock, InSales
    <2>3. CASE hand[u] # 0
      <3>1. pc'[u] = pc[u] /\ Event(u)' = Event(u)
        BY <1>1, <2>1, <2>3 DEF AtPlace, Handling
      <3> QED
        BY <2>1, <3>1 DEF AtPlace, Complete
    <2> QED
      BY <2>2, <2>3
  <1>3. \A u \in Threads : \A r \in Unique : r \in txn[u] => hand[u] # 0
    BY DEF IInv, AtPlace, Committing, Handling
  <1>4. KeysHeldOnce'
    BY <1>1, <1>3 DEF IInv, KeysHeldOnce
  <1>5. SaleMovesStock' /\ ProcessedIsComplete'
    BY DEF IInv, SaleMovesStock, ProcessedIsComplete
  <1> QED
    BY <1>2, <1>4, <1>5 DEF IInv

(* The stream may grow at any time, by whoever adds to it. *)
LEMMA AppendStep ==
  ASSUME IInv, NEW e \in Events, stream' = Append(stream, e),
         UNCHANGED <<delivered, pending, idle, db, life, pc, batch, hand, txn, faults>>
  PROVE  IInv'
  <1>1. /\ stream' \in Seq(Events) /\ Len(stream') = Len(stream) + 1
        /\ \A m \in 1..Len(stream) : stream'[m] = stream[m]
    BY DEF IInv, Types
  <1>2. Types'
    BY <1>1 DEF IInv, Types
  <1>3. AckedIsProcessed'
    BY <1>1 DEF IInv, Types, AckedIsProcessed
  <1> QED
    BY <1>1, <1>2, <1>3, ReceiveStep

LEMMA EnvironmentStep ==
  ASSUME IInv,
         \/ \E e \in Events : Publish(e)
         \/ \E m \in pending : IdleElapses(m)
         \/ \E p \in Procs : Start(p) \/ Run(p)
         \/ \E t \in Threads : Claim(t)
  PROVE  IInv'
  <1>1. CASE \E e \in Events : Publish(e)
    BY <1>1, AppendStep DEF Publish
  <1>2. CASE \E m \in pending : IdleElapses(m)
    <2>1. Types' /\ AckedIsProcessed'
      BY <1>2 DEF IdleElapses, IInv, Types, AckedIsProcessed
    <2> QED
      BY <1>2, <2>1, ReceiveStep DEF IdleElapses
  <1>3. CASE \E p \in Procs : Start(p) \/ StartupDone(p)
    <2>1. Types' /\ AckedIsProcessed'
      BY <1>3 DEF Start, StartupDone, redis, IInv, Types, AckedIsProcessed
    <2> QED
      BY <1>3, <2>1, ReceiveStep DEF Start, StartupDone, redis
  <1>4. CASE \E p \in Procs : ReadNew(p)
    <2> PICK p \in Procs : ReadNew(p)
      BY <1>4
    <2> DEFINE t == <<p, "main">>
    <2>1. t \in Threads
      BY DEF Threads
    <2>2. /\ delivered \in Nat /\ delivered' \in Nat /\ delivered <= delivered'
          /\ delivered' <= Len(stream)
          /\ pending' = pending \cup ((delivered + 1)..delivered')
          /\ batch' = [batch EXCEPT ![t] = (delivered + 1)..delivered']
          /\ UNCHANGED <<stream, idle, db, life, pc, hand, txn, faults>>
      BY WorkerAssumption DEF ReadNew, IInv, Types
    <2>3. batch' \in [Threads -> SUBSET (1..delivered')]
      BY <2>1, <2>2 DEF IInv, Types
    <2>4. Types'
      BY <2>2, <2>3 DEF IInv, Types
    <2>5. AckedIsProcessed'
      BY <2>2 DEF IInv, Types, AckedIsProcessed
    <2> QED
      BY <2>2, <2>4, <2>5, ReceiveStep
  <1>5. CASE \E p \in Procs : ListPending(p, "main") \/ ListPending(p, "reclaim")
    <2> PICK p \in Procs, who \in {"main", "reclaim"} : ListPending(p, who)
      BY <1>5
    <2> DEFINE t == <<p, who>>
    <2>1. t \in Threads
      BY DEF Threads
    <2>2. /\ Oldest \cap idle \subseteq 1..delivered
          /\ batch' = [batch EXCEPT ![t] = Oldest \cap idle]
          /\ life' \in [Procs -> {"down", "starting", "draining", "up"}]
          /\ pc[t] = "take"
          /\ \/ pc' = [pc EXCEPT ![t] = "take"]
             \/ pc' = [pc EXCEPT ![t] = "claim"]
          /\ UNCHANGED <<redis, db, hand, txn, faults>>
      BY DEF ListPending, Resting, IInv, Types
    <2>3. \A u \in Threads : pc'[u] = pc[u] \/ {pc[u], pc'[u]} \subseteq {"take", "claim"}
      BY <2>1, <2>2 DEF IInv, Types
    <2>4. Types'
      BY <2>1, <2>2 DEF IInv, Types, redis
    <2>5. AckedIsProcessed'
      BY <2>2 DEF IInv, Types, AckedIsProcessed, redis
    <2> QED
      BY <2>2, <2>3, <2>4, <2>5, ReceiveStep DEF redis
  <1>6. CASE \E t \in Threads : Claim(t)
    <2> PICK t \in Threads : Claim(t)
      BY <1>6
    <2>1. \A u \in Threads : pc'[u] = pc[u] \/ {pc[u], pc'[u]} \subseteq {"take", "claim"}
      BY DEF Claim, IInv, Types
    <2>2. Types'
      BY DEF Claim, IInv, Types
    <2>3. AckedIsProcessed'
      BY DEF Claim, IInv, Types, AckedIsProcessed
    <2> QED
      BY <2>1, <2>2, <2>3, ReceiveStep DEF Claim
  <1> QED
    BY <1>1, <1>2, <1>3, <1>4, <1>5, <1>6 DEF Run

-------------------------------------------------------------------------------
(* Steps that end the handling of messages: acknowledgement and crash. *)

LEMMA DropStep ==
  ASSUME IInv, NEW own \in SUBSET Threads, UNCHANGED <<stream, db>>,
         pc' = [u \in Threads |-> IF u \in own THEN "take" ELSE pc[u]],
         hand' = [u \in Threads |-> IF u \in own THEN 0 ELSE hand[u]],
         txn' = [u \in Threads |-> IF u \in own THEN {} ELSE txn[u]],
         Types', AckedIsProcessed'
  PROVE  IInv'
  <1>1. ASSUME NEW u \in Threads PROVE AtPlace(u)'
    <2>1. CASE u \in own
      BY <2>1 DEF AtPlace, Handling, Committing, InStock, InSales
    <2>2. CASE u \notin own
      <3>1. AtPlace(u) /\ pc'[u] = pc[u] /\ hand'[u] = hand[u] /\ txn'[u] = txn[u]
        BY <2>2 DEF IInv
      <3> QED
        BY <3>1 DEF AtPlace, Event, Complete
    <2> QED
      BY <2>1, <2>2
  <1>2. \A u \in Threads : \A r \in txn'[u] : u \notin own /\ r \in txn[u] /\ Event(u)' = Event(u)
    BY DEF Event
  <1>3. KeysHeldOnce'
    BY <1>2 DEF IInv, KeysHeldOnce
  <1>4. SaleMovesStock' /\ ProcessedIsComplete'
    BY DEF IInv, SaleMovesStock, ProcessedIsComplete
  <1> QED
    BY <1>1, <1>3, <1>4 DEF IInv

LEMMA AckStep ==
  ASSUME IInv, NEW t \in Threads, Ack(t)
  PROVE  IInv'
  <1>1. AtPlace(t) /\ pc[t] = "ack" /\ hand[t] # 0 /\ stream[hand[t]] \in db["mark"] /\ txn[t] = {}
    BY DEF Ack, IInv, AtPlace, Handling, Event, Committing
  <1>2. Types'
    <2>1. /\ pending' \subseteq 1..delivered /\ idle' \subseteq pending'
          /\ UNCHANGED <<stream, delivered, db, life, batch, txn, faults>>
      BY DEF Ack, IInv, Types
    <2>2. pc' \in [Threads -> Handling \cup {"take", "claim"}] /\ hand' \in [Threads -> 0..delivered]
      BY DEF Ack, Goto, IInv, Types
    <2> QED
      BY <2>1, <2>2 DEF IInv, Types
  <1>3. AckedIsProcessed'
    BY <1>1 DEF Ack, IInv, AckedIsProcessed
  <1>4. /\ pc' = [u \in Threads |-> IF u \in {t} THEN "take" ELSE pc[u]]
        /\ hand' = [u \in Threads |-> IF u \in {t} THEN 0 ELSE hand[u]]
        /\ txn' = [u \in Threads |-> IF u \in {t} THEN {} ELSE txn[u]]
    BY <1>1 DEF Ack, Goto, IInv, Types
  <1> QED
    BY <1>2, <1>3, <1>4, DropStep DEF Ack

LEMMA CrashStep ==
  ASSUME IInv, NEW p \in Procs, Crash(p)
  PROVE  IInv'
  <1> DEFINE own == {p} \X {"main", "reclaim"}
  <1>1. own \in SUBSET Threads
    BY DEF Threads
  <1>2. /\ pc' = [u \in Threads |-> IF u \in own THEN "take" ELSE pc[u]]
        /\ batch' = [u \in Threads |-> IF u \in own THEN {} ELSE batch[u]]
        /\ hand' = [u \in Threads |-> IF u \in own THEN 0 ELSE hand[u]]
        /\ txn' = [u \in Threads |-> IF u \in own THEN {} ELSE txn[u]]
        /\ life' = [life EXCEPT ![p] = "down"]
        /\ faults < MaxFaults /\ faults' = faults + 1
        /\ UNCHANGED <<redis, db>>
    BY DEF Crash
  <1> HIDE DEF own
  <1>3. Types'
    BY <1>2, WorkerAssumption DEF IInv, Types, redis
  <1>4. AckedIsProcessed'
    BY <1>2 DEF IInv, AckedIsProcessed, redis
  <1> QED
    BY <1>1, <1>2, <1>3, <1>4, DropStep DEF redis

LEMMA TakeStep ==
  ASSUME IInv, NEW t \in Threads, Take(t)
  PROVE  IInv'
  <1> PICK m \in batch[t] : /\ hand' = [hand EXCEPT ![t] = m]
                            /\ batch' = [batch EXCEPT ![t] = @ \ {m}]
    BY DEF Take
  <1>1. /\ m \in 1..delivered /\ m \in 0..delivered /\ pc[t] = "take" /\ txn[t] = {}
        /\ pc' = [pc EXCEPT ![t] = "check"] /\ pc'[t] = "check" /\ hand'[t] = m
        /\ "check" \in Handling \cup {"take", "claim"}
        /\ txn' = [txn EXCEPT ![t] = {}] /\ txn'[t] = {}
        /\ batch' \in [Threads -> SUBSET (1..delivered)]
        /\ faults' \in 0..MaxFaults
        /\ life' \in [Procs -> {"down", "starting", "draining", "up"}]
        /\ UNCHANGED <<redis, db>>
    BY SMTT(30) DEF Take, IInv, Types, AtPlace, Committing, Handling
  <1>2. AtPlace(t)'
    BY <1>1 DEF AtPlace, Handling, Committing, InStock, InSales
  <1> QED
    BY <1>1, <1>2, LocalStep

LEMMA FailStep ==
  ASSUME IInv, NEW t \in Threads,
         RejectUnparsable(t) \/ DuplicateFact(t) \/ CallFails(t) \/ ReclaimFails(t)
  PROVE  IInv'
  <1>1. CASE RejectUnparsable(t) \/ DuplicateFact(t) \/ CallFails(t)
    BY <1>1, RaiseStep, WorkerAssumption DEF RejectUnparsable, DuplicateFact, CallFails, IInv, Types
  <1>2. CASE ReclaimFails(t)
    <2>1. /\ Types' /\ AckedIsProcessed'
      BY <1>2, WorkerAssumption DEF ReclaimFails, Goto, IInv, Types, redis, AckedIsProcessed
    <2>2. \A u \in Threads : pc'[u] = pc[u] \/ {pc[u], pc'[u]} \subseteq {"take", "claim"}
      BY <1>2 DEF ReclaimFails, Goto, IInv, Types
    <2> QED
      BY <1>2, <2>1, <2>2, ReceiveStep DEF ReclaimFails, redis
  <1> QED
    BY <1>1, <1>2

-------------------------------------------------------------------------------
LEMMA NextIInv == IInv /\ [Next]_vars => IInv'
  <1> SUFFICES ASSUME IInv, [Next]_vars PROVE IInv'
    OBVIOUS
  <1>1. CASE UNCHANGED vars
    BY <1>1 DEF vars, IInv, Types, AtPlace, KeysHeldOnce, SaleMovesStock, ProcessedIsComplete,
       AckedIsProcessed, Event, Complete
  <1>2. ASSUME NEW t \in Threads, Work(t) \/ CallFails(t) \/ ReclaimFails(t) PROVE IInv'
    BY <1>2, EnvironmentStep, TakeStep, HandlerStep, CommitsStep, AckStep, FailStep
       DEF Work, Handle
  <1>3. CASE \E p \in Procs : Crash(p)
    BY <1>3, CrashStep
  <1> QED
    BY <1>1, <1>2, <1>3, EnvironmentStep DEF Next

THEOREM Inductive == Spec => []IInv
  BY InitIInv, NextIInv, PTL DEF Spec

(* The state of the worker always has its types, and a thread goes to its  *)
(* next message with nothing of the last one left in its session.          *)
THEOREM TypeCorrect == Spec => []TypeOK
  <1>1. IInv => TypeOK
    BY DEF IInv, TypeOK, AtPlace, Committing
  <1> QED
    BY <1>1, Inductive, PTL

(* A message is acknowledged only when its event is marked as processed.   *)
THEOREM AckSafe == Spec => []AckedIsProcessed
  BY Inductive, PTL DEF IInv

(* A processed event has all the effects of its handlers, after any        *)
(* sequence of partial failures, crashes, retries and concurrent attempts. *)
THEOREM NoPartialEvent == Spec => []ProcessedIsComplete
  BY Inductive, PTL DEF IInv

(* A sales fact is never visible without its stock movement.               *)
THEOREM SalesAndStockAgree == Spec => []SaleMovesStock
  BY Inductive, PTL DEF IInv

-------------------------------------------------------------------------------
(* Refinement: what the tables and the stream show is EventEffects. *)

Published == {stream[m] : m \in 1..Len(stream)} \ Poison
Settled == {stream[m] : m \in (1..delivered) \ pending}

(* A step that leaves the mapped state functions alone is a stutter. *)
LEMMA Stutters ==
  ASSUME UNCHANGED db, UNCHANGED Published, UNCHANGED Settled
  PROVE  [Effects!Next]_(Effects!vars)
  <1>1. UNCHANGED Effects!vars
    BY DEF Effects!vars, Published, Settled
  <1> QED
    BY <1>1

LEMMA InitRefines == Init => Effects!Init
  BY DEF Init, Effects!Init, Rows

LEMMA PublishRefines ==
  ASSUME IInv, NEW e \in Events, Publish(e)
  PROVE  [Effects!Next]_(Effects!vars)
  <1>1. /\ stream' \in Seq(Events) /\ Len(stream') = Len(stream) + 1 /\ Len(stream) \in Nat
        /\ \A m \in 1..Len(stream) : stream'[m] = stream[m]
        /\ stream'[Len(stream) + 1] = e
        /\ delivered \in 0..Len(stream)
        /\ UNCHANGED <<delivered, pending, db>>
    BY DEF Publish, IInv, Types
  <1>2. Published' = Published \cup ({e} \ Poison)
    BY <1>1 DEF Published
  <1>3. Settled' = Settled
    BY <1>1 DEF Settled
  <1>4. CASE e \in Poison
    BY <1>1, <1>2, <1>3, <1>4, Stutters
  <1>5. CASE e \notin Poison
    <2>1. e \in Sales \cup Others
      BY <1>5 DEF Events
    <2>2. Effects!Publish(e)
      BY <1>1, <1>2, <1>3, <1>5 DEF Effects!Publish, Published, Settled
    <2> QED
      BY <2>1, <2>2 DEF Effects!Next
  <1> QED
    BY <1>4, <1>5

LEMMA CommitRefines ==
  ASSUME IInv, NEW t \in Threads, CommitStock(t) \/ CommitSales(t) \/ CommitMark(t)
  PROVE  [Effects!Next]_(Effects!vars)
  <1> DEFINE e == Event(t)
  <1>1. /\ AtPlace(t) /\ hand[t] # 0 /\ Commit(t) /\ e \notin Poison
        /\ hand[t] \in 1..Len(stream) /\ e \in Sales \cup Others
        /\ UNCHANGED redis
    <2>1. AtPlace(t) /\ Commit(t) /\ pc[t] \in Committing /\ UNCHANGED redis
      BY DEF IInv, CommitStock, CommitSales, CommitMark, Committing
    <2>2. hand[t] # 0 /\ e \notin Poison
      BY <2>1 DEF AtPlace, Committing, Handling
    <2> QED
      BY <2>1, <2>2, InHand DEF Events
  <1>2. e \in Published /\ Published' = Published /\ Settled' = Settled
    BY <1>1 DEF Published, Settled, Event, redis
  <1>3. /\ db["sale"] = db["stock"]
        /\ db'["sale"] = IF "sale" \in txn[t] THEN db["sale"] \cup {e} ELSE db["sale"]
        /\ db'["stock"] = IF "stock" \in txn[t] THEN db["stock"] \cup {e} ELSE db["stock"]
        /\ db'["assoc"] = IF "assoc" \in txn[t] THEN db["assoc"] \cup {e} ELSE db["assoc"]
        /\ db'["mark"] = IF "mark" \in txn[t] THEN db["mark"] \cup {e} ELSE db["mark"]
        /\ "sale" \in txn[t] => e \notin db["sale"]
        /\ "mark" \in txn[t] => e \notin db["mark"]
    BY <1>1 DEF Commit, IInv, SaleMovesStock, KeysHeldOnce, Unique, Rows, Types
  <1>4. CASE CommitStock(t)
    <2>1. pc[t] = "stockCommit" /\ e \in Sales
      BY <1>1, <1>4 DEF CommitStock, AtPlace, InStock
    <2>2. CASE txn[t] = {}
      <3>1. UNCHANGED db
        BY <1>1, <2>2 DEF Commit, IInv, Types
      <3> QED
        BY <1>2, <3>1, Stutters
    <2>3. CASE txn[t] = {"sale", "stock"}
      <3>1. Effects!Apply(e)
        BY <1>2, <1>3, <2>1, <2>3 DEF Effects!Apply, Published, Settled
      <3> QED
        BY <1>1, <3>1 DEF Effects!Next
    <2> QED
      BY <1>1, <2>1, <2>2, <2>3 DEF AtPlace
  <1>5. CASE CommitSales(t)
    <2>1. e \in Pairs /\ e \in db["sale"] /\ txn[t] = {"assoc"}
      BY <1>1, <1>5 DEF CommitSales, AtPlace, InSales
    <2>2. Effects!Associate(e)
      BY <1>2, <1>3, <2>1 DEF Effects!Associate, Published, Settled
    <2> QED
      BY <1>1, <2>2 DEF Effects!Next
  <1>6. CASE CommitMark(t)
    <2>1. Complete(e) /\ txn[t] = {"mark"}
      BY <1>1, <1>6 DEF CommitMark, AtPlace
    <2>2. Effects!Finish(e)
      BY <1>2, <1>3, <2>1 DEF Effects!Finish, Complete, Published, Settled
    <2> QED
      BY <1>1, <2>2 DEF Effects!Next
  <1> QED
    BY <1>4, <1>5, <1>6

LEMMA AckRefines ==
  ASSUME IInv, NEW t \in Threads, Ack(t)
  PROVE  [Effects!Next]_(Effects!vars)
  <1> DEFINE e == Event(t)
  <1>1. /\ pc[t] = "ack" /\ hand[t] \in 1..delivered /\ e \in db["mark"]
        /\ e \in Sales \cup Others
        /\ pending' = pending \ {hand[t]} /\ UNCHANGED <<stream, delivered, db>>
    <2>1. /\ pc[t] = "ack" /\ AtPlace(t)
          /\ pending' = pending \ {hand[t]} /\ UNCHANGED <<stream, delivered, db>>
      BY DEF Ack, IInv
    <2>2. hand[t] # 0 /\ e \in db["mark"] /\ e \notin Poison
      BY <2>1 DEF AtPlace, Handling
    <2> QED
      BY <2>1, <2>2, InHand DEF Events
  <1>2. Published' = Published /\ Settled' = Settled \cup {e}
    BY <1>1 DEF Published, Settled, Event
  <1> PICK x \in Sales \cup Others : x = e
    BY <1>1
  <1>3. Effects!Settle(x)
    BY <1>1, <1>2 DEF Effects!Settle, Published, Settled
  <1> QED
    BY <1>3 DEF Effects!Next

(* Receiving leaves the set of acknowledged messages as it is: what        *)
(* becomes delivered becomes pending in the same step.                     *)
LEMMA ReadNewRefines ==
  ASSUME IInv, NEW p \in Procs, ReadNew(p)
  PROVE  [Effects!Next]_(Effects!vars)
  <1>1. /\ (1..delivered') \ pending' = (1..delivered) \ pending
        /\ UNCHANGED <<stream, db>>
    BY WorkerAssumption DEF ReadNew, IInv, Types
  <1>2. Published' = Published /\ Settled' = Settled
    BY <1>1 DEF Published, Settled
  <1> QED
    BY <1>1, <1>2, Stutters

LEMMA StepRefines == IInv /\ [Next]_vars => [Effects!Next]_(Effects!vars)
  <1> SUFFICES ASSUME IInv, [Next]_vars PROVE [Effects!Next]_(Effects!vars)
    OBVIOUS
  <1>1. ASSUME UNCHANGED <<stream, delivered, pending, db>>
        PROVE  [Effects!Next]_(Effects!vars)
    BY <1>1, Stutters DEF Published, Settled
  <1>2. CASE UNCHANGED vars
    BY <1>1, <1>2 DEF vars
  <1>3. CASE \E e \in Events : Publish(e)
    BY <1>3, PublishRefines
  <1>4. CASE \E m \in pending : IdleElapses(m)
    BY <1>1, <1>4 DEF IdleElapses
  <1>5. CASE \E p \in Procs : Start(p) \/ Run(p) \/ Crash(p)
    <2> PICK p \in Procs : Start(p) \/ Run(p) \/ Crash(p)
      BY <1>5
    <2>1. ReadNew(p) \/ UNCHANGED <<stream, delivered, pending, db>>
      BY DEF Start, Run, Crash, StartupDone, ListPending, redis
    <2> QED
      BY <1>1, <2>1, ReadNewRefines
  <1>6. CASE \E t \in Threads : Work(t) \/ CallFails(t) \/ ReclaimFails(t)
    <2> PICK t \in Threads : Work(t) \/ CallFails(t) \/ ReclaimFails(t)
      BY <1>6
    <2>1. \/ CommitStock(t) \/ CommitSales(t) \/ CommitMark(t)
          \/ Ack(t)
          \/ UNCHANGED <<stream, delivered, pending, db>>
      BY DEF Work, Handle, CallFails, ReclaimFails, Claim, Take, RejectUnparsable, SkipProcessed,
         Dispatch, ReadSalesFact, WriteStock, DuplicateFact, WriteSales, Mark, LoseRace, Raise, redis
    <2> QED
      BY <1>1, <2>1, CommitRefines, AckRefines
  <1> QED
    BY <1>2, <1>3, <1>4, <1>5, <1>6 DEF Next

(* The worker implements EventEffects: each event is applied at most once, *)
(* in order, and settled only after it is complete.                        *)
THEOREM Refinement == Spec => ImplementsEffects
  BY Inductive, InitRefines, StepRefines, PTL DEF Spec, ImplementsEffects, Effects!Spec

===============================================================================
