---------------------------- MODULE PipelineProofs ----------------------------
(***************************************************************************)
(* Proofs about the event pipeline, for any number of relays, worker       *)
(* processes, events and failures.                                         *)
(*                                                                         *)
(* Relay and worker share the stream alone, so the invariants proved of    *)
(* each of them hold side by side: a step of one is a step the other       *)
(* tolerates.  What the pipeline promises follows from both at once.       *)
(***************************************************************************)
EXTENDS Pipeline, FiniteSetTheorems, TLAPS

RelayP == INSTANCE OutboxRelayProofs WITH
  pc <- relayPc, faults <- relayFaults, BatchSize <- RelayBatch, MaxFaults <- RelayFaults

WorkerP == INSTANCE EngineWorkerProofs WITH
  faults <- workerFaults, BatchSize <- WorkerBatch, MaxFaults <- WorkerFaults,
  MaxStream <- Cardinality(Events) * (RelayFaults + 1)

(* The invariants of both components, about one stream. *)
Inv == RelayP!Inv /\ WorkerP!IInv

-------------------------------------------------------------------------------
(* The parameters of the pipeline are parameters of its components. *)
LEMMA Parameters ==
  /\ RelayP!RelayAssumption
  /\ WorkerP!WorkerAssumption
  /\ WorkerP!Events = Events
  /\ Worker!Events = Events
<1>1. Cardinality(Events) * (RelayFaults + 1) \in Nat
  <2>1. Cardinality(Events) \in Nat
    BY PipelineAssumption, FS_CardinalityType
  <2> QED BY <2>1, PipelineAssumption
<1> QED
  BY <1>1, PipelineAssumption
     DEF RelayP!RelayAssumption, WorkerP!WorkerAssumption, WorkerP!Events, Worker!Events, Events

(* Each component has the library's cardinality under its own name.        *)
LEMMA SameCardinality ==
  ASSUME NEW S
  PROVE  /\ Relay!Cardinality(S) = Cardinality(S) /\ RelayP!Cardinality(S) = Cardinality(S)
         /\ Worker!Cardinality(S) = Cardinality(S) /\ WorkerP!Cardinality(S) = Cardinality(S)
  BY Zenon DEF Cardinality, Relay!Cardinality, RelayP!Cardinality, Worker!Cardinality,
     WorkerP!Cardinality

(* The components named here are those the pipeline is made of. *)
LEMMA SameRelay ==
  /\ Relay!Init => RelayP!Init
  /\ Relay!Next => RelayP!Next
<1>1. Relay!Init => RelayP!Init
  BY DEF Relay!Init, RelayP!Init
<1>2. ASSUME NEW r \in Relays, Relay!Work(r) PROVE RelayP!Work(r)
  <2>1. Relay!Select(r) => RelayP!Select(r)
    <3>1. ASSUME NEW rows PROVE Relay!Oldest(rows) = RelayP!Oldest(rows)
      BY SameCardinality DEF Relay!Oldest, RelayP!Oldest
    <3>2. Relay!Unpublished \ Relay!LockedByAny = RelayP!Unpublished \ RelayP!LockedByAny
      BY DEF Relay!Unpublished, Relay!LockedByAny, RelayP!Unpublished, RelayP!LockedByAny
    <3> QED
      BY <3>1, <3>2 DEF Relay!Select, Relay!Hold, RelayP!Select, RelayP!Hold
  <2>2. Relay!Start(r) \/ Relay!Xadd(r) => RelayP!Start(r) \/ RelayP!Xadd(r)
    BY DEF Relay!Start, Relay!Xadd, Relay!Current, RelayP!Start, RelayP!Xadd, RelayP!Current
  <2>3. Relay!MarkPublished(r) \/ Relay!NothingSent(r)
          => RelayP!MarkPublished(r) \/ RelayP!NothingSent(r)
    BY DEF Relay!MarkPublished, Relay!NothingSent, Relay!Release,
       RelayP!MarkPublished, RelayP!NothingSent, RelayP!Release
  <2> QED BY <1>2, <2>1, <2>2, <2>3 DEF Relay!Work, RelayP!Work
<1>3. ASSUME NEW r \in Relays, Relay!Fail(r) PROVE RelayP!Fail(r)
  BY <1>3 DEF Relay!Fail, Relay!XaddFails, Relay!Current, Relay!MarkFails, Relay!Crash,
     Relay!Release, RelayP!Fail, RelayP!XaddFails, RelayP!Current, RelayP!MarkFails,
     RelayP!Crash, RelayP!Release
<1>4. ASSUME NEW e \in Events, Relay!Record(e) PROVE RelayP!Record(e)
  BY <1>4 DEF Relay!Record, RelayP!Record
<1> QED
  BY <1>1, <1>2, <1>3, <1>4 DEF Relay!Next, RelayP!Next

(* The worker the pipeline is made of is the worker that is proved about. *)
LEMMA SameWorker ==
  /\ Worker!Init => WorkerP!Init
  /\ WorkerStep => WorkerP!Next
<1> USE Parameters
<1>1. Worker!Init => WorkerP!Init
  BY DEF Worker!Init, Worker!Rows, Worker!Threads, WorkerP!Init, WorkerP!Rows, WorkerP!Threads
<1>2. Worker!Threads = WorkerP!Threads
  BY DEF Worker!Threads, WorkerP!Threads
<1>3. ASSUME NEW m \in pending, Worker!IdleElapses(m) PROVE WorkerP!Next
  BY <1>3 DEF Worker!IdleElapses, WorkerP!IdleElapses, WorkerP!Next
<1>4. ASSUME NEW p \in Procs, Worker!Start(p) \/ Worker!Run(p) \/ Worker!Crash(p)
      PROVE  WorkerP!Next
  <2>1. Worker!Start(p) => WorkerP!Start(p)
    BY DEF Worker!Start, Worker!redis, WorkerP!Start, WorkerP!redis
  <2>2. Worker!StartupDone(p) => WorkerP!StartupDone(p)
    BY DEF Worker!StartupDone, Worker!Resting, Worker!redis,
       WorkerP!StartupDone, WorkerP!Resting, WorkerP!redis
  <2>3. Worker!ReadNew(p) => WorkerP!ReadNew(p)
    BY DEF Worker!ReadNew, Worker!Resting, WorkerP!ReadNew, WorkerP!Resting
  <2>4. ASSUME NEW who, Worker!ListPending(p, who) PROVE WorkerP!ListPending(p, who)
    BY <2>4, SameCardinality DEF Worker!ListPending, Worker!Resting, Worker!Oldest, Worker!redis,
       WorkerP!ListPending, WorkerP!Resting, WorkerP!Oldest, WorkerP!redis
  <2>5. Worker!Crash(p) => WorkerP!Crash(p)
    BY <1>2 DEF Worker!Crash, Worker!redis, WorkerP!Crash, WorkerP!redis
  <2> QED BY <1>4, <2>1, <2>2, <2>3, <2>4, <2>5 DEF Worker!Run, WorkerP!Run, WorkerP!Next
<1>5. ASSUME NEW t \in Worker!Threads, Worker!Work(t) \/ Worker!CallFails(t) \/ Worker!ReclaimFails(t)
      PROVE  WorkerP!Next
  <2> USE DEF Worker!Goto, Worker!Event, Worker!Raise, Worker!redis,
      WorkerP!Goto, WorkerP!Event, WorkerP!Raise, WorkerP!redis
  <2>1. /\ Worker!Claim(t) => WorkerP!Claim(t)
        /\ Worker!Take(t) => WorkerP!Take(t)
        /\ Worker!Ack(t) => WorkerP!Ack(t)
        /\ Worker!ReclaimFails(t) => WorkerP!ReclaimFails(t)
    BY DEF Worker!Claim, Worker!Take, Worker!Ack, Worker!ReclaimFails,
       WorkerP!Claim, WorkerP!Take, WorkerP!Ack, WorkerP!ReclaimFails
  <2>2. /\ Worker!RejectUnparsable(t) => WorkerP!RejectUnparsable(t)
        /\ Worker!SkipProcessed(t) => WorkerP!SkipProcessed(t)
        /\ Worker!Dispatch(t) => WorkerP!Dispatch(t)
        /\ Worker!CallFails(t) => WorkerP!CallFails(t)
    BY DEF Worker!RejectUnparsable, Worker!SkipProcessed, Worker!Dispatch, Worker!CallFails,
       Worker!Handling, WorkerP!RejectUnparsable, WorkerP!SkipProcessed, WorkerP!Dispatch,
       WorkerP!CallFails, WorkerP!Handling
  <2>3. /\ Worker!ReadSalesFact(t) => WorkerP!ReadSalesFact(t)
        /\ Worker!DuplicateFact(t) => WorkerP!DuplicateFact(t)
        /\ Worker!LoseRace(t) => WorkerP!LoseRace(t)
    BY DEF Worker!ReadSalesFact, Worker!DuplicateFact, Worker!LoseRace,
       WorkerP!ReadSalesFact, WorkerP!DuplicateFact, WorkerP!LoseRace
  <2>4. /\ Worker!WriteStock(t) => WorkerP!WriteStock(t)
        /\ Worker!WriteSales(t) => WorkerP!WriteSales(t)
        /\ Worker!Mark(t) => WorkerP!Mark(t)
    BY <1>2 DEF Worker!WriteStock, Worker!WriteSales, Worker!Mark, Worker!KeyFree,
       WorkerP!WriteStock, WorkerP!WriteSales, WorkerP!Mark, WorkerP!KeyFree
  <2>5. /\ Worker!CommitStock(t) => WorkerP!CommitStock(t)
        /\ Worker!CommitSales(t) => WorkerP!CommitSales(t)
        /\ Worker!CommitMark(t) => WorkerP!CommitMark(t)
    BY DEF Worker!CommitStock, Worker!CommitSales, Worker!CommitMark, Worker!Commit, Worker!Rows,
       WorkerP!CommitStock, WorkerP!CommitSales, WorkerP!CommitMark, WorkerP!Commit, WorkerP!Rows
  <2>6. Worker!Handle(t) => WorkerP!Handle(t)
    BY <2>1, <2>2, <2>3, <2>4, <2>5 DEF Worker!Handle, WorkerP!Handle
  <2> QED
    BY <1>2, <1>5, <2>1, <2>2, <2>6 DEF Worker!Work, WorkerP!Work, WorkerP!Next
<1> QED
  BY <1>1, <1>3, <1>4, <1>5 DEF WorkerStep

(* Only the relay adds to the stream. *)
LEMMA WorkerKeepsStream == WorkerStep => UNCHANGED stream
<1>1. ASSUME NEW m \in pending, Worker!IdleElapses(m) PROVE UNCHANGED stream
  BY <1>1 DEF Worker!IdleElapses
<1>2. ASSUME NEW p \in Procs, Worker!Start(p) \/ Worker!Run(p) \/ Worker!Crash(p)
      PROVE  UNCHANGED stream
  BY <1>2 DEF Worker!Start, Worker!Run, Worker!StartupDone, Worker!ReadNew, Worker!ListPending,
     Worker!Crash, Worker!redis
<1>3. ASSUME NEW t \in Worker!Threads,
             Worker!Work(t) \/ Worker!CallFails(t) \/ Worker!ReclaimFails(t)
      PROVE  UNCHANGED stream
  BY <1>3 DEF Worker!Work, Worker!Claim, Worker!Take, Worker!Handle, Worker!RejectUnparsable,
     Worker!SkipProcessed, Worker!Dispatch, Worker!ReadSalesFact, Worker!WriteStock,
     Worker!DuplicateFact, Worker!CommitStock, Worker!WriteSales, Worker!CommitSales,
     Worker!Mark, Worker!LoseRace, Worker!CommitMark, Worker!Ack, Worker!CallFails,
     Worker!ReclaimFails, Worker!Raise, Worker!redis
<1> QED BY <1>1, <1>2, <1>3 DEF WorkerStep

-------------------------------------------------------------------------------
(* Both components start as they do alone. *)
LEMMA InitInv == Init => Inv
<1>1. Relay!Init => RelayP!Inv
  BY SameRelay, Parameters, RelayP!InitInv
<1>2. Worker!Init => WorkerP!IInv
  BY SameWorker, Parameters, WorkerP!InitIInv
<1> QED BY <1>1, <1>2 DEF Init, Inv

(* A relay changes the stream by adding an event to it, or not at all. *)
LEMMA RelayAppends ==
  ASSUME RelayP!Inv, RelayP!Next
  PROVE  \/ UNCHANGED stream
         \/ /\ UNCHANGED outbox
            /\ \E e \in Events : outbox[e] # "none" /\ stream' = Append(stream, e)
<1>1. ASSUME NEW r \in Relays, NEW e \in Events, RelayP!Current(r, e)
      PROVE  outbox[e] # "none"
  <2>1. e \in locked[r]
    BY <1>1 DEF RelayP!Current, RelayP!Inv, RelayP!TypeOK
  <2> QED BY <2>1 DEF RelayP!Inv, RelayP!Exclusive
<1>2. ASSUME NEW r \in Relays, RelayP!Xadd(r)
      PROVE  /\ UNCHANGED outbox
             /\ \E e \in Events : outbox[e] # "none" /\ stream' = Append(stream, e)
  BY <1>1, <1>2 DEF RelayP!Xadd
<1>3. ASSUME NEW r \in Relays, RelayP!XaddFails(r)
      PROVE  /\ UNCHANGED outbox
             /\ \E e \in Events : /\ outbox[e] # "none"
                                  /\ stream' = stream \/ stream' = Append(stream, e)
  BY <1>1, <1>3 DEF RelayP!XaddFails
<1>4. ASSUME NEW r \in Relays,
             \/ RelayP!Start(r) \/ RelayP!Select(r) \/ RelayP!MarkPublished(r)
             \/ RelayP!NothingSent(r) \/ RelayP!MarkFails(r) \/ RelayP!Crash(r)
      PROVE  UNCHANGED stream
  BY <1>4 DEF RelayP!Start, RelayP!Select, RelayP!Hold, RelayP!MarkPublished,
     RelayP!NothingSent, RelayP!MarkFails, RelayP!Crash
<1>5. ASSUME NEW e \in Events, RelayP!Record(e)
      PROVE  UNCHANGED stream
  BY <1>5 DEF RelayP!Record
<1> QED
  BY <1>2, <1>3, <1>4, <1>5 DEF RelayP!Next, RelayP!Work, RelayP!Fail

(* A step of one component is a stutter of the other, except for what the *)
(* relay adds to the stream, which the worker's invariant tolerates.       *)
LEMMA StepInv ==
  ASSUME Inv, [Next]_vars
  PROVE  Inv'
<1> USE Parameters DEF Inv
<1>1. CASE RelayStep
  <2>1. RelayP!Next /\ UNCHANGED workerVars
    BY <1>1, SameRelay DEF RelayStep
  <2>2. RelayP!Inv'
    BY <2>1, RelayP!StepInv
  <2>3. CASE UNCHANGED stream
    <3>1. UNCHANGED WorkerP!vars
      BY <2>1, <2>3 DEF workerVars, WorkerP!vars
    <3> QED BY <2>2, <3>1, WorkerP!NextIInv
  <2>4. CASE \E e \in Events : stream' = Append(stream, e)
    <3> PICK e \in WorkerP!Events : stream' = Append(stream, e)
      BY <2>4
    <3>1. UNCHANGED <<delivered, pending, idle, db, life, pc, batch, hand, txn, workerFaults>>
      BY <2>1 DEF workerVars
    <3>2. WorkerP!IInv'
      BY <3>1, WorkerP!AppendStep
    <3> QED BY <2>2, <3>2
  <2> QED BY <2>1, <2>3, <2>4, RelayAppends
<1>2. CASE WorkerStep
  <2>1. WorkerP!Next /\ UNCHANGED relayVars
    BY <1>2, SameWorker DEF WorkerStep
  <2>2. UNCHANGED stream
    BY <1>2, WorkerKeepsStream
  <2>3. UNCHANGED RelayP!vars
    BY <2>1, <2>2 DEF relayVars, RelayP!vars
  <2>4. RelayP!Inv'
    BY <2>3, RelayP!StepInv
  <2> QED BY <2>1, <2>4, WorkerP!NextIInv
<1>3. CASE UNCHANGED vars
  <2>1. UNCHANGED RelayP!vars /\ UNCHANGED WorkerP!vars
    BY <1>3 DEF vars, relayVars, workerVars, RelayP!vars, WorkerP!vars
  <2> QED BY <2>1, RelayP!StepInv, WorkerP!NextIInv
<1> QED BY <1>1, <1>2, <1>3 DEF Next

(* The invariants of the components hold side by side. *)
THEOREM Inductive == Spec => []Inv
<1>1. Init => Inv
  BY InitInv
<1>2. Inv /\ [Next]_vars => Inv'
  BY StepInv
<1> QED BY <1>1, <1>2, PTL DEF Spec

(* An event whose row is closed is processed, or is still on its way: the  *)
(* relay closed the row after the XADD, and the worker acknowledges after  *)
(* the mark, whoever failed or died in between.                            *)
THEOREM NothingIsDropped == Spec => []NothingDropped
<1>1. Inv => NothingDropped
  <2> SUFFICES ASSUME Inv, NEW e \in Events, outbox[e] = "published"
               PROVE  \/ e \in db["mark"]
                      \/ \E m \in 1..Len(stream) :
                           stream[m] = e /\ (m > delivered \/ m \in pending)
    BY DEF NothingDropped
  <2>1. PICK m \in 1..Len(stream) : stream[m] = e
    BY DEF Inv, RelayP!Inv, RelayP!SentIsOnStream, RelayP!Counted, RelayP!OnStream
  <2>2. delivered \in Nat
    BY Parameters DEF Inv, WorkerP!IInv, WorkerP!Types
  <2>3. CASE m \in (1..delivered) \ pending
    BY <2>1, <2>3 DEF Inv, WorkerP!IInv, WorkerP!AckedIsProcessed
  <2>4. CASE m \notin (1..delivered) \ pending
    BY <2>1, <2>2, <2>4
  <2> QED BY <2>3, <2>4
<1> QED BY <1>1, Inductive, PTL

-------------------------------------------------------------------------------
(* Refinement: the worker is known to implement EventEffects for what is   *)
(* on the stream; the pipeline implements it for what is in the outbox.    *)

Committed == {e \in Events : outbox[e] # "none"} \ Poison
Settled == {stream[m] : m \in (1..delivered) \ pending}

(* What the promise sees: tables, recorded and settled events.             *)
LEMMA Stutters ==
  ASSUME UNCHANGED <<db, Committed, Settled>>
  PROVE  [Effects!Next]_(Effects!vars)
<1>1. UNCHANGED Effects!vars
  BY DEF Effects!vars, Committed, Settled
<1> QED BY <1>1

(* Nothing is recorded and nothing applied at the start.                   *)
LEMMA InitRefines == Init => Effects!Init
  BY DEF Init, Relay!Init, Worker!Init, Worker!Rows, Effects!Init

(* The relay commits to an event when its row is recorded; where it puts   *)
(* the event on the stream is no step of the promise.                      *)
LEMMA RelayRefines ==
  ASSUME Inv, RelayStep
  PROVE  [Effects!Next]_(Effects!vars)
<1>1. RelayP!Next /\ UNCHANGED <<delivered, pending, db>>
  BY SameRelay DEF RelayStep, workerVars
<1>2. Settled' = Settled
  <2>1. /\ stream \in Seq(Events) /\ delivered \in 0..Len(stream)
        /\ UNCHANGED stream \/ \E e \in Events : stream' = Append(stream, e)
    BY <1>1, RelayAppends, Parameters DEF Inv, RelayP!Inv, WorkerP!IInv, WorkerP!Types
  <2>2. \A m \in (1..delivered) \ pending : stream'[m] = stream[m]
    BY <2>1
  <2> QED BY <1>1, <2>2 DEF Settled
<1>3. ASSUME NEW e \in Events, RelayP!Record(e)
      PROVE  [Effects!Next]_(Effects!vars)
  <2>1. Committed' = Committed \cup ({e} \ Poison)
    BY <1>3 DEF RelayP!Record, Committed, Inv, RelayP!Inv, RelayP!TypeOK
  <2>2. CASE e \in Poison
    BY <1>1, <1>2, <2>1, <2>2, Stutters
  <2>3. CASE e \notin Poison
    <3>1. e \in Sales \cup Others
      BY <2>3 DEF Events
    <3>2. Effects!Publish(e)
      BY <1>1, <1>2, <2>1, <2>3 DEF Effects!Publish, Committed, Settled
    <3> QED BY <3>1, <3>2 DEF Effects!Next
  <2> QED BY <2>2, <2>3
<1>4. ASSUME NEW r \in Relays, RelayP!MarkPublished(r)
      PROVE  [Effects!Next]_(Effects!vars)
  <2>1. \A e \in sent[r] : outbox[e] = "unpublished"
    BY DEF Inv, RelayP!Inv, RelayP!TypeOK, RelayP!Exclusive
  <2>2. Committed' = Committed
    BY <1>4, <2>1 DEF RelayP!MarkPublished, Committed
  <2> QED BY <1>1, <1>2, <2>2, Stutters
<1>5. CASE UNCHANGED outbox
  BY <1>1, <1>2, <1>5, Stutters DEF Committed
<1>6. ASSUME NEW r \in Relays, RelayP!Work(r) \/ RelayP!Fail(r), ~RelayP!MarkPublished(r)
      PROVE  UNCHANGED outbox
  BY <1>6 DEF RelayP!Work, RelayP!Start, RelayP!Select, RelayP!Hold, RelayP!Xadd,
     RelayP!NothingSent, RelayP!Fail, RelayP!XaddFails, RelayP!MarkFails, RelayP!Crash
<1> QED BY <1>1, <1>3, <1>4, <1>5, <1>6 DEF RelayP!Next

(* A step of the worker is a step of the promise about the stream, and     *)
(* what is on the stream is in the outbox.                                 *)
LEMMA WorkerRefines ==
  ASSUME Inv, WorkerStep
  PROVE  [Effects!Next]_(Effects!vars)
<1>1. WorkerP!Next /\ UNCHANGED <<stream, outbox>>
  BY SameWorker, WorkerKeepsStream DEF WorkerStep, relayVars
<1>2. [WorkerP!Effects!Next]_(WorkerP!Effects!vars)
  BY <1>1, Parameters, WorkerP!StepRefines DEF Inv
<1>3. WorkerP!Published \subseteq Committed
  BY Parameters
     DEF WorkerP!Published, Committed, Inv, RelayP!Inv, RelayP!TypeOK, RelayP!SentIsOnStream
<1>4. Committed' = Committed
  BY <1>1 DEF Committed
<1>5. CASE UNCHANGED WorkerP!Effects!vars
  <2>1. UNCHANGED Effects!vars
    BY <1>4, <1>5 DEF WorkerP!Effects!vars, Effects!vars, Committed
  <2> QED BY <2>1
<1>6. ASSUME NEW e \in Sales \cup Others, WorkerP!Effects!Publish(e)
      PROVE  UNCHANGED Effects!vars
  BY <1>4, <1>6 DEF WorkerP!Effects!Publish, Effects!vars, Committed
<1>7. ASSUME NEW e \in Sales \cup Others,
             \/ WorkerP!Effects!Apply(e) \/ WorkerP!Effects!Associate(e)
             \/ WorkerP!Effects!Finish(e) \/ WorkerP!Effects!Settle(e)
      PROVE  Effects!Next
  <2>1. \/ Effects!Apply(e) \/ Effects!Associate(e) \/ Effects!Finish(e) \/ Effects!Settle(e)
    BY <1>3, <1>4, <1>7
       DEF WorkerP!Published, Committed, WorkerP!Effects!Apply, WorkerP!Effects!Associate,
           WorkerP!Effects!Finish, WorkerP!Effects!Settle,
           Effects!Apply, Effects!Associate, Effects!Finish, Effects!Settle
  <2> QED BY <2>1 DEF Effects!Next
<1> QED BY <1>2, <1>5, <1>6, <1>7 DEF WorkerP!Effects!Next

(* The pipeline implements EventEffects: from the business transaction to  *)
(* the engine tables an event is applied at most once, completely, and     *)
(* settled only then, over duplicates, retries and crashes on both sides.  *)
THEOREM PipelineRefinement == Spec => ImplementsEffects
<1>1. Init => Effects!Init
  BY InitRefines
<1>2. Inv /\ [Next]_vars => [Effects!Next]_(Effects!vars)
  <2>1. ASSUME UNCHANGED vars PROVE UNCHANGED <<db, Committed, Settled>>
    BY <2>1 DEF vars, relayVars, workerVars, Committed, Settled
  <2> QED BY <2>1, RelayRefines, WorkerRefines, Stutters DEF Next
<1> QED BY <1>1, <1>2, Inductive, PTL DEF Spec, ImplementsEffects, Effects!Spec
===============================================================================
