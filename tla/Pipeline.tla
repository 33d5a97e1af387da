------------------------------- MODULE Pipeline -------------------------------
(***************************************************************************)
(* The event pipeline: business transactions write rows of event_outbox,   *)
(* the relays copy them to the Redis stream, the engine workers apply what *)
(* the stream delivers.  The relay and the worker share nothing but the    *)
(* stream; a step of the pipeline is a step of one of them.                *)
(***************************************************************************)
EXTENDS Naturals, Sequences, FiniteSets

CONSTANTS Relays, RelayBatch, RelayFaults,             \* see OutboxRelay
          Procs, WorkerBatch, ReclaimCount, WorkerFaults,  \* see EngineWorker
          Sales, Pairs, Others, Poison                 \* rows, by created_at

Events == Sales \cup Others \cup Poison

ASSUME PipelineAssumption ==
  /\ Events \subseteq Nat /\ IsFiniteSet(Events)
  /\ Pairs \subseteq Sales
  /\ Sales \cap Others = {} /\ Poison \cap (Sales \cup Others) = {}
  /\ {RelayBatch, WorkerBatch, ReclaimCount} \subseteq Nat \ {0}
  /\ {RelayFaults, WorkerFaults} \subseteq Nat

VARIABLES outbox, relayPc, locked, left, sent, relayFaults,
          stream,
          delivered, pending, idle, db, life, pc, batch, hand, txn, workerFaults

relayVars == <<outbox, relayPc, locked, left, sent, relayFaults>>
workerVars == <<delivered, pending, idle, db, life, pc, batch, hand, txn, workerFaults>>
vars == <<relayVars, stream, workerVars>>

Relay == INSTANCE OutboxRelay WITH
  pc <- relayPc, faults <- relayFaults, BatchSize <- RelayBatch, MaxFaults <- RelayFaults

Worker == INSTANCE EngineWorker WITH
  faults <- workerFaults, BatchSize <- WorkerBatch, MaxFaults <- WorkerFaults,
  MaxStream <- Cardinality(Events) * (RelayFaults + 1)

Init == Relay!Init /\ Worker!Init

RelayStep == Relay!Next /\ UNCHANGED workerVars

WorkerStep ==
  /\ \/ \E m \in pending : Worker!IdleElapses(m)
     \/ \E p \in Procs : Worker!Start(p) \/ Worker!Run(p) \/ Worker!Crash(p)
     \/ \E t \in Worker!Threads : Worker!Work(t) \/ Worker!CallFails(t) \/ Worker!ReclaimFails(t)
  /\ UNCHANGED relayVars

Next == RelayStep \/ WorkerStep

Spec == Init /\ [][Next]_vars

(* Both components keep the fairness they have on their own. *)
LiveSpec ==
  /\ Spec
  /\ \A r \in Relays : WF_vars(Relay!Work(r) /\ UNCHANGED workerVars)
  /\ \A m \in 1..Cardinality(Events) * (RelayFaults + 1) :
       WF_vars(Worker!IdleElapses(m) /\ UNCHANGED relayVars)
  /\ \A p \in Procs :
       /\ WF_vars(Worker!Start(p) /\ UNCHANGED relayVars)
       /\ WF_vars(Worker!StartupDone(p) /\ UNCHANGED relayVars)
       /\ WF_vars(Worker!ReadNew(p) /\ UNCHANGED relayVars)
       /\ WF_vars(Worker!ListPending(p, "main") /\ UNCHANGED relayVars)
       /\ WF_vars(Worker!ListPending(p, "reclaim") /\ UNCHANGED relayVars)
  /\ \A t \in Worker!Threads : WF_vars(Worker!Work(t) /\ UNCHANGED relayVars)
-------------------------------------------------------------------------------
(* A row that is closed in the outbox and acknowledged on the stream is    *)
(* gone for good: then its event has been processed.                       *)
NothingDropped ==
  \A e \in Events :
    outbox[e] = "published" =>
      \/ e \in db["mark"]
      \/ \E m \in 1..Len(stream) : stream[m] = e /\ (m > delivered \/ m \in pending)

(* From the business transaction to the engine tables: whatever is         *)
(* duplicated, retried, reclaimed or lost with a process on the way, the   *)
(* effects of a committed change are applied once and completely.          *)
Effects == INSTANCE EventEffects WITH
  published <- {e \in Events : outbox[e] # "none"} \ Poison,
  recorded <- db["sale"],
  moved <- db["stock"],
  associated <- db["assoc"],
  done <- db["mark"],
  settled <- {stream[m] : m \in (1..delivered) \ pending}

ImplementsEffects == Effects!Spec

(* Every committed change that the worker can parse is processed. *)
EventuallyProcessed ==
  \A e \in Events \ Poison : (outbox[e] = "unpublished") ~> (e \in db["mark"])

(* docs/architecture/components.md says the outbox "ensures reliable event *)
(* delivery"; all the events the vertical writes are meant.                *)
EveryEventProcessed ==
  \A e \in Events : (outbox[e] = "unpublished") ~> (e \in db["mark"])
===============================================================================
