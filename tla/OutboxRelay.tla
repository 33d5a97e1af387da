------------------------------ MODULE OutboxRelay ------------------------------
(***************************************************************************)
(* The outbox relay: processes that copy the rows of event_outbox to the   *)
(* Redis stream.                                                           *)
(*                                                                         *)
(* A row appears when the business transaction that wrote it commits.  A   *)
(* relay selects the oldest unpublished rows FOR UPDATE SKIP LOCKED, adds  *)
(* them to the stream one by one, and then sets published_at on the rows   *)
(* whose XADD succeeded and commits.  Several relays may run.  An event is *)
(* a number: created_at orders the rows, and since it is the time at which *)
(* a transaction began, rows may appear in any order.                      *)
(***************************************************************************)
EXTENDS Naturals, Sequences, FiniteSets

CONSTANTS Relays,     \* relay processes
          Events,     \* rows of event_outbox, numbered by created_at
          BatchSize,  \* BATCH_SIZE
          MaxFaults   \* bound: failed calls and process crashes

ASSUME RelayAssumption ==
  /\ Events \subseteq Nat
  /\ BatchSize \in Nat \ {0}
  /\ MaxFaults \in Nat

VARIABLES
  outbox,  \* outbox[e]: "none", "unpublished" or "published"
  stream,  \* the Redis stream
  pc,      \* pc[r]: "down", "poll" or "send"
  locked,  \* locked[r]: rows locked by the transaction of relay r
  left,    \* left[r]: rows of the batch still to be added
  sent,    \* sent[r]: published_ids
  faults

vars == <<outbox, stream, pc, locked, left, sent, faults>>

(* Beyond the types: a relay works on rows it has locked, and holds locks  *)
(* only while it does.                                                     *)
TypeOK ==
  /\ outbox \in [Events -> {"none", "unpublished", "published"}]
  /\ stream \in Seq(Events)
  /\ pc \in [Relays -> {"down", "poll", "send"}]
  /\ locked \in [Relays -> SUBSET Events]
  /\ left \in [Relays -> SUBSET Events]
  /\ sent \in [Relays -> SUBSET Events]
  /\ faults \in 0..MaxFaults
  /\ \A r \in Relays : /\ left[r] \cup sent[r] \subseteq locked[r]
                       /\ left[r] \cap sent[r] = {}
                       /\ pc[r] # "send" => locked[r] = {}

Init ==
  /\ outbox = [e \in Events |-> "none"]
  /\ stream = <<>>
  /\ pc = [r \in Relays |-> "down"]
  /\ locked = [r \in Relays |-> {}]
  /\ left = [r \in Relays |-> {}]
  /\ sent = [r \in Relays |-> {}]
  /\ faults = 0

-------------------------------------------------------------------------------
(* write_event: the row commits with the business change. *)
Record(e) ==
  /\ outbox[e] = "none"
  /\ outbox' = [outbox EXCEPT ![e] = "unpublished"]
  /\ UNCHANGED <<stream, pc, locked, left, sent, faults>>

(* The relay starts; the consumer group it ensures begins at entry 0, so   *)
(* it does not matter whether the group or the messages come first.        *)
Start(r) ==
  /\ pc[r] = "down"
  /\ pc' = [pc EXCEPT ![r] = "poll"]
  /\ UNCHANGED <<outbox, stream, locked, left, sent, faults>>

Unpublished == {e \in Events : outbox[e] = "unpublished"}

LockedByAny == UNION {locked[r] : r \in Relays}

(* The first BatchSize of a set of rows, by created_at. *)
Oldest(rows) == {e \in rows : Cardinality({k \in rows : k < e}) < BatchSize}

Hold(r, rows) ==
  /\ pc[r] = "poll"
  /\ rows # {}
  /\ pc' = [pc EXCEPT ![r] = "send"]
  /\ locked' = [locked EXCEPT ![r] = rows]
  /\ left' = [left EXCEPT ![r] = rows]
  /\ UNCHANGED <<outbox, stream, sent, faults>>

(* Mutant of Select: rows locked by another relay are read all the same. *)
SelectWithoutLock(r) == Hold(r, Oldest(Unpublished))

Select(r) == Hold(r, Oldest(Unpublished \ LockedByAny))

(* The next event of the batch, oldest first. *)
Current(r, e) ==
  /\ pc[r] = "send"
  /\ e \in left[r]
  /\ \A k \in left[r] : e <= k

(* Mutant of Xadd: an event counts as published before it is added. *)
XaddLater(r) ==
  \E e \in Events :
    /\ Current(r, e)
    /\ left' = [left EXCEPT ![r] = @ \ {e}]
    /\ sent' = [sent EXCEPT ![r] = @ \cup {e}]
    /\ UNCHANGED <<outbox, stream, pc, locked, faults>>

Xadd(r) ==
  \E e \in Events :
    /\ Current(r, e)
    /\ stream' = Append(stream, e)
    /\ left' = [left EXCEPT ![r] = @ \ {e}]
    /\ sent' = [sent EXCEPT ![r] = @ \cup {e}]
    /\ UNCHANGED <<outbox, pc, locked, faults>>

(* The transaction ends: its locks are gone. *)
Release(r) ==
  /\ pc' = [pc EXCEPT ![r] = "poll"]
  /\ locked' = [locked EXCEPT ![r] = {}]
  /\ left' = [left EXCEPT ![r] = {}]
  /\ sent' = [sent EXCEPT ![r] = {}]

(* Mutant of MarkPublished: the whole batch is marked, failures included. *)
MarkBatch(r) ==
  /\ pc[r] = "send" /\ left[r] = {} /\ sent[r] # {}
  /\ outbox' = [e \in Events |-> IF e \in locked[r] THEN "published" ELSE outbox[e]]
  /\ Release(r)
  /\ UNCHANGED <<stream, faults>>

(* mark_published and commit. *)
MarkPublished(r) ==
  /\ pc[r] = "send" /\ left[r] = {} /\ sent[r] # {}
  /\ outbox' = [e \in Events |-> IF e \in sent[r] THEN "published" ELSE outbox[e]]
  /\ Release(r)
  /\ UNCHANGED <<stream, faults>>

(* Mutant of NothingSent: the session keeps its transaction. *)
NothingSentKeepsLocks(r) ==
  /\ pc[r] = "send" /\ left[r] = {} /\ sent[r] = {}
  /\ pc' = [pc EXCEPT ![r] = "poll"]
  /\ UNCHANGED <<outbox, stream, locked, left, sent, faults>>

(* No XADD of the batch succeeded: nothing to commit, the session closes. *)
NothingSent(r) ==
  /\ pc[r] = "send" /\ left[r] = {} /\ sent[r] = {}
  /\ Release(r)
  /\ UNCHANGED <<outbox, stream, faults>>

-------------------------------------------------------------------------------
(* XADD raises, before or after Redis applied it; the relay logs and goes  *)
(* on with the batch.                                                      *)
XaddFails(r) ==
  \E e \in Events :
    /\ Current(r, e)
    /\ faults < MaxFaults
    /\ faults' = faults + 1
    /\ stream' \in {stream, Append(stream, e)}
    /\ left' = [left EXCEPT ![r] = @ \ {e}]
    /\ UNCHANGED <<outbox, pc, locked, sent>>

(* The UPDATE or the commit raises: main rolls back. *)
MarkFails(r) ==
  /\ pc[r] = "send" /\ left[r] = {} /\ sent[r] # {}
  /\ faults < MaxFaults
  /\ faults' = faults + 1
  /\ Release(r)
  /\ UNCHANGED <<outbox, stream>>

(* The process dies; PostgreSQL rolls its transaction back. *)
Crash(r) ==
  /\ pc[r] # "down"
  /\ faults < MaxFaults
  /\ faults' = faults + 1
  /\ pc' = [pc EXCEPT ![r] = "down"]
  /\ locked' = [locked EXCEPT ![r] = {}]
  /\ left' = [left EXCEPT ![r] = {}]
  /\ sent' = [sent EXCEPT ![r] = {}]
  /\ UNCHANGED <<outbox, stream>>

-------------------------------------------------------------------------------
Work(r) == Start(r) \/ Select(r) \/ Xadd(r) \/ MarkPublished(r) \/ NothingSent(r)

Fail(r) == XaddFails(r) \/ MarkFails(r) \/ Crash(r)

Next ==
  \/ \E e \in Events : Record(e)
  \/ \E r \in Relays : Work(r) \/ Fail(r)

Spec == Init /\ [][Next]_vars

(* The relay polls forever and its container is restarted. *)
Fairness == \A r \in Relays : WF_vars(Work(r))

LiveSpec == Spec /\ Fairness
-------------------------------------------------------------------------------
Positions(e) == {i \in 1..Len(stream) : stream[i] = e}

(* The order of the steps XADD, UPDATE, commit never closes a row whose    *)
(* event is not on the stream, whatever fails or dies in between.          *)
PublishedWasSent ==
  \A e \in Events : outbox[e] = "published" => Positions(e) # {}

(* FOR UPDATE SKIP LOCKED "to allow multiple relay instances": an event is *)
(* on the stream more than once only because something failed; relays that *)
(* run side by side never duplicate by themselves.                         *)
DuplicatesAreRetries ==
  \A e \in Events : Cardinality(Positions(e)) <= 1 + faults

(* Each recorded event is published in the end, although an XADD, a commit *)
(* or a process may fail on the way, and whoever holds its lock.           *)
EventuallyPublished ==
  \A e \in Events :
    (outbox[e] = "unpublished") ~> (outbox[e] = "published")

(* The relay implements the promise of the outbox. *)
Promise == INSTANCE OutboxPromise WITH
  written <- {e \in Events : outbox[e] # "none"},
  streamed <- {stream[i] : i \in 1..Len(stream)},
  closed <- {e \in Events : outbox[e] = "published"}

ImplementsPromise == Promise!Spec
================================================================================
