----------------------------- MODULE OutboxPromise -----------------------------
(***************************************************************************)
(* What the outbox promises: an event that was written with a business     *)
(* change gets to the stream, nothing else does, and the outbox forgets an *)
(* event only when the stream has it.                                      *)
(***************************************************************************)
CONSTANT Events

VARIABLES written,   \* events of committed business changes
          streamed,  \* events on the stream
          closed     \* events the relay will not look at again

vars == <<written, streamed, closed>>

Init == written = {} /\ streamed = {} /\ closed = {}

Write(e) ==
  /\ written' = written \cup {e}
  /\ UNCHANGED <<streamed, closed>>

Deliver(e) ==
  /\ e \in written
  /\ streamed' = streamed \cup {e}
  /\ UNCHANGED <<written, closed>>

Close(batch) ==
  /\ batch \subseteq streamed
  /\ closed' = closed \cup batch
  /\ UNCHANGED <<written, streamed>>

Next ==
  \/ \E e \in Events : Write(e) \/ Deliver(e)
  \/ \E batch \in SUBSET Events : Close(batch)

Spec == Init /\ [][Next]_vars
================================================================================
