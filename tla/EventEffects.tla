----------------------------- MODULE EventEffects -----------------------------
(***************************************************************************)
(* What the engines promise about an event, whatever the delivery did.     *)
(*                                                                         *)
(* A published event is applied to the engine tables at most once: its     *)
(* sales fact and its stock movement appear together, its associations are *)
(* recomputed after them, it is marked as processed only when all of that  *)
(* is there, and a message is settled (acknowledged, never to be delivered *)
(* again) only for an event that is marked.  Nothing is ever taken back.   *)
(***************************************************************************)
EXTENDS Naturals

CONSTANTS Sales,   \* sale_recorded events
          Pairs,   \* the sales with two products or more
          Others   \* events whose handlers write nothing

VARIABLES published,   \* events on the stream
          recorded,    \* events with their sales facts
          moved,       \* events with their stock facts
          associated,  \* events whose product associations were recomputed
          done,        \* events marked in engine_processed_events
          settled      \* events with an acknowledged message

vars == <<published, recorded, moved, associated, done, settled>>

Init ==
  /\ published = {}
  /\ recorded = {}
  /\ moved = {}
  /\ associated = {}
  /\ done = {}
  /\ settled = {}

Publish(e) ==
  /\ published' = published \cup {e}
  /\ UNCHANGED <<recorded, moved, associated, done, settled>>

(* The sales fact and the stock movement of a sale: both or neither. *)
Apply(e) ==
  /\ e \in published \cap Sales
  /\ e \notin recorded \cup moved
  /\ recorded' = recorded \cup {e}
  /\ moved' = moved \cup {e}
  /\ UNCHANGED <<published, associated, done, settled>>

Associate(e) ==
  /\ e \in published \cap Pairs
  /\ e \in recorded
  /\ associated' = associated \cup {e}
  /\ UNCHANGED <<published, recorded, moved, done, settled>>

Finish(e) ==
  /\ e \in published \ done
  /\ e \in Sales => e \in recorded \cap moved
  /\ e \in Pairs => e \in associated
  /\ done' = done \cup {e}
  /\ UNCHANGED <<published, recorded, moved, associated, settled>>

Settle(e) ==
  /\ e \in done
  /\ settled' = settled \cup {e}
  /\ UNCHANGED <<published, recorded, moved, associated, done>>

Next ==
  \E e \in Sales \cup Others :
     Publish(e) \/ Apply(e) \/ Associate(e) \/ Finish(e) \/ Settle(e)

Spec == Init /\ [][Next]_vars
===============================================================================
