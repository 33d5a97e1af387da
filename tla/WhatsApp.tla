------------------------------- MODULE WhatsApp -------------------------------
(***************************************************************************)
(* WhatsApp, from the outbound stream to the customer, and the whole of    *)
(* the worker: inbound messages, replies, notifications of the verticals,  *)
(* delivery statuses, reclaims and crashes.                                *)
(*                                                                         *)
(* An outbound entry gets a row that is committed as pending, then the     *)
(* provider is called, then the outcome is committed, and a failure is     *)
(* announced after that.  An entry whose send failed is left               *)
(* unacknowledged.  The reclaim thread claims such entries and forgets     *)
(* them: nothing sends them again.                                         *)
(***************************************************************************)
EXTENDS WhatsAppInbound

VARIABLES
  noticesRead,  \* vertical events the notifier group has delivered
  attempts,     \* attempts[e]: calls of the provider for outbound entry e
  late          \* outbound entries sent after the customer's opt-out was stored

history == <<attempts, late>>
vars == <<instance, binding, calls, inbound, readIn, pendingIn, outbound, readOut,
          pendingOut, conversation, stored, optedOut, row, identified, events,
          accepted, pc, batch, session, work, faults, dropped, harmed, noticesRead,
          attempts, late>>

TypeOK ==
  /\ instance \in BOOLEAN /\ binding \in {"none", "meta", "tokenless", "evolution"}
  /\ calls \in 0..MaxCalls /\ faults \in 0..MaxFaults
  /\ readIn \in 0..Len(inbound) /\ pendingIn \subseteq 1..readIn
  /\ readOut \in 0..Len(outbound) /\ pendingOut \subseteq 1..readOut
  /\ Len(row) = Len(outbound) /\ Len(attempts) = Len(outbound)
  /\ \A e \in 1..Len(row) : row[e] \in RowStates
  /\ conversation \in [Customers -> States]
  /\ stored \subseteq Messages /\ optedOut \subseteq Customers
  /\ identified \subseteq 1..Len(outbound) /\ accepted \subseteq 1..Len(outbound)
  /\ pc \in [Workers -> {"idle", "in", "commit", "announce", "report",
                     "out", "bind", "call", "record", "tell"}]
  /\ session \in [Workers -> {"usable", "dead"}]
  /\ noticesRead \subseteq Notices
  /\ \A w \in Workers : batch[w] = <<>> <=> pc[w] = "idle"

Init ==
  /\ instance = FALSE /\ binding \in {"none"} \cup Meta
  /\ calls = 0 /\ faults = 0
  /\ inbound = <<>> /\ readIn = 0 /\ pendingIn = {}
  /\ outbound = <<>> /\ readOut = 0 /\ pendingOut = {}
  /\ conversation = [c \in Customers |-> IF c \in Known THEN "idle" ELSE "none"]
  /\ stored = {} /\ optedOut = {} /\ row = <<>> /\ identified = {} /\ events = {}
  /\ accepted = {} /\ noticesRead = {}
  /\ pc = [w \in Workers |-> "idle"] /\ batch = [w \in Workers |-> <<>>]
  /\ session = [w \in Workers |-> "usable"] /\ work = [w \in Workers |-> "none"]
  /\ attempts = <<>> /\ late = {} /\ dropped = {} /\ harmed = {}

-------------------------------------------------------------------------------
ReadOutbound(w) ==
  LET last == Least(readOut + BatchSize, Len(outbound))
  IN /\ pc[w] = "idle" /\ readOut < last
     /\ readOut' = last
     /\ pendingOut' = pendingOut \cup (readOut + 1)..last
     /\ batch' = [batch EXCEPT ![w] = [i \in 1..(last - readOut) |-> readOut + i]]
     /\ pc' = [pc EXCEPT ![w] = "out"]
     /\ UNCHANGED <<inbound, readIn, pendingIn, outbound, provider, db, session, work,
                    events, faults, losses, noticesRead, history>>

Sending(w) == Head(batch[w])

AckOutbound(w) ==
  /\ pendingOut' = pendingOut \ {Sending(w)}
  /\ NextEntry(w, "out", session[w])
  /\ UNCHANGED <<inbound, readIn, pendingIn, outbound, readOut>>

(* can_send_message *)
CanSend(c) == c \notin optedOut /\ binding # "none"

(* A message that may not be sent is acknowledged as blocked. *)
Block(w) ==
  /\ pc[w] = "out" /\ session[w] = "usable"
  /\ ~CanSend(outbound[Sending(w)].to)
  /\ AckOutbound(w)
  /\ UNCHANGED <<provider, db, events, faults, losses, noticesRead, history>>

(* The customer may be written to; the rest comes after the check.         *)
MaySend(w) ==
  /\ pc[w] = "out" /\ session[w] = "usable"
  /\ CanSend(outbound[Sending(w)].to)
  /\ pc' = [pc EXCEPT ![w] = "bind"]
  /\ UNCHANGED <<streams, provider, db, batch, session, work, events, faults, losses,
                 noticesRead, history>>

(* The binding has been taken away since, or has no token: send_message    *)
(* returns a failure before there is a row, and the entry is left          *)
(* unacknowledged.                                                         *)
NotPrepared(w) ==
  /\ pc[w] = "bind" /\ binding \in {"none", "tokenless"}
  /\ NextEntry(w, "out", session[w])
  /\ UNCHANGED <<streams, provider, db, events, faults, losses, noticesRead, history>>

(* Mutant of Prepare: can_send_message is not asked. *)
PrepareAnyway(w) ==
  LET e == Sending(w)
  IN /\ pc[w] = "out" /\ session[w] = "usable"
     /\ binding \notin {"none", "tokenless"} /\ ~IsNew(outbound[e].to)
     /\ row' = [row EXCEPT ![e] = "pending"]
     /\ pc' = [pc EXCEPT ![w] = "call"]
     /\ UNCHANGED <<streams, provider, binding, conversation, stored, optedOut, identified,
                    batch, session, work, events, faults, losses, noticesRead, history>>

(* send_message up to its first commit: the row is stored as pending. *)
Prepare(w) ==
  LET e == Sending(w)
  IN /\ pc[w] = "bind"
     /\ binding \notin {"none", "tokenless"} /\ ~IsNew(outbound[e].to)
     /\ row' = [row EXCEPT ![e] = "pending"]
     /\ pc' = [pc EXCEPT ![w] = "call"]
     /\ UNCHANGED <<streams, provider, binding, conversation, stored, optedOut, identified,
                    batch, session, work, events, faults, losses, noticesRead, history>>

(* The first commit fails, for want of a conversation_id or of a database, *)
(* or the session has been dead since an earlier entry: handle_envelope    *)
(* reports a failure and rolls nothing back.                               *)
PrepareFails(w) ==
  LET e == Sending(w)
  IN /\ \/ /\ pc[w] = "out" /\ session[w] = "dead"
           /\ UNCHANGED <<faults, harmed>>
        \/ /\ pc[w] = "bind" /\ binding \notin {"none", "tokenless"}
           /\ IsNew(outbound[e].to)
           /\ UNCHANGED <<faults, harmed>>
        \/ /\ pc[w] = "bind" /\ binding \notin {"none", "tokenless"}
           /\ ~IsNew(outbound[e].to)
           /\ faults < MaxFaults /\ faults' = faults + 1 /\ harmed' = harmed \cup {e}
     /\ NextEntry(w, "out", "dead")
     /\ UNCHANGED <<streams, provider, db, events, dropped, noticesRead, history>>

(* What a call of the provider comes to: whether the message goes out, and *)
(* the client's answer.  A message whose answer is lost has gone out and   *)
(* counts as an error.                                                     *)
MetaOutcomes == [sent : {TRUE}, answer : {"id", "no_id"}] \cup [sent : BOOLEAN, answer : {"error"}]
EvolutionOutcomes == [sent : {TRUE}, answer : {"id", "no_id"}] \cup [sent : BOOLEAN, answer : {"error"}]

(* get_provider_for_binding *)
Outcomes == IF binding \in Meta THEN MetaOutcomes ELSE EvolutionOutcomes

CallProvider(w) ==
  LET e == Sending(w)
  IN /\ pc[w] = "call"
     /\ attempts' = [attempts EXCEPT ![e] = @ + 1]
     /\ late' = IF outbound[e].to \in optedOut THEN late \cup {e} ELSE late
     /\ \E outcome \in Outcomes :
          /\ work' = [work EXCEPT ![w] = outcome.answer]
          /\ accepted' = IF outcome.sent THEN accepted \cup {e} ELSE accepted
          /\ harmed' = IF outcome.answer = "error" /\ outcome.sent THEN harmed \cup {e} ELSE harmed
          /\ IF outcome.answer = "id" THEN UNCHANGED faults
             ELSE faults < MaxFaults /\ faults' = faults + 1
     /\ pc' = [pc EXCEPT ![w] = "record"]
     /\ UNCHANGED <<streams, instance, calls, db, batch, session, events, dropped,
                    noticesRead>>

(* Rows whose provider_message_id is the empty string: there can be one. *)
Nameless == {e \in 1..Len(row) : row[e] = "sent" /\ e \notin identified}

(* Mutant of RecordSent: only an answer that names the message counts. *)
RecordSentWithId(w) ==
  LET e == Sending(w)
  IN /\ pc[w] = "record"
     /\ \/ /\ work[w] = "id" /\ identified' = identified \cup {e}
           /\ row' = [row EXCEPT ![e] = "sent"]
        \/ work[w] = "no_id" /\ UNCHANGED <<identified, row>>
     /\ AckOutbound(w)
     /\ UNCHANGED <<provider, binding, conversation, stored, optedOut, events, faults,
                    losses, noticesRead, history>>

RecordSent(w) ==
  LET e == Sending(w)
  IN /\ pc[w] = "record"
     /\ \/ work[w] = "id" /\ identified' = identified \cup {e}
        \/ work[w] = "no_id" /\ Nameless = {} /\ UNCHANGED identified
     /\ row' = [row EXCEPT ![e] = "sent"]
     /\ AckOutbound(w)
     /\ UNCHANGED <<provider, binding, conversation, stored, optedOut, events, faults,
                    losses, noticesRead, history>>

(* Mutant of RecordFailed: a send that failed is not announced. *)
RecordFailedOnly(w) ==
  LET e == Sending(w)
  IN /\ pc[w] = "record" /\ work[w] = "error"
     /\ row' = [row EXCEPT ![e] = "failed"]
     /\ NextEntry(w, "out", "usable")
     /\ UNCHANGED <<streams, provider, binding, conversation, stored, optedOut, identified,
                    events, faults, losses, noticesRead, history>>

(* A failed send is committed as such. *)
RecordFailed(w) ==
  LET e == Sending(w)
  IN /\ pc[w] = "record" /\ work[w] = "error"
     /\ row' = [row EXCEPT ![e] = "failed"]
     /\ pc' = [pc EXCEPT ![w] = "tell"]
     /\ UNCHANGED <<streams, provider, binding, conversation, stored, optedOut, identified,
                    batch, session, work, events, faults, losses, noticesRead, history>>

(* It is announced after the commit, or that fails; the entry is not       *)
(* acknowledged and the retry count in its metadata never grows.           *)
AnnounceFailure(w) ==
  LET e == Sending(w)
  IN /\ pc[w] = "tell"
     /\ \/ events' = events \cup {<<"failed", e>>} /\ UNCHANGED <<faults, harmed>>
        \/ /\ faults < MaxFaults /\ faults' = faults + 1
           /\ harmed' = harmed \cup {e} /\ UNCHANGED events
     /\ NextEntry(w, "out", "usable")
     /\ UNCHANGED <<streams, provider, db, dropped, noticesRead, history>>

(* The commit of the outcome fails: a second message without an id, or the *)
(* database; the row stays pending.                                        *)
RecordFails(w) ==
  /\ pc[w] = "record"
  /\ \/ work[w] = "no_id" /\ Nameless # {} /\ UNCHANGED faults
     \/ faults < MaxFaults /\ faults' = faults + 1
  /\ harmed' = harmed \cup {Sending(w)}
  /\ NextEntry(w, "out", "dead")
  /\ UNCHANGED <<streams, provider, db, events, dropped, noticesRead, history>>

-------------------------------------------------------------------------------
(* from_stream_message refuses a version like "1.0", which is the one the   *)
(* other envelopes of the repository carry.                                *)
Readable(n) == n \notin Unreadable

VerticalEventsToNotify ==
  {"quote_created", "quote_sent", "order_created", "order_status_changed",
   "delivery_started", "delivery_completed"}

(* The event types whose template the Meta registry has. *)
Registered ==
  {"quote_created", "order_status_changed", "delivery_started", "delivery_completed"}

(* handle_vertical_event: what it queues for a notice. *)
Notifications(n) ==
  IF /\ Readable(n) /\ Kind[n] \in VerticalEventsToNotify
     /\ binding # "none"
     /\ binding \in Meta => Kind[n] \in Registered
  THEN {[to |-> Phone[n], what |-> "notice"]} ELSE {}

(* process_vertical_events: the event is acknowledged whatever happens, so *)
(* a publish that fails, or a crash, loses the notification.               *)
NotifyVertical(w) ==
  /\ pc[w] = "idle"
  /\ \E n \in Notices \ noticesRead :
       /\ noticesRead' = noticesRead \cup {n}
       /\ \/ \E message \in Notifications(n) :
               /\ outbound' = Append(outbound, message)
               /\ row' = Append(row, "none") /\ attempts' = Append(attempts, 0)
               /\ UNCHANGED faults
          \/ Notifications(n) = {} /\ UNCHANGED <<outbound, row, attempts, faults>>
          \/ /\ Notifications(n) # {} /\ faults < MaxFaults /\ faults' = faults + 1
             /\ UNCHANGED <<outbound, row, attempts>>
  /\ UNCHANGED <<inbound, readIn, pendingIn, readOut, pendingOut, provider, binding,
                 conversation, stored, optedOut, identified, workers, events, losses, late>>

(* reclaim_pending: the idle entries become this consumer's, and the list  *)
(* of them is only counted.  Whose an entry is makes no difference.        *)
Reclaim(w) ==
  /\ pendingIn \cup pendingOut # {}
  /\ UNCHANGED vars

(* The process dies, and is started again. *)
Crash(w) ==
  /\ faults < MaxFaults /\ faults' = faults + 1
  /\ pc[w] # "idle"
  /\ harmed' = harmed \cup (IF pc[w] \in {"call", "record", "tell"} THEN {Sending(w)}
                            ELSE IF pc[w] = "report" THEN {Entry(w).of} ELSE {})
  /\ pc' = [pc EXCEPT ![w] = "idle"]
  /\ batch' = [batch EXCEPT ![w] = <<>>]
  /\ session' = [session EXCEPT ![w] = "usable"]
  /\ work' = [work EXCEPT ![w] = "none"]
  /\ UNCHANGED <<streams, provider, db, events, dropped, noticesRead, history>>

Inbound(w) ==
  /\ \/ ReadInbound(w) \/ SkipInbound(w) \/ SkipProcessed(w)
     \/ HandlingFails(w) \/ CommitInbound(w) \/ CommitFails(w) \/ PublishInboundEvent(w)
     \/ HandleDeliveryStatus(w) \/ DeliveryStatusFails(w) \/ AnnounceStatus(w)
  /\ UNCHANGED <<noticesRead, history>>

(* A reply that is queued gets its place in the history. *)
Handle(w) ==
  /\ HandleEnvelope(w)
  /\ attempts' = Append(attempts, 0)
  /\ UNCHANGED <<noticesRead, late>>

Outbound(w) ==
  ReadOutbound(w) \/ Block(w) \/ MaySend(w) \/ NotPrepared(w) \/ Prepare(w)
    \/ PrepareFails(w) \/ CallProvider(w) \/ RecordSent(w) \/ RecordFailed(w)
    \/ AnnounceFailure(w) \/ RecordFails(w)

Environment ==
  (EvolutionCreateInstance \/ UnbindTenant \/ ReceiveWebhook) /\ UNCHANGED <<noticesRead, history>>

Next ==
  \/ Environment
  \/ \E w \in Workers :
       Inbound(w) \/ Handle(w) \/ Outbound(w) \/ NotifyVertical(w) \/ Reclaim(w) \/ Crash(w)

Spec == Init /\ [][Next]_vars

(* The main loop reads the three streams in turn for as long as the        *)
(* process runs, so what can be read is read and a batch comes to its end. *)
LiveSpec ==
  /\ Spec
  /\ \A w \in Workers : /\ SF_vars(ReadInbound(w) /\ UNCHANGED <<noticesRead, history>>)
                        /\ SF_vars(ReadOutbound(w))
                        /\ WF_vars(pc[w] # "idle" /\ (Inbound(w) \/ Handle(w) \/ Outbound(w)))
-------------------------------------------------------------------------------
(* models.py says of an opt-out that no messages should be sent once it is *)
(* there.  can_send_message is asked before the provider is called, so     *)
(* messages already on their way still go out: at most one from each of    *)
(* the other workers, and none that is read from the stream afterwards.    *)
LateMessagesAreUnderway ==
  \A c \in Customers :
    Cardinality({e \in late : outbound[e].to = c}) < Cardinality(Workers)

(* The worker acknowledges what it could not process, so that a message    *)
(* can vanish.  Short of a failed call, a message of a customer with a     *)
(* conversation is stored once it is acknowledged, over duplicates, two    *)
(* workers and crashes; a request to stop may lose its row to a copy of    *)
(* itself that came first, but the customer is opted out.                  *)
AcknowledgedIsKept ==
  \A i \in (1..readIn) \ pendingIn :
    LET m == inbound[i].of
    IN inbound[i].kind = "message" /\ From[m] \in Known /\ m \notin dropped
         => IF Detected(inbound[i]) = "stop" THEN From[m] \in optedOut ELSE m \in stored

(* What the provider sent is recorded as sent, with the id its statuses    *)
(* name, once the worker has gone on: unless a call of this very message   *)
(* failed or its worker died.                                              *)
InHand(e) == \E w \in Workers : pc[w] \in {"out", "bind", "call", "record"} /\ Sending(w) = e

SentIsRecorded ==
  \A e \in accepted \ harmed :
    InHand(e) \/ e \in identified \/ row[e] = "sent"

(* What the rows say has gone out has gone out, whatever failed.           *)
RecordedWasSent ==
  \A e \in 1..Len(row) : row[e] \in {"sent", "delivered", "read"} \/ e \in identified => e \in accepted

(* The provider's sends and the rows about them agree.                     *)
RowsMatchSends == SentIsRecorded /\ RecordedWasSent

(* A message recorded as failed has been announced to the verticals, or a  *)
(* worker that has committed the row is about to: the row comes first, and *)
(* a failed publish or a crash in between can lose the announcement.       *)
Announces(w, e) ==
  \/ pc[w] = "tell" /\ Sending(w) = e
  \/ pc[w] = "report" /\ Entry(w).of = e
AboutToAnnounce(e) == \E w \in Workers : Announces(w, e)

FailureIsAnnounced ==
  \A e \in 1..Len(row) :
    row[e] = "failed" => <<"failed", e>> \in events \/ AboutToAnnounce(e) \/ e \in harmed

(* A vertical learns of a message when it can find it: an inbound event is *)
(* published after the message's commit.                                   *)
ReceivedIsStored ==
  \A m \in Messages : <<"received", m>> \in events => m \in stored

(* A request to stop that reaches the stream takes effect: no order of the *)
(* two streams, no backlog of replies and no other worker can put it off   *)
(* for good.  A failed call or a crash can.                                *)
StopTakesEffect ==
  \A m \in Messages :
    (\E i \in 1..Len(inbound) : /\ inbound[i].kind = "message" /\ inbound[i].of = m
                               /\ Detected(inbound[i]) = "stop" /\ From[m] \in Known)
      ~> From[m] \in optedOut \/ faults > 0

===============================================================================
