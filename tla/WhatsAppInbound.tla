---------------------------- MODULE WhatsAppInbound ----------------------------
(***************************************************************************)
(* WhatsApp, from the provider's webhook to the customer's conversation.   *)
(*                                                                         *)
(* The webhook service puts what a provider reports on the inbound stream. *)
(* Workers read the stream in one consumer group, a batch at a time with   *)
(* one database session per batch: a customer's message is stored with its *)
(* conversation, an opt-out or the customer's wish is announced to the     *)
(* verticals, and a reply is put on the outbound stream; a delivery status *)
(* is written to the row of the message it is about.                       *)
(*                                                                         *)
(* A session whose flush failed refuses every statement until it is rolled *)
(* back; process_message rolls back, the other handlers do not.            *)
(***************************************************************************)
EXTENDS Naturals, Sequences, FiniteSets

CONSTANTS Workers,    \* worker processes of the group whatsapp-engine
          Customers,  \* phone numbers
          Known,      \* those the database has a conversation with
          Messages,   \* what customers send: one message id each
          From,       \* From[m]: the customer who sends m
          Via,        \* Via[m]: "text", "button", "list" or "caption"
          Word,       \* Word[m]: what it says: "stop", "human", "quote", "chat"
          Notices,    \* events of a vertical that name a customer's phone
          Phone,      \* Phone[n]: that customer
          Kind,       \* Kind[n]: its event_type
          Unreadable, \* notices whose version is not an integer
          Statuses,   \* delivery statuses the provider reports
          BatchSize,  \* WHATSAPP_BATCH_SIZE
          MaxCalls,   \* bound: calls of the webhook
          MaxReports, \* bound: reports it puts on the stream
          MaxFaults   \* bound: failed calls and process crashes

ASSUME WhatsAppAssumption ==
  /\ IsFiniteSet(Workers) /\ Workers # {}
  /\ Known \subseteq Customers
  /\ \A m \in Messages : /\ From[m] \in Customers
                         /\ Via[m] \in {"text", "button", "list", "caption"}
                         /\ Word[m] \in {"stop", "human", "quote", "chat"}
  /\ \A n \in Notices : Phone[n] \in Customers
  /\ Unreadable \subseteq Notices
  /\ BatchSize \in Nat \ {0} /\ MaxCalls \in Nat
  /\ MaxReports \in Nat /\ MaxFaults \in Nat

VARIABLES
  instance,      \* the Evolution instance exists at the provider
  binding,       \* provider of the tenant's active binding, or "none"; it is
                 \* "tokenless" for one of Meta without a token to call it with
  calls,         \* calls of the webhook so far
  inbound, readIn, pendingIn,     \* stream, entries delivered, not yet acknowledged
  outbound, readOut, pendingOut,  \* the same of the outbound stream
  conversation,  \* conversation[c]: current_state, or "none" without a row
  stored,        \* messages of customers in whatsapp_messages
  optedOut,      \* customers with a row in whatsapp_optouts
  row,           \* row[e]: status of the row of outbound entry e, or "none"
  identified,    \* outbound rows with the id the provider gave them
  events,        \* events published on events:materials
  accepted,      \* outbound entries the provider sent to the customer
  pc, batch, session, work,       \* of each worker
  faults,
  dropped,       \* messages acknowledged after a failed call of their handler
  harmed         \* outbound entries met by a failed call or a crash

streams == <<inbound, readIn, pendingIn, outbound, readOut, pendingOut>>
db == <<binding, conversation, stored, optedOut, row, identified>>
provider == <<instance, calls, accepted>>
workers == <<pc, batch, session, work>>
losses == <<dropped, harmed>>

States == {"none", "idle", "opted_out", "human_requested", "processing"}
RowStates == {"none", "pending", "sent", "delivered", "read", "failed"}
Meta == {"meta", "tokenless"}

-------------------------------------------------------------------------------
(* What the provider calls the webhook with: messages and delivery statuses. *)
Reports ==
  [kind : {"message"}, of : Messages]
    \cup [kind : {"status"}, of : accepted, status : Statuses]

(* Meta packs several reports into a call and parse_webhook lists the      *)
(* messages first; Evolution makes a call for each report.                 *)
MetaReports ==
  {<<a>> : a \in Reports}
    \cup {pair \in Reports \X Reports : pair[1].kind = "message" /\ pair[1] # pair[2]}
EvolutionReports == {<<a>> : a \in Reports}

(* Text and button payload the provider's parser finds in a message.  A    *)
(* caption is kept apart from the text, and Evolution's parser finds no    *)
(* payload in the answer to a list.                                        *)
MetaParsed(m) ==
  [text |-> IF Via[m] = "text" THEN Word[m] ELSE "",
   button |-> IF Via[m] \in {"button", "list"} THEN Word[m] ELSE ""]
EvolutionParsed(m) ==
  [text |-> IF Via[m] = "text" THEN Word[m] ELSE "",
   button |-> IF Via[m] = "button" THEN Word[m] ELSE ""]

(* The entry of the inbound stream made of a report. *)
ToEntry(report) ==
  IF report.kind = "status" THEN report
  ELSE [kind |-> "message", of |-> report.of,
        parsed |-> IF binding \in Meta THEN MetaParsed(report.of) ELSE EvolutionParsed(report.of)]

(* AutomationEngine.detect: the buttons have intents only, no opt-out. *)
Detected(entry) ==
  CASE entry.parsed.button \in {"human", "quote"} -> entry.parsed.button
    [] entry.parsed.text # "" -> entry.parsed.text
    [] OTHER -> "chat"

(* get_conversation finds nothing; the row that is added instead is not    *)
(* flushed and has no id.                                                  *)
IsNew(c) == conversation[c] = "none"

(* should_auto_reply: there is always a reply. *)
AutoReply(entry) ==
  CASE Detected(entry) = "stop" -> "opt_out_confirmed"
    [] Detected(entry) = "human" -> "human_requested"
    [] IsNew(From[entry.of]) -> "welcome"
    [] OTHER -> "received"

(* The state a message brings its conversation to. *)
StateAfter(entry) ==
  CASE Detected(entry) = "stop" -> "opted_out"
    [] Detected(entry) = "human" -> "human_requested"
    [] Detected(entry) = "quote" -> "processing"
    [] OTHER -> conversation[From[entry.of]]

(* status_map of the Evolution client and of handle_delivery_status: a     *)
(* status with another name counts as sent.                                *)
Normalised(status) == IF status \in {"read", "failed"} THEN status ELSE "sent"

-------------------------------------------------------------------------------
(* evolution_create_instance: the instance is created at the provider,     *)
(* then the binding is committed; an instance that exists is refused.  The *)
(* other command, bind_tenant, fails before it adds its row.               *)
EvolutionCreateInstance ==
  /\ binding = "none" /\ ~instance
  /\ instance' = TRUE
  /\ \/ binding' = "evolution" /\ UNCHANGED faults
     \/ binding' = binding /\ faults < MaxFaults /\ faults' = faults + 1
  /\ UNCHANGED <<calls, accepted, conversation, stored, optedOut, row, identified,
                 streams, workers, events, losses>>

(* unbind_tenant looks the binding up by Meta's phone number. *)
UnbindTenant ==
  /\ binding \in Meta
  /\ binding' = "none"
  /\ UNCHANGED <<instance, calls, accepted, conversation, stored, optedOut, row, identified,
                 streams, workers, events, faults, losses>>

(* A call of the webhook.  Without a binding it is ignored; when a publish *)
(* fails the rest of the call is dropped, and the answer is still 200.     *)
ReceiveWebhook ==
  /\ calls < MaxCalls
  /\ calls' = calls + 1
  /\ \/ binding = "none" /\ UNCHANGED <<inbound, faults>>
     \/ /\ binding # "none"
        /\ \E reports \in IF binding \in Meta THEN MetaReports ELSE EvolutionReports :
             /\ Len(inbound) + Len(reports) <= MaxReports
             /\ \/ inbound' = inbound \o [i \in 1..Len(reports) |-> ToEntry(reports[i])]
                   /\ UNCHANGED faults
                \/ /\ faults < MaxFaults /\ faults' = faults + 1
                   /\ \E k \in 1..Len(reports) :
                        inbound' = inbound \o [i \in 1..(k - 1) |-> ToEntry(reports[i])]
  /\ UNCHANGED <<instance, accepted, readIn, pendingIn, outbound, readOut, pendingOut,
                 db, workers, events, losses>>

(* read_messages: a worker takes the next entries of the inbound stream. *)
Least(a, b) == IF a < b THEN a ELSE b

ReadInbound(w) ==
  LET last == Least(readIn + BatchSize, Len(inbound))
  IN /\ pc[w] = "idle" /\ readIn < last
     /\ readIn' = last
     /\ pendingIn' = pendingIn \cup (readIn + 1)..last
     /\ batch' = [batch EXCEPT ![w] = [i \in 1..(last - readIn) |-> readIn + i]]
     /\ pc' = [pc EXCEPT ![w] = "in"]
     /\ UNCHANGED <<inbound, outbound, readOut, pendingOut, provider, db, session, work,
                    events, faults, losses>>

Entry(w) == inbound[Head(batch[w])]

(* Mutant of NextEntry: the end of the batch is not noticed. *)
NextEntryOfBatch(w, stage, state) ==
  /\ batch' = [batch EXCEPT ![w] = Tail(@)]
  /\ pc' = [pc EXCEPT ![w] = stage]
  /\ session' = [session EXCEPT ![w] = state]
  /\ work' = [work EXCEPT ![w] = "none"]

(* The worker goes on to the next entry; the session lasts for the batch. *)
NextEntry(w, stage, state) ==
  /\ batch' = [batch EXCEPT ![w] = Tail(@)]
  /\ pc' = [pc EXCEPT ![w] = IF Len(batch[w]) = 1 THEN "idle" ELSE stage]
  /\ session' = [session EXCEPT ![w] = IF Len(batch[w]) = 1 THEN "usable" ELSE state]
  /\ work' = [work EXCEPT ![w] = "none"]

AckInbound(w) ==
  /\ pendingIn' = pendingIn \ {Head(batch[w])}
  /\ NextEntry(w, "in", "usable")
  /\ UNCHANGED <<inbound, readIn, readOut, pendingOut>>

(* With a session that is unusable every entry raises, and none is acknowledged. *)
SkipInbound(w) ==
  /\ pc[w] = "in" /\ session[w] = "dead"
  /\ NextEntry(w, "in", "dead")
  /\ UNCHANGED <<streams, provider, db, events, faults, losses>>

(* is_message_processed *)
Processed(m) == m \in stored

(* handle_envelope: a message whose id is stored is acknowledged at once. *)
SkipProcessed(w) ==
  /\ pc[w] = "in" /\ session[w] = "usable" /\ Entry(w).kind = "message"
  /\ Processed(Entry(w).of)
  /\ AckInbound(w)
  /\ UNCHANGED <<outbound, provider, db, events, faults, losses>>

Event(entry) ==
  CASE Detected(entry) = "stop" -> {<<"opted_out", entry.of>>}
    [] Detected(entry) \in {"human", "quote"} -> {<<"action", entry.of>>}
    [] OTHER -> {}

Queued(c, what) == Append(outbound, [to |-> c, what |-> what])

(* Mutant of HandleEnvelope: the inbound event goes out with the others. *)
HandleAndAnnounce(w) ==
  LET m == Entry(w).of
  IN /\ pc[w] = "in" /\ session[w] = "usable" /\ Entry(w).kind = "message"
     /\ ~Processed(m)
     /\ events' = events \cup Event(Entry(w)) \cup {<<"received", m>>}
     /\ outbound' = Queued(From[m], AutoReply(Entry(w)))
     /\ row' = Append(row, "none")
     /\ pc' = [pc EXCEPT ![w] = "commit"]
     /\ work' = [work EXCEPT ![w] = IF From[m] \in optedOut THEN "known_optout" ELSE "no_optout"]
     /\ UNCHANGED <<inbound, readIn, pendingIn, readOut, pendingOut, provider, binding,
                    conversation, stored, optedOut, identified, batch, session, faults,
                    losses>>

(* process_message up to its commit: the event and the reply are published *)
(* while the rows wait in the session.                                     *)
HandleEnvelope(w) ==
  LET m == Entry(w).of
  IN /\ pc[w] = "in" /\ session[w] = "usable" /\ Entry(w).kind = "message"
     /\ ~Processed(m)
     /\ events' = events \cup Event(Entry(w))
     /\ outbound' = Queued(From[m], AutoReply(Entry(w)))
     /\ row' = Append(row, "none")
     /\ pc' = [pc EXCEPT ![w] = "commit"]
     /\ work' = [work EXCEPT ![w] = IF From[m] \in optedOut THEN "known_optout" ELSE "no_optout"]
     /\ UNCHANGED <<inbound, readIn, pendingIn, readOut, pendingOut, provider, binding,
                    conversation, stored, optedOut, identified, batch, session, faults,
                    losses>>

(* A publish of process_message fails: the rows are rolled back, the       *)
(* exception is swallowed and the worker acknowledges the message.         *)
HandlingFails(w) ==
  LET m == Entry(w).of
  IN /\ pc[w] = "in" /\ session[w] = "usable" /\ Entry(w).kind = "message"
     /\ ~Processed(m)
     /\ faults < MaxFaults /\ faults' = faults + 1
     /\ \E published \in {{}, Event(Entry(w))} : events' = events \cup published
     /\ dropped' = dropped \cup {m}
     /\ AckInbound(w)
     /\ UNCHANGED <<outbound, provider, db, harmed>>

(* What the database refuses at the commit: a message of a conversation    *)
(* that is not flushed has no conversation_id; a message id and an opt-out *)
(* are unique.                                                             *)
Refused(entry, saw) ==
  \/ IsNew(From[entry.of])
  \/ Processed(entry.of)
  \/ Detected(entry) = "stop" /\ saw = "no_optout" /\ From[entry.of] \in optedOut

(* Mutant of CommitInbound: the opt-out is left out of the transaction. *)
CommitWithoutOptOut(w) ==
  LET m == Entry(w).of
  IN /\ pc[w] = "commit" /\ ~Refused(Entry(w), work[w])
     /\ stored' = stored \cup {m}
     /\ conversation' = [conversation EXCEPT ![From[m]] = StateAfter(Entry(w))]
     /\ pc' = [pc EXCEPT ![w] = "announce"]
     /\ UNCHANGED <<streams, provider, binding, optedOut, row, identified, batch,
                    session, work, events, faults, losses>>

CommitInbound(w) ==
  LET m == Entry(w).of
  IN /\ pc[w] = "commit" /\ ~Refused(Entry(w), work[w])
     /\ stored' = stored \cup {m}
     /\ optedOut' = IF Detected(Entry(w)) = "stop" THEN optedOut \cup {From[m]} ELSE optedOut
     /\ conversation' = [conversation EXCEPT ![From[m]] = StateAfter(Entry(w))]
     /\ pc' = [pc EXCEPT ![w] = "announce"]
     /\ UNCHANGED <<streams, provider, binding, row, identified, batch, session, work,
                    events, faults, losses>>

(* The commit fails: rolled back, swallowed, acknowledged. *)
CommitFails(w) ==
  /\ pc[w] = "commit"
  /\ \/ Refused(Entry(w), work[w]) /\ UNCHANGED <<faults, dropped>>
     \/ /\ ~Refused(Entry(w), work[w])
        /\ faults < MaxFaults /\ faults' = faults + 1
        /\ dropped' = dropped \cup {Entry(w).of}
  /\ AckInbound(w)
  /\ UNCHANGED <<outbound, provider, db, events, harmed>>

(* _publish_inbound_event, after the commit; when it fails the message is  *)
(* acknowledged all the same.                                              *)
PublishInboundEvent(w) ==
  /\ pc[w] = "announce"
  /\ \/ events' = events \cup {<<"received", Entry(w).of>>} /\ UNCHANGED faults
     \/ events' = events /\ faults < MaxFaults /\ faults' = faults + 1
  /\ AckInbound(w)
  /\ UNCHANGED <<outbound, provider, db, losses>>

(* handle_delivery_status: the row is looked up by the provider's id and   *)
(* takes the status that arrives, whatever it had; a failure is still to   *)
(* be announced after the commit.                                          *)
HandleDeliveryStatus(w) ==
  LET e == Entry(w).of
      status == Normalised(Entry(w).status)
  IN /\ pc[w] = "in" /\ session[w] = "usable" /\ Entry(w).kind = "status"
     /\ row' = IF e \in identified THEN [row EXCEPT ![e] = status] ELSE row
     /\ \/ /\ e \in identified /\ status = "failed"
           /\ pc' = [pc EXCEPT ![w] = "report"]
           /\ UNCHANGED <<inbound, readIn, pendingIn, readOut, pendingOut, batch, session, work>>
        \/ /\ e \notin identified \/ status # "failed"
           /\ AckInbound(w)
     /\ UNCHANGED <<outbound, provider, binding, conversation, stored, optedOut,
                    identified, events, faults, losses>>

(* Its commit fails; the exception leaves the entry unacknowledged. *)
DeliveryStatusFails(w) ==
  /\ pc[w] = "in" /\ session[w] = "usable" /\ Entry(w).kind = "status"
  /\ Entry(w).of \in identified
  /\ faults < MaxFaults /\ faults' = faults + 1
  /\ harmed' = harmed \cup {Entry(w).of}
  /\ NextEntry(w, "in", "dead")
  /\ UNCHANGED <<streams, provider, db, events, dropped>>

(* publish_delivery_status, after the commit: when it fails the entry is   *)
(* not acknowledged, but nobody reads it again.                            *)
AnnounceStatus(w) ==
  LET e == Entry(w).of
  IN /\ pc[w] = "report"
     /\ \/ /\ events' = events \cup {<<"failed", e>>}
           /\ AckInbound(w) /\ UNCHANGED <<outbound, faults, harmed>>
        \/ /\ faults < MaxFaults /\ faults' = faults + 1
           /\ harmed' = harmed \cup {e}
           /\ NextEntry(w, "in", "usable") /\ UNCHANGED <<streams, events>>
     /\ UNCHANGED <<provider, db, dropped>>
================================================================================
