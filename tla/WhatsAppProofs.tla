---------------------------- MODULE WhatsAppProofs ----------------------------
(***************************************************************************)
(* Proofs about the WhatsApp worker, for any number of workers, customers, *)
(* messages and failures, and batches of any size.                         *)
(*                                                                         *)
(* Everything rests on who works on what: an outbound entry is in at most  *)
(* one batch and once, and the provider has not been called for what is    *)
(* still ahead in a batch (Apart, Attempted).                              *)
(***************************************************************************)
EXTENDS WhatsApp, FiniteSetTheorems, SequenceTheorems, TLAPS

(* Where a worker is with an entry of the inbound and the outbound stream. *)
InStages == {"in", "commit", "announce", "report"}
OutStages == {"out", "bind", "call", "record", "tell"}

(* Where the outcome of a send is still to be recorded, and where the      *)
(* provider has been called.                                               *)
HandStages == {"out", "bind", "call", "record"}
Called == {"record", "tell"}

(* What the webhook puts on the inbound stream. *)
Entries ==
  {[kind |-> "message", of |-> m, parsed |-> MetaParsed(m)] : m \in Messages}
    \cup {[kind |-> "message", of |-> m, parsed |-> EvolutionParsed(m)] : m \in Messages}
    \cup [kind : {"status"}, of : Nat, status : Statuses]

(* What the worker puts on the outbound stream. *)
Sendings ==
  [to : Customers,
   what : {"notice", "opt_out_confirmed", "human_requested", "welcome", "received"}]

Tables ==
  /\ instance \in BOOLEAN /\ binding \in {"none", "meta", "tokenless", "evolution"}
  /\ calls \in 0..MaxCalls /\ faults \in 0..MaxFaults
  /\ inbound \in Seq(Entries) /\ readIn \in 0..Len(inbound) /\ pendingIn \subseteq 1..readIn
  /\ outbound \in Seq(Sendings) /\ readOut \in 0..Len(outbound) /\ pendingOut \subseteq 1..readOut
  /\ row \in Seq(RowStates) /\ Len(row) = Len(outbound)
  /\ attempts \in Seq(Nat) /\ Len(attempts) = Len(outbound)
  /\ conversation \in [Customers -> States]
  /\ stored \subseteq Messages /\ optedOut \subseteq Customers
  /\ identified \subseteq 1..Len(outbound) /\ accepted \subseteq 1..Len(outbound)
  /\ late \subseteq 1..Len(outbound)
  /\ noticesRead \subseteq Notices

Stages ==
  /\ pc \in [Workers -> {"idle"} \cup InStages \cup OutStages]
  /\ batch \in [Workers -> Seq(Nat)]
  /\ session \in [Workers -> {"usable", "dead"}]
  /\ work \in [Workers -> {"none", "known_optout", "no_optout", "id", "no_id", "error"}]

Types == Tables /\ Stages

(* A batch holds what was read from the stream the worker is at. *)
Batches ==
  \A w \in Workers :
    /\ batch[w] = <<>> <=> pc[w] = "idle"
    /\ pc[w] \in InStages => \A i \in 1..Len(batch[w]) : batch[w][i] \in 1..readIn
    /\ pc[w] \in OutStages => \A i \in 1..Len(batch[w]) : batch[w][i] \in 1..readOut
    /\ pc[w] \in {"commit", "announce"} => Entry(w).kind = "message"
    /\ pc[w] = "report" => Entry(w).kind = "status"

(* No outbound entry is in two batches, or twice in one. *)
Apart ==
  \A v, w \in Workers : pc[v] \in OutStages /\ pc[w] \in OutStages =>
    \A i \in 1..Len(batch[v]), j \in 1..Len(batch[w]) :
      batch[v][i] = batch[w][j] => v = w /\ i = j

(* The provider has been called once for what is past its call, and not at *)
(* all for what no worker has come to.                                     *)
Attempted ==
  /\ \A e \in 1..Len(outbound) : attempts[e] <= 1 /\ (e > readOut => attempts[e] = 0)
  /\ \A e \in accepted : attempts[e] # 0
  /\ \A w \in Workers : pc[w] \in OutStages =>
       \A i \in 1..Len(batch[w]) :
         i > 1 \/ pc[w] \notin Called => attempts[batch[w][i]] = 0

Recorded ==
  /\ SentIsRecorded
  /\ RecordedWasSent
  /\ \A w \in Workers : pc[w] = "record" =>
       IF work[w] = "error" THEN Sending(w) \in accepted => Sending(w) \in harmed
       ELSE Sending(w) \in accepted

Announced ==
  /\ FailureIsAnnounced
  /\ ReceivedIsStored

(* A request to stop is one whoever parses it. *)
Stops(m) == Via[m] = "text" /\ Word[m] = "stop"

Kept ==
  /\ AcknowledgedIsKept
  /\ \A m \in stored : Stops(m) => From[m] \in optedOut
  /\ \A c \in Known : conversation[c] # "none"
  /\ \A w \in Workers : pc[w] = "announce" => Entry(w).of \in stored

(* Who is past can_send_message for a customer. *)
Callers(c) == {w \in Workers : pc[w] \in {"bind", "call"} /\ outbound[Sending(w)].to = c}

LateTo(c) == {e \in late : outbound[e].to = c}

Underway ==
  \A c \in Customers :
    IF c \in optedOut
    THEN Cardinality(LateTo(c)) + Cardinality(Callers(c)) < Cardinality(Workers)
    ELSE LateTo(c) = {}

Inv == /\ Types /\ Batches /\ Apart /\ Attempted
       /\ Recorded /\ Announced /\ Kept /\ Underway

-------------------------------------------------------------------------------
(* The entry a worker is at is one of the stream it reads. *)
LEMMA EntryFacts ==
  ASSUME Types, Batches, NEW w \in Workers, pc[w] \in InStages
  PROVE  /\ Head(batch[w]) = batch[w][1] /\ Len(batch[w]) \in Nat \ {0}
         /\ Head(batch[w]) \in 1..readIn /\ Head(batch[w]) \in 1..Len(inbound)
         /\ Entry(w) \in Entries
<1>1. batch[w] # <<>> /\ batch[w] \in Seq(Nat)
  BY DEF Types, Tables, Stages, Batches, InStages
<1>2. Head(batch[w]) = batch[w][1] /\ Len(batch[w]) \in Nat \ {0}
  BY <1>1
<1>3. Head(batch[w]) \in 1..readIn /\ Head(batch[w]) \in 1..Len(inbound)
  BY <1>2 DEF Types, Tables, Stages, Batches
<1> QED BY <1>2, <1>3 DEF Types, Tables, Stages, Entry

(* What a message says of itself, however it was parsed. *)
LEMMA MessageFacts ==
  ASSUME NEW entry \in Entries, entry.kind = "message"
  PROVE  /\ entry.of \in Messages /\ From[entry.of] \in Customers
         /\ Detected(entry) \in {"stop", "human", "quote", "chat"}
         /\ Detected(entry) = "stop" <=> Stops(entry.of)
<1>1. PICK m \in Messages :
        \/ entry = [kind |-> "message", of |-> m, parsed |-> MetaParsed(m)]
        \/ entry = [kind |-> "message", of |-> m, parsed |-> EvolutionParsed(m)]
  BY DEF Entries
<1>2. /\ From[m] \in Customers
      /\ Via[m] \in {"text", "button", "list", "caption"}
      /\ Word[m] \in {"stop", "human", "quote", "chat"}
  BY WhatsAppAssumption
<1>3. entry.of = m /\ entry.parsed \in {MetaParsed(m), EvolutionParsed(m)}
  BY <1>1
<1>4. /\ MetaParsed(m).text = IF Via[m] = "text" THEN Word[m] ELSE ""
      /\ MetaParsed(m).button = IF Via[m] \in {"button", "list"} THEN Word[m] ELSE ""
  BY DEF MetaParsed
<1>5. /\ EvolutionParsed(m).text = IF Via[m] = "text" THEN Word[m] ELSE ""
      /\ EvolutionParsed(m).button = IF Via[m] = "button" THEN Word[m] ELSE ""
  BY DEF EvolutionParsed
<1>6. /\ entry.parsed.text = IF Via[m] = "text" THEN Word[m] ELSE ""
      /\ entry.parsed.button # "" => entry.parsed.text = ""
  BY <1>2, <1>3, <1>4, <1>5
<1> QED BY <1>2, <1>3, <1>6 DEF Detected, Stops

(* The entry a worker sends is one of the outbound stream. *)
LEMMA SendingFacts ==
  ASSUME Types, Batches, NEW w \in Workers, pc[w] \in OutStages
  PROVE  /\ Sending(w) = batch[w][1] /\ Len(batch[w]) \in Nat \ {0}
         /\ Sending(w) \in 1..readOut /\ Sending(w) \in 1..Len(outbound)
         /\ outbound[Sending(w)].to \in Customers
<1>1. batch[w] # <<>> /\ batch[w] \in Seq(Nat)
  BY DEF Types, Tables, Stages, Batches, OutStages
<1>2. Sending(w) = batch[w][1] /\ Len(batch[w]) \in Nat \ {0}
  BY <1>1 DEF Sending
<1>3. Sending(w) \in 1..readOut /\ Sending(w) \in 1..Len(outbound)
  BY <1>2 DEF Types, Tables, Stages, Batches
<1>4. outbound[Sending(w)] \in Sendings
  BY <1>3 DEF Types, Tables, Stages
<1> QED BY <1>2, <1>3, <1>4 DEF Sendings

(* Going on to the next entry drops the first of the batch and disturbs    *)
(* nobody else.                                                            *)
LEMMA NextEntryFacts ==
  ASSUME Types, Batches, NEW w \in Workers, pc[w] # "idle",
         NEW stage \in {"in", "out"}, NEW state \in {"usable", "dead"},
         NextEntry(w, stage, state)
  PROVE  /\ Stages'
         /\ \A v \in Workers \ {w} :
              /\ pc'[v] = pc[v] /\ batch'[v] = batch[v]
              /\ session'[v] = session[v] /\ work'[v] = work[v]
         /\ pc'[w] \in {"idle", stage}
         /\ batch'[w] = <<>> <=> pc'[w] = "idle"
         /\ Len(batch'[w]) \in Nat /\ Len(batch[w]) = Len(batch'[w]) + 1
         /\ \A i \in 1..Len(batch'[w]) : batch'[w][i] = batch[w][i + 1]
<1>1. batch[w] # <<>> /\ batch[w] \in Seq(Nat)
  BY DEF Types, Tables, Stages, Batches
<1>2. batch'[w] = Tail(batch[w])
  BY DEF NextEntry, Types, Tables, Stages
<1>3. /\ Len(batch'[w]) \in Nat /\ Len(batch[w]) = Len(batch'[w]) + 1
      /\ batch'[w] \in Seq(Nat)
      /\ \A i \in 1..Len(batch'[w]) : batch'[w][i] = batch[w][i + 1]
  BY <1>1, <1>2
<1>4. pc'[w] = IF Len(batch'[w]) = 0 THEN "idle" ELSE stage
  BY <1>3 DEF NextEntry, Types, Tables, Stages
<1>5. /\ pc' \in [Workers -> {"idle"} \cup InStages \cup OutStages]
      /\ session' \in [Workers -> {"usable", "dead"}]
      /\ work' \in [Workers -> {"none", "known_optout", "no_optout", "id", "no_id", "error"}]
      /\ \A v \in Workers \ {w} :
              /\ pc'[v] = pc[v] /\ batch'[v] = batch[v]
              /\ session'[v] = session[v] /\ work'[v] = work[v]
  BY DEF NextEntry, Types, Tables, Stages, InStages, OutStages
<1>6. batch' \in [Workers -> Seq(Nat)]
  BY <1>3 DEF NextEntry, Types, Tables, Stages
<1>7. batch'[w] = <<>> <=> pc'[w] = "idle"
  BY <1>3, <1>4
<1> QED BY <1>3, <1>4, <1>5, <1>6, <1>7 DEF Stages

(* The batch that is read next. *)
LEMMA BatchFacts ==
  ASSUME NEW read \in Nat, NEW last \in Nat, read < last
  PROVE  /\ [i \in 1..(last - read) |-> read + i] \in Seq(Nat)
         /\ Len([i \in 1..(last - read) |-> read + i]) = last - read
         /\ [i \in 1..(last - read) |-> read + i] # <<>>
         /\ \A i \in 1..(last - read) :
              [j \in 1..(last - read) |-> read + j][i] \in (read + 1)..last
  OBVIOUS

(* It ends within the stream. *)
LEMMA LeastFacts ==
  ASSUME NEW n \in Nat, NEW length \in Nat
  PROVE  Least(n + BatchSize, length) \in 0..length
  BY WhatsAppAssumption DEF Least


-------------------------------------------------------------------------------
(* Types and Batches. *)

(* A worker that goes on stays within what was read. *)
LEMMA BatchesGoOn ==
  ASSUME Types, Batches, NEW w \in Workers,
         NEW stage \in {"in", "out"}, NEW state \in {"usable", "dead"},
         NextEntry(w, stage, state),
         pc[w] \in IF stage = "in" THEN InStages ELSE OutStages,
         UNCHANGED <<inbound, readIn, readOut>>
  PROVE  Stages' /\ Batches'
<1>1. /\ Stages'
      /\ \A v \in Workers \ {w} : pc'[v] = pc[v] /\ batch'[v] = batch[v]
      /\ pc'[w] \in {"idle", stage}
      /\ batch'[w] = <<>> <=> pc'[w] = "idle"
      /\ Len(batch'[w]) \in Nat /\ Len(batch[w]) = Len(batch'[w]) + 1
      /\ \A i \in 1..Len(batch'[w]) : batch'[w][i] = batch[w][i + 1]
  <2>1. pc[w] # "idle"
    BY DEF InStages, OutStages
  <2> QED BY <2>1, NextEntryFacts
<1> SUFFICES ASSUME NEW v \in Workers
             PROVE  /\ batch'[v] = <<>> <=> pc'[v] = "idle"
                    /\ pc'[v] \in InStages =>
                         \A i \in 1..Len(batch'[v]) : batch'[v][i] \in 1..readIn
                    /\ pc'[v] \in OutStages =>
                         \A i \in 1..Len(batch'[v]) : batch'[v][i] \in 1..readOut
                    /\ pc'[v] \in {"commit", "announce"} =>
                         inbound[Head(batch'[v])].kind = "message"
                    /\ pc'[v] = "report" => inbound[Head(batch'[v])].kind = "status"
  BY <1>1 DEF Batches, Entry
<1>2. CASE v = w
  <2>1. \A i \in 1..Len(batch'[w]) : i + 1 \in 1..Len(batch[w])
    BY <1>1
  <2>2. CASE stage = "in"
    BY <1>1, <1>2, <2>1, <2>2 DEF Batches, InStages, OutStages
  <2>3. CASE stage = "out"
    BY <1>1, <1>2, <2>1, <2>3 DEF Batches, InStages, OutStages
  <2> QED BY <2>2, <2>3
<1>3. CASE v # w
  BY <1>1, <1>3 DEF Batches, Entry
<1> QED BY <1>2, <1>3

(* Steps that leave the workers where they are. *)
LEMMA BatchesStay ==
  ASSUME Types, Batches, UNCHANGED <<readIn, readOut, pc, batch, session, work>>,
         \A i \in 1..Len(inbound) : inbound'[i] = inbound[i]
  PROVE  Stages' /\ Batches'
<1>1. \A w \in Workers : pc[w] \in InStages => Entry(w)' = Entry(w)
  BY EntryFacts DEF Entry
<1>2. Batches'
  BY <1>1 DEF Batches, InStages
<1> QED BY <1>2 DEF Stages, Types

(* What the webhook adds to the inbound stream is entries. *)
LEMMA WebhookTypes ==
  ASSUME Types, Batches, ReceiveWebhook
  PROVE  /\ inbound' \in Seq(Entries) /\ Len(inbound') >= Len(inbound)
         /\ \A i \in 1..Len(inbound) : inbound'[i] = inbound[i]
<1>1. ASSUME NEW a \in Reports PROVE ToEntry(a) \in Entries
  <2>1. CASE a.kind = "status"
    <3>1. accepted \subseteq Nat
      BY DEF Types, Tables
    <3>2. a \in [kind : {"status"}, of : accepted, status : Statuses]
      BY <2>1 DEF Reports
    <3>3. a \in [kind : {"status"}, of : Nat, status : Statuses]
      BY <3>1, <3>2
    <3> QED BY <2>1, <3>3 DEF ToEntry, Entries
  <2>2. CASE a.kind # "status"
    <3>1. a.of \in Messages
      BY <2>2 DEF Reports
    <3> QED BY <2>2, <3>1 DEF ToEntry, Entries
  <2> QED BY <2>1, <2>2
<1>2. ASSUME NEW reports \in IF binding \in Meta THEN MetaReports ELSE EvolutionReports
      PROVE  reports \in Seq(Reports)
  <2>1. \A a \in Reports : <<a>> \in Seq(Reports)
    OBVIOUS
  <2>2. \A a, b \in Reports : <<a, b>> \in Seq(Reports)
    OBVIOUS
  <2>3. \A pair \in Reports \X Reports : \E a, b \in Reports : pair = <<a, b>>
    OBVIOUS
  <2> QED BY <2>1, <2>2, <2>3, ZenonT(60) DEF MetaReports, EvolutionReports
<1>3. ASSUME NEW reports \in Seq(Reports), NEW k \in 0..Len(reports)
      PROVE  [i \in 1..k |-> ToEntry(reports[i])] \in Seq(Entries)
  <2>1. \A i \in 1..k : reports[i] \in Reports
    BY <1>3
  <2>2. k \in Nat
    BY <1>3
  <2> QED BY <1>1, <2>1, <2>2
<1>4. inbound' = inbound \/ \E s \in Seq(Entries) : inbound' = inbound \o s
  <2>1. ASSUME NEW reports \in IF binding \in Meta THEN MetaReports ELSE EvolutionReports,
               NEW k \in 0..Len(reports),
               inbound' = inbound \o [i \in 1..k |-> ToEntry(reports[i])]
        PROVE  \E s \in Seq(Entries) : inbound' = inbound \o s
    <3> DEFINE s == [i \in 1..k |-> ToEntry(reports[i])]
    <3>1. s \in Seq(Entries)
      BY <1>2, <1>3
    <3>2. inbound' = inbound \o s
      BY <2>1
    <3> HIDE DEF s
    <3> QED BY <3>1, <3>2
  <2>2. CASE UNCHANGED inbound
    BY <2>2
  <2>3. ASSUME NEW reports \in IF binding \in Meta THEN MetaReports ELSE EvolutionReports,
               \/ inbound' = inbound \o [i \in 1..Len(reports) |-> ToEntry(reports[i])]
               \/ \E k \in 1..Len(reports) :
                    inbound' = inbound \o [i \in 1..(k - 1) |-> ToEntry(reports[i])]
        PROVE  \E s \in Seq(Entries) : inbound' = inbound \o s
    <3>1. Len(reports) \in Nat
      BY <1>2
    <3>2. CASE inbound' = inbound \o [i \in 1..Len(reports) |-> ToEntry(reports[i])]
      <4>1. Len(reports) \in 0..Len(reports)
        BY <3>1
      <4> QED BY <2>1, <3>2, <4>1
    <3>3. ASSUME NEW k \in 1..Len(reports),
                 inbound' = inbound \o [i \in 1..(k - 1) |-> ToEntry(reports[i])]
          PROVE  \E s \in Seq(Entries) : inbound' = inbound \o s
      <4>1. k - 1 \in 0..Len(reports)
        BY <3>1
      <4> QED BY <2>1, <3>3, <4>1
    <3> QED BY <2>3, <3>2, <3>3
  <2> QED BY <2>2, <2>3 DEF ReceiveWebhook
<1>5. inbound \in Seq(Entries)
  BY DEF Types, Tables
<1>6. ASSUME NEW s \in Seq(Entries)
      PROVE  /\ inbound \o s \in Seq(Entries) /\ Len(inbound \o s) >= Len(inbound)
             /\ \A i \in 1..Len(inbound) : (inbound \o s)[i] = inbound[i]
  BY <1>5
<1>7. CASE inbound' = inbound
  <2>1. Len(inbound) \in Nat
    BY <1>5
  <2> QED BY <1>5, <1>7, <2>1
<1>8. ASSUME NEW s \in Seq(Entries), inbound' = inbound \o s
      PROVE  /\ inbound' \in Seq(Entries) /\ Len(inbound') >= Len(inbound)
             /\ \A i \in 1..Len(inbound) : inbound'[i] = inbound[i]
  BY <1>6, <1>8
<1> QED BY <1>4, <1>7, <1>8

(* What an envelope queues is a message the outbound stream carries. *)
LEMMA QueuedFacts ==
  ASSUME Types, Batches, NEW w \in Workers, HandleEnvelope(w)
  PROVE  /\ outbound' \in Seq(Sendings)
         /\ Len(outbound') = Len(outbound) + 1
         /\ \A e \in 1..Len(outbound) : outbound'[e] = outbound[e]
<1>1. Entry(w).kind = "message" /\ pc[w] = "in"
  BY DEF HandleEnvelope
<1>2. Entry(w) \in Entries /\ From[Entry(w).of] \in Customers
  BY <1>1, EntryFacts, MessageFacts DEF InStages
<1>3. AutoReply(Entry(w)) \in {"opt_out_confirmed", "human_requested", "welcome", "received"}
  BY DEF AutoReply
<1>4. [to |-> From[Entry(w).of], what |-> AutoReply(Entry(w))] \in Sendings
  BY <1>2, <1>3 DEF Sendings
<1>5. outbound' = Append(outbound, [to |-> From[Entry(w).of], what |-> AutoReply(Entry(w))])
  BY DEF HandleEnvelope, Queued
<1> QED BY <1>4, <1>5 DEF Types, Tables

(* A row that takes another status leaves the rows as many as before. *)
LEMMA RowFacts ==
  ASSUME Types, NEW e \in 1..Len(outbound), NEW status \in RowStates
  PROVE  /\ [row EXCEPT ![e] = status] \in Seq(RowStates)
         /\ Len([row EXCEPT ![e] = status]) = Len(row)
         /\ \A d \in 1..Len(outbound) :
              [row EXCEPT ![e] = status][d] = IF d = e THEN status ELSE row[d]
  BY ExceptSeq DEF Types, Tables

(* Every step of a worker on the inbound side. *)
LEMMA InboundTypes ==
  ASSUME Types, Batches, NEW w \in Workers, Inbound(w)
  PROVE  Types' /\ Batches'
<1> USE WhatsAppAssumption
<1> USE DEF streams, db, provider, losses, history, workers
<1>1. pc[w] \in InStages => /\ pc[w] # "idle"
                            /\ Entry(w).kind = "message" => Entry(w).of \in Messages
  BY EntryFacts, MessageFacts DEF InStages
<1>2. faults' \in 0..MaxFaults /\ UNCHANGED <<noticesRead, history, instance, calls, binding>>
  BY DEF Inbound, ReadInbound, SkipInbound, SkipProcessed, HandlingFails, CommitInbound,
     CommitFails, PublishInboundEvent, HandleDeliveryStatus, DeliveryStatusFails, AnnounceStatus, Types, Tables
<1>3. CASE ReadInbound(w)
  <2> DEFINE last == Least(readIn + BatchSize, Len(inbound))
             s == [i \in 1..(last - readIn) |-> readIn + i]
  <2>0. readIn \in Nat /\ Len(inbound) \in Nat
    BY DEF Types, Tables
  <2>1. readIn \in Nat /\ last \in 0..Len(inbound) /\ readIn < last
    BY <1>3, <2>0, LeastFacts DEF ReadInbound
  <2>2. /\ s \in Seq(Nat) /\ s # <<>>
        /\ \A i \in 1..Len(s) : s[i] \in (readIn + 1)..last
    <3>1. last \in Nat
      BY <2>1
    <3> HIDE DEF last
    <3> QED BY <2>1, <3>1, BatchFacts
  <2>3. /\ pc[w] = "idle" /\ readIn' = last
        /\ pendingIn' = pendingIn \cup (readIn + 1)..last
        /\ batch' = [batch EXCEPT ![w] = s]
        /\ pc' = [pc EXCEPT ![w] = "in"]
        /\ UNCHANGED <<inbound, outbound, readOut, pendingOut, provider, db, session, work,
                       events, faults, losses>>
    BY <1>3 DEF ReadInbound
  <2> HIDE DEF s, last
  <2>4. Stages'
    BY <2>2, <2>3 DEF Types, Stages, InStages
  <2>5. Tables'
    BY <1>2, <2>1, <2>3 DEF Types, Tables
  <2>6. /\ batch'[w] = s /\ pc'[w] = "in"
        /\ \A v \in Workers \ {w} : batch'[v] = batch[v] /\ pc'[v] = pc[v]
    BY <2>3 DEF Types, Stages
  <2>7. \A i \in 1..Len(batch'[w]) : batch'[w][i] \in 1..readIn'
    BY <2>1, <2>2, <2>3, <2>6
  <2>8. 1..readIn \subseteq 1..readIn'
    BY <2>1, <2>3
  <2>9. Batches'
    BY <2>2, <2>3, <2>6, <2>7, <2>8 DEF Batches, Entry, InStages, OutStages
  <2> QED BY <2>4, <2>5, <2>9 DEF Types
<1>4. CASE SkipInbound(w)
  <2>1. Stages' /\ Batches'
    BY <1>1, <1>4, BatchesGoOn DEF SkipInbound, InStages
  <2> QED BY <1>2, <1>4, <2>1 DEF SkipInbound, Types, Tables
<1>5. ASSUME AckInbound(w), pc[w] \in InStages
      PROVE  /\ Stages' /\ Batches'
             /\ pendingIn' \subseteq pendingIn
             /\ UNCHANGED <<inbound, readIn, readOut, pendingOut>>
  BY <1>1, <1>5, BatchesGoOn DEF AckInbound
<1>6. CASE SkipProcessed(w)
  <2>1. AckInbound(w) /\ pc[w] \in InStages
    BY <1>6 DEF SkipProcessed, InStages
  <2> QED BY <1>2, <1>5, <1>6, <2>1 DEF SkipProcessed, Types, Tables
<1>7. CASE HandlingFails(w)
  <2>1. AckInbound(w) /\ pc[w] \in InStages
    BY <1>7 DEF HandlingFails, InStages
  <2> QED BY <1>2, <1>5, <1>7, <2>1 DEF HandlingFails, Types, Tables
<1>8. CASE CommitInbound(w)
  <2>1. Entry(w).kind = "message" /\ pc[w] \in InStages
    BY <1>8 DEF CommitInbound, Batches, InStages
  <2>2. Entry(w).of \in Messages /\ From[Entry(w).of] \in Customers
    BY <2>1, EntryFacts, MessageFacts
  <2>3. StateAfter(Entry(w)) \in States
    BY <2>2 DEF StateAfter, Types, Tables, States
  <2>4. Tables'
    BY <1>2, <1>8, <2>2, <2>3 DEF CommitInbound, Types, Tables
  <2>5. Stages'
    BY <1>8 DEF CommitInbound, Types, Stages, InStages
  <2>6. Batches'
    BY <1>8, <2>1 DEF CommitInbound, Types, Stages, Batches, Entry, InStages, OutStages
  <2> QED BY <2>4, <2>5, <2>6 DEF Types
<1>9. CASE CommitFails(w)
  <2>1. AckInbound(w) /\ pc[w] \in InStages
    BY <1>9 DEF CommitFails, InStages
  <2> QED BY <1>2, <1>5, <1>9, <2>1 DEF CommitFails, Types, Tables
<1>10. CASE PublishInboundEvent(w)
  <2>1. AckInbound(w) /\ pc[w] \in InStages
    BY <1>10 DEF PublishInboundEvent, InStages
  <2> QED BY <1>2, <1>5, <1>10, <2>1 DEF PublishInboundEvent, Types, Tables
<1>11. /\ Normalised(Entry(w).status) \in RowStates
       /\ \A e \in identified : e \in 1..Len(outbound)
  BY DEF Normalised, RowStates, Types, Tables
<1>12. CASE HandleDeliveryStatus(w)
  <2>1. row' \in Seq(RowStates) /\ Len(row') = Len(row)
    <3>1. CASE Entry(w).of \in identified
      BY <1>11, <1>12, <3>1, RowFacts DEF HandleDeliveryStatus
    <3>2. CASE Entry(w).of \notin identified
      BY <1>12, <3>2 DEF HandleDeliveryStatus, Types, Tables
    <3> QED BY <3>1, <3>2
  <2>2. CASE AckInbound(w)
    <3>1. pc[w] \in InStages
      BY <1>12 DEF HandleDeliveryStatus, InStages
    <3> QED BY <1>2, <1>5, <1>12, <2>1, <2>2, <3>1 DEF HandleDeliveryStatus, Types, Tables
  <2>3. CASE /\ pc' = [pc EXCEPT ![w] = "report"]
             /\ UNCHANGED <<inbound, readIn, pendingIn, readOut, pendingOut, batch, session, work>>
    <3>1. pc[w] \in InStages
      BY <1>12 DEF HandleDeliveryStatus, InStages
    <3>2. Stages'
      BY <2>3 DEF Types, Stages, InStages
    <3>3. Batches'
      BY <1>12, <2>3, <3>1 DEF HandleDeliveryStatus, Types, Stages, Batches, Entry, InStages, OutStages
    <3>4. Tables'
      BY <1>2, <1>12, <2>1, <2>3 DEF HandleDeliveryStatus, Types, Tables
    <3> QED BY <3>2, <3>3, <3>4 DEF Types
  <2> QED BY <1>12, <2>2, <2>3 DEF HandleDeliveryStatus
<1>13. CASE DeliveryStatusFails(w)
  <2>1. NextEntry(w, "in", "dead") /\ pc[w] \in InStages /\ UNCHANGED streams
    BY <1>13 DEF DeliveryStatusFails, InStages
  <2>2. Stages' /\ Batches'
    BY <2>1, BatchesGoOn
  <2>3. Tables'
    BY <1>2, <1>13 DEF DeliveryStatusFails, Types, Tables
  <2> QED BY <2>2, <2>3 DEF Types
<1>14. CASE AnnounceStatus(w)
  <2>1. pc[w] \in InStages
    BY <1>14 DEF AnnounceStatus, InStages
  <2>2. UNCHANGED <<provider, db, inbound, readIn, outbound, readOut, pendingOut>>
    BY <1>14 DEF AnnounceStatus, AckInbound
  <2>3. CASE AckInbound(w)
    BY <1>2, <1>5, <2>1, <2>2, <2>3 DEF Types, Tables
  <2>4. CASE NextEntry(w, "in", "usable") /\ UNCHANGED streams
    <3>1. Stages' /\ Batches'
      BY <2>1, <2>4, BatchesGoOn
    <3> QED BY <1>2, <2>2, <2>4, <3>1 DEF Types, Tables
  <2> QED BY <1>14, <2>3, <2>4 DEF AnnounceStatus
<1> QED
  BY <1>3, <1>4, <1>6, <1>7, <1>8, <1>9, <1>10, <1>12, <1>13, <1>14 DEF Inbound

(* A reply or a notification that is queued gets its place in the rows. *)
LEMMA QueueTypes ==
  ASSUME Types, outbound' \in Seq(Sendings), Len(outbound') = Len(outbound) + 1,
         row' = Append(row, "none"), attempts' = Append(attempts, 0)
  PROVE  /\ row' \in Seq(RowStates) /\ Len(row') = Len(outbound')
         /\ attempts' \in Seq(Nat) /\ Len(attempts') = Len(outbound')
         /\ 1..Len(outbound) \subseteq 1..Len(outbound')
         /\ 0..Len(outbound) \subseteq 0..Len(outbound')
  BY DEF Types, Tables, RowStates

(* A message of a customer is handled up to its commit. *)
LEMMA HandleTypes ==
  ASSUME Types, Batches, NEW w \in Workers, Handle(w)
  PROVE  Types' /\ Batches'
<1> USE WhatsAppAssumption
<1> USE DEF streams, db, provider, losses, history, workers
<1>1. /\ outbound' \in Seq(Sendings) /\ Len(outbound') = Len(outbound) + 1
      /\ row' = Append(row, "none") /\ attempts' = Append(attempts, 0)
  BY QueuedFacts DEF Handle, HandleEnvelope
<1>2. Tables'
  BY <1>1, QueueTypes DEF Handle, HandleEnvelope, Types, Tables
<1>3. Stages'
  BY DEF Handle, HandleEnvelope, Types, Stages, InStages
<1>4. Batches'
  BY DEF Handle, HandleEnvelope, Types, Stages, Batches, Entry, InStages, OutStages
<1> QED BY <1>2, <1>3, <1>4 DEF Types

(* A vertical's event makes a notification, or nothing. *)
LEMMA NotifyTypes ==
  ASSUME Types, Batches, NEW w \in Workers, NotifyVertical(w)
  PROVE  Types' /\ Batches'
<1> USE WhatsAppAssumption
<1> USE DEF streams, db, provider, losses, history, workers
<1>1. Stages' /\ Batches'
  BY BatchesStay DEF NotifyVertical
<1>2. PICK n \in Notices : noticesRead' = noticesRead \cup {n} /\
        \/ \E message \in Notifications(n) :
             /\ outbound' = Append(outbound, message)
             /\ row' = Append(row, "none") /\ attempts' = Append(attempts, 0)
             /\ UNCHANGED faults
        \/ UNCHANGED <<outbound, row, attempts>> /\ faults' \in {faults, faults + 1}
  BY DEF NotifyVertical
<1>3. Notifications(n) \subseteq Sendings
  BY DEF Notifications, Sendings
<1>4. faults' \in 0..MaxFaults
  BY DEF NotifyVertical, Types, Tables
<1>5. CASE UNCHANGED <<outbound, row, attempts>>
  BY <1>1, <1>2, <1>4, <1>5 DEF NotifyVertical, Types, Tables
<1>6. ASSUME NEW message \in Sendings, outbound' = Append(outbound, message),
             row' = Append(row, "none"), attempts' = Append(attempts, 0)
      PROVE  Types'
  <2>1. outbound' \in Seq(Sendings) /\ Len(outbound') = Len(outbound) + 1
    BY <1>6 DEF Types, Tables
  <2>2. Tables'
    BY <1>2, <1>4, <1>6, <2>1, QueueTypes DEF NotifyVertical, Types, Tables
  <2> QED BY <1>1, <2>2 DEF Types
<1>7. \/ UNCHANGED <<outbound, row, attempts>>
      \/ \E message \in Sendings : /\ outbound' = Append(outbound, message)
                                    /\ row' = Append(row, "none")
                                    /\ attempts' = Append(attempts, 0)
  BY <1>2, <1>3
<1>8. CASE \E message \in Sendings : /\ outbound' = Append(outbound, message)
                                      /\ row' = Append(row, "none")
                                      /\ attempts' = Append(attempts, 0)
  <2>1. PICK message \in Sendings : /\ outbound' = Append(outbound, message)
                                    /\ row' = Append(row, "none")
                                    /\ attempts' = Append(attempts, 0)
    BY <1>8
  <2> QED BY <1>1, <1>6, <2>1
<1> QED BY <1>5, <1>7, <1>8

(* Every step of a worker on the outbound side. *)
LEMMA OutboundTypes ==
  ASSUME Types, Batches, NEW w \in Workers, Outbound(w)
  PROVE  Types' /\ Batches'
<1> USE WhatsAppAssumption
<1> USE DEF streams, db, provider, losses, history, workers
<1>1. pc[w] \in OutStages => /\ pc[w] # "idle"
                             /\ Sending(w) \in 1..Len(outbound)
  BY SendingFacts DEF OutStages
<1>2. faults' \in 0..MaxFaults
  BY DEF Outbound, ReadOutbound, Block, MaySend, NotPrepared, Prepare, PrepareFails, CallProvider, RecordSent,
     RecordFailed, AnnounceFailure, RecordFails, Types, Tables
<1>3. CASE ReadOutbound(w)
  <2> DEFINE last == Least(readOut + BatchSize, Len(outbound))
             s == [i \in 1..(last - readOut) |-> readOut + i]
  <2>0. readOut \in Nat /\ Len(outbound) \in Nat
    BY DEF Types, Tables
  <2>1. readOut \in Nat /\ last \in 0..Len(outbound) /\ readOut < last
    BY <1>3, <2>0, LeastFacts DEF ReadOutbound
  <2>2. /\ s \in Seq(Nat) /\ s # <<>>
        /\ \A i \in 1..Len(s) : s[i] \in (readOut + 1)..last
    <3>1. last \in Nat
      BY <2>1
    <3> HIDE DEF last
    <3> QED BY <2>1, <3>1, BatchFacts
  <2>3. /\ pc[w] = "idle" /\ readOut' = last
        /\ pendingOut' = pendingOut \cup (readOut + 1)..last
        /\ batch' = [batch EXCEPT ![w] = s]
        /\ pc' = [pc EXCEPT ![w] = "out"]
        /\ UNCHANGED <<inbound, readIn, pendingIn, outbound, provider, db, session, work,
                       events, faults, losses, noticesRead, history>>
    BY <1>3 DEF ReadOutbound
  <2> HIDE DEF s, last
  <2>4. Stages'
    BY <2>2, <2>3 DEF Types, Stages, OutStages
  <2>5. Tables'
    BY <2>1, <2>3 DEF Types, Tables
  <2>6. /\ batch'[w] = s /\ pc'[w] = "out"
        /\ \A v \in Workers \ {w} : batch'[v] = batch[v] /\ pc'[v] = pc[v]
    BY <2>3 DEF Types, Stages
  <2>7. \A i \in 1..Len(batch'[w]) : batch'[w][i] \in 1..readOut'
    BY <2>1, <2>2, <2>3, <2>6
  <2>8. 1..readOut \subseteq 1..readOut'
    BY <2>1, <2>3
  <2>9. Batches'
    BY <2>2, <2>3, <2>6, <2>7, <2>8 DEF Batches, Entry, InStages, OutStages
  <2> QED BY <2>4, <2>5, <2>9 DEF Types
<1>4. ASSUME NEW state \in {"usable", "dead"}, NextEntry(w, "out", state), pc[w] \in OutStages,
             UNCHANGED <<inbound, readIn, readOut>>
      PROVE  Stages' /\ Batches'
  BY <1>4, BatchesGoOn
<1>5. AckOutbound(w) /\ pc[w] \in OutStages =>
        /\ Stages' /\ Batches' /\ pendingOut' \subseteq pendingOut
        /\ UNCHANGED <<inbound, readIn, pendingIn, outbound, readOut>>
  <2>1. session[w] \in {"usable", "dead"}
    BY DEF Types, Stages
  <2> QED BY <1>4, <2>1 DEF AckOutbound
<1>6. CASE Block(w)
  BY <1>5, <1>6 DEF Block, OutStages, Types, Tables
<1>7. ASSUME NEW stage \in OutStages, pc' = [pc EXCEPT ![w] = stage], pc[w] \in OutStages,
             UNCHANGED <<inbound, readIn, readOut, batch>>
      PROVE  Batches' /\ pc' \in [Workers -> {"idle"} \cup InStages \cup OutStages]
  BY <1>7 DEF Batches, Entry, InStages, OutStages, Types, Stages
<1>8. CASE Prepare(w)
  <2>1. pc[w] \in OutStages /\ Batches' /\ Stages'
    BY <1>7, <1>8 DEF Prepare, OutStages, Types, Stages
  <2>2. row' \in Seq(RowStates) /\ Len(row') = Len(row)
    BY <1>1, <1>8, <2>1, RowFacts DEF Prepare, RowStates
  <2> QED BY <1>8, <2>1, <2>2 DEF Prepare, Types, Tables
<1>9. CASE PrepareFails(w)
  <2>1. Stages' /\ Batches'
    BY <1>4, <1>9 DEF PrepareFails, OutStages
  <2> QED BY <1>2, <1>9, <2>1 DEF PrepareFails, Types, Tables
<1>10. CASE CallProvider(w)
  <2>1. pc[w] \in OutStages /\ Batches'
        /\ pc' \in [Workers -> {"idle"} \cup InStages \cup OutStages]
    BY <1>7, <1>10 DEF CallProvider, OutStages
  <2>2. PICK outcome \in Outcomes :
          /\ work' = [work EXCEPT ![w] = outcome.answer]
          /\ accepted' = IF outcome.sent THEN accepted \cup {Sending(w)} ELSE accepted
    BY <1>10 DEF CallProvider
  <2>3. outcome.answer \in {"id", "no_id", "error"}
    BY DEF Outcomes, MetaOutcomes, EvolutionOutcomes
  <2>4. Stages'
    BY <1>10, <2>1, <2>2, <2>3 DEF CallProvider, Types, Stages
  <2>5. attempts' \in Seq(Nat) /\ Len(attempts') = Len(attempts)
    <3>1. attempts[Sending(w)] + 1 \in Nat /\ Sending(w) \in 1..Len(attempts)
      BY <1>1, <2>1 DEF Types, Tables
    <3> QED BY <1>10, <3>1, ExceptSeq DEF CallProvider, Types, Tables
  <2>6. accepted' \subseteq 1..Len(outbound) /\ late' \subseteq 1..Len(outbound)
    BY <1>1, <1>10, <2>1, <2>2 DEF CallProvider, Types, Tables
  <2>7. UNCHANGED <<streams, instance, calls, db, noticesRead>>
    BY <1>10 DEF CallProvider
  <2>8. Tables'
    BY <1>2, <2>5, <2>6, <2>7 DEF Types, Tables
  <2> QED BY <2>1, <2>4, <2>8 DEF Types
<1>11. CASE RecordSent(w)
  <2>1. row' \in Seq(RowStates) /\ Len(row') = Len(row) /\ identified' \subseteq 1..Len(outbound)
    BY <1>1, <1>11, RowFacts DEF RecordSent, RowStates, OutStages, Types, Tables
  <2> QED BY <1>5, <1>11, <2>1 DEF RecordSent, OutStages, Types, Tables
<1>12. CASE RecordFailed(w)
  <2>1. row' \in Seq(RowStates) /\ Len(row') = Len(row)
    BY <1>1, <1>12, RowFacts DEF RecordFailed, RowStates, OutStages
  <2>2. Stages' /\ Batches'
    BY <1>7, <1>12 DEF RecordFailed, OutStages, Types, Stages
  <2> QED BY <1>12, <2>1, <2>2 DEF RecordFailed, Types, Tables
<1>13. CASE RecordFails(w)
  <2>1. Stages' /\ Batches'
    BY <1>4, <1>13 DEF RecordFails, OutStages
  <2> QED BY <1>2, <1>13, <2>1 DEF RecordFails, Types, Tables
<1>14. CASE MaySend(w)
  <2>1. Stages' /\ Batches'
    BY <1>7, <1>14 DEF MaySend, OutStages, Types, Stages
  <2> QED BY <1>14, <2>1 DEF MaySend, Types, Tables
<1>15. CASE NotPrepared(w)
  <2>1. session[w] \in {"usable", "dead"}
    BY DEF Types, Stages
  <2>2. Stages' /\ Batches'
    BY <1>4, <1>15, <2>1 DEF NotPrepared, OutStages
  <2> QED BY <1>15, <2>2 DEF NotPrepared, Types, Tables
<1>16. CASE AnnounceFailure(w)
  <2>1. Stages' /\ Batches'
    BY <1>4, <1>16 DEF AnnounceFailure, OutStages
  <2> QED BY <1>2, <1>16, <2>1 DEF AnnounceFailure, Types, Tables
<1> QED
  BY <1>3, <1>6, <1>8, <1>9, <1>10, <1>11, <1>12, <1>13, <1>14, <1>15, <1>16 DEF Outbound

(* Every step keeps the types, and the batches within what was read. *)
LEMMA TypesStep ==
  ASSUME Types, Batches, [Next]_vars
  PROVE  Types' /\ Batches'
<1> USE WhatsAppAssumption
<1> USE DEF streams, db, provider, losses, history, workers
<1>1. ASSUME EvolutionCreateInstance \/ UnbindTenant, UNCHANGED <<noticesRead, history>>
      PROVE  Types' /\ Batches'
  <2>1. Stages' /\ Batches'
    BY <1>1, BatchesStay DEF EvolutionCreateInstance, UnbindTenant
  <2>2. /\ instance' \in BOOLEAN /\ binding' \in {"none", "meta", "tokenless", "evolution"}
        /\ faults' \in 0..MaxFaults
    <3>1. CASE EvolutionCreateInstance
      <4>1. instance' = TRUE /\ (UNCHANGED faults \/ (faults < MaxFaults /\ faults' = faults + 1))
        BY <3>1, Zenon DEF EvolutionCreateInstance
      <4>2. binding' \in {binding, "evolution"}
        BY <3>1, Zenon DEF EvolutionCreateInstance
      <4> QED BY <4>1, <4>2 DEF Types, Tables
    <3>2. CASE UnbindTenant
      BY <3>2 DEF UnbindTenant, Types, Tables
    <3> QED BY <1>1, <3>1, <3>2
  <2>3. UNCHANGED <<calls, accepted, conversation, stored, optedOut, row, identified, streams,
                    noticesRead, history>>
    BY <1>1 DEF EvolutionCreateInstance, UnbindTenant
  <2>4. Tables'
    BY <2>2, <2>3 DEF Types, Tables
  <2> QED BY <2>1, <2>4 DEF Types
<1>2. ASSUME ReceiveWebhook, UNCHANGED <<noticesRead, history>>
      PROVE  Types' /\ Batches'
  <2>1. Stages' /\ Batches'
    BY <1>2, WebhookTypes, BatchesStay DEF ReceiveWebhook
  <2>2. calls' \in 0..MaxCalls /\ faults' \in 0..MaxFaults
    <3>1. calls \in 0..MaxCalls /\ faults \in 0..MaxFaults
      BY DEF Types, Tables
    <3>2. calls < MaxCalls /\ calls' = calls + 1
      BY <1>2 DEF ReceiveWebhook
    <3>3. faults' = faults \/ (faults < MaxFaults /\ faults' = faults + 1)
      BY <1>2, Zenon DEF ReceiveWebhook
    <3> QED BY <3>1, <3>2, <3>3
  <2>3. readIn \in 0..Len(inbound')
    BY <1>2, WebhookTypes DEF Types, Tables
  <2> QED BY <1>2, <2>1, <2>2, <2>3, WebhookTypes DEF ReceiveWebhook, Types, Tables
<1>3. ASSUME NEW w \in Workers, Crash(w)
      PROVE  Types' /\ Batches'
  <2>1. Stages'
    BY <1>3 DEF Crash, Types, Stages
  <2>2. Batches'
    BY <1>3 DEF Crash, Types, Stages, Batches, Entry, InStages, OutStages
  <2>3. Tables'
    BY <1>3 DEF Crash, Types, Tables
  <2> QED BY <2>1, <2>2, <2>3 DEF Types
<1>4. CASE UNCHANGED vars
  BY <1>4 DEF vars, Types, Tables, Stages, Batches, Entry
<1>5. ASSUME NEW w \in Workers, Reclaim(w)
      PROVE  UNCHANGED vars
  BY <1>5 DEF Reclaim
<1> QED
  BY <1>1, <1>2, <1>3, <1>4, <1>5, InboundTypes, HandleTypes, NotifyTypes, OutboundTypes
     DEF Next, Environment

-------------------------------------------------------------------------------
(* What no step takes back: the streams only grow, rows are added, and     *)
(* what was stored, announced, accepted or lost stays so.                  *)
LEMMA NothingIsTakenBack ==
  ASSUME Types, Batches, [Next]_vars
  PROVE  /\ \A i \in 1..Len(inbound) : inbound'[i] = inbound[i]
         /\ \A e \in 1..Len(outbound) : outbound'[e] = outbound[e]
         /\ stored \subseteq stored' /\ optedOut \subseteq optedOut'
         /\ identified \subseteq identified' /\ accepted \subseteq accepted'
         /\ events \subseteq events' /\ dropped \subseteq dropped' /\ harmed \subseteq harmed'
<1> USE DEF streams, db, provider, losses, history, workers
<1>1. ASSUME NEW w \in Workers, Inbound(w) PROVE UNCHANGED <<inbound, outbound>>
  BY <1>1 DEF Inbound, ReadInbound, SkipInbound, SkipProcessed, HandlingFails, CommitInbound,
     CommitFails, PublishInboundEvent, HandleDeliveryStatus, DeliveryStatusFails, AnnounceStatus, AckInbound
<1>2. ASSUME NEW w \in Workers, Outbound(w) PROVE UNCHANGED <<inbound, outbound>>
  BY <1>2 DEF Outbound, ReadOutbound, Block, MaySend, NotPrepared, Prepare, PrepareFails, CallProvider, RecordSent,
     RecordFailed, AnnounceFailure, RecordFails, AckOutbound
<1>3. ASSUME NEW w \in Workers, Crash(w) \/ Reclaim(w) PROVE UNCHANGED <<inbound, outbound>>
  BY <1>3 DEF Crash, Reclaim, vars
<1>4. ASSUME NEW w \in Workers, NotifyVertical(w)
      PROVE  UNCHANGED inbound /\ \A e \in 1..Len(outbound) : outbound'[e] = outbound[e]
  <2>1. \/ UNCHANGED outbound
        \/ \E n \in Notices : \E message \in Notifications(n) : outbound' = Append(outbound, message)
    BY <1>4 DEF NotifyVertical
  <2>2. \A n \in Notices : Notifications(n) \subseteq Sendings
    BY WhatsAppAssumption DEF Notifications, Sendings
  <2>3. outbound \in Seq(Sendings) /\ UNCHANGED inbound
    BY <1>4 DEF NotifyVertical, Types, Tables
  <2>4. \A message \in Sendings : \A e \in 1..Len(outbound) : Append(outbound, message)[e] = outbound[e]
    BY <2>3
  <2> QED BY <2>1, <2>2, <2>3, <2>4
<1>5. ASSUME NEW w \in Workers, Handle(w)
      PROVE  UNCHANGED inbound /\ \A e \in 1..Len(outbound) : outbound'[e] = outbound[e]
  BY <1>5, QueuedFacts DEF Handle, HandleEnvelope
<1>6. ASSUME Environment
      PROVE  UNCHANGED outbound /\ \A i \in 1..Len(inbound) : inbound'[i] = inbound[i]
  BY <1>6, WebhookTypes DEF Environment, EvolutionCreateInstance, UnbindTenant, ReceiveWebhook
<1>7. /\ \A i \in 1..Len(inbound) : inbound'[i] = inbound[i]
      /\ \A e \in 1..Len(outbound) : outbound'[e] = outbound[e]
  BY <1>1, <1>2, <1>3, <1>4, <1>5, <1>6 DEF Next, vars
<1>8. ASSUME NEW w \in Workers, Inbound(w)
      PROVE  /\ stored \subseteq stored' /\ optedOut \subseteq optedOut'
             /\ UNCHANGED <<identified, accepted>>
             /\ events \subseteq events' /\ dropped \subseteq dropped' /\ harmed \subseteq harmed'
  BY <1>8 DEF Inbound, ReadInbound, SkipInbound, SkipProcessed, HandlingFails, CommitInbound,
     CommitFails, PublishInboundEvent, HandleDeliveryStatus, DeliveryStatusFails, AnnounceStatus
<1>9. ASSUME NEW w \in Workers, Outbound(w)
      PROVE  /\ UNCHANGED <<stored, optedOut, dropped>>
             /\ identified \subseteq identified' /\ accepted \subseteq accepted'
             /\ events \subseteq events' /\ harmed \subseteq harmed'
  BY <1>9 DEF Outbound, ReadOutbound, Block, MaySend, NotPrepared, Prepare, PrepareFails, CallProvider, RecordSent,
     RecordFailed, AnnounceFailure, RecordFails
<1>10. ASSUME NEW w \in Workers, Handle(w) \/ NotifyVertical(w) \/ Crash(w) \/ Reclaim(w)
       PROVE  /\ UNCHANGED <<stored, optedOut, identified, accepted, dropped>>
              /\ events \subseteq events' /\ harmed \subseteq harmed'
  BY <1>10 DEF Handle, HandleEnvelope, NotifyVertical, Crash, Reclaim, vars
<1>11. ASSUME Environment
       PROVE  UNCHANGED <<stored, optedOut, identified, accepted, events, dropped, harmed>>
  BY <1>11 DEF Environment, EvolutionCreateInstance, UnbindTenant, ReceiveWebhook
<1>12. CASE UNCHANGED vars
  BY <1>7, <1>12 DEF vars
<1> QED
  BY <1>7, <1>8, <1>9, <1>10, <1>11, <1>12 DEF Next

-------------------------------------------------------------------------------
(* Who works on what. *)

(* A worker that stays with its batch, or goes on to the next entry of it. *)
Continues(v) ==
  /\ pc[v] \in OutStages
  /\ \/ /\ batch'[v] = batch[v]
        /\ pc[v] \in Called => pc'[v] \in Called
     \/ /\ pc'[v] = "out"
        /\ Len(batch'[v]) \in Nat /\ Len(batch[v]) = Len(batch'[v]) + 1
        /\ \A i \in 1..Len(batch'[v]) : batch'[v][i] = batch[v][i + 1]

(* A worker that takes what nobody has read yet. *)
TakesNew(w) ==
  /\ pc'[w] = "out"
  /\ \A i \in 1..Len(batch'[w]) : batch'[w][i] = readOut + i

(* At most one worker reads from the outbound stream in a step, and the    *)
(* others keep to what they have.                                          *)
LEMMA OutboundMoves ==
  ASSUME Types, Batches, [Next]_vars
  PROVE  /\ readOut <= readOut'
         /\ \/ \A v \in Workers : pc'[v] \in OutStages => Continues(v)
            \/ \E w \in Workers :
                 /\ ReadOutbound(w) /\ TakesNew(w)
                 /\ \A v \in Workers \ {w} : pc'[v] \in OutStages => Continues(v)
<1> USE DEF streams, db, provider, losses, history, workers
<1>0. readOut \in Nat
  BY DEF Types, Tables
<1>1. ASSUME NEW w \in Workers, Inbound(w) \/ Handle(w) \/ Crash(w)
      PROVE  UNCHANGED readOut /\ \A v \in Workers : pc'[v] \in OutStages => Continues(v)
  <2>1. UNCHANGED readOut
    BY <1>1 DEF Inbound, ReadInbound, SkipInbound, SkipProcessed, HandlingFails, CommitInbound,
       CommitFails, PublishInboundEvent, HandleDeliveryStatus, DeliveryStatusFails, AnnounceStatus, AckInbound,
       Handle, HandleEnvelope, Crash
  <2>2. /\ pc'[w] \notin OutStages
        /\ \A v \in Workers \ {w} : pc'[v] = pc[v] /\ batch'[v] = batch[v]
    BY <1>1 DEF Inbound, ReadInbound, SkipInbound, SkipProcessed, HandlingFails, CommitInbound,
       CommitFails, PublishInboundEvent, HandleDeliveryStatus, DeliveryStatusFails, AnnounceStatus, AckInbound,
       Handle, HandleEnvelope, Crash, NextEntry, Types, Stages, OutStages
  <2> QED BY <2>1, <2>2 DEF Continues
<1>2. ASSUME NEW w \in Workers, ReadOutbound(w)
      PROVE  /\ readOut <= readOut'
             /\ TakesNew(w)
             /\ \A v \in Workers \ {w} : pc'[v] \in OutStages => Continues(v)
  <2> DEFINE last == Least(readOut + BatchSize, Len(outbound))
             s == [i \in 1..(last - readOut) |-> readOut + i]
  <2>1. Len(outbound) \in Nat
    BY DEF Types, Tables
  <2>2. last \in Nat /\ readOut < last
    BY <1>0, <1>2, <2>1, LeastFacts DEF ReadOutbound
  <2>3. /\ readOut' = last /\ batch' = [batch EXCEPT ![w] = s]
        /\ pc' = [pc EXCEPT ![w] = "out"]
    BY <1>2 DEF ReadOutbound
  <2> HIDE DEF last
  <2>4. \A i \in 1..Len(s) : s[i] = readOut + i
    BY <1>0, <2>2, BatchFacts
  <2> HIDE DEF s
  <2>5. TakesNew(w)
    BY <2>3, <2>4 DEF TakesNew, Types, Stages
  <2>6. \A v \in Workers \ {w} : pc'[v] = pc[v] /\ batch'[v] = batch[v]
    BY <2>3 DEF Types, Stages
  <2> QED BY <1>0, <2>2, <2>3, <2>5, <2>6 DEF Continues
<1>3. ASSUME NEW w \in Workers, Outbound(w), ~ReadOutbound(w)
      PROVE  UNCHANGED readOut /\ \A v \in Workers : pc'[v] \in OutStages => Continues(v)
  <2>1. UNCHANGED readOut
    BY <1>3 DEF Outbound, Block, MaySend, NotPrepared, Prepare, PrepareFails, CallProvider, RecordSent,
       RecordFailed, AnnounceFailure, RecordFails, AckOutbound
  <2>2. pc[w] \in OutStages
    BY <1>3 DEF Outbound, Block, MaySend, NotPrepared, Prepare, PrepareFails, CallProvider, RecordSent,
       RecordFailed, AnnounceFailure, RecordFails, OutStages
  <2>3. CASE MaySend(w) \/ Prepare(w) \/ CallProvider(w) \/ RecordFailed(w)
    <3>1. /\ pc[w] \in Called => pc'[w] \in Called
          /\ UNCHANGED batch /\ \A v \in Workers \ {w} : pc'[v] = pc[v]
      BY <2>3 DEF MaySend, Prepare, CallProvider, RecordFailed, Called, Types, Stages
    <3> QED BY <2>1, <2>2, <3>1 DEF Continues
  <2>4. CASE \E state \in {"usable", "dead"} : NextEntry(w, "out", state)
    <3>1. pc[w] # "idle"
      BY <2>2 DEF OutStages
    <3> QED BY <2>1, <2>2, <2>4, <3>1, NextEntryFacts DEF Continues, OutStages
  <2>5. MaySend(w) \/ Prepare(w) \/ CallProvider(w) \/ RecordFailed(w) \/ \E state \in {"usable", "dead"} : NextEntry(w, "out", state)
    <3>1. session[w] \in {"usable", "dead"}
      BY DEF Types, Stages
    <3> QED BY <1>3, <3>1 DEF Outbound, Block, NotPrepared, PrepareFails, RecordSent,
            AnnounceFailure, RecordFails, AckOutbound
  <2> QED BY <2>3, <2>4, <2>5
<1>4. ASSUME UNCHANGED <<readOut, pc, batch>>
      PROVE  UNCHANGED readOut /\ \A v \in Workers : pc'[v] \in OutStages => Continues(v)
  BY <1>4 DEF Continues
<1>5. ASSUME NEW w \in Workers, NotifyVertical(w) \/ Reclaim(w)
      PROVE  UNCHANGED <<readOut, pc, batch>>
  BY <1>5 DEF NotifyVertical, Reclaim, vars
<1>6. ASSUME Environment PROVE UNCHANGED <<readOut, pc, batch>>
  BY <1>6 DEF Environment, EvolutionCreateInstance, UnbindTenant, ReceiveWebhook
<1>7. UNCHANGED vars => UNCHANGED <<readOut, pc, batch>>
  BY DEF vars
<1> QED
  BY <1>0, <1>1, <1>2, <1>3, <1>4, <1>5, <1>6, <1>7 DEF Next

(* An entry of a batch after a step was in the batch before, in its place, *)
(* or one place further on.                                                *)
LEMMA ContinuesFacts ==
  ASSUME Types, Batches, NEW v \in Workers, Continues(v), Stages'
  PROVE  \E shift \in {0, 1} :
           /\ shift = 0 => batch'[v] = batch[v] /\ (pc[v] \in Called => pc'[v] \in Called)
           /\ \A i \in 1..Len(batch'[v]) :
                /\ i \in Nat /\ i + shift \in 1..Len(batch[v])
                /\ batch'[v][i] = batch[v][i + shift]
<1>1. Len(batch[v]) \in Nat /\ Len(batch'[v]) \in Nat
  BY DEF Types, Stages
<1>2. CASE batch'[v] = batch[v] /\ (pc[v] \in Called => pc'[v] \in Called)
  <2>1. \A i \in 1..Len(batch'[v]) : i \in Nat /\ i + 0 = i
    BY <1>1
  <2> QED BY <1>1, <1>2, <2>1
<1>3. CASE ~(batch'[v] = batch[v] /\ (pc[v] \in Called => pc'[v] \in Called))
  BY <1>1, <1>3 DEF Continues
<1> QED BY <1>2, <1>3

(* No step puts an entry into a second batch.                              *)
LEMMA ApartStep ==
  ASSUME Types, Batches, Apart, [Next]_vars
  PROVE  Apart'
<1>1. Stages' /\ readOut \in Nat
  BY TypesStep DEF Types, Tables
<1>2. ASSUME NEW v \in Workers, NEW w \in Workers, Continues(v), Continues(w),
             NEW i \in 1..Len(batch'[v]), NEW j \in 1..Len(batch'[w]),
             batch'[v][i] = batch'[w][j]
      PROVE  v = w /\ i = j
  <2>1. PICK k \in 1..Len(batch[v]) : batch'[v][i] = batch[v][k]
    BY <1>1, <1>2, ContinuesFacts
  <2>2. PICK l \in 1..Len(batch[w]) : batch'[w][j] = batch[w][l]
    BY <1>1, <1>2, ContinuesFacts
  <2>3. pc[v] \in OutStages /\ pc[w] \in OutStages
    BY <1>2 DEF Continues
  <2>4. v = w
    BY <1>2, <2>1, <2>2, <2>3 DEF Apart
  <2>5. PICK a \in {0, 1} :
          /\ i + a \in 1..Len(batch[v]) /\ batch'[v][i] = batch[v][i + a]
          /\ j + a \in 1..Len(batch[v]) /\ batch'[v][j] = batch[v][j + a]
    BY <1>1, <1>2, <2>4, ContinuesFacts
  <2> DEFINE m == i + a
             n == j + a
  <2>6. m \in 1..Len(batch[v]) /\ n \in 1..Len(batch[v]) /\ batch[v][m] = batch[v][n]
    BY <1>2, <2>4, <2>5
  <2> HIDE DEF m, n
  <2>7. m = n
    BY <2>3, <2>6 DEF Apart
  <2>8. i \in Nat /\ j \in Nat
    BY <1>1, <1>2, <2>4, ContinuesFacts
  <2> USE DEF m, n
  <2> QED BY <2>4, <2>7, <2>8
<1>3. ASSUME NEW v \in Workers, Continues(v), NEW i \in 1..Len(batch'[v])
      PROVE  batch'[v][i] <= readOut
  <2>1. PICK a \in {0, 1} : i + a \in 1..Len(batch[v]) /\ batch'[v][i] = batch[v][i + a]
    BY <1>1, <1>3, ContinuesFacts
  <2> QED BY <1>1, <1>3, <2>1 DEF Continues, Batches
<1>4. CASE \A v \in Workers : pc'[v] \in OutStages => Continues(v)
  BY <1>2, <1>4 DEF Apart
<1>5. ASSUME NEW r \in Workers, TakesNew(r),
             \A v \in Workers \ {r} : pc'[v] \in OutStages => Continues(v)
      PROVE  Apart'
  <2> SUFFICES ASSUME NEW v \in Workers, NEW w \in Workers,
                      pc'[v] \in OutStages, pc'[w] \in OutStages,
                      NEW i \in 1..Len(batch'[v]), NEW j \in 1..Len(batch'[w]),
                      batch'[v][i] = batch'[w][j]
               PROVE  v = w /\ i = j
    BY DEF Apart
  <2>1. \A k \in 1..Len(batch'[r]) : k \in Nat /\ batch'[r][k] = readOut + k /\ k > 0
    BY <1>1, <1>5 DEF TakesNew
  <2>2. CASE v = r /\ w = r
    BY <1>1, <2>1, <2>2
  <2>3. CASE v = r /\ w # r
    <3>1. batch'[w][j] <= readOut
      BY <1>3, <1>5, <2>3
    <3> QED BY <1>1, <2>1, <2>3, <3>1
  <2>4. CASE v # r /\ w = r
    <3>1. batch'[v][i] <= readOut
      BY <1>3, <1>5, <2>4
    <3> QED BY <1>1, <2>1, <2>4, <3>1
  <2>5. CASE v # r /\ w # r
    BY <1>2, <1>5, <2>5
  <2> QED BY <2>2, <2>3, <2>4, <2>5
<1> QED BY <1>4, <1>5, OutboundMoves

-------------------------------------------------------------------------------
(* The provider is called by CallProvider alone. *)
LEMMA OnlyCallsCount ==
  ASSUME Types, Batches, [Next]_vars, \A w \in Workers : ~CallProvider(w)
  PROVE  /\ UNCHANGED <<accepted, late>>
         /\ \A e \in 1..Len(outbound) : attempts'[e] = attempts[e]
         /\ \A e \in 1..Len(outbound') : e \notin 1..Len(outbound) => attempts'[e] = 0
<1> USE DEF streams, db, provider, losses, history, workers
<1>1. /\ attempts \in Seq(Nat) /\ Len(attempts) = Len(outbound) /\ Len(outbound) \in Nat
  BY DEF Types, Tables
<1>2. CASE UNCHANGED <<attempts, outbound, accepted, late>>
  BY <1>2
<1>3. CASE /\ attempts' = Append(attempts, 0) /\ Len(outbound') = Len(outbound) + 1
           /\ UNCHANGED <<accepted, late>>
  BY <1>1, <1>3
<1>4. ASSUME NEW w \in Workers, Inbound(w)
      PROVE  UNCHANGED <<attempts, outbound, accepted, late>>
  BY <1>4 DEF Inbound, ReadInbound, SkipInbound, SkipProcessed, HandlingFails, CommitInbound,
     CommitFails, PublishInboundEvent, HandleDeliveryStatus, DeliveryStatusFails, AnnounceStatus
<1>5. ASSUME NEW w \in Workers, Outbound(w)
      PROVE  UNCHANGED <<attempts, outbound, accepted, late>>
  BY <1>5 DEF Outbound, ReadOutbound, Block, MaySend, NotPrepared, Prepare, PrepareFails, RecordSent,
     RecordFailed, AnnounceFailure, RecordFails, AckOutbound
<1>6. ASSUME NEW w \in Workers, Handle(w)
      PROVE  /\ attempts' = Append(attempts, 0) /\ Len(outbound') = Len(outbound) + 1
             /\ UNCHANGED <<accepted, late>>
  BY <1>6, QueuedFacts DEF Handle, HandleEnvelope
<1>7. ASSUME NEW w \in Workers, NotifyVertical(w)
      PROVE  \/ UNCHANGED <<attempts, outbound, accepted, late>>
             \/ /\ attempts' = Append(attempts, 0) /\ Len(outbound') = Len(outbound) + 1
                /\ UNCHANGED <<accepted, late>>
  <2>1. \A n \in Notices : Notifications(n) \subseteq Sendings
    BY WhatsAppAssumption DEF Notifications, Sendings
  <2>2. outbound \in Seq(Sendings) /\ UNCHANGED <<accepted, late>>
    BY <1>7 DEF NotifyVertical, Types, Tables
  <2>3. \A message \in Sendings : Len(Append(outbound, message)) = Len(outbound) + 1
    BY <2>2
  <2>4. \/ UNCHANGED <<attempts, outbound>>
        \/ \E n \in Notices : \E message \in Notifications(n) :
             outbound' = Append(outbound, message) /\ attempts' = Append(attempts, 0)
    BY <1>7 DEF NotifyVertical
  <2> QED BY <2>1, <2>2, <2>3, <2>4
<1>8. ASSUME NEW w \in Workers, Crash(w) \/ Reclaim(w)
      PROVE  UNCHANGED <<attempts, outbound, accepted, late>>
  BY <1>8 DEF Crash, Reclaim, vars
<1>9. Environment => UNCHANGED <<attempts, outbound, accepted, late>>
  BY DEF Environment, EvolutionCreateInstance, UnbindTenant, ReceiveWebhook
<1>10. UNCHANGED vars => UNCHANGED <<attempts, outbound, accepted, late>>
  BY DEF vars
<1> QED
  BY <1>2, <1>3, <1>4, <1>5, <1>6, <1>7, <1>8, <1>9, <1>10 DEF Next

(* The entry that is sent is the caller's alone, and has not been sent.    *)
LEMMA CallFacts ==
  ASSUME Types, Batches, Apart, Attempted, NEW w \in Workers, CallProvider(w)
  PROVE  /\ attempts[Sending(w)] = 0 /\ Sending(w) \notin accepted
         /\ Sending(w) \in 1..Len(outbound) /\ Sending(w) \in 1..readOut
         /\ attempts' \in Seq(Nat) /\ attempts'[Sending(w)] = 1
         /\ \A e \in 1..Len(outbound) : e # Sending(w) => attempts'[e] = attempts[e]
         /\ accepted' \subseteq accepted \cup {Sending(w)}
         /\ UNCHANGED <<streams, batch>>
         /\ pc[w] = "call" /\ pc'[w] = "record" /\ \A v \in Workers \ {w} : pc'[v] = pc[v]
         /\ \A v \in Workers \ {w} : pc[v] \in OutStages =>
              \A i \in 1..Len(batch[v]) : batch[v][i] # Sending(w)
         /\ \A i \in 1..Len(batch[w]) : i # 1 => batch[w][i] # Sending(w)
<1>1. pc[w] = "call" /\ pc[w] \in OutStages
  BY DEF CallProvider, OutStages
<1>2. /\ Sending(w) = batch[w][1] /\ 1 \in 1..Len(batch[w])
      /\ Sending(w) \in 1..readOut /\ Sending(w) \in 1..Len(outbound)
  BY <1>1, SendingFacts
<1>3. attempts[Sending(w)] = 0
  BY <1>1, <1>2 DEF Attempted, Called
<1>4. Sending(w) \notin accepted
  BY <1>3 DEF Attempted
<1>5. /\ attempts \in Seq(Nat) /\ Len(attempts) = Len(outbound)
      /\ attempts' = [attempts EXCEPT ![Sending(w)] = 0 + 1]
  BY <1>3 DEF CallProvider, Types, Tables
<1>6. /\ attempts' \in Seq(Nat) /\ attempts'[Sending(w)] = 1
      /\ \A e \in 1..Len(outbound) : e # Sending(w) => attempts'[e] = attempts[e]
  BY <1>2, <1>5, ExceptSeq
<1>7. accepted' \subseteq accepted \cup {Sending(w)} /\ UNCHANGED <<streams, batch>>
  BY DEF CallProvider
<1>8. pc'[w] = "record" /\ \A v \in Workers \ {w} : pc'[v] = pc[v]
  BY DEF CallProvider, Types, Stages
<1>9. \A v \in Workers \ {w} : pc[v] \in OutStages =>
              \A i \in 1..Len(batch[v]) : batch[v][i] # Sending(w)
  BY <1>1, <1>2 DEF Apart
<1>10. \A i \in 1..Len(batch[w]) : i # 1 => batch[w][i] # Sending(w)
  BY <1>1, <1>2 DEF Apart
<1> QED BY <1>1, <1>2, <1>3, <1>4, <1>6, <1>7, <1>8, <1>9, <1>10

(* What is ahead in a batch has not been sent, whoever sends or reads.     *)
LEMMA AttemptedStep ==
  ASSUME Types, Batches, Apart, Attempted, [Next]_vars
  PROVE  Attempted'
<1>0. Types' /\ Batches' /\ readOut <= readOut'
  BY TypesStep, OutboundMoves
<1>1. /\ Types' /\ Batches' /\ readOut \in Nat /\ readOut' \in Nat /\ readOut <= readOut'
      /\ Len(outbound) \in Nat /\ Len(outbound') \in Nat
      /\ readOut <= Len(outbound) /\ readOut' <= Len(outbound')
      /\ accepted \subseteq 1..Len(outbound)
  <2>1. /\ readOut \in 0..Len(outbound) /\ Len(outbound) \in Nat
        /\ accepted \subseteq 1..Len(outbound)
    BY DEF Types, Tables
  <2>2. readOut' \in 0..Len(outbound') /\ Len(outbound') \in Nat
    BY <1>0 DEF Types, Tables
  <2> QED BY <1>0, <2>1, <2>2
<1>2. ASSUME NEW w \in Workers, CallProvider(w) PROVE Attempted'
  <2>1. /\ outbound' = outbound /\ readOut' = readOut /\ batch' = batch
    BY <1>2, CallFacts DEF streams
  <2>2. \A e \in 1..Len(outbound) : attempts'[e] <= 1 /\ (e > readOut => attempts'[e] = 0)
    <3>1. /\ Sending(w) \in 1..readOut /\ attempts'[Sending(w)] = 1
          /\ \A e \in 1..Len(outbound) : e # Sending(w) => attempts'[e] = attempts[e]
      BY <1>2, CallFacts
    <3>2. \A e \in 1..Len(outbound) : attempts[e] <= 1 /\ (e > readOut => attempts[e] = 0)
      BY DEF Attempted
    <3> SUFFICES ASSUME NEW e \in 1..Len(outbound)
                 PROVE  attempts'[e] <= 1 /\ (e > readOut => attempts'[e] = 0)
      OBVIOUS
    <3>3. CASE e = Sending(w)
      BY <1>1, <3>1, <3>3
    <3> QED BY <3>1, <3>2, <3>3
  <2>3. ASSUME NEW e \in accepted' PROVE attempts'[e] # 0
    <3>1. CASE e = Sending(w)
      BY <1>2, <3>1, CallFacts
    <3>2. CASE e # Sending(w)
      <4>1. e \in accepted /\ e \in 1..Len(outbound)
        BY <1>1, <1>2, <2>3, <3>2, CallFacts
      <4> QED BY <1>2, <3>2, <4>1, CallFacts DEF Attempted
    <3> QED BY <3>1, <3>2
  <2>4. ASSUME NEW v \in Workers, pc'[v] \in OutStages, NEW i \in 1..Len(batch[v]),
               i > 1 \/ pc'[v] \notin Called
        PROVE  attempts'[batch[v][i]] = 0
    <3>1. pc[v] \in OutStages /\ (i > 1 \/ pc[v] \notin Called)
      BY <1>2, <2>4, CallFacts DEF OutStages, Called
    <3>2. attempts[batch[v][i]] = 0 /\ batch[v][i] \in 1..Len(outbound)
      <4>1. batch[v][i] \in 1..readOut
        BY <3>1 DEF Batches
      <4> QED BY <1>1, <3>1, <4>1 DEF Attempted
    <3>3. batch[v][i] # Sending(w)
      BY <1>2, <2>4, <3>1, CallFacts DEF Called
    <3> QED BY <1>2, <3>2, <3>3, CallFacts
  <2> QED BY <2>1, <2>2, <2>3, <2>4 DEF Attempted
<1>3. CASE \A w \in Workers : ~CallProvider(w)
  <2>1. /\ UNCHANGED <<accepted, late>>
        /\ \A e \in 1..Len(outbound) : attempts'[e] = attempts[e]
        /\ \A e \in 1..Len(outbound') : e \notin 1..Len(outbound) => attempts'[e] = 0
    BY <1>3, OnlyCallsCount
  <2>2. \A e \in 1..Len(outbound') : attempts'[e] <= 1 /\ (e > readOut' => attempts'[e] = 0)
    BY <1>1, <2>1 DEF Attempted
  <2>3. \A e \in accepted' : attempts'[e] # 0
    BY <2>1 DEF Attempted, Types, Tables
  <2>4. ASSUME NEW v \in Workers, Continues(v), NEW i \in 1..Len(batch'[v]),
               i > 1 \/ pc'[v] \notin Called
        PROVE  attempts'[batch'[v][i]] = 0
    <3>1. PICK shift \in {0, 1} :
            /\ shift = 0 => batch'[v] = batch[v] /\ (pc[v] \in Called => pc'[v] \in Called)
            /\ i \in Nat /\ i + shift \in 1..Len(batch[v])
            /\ batch'[v][i] = batch[v][i + shift]
      BY <1>1, <2>4, ContinuesFacts DEF Types
    <3>2. i >= 1 /\ (i + shift > 1 \/ pc[v] \notin Called)
      BY <2>4, <3>1
    <3>3. attempts[batch'[v][i]] = 0 /\ batch'[v][i] \in 1..Len(outbound)
      <4> DEFINE k == i + shift
      <4>1. k \in 1..Len(batch[v]) /\ (k > 1 \/ pc[v] \notin Called) /\ batch'[v][i] = batch[v][k]
        BY <3>1, <3>2
      <4> HIDE DEF k
      <4>2. batch[v][k] \in 1..readOut
        BY <2>4, <4>1 DEF Continues, Batches
      <4>3. attempts[batch[v][k]] = 0
        BY <2>4, <4>1 DEF Continues, Attempted
      <4> QED BY <1>1, <4>1, <4>2, <4>3
    <3> QED BY <2>1, <3>3
  <2>5. ASSUME NEW w \in Workers, TakesNew(w), NEW i \in 1..Len(batch'[w])
        PROVE  attempts'[batch'[w][i]] = 0
    <3>1. batch'[w][i] = readOut + i /\ i \in Nat /\ i >= 1
      BY <1>1, <2>5 DEF TakesNew, Types, Stages
    <3>2. batch'[w][i] \in 1..Len(outbound') /\ batch'[w][i] > readOut
      <4>1. batch'[w][i] \in 1..readOut'
        BY <1>1, <2>5 DEF TakesNew, OutStages, Batches
      <4> QED BY <1>1, <3>1, <4>1
    <3> QED BY <1>1, <2>1, <3>2 DEF Attempted
  <2>6. \A v \in Workers : pc'[v] \in OutStages => Continues(v) \/ TakesNew(v)
    BY OutboundMoves
  <2> QED BY <2>2, <2>3, <2>4, <2>5, <2>6 DEF Attempted
<1> QED BY <1>2, <1>3

-------------------------------------------------------------------------------
(* What was sent is recorded. *)

(* A step of one worker takes no entry out of the hands of the others.     *)
LEMMA OthersInHand ==
  ASSUME Types, Batches, NEW w \in Workers,
         \A v \in Workers \ {w} : pc'[v] = pc[v] /\ batch'[v] = batch[v],
         NEW e, InHand(e), pc[w] \notin HandStages \/ e # Sending(w)
  PROVE  InHand(e)'
<1>1. PICK v \in Workers : pc[v] \in HandStages /\ Sending(v) = e
  BY DEF InHand, HandStages
<1>2. v # w
  BY <1>1
<1> QED BY <1>1, <1>2 DEF InHand, HandStages, Sending

(* Rows that change on the inbound side are those a status names.          *)
LEMMA InboundRows ==
  ASSUME Types, Batches, NEW w \in Workers, Inbound(w)
  PROVE  /\ pc[w] \notin OutStages /\ pc'[w] \notin OutStages
         /\ \A v \in Workers \ {w} : /\ pc'[v] = pc[v] /\ batch'[v] = batch[v]
                                     /\ work'[v] = work[v]
         /\ \A e \in 1..Len(outbound) : row'[e] = row[e] \/ e \in identified
         /\ Len(row') = Len(row)
         /\ UNCHANGED <<accepted, identified, outbound>> /\ harmed \subseteq harmed'
<1> USE DEF streams, db, provider, losses, history, workers
<1>1. /\ pc[w] \notin OutStages /\ pc'[w] \notin OutStages
      /\ \A v \in Workers \ {w} : /\ pc'[v] = pc[v] /\ batch'[v] = batch[v]
                                  /\ work'[v] = work[v]
  BY DEF Inbound, ReadInbound, SkipInbound, SkipProcessed, HandlingFails, CommitInbound,
     CommitFails, PublishInboundEvent, HandleDeliveryStatus, DeliveryStatusFails, AnnounceStatus, AckInbound,
     NextEntry, Types, Stages, OutStages
<1>2. /\ UNCHANGED <<accepted, identified, outbound>> /\ harmed \subseteq harmed'
  BY DEF Inbound, ReadInbound, SkipInbound, SkipProcessed, HandlingFails, CommitInbound,
     CommitFails, PublishInboundEvent, HandleDeliveryStatus, DeliveryStatusFails, AnnounceStatus
<1>3. \/ UNCHANGED row
      \/ \E e \in identified, status \in RowStates : row' = [row EXCEPT ![e] = status]
  BY DEF Inbound, ReadInbound, SkipInbound, SkipProcessed, HandlingFails, CommitInbound,
     CommitFails, PublishInboundEvent, HandleDeliveryStatus, DeliveryStatusFails, AnnounceStatus,
     Normalised, RowStates
<1>4. identified \subseteq 1..Len(outbound)
  BY DEF Types, Tables
<1>5. /\ \A e \in 1..Len(outbound) : row'[e] = row[e] \/ e \in identified
      /\ Len(row') = Len(row)
  BY <1>3, <1>4, RowFacts
<1> QED BY <1>1, <1>2, <1>5

(* Of what has not been sent nothing needs to be recorded.                 *)
LEMMA UnsentInHand ==
  ASSUME Types, Batches, Attempted, NEW w \in Workers, pc[w] \in {"out", "bind", "call"}
  PROVE  Sending(w) \notin accepted
<1>1. pc[w] \in OutStages
  BY DEF OutStages
<1>2. Sending(w) = batch[w][1] /\ 1 \in 1..Len(batch[w])
  BY <1>1, SendingFacts
<1> QED BY <1>1, <1>2 DEF Attempted, Called

(* Steps that add rows, or none, and take nothing out of a worker's hands. *)
LEMMA RecordedStays ==
  ASSUME Types, Batches, Recorded, UNCHANGED <<accepted, identified>>, harmed \subseteq harmed',
         NEW w \in Workers, pc[w] \notin HandStages, pc'[w] # "record",
         \A v \in Workers \ {w} : /\ pc'[v] = pc[v] /\ batch'[v] = batch[v]
                                  /\ work'[v] = work[v],
         \A e \in 1..Len(outbound) : row'[e] = row[e] \/ e \in identified,
         \A e \in 1..Len(row') : e \in 1..Len(outbound) \/ row'[e] = "none"
  PROVE  Recorded'
<1>1. SentIsRecorded'
  <2> SUFFICES ASSUME NEW e \in accepted \ harmed'
               PROVE  InHand(e)' \/ e \in identified \/ row'[e] = "sent"
    BY DEF SentIsRecorded
  <2>1. e \in 1..Len(outbound)
    BY DEF Types, Tables
  <2>2. InHand(e) \/ e \in identified \/ row[e] = "sent"
    BY DEF Recorded, SentIsRecorded
  <2>3. InHand(e) => InHand(e)'
    BY OthersInHand
  <2> QED BY <2>1, <2>2, <2>3
<1>2. RecordedWasSent'
  <2> SUFFICES ASSUME NEW e \in 1..Len(row'),
                      row'[e] \in {"sent", "delivered", "read"} \/ e \in identified
               PROVE  e \in accepted
    BY DEF RecordedWasSent
  <2>1. identified \subseteq 1..Len(row) /\ Len(row) = Len(outbound)
    BY DEF Types, Tables
  <2>2. CASE e \in identified
    BY <2>1, <2>2 DEF Recorded, RecordedWasSent
  <2>3. CASE e \notin identified
    BY <2>1, <2>3 DEF Recorded, RecordedWasSent
  <2> QED BY <2>2, <2>3
<1>3. \A v \in Workers : pc'[v] = "record" =>
        IF work'[v] = "error" THEN Sending(v)' \in accepted => Sending(v)' \in harmed'
        ELSE Sending(v)' \in accepted
  BY DEF Recorded, Sending
<1> QED BY <1>1, <1>2, <1>3 DEF Recorded

(* A worker that goes on from an entry has nothing left to record of it.   *)
LEMMA RecordedGoesOn ==
  ASSUME Types, Batches, Recorded, NEW w \in Workers, UNCHANGED accepted,
         identified \subseteq identified', identified' \subseteq identified \cup {Sending(w)},
         harmed \subseteq harmed', Len(row') = Len(row), pc[w] \in HandStages, pc'[w] # "record",
         \A v \in Workers \ {w} : /\ pc'[v] = pc[v] /\ batch'[v] = batch[v]
                                  /\ work'[v] = work[v],
         \A e \in 1..Len(outbound) : e # Sending(w) => row'[e] = row[e],
         \/ UNCHANGED <<row, identified>> \/ Sending(w) \in accepted
         \/ UNCHANGED identified /\ row'[Sending(w)] \in {"pending", "failed"},
         \/ Sending(w) \notin accepted
         \/ Sending(w) \in harmed' \cup identified' \/ row'[Sending(w)] = "sent"
  PROVE  Recorded'
<1>1. SentIsRecorded'
  <2> SUFFICES ASSUME NEW e \in accepted \ harmed'
               PROVE  InHand(e)' \/ e \in identified' \/ row'[e] = "sent"
    BY DEF SentIsRecorded
  <2>1. e \in 1..Len(outbound)
    BY DEF Types, Tables
  <2>2. InHand(e) \/ e \in identified \/ row[e] = "sent"
    BY DEF Recorded, SentIsRecorded
  <2>3. CASE e = Sending(w)
    BY <2>3
  <2>4. CASE e # Sending(w)
    <3>1. InHand(e) => InHand(e)'
      BY <2>4, OthersInHand
    <3> QED BY <2>1, <2>2, <2>4, <3>1
  <2> QED BY <2>3, <2>4
<1>2. RecordedWasSent'
  <2> SUFFICES ASSUME NEW e \in 1..Len(row'),
                      row'[e] \in {"sent", "delivered", "read"} \/ e \in identified'
               PROVE  e \in accepted
    BY DEF RecordedWasSent
  <2>1. Len(row) = Len(outbound) /\ e \in 1..Len(row)
    BY DEF Types, Tables
  <2>2. CASE e = Sending(w)
    BY <2>1, <2>2 DEF Recorded, RecordedWasSent
  <2>3. CASE e # Sending(w)
    BY <2>1, <2>3 DEF Recorded, RecordedWasSent
  <2> QED BY <2>2, <2>3
<1>3. \A v \in Workers : pc'[v] = "record" =>
        IF work'[v] = "error" THEN Sending(v)' \in accepted => Sending(v)' \in harmed'
        ELSE Sending(v)' \in accepted
  BY DEF Recorded, Sending
<1> QED BY <1>1, <1>2, <1>3 DEF Recorded

(* The provider's acceptances and the rows agree after every step.         *)
LEMMA RecordedStep ==
  ASSUME Types, Batches, Apart, Attempted, Recorded, [Next]_vars
  PROVE  Recorded'
<1> USE DEF streams, db, provider, losses, history, workers
<1>0. /\ row \in Seq(RowStates) /\ Len(row) = Len(outbound)
      /\ session \in [Workers -> {"usable", "dead"}]
  BY DEF Types, Tables, Stages
<1>1. ASSUME NEW w \in Workers, Inbound(w) PROVE Recorded'
  <2>1. pc[w] \notin HandStages /\ pc'[w] # "record"
    BY <1>1, InboundRows DEF OutStages, HandStages
  <2>2. \A e \in 1..Len(row') : e \in 1..Len(outbound)
    BY <1>0, <1>1, InboundRows
  <2> QED BY <1>1, <2>1, <2>2, InboundRows, RecordedStays
<1>2. ASSUME NEW w \in Workers, Handle(w) \/ NotifyVertical(w) PROVE Recorded'
  <2>1. UNCHANGED <<accepted, identified, harmed>>
    BY <1>2 DEF Handle, HandleEnvelope, NotifyVertical
  <2>2. /\ pc[w] \notin HandStages /\ pc'[w] # "record"
        /\ \A v \in Workers \ {w} : /\ pc'[v] = pc[v] /\ batch'[v] = batch[v]
                                    /\ work'[v] = work[v]
    BY <1>2 DEF Handle, HandleEnvelope, NotifyVertical, Types, Stages, HandStages
  <2>3. row' = row \/ row' = Append(row, "none")
    BY <1>2 DEF Handle, HandleEnvelope, NotifyVertical
  <2>4. \A e \in 1..Len(outbound) : row'[e] = row[e]
    BY <1>0, <2>3
  <2>5. \A e \in 1..Len(row') : e \in 1..Len(outbound) \/ row'[e] = "none"
    BY <1>0, <2>3
  <2> QED BY <2>1, <2>2, <2>4, <2>5, RecordedStays
<1>3. ASSUME NEW w \in Workers, UNCHANGED <<accepted, identified, row>>, harmed \subseteq harmed',
             pc[w] \notin HandStages, pc'[w] # "record",
             \A v \in Workers \ {w} : /\ pc'[v] = pc[v] /\ batch'[v] = batch[v]
                                      /\ work'[v] = work[v]
      PROVE  Recorded'
  BY <1>0, <1>3, RecordedStays
<1>4. ASSUME NEW w \in Workers, NEW state \in {"usable", "dead"}, NextEntry(w, "out", state),
             pc[w] \in OutStages
      PROVE  /\ pc'[w] # "record"
             /\ \A v \in Workers \ {w} : /\ pc'[v] = pc[v] /\ batch'[v] = batch[v]
                                         /\ work'[v] = work[v]
  BY <1>4, NextEntryFacts DEF OutStages
<1>5. ASSUME NEW w \in Workers, UNCHANGED <<accepted, identified, row>>, harmed \subseteq harmed',
             pc[w] \in HandStages, pc'[w] # "record",
             \A v \in Workers \ {w} : /\ pc'[v] = pc[v] /\ batch'[v] = batch[v]
                                      /\ work'[v] = work[v],
             Sending(w) \notin accepted \/ Sending(w) \in harmed'
      PROVE  Recorded'
  BY <1>5, RecordedGoesOn
<1>6. ASSUME NEW w \in Workers, Block(w) \/ NotPrepared(w) \/ PrepareFails(w) PROVE Recorded'
  <2>1. /\ pc[w] \in {"out", "bind"} /\ UNCHANGED <<accepted, identified, row>>
        /\ harmed \subseteq harmed'
    BY <1>6 DEF Block, NotPrepared, PrepareFails
  <2>2. \E state \in {"usable", "dead"} : NextEntry(w, "out", state)
    BY <1>0, <1>6 DEF Block, NotPrepared, PrepareFails, AckOutbound
  <2>3. Sending(w) \notin accepted
    BY <2>1, UnsentInHand
  <2>4. pc[w] \in OutStages /\ pc[w] \in HandStages
    BY <2>1 DEF OutStages, HandStages
  <2> QED BY <1>4, <1>5, <2>1, <2>2, <2>3, <2>4
<1>7. ASSUME NEW w \in Workers, MaySend(w) \/ Prepare(w) PROVE Recorded'
  <2>1. /\ pc[w] \in {"out", "bind"} /\ pc[w] \in OutStages /\ pc[w] \in HandStages
        /\ UNCHANGED <<accepted, identified, harmed>>
    BY <1>7 DEF MaySend, Prepare, OutStages, HandStages
  <2>2. Sending(w) \notin accepted /\ Sending(w) \in 1..Len(outbound)
    BY <2>1, UnsentInHand, SendingFacts
  <2>3. /\ pc'[w] # "record"
        /\ \A v \in Workers \ {w} : /\ pc'[v] = pc[v] /\ batch'[v] = batch[v]
                                    /\ work'[v] = work[v]
    BY <1>7 DEF MaySend, Prepare, Types, Stages
  <2>4. CASE MaySend(w)
    <3>1. UNCHANGED row
      BY <2>4 DEF MaySend
    <3> QED BY <1>5, <2>1, <2>2, <2>3, <3>1
  <2>5. CASE Prepare(w)
    <3>1. row' = [row EXCEPT ![Sending(w)] = "pending"]
      BY <2>5 DEF Prepare
    <3>2. /\ \A e \in 1..Len(outbound) : e # Sending(w) => row'[e] = row[e]
          /\ Len(row') = Len(row) /\ row'[Sending(w)] = "pending"
      BY <2>2, <3>1, RowFacts DEF RowStates
    <3> QED BY <2>1, <2>2, <2>3, <3>2, RecordedGoesOn
  <2> QED BY <1>7, <2>4, <2>5
<1>8. ASSUME NEW w \in Workers, RecordSent(w) PROVE Recorded'
  <2>1. /\ pc[w] = "record" /\ pc[w] \in OutStages /\ pc[w] \in HandStages /\ work[w] # "error"
        /\ UNCHANGED <<accepted, harmed>>
        /\ identified \subseteq identified' /\ identified' \subseteq identified \cup {Sending(w)}
        /\ row' = [row EXCEPT ![Sending(w)] = "sent"]
    BY <1>8 DEF RecordSent, OutStages, HandStages
  <2>2. \E state \in {"usable", "dead"} : NextEntry(w, "out", state)
    BY <1>0, <1>8 DEF RecordSent, AckOutbound
  <2>3. Sending(w) \in 1..Len(outbound) /\ Sending(w) \in accepted
    BY <2>1, SendingFacts DEF Recorded
  <2>4. /\ \A e \in 1..Len(outbound) : e # Sending(w) => row'[e] = row[e]
        /\ Len(row') = Len(row) /\ row'[Sending(w)] = "sent"
    BY <2>1, <2>3, RowFacts DEF RowStates
  <2> QED BY <1>4, <2>1, <2>2, <2>3, <2>4, RecordedGoesOn
<1>9. ASSUME NEW w \in Workers, RecordFailed(w) PROVE Recorded'
  <2>1. /\ pc[w] = "record" /\ pc[w] \in OutStages /\ pc[w] \in HandStages /\ work[w] = "error"
        /\ UNCHANGED <<accepted, identified, harmed>>
        /\ row' = [row EXCEPT ![Sending(w)] = "failed"]
    BY <1>9 DEF RecordFailed, OutStages, HandStages
  <2>2. /\ pc'[w] # "record"
        /\ \A v \in Workers \ {w} : /\ pc'[v] = pc[v] /\ batch'[v] = batch[v]
                                    /\ work'[v] = work[v]
    BY <1>9 DEF RecordFailed, Types, Stages
  <2>3. Sending(w) \in 1..Len(outbound)
    BY <2>1, SendingFacts
  <2>4. /\ \A e \in 1..Len(outbound) : e # Sending(w) => row'[e] = row[e]
        /\ Len(row') = Len(row) /\ row'[Sending(w)] = "failed"
    BY <2>1, <2>3, RowFacts DEF RowStates
  <2>5. Sending(w) \notin accepted \/ Sending(w) \in harmed'
    BY <2>1 DEF Recorded
  <2> QED BY <2>1, <2>2, <2>4, <2>5, RecordedGoesOn
<1>10. ASSUME NEW w \in Workers, RecordFails(w) PROVE Recorded'
  <2>1. /\ pc[w] \in OutStages /\ pc[w] \in HandStages /\ UNCHANGED <<accepted, identified, row>>
        /\ harmed' = harmed \cup {Sending(w)}
    BY <1>10 DEF RecordFails, OutStages, HandStages
  <2>2. NextEntry(w, "out", "dead")
    BY <1>10 DEF RecordFails
  <2> QED BY <1>4, <1>5, <2>1, <2>2
<1>11. ASSUME NEW w \in Workers, CallProvider(w) PROVE Recorded'
  <2>1. /\ UNCHANGED <<batch, identified, row>> /\ harmed \subseteq harmed'
        /\ pc[w] = "call" /\ pc'[w] = "record"
        /\ \A v \in Workers \ {w} : pc'[v] = pc[v] /\ work'[v] = work[v]
        /\ accepted' \subseteq accepted \cup {Sending(w)} /\ accepted \subseteq accepted'
        /\ Sending(w) \notin accepted
        /\ \A v \in Workers \ {w} : pc[v] \in OutStages =>
             \A i \in 1..Len(batch[v]) : batch[v][i] # Sending(w)
    <3>1. /\ UNCHANGED <<batch, identified, row>> /\ harmed \subseteq harmed'
          /\ \A v \in Workers \ {w} : work'[v] = work[v]
          /\ accepted \subseteq accepted'
      BY <1>11 DEF CallProvider, Types, Stages, db
    <3> QED BY <1>11, <3>1, CallFacts
  <2>2. \A v \in Workers : Sending(v)' = Sending(v)
    BY <2>1 DEF Sending
  <2>3. \A e : InHand(e) => InHand(e)'
    BY <2>1, <2>2 DEF InHand
  <2>4. InHand(Sending(w))'
    BY <2>1, <2>2 DEF InHand
  <2>5. SentIsRecorded'
    <3> SUFFICES ASSUME NEW e \in accepted' \ harmed'
                 PROVE  InHand(e)' \/ e \in identified' \/ row'[e] = "sent"
      BY DEF SentIsRecorded
    <3>1. CASE e = Sending(w)
      BY <2>2, <2>4, <3>1 DEF InHand
    <3>2. CASE e # Sending(w)
      <4>1. e \in accepted \ harmed
        BY <2>1, <3>2
      <4>2. InHand(e) \/ e \in identified \/ row[e] = "sent"
        BY <4>1 DEF Recorded, SentIsRecorded
      <4>3. InHand(e) => InHand(e)'
        BY <2>3
      <4>4. identified' = identified /\ row' = row
        BY <2>1
      <4>5. CASE InHand(e)
        BY <4>3, <4>5
      <4>6. CASE e \in identified \/ row[e] = "sent"
        BY <4>4, <4>6
      <4> QED BY <4>2, <4>5, <4>6
    <3> QED BY <3>1, <3>2
  <2>6. IF work'[w] = "error" THEN Sending(w) \in accepted' => Sending(w) \in harmed'
        ELSE Sending(w) \in accepted'
    <3>1. PICK outcome \in Outcomes :
            /\ work' = [work EXCEPT ![w] = outcome.answer]
            /\ accepted' = IF outcome.sent THEN accepted \cup {Sending(w)} ELSE accepted
            /\ harmed' = IF outcome.answer = "error" /\ outcome.sent THEN harmed \cup {Sending(w)}
                         ELSE harmed
      BY <1>11 DEF CallProvider
    <3>2. work'[w] = outcome.answer
      BY <3>1 DEF Types, Stages
    <3>3. outcome.answer # "error" => outcome.sent
      BY DEF Outcomes, MetaOutcomes, EvolutionOutcomes
    <3> QED BY <2>1, <3>1, <3>2, <3>3
  <2>7. \A v \in Workers \ {w} : pc[v] = "record" => Sending(v) # Sending(w)
    <3> TAKE v \in Workers \ {w}
    <3>1. pc[v] \in OutStages => Sending(v) = batch[v][1] /\ 1 \in 1..Len(batch[v])
      BY SendingFacts
    <3> QED BY <2>1, <3>1 DEF OutStages
  <2>8. \A v \in Workers : pc'[v] = "record" =>
          IF work'[v] = "error" THEN Sending(v)' \in accepted' => Sending(v)' \in harmed'
          ELSE Sending(v)' \in accepted'
    BY <2>1, <2>2, <2>6, <2>7 DEF Recorded
  <2>9. RecordedWasSent'
    BY <2>1 DEF Recorded, RecordedWasSent
  <2> QED BY <2>5, <2>8, <2>9 DEF Recorded
<1>12. ASSUME NEW w \in Workers, Crash(w) PROVE Recorded'
  <2>1. /\ UNCHANGED <<accepted, identified, row>> /\ harmed \subseteq harmed'
        /\ pc'[w] = "idle"
        /\ \A v \in Workers \ {w} : /\ pc'[v] = pc[v] /\ batch'[v] = batch[v]
                                    /\ work'[v] = work[v]
        /\ pc[w] \in {"call", "record"} => Sending(w) \in harmed'
    BY <1>12 DEF Crash, Types, Stages
  <2>2. CASE pc[w] \in HandStages
    <3>1. Sending(w) \notin accepted \/ Sending(w) \in harmed'
      BY <2>1, <2>2, UnsentInHand DEF HandStages
    <3> QED BY <1>5, <2>1, <2>2, <3>1
  <2>3. CASE pc[w] \notin HandStages
    BY <1>3, <2>1, <2>3
  <2> QED BY <2>2, <2>3
<1>17. ASSUME NEW w \in Workers, ReadOutbound(w) \/ AnnounceFailure(w) PROVE Recorded'
  <2>1. /\ UNCHANGED <<accepted, identified, row>> /\ harmed \subseteq harmed'
        /\ pc[w] \notin HandStages
    BY <1>17 DEF ReadOutbound, AnnounceFailure, HandStages
  <2>2. CASE ReadOutbound(w)
    <3>1. /\ pc'[w] # "record"
          /\ \A v \in Workers \ {w} : /\ pc'[v] = pc[v] /\ batch'[v] = batch[v]
                                      /\ work'[v] = work[v]
      BY <2>2 DEF ReadOutbound, Types, Stages
    <3> QED BY <1>3, <2>1, <3>1
  <2>3. CASE AnnounceFailure(w)
    <3>1. NextEntry(w, "out", "usable") /\ pc[w] \in OutStages
      BY <2>3 DEF AnnounceFailure, OutStages
    <3> QED BY <1>3, <1>4, <2>1, <3>1
  <2> QED BY <1>17, <2>2, <2>3
<1>13. UNCHANGED <<accepted, identified, harmed, row, pc, batch, work>> => Recorded'
  BY DEF Recorded, SentIsRecorded, RecordedWasSent, InHand, Sending
<1>14. ASSUME NEW w \in Workers, Reclaim(w) PROVE Recorded'
  BY <1>13, <1>14 DEF Reclaim, vars
<1>15. Environment => Recorded'
  BY <1>13 DEF Environment, EvolutionCreateInstance, UnbindTenant, ReceiveWebhook
<1>16. UNCHANGED vars => Recorded'
  BY <1>13 DEF vars
<1> QED
  BY <1>1, <1>2, <1>6, <1>7, <1>8, <1>9, <1>10, <1>11, <1>12, <1>14, <1>15, <1>16, <1>17
     DEF Next, Outbound

-------------------------------------------------------------------------------
(* What is announced, and what is kept. *)

(* Every step keeps the events and the tables in agreement.                *)
LEMMA AnnouncedStep ==
  ASSUME Types, Batches, Announced, Kept, [Next]_vars
  PROVE  Announced'
<1> USE DEF streams, db, provider, losses, history, workers
<1>1. /\ events \subseteq events' /\ stored \subseteq stored' /\ harmed \subseteq harmed'
      /\ \A i \in 1..Len(inbound) : inbound'[i] = inbound[i]
  BY NothingIsTakenBack
<1>2. row \in Seq(RowStates) /\ Len(row) = Len(outbound) /\ identified \subseteq 1..Len(outbound)
  BY DEF Types, Tables
<1>3. ASSUME NEW v \in Workers, NEW e, Announces(v, e), pc'[v] = pc[v], batch'[v] = batch[v]
      PROVE  Announces(v, e)'
  <2>1. pc[v] = "report" => inbound'[Head(batch[v])] = inbound[Head(batch[v])]
    BY <1>1, EntryFacts DEF InStages
  <2> QED BY <1>3, <2>1 DEF Announces, Sending, Entry
<1>4. ASSUME NEW w \in Workers,
             \A v \in Workers \ {w} : pc'[v] = pc[v] /\ batch'[v] = batch[v],
             \A e : Announces(w, e) => <<"failed", e>> \in events' \/ e \in harmed',
             \A e \in 1..Len(row') :
               row'[e] = "failed" => (e \in 1..Len(row) /\ row[e] = "failed") \/ Announces(w, e)'
      PROVE  FailureIsAnnounced'
  <2> SUFFICES ASSUME NEW e \in 1..Len(row'), row'[e] = "failed"
               PROVE  <<"failed", e>> \in events' \/ AboutToAnnounce(e)' \/ e \in harmed'
    BY DEF FailureIsAnnounced
  <2>1. CASE Announces(w, e)'
    BY <2>1 DEF AboutToAnnounce
  <2>2. CASE e \in 1..Len(row) /\ row[e] = "failed"
    <3>1. <<"failed", e>> \in events \/ AboutToAnnounce(e) \/ e \in harmed
      BY <2>2 DEF Announced, FailureIsAnnounced
    <3>2. CASE AboutToAnnounce(e)
      <4>1. PICK v \in Workers : Announces(v, e)
        BY <3>2 DEF AboutToAnnounce
      <4>2. CASE v = w
        BY <1>4, <4>1, <4>2
      <4>3. CASE v # w
        BY <1>3, <1>4, <4>1, <4>3 DEF AboutToAnnounce
      <4> QED BY <4>2, <4>3
    <3> QED BY <1>1, <3>1, <3>2
  <2> QED BY <1>4, <2>1, <2>2
<1>5. ASSUME NEW w \in Workers, UNCHANGED row \/ row' = Append(row, "none"),
             \A v \in Workers \ {w} : pc'[v] = pc[v] /\ batch'[v] = batch[v],
             \A e : Announces(w, e) => <<"failed", e>> \in events' \/ e \in harmed'
      PROVE  FailureIsAnnounced'
  <2>1. \A e \in 1..Len(row') : row'[e] = "failed" => e \in 1..Len(row) /\ row[e] = "failed"
    BY <1>2, <1>5
  <2> QED BY <1>4, <1>5, <2>1
<1>6. ASSUME NEW w \in Workers, pc[w] \notin {"tell", "report"},
             \A v \in Workers \ {w} : pc'[v] = pc[v] /\ batch'[v] = batch[v],
             NEW d \in 1..Len(outbound), NEW status \in RowStates,
             row' = [row EXCEPT ![d] = status], status = "failed" => Announces(w, d)'
      PROVE  FailureIsAnnounced'
  <2>1. \A e : ~Announces(w, e)
    BY <1>6 DEF Announces
  <2>2. /\ Len(row') = Len(row)
        /\ \A e \in 1..Len(row) : row'[e] = IF e = d THEN status ELSE row[e]
    BY <1>2, <1>6, RowFacts
  <2>3. \A e \in 1..Len(row') :
          row'[e] = "failed" => (e \in 1..Len(row) /\ row[e] = "failed") \/ Announces(w, e)'
    BY <1>6, <2>2
  <2> QED BY <1>4, <1>6, <2>1, <2>3
<1>7. ASSUME UNCHANGED <<row, pc, batch>> PROVE FailureIsAnnounced'
  <2>1. \A e : AboutToAnnounce(e) => AboutToAnnounce(e)'
    BY <1>3, <1>7 DEF AboutToAnnounce
  <2> QED BY <1>1, <1>7, <2>1 DEF Announced, FailureIsAnnounced
<1>8. ASSUME \A m \in Messages : <<"received", m>> \in events' => <<"received", m>> \in events
      PROVE  ReceivedIsStored'
  BY <1>1, <1>8 DEF Announced, ReceivedIsStored
<1>9. \A e, m : <<"failed", e>> # <<"received", m>>
  OBVIOUS
<1>10. \A entry, m : <<"received", m>> \notin Event(entry)
  BY DEF Event
<1>11. ASSUME NEW w \in Workers, Inbound(w) PROVE Announced'
  <2>1. \A v \in Workers \ {w} : pc'[v] = pc[v] /\ batch'[v] = batch[v]
    BY <1>11, InboundRows
  <2>2. ReceivedIsStored'
    <3>1. CASE PublishInboundEvent(w)
      <4>1. pc[w] = "announce" /\ events' \subseteq events \cup {<<"received", Entry(w).of>>}
        BY <3>1 DEF PublishInboundEvent
      <4>2. Entry(w).of \in stored
        BY <4>1 DEF Kept
      <4> QED BY <1>1, <4>1, <4>2 DEF Announced, ReceivedIsStored
    <3>2. CASE ~PublishInboundEvent(w)
      BY <1>8, <1>9, <1>10, <1>11, <3>2
         DEF Inbound, ReadInbound, SkipInbound, SkipProcessed, HandlingFails, CommitInbound,
             CommitFails, HandleDeliveryStatus, DeliveryStatusFails, AnnounceStatus
    <3> QED BY <3>1, <3>2
  <2>3. CASE AnnounceStatus(w)
    <3>1. /\ UNCHANGED row /\ pc[w] = "report"
          /\ <<"failed", Entry(w).of>> \in events' \/ Entry(w).of \in harmed'
      BY <2>3 DEF AnnounceStatus
    <3>2. FailureIsAnnounced'
      BY <1>5, <2>1, <3>1 DEF Announces
    <3> QED BY <2>2, <3>2 DEF Announced
  <2>4. CASE HandleDeliveryStatus(w)
    <3> DEFINE status == Normalised(Entry(w).status)
               e == Entry(w).of
    <3>1. pc[w] \notin {"tell", "report"} /\ UNCHANGED inbound
      BY <2>4 DEF HandleDeliveryStatus, AckInbound
    <3>2. CASE e \notin identified
      <4>1. UNCHANGED row
        BY <2>4, <3>2 DEF HandleDeliveryStatus
      <4>2. FailureIsAnnounced'
        BY <1>5, <2>1, <3>1, <4>1 DEF Announces
      <4> QED BY <2>2, <4>2 DEF Announced
    <3>3. CASE e \in identified
      <4>1. row' = [row EXCEPT ![e] = status] /\ status \in RowStates /\ e \in 1..Len(outbound)
        BY <1>2, <2>4, <3>3 DEF HandleDeliveryStatus, Normalised, RowStates
      <4>2. status = "failed" => pc'[w] = "report" /\ batch'[w] = batch[w]
        BY <2>4, <3>3 DEF HandleDeliveryStatus, Types, Stages
      <4> HIDE DEF status
      <4>3. PICK d \in 1..Len(outbound) : d = e
        BY <4>1
      <4>4. status = "failed" => Announces(w, d)'
        BY <3>1, <4>2, <4>3 DEF Announces, Entry
      <4> HIDE DEF e
      <4>5. FailureIsAnnounced'
        BY <1>6, <2>1, <3>1, <4>1, <4>3, <4>4
      <4> QED BY <2>2, <4>5 DEF Announced
    <3> QED BY <3>2, <3>3
  <2>5. CASE ~AnnounceStatus(w) /\ ~HandleDeliveryStatus(w)
    <3>1. UNCHANGED row /\ pc[w] \notin {"tell", "report"}
      BY <1>11, <2>5 DEF Inbound, ReadInbound, SkipInbound, SkipProcessed, HandlingFails,
         CommitInbound, CommitFails, PublishInboundEvent, DeliveryStatusFails
    <3>2. FailureIsAnnounced'
      BY <1>5, <2>1, <3>1 DEF Announces
    <3> QED BY <2>2, <3>2 DEF Announced
  <2> QED BY <2>3, <2>4, <2>5
<1>12. ASSUME NEW w \in Workers, Handle(w) \/ NotifyVertical(w) PROVE Announced'
  <2>1. row' = row \/ row' = Append(row, "none")
    BY <1>12 DEF Handle, HandleEnvelope, NotifyVertical
  <2>2. \A m \in Messages : <<"received", m>> \in events' => <<"received", m>> \in events
    BY <1>10, <1>12 DEF Handle, HandleEnvelope, NotifyVertical
  <2>3. /\ pc[w] \notin {"tell", "report"}
        /\ \A v \in Workers \ {w} : pc'[v] = pc[v] /\ batch'[v] = batch[v]
    BY <1>12 DEF Handle, HandleEnvelope, NotifyVertical, Types, Stages
  <2>4. FailureIsAnnounced'
    BY <1>5, <2>1, <2>3 DEF Announces
  <2> QED BY <1>8, <2>2, <2>4 DEF Announced
<1>13. ASSUME NEW w \in Workers, NEW state \in {"usable", "dead"}, NextEntry(w, "out", state),
              pc[w] \in OutStages
       PROVE  \A v \in Workers \ {w} : pc'[v] = pc[v] /\ batch'[v] = batch[v]
  BY <1>13, NextEntryFacts DEF OutStages
<1>14. ASSUME NEW w \in Workers, Outbound(w) PROVE Announced'
  <2>1. ReceivedIsStored'
    BY <1>8, <1>9, <1>14 DEF Outbound, ReadOutbound, Block, MaySend, NotPrepared, Prepare,
       PrepareFails, CallProvider, RecordSent, RecordFailed, AnnounceFailure, RecordFails
  <2>2. \A v \in Workers \ {w} : pc'[v] = pc[v] /\ batch'[v] = batch[v]
    <3>1. CASE ReadOutbound(w) \/ MaySend(w) \/ Prepare(w) \/ CallProvider(w) \/ RecordFailed(w)
      BY <3>1 DEF ReadOutbound, MaySend, Prepare, CallProvider, RecordFailed, Types, Stages
    <3>2. CASE Block(w) \/ NotPrepared(w) \/ PrepareFails(w) \/ RecordSent(w)
                 \/ AnnounceFailure(w) \/ RecordFails(w)
      <4>1. session[w] \in {"usable", "dead"}
        BY DEF Types, Stages
      <4>2. pc[w] \in OutStages /\ \E state \in {"usable", "dead"} : NextEntry(w, "out", state)
        BY <3>2, <4>1 DEF Block, NotPrepared, PrepareFails, RecordSent, AnnounceFailure,
           RecordFails, AckOutbound, OutStages
      <4> QED BY <1>13, <4>2
    <3> QED BY <1>14, <3>1, <3>2 DEF Outbound
  <2>3. CASE AnnounceFailure(w)
    <3>1. /\ UNCHANGED row /\ pc[w] = "tell"
          /\ <<"failed", Sending(w)>> \in events' \/ Sending(w) \in harmed'
      BY <2>3 DEF AnnounceFailure
    <3>2. FailureIsAnnounced'
      BY <1>5, <2>2, <3>1 DEF Announces
    <3> QED BY <2>1, <3>2 DEF Announced
  <2>4. CASE Prepare(w) \/ RecordSent(w) \/ RecordFailed(w)
    <3>1. pc[w] \in OutStages /\ pc[w] \notin {"tell", "report"}
      BY <2>4 DEF Prepare, RecordSent, RecordFailed, OutStages
    <3>2. Sending(w) \in 1..Len(outbound)
      BY <3>1, SendingFacts
    <3>3. PICK d \in 1..Len(outbound) : d = Sending(w)
      BY <3>2
    <3>4. \E status \in RowStates :
            row' = [row EXCEPT ![d] = status] /\ (status = "failed" => RecordFailed(w))
      <4>1. CASE Prepare(w)
        BY <3>3, <4>1 DEF Prepare, RowStates
      <4>2. CASE RecordSent(w)
        BY <3>3, <4>2 DEF RecordSent, RowStates
      <4>3. CASE RecordFailed(w)
        <5>1. row' = [row EXCEPT ![d] = "failed"] /\ "failed" \in RowStates
          BY <3>3, <4>3 DEF RecordFailed, RowStates
        <5> QED BY <4>3, <5>1
      <4> QED BY <2>4, <4>1, <4>2, <4>3
    <3>5. RecordFailed(w) => pc'[w] = "tell" /\ Sending(w)' = d
      BY <3>3 DEF RecordFailed, Sending, Types, Stages
    <3>6. RecordFailed(w) => Announces(w, d)'
      BY <3>5 DEF Announces
    <3>7. FailureIsAnnounced'
      BY <1>6, <2>2, <3>1, <3>4, <3>6
    <3> QED BY <2>1, <3>7 DEF Announced
  <2>5. CASE ~AnnounceFailure(w) /\ ~Prepare(w) /\ ~RecordSent(w) /\ ~RecordFailed(w)
    <3>1. UNCHANGED row /\ pc[w] \notin {"tell", "report"}
      BY <1>14, <2>5 DEF Outbound, ReadOutbound, Block, MaySend, NotPrepared, PrepareFails,
         CallProvider, RecordFails
    <3>2. FailureIsAnnounced'
      BY <1>5, <2>2, <3>1 DEF Announces
    <3> QED BY <2>1, <3>2 DEF Announced
  <2> QED BY <2>3, <2>4, <2>5
<1>15. ASSUME NEW w \in Workers, Crash(w) PROVE Announced'
  <2>1. UNCHANGED <<row, events>>
    BY <1>15 DEF Crash
  <2>2. \A v \in Workers \ {w} : pc'[v] = pc[v] /\ batch'[v] = batch[v]
    BY <1>15 DEF Crash, Types, Stages
  <2>3. \A e : Announces(w, e) => e \in harmed'
    BY <1>15 DEF Crash, Announces
  <2> QED BY <1>5, <1>8, <2>1, <2>2, <2>3 DEF Announced
<1>16. UNCHANGED <<row, events, pc, batch>> => Announced'
  BY <1>7, <1>8 DEF Announced
<1>17. ASSUME NEW w \in Workers, Reclaim(w) PROVE Announced'
  BY <1>16, <1>17 DEF Reclaim, vars
<1>18. Environment => Announced'
  BY <1>16 DEF Environment, EvolutionCreateInstance, UnbindTenant, ReceiveWebhook
<1>19. UNCHANGED vars => Announced'
  BY <1>16 DEF vars
<1> QED
  BY <1>11, <1>12, <1>14, <1>15, <1>17, <1>18, <1>19 DEF Next

(* What AcknowledgedIsKept says of one entry of the inbound stream. *)
KeptEntry(i) ==
  LET m == inbound[i].of
  IN inbound[i].kind = "message" /\ From[m] \in Known /\ m \notin dropped
       => IF Detected(inbound[i]) = "stop" THEN From[m] \in optedOut ELSE m \in stored

(* What holds of a message before it is acknowledged holds of it after.    *)
LEMMA KeptStep ==
  ASSUME Types, Batches, Kept, [Next]_vars
  PROVE  Kept'
<1> USE DEF streams, db, provider, losses, history, workers
<1>1. /\ Types' /\ \A i \in 1..Len(inbound) : inbound'[i] = inbound[i]
      /\ stored \subseteq stored' /\ optedOut \subseteq optedOut' /\ dropped \subseteq dropped'
  BY TypesStep, NothingIsTakenBack
<1>2. /\ readIn \in Nat /\ Len(inbound) \in Nat /\ readIn <= Len(inbound) /\ stored \subseteq Messages
      /\ Known \subseteq Customers
      /\ conversation \in [Customers -> States]
  BY WhatsAppAssumption DEF Types, Tables
<1>3. ASSUME NEW i \in 1..readIn, KeptEntry(i) PROVE KeptEntry(i)'
  <2>1. inbound'[i] = inbound[i]
    BY <1>1, <1>2
  <2>2. Detected(inbound'[i]) = Detected(inbound[i])
    BY <2>1
  <2>3. Detected(inbound[i])' = Detected(inbound[i])
    BY <2>1 DEF Detected
  <2> QED BY <1>1, <1>3, <2>1, <2>3 DEF KeptEntry
<1>4. \A i \in (1..readIn) \ pendingIn : KeptEntry(i)
  BY DEF Kept, AcknowledgedIsKept, KeptEntry
<1>5. ASSUME \A i \in (1..readIn') \ pendingIn' : i \in 1..readIn /\ KeptEntry(i)'
      PROVE  AcknowledgedIsKept'
  BY <1>5 DEF AcknowledgedIsKept, KeptEntry
<1>6. ASSUME UNCHANGED <<readIn, pendingIn>> PROVE AcknowledgedIsKept'
  BY <1>3, <1>4, <1>5, <1>6
<1>7. ASSUME NEW w \in Workers, AckInbound(w), NEW h, h = Head(batch[w]), KeptEntry(h)'
      PROVE  AcknowledgedIsKept'
  <2>1. readIn' = readIn /\ pendingIn' = pendingIn \ {h}
    BY <1>7 DEF AckInbound
  <2>2. ASSUME NEW i \in (1..readIn') \ pendingIn'
        PROVE  i \in 1..readIn /\ KeptEntry(i)'
    <3>1. i \in 1..readIn
      BY <2>1, <2>2
    <3>2. CASE i = h
      BY <1>7, <3>1, <3>2
    <3>3. CASE i # h
      <4>1. i \in (1..readIn) \ pendingIn
        BY <2>1, <2>2, <3>1, <3>3
      <4>2. KeptEntry(i)
        BY <1>4, <4>1
      <4> QED BY <1>3, <3>1, <4>2
    <3> QED BY <3>2, <3>3
  <2> QED BY <1>5, <2>2
<1>8. ASSUME UNCHANGED <<stored, optedOut, conversation>>,
             \A w \in Workers : pc'[w] = "announce" => pc[w] = "announce" /\ batch'[w] = batch[w]
      PROVE  /\ \A m \in stored' : Stops(m) => From[m] \in optedOut'
             /\ \A c \in Known : conversation'[c] # "none"
             /\ \A w \in Workers : pc'[w] = "announce" => Entry(w).of' \in stored'
  <2>1. ASSUME NEW w \in Workers, pc[w] = "announce", batch'[w] = batch[w]
        PROVE  Entry(w)' = Entry(w)
    BY <1>1, <2>1, EntryFacts DEF Entry, InStages
  <2> QED BY <1>8, <2>1 DEF Kept
<1>9. ASSUME NEW w \in Workers, NEW state \in {"usable", "dead"}, NEW stage \in {"in", "out"},
             NextEntry(w, stage, state), pc[w] # "idle"
      PROVE  \A v \in Workers : pc'[v] = "announce" => pc[v] = "announce" /\ batch'[v] = batch[v]
  BY <1>9, NextEntryFacts
<1>10. ASSUME NEW w \in Workers, pc[w] \in InStages, Entry(w).kind = "message"
       PROVE  /\ Entry(w).of \in Messages /\ From[Entry(w).of] \in Customers
              /\ Detected(Entry(w)) = "stop" <=> Stops(Entry(w).of)
              /\ Head(batch[w]) \in 1..readIn /\ inbound[Head(batch[w])] = Entry(w)
  BY <1>10, EntryFacts, MessageFacts DEF Entry
<1>11. ASSUME NEW w \in Workers, pc[w] \in InStages, NEW h, h = Head(batch[w]),
              \/ Entry(w).kind # "message" \/ From[Entry(w).of] \notin Known
              \/ Entry(w).of \in stored \/ Entry(w).of \in dropped'
              \/ Detected(Entry(w)) = "stop" /\ From[Entry(w).of] \in optedOut
       PROVE  KeptEntry(h)'
  <2>1. h \in 1..readIn /\ inbound[h] = Entry(w)
    BY <1>11, EntryFacts DEF Entry
  <2>2. inbound'[h] = Entry(w)
    BY <1>1, <1>2, <2>1
  <2> DEFINE entry == Entry(w)
  <2>3. entry.kind = "message" /\ entry.of \in stored /\ Detected(entry) = "stop"
          => From[entry.of] \in optedOut
    BY <1>10, <1>11 DEF Kept
  <2>4. Detected(inbound[h])' = Detected(entry)
    BY <2>2 DEF Detected
  <2> SUFFICES ASSUME entry.kind = "message", From[entry.of] \in Known, entry.of \notin dropped'
               PROVE  IF Detected(entry) = "stop" THEN From[entry.of] \in optedOut'
                      ELSE entry.of \in stored'
    BY <2>2, <2>4 DEF KeptEntry
  <2>5. CASE Detected(entry) = "stop"
    BY <1>1, <1>11, <2>3, <2>5
  <2>6. CASE Detected(entry) # "stop"
    BY <1>1, <1>11, <2>6
  <2> QED BY <2>5, <2>6
<1>12. ASSUME NEW w \in Workers, AckInbound(w), pc[w] \in InStages,
              UNCHANGED <<stored, optedOut, conversation>>,
              \/ Entry(w).kind # "message" \/ From[Entry(w).of] \notin Known
              \/ Entry(w).of \in stored \/ Entry(w).of \in dropped'
              \/ Detected(Entry(w)) = "stop" /\ From[Entry(w).of] \in optedOut
       PROVE  Kept'
  <2>1. AcknowledgedIsKept'
    BY <1>7, <1>11, <1>12
  <2>2. NextEntry(w, "in", "usable") /\ pc[w] # "idle"
    BY <1>12 DEF AckInbound, InStages
  <2>3. \A v \in Workers : pc'[v] = "announce" => pc[v] = "announce" /\ batch'[v] = batch[v]
    BY <1>9, <2>2
  <2> QED BY <1>8, <1>12, <2>1, <2>3 DEF Kept
<1>13. ASSUME UNCHANGED <<readIn, pendingIn, stored, optedOut, conversation>>,
              \A w \in Workers : pc'[w] = "announce" => pc[w] = "announce" /\ batch'[w] = batch[w]
       PROVE  Kept'
  BY <1>6, <1>8, <1>13 DEF Kept
<1>14. ASSUME NEW w \in Workers, ReadInbound(w) PROVE Kept'
  <2> DEFINE last == Least(readIn + BatchSize, Len(inbound))
  <2>1. last \in 0..Len(inbound) /\ readIn < last
    BY <1>2, <1>14, LeastFacts DEF ReadInbound
  <2>2. readIn' = last /\ pendingIn' = pendingIn \cup (readIn + 1)..last
    BY <1>14 DEF ReadInbound
  <2> HIDE DEF last
  <2>3. ASSUME NEW i \in (1..readIn') \ pendingIn'
        PROVE  i \in 1..readIn /\ KeptEntry(i)'
    <3>1. i \in (1..readIn) \ pendingIn
      BY <1>2, <2>1, <2>2, <2>3
    <3>2. KeptEntry(i)
      BY <1>4, <3>1
    <3> QED BY <1>3, <3>1, <3>2
  <2>4. AcknowledgedIsKept'
    BY <1>5, <2>3
  <2>5. \A v \in Workers : pc'[v] = "announce" => pc[v] = "announce" /\ batch'[v] = batch[v]
    BY <1>14 DEF ReadInbound, Types, Stages
  <2> QED BY <1>8, <1>14, <2>4, <2>5 DEF Kept, ReadInbound
<1>15. ASSUME NEW w \in Workers, CommitInbound(w) PROVE Kept'
  <2> DEFINE entry == Entry(w)
             m == entry.of
  <2>1. pc[w] = "commit" /\ pc[w] \in InStages /\ entry.kind = "message"
    BY <1>15 DEF CommitInbound, InStages, Batches
  <2>2. m \in Messages /\ From[m] \in Customers /\ (Detected(entry) = "stop" <=> Stops(m))
    BY <1>10, <2>1
  <2>3. /\ stored' = stored \cup {m}
        /\ Detected(entry) = "stop" => From[m] \in optedOut'
        /\ conversation' = [conversation EXCEPT ![From[m]] = StateAfter(entry)]
        /\ pc' = [pc EXCEPT ![w] = "announce"]
        /\ conversation[From[m]] # "none"
        /\ UNCHANGED <<inbound, readIn, pendingIn, batch>>
    BY <1>15 DEF CommitInbound, Refused, IsNew
  <2>4. StateAfter(entry) # "none"
    BY <2>3 DEF StateAfter
  <2>5. AcknowledgedIsKept'
    BY <1>6, <2>3
  <2>6. \A n \in stored' : Stops(n) => From[n] \in optedOut'
    BY <1>1, <2>2, <2>3 DEF Kept
  <2>7. \A c \in Known : conversation'[c] # "none"
    BY <1>2, <2>2, <2>3, <2>4 DEF Kept
  <2>8. \A v \in Workers : Entry(v)' = Entry(v)
    BY <2>3 DEF Entry
  <2>9. \A v \in Workers \ {w} : pc'[v] = pc[v]
    BY <2>3 DEF Types, Stages
  <2>10. \A v \in Workers : pc'[v] = "announce" => Entry(v).of \in stored'
    BY <2>3, <2>9 DEF Kept
  <2> QED BY <2>5, <2>6, <2>7, <2>8, <2>10 DEF Kept
<1>16. ASSUME NEW w \in Workers, Inbound(w), ~ReadInbound(w), ~CommitInbound(w) PROVE Kept'
  <2>1. UNCHANGED <<stored, optedOut, conversation>>
    BY <1>16 DEF Inbound, SkipInbound, SkipProcessed, HandlingFails, CommitFails,
       PublishInboundEvent, HandleDeliveryStatus, DeliveryStatusFails, AnnounceStatus
  <2>2. CASE SkipInbound(w) \/ DeliveryStatusFails(w)
    <3>1. /\ pc[w] # "idle" /\ UNCHANGED <<readIn, pendingIn>>
          /\ NextEntry(w, "in", "dead")
      BY <2>2 DEF SkipInbound, DeliveryStatusFails
    <3> QED BY <1>9, <1>13, <2>1, <3>1
  <2>3. CASE SkipProcessed(w)
    BY <1>12, <2>1, <2>3 DEF SkipProcessed, InStages, Processed
  <2>4. CASE HandlingFails(w)
    BY <1>12, <2>1, <2>4 DEF HandlingFails, InStages
  <2>5. CASE CommitFails(w)
    <3>1. AckInbound(w) /\ pc[w] \in InStages /\ pc[w] = "commit"
      BY <2>5 DEF CommitFails, InStages
    <3>2. IsNew(From[Entry(w).of]) => From[Entry(w).of] \notin Known
      BY DEF IsNew, Kept
    <3>3. \/ From[Entry(w).of] \notin Known
          \/ Entry(w).of \in stored \/ Entry(w).of \in dropped'
          \/ Detected(Entry(w)) = "stop" /\ From[Entry(w).of] \in optedOut
      BY <2>5, <3>2 DEF CommitFails, Refused, Processed
    <3> QED BY <1>12, <2>1, <3>1, <3>3
  <2>6. CASE PublishInboundEvent(w)
    BY <1>12, <2>1, <2>6 DEF PublishInboundEvent, InStages, Kept
  <2>7. CASE HandleDeliveryStatus(w)
    <3>1. CASE AckInbound(w)
      BY <1>12, <2>1, <2>7, <3>1 DEF HandleDeliveryStatus, InStages
    <3>2. CASE pc' = [pc EXCEPT ![w] = "report"] /\ UNCHANGED <<readIn, pendingIn, batch>>
      <4>1. \A v \in Workers : pc'[v] = "announce" => pc[v] = "announce" /\ batch'[v] = batch[v]
        BY <3>2 DEF Types, Stages
      <4> QED BY <1>13, <2>1, <3>2, <4>1
    <3> QED BY <2>7, <3>1, <3>2 DEF HandleDeliveryStatus
  <2>8. CASE AnnounceStatus(w)
    <3>1. pc[w] = "report" /\ pc[w] \in InStages /\ pc[w] # "idle" /\ Entry(w).kind # "message"
      BY <2>8 DEF AnnounceStatus, InStages, Batches
    <3>2. CASE AckInbound(w)
      BY <1>12, <2>1, <3>1, <3>2
    <3>3. CASE NextEntry(w, "in", "usable") /\ UNCHANGED <<readIn, pendingIn>>
      BY <1>9, <1>13, <2>1, <3>1, <3>3
    <3> QED BY <2>8, <3>2, <3>3 DEF AnnounceStatus
  <2> QED BY <1>16, <2>2, <2>3, <2>4, <2>5, <2>6, <2>7, <2>8 DEF Inbound
<1>17. ASSUME NEW w \in Workers, Handle(w) \/ NotifyVertical(w) \/ Crash(w) PROVE Kept'
  <2>1. UNCHANGED <<readIn, pendingIn, stored, optedOut, conversation>>
    BY <1>17 DEF Handle, HandleEnvelope, NotifyVertical, Crash
  <2>2. \A v \in Workers : pc'[v] = "announce" => pc[v] = "announce" /\ batch'[v] = batch[v]
    BY <1>17 DEF Handle, HandleEnvelope, NotifyVertical, Crash, Types, Stages
  <2> QED BY <1>13, <2>1, <2>2
<1>18. ASSUME NEW w \in Workers, Outbound(w) PROVE Kept'
  <2>1. UNCHANGED <<readIn, pendingIn, stored, optedOut, conversation>>
    BY <1>18 DEF Outbound, ReadOutbound, Block, MaySend, NotPrepared, Prepare, PrepareFails, CallProvider, RecordSent,
       RecordFailed, AnnounceFailure, RecordFails, AckOutbound
  <2>2. CASE ReadOutbound(w) \/ MaySend(w) \/ Prepare(w) \/ CallProvider(w) \/ RecordFailed(w)
    <3>1. \A v \in Workers : pc'[v] = "announce" => pc[v] = "announce" /\ batch'[v] = batch[v]
      BY <2>2 DEF ReadOutbound, MaySend, Prepare, CallProvider, RecordFailed, Types, Stages
    <3> QED BY <1>13, <2>1, <3>1
  <2>3. CASE pc[w] # "idle" /\ \E state \in {"usable", "dead"} : NextEntry(w, "out", state)
    BY <1>9, <1>13, <2>1, <2>3
  <2>4. session[w] \in {"usable", "dead"}
    BY DEF Types, Stages
  <2> QED BY <1>18, <2>2, <2>3, <2>4 DEF Outbound, Block, NotPrepared, PrepareFails, RecordSent,
          AnnounceFailure, RecordFails, AckOutbound
<1>19. ASSUME UNCHANGED <<readIn, pendingIn, stored, optedOut, conversation, pc, batch>> PROVE Kept'
  BY <1>13, <1>19
<1>20. ASSUME NEW w \in Workers, Reclaim(w) PROVE Kept'
  BY <1>19, <1>20 DEF Reclaim, vars
<1>21. Environment => Kept'
  BY <1>19 DEF Environment, EvolutionCreateInstance, UnbindTenant, ReceiveWebhook
<1>22. UNCHANGED vars => Kept'
  BY <1>19 DEF vars
<1> QED
  BY <1>14, <1>15, <1>16, <1>17, <1>18, <1>20, <1>21, <1>22 DEF Next

-------------------------------------------------------------------------------
(* Who is past can_send_message when a customer opts out. *)

(* The workers, and the late messages, can be counted.                     *)
LEMMA Countable ==
  ASSUME Types, NEW c
  PROVE  /\ IsFiniteSet(Callers(c)) /\ IsFiniteSet(LateTo(c))
         /\ Cardinality(Callers(c)) \in Nat /\ Cardinality(LateTo(c)) \in Nat
         /\ Cardinality(Workers) \in Nat \ {0}
<1>1. IsFiniteSet(Workers) /\ Workers # {}
  BY WhatsAppAssumption
<1>2. Callers(c) \in SUBSET Workers
  BY DEF Callers
<1>3. IsFiniteSet(1..Len(outbound))
  BY FS_Interval DEF Types, Tables
<1>4. LateTo(c) \in SUBSET (1..Len(outbound))
  BY DEF LateTo, Types, Tables
<1>5. IsFiniteSet(Callers(c)) /\ IsFiniteSet(LateTo(c))
  BY <1>1, <1>2, <1>3, <1>4, FS_Subset
<1> QED BY <1>1, <1>5, FS_CardinalityType, FS_EmptySet

(* A worker comes to its call by asking can_send_message.                  *)
LEMMA OnlyMaySendCalls ==
  ASSUME Types, Batches, [Next]_vars, NEW v \in Workers, pc'[v] \in {"bind", "call"}
  PROVE  /\ pc[v] \in {"bind", "call"} \/ MaySend(v)
         /\ Sending(v)' = Sending(v) /\ Sending(v) \in 1..Len(outbound)
<1> USE DEF streams, db, provider, losses, history, workers
<1>1. ASSUME pc[v] \in {"bind", "call"} \/ MaySend(v), batch'[v] = batch[v]
      PROVE  /\ pc[v] \in {"bind", "call"} \/ MaySend(v)
             /\ Sending(v)' = Sending(v) /\ Sending(v) \in 1..Len(outbound)
  <2>1. pc[v] \in OutStages
    BY <1>1 DEF MaySend, OutStages
  <2> QED BY <1>1, <2>1, SendingFacts DEF Sending
<1>2. ASSUME NEW w \in Workers, Inbound(w) \/ Handle(w) \/ Crash(w)
      PROVE  pc[v] \in {"bind", "call"} /\ batch'[v] = batch[v]
  BY <1>2 DEF Inbound, ReadInbound, SkipInbound, SkipProcessed, HandlingFails, CommitInbound,
     CommitFails, PublishInboundEvent, HandleDeliveryStatus, DeliveryStatusFails, AnnounceStatus, AckInbound,
     NextEntry, Handle, HandleEnvelope, Crash, Types, Stages
<1>3. ASSUME NEW w \in Workers, Outbound(w)
      PROVE  (pc[v] \in {"bind", "call"} \/ MaySend(v)) /\ batch'[v] = batch[v]
  <2>1. CASE MaySend(w) \/ Prepare(w)
    BY <2>1 DEF MaySend, Prepare, Types, Stages
  <2>2. CASE ~MaySend(w) /\ ~Prepare(w)
    BY <1>3, <2>2 DEF Outbound, ReadOutbound, Block, NotPrepared, PrepareFails, CallProvider,
       RecordSent, RecordFailed, AnnounceFailure, RecordFails, AckOutbound, NextEntry, Types, Stages
  <2> QED BY <2>1, <2>2
<1>4. ASSUME UNCHANGED <<pc, batch>>
      PROVE  pc[v] \in {"bind", "call"} /\ batch'[v] = batch[v]
  BY <1>4
<1>5. ASSUME NEW w \in Workers, NotifyVertical(w) \/ Reclaim(w)
      PROVE  UNCHANGED <<pc, batch>>
  BY <1>5 DEF NotifyVertical, Reclaim, vars
<1>6. Environment => UNCHANGED <<pc, batch>>
  BY DEF Environment, EvolutionCreateInstance, UnbindTenant, ReceiveWebhook
<1>7. UNCHANGED vars => UNCHANGED <<pc, batch>>
  BY DEF vars
<1>8. (pc[v] \in {"bind", "call"} \/ MaySend(v)) /\ batch'[v] = batch[v]
  BY <1>2, <1>3, <1>4, <1>5, <1>6, <1>7 DEF Next
<1> QED BY <1>1, <1>8

(* For a customer who has opted out nobody newly comes to a call.          *)
LEMMA CallersDwindle ==
  ASSUME Types, Batches, [Next]_vars, NEW c \in optedOut
  PROVE  Callers(c)' \subseteq Callers(c)
<1> SUFFICES ASSUME NEW v \in Workers, pc'[v] \in {"bind", "call"}, outbound'[Sending(v)'].to = c
             PROVE  pc[v] \in {"bind", "call"} /\ outbound[Sending(v)].to = c
  BY DEF Callers
<1>1. /\ pc[v] \in {"bind", "call"} \/ MaySend(v)
      /\ Sending(v)' = Sending(v) /\ Sending(v) \in 1..Len(outbound)
  BY OnlyMaySendCalls
<1>2. outbound[Sending(v)].to = c
  BY <1>1, NothingIsTakenBack
<1>3. ~MaySend(v)
  BY <1>2 DEF MaySend, CanSend
<1> QED BY <1>1, <1>2, <1>3

(* Only a commit opts a customer out, and its worker calls nobody.         *)
LEMMA OnlyCommitsOptOut ==
  ASSUME Types, Batches, [Next]_vars, NEW c, c \in optedOut', c \notin optedOut
  PROVE  \E w \in Workers : pc'[w] \notin {"bind", "call"}
<1> USE DEF streams, db, provider, losses, history, workers
<1>1. ASSUME NEW w \in Workers, Outbound(w) \/ Handle(w) \/ NotifyVertical(w) \/ Reclaim(w) \/ Crash(w)
      PROVE  UNCHANGED optedOut
  BY <1>1 DEF Outbound, ReadOutbound, Block, MaySend, NotPrepared, Prepare, PrepareFails, CallProvider, RecordSent,
     RecordFailed, AnnounceFailure, RecordFails, Handle, HandleEnvelope, NotifyVertical, Reclaim, Crash, vars
<1>2. Environment \/ UNCHANGED vars => UNCHANGED optedOut
  BY DEF Environment, EvolutionCreateInstance, UnbindTenant, ReceiveWebhook, vars
<1>3. PICK w \in Workers : Inbound(w)
  BY <1>1, <1>2 DEF Next
<1>4. CommitInbound(w)
  BY <1>3 DEF Inbound, ReadInbound, SkipInbound, SkipProcessed, HandlingFails,
     CommitFails, PublishInboundEvent, HandleDeliveryStatus, DeliveryStatusFails, AnnounceStatus
<1> QED BY <1>4 DEF CommitInbound, Types, Stages

(* A call for a customer who has opted out takes its worker from the       *)
(* callers; no other step adds a late message, or a caller.                *)
LEMMA UnderwayStep ==
  ASSUME Types, Batches, Apart, Attempted, Underway, [Next]_vars
  PROVE  Underway'
<1>1. Types'
  BY TypesStep
<1>2. /\ \A e \in 1..Len(outbound) : outbound'[e] = outbound[e]
      /\ optedOut \subseteq optedOut' /\ late \subseteq 1..Len(outbound)
  BY NothingIsTakenBack DEF Types, Tables
<1> SUFFICES ASSUME NEW c \in Customers
             PROVE  IF c \in optedOut'
                    THEN Cardinality(LateTo(c)') + Cardinality(Callers(c)') < Cardinality(Workers)
                    ELSE LateTo(c)' = {}
  BY DEF Underway
<1>3. /\ IsFiniteSet(Callers(c)) /\ IsFiniteSet(LateTo(c))
      /\ Cardinality(Callers(c)) \in Nat /\ Cardinality(LateTo(c)) \in Nat
      /\ Cardinality(Workers) \in Nat
  BY Countable
<1>4. /\ IsFiniteSet(Callers(c)') /\ IsFiniteSet(LateTo(c)')
      /\ Cardinality(Callers(c)') \in Nat /\ Cardinality(LateTo(c)') \in Nat
  <2>1. Callers(c)' \in SUBSET Workers
    BY DEF Callers
  <2>2. Len(outbound') \in Int /\ LateTo(c)' \in SUBSET (1..Len(outbound'))
    <3>1. outbound' \in Seq(Sendings) /\ late' \subseteq 1..Len(outbound')
      BY <1>1 DEF Types, Tables
    <3>2. Len(outbound') \in Int
      BY <3>1
    <3> QED BY <3>1, <3>2 DEF LateTo
  <2>3. IsFiniteSet(1..Len(outbound'))
    BY <2>2, FS_Interval
  <2>4. IsFiniteSet(Callers(c)') /\ IsFiniteSet(LateTo(c)')
    BY <2>1, <2>2, <2>3, FS_Subset, WhatsAppAssumption
  <2> QED BY <2>4, FS_CardinalityType
<1>5. CASE ~\E w \in Workers : CallProvider(w)
  <2>1. late' = late
    BY <1>5, OnlyCallsCount
  <2>2. LateTo(c)' = LateTo(c)
    BY <1>2, <2>1 DEF LateTo
  <2>3. CASE c \in optedOut
    <3>1. Callers(c)' \in SUBSET Callers(c)
      BY <2>3, CallersDwindle
    <3>2. Cardinality(Callers(c)') <= Cardinality(Callers(c))
      BY <1>3, <3>1, FS_Subset
    <3>3. Cardinality(LateTo(c)) + Cardinality(Callers(c)) < Cardinality(Workers)
      BY <2>3 DEF Underway
    <3> QED BY <1>2, <1>3, <1>4, <2>2, <2>3, <3>2, <3>3
  <2>4. CASE c \notin optedOut'
    BY <1>2, <2>2, <2>4 DEF Underway
  <2>5. CASE c \in optedOut' /\ c \notin optedOut
    <3>1. PICK w \in Workers : pc'[w] \notin {"bind", "call"}
      BY <2>5, OnlyCommitsOptOut
    <3>2. Callers(c)' \in SUBSET (Workers \ {w})
      BY <3>1 DEF Callers
    <3>3. Cardinality(Workers \ {w}) = Cardinality(Workers) - 1 /\ IsFiniteSet(Workers \ {w})
      BY WhatsAppAssumption, FS_RemoveElement
    <3>4. Cardinality(Callers(c)') <= Cardinality(Workers) - 1
      BY <3>2, <3>3, FS_Subset
    <3>5. Cardinality(LateTo(c)') = 0
      BY <2>2, <2>5, FS_EmptySet DEF Underway
    <3> QED BY <1>3, <1>4, <2>5, <3>4, <3>5
  <2> QED BY <2>3, <2>4, <2>5
<1>6. ASSUME NEW w \in Workers, CallProvider(w)
      PROVE  IF c \in optedOut'
             THEN Cardinality(LateTo(c)') + Cardinality(Callers(c)') < Cardinality(Workers)
             ELSE LateTo(c)' = {}
  <2> DEFINE e == Sending(w)
             d == outbound[e].to
  <2>1. /\ optedOut' = optedOut /\ outbound' = outbound /\ batch' = batch
        /\ pc[w] = "call" /\ pc' = [pc EXCEPT ![w] = "record"]
        /\ late' = IF d \in optedOut THEN late \cup {e} ELSE late
    BY <1>6 DEF CallProvider, streams, db
  <2>2. CASE d = c /\ c \in optedOut
    <3>1. LateTo(c)' = LateTo(c) \cup {e}
      BY <2>1, <2>2 DEF LateTo
    <3>2. Callers(c)' = Callers(c) \ {w}
      BY <2>1 DEF Callers, Sending, Types, Stages
    <3>3. w \in Callers(c)
      BY <2>1, <2>2 DEF Callers
    <3> HIDE DEF e, d
    <3>4. Cardinality(LateTo(c)') <= Cardinality(LateTo(c)) + 1
      <4>1. Cardinality(LateTo(c) \cup {e}) =
              IF e \in LateTo(c) THEN Cardinality(LateTo(c)) ELSE Cardinality(LateTo(c)) + 1
        BY <1>3, FS_AddElement
      <4> QED BY <1>3, <3>1, <4>1
    <3>5. Cardinality(Callers(c)') = Cardinality(Callers(c)) - 1
      BY <1>3, <3>2, <3>3, FS_RemoveElement
    <3>6. Cardinality(LateTo(c)) + Cardinality(Callers(c)) < Cardinality(Workers)
      BY <2>2 DEF Underway
    <3> QED BY <1>3, <1>4, <2>1, <2>2, <3>4, <3>5, <3>6
  <2>3. CASE d # c \/ c \notin optedOut
    <3>1. LateTo(c)' = LateTo(c)
      BY <2>1, <2>3 DEF LateTo
    <3>2. Callers(c)' \in SUBSET Callers(c)
      BY <2>1 DEF Callers, Sending, Types, Stages
    <3>3. Cardinality(Callers(c)') <= Cardinality(Callers(c))
      BY <1>3, <3>2, FS_Subset
    <3> QED BY <1>3, <1>4, <2>1, <3>1, <3>3 DEF Underway
  <2> QED BY <2>2, <2>3
<1> QED BY <1>5, <1>6

-------------------------------------------------------------------------------
(* Before anything has happened.                                           *)
LEMMA InitInv == Init => Inv
<1> SUFFICES ASSUME Init PROVE Inv
  OBVIOUS
<1> USE WhatsAppAssumption DEF Init, Meta
<1>1. Tables
  <2>1. instance \in BOOLEAN
    BY Zenon
  <2>2. /\ inbound \in Seq(Entries) /\ outbound \in Seq(Sendings) /\ row \in Seq(RowStates)
        /\ attempts \in Seq(Nat) /\ Len(inbound) = 0 /\ Len(outbound) = 0
        /\ Len(row) = 0 /\ Len(attempts) = 0
    OBVIOUS
  <2>3. conversation \in [Customers -> States]
    BY DEF States
  <2> QED BY <2>1, <2>2, <2>3 DEF Tables
<1>2. Stages
  <2>1. <<>> \in Seq(Nat)
    OBVIOUS
  <2> QED BY <2>1 DEF Stages
<1>3. Batches /\ Apart /\ Attempted /\ Recorded /\ Announced
  BY DEF Batches, Apart, Attempted, Recorded, SentIsRecorded, RecordedWasSent, Announced,
     FailureIsAnnounced, ReceivedIsStored, OutStages, InStages
<1>4. Kept /\ Underway
  BY DEF Kept, AcknowledgedIsKept, Underway, LateTo
<1> QED BY <1>1, <1>2, <1>3, <1>4 DEF Inv, Types

(* Inv is an inductive invariant of the worker.                            *)
THEOREM Inductive == Spec => []Inv
<1>1. Inv /\ [Next]_vars => Inv'
  BY TypesStep, ApartStep, AttemptedStep, RecordedStep, AnnouncedStep, KeptStep, UnderwayStep
     DEF Inv
<1> QED BY InitInv, <1>1, PTL DEF Spec

(* The tables, the streams and the workers' stages are what they should be. *)
THEOREM TypeCorrect == Spec => []TypeOK
<1>1. Inv => TypeOK
  <2> SUFFICES ASSUME Inv PROVE TypeOK
    OBVIOUS
  <2>1. Tables /\ Stages /\ Batches
    BY DEF Inv, Types
  <2>2. \A e \in 1..Len(row) : row[e] \in RowStates
    BY <2>1 DEF Tables
  <2>3. pc \in [Workers -> {"idle", "in", "commit", "announce", "report",
                            "out", "bind", "call", "record", "tell"}]
    BY <2>1 DEF Stages, InStages, OutStages
  <2> QED BY <2>1, <2>2, <2>3, Zenon DEF TypeOK, Tables, Stages, Batches
<1> QED BY Inductive, <1>1, PTL

(* After an opt-out only what another worker was already sending goes out, *)
(* however many messages, crashes and workers there are.                   *)
THEOREM LateAreUnderway == Spec => []LateMessagesAreUnderway
<1>1. Inv => LateMessagesAreUnderway
  <2> SUFFICES ASSUME Inv, NEW c \in Customers
               PROVE  Cardinality(LateTo(c)) < Cardinality(Workers)
    BY DEF LateMessagesAreUnderway, LateTo
  <2>1. /\ Cardinality(Callers(c)) \in Nat /\ Cardinality(LateTo(c)) \in Nat
        /\ Cardinality(Workers) \in Nat \ {0}
    BY Countable DEF Inv
  <2>2. CASE c \in optedOut
    BY <2>1, <2>2 DEF Inv, Underway
  <2>3. CASE c \notin optedOut
    BY <2>1, <2>3, FS_EmptySet DEF Inv, Underway
  <2> QED BY <2>2, <2>3
<1> QED BY Inductive, <1>1, PTL

(* What is acknowledged on the inbound stream is in the tables, unless a   *)
(* call of its handler failed.                                             *)
THEOREM AcknowledgedKept == Spec => []AcknowledgedIsKept
<1>1. Inv => AcknowledgedIsKept
  BY DEF Inv, Kept
<1> QED BY Inductive, <1>1, PTL

(* What was sent is recorded as sent unless a call of it failed or its     *)
(* worker died, and what is recorded as sent was sent.                     *)
THEOREM SendsAgree == Spec => []RowsMatchSends
<1>1. Inv => RowsMatchSends
  BY DEF Inv, Recorded, RowsMatchSends
<1> QED BY Inductive, <1>1, PTL

(* A failure that is committed is announced, or will be by the worker that *)
(* committed it, unless a call or that worker failed in between; and what  *)
(* is announced as received is in the table.                               *)
THEOREM EventsAgree == Spec => [](FailureIsAnnounced /\ ReceivedIsStored)
<1>1. Inv => FailureIsAnnounced /\ ReceivedIsStored
  BY DEF Inv, Announced
<1> QED BY Inductive, <1>1, PTL
===============================================================================
