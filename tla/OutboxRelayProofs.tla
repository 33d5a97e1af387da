--------------------------- MODULE OutboxRelayProofs ---------------------------
(***************************************************************************)
(* Proofs about the outbox relay, for any relays, rows, batch size and     *)
(* number of failures.                                                     *)
(***************************************************************************)
EXTENDS OutboxRelay, FiniteSetTheorems, TLAPS

(* The rows that count as published, or will when the batch is marked. *)
Counted == {e \in Events : outbox[e] = "published" \/ \E r \in Relays : e \in sent[r]}

(* Two relays never hold one row, and what they hold is unpublished. *)
Exclusive ==
  /\ \A r, q \in Relays : r # q => locked[r] \cap locked[q] = {}
  /\ \A r \in Relays : \A e \in locked[r] : outbox[e] = "unpublished"

OnStream(e) == \E i \in 1..Len(stream) : stream[i] = e

SentIsOnStream ==
  /\ \A e \in Counted : OnStream(e)
  /\ \A i \in 1..Len(stream) : outbox[stream[i]] # "none"

(* Every copy of an event but the one that counts was paid by a failure. *)
CopiesBounded ==
  \A e \in Events :
    Cardinality(Positions(e)) <= IF e \in Counted THEN faults + 1 ELSE faults

Inv == TypeOK /\ Exclusive /\ SentIsOnStream /\ CopiesBounded

At(s, e) == {i \in 1..Len(s) : s[i] = e}

(* Appending an event adds one position of that event and no other. *)
LEMMA AppendPositions ==
  ASSUME NEW s \in Seq(Events), NEW d \in Events, NEW e \in Events
  PROVE  /\ Cardinality(At(s, e)) \in Nat
         /\ Cardinality(At(Append(s, d), e)) =
              IF e = d THEN Cardinality(At(s, e)) + 1 ELSE Cardinality(At(s, e))
<1>1. IsFiniteSet(At(s, e))
  <2>1. IsFiniteSet(1..Len(s))
    BY FS_Interval
  <2> QED BY <2>1, FS_Subset DEF At
<1>2. Cardinality(At(s, e)) \in Nat
  BY <1>1, FS_CardinalityType
<1>3. CASE e = d
  <2>1. At(Append(s, d), e) = At(s, e) \cup {Len(s) + 1}
    BY <1>3 DEF At
  <2>2. Len(s) + 1 \notin At(s, e)
    BY DEF At
  <2> QED BY <1>1, <1>2, <1>3, <2>1, <2>2, FS_AddElement
<1>4. CASE e # d
  <2>1. At(Append(s, d), e) = At(s, e)
    BY <1>4 DEF At
  <2> QED BY <1>2, <1>4, <2>1
<1> QED BY <1>2, <1>3, <1>4

LEMMA InitInv == Init => Inv
<1> SUFFICES ASSUME Init PROVE Inv
  OBVIOUS
<1>1. TypeOK
  BY RelayAssumption DEF Init, TypeOK
<1>2. Exclusive /\ SentIsOnStream
  BY DEF Init, Exclusive, SentIsOnStream, Counted
<1>3. CopiesBounded
  <2> SUFFICES ASSUME NEW e \in Events
               PROVE  Cardinality(Positions(e)) <= IF e \in Counted THEN faults + 1 ELSE faults
    BY DEF CopiesBounded
  <2>1. Positions(e) = {}
    BY DEF Init, Positions
  <2>2. Cardinality(Positions(e)) = 0
    BY <2>1, FS_EmptySet
  <2> QED BY <2>2 DEF Init
<1> QED BY <1>1, <1>2, <1>3 DEF Inv

LEMMA StepInv ==
  ASSUME Inv, [Next]_vars
  PROVE  Inv'
<1> USE DEF Inv
<1>c. \A e \in Events : Cardinality(Positions(e)) \in Nat
  <2> TAKE e \in Events
  <2>1. stream \in Seq(Events)
    BY DEF TypeOK
  <2> QED BY <2>1, AppendPositions DEF At, Positions
<1>1. ASSUME NEW e \in Events, Record(e)
      PROVE  Inv'
  <2>1. TypeOK'
    BY <1>1 DEF TypeOK, Record
  <2>2. Exclusive'
    BY <1>1 DEF TypeOK, Record, Exclusive
  <2>3. Counted' = Counted
    BY <1>1 DEF TypeOK, Record, Counted
  <2>4. SentIsOnStream'
    BY <1>1, <2>3 DEF TypeOK, Record, SentIsOnStream, OnStream
  <2>5. CopiesBounded'
    BY <1>1, <2>3 DEF Record, CopiesBounded, Positions
  <2> QED BY <2>1, <2>2, <2>4, <2>5
<1>2. ASSUME NEW r \in Relays, Start(r)
      PROVE  Inv'
  BY <1>2 DEF Start, TypeOK, Exclusive, SentIsOnStream, OnStream, CopiesBounded, Counted, Positions
<1>3. ASSUME NEW r \in Relays, Select(r)
      PROVE  Inv'
  <2> DEFINE rows == Oldest(Unpublished \ LockedByAny)
  <2>1. rows \subseteq Unpublished \ LockedByAny
    BY DEF Oldest
  <2>2. rows \subseteq Events /\ \A e \in rows : outbox[e] = "unpublished"
    BY <2>1 DEF Unpublished
  <2>3. \A q \in Relays : rows \cap locked[q] = {}
    BY <2>1 DEF LockedByAny
  <2>4. Hold(r, rows)
    BY <1>3 DEF Select
  <2> HIDE DEF rows
  <2>5. sent[r] = {}
    BY <2>4 DEF Hold, TypeOK
  <2>6. TypeOK'
    BY <2>2, <2>4, <2>5 DEF Hold, TypeOK
  <2>7. Exclusive'
    BY <2>2, <2>3, <2>4 DEF Hold, TypeOK, Exclusive
  <2>8. SentIsOnStream' /\ CopiesBounded'
    BY <2>4 DEF Hold, SentIsOnStream, OnStream, CopiesBounded, Counted, Positions
  <2> QED BY <2>6, <2>7, <2>8
<1>4. ASSUME NEW r \in Relays, Xadd(r)
      PROVE  Inv'
  <2>0. PICK d \in Events : /\ Current(r, d)
                            /\ stream' = Append(stream, d)
                            /\ left' = [left EXCEPT ![r] = @ \ {d}]
                            /\ sent' = [sent EXCEPT ![r] = @ \cup {d}]
                            /\ UNCHANGED <<outbox, pc, locked, faults>>
    BY <1>4 DEF Xadd
  <2>1. d \in left[r] /\ d \in locked[r] /\ pc[r] = "send"
    BY <2>0 DEF Current, TypeOK
  <2>2. TypeOK'
    BY <2>0, <2>1 DEF TypeOK
  <2>3. Exclusive'
    BY <2>0 DEF Exclusive
  <2>4. d \notin Counted
    BY <2>1 DEF Counted, TypeOK, Exclusive
  <2>5. Counted' = Counted \cup {d}
    BY <2>0 DEF Counted, TypeOK
  <2>6. SentIsOnStream'
    <3>1. \A e \in Events : OnStream(e) => OnStream(e)'
      BY <2>0 DEF OnStream, TypeOK
    <3>2. OnStream(d)'
      BY <2>0 DEF OnStream, TypeOK
    <3>3. \A e \in Counted' : OnStream(e)'
      BY <2>5, <3>1, <3>2 DEF SentIsOnStream, Counted
    <3>4. \A i \in 1..Len(stream') : outbox'[stream'[i]] # "none"
      BY <2>0, <2>1 DEF SentIsOnStream, TypeOK, Exclusive
    <3> QED BY <3>3, <3>4 DEF SentIsOnStream
  <2>7. CopiesBounded'
    <3> SUFFICES ASSUME NEW e \in Events
                 PROVE  Cardinality(Positions(e)') <= IF e \in Counted' THEN faults' + 1 ELSE faults'
      BY DEF CopiesBounded
    <3>1. /\ Positions(e) = At(stream, e)
          /\ Positions(e)' = At(Append(stream, d), e)
      BY <2>0 DEF Positions, At
    <3>2. Cardinality(Positions(e)') =
            IF e = d THEN Cardinality(Positions(e)) + 1 ELSE Cardinality(Positions(e))
      BY <3>1, AppendPositions DEF TypeOK
    <3>3. faults' = faults /\ faults \in Nat
      BY <2>0, RelayAssumption DEF TypeOK
    <3>4. Cardinality(Positions(e)) <= IF e \in Counted THEN faults + 1 ELSE faults
      BY DEF CopiesBounded
    <3>5. CASE e = d
      BY <1>c, <2>4, <2>5, <3>2, <3>3, <3>4, <3>5
    <3>6. CASE e # d
      BY <1>c, <2>5, <3>2, <3>3, <3>4, <3>6
    <3> QED BY <3>5, <3>6
  <2> QED BY <2>2, <2>3, <2>6, <2>7
<1>5. ASSUME NEW r \in Relays, MarkPublished(r)
      PROVE  Inv'
  <2>1. TypeOK'
    BY <1>5 DEF MarkPublished, Release, TypeOK
  <2>2. Exclusive'
    <3>1. ASSUME NEW q \in Relays, NEW e \in locked'[q]
          PROVE  outbox'[e] = "unpublished"
      <4>1. q # r /\ e \in locked[q] /\ e \in Events
        BY <1>5, <3>1 DEF MarkPublished, Release, TypeOK
      <4>2. e \notin sent[r]
        BY <4>1 DEF TypeOK, Exclusive
      <4> QED BY <1>5, <4>1, <4>2 DEF MarkPublished, Exclusive
    <3>2. \A p, q \in Relays : p # q => locked'[p] \cap locked'[q] = {}
      BY <1>5 DEF MarkPublished, Release, TypeOK, Exclusive
    <3> QED BY <3>1, <3>2 DEF Exclusive
  <2>3. Counted' = Counted
    BY <1>5 DEF MarkPublished, Release, TypeOK, Counted
  <2>4. SentIsOnStream'
    BY <1>5, <2>3 DEF MarkPublished, TypeOK, SentIsOnStream, OnStream
  <2>5. CopiesBounded'
    BY <1>5, <2>3 DEF MarkPublished, CopiesBounded, Positions
  <2> QED BY <2>1, <2>2, <2>4, <2>5
<1>6. ASSUME NEW r \in Relays, NothingSent(r)
      PROVE  Inv'
  <2>1. TypeOK' /\ Exclusive'
    BY <1>6 DEF NothingSent, Release, TypeOK, Exclusive
  <2>2. Counted' = Counted
    BY <1>6 DEF NothingSent, Release, TypeOK, Counted
  <2> QED BY <1>6, <2>1, <2>2 DEF NothingSent, SentIsOnStream, OnStream, CopiesBounded, Positions
<1>7. ASSUME NEW r \in Relays, XaddFails(r)
      PROVE  Inv'
  <2>0. PICK d \in Events : /\ Current(r, d)
                            /\ faults < MaxFaults
                            /\ faults' = faults + 1
                            /\ stream' \in {stream, Append(stream, d)}
                            /\ left' = [left EXCEPT ![r] = @ \ {d}]
                            /\ UNCHANGED <<outbox, pc, locked, sent>>
    BY <1>7 DEF XaddFails
  <2>1. d \in left[r] /\ d \in locked[r] /\ pc[r] = "send"
    BY <2>0 DEF Current, TypeOK
  <2>2. TypeOK'
    <3>1. stream' \in Seq(Events)
      BY <2>0, SMTT(30) DEF TypeOK
    <3>2. faults' \in 0..MaxFaults
      BY <2>0, RelayAssumption DEF TypeOK
    <3> QED BY <2>0, <2>1, <3>1, <3>2 DEF TypeOK
  <2>3. Exclusive'
    BY <2>0 DEF Exclusive
  <2>4. d \notin Counted
    BY <2>1 DEF Counted, TypeOK, Exclusive
  <2>5. Counted' = Counted
    BY <2>0 DEF Counted
  <2>6. SentIsOnStream'
    <3>1. \A e \in Events : OnStream(e) => OnStream(e)'
      <4>1. CASE stream' = stream
        BY <4>1 DEF OnStream
      <4>2. CASE stream' = Append(stream, d)
        BY <4>2 DEF OnStream, TypeOK
      <4> QED BY <2>0, <4>1, <4>2
    <3>2. \A e \in Counted' : OnStream(e)'
      BY <2>5, <3>1 DEF SentIsOnStream, Counted
    <3>3. \A i \in 1..Len(stream') : outbox'[stream'[i]] # "none"
      <4>0. outbox' = outbox /\ outbox[d] = "unpublished" /\ stream \in Seq(Events)
        BY <2>0, <2>1 DEF TypeOK, Exclusive
      <4>1. CASE stream' = stream
        BY <4>0, <4>1 DEF SentIsOnStream
      <4>2. CASE stream' = Append(stream, d)
        BY <4>0, <4>2 DEF SentIsOnStream
      <4> QED BY <2>0, <4>1, <4>2
    <3> QED BY <3>2, <3>3 DEF SentIsOnStream
  <2>7. CopiesBounded'
    <3> SUFFICES ASSUME NEW e \in Events
                 PROVE  Cardinality(Positions(e)') <= IF e \in Counted' THEN faults' + 1 ELSE faults'
      BY DEF CopiesBounded
    <3>1. Cardinality(Positions(e)') \in
            {Cardinality(Positions(e)),
             IF e = d THEN Cardinality(Positions(e)) + 1 ELSE Cardinality(Positions(e))}
      <4>1. CASE stream' = stream
        BY <4>1 DEF Positions
      <4>2. CASE stream' = Append(stream, d)
        <5>1. Positions(e) = At(stream, e) /\ Positions(e)' = At(Append(stream, d), e)
          BY <4>2 DEF Positions, At
        <5> QED BY <5>1, AppendPositions DEF TypeOK
      <4> QED BY <2>0, <4>1, <4>2
    <3>2. faults' = faults + 1 /\ faults \in Nat
      BY <2>0, RelayAssumption DEF TypeOK
    <3>3. Cardinality(Positions(e)) <= IF e \in Counted THEN faults + 1 ELSE faults
      BY DEF CopiesBounded
    <3> QED BY <1>c, <2>4, <2>5, <3>1, <3>2, <3>3
  <2> QED BY <2>2, <2>3, <2>6, <2>7
<1>8. ASSUME NEW r \in Relays, MarkFails(r) \/ Crash(r)
      PROVE  Inv'
  <2>0. /\ pc' \in {[pc EXCEPT ![r] = "poll"], [pc EXCEPT ![r] = "down"]}
        /\ locked' = [locked EXCEPT ![r] = {}]
        /\ left' = [left EXCEPT ![r] = {}]
        /\ sent' = [sent EXCEPT ![r] = {}]
        /\ faults < MaxFaults /\ faults' = faults + 1
        /\ UNCHANGED <<outbox, stream>>
    BY <1>8 DEF MarkFails, Crash, Release
  <2>1. TypeOK' /\ Exclusive'
    <3>1. faults' \in 0..MaxFaults
      BY <2>0, RelayAssumption DEF TypeOK
    <3>2. pc' \in [Relays -> {"down", "poll", "send"}]
      BY <2>0 DEF TypeOK
    <3>3. TypeOK'
      BY <2>0, <3>1, <3>2 DEF TypeOK
    <3>4. Exclusive'
      BY <2>0 DEF TypeOK, Exclusive
    <3> QED BY <3>3, <3>4
  <2>2. Counted' \subseteq Counted /\ UNCHANGED <<stream, outbox>>
    BY <1>8 DEF MarkFails, Crash, Release, TypeOK, Counted
  <2>3. SentIsOnStream'
    BY <2>2 DEF SentIsOnStream, OnStream
  <2>4. CopiesBounded'
    <3>1. faults' = faults + 1 /\ faults \in Nat
      BY <1>8, RelayAssumption DEF MarkFails, Crash, TypeOK
    <3>2. \A e \in Events : Positions(e)' = Positions(e)
      BY <2>2 DEF Positions
    <3> QED BY <1>c, <3>1, <3>2 DEF CopiesBounded
  <2> QED BY <2>1, <2>3, <2>4
<1>9. CASE UNCHANGED vars
  BY <1>9 DEF vars, TypeOK, Exclusive, SentIsOnStream, OnStream, CopiesBounded, Counted, Positions
<1> QED BY <1>1, <1>2, <1>3, <1>4, <1>5, <1>6, <1>7, <1>8, <1>9 DEF Next, Work, Fail

(* The strengthened invariant holds in every reachable state. *)
THEOREM Inductive == Spec => []Inv
<1>1. Init => Inv
  BY InitInv
<1>2. Inv /\ [Next]_vars => Inv'
  BY StepInv
<1> QED BY <1>1, <1>2, PTL DEF Spec

(* Type correctness: a relay works only on rows it has locked. *)
THEOREM RelayTypeCorrect == Spec => []TypeOK
<1>1. Inv => TypeOK
  BY DEF Inv
<1> QED BY <1>1, Inductive, PTL

(* A row is closed only when its event is on the stream. *)
THEOREM NothingLost == Spec => []PublishedWasSent
<1>1. Inv => PublishedWasSent
  <2> SUFFICES ASSUME Inv, NEW e \in Events, outbox[e] = "published"
               PROVE  Positions(e) # {}
    BY DEF PublishedWasSent
  <2>1. OnStream(e)
    BY DEF Inv, SentIsOnStream, Counted
  <2> QED BY <2>1 DEF OnStream, Positions
<1> QED BY <1>1, Inductive, PTL

(* Relays that run side by side duplicate an event only by failing. *)
THEOREM DuplicatesPaid == Spec => []DuplicatesAreRetries
<1>1. Inv => DuplicatesAreRetries
  <2> SUFFICES ASSUME Inv, NEW e \in Events
               PROVE  Cardinality(Positions(e)) <= 1 + faults
    BY DEF DuplicatesAreRetries
  <2>1. faults \in Nat
    BY RelayAssumption DEF Inv, TypeOK
  <2>2. Cardinality(Positions(e)) <= IF e \in Counted THEN faults + 1 ELSE faults
    BY DEF Inv, CopiesBounded
  <2>3. Cardinality(Positions(e)) \in Nat
    BY AppendPositions DEF Inv, TypeOK, At, Positions
  <2> QED BY <2>1, <2>2, <2>3
<1> QED BY <1>1, Inductive, PTL

(* What the relay does is a step of the promise, or none. *)
LEMMA PromiseStep ==
  ASSUME Inv, [Next]_vars
  PROVE  [Promise!Next]_(Promise!vars)
<1> DEFINE W == {e \in Events : outbox[e] # "none"}
           S == {stream[i] : i \in 1..Len(stream)}
           C == {e \in Events : outbox[e] = "published"}
<1> USE DEF Inv
<1>s. ASSUME NEW d \in Events, stream' = Append(stream, d)
      PROVE  S' = S \cup {d}
  <2>1. Len(stream') = Len(stream) + 1 /\ Len(stream) \in Nat
    BY <1>s DEF TypeOK
  <2>2. \A i \in 1..Len(stream) : stream'[i] = stream[i]
    BY <1>s DEF TypeOK
  <2>3. stream'[Len(stream) + 1] = d
    BY <1>s DEF TypeOK
  <2> QED BY <2>1, <2>2, <2>3
<1>d. ASSUME NEW d \in Events, outbox[d] # "none", stream' = Append(stream, d),
             UNCHANGED outbox
      PROVE  Promise!Next
  <2>1. d \in W /\ S' = S \cup {d} /\ W' = W /\ C' = C
    BY <1>s, <1>d
  <2>2. Promise!Deliver(d)
    BY <2>1 DEF Promise!Deliver
  <2> QED BY <2>2 DEF Promise!Next
<1>u. ASSUME UNCHANGED <<outbox, stream>>
      PROVE  UNCHANGED Promise!vars
  BY <1>u DEF Promise!vars
<1>1. ASSUME NEW e \in Events, Record(e)
      PROVE  [Promise!Next]_(Promise!vars)
  <2>1. W' = W \cup {e} /\ S' = S /\ C' = C
    BY <1>1 DEF Record, TypeOK
  <2>2. Promise!Write(e)
    BY <2>1 DEF Promise!Write
  <2> QED BY <2>2 DEF Promise!Next
<1>2. ASSUME NEW r \in Relays, Xadd(r)
      PROVE  [Promise!Next]_(Promise!vars)
  <2>1. PICK d \in Events : Current(r, d) /\ stream' = Append(stream, d) /\ UNCHANGED outbox
    BY <1>2 DEF Xadd
  <2>2. outbox[d] # "none"
    BY <2>1 DEF Current, TypeOK, Exclusive
  <2> QED BY <1>d, <2>1, <2>2
<1>3. ASSUME NEW r \in Relays, MarkPublished(r)
      PROVE  [Promise!Next]_(Promise!vars)
  <2>1. PICK batch : batch = sent[r]
    OBVIOUS
  <2>2. batch \subseteq Events
    BY <2>1 DEF TypeOK
  <2>3. batch \subseteq S
    BY <2>1, <2>2 DEF SentIsOnStream, OnStream, Counted
  <2>4. \A e \in batch : outbox[e] = "unpublished"
    BY <2>1 DEF TypeOK, Exclusive
  <2>5. C' = C \cup batch /\ W' = W /\ S' = S
    BY <1>3, <2>1, <2>2, <2>4 DEF MarkPublished, TypeOK
  <2>6. Promise!Close(batch)
    BY <2>3, <2>5 DEF Promise!Close
  <2> QED BY <2>2, <2>6 DEF Promise!Next
<1>4. ASSUME NEW r \in Relays, XaddFails(r)
      PROVE  [Promise!Next]_(Promise!vars)
  <2>1. PICK d \in Events : /\ Current(r, d)
                            /\ stream' \in {stream, Append(stream, d)}
                            /\ UNCHANGED outbox
    BY <1>4 DEF XaddFails
  <2>2. outbox[d] # "none"
    BY <2>1 DEF Current, TypeOK, Exclusive
  <2> QED BY <1>d, <1>u, <2>1, <2>2
<1>5. ASSUME NEW r \in Relays,
             Start(r) \/ Select(r) \/ NothingSent(r) \/ MarkFails(r) \/ Crash(r)
      PROVE  UNCHANGED <<outbox, stream>>
  BY <1>5 DEF Start, Select, Hold, NothingSent, MarkFails, Crash
<1>6. CASE UNCHANGED vars
  BY <1>6, <1>u DEF vars
<1> QED BY <1>1, <1>2, <1>3, <1>4, <1>5, <1>6, <1>u DEF Next, Work, Fail

(* The relay implements OutboxPromise: each of its steps writes, delivers  *)
(* or closes, or changes nothing the promise is about.                     *)
THEOREM RelayRefinement == Spec => ImplementsPromise
<1>1. Init => Promise!Init
  BY DEF Init, Promise!Init
<1>2. Inv /\ [Next]_vars => [Promise!Next]_(Promise!vars)
  BY PromiseStep
<1> QED BY <1>1, <1>2, Inductive, PTL DEF Spec, ImplementsPromise, Promise!Spec
================================================================================
