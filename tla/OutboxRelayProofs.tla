------------------------- MODULE OutboxRelayProofs -------------------------
(***************************************************************************)
(* Theorems about OutboxRelay, for any orders, queues, relays and bounds:  *)
(* no message is lost, and each queue is one ordered channel per order     *)
(* although nothing keeps the relays from sending the same rows.           *)
(***************************************************************************)
EXTENDS OutboxRelay, SequenceTheorems, TLAPS

\* What lies between a relay's read and its mark are rows of the table.
BatchIsFromTable ==
    \A r \in Relay :
        /\ phase[r] \in {"send", "mark"} => batch[r] # <<>>
        /\ \A i \in DOMAIN batch[r] : batch[r][i] \in rows

\* A row is marked, and a message remembered, only after the queue took it.
MarkedWasSent == \A r \in Relay : phase[r] = "mark" => Accepted(Head(batch[r]))

RememberedIsAccepted == \A m \in remembered : Accepted(m)

\* Rows of an order that are still to be committed are later than its others.
OpenIsLater ==
    /\ \A x \in open \cup rows : x.at <= clock
    /\ \A x \in open, n \in rows : x.order = n.order => n.at < x.at

Before(n, m) == n.order = m.order /\ n.queue = m.queue /\ n.at < m.at

\* A relay never holds a row without the earlier ones of its channel: each of
\* them is in the queue, or stands before it in the same batch. This is why a
\* relay that is late can repeat a message but not overtake one.
BatchIsGapless ==
    \A r \in Relay : \A i \in DOMAIN batch[r] : \A n \in rows :
        Before(n, batch[r][i]) => Accepted(n) \/ \E j \in DOMAIN batch[r] : j < i /\ batch[r][j] = n

IInv ==
    /\ TypeOK /\ BatchIsFromTable /\ MarkedWasSent /\ RememberedIsAccepted
    /\ OpenIsLater /\ PublishedIsAccepted /\ BatchIsGapless
-----------------------------------------------------------------------------
(* Lemmas about the queue.                                                 *)

\* A message that is accepted is in its queue, and nothing leaves a queue.
LEMMA AcceptAdds ==
    ASSUME TypeOK, NEW m \in Row, Accept(m), RememberedIsAccepted
    PROVE  /\ queue' \in [Group -> Seq(Row)]
           /\ remembered' \subseteq Row
           /\ Accepted(m)'
           /\ \A n \in Row : Accepted(n) => Accepted(n)'
           /\ RememberedIsAccepted'
<1> DEFINE g == <<m.order, m.queue>>
<1>1. g \in Group
  BY DEF Group, Row
<1>2. queue' \in [Group -> Seq(Row)] /\ remembered' \subseteq Row
  BY <1>1 DEF TypeOK, Accept
<1>3. ASSUME NEW n \in Row, Accepted(n)
      PROVE  Accepted(n)'
  <2> DEFINE h == <<n.order, n.queue>>
  <2>1. h \in Group /\ queue[h] \in Seq(Row)
    BY DEF Group, Row, TypeOK
  <2>2. PICK k \in DOMAIN queue[h] : queue[h][k] = n
    BY <1>3 DEF Accepted
  <2>3. queue'[h] = queue[h] \/ queue'[h] = Append(queue[h], m)
    BY <2>1, <1>1 DEF TypeOK, Accept
  <2>4. k \in 1 .. Len(queue[h]) /\ Append(queue[h], m)[k] = queue[h][k]
    BY <2>1, <2>2
  <2>5. k \in DOMAIN Append(queue[h], m)
    BY <2>1, <2>4
  <2>6. k \in DOMAIN queue'[h] /\ queue'[h][k] = n
    BY <2>2, <2>3, <2>4, <2>5
  <2> QED
    BY <2>6 DEF Accepted
<1>4. Accepted(m)'
  <2>1. CASE m \in remembered
    BY <2>1, <1>3 DEF RememberedIsAccepted
  <2>2. CASE m \notin remembered
    <3>1. queue[g] \in Seq(Row) /\ queue'[g] = Append(queue[g], m)
      BY <2>2, <1>1 DEF TypeOK, Accept
    <3>2. Len(queue[g]) + 1 \in DOMAIN queue'[g] /\ queue'[g][Len(queue[g]) + 1] = m
      BY <3>1
    <3> QED
      BY <3>2 DEF Accepted
  <2> QED
    BY <2>1, <2>2
<1>5. RememberedIsAccepted'
  BY <1>3, <1>4 DEF RememberedIsAccepted, Accept, TypeOK
<1> QED
  BY <1>2, <1>3, <1>4, <1>5

\* What is left of a batch after its first row.
LEMMA RestOfBatch ==
    ASSUME NEW s \in Seq(Row), s # <<>>
    PROVE  /\ Head(s) \in Row /\ s[1] = Head(s) /\ 1 \in DOMAIN s
           /\ Tail(s) \in Seq(Row)
           /\ Len(s) # 1 => Tail(s) # <<>>
           /\ \A i \in DOMAIN Tail(s) : i + 1 \in DOMAIN s /\ Tail(s)[i] = s[i + 1]
           /\ \A i \in DOMAIN s : i # 1 => i - 1 \in DOMAIN Tail(s) /\ Tail(s)[i - 1] = s[i]
<1>1. Len(s) \in Nat /\ Len(s) > 0 /\ DOMAIN s = 1 .. Len(s)
  OBVIOUS
<1>2. Head(s) \in Row /\ s[1] = Head(s) /\ 1 \in DOMAIN s
  BY <1>1
<1>3. Tail(s) \in Seq(Row) /\ Len(Tail(s)) = Len(s) - 1 /\ DOMAIN Tail(s) = 1 .. Len(s) - 1
  <2>1. Tail(s) \in Seq(Row) /\ Len(Tail(s)) = Len(s) - 1
    BY HeadTailProperties
  <2>2. DOMAIN Tail(s) = 1 .. Len(Tail(s))
    BY <2>1
  <2> QED
    BY <2>1, <2>2
<1>4. Len(s) # 1 => Tail(s) # <<>>
  <2>1. Len(s) # 1 => Len(Tail(s)) # 0
    BY <1>1, <1>3
  <2> QED
    BY <2>1
<1>5. \A i \in DOMAIN Tail(s) : i + 1 \in DOMAIN s /\ Tail(s)[i] = s[i + 1]
  BY <1>1, <1>3, HeadTailProperties
<1>6. ASSUME NEW i \in DOMAIN s, i # 1
      PROVE  i - 1 \in DOMAIN Tail(s) /\ Tail(s)[i - 1] = s[i]
  <2>1. i - 1 \in 1 .. Len(s) - 1 /\ i = (i - 1) + 1
    BY <1>1, <1>6
  <2> QED
    BY <1>3, <1>5, <2>1
<1> QED
  BY <1>2, <1>3, <1>4, <1>5, <1>6

\* What a relay may find.
LEMMA FoundType ==
    ASSUME TypeOK, NEW s \in Sequences(BatchSize)
    PROVE  s \in Seq(Pending) /\ s \in Seq(Row) /\ s # <<>> /\ DOMAIN s = 1 .. Len(s)
<1>1. PICK k \in 1 .. BatchSize : s \in [1 .. k -> Pending]
  BY DEF Sequences
<1>2. k \in Nat /\ k > 0
  BY <1>1, OutboxAssumption
<1>3. Pending \subseteq Row
  BY DEF Pending, TypeOK
<1> QED
  BY <1>1, <1>2, <1>3

-----------------------------------------------------------------------------
(* The inductive invariant.                                                *)

LEMMA InvInit == Init => IInv
<1> SUFFICES ASSUME Init PROVE IInv
  OBVIOUS
<1>1. TypeOK
  BY DEF Init, TypeOK
<1>2. BatchIsFromTable /\ MarkedWasSent /\ BatchIsGapless
  BY DEF Init, BatchIsFromTable, MarkedWasSent, BatchIsGapless
<1>3. RememberedIsAccepted /\ PublishedIsAccepted /\ OpenIsLater
  BY DEF Init, RememberedIsAccepted, PublishedIsAccepted, OpenIsLater
<1> QED
  BY <1>1, <1>2, <1>3 DEF IInv

\* A transaction begins: its rows are later than all others.
LEMMA InvBegin ==
    ASSUME IInv, NEW o \in Order, NEW queues \in SUBSET Queue \ {{}}, Begin(o, queues)
    PROVE  IInv'
<1> DEFINE new == {[order |-> o, queue |-> q, at |-> clock + 1] : q \in queues}
<1>1. new \subseteq Row /\ open' = open \cup new /\ clock' = clock + 1 /\ clock \in Nat
  BY DEF Begin, IInv, TypeOK, Row
<1>2. UNCHANGED <<rows, published, phase, batch, queue, remembered>>
  BY DEF Begin, relayVars, queueVars
<1>3. TypeOK'
  BY <1>1, <1>2 DEF IInv, TypeOK
<1>4. OpenIsLater'
  <2>1. \A x \in new : x.at = clock + 1 /\ x.order = o
    OBVIOUS
  <2>2. \A x \in open \cup rows : x.at \in Nat /\ x.at <= clock
    BY DEF IInv, OpenIsLater, TypeOK, Row
  <2>3. \A x \in open' \cup rows' : x.at <= clock'
    BY <1>1, <1>2, <2>1, <2>2
  <2>4. ASSUME NEW x \in open', NEW n \in rows', x.order = n.order
        PROVE  n.at < x.at
    BY <1>1, <1>2, <2>1, <2>2, <2>4 DEF IInv, OpenIsLater
  <2> QED
    BY <2>3, <2>4 DEF OpenIsLater
<1>5. BatchIsFromTable' /\ MarkedWasSent' /\ RememberedIsAccepted' /\ PublishedIsAccepted' /\ BatchIsGapless'
  BY <1>2 DEF IInv, BatchIsFromTable, MarkedWasSent, RememberedIsAccepted, PublishedIsAccepted,
              BatchIsGapless, Accepted
<1> QED
  BY <1>3, <1>4, <1>5 DEF IInv

\* A transaction commits: no relay holds a later row of its order.
LEMMA InvCommit ==
    ASSUME IInv, NEW o \in Order, Commit(o)
    PROVE  IInv'
<1> DEFINE new == {x \in open : x.order = o}
<1>1. rows' = rows \cup new /\ open' = {x \in open : x.order # o} /\ clock' = clock
  BY DEF Commit
<1>2. UNCHANGED <<published, phase, batch, queue, remembered>>
  BY DEF Commit, relayVars, queueVars
<1>3. TypeOK'
  BY <1>1, <1>2 DEF IInv, TypeOK
<1>4. OpenIsLater'
  BY <1>1 DEF IInv, OpenIsLater
<1>5. BatchIsGapless'
  <2> SUFFICES ASSUME NEW r \in Relay, NEW i \in DOMAIN batch[r], NEW n \in rows', Before(n, batch[r][i])
               PROVE  Accepted(n) \/ \E j \in DOMAIN batch[r] : j < i /\ batch[r][j] = n
    <3>1. batch' = batch /\ \A n : Accepted(n)' <=> Accepted(n)
      BY <1>2 DEF Accepted
    <3> QED
      BY <3>1 DEF BatchIsGapless
  <2>1. CASE n \in rows
    BY <2>1 DEF IInv, BatchIsGapless
  <2>2. CASE n \in new
    <3>1. batch[r][i] \in rows
      BY DEF IInv, BatchIsFromTable
    <3>2. batch[r][i].at < n.at /\ batch[r][i].at \in Nat /\ n.at \in Nat
      BY <2>2, <3>1 DEF IInv, OpenIsLater, Before, TypeOK, Row
    <3> QED
      BY <3>2 DEF Before
  <2> QED
    BY <1>1, <2>1, <2>2
<1>6. BatchIsFromTable' /\ MarkedWasSent' /\ RememberedIsAccepted' /\ PublishedIsAccepted'
  BY <1>1, <1>2 DEF IInv, BatchIsFromTable, MarkedWasSent, RememberedIsAccepted, PublishedIsAccepted, Accepted
<1> QED
  BY <1>3, <1>4, <1>5, <1>6 DEF IInv

LEMMA InvRollback ==
    ASSUME IInv, NEW o \in Order, Rollback(o)
    PROVE  IInv'
<1>1. open' = {x \in open : x.order # o}
  BY DEF Rollback
<1>2. UNCHANGED <<clock, rows, published, phase, batch, queue, remembered>>
  BY DEF Rollback, relayVars, queueVars
<1>3. TypeOK' /\ OpenIsLater'
  BY <1>1, <1>2 DEF IInv, TypeOK, OpenIsLater
<1>4. BatchIsFromTable' /\ MarkedWasSent' /\ RememberedIsAccepted' /\ PublishedIsAccepted' /\ BatchIsGapless'
  BY <1>2 DEF IInv, BatchIsFromTable, MarkedWasSent, RememberedIsAccepted, PublishedIsAccepted,
              BatchIsGapless, Accepted
<1> QED
  BY <1>3, <1>4 DEF IInv

\* A relay starts, ends its cycle or stops: what it still held is forgotten,
\* and no table and no queue changes.
LEMMA InvEmptyHanded ==
    ASSUME IInv, NEW r \in Relay,
           phase' = [phase EXCEPT ![r] = "off"] \/ phase' = [phase EXCEPT ![r] = "idle"],
           batch' = [batch EXCEPT ![r] = <<>>] \/ batch' = batch,
           UNCHANGED <<tableVars, published, queueVars>>
    PROVE  IInv'
<1>1. UNCHANGED <<clock, open, rows, published, queue, remembered>>
  BY DEF tableVars, queueVars
<1>2. TypeOK'
  <2>1. batch' \in [Relay -> Seq(Row)]
    <3>1. <<>> \in Seq(Row)
      OBVIOUS
    <3> QED
      BY <3>1 DEF IInv, TypeOK
  <2>2. phase' \in [Relay -> {"off", "idle", "send", "mark"}]
    BY DEF IInv, TypeOK
  <2> QED
    BY <1>1, <2>1, <2>2 DEF IInv, TypeOK
<1>3. \A s \in Relay : phase'[s] \in {"send", "mark"} => s # r /\ phase'[s] = phase[s]
  BY DEF IInv, TypeOK
<1>4. \A s \in Relay : batch'[s] = batch[s] \/ (s = r /\ batch'[s] = <<>>)
  BY DEF IInv, TypeOK
<1>5. BatchIsFromTable'
  BY <1>1, <1>3, <1>4 DEF IInv, BatchIsFromTable
<1>6. MarkedWasSent'
  BY <1>1, <1>3, <1>4 DEF IInv, MarkedWasSent, Accepted
<1>7. BatchIsGapless'
  <2>1. \A n : Accepted(n)' <=> Accepted(n)
    BY <1>1 DEF Accepted
  <2>2. \A s \in Relay : \A i \in DOMAIN batch'[s] : batch'[s] = batch[s]
    BY <1>4
  <2> QED
    BY <1>1, <2>1, <2>2 DEF IInv, BatchIsGapless
<1>8. RememberedIsAccepted' /\ PublishedIsAccepted' /\ OpenIsLater'
  BY <1>1 DEF IInv, RememberedIsAccepted, PublishedIsAccepted, OpenIsLater, Accepted
<1> QED
  BY <1>2, <1>5, <1>6, <1>7, <1>8 DEF IInv

\* A batch holds the oldest rows that are not marked, in order; what is older
\* and not in it is marked, so it is in its queue.
LEMMA InvFindPending ==
    ASSUME IInv, NEW r \in Relay, FindPending(r)
    PROVE  IInv'
<1>1. PICK s \in Sequences(BatchSize) : IsBatch(s) /\ batch' = [batch EXCEPT ![r] = s]
  BY DEF FindPending
<1>2. s \in Seq(Pending) /\ s \in Seq(Row) /\ s # <<>> /\ DOMAIN s = 1 .. Len(s)
  BY FoundType DEF IInv
<1>3. /\ phase' = [phase EXCEPT ![r] = "send"]
      /\ UNCHANGED <<clock, open, rows, published, queue, remembered>>
  BY DEF FindPending, tableVars, queueVars
<1>4. TypeOK'
  BY <1>1, <1>2, <1>3 DEF IInv, TypeOK
<1>5. \A i \in DOMAIN s : s[i] \in rows
  BY <1>2 DEF Pending
<1>6. BatchIsFromTable'
  BY <1>1, <1>2, <1>3, <1>5 DEF IInv, TypeOK, BatchIsFromTable
<1>7. MarkedWasSent'
  BY <1>1, <1>3 DEF IInv, TypeOK, MarkedWasSent, Accepted
<1>8. ASSUME NEW i \in DOMAIN s, NEW n \in rows, Before(n, s[i])
      PROVE  Accepted(n) \/ \E j \in DOMAIN s : j < i /\ s[j] = n
  <2>1. s[i].at \in Nat /\ n.at \in Nat /\ n.at < s[i].at
    BY <1>5, <1>8 DEF IInv, TypeOK, Row, Before
  <2>2. CASE n \in published
    BY <2>2 DEF IInv, PublishedIsAccepted
  <2>3. CASE n \in Pending
    <3>1. PICK j \in DOMAIN s : s[j] = n
      BY <1>1, <2>1, <2>3 DEF IsBatch
    <3>2. j < i
      BY <1>1, <1>2, <2>1, <3>1 DEF IsBatch
    <3> QED
      BY <3>1, <3>2
  <2> QED
    BY <2>2, <2>3 DEF Pending
<1>9. BatchIsGapless'
  <2>1. \A n : Accepted(n)' <=> Accepted(n)
    BY <1>3 DEF Accepted
  <2> QED
    BY <1>1, <1>3, <1>8, <2>1 DEF IInv, TypeOK, BatchIsGapless
<1>10. RememberedIsAccepted' /\ PublishedIsAccepted' /\ OpenIsLater'
  BY <1>3 DEF IInv, RememberedIsAccepted, PublishedIsAccepted, OpenIsLater, Accepted
<1> QED
  BY <1>4, <1>6, <1>7, <1>9, <1>10 DEF IInv

\* The queue accepts the first row of a batch, whatever the relay hears of it.
LEMMA InvAccept ==
    ASSUME IInv, NEW r \in Relay, phase[r] = "send", Accept(Head(batch[r])),
           UNCHANGED <<clock, open, rows, published, batch>>,
           phase' = [phase EXCEPT ![r] = "mark"]
    PROVE  IInv'
<1> DEFINE m == Head(batch[r])
<1>1. batch[r] \in Seq(Row) /\ batch[r] # <<>> /\ m \in Row
  BY RestOfBatch DEF IInv, TypeOK, BatchIsFromTable
<1>2. /\ queue' \in [Group -> Seq(Row)]
      /\ remembered' \subseteq Row
      /\ Accepted(m)'
      /\ \A n \in Row : Accepted(n) => Accepted(n)'
      /\ RememberedIsAccepted'
  BY <1>1, AcceptAdds DEF IInv
<1>3. TypeOK'
  BY <1>2 DEF IInv, TypeOK
<1>4. BatchIsFromTable' /\ OpenIsLater'
  BY DEF IInv, TypeOK, BatchIsFromTable, OpenIsLater
<1>5. MarkedWasSent'
  <2> SUFFICES ASSUME NEW s \in Relay, phase'[s] = "mark"
               PROVE  Accepted(Head(batch[s]))'
    BY DEF MarkedWasSent
  <2>1. CASE s = r
    BY <1>2, <2>1
  <2>2. CASE s # r
    <3>1. phase[s] = "mark" /\ batch[s] # <<>> /\ batch[s] \in Seq(Row)
      BY <2>2 DEF IInv, TypeOK, BatchIsFromTable
    <3>2. Head(batch[s]) \in Row /\ Accepted(Head(batch[s]))
      BY <3>1, RestOfBatch DEF IInv, MarkedWasSent
    <3> QED
      BY <3>2, <1>2
  <2> QED
    BY <2>1, <2>2
<1>6. PublishedIsAccepted'
  BY <1>2 DEF IInv, TypeOK, PublishedIsAccepted
<1>7. BatchIsGapless'
  BY <1>2 DEF IInv, TypeOK, BatchIsGapless
<1> QED
  BY <1>2, <1>3, <1>4, <1>5, <1>6, <1>7 DEF IInv

\* The queue accepts it and the relay never hears so: its cycle ends.
LEMMA InvAnswerLost ==
    ASSUME IInv, NEW r \in Relay, AnswerLost(r)
    PROVE  IInv'
<1> DEFINE m == Head(batch[r])
<1>1. phase[r] = "send" /\ Accept(m)
  BY DEF AnswerLost
<1>2. /\ phase' = [phase EXCEPT ![r] = "idle"] /\ batch' = [batch EXCEPT ![r] = <<>>]
      /\ UNCHANGED <<clock, open, rows, published>>
  BY DEF AnswerLost, EndCycle, tableVars
<1>3. batch[r] \in Seq(Row) /\ batch[r] # <<>> /\ m \in Row
  BY <1>1, RestOfBatch DEF IInv, TypeOK, BatchIsFromTable
<1>4. /\ queue' \in [Group -> Seq(Row)]
      /\ remembered' \subseteq Row
      /\ \A n \in Row : Accepted(n) => Accepted(n)'
      /\ RememberedIsAccepted'
  BY <1>1, <1>3, AcceptAdds DEF IInv
<1>5. TypeOK'
  <2>1. <<>> \in Seq(Row)
    OBVIOUS
  <2> QED
    BY <1>2, <1>4, <2>1 DEF IInv, TypeOK
<1>6. \A s \in Relay : phase'[s] \in {"send", "mark"} => phase'[s] = phase[s] /\ batch'[s] = batch[s]
  BY <1>2 DEF IInv, TypeOK
<1>7. \A s \in Relay : batch'[s] = batch[s] \/ batch'[s] = <<>>
  BY <1>2 DEF IInv, TypeOK
<1>8. BatchIsFromTable'
  BY <1>2, <1>6, <1>7 DEF IInv, BatchIsFromTable
<1>9. MarkedWasSent'
  <2> SUFFICES ASSUME NEW s \in Relay, phase'[s] = "mark"
               PROVE  Accepted(Head(batch[s]))'
    BY <1>6 DEF MarkedWasSent
  <2>1. phase[s] = "mark" /\ batch'[s] = batch[s] /\ batch[s] # <<>> /\ batch[s] \in Seq(Row)
    BY <1>6 DEF IInv, TypeOK, BatchIsFromTable
  <2>2. Head(batch[s]) \in Row /\ Accepted(Head(batch[s]))
    BY <2>1, RestOfBatch DEF IInv, MarkedWasSent
  <2> QED
    BY <1>4, <2>1, <2>2
<1>10. PublishedIsAccepted'
  BY <1>2, <1>4 DEF IInv, TypeOK, PublishedIsAccepted
<1>11. BatchIsGapless'
  BY <1>2, <1>4, <1>7 DEF IInv, TypeOK, BatchIsGapless
<1>12. OpenIsLater'
  BY <1>2 DEF IInv, OpenIsLater
<1> QED
  BY <1>4, <1>5, <1>8, <1>9, <1>10, <1>11, <1>12 DEF IInv

\* The first row is marked and the others move up: a row that stood behind it
\* now relies on the queue.
LEMMA InvMarkPublished ==
    ASSUME IInv, NEW r \in Relay, MarkPublished(r)
    PROVE  IInv'
<1> DEFINE m == Head(batch[r])
<1>1. /\ phase[r] = "mark" /\ published' = published \cup {m}
      /\ batch' = [batch EXCEPT ![r] = Tail(batch[r])]
      /\ phase' = [phase EXCEPT ![r] = IF Len(batch[r]) = 1 THEN "idle" ELSE "send"]
      /\ UNCHANGED <<clock, open, rows, queue, remembered>>
  BY DEF MarkPublished, tableVars, queueVars
<1>2. batch[r] \in Seq(Row) /\ batch[r] # <<>>
  BY <1>1 DEF IInv, TypeOK, BatchIsFromTable
<1>3. /\ m \in Row /\ batch[r][1] = m /\ 1 \in DOMAIN batch[r]
      /\ Tail(batch[r]) \in Seq(Row)
      /\ Len(batch[r]) # 1 => Tail(batch[r]) # <<>>
      /\ \A i \in DOMAIN Tail(batch[r]) :
            i + 1 \in DOMAIN batch[r] /\ Tail(batch[r])[i] = batch[r][i + 1]
      /\ \A i \in DOMAIN batch[r] :
            i # 1 => i - 1 \in DOMAIN Tail(batch[r]) /\ Tail(batch[r])[i - 1] = batch[r][i]
  BY <1>2, RestOfBatch
<1>4. m \in rows /\ Accepted(m)
  BY <1>1, <1>3 DEF IInv, BatchIsFromTable, MarkedWasSent
<1>5. TypeOK'
  BY <1>1, <1>3, <1>4 DEF IInv, TypeOK
<1>6. batch'[r] = Tail(batch[r]) /\ \A s \in Relay : s # r => batch'[s] = batch[s] /\ phase'[s] = phase[s]
  BY <1>1 DEF IInv, TypeOK
<1>7. phase'[r] = (IF Len(batch[r]) = 1 THEN "idle" ELSE "send")
  BY <1>1 DEF IInv, TypeOK
<1>8. BatchIsFromTable'
  <2>1. \A i \in DOMAIN batch'[r] : batch'[r][i] \in rows
    BY <1>3, <1>6 DEF IInv, BatchIsFromTable
  <2>2. phase'[r] \in {"send", "mark"} => batch'[r] # <<>>
    BY <1>3, <1>6, <1>7
  <2> QED
    BY <1>1, <1>6, <2>1, <2>2 DEF IInv, BatchIsFromTable
<1>9. \A n : Accepted(n)' <=> Accepted(n)
  BY <1>1 DEF Accepted
<1>10. MarkedWasSent'
  BY <1>6, <1>7, <1>9 DEF IInv, MarkedWasSent
<1>11. PublishedIsAccepted'
  BY <1>1, <1>4, <1>9 DEF IInv, PublishedIsAccepted
<1>12. BatchIsGapless'
  <2> SUFFICES ASSUME NEW s \in Relay, NEW i \in DOMAIN batch'[s], NEW n \in rows,
                      Before(n, batch'[s][i])
               PROVE  Accepted(n) \/ \E j \in DOMAIN batch'[s] : j < i /\ batch'[s][j] = n
    BY <1>1, <1>9 DEF BatchIsGapless
  <2>1. CASE s # r
    BY <1>6, <2>1 DEF IInv, BatchIsGapless
  <2>2. CASE s = r
    <3>1. i \in Nat /\ i + 1 \in DOMAIN batch[r] /\ batch'[r][i] = batch[r][i + 1]
      <4>1. i \in DOMAIN Tail(batch[r]) /\ batch'[r][i] = Tail(batch[r])[i]
        BY <1>6, <2>2
      <4>2. i \in Nat
        BY <1>3, <4>1
      <4> QED
        BY <1>3, <4>1, <4>2
    <3>2. Accepted(n) \/ \E j \in DOMAIN batch[r] : j < i + 1 /\ batch[r][j] = n
      BY <2>2, <3>1 DEF IInv, BatchIsGapless
    <3>3. ASSUME NEW j \in DOMAIN batch[r], j < i + 1, batch[r][j] = n
          PROVE  Accepted(n) \/ \E k \in DOMAIN batch'[r] : k < i /\ batch'[r][k] = n
      <4>1. CASE j = 1
        <5>1. n = m
          BY <1>3, <3>3, <4>1
        <5> QED
          BY <1>4, <5>1
      <4>2. CASE j # 1
        <5>1. j - 1 \in DOMAIN batch'[r] /\ batch'[r][j - 1] = n
          BY <1>3, <1>6, <3>3, <4>2
        <5>2. j - 1 < i
          BY <1>2, <3>1, <3>3
        <5> QED
          BY <5>1, <5>2
      <4> QED
        BY <4>1, <4>2
    <3> QED
      BY <2>2, <3>2, <3>3
  <2> QED
    BY <2>1, <2>2
<1>13. RememberedIsAccepted' /\ OpenIsLater'
  BY <1>1, <1>9 DEF IInv, RememberedIsAccepted, OpenIsLater
<1> QED
  BY <1>5, <1>8, <1>10, <1>11, <1>12, <1>13 DEF IInv

\* The end of a deduplication window loses nothing that the invariant needs.
LEMMA InvForget ==
    ASSUME IInv, NEW m \in remembered, Forget(m)
    PROVE  IInv'
<1>1. remembered' = remembered \ {m}
  BY DEF Forget
<1>2. UNCHANGED <<clock, open, rows, published, phase, batch, queue>>
  BY DEF Forget, tableVars, relayVars
<1>3. TypeOK' /\ OpenIsLater'
  BY <1>1, <1>2 DEF IInv, TypeOK, OpenIsLater
<1>4. BatchIsFromTable' /\ MarkedWasSent' /\ RememberedIsAccepted' /\ PublishedIsAccepted' /\ BatchIsGapless'
  BY <1>1, <1>2 DEF IInv, BatchIsFromTable, MarkedWasSent, RememberedIsAccepted, PublishedIsAccepted,
                    BatchIsGapless, Accepted
<1> QED
  BY <1>3, <1>4 DEF IInv

LEMMA InvStutter ==
    ASSUME IInv, UNCHANGED vars
    PROVE  IInv'
<1>1. UNCHANGED <<clock, open, rows, published, phase, batch, queue, remembered>>
  BY DEF vars, tableVars, relayVars, queueVars
<1>2. \A n : Accepted(n)' <=> Accepted(n)
  BY <1>1 DEF Accepted
<1>3. TypeOK' /\ OpenIsLater' /\ BatchIsFromTable'
  BY <1>1 DEF IInv, TypeOK, OpenIsLater, BatchIsFromTable
<1>4. MarkedWasSent' /\ RememberedIsAccepted' /\ PublishedIsAccepted' /\ BatchIsGapless'
  BY <1>1, <1>2 DEF IInv, MarkedWasSent, RememberedIsAccepted, PublishedIsAccepted, BatchIsGapless
<1> QED
  BY <1>3, <1>4 DEF IInv

LEMMA InvNext == IInv /\ [Next]_vars => IInv'
<1> SUFFICES ASSUME IInv, [Next]_vars PROVE IInv'
  OBVIOUS
<1>1. ASSUME NEW o \in Order, NEW queues \in SUBSET Queue \ {{}}, Begin(o, queues)
      PROVE  IInv'
  BY <1>1, InvBegin
<1>2. ASSUME NEW o \in Order, Commit(o) \/ Rollback(o)
      PROVE  IInv'
  BY <1>2, InvCommit, InvRollback
<1>3. ASSUME NEW r \in Relay, Work(r)
      PROVE  IInv'
  <2>1. CASE Start(r)
    BY <2>1, InvEmptyHanded DEF Start
  <2>2. CASE FindPending(r)
    BY <2>2, InvFindPending
  <2>3. CASE Send(r)
    BY <2>3, InvAccept DEF Send, tableVars
  <2>4. CASE MarkPublished(r)
    BY <2>4, InvMarkPublished
  <2>5. CASE SendFails(r) \/ MarkFails(r) \/ Crash(r)
    BY <2>5, InvEmptyHanded DEF SendFails, MarkFails, Crash, EndCycle
  <2>6. CASE AnswerLost(r)
    BY <2>6, InvAnswerLost
  <2> QED
    BY <1>3, <2>1, <2>2, <2>3, <2>4, <2>5, <2>6 DEF Work
<1>4. ASSUME NEW m \in remembered, Forget(m)
      PROVE  IInv'
  BY <1>4, InvForget
<1>5. CASE UNCHANGED vars
  BY <1>5, InvStutter
<1> QED
  BY <1>1, <1>2, <1>3, <1>4, <1>5 DEF Next

-----------------------------------------------------------------------------
(* Theorems.                                                               *)

LEMMA Invariance == Spec => []IInv
BY InvInit, InvNext, PTL DEF Spec

\* The tables, the relays and the queues keep their types; in particular only
\* committed rows are ever marked published (markPublished).
THEOREM TypeCorrect == Spec => []TypeOK
<1>1. IInv => TypeOK
  BY DEF IInv
<1> QED
  BY <1>1, Invariance, PTL

\* No message is lost: a row marked published is in its queue, wherever the
\* relay stopped and whatever failed (PublishPendingMessagesUseCase.execute).
THEOREM PublishedCorrect == Spec => []PublishedIsAccepted
<1>1. IInv => PublishedIsAccepted
  BY DEF IInv
<1> QED
  BY <1>1, Invariance, PTL

\* A message in the mapped channel.
LEMMA MappedDelivered ==
    ASSUME NEW m
    PROVE  Commands!Delivered(m) <=> Accepted(m)
BY DEF Commands!Delivered, Commands!Channel, Accepted

LEMMA ChannelInit == Init => Commands!Init
BY DEF Init, Commands!Init, Group

\* A send delivers the next message of its channel, repeats one, or is a
\* repeat that the queue drops.
LEMMA AcceptIsDelivery ==
    ASSUME IInv, NEW r \in Relay, phase[r] = "send", Accept(Head(batch[r])), UNCHANGED rows
    PROVE  Commands!Next \/ UNCHANGED Commands!channelVars
<1> DEFINE m == Head(batch[r])
<1>1. batch[r] \in Seq(Row) /\ batch[r] # <<>>
  BY DEF IInv, TypeOK, BatchIsFromTable
<1>2. m \in Row /\ batch[r][1] = m /\ 1 \in DOMAIN batch[r]
  BY <1>1, RestOfBatch
<1>3. m \in rows
  BY <1>2 DEF IInv, BatchIsFromTable
<1>4. CASE m \in remembered
  BY <1>4 DEF Accept, Commands!channelVars
<1>5. CASE m \notin remembered
  <2>1. Commands!Put(m)
    BY <1>5 DEF Accept, Commands!Put
  <2>2. CASE Accepted(m)
    <3>1. Commands!Repeat(m)
      BY <2>1, <2>2, MappedDelivered DEF Commands!Repeat
    <3> QED
      BY <1>3, <3>1 DEF Commands!Next
  <2>3. CASE ~ Accepted(m)
    <3>1. ASSUME NEW n \in rows, Before(n, m)
          PROVE  Accepted(n)
      <4>1. Accepted(n) \/ \E j \in DOMAIN batch[r] : j < 1 /\ batch[r][j] = n
        BY <1>2, <3>1 DEF IInv, BatchIsGapless
      <4>2. \A j \in DOMAIN batch[r] : ~ (j < 1)
        BY <1>1
      <4> QED
        BY <4>1, <4>2
    <3>2. \A n \in rows : Commands!Earlier(n, m) => Commands!Delivered(n)
      BY <3>1, MappedDelivered DEF Commands!Earlier, Before
    <3>3. Commands!Deliver(m)
      BY <1>3, <2>1, <2>3, <3>2, MappedDelivered DEF Commands!Deliver
    <3> QED
      BY <1>3, <3>3 DEF Commands!Next
  <2> QED
    BY <2>2, <2>3
<1> QED
  BY <1>4, <1>5

LEMMA CommitIsRequest ==
    ASSUME IInv, NEW o \in Order, Commit(o)
    PROVE  Commands!Request
<1>1. rows' = rows \cup {x \in open : x.order = o} /\ queue' = queue
  BY DEF Commit, queueVars
<1>2. ASSUME NEW m \in rows' \ rows, NEW n \in rows
      PROVE  ~ Commands!Earlier(m, n)
  <2>1. m \in open /\ m.order = n.order => n.at < m.at
    BY <1>1 DEF IInv, OpenIsLater
  <2>2. m \in open /\ m.at \in Nat /\ n.at \in Nat
    BY <1>1 DEF IInv, TypeOK, Row
  <2> QED
    BY <2>1, <2>2 DEF Commands!Earlier
<1> QED
  BY <1>1, <1>2 DEF Commands!Request

LEMMA ChannelStep == IInv /\ [Next]_vars => [Commands!Next]_(Commands!channelVars)
<1> SUFFICES ASSUME IInv, [Next]_vars
             PROVE  Commands!Next \/ UNCHANGED Commands!channelVars
  OBVIOUS
<1>1. ASSUME NEW o \in Order, Commit(o)
      PROVE  Commands!Next
  BY <1>1, CommitIsRequest DEF Commands!Next
<1>2. ASSUME NEW r \in Relay, Send(r) \/ AnswerLost(r)
      PROVE  Commands!Next \/ UNCHANGED Commands!channelVars
  BY <1>2, AcceptIsDelivery DEF Send, AnswerLost, tableVars
<1>3. CASE UNCHANGED <<rows, queue>>
  BY <1>3 DEF Commands!channelVars
<1>4. ASSUME NEW o \in Order, NEW queues, Begin(o, queues) \/ Rollback(o)
      PROVE  UNCHANGED <<rows, queue>>
  BY <1>4 DEF Begin, Rollback, queueVars
<1>5. ASSUME NEW r \in Relay, Work(r), ~ Send(r), ~ AnswerLost(r)
      PROVE  UNCHANGED <<rows, queue>>
  BY <1>5 DEF Work, Start, FindPending, MarkPublished, SendFails, MarkFails, Crash, tableVars, queueVars
<1>6. ASSUME NEW m, Forget(m)
      PROVE  UNCHANGED <<rows, queue>>
  BY <1>6 DEF Forget, tableVars
<1>7. CASE UNCHANGED vars
  BY <1>3, <1>7 DEF vars, tableVars, queueVars
<1> QED
  BY <1>1, <1>2, <1>3, <1>4, <1>5, <1>6, <1>7 DEF Next

\* However many relays read the same rows and however late they send them, the
\* outbox and its relays are one ordered channel per order and queue, in which
\* a message may be repeated but none overtaken or skipped.
THEOREM ChannelImplemented == Spec => ImplementsChannel
BY ChannelInit, ChannelStep, Invariance, PTL DEF Spec, ImplementsChannel, Commands!Spec
=============================================================================
