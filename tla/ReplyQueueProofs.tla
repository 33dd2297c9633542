------------------------- MODULE ReplyQueueProofs -------------------------
(***************************************************************************)
(* Theorems about ReplyQueue, for any orders, replicas, batch sizes and    *)
(* limits of receives: no message is lost, and the messages of an order    *)
(* take effect once each and in order although receives overlap.           *)
(***************************************************************************)
EXTENDS ReplyQueue, FiniteSetTheorems, SequenceTheorems, TLAPS

OfOrder(o) == {m \in sent : m.order = o}

\* The messages of an order are numbered as they are sent.
NumbersAreCounts ==
    /\ IsFiniteSet(sent)
    /\ \A m \in sent : m.n <= Cardinality(OfOrder(m.order))

\* A poller that is at a message has one, and deletes it only when handled.
AtAMessage ==
    \A r \in Replica :
        /\ phase[r] \in {"handle", "delete"} => batch[r] # <<>>
        /\ phase[r] = "delete" => Current(r) \in handled

Precedes(k, m) == k.order = m.order /\ k.n < m.n

\* A poller never holds a message without the earlier ones of its order: each
\* of them is handled or given up, or stands before it in the same batch. This
\* is why a poller whose receipts expired can repeat a message but not overtake
\* one that another poller has received meanwhile.
BatchIsGapless ==
    \A r \in Replica : \A i \in DOMAIN batch[r] : \A k \in sent :
        Precedes(k, batch[r][i]) =>
            k \in handled \cup dead \/ \E j \in DOMAIN batch[r] : j < i /\ batch[r][j] = k

IInv == TypeOK /\ NumbersAreCounts /\ NothingIsLost /\ AtAMessage /\ BatchIsGapless
-----------------------------------------------------------------------------
(* Lemmas about batches.                                                   *)

LEMMA Limits == TypeOK => limit \in Nat
  BY QueueAssumption DEF TypeOK

\* A sequence of messages stays one when more are sent.
LEMMA StaysASequence ==
    ASSUME NEW S, NEW T, S \subseteq T, NEW s \in Seq(S)
    PROVE  s \in Seq(T)
<1>1. \A i \in 1 .. Len(s) : s[i] \in T
  OBVIOUS
<1>2. s \in [1 .. Len(s) -> T] /\ Len(s) \in Nat
  BY <1>1
<1> QED
  BY <1>2

\* What is left of a batch after its first message.
LEMMA RestOfBatch ==
    ASSUME NEW S, NEW s \in Seq(S), s # <<>>
    PROVE  /\ Head(s) \in S /\ s[1] = Head(s) /\ 1 \in DOMAIN s
           /\ Tail(s) \in Seq(S)
           /\ Len(s) # 1 => Tail(s) # <<>>
           /\ \A i \in DOMAIN Tail(s) : i \in Nat /\ i + 1 \in DOMAIN s /\ Tail(s)[i] = s[i + 1]
           /\ \A i \in DOMAIN s : i \in Nat /\ (i # 1 => i - 1 \in DOMAIN Tail(s) /\ Tail(s)[i - 1] = s[i])
<1>1. Len(s) \in Nat /\ Len(s) > 0 /\ DOMAIN s = 1 .. Len(s)
  OBVIOUS
<1>2. Head(s) \in S /\ s[1] = Head(s) /\ 1 \in DOMAIN s
  BY <1>1
<1>3. Tail(s) \in Seq(S) /\ Len(Tail(s)) = Len(s) - 1 /\ DOMAIN Tail(s) = 1 .. Len(s) - 1
  <2>1. Tail(s) \in Seq(S) /\ Len(Tail(s)) = Len(s) - 1
    BY HeadTailProperties
  <2>2. DOMAIN Tail(s) = 1 .. Len(Tail(s))
    BY <2>1
  <2> QED
    BY <2>1, <2>2
<1>4. Len(s) # 1 => Tail(s) # <<>>
  <2>1. Len(s) # 1 => Len(Tail(s)) # 0
    BY <1>1, <1>3
  <2> QED
    BY <2>1
<1>5. \A i \in DOMAIN Tail(s) : i \in Nat /\ i + 1 \in DOMAIN s /\ Tail(s)[i] = s[i + 1]
  BY <1>1, <1>3, HeadTailProperties
<1>6. ASSUME NEW i \in DOMAIN s
      PROVE  i \in Nat /\ (i # 1 => i - 1 \in DOMAIN Tail(s) /\ Tail(s)[i - 1] = s[i])
  <2>1. i \in Nat /\ (i # 1 => i - 1 \in 1 .. Len(s) - 1 /\ i = (i - 1) + 1)
    BY <1>1, <1>6
  <2> QED
    BY <1>3, <1>5, <2>1
<1> QED
  BY <1>2, <1>3, <1>4, <1>5, <1>6

\* A batch that is kept or dropped stays gapless.
LEMMA KeptOrDropped ==
    ASSUME IInv, sent' = sent, handled \subseteq handled', dead \subseteq dead',
           \A r \in Replica : batch'[r] \in {batch[r], <<>>}
    PROVE  BatchIsGapless'
<1> SUFFICES ASSUME NEW r \in Replica, NEW i \in DOMAIN batch'[r], NEW k \in sent,
                    Precedes(k, batch'[r][i])
             PROVE  \/ k \in handled' \cup dead'
                    \/ \E j \in DOMAIN batch'[r] : j < i /\ batch'[r][j] = k
  BY DEF BatchIsGapless, Precedes
<1>1. batch'[r] # <<>>
  OBVIOUS
<1> QED
  BY <1>1 DEF IInv, BatchIsGapless

\* A batch whose first message is handled stays gapless without it.
LEMMA RestIsGapless ==
    ASSUME IInv, sent' = sent, handled' = handled, dead' = dead,
           NEW r \in Replica, batch[r] # <<>>, Current(r) \in handled,
           batch' = [batch EXCEPT ![r] = Tail(@)]
    PROVE  BatchIsGapless'
<1> SUFFICES ASSUME NEW q \in Replica, NEW i \in DOMAIN batch'[q], NEW k \in sent,
                    Precedes(k, batch'[q][i])
             PROVE  \/ k \in handled' \cup dead'
                    \/ \E j \in DOMAIN batch'[q] : j < i /\ batch'[q][j] = k
  BY DEF BatchIsGapless, Precedes
<1>1. CASE q # r
  BY <1>1 DEF IInv, TypeOK, BatchIsGapless
<1>2. CASE q = r
  <2> DEFINE s == batch[r]
  <2>1. s \in Seq(sent) /\ batch'[q] = Tail(s)
    BY <1>2 DEF IInv, TypeOK
  <2>2. i \in Nat /\ i + 1 \in DOMAIN s /\ Tail(s)[i] = s[i + 1]
    BY <2>1, RestOfBatch
  <2>3. k \in handled \cup dead \/ \E j \in DOMAIN s : j < i + 1 /\ s[j] = k
    <3>1. Precedes(k, s[i + 1])
      BY <2>1, <2>2
    <3> QED
      BY <2>2, <3>1 DEF IInv, BatchIsGapless
  <2>4. ASSUME NEW j \in DOMAIN s, j < i + 1, s[j] = k, k \notin handled
        PROVE  \E l \in DOMAIN Tail(s) : l < i /\ Tail(s)[l] = k
    <3>1. j \in Nat /\ j # 1
      BY <2>1, <2>4, RestOfBatch DEF Current
    <3>2. j - 1 \in DOMAIN Tail(s) /\ Tail(s)[j - 1] = k /\ j - 1 < i
      BY <2>1, <2>2, <2>4, <3>1, RestOfBatch
    <3> QED
      BY <3>2
  <2> QED
    BY <2>1, <2>3, <2>4
<1> QED
  BY <1>1, <1>2

\* What a receive may take, and what it does to the queue.
LEMMA ReceivedType ==
    ASSUME TypeOK, NEW s \in Receives
    PROVE  /\ s \in Seq(waiting) /\ s \in Seq(sent) /\ s # <<>> /\ DOMAIN s = 1 .. Len(s)
           /\ \A i \in DOMAIN s : s[i] \in waiting /\ ~ Exhausted(s[i])
<1>1. PICK k \in 1 .. MaxMessages : s \in [1 .. k -> waiting]
  BY DEF Receives
<1>2. k \in Nat /\ k > 0
  BY <1>1, QueueAssumption
<1>3. IsReceive(s)
  BY DEF Receives
<1>4. s \in Seq(waiting) /\ s # <<>> /\ DOMAIN s = 1 .. Len(s)
  BY <1>1, <1>2
<1>5. s \in Seq(sent)
  BY <1>4, StaysASequence DEF TypeOK
<1> QED
  BY <1>1, <1>3, <1>4, <1>5 DEF IsReceive

LEMMA TakenType ==
    ASSUME TypeOK, NEW r \in Replica, NEW s \in Receives, TakeOut(r, s), UNCHANGED <<limit, handled>>
    PROVE  /\ UNCHANGED <<sent, waiting, dead>>
           /\ receives' \in [Message -> 0 .. limit]
           /\ inflight' \subseteq waiting \X Replica
<1> DEFINE taken == {s[i] : i \in DOMAIN s}
<1>1. taken \subseteq waiting /\ \A m \in taken : ~ Exhausted(m)
  BY ReceivedType
<1>2. UNCHANGED <<sent, waiting, dead>> /\ inflight' = inflight \cup taken \X {r}
  BY DEF TakeOut
<1>3. receives' = [m \in Message |-> IF m \in taken /\ limit # 0 THEN receives[m] + 1 ELSE receives[m]]
  BY DEF TakeOut
<1>4. \A m \in Message : m \in taken /\ limit # 0 => receives[m] + 1 \in 0 .. limit
  BY <1>1, Limits DEF Exhausted, TypeOK
<1>5. receives' \in [Message -> 0 .. limit]
  BY <1>3, <1>4, Limits DEF TypeOK
<1> QED
  BY <1>1, <1>2, <1>5 DEF TypeOK

-----------------------------------------------------------------------------
(* The inductive invariant.                                                *)

LEMMA InvInit == Init => IInv
<1> SUFFICES ASSUME Init PROVE IInv
  OBVIOUS
<1>1. TypeOK
  <2>1. \A S : <<>> \in Seq(S)
    OBVIOUS
  <2>2. limit \in Nat
    BY QueueAssumption DEF Init
  <2> QED
    BY <2>1, <2>2 DEF Init, TypeOK
<1>2. NumbersAreCounts
  BY FS_EmptySet DEF Init, NumbersAreCounts
<1> QED
  BY <1>1, <1>2 DEF IInv, Init, NothingIsLost, AtAMessage, BatchIsGapless

LEMMA InvSend ==
    ASSUME IInv, UNCHANGED limit, NEW o \in Order, NEW valid \in BOOLEAN, Send(o, valid)
    PROVE  IInv'
<1> DEFINE n == Cardinality(OfOrder(o)) + 1
           m == [order |-> o, n |-> n, valid |-> valid]
<1>1. /\ Cardinality(sent) < MaxSent
      /\ sent' = sent \cup {m} /\ waiting' = waiting \cup {m}
      /\ UNCHANGED <<receives, inflight, dead, handled, phase, batch, limit>>
  BY DEF Send, OfOrder, pollerVars
<1>2. IsFiniteSet(sent) /\ \A k \in sent : k.n <= Cardinality(OfOrder(k.order))
  BY DEF IInv, NumbersAreCounts
<1>3. \A p : /\ IsFiniteSet(OfOrder(p)) /\ Cardinality(OfOrder(p)) \in Nat
             /\ Cardinality(OfOrder(p)) <= Cardinality(sent)
  BY <1>2, FS_Subset, FS_CardinalityType DEF OfOrder
<1>4. Cardinality(sent) \in Nat /\ MaxSent \in Nat /\ n \in 1 .. MaxSent
  BY <1>1, <1>2, <1>3, FS_CardinalityType, QueueAssumption
<1>5. m \in Message
  BY <1>4 DEF Message
<1>6. \A k \in sent : k.order = o => k.n < n
  BY <1>2, <1>3 DEF IInv, TypeOK, Message
<1>7. m \notin sent
  BY <1>4, <1>6
<1>8. TypeOK'
  <2>1. \A r \in Replica : batch'[r] \in Seq(sent')
    BY <1>1, StaysASequence DEF IInv, TypeOK
  <2> QED
    BY <1>1, <1>5, <1>7, <2>1 DEF IInv, TypeOK
<1>9. NumbersAreCounts'
  <2>1. IsFiniteSet(sent')
    BY <1>1, <1>2, FS_AddElement
  <2>2. OfOrder(o)' = OfOrder(o) \cup {m} /\ m \notin OfOrder(o)
    BY <1>1, <1>7 DEF OfOrder
  <2>3. Cardinality(OfOrder(o)') = n
    BY <2>2, <1>3, FS_AddElement
  <2>4. \A p : p # o => OfOrder(p)' = OfOrder(p)
    BY <1>1 DEF OfOrder
  <2>5. ASSUME NEW k \in sent'
        PROVE  k.n <= Cardinality(OfOrder(k.order)')
    <3>1. CASE k.order # o
      BY <3>1, <1>1, <1>2, <2>4
    <3>2. CASE k.order = o
      <4>1. k = m \/ k.n < n
        BY <3>2, <1>1, <1>6
      <4>2. k \in Message
        BY <1>1, <1>5 DEF IInv, TypeOK
      <4>3. k.n \in Nat /\ k.n <= n
        BY <4>1, <4>2, <1>4 DEF Message
      <4> QED
        BY <3>2, <4>3, <2>3
    <3> QED
      BY <3>1, <3>2
  <2> QED
    BY <2>1, <2>5 DEF NumbersAreCounts, OfOrder
<1>10. NothingIsLost' /\ AtAMessage'
  BY <1>1 DEF IInv, NothingIsLost, AtAMessage, Current
<1>11. BatchIsGapless'
  <2> SUFFICES ASSUME NEW r \in Replica, NEW i \in DOMAIN batch[r], NEW k \in sent',
                      Precedes(k, batch[r][i])
               PROVE  \/ k \in handled \cup dead
                      \/ \E j \in DOMAIN batch[r] : j < i /\ batch[r][j] = k
    BY <1>1 DEF BatchIsGapless, Precedes
  <2>1. batch[r][i] \in sent
    BY DEF IInv, TypeOK
  <2>2. k # m
    BY <2>1, <1>4, <1>6 DEF Precedes, IInv, TypeOK, Message
  <2> QED
    BY <2>2, <1>1 DEF IInv, BatchIsGapless
<1> QED
  BY <1>8, <1>9, <1>10, <1>11 DEF IInv

\* Steps of the queue alone, and steps that drop a batch.
LEMMA InvQueue ==
    ASSUME IInv, UNCHANGED limit
    PROVE  /\ \A f \in inflight : Expire(f) => IInv'
           /\ \A r \in Replica, m \in waiting : Redrive(r, m) => IInv'
           /\ \A r \in Replica : Start(r) \/ ReceiveLost(r) \/ Crash(r) => IInv'
<1> USE Limits
<1>1. ASSUME NEW f \in inflight, Expire(f)
      PROVE  IInv'
  <2>1. TypeOK' /\ NumbersAreCounts' /\ NothingIsLost' /\ AtAMessage'
    BY <1>1 DEF Expire, IInv, TypeOK, NumbersAreCounts, OfOrder, NothingIsLost, AtAMessage, Current, pollerVars
  <2>2. BatchIsGapless'
    BY <1>1, KeptOrDropped DEF Expire, pollerVars
  <2> QED
    BY <2>1, <2>2 DEF IInv
<1>2. ASSUME NEW r \in Replica, NEW m \in waiting, Redrive(r, m)
      PROVE  IInv'
  <2>1. TypeOK'
    <3>1. \A f \in inflight : f[1] # m
      BY <1>2 DEF Redrive, Unlocked
    <3>2. inflight \subseteq (waiting \ {m}) \X Replica
      BY <3>1 DEF IInv, TypeOK
    <3> QED
      BY <1>2, <3>2 DEF Redrive, IInv, TypeOK, pollerVars
  <2>2. NumbersAreCounts' /\ NothingIsLost'
    BY <1>2 DEF Redrive, IInv, TypeOK, NumbersAreCounts, OfOrder, NothingIsLost, pollerVars
  <2>3. AtAMessage'
    BY <1>2 DEF Redrive, IInv, TypeOK, AtAMessage, Current, pollerVars
  <2>4. BatchIsGapless'
    BY <1>2, KeptOrDropped DEF Redrive, pollerVars
  <2> QED
    BY <2>1, <2>2, <2>3, <2>4 DEF IInv
<1>3. ASSUME NEW r \in Replica, Start(r)
      PROVE  IInv'
  <2>1. TypeOK' /\ NumbersAreCounts' /\ NothingIsLost' /\ AtAMessage'
    BY <1>3 DEF Start, IInv, TypeOK, NumbersAreCounts, OfOrder, NothingIsLost, AtAMessage, Current, queueVars
  <2>2. BatchIsGapless'
    BY <1>3, KeptOrDropped DEF Start, queueVars
  <2> QED
    BY <2>1, <2>2 DEF IInv
<1>4. ASSUME NEW r \in Replica, Crash(r)
      PROVE  IInv'
  <2>1. TypeOK'
    BY <1>4 DEF Crash, IInv, TypeOK, queueVars
  <2>2. NumbersAreCounts' /\ NothingIsLost'
    BY <1>4 DEF Crash, IInv, TypeOK, NumbersAreCounts, OfOrder, NothingIsLost, queueVars
  <2>3. AtAMessage'
    BY <1>4 DEF Crash, IInv, TypeOK, AtAMessage, Current, queueVars
  <2>4. BatchIsGapless'
    BY <1>4, KeptOrDropped DEF Crash, queueVars, IInv, TypeOK
  <2> QED
    BY <2>1, <2>2, <2>3, <2>4 DEF IInv
<1>5. ASSUME NEW r \in Replica, ReceiveLost(r)
      PROVE  IInv'
  <2>1. PICK s \in Receives : TakeOut(r, s)
    BY <1>5 DEF ReceiveLost
  <2>2. UNCHANGED <<sent, waiting, dead, handled, phase, batch, limit>>
    BY <1>5, <2>1 DEF ReceiveLost, TakeOut, pollerVars
  <2>3. TypeOK'
    BY <2>1, <2>2, TakenType DEF IInv, TypeOK
  <2>4. NumbersAreCounts' /\ NothingIsLost' /\ AtAMessage'
    BY <2>2 DEF IInv, NumbersAreCounts, OfOrder, NothingIsLost, AtAMessage, Current
  <2>5. BatchIsGapless'
    BY <2>2, KeptOrDropped
  <2> QED
    BY <2>3, <2>4, <2>5 DEF IInv
<1> QED
  BY <1>1, <1>2, <1>3, <1>4, <1>5

\* A receive takes all that waits before what it takes, and what does not wait
\* any more is handled or given up.
LEMMA InvReceive ==
    ASSUME IInv, UNCHANGED limit, NEW r \in Replica, Receive(r)
    PROVE  IInv'
<1>1. PICK s \in Receives : TakeOut(r, s) /\ batch' = [batch EXCEPT ![r] = s]
  BY DEF Receive
<1>2. UNCHANGED <<sent, waiting, dead, handled, limit>> /\ phase' = [phase EXCEPT ![r] = "handle"]
  BY <1>1 DEF Receive, TakeOut
<1>3. s \in Seq(sent) /\ s # <<>> /\ DOMAIN s = 1 .. Len(s)
  BY ReceivedType DEF IInv
<1>4. TypeOK'
  <2>1. receives' \in [Message -> 0 .. limit] /\ inflight' \subseteq waiting \X Replica
    BY <1>1, <1>2, TakenType DEF IInv
  <2> QED
    BY <1>1, <1>2, <1>3, <2>1 DEF IInv, TypeOK
<1>5. NumbersAreCounts' /\ NothingIsLost'
  BY <1>2 DEF IInv, NumbersAreCounts, OfOrder, NothingIsLost
<1>6. AtAMessage'
  BY <1>1, <1>2, <1>3 DEF IInv, TypeOK, AtAMessage, Current
<1>7. BatchIsGapless'
  <2> SUFFICES ASSUME NEW q \in Replica, NEW i \in DOMAIN batch'[q], NEW k \in sent,
                      Precedes(k, batch'[q][i])
               PROVE  \/ k \in handled \cup dead
                      \/ \E j \in DOMAIN batch'[q] : j < i /\ batch'[q][j] = k
    BY <1>2 DEF BatchIsGapless, Precedes
  <2>1. CASE q # r
    BY <2>1, <1>1 DEF IInv, TypeOK, BatchIsGapless
  <2>2. CASE q = r
    <3>1. batch'[q] = s /\ i \in DOMAIN s
      BY <2>2, <1>1 DEF IInv, TypeOK
    <3>2. k \notin waiting => k \in handled \cup dead
      BY DEF IInv, NothingIsLost
    <3>3. k \in waiting => \E j \in 1 .. i - 1 : s[j] = k
      <4>1. k \in waiting => k \in Before(s[i])
        BY <3>1 DEF Before, Precedes
      <4> QED
        BY <3>1, <4>1 DEF Receives, IsReceive
    <3>4. \A j \in 1 .. i - 1 : j \in DOMAIN s /\ j < i
      BY <3>1, <1>3
    <3> QED
      BY <3>1, <3>2, <3>3, <3>4
  <2> QED
    BY <2>1, <2>2
<1> QED
  BY <1>4, <1>5, <1>6, <1>7 DEF IInv

\* A message that is handled stays where it is until it is deleted.
LEMMA InvHandle ==
    ASSUME IInv, UNCHANGED limit, NEW r \in Replica,
           Refuse(r) \/ Handle(r) \/ HandleFails(r)
    PROVE  IInv'
<1>1. batch[r] # <<>> /\ Current(r) \in sent
  BY RestOfBatch DEF IInv, TypeOK, AtAMessage, Current, Refuse, Handle, HandleFails, Try
<1>2. UNCHANGED <<sent, waiting, receives, inflight, dead, limit>>
  BY DEF Refuse, Handle, HandleFails, queueVars
<1>3. handled \subseteq handled' /\ handled' \subseteq sent
  BY <1>1 DEF Refuse, Handle, HandleFails, IInv, TypeOK
<1>4. CASE Handle(r)
  <2>1. /\ handled' = handled \cup {Current(r)} /\ batch' = batch
        /\ phase' = [phase EXCEPT ![r] = "delete"]
    BY <1>4 DEF Handle
  <2>2. TypeOK' /\ NumbersAreCounts' /\ NothingIsLost'
    BY <1>2, <1>3, <2>1 DEF IInv, TypeOK, NumbersAreCounts, OfOrder, NothingIsLost
  <2>3. AtAMessage'
    BY <1>1, <2>1 DEF IInv, TypeOK, AtAMessage, Current
  <2>4. BatchIsGapless'
    BY <1>2, <1>3, <2>1, KeptOrDropped
  <2> QED
    BY <2>2, <2>3, <2>4 DEF IInv
<1>5. CASE Refuse(r) \/ HandleFails(r)
  <2>1. batch' = [batch EXCEPT ![r] = <<>>] /\ phase' = [phase EXCEPT ![r] = "idle"]
    BY <1>5 DEF Refuse, HandleFails, Break
  <2>2. TypeOK'
    BY <1>2, <1>3, <2>1 DEF IInv, TypeOK
  <2>3. NumbersAreCounts' /\ NothingIsLost'
    BY <1>2, <1>3 DEF IInv, NumbersAreCounts, OfOrder, NothingIsLost
  <2>4. AtAMessage'
    BY <1>3, <2>1 DEF IInv, TypeOK, AtAMessage, Current
  <2>5. BatchIsGapless'
    BY <1>2, <1>3, <2>1, KeptOrDropped DEF IInv, TypeOK
  <2> QED
    BY <2>2, <2>3, <2>4, <2>5 DEF IInv
<1> QED
  BY <1>4, <1>5

\* Only what is handled is deleted.
LEMMA InvDelete ==
    ASSUME IInv, UNCHANGED limit, NEW r \in Replica, Delete(r) \/ DeleteFails(r)
    PROVE  IInv'
<1>1. batch[r] # <<>> /\ Current(r) \in handled
  BY DEF IInv, AtAMessage, Delete, DeleteFails
<1>2. UNCHANGED <<sent, receives, dead, handled, limit>>
  BY DEF Delete, DeleteFails, Deleted, queueVars
<1>3. \/ UNCHANGED <<waiting, inflight>>
      \/ waiting' = waiting \ {Current(r)} /\ inflight' = {f \in inflight : f[1] # Current(r)}
  BY DEF Delete, DeleteFails, Deleted, queueVars
<1>4. /\ waiting' \subseteq waiting
      /\ inflight' \subseteq waiting' \X Replica
      /\ NothingIsLost'
  BY <1>1, <1>2, <1>3 DEF IInv, TypeOK, NothingIsLost
<1>5. NumbersAreCounts'
  BY <1>2 DEF IInv, NumbersAreCounts, OfOrder
<1>6. CASE DeleteFails(r)
  <2>1. batch' = [batch EXCEPT ![r] = <<>>] /\ phase' = [phase EXCEPT ![r] = "idle"]
    BY <1>6 DEF DeleteFails, Break
  <2>2. TypeOK'
    BY <1>2, <1>4, <2>1 DEF IInv, TypeOK
  <2>3. AtAMessage'
    BY <1>2, <2>1 DEF IInv, TypeOK, AtAMessage, Current
  <2>4. BatchIsGapless'
    BY <1>2, <2>1, KeptOrDropped DEF IInv, TypeOK
  <2> QED
    BY <1>4, <1>5, <2>2, <2>3, <2>4 DEF IInv
<1>7. CASE Delete(r)
  <2>1. /\ batch' = [batch EXCEPT ![r] = Tail(@)]
        /\ phase' = [phase EXCEPT ![r] = IF Len(batch[r]) = 1 THEN "idle" ELSE "handle"]
    BY <1>7 DEF Delete, GoOn
  <2>2. Tail(batch[r]) \in Seq(sent) /\ (Len(batch[r]) # 1 => Tail(batch[r]) # <<>>)
    BY <1>1, RestOfBatch DEF IInv, TypeOK
  <2>3. TypeOK'
    BY <1>2, <1>4, <2>1, <2>2 DEF IInv, TypeOK
  <2>4. AtAMessage'
    BY <1>2, <2>1, <2>2 DEF IInv, TypeOK, AtAMessage, Current
  <2>5. BatchIsGapless'
    BY <1>1, <1>2, <2>1, RestIsGapless
  <2> QED
    BY <1>4, <1>5, <2>3, <2>4, <2>5 DEF IInv
<1> QED
  BY <1>6, <1>7

LEMMA InvNext == IInv /\ [Next /\ UNCHANGED limit]_<<vars, limit>> => IInv'
<1> SUFFICES ASSUME IInv, [Next /\ UNCHANGED limit]_<<vars, limit>>
             PROVE  IInv'
  OBVIOUS
<1>1. CASE UNCHANGED <<vars, limit>>
  <2>1. TypeOK'
    BY <1>1 DEF vars, queueVars, pollerVars, IInv, TypeOK
  <2>2. NumbersAreCounts' /\ NothingIsLost' /\ AtAMessage'
    BY <1>1 DEF vars, queueVars, pollerVars, IInv, NumbersAreCounts, OfOrder,
                NothingIsLost, AtAMessage, Current
  <2>3. BatchIsGapless'
    BY <1>1, KeptOrDropped DEF vars, queueVars, pollerVars
  <2> QED
    BY <2>1, <2>2, <2>3 DEF IInv
<1>2. CASE Work /\ UNCHANGED limit
  BY <1>2, InvSend, InvQueue, InvReceive, InvHandle, InvDelete DEF Work
<1>3. CASE Fault /\ UNCHANGED limit
  BY <1>3, InvQueue, InvHandle, InvDelete DEF Fault
<1> QED
  BY <1>1, <1>2, <1>3 DEF Next

LEMMA InvAlways == Spec => []IInv
  BY InvInit, InvNext, PTL DEF Spec

-----------------------------------------------------------------------------
(* Theorems.                                                               *)

\* The queue, its pollers and its dead letters keep their types; in particular
\* no message is received more often than the limit allows.
THEOREM TypeCorrect == Spec => []TypeOK
<1>1. IInv => TypeOK
  BY DEF IInv
<1> QED
  BY <1>1, InvAlways, PTL

\* No message leaves the queue unless it was handled or given up, wherever any
\* number of pollers stop, fail or overlap.
THEOREM NothingLost == Spec => []NothingIsLost
<1>1. IInv => NothingIsLost
  BY DEF IInv
<1> QED
  BY <1>1, InvAlways, PTL

\* A poller at its first message has seen all before it settled.
LEMMA HeadIsNext ==
    ASSUME IInv, NEW r \in Replica, phase[r] = "handle"
    PROVE  Current(r) \in sent /\ Inbox!Earlier(Current(r)) \subseteq handled \cup dead
<1> DEFINE s == batch[r]
<1>1. s \in Seq(sent) /\ s # <<>>
  BY DEF IInv, TypeOK, AtAMessage
<1>2. Current(r) = s[1] /\ 1 \in DOMAIN s /\ s[1] \in sent
  BY <1>1, RestOfBatch DEF Current
<1>3. \A j \in DOMAIN s : ~ (j < 1)
  BY <1>1
<1>4. ASSUME NEW k \in sent, Precedes(k, s[1])
      PROVE  k \in handled \cup dead
  BY <1>2, <1>3, <1>4 DEF IInv, BatchIsGapless
<1> QED
  BY <1>2, <1>4 DEF Inbox!Earlier, Precedes

\* A step of the queue and its pollers is a step of the inbox, or changes
\* nothing of it.
LEMMA StepMapped ==
    ASSUME IInv, [Next /\ UNCHANGED limit]_<<vars, limit>>
    PROVE  [Inbox!Next]_(Inbox!inboxVars)
<1> USE DEF Inbox!inboxVars
<1>1. ASSUME NEW o \in Order, NEW valid \in BOOLEAN, Send(o, valid)
      PROVE  Inbox!Next
  <2> DEFINE n == Cardinality(OfOrder(o)) + 1
             m == [order |-> o, n |-> n, valid |-> valid]
  <2>1. sent' = sent \cup {m} /\ UNCHANGED <<handled, dead>>
    BY <1>1 DEF Send, OfOrder
  <2>2. Cardinality(OfOrder(o)) \in Nat
    BY FS_Subset, FS_CardinalityType DEF OfOrder, IInv, NumbersAreCounts
  <2>3. \A k \in sent : k.order = o => k.n < n
    BY <2>2 DEF IInv, NumbersAreCounts, TypeOK, Message
  <2>4. m \notin sent
    BY <2>2, <2>3
  <2> QED
    BY <2>1, <2>3, <2>4 DEF Inbox!Next, Inbox!Send
<1>2. ASSUME NEW r \in Replica, NEW m \in waiting, Redrive(r, m)
      PROVE  Inbox!Next
  <2>1. dead' = dead \cup {m} /\ UNCHANGED <<sent, handled>> /\ Before(m) = {}
    BY <1>2 DEF Redrive
  <2>2. m \in sent /\ m \notin dead
    BY DEF IInv, TypeOK
  <2>3. Inbox!Earlier(m) \subseteq handled \cup dead
    BY <2>1 DEF Inbox!Earlier, Before, IInv, NothingIsLost
  <2> QED
    BY <2>1, <2>2, <2>3 DEF Inbox!Next, Inbox!GiveUp
<1>3. ASSUME NEW r \in Replica, Handle(r) \/ HandleFails(r)
      PROVE  [Inbox!Next]_(Inbox!inboxVars)
  <2>1. /\ handled' = handled \/ handled' = handled \cup {Current(r)}
        /\ UNCHANGED <<sent, dead>> /\ Current(r).valid /\ phase[r] = "handle"
    BY <1>3 DEF Handle, HandleFails, Try, queueVars
  <2>2. Current(r) \in sent /\ Inbox!Earlier(Current(r)) \subseteq handled \cup dead
    BY <2>1, HeadIsNext
  <2> QED
    BY <2>1, <2>2 DEF Inbox!Next, Inbox!Handle
<1>4. ASSUME \/ \E f \in inflight : Expire(f)
             \/ \E r \in Replica : \/ Start(r) \/ Receive(r) \/ ReceiveLost(r) \/ Refuse(r)
                                   \/ Delete(r) \/ DeleteFails(r) \/ Crash(r)
      PROVE  UNCHANGED Inbox!inboxVars
  BY <1>4 DEF Expire, Start, Receive, ReceiveLost, TakeOut, Refuse, Delete, DeleteFails,
              Deleted, Crash, queueVars
<1>5. CASE UNCHANGED vars
  BY <1>5 DEF vars, queueVars
<1> QED
  BY <1>1, <1>2, <1>3, <1>4, <1>5 DEF Next, Work, Fault

\* The queue and its pollers implement OrderedInbox, for any number of replicas,
\* orders and receives: the messages of an order take effect once each and one
\* after the other, and one is passed over only when it was given up.
THEOREM InboxImplemented == Spec => ImplementsInbox
<1>1. Init => Inbox!Init
  BY DEF Init, Inbox!Init
<1>2. IInv /\ [Next /\ UNCHANGED limit]_<<vars, limit>> => [Inbox!Next]_(Inbox!inboxVars)
  BY StepMapped
<1> QED
  BY <1>1, <1>2, InvAlways, PTL DEF Spec, ImplementsInbox, Inbox!Spec
=============================================================================
