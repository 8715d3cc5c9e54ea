-------------------------- MODULE MsgStream_proofs --------------------------
(***************************************************************************)
(* Theorems about MsgStream, for messages of any sizes, a buffer of any    *)
(* capacity, and any number of messages, timeouts and deaths.              *)
(***************************************************************************)
EXTENDS MsgStream, SequenceTheorems, TLAPS

-----------------------------------------------------------------------------
(* Sequences of consecutive positions.                                     *)

LEMMA BytesType ==
  ASSUME NEW p \in Nat, NEW n \in Nat
  PROVE  /\ Bytes(p, n) \in Seq(Nat)
         /\ Len(Bytes(p, n)) = n
         /\ \A k \in 1 .. n : Bytes(p, n)[k] = p + k - 1
<1>1. \A k \in 1 .. n : p + k - 1 \in Nat
  OBVIOUS
<1>2. Bytes(p, n) \in [1 .. n -> Nat]
  BY <1>1 DEF Bytes
<1>3. Bytes(p, n) \in Seq(Nat)
  BY <1>2
<1>4. Len(Bytes(p, n)) = n
  BY <1>2, <1>3
<1>5. QED BY <1>3, <1>4 DEF Bytes

LEMMA BytesEqual ==
  ASSUME NEW p \in Nat, NEW n \in Nat, NEW s \in Seq(Nat), Len(s) = n,
         \A k \in 1 .. n : s[k] = p + k - 1
  PROVE  s = Bytes(p, n)
BY BytesType

LEMMA BytesEmpty == \A p \in Nat : Bytes(p, 0) = <<>>
BY BytesType

\* SubSeq on both sides of a place where a transfer stops.
LEMMA Split ==
  ASSUME NEW s \in Seq(Nat), NEW n \in 0 .. Len(s)
  PROVE  /\ First(s, n) \in Seq(Nat) /\ Len(First(s, n)) = n
         /\ \A k \in 1 .. n : First(s, n)[k] = s[k]
         /\ Rest(s, n) \in Seq(Nat) /\ Len(Rest(s, n)) = Len(s) - n
         /\ \A k \in 1 .. Len(s) - n : Rest(s, n)[k] = s[n + k]
BY DEF First, Rest

LEMMA RestElements ==
  ASSUME NEW s \in Seq(Nat), NEW n \in 0 .. Len(s), NEW t, t = Rest(s, n)
  PROVE  \A j \in DOMAIN t : n + j \in DOMAIN s /\ t[j] = s[n + j] /\ j \in Nat /\ n < n + j
<1>1. /\ t \in Seq(Nat) /\ Len(t) = Len(s) - n
      /\ \A k \in 1 .. Len(s) - n : t[k] = s[n + k]
  BY Split
<1>2. PICK len \in Nat : len = Len(s)
  BY LenProperties
<1>3. n \in 0 .. len /\ n \in Nat
  BY <1>2
<1>4. DOMAIN t = 1 .. len - n /\ DOMAIN s = 1 .. len
  BY <1>1, <1>2, LenProperties
<1>5. ASSUME NEW j \in 1 .. len - n PROVE n + j \in 1 .. len /\ j \in Nat /\ n < n + j
  BY ONLY <1>3, <1>5
<1>6. QED BY <1>1, <1>2, <1>4, <1>5

LEMMA BytesSplit ==
  ASSUME NEW p \in Nat, NEW len \in Nat, NEW n \in 0 .. len
  PROVE  /\ First(Bytes(p, len), n) = Bytes(p, n)
         /\ Rest(Bytes(p, len), n) = Bytes(p + n, len - n)
<1> DEFINE s == Bytes(p, len)
<1>1. s \in Seq(Nat) /\ Len(s) = len /\ n \in 0 .. Len(s)
  BY BytesType
<1>2. ASSUME NEW k \in 1 .. len PROVE s[k] = p + k - 1
  BY BytesType
<1> HIDE DEF s
<1>3. First(s, n) = Bytes(p, n)
  <2>1. ASSUME NEW k \in 1 .. n PROVE First(s, n)[k] = p + k - 1
    <3>1. k \in 1 .. len
      OBVIOUS
    <3>2. First(s, n)[k] = s[k]
      BY <1>1, Split
    <3>3. QED BY <3>1, <3>2, <1>2
  <2>2. First(s, n) \in Seq(Nat) /\ Len(First(s, n)) = n
    BY <1>1, Split
  <2>3. n \in Nat
    OBVIOUS
  <2>4. QED BY <2>1, <2>2, <2>3, BytesEqual
<1>4. Rest(s, n) = Bytes(p + n, len - n)
  <2>1. ASSUME NEW k \in 1 .. len - n PROVE Rest(s, n)[k] = (p + n) + k - 1
    <3>1. n + k \in 1 .. len
      OBVIOUS
    <3>2. Rest(s, n)[k] = s[n + k]
      BY <1>1, Split
    <3>3. s[n + k] = p + (n + k) - 1
      BY <3>1, <1>2
    <3>4. QED BY <3>2, <3>3
  <2>2. Rest(s, n) \in Seq(Nat) /\ Len(Rest(s, n)) = len - n
    BY <1>1, Split
  <2>3. len - n \in Nat /\ p + n \in Nat
    OBVIOUS
  <2>4. QED BY <2>1, <2>2, <2>3, BytesEqual
<1>5. QED BY <1>3, <1>4 DEF s

LEMMA BytesJoin ==
  ASSUME NEW p \in Nat, NEW a \in Nat, NEW b \in Nat
  PROVE  Bytes(p, a) \o Bytes(p + a, b) = Bytes(p, a + b)
<1> DEFINE s == Bytes(p, a)
           t == Bytes(p + a, b)
<1>1. p + a \in Nat /\ a + b \in Nat
  OBVIOUS
<1>2. s \in Seq(Nat) /\ Len(s) = a /\ t \in Seq(Nat) /\ Len(t) = b
  BY <1>1, BytesType
<1>3. ASSUME NEW k \in 1 .. a PROVE s[k] = p + k - 1
  BY BytesType
<1>4. ASSUME NEW k \in 1 .. b PROVE t[k] = (p + a) + k - 1
  BY <1>1, BytesType
<1> HIDE DEF s, t
<1>5. s \o t \in Seq(Nat) /\ Len(s \o t) = a + b
  <2>1. s \o t \in Seq(Nat) /\ Len(s \o t) = Len(s) + Len(t)
    BY ONLY <1>2, ConcatProperties
  <2>2. QED BY ONLY <1>2, <2>1
<1>6. ASSUME NEW k \in 1 .. a + b PROVE (s \o t)[k] = p + k - 1
  <2>1. CASE k <= a
    <3>1. k \in 1 .. a /\ (s \o t)[k] = s[k]
      BY <1>2, <2>1
    <3>2. QED BY <3>1, <1>3
  <2>2. CASE k > a
    <3>1. k - a \in 1 .. b
      BY <2>2
    <3>0. (s \o t)[k] = t[k - a]
      <4>1. k \in 1 .. Len(s) + Len(t) /\ ~(k <= Len(s)) /\ k - Len(s) = k - a
        BY ONLY <1>2, <2>2, <1>6
      <4>2. \A i \in 1 .. Len(s) + Len(t) : (s \o t)[i] = IF i <= Len(s) THEN s[i] ELSE t[i - Len(s)]
        BY ONLY <1>2, ConcatProperties
      <4>3. QED BY ONLY <4>1, <4>2
    <3>2. t[k - a] = (p + a) + (k - a) - 1
      BY <3>1, <1>4
    <3>3. QED BY <3>0, <3>1, <3>2
  <2>3. k <= a \/ k > a
    OBVIOUS
  <2>4. QED BY <2>1, <2>2, <2>3
<1>7. s \o t = Bytes(p, a + b)
  BY <1>1, <1>5, <1>6, BytesEqual
<1>8. QED BY <1>7 DEF s, t

\* Two equal runs of bytes that are not empty begin at the same place.
LEMMA BytesInjective ==
  ASSUME NEW p \in Nat, NEW q \in Nat, NEW n \in Nat \ {0}, Bytes(p, n) = Bytes(q, n)
  PROVE  p = q
<1>1. 1 \in 1 .. n
  OBVIOUS
<1>2. Bytes(p, n)[1] = p + 1 - 1 /\ Bytes(q, n)[1] = q + 1 - 1
  BY <1>1, BytesType
<1>3. QED BY <1>2

-----------------------------------------------------------------------------
(* Types.                                                                  *)

\* A transfer moves all that it could, or nothing.
LEMMA AllOrNothing ==
  ASSUME NEW n, NEW moved, Transfers(n, moved)
  PROVE  moved = n \/ moved = 0
BY DEF Transfers

LEMMA TransferTypes ==
  ASSUME timeouts \in Nat, NEW n, NEW moved, Transfers(n, moved)
  PROVE  timeouts' \in Nat
BY DEF Transfers

\* What is written fits into the buffer (msg_buffer::write).
LEMMA WriteFits ==
  ASSUME TypeOK, NEW n \in 0 .. Len(out), Transfers(Room(Len(out)), n)
  PROVE  /\ First(out, n) \in Seq(Nat) /\ Len(First(out, n)) = n
         /\ Rest(out, n) \in Seq(Nat) /\ Len(Rest(out, n)) = Len(out) - n
         /\ buffer \o First(out, n) \in Seq(Nat)
         /\ Len(buffer \o First(out, n)) = Len(buffer) + n
         /\ Len(buffer) + n <= Capacity
<1>1. First(out, n) \in Seq(Nat) /\ Len(First(out, n)) = n
      /\ Rest(out, n) \in Seq(Nat) /\ Len(Rest(out, n)) = Len(out) - n
  BY Split DEF TypeOK
<1>0. buffer \in Seq(Nat)
  BY DEF TypeOK
<1>2. buffer \o First(out, n) \in Seq(Nat)
      /\ Len(buffer \o First(out, n)) = Len(buffer) + n
  BY <1>0, <1>1, ConcatProperties
<1>3. Len(buffer) \in Nat /\ Len(buffer) <= Capacity /\ Capacity \in Nat
      /\ Len(out) \in Nat
  BY LayoutAssumption DEF TypeOK
<1>4. n = Room(Len(out)) \/ n = 0
  BY AllOrNothing
<1>5. Len(buffer) + n <= Capacity
  BY <1>3, <1>4 DEF Room, Min2
<1>6. QED BY <1>1, <1>2, <1>5

\* What is read was in the buffer (msg_buffer::read).
LEMMA ReadFits ==
  ASSUME TypeOK, NEW n \in 0 .. need, Transfers(Min2(need, Len(buffer)), n)
  PROVE  /\ n \in 0 .. Len(buffer)
         /\ First(buffer, n) \in Seq(Nat) /\ Len(First(buffer, n)) = n
         /\ Rest(buffer, n) \in Seq(Nat) /\ Len(Rest(buffer, n)) = Len(buffer) - n
         /\ got \o First(buffer, n) \in Seq(Nat)
         /\ Len(got \o First(buffer, n)) = Len(got) + n
<1>1. n \in 0 .. Len(buffer)
  <2>1. Len(buffer) \in Nat /\ need \in Nat
    BY DEF TypeOK
  <2>2. n = Min2(need, Len(buffer)) \/ n = 0
    BY AllOrNothing
  <2>3. QED BY <2>1, <2>2 DEF Min2
<1>2. First(buffer, n) \in Seq(Nat) /\ Len(First(buffer, n)) = n
      /\ Rest(buffer, n) \in Seq(Nat) /\ Len(Rest(buffer, n)) = Len(buffer) - n
  BY <1>1, Split DEF TypeOK
<1>0. got \in Seq(Nat)
  BY DEF TypeOK
<1>3. got \o First(buffer, n) \in Seq(Nat)
      /\ Len(got \o First(buffer, n)) = Len(got) + n
  BY <1>0, <1>2, ConcatProperties
<1>4. QED BY <1>1, <1>2, <1>3

\* Every step keeps the types, and the buffer within its capacity.
LEMMA StepTypes == TypeOK /\ [Next]_vars => TypeOK'
<1> SUFFICES ASSUME TypeOK, [Next]_vars PROVE TypeOK'
  OBVIOUS
<1> USE SizesAssumption, LayoutAssumption
<1>1. ASSUME NEW n \in Sizes, Enqueue(n) PROVE TypeOK'
  <2>1. sizeOf' \in Seq(Sizes) /\ start' \in Seq(Nat)
        /\ Len(start') = Len(sizeOf') /\ Len(sizeOf') = Len(sizeOf) + 1
    <3>1. sizeOf' = Append(sizeOf, n) /\ start' = Append(start, 0)
      BY <1>1 DEF Enqueue
    <3>2. sizeOf \in Seq(Sizes) /\ start \in Seq(Nat) /\ Len(start) = Len(sizeOf)
      BY DEF TypeOK
    <3>3. QED BY <3>1, <3>2, AppendProperties
  <2>2. Msgs \subseteq Msgs' /\ Len(sizeOf) + 1 \in Msgs'
    BY ONLY <2>1 DEF Msgs
  <2>3. queue \in Seq(Msgs')
    BY <2>2, SeqMonotonic DEF TypeOK
  <2>4. queue' \in Seq(Msgs')
    BY <1>1, <2>2, <2>3, AppendProperties DEF Enqueue
  <2>5. QED BY <1>1, <2>1, <2>4 DEF Enqueue, TypeOK, shmVars, receiverVars
<1>2. CASE SendBegin
  BY <1>2 DEF SendBegin, TypeOK, Msgs, shmVars, receiverVars, layoutVars
<1>3. CASE SendBytes
  <2>1. PICK n \in 0 .. Len(out) :
          /\ Transfers(Room(Len(out)), n)
          /\ buffer' = buffer \o First(out, n)
          /\ out' = Rest(out, n)
          /\ spc' = IF n < Len(out) THEN "idle" ELSE "loop"
    BY <1>3 DEF SendBytes
  <2>2. buffer' \in Seq(Nat) /\ Len(buffer') <= Capacity /\ out' \in Seq(Nat)
    BY <2>1, WriteFits
  <2>3. timeouts' \in Nat
    BY <2>1, TransferTypes DEF TypeOK
  <2>4. spc' \in {"idle", "loop"}
    BY <2>1
  <2>5. UNCHANGED <<queue, stuck, receiverVars, layoutVars, delivered, deaths>>
    BY <1>3 DEF SendBytes
  <2>6. QED BY <2>2, <2>3, <2>4, <2>5 DEF TypeOK, Msgs, receiverVars, layoutVars
<1>4. CASE SendNext
  <2>1. CASE queue = <<>>
    BY <1>4, <2>1 DEF SendNext, TypeOK, Msgs, shmVars, receiverVars
  <2>2. CASE queue # <<>>
    <3> DEFINE m == Head(queue)
               total == HeaderSize + sizeOf[m]
    <3>1. m \in Msgs /\ queue' \in Seq(Msgs)
      <4>1. queue \in Seq(Msgs) /\ queue' = Tail(queue)
        BY <1>4, <2>2 DEF SendNext, TypeOK
      <4>2. QED BY <2>2, <4>1, HeadTailProperties
    <3>2. sizeOf[m] \in Nat
      BY <3>1, ElementOfSeq DEF TypeOK, Msgs
    <3>3. total \in Nat /\ produced + 1 \in Nat /\ produced \in Nat
      <4>1. produced \in Nat
        BY DEF TypeOK
      <4>2. HeaderSize \in Nat
        OBVIOUS
      <4> HIDE DEF m
      <4>3. QED BY <3>2, <4>1, <4>2
    <3>4. out' = Bytes(produced + 1, total) /\ produced' = produced + total
          /\ start' = [start EXCEPT ![m] = produced + 1] /\ spc' = spc
      BY <1>4, <2>2 DEF SendNext
    <3>5. UNCHANGED <<shmVars, receiverVars, sizeOf, delivered, timeouts, deaths>>
      BY <1>4 DEF SendNext
    <3> HIDE DEF total, m
    <3>6. out' \in Seq(Nat) /\ produced' \in Nat
      BY <3>3, <3>4, BytesType
    <3>7. start' \in Seq(Nat) /\ Len(start') = Len(start)
      BY <3>1, <3>3, <3>4, ExceptSeq DEF TypeOK, Msgs
    <3>8. QED BY <3>1, <3>4, <3>5, <3>6, <3>7 DEF TypeOK, Msgs, shmVars, receiverVars
  <2>3. QED BY <2>1, <2>2
<1>5. CASE ReceiveBegin
  BY <1>5 DEF ReceiveBegin, TypeOK, Msgs, senderVars, shmVars, layoutVars
<1>6. CASE ReceiveSetup
  BY <1>6 DEF ReceiveSetup, TypeOK, Msgs, senderVars, shmVars, layoutVars
<1>7. CASE ReceiveBytes
  <2> DEFINE bytes(n) == got \o First(buffer, n)
  <2>1. PICK n \in 0 .. need :
          /\ Transfers(Min2(need, Len(buffer)), n)
          /\ buffer' = Rest(buffer, n)
          /\ CASE n < need -> /\ rpc' = "idle" /\ got' = bytes(n) /\ need' = need - n
                              /\ UNCHANGED <<size, delivered>>
               [] n = need /\ size = 0 -> AcceptHeader(bytes(n))
               [] n = need /\ size # 0 -> AcceptBody(bytes(n))
    BY <1>7 DEF ReceiveBytes
  <2>2. UNCHANGED <<senderVars, stuck, layoutVars, deaths>>
    BY <1>7 DEF ReceiveBytes
  <2>0. /\ n < need => /\ rpc' = "idle" /\ got' = bytes(n) /\ need' = need - n
                       /\ UNCHANGED <<size, delivered>>
        /\ n = need /\ size = 0 => AcceptHeader(bytes(n))
        /\ n = need /\ size # 0 => AcceptBody(bytes(n))
    <3> HIDE DEF bytes
    <3>1. need \in Nat /\ (n < need => n # need)
      BY DEF TypeOK
    <3>2. QED BY <2>1, <3>1
  <2>3. buffer' \in Seq(Nat) /\ Len(buffer') <= Capacity /\ bytes(n) \in Seq(Nat)
    <3>1. n \in 0 .. Len(buffer) /\ buffer' \in Seq(Nat)
          /\ Len(buffer') = Len(buffer) - n /\ bytes(n) \in Seq(Nat)
      BY <2>1, ReadFits
    <3>2. QED BY <3>1 DEF TypeOK
  <2>4. timeouts' \in Nat
    BY <2>1, TransferTypes DEF TypeOK
  <2>5. /\ rpc' \in {"idle", "loop", "lost"} /\ got' \in Seq(Nat)
        /\ need' \in Nat /\ size' \in Sizes \union {0} /\ delivered' \in Seq(Nat)
    <3> HIDE DEF bytes
    <3>0. need \in Nat /\ n \in Nat /\ n <= need /\ rpc \in {"idle", "loop", "lost"}
          /\ size \in Sizes \union {0} /\ got \in Seq(Nat) /\ delivered \in Seq(Nat)
      BY DEF TypeOK
    <3>1. CASE n < need
      <4>1. rpc' = "idle" /\ got' = bytes(n) /\ need' = need - n
            /\ UNCHANGED <<size, delivered>>
        BY <2>0, <3>1
      <4>2. QED BY <4>1, <3>0, <3>1, <2>3
    <3>2. CASE n = need /\ size = 0
      <4>1. AcceptHeader(bytes(n))
        BY <2>0, <3>2
      <4>2. CASE Lose
        BY <3>0, <4>2 DEF Lose
      <4>3. CASE \E m \in Msgs :
                   /\ HasHeader(m, bytes(n))
                   /\ size' = sizeOf[m] /\ need' = sizeOf[m] /\ got' = <<>>
                   /\ UNCHANGED <<rpc, delivered>>
        <5>1. PICK m \in Msgs : size' = sizeOf[m] /\ need' = sizeOf[m] /\ got' = <<>>
                                /\ UNCHANGED <<rpc, delivered>>
          BY <4>3
        <5>2. sizeOf[m] \in Sizes
          BY ElementOfSeq DEF TypeOK, Msgs
        <5>3. sizeOf[m] \in Nat /\ <<>> \in Seq(Nat)
          BY <5>2, EmptySeq
        <5>4. QED BY <3>0, <5>1, <5>2, <5>3
      <4>4. QED BY <4>1, <4>2, <4>3 DEF AcceptHeader
    <3>3. CASE n = need /\ size # 0
      <4>1. AcceptBody(bytes(n))
        BY <2>0, <3>3
      <4>2. CASE Lose
        BY <3>0, <4>2 DEF Lose
      <4>3. CASE \E m \in Msgs :
                   /\ HasBody(m, bytes(n))
                   /\ delivered' = Append(delivered, m)
                   /\ size' = 0 /\ need' = 0 /\ got' = bytes(n)
                   /\ UNCHANGED rpc
        <5>1. PICK m \in Msgs : delivered' = Append(delivered, m)
                                /\ size' = 0 /\ need' = 0 /\ got' = bytes(n)
                                /\ UNCHANGED rpc
          BY <4>3
        <5>2. m \in Nat
          BY DEF Msgs, TypeOK
        <5>3. delivered' \in Seq(Nat)
          BY <3>0, <5>1, <5>2
        <5>4. QED BY <2>3, <3>0, <5>1, <5>3
      <4>4. QED BY <4>1, <4>2, <4>3 DEF AcceptBody
    <3>4. n < need \/ n = need
      BY <3>0
    <3>5. QED BY <3>1, <3>2, <3>3, <3>4
  <2>6. QED BY <2>2, <2>3, <2>4, <2>5 DEF TypeOK, Msgs, senderVars, layoutVars
<1>8. CASE SenderDies
  <2>1. <<>> \in Seq(Msgs) /\ <<>> \in Seq(Nat)
    BY EmptySeq
  <2>2. stuck' \in BOOLEAN /\ deaths' \in Nat
    <3>1. deaths' = deaths + 1 /\ deaths \in Nat /\ stuck \in BOOLEAN
      BY <1>8 DEF SenderDies, Dies, TypeOK
    <3>2. stuck' = stuck \/ stuck' = TRUE
      BY <1>8 DEF SenderDies, Dies
    <3>3. deaths' \in Nat
      BY <3>1
    <3>4. stuck' \in BOOLEAN
      BY <3>1, <3>2
    <3>5. QED BY <3>3, <3>4
  <2>3. QED BY <1>8, <2>1, <2>2 DEF SenderDies, Dies, TypeOK, Msgs, receiverVars, layoutVars
<1>9. CASE ReceiverDies
  <2>1. <<>> \in Seq(Nat)
    BY EmptySeq
  <2>2. stuck' \in BOOLEAN /\ deaths' \in Nat
    <3>1. deaths' = deaths + 1 /\ deaths \in Nat /\ stuck \in BOOLEAN
      BY <1>9 DEF ReceiverDies, Dies, TypeOK
    <3>2. stuck' = stuck \/ stuck' = TRUE
      BY <1>9 DEF ReceiverDies, Dies
    <3>3. deaths' \in Nat
      BY <3>1
    <3>4. stuck' \in BOOLEAN
      BY <3>1, <3>2
    <3>5. QED BY <3>3, <3>4
  <2>3. QED BY <1>9, <2>1, <2>2 DEF ReceiverDies, Dies, TypeOK, Msgs, senderVars, layoutVars
<1>10. CASE UNCHANGED vars
  BY <1>10 DEF vars, TypeOK, Msgs, senderVars, shmVars, receiverVars, layoutVars
<1>11. QED
  BY <1>1, <1>2, <1>3, <1>4, <1>5, <1>6, <1>7, <1>8, <1>9, <1>10
  DEF Next, Send, Receive

\* Every variable keeps its type, and the shared buffer is never overrun: its
\* bytes_ never hold more than MSG_BUFFER_SIZE of them.
THEOREM TypeCorrect == Spec => []TypeOK
<1>1. Init => TypeOK
  <2>1. \A S : <<>> \in Seq(S) /\ Len(<<>>) = 0
    BY EmptySeq
  <2>2. Init => stuck \in BOOLEAN
    BY DEF Init
  <2>3. Init => Len(buffer) <= Capacity
    BY <2>1, LayoutAssumption DEF Init
  <2>4. Init => Len(start) = Len(sizeOf)
    BY DEF Init
  <2>5. QED BY <2>1, <2>2, <2>3, <2>4 DEF Init, TypeOK
<1>2. QED BY <1>1, StepTypes, PTL DEF Spec

-----------------------------------------------------------------------------
(* Where the messages are.                                                 *)

\* The positions that the layout speaks of are numbers.
LEMMA LayoutType ==
  ASSUME TypeOK, LaidOut
  PROVE  /\ Serialized \in 0 .. Len(sizeOf) /\ Len(sizeOf) \in Nat
         /\ \A m \in 1 .. Serialized :
              m \in Msgs /\ start[m] \in Nat /\ sizeOf[m] \in Sizes
              /\ sizeOf[m] \in Nat \ {0} /\ End(m) \in Nat /\ start[m] <= End(m)
<1>1. Serialized \in 0 .. Len(sizeOf) /\ Len(sizeOf) \in Nat
  BY DEF LaidOut, TypeOK
<1>2. ASSUME NEW m \in 1 .. Serialized
      PROVE  m \in Msgs /\ start[m] \in Nat /\ sizeOf[m] \in Sizes
             /\ sizeOf[m] \in Nat \ {0} /\ End(m) \in Nat /\ start[m] <= End(m)
  <2>1. m \in 1 .. Len(sizeOf)
    BY <1>1
  <2>2. m \in 1 .. Len(start)
    BY <2>1 DEF TypeOK
  <2>3. start[m] \in Nat /\ sizeOf[m] \in Sizes
    BY <2>1, <2>2, ElementOfSeq DEF TypeOK
  <2>4. sizeOf[m] \in Nat \ {0}
    BY <2>3, SizesAssumption
  <2>5. End(m) \in Nat /\ start[m] <= End(m)
    BY <2>3, <2>4, LayoutAssumption DEF End
  <2>6. QED BY <2>1, <2>3, <2>4, <2>5 DEF Msgs
<1>3. QED BY <1>1, <1>2

\* No two messages begin at the same place, and only serialized ones have one.
LEMMA StartsDiffer ==
  ASSUME TypeOK, LaidOut, NEW m \in Msgs, NEW l \in 1 .. Serialized,
         start[m] = start[l], start[m] # 0
  PROVE  m = l
<1>1. m \in 1 .. Serialized
  <2>1. m \in Nat \ {0} /\ m <= Serialized
    <3>1. m \in Nat \ {0}
      BY DEF Msgs, TypeOK
    <3>2. start[m] # 0 <=> m <= Serialized
      BY DEF LaidOut
    <3>3. start[m] # 0
      OBVIOUS
    <3>4. QED BY ONLY <3>1, <3>2, <3>3
  <2>2. Serialized \in Nat
    BY LayoutType
  <2>3. QED BY <2>1, <2>2
<1>2. ASSUME NEW a \in 1 .. Serialized, NEW b \in 1 .. Serialized, a < b
      PROVE  start[a] # start[b]
  <2>1. End(a) < start[b]
    <3>1. a \in 1 .. b - 1
      BY <1>2
    <3>2. QED BY <3>1 DEF LaidOut
  <2>2. start[a] \in Nat /\ End(a) \in Nat /\ start[b] \in Nat /\ start[a] <= End(a)
    BY LayoutType
  <2>3. QED BY <2>1, <2>2
<1>3. m < l \/ l < m \/ m = l
  <2>1. m \in Int /\ l \in Int
    BY <1>1
  <2>2. QED BY <2>1
<1>4. QED BY <1>1, <1>2, <1>3

\* What holds of a stream that nobody has died on.
Conserved == rpc # "lost" /\ LaidOut /\ InStream

\* The receiver is within what has been serialized.
LEMMA WhereType ==
  ASSUME TypeOK, Conserved
  PROVE  /\ Len(delivered) \in 0 .. Serialized
         /\ Base \in Nat /\ Taken \in Nat
         /\ Len(buffer) \in Nat /\ Len(out) \in Nat /\ Len(got) \in Nat
<1>0. Len(buffer) \in Nat /\ Len(out) \in Nat /\ Len(got) \in Nat
      /\ Len(delivered) \in Nat /\ need \in Nat
  BY DEF TypeOK
<1>1. Len(delivered) \in 0 .. Serialized
  <2>1. Len(delivered) <= Serialized /\ Serialized \in Nat
    BY LayoutType DEF Conserved, InStream
  <2>2. QED BY <1>0, <2>1
<1>2. Base \in Nat
  <2>1. CASE delivered = <<>>
    BY <2>1 DEF Base
  <2>2. CASE delivered # <<>>
    <3>1. Len(delivered) \in 1 .. Serialized
      <4>1. Len(delivered) # 0
        BY <2>2, EmptySeq DEF TypeOK
      <4>2. QED BY <4>1, <1>1
    <3>2. QED BY <2>2, <3>1, LayoutType DEF Base, Conserved
  <2>3. QED BY <2>1, <2>2
<1>3. Taken \in Nat
  <2>1. HeaderSize \in Nat
    BY LayoutAssumption
  <2>2. CASE need = 0
    BY <2>2, <1>2 DEF Taken
  <2>3. CASE need > 0 /\ size = 0
    BY <2>3, <1>0, <1>2 DEF Taken
  <2>4. CASE need > 0 /\ size # 0
    BY <2>4, <1>0, <1>2, <2>1 DEF Taken
  <2>5. QED BY <1>0, <2>2, <2>3, <2>4
<1>4. QED BY <1>0, <1>1, <1>2, <1>3

\* If more bytes have been serialized than are delivered, the next message begins
\* right behind the last one delivered.
LEMMA NextMessage ==
  ASSUME TypeOK, Conserved, Base < produced
  PROVE  /\ Len(delivered) + 1 \in 1 .. Serialized
         /\ start[Len(delivered) + 1] = Base + 1
<1> DEFINE d == Len(delivered)
<1>1. d \in 0 .. Serialized /\ Base \in Nat /\ Serialized \in Nat
  BY WhereType, LayoutType DEF Conserved
<1>2. delivered = <<>> <=> d = 0
  BY EmptySeq DEF TypeOK
<1>3. d # Serialized
  <2>1. produced = IF Serialized = 0 THEN 0 ELSE End(Serialized)
    BY DEF Conserved, LaidOut
  <2>2. d = Serialized => Base = produced
    BY <1>2, <2>1 DEF Base
  <2>3. QED BY <1>1, <2>2
<1>4. d + 1 \in 1 .. Serialized
  BY <1>1, <1>3
<1>5. start[d + 1] = IF d + 1 = 1 THEN 1 ELSE End((d + 1) - 1) + 1
  BY <1>4 DEF Conserved, LaidOut
<1>6. (d + 1) - 1 = d /\ (d + 1 = 1 <=> d = 0)
  BY <1>1
<1>7. QED BY <1>2, <1>4, <1>5, <1>6 DEF Base

-----------------------------------------------------------------------------
(* Each step keeps the stream in order.                                    *)

\* A step that serializes nothing and delivers nothing leaves the places alone.
LEMMA SameLayout ==
  ASSUME UNCHANGED <<queue, layoutVars>>
  PROVE  /\ Serialized' = Serialized
         /\ \A m : End(m)' = End(m)
         /\ delivered' = delivered => Base' = Base
         /\ LaidOut => LaidOut'
<1>1. Serialized' = Serialized
  BY DEF Serialized, layoutVars
<1>2. \A m : End(m)' = End(m)
  BY DEF End, layoutVars
<1>3. delivered' = delivered => Base' = Base
  BY DEF Base, End, layoutVars
<1>4. LaidOut => LaidOut'
  BY DEF LaidOut, Serialized, End, Msgs, layoutVars
<1>5. QED BY <1>1, <1>2, <1>3, <1>4

\* A step that leaves the whole stream alone.
LEMMA SameStream ==
  ASSUME Conserved, rpc' # "lost",
         UNCHANGED <<queue, out, buffer, got, need, size, layoutVars, delivered>>
  PROVE  Conserved'
<1>1. LaidOut'
  BY SameLayout DEF Conserved
<1>2. InStream'
  BY DEF Conserved, InStream, Taken, Base, End, Serialized, layoutVars
<1>3. QED BY <1>1, <1>2 DEF Conserved

LEMMA EnqueueConserves ==
  ASSUME TypeOK, TypeOK', Conserved, NEW n \in Sizes, Enqueue(n)
  PROVE  Conserved'
<1>1. /\ sizeOf' = Append(sizeOf, n) /\ start' = Append(start, 0)
      /\ queue' = Append(queue, Len(sizeOf) + 1) /\ produced' = produced
      /\ UNCHANGED <<out, buffer, rpc, got, need, size, delivered>>
  BY DEF Enqueue, shmVars, receiverVars
<1>2. /\ sizeOf \in Seq(Sizes) /\ start \in Seq(Nat) /\ Len(start) = Len(sizeOf)
      /\ queue \in Seq(Msgs) /\ Len(sizeOf) \in Nat /\ Len(queue) \in Nat
  <2>1. sizeOf \in Seq(Sizes) /\ start \in Seq(Nat) /\ Len(start) = Len(sizeOf) /\ queue \in Seq(Msgs)
    BY DEF TypeOK
  <2>2. QED BY ONLY <2>1, LenProperties
<1>3. LaidOut /\ InStream
  BY DEF Conserved
<1>4. /\ Len(sizeOf') = Len(sizeOf) + 1 /\ Len(queue') = Len(queue) + 1
      /\ \A m \in 1 .. Len(sizeOf) : sizeOf'[m] = sizeOf[m] /\ start'[m] = start[m]
      /\ start'[Len(sizeOf) + 1] = 0
      /\ \A k \in 1 .. Len(queue) : queue'[k] = queue[k]
      /\ queue'[Len(queue) + 1] = Len(sizeOf) + 1
  BY <1>1, <1>2, AppendProperties
<1>5. Serialized' = Serialized /\ Serialized \in 0 .. Len(sizeOf)
  BY <1>2, <1>3, <1>4, LayoutType DEF Serialized
<1>6. \A m \in 1 .. Serialized :
        /\ sizeOf'[m] = sizeOf[m] /\ start'[m] = start[m] /\ End(m)' = End(m)
        /\ m \in 1 .. Len(sizeOf)
  BY <1>4, <1>5 DEF End
<1>7. queue' = Bytes(Serialized' + 1, Len(queue'))
  <2>1. queue = Bytes(Serialized + 1, Len(queue)) /\ Serialized + 1 \in Nat
    BY <1>3, <1>5 DEF LaidOut
  <2>2. \A k \in 1 .. Len(queue) : queue[k] = Serialized + 1 + k - 1
    BY <1>2, <2>1, BytesType, ZenonT(40)
  <2>3. ASSUME NEW k \in 1 .. Len(queue') PROVE queue'[k] = Serialized + 1 + k - 1
    <3>1. CASE k = Len(queue) + 1
      BY <1>2, <1>4, <1>5, <3>1 DEF Serialized
    <3>2. CASE k \in 1 .. Len(queue)
      BY <1>4, <2>2, <3>2
    <3>3. QED BY <1>2, <1>4, <3>1, <3>2
  <2>4. queue' \in Seq(Nat)
    <3>1. queue' \in Seq(Msgs') /\ Len(sizeOf') \in Nat
      BY DEF TypeOK
    <3>2. Msgs' \subseteq Nat
      BY <3>1 DEF Msgs
    <3>3. QED BY <3>1, <3>2, SeqMonotonic
  <2>5. Len(queue') \in Nat
    BY <1>2, <1>4
  <2>6. QED BY <1>5, <2>1, <2>3, <2>4, <2>5, BytesEqual
<1>8. \A m \in Msgs' : start'[m] # 0 <=> m <= Serialized'
  <2>1. \A m \in 1 .. Len(sizeOf) : start[m] # 0 <=> m <= Serialized
    BY <1>3 DEF LaidOut, Msgs
  <2>2. ASSUME NEW m \in Msgs' PROVE m \in 1 .. Len(sizeOf) \/ m = Len(sizeOf) + 1
    <3>1. m \in 1 .. Len(sizeOf')
      BY DEF Msgs
    <3>2. Len(sizeOf') = Len(sizeOf) + 1 /\ Len(sizeOf) \in Nat
      BY <1>2, <1>4
    <3> HIDE DEF Msgs
    <3>3. m \in 1 .. Len(sizeOf) + 1
      BY <3>1, <3>2
    <3>4. QED BY <3>2, <3>3
  <2>3. ~(Len(sizeOf) + 1 <= Serialized)
    BY <1>2, <1>5
  <2>4. QED BY <1>4, <1>5, <2>1, <2>2, <2>3
<1>9. ASSUME NEW m \in 1 .. Serialized'
      PROVE  /\ start'[m] = IF m = 1 THEN 1 ELSE End(m - 1)' + 1
             /\ \A l \in 1 .. m - 1 : End(l)' < start'[m]
  <2>1. m \in 1 .. Serialized
    BY <1>5
  <2>2. \A l \in 1 .. m - 1 : l \in 1 .. Serialized
    BY <1>5, <2>1
  <2>3. m # 1 => m - 1 \in 1 .. Serialized
    BY <1>5, <2>1
  <2>4. /\ start[m] = IF m = 1 THEN 1 ELSE End(m - 1) + 1
        /\ \A l \in 1 .. m - 1 : End(l) < start[m]
    BY <1>3, <2>1 DEF LaidOut
  <2>5. start'[m] = start[m]
    BY <1>6, <2>1
  <2>6. m # 1 => End(m - 1)' = End(m - 1)
    BY <1>6, <2>3
  <2>7. \A l \in 1 .. m - 1 : End(l)' = End(l)
    BY <1>6, <2>2
  <2>8. QED BY <2>4, <2>5, <2>6, <2>7
<1>10. produced' = IF Serialized' = 0 THEN 0 ELSE End(Serialized)'
  <2>1. Serialized # 0 => Serialized \in 1 .. Serialized
    BY <1>5
  <2>2. QED BY <1>1, <1>3, <1>5, <1>6, <2>1 DEF LaidOut
<1>11. LaidOut'
  BY <1>2, <1>4, <1>5, <1>7, <1>8, <1>9, <1>10 DEF LaidOut
<1>12. Base' = Base /\ Taken' = Taken
  <2>1. delivered # <<>> => Len(delivered) \in 1 .. Serialized
    <3>1. delivered # <<>> => Len(delivered) # 0
      BY EmptySeq DEF TypeOK
    <3>2. QED BY <3>1, WhereType
  <2>2. Base' = Base
    BY <1>1, <1>6, <2>1 DEF Base
  <2>3. QED BY <1>1, <2>2 DEF Taken
<1>13. InStream'
  <2>1. Len(delivered) < Serialized => sizeOf'[Len(delivered) + 1] = sizeOf[Len(delivered) + 1]
    <3>1. Len(delivered) < Serialized => Len(delivered) + 1 \in 1 .. Serialized
      BY <1>5, WhereType
    <3>2. QED BY <1>6, <3>1
  <2>2. QED BY <1>1, <1>3, <1>5, <1>12, <2>1 DEF InStream
<1>14. QED BY <1>1, <1>11, <1>13 DEF Conserved

\* The message at the front of the queue is laid out behind all others.
LEMMA SendNextConserves ==
  ASSUME TypeOK, TypeOK', Conserved, SendNext, queue # <<>>
  PROVE  Conserved'
<1>0. PICK m \in Msgs : m = Head(queue)
  BY HeadTailProperties DEF TypeOK
<1> DEFINE total == HeaderSize + sizeOf[m]
<1>1. /\ out = <<>> /\ out' = Bytes(produced + 1, total) /\ queue' = Tail(queue)
      /\ start' = [start EXCEPT ![m] = produced + 1] /\ produced' = produced + total
      /\ UNCHANGED <<buffer, rpc, got, need, size, sizeOf, delivered>>
  BY <1>0 DEF SendNext, shmVars, receiverVars
<1>2. /\ sizeOf \in Seq(Sizes) /\ start \in Seq(Nat) /\ Len(start) = Len(sizeOf)
      /\ queue \in Seq(Msgs) /\ Len(sizeOf) \in Nat /\ produced \in Nat
  BY DEF TypeOK
<1>3. LaidOut /\ InStream
  BY DEF Conserved
<1>4. /\ Len(queue) \in Nat \ {0} /\ Len(queue') = Len(queue) - 1
      /\ \A k \in 1 .. Len(queue') : queue'[k] = queue[k + 1]
      /\ m = queue[1]
  BY <1>0, <1>1, <1>2, EmptySeq, HeadTailProperties
<1>5. Serialized \in 0 .. Len(sizeOf) /\ Serialized' = Serialized + 1
      /\ Serialized < Len(sizeOf)
  <2>1. Serialized \in 0 .. Len(sizeOf)
    BY <1>3, LayoutType
  <2>2. QED BY <1>1, <1>2, <1>4, <2>1 DEF Serialized
<1>6. \A k \in 1 .. Len(queue) : queue[k] = Serialized + 1 + k - 1
  <2>1. queue = Bytes(Serialized + 1, Len(queue)) /\ Serialized + 1 \in Nat
    BY <1>3, <1>5 DEF LaidOut
  <2>2. Len(queue) \in Nat
    BY <1>4
  <2>3. \A k \in 1 .. Len(queue) :
          Bytes(Serialized + 1, Len(queue))[k] = Serialized + 1 + k - 1
    BY <2>1, <2>2, BytesType
  <2>4. QED BY <2>1, <2>3
<1>7. m = Serialized + 1 /\ m \in 1 .. Len(sizeOf)
  <2>1. 1 \in 1 .. Len(queue)
    BY <1>4
  <2>2. queue[1] = Serialized + 1 + 1 - 1
    BY <1>6, <2>1
  <2>3. QED BY <1>4, <1>5, <2>2
<1>8. sizeOf[m] \in Nat \ {0} /\ total \in Nat /\ HeaderSize \in Nat \ {0}
  <2>1. sizeOf[m] \in Sizes
    BY <1>2, <1>7, ElementOfSeq
  <2>2. sizeOf[m] \in Nat \ {0}
    BY <2>1, SizesAssumption
  <2>3. HeaderSize \in Nat \ {0}
    BY LayoutAssumption
  <2>4. QED BY <2>2, <2>3
<1>9. /\ start'[m] = produced + 1
      /\ \A l \in 1 .. Len(sizeOf) : l # m => start'[l] = start[l]
  BY <1>1, <1>2, <1>7
<1>10. End(m)' = produced'
  <2>1. start'[m] = produced + 1 /\ sizeOf'[m] = sizeOf[m]
    BY <1>1, <1>9
  <2>2. sizeOf[m] \in Nat /\ HeaderSize \in Nat /\ produced \in Nat
    BY <1>2, <1>8
  <2>3. End(m)' = (produced + 1) + HeaderSize + sizeOf[m] - 1
    BY <2>1 DEF End
  <2>4. produced' = produced + (HeaderSize + sizeOf[m])
    BY <1>1
  <2>5. QED BY <2>2, <2>3, <2>4
<1>11. \A l \in 1 .. Serialized :
         /\ start'[l] = start[l] /\ End(l)' = End(l) /\ l \in 1 .. Len(sizeOf)
         /\ End(l) \in Nat /\ start[l] \in Nat /\ start[l] <= End(l)
  <2>1. ASSUME NEW l \in 1 .. Serialized
        PROVE  l # m /\ l \in 1 .. Len(sizeOf)
    BY <1>5, <1>7
  <2>2. QED BY <1>1, <1>3, <1>9, <2>1, LayoutType DEF End
<1>12. queue' = Bytes(Serialized' + 1, Len(queue'))
  <2>1. ASSUME NEW k \in 1 .. Len(queue') PROVE queue'[k] = (Serialized + 2) + k - 1
    <3>1. k + 1 \in 1 .. Len(queue)
      BY <1>4
    <3>2. queue'[k] = Serialized + 1 + (k + 1) - 1
      BY <1>4, <1>6, <3>1
    <3>3. QED BY <1>5, <3>2
  <2>2. queue' \in Seq(Nat) /\ Len(queue') \in Nat
    <3>1. queue' \in Seq(Msgs') /\ Len(sizeOf') \in Nat
      BY DEF TypeOK
    <3>2. Msgs' \subseteq Nat
      BY <3>1 DEF Msgs
    <3>3. queue' \in Seq(Nat)
      BY <3>1, <3>2, SeqMonotonic
    <3>4. QED BY <3>3, LenProperties
  <2>3. Serialized + 2 \in Nat /\ Serialized' + 1 = Serialized + 2
    BY <1>5
  <2>4. QED BY <2>1, <2>2, <2>3, BytesEqual
<1>13. \A l \in Msgs' : start'[l] # 0 <=> l <= Serialized'
  <2>1. ASSUME NEW l \in Msgs' PROVE l \in 1 .. Len(sizeOf)
    BY <1>1 DEF Msgs
  <2>2. \A l \in 1 .. Len(sizeOf) : start[l] # 0 <=> l <= Serialized
    BY <1>3 DEF LaidOut, Msgs
  <2>3. produced + 1 # 0
    BY <1>2
  <2>4. \A l \in 1 .. Len(sizeOf) : l # m => (l <= Serialized <=> l <= Serialized')
    BY <1>5, <1>7
  <2>5. m <= Serialized'
    BY <1>5, <1>7
  <2>6. QED BY <1>9, <2>1, <2>2, <2>3, <2>4, <2>5
<1>14. produced = IF Serialized = 0 THEN 0 ELSE End(Serialized)
  BY <1>3 DEF LaidOut
<1>15. \A l \in 1 .. Serialized : End(l) <= produced
  <2>1. ASSUME NEW l \in 1 .. Serialized PROVE End(l) <= produced
    <3>1. Serialized \in 1 .. Serialized /\ Serialized # 0
      BY <1>5
    <3>2. produced = End(Serialized)
      BY <1>14, <3>1
    <3>3. CASE l = Serialized
      BY <1>2, <3>2, <3>3
    <3>4. CASE l # Serialized
      <4>1. l \in 1 .. Serialized - 1
        BY <1>5, <3>4
      <4>2. End(l) < start[Serialized]
        BY <1>3, <3>1, <4>1 DEF LaidOut
      <4>3. QED BY <1>11, <3>1, <3>2, <4>2
    <3>5. QED BY <3>3, <3>4
  <2>2. QED BY <2>1
<1>16. ASSUME NEW l \in 1 .. Serialized'
       PROVE  /\ start'[l] = IF l = 1 THEN 1 ELSE End(l - 1)' + 1
              /\ \A j \in 1 .. l - 1 : End(j)' < start'[l]
  <2>1. \A j \in 1 .. l - 1 : j \in 1 .. Serialized
    BY <1>5
  <2>2. l # 1 => l - 1 \in 1 .. Serialized
    BY <1>5
  <2>3. CASE l = m
    <3>1. l - 1 = Serialized /\ (l = 1 <=> Serialized = 0)
      BY <1>5, <1>7, <2>3
    <3>2. start'[l] = IF l = 1 THEN 1 ELSE End(l - 1)' + 1
      BY <1>9, <1>11, <1>14, <2>2, <2>3, <3>1
    <3>3. ASSUME NEW j \in 1 .. l - 1 PROVE End(j)' < start'[l]
      <4>1. j \in 1 .. Serialized
        BY <2>1
      <4>2. End(j)' = End(j) /\ End(j) \in Nat /\ End(j) <= produced
        BY <4>1, <1>11, <1>15
      <4>3. start'[l] = produced + 1
        BY <1>9, <2>3
      <4>4. QED BY <1>2, <4>2, <4>3
    <3>4. QED BY <3>2, <3>3
  <2>4. CASE l # m
    <3>1. l \in 1 .. Serialized
      BY <1>5, <1>7, <2>4
    <3>2. /\ start[l] = IF l = 1 THEN 1 ELSE End(l - 1) + 1
          /\ \A j \in 1 .. l - 1 : End(j) < start[l]
      BY <1>3, <3>1 DEF LaidOut
    <3>3. start'[l] = start[l]
      BY <1>11, <3>1
    <3>4. l # 1 => End(l - 1)' = End(l - 1)
      BY <1>11, <2>2
    <3>5. \A j \in 1 .. l - 1 : End(j)' = End(j)
      BY <1>11, <2>1
    <3>6. QED BY <3>2, <3>3, <3>4, <3>5
  <2>5. QED BY <2>3, <2>4
<1>17. produced' = IF Serialized' = 0 THEN 0 ELSE End(Serialized)'
  <2>1. Serialized' = m /\ Serialized' # 0
    BY <1>5, <1>7
  <2>2. QED BY <1>10, <2>1 DEF End
<1>18. LaidOut'
  <2>1. Serialized' \in 0 .. Len(sizeOf')
    BY <1>1, <1>2, <1>5
  <2>2. QED BY <1>12, <1>13, <1>16, <1>17, <2>1 DEF LaidOut
<1>19. Base' = Base /\ Taken' = Taken
  <2>1. delivered # <<>> => Len(delivered) \in 1 .. Serialized
    <3>1. delivered # <<>> => Len(delivered) # 0
      BY EmptySeq DEF TypeOK
    <3>2. QED BY <3>1, WhereType
  <2>2. Base' = Base
    BY <1>1, <1>11, <2>1 DEF Base
  <2>3. QED BY <1>1, <2>2 DEF Taken
<1>20. InStream'
  <2>1. /\ Len(out) = 0 /\ Taken + Len(buffer) = produced /\ Len(buffer) \in Nat
        /\ Taken \in Nat
    BY <1>1, <1>3, EmptySeq, WhereType DEF InStream
  <2>2. /\ Len(out') = total
        /\ out' = Bytes(Taken' + Len(buffer') + 1, Len(out'))
        /\ Taken' + Len(buffer') + Len(out') = produced'
    <3>1. Len(out') = total
      <4>1. total \in Nat /\ produced + 1 \in Nat
        BY <1>2, <1>8
      <4> HIDE DEF total
      <4>2. QED BY <1>1, <4>1, BytesType
    <3>2. Taken' + Len(buffer') = produced
      BY <1>1, <1>19, <2>1
    <3>3. QED BY <1>1, <3>1, <3>2
  <2>3. Len(delivered') <= Serialized'
    BY <1>1, <1>5, WhereType
  <2>4. Len(delivered) < Serialized => Len(delivered') < Serialized'
    BY <1>1, <1>5, WhereType
  <2>5. QED BY <1>1, <1>3, <1>19, <2>2, <2>3, <2>4 DEF InStream
<1>21. QED BY <1>1, <1>18, <1>20 DEF Conserved

\* Bytes move from the one side of a place in the stream to the other.
LEMMA SendBytesConserves ==
  ASSUME TypeOK, TypeOK', Conserved, SendBytes
  PROVE  Conserved'
<1>1. PICK n \in 0 .. Len(out) :
        /\ Transfers(Room(Len(out)), n)
        /\ buffer' = buffer \o First(out, n)
        /\ out' = Rest(out, n)
  BY DEF SendBytes
<1>2. UNCHANGED <<queue, layoutVars, rpc, got, need, size, delivered>>
  BY DEF SendBytes, receiverVars
<1>3. LaidOut' /\ Base' = Base /\ Serialized' = Serialized
  BY <1>2, SameLayout DEF Conserved
<1>4. Taken' = Taken
  BY <1>2, <1>3 DEF Taken
<1>5. /\ buffer = Bytes(Taken + 1, Len(buffer))
      /\ out = Bytes(Taken + Len(buffer) + 1, Len(out))
      /\ Taken + Len(buffer) + Len(out) = produced
  BY DEF Conserved, InStream
<1> DEFINE p == Taken + 1
           a == Len(buffer)
           b == Len(out)
<1>6. p \in Nat /\ a \in Nat /\ b \in Nat /\ p + a \in Nat /\ n \in 0 .. b /\ n \in Nat
  BY WhereType
<1>7. Taken + Len(buffer) + 1 = p + a
  BY WhereType
<1>8. buffer = Bytes(p, a) /\ out = Bytes(p + a, b)
  BY <1>5, <1>7
<1>9. Len(buffer') = a + n /\ Len(out') = b - n
  BY <1>1, WriteFits
<1>10. buffer' = Bytes(p, a + n) /\ out' = Bytes(p + a + n, b - n)
  <2> HIDE DEF p, a, b
  <2>1. First(out, n) = Bytes(p + a, n) /\ Rest(out, n) = Bytes((p + a) + n, b - n)
    BY <1>6, <1>8, BytesSplit
  <2>2. Bytes(p, a) \o Bytes(p + a, n) = Bytes(p, a + n)
    BY <1>6, BytesJoin, ZenonT(40)
  <2>3. QED BY <1>1, <1>8, <2>1, <2>2
<1>11. /\ Taken' + 1 = p
       /\ Taken' + Len(buffer') + 1 = p + a + n
       /\ Taken' + Len(buffer') + Len(out') = produced'
  <2>1. produced' = produced
    BY <1>2 DEF layoutVars
  <2>2. Taken' \in Nat /\ Taken' + 1 = p /\ Taken' + a + b = produced
    BY <1>4, <1>5, WhereType
  <2>3. PICK t \in Nat : t = Taken'
    BY <2>2
  <2> HIDE DEF p, a, b
  <2>4. t + 1 = p /\ t + a + b = produced /\ a \in Nat /\ b \in Nat /\ n \in 0 .. b
    BY ONLY <1>6, <2>2, <2>3
  <2>5. t + (a + n) + 1 = p + a + n /\ t + (a + n) + (b - n) = produced
    BY ONLY <2>4
  <2>6. QED BY ONLY <1>9, <2>1, <2>2, <2>3, <2>5
<1>12. sizeOf' = sizeOf
  BY <1>2 DEF layoutVars
<1>13. /\ buffer' = Bytes(Taken' + 1, Len(buffer'))
       /\ out' = Bytes(Taken' + Len(buffer') + 1, Len(out'))
  <2> HIDE DEF p, a, b
  <2>1. QED BY <1>9, <1>10, <1>11
<1>14. InStream'
  <2> HIDE DEF p, a, b
  <2>1. QED BY <1>2, <1>3, <1>11, <1>12, <1>13 DEF InStream, Conserved
<1>15. QED BY <1>2, <1>3, <1>14 DEF Conserved

LEMMA ReceiveSetupConserves ==
  ASSUME TypeOK, TypeOK', Conserved, ReceiveSetup
  PROVE  Conserved'
<1>1. /\ need = 0 /\ got' = <<>> /\ need' = HeaderSize
      /\ UNCHANGED <<queue, out, buffer, rpc, size, layoutVars, delivered>>
  BY DEF ReceiveSetup, senderVars, shmVars
<1>2. LaidOut' /\ Base' = Base /\ Serialized' = Serialized
  BY <1>1, SameLayout DEF Conserved
<1>3. HeaderSize \in Nat \ {0} /\ Len(got') = 0 /\ size = 0 /\ Base \in Nat
  BY <1>1, LayoutAssumption, EmptySeq, WhereType DEF Conserved, InStream
<1>4. Taken' = Taken
  BY <1>1, <1>2, <1>3 DEF Taken
<1>5. got' = Bytes(Base' + 1, Len(got'))
  BY <1>1, <1>2, <1>3, BytesEmpty
<1>6. InStream'
  BY <1>1, <1>2, <1>3, <1>4, <1>5 DEF InStream, Conserved, layoutVars
<1>7. QED BY <1>1, <1>2, <1>6 DEF Conserved

\* The bytes that receive() has after a read, wherever it is.
LEMMA ReadBytes ==
  ASSUME TypeOK, Conserved, NEW n \in 0 .. need, NEW p \in Nat, need > 0,
         Transfers(Min2(need, Len(buffer)), n),
         got = Bytes(p, Len(got)), Taken + 1 = p + Len(got)
  PROVE  /\ got \o First(buffer, n) = Bytes(p, Len(got) + n)
         /\ Rest(buffer, n) = Bytes(Taken + n + 1, Len(buffer) - n)
         /\ Len(Rest(buffer, n)) = Len(buffer) - n
         /\ n \in 0 .. Len(buffer)
<1>1. n \in 0 .. Len(buffer) /\ Len(Rest(buffer, n)) = Len(buffer) - n
  BY ReadFits
<1>2. Taken \in Nat /\ Len(buffer) \in Nat /\ Len(got) \in Nat /\ n \in Nat
  BY <1>1, WhereType
<1>3. buffer = Bytes(Taken + 1, Len(buffer))
  BY DEF Conserved, InStream
<1>4. /\ First(buffer, n) = Bytes(Taken + 1, n)
      /\ Rest(buffer, n) = Bytes((Taken + 1) + n, Len(buffer) - n)
  <2>1. Taken + 1 \in Nat
    BY <1>2
  <2>2. QED BY <1>1, <1>2, <1>3, <2>1, BytesSplit
<1>5. Bytes(p, Len(got)) \o Bytes(p + Len(got), n) = Bytes(p, Len(got) + n)
  BY <1>2, BytesJoin
<1>6. (Taken + 1) + n = Taken + n + 1
  BY <1>2
<1>7. QED BY <1>1, <1>3, <1>4, <1>5, <1>6

\* Fewer bytes than needed are kept for the next call.
LEMMA ReceivePartConserves ==
  ASSUME TypeOK, TypeOK', Conserved, NEW n \in 0 .. need, n < need,
         Transfers(Min2(need, Len(buffer)), n),
         buffer' = Rest(buffer, n),
         got' = got \o First(buffer, n), need' = need - n, rpc' = "idle",
         UNCHANGED <<queue, out, size, layoutVars, delivered>>
  PROVE  Conserved'
<1> DEFINE p == IF size = 0 THEN Base + 1 ELSE Base + HeaderSize + 1
<1>1. /\ Base \in Nat /\ HeaderSize \in Nat /\ need \in Nat /\ n \in Nat
      /\ Len(got) \in Nat /\ Len(buffer) \in Nat /\ Taken \in Nat /\ Len(out) \in Nat
  BY LayoutAssumption, WhereType DEF TypeOK
<1>2. p \in Nat
  BY <1>1
<1>3. need > 0
  BY <1>1
<1>4. got = Bytes(p, Len(got)) /\ Taken + 1 = p + Len(got)
  <2>1. CASE size = 0
    <3>1. got = Bytes(Base + 1, Len(got)) /\ Taken = Base + Len(got)
      BY <1>3, <2>1 DEF Conserved, InStream, Taken
    <3>2. p = Base + 1
      BY <2>1
    <3> HIDE DEF p
    <3>3. QED BY <1>1, <3>1, <3>2
  <2>2. CASE size # 0
    <3>1. got = Bytes(Base + HeaderSize + 1, Len(got))
          /\ Taken = Base + HeaderSize + Len(got)
      BY <1>3, <2>2 DEF Conserved, InStream, Taken
    <3>2. p = Base + HeaderSize + 1
      BY <2>2
    <3> HIDE DEF p
    <3>3. QED BY <1>1, <3>1, <3>2
  <2>3. QED BY <2>1, <2>2
<1> HIDE DEF p
<1>5. /\ got' = Bytes(p, Len(got) + n)
      /\ buffer' = Bytes(Taken + n + 1, Len(buffer) - n)
      /\ Len(buffer') = Len(buffer) - n
  BY <1>2, <1>3, <1>4, ReadBytes
<1>6. Len(got') = Len(got) + n
  BY ReadFits
<1>7. LaidOut' /\ Base' = Base /\ Serialized' = Serialized
  BY SameLayout DEF Conserved
<1>8. need' > 0 /\ need' = need - n
  BY <1>1
<1>9. Taken' = Taken + n
  BY <1>1, <1>3, <1>6, <1>7, <1>8, SMTT(30) DEF Taken
<1>10. /\ Taken' + 1 = Taken + n + 1
       /\ Taken' + Len(buffer') = Taken + Len(buffer)
  BY <1>1, <1>5, <1>9, SMTT(30)
<1>11. buffer' = Bytes(Taken' + 1, Len(buffer'))
  BY <1>5, <1>10
<1>12. /\ out' = Bytes(Taken' + Len(buffer') + 1, Len(out'))
       /\ Taken' + Len(buffer') + Len(out') = produced'
  <2>1. /\ out = Bytes(Taken + Len(buffer) + 1, Len(out))
        /\ Taken + Len(buffer) + Len(out) = produced
    BY DEF Conserved, InStream
  <2>2. out' = out /\ produced' = produced
    BY DEF layoutVars
  <2>3. QED BY <1>10, <2>1, <2>2
<1>13. size' = 0 => /\ got' = Bytes(Base' + 1, Len(got'))
                    /\ Len(got') + need' = HeaderSize
  <2>1. size = 0 => Len(got) + need = HeaderSize
    BY <1>3 DEF Conserved, InStream
  <2>2. size = 0 => p = Base + 1
    BY DEF p
  <2>3. size = 0 => Len(got') + need' = HeaderSize
    BY ONLY <1>1, <1>6, <1>8, <2>1
  <2>4. size' = size
    OBVIOUS
  <2>5. QED BY <1>5, <1>6, <1>7, <2>2, <2>3, <2>4
<1>14. size' # 0 => /\ Len(delivered') < Serialized'
                    /\ size' = sizeOf'[Len(delivered') + 1]
                    /\ got' = Bytes(Base' + HeaderSize + 1, Len(got'))
                    /\ Len(got') + need' = size'
  <2>1. size # 0 => /\ Len(delivered) < Serialized
                    /\ size = sizeOf[Len(delivered) + 1]
                    /\ Len(got) + need = size
    BY <1>3 DEF Conserved, InStream
  <2>2. size # 0 => p = Base + HeaderSize + 1
    BY DEF p
  <2>3. sizeOf' = sizeOf
    BY DEF layoutVars
  <2>4. size # 0 => Len(got') + need' = size
    BY <1>1, <1>6, <1>8, <2>1
  <2>5. QED BY <1>5, <1>6, <1>7, <2>1, <2>2, <2>3, <2>4
<1>15. Len(delivered') <= Serialized' /\ delivered' = Bytes(1, Len(delivered'))
  BY <1>7 DEF Conserved, InStream
<1>16. InStream'
  BY <1>8, <1>11, <1>12, <1>13, <1>14, <1>15, SMTT(30) DEF InStream
<1>17. QED BY <1>7, <1>16 DEF Conserved

\* All bytes of a size have arrived: they are those of the next message.
LEMMA ReceiveHeaderConserves ==
  ASSUME TypeOK, TypeOK', Conserved, need > 0, size = 0,
         Transfers(Min2(need, Len(buffer)), need),
         buffer' = Rest(buffer, need),
         AcceptHeader(got \o First(buffer, need)),
         UNCHANGED <<queue, out, layoutVars>>
  PROVE  Conserved'
<1> DEFINE d == Len(delivered)
           bytes == got \o First(buffer, need)
<1>1. /\ Base \in Nat /\ HeaderSize \in Nat \ {0} /\ need \in Nat /\ need \in 0 .. need
      /\ Len(got) \in Nat /\ Len(buffer) \in Nat /\ Taken \in Nat /\ Len(out) \in Nat
      /\ d \in Nat
  BY LayoutAssumption, WhereType DEF TypeOK
<1>2. /\ got = Bytes(Base + 1, Len(got)) /\ Taken = Base + Len(got)
      /\ Len(got) + need = HeaderSize
  BY DEF Conserved, InStream, Taken
<1>3. Base + 1 \in Nat /\ Taken + 1 = (Base + 1) + Len(got)
  BY <1>1, <1>2
<1>4. /\ bytes = Bytes(Base + 1, Len(got) + need)
      /\ buffer' = Bytes(Taken + need + 1, Len(buffer) - need)
      /\ Len(buffer') = Len(buffer) - need
      /\ need \in 0 .. Len(buffer)
  BY <1>1, <1>2, <1>3, ReadBytes
<1>5. bytes = Bytes(Base + 1, HeaderSize)
  BY <1>2, <1>4
<1>6. Taken + Len(buffer) + Len(out) = produced
  BY DEF Conserved, InStream
<1>7. Base < produced
  BY <1>1, <1>2, <1>4, <1>6, SMTT(30)
<1>8. d + 1 \in 1 .. Serialized /\ start[d + 1] = Base + 1
  BY <1>7, NextMessage
<1>9. /\ d + 1 \in Msgs /\ sizeOf[d + 1] \in Nat \ {0} /\ start[d + 1] # 0
      /\ \A m \in Msgs : start[m] \in Nat
  <2>1. d + 1 \in Msgs /\ sizeOf[d + 1] \in Nat \ {0}
    BY <1>8, LayoutType DEF Conserved
  <2>2. \A m \in Msgs : start[m] \in Nat
    BY ElementOfSeq DEF TypeOK, Msgs
  <2>3. QED BY <1>1, <1>8, <2>1, <2>2
<1> HIDE DEF d, bytes
<1>10. \A m \in Msgs : HasHeader(m, bytes) <=> m = d + 1
  <2>1. HasHeader(d + 1, bytes)
    BY <1>5, <1>8, <1>9 DEF HasHeader
  <2>2. ASSUME NEW m \in Msgs, HasHeader(m, bytes) PROVE m = d + 1
    <3>1. start[m] # 0 /\ Bytes(start[m], HeaderSize) = Bytes(start[d + 1], HeaderSize)
      BY <2>1, <2>2 DEF HasHeader
    <3>2. start[m] = start[d + 1]
      BY <1>1, <1>9, <3>1, BytesInjective
    <3>3. QED BY <1>8, <3>1, <3>2, StartsDiffer DEF Conserved
  <2>3. QED BY <2>1, <2>2
<1>11. /\ size' = sizeOf[d + 1] /\ need' = sizeOf[d + 1] /\ got' = <<>>
       /\ UNCHANGED <<rpc, delivered>>
  <2>1. AcceptHeader(bytes)
    BY DEF bytes
  <2>2. QED BY <1>9, <1>10, <2>1 DEF AcceptHeader
<1>12. LaidOut' /\ Base' = Base /\ Serialized' = Serialized
  BY <1>11, SameLayout DEF Conserved
<1>13. size' # 0 /\ need' > 0 /\ Len(got') = 0 /\ need' \in Nat
  <2>1. Len(got') = 0
    BY <1>11, EmptySeq
  <2>2. QED BY <1>9, <1>11, <2>1
<1>14. Taken' = Base + HeaderSize
  BY <1>1, <1>12, <1>13 DEF Taken
<1>15. /\ Taken' + 1 = Taken + need + 1
       /\ Taken' + Len(buffer') = Taken + Len(buffer)
  BY <1>1, <1>2, <1>4, <1>14, SMTT(30)
<1>16. buffer' = Bytes(Taken' + 1, Len(buffer'))
  BY <1>4, <1>15
<1>17. /\ out' = Bytes(Taken' + Len(buffer') + 1, Len(out'))
       /\ Taken' + Len(buffer') + Len(out') = produced'
  <2>1. out = Bytes(Taken + Len(buffer) + 1, Len(out))
    BY DEF Conserved, InStream
  <2>2. out' = out /\ produced' = produced
    BY DEF layoutVars
  <2>3. QED BY <1>6, <1>15, <2>1, <2>2
<1>18. /\ Len(delivered') < Serialized' /\ size' = sizeOf'[Len(delivered') + 1]
       /\ got' = Bytes(Base' + HeaderSize + 1, Len(got'))
       /\ Len(got') + need' = size'
  <2>1. Len(delivered') = d /\ sizeOf' = sizeOf
    BY <1>11 DEF d, layoutVars
  <2>2. d < Serialized
    BY <1>1, <1>8, LayoutType DEF Conserved
  <2>3. got' = Bytes(Base' + HeaderSize + 1, Len(got'))
    BY <1>1, <1>11, <1>12, <1>13, BytesEmpty
  <2>4. QED BY <1>11, <1>12, <1>13, <2>1, <2>2, <2>3
<1>19. Len(delivered') <= Serialized' /\ delivered' = Bytes(1, Len(delivered'))
  BY <1>11, <1>12 DEF Conserved, InStream
<1>20. InStream'
  BY <1>13, <1>16, <1>17, <1>18, <1>19 DEF InStream
<1>21. QED BY <1>11, <1>12, <1>20 DEF Conserved

\* All bytes of a message have arrived: it is the next one, and is delivered.
LEMMA ReceiveBodyConserves ==
  ASSUME TypeOK, TypeOK', Conserved, need > 0, size # 0,
         Transfers(Min2(need, Len(buffer)), need),
         buffer' = Rest(buffer, need),
         AcceptBody(got \o First(buffer, need)),
         UNCHANGED <<queue, out, layoutVars>>
  PROVE  Conserved'
<1> DEFINE d == Len(delivered)
           bytes == got \o First(buffer, need)
           p == Base + HeaderSize + 1
<1>1. /\ Base \in Nat /\ HeaderSize \in Nat \ {0} /\ need \in Nat /\ need \in 0 .. need
      /\ Len(got) \in Nat /\ Len(buffer) \in Nat /\ Taken \in Nat /\ Len(out) \in Nat
      /\ d \in Nat
  BY LayoutAssumption, WhereType DEF TypeOK
<1>2. /\ got = Bytes(p, Len(got)) /\ Taken = Base + HeaderSize + Len(got)
      /\ Len(got) + need = size /\ size = sizeOf[d + 1] /\ d < Serialized
  BY DEF Conserved, InStream, Taken
<1>3. p \in Nat /\ Taken + 1 = p + Len(got)
  BY <1>1, <1>2
<1>4. /\ bytes = Bytes(p, Len(got) + need)
      /\ buffer' = Bytes(Taken + need + 1, Len(buffer) - need)
      /\ Len(buffer') = Len(buffer) - need
      /\ need \in 0 .. Len(buffer)
  <2> HIDE DEF p
  <2>1. QED BY <1>1, <1>2, <1>3, ReadBytes
<1>5. Taken + Len(buffer) + Len(out) = produced
  BY DEF Conserved, InStream
<1>6. Base < produced
  BY <1>1, <1>2, <1>4, <1>5, SMTT(30)
<1>7. d + 1 \in 1 .. Serialized /\ start[d + 1] = Base + 1
  BY <1>6, NextMessage
<1>8. /\ d + 1 \in Msgs /\ sizeOf[d + 1] \in Nat \ {0} /\ start[d + 1] # 0
      /\ \A m \in Msgs : start[m] \in Nat /\ sizeOf[m] \in Nat \ {0}
  <2>1. d + 1 \in Msgs /\ sizeOf[d + 1] \in Nat \ {0}
    BY <1>7, LayoutType DEF Conserved
  <2>2. \A m \in Msgs : start[m] \in Nat /\ sizeOf[m] \in Sizes
    BY ElementOfSeq DEF TypeOK, Msgs
  <2>3. \A m \in Msgs : sizeOf[m] \in Nat \ {0}
    BY <2>2, SizesAssumption
  <2>4. QED BY <1>1, <1>7, <2>1, <2>2, <2>3
<1>9. /\ start[d + 1] + HeaderSize = p
      /\ bytes = Bytes(start[d + 1] + HeaderSize, sizeOf[d + 1])
  <2>1. start[d + 1] + HeaderSize = p
    BY <1>1, <1>7
  <2> HIDE DEF p, bytes, d
  <2>2. QED BY <1>2, <1>4, <2>1
<1> HIDE DEF d, bytes, p
<1>10. \A m \in Msgs : HasBody(m, bytes) <=> m = d + 1
  <2>1. HasBody(d + 1, bytes)
    BY <1>8, <1>9 DEF HasBody
  <2>2. ASSUME NEW m \in Msgs, HasBody(m, bytes) PROVE m = d + 1
    <3> DEFINE b == start[m] + HeaderSize
    <3>1. start[m] # 0 /\ bytes = Bytes(b, sizeOf[m])
      BY <2>2 DEF HasBody
    <3>2. b \in Nat /\ sizeOf[m] \in Nat \ {0}
      BY <1>1, <1>8, SMTT(30)
    <3> HIDE DEF b
    <3>3. Len(bytes) = sizeOf[m]
      BY <3>1, <3>2, BytesType
    <3>4. Len(bytes) = sizeOf[d + 1]
      BY <1>3, <1>8, <1>9, BytesType
    <3>5. Bytes(b, sizeOf[m]) = Bytes(p, sizeOf[m])
      BY <1>9, <3>1, <3>3, <3>4
    <3>6. b = p
      BY <1>3, <3>2, <3>5, BytesInjective
    <3>7. start[m] = start[d + 1]
      BY <1>1, <1>8, <1>9, <3>6, SMTT(30) DEF b
    <3>8. QED BY <1>7, <3>1, <3>7, StartsDiffer DEF Conserved
  <2>3. QED BY <2>1, <2>2
<1>11. /\ delivered' = Append(delivered, d + 1)
       /\ size' = 0 /\ need' = 0 /\ rpc' = rpc
  <2>1. AcceptBody(bytes)
    BY DEF bytes
  <2>2. QED BY <1>8, <1>10, <2>1 DEF AcceptBody
<1>12. LaidOut' /\ Serialized' = Serialized /\ \A m : End(m)' = End(m)
  BY SameLayout DEF Conserved
<1>13. /\ Len(delivered') = d + 1 /\ delivered' # <<>>
       /\ \A k \in 1 .. d : delivered'[k] = delivered[k]
       /\ delivered'[d + 1] = d + 1
  <2>1. delivered \in Seq(Nat) /\ d + 1 \in Nat /\ Len(delivered) = d
    BY <1>1 DEF TypeOK, d
  <2>2. Append(delivered, d + 1) # <<>>
    BY <2>1, AppendProperties
  <2>3. QED BY <1>11, <2>1, <2>2, AppendProperties
<1>14. delivered' = Bytes(1, Len(delivered'))
  <2>1. delivered = Bytes(1, d)
    BY DEF Conserved, InStream, d
  <2>2. \A k \in 1 .. d : delivered[k] = 1 + k - 1
    BY <1>1, <2>1, BytesType, ZenonT(40)
  <2>3. ASSUME NEW k \in 1 .. d + 1 PROVE delivered'[k] = 1 + k - 1
    <3>1. k \in 1 .. d \/ k = d + 1
      BY <1>1
    <3>2. k \in Nat
      BY <1>1
    <3>3. QED BY <1>13, <2>2, <3>1, <3>2
  <2>4. delivered' \in Seq(Nat) /\ d + 1 \in Nat
    BY <1>1 DEF TypeOK
  <2>5. QED BY <1>13, <2>3, <2>4, BytesEqual
<1>15. Base' = End(d + 1)
  <2>1. Base' = End(Len(delivered))'
    BY <1>13 DEF Base
  <2>2. QED BY <1>13, <2>1 DEF End, layoutVars
<1>16. Base' = Base + HeaderSize + size
  BY <1>1, <1>2, <1>7, <1>8, <1>15, SMTT(30) DEF End
<1>17. Taken' = Base'
  BY <1>11 DEF Taken
<1>18. /\ Taken' + 1 = Taken + need + 1
       /\ Taken' + Len(buffer') = Taken + Len(buffer)
  <2>1. size \in Nat
    BY <1>2, <1>8
  <2>2. Taken' = Base + HeaderSize + size /\ Taken = Base + HeaderSize + Len(got)
        /\ Len(got) + need = size
    BY <1>2, <1>16, <1>17
  <2>3. Taken' = Taken + need
    BY <1>1, <2>1, <2>2
  <2>4. Len(buffer') = Len(buffer) - need
    BY <1>4
  <2>5. QED BY <1>1, <2>3, <2>4
<1>19. buffer' = Bytes(Taken' + 1, Len(buffer'))
  BY <1>4, <1>18
<1>20. /\ out' = Bytes(Taken' + Len(buffer') + 1, Len(out'))
       /\ Taken' + Len(buffer') + Len(out') = produced'
  <2>1. out = Bytes(Taken + Len(buffer) + 1, Len(out))
    BY DEF Conserved, InStream
  <2>2. out' = out /\ produced' = produced
    BY DEF layoutVars
  <2>3. QED BY <1>5, <1>18, <2>1, <2>2
<1>21. Len(delivered') <= Serialized'
  <2>1. Serialized \in Nat
    BY LayoutType DEF Conserved
  <2>2. QED BY <1>1, <1>2, <1>12, <1>13, <2>1
<1>22. InStream'
  BY <1>11, <1>14, <1>19, <1>20, <1>21 DEF InStream
<1>23. QED BY <1>11, <1>12, <1>22 DEF Conserved

\* Whatever a read brings, if nothing else has been taken for bytes before.
LEMMA ReceiveBytesConserves ==
  ASSUME TypeOK, TypeOK', Conserved, ReceiveBytes
  PROVE  Conserved'
<1> DEFINE bytes(n) == got \o First(buffer, n)
<1>1. PICK n \in 0 .. need :
        /\ Transfers(Min2(need, Len(buffer)), n)
        /\ buffer' = Rest(buffer, n)
        /\ CASE n < need -> /\ rpc' = "idle" /\ got' = bytes(n) /\ need' = need - n
                            /\ UNCHANGED <<size, delivered>>
             [] n = need /\ size = 0 -> AcceptHeader(bytes(n))
             [] n = need /\ size # 0 -> AcceptBody(bytes(n))
  BY DEF ReceiveBytes
<1>2. UNCHANGED <<queue, out, layoutVars>> /\ need > 0
  BY DEF ReceiveBytes, senderVars
<1>3. need \in Nat /\ (n < need => n # need) /\ (n < need \/ n = need)
  <2>1. need \in Nat /\ n \in 0 .. need
    BY DEF TypeOK
  <2>2. QED BY ONLY <2>1
<1>4. /\ n < need => /\ rpc' = "idle" /\ got' = bytes(n) /\ need' = need - n
                     /\ UNCHANGED <<size, delivered>>
      /\ n = need /\ size = 0 => AcceptHeader(bytes(n))
      /\ n = need /\ size # 0 => AcceptBody(bytes(n))
  <2> HIDE DEF bytes
  <2>1. QED BY <1>1, <1>3
<1>5. CASE n < need
  BY <1>1, <1>2, <1>4, <1>5, ReceivePartConserves
<1>6. CASE n = need /\ size = 0
  BY <1>1, <1>2, <1>4, <1>6, ReceiveHeaderConserves
<1>7. CASE n = need /\ size # 0
  BY <1>1, <1>2, <1>4, <1>7, ReceiveBodyConserves
<1>8. QED BY <1>3, <1>5, <1>6, <1>7

LEMMA StepConserves == TypeOK /\ TypeOK' /\ BytesConserved /\ [Next]_vars => BytesConserved'
<1> SUFFICES ASSUME TypeOK, TypeOK', BytesConserved, [Next]_vars, deaths' = 0
             PROVE  Conserved'
  BY DEF BytesConserved, Conserved
<1>0. deaths \in Nat
  BY DEF TypeOK
<1>1. ~SenderDies /\ ~ReceiverDies
  <2>1. SenderDies => deaths' = deaths + 1
    BY DEF SenderDies, Dies
  <2>2. ReceiverDies => deaths' = deaths + 1
    BY DEF ReceiverDies, Dies
  <2>3. deaths + 1 # 0
    BY <1>0
  <2>4. QED BY <2>1, <2>2, <2>3
<1>2. deaths = 0
  <2>1. ASSUME NEW n \in Sizes, Enqueue(n) PROVE deaths' = deaths
    BY <2>1 DEF Enqueue
  <2>2. Send \/ Receive \/ UNCHANGED vars => deaths' = deaths
    BY DEF Send, SendBegin, SendBytes, SendNext, Receive, ReceiveBegin, ReceiveSetup,
           ReceiveBytes, vars
  <2>3. QED BY <1>1, <2>1, <2>2 DEF Next
<1>3. Conserved
  BY <1>2 DEF BytesConserved, Conserved
<1>4. ASSUME NEW n \in Sizes, Enqueue(n) PROVE Conserved'
  BY <1>3, <1>4, EnqueueConserves
<1>5. CASE SendBegin
  BY <1>3, <1>5, SameStream DEF SendBegin, shmVars, receiverVars, Conserved
<1>6. CASE SendBytes
  BY <1>3, <1>6, SendBytesConserves
<1>7. CASE SendNext
  <2>1. CASE queue = <<>>
    BY <1>3, <1>7, <2>1, SameStream
    DEF SendNext, shmVars, receiverVars, layoutVars, Conserved
  <2>2. CASE queue # <<>>
    BY <1>3, <1>7, <2>2, SendNextConserves
  <2>3. QED BY <2>1, <2>2
<1>8. CASE ReceiveBegin
  BY <1>3, <1>8, SameStream DEF ReceiveBegin, senderVars, shmVars
<1>9. CASE ReceiveSetup
  BY <1>3, <1>9, ReceiveSetupConserves
<1>10. CASE ReceiveBytes
  BY <1>3, <1>10, ReceiveBytesConserves
<1>11. CASE UNCHANGED vars
  BY <1>3, <1>11, SameStream DEF vars, senderVars, shmVars, receiverVars, Conserved
<1>12. QED
  BY <1>1, <1>4, <1>5, <1>6, <1>7, <1>8, <1>9, <1>10, <1>11 DEF Next, Send, Receive

\* As long as nobody dies, what has been taken, what is in the shared buffer and
\* what is still to be written are consecutive parts of one stream, whatever the
\* sizes of the messages and of the buffer (the offsets of send and receive).
THEOREM BytesAreConserved == Spec => []BytesConserved
<1>1. Init => BytesConserved
  <2> SUFFICES ASSUME Init PROVE Conserved
    BY DEF BytesConserved, Conserved
  <2>1. /\ queue = <<>> /\ out = <<>> /\ buffer = <<>> /\ need = 0 /\ size = 0
        /\ sizeOf = <<>> /\ start = <<>> /\ delivered = <<>> /\ produced = 0
        /\ rpc = "idle" /\ Len(queue) = 0 /\ Len(sizeOf) = 0
    BY DEF Init
  <2>2. Serialized = 0 /\ Base = 0 /\ Taken = 0
    BY <2>1 DEF Serialized, Base, Taken
  <2>3. \A k \in Nat : Bytes(k, 0) = <<>>
    BY BytesEmpty
  <2>4. LaidOut
    BY <2>1, <2>2, <2>3 DEF LaidOut, Msgs
  <2>5. InStream
    BY <2>1, <2>2, <2>3 DEF InStream
  <2>6. QED BY <2>1, <2>4, <2>5 DEF Conserved
<1>2. TypeOK /\ TypeOK' /\ BytesConserved /\ [Next]_vars => BytesConserved'
  BY StepConserves
<1>3. QED BY <1>1, <1>2, TypeCorrect, PTL DEF Spec

\* As long as nobody dies, the receiver takes nothing else for a size or for a
\* message (msg_size_ and byte_buffer_ of receiver).
THEOREM ReceiverStaysInStep == Spec => []InStepWhileAlive
<1>1. BytesConserved => InStepWhileAlive
  BY DEF BytesConserved, InStepWhileAlive
<1>2. QED BY <1>1, BytesAreConserved, PTL

-----------------------------------------------------------------------------
(* The channel implements MessageFifo: safety, with deaths.                *)

LastEnd == IF delivered = <<>> THEN 0 ELSE End(delivered[Len(delivered)])

\* Messages are serialized in the order of their numbers, one behind the other; a
\* message that was delivered has been serialized.
InTurn ==
  /\ \A i, j \in DOMAIN queue : i < j => queue[i] < queue[j]
  /\ \A m \in Msgs : \A i \in DOMAIN queue : start[m] # 0 => m < queue[i]
  /\ \A l, m \in Msgs : start[l] # 0 /\ start[m] # 0 /\ l < m => End(l) < start[m]
  /\ \A m \in Msgs : start[m] # 0 => End(m) <= produced
  /\ delivered # <<>> =>
       delivered[Len(delivered)] \in Msgs /\ start[delivered[Len(delivered)]] # 0

\* Bytes may be missing after a death, but those that are there are in order, and none
\* is of a message that was delivered, or of one before.
Rises(s) == \A i, j \in DOMAIN s : i < j => s[i] < s[j]
Rising ==
  /\ Rises(buffer) /\ Rises(out)
  /\ \A i \in DOMAIN buffer : \A j \in DOMAIN out : buffer[i] < out[j]
  /\ \A i \in DOMAIN buffer : LastEnd < buffer[i] /\ buffer[i] <= produced
  /\ \A i \in DOMAIN out : LastEnd < out[i] /\ out[i] <= produced

InOrder == InTurn /\ Rising

\* What depends on the layout only.
LEMMA SameTurn ==
  ASSUME InTurn, UNCHANGED layoutVars, delivered' = delivered,
         queue' = queue \/ queue' = <<>>
  PROVE  InTurn' /\ LastEnd' = LastEnd
<1>1. \A m : End(m)' = End(m)
  BY DEF End, layoutVars
<1>2. LastEnd' = LastEnd
  BY DEF LastEnd, End, layoutVars
<1>3. Msgs' = Msgs /\ start' = start /\ produced' = produced
  BY DEF Msgs, layoutVars
<1>4. CASE queue' = queue
  BY <1>2, <1>3, <1>4 DEF InTurn, End, layoutVars, Msgs
<1>5. CASE queue' = <<>>
  <2>1. DOMAIN queue' = {}
    BY <1>5
  <2>2. QED BY <1>2, <1>3, <2>1 DEF InTurn, End, layoutVars, Msgs
<1>6. QED BY <1>4, <1>5

LEMMA LayoutElements ==
  ASSUME TypeOK
  PROVE  /\ \A m \in Msgs : start[m] \in Nat /\ sizeOf[m] \in Nat \ {0}
         /\ Len(sizeOf) \in Nat /\ DOMAIN start = Msgs /\ DOMAIN sizeOf = Msgs
         /\ HeaderSize \in Nat \ {0} /\ produced \in Nat /\ delivered \in Seq(Nat)
<1>1. /\ sizeOf \in Seq(Sizes) /\ start \in Seq(Nat) /\ Len(start) = Len(sizeOf) /\ Len(sizeOf) \in Nat
      /\ DOMAIN start = Msgs /\ DOMAIN sizeOf = Msgs
  BY LenProperties DEF TypeOK, Msgs
<1>2. \A m \in Msgs : start[m] \in Nat /\ sizeOf[m] \in Sizes
  BY <1>1, ElementOfSeq DEF Msgs
<1>3. QED BY <1>1, <1>2, SizesAssumption, LayoutAssumption DEF TypeOK

\* The last message that was delivered ends where bytes have been serialized.
LEMMA LastEndType ==
  ASSUME TypeOK, InTurn
  PROVE  LastEnd \in Nat /\ LastEnd <= produced /\ \A m \in Msgs : End(m) \in Int
<1>1. /\ produced \in Nat /\ HeaderSize \in Nat /\ delivered \in Seq(Nat) /\ Len(sizeOf) \in Nat
      /\ \A m \in Msgs : start[m] \in Nat /\ sizeOf[m] \in Nat
  BY LayoutElements
<1>2. \A m \in Msgs : End(m) \in Int /\ (start[m] # 0 => End(m) \in Nat)
  BY <1>1, LayoutAssumption, SMTT(30) DEF End
<1>3. CASE delivered = <<>>
  BY <1>1, <1>2, <1>3 DEF LastEnd
<1>4. CASE delivered # <<>>
  <2> DEFINE l == delivered[Len(delivered)]
  <2>1. l \in Msgs /\ start[l] # 0 /\ End(l) <= produced
    BY <1>4 DEF InTurn
  <2>2. LastEnd = End(l)
    BY <1>4 DEF LastEnd
  <2>3. QED BY <1>2, <2>1, <2>2
<1>5. QED BY <1>3, <1>4

LEMMA EnqueueInOrder ==
  ASSUME TypeOK, InOrder, NEW n \in Sizes, Enqueue(n)
  PROVE  InOrder'
<1> DEFINE new == Len(sizeOf) + 1
<1>1. /\ sizeOf \in Seq(Sizes) /\ start \in Seq(Nat) /\ queue \in Seq(Nat) /\ delivered \in Seq(Nat)
      /\ Len(sizeOf) \in Nat /\ Len(start) = Len(sizeOf) /\ n \in Nat /\ new \in Nat
      /\ HeaderSize \in Nat /\ produced \in Nat
      /\ \A i \in DOMAIN queue : queue[i] \in Msgs
  <2>1. sizeOf \in Seq(Sizes) /\ n \in Nat
    BY SizesAssumption DEF TypeOK
  <2>2. queue \in Seq(Msgs) /\ \A i \in DOMAIN queue : queue[i] \in Msgs
    BY LenProperties DEF TypeOK
  <2>3. queue \in Seq(Nat)
    BY <2>2 DEF Msgs
  <2>4. QED BY <2>1, <2>2, <2>3, LayoutAssumption DEF TypeOK
<1>2. /\ sizeOf' = Append(sizeOf, n) /\ start' = Append(start, 0) /\ queue' = Append(queue, new)
      /\ UNCHANGED <<out, buffer, produced, delivered>>
  BY DEF Enqueue, shmVars
<1>3. /\ \A m \in Msgs : start'[m] = start[m] /\ sizeOf'[m] = sizeOf[m]
      /\ start'[new] = 0
      /\ \A m \in Msgs' : m \in Msgs \/ m = new
      /\ new \notin Msgs /\ \A m \in Msgs : m < new
  <2>1. Len(sizeOf') = new /\ Msgs' = 1 .. new
    BY <1>1, <1>2 DEF Msgs
  <2>2. \A m \in Msgs : start'[m] = start[m]
    BY <1>1, <1>2 DEF Msgs
  <2>3. \A m \in Msgs : sizeOf'[m] = sizeOf[m]
    BY <1>1, <1>2 DEF Msgs
  <2>4. start'[new] = 0
    BY <1>1, <1>2
  <2>5. QED BY <1>1, <2>1, <2>2, <2>3, <2>4 DEF Msgs
<1>4. \A m \in Msgs : start'[m] # 0 => End(m)' = End(m)
  BY <1>3 DEF End
<1>5. \A i \in DOMAIN queue' : \/ i \in DOMAIN queue /\ queue'[i] = queue[i]
                               \/ i = Len(queue) + 1 /\ queue'[i] = new
  BY <1>1, <1>2
<1>6. DOMAIN queue = 1 .. Len(queue) /\ Len(queue) \in Nat
  BY <1>1, LenProperties
<1> HIDE DEF new
<1>7. Rises(queue) /\ \A m \in Msgs : \A i \in DOMAIN queue : start[m] # 0 => m < queue[i]
  BY DEF InOrder, InTurn, Rises
<1>8. \A i, j \in DOMAIN queue' : i < j => queue'[i] < queue'[j]
  <2> SUFFICES ASSUME NEW i \in DOMAIN queue', NEW j \in DOMAIN queue', i < j
               PROVE  queue'[i] < queue'[j]
    OBVIOUS
  <2>1. i \in DOMAIN queue /\ queue'[i] = queue[i]
    <3>1. \/ i \in DOMAIN queue /\ queue'[i] = queue[i]
          \/ i = Len(queue) + 1
      BY <1>5
    <3>2. (j \in DOMAIN queue \/ j = Len(queue) + 1) /\ i < j
      BY <1>5
    <3>3. QED BY ONLY <1>6, <3>1, <3>2
  <2>2. CASE j \in DOMAIN queue /\ queue'[j] = queue[j]
    BY <1>7, <2>1, <2>2 DEF Rises
  <2>3. CASE queue'[j] = new
    <3>1. queue[i] \in Msgs
      BY <1>1, <2>1, ElementOfSeq
    <3>2. QED BY <1>3, <2>1, <2>3, <3>1
  <2>4. QED BY <1>5, <2>2, <2>3
<1>9. \A m \in Msgs' : \A i \in DOMAIN queue' : start'[m] # 0 => m < queue'[i]
  BY <1>3, <1>5, <1>7
<1>10. LastEnd' = LastEnd
  BY <1>2, <1>3, <1>4 DEF LastEnd, InOrder, InTurn
<1>11. /\ \A l, m \in Msgs' : start'[l] # 0 /\ start'[m] # 0 /\ l < m => End(l)' < start'[m]
       /\ \A m \in Msgs' : start'[m] # 0 => End(m)' <= produced'
       /\ delivered' # <<>> => /\ delivered'[Len(delivered')] \in Msgs'
                               /\ start'[delivered'[Len(delivered')]] # 0
  <2>1. Msgs \subseteq Msgs'
    BY <1>1, <1>2 DEF Msgs
  <2>2. QED BY <1>2, <1>3, <1>4, <2>1 DEF InOrder, InTurn
<1>12. InTurn'
  BY <1>8, <1>9, <1>11 DEF InTurn, End
<1>13. Rising'
  BY <1>2, <1>10 DEF InOrder, Rising, Rises
<1>14. QED BY <1>12, <1>13 DEF InOrder

LEMMA SendNextInOrder ==
  ASSUME TypeOK, InOrder, SendNext, queue # <<>>
  PROVE  InOrder'
<1>0. PICK m : m = Head(queue)
  OBVIOUS
<1> DEFINE total == HeaderSize + sizeOf[m]
<1>1. /\ out' = Bytes(produced + 1, total) /\ start' = [start EXCEPT ![m] = produced + 1]
      /\ produced' = produced + total /\ queue' = Tail(queue)
      /\ UNCHANGED <<buffer, sizeOf, delivered>>
  BY <1>0 DEF SendNext, shmVars
<1>2. /\ start \in Seq(Nat) /\ delivered \in Seq(Nat) /\ buffer \in Seq(Nat)
      /\ Len(sizeOf) \in Nat /\ HeaderSize \in Nat \ {0} /\ produced \in Nat
      /\ queue \in Seq(Msgs) /\ DOMAIN start = Msgs
      /\ \A l \in Msgs : start[l] \in Nat /\ sizeOf[l] \in Nat
  BY LayoutElements DEF TypeOK
<1>3. /\ m \in Msgs /\ m = queue[1] /\ 1 \in DOMAIN queue
      /\ \A i \in DOMAIN queue' : i + 1 \in DOMAIN queue /\ queue'[i] = queue[i + 1] /\ i \in Nat /\ 1 < i + 1
      /\ \A i \in DOMAIN queue : queue[i] \in Msgs
  <2>1. /\ Len(queue) \in Nat /\ Len(queue) > 0 /\ DOMAIN queue = 1 .. Len(queue)
        /\ \A i \in DOMAIN queue : queue[i] \in Msgs
    BY <1>2, EmptySeq, LenProperties, SMTT(30)
  <2>2. /\ Tail(queue) \in Seq(Msgs) /\ Len(Tail(queue)) = Len(queue) - 1
        /\ \A i \in 1 .. Len(queue) - 1 : Tail(queue)[i] = queue[i + 1]
    BY <1>2, <2>1, HeadTailProperties
  <2>3. DOMAIN Tail(queue) = 1 .. Len(queue) - 1
    BY <2>2, LenProperties
  <2>4. Head(queue) = queue[1] /\ queue[1] \in Msgs /\ 1 \in DOMAIN queue
    BY <2>1
  <2>5. ASSUME NEW i \in DOMAIN queue'
        PROVE  i + 1 \in DOMAIN queue /\ queue'[i] = queue[i + 1] /\ i \in Nat /\ 1 < i + 1
    <3>1. i \in 1 .. Len(queue) - 1 /\ queue' = Tail(queue)
      BY <1>1, <2>3
    <3>2. QED BY <2>1, <2>2, <3>1
  <2>6. QED BY <1>0, <2>1, <2>4, <2>5
<1>4. total \in Nat /\ total = HeaderSize + sizeOf[m] /\ 0 < total
  <2> DEFINE len == sizeOf[m]
  <2>1. HeaderSize \in Nat \ {0} /\ len \in Nat
    BY <1>2, <1>3
  <2> HIDE DEF len
  <2>2. HeaderSize + len \in Nat /\ 0 < HeaderSize + len
    BY <2>1
  <2>3. QED BY <2>2 DEF len
<1> HIDE DEF total
<1>5. /\ \A k \in DOMAIN out' : out'[k] = produced + k /\ k \in 1 .. total
      /\ \A k \in DOMAIN out' : k \in Nat
  <2> DEFINE p == produced + 1
  <2>0. p \in Nat /\ produced \in Nat
    BY <1>2
  <2> HIDE DEF p
  <2>a. /\ Bytes(p, total) \in Seq(Nat) /\ Len(Bytes(p, total)) = total
        /\ \A k \in 1 .. total : Bytes(p, total)[k] = p + k - 1
    BY <1>4, <2>0, BytesType
  <2>1. /\ out' \in Seq(Nat) /\ Len(out') = total
        /\ \A k \in 1 .. total : out'[k] = produced + 1 + k - 1
    BY <1>1, <2>a DEF p
  <2>2. DOMAIN out' = 1 .. total
    BY <1>1, <2>1, LenProperties
  <2>3. \A k \in DOMAIN out' : k \in 1 .. total /\ out'[k] = produced + 1 + k - 1 /\ k \in Nat
    BY <1>4, <2>1, <2>2
  <2>4. QED BY <2>0, <2>3
<1>6. start'[m] = produced + 1 /\ \A l \in Msgs \ {m} : start'[l] = start[l]
  BY <1>1, <1>2, <1>3
<1>7. /\ \A l \in Msgs : start[l] # 0 => l < m
      /\ \A i \in DOMAIN queue' : m < queue'[i] /\ queue'[i] \in Msgs
  BY <1>3 DEF InOrder, InTurn
<1>8. start[m] = 0
  BY <1>2, <1>3, <1>7 DEF Msgs
<1>9. /\ End(m)' = produced'
      /\ \A l \in Msgs \ {m} : End(l)' = End(l)
  <2>0. sizeOf' = sizeOf
    BY <1>1
  <2>1. End(m)' = start'[m] + HeaderSize + sizeOf[m] - 1
    BY <2>0 DEF End
  <2> DEFINE len == sizeOf[m]
  <2>2. len \in Nat /\ HeaderSize \in Nat /\ produced \in Nat
    BY <1>2, <1>3
  <2>a. End(m)' = (produced + 1) + HeaderSize + len - 1 /\ produced' = produced + (HeaderSize + len)
    BY <1>1, <1>4, <1>6, <2>1
  <2> HIDE DEF len
  <2>3. End(m)' = produced'
    BY <2>2, <2>a
  <2>4. QED BY <1>1, <1>6, <2>3 DEF End
<1>10. \A l \in Msgs \ {m} : start[l] # 0 => End(l) <= produced /\ End(l) \in Int
  BY LastEndType DEF InOrder, InTurn
<1>11. Msgs' = Msgs
  BY <1>1 DEF Msgs
<1>12. LastEnd' = LastEnd
  BY <1>1, <1>8, <1>9 DEF LastEnd, InOrder, InTurn
<1>13. LastEnd \in Nat /\ LastEnd <= produced /\ produced' \in Nat /\ produced < produced'
  <2>1. produced' \in Nat /\ produced < produced'
    <3>1. produced' = produced + total /\ produced \in Nat
      BY <1>1, <1>2
    <3>2. QED BY <1>4, <3>1
  <2>2. QED BY <2>1, LastEndType DEF InOrder
<1>14. InTurn'
  <2>1. \A i, j \in DOMAIN queue' : i < j => queue'[i] < queue'[j]
    BY <1>3 DEF InOrder, InTurn
  <2>2. \A l \in Msgs : \A i \in DOMAIN queue' : start'[l] # 0 => l < queue'[i]
    <3> SUFFICES ASSUME NEW l \in Msgs, NEW i \in DOMAIN queue', start'[l] # 0
                 PROVE  l < queue'[i]
      OBVIOUS
    <3>1. CASE l = m
      BY <1>7, <3>1
    <3>2. CASE l # m
      BY <1>3, <1>6, <3>2 DEF InOrder, InTurn
    <3>3. QED BY <3>1, <3>2
  <2>3. ASSUME NEW k \in Msgs, NEW l \in Msgs, start'[k] # 0, start'[l] # 0, k < l
        PROVE  End(k)' < start'[l]
    <3>1. CASE l = m
      BY <1>2, <1>6, <1>9, <1>10, <2>3, <3>1, SMTT(30) DEF Msgs
    <3>2. CASE l # m
      <4>1. k # m
        BY <1>3, <1>6, <1>7, <2>3, <3>2 DEF Msgs
      <4>2. QED BY <1>6, <1>9, <2>3, <3>2, <4>1 DEF InOrder, InTurn
    <3>3. QED BY <3>1, <3>2
  <2>4. \A l \in Msgs : start'[l] # 0 => End(l)' <= produced'
    <3> SUFFICES ASSUME NEW l \in Msgs, start'[l] # 0 PROVE End(l)' <= produced'
      OBVIOUS
    <3>1. CASE l = m
      <4>1. End(m)' = produced' /\ produced' \in Nat
        BY <1>9, <1>13
      <4>2. End(m)' <= produced'
        BY <4>1
      <4>3. QED BY <3>1, <4>2
    <3>2. CASE l # m
      <4>1. End(l)' = End(l) /\ End(l) <= produced /\ End(l) \in Int
        BY <1>6, <1>9, <1>10, <3>2
      <4>2. QED BY <1>2, <1>13, <4>1
    <3>3. QED BY <3>1, <3>2
  <2>5. delivered' # <<>> =>
          delivered'[Len(delivered')] \in Msgs /\ start'[delivered'[Len(delivered')]] # 0
    BY <1>1, <1>6, <1>8 DEF InOrder, InTurn
  <2>6. QED BY <1>11, <2>1, <2>2, <2>3, <2>4, <2>5 DEF InTurn, End
<1>15. Rising'
  <2>1. \A i \in DOMAIN buffer : LastEnd < buffer[i] /\ buffer[i] <= produced /\ buffer[i] \in Nat
    BY <1>2, ElementOfSeq, LenProperties DEF InOrder, Rising
  <2>2. Rises(buffer') /\ Rises(out')
    BY <1>1, <1>2, <1>5 DEF InOrder, Rising, Rises
  <2>3. \A k \in DOMAIN out' : produced < out'[k] /\ out'[k] <= produced' /\ out'[k] \in Nat
    <3> SUFFICES ASSUME NEW k \in DOMAIN out'
                 PROVE  produced < out'[k] /\ out'[k] <= produced' /\ out'[k] \in Nat
      OBVIOUS
    <3>1. out'[k] = produced + k /\ k \in 1 .. total /\ produced' = produced + total
      BY <1>1, <1>5
    <3>2. produced \in Nat /\ total \in Nat /\ k \in Nat /\ 1 <= k /\ k <= total
      BY ONLY <1>2, <1>4, <3>1
    <3>3. QED BY <3>1, <3>2
  <2>4. /\ \A i \in DOMAIN buffer : \A j \in DOMAIN out' : buffer[i] < out'[j]
        /\ \A i \in DOMAIN buffer : LastEnd < buffer[i] /\ buffer[i] <= produced'
        /\ \A i \in DOMAIN out' : LastEnd < out'[i] /\ out'[i] <= produced'
    <3>1. produced \in Nat /\ produced' \in Nat /\ LastEnd \in Nat
      BY <1>2, <1>13
    <3>2. LastEnd <= produced /\ produced < produced'
      BY <1>13
    <3>3. ASSUME NEW i \in DOMAIN buffer, NEW j \in DOMAIN out' PROVE buffer[i] < out'[j]
      BY ONLY <2>1, <2>3, <3>1, <3>3
    <3>4. ASSUME NEW i \in DOMAIN buffer PROVE LastEnd < buffer[i] /\ buffer[i] <= produced'
      BY ONLY <2>1, <3>1, <3>2, <3>4
    <3>5. ASSUME NEW i \in DOMAIN out' PROVE LastEnd < out'[i] /\ out'[i] <= produced'
      BY ONLY <2>3, <3>1, <3>2, <3>5
    <3>6. QED BY ONLY <3>3, <3>4, <3>5
  <2>5. QED BY <1>1, <1>12, <2>2, <2>4 DEF Rising
<1>16. QED BY <1>14, <1>15 DEF InOrder

LEMMA SendBytesInOrder ==
  ASSUME TypeOK, InOrder, SendBytes
  PROVE  InOrder'
<1>1. PICK n \in 0 .. Len(out) :
        /\ Transfers(Room(Len(out)), n)
        /\ buffer' = buffer \o First(out, n)
        /\ out' = Rest(out, n)
  BY DEF SendBytes
<1>2. UNCHANGED <<queue, layoutVars, delivered>>
  BY DEF SendBytes, receiverVars
<1>3. InTurn' /\ LastEnd' = LastEnd /\ produced' = produced
  BY <1>2, SameTurn DEF InOrder, layoutVars
<1>4. buffer \in Seq(Nat) /\ out \in Seq(Nat) /\ Len(out) \in Nat /\ Len(buffer) \in Nat /\ n \in Nat
  BY DEF TypeOK
<1>5. /\ First(out, n) \in Seq(Nat) /\ Len(First(out, n)) = n
      /\ \A k \in 1 .. n : First(out, n)[k] = out[k]
      /\ Rest(out, n) \in Seq(Nat) /\ Len(Rest(out, n)) = Len(out) - n
      /\ \A k \in 1 .. Len(out) - n : Rest(out, n)[k] = out[n + k]
  BY <1>4, Split
<1>6. \A j \in DOMAIN out' : n + j \in DOMAIN out /\ out'[j] = out[n + j] /\ j \in Nat /\ n < n + j
  BY <1>1, <1>4, RestElements
<1>7. \A i \in DOMAIN buffer' :
        \/ i \in DOMAIN buffer /\ buffer'[i] = buffer[i]
        \/ /\ i - Len(buffer) \in 1 .. n /\ i - Len(buffer) \in DOMAIN out
           /\ buffer'[i] = out[i - Len(buffer)] /\ i \in Nat /\ i > Len(buffer)
  <2> DEFINE head == First(out, n)
  <2>1. /\ head \in Seq(Nat) /\ Len(head) = n /\ \A k \in 1 .. n : head[k] = out[k]
        /\ buffer' = buffer \o head
    BY <1>1, <1>5
  <2> HIDE DEF head
  <2>a. /\ Len(buffer') = Len(buffer) + n /\ buffer' \in Seq(Nat)
        /\ \A i \in 1 .. Len(buffer) + n : buffer'[i] = IF i <= Len(buffer) THEN buffer[i] ELSE head[i - Len(buffer)]
    <3> DEFINE both == buffer \o head
    <3>1. /\ Len(both) = Len(buffer) + n /\ both \in Seq(Nat)
          /\ \A i \in 1 .. Len(buffer) + n : both[i] = IF i <= Len(buffer) THEN buffer[i] ELSE head[i - Len(buffer)]
      BY <1>4, <2>1, ConcatProperties
    <3>2. buffer' = both
      BY <2>1
    <3> HIDE DEF both
    <3>3. QED BY <3>1, <3>2
  <2>2. /\ Len(buffer') = Len(buffer) + n /\ DOMAIN buffer' = 1 .. Len(buffer) + n
        /\ \A i \in 1 .. Len(buffer) + n : buffer'[i] = IF i <= Len(buffer) THEN buffer[i] ELSE head[i - Len(buffer)]
    BY <2>a, LenProperties
  <2>3. DOMAIN buffer = 1 .. Len(buffer) /\ DOMAIN out = 1 .. Len(out)
    BY <1>4, LenProperties
  <2>4. QED BY <1>4, <2>1, <2>2, <2>3
<1>8. DOMAIN buffer = 1 .. Len(buffer) /\ DOMAIN out = 1 .. Len(out)
  BY <1>4, LenProperties
<1>9. /\ Rises(buffer) /\ Rises(out)
      /\ \A i \in DOMAIN buffer : \A j \in DOMAIN out : buffer[i] < out[j]
      /\ \A i \in DOMAIN buffer : LastEnd < buffer[i] /\ buffer[i] <= produced
      /\ \A i \in DOMAIN out : LastEnd < out[i] /\ out[i] <= produced
  BY DEF InOrder, Rising
<1>10. Rises(buffer')
  <2> SUFFICES ASSUME NEW i \in DOMAIN buffer', NEW j \in DOMAIN buffer', i < j
               PROVE  buffer'[i] < buffer'[j]
    BY DEF Rises
  <2>1. CASE j \in DOMAIN buffer /\ buffer'[j] = buffer[j]
    <3>1. i \in DOMAIN buffer /\ buffer'[i] = buffer[i]
      BY <1>4, <1>7, <1>8, <2>1
    <3>2. QED BY <1>9, <2>1, <3>1 DEF Rises
  <2>2. CASE /\ j - Len(buffer) \in DOMAIN out /\ buffer'[j] = out[j - Len(buffer)] /\ j \in Nat
    <3>1. CASE i \in DOMAIN buffer /\ buffer'[i] = buffer[i]
      BY <1>9, <2>2, <3>1
    <3>2. CASE /\ i - Len(buffer) \in DOMAIN out /\ buffer'[i] = out[i - Len(buffer)] /\ i \in Nat
      <4>1. i - Len(buffer) < j - Len(buffer)
        BY <1>4, <2>2, <3>2
      <4>2. QED BY <1>9, <2>2, <3>2, <4>1 DEF Rises
    <3>3. QED BY <1>7, <3>1, <3>2
  <2>3. QED BY <1>7, <2>1, <2>2
<1>11. Rises(out')
  BY <1>4, <1>6, <1>9 DEF Rises
<1>12. \A i \in DOMAIN buffer' : \A j \in DOMAIN out' : buffer'[i] < out'[j]
  <2> SUFFICES ASSUME NEW i \in DOMAIN buffer', NEW j \in DOMAIN out'
               PROVE  buffer'[i] < out'[j]
    OBVIOUS
  <2>1. n + j \in DOMAIN out /\ out'[j] = out[n + j] /\ j \in Nat /\ n < n + j
    BY <1>6
  <2>2. CASE i \in DOMAIN buffer /\ buffer'[i] = buffer[i]
    BY <1>9, <2>1, <2>2
  <2>3. CASE i - Len(buffer) \in 1 .. n /\ i - Len(buffer) \in DOMAIN out /\ buffer'[i] = out[i - Len(buffer)]
    <3>1. i - Len(buffer) < n + j
      BY <1>4, <2>1, <2>3
    <3>2. QED BY <1>9, <2>1, <2>3, <3>1 DEF Rises
  <2>4. QED BY <1>7, <2>2, <2>3
<1>13. \A i \in DOMAIN buffer' : LastEnd < buffer'[i] /\ buffer'[i] <= produced
  BY <1>7, <1>9
<1>14. \A i \in DOMAIN out' : LastEnd < out'[i] /\ out'[i] <= produced
  BY <1>6, <1>9
<1>15. Rising'
  BY <1>3, <1>10, <1>11, <1>12, <1>13, <1>14 DEF Rising
<1>16. QED BY <1>3, <1>15 DEF InOrder

\* Bytes are taken from the front.
LEMMA TakenInOrder ==
  ASSUME TypeOK, Rising, NEW n \in 0 .. Len(buffer), buffer' = Rest(buffer, n),
         UNCHANGED <<out, produced>>,
         LastEnd' = LastEnd \/ (n > 0 /\ LastEnd' = buffer[n])
  PROVE  Rising'
<1>1. buffer \in Seq(Nat) /\ Len(buffer) \in Nat /\ n \in Nat
  BY DEF TypeOK
<1>3. \A j \in DOMAIN buffer' : n + j \in DOMAIN buffer /\ buffer'[j] = buffer[n + j] /\ j \in Nat /\ n < n + j
  BY <1>1, RestElements
<1>4. /\ Rises(buffer) /\ Rises(out)
      /\ \A i \in DOMAIN buffer : \A j \in DOMAIN out : buffer[i] < out[j]
      /\ \A i \in DOMAIN buffer : LastEnd < buffer[i] /\ buffer[i] <= produced
      /\ \A i \in DOMAIN out : LastEnd < out[i] /\ out[i] <= produced
  BY DEF Rising
<1>5. Rises(buffer') /\ Rises(out')
  BY <1>1, <1>3, <1>4 DEF Rises
<1>6. \A i \in DOMAIN buffer' : \A j \in DOMAIN out' : buffer'[i] < out'[j]
  BY <1>3, <1>4
<1>7. CASE LastEnd' = LastEnd
  BY <1>3, <1>4, <1>5, <1>6, <1>7 DEF Rising
<1>8. CASE n > 0 /\ LastEnd' = buffer[n]
  <2>1. n \in DOMAIN buffer
    BY <1>1, <1>8, LenProperties
  <2>2. \A i \in DOMAIN buffer' : LastEnd' < buffer'[i] /\ buffer'[i] <= produced'
    BY <1>1, <1>3, <1>4, <1>8, <2>1 DEF Rises
  <2>3. \A i \in DOMAIN out' : LastEnd' < out'[i] /\ out'[i] <= produced'
    BY <1>4, <1>8, <2>1
  <2>4. QED BY <1>5, <1>6, <2>2, <2>3 DEF Rising
<1>9. QED BY <1>7, <1>8

\* A message that arrives ends with a byte of the buffer: it is a later one.
Arrives(m) ==
  /\ m \in Msgs /\ start[m] # 0
  /\ delivered' = Append(delivered, m)
  /\ \E n \in 1 .. Len(buffer) : buffer[n] = End(m) /\ buffer' = Rest(buffer, n)

LEMMA ReceiveCases ==
  ASSUME TypeOK, ReceiveBytes
  PROVE  \/ /\ delivered' = delivered
            /\ \E n \in 0 .. Len(buffer) : buffer' = Rest(buffer, n)
         \/ \E m \in Msgs : Arrives(m)
<1> DEFINE bytes(n) == got \o First(buffer, n)
<1>1. PICK n \in 0 .. need :
        /\ Transfers(Min2(need, Len(buffer)), n)
        /\ buffer' = Rest(buffer, n)
        /\ CASE n < need -> /\ rpc' = "idle" /\ got' = bytes(n) /\ need' = need - n
                            /\ UNCHANGED <<size, delivered>>
             [] n = need /\ size = 0 -> AcceptHeader(bytes(n))
             [] n = need /\ size # 0 -> AcceptBody(bytes(n))
  BY DEF ReceiveBytes
<1>2. need > 0 /\ need \in Nat /\ n \in Nat /\ (n < need => n # need) /\ (n < need \/ n = need)
  BY SMTT(30) DEF ReceiveBytes, TypeOK
<1>3. /\ n \in 0 .. Len(buffer) /\ Len(First(buffer, n)) = n /\ First(buffer, n) \in Seq(Nat)
      /\ bytes(n) \in Seq(Nat) /\ Len(bytes(n)) = Len(got) + n
  BY <1>1, ReadFits
<1>4. /\ n < need => delivered' = delivered
      /\ n = need /\ size = 0 => AcceptHeader(bytes(n))
      /\ n = need /\ size # 0 => AcceptBody(bytes(n))
  <2> HIDE DEF bytes
  <2>1. QED BY <1>1, <1>2
<1>5. CASE n < need
  BY <1>1, <1>3, <1>4, <1>5
<1>6. CASE n = need /\ size = 0
  BY <1>1, <1>3, <1>4, <1>6 DEF AcceptHeader, Lose
<1>7. CASE n = need /\ size # 0
  <2>1. CASE delivered' = delivered
    BY <1>1, <1>3, <2>1
  <2>2. CASE \E m \in Msgs : HasBody(m, bytes(n)) /\ delivered' = Append(delivered, m)
    <3>1. PICK m \in Msgs : HasBody(m, bytes(n)) /\ delivered' = Append(delivered, m)
      BY <2>2
    <3>2. start[m] # 0 /\ bytes(n) = Bytes(start[m] + HeaderSize, sizeOf[m])
      BY <3>1 DEF HasBody
    <3> DEFINE p == start[m] + HeaderSize
               len == sizeOf[m]
               head == First(buffer, n)
    <3>3. p \in Nat /\ len \in Nat /\ End(m) = p + len - 1
      BY LayoutElements DEF End
    <3>4. bytes(n) = Bytes(p, len) /\ bytes(n) = got \o head
      BY <3>2
    <3>5. /\ head \in Seq(Nat) /\ Len(head) = n /\ head[n] = buffer[n] /\ n \in 1 .. Len(buffer) /\ n > 0
      <4>1. buffer \in Seq(Nat) /\ n \in 1 .. n /\ n \in 1 .. Len(buffer)
        BY <1>2, <1>3, <1>7 DEF TypeOK
      <4>2. First(buffer, n)[n] = buffer[n]
        BY <1>3, <4>1, Split
      <4>3. QED BY <1>2, <1>3, <1>7, <4>1, <4>2
    <3>6. got \in Seq(Nat) /\ Len(got) \in Nat
      BY DEF TypeOK
    <3> HIDE DEF p, len, head, bytes
    <3>a. /\ Len(Bytes(p, len)) = len
          /\ \A k \in 1 .. len : Bytes(p, len)[k] = p + k - 1
      BY ONLY <3>3, BytesType
    <3>b. /\ Len(got \o head) = Len(got) + Len(head)
          /\ \A k \in 1 .. Len(got) + Len(head) : (got \o head)[k] = IF k <= Len(got) THEN got[k] ELSE head[k - Len(got)]
      BY ONLY <3>5, <3>6, ConcatProperties
    <3>7. /\ Len(bytes(n)) = len /\ Len(bytes(n)) = Len(got) + n
          /\ \A k \in 1 .. len : bytes(n)[k] = p + k - 1
          /\ \A k \in 1 .. Len(got) + n : bytes(n)[k] = IF k <= Len(got) THEN got[k] ELSE head[k - Len(got)]
      BY ONLY <3>4, <3>5, <3>a, <3>b
    <3> DEFINE last == Len(got) + n
    <3>8. last \in 1 .. len /\ last \in 1 .. Len(got) + n /\ ~(last <= Len(got)) /\ last - Len(got) = n /\ last = len
      BY <1>2, <3>3, <3>5, <3>6, <3>7
    <3> HIDE DEF last
    <3>9. bytes(n)[last] = p + last - 1 /\ bytes(n)[last] = head[n]
      BY <3>7, <3>8
    <3>10. buffer[n] = End(m)
      BY <3>3, <3>5, <3>8, <3>9
    <3>11. QED BY <1>1, <3>1, <3>2, <3>5, <3>10 DEF Arrives
  <2>3. QED BY <1>4, <1>7, <2>1, <2>2 DEF AcceptBody, Lose
<1>8. QED BY <1>2, <1>5, <1>6, <1>7

\* It is the number after the last, or a later one.
LEMMA ArrivesLater ==
  ASSUME TypeOK, InOrder, NEW m \in Msgs, Arrives(m)
  PROVE  delivered = <<>> \/ delivered[Len(delivered)] < m
<1> SUFFICES ASSUME delivered # <<>> PROVE delivered[Len(delivered)] < m
  OBVIOUS
<1> DEFINE l == delivered[Len(delivered)]
<1>1. l \in Msgs /\ start[l] # 0 /\ LastEnd = End(l)
  BY DEF InOrder, InTurn, LastEnd
<1>2. PICK n \in 1 .. Len(buffer) : buffer[n] = End(m)
  BY DEF Arrives
<1>3. End(l) < End(m) /\ End(l) \in Int /\ End(m) \in Int
  <2>1. n \in DOMAIN buffer
    BY <1>2, LenProperties DEF TypeOK
  <2>2. QED BY <1>1, <1>2, <2>1, LastEndType DEF InOrder, Rising
<1>4. start[m] # 0
  BY DEF Arrives
<1> HIDE DEF l
<1>5. m < l => End(m) < start[l]
  BY <1>1, <1>4 DEF InOrder, InTurn
<1>6. start[l] \in Nat /\ start[l] <= End(l)
  <2>1. start[l] \in Nat /\ sizeOf[l] \in Nat \ {0} /\ HeaderSize \in Nat
    BY <1>1, LayoutElements
  <2>2. QED BY <2>1 DEF End
<1>7. l \in Int /\ m \in Int
  BY <1>1 DEF Msgs
<1>8. QED BY <1>3, <1>5, <1>6, <1>7 DEF l

LEMMA ReceiveBytesInOrder ==
  ASSUME TypeOK, InOrder, ReceiveBytes
  PROVE  InOrder'
<1>1. UNCHANGED <<queue, out, layoutVars>>
  BY DEF ReceiveBytes, senderVars
<1>2. CASE delivered' = delivered /\ \E n \in 0 .. Len(buffer) : buffer' = Rest(buffer, n)
  <2>1. InTurn' /\ LastEnd' = LastEnd
    BY <1>1, <1>2, SameTurn DEF InOrder
  <2>2. Rising'
    <3>1. PICK n \in 0 .. Len(buffer) : buffer' = Rest(buffer, n)
      BY <1>2
    <3>2. UNCHANGED <<out, produced>> /\ Rising
      BY <1>1 DEF InOrder, layoutVars
    <3>3. LastEnd' = LastEnd \/ (n > 0 /\ LastEnd' = buffer[n])
      BY <2>1
    <3>4. UNCHANGED <<out, produced>> /\ Rising /\ buffer' = Rest(buffer, n) /\ TypeOK
      BY <3>1, <3>2
    <3>5. QED BY ONLY <3>3, <3>4, TakenInOrder
  <2>3. QED BY <2>1, <2>2 DEF InOrder
<1>3. ASSUME NEW m \in Msgs, Arrives(m)
      PROVE  InOrder'
  <2>1. PICK n \in 1 .. Len(buffer) : buffer[n] = End(m) /\ buffer' = Rest(buffer, n)
    BY <1>3 DEF Arrives
  <2>2. /\ delivered' # <<>> /\ delivered'[Len(delivered')] = m
    <3>1. delivered \in Seq(Nat) /\ m \in Nat /\ delivered' = Append(delivered, m)
      BY <1>3 DEF TypeOK, Arrives, Msgs
    <3>2. QED BY <3>1
  <2>3. LastEnd' = End(m)
    <3>1. sizeOf' = sizeOf /\ start' = start
      BY <1>1 DEF layoutVars
    <3>2. QED BY <2>2, <3>1 DEF LastEnd, End
  <2>4. InTurn'
    <3>1. start[m] # 0
      BY <1>3 DEF Arrives
    <3>2. UNCHANGED <<queue, sizeOf, start, produced>>
      BY <1>1 DEF layoutVars
    <3>3. QED BY <2>2, <3>1, <3>2 DEF InOrder, InTurn, End, Msgs
  <2>5. Rising'
    <3>1. Len(buffer) \in Nat
      BY DEF TypeOK
    <3>2. n \in 0 .. Len(buffer) /\ n > 0
      BY <3>1
    <3>3. QED BY <1>1, <2>1, <2>3, <3>2, TakenInOrder DEF InOrder, layoutVars
  <2>6. QED BY <2>4, <2>5 DEF InOrder
<1>4. QED BY <1>2, <1>3, ReceiveCases

LEMMA StepInOrder == TypeOK /\ InOrder /\ [Next]_vars => InOrder'
<1> SUFFICES ASSUME TypeOK, InOrder, [Next]_vars PROVE InOrder'
  OBVIOUS
\* Nothing is sent or taken.
<1>1. ASSUME UNCHANGED <<buffer, layoutVars, delivered>>, queue' = queue \/ queue' = <<>>,
             out' = out \/ out' = <<>>
      PROVE  InOrder'
  <2>1. InTurn' /\ LastEnd' = LastEnd
    BY <1>1, SameTurn DEF InOrder
  <2>2. Rising'
    <3>1. buffer' = buffer /\ produced' = produced
      BY <1>1 DEF layoutVars
    <3>2. CASE out' = out
      BY <2>1, <3>1, <3>2 DEF InOrder, Rising, Rises
    <3>3. CASE out' = <<>>
      <4>1. DOMAIN out' = {}
        BY <3>3
      <4>2. QED BY <2>1, <3>1, <4>1 DEF InOrder, Rising, Rises
    <3>4. QED BY <1>1, <3>2, <3>3
  <2>3. QED BY <2>1, <2>2 DEF InOrder
<1>2. ASSUME NEW n \in Sizes, Enqueue(n) PROVE InOrder'
  BY <1>2, EnqueueInOrder
<1>3. CASE SendBytes
  BY <1>3, SendBytesInOrder
<1>4. CASE SendNext
  <2>1. CASE queue = <<>>
    BY <1>1, <1>4, <2>1 DEF SendNext, shmVars, layoutVars
  <2>2. QED BY <1>4, <2>1, SendNextInOrder
<1>5. CASE ReceiveBytes
  BY <1>5, ReceiveBytesInOrder
<1>6. CASE SendBegin \/ ReceiveBegin \/ ReceiveSetup \/ UNCHANGED vars
  BY <1>1, <1>6 DEF SendBegin, ReceiveBegin, ReceiveSetup, vars, senderVars, shmVars
<1>7. CASE SenderDies \/ ReceiverDies
  BY <1>1, <1>7 DEF SenderDies, ReceiverDies, Dies, senderVars
<1>8. QED BY <1>2, <1>3, <1>4, <1>5, <1>6, <1>7 DEF Next, Send, Receive

\* Every step of the channel is a step of the queue, or none that the queue sees.
LEMMA StepImplements ==
  TypeOK /\ TypeOK' /\ InOrder /\ BytesConserved /\ BytesConserved' /\ [Next]_vars => [Fifo!Next]_Fifo!vars
<1> SUFFICES ASSUME TypeOK, TypeOK', InOrder, BytesConserved, BytesConserved', [Next]_vars
             PROVE  [Fifo!Next]_Fifo!vars
  OBVIOUS
<1>1. deaths \in Nat /\ Len(sizeOf) \in Nat /\ delivered \in Seq(Nat)
  BY DEF TypeOK
\* The queue does not see it.
<1>2. ASSUME UNCHANGED <<sizeOf, delivered, deaths>>
      PROVE  [Fifo!Next]_Fifo!vars
  BY <1>2 DEF Fifo!vars
<1>3. ASSUME NEW n \in Sizes, Enqueue(n) PROVE [Fifo!Next]_Fifo!vars
  <2>1. Len(sizeOf') = Len(sizeOf) + 1 /\ delivered' = delivered /\ deaths' = deaths
    BY <1>3 DEF Enqueue, TypeOK
  <2>2. QED BY <2>1 DEF Fifo!Next, Fifo!Enqueue
<1>4. CASE Send \/ ReceiveBegin \/ ReceiveSetup \/ UNCHANGED vars
  BY <1>2, <1>4 DEF Send, SendBegin, SendBytes, SendNext, ReceiveBegin, ReceiveSetup, vars, layoutVars
<1>5. CASE ReceiveBytes
  <2>1. UNCHANGED <<sizeOf, deaths>>
    BY <1>5 DEF ReceiveBytes, layoutVars
  <2>2. CASE delivered' = delivered
    BY <1>2, <2>1, <2>2
  <2>3. ASSUME NEW m \in Msgs, Arrives(m) PROVE [Fifo!Next]_Fifo!vars
    <3>1. m \in 1 .. Len(sizeOf) /\ m \in Nat /\ delivered' = Append(delivered, m)
      BY <2>3 DEF Msgs, Arrives
    <3>2. Fifo!LastDelivered \in Nat /\ Fifo!LastDelivered < m
      <4>1. CASE delivered = <<>>
        BY <1>1, <3>1, <4>1 DEF Fifo!LastDelivered
      <4>2. CASE delivered # <<>>
        <5>1. delivered[Len(delivered)] < m
          BY <2>3, <4>2, ArrivesLater
        <5>2. Len(delivered) \in 1 .. Len(delivered)
          BY <1>1, <4>2, EmptySeq
        <5>3. delivered[Len(delivered)] \in Nat
          BY <1>1, <5>2, ElementOfSeq
        <5>4. QED BY <4>2, <5>1, <5>3 DEF Fifo!LastDelivered
      <4>3. QED BY <4>1, <4>2
    <3>3. ~(deaths > 0) => m = Fifo!LastDelivered + 1
      <4> SUFFICES ASSUME ~(deaths > 0) PROVE m = Fifo!LastDelivered + 1
        OBVIOUS
      <4>1. deaths = 0 /\ deaths' = 0
        BY <1>1, <2>1
      <4> DEFINE k == Len(delivered)
      <4>2. k \in Nat /\ delivered = Bytes(1, k) /\ delivered' = Bytes(1, k + 1)
        <5>1. Len(delivered') = k + 1
          BY <1>1, <3>1
        <5>2. delivered = Bytes(1, Len(delivered)) /\ delivered' = Bytes(1, Len(delivered'))
          BY <4>1 DEF BytesConserved, InStream
        <5>3. QED BY <1>1, <5>1, <5>2
      <4>3. m = delivered'[k + 1]
        BY <1>1, <3>1
      <4>4. m = k + 1
        <5> HIDE DEF k
        <5>1. Bytes(1, k + 1)[k + 1] = 1 + (k + 1) - 1
          <6>1. k + 1 \in Nat /\ 1 \in Nat /\ k + 1 \in 1 .. k + 1
            BY <4>2
          <6>2. QED BY ONLY <6>1, BytesType
        <5>2. QED BY <4>2, <4>3, <5>1
      <4>5. Fifo!LastDelivered = k
        <5>1. CASE k = 0
          BY <1>1, <5>1, EmptySeq DEF Fifo!LastDelivered
        <5>2. CASE k # 0
          <6>1. delivered # <<>> /\ delivered[k] = Bytes(1, k)[k]
            BY <4>2, <5>2
          <6> HIDE DEF k
          <6>2. Bytes(1, k)[k] = 1 + k - 1
            <7>1. k \in Nat /\ 1 \in Nat /\ k \in 1 .. k
              BY <4>2, <5>2
            <7>2. QED BY ONLY <7>1, BytesType
          <6>3. QED BY <4>2, <6>1, <6>2 DEF Fifo!LastDelivered, k
        <5>3. QED BY <5>1, <5>2
      <4>6. QED BY <4>4, <4>5
    <3>4. m \in Fifo!LastDelivered + 1 .. Len(sizeOf)
      BY <1>1, <3>1, <3>2
    <3>5. Fifo!Deliver(m)
      BY <2>1, <3>1, <3>3, <3>4 DEF Fifo!Deliver
    <3>6. QED BY <3>1, <3>5 DEF Fifo!Next
  <2>4. QED BY <1>5, <2>2, <2>3, ReceiveCases
<1>6. CASE SenderDies \/ ReceiverDies
  <2>1. deaths' = deaths + 1 /\ UNCHANGED <<sizeOf, delivered>>
    BY <1>6 DEF SenderDies, ReceiverDies, Dies, layoutVars
  <2>2. deaths' > 0
    BY <1>1, <2>1
  <2>3. QED BY <2>1, <2>2 DEF Fifo!Next, Fifo!Break
<1>7. QED BY <1>3, <1>4, <1>5, <1>6 DEF Next, Receive

\* One direction of the channel (sender and receiver) implements the queue, but for its
\* liveness: messages arrive whole, at most once and in the order of the calls of
\* enqueue, and as long as nobody dies none is left out; whatever the sizes, however
\* their bytes are cut up, and however often either process dies.
THEOREM ChannelImplementsQueue == Spec => Fifo!Spec
<1>1. Init => InOrder /\ Fifo!Init
  <2> SUFFICES ASSUME Init PROVE InOrder /\ Fifo!Init
    OBVIOUS
  <2>1. /\ queue = <<>> /\ out = <<>> /\ buffer = <<>> /\ sizeOf = <<>> /\ delivered = <<>>
        /\ deaths = 0 /\ Msgs = {} /\ Len(sizeOf) = 0
    BY DEF Init, Msgs
  <2>2. InOrder
    BY <2>1 DEF InOrder, InTurn, Rising, Rises
  <2>3. QED BY <2>1, <2>2 DEF Fifo!Init
<1>2. TypeOK /\ InOrder /\ [Next]_vars => InOrder'
  BY StepInOrder
<1>3. TypeOK /\ TypeOK' /\ InOrder /\ BytesConserved /\ BytesConserved' /\ [Next]_vars
        => [Fifo!Next]_Fifo!vars
  BY StepImplements
<1>4. QED BY <1>1, <1>2, <1>3, TypeCorrect, BytesAreConserved, PTL DEF Spec, Fifo!Spec
=============================================================================
