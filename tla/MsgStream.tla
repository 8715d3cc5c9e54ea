----------------------------- MODULE MsgStream -----------------------------
(***************************************************************************)
(* One direction of the channel between the client and a sandbox process   *)
(* (common-message-send-rcv.hpp over the msg_buffer of common-shm.hpp).    *)
(*                                                                         *)
(* Any thread enqueues messages.  One thread of the sending process calls  *)
(* send() again and again: it serializes the message at the front, behind  *)
(* its size, and writes as many of the bytes as fit into a buffer in       *)
(* shared memory.  One thread of the receiving process calls receive()     *)
(* again and again: it takes what bytes there are, first those of a size,  *)
(* then those of a message of that size.  Either process may die, and be   *)
(* started again with nothing but the buffer in shared memory to go on.    *)
(*                                                                         *)
(* Abstractions: a byte is its position among all the bytes that have been *)
(* serialized, a message is the number of its enqueue call, and what a     *)
(* message says is left out.                                               *)
(***************************************************************************)
EXTENDS Integers, Sequences

CONSTANTS
  Sizes,        \* the sizes in bytes of serialized messages
  HeaderSize,   \* sizeof(size_t)
  Capacity,     \* MSG_BUFFER_SIZE
  MaxMsgs,      \* bounds: how many messages are enqueued,
  MaxTimeouts,  \* how often the mutex is not acquired in time,
  MaxDeaths     \* how often a process dies

\* A message starts with the index of its type, so none is empty.
ASSUME SizesAssumption == Sizes \subseteq Nat \ {0}
ASSUME LayoutAssumption == HeaderSize \in Nat \ {0} /\ Capacity \in Nat \ {0}
ASSUME BoundsAssumption == MaxMsgs \in Nat /\ MaxTimeouts \in Nat /\ MaxDeaths \in Nat

VARIABLES
  \* sender
  queue,      \* local_queue_
  spc,        \* "idle" or inside send()
  out,        \* the last bytes_remaining_ bytes of buffer_
  \* shared memory
  buffer,     \* msg_buffer.bytes_
  stuck,      \* the mutex is held by a process that has died
  \* receiver
  rpc,        \* "idle", inside receive(), or "lost": see ReceiveBytes
  got,        \* the bytes of byte_buffer_ that have arrived
  need,       \* bytes_remaining_
  size,       \* msg_size_
  \* history
  sizeOf,     \* the size of every message that has been enqueued
  start,      \* the position of its first byte, 0 before it is serialized
  produced,   \* how many bytes have been serialized
  delivered,  \* the messages that receive() has put into msg_buffer_
  timeouts, deaths

senderVars   == <<queue, spc, out>>
shmVars      == <<buffer, stuck>>
receiverVars == <<rpc, got, need, size>>
layoutVars   == <<sizeOf, start, produced>>

vars == <<senderVars, shmVars, receiverVars, layoutVars, delivered, timeouts, deaths>>

Min2(a, b) == IF a < b THEN a ELSE b

First(s, n) == SubSeq(s, 1, n)
Rest(s, n)  == SubSeq(s, n + 1, Len(s))

\* n bytes from a position on
Bytes(from, n) == [k \in 1 .. n |-> from + k - 1]

\* How many of the bytes a call transfers, when it could transfer n: none if it
\* does not get the mutex within a second.
Transfers(n, moved) ==
  \/ ~stuck /\ moved = n /\ UNCHANGED timeouts
  \/ stuck /\ moved = 0 /\ UNCHANGED timeouts
  \/ ~stuck /\ timeouts < MaxTimeouts /\ moved = 0 /\ timeouts' = timeouts + 1

-----------------------------------------------------------------------------
(* The sending process.                                                    *)

Enqueue(n) ==
  /\ Len(sizeOf) < MaxMsgs
  /\ sizeOf' = Append(sizeOf, n)
  /\ start' = Append(start, 0)
  /\ queue' = Append(queue, Len(sizeOf) + 1)
  /\ UNCHANGED <<spc, out, shmVars, receiverVars, produced, delivered, timeouts, deaths>>

SendBegin ==
  /\ spc = "idle"
  /\ spc' = "loop"
  /\ UNCHANGED <<queue, out, shmVars, receiverVars, layoutVars, delivered, timeouts, deaths>>

\* What msg_buffer::write can take of n bytes.
\* Mutant: the space that is left is not looked at.
RoomUnchecked(n) == Min2(n, Capacity)

Room(n) == Min2(n, Capacity - Len(buffer))

\* Mutant: the bytes that did not fit are forgotten.
SendBytesOnce ==
  /\ spc = "loop" /\ out # <<>>
  /\ \E n \in 0 .. Len(out) :
       /\ Transfers(Room(Len(out)), n)
       /\ buffer' = buffer \o First(out, n)
       /\ out' = <<>>
       /\ spc' = IF n < Len(out) THEN "idle" ELSE "loop"
  /\ UNCHANGED <<queue, stuck, receiverVars, layoutVars, delivered, deaths>>

\* send() returns when not all bytes could be written.
SendBytes ==
  /\ spc = "loop" /\ out # <<>>
  /\ \E n \in 0 .. Len(out) :
       /\ Transfers(Room(Len(out)), n)
       /\ buffer' = buffer \o First(out, n)
       /\ out' = Rest(out, n)
       /\ spc' = IF n < Len(out) THEN "idle" ELSE "loop"
  /\ UNCHANGED <<queue, stuck, receiverVars, layoutVars, delivered, deaths>>

\* Mutant: the message at the back of the queue is sent first.
SendNextFromBack ==
  /\ spc = "loop" /\ out = <<>>
  /\ IF queue = <<>>
     THEN spc' = "idle" /\ UNCHANGED <<queue, out, start, produced>>
     ELSE LET m     == queue[Len(queue)]
              total == HeaderSize + sizeOf[m]
          IN  /\ out' = Bytes(produced + 1, total)
              /\ start' = [start EXCEPT ![m] = produced + 1]
              /\ produced' = produced + total
              /\ queue' = First(queue, Len(queue) - 1)
              /\ UNCHANGED spc
  /\ UNCHANGED <<shmVars, receiverVars, sizeOf, delivered, timeouts, deaths>>

\* The front of the queue is serialized behind its size, or send() returns.
SendNext ==
  /\ spc = "loop" /\ out = <<>>
  /\ IF queue = <<>>
     THEN spc' = "idle" /\ UNCHANGED <<queue, out, start, produced>>
     ELSE LET m     == Head(queue)
              total == HeaderSize + sizeOf[m]
          IN  /\ out' = Bytes(produced + 1, total)
              /\ start' = [start EXCEPT ![m] = produced + 1]
              /\ produced' = produced + total
              /\ queue' = Tail(queue)
              /\ UNCHANGED spc
  /\ UNCHANGED <<shmVars, receiverVars, sizeOf, delivered, timeouts, deaths>>

Send == SendBegin \/ SendBytes \/ SendNext

-----------------------------------------------------------------------------
(* The receiving process.                                                  *)

ReceiveBegin ==
  /\ rpc = "idle"
  /\ rpc' = "loop"
  /\ UNCHANGED <<senderVars, shmVars, got, need, size, layoutVars, delivered, timeouts, deaths>>

ReceiveSetup ==
  /\ rpc = "loop" /\ need = 0
  /\ got' = <<>>
  /\ need' = HeaderSize
  /\ UNCHANGED <<senderVars, shmVars, rpc, size, layoutVars, delivered, timeouts, deaths>>

\* The message whose size, or whose bytes, the bytes are.
HasHeader(m, bytes) == start[m] # 0 /\ bytes = Bytes(start[m], HeaderSize)
HasBody(m, bytes) ==
  start[m] # 0 /\ bytes = Bytes(start[m] + HeaderSize, sizeOf[m])

\* Bytes that are not a size, or not a message, are taken for one all the same.
\* What the receiver does from then on is not modelled.
Lose == rpc' = "lost" /\ UNCHANGED <<got, need, size, delivered>>

Msgs == 1 .. Len(sizeOf)

\* All bytes of a size have arrived: those of the message are next.
AcceptHeader(bytes) ==
  \/ \E m \in Msgs :
       /\ HasHeader(m, bytes)
       /\ size' = sizeOf[m] /\ need' = sizeOf[m] /\ got' = <<>>
       /\ UNCHANGED <<rpc, delivered>>
  \/ (\A m \in Msgs : ~HasHeader(m, bytes)) /\ Lose

\* All bytes of a message have arrived.
AcceptBody(bytes) ==
  \/ \E m \in Msgs :
       /\ HasBody(m, bytes)
       /\ delivered' = Append(delivered, m)
       /\ size' = 0 /\ need' = 0 /\ got' = bytes
       /\ UNCHANGED rpc
  \/ (\A m \in Msgs : ~HasBody(m, bytes)) /\ Lose

\* receive() returns when fewer bytes are there than it needs.
ReceiveBytes ==
  /\ rpc = "loop" /\ need > 0
  /\ \E n \in 0 .. need :
       /\ Transfers(Min2(need, Len(buffer)), n)
       /\ buffer' = Rest(buffer, n)
       /\ LET bytes == got \o First(buffer, n)
          IN  CASE n < need -> /\ rpc' = "idle" /\ got' = bytes /\ need' = need - n
                               /\ UNCHANGED <<size, delivered>>
                [] n = need /\ size = 0 -> AcceptHeader(bytes)
                [] n = need /\ size # 0 -> AcceptBody(bytes)
  /\ UNCHANGED <<senderVars, stuck, layoutVars, deaths>>

Receive == ReceiveBegin \/ ReceiveSetup \/ ReceiveBytes

-----------------------------------------------------------------------------
(* A process dies, perhaps while it holds the mutex; another takes its     *)
(* place.                                                                  *)

Dies(inTransfer) ==
  /\ deaths < MaxDeaths
  /\ deaths' = deaths + 1
  /\ stuck' \in IF inTransfer THEN {stuck, TRUE} ELSE {stuck}
  /\ UNCHANGED <<buffer, layoutVars, delivered, timeouts>>

SenderDies ==
  /\ Dies(spc = "loop" /\ out # <<>>)
  /\ queue' = <<>> /\ spc' = "idle" /\ out' = <<>>
  /\ UNCHANGED receiverVars

ReceiverDies ==
  /\ Dies(rpc = "loop" /\ need > 0)
  /\ rpc' = "idle" /\ got' = <<>> /\ need' = 0 /\ size' = 0
  /\ UNCHANGED senderVars

-----------------------------------------------------------------------------
Init ==
  /\ queue = <<>> /\ spc = "idle" /\ out = <<>>
  /\ buffer = <<>> /\ stuck = FALSE
  /\ rpc = "idle" /\ got = <<>> /\ need = 0 /\ size = 0
  /\ sizeOf = <<>> /\ start = <<>> /\ produced = 0
  /\ delivered = <<>> /\ timeouts = 0 /\ deaths = 0

Next ==
  \/ \E n \in Sizes : Enqueue(n)
  \/ Send \/ Receive \/ SenderDies \/ ReceiverDies

Spec == Init /\ [][Next]_vars

\* Both loops go on for as long as their processes live.
LiveSpec == Spec /\ WF_vars(Send) /\ WF_vars(Receive)

-----------------------------------------------------------------------------
(* Properties.                                                             *)

TypeOK ==
  /\ queue \in Seq(Msgs) /\ spc \in {"idle", "loop"}
  /\ out \in Seq(Nat)
  /\ buffer \in Seq(Nat) /\ Len(buffer) <= Capacity
  /\ stuck \in BOOLEAN
  /\ rpc \in {"idle", "loop", "lost"} /\ got \in Seq(Nat)
  /\ need \in Nat /\ size \in Sizes \union {0}
  /\ sizeOf \in Seq(Sizes) /\ start \in Seq(Nat) /\ Len(start) = Len(sizeOf)
  /\ produced \in Nat
  /\ delivered \in Seq(Nat)
  /\ timeouts \in Nat /\ deaths \in Nat

\* The channel implements the abstract queue: however the bytes of a message are
\* cut up between calls and whatever its size, messages arrive whole, once, in
\* order and, as long as both processes live, at all (sender, receiver).
Fifo == INSTANCE MessageFifo WITH enqueued <- Len(sizeOf), broken <- deaths > 0
ImplementsFifo == Fifo!LiveSpec

\* As long as nobody dies, the receiver never takes anything else for a size or
\* for a message (msg_size_ and bytes_remaining_ of receiver).
InStepWhileAlive == deaths = 0 => rpc # "lost"

\* How many messages have been serialized, where a message ends, and where the
\* receiver is: after the last byte of the messages delivered, and after the
\* last byte taken.
Serialized == Len(sizeOf) - Len(queue)
End(m) == start[m] + HeaderSize + sizeOf[m] - 1
Base == IF delivered = <<>> THEN 0 ELSE End(Len(delivered))
Taken ==
  CASE need = 0             -> Base
    [] need > 0 /\ size = 0 -> Base + Len(got)
    [] need > 0 /\ size # 0 -> Base + HeaderSize + Len(got)

\* The messages are laid out one behind the other.
LaidOut ==
  /\ Serialized \in 0 .. Len(sizeOf)
  /\ queue = Bytes(Serialized + 1, Len(queue))
  /\ \A m \in Msgs : start[m] # 0 <=> m <= Serialized
  /\ \A m \in 1 .. Serialized :
       /\ start[m] = IF m = 1 THEN 1 ELSE End(m - 1) + 1
       /\ \A l \in 1 .. m - 1 : End(l) < start[m]
  /\ produced = IF Serialized = 0 THEN 0 ELSE End(Serialized)

\* What has been taken, what is in the buffer and what is still to be written
\* are consecutive parts of one stream, and the receiver is where a size or a
\* message begins, or the right number of bytes into it.
InStream ==
  /\ Len(delivered) <= Serialized
  /\ delivered = Bytes(1, Len(delivered))
  /\ buffer = Bytes(Taken + 1, Len(buffer))
  /\ out = Bytes(Taken + Len(buffer) + 1, Len(out))
  /\ Taken + Len(buffer) + Len(out) = produced
  /\ need = 0 => size = 0
  /\ need > 0 /\ size = 0 =>
       got = Bytes(Base + 1, Len(got)) /\ Len(got) + need = HeaderSize
  /\ need > 0 /\ size # 0 =>
       /\ Len(delivered) < Serialized /\ size = sizeOf[Len(delivered) + 1]
       /\ got = Bytes(Base + HeaderSize + 1, Len(got)) /\ Len(got) + need = size

\* Not a byte is lost, repeated or moved on its way, at any point of either loop
\* (the offsets that send and receive compute from bytes_remaining_).
BytesConserved == deaths = 0 => rpc # "lost" /\ LaidOut /\ InStream

\* The receiver never takes other bytes for a size (the assertion on msg_size_,
\* "sanity check"), also after a process has been started again.
InStep == rpc # "lost"

=============================================================================
