-------------------------- MODULE AudioPath_proofs --------------------------
(***************************************************************************)
(* Theorems about AudioPath, for any devices, ports and graphs: types; what*)
(* a device sends on is heard in order, once, whatever fails on the way,   *)
(* and all of it while nothing fails; audio is one buffer late for each    *)
(* connection between sandboxes.                                           *)
(*                                                                         *)
(* In order, once: an event goes from the queue of the main thread, or     *)
(* from the host, to the input port, to the output port, to the host.  In  *)
(* that order the four sequences of a device are one stream, sorted for    *)
(* each sender; a step moves a part of one to the next, drops a part, or   *)
(* adds an event that is later than all of its sender.  For all of it to   *)
(* be heard, the output port must be empty when its device is processed    *)
(* (Calm); and the age of each buffer is followed from the host's inputs   *)
(* along the graph to the host's outputs (Audible).                        *)
(***************************************************************************)
EXTENDS AudioPath, ProcessingOrder_proofs

Sorted(s) == \A i, j \in DOMAIN s : i < j => (s[i].from = s[j].from => Later(s[j], s[i]))

\* Every event of s is before those of the same sender in t.
Before(s, t) ==
  \A i \in DOMAIN s, j \in DOMAIN t : s[i].from = t[j].from => Later(t[j], s[i])

\* All have been sent before the events that are to come.
Sent(s, n) == \A i \in DOMAIN s : s[i].n > n

FromMain(s) == \A i \in DOMAIN s : s[i].from = "main"

\* The stream of one device, from the host's end to that of the main thread.
Stream(told, out, in, q, n) ==
  /\ told \in Seq(Events) /\ out \in Seq(Events) /\ in \in Seq(Events) /\ q \in Seq(Events)
  /\ Sorted(told) /\ Sorted(out) /\ Sorted(in) /\ Sorted(q)
  /\ Before(told, out) /\ Before(told, in) /\ Before(told, q)
  /\ Before(out, in) /\ Before(out, q) /\ Before(in, q)
  /\ Sent(told, n) /\ Sent(out, n) /\ Sent(in, n) /\ Sent(q, n)
  /\ FromMain(q)

Streams ==
  /\ left \in [Kinds -> Nat]
  /\ DOMAIN heard = Devices /\ DOMAIN eventsOut = Devices
  /\ DOMAIN eventsIn = Devices /\ DOMAIN queue = Devices
  /\ \A d \in Devices :
       /\ Stream(heard[d], eventsOut[d], eventsIn[d], queue[d], left["event"])
       /\ Len(eventsIn[d]) <= PortSize

-----------------------------------------------------------------------------
(* Sequences of events.                                                    *)

LEMMA ElementOfSeq ==
  ASSUME NEW s \in Seq(Events), NEW i \in DOMAIN s
  PROVE  s[i] \in Events
OBVIOUS

LEMMA EmptyFacts ==
  /\ <<>> \in Seq(Events) /\ Sorted(<<>>) /\ FromMain(<<>>)
  /\ \A n \in Nat : Sent(<<>>, n)
  /\ \A s \in Seq(Events) : Before(s, <<>>) /\ Before(<<>>, s)
BY DEF Sorted, FromMain, Sent, Before

LEMMA EventsConcat ==
  ASSUME NEW s \in Seq(Events), NEW t \in Seq(Events)
  PROVE  /\ s \o t \in Seq(Events)
         /\ \A i \in DOMAIN (s \o t) :
              \/ i \in DOMAIN s /\ (s \o t)[i] = s[i]
              \/ /\ i > Len(s) /\ i - Len(s) \in DOMAIN t
                 /\ (s \o t)[i] = t[i - Len(s)]
OBVIOUS

LEMMA ConcatLength ==
  ASSUME NEW s \in Seq(Events), NEW t \in Seq(Events)
  PROVE  Len(s \o t) = Len(s) + Len(t)
OBVIOUS

\* Two sequences one behind the other.
LEMMA ConcatSorted ==
  ASSUME NEW s \in Seq(Events), NEW t \in Seq(Events), Sorted(s), Sorted(t), Before(s, t)
  PROVE  Sorted(s \o t)
<1> SUFFICES ASSUME NEW i \in DOMAIN (s \o t), NEW j \in DOMAIN (s \o t), i < j,
                    (s \o t)[i].from = (s \o t)[j].from
             PROVE  Later((s \o t)[j], (s \o t)[i])
  BY DEF Sorted
<1>0. i \in Int /\ j \in Int /\ Len(s) \in Nat /\ DOMAIN s = 1 .. Len(s)
  BY EventsConcat
<1>1. CASE i \in DOMAIN s /\ (s \o t)[i] = s[i]
  <2>1. CASE j \in DOMAIN s /\ (s \o t)[j] = s[j]
    BY <1>1, <2>1 DEF Sorted
  <2>2. CASE j - Len(s) \in DOMAIN t /\ (s \o t)[j] = t[j - Len(s)]
    BY <1>1, <2>2 DEF Before
  <2>3. QED BY <2>1, <2>2, EventsConcat
<1>2. CASE i > Len(s) /\ i - Len(s) \in DOMAIN t /\ (s \o t)[i] = t[i - Len(s)]
  <2>1. j - Len(s) \in DOMAIN t /\ (s \o t)[j] = t[j - Len(s)]
    BY <1>0, <1>2, EventsConcat
  <2>2. i - Len(s) < j - Len(s)
    BY <1>0
  <2>3. QED BY <1>2, <2>1, <2>2 DEF Sorted
<1>3. QED BY <1>1, <1>2, EventsConcat

LEMMA ConcatBefore ==
  ASSUME NEW s \in Seq(Events), NEW t \in Seq(Events), NEW u \in Seq(Events)
  PROVE  /\ Before(s, u) /\ Before(t, u) => Before(s \o t, u)
         /\ Before(u, s) /\ Before(u, t) => Before(u, s \o t)
BY EventsConcat, SMTT(30) DEF Before

LEMMA ConcatSent ==
  ASSUME NEW s \in Seq(Events), NEW t \in Seq(Events), NEW n \in Nat, Sent(s, n), Sent(t, n)
  PROVE  Sent(s \o t, n)
BY EventsConcat DEF Sent

\* A part of a sequence.
LEMMA PartElements ==
  ASSUME NEW s \in Seq(Events), NEW m \in Nat \ {0}, NEW n \in Int, n <= Len(s)
  PROVE  /\ SubSeq(s, m, n) \in Seq(Events)
         /\ \A i \in DOMAIN SubSeq(s, m, n) :
              /\ i \in Nat \ {0} /\ m + i - 1 \in DOMAIN s
              /\ SubSeq(s, m, n)[i] = s[m + i - 1]
OBVIOUS

LEMMA FrontLength ==
  ASSUME NEW s \in Seq(Events), NEW k \in Nat, k <= Len(s)
  PROVE  SubSeq(s, 1, k) \in Seq(Events) /\ Len(SubSeq(s, 1, k)) = k
OBVIOUS

LEMMA PartOf ==
  ASSUME NEW s \in Seq(Events), NEW m \in Nat \ {0}, NEW n \in Int, n <= Len(s)
  PROVE  /\ Sorted(s) => Sorted(SubSeq(s, m, n))
         /\ FromMain(s) => FromMain(SubSeq(s, m, n))
         /\ \A k \in Nat : Sent(s, k) => Sent(SubSeq(s, m, n), k)
         /\ \A t \in Seq(Events) :
              /\ Before(s, t) => Before(SubSeq(s, m, n), t)
              /\ Before(t, s) => Before(t, SubSeq(s, m, n))
<1>1. Sorted(s) => Sorted(SubSeq(s, m, n))
  <2> SUFFICES ASSUME Sorted(s), NEW i \in DOMAIN SubSeq(s, m, n),
                      NEW j \in DOMAIN SubSeq(s, m, n), i < j,
                      SubSeq(s, m, n)[i].from = SubSeq(s, m, n)[j].from
               PROVE  Later(SubSeq(s, m, n)[j], SubSeq(s, m, n)[i])
    BY DEF Sorted
  <2>1. m + i - 1 \in DOMAIN s /\ m + j - 1 \in DOMAIN s /\ m + i - 1 < m + j - 1
    BY PartElements, SMTT(30)
  <2>2. QED BY <2>1, PartElements, SMTT(30) DEF Sorted
<1>2. QED BY <1>1, PartElements, SMTT(30) DEF FromMain, Sent, Before

-----------------------------------------------------------------------------
(* What the steps do to a stream.                                          *)

\* The host takes the output port.
LEMMA StreamTaken ==
  ASSUME NEW n \in Nat, NEW told, NEW out, NEW in, NEW q, Stream(told, out, in, q, n)
  PROVE  Stream(told \o out, <<>>, in, q, n)
<1>1. told \o out \in Seq(Events) /\ Sorted(told \o out) /\ Sent(told \o out, n)
  BY EventsConcat, ConcatSorted, ConcatSent DEF Stream
<1>2. Before(told \o out, in) /\ Before(told \o out, q)
  BY ConcatBefore DEF Stream
<1>3. QED BY <1>1, <1>2, EmptyFacts DEF Stream

\* The audio thread moves k events of the queue to the input port, and drops those
\* before m.
LEMMA StreamReceived ==
  ASSUME NEW n \in Nat, NEW told, NEW out, NEW in, NEW q, Stream(told, out, in, q, n),
         NEW k \in Nat, k <= Len(q), NEW m \in Nat, m > k
  PROVE  Stream(told, out, in \o SubSeq(q, 1, k), SubSeq(q, m, Len(q)), n)
<1> DEFINE part == SubSeq(q, 1, k)
           rest == SubSeq(q, m, Len(q))
<1>1. /\ q \in Seq(Events) /\ Len(q) \in Nat /\ 1 \in Nat \ {0} /\ m \in Nat \ {0}
      /\ k \in Int /\ Len(q) \in Int
  BY DEF Stream
<1>2. part \in Seq(Events) /\ rest \in Seq(Events)
  BY <1>1, PartElements
<1>3. Sorted(part) /\ Sorted(rest) /\ FromMain(rest) /\ Sent(part, n) /\ Sent(rest, n)
  BY <1>1, PartOf DEF Stream
<1>4. \A t \in {told, out, in} : Before(t, part) /\ Before(t, rest)
  BY <1>1, PartOf, SMTT(30) DEF Stream
<1>5. Before(part, rest)
  <2> SUFFICES ASSUME NEW i \in DOMAIN part, NEW j \in DOMAIN rest,
                      part[i].from = rest[j].from
               PROVE  Later(rest[j], part[i])
    BY DEF Before
  <2>1. /\ i \in 1 .. k /\ i \in DOMAIN q /\ part[i] = q[i]
        /\ j \in Nat \ {0} /\ m + j - 1 \in DOMAIN q /\ rest[j] = q[m + j - 1]
    BY <1>1, SMTT(30)
  <2>2. i < m + j - 1
    BY <2>1
  <2>3. QED BY <2>1, <2>2 DEF Stream, Sorted
<1>6. /\ in \o part \in Seq(Events) /\ Sorted(in \o part) /\ Sent(in \o part, n)
  BY <1>2, <1>3, <1>4, EventsConcat, ConcatSorted, ConcatSent DEF Stream
<1>7. Before(told, in \o part) /\ Before(out, in \o part) /\ Before(in \o part, rest)
  BY <1>2, <1>4, <1>5, ConcatBefore DEF Stream
<1>8. QED BY <1>2, <1>3, <1>4, <1>6, <1>7 DEF Stream

\* The plugin sends on what was in the input port, in place of what was in the output
\* port; or that is lost.
LEMMA StreamSentOn ==
  ASSUME NEW n \in Nat, NEW told, NEW out, NEW in, NEW q, Stream(told, out, in, q, n)
  PROVE  Stream(told, in, <<>>, q, n) /\ Stream(told, <<>>, <<>>, q, n)
BY EmptyFacts DEF Stream

\* A process dies, and the queue with it.
LEMMA StreamCrashed ==
  ASSUME NEW n \in Nat, NEW told, NEW out, NEW in, NEW q, Stream(told, out, in, q, n)
  PROVE  Stream(told, out, in, <<>>, n)
BY EmptyFacts DEF Stream

\* New events have the number n, all others have higher ones.
LEMMA StreamFresh ==
  ASSUME NEW n \in Nat, NEW m \in Nat, n = m + 1,
         NEW told, NEW out, NEW in, NEW q, Stream(told, out, in, q, n),
         NEW new \in Seq(Events), \A i \in DOMAIN new : new[i].n = n, Sorted(new)
  PROVE  /\ (\A i \in DOMAIN new : new[i].from = "host") => Stream(told, out, in \o new, q, m)
         /\ FromMain(new) => Stream(told, out, in, q \o new, m)
<1>1. \A s \in Seq(Events) : Sent(s, n) => Sent(s, m) /\ Before(s, new)
  <2> SUFFICES ASSUME NEW s \in Seq(Events), Sent(s, n)
               PROVE  Sent(s, m) /\ Before(s, new)
    OBVIOUS
  <2>1. \A i \in DOMAIN s : s[i] \in Events
    BY ElementOfSeq
  <2>2. \A e \in Events : e.n \in Nat
    BY DEF Events
  <2>3. \A i \in DOMAIN s : s[i].n \in Nat /\ s[i].n > n
    BY <2>1, <2>2 DEF Sent
  <2>4. Sent(s, m)
    BY <2>3 DEF Sent
  <2>5. \A i \in DOMAIN s, j \in DOMAIN new : new[j].n < s[i].n
    BY <2>3
  <2>6. QED BY <2>4, <2>5 DEF Before, Later
<1>2. Sent(new, m)
  BY DEF Sent
<1>3. ASSUME \A i \in DOMAIN new : new[i].from = "host" PROVE Stream(told, out, in \o new, q, m)
  <2>1. Before(new, q)
    BY <1>3 DEF Before, Stream, FromMain
  <2>2. in \o new \in Seq(Events) /\ Sorted(in \o new) /\ Sent(in \o new, m)
    BY <1>1, <1>2, EventsConcat, ConcatSorted, ConcatSent DEF Stream
  <2>3. Before(told, in \o new) /\ Before(out, in \o new) /\ Before(in \o new, q)
    BY <1>1, <2>1, ConcatBefore DEF Stream
  <2>4. QED BY <1>1, <2>2, <2>3 DEF Stream
<1>4. ASSUME FromMain(new) PROVE Stream(told, out, in, q \o new, m)
  <2>1. /\ q \o new \in Seq(Events) /\ Sorted(q \o new) /\ Sent(q \o new, m)
    BY <1>1, <1>2, EventsConcat, ConcatSorted, ConcatSent DEF Stream
  <2>2. FromMain(q \o new)
    BY <1>4, EventsConcat DEF Stream, FromMain
  <2>3. Before(told, q \o new) /\ Before(out, q \o new) /\ Before(in, q \o new)
    BY <1>1, ConcatBefore DEF Stream
  <2>4. QED BY <1>1, <2>1, <2>2, <2>3 DEF Stream
<1>5. QED BY <1>3, <1>4

-----------------------------------------------------------------------------
(* The invariant.                                                          *)

LEMMA StreamsInit == Init => Streams
<1> SUFFICES ASSUME Init PROVE Streams
  OBVIOUS
<1>1. left \in [Kinds -> Nat] /\ left["event"] \in Nat
  BY BudgetsAssumption DEF Init, Kinds
<1>2. \A n \in Nat : Stream(<<>>, <<>>, <<>>, <<>>, n)
  BY EmptyFacts DEF Stream
<1>3. PortSize \in Nat /\ Len(<<>>) = 0
  BY SizesAssumption
<1>4. \A d \in Devices : /\ heard[d] = <<>> /\ eventsOut[d] = <<>>
                         /\ eventsIn[d] = <<>> /\ queue[d] = <<>>
  BY DEF Init
<1>5. \A d \in Devices : /\ Stream(heard[d], eventsOut[d], eventsIn[d], queue[d], left["event"])
                         /\ Len(eventsIn[d]) <= PortSize
  BY <1>1, <1>2, <1>3, <1>4
<1>6. QED BY <1>1, <1>5 DEF Streams, Init

LEMMA BudgetUsed ==
  ASSUME left \in [Kinds -> Nat], NEW kind \in Kinds, Use(kind)
  PROVE  /\ left' \in [Kinds -> Nat]
         /\ left[kind] = left'[kind] + 1
         /\ \A other \in Kinds \ {kind} : left'[other] = left[other]
BY DEF Use

\* Steps that leave the four sequences and the number of the next event alone.
LEMMA StreamsKept ==
  ASSUME Streams, UNCHANGED <<heard, eventsOut, eventsIn, queue>>,
         \/ UNCHANGED left
         \/ \E kind \in Kinds \ {"event"} : Use(kind)
  PROVE  Streams'
<1>1. left' \in [Kinds -> Nat] /\ left'["event"] = left["event"]
  BY BudgetUsed DEF Streams, Kinds
<1>2. QED BY <1>1 DEF Streams

\* The host writes events, all of a batch or what there is room for.
LEMMA StreamsWritten ==
  ASSUME Streams, UNCHANGED <<heard, eventsOut, queue>>,
         NEW batch \in Batches, NEW written \in [Devices -> Nat],
         \A d \in Devices : written[d] <= batch[d] /\ HasRoom(d, written[d]),
         WriteEvents(batch, written)
  PROVE  Streams'
<1>1. \A d \in Devices : /\ HostEvents(written[d]) \in Seq(Events)
                         /\ Len(HostEvents(written[d])) = written[d]
                         /\ Sorted(HostEvents(written[d]))
                         /\ \A i \in DOMAIN HostEvents(written[d]) :
                              /\ HostEvents(written[d])[i].from = "host"
                              /\ HostEvents(written[d])[i].n = left["event"]
  <2> SUFFICES ASSUME NEW d \in Devices, NEW k \in Nat, k = written[d]
               PROVE  /\ HostEvents(k) \in Seq(Events)
                      /\ Len(HostEvents(k)) = k
                      /\ Sorted(HostEvents(k))
                      /\ \A i \in DOMAIN HostEvents(k) :
                           /\ HostEvents(k)[i].from = "host"
                           /\ HostEvents(k)[i].n = left["event"]
    OBVIOUS
  <2>1. left["event"] \in Nat
    BY DEF Streams, Kinds
  <2>2. /\ DOMAIN HostEvents(k) = 1 .. k
        /\ \A i \in 1 .. k : HostEvents(k)[i] = [from |-> "host", n |-> left["event"], i |-> i]
    BY DEF HostEvents
  <2>3. \A i \in 1 .. k : [from |-> "host", n |-> left["event"], i |-> i] \in Events
    BY <2>1 DEF Events
  <2>4. HostEvents(k) \in Seq(Events) /\ Len(HostEvents(k)) = k
    BY <2>3 DEF HostEvents
  <2>5. Sorted(HostEvents(k))
    BY <2>2 DEF Sorted, Later
  <2>6. QED BY <2>2, <2>4, <2>5
<1>2. CASE \A d \in Devices : batch[d] = 0
  <2>1. UNCHANGED left
    BY <1>2 DEF WriteEvents
  <2>2. \A d \in Devices : written[d] = 0
    BY <1>2
  <2>3. \A d \in Devices : eventsIn'[d] = eventsIn[d]
    <3> TAKE d \in Devices
    <3>1. eventsIn'[d] = eventsIn[d] \o HostEvents(written[d])
      BY DEF WriteEvents
    <3>2. HostEvents(written[d]) = <<>>
      BY <1>1, <2>2
    <3>3. eventsIn[d] \in Seq(Events)
      BY DEF Streams, Stream
    <3>4. QED BY <3>1, <3>2, <3>3
  <2>4. DOMAIN eventsIn' = Devices
    BY DEF WriteEvents
  <2>5. QED BY <2>1, <2>3, <2>4 DEF Streams
<1>3. CASE ~\A d \in Devices : batch[d] = 0
  <2>1. Use("event")
    BY <1>3 DEF WriteEvents
  <2>2. /\ left' \in [Kinds -> Nat] /\ left["event"] = left'["event"] + 1
        /\ left["event"] \in Nat /\ left'["event"] \in Nat
    BY <2>1, BudgetUsed DEF Streams, Kinds
  <2>3. \A d \in Devices :
          Stream(heard[d], eventsOut[d], eventsIn[d] \o HostEvents(written[d]), queue[d], left'["event"])
    BY <1>1, <2>2, StreamFresh DEF Streams
  <2>4. \A d \in Devices : Len(eventsIn[d] \o HostEvents(written[d])) <= PortSize
    <3> TAKE d \in Devices
    <3>1. eventsIn[d] \in Seq(Events)
      BY DEF Streams, Stream
    <3>2. Len(eventsIn[d]) + written[d] <= PortSize
      BY DEF HasRoom
    <3>3. Len(eventsIn[d] \o HostEvents(written[d])) = Len(eventsIn[d]) + written[d]
      BY <1>1, <3>1, ConcatLength
    <3>4. QED BY <3>2, <3>3
  <2>5. /\ DOMAIN eventsIn' = Devices
        /\ \A d \in Devices : eventsIn'[d] = eventsIn[d] \o HostEvents(written[d])
    BY DEF WriteEvents
  <2>6. QED BY <2>2, <2>3, <2>4, <2>5 DEF Streams
<1>4. QED BY <1>2, <1>3

LEMMA StreamsReadOutputs ==
  ASSUME Streams, ReadOutputs
  PROVE  Streams'
<1>1. UNCHANGED <<left, eventsIn, queue>> /\ left["event"] \in Nat
  BY DEF ReadOutputs, devVars, Streams, Kinds
<1>2. DOMAIN heard' = Devices /\ DOMAIN eventsOut' = Devices
  BY DEF ReadOutputs
<1>3. \A d \in Devices : Stream(heard'[d], eventsOut'[d], eventsIn[d], queue[d], left["event"])
  <2> SUFFICES ASSUME NEW d \in Devices
               PROVE  Stream(heard'[d], eventsOut'[d], eventsIn[d], queue[d], left["event"])
    OBVIOUS
  <2>1. Stream(heard[d], eventsOut[d], eventsIn[d], queue[d], left["event"])
    BY DEF Streams
  <2>2. CASE d \in audio.remote
    <3>1. heard'[d] = heard[d] \o eventsOut[d] /\ eventsOut'[d] = <<>>
      BY <2>2 DEF ReadOutputs
    <3>2. QED BY <1>1, <2>1, <3>1, StreamTaken
  <2>3. CASE d \notin audio.remote
    <3>1. heard'[d] = heard[d] /\ eventsOut'[d] = eventsOut[d]
      BY <2>3 DEF ReadOutputs
    <3>2. QED BY <2>1, <3>1
  <2>4. QED BY <2>2, <2>3
<1>4. QED BY <1>1, <1>2, <1>3 DEF Streams

LEMMA MinOfTwo ==
  ASSUME NEW a \in Int, NEW b \in Int
  PROVE  Min({a, b}) = IF a <= b THEN a ELSE b
<1>1. CASE a <= b
  <2>1. a \in {a, b} /\ \A y \in {a, b} : a <= y
    BY <1>1
  <2>2. \A x \in {a, b} : (\A y \in {a, b} : x <= y) => x = a
    BY <1>1
  <2>3. QED BY <1>1, <2>1, <2>2 DEF Min
<1>2. CASE ~(a <= b)
  <2>1. b \in {a, b} /\ \A y \in {a, b} : b <= y
    BY <1>2
  <2>2. \A x \in {a, b} : (\A y \in {a, b} : x <= y) => x = b
    BY <1>2
  <2>3. QED BY <1>2, <2>1, <2>2 DEF Min
<1>3. QED BY <1>1, <1>2

\* What a sandbox does to the ports and the queue of the device it processes.
LEMMA StreamsEventPorts ==
  ASSUME Streams, UNCHANGED heard, NEW d, EventPorts(d),
         UNCHANGED left \/ Use("sleep")
  PROVE  Streams'
<1>0. left' \in [Kinds -> Nat] /\ left'["event"] = left["event"] /\ left["event"] \in Nat
  BY BudgetUsed DEF Streams, Kinds
<1>1. DOMAIN eventsIn' = Devices /\ DOMAIN eventsOut' = Devices /\ DOMAIN queue' = Devices
  BY DEF EventPorts, Streams
<1>2. \A e \in Devices \ {d} : /\ eventsIn'[e] = eventsIn[e]
                              /\ eventsOut'[e] = eventsOut[e]
                              /\ queue'[e] = queue[e]
  BY DEF EventPorts, Streams
<1>3. ASSUME d \in Devices
      PROVE  /\ Stream(heard[d], eventsOut'[d], eventsIn'[d], queue'[d], left["event"])
             /\ Len(eventsIn'[d]) <= PortSize
  <2> DEFINE k == Min({Room(d), Len(queue[d])})
             n == left["event"]
  <2>1. /\ Stream(heard[d], eventsOut[d], eventsIn[d], queue[d], n)
        /\ Len(eventsIn[d]) <= PortSize
        /\ eventsIn[d] \in Seq(Events) /\ queue[d] \in Seq(Events)
    BY <1>3 DEF Streams, Stream
  <2>2. Room(d) \in Nat /\ Len(queue[d]) \in Nat /\ Len(eventsIn[d]) \in Nat
    <3>1. Len(queue[d]) \in Nat /\ Len(eventsIn[d]) \in Nat
      BY <2>1
    <3>2. QED BY <2>1, <3>1, SizesAssumption DEF Room
  <2>3. k \in Nat /\ k <= Len(queue[d]) /\ k <= Room(d)
    BY <2>2, MinOfTwo
  <2>4. Stream(heard[d], eventsOut[d], Received(d), Rest(d), n)
    <3> HIDE DEF k
    <3>1. Room(d) + 2 \in Nat /\ Room(d) + 2 > k
      BY <2>2, <2>3
    <3>2. Stream(heard[d], eventsOut[d], eventsIn[d] \o SubSeq(queue[d], 1, k),
                 SubSeq(queue[d], Room(d) + 2, Len(queue[d])), n)
      BY <1>0, <2>1, <2>3, <3>1, StreamReceived
    <3>3. QED BY <3>2 DEF Received, Rest, k
  <2>5. Len(Received(d)) <= PortSize
    <3> HIDE DEF k
    <3>1. /\ SubSeq(queue[d], 1, k) \in Seq(Events)
          /\ Len(SubSeq(queue[d], 1, k)) = k
      BY <2>1, <2>3, FrontLength
    <3>2. Len(eventsIn[d] \o SubSeq(queue[d], 1, k)) = Len(eventsIn[d]) + k
      BY <2>1, <3>1, ConcatLength
    <3>3. PortSize \in Int /\ k <= PortSize - Len(eventsIn[d])
      BY <2>3, SizesAssumption DEF Room
    <3>4. Len(eventsIn[d]) + k <= PortSize
      BY <2>2, <2>3, <3>3
    <3>5. QED BY <3>2, <3>4 DEF Received, k
  <2>6. /\ eventsIn'[d] = IF Processes(d) \/ Flushes(d) THEN <<>> ELSE Received(d)
        /\ eventsOut'[d] = SentOn(d)
        /\ queue'[d] = Rest(d)
    BY <1>3 DEF EventPorts, Streams
  <2>7. CASE Processes(d) /\ Flushes(d)
    <3>1. eventsIn'[d] = <<>> /\ eventsOut'[d] = <<>>
      BY <2>6, <2>7 DEF SentOn
    <3>2. QED BY <1>0, <2>4, <2>6, <3>1, StreamSentOn, SizesAssumption
  <2>8. CASE ~(Processes(d) /\ Flushes(d)) /\ (Processes(d) \/ Flushes(d))
    <3>1. eventsIn'[d] = <<>> /\ eventsOut'[d] = Received(d)
      BY <2>6, <2>8 DEF SentOn
    <3>2. QED BY <1>0, <2>4, <2>6, <3>1, StreamSentOn, SizesAssumption
  <2>9. CASE ~Processes(d) /\ ~Flushes(d)
    <3>1. eventsIn'[d] = Received(d) /\ eventsOut'[d] = eventsOut[d]
      BY <2>6, <2>9 DEF SentOn
    <3>2. QED BY <2>4, <2>5, <2>6, <3>1
  <2>10. QED BY <2>7, <2>8, <2>9
<1>4. \A e \in Devices : /\ Stream(heard[e], eventsOut'[e], eventsIn'[e], queue'[e], left["event"])
                         /\ Len(eventsIn'[e]) <= PortSize
  BY <1>2, <1>3 DEF Streams
<1>5. QED BY <1>0, <1>1, <1>4 DEF Streams

LEMMA StreamsQueueEvent ==
  ASSUME Streams, NEW d \in Devices, QueueEvent(d)
  PROVE  Streams'
<1> DEFINE event == [from |-> "main", n |-> left["event"], i |-> 1]
<1>1. /\ left' \in [Kinds -> Nat] /\ left["event"] = left'["event"] + 1
      /\ left["event"] \in Nat /\ left'["event"] \in Nat
  BY BudgetUsed DEF QueueEvent, Streams, Kinds
<1>2. event \in Events
  BY <1>1 DEF Events
<1>3. /\ UNCHANGED <<heard, eventsOut, eventsIn>>
      /\ DOMAIN queue' = Devices
      /\ queue'[d] = Append(queue[d], event)
      /\ \A e \in Devices \ {d} : queue'[e] = queue[e]
  BY DEF QueueEvent, portVars, Streams
<1>4. /\ <<event>> \in Seq(Events) /\ Sorted(<<event>>) /\ FromMain(<<event>>)
      /\ \A i \in DOMAIN <<event>> : <<event>>[i].n = left["event"]
  BY <1>2 DEF Sorted, FromMain
<1>5. /\ <<>> \in Seq(Events) /\ Sorted(<<>>) /\ FromMain(<<>>)
      /\ \A i \in DOMAIN <<>> : <<>>[i].n = left["event"]
  BY EmptyFacts
<1>6. \A e \in Devices : Stream(heard[e], eventsOut[e], eventsIn[e], queue'[e], left'["event"])
  <2> SUFFICES ASSUME NEW e \in Devices
               PROVE  Stream(heard[e], eventsOut[e], eventsIn[e], queue'[e], left'["event"])
    OBVIOUS
  <2> HIDE DEF event
  <2>1. Stream(heard[e], eventsOut[e], eventsIn[e], queue[e], left["event"]) /\ queue[e] \in Seq(Events)
    BY DEF Streams, Stream
  <2>2. CASE e = d
    <3>1. queue'[e] = queue[e] \o <<event>>
      BY <1>2, <1>3, <2>1, <2>2, SMTT(30)
    <3>2. QED BY <1>1, <1>4, <2>1, <3>1, StreamFresh
  <2>3. CASE e # d
    <3>1. queue'[e] = queue[e] \o <<>>
      BY <1>3, <2>1, <2>3
    <3>2. QED BY <1>1, <1>5, <2>1, <3>1, StreamFresh
  <2>4. QED BY <2>2, <2>3
<1>7. QED BY <1>1, <1>3, <1>6 DEF Streams

LEMMA StreamsCrash ==
  ASSUME Streams, NEW s \in Sandboxes, Crash(s)
  PROVE  Streams'
<1>1. left' \in [Kinds -> Nat] /\ left'["event"] = left["event"] /\ left["event"] \in Nat
  BY BudgetUsed DEF Crash, Streams, Kinds
<1>2. /\ UNCHANGED <<heard, eventsOut, eventsIn>>
      /\ DOMAIN queue' = Devices
      /\ \A d \in Devices : queue'[d] = <<>> \/ queue'[d] = queue[d]
  BY DEF Crash, portVars
<1>3. \A d \in Devices : Stream(heard[d], eventsOut[d], eventsIn[d], queue'[d], left["event"])
  BY <1>1, <1>2, StreamCrashed DEF Streams
<1>4. QED BY <1>1, <1>2, <1>3 DEF Streams

LEMMA StreamsStep == Streams /\ [Next]_vars => Streams'
<1> SUFFICES ASSUME Streams, [Next]_vars PROVE Streams'
  OBVIOUS
<1>1. ASSUME NEW batch \in Batches, Inputs(batch) PROVE Streams'
  <2>1. batch \in [Devices -> Nat] /\ \A d \in Devices : batch[d] <= batch[d]
    BY SizesAssumption DEF Batches
  <2>2. UNCHANGED <<heard, eventsOut, queue>> /\ WriteEvents(batch, batch)
    BY <1>1 DEF Inputs, devVars
  <2>3. \A d \in Devices : HasRoom(d, batch[d])
    BY <1>1 DEF Inputs
  <2>4. QED BY <2>1, <2>2, <2>3, StreamsWritten
<1>2. ASSUME NEW batch \in Batches, InputsThrow(batch) PROVE Streams'
  <2>1. PICK written \in Written(batch) : WriteEvents(batch, written)
    BY <1>2 DEF InputsThrow
  <2>2. /\ written \in [Devices -> Nat]
        /\ \A d \in Devices : written[d] <= batch[d] /\ HasRoom(d, written[d])
    BY <2>1, SizesAssumption DEF Written
  <2>3. UNCHANGED <<heard, eventsOut, queue>>
    BY <1>2 DEF InputsThrow, devVars
  <2>4. QED BY <2>1, <2>2, <2>3, StreamsWritten
<1>3. CASE InputsTooMany
  BY <1>3, StreamsKept DEF InputsTooMany, devVars
<1>4. ASSUME NEW ss \in SUBSET Sandboxes, Signal(ss) PROVE Streams'
  BY <1>4, StreamsKept DEF Signal, portVars, devVars
<1>5. CASE ZeroInactive
  BY <1>5, StreamsKept DEF ZeroInactive, devVars, history
<1>6. CASE Answered
  BY <1>6, StreamsKept DEF Answered, portVars, devVars
<1>7. CASE CutShort
  BY <1>7, StreamsKept DEF CutShort, portVars, devVars
<1>8. CASE ReadOutputs
  BY <1>8, StreamsReadOutputs
<1>9. CASE CopyCross
  BY <1>9, StreamsKept DEF CopyCross, devVars, history
<1>10. ASSUME NEW s \in Sandboxes, CycleBegin(s) PROVE Streams'
  BY <1>10, StreamsKept DEF CycleBegin, portVars, devVars
<1>11. ASSUME NEW s \in Sandboxes, CycleEnd(s) PROVE Streams'
  BY <1>11, StreamsKept DEF CycleEnd, portVars, devVars, history
<1>12. ASSUME NEW s \in Sandboxes, Start(s) PROVE Streams'
  BY <1>12, StreamsKept DEF Start, portVars, history
<1>13. ASSUME NEW s \in Sandboxes, Crash(s) PROVE Streams'
  BY <1>13, StreamsCrash
<1>14. ASSUME NEW s \in Sandboxes, NEW sleeps \in BOOLEAN, ProcessDevice(s, sleeps) PROVE Streams'
  <2>1. UNCHANGED heard /\ EventPorts(Head(todo[s])) /\ (UNCHANGED left \/ Use("sleep"))
    BY <1>14 DEF ProcessDevice
  <2>2. QED BY <2>1, StreamsEventPorts
<1>15. CASE Activate
  BY <1>15, StreamsKept DEF Activate, portVars, devVars, Kinds
<1>16. ASSUME NEW s \in Sandboxes, Notice(s) PROVE Streams'
  BY <1>16, StreamsKept DEF Notice, portVars, devVars
<1>17. ASSUME NEW s \in Sandboxes, Count(s) PROVE Streams'
  BY <1>17, StreamsKept DEF Count, portVars, devVars, history
<1>18. ASSUME NEW s \in Sandboxes, Created(s) PROVE Streams'
  BY <1>18, StreamsKept DEF Created, portVars, devVars, history
<1>19. ASSUME NEW s \in Sandboxes, Restart(s) PROVE Streams'
  BY <1>19, StreamsKept DEF Restart, portVars, devVars, history
<1>20. ASSUME NEW a \in Devices, NEW b \in Devices, Connect(a, b) PROVE Streams'
  BY <1>20, StreamsKept DEF Connect, portVars, devVars, Kinds
<1>21. ASSUME NEW a \in Devices, NEW b \in Devices, Disconnect(a, b) PROVE Streams'
  BY <1>21, StreamsKept DEF Disconnect, portVars, devVars, Kinds
<1>22. ASSUME NEW d \in Devices, RequestProcess(d) PROVE Streams'
  BY <1>22, StreamsKept DEF RequestProcess, portVars, Kinds
<1>23. ASSUME NEW d \in Played, QueueEvent(d) PROVE Streams'
  BY <1>23, StreamsQueueEvent, HomesAssumption
<1>24. CASE UNCHANGED vars
  BY <1>24, StreamsKept DEF vars, portVars, devVars, history
<1>25. QED
  BY <1>1, <1>2, <1>3, <1>4, <1>5, <1>6, <1>7, <1>8, <1>9, <1>10, <1>11, <1>12, <1>13,
     <1>14, <1>15, <1>16, <1>17, <1>18, <1>19, <1>20, <1>21, <1>22, <1>23, <1>24
  DEF Next, Host, Client, Sandbox

LEMMA StreamsInOrder == Streams => HeardInOrder
<1> SUFFICES ASSUME Streams, NEW d \in Devices,
                    NEW i \in DOMAIN heard[d], NEW j \in DOMAIN heard[d], i < j
             PROVE  heard[d][i] # heard[d][j] /\ ~Later(heard[d][i], heard[d][j])
  BY DEF HeardInOrder
<1>1. heard[d] \in Seq(Events) /\ Sorted(heard[d])
  BY DEF Streams, Stream
<1>2. heard[d][i] \in Events /\ heard[d][j] \in Events
  BY <1>1, ElementOfSeq
<1>3. heard[d][i].from = heard[d][j].from => Later(heard[d][j], heard[d][i])
  BY <1>1 DEF Sorted
<1>4. \A e, f \in Events : Later(f, e) => e # f /\ ~Later(e, f)
  BY DEF Later, Events
<1>5. QED BY <1>2, <1>3, <1>4 DEF Later

\* For all graphs, sizes of ports, crashes and cycles cut short: the host never hears
\* an event from a device twice, or after a later one of the same sender.
THEOREM HeardOnceInOrder == Spec => []HeardInOrder
<1>1. Spec => []Streams
  BY StreamsInit, StreamsStep, PTL DEF Spec
<1>2. QED BY <1>1, StreamsInOrder, PTL
-----------------------------------------------------------------------------
(* Types.                                                                  *)

ModelOK ==
  /\ cross \in SUBSET (Devices \X Devices) /\ remote \in SUBSET Devices
  /\ isActive \in BOOLEAN /\ counted \in SUBSET Sandboxes

HostOK ==
  /\ audio \in [cross : SUBSET (Devices \X Devices), remote : SUBSET Devices,
                isActive : BOOLEAN, counted : SUBSET Sandboxes]
  /\ apc \in {"idle", "signal", "zero", "wait", "outputs", "cross"}
  /\ signal \in SUBSET Sandboxes /\ owed \in SUBSET Sandboxes
  /\ steady \in Ages /\ clean \in BOOLEAN

SoundOK == audioIn \in [Devices -> Ages] /\ audioOut \in [Devices -> Ages]

PluginsOK ==
  /\ mode \in [Devices -> {"off", "asleep", "awake"}] /\ wake \in [Devices -> BOOLEAN]
  /\ life \in [Sandboxes -> {"up", "crashed", "down"}]
  /\ started \in SUBSET Sandboxes /\ \A s \in started : life[s] = "up"

\* The order of a sandbox has each of its devices once;
GraphOK ==
  /\ home \in [Devices -> Sandboxes]
  /\ order \in [Sandboxes -> Seq(Devices)]
  /\ \A s \in Sandboxes : IsInjective(order[s]) /\ ToSet(order[s]) = In(s)

\* what is to be done in a cycle is the end of such an order.
JobsOK ==
  /\ busy \in [Sandboxes -> BOOLEAN] /\ DOMAIN plan = Sandboxes
  /\ todo \in [Sandboxes -> Seq(Devices)]
  /\ \A s \in Sandboxes :
       /\ busy[s] => s \in started
       /\ ~busy[s] => todo[s] = <<>>
       /\ IsInjective(todo[s]) /\ ToSet(todo[s]) \subseteq In(s)

PortsOK ==
  /\ DOMAIN given = Devices
  /\ \A d \in Devices : given[d] \subseteq Events /\ Len(eventsOut[d]) <= PortSize

Typed == ModelOK /\ HostOK /\ SoundOK /\ PluginsOK /\ GraphOK /\ JobsOK /\ PortsOK

LEMMA TypedKept ==
  ASSUME Typed
  PROVE  /\ UNCHANGED modelVars => ModelOK'
         /\ UNCHANGED <<hostVars, signal, steady, clean>> => HostOK'
         /\ UNCHANGED <<audioIn, audioOut>> => SoundOK'
         /\ UNCHANGED <<mode, wake, life, started>> => PluginsOK'
         /\ UNCHANGED <<home, order>> => GraphOK'
         /\ UNCHANGED <<home, jobVars, started>> => JobsOK'
         /\ UNCHANGED <<given, eventsOut>> => PortsOK'
<1>1. UNCHANGED modelVars => ModelOK'
  BY DEF Typed, ModelOK, modelVars
<1>2. UNCHANGED <<hostVars, signal, steady, clean>> => HostOK'
  BY DEF Typed, HostOK, hostVars
<1>3. UNCHANGED <<audioIn, audioOut>> => SoundOK'
  BY DEF Typed, SoundOK
<1>4. UNCHANGED <<mode, wake, life, started>> => PluginsOK'
  BY DEF Typed, PluginsOK
<1>5. UNCHANGED <<home, order>> => GraphOK'
  BY DEF Typed, GraphOK, In
<1>6. UNCHANGED <<home, jobVars, started>> => JobsOK'
  BY DEF Typed, JobsOK, In, jobVars
<1>7. UNCHANGED <<given, eventsOut>> => PortsOK'
  BY DEF Typed, PortsOK
<1> QED BY <1>1, <1>2, <1>3, <1>4, <1>5, <1>6, <1>7

LEMMA OlderIsAge ==
  /\ MaxAge \in Ages /\ 0 \in Ages
  /\ \A age \in Ages : Older(age) \in Ages
BY SizesAssumption DEF Ages, Older

\* What is left of an order after its first device.
LEMMA TailFacts ==
  ASSUME NEW t \in Seq(Devices), t # <<>>, IsInjective(t)
  PROVE  /\ Head(t) \in Devices /\ Head(t) \in ToSet(t)
         /\ Tail(t) \in Seq(Devices) /\ IsInjective(Tail(t))
         /\ ToSet(Tail(t)) = ToSet(t) \ {Head(t)}
<1>1. /\ Len(t) \in Nat \ {0} /\ DOMAIN t = 1 .. Len(t) /\ Head(t) = t[1]
      /\ Tail(t) \in Seq(Devices) /\ DOMAIN Tail(t) = 1 .. Len(t) - 1
      /\ \A i \in 1 .. Len(t) - 1 : Tail(t)[i] = t[i + 1]
  OBVIOUS
<1>2. Head(t) \in Devices /\ Head(t) \in ToSet(t)
  BY <1>1 DEF ToSet
<1>3. \A i \in 1 .. Len(t) - 1 : i + 1 \in DOMAIN t /\ i + 1 # 1
  BY <1>1
<1>4. IsInjective(Tail(t))
  <2> SUFFICES ASSUME NEW i \in DOMAIN Tail(t), NEW j \in DOMAIN Tail(t),
                      Tail(t)[i] = Tail(t)[j]
               PROVE  i = j
    BY DEF IsInjective
  <2>1. i + 1 \in DOMAIN t /\ j + 1 \in DOMAIN t /\ t[i + 1] = t[j + 1]
    BY <1>1, <1>3
  <2>2. i + 1 = j + 1
    BY <2>1 DEF IsInjective
  <2> QED BY <1>1, <2>2
<1>5. ASSUME NEW d \in ToSet(Tail(t)) PROVE d \in ToSet(t) \ {Head(t)}
  <2>1. PICK i \in 1 .. Len(t) - 1 : d = t[i + 1]
    BY <1>1 DEF ToSet
  <2>2. i + 1 \in DOMAIN t /\ 1 \in DOMAIN t /\ t[i + 1] # t[1]
    BY <1>1, <1>3 DEF IsInjective
  <2> QED BY <1>1, <2>1, <2>2 DEF ToSet
<1>6. ASSUME NEW d \in ToSet(t) \ {Head(t)} PROVE d \in ToSet(Tail(t))
  <2>1. PICK i \in 1 .. Len(t) : d = t[i] /\ i # 1
    BY <1>1 DEF ToSet
  <2>2. i - 1 \in 1 .. Len(t) - 1 /\ (i - 1) + 1 = i
    BY <1>1, <2>1
  <2>3. Tail(t)[i - 1] = d
    BY <1>1, <2>1, <2>2
  <2> QED BY <1>1, <2>2, <2>3 DEF ToSet
<1> QED BY <1>1, <1>2, <1>4, <1>5, <1>6

\* What make_device_processing_order returns for a sandbox.
LEMMA OrderFacts ==
  ASSUME NEW s \in Sandboxes, NEW cs
  PROVE  /\ \A o \in Orders(In(s), cs) :
              o \in Seq(Devices) /\ IsInjective(o) /\ ToSet(o) = In(s)
         /\ Orders(In(s), cs) # {}
<1>1. In(s) \subseteq Devices /\ IsFiniteSet(In(s))
  <2>1. In(s) \subseteq Devices
    BY DEF In
  <2> QED BY <2>1, FS_Subset, HomesAssumption
<1>2. ASSUME NEW o \in Orders(In(s), cs)
      PROVE  o \in Seq(Devices) /\ IsInjective(o) /\ ToSet(o) = In(s)
  <2>1. InOrder(In(s), cs, o, In(s))
    BY <1>1, OrdersAreOrders
  <2>2. o \in Seq(In(s))
    BY <2>1 DEF InOrder
  <2> QED BY <1>1, <2>1, <2>2 DEF InOrder
<1> QED BY <1>1, <1>2, OrdersExist

LEMMA UnconnectedFacts ==
  ASSUME NEW s \in Sandboxes
  PROVE  /\ Unconnected(s) \in Seq(Devices)
         /\ IsInjective(Unconnected(s)) /\ ToSet(Unconnected(s)) = In(s)
BY OrderFacts DEF Unconnected

\* What a device gets of its queue fits; all of it, if none is dropped.
LEMMA ReceivedFits ==
  ASSUME Streams, NEW d \in Devices
  PROVE  /\ Received(d) \in Seq(Events) /\ Len(Received(d)) <= PortSize
         /\ ~Drops(d) => Received(d) = eventsIn[d] \o queue[d] /\ Rest(d) = <<>>
<1> DEFINE k == Min({Room(d), Len(queue[d])})
<1>1. /\ eventsIn[d] \in Seq(Events) /\ queue[d] \in Seq(Events)
      /\ Len(eventsIn[d]) <= PortSize
      /\ Len(queue[d]) \in Nat /\ Len(eventsIn[d]) \in Nat /\ PortSize \in Nat
  BY SizesAssumption DEF Streams, Stream
<1>2. Room(d) \in Nat /\ Len(eventsIn[d]) + Room(d) = PortSize
  BY <1>1 DEF Room
<1>3. k \in Nat /\ k <= Len(queue[d]) /\ k <= Room(d)
  BY <1>1, <1>2, MinOfTwo, SMTT(30)
<1>4. ~Drops(d) => k = Len(queue[d])
  BY <1>1, <1>2, MinOfTwo, SMTT(30) DEF Drops
<1> HIDE DEF k
<1>5. /\ SubSeq(queue[d], 1, k) \in Seq(Events)
      /\ Len(SubSeq(queue[d], 1, k)) = k
  BY <1>1, <1>3, FrontLength
<1>6. Received(d) = eventsIn[d] \o SubSeq(queue[d], 1, k)
  BY DEF Received, k
<1>7. Received(d) \in Seq(Events) /\ Len(Received(d)) = Len(eventsIn[d]) + k
  BY <1>1, <1>5, <1>6, ConcatLength, EventsConcat
<1>8. Len(Received(d)) <= PortSize
  BY ONLY <1>1, <1>2, <1>3, <1>7
<1>9. ASSUME ~Drops(d) PROVE Received(d) = eventsIn[d] \o queue[d] /\ Rest(d) = <<>>
  <2>1. SubSeq(queue[d], 1, Len(queue[d])) = queue[d]
    BY <1>1
  <2>2. Len(queue[d]) < Room(d) + 2
    BY <1>1, <1>2, <1>9 DEF Drops
  <2>3. \A m \in Nat : Len(queue[d]) < m => SubSeq(queue[d], m, Len(queue[d])) = <<>>
    BY <1>1
  <2>4. Rest(d) = <<>>
    BY <1>2, <2>2, <2>3 DEF Rest
  <2> QED BY <1>4, <1>6, <1>9, <2>1, <2>4
<1> QED BY <1>7, <1>8, <1>9

\* The events of a batch.
LEMMA HostEventsFacts ==
  ASSUME Streams, NEW k \in Nat
  PROVE  /\ HostEvents(k) \in Seq(Events) /\ Range(HostEvents(k)) \subseteq Events
         /\ k = 0 => HostEvents(k) = <<>>
<1>1. left["event"] \in Nat
  BY DEF Streams, Kinds
<1>2. \A i \in 1 .. k : [from |-> "host", n |-> left["event"], i |-> i] \in Events
  BY <1>1 DEF Events
<1>3. HostEvents(k) \in Seq(Events)
  BY <1>2 DEF HostEvents
<1>4. Range(HostEvents(k)) \subseteq Events
  BY <1>3, ElementOfSeq DEF Range
<1>5. k = 0 => HostEvents(k) = <<>>
  BY <1>3 DEF HostEvents
<1> QED BY <1>3, <1>4, <1>5

LEMMA TypedInit == Init => Typed
<1> SUFFICES ASSUME Init PROVE Typed
  OBVIOUS
<1>1. left \in [Kinds -> Nat]
  BY BudgetsAssumption DEF Init
<1>2. ModelOK
  BY <1>1 DEF Init, ModelOK
<1>3. HostOK
  <2>1. audio = [cross |-> cross, remote |-> remote, isActive |-> isActive, counted |-> counted]
    BY DEF Init
  <2>2. audio \in [cross : SUBSET (Devices \X Devices), remote : SUBSET Devices,
                   isActive : BOOLEAN, counted : SUBSET Sandboxes]
    BY <1>2, <2>1 DEF ModelOK
  <2> QED BY <2>2, OlderIsAge DEF Init, HostOK
<1>4. SoundOK
  BY OlderIsAge DEF Init, SoundOK
<1>5. PluginsOK
  BY <1>2 DEF Init, PluginsOK, ModelOK
<1>6. GraphOK
  <2>1. home \in [Devices -> Sandboxes]
    BY HomesAssumption DEF Init
  <2>2. DOMAIN order = Sandboxes /\ \A s \in Sandboxes : order[s] = Unconnected(s)
    BY DEF Init
  <2> QED BY <2>1, <2>2, UnconnectedFacts DEF GraphOK, Init
<1>7. JobsOK
  <2>1. <<>> \in Seq(Devices) /\ IsInjective(<<>>) /\ ToSet(<<>>) = {}
    BY DEF IsInjective, ToSet
  <2> QED BY <2>1 DEF Init, JobsOK
<1>8. PortsOK
  <2>1. \A d \in Devices : eventsOut[d] = <<>> /\ given[d] = {}
    BY DEF Init
  <2>2. Len(<<>>) = 0 /\ PortSize \in Nat
    BY SizesAssumption
  <2> QED BY <2>1, <2>2 DEF Init, PortsOK
<1> QED BY <1>2, <1>3, <1>4, <1>5, <1>6, <1>7, <1>8 DEF Typed

LEMMA AudioWritten ==
  ASSUME Typed, WriteAudio
  PROVE  /\ audio' \in [cross : SUBSET (Devices \X Devices), remote : SUBSET Devices,
                        isActive : BOOLEAN, counted : SUBSET Sandboxes]
         /\ SoundOK'
<1>1. audio' \in [cross : SUBSET (Devices \X Devices), remote : SUBSET Devices,
                  isActive : BOOLEAN, counted : SUBSET Sandboxes]
  BY DEF WriteAudio, Typed, ModelOK
<1>2. SoundOK'
  BY OlderIsAge DEF WriteAudio, Typed, SoundOK
<1> QED BY <1>1, <1>2

LEMMA EventsWritten ==
  ASSUME Typed, Streams, NEW batch \in Batches, NEW written, WriteEvents(batch, written),
         UNCHANGED eventsOut
  PROVE  PortsOK'
<1>1. \A d \in Devices : batch[d] \in Nat
  BY SizesAssumption DEF Batches
<1>2. /\ DOMAIN given' = Devices
      /\ \A d \in Devices : given'[d] = given[d] \cup Range(HostEvents(batch[d]))
  BY DEF WriteEvents
<1>3. \A d \in Devices : given'[d] \subseteq Events
  BY <1>1, <1>2, HostEventsFacts DEF Typed, PortsOK
<1> QED BY <1>2, <1>3 DEF Typed, PortsOK

LEMMA CrashTyped ==
  ASSUME Typed, NEW s \in Sandboxes, Crash(s)
  PROVE  Typed'
<1>1. HostOK'
  BY OlderIsAge DEF Crash, Typed, HostOK, hostVars
<1>2. PluginsOK'
  <2>1. mode' \in [Devices -> {"off", "asleep", "awake"}] /\ wake' \in [Devices -> BOOLEAN]
    BY DEF Crash, Typed, PluginsOK
  <2>2. /\ life' \in [Sandboxes -> {"up", "crashed", "down"}] /\ started' = started \ {s}
        /\ \A t \in Sandboxes \ {s} : life'[t] = life[t]
    BY DEF Crash, Typed, PluginsOK
  <2> QED BY <2>1, <2>2 DEF Typed, PluginsOK
<1>3. JobsOK'
  <2>1. /\ busy' = [busy EXCEPT ![s] = FALSE] /\ todo' = [todo EXCEPT ![s] = <<>>]
        /\ plan' = [plan EXCEPT ![s] = {}] /\ started' = started \ {s} /\ UNCHANGED home
    BY DEF Crash
  <2>2. <<>> \in Seq(Devices) /\ IsInjective(<<>>) /\ ToSet(<<>>) = {}
    BY DEF IsInjective, ToSet
  <2> QED BY <2>1, <2>2 DEF Typed, JobsOK, In
<1> QED
  BY <1>1, <1>2, <1>3, TypedKept DEF Crash, Typed, portVars

LEMMA ProcessDeviceTyped ==
  ASSUME Typed, Streams, NEW s \in Sandboxes, NEW sleeps \in BOOLEAN, ProcessDevice(s, sleeps)
  PROVE  Typed'
<1> DEFINE d == Head(todo[s])
<1>1. /\ todo[s] \in Seq(Devices) /\ todo[s] # <<>> /\ IsInjective(todo[s])
      /\ ToSet(todo[s]) \subseteq In(s)
  BY DEF ProcessDevice, Typed, JobsOK
<1>2. d \in Devices
  BY <1>1, TailFacts
<1>3. HostOK'
  <2>1. clean' = (clean /\ Processes(d))
    BY DEF ProcessDevice
  <2>2. clean' \in BOOLEAN
    BY <2>1
  <2> QED BY <2>2 DEF ProcessDevice, Typed, HostOK, hostVars
<1>4. SoundOK'
  <2>1. audioOut' \in [Devices -> Ages]
    BY <1>2 DEF ProcessDevice, Typed, SoundOK
  <2>2. PICK age \in IF {b \in Devices : <<d, b>> \in plan[s]} = {} THEN {audioIn[d]}
                     ELSE {audioOut'[b] : b \in {b \in Devices : <<d, b>> \in plan[s]}} :
          audioIn' = [audioIn EXCEPT ![d] = age]
    BY DEF ProcessDevice
  <2>3. age \in Ages
    BY <1>2, <2>1, <2>2 DEF Typed, SoundOK
  <2> QED BY <2>1, <2>2, <2>3 DEF Typed, SoundOK
<1>5. PluginsOK'
  <2>1. mode' \in [Devices -> {"off", "asleep", "awake"}] /\ wake' \in [Devices -> BOOLEAN]
    BY DEF ProcessDevice, Typed, PluginsOK
  <2> QED BY <2>1 DEF ProcessDevice, Typed, PluginsOK
<1>6. JobsOK'
  <2>1. todo' = [todo EXCEPT ![s] = Tail(todo[s])] /\ busy[s] /\ UNCHANGED <<busy, plan, home, started>>
    BY DEF ProcessDevice
  <2>2. /\ Tail(todo[s]) \in Seq(Devices) /\ IsInjective(Tail(todo[s]))
        /\ ToSet(Tail(todo[s])) \subseteq In(s)
    BY <1>1, TailFacts
  <2> QED BY <2>1, <2>2 DEF Typed, JobsOK, In
<1>7. PortsOK'
  <2>1. UNCHANGED given /\ eventsOut' = [eventsOut EXCEPT ![d] = SentOn(d)]
    BY DEF ProcessDevice, EventPorts
  <2>2. Len(SentOn(d)) <= PortSize
    <3>1. Len(Received(d)) <= PortSize /\ Len(eventsOut[d]) <= PortSize
      BY <1>2, ReceivedFits DEF Typed, PortsOK
    <3>2. Len(<<>>) = 0 /\ PortSize \in Nat
      BY SizesAssumption
    <3> QED BY <3>1, <3>2 DEF SentOn
  <2> HIDE DEF d
  <2>3. \A e \in Devices : eventsOut'[e] = IF e = d THEN SentOn(d) ELSE eventsOut[e]
    BY <2>1 DEF Streams
  <2> QED BY <2>1, <2>2, <2>3 DEF Typed, PortsOK
<1>8. ModelOK' /\ GraphOK'
  BY TypedKept DEF ProcessDevice, graphVars
<1> QED
  BY <1>3, <1>4, <1>5, <1>6, <1>7, <1>8 DEF Typed

\* Connections inside a sandbox.
LEMMA RewireTyped ==
  ASSUME Typed, NEW s \in Sandboxes, NEW cs, Rewire(s, cs), UNCHANGED home
  PROVE  GraphOK'
<1>1. PICK o \in Orders(In(s), cs) : order' = [order EXCEPT ![s] = o]
  BY DEF Rewire
<1>2. o \in Seq(Devices) /\ IsInjective(o) /\ ToSet(o) = In(s)
  BY OrderFacts
<1> QED BY <1>1, <1>2 DEF Typed, GraphOK, In

LEMMA TypedStep == Typed /\ Streams /\ [Next]_vars => Typed'
<1> SUFFICES ASSUME Typed, Streams, [Next]_vars PROVE Typed'
  OBVIOUS
<1>1. ASSUME NEW batch \in Batches, Inputs(batch) PROVE Typed'
  <2>1. WriteAudio /\ WriteEvents(batch, batch)
    BY <1>1 DEF Inputs
  <2>2. clean' \in BOOLEAN
    <3>1. clean' = (signal = {} /\ \A s \in Sandboxes : ~busy[s])
      BY <1>1 DEF Inputs
    <3> QED BY <3>1
  <2>3. HostOK'
    BY <1>1, <2>1, <2>2, AudioWritten, OlderIsAge DEF Inputs, Typed, HostOK
  <2>4. SoundOK' /\ PortsOK'
    BY <1>1, <2>1, AudioWritten, EventsWritten DEF Inputs
  <2> QED BY <1>1, <2>3, <2>4, TypedKept DEF Inputs, Typed, graphVars, devVars
<1>2. ASSUME NEW batch \in Batches, InputsThrow(batch) PROVE Typed'
  <2>1. PICK written \in Written(batch) : WriteEvents(batch, written)
    BY <1>2 DEF InputsThrow
  <2>2. WriteAudio
    BY <1>2 DEF InputsThrow
  <2>3. HostOK'
    BY <1>2, <2>2, AudioWritten, OlderIsAge DEF InputsThrow, Typed, HostOK
  <2>4. SoundOK' /\ PortsOK'
    BY <1>2, <2>1, <2>2, AudioWritten, EventsWritten DEF InputsThrow
  <2> QED BY <1>2, <2>3, <2>4, TypedKept DEF InputsThrow, Typed, graphVars, devVars
<1>3. CASE InputsTooMany
  <2>1. WriteAudio
    BY <1>3 DEF InputsTooMany
  <2>2. HostOK'
    BY <1>3, <2>1, AudioWritten, OlderIsAge DEF InputsTooMany, Typed, HostOK
  <2> QED BY <1>3, <2>1, <2>2, AudioWritten, TypedKept DEF InputsTooMany, Typed, graphVars, devVars
<1>4. ASSUME NEW ss \in SUBSET Sandboxes, Signal(ss) PROVE Typed'
  <2>1. clean' \in BOOLEAN
    <3>1. clean' = (clean /\ ss = Sandboxes /\ audio.remote = Devices)
      BY <1>4 DEF Signal
    <3> QED BY <3>1
  <2>2. HostOK'
    BY <1>4, <2>1 DEF Signal, Typed, HostOK
  <2> QED BY <1>4, <2>2, TypedKept DEF Signal, Typed, portVars, graphVars, devVars
<1>5. CASE ZeroInactive
  <2>1. HostOK' /\ SoundOK'
    BY <1>5, OlderIsAge DEF ZeroInactive, Typed, HostOK, SoundOK, history
  <2> QED BY <1>5, <2>1, TypedKept DEF ZeroInactive, Typed, graphVars, devVars, history
<1>6. CASE Answered
  <2>1. HostOK'
    BY <1>6, OlderIsAge DEF Answered, Typed, HostOK
  <2> QED BY <1>6, <2>1, TypedKept DEF Answered, Typed, portVars, graphVars, devVars
<1>7. CASE CutShort
  <2>1. HostOK'
    BY <1>7, OlderIsAge DEF CutShort, Typed, HostOK
  <2> QED BY <1>7, <2>1, TypedKept DEF CutShort, Typed, portVars, graphVars, devVars
<1>8. CASE ReadOutputs
  <2>1. HostOK'
    BY <1>8 DEF ReadOutputs, Typed, HostOK
  <2>2. PortsOK'
    <3>1. \A d \in Devices : eventsOut'[d] = <<>> \/ eventsOut'[d] = eventsOut[d]
      BY <1>8 DEF ReadOutputs
    <3>2. Len(<<>>) = 0 /\ PortSize \in Nat /\ UNCHANGED given
      BY <1>8, SizesAssumption DEF ReadOutputs
    <3> QED BY <3>1, <3>2 DEF Typed, PortsOK
  <2> QED BY <1>8, <2>1, <2>2, TypedKept DEF ReadOutputs, Typed, graphVars, devVars
<1>9. CASE CopyCross
  <2>1. HostOK' /\ SoundOK'
    BY <1>9 DEF CopyCross, Typed, HostOK, SoundOK, history, Ages
  <2> QED BY <1>9, <2>1, TypedKept DEF CopyCross, Typed, graphVars, devVars, history
<1>10. ASSUME NEW s \in Sandboxes, CycleBegin(s) PROVE Typed'
  <2>1. HostOK'
    <3>1. clean' = (clean /\ plan'[s] = plan[s]) /\ signal' = signal \ {s}
      BY <1>10 DEF CycleBegin
    <3>2. clean' \in BOOLEAN
      BY <3>1
    <3> QED BY <1>10, <3>1, <3>2 DEF CycleBegin, Typed, HostOK, hostVars
  <2>2. JobsOK'
    <3>1. /\ busy' = [busy EXCEPT ![s] = TRUE] /\ todo' = [todo EXCEPT ![s] = order[s]]
          /\ DOMAIN plan' = DOMAIN plan /\ s \in started /\ UNCHANGED <<home, started>>
      BY <1>10 DEF CycleBegin
    <3> QED BY <3>1 DEF Typed, JobsOK, GraphOK, In
  <2> QED BY <1>10, <2>1, <2>2, TypedKept DEF CycleBegin, Typed, portVars, graphVars, devVars
<1>11. ASSUME NEW s \in Sandboxes, CycleEnd(s) PROVE Typed'
  <2>1. HostOK' /\ JobsOK'
    BY <1>11 DEF CycleEnd, Typed, HostOK, JobsOK, In, history
  <2> QED BY <1>11, <2>1, TypedKept DEF CycleEnd, Typed, portVars, graphVars, devVars, history
<1>12. ASSUME NEW s \in Sandboxes, Start(s) PROVE Typed'
  <2>1. PluginsOK' /\ JobsOK'
    BY <1>12 DEF Start, Typed, PluginsOK, JobsOK, In, jobVars
  <2> QED BY <1>12, <2>1, TypedKept DEF Start, Typed, portVars, graphVars, history
<1>13. ASSUME NEW s \in Sandboxes, Crash(s) PROVE Typed'
  BY <1>13, CrashTyped
<1>14. ASSUME NEW s \in Sandboxes, NEW sleeps \in BOOLEAN, ProcessDevice(s, sleeps) PROVE Typed'
  BY <1>14, ProcessDeviceTyped
<1>15. CASE Activate
  <2>1. ModelOK'
    BY <1>15 DEF Activate, Typed, ModelOK
  <2> QED BY <1>15, <2>1, TypedKept DEF Activate, Typed, portVars, graphVars, devVars
<1>16. ASSUME NEW s \in Sandboxes, Notice(s) PROVE Typed'
  <2>1. ModelOK'
    BY <1>16 DEF Notice, Typed, ModelOK
  <2>2. PluginsOK'
    BY <1>16 DEF Notice, Typed, PluginsOK, devVars
  <2> QED BY <1>16, <2>1, <2>2, TypedKept DEF Notice, Typed, portVars, graphVars, devVars
<1>17. ASSUME NEW s \in Sandboxes, Count(s) PROVE Typed'
  <2>1. ModelOK'
    BY <1>17 DEF Count, Typed, ModelOK
  <2> QED BY <1>17, <2>1, TypedKept DEF Count, Typed, portVars, graphVars, devVars, history
<1>18. ASSUME NEW s \in Sandboxes, Created(s) PROVE Typed'
  <2>1. ModelOK'
    BY <1>18 DEF Created, Typed, ModelOK, In
  <2> QED BY <1>18, <2>1, TypedKept DEF Created, Typed, portVars, graphVars, devVars, history
<1>19. ASSUME NEW s \in Sandboxes, Restart(s) PROVE Typed'
  <2>1. PluginsOK'
    BY <1>19 DEF Restart, Typed, PluginsOK, devVars
  <2>2. GraphOK'
    BY <1>19, UnconnectedFacts DEF Restart, Typed, GraphOK, In
  <2> QED BY <1>19, <2>1, <2>2, TypedKept DEF Restart, Typed, portVars, history
<1>20. ASSUME NEW a \in Devices, NEW b \in Devices, Connect(a, b) PROVE Typed'
  <2>1. ModelOK'
    BY <1>20 DEF Connect, Rewire, Typed, ModelOK
  <2>2. GraphOK'
    BY <1>20, RewireTyped, TypedKept DEF Connect, Typed, GraphOK, graphVars
  <2> QED BY <1>20, <2>1, <2>2, TypedKept DEF Connect, Typed, portVars, devVars
<1>21. ASSUME NEW a \in Devices, NEW b \in Devices, Disconnect(a, b) PROVE Typed'
  <2>1. ModelOK'
    BY <1>21 DEF Disconnect, Rewire, Typed, ModelOK
  <2>2. GraphOK'
    BY <1>21, RewireTyped, TypedKept DEF Disconnect, Typed, GraphOK, graphVars
  <2> QED BY <1>21, <2>1, <2>2, TypedKept DEF Disconnect, Typed, portVars, devVars
<1>22. ASSUME NEW d \in Devices, RequestProcess(d) PROVE Typed'
  <2>1. PluginsOK'
    BY <1>22 DEF RequestProcess, Typed, PluginsOK
  <2> QED BY <1>22, <2>1, TypedKept DEF RequestProcess, Typed, portVars, graphVars
<1>23. ASSUME NEW d \in Played, QueueEvent(d) PROVE Typed'
  <2>1. PortsOK'
    <3>1. [from |-> "main", n |-> left["event"], i |-> 1] \in Events
      BY DEF Streams, Kinds, Events
    <3>2. /\ given' = [given EXCEPT ![d] = @ \cup {[from |-> "main", n |-> left["event"], i |-> 1]}]
          /\ UNCHANGED eventsOut
      BY <1>23 DEF QueueEvent, portVars
    <3> QED BY <3>1, <3>2 DEF Typed, PortsOK
  <2> QED BY <1>23, <2>1, TypedKept DEF QueueEvent, Typed, portVars, graphVars
<1>24. CASE UNCHANGED vars
  BY <1>24, TypedKept DEF vars, Typed, portVars, graphVars, devVars, history
<1> QED
  BY <1>1, <1>2, <1>3, <1>4, <1>5, <1>6, <1>7, <1>8, <1>9, <1>10, <1>11, <1>12, <1>13,
     <1>14, <1>15, <1>16, <1>17, <1>18, <1>19, <1>20, <1>21, <1>22, <1>23, <1>24
  DEF Next, Host, Client, Sandbox

LEMMA TypedHolds == Spec => [](Streams /\ Typed)
BY StreamsInit, StreamsStep, TypedInit, TypedStep, PTL DEF Spec

\* Types, ports that are not overrun, orders that have each device of their sandbox, and
\* audio threads only in processes that run, for any devices, graphs and budgets.
THEOREM TypeCorrect == Spec => []TypeOK
<1>1. Streams /\ Typed => TypeOK
  <2> SUFFICES ASSUME Streams, Typed PROVE TypeOK
    OBVIOUS
  <2>1. \A d \in Devices :
          /\ eventsIn[d] \in Seq(Events) /\ Len(eventsIn[d]) <= PortSize
          /\ eventsOut[d] \in Seq(Events) /\ Len(eventsOut[d]) <= PortSize
          /\ queue[d] \in Seq(Events) /\ heard[d] \in Seq(Events) /\ given[d] \subseteq Events
          /\ mode[d] \in {"off", "asleep", "awake"} /\ wake[d] \in BOOLEAN
    BY DEF Streams, Stream, Typed, PortsOK, PluginsOK
  <2>2. \A s \in Sandboxes :
          /\ life[s] \in {"up", "crashed", "down"}
          /\ ToSet(order[s]) = In(s) /\ ToSet(todo[s]) \subseteq In(s)
          /\ s \in started => life[s] = "up"
          /\ busy[s] => s \in started
    BY DEF Typed, GraphOK, JobsOK, PluginsOK
  <2> QED BY <2>1, <2>2 DEF TypeOK, Typed, ModelOK, HostOK, SoundOK, PluginsOK
<1> QED BY <1>1, TypedHolds, PTL

-----------------------------------------------------------------------------
(* Nothing is lost while nothing goes wrong.  A plugin's output replaces    *)
(* what is in its output port: that port has to be empty by then.          *)

AllRemote == remote = Devices /\ audio.remote = Devices

\* The host waits for all that have been signalled or are at work,
Owes ==
  /\ signal \subseteq owed
  /\ \A s \in Sandboxes : busy[s] => s \in owed /\ s \notin signal
  /\ apc \notin {"zero", "wait"} => owed = {}

\* and has taken all output before that; a device is processed once for every signal.
Emptied ==
  /\ apc \in {"idle", "signal", "cross"} => \A d \in Devices : eventsOut[d] = <<>>
  /\ \A d \in Devices :
       home[d] \in signal \/ d \in ToSet(todo[home[d]]) => eventsOut[d] = <<>>

AllKept == \A d \in Devices : given[d] = Range(heard[d]) \cup Waits(d)

Calm == AllRemote /\ Owes /\ Emptied /\ AllKept

Quiet == slips = {} => Calm

LEMMA CalmKept ==
  ASSUME Calm
  PROVE  /\ UNCHANGED <<remote, audio>> => AllRemote'
         /\ UNCHANGED <<signal, owed, busy, apc>> => Owes'
         /\ UNCHANGED <<apc, eventsOut, home, signal, todo>> => Emptied'
         /\ UNCHANGED <<given, heard, eventsIn, queue, eventsOut>> => AllKept'
<1>1. UNCHANGED <<remote, audio>> => AllRemote'
  BY DEF Calm, AllRemote
<1>2. UNCHANGED <<signal, owed, busy, apc>> => Owes'
  BY DEF Calm, Owes
<1>3. UNCHANGED <<apc, eventsOut, home, signal, todo>> => Emptied'
  BY DEF Calm, Emptied
<1>4. UNCHANGED <<given, heard, eventsIn, queue, eventsOut>> => AllKept'
  BY DEF Calm, AllKept, Waits
<1> QED BY <1>1, <1>2, <1>3, <1>4

LEMMA RangeConcat ==
  ASSUME NEW s \in Seq(Events), NEW t \in Seq(Events)
  PROVE  Range(s \o t) = Range(s) \cup Range(t)
<1>1. /\ Len(s) \in Nat /\ Len(t) \in Nat
      /\ DOMAIN s = 1 .. Len(s) /\ DOMAIN t = 1 .. Len(t)
      /\ DOMAIN (s \o t) = 1 .. Len(s) + Len(t)
      /\ \A i \in 1 .. Len(s) : (s \o t)[i] = s[i]
      /\ \A i \in 1 .. Len(t) : (s \o t)[Len(s) + i] = t[i]
  OBVIOUS
<1>2. ASSUME NEW e \in Range(s \o t) PROVE e \in Range(s) \cup Range(t)
  <2>1. PICK i \in DOMAIN (s \o t) : e = (s \o t)[i]
    BY DEF Range
  <2>2. CASE i <= Len(s)
    <3>1. i \in DOMAIN s /\ e = s[i]
      BY <1>1, <2>1, <2>2
    <3> QED BY <3>1 DEF Range
  <2>3. CASE i > Len(s)
    <3>1. i - Len(s) \in DOMAIN t /\ Len(s) + (i - Len(s)) = i
      BY <1>1, <2>1, <2>3
    <3>2. e = t[i - Len(s)]
      BY <1>1, <2>1, <3>1
    <3> QED BY <3>1, <3>2 DEF Range
  <2> QED BY <1>1, <2>1, <2>2, <2>3
<1>3. ASSUME NEW e \in Range(s) PROVE e \in Range(s \o t)
  <2>1. PICK i \in DOMAIN s : e = s[i]
    BY DEF Range
  <2>2. i \in DOMAIN (s \o t) /\ (s \o t)[i] = e
    BY <1>1, <2>1
  <2> QED BY <2>2 DEF Range
<1>4. ASSUME NEW e \in Range(t) PROVE e \in Range(s \o t)
  <2>1. PICK i \in DOMAIN t : e = t[i]
    BY DEF Range
  <2>2. Len(s) + i \in DOMAIN (s \o t) /\ (s \o t)[Len(s) + i] = e
    BY <1>1, <2>1
  <2> QED BY <2>2 DEF Range
<1> QED BY <1>2, <1>3, <1>4

LEMMA RangeEmpty == Range(<<>>) = {}
BY DEF Range

LEMMA QuietInit == Init => Quiet
<1> SUFFICES ASSUME Init PROVE Calm
  BY DEF Quiet
<1>1. AllRemote
  <2>1. audio = [cross |-> cross, remote |-> remote, isActive |-> isActive, counted |-> counted]
    BY DEF Init
  <2> QED BY <2>1 DEF Init, AllRemote
<1>2. Owes
  BY DEF Init, Owes
<1>3. \A d \in Devices : /\ eventsOut[d] = <<>> /\ eventsIn[d] = <<>> /\ queue[d] = <<>>
                         /\ heard[d] = <<>> /\ given[d] = {}
  BY DEF Init
<1>4. Emptied
  BY <1>3 DEF Emptied
<1>5. AllKept
  BY <1>3, RangeEmpty DEF AllKept, Waits
<1> QED BY <1>1, <1>2, <1>4, <1>5 DEF Calm

LEMMA InputsCalm ==
  ASSUME Typed, Streams, Calm, NEW batch \in Batches, Inputs(batch)
  PROVE  Calm'
<1>1. AllRemote'
  <2>1. /\ audio' = [cross |-> cross, remote |-> remote, isActive |-> isActive, counted |-> counted]
        /\ UNCHANGED remote
    BY DEF Inputs, WriteAudio, modelVars
  <2> QED BY <2>1 DEF AllRemote, Calm
<1>2. Owes' /\ Emptied'
  BY DEF Inputs, Calm, Owes, Emptied, jobVars
<1>3. AllKept'
  <2> SUFFICES ASSUME NEW d \in Devices
               PROVE  given'[d] = Range(heard'[d]) \cup Waits(d)'
    BY DEF AllKept
  <2>1. /\ given'[d] = given[d] \cup Range(HostEvents(batch[d]))
        /\ eventsIn'[d] = eventsIn[d] \o HostEvents(batch[d])
        /\ UNCHANGED <<heard, queue, eventsOut>>
    BY DEF Inputs, WriteEvents, devVars
  <2>2. batch[d] \in Nat
    BY SizesAssumption DEF Batches
  <2>3. HostEvents(batch[d]) \in Seq(Events) /\ eventsIn[d] \in Seq(Events)
    BY <2>2, HostEventsFacts DEF Streams, Stream
  <2>4. Range(eventsIn'[d]) = Range(eventsIn[d]) \cup Range(HostEvents(batch[d]))
    BY <2>1, <2>3, RangeConcat
  <2>5. given[d] = Range(heard[d]) \cup Waits(d)
    BY DEF Calm, AllKept
  <2> QED BY <2>1, <2>4, <2>5 DEF Waits
<1> QED BY <1>1, <1>2, <1>3 DEF Calm

LEMMA SignalCalm ==
  ASSUME Typed, Calm, NEW ss \in SUBSET Sandboxes, Signal(ss)
  PROVE  Calm'
<1>1. owed = {} /\ signal = {} /\ \A s \in Sandboxes : ~busy[s]
  BY DEF Signal, Calm, Owes
<1>2. Owes'
  BY <1>1 DEF Signal, Owes, jobVars
<1>3. Emptied'
  BY DEF Signal, Calm, Emptied, portVars, jobVars
<1> QED BY <1>2, <1>3, CalmKept DEF Signal, Calm, modelVars, portVars, devVars

LEMMA ReadOutputsCalm ==
  ASSUME Streams, Calm, ReadOutputs
  PROVE  Calm'
<1>1. \A d \in Devices : heard'[d] = heard[d] \o eventsOut[d] /\ eventsOut'[d] = <<>>
  BY DEF ReadOutputs, Calm, AllRemote
<1>2. Emptied'
  BY <1>1 DEF Emptied
<1>3. AllKept'
  <2> SUFFICES ASSUME NEW d \in Devices
               PROVE  given'[d] = Range(heard'[d]) \cup Waits(d)'
    BY DEF AllKept
  <2>1. heard[d] \in Seq(Events) /\ eventsOut[d] \in Seq(Events)
    BY DEF Streams, Stream
  <2>2. Range(heard'[d]) = Range(heard[d]) \cup Range(eventsOut[d])
    BY <1>1, <2>1, RangeConcat, ZenonT(40)
  <2>3. given[d] = Range(heard[d]) \cup Waits(d) /\ UNCHANGED <<given, eventsIn, queue>>
    BY DEF Calm, AllKept, ReadOutputs, devVars
  <2> QED BY <1>1, <2>2, <2>3, RangeEmpty DEF Waits
<1>4. Owes'
  BY DEF ReadOutputs, Calm, Owes, jobVars
<1> QED BY <1>2, <1>3, <1>4, CalmKept DEF ReadOutputs, Calm, modelVars

LEMMA CycleBeginCalm ==
  ASSUME Typed, Calm, NEW s \in Sandboxes, CycleBegin(s)
  PROVE  Calm'
<1>1. /\ s \in signal /\ signal' = signal \ {s} /\ busy' = [busy EXCEPT ![s] = TRUE]
      /\ todo' = [todo EXCEPT ![s] = order[s]]
      /\ UNCHANGED <<owed, apc, home, eventsOut>>
  BY DEF CycleBegin, hostVars, portVars
<1>2. Owes'
  BY <1>1 DEF Calm, Owes, Typed, JobsOK
<1>3. Emptied'
  <2>1. ASSUME NEW d \in Devices, home[d] \in signal' \/ d \in ToSet(todo'[home[d]])
        PROVE  eventsOut[d] = <<>>
    <3>1. CASE home[d] = s
      BY <1>1, <3>1 DEF Calm, Emptied
    <3>2. CASE home[d] # s
      <4>1. todo'[home[d]] = todo[home[d]] /\ (home[d] \in signal' => home[d] \in signal)
        BY <1>1, <3>2
      <4> QED BY <2>1, <4>1 DEF Calm, Emptied
    <3> QED BY <3>1, <3>2
  <2> QED BY <1>1, <2>1 DEF Calm, Emptied
<1> QED BY <1>2, <1>3, CalmKept DEF CycleBegin, Calm, modelVars, portVars, hostVars, devVars

LEMMA CycleEndCalm ==
  ASSUME Typed, Calm, NEW s \in Sandboxes, CycleEnd(s)
  PROVE  Calm'
<1>1. Owes'
  BY DEF CycleEnd, Calm, Owes, Typed, JobsOK
<1> QED BY <1>1, CalmKept DEF CycleEnd, Calm, modelVars, portVars, devVars, history

LEMMA ProcessDeviceCalm ==
  ASSUME Typed, Streams, Calm, NEW s \in Sandboxes, NEW sleeps \in BOOLEAN,
         ProcessDevice(s, sleeps), slips' = {}
  PROVE  Calm'
<1>0. PICK d : d = Head(todo[s])
  OBVIOUS
<1>1. /\ todo[s] \in Seq(Devices) /\ todo[s] # <<>> /\ IsInjective(todo[s])
      /\ ToSet(todo[s]) \subseteq In(s)
  BY DEF ProcessDevice, Typed, JobsOK
<1>2. /\ d \in Devices /\ home[d] = s /\ d \in ToSet(todo[s])
      /\ ToSet(Tail(todo[s])) = ToSet(todo[s]) \ {d}
  BY <1>0, <1>1, TailFacts DEF In
<1>3. /\ EventPorts(d) /\ ~Drops(d)
      /\ ~(Flushes(d) /\ Processes(d) /\ Received(d) # <<>>)
  BY <1>0 DEF ProcessDevice, Slip
<1>4. todo' = [todo EXCEPT ![s] = Tail(todo[s])] /\ UNCHANGED <<apc, home, signal, heard, given>>
  BY DEF ProcessDevice, hostVars
<1>5. /\ \A e \in Devices \ {d} : /\ eventsIn'[e] = eventsIn[e] /\ eventsOut'[e] = eventsOut[e]
                                  /\ queue'[e] = queue[e]
      /\ eventsIn'[d] = IF Processes(d) \/ Flushes(d) THEN <<>> ELSE Received(d)
      /\ eventsOut'[d] = SentOn(d) /\ queue'[d] = Rest(d)
  BY <1>2, <1>3 DEF EventPorts, Streams
<1>6. eventsOut[d] = <<>>
  BY <1>2 DEF Calm, Emptied
<1>7. Received(d) = eventsIn[d] \o queue[d] /\ Rest(d) = <<>>
  BY <1>2, <1>3, ReceivedFits
<1>8. Range(Received(d)) = Range(eventsIn[d]) \cup Range(queue[d])
  BY <1>2, <1>7, RangeConcat DEF Streams, Stream
<1>9. Owes'
  BY CalmKept DEF ProcessDevice, Calm, hostVars
<1>10. Emptied'
  <2>1. apc \notin {"idle", "signal", "cross"}
    BY <1>2, <1>1 DEF Calm, Owes, ProcessDevice
  <2>2. ASSUME NEW e \in Devices, home[e] \in signal \/ e \in ToSet(todo'[home[e]])
        PROVE  eventsOut'[e] = <<>>
    <3>1. home[d] \notin signal
      BY <1>2 DEF Calm, Owes, ProcessDevice
    <3>2. \A t \in Sandboxes : todo'[t] = IF t = s THEN Tail(todo[s]) ELSE todo[t]
      BY <1>4 DEF Typed, JobsOK
    <3>3. home[e] \in Sandboxes
      BY DEF Typed, GraphOK
    <3>4. e # d
      BY <1>2, <2>2, <3>1, <3>2
    <3>5. home[e] \in signal \/ e \in ToSet(todo[home[e]])
      BY <1>2, <2>2, <3>2, <3>3
    <3> QED BY <1>5, <3>4, <3>5 DEF Calm, Emptied
  <2> QED BY <1>4, <2>1, <2>2 DEF Emptied
<1>11. AllKept'
  <2> SUFFICES ASSUME NEW e \in Devices
               PROVE  given'[e] = Range(heard'[e]) \cup Waits(e)'
    BY DEF AllKept
  <2>1. given[e] = Range(heard[e]) \cup Waits(e)
    BY DEF Calm, AllKept
  <2>2. CASE e # d
    BY <1>4, <1>5, <2>1, <2>2 DEF Waits
  <2>3. CASE e = d
    <3>1. Waits(d)' = Waits(d)
      <4>1. CASE Processes(d) /\ Flushes(d)
        <5>1. Received(d) = <<>>
          BY <1>3, <4>1
        <5>2. eventsIn'[d] = <<>> /\ eventsOut'[d] = <<>> /\ queue'[d] = <<>>
          BY <1>5, <1>7, <4>1 DEF SentOn
        <5> QED BY <1>6, <1>8, <5>1, <5>2, RangeEmpty DEF Waits
      <4>2. CASE ~(Processes(d) /\ Flushes(d)) /\ (Processes(d) \/ Flushes(d))
        <5>1. eventsIn'[d] = <<>> /\ eventsOut'[d] = Received(d) /\ queue'[d] = <<>>
          BY <1>5, <1>7, <4>2 DEF SentOn
        <5> QED BY <1>6, <1>8, <5>1, RangeEmpty DEF Waits
      <4>3. CASE ~Processes(d) /\ ~Flushes(d)
        <5>1. eventsIn'[d] = Received(d) /\ eventsOut'[d] = eventsOut[d] /\ queue'[d] = <<>>
          BY <1>5, <1>7, <4>3 DEF SentOn
        <5> QED BY <1>6, <1>8, <5>1, RangeEmpty DEF Waits
      <4> QED BY <4>1, <4>2, <4>3
    <3> QED BY <1>4, <2>1, <2>3, <3>1
  <2> QED BY <2>2, <2>3
<1>12. AllRemote'
  BY CalmKept DEF ProcessDevice, Calm, modelVars, hostVars
<1> QED BY <1>9, <1>10, <1>11, <1>12 DEF Calm

LEMMA QueueEventCalm ==
  ASSUME Streams, Typed, Calm, NEW d \in Devices, QueueEvent(d)
  PROVE  Calm'
<1>1. PICK event \in Events : /\ queue' = [queue EXCEPT ![d] = Append(queue[d], event)]
                              /\ given' = [given EXCEPT ![d] = given[d] \cup {event}]
  <2>1. [from |-> "main", n |-> left["event"], i |-> 1] \in Events
    BY DEF Streams, Kinds, Events
  <2> QED BY <2>1 DEF QueueEvent
<1>2. UNCHANGED <<heard, eventsIn, eventsOut>>
  BY DEF QueueEvent, portVars
<1>3. AllKept'
  <2> SUFFICES ASSUME NEW e \in Devices
               PROVE  given'[e] = Range(heard'[e]) \cup Waits(e)'
    BY DEF AllKept
  <2>1. given[e] = Range(heard[e]) \cup Waits(e)
    BY DEF Calm, AllKept
  <2>2. CASE e # d
    BY <1>1, <1>2, <2>1, <2>2 DEF Waits, Streams, Typed, PortsOK
  <2>3. CASE e = d
    <3>1. queue'[d] = Append(queue[d], event) /\ given'[d] = given[d] \cup {event}
      BY <1>1 DEF Streams, Typed, PortsOK
    <3>2. queue[d] \in Seq(Events) /\ <<event>> \in Seq(Events)
      BY DEF Streams, Stream
    <3>4. Range(<<event>>) = {event}
      BY DEF Range
    <3>5. Append(queue[d], event) = queue[d] \o <<event>>
      BY <3>2
    <3>3. Range(queue'[d]) = Range(queue[d]) \cup {event}
      <4>1. Range(queue[d] \o <<event>>) = Range(queue[d]) \cup Range(<<event>>)
        BY ONLY <3>2, RangeConcat
      <4>2. QED BY ONLY <3>1, <3>4, <3>5, <4>1
    <3> QED BY <1>2, <2>1, <2>3, <3>1, <3>3 DEF Waits
  <2> QED BY <2>2, <2>3
<1> QED BY <1>3, CalmKept DEF QueueEvent, Calm, modelVars, portVars, hostVars, jobVars

LEMMA QuietStep == Typed /\ Streams /\ Quiet /\ [Next]_vars => Quiet'
<1> SUFFICES ASSUME Typed, Streams, Quiet, [Next]_vars, slips' = {} PROVE Calm'
  BY DEF Quiet
<1>0. slips = {} => Calm
  BY DEF Quiet
<1>1. ASSUME NEW batch \in Batches, Inputs(batch) PROVE Calm'
  BY <1>0, <1>1, InputsCalm DEF Inputs
<1>2. ASSUME NEW batch \in Batches, InputsThrow(batch) PROVE Calm'
  BY <1>2 DEF InputsThrow, Slip
<1>3. CASE InputsTooMany
  BY <1>3 DEF InputsTooMany, Slip
<1>4. ASSUME NEW ss \in SUBSET Sandboxes, Signal(ss) PROVE Calm'
  BY <1>0, <1>4, SignalCalm DEF Signal
<1>5. CASE ZeroInactive
  <2>1. Calm
    BY <1>0, <1>5 DEF ZeroInactive, history
  <2>2. Owes' /\ Emptied'
    BY <1>5, <2>1 DEF ZeroInactive, Calm, Owes, Emptied, jobVars
  <2> QED BY <1>5, <2>1, <2>2, CalmKept DEF ZeroInactive, Calm, modelVars, devVars, history
<1>6. CASE Answered
  <2>1. Calm
    BY <1>0, <1>6 DEF Answered
  <2>2. Owes' /\ Emptied'
    BY <1>6, <2>1 DEF Answered, Calm, Owes, Emptied, jobVars, portVars
  <2> QED BY <1>6, <2>1, <2>2, CalmKept DEF Answered, Calm, modelVars, portVars, devVars
<1>7. CASE CutShort
  BY <1>7 DEF CutShort, Slip
<1>8. CASE ReadOutputs
  BY <1>0, <1>8, ReadOutputsCalm DEF ReadOutputs
<1>9. CASE CopyCross
  <2>1. Calm
    BY <1>0, <1>9 DEF CopyCross, history
  <2>2. Owes' /\ Emptied'
    BY <1>9, <2>1 DEF CopyCross, Calm, Owes, Emptied, jobVars
  <2> QED BY <1>9, <2>1, <2>2, CalmKept DEF CopyCross, Calm, modelVars, devVars, history
<1>10. ASSUME NEW s \in Sandboxes, CycleBegin(s) PROVE Calm'
  BY <1>0, <1>10, CycleBeginCalm DEF CycleBegin
<1>11. ASSUME NEW s \in Sandboxes, CycleEnd(s) PROVE Calm'
  BY <1>0, <1>11, CycleEndCalm DEF CycleEnd, history
<1>12. ASSUME NEW s \in Sandboxes, Start(s) PROVE Calm'
  BY <1>0, <1>12, CalmKept DEF Start, Calm, modelVars, portVars, hostVars, jobVars, history
<1>13. ASSUME NEW s \in Sandboxes, Crash(s) PROVE Calm'
  BY <1>13 DEF Crash, Slip
<1>14. ASSUME NEW s \in Sandboxes, NEW sleeps \in BOOLEAN, ProcessDevice(s, sleeps) PROVE Calm'
  <2>1. slips = {}
    <3>1. slips \subseteq slips'
      BY <1>14 DEF ProcessDevice, Slip
    <3> QED BY <3>1
  <2> QED BY <1>0, <1>14, <2>1, ProcessDeviceCalm
<1>15. CASE Activate
  BY <1>0, <1>15, CalmKept DEF Activate, Calm, portVars, hostVars, jobVars, devVars
<1>16. ASSUME NEW s \in Sandboxes, Notice(s) PROVE Calm'
  BY <1>16 DEF Notice, Slip
<1>17. ASSUME NEW s \in Sandboxes, Count(s) PROVE Calm'
  BY <1>0, <1>17, CalmKept DEF Count, Calm, portVars, hostVars, jobVars, devVars, history
<1>18. ASSUME NEW s \in Sandboxes, Created(s) PROVE Calm'
  <2>1. Calm
    BY <1>0, <1>18 DEF Created, history
  <2>2. AllRemote'
    BY <1>18, <2>1 DEF Created, Calm, AllRemote, In, hostVars
  <2> QED BY <1>18, <2>1, <2>2, CalmKept DEF Created, Calm, portVars, hostVars, jobVars, devVars, history
<1>19. ASSUME NEW s \in Sandboxes, Restart(s) PROVE Calm'
  BY <1>0, <1>19, CalmKept DEF Restart, Calm, modelVars, portVars, hostVars, jobVars, devVars, history
<1>20. ASSUME NEW a \in Devices, NEW b \in Devices, Connect(a, b) PROVE Calm'
  BY <1>0, <1>20, CalmKept DEF Connect, Calm, portVars, hostVars, jobVars, devVars
<1>21. ASSUME NEW a \in Devices, NEW b \in Devices, Disconnect(a, b) PROVE Calm'
  BY <1>0, <1>21, CalmKept DEF Disconnect, Calm, portVars, hostVars, jobVars, devVars
<1>22. ASSUME NEW d \in Devices, RequestProcess(d) PROVE Calm'
  BY <1>0, <1>22, CalmKept DEF RequestProcess, Calm, modelVars, portVars, hostVars, jobVars
<1>23. ASSUME NEW d \in Played, QueueEvent(d) PROVE Calm'
  BY <1>0, <1>23, QueueEventCalm, HomesAssumption DEF QueueEvent
<1>24. CASE UNCHANGED vars
  BY <1>0, <1>24, CalmKept DEF vars, Calm, modelVars, portVars, hostVars, jobVars, devVars, history
<1> QED
  BY <1>1, <1>2, <1>3, <1>4, <1>5, <1>6, <1>7, <1>8, <1>9, <1>10, <1>11, <1>12, <1>13,
     <1>14, <1>15, <1>16, <1>17, <1>18, <1>19, <1>20, <1>21, <1>22, <1>23, <1>24
  DEF Next, Host, Client, Sandbox

\* The host hears what a device was given once and in order, and, while no process dies,
\* no port or queue is full, no cycle is cut short and no plugin is woken with events,
\* all of it: for any graphs, any changes to them, and however slow a sandbox is.
THEOREM EventsAreHeardOnce == Spec => []EventsHeardOnce
<1>1. Quiet => NothingUnheard
  BY DEF Quiet, Calm, AllKept, NothingUnheard
<1>2. Spec => []Quiet
  BY TypedHolds, QuietInit, QuietStep, PTL DEF Spec
<1> QED BY <1>1, <1>2, HeardOnceInOrder, PTL DEF EventsHeardOnce

-----------------------------------------------------------------------------
(* Audio.  In a complete cycle every device is processed once, so that its  *)
(* output is what its input was as the cycle began; between two cycles      *)
(* what it puts out is one connection further, and one cycle older.        *)

\* The devices at the end of a path of that length, by the definition of Reached.
Reach(cs) == CHOOSE f : f = [k \in Nat |->
  IF k = 0 THEN Fed ELSE {d \in Devices \ Fed : \E a \in f[k - 1] : <<a, d>> \in cs}]

OneFeeder(cs) == \A c1, c2 \in cs : c1[2] = c2[2] => c1 = c2

\* What the devices have has the age of the path it came along, up to n.
Tuned(cs, f, n) ==
  \A d \in Devices, k \in 0 .. n - 1 :
    /\ f[d] = k => d \in Reach(cs)[k]
    /\ d \in Reach(cs)[k] /\ OneFeeder(cs) => f[d] = k

\* It has been copied along the connections.
Carried(cs, f, n) ==
  \A d \in Devices \ Fed, k \in 0 .. n - 1 :
    /\ f[d] = k => d \in Reach(cs)[k + 1]
    /\ d \in Reach(cs)[k + 1] /\ OneFeeder(cs) => f[d] = k

\* The recursive definition defines something: paths.
LEMMA ReachIs ==
  ASSUME NEW cs
  PROVE  /\ Reach(cs)[0] = Fed
         /\ \A k \in Nat :
              Reach(cs)[k + 1] = {d \in Devices \ Fed : \E a \in Reach(cs)[k] : <<a, d>> \in cs}
<1> DEFINE Body(f, k) == IF k = 0 THEN Fed
                         ELSE {d \in Devices \ Fed : \E a \in f[k - 1] : <<a, d>> \in cs}
           Path(p, k, d) == /\ p[0] \in Fed /\ p[k] = d
                            /\ \A i \in 1 .. k : p[i] \notin Fed /\ <<p[i - 1], p[i]>> \in cs
           Ends(k) == {d \in Devices : \E p \in [0 .. k -> Devices] : Path(p, k, d)}
           paths == [k \in Nat |-> Ends(k)]
<1>1. Ends(0) = Fed
  <2>1. ASSUME NEW d \in Ends(0) PROVE d \in Fed
    OBVIOUS
  <2>2. ASSUME NEW d \in Fed PROVE d \in Ends(0)
    <3>1. d \in Devices
      BY HomesAssumption
    <3>2. /\ [i \in 0 .. 0 |-> d] \in [0 .. 0 -> Devices]
          /\ Path([i \in 0 .. 0 |-> d], 0, d)
      BY <3>1
    <3> QED BY <3>1, <3>2
  <2> QED BY <2>1, <2>2
<1>2. ASSUME NEW k \in Nat \ {0}
      PROVE  Ends(k) = {d \in Devices \ Fed : \E a \in Ends(k - 1) : <<a, d>> \in cs}
  <2>1. ASSUME NEW d \in Ends(k)
        PROVE  d \in Devices \ Fed /\ \E a \in Ends(k - 1) : <<a, d>> \in cs
    <3>1. PICK p \in [0 .. k -> Devices] : Path(p, k, d)
      BY <2>1
    <3>2. PICK q : q = [i \in 0 .. k - 1 |-> p[i]]
      OBVIOUS
    <3>3. q \in [0 .. k - 1 -> Devices] /\ \A i \in 0 .. k - 1 : q[i] = p[i]
      BY <3>2
    <3>4. Path(q, k - 1, p[k - 1])
      BY <3>1, <3>3
    <3>5. p[k - 1] \in Ends(k - 1)
      BY <3>1, <3>3, <3>4
    <3>6. d \in Devices \ Fed /\ <<p[k - 1], d>> \in cs
      BY <3>1
    <3> QED BY <3>5, <3>6
  <2>2. ASSUME NEW d \in Devices \ Fed, NEW a \in Ends(k - 1), <<a, d>> \in cs
        PROVE  d \in Ends(k)
    <3>1. PICK p \in [0 .. k - 1 -> Devices] : Path(p, k - 1, a)
      BY <2>2
    <3>2. PICK q : q = [i \in 0 .. k |-> IF i = k THEN d ELSE p[i]]
      OBVIOUS
    <3>3. /\ q \in [0 .. k -> Devices] /\ q[k] = d
          /\ \A i \in 0 .. k - 1 : q[i] = p[i]
      BY <3>2
    <3>4. q[0] \in Fed
      BY <3>1, <3>3
    <3>5. ASSUME NEW i \in 1 .. k PROVE q[i] \notin Fed /\ <<q[i - 1], q[i]>> \in cs
      <4>1. CASE i = k
        BY <2>2, <3>1, <3>3, <4>1
      <4>2. CASE i # k
        <5>1. i \in 1 .. k - 1 /\ i \in 0 .. k - 1 /\ i - 1 \in 0 .. k - 1
          BY <4>2
        <5> QED BY <3>1, <3>3, <5>1
      <4> QED BY <4>1, <4>2
    <3>6. Path(q, k, d)
      BY <3>3, <3>4, <3>5
    <3> QED BY <3>3, <3>6
  <2> HIDE DEF Ends, Path
  <2> QED BY <2>1, <2>2
<1>3. \A k \in Nat : paths[k] = Body(paths, k)
  <2> SUFFICES ASSUME NEW k \in Nat PROVE paths[k] = Body(paths, k)
    OBVIOUS
  <2> HIDE DEF Ends
  <2>1. CASE k = 0
    BY <1>1, <2>1
  <2>2. CASE k # 0
    <3>1. k - 1 \in Nat
      BY <2>2
    <3>2. paths[k] = Ends(k) /\ paths[k - 1] = Ends(k - 1)
      BY <3>1
    <3> HIDE DEF paths
    <3> QED BY <1>2, <2>2, <3>2
  <2> QED BY <2>1, <2>2
<1>4. paths = [k \in Nat |-> Body(paths, k)]
  <2> HIDE DEF Ends, Body
  <2> QED BY <1>3
<1>5. Reach(cs) = [k \in Nat |-> Body(Reach(cs), k)]
  <2>1. Reach(cs) = CHOOSE f : f = [k \in Nat |-> Body(f, k)]
    BY DEF Reach
  <2> HIDE DEF Body, paths
  <2> QED BY <1>4, <2>1
<1>6. \A k \in Nat : Reach(cs)[k] = Body(Reach(cs), k)
  <2> HIDE DEF Body
  <2> QED BY <1>5
<1>7. Reach(cs)[0] = Fed
  BY <1>6
<1>8. ASSUME NEW k \in Nat
      PROVE  Reach(cs)[k + 1] = {d \in Devices \ Fed : \E a \in Reach(cs)[k] : <<a, d>> \in cs}
  <2>1. k + 1 \in Nat /\ k + 1 # 0 /\ (k + 1) - 1 = k
    OBVIOUS
  <2> QED BY <1>6, <2>1
<1> QED BY <1>7, <1>8

\* A cycle begins: what was copied is one cycle older, and the host writes the rest.
LEMMA InputsTune ==
  ASSUME NEW cs, NEW f \in [Devices -> Ages], NEW g, NEW n \in Ages,
         n > 0 => Carried(cs, f, n),
         \A d \in Devices : g[d] = IF d \in Fed THEN 0 ELSE Older(f[d])
  PROVE  Tuned(cs, g, Older(n))
<1> SUFFICES ASSUME NEW d \in Devices, NEW k \in 0 .. Older(n) - 1
             PROVE  /\ g[d] = k => d \in Reach(cs)[k]
                    /\ d \in Reach(cs)[k] /\ OneFeeder(cs) => g[d] = k
  BY DEF Tuned
<1>1. k \in Nat /\ k <= n /\ k < MaxAge /\ n \in Nat /\ MaxAge \in Nat \ {0}
  BY SizesAssumption DEF Older, Ages
<1>2. f[d] \in Nat /\ f[d] <= MaxAge
  BY <1>1 DEF Ages
<1>3. CASE d \in Fed
  <2>1. g[d] = 0 /\ d \in Reach(cs)[0]
    BY <1>3, ReachIs
  <2>2. ASSUME k # 0 PROVE d \notin Reach(cs)[k]
    <3>1. PICK j \in Nat : j + 1 = k
      <4>1. k - 1 \in Nat /\ (k - 1) + 1 = k
        BY <1>1, <2>2
      <4> QED BY <4>1
    <3>2. Reach(cs)[j + 1] = {e \in Devices \ Fed : \E a \in Reach(cs)[j] : <<a, e>> \in cs}
      BY ONLY ReachIs
    <3> QED BY <1>3, <3>1, <3>2
  <2> QED BY <2>1, <2>2
<1>4. CASE d \notin Fed
  <2>1. g[d] = Older(f[d]) /\ d \notin Reach(cs)[0]
    BY <1>4, ReachIs
  <2>2. CASE k = 0
    <3>1. g[d] # 0
      BY <1>1, <1>2, <2>1 DEF Older
    <3> QED BY <2>1, <2>2, <3>1
  <2>3. CASE k # 0
    <3>1. k - 1 \in 0 .. n - 1 /\ (k - 1) + 1 = k /\ n > 0
      BY <1>1, <2>3
    <3>2. g[d] = k <=> f[d] = k - 1
      BY <1>1, <1>2, <2>1 DEF Older
    <3>3. /\ f[d] = k - 1 => d \in Reach(cs)[(k - 1) + 1]
          /\ d \in Reach(cs)[(k - 1) + 1] /\ OneFeeder(cs) => f[d] = k - 1
      BY <1>4, <3>1 DEF Carried
    <3> QED BY <3>1, <3>2, <3>3
  <2> QED BY <2>2, <2>3
<1> QED BY <1>3, <1>4

\* A cycle has ended: what the devices put out is copied along the connections.
LEMMA CrossCarries ==
  ASSUME NEW cs \in SUBSET (Devices \X Devices), NEW f, NEW g, NEW n \in Nat,
         Tuned(cs, f, n),
         \A d \in Devices : IF \A a \in Devices : <<a, d>> \notin cs
                            THEN g[d] = f[d]
                            ELSE \E a \in Devices : <<a, d>> \in cs /\ g[d] = f[a]
  PROVE  Carried(cs, g, n)
<1> SUFFICES ASSUME NEW d \in Devices \ Fed, NEW k \in 0 .. n - 1
             PROVE  /\ g[d] = k => d \in Reach(cs)[k + 1]
                    /\ d \in Reach(cs)[k + 1] /\ OneFeeder(cs) => g[d] = k
  BY DEF Carried
<1>0. k \in Nat
  OBVIOUS
<1>r. \A j \in Nat :
        Reach(cs)[j + 1] = {e \in Devices \ Fed : \E a \in Reach(cs)[j] : <<a, e>> \in cs}
  BY ReachIs
<1>1. Reach(cs)[k + 1] = {e \in Devices \ Fed : \E a \in Reach(cs)[k] : <<a, e>> \in cs}
  BY ONLY <1>0, <1>r
<1>2. ASSUME g[d] = k PROVE d \in Reach(cs)[k + 1]
  <2>1. CASE \A a \in Devices : <<a, d>> \notin cs
    <3>1. d \in Reach(cs)[k]
      BY <1>2, <2>1 DEF Tuned
    <3>2. k # 0
      BY <3>1, ReachIs
    <3>3. k - 1 \in Nat /\ (k - 1) + 1 = k
      BY <1>0, <3>2
    <3>4. \E a \in Reach(cs)[k - 1] : <<a, d>> \in cs
      <4>1. Reach(cs)[(k - 1) + 1] =
              {e \in Devices \ Fed : \E a \in Reach(cs)[k - 1] : <<a, e>> \in cs}
        BY ONLY <3>3, <1>r
      <4>2. d \in Reach(cs)[(k - 1) + 1]
        BY ONLY <3>1, <3>3
      <4>3. QED BY ONLY <4>1, <4>2
    <3> QED BY <2>1, <3>4
  <2>2. CASE ~\A a \in Devices : <<a, d>> \notin cs
    <3>1. PICK a \in Devices : <<a, d>> \in cs /\ g[d] = f[a]
      BY <2>2
    <3>2. a \in Reach(cs)[k]
      BY <1>2, <3>1 DEF Tuned
    <3> QED BY <1>1, <3>1, <3>2
  <2> QED BY <2>1, <2>2
<1>3. ASSUME d \in Reach(cs)[k + 1], OneFeeder(cs) PROVE g[d] = k
  <2>1. PICK a \in Reach(cs)[k] : <<a, d>> \in cs
    BY <1>1, <1>3
  <2>2. a \in Devices
    BY <2>1
  <2>3. PICK b \in Devices : <<b, d>> \in cs /\ g[d] = f[b]
    BY <2>1, <2>2
  <2>4. b = a
    BY <1>3, <2>1, <2>3 DEF OneFeeder
  <2>5. f[a] = k
    BY <1>3, <2>1, <2>2 DEF Tuned
  <2> QED BY <2>3, <2>4, <2>5
<1> QED BY <1>2, <1>3

NoPlans == \A s \in Sandboxes : plan[s] = {}

AtRest == signal = {} /\ \A s \in Sandboxes : ~busy[s]

\* Only a group that is active has sandboxes that count; after complete cycles nobody is
\* at work until the next one.
Between ==
  /\ counted # {} => isActive
  /\ audio.counted # {} => audio.isActive
  /\ apc \notin {"zero", "wait"} /\ steady > 0 => AtRest
  /\ apc = "signal" /\ steady > 0 => clean
  /\ apc = "signal" /\ clean => AtRest

AtOutputs ==
  apc \in {"outputs", "cross"} /\ steady > 0 /\ NoPlans =>
    audio.remote = Devices /\ audioOut = audioIn /\ Tuned(audio.cross, audioOut, steady)

AtIdle == apc = "idle" /\ steady > 0 /\ NoPlans => Carried(audio.cross, audioIn, steady)

AtSignal ==
  apc = "signal" /\ clean /\ NoPlans /\ audio.remote = Devices =>
    Tuned(audio.cross, audioIn, Older(steady))

\* A device that has been processed puts out what its input was.
Copied ==
  \A d \in Devices :
    home[d] \notin signal /\ d \notin ToSet(todo[home[d]]) => audioOut[d] = audioIn[d]

Awaited ==
  \A s \in Sandboxes : /\ s \in owed => s \in signal \/ busy[s]
                       /\ s \in signal => s \in owed /\ ~busy[s]
                       /\ busy[s] => s \in owed

InCycle ==
  apc \in {"zero", "wait"} /\ clean =>
    /\ apc = "wait" /\ audio.remote = Devices
    /\ Awaited
    /\ NoPlans => Tuned(audio.cross, audioIn, Older(steady)) /\ Copied

Audible == Between /\ AtOutputs /\ AtIdle /\ AtSignal /\ InCycle

hearVars == <<apc, audio, steady, clean, signal, owed, jobVars, home, audioIn, audioOut>>

LEMMA AudibleKept ==
  ASSUME Audible, UNCHANGED hearVars, counted' # {} => isActive'
  PROVE  Audible'
<1>1. Between'
  BY DEF Audible, Between, AtRest, hearVars, jobVars
<1>2. AtOutputs'
  BY DEF Audible, AtOutputs, NoPlans, hearVars, jobVars
<1>3. AtIdle'
  BY DEF Audible, AtIdle, NoPlans, hearVars, jobVars
<1>4. AtSignal'
  BY DEF Audible, AtSignal, NoPlans, hearVars, jobVars
<1>5. InCycle'
  BY DEF Audible, InCycle, NoPlans, Copied, Awaited, hearVars, jobVars
<1> QED BY <1>1, <1>2, <1>3, <1>4, <1>5 DEF Audible

\* A cycle that was not complete: all starts anew.
LEMMA AudibleAnew ==
  ASSUME counted' # {} => isActive', audio.counted' # {} => audio.isActive',
         steady' = 0, ~clean' \/ apc' = "idle"
  PROVE  Audible'
BY DEF Audible, Between, AtOutputs, AtIdle, AtSignal, InCycle

LEMMA AudibleInit == Init => Audible
<1> SUFFICES ASSUME Init PROVE Audible
  OBVIOUS
<1>1. audio = [cross |-> cross, remote |-> remote, isActive |-> isActive, counted |-> counted]
  BY DEF Init
<1>2. apc = "idle" /\ steady = 0 /\ (counted # {} => isActive)
  BY DEF Init
<1> QED
  BY <1>1, <1>2 DEF Audible, Between, AtOutputs, AtIdle, AtSignal, InCycle

LEMMA InputsAudible ==
  ASSUME Typed, Audible, NEW batch \in Batches, Inputs(batch)
  PROVE  Audible'
<1>1. /\ audio' = [cross |-> cross, remote |-> remote, isActive |-> isActive, counted |-> counted]
      /\ audioIn' = [d \in Devices |-> IF d \in Fed \cap remote THEN 0 ELSE Older(audioIn[d])]
      /\ apc = "idle" /\ apc' = "signal"
      /\ clean' = AtRest
      /\ steady' = IF cross = audio.cross THEN steady ELSE 0
      /\ UNCHANGED <<counted, isActive, signal, busy, plan>>
  BY DEF Inputs, WriteAudio, AtRest, modelVars, jobVars
<1>2. /\ audio'.cross = cross /\ audio'.remote = remote
      /\ audio'.isActive = isActive /\ audio'.counted = counted
  BY <1>1
<1>3. Between'
  <2>1. steady' > 0 => steady' = steady
    BY <1>1
  <2>2. steady' > 0 => AtRest
    BY <1>1, <2>1 DEF Audible, Between
  <2>3. AtRest' = AtRest
    BY <1>1 DEF AtRest
  <2> QED BY <1>1, <1>2, <2>2, <2>3 DEF Audible, Between
<1>4. AtSignal'
  <2> SUFFICES ASSUME NoPlans', audio'.remote = Devices
               PROVE  Tuned(audio'.cross, audioIn', Older(steady'))
    BY DEF AtSignal
  <2>1. PICK n : n = steady'
    OBVIOUS
  <2>2. n \in Ages
    BY <1>1, <2>1, OlderIsAge DEF Typed, HostOK
  <2>3. n > 0 => Carried(cross, audioIn, n)
    <3> SUFFICES ASSUME n > 0 PROVE Carried(cross, audioIn, n)
      OBVIOUS
    <3>1. cross = audio.cross /\ n = steady
      BY <1>1, <2>1
    <3>2. NoPlans
      BY <1>1 DEF NoPlans
    <3> QED BY <1>1, <3>1, <3>2 DEF Audible, AtIdle
  <2>4. \A d \in Devices : audioIn'[d] = IF d \in Fed THEN 0 ELSE Older(audioIn[d])
    BY <1>1, <1>2
  <2>5. Tuned(cross, audioIn', Older(n))
    BY <2>2, <2>3, <2>4, InputsTune DEF Typed, SoundOK
  <2> QED BY <1>2, <2>1, <2>5
<1> QED BY <1>1, <1>3, <1>4 DEF Audible, AtOutputs, AtIdle, InCycle

LEMMA SignalAudible ==
  ASSUME Typed, Audible, NEW ss \in SUBSET Sandboxes, Signal(ss)
  PROVE  Audible'
<1>1. /\ ss \in {audio.counted, IF audio.counted = {} THEN {} ELSE {First}}
      /\ apc = "signal" /\ apc' = IF audio.isActive THEN "wait" ELSE "zero"
      /\ signal' = signal \cup ss /\ owed' = ss
      /\ clean' = (clean /\ ss = Sandboxes /\ audio.remote = Devices)
      /\ UNCHANGED <<counted, isActive, audio, steady, audioIn, audioOut, busy, plan, todo, home>>
  BY DEF Signal, modelVars, portVars, jobVars
<1>2. Between'
  BY <1>1 DEF Audible, Between
<1>3. InCycle'
  <2> SUFFICES ASSUME clean' PROVE InCycle'
    BY DEF InCycle
  <2>1. clean /\ ss = Sandboxes /\ audio.remote = Devices
    BY <1>1
  <2>2. AtRest
    BY <1>1, <2>1 DEF Audible, Between
  <2>3. audio.isActive
    <3>1. audio.counted # {}
      BY <1>1, <2>1, HomesAssumption
    <3> QED BY <3>1 DEF Audible, Between
  <2>4. Awaited'
    BY <1>1, <2>1, <2>2 DEF Awaited, AtRest
  <2>5. NoPlans' => NoPlans
    BY <1>1 DEF NoPlans
  <2>6. NoPlans => Tuned(audio.cross, audioIn, Older(steady))
    BY <1>1, <2>1 DEF Audible, AtSignal
  <2>7. Copied'
    BY <1>1, <2>1 DEF Copied, Typed, GraphOK
  <2> QED BY <1>1, <2>1, <2>3, <2>4, <2>5, <2>6, <2>7 DEF InCycle
<1> QED BY <1>1, <1>2, <1>3 DEF Audible, AtOutputs, AtIdle, AtSignal

LEMMA AnsweredAudible ==
  ASSUME Typed, Audible, Answered
  PROVE  Audible'
<1>1. /\ apc = "wait" /\ owed = {} /\ apc' = "outputs"
      /\ steady' = IF clean THEN Older(steady) ELSE 0
      /\ UNCHANGED <<counted, isActive, audio, clean, signal, busy, plan, todo, home,
                     audioIn, audioOut>>
  BY DEF Answered, modelVars, portVars, jobVars
<1>2. CASE clean
  <2>1. audio.remote = Devices /\ Awaited
    BY <1>1, <1>2 DEF Audible, InCycle
  <2>2. AtRest
    BY <1>1, <2>1 DEF AtRest, Awaited, Typed, HostOK
  <2>3. AtRest'
    BY <1>1, <2>2 DEF AtRest
  <2>4. AtOutputs'
    <3> SUFFICES ASSUME NoPlans'
                 PROVE  audio.remote = Devices /\ audioOut = audioIn /\ Tuned(audio.cross, audioOut, steady')
      BY <1>1 DEF AtOutputs
    <3>1. Tuned(audio.cross, audioIn, Older(steady)) /\ Copied
      BY <1>1, <1>2 DEF Audible, InCycle, NoPlans
    <3>2. \A d \in Devices : audioOut[d] = audioIn[d]
      <4> TAKE d \in Devices
      <4>1. home[d] \in Sandboxes
        BY DEF Typed, GraphOK
      <4>2. todo[home[d]] = <<>>
        BY <2>2, <4>1 DEF AtRest, Typed, JobsOK
      <4>3. d \notin ToSet(todo[home[d]])
        BY <4>2 DEF ToSet
      <4> QED BY <2>2, <3>1, <4>3 DEF AtRest, Copied
    <3>3. audioOut = audioIn
      BY <3>2 DEF Typed, SoundOK
    <3> QED BY <1>1, <1>2, <2>1, <3>1, <3>3
  <2> QED BY <1>1, <2>3, <2>4 DEF Audible, Between, AtIdle, AtSignal, InCycle
<1>3. CASE ~clean
  BY <1>1, <1>3, AudibleAnew DEF Audible, Between
<1> QED BY <1>2, <1>3

LEMMA CopyCrossAudible ==
  ASSUME Typed, Audible, CopyCross
  PROVE  Audible'
<1>1. /\ apc = "cross" /\ apc' = "idle"
      /\ UNCHANGED <<counted, isActive, audio, steady, clean, signal, owed, busy, plan, todo, home>>
  BY DEF CopyCross, modelVars, jobVars, history
<1>2. Between'
  BY <1>1 DEF Audible, Between, AtRest
<1>3. AtIdle'
  <2> SUFFICES ASSUME steady > 0, NoPlans PROVE Carried(audio.cross, audioIn', steady)
    BY <1>1 DEF AtIdle, NoPlans
  <2>1. audio.remote = Devices /\ audioOut = audioIn /\ Tuned(audio.cross, audioOut, steady)
    BY <1>1 DEF Audible, AtOutputs
  <2>2. ASSUME NEW d \in Devices
        PROVE  IF \A a \in Devices : <<a, d>> \notin audio.cross
               THEN audioIn'[d] = audioOut[d]
               ELSE \E a \in Devices : <<a, d>> \in audio.cross /\ audioIn'[d] = audioOut[a]
    <3>1. Sources(d) = {a \in Devices : <<a, d>> \in audio.cross}
      BY <2>1 DEF Sources
    <3>2. audioIn'[d] \in IF Sources(d) = {} THEN {audioIn[d]} ELSE {audioOut[a] : a \in Sources(d)}
      BY DEF CopyCross
    <3> QED BY <2>1, <3>1, <3>2
  <2>3. audio.cross \in SUBSET (Devices \X Devices) /\ steady \in Nat
    BY SizesAssumption DEF Typed, HostOK, Ages
  <2>4. PICK cs, f, g, n : cs = audio.cross /\ f = audioOut /\ g = audioIn' /\ n = steady
    OBVIOUS
  <2>5. cs \in SUBSET (Devices \X Devices) /\ n \in Nat /\ Tuned(cs, f, n)
    BY <2>1, <2>3, <2>4
  <2>6. \A d \in Devices : IF \A a \in Devices : <<a, d>> \notin cs
                          THEN g[d] = f[d]
                          ELSE \E a \in Devices : <<a, d>> \in cs /\ g[d] = f[a]
    BY <2>2, <2>4
  <2>7. Carried(cs, g, n)
    BY ONLY <2>5, <2>6, CrossCarries, ZenonT(40)
  <2> QED BY <2>4, <2>7
<1> QED BY <1>1, <1>2, <1>3 DEF Audible, AtOutputs, AtSignal, InCycle

\* A step that needs a signal, or a sandbox at work: while the host is not waiting, no
\* complete cycle has gone before.
LEMMA AtWorkAnew ==
  ASSUME Audible, ~AtRest, apc \notin {"zero", "wait"}, UNCHANGED <<apc, audio, steady>>,
         clean' => clean, counted' # {} => isActive'
  PROVE  Audible'
<1>1. ~(steady > 0) /\ (apc = "signal" => ~clean)
  BY DEF Audible, Between
<1> QED
  BY <1>1 DEF Audible, Between, AtOutputs, AtIdle, AtSignal, InCycle

LEMMA CycleBeginAudible ==
  ASSUME Typed, Audible, NEW s \in Sandboxes, CycleBegin(s)
  PROVE  Audible'
<1>1. /\ s \in signal /\ ~busy[s] /\ signal' = signal \ {s}
      /\ busy' = [busy EXCEPT ![s] = TRUE] /\ todo' = [todo EXCEPT ![s] = order[s]]
      /\ plan' = [plan EXCEPT ![s] = Inside(s)]
      /\ clean' = (clean /\ plan'[s] = plan[s])
      /\ UNCHANGED <<counted, isActive, apc, audio, owed, steady, home, audioIn, audioOut>>
  BY DEF CycleBegin, modelVars, portVars, hostVars
<1>2. CASE apc \notin {"zero", "wait"}
  BY <1>1, <1>2, AtWorkAnew DEF AtRest, Audible, Between
<1>3. CASE apc \in {"zero", "wait"}
  <2>1. InCycle'
    <3> SUFFICES ASSUME clean' PROVE InCycle'
      BY DEF InCycle
    <3>1. /\ clean /\ plan'[s] = plan[s] /\ apc = "wait" /\ audio.remote = Devices
          /\ Awaited
      BY <1>1, <1>3 DEF Audible, InCycle
    <3>2. Awaited'
      BY <1>1, <3>1 DEF Awaited, Typed, JobsOK
    <3>3. NoPlans' => NoPlans
      BY <1>1, <3>1 DEF NoPlans, Typed, JobsOK
    <3>4. ASSUME NoPlans PROVE Tuned(audio.cross, audioIn, Older(steady)) /\ Copied
      BY <1>3, <3>1, <3>4 DEF Audible, InCycle
    <3>5. ASSUME Copied PROVE Copied'
      <4> SUFFICES ASSUME NEW d \in Devices, home[d] \notin signal',
                          d \notin ToSet(todo'[home[d]])
                   PROVE  audioOut[d] = audioIn[d]
        BY <1>1 DEF Copied
      <4>1. home[d] # s
        BY <1>1 DEF Typed, GraphOK, JobsOK, In
      <4>2. home[d] \notin signal /\ todo'[home[d]] = todo[home[d]]
        BY <1>1, <4>1
      <4> QED BY <3>5, <4>2 DEF Copied
    <3> QED BY <1>1, <3>1, <3>2, <3>3, <3>4, <3>5 DEF InCycle
  <2>2. Between'
    BY <1>1, <1>3 DEF Audible, Between
  <2> QED BY <1>1, <1>3, <2>1, <2>2 DEF Audible, AtOutputs, AtIdle, AtSignal
<1> QED BY <1>2, <1>3

LEMMA CycleEndAudible ==
  ASSUME Typed, Audible, NEW s \in Sandboxes, CycleEnd(s)
  PROVE  Audible'
<1>1. /\ busy[s] /\ busy' = [busy EXCEPT ![s] = FALSE] /\ owed' = owed \ {s}
      /\ UNCHANGED <<counted, isActive, apc, audio, steady, clean, signal, home, todo, plan,
                     audioIn, audioOut>>
  BY DEF CycleEnd, modelVars, portVars, history
<1>2. CASE apc \notin {"zero", "wait"}
  BY <1>1, <1>2, AtWorkAnew DEF AtRest, Audible, Between
<1>3. CASE apc \in {"zero", "wait"}
  <2>1. InCycle'
    <3> SUFFICES ASSUME clean PROVE InCycle'
      BY <1>1 DEF InCycle
    <3>1. apc = "wait" /\ audio.remote = Devices /\ Awaited
      BY <1>3 DEF Audible, InCycle
    <3>2. Awaited'
      BY <1>1, <3>1 DEF Awaited, Typed, JobsOK
    <3>3. NoPlans => Tuned(audio.cross, audioIn, Older(steady)) /\ Copied
      BY <1>3 DEF Audible, InCycle
    <3> QED BY <1>1, <3>1, <3>2, <3>3 DEF InCycle, NoPlans, Copied
  <2>2. Between'
    BY <1>1, <1>3 DEF Audible, Between
  <2> QED BY <1>1, <1>3, <2>1, <2>2 DEF Audible, AtOutputs, AtIdle, AtSignal
<1> QED BY <1>2, <1>3

LEMMA ProcessDeviceAudible ==
  ASSUME Typed, Audible, NEW s \in Sandboxes, NEW sleeps \in BOOLEAN, ProcessDevice(s, sleeps)
  PROVE  Audible'
<1>0. PICK d : d = Head(todo[s])
  OBVIOUS
<1>1. /\ todo[s] \in Seq(Devices) /\ todo[s] # <<>> /\ IsInjective(todo[s])
      /\ ToSet(todo[s]) \subseteq In(s)
  BY DEF ProcessDevice, Typed, JobsOK
<1>2. /\ d \in Devices /\ home[d] = s
      /\ ToSet(Tail(todo[s])) = ToSet(todo[s]) \ {d}
  BY <1>0, <1>1, TailFacts DEF In
<1>3. /\ busy[s] /\ todo' = [todo EXCEPT ![s] = Tail(todo[s])]
      /\ clean' = (clean /\ Processes(d))
      /\ audioOut' = IF Processes(d) THEN [audioOut EXCEPT ![d] = audioIn[d]] ELSE audioOut
      /\ UNCHANGED <<counted, isActive, apc, audio, owed, steady, signal, home, busy, plan>>
  BY <1>0 DEF ProcessDevice, modelVars, hostVars
<1>4. ASSUME NoPlans PROVE audioIn' = audioIn
  <2>1. {b \in Devices : <<d, b>> \in plan[s]} = {}
    BY <1>4 DEF NoPlans
  <2>2. \E age \in {audioIn[d]} : audioIn' = [audioIn EXCEPT ![d] = age]
    BY <1>0, <2>1 DEF ProcessDevice
  <2>3. audioIn' = [audioIn EXCEPT ![d] = audioIn[d]]
    BY <2>2
  <2> QED BY <2>3 DEF Typed, SoundOK
<1>5. CASE apc \notin {"zero", "wait"}
  BY <1>3, <1>5, AtWorkAnew DEF AtRest, Audible, Between
<1>6. CASE apc \in {"zero", "wait"}
  <2>1. InCycle'
    <3> SUFFICES ASSUME clean' PROVE InCycle'
      BY DEF InCycle
    <3>1. clean /\ Processes(d) /\ apc = "wait" /\ audio.remote = Devices /\ Awaited
      BY <1>3, <1>6 DEF Audible, InCycle
    <3>2. Awaited'
      BY <1>3, <3>1 DEF Awaited
    <3>3. ASSUME NoPlans' PROVE Tuned(audio.cross, audioIn', Older(steady)) /\ Copied'
      <4>1. NoPlans
        BY <1>3, <3>3 DEF NoPlans
      <4>2. Tuned(audio.cross, audioIn, Older(steady)) /\ Copied /\ audioIn' = audioIn
        BY <1>4, <1>6, <3>1, <4>1 DEF Audible, InCycle
      <4>3. Copied'
        <5> SUFFICES ASSUME NEW e \in Devices, home[e] \notin signal,
                            e \notin ToSet(todo'[home[e]])
                     PROVE  audioOut'[e] = audioIn[e]
          BY <1>3, <4>2 DEF Copied
        <5>1. CASE e = d
          BY <1>2, <1>3, <3>1, <5>1 DEF Typed, SoundOK
        <5>2. CASE e # d
          <6>1. audioOut'[e] = audioOut[e]
            BY <1>3, <5>2 DEF Typed, SoundOK
          <6>2. e \notin ToSet(todo[home[e]])
            <7>1. CASE home[e] = s
              <8>1. todo'[home[e]] = Tail(todo[s])
                BY <1>3, <7>1 DEF Typed, JobsOK
              <8> QED BY <1>2, <5>2, <7>1, <8>1
            <7>2. CASE home[e] # s
              <8>1. todo'[home[e]] = todo[home[e]]
                BY <1>3, <7>2
              <8> QED BY <8>1
            <7> QED BY <7>1, <7>2
          <6> QED BY <4>2, <6>1, <6>2 DEF Copied
        <5> QED BY <5>1, <5>2
      <4> QED BY <4>2, <4>3
    <3> QED BY <1>3, <3>1, <3>2, <3>3 DEF InCycle
  <2>2. Between'
    BY <1>3, <1>6 DEF Audible, Between
  <2> QED BY <1>3, <1>6, <2>1, <2>2 DEF Audible, AtOutputs, AtIdle, AtSignal
<1> QED BY <1>5, <1>6

LEMMA AudibleStep == Typed /\ Audible /\ [Next]_vars => Audible'
<1> SUFFICES ASSUME Typed, Audible, [Next]_vars PROVE Audible'
  OBVIOUS
<1>0. /\ counted # {} => isActive
      /\ audio.counted # {} => audio.isActive
  BY DEF Audible, Between
<1>1. ASSUME NEW batch \in Batches, Inputs(batch) PROVE Audible'
  BY <1>1, InputsAudible
<1>2. ASSUME WriteAudio, UNCHANGED <<apc, modelVars>>, apc = "idle", steady' = 0
      PROVE  Audible'
  <2>1. audio'.counted = counted /\ audio'.isActive = isActive
    BY <1>2 DEF WriteAudio
  <2> QED BY <1>0, <1>2, <2>1, AudibleAnew DEF modelVars
<1>3. ASSUME NEW batch \in Batches, InputsThrow(batch) PROVE Audible'
  BY <1>2, <1>3 DEF InputsThrow
<1>4. CASE InputsTooMany
  BY <1>2, <1>4 DEF InputsTooMany
<1>5. ASSUME NEW ss \in SUBSET Sandboxes, Signal(ss) PROVE Audible'
  BY <1>5, SignalAudible
<1>6. CASE ZeroInactive
  <2>1. /\ apc = "zero" /\ apc' = "wait"
        /\ UNCHANGED <<counted, isActive, audio, clean>>
    BY <1>6 DEF ZeroInactive, modelVars, history
  <2>2. ~clean
    BY <2>1 DEF Audible, InCycle
  <2> QED
    BY <1>0, <2>1, <2>2 DEF Audible, Between, AtOutputs, AtIdle, AtSignal, InCycle
<1>7. CASE Answered
  BY <1>7, AnsweredAudible
<1>8. CASE CutShort
  BY <1>0, <1>8, AudibleAnew DEF CutShort, modelVars
<1>9. CASE ReadOutputs
  <2>1. /\ apc = "outputs" /\ apc' = "cross"
        /\ UNCHANGED <<counted, isActive, audio, steady, clean, signal, busy, plan,
                       audioIn, audioOut>>
    BY <1>9 DEF ReadOutputs, modelVars, jobVars
  <2>2. Between' /\ AtOutputs'
    BY <2>1 DEF Audible, Between, AtOutputs, AtRest, NoPlans
  <2> QED BY <2>1, <2>2 DEF Audible, AtIdle, AtSignal, InCycle
<1>10. CASE CopyCross
  BY <1>10, CopyCrossAudible
<1>11. ASSUME NEW s \in Sandboxes, CycleBegin(s) PROVE Audible'
  BY <1>11, CycleBeginAudible
<1>12. ASSUME NEW s \in Sandboxes, CycleEnd(s) PROVE Audible'
  BY <1>12, CycleEndAudible
<1>13. ASSUME NEW s \in Sandboxes, Start(s) PROVE Audible'
  BY <1>0, <1>13, AudibleKept DEF Start, hearVars, modelVars, portVars, hostVars, history
<1>14. ASSUME NEW s \in Sandboxes, Crash(s) PROVE Audible'
  BY <1>0, <1>14, AudibleAnew DEF Crash, modelVars, hostVars
<1>15. ASSUME NEW s \in Sandboxes, NEW sleeps \in BOOLEAN, ProcessDevice(s, sleeps) PROVE Audible'
  BY <1>15, ProcessDeviceAudible
<1>16. CASE Activate
  BY <1>0, <1>16, AudibleKept DEF Activate, hearVars, portVars, hostVars
<1>17. ASSUME NEW s \in Sandboxes, Notice(s) PROVE Audible'
  BY <1>0, <1>17, AudibleKept DEF Notice, hearVars, portVars, hostVars
<1>18. ASSUME NEW s \in Sandboxes, Count(s) PROVE Audible'
  BY <1>0, <1>18, AudibleKept DEF Count, hearVars, portVars, hostVars, history
<1>19. ASSUME NEW s \in Sandboxes, Created(s) PROVE Audible'
  BY <1>0, <1>19, AudibleKept DEF Created, hearVars, portVars, hostVars, history
<1>20. ASSUME NEW s \in Sandboxes, Restart(s) PROVE Audible'
  BY <1>0, <1>20, AudibleKept DEF Restart, hearVars, modelVars, portVars, hostVars, history
<1>21. ASSUME NEW a \in Devices, NEW b \in Devices, Connect(a, b) PROVE Audible'
  BY <1>0, <1>21, AudibleKept DEF Connect, hearVars, portVars, hostVars
<1>22. ASSUME NEW a \in Devices, NEW b \in Devices, Disconnect(a, b) PROVE Audible'
  BY <1>0, <1>22, AudibleKept DEF Disconnect, hearVars, portVars, hostVars
<1>23. ASSUME NEW d \in Devices, RequestProcess(d) PROVE Audible'
  BY <1>0, <1>23, AudibleKept DEF RequestProcess, hearVars, modelVars, portVars, hostVars
<1>24. ASSUME NEW d \in Played, QueueEvent(d) PROVE Audible'
  BY <1>0, <1>24, AudibleKept DEF QueueEvent, hearVars, modelVars, portVars, hostVars
<1>25. CASE UNCHANGED vars
  BY <1>0, <1>25, AudibleKept DEF vars, hearVars, modelVars, portVars, hostVars, history
<1> QED
  BY <1>1, <1>3, <1>4, <1>5, <1>6, <1>7, <1>8, <1>9, <1>10, <1>11, <1>12, <1>13,
     <1>14, <1>15, <1>16, <1>17, <1>18, <1>19, <1>20, <1>21, <1>22, <1>23, <1>24, <1>25
  DEF Next, Host, Client, Sandbox

\* One buffer of latency for each connection between sandboxes, no more and no less, for
\* any graph, with its branches and loops, any number of devices, and any order in which
\* the sandboxes come to process them.
THEOREM OneBufferPerConnection == Spec => []OneBufferPerCrossing
<1>1. Typed /\ Audible => OneBufferPerCrossing
  <2> SUFFICES ASSUME Typed, Audible, apc = "outputs", \A s \in Sandboxes : plan[s] = {},
                      NEW d \in Devices, NEW k \in 0 .. steady - 1
               PROVE  /\ audioOut[d] = k => d \in Reached[k]
                      /\ /\ d \in Reached[k]
                         /\ \A c1, c2 \in audio.cross : c1[2] = c2[2] => c1 = c2
                         => audioOut[d] = k
    BY DEF OneBufferPerCrossing
  <2>1. steady > 0
    BY SizesAssumption DEF Typed, HostOK, Ages
  <2>2. Tuned(audio.cross, audioOut, steady)
    BY <2>1 DEF Audible, AtOutputs, NoPlans
  <2>3. Reached = Reach(audio.cross)
    BY DEF Reached, Reach
  <2> QED BY <2>2, <2>3 DEF Tuned, OneFeeder
<1>2. Spec => []Audible
  BY TypedHolds, AudibleInit, AudibleStep, PTL DEF Spec
<1> QED BY <1>1, <1>2, TypedHolds, PTL
=============================================================================
