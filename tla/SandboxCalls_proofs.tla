------------------------ MODULE SandboxCalls_proofs ------------------------
(***************************************************************************)
(* Theorems of SandboxCalls, for any number of calls and any bounds.       *)
(***************************************************************************)
EXTENDS SandboxCalls, ProcessingOrder_proofs, SequenceTheorems, TLAPS

-----------------------------------------------------------------------------
(* Slots.                                                                  *)

SlotBuffers ==
  {s \in [cell : [Buffers -> Seq(Callbacks)], free : [Buffers -> Seq(Nat)]] :
     \A b \in Buffers : /\ First \in DOMAIN s.cell[b]
                        /\ ToSet(s.free[b]) \subseteq DOMAIN s.cell[b]}

LEMMA LastFacts ==
  ASSUME NEW T, NEW s \in Seq(T), s # <<>>
  PROVE  /\ Last(s) \in T /\ Last(s) \in ToSet(s)
         /\ Front(s) \in Seq(T)
         /\ ToSet(Front(s)) \subseteq ToSet(s)
         /\ IsInjective(s) => IsInjective(Front(s)) /\ Last(s) \notin ToSet(Front(s))
<1>1. Len(s) \in Nat \ {0} /\ DOMAIN s = 1 .. Len(s) /\ \A i \in 1 .. Len(s) : s[i] \in T
  BY EmptySeq, LenProperties
<1>2. Last(s) = s[Len(s)] /\ Len(s) \in DOMAIN s
  BY <1>1 DEF Last
<1>3. Front(s) \in Seq(T) /\ DOMAIN Front(s) = 1 .. Len(s) - 1 /\ \A i \in 1 .. Len(s) - 1 : Front(s)[i] = s[i]
  BY <1>1 DEF Front
<1>4. ToSet(Front(s)) \subseteq ToSet(s)
  BY <1>1, <1>3 DEF ToSet
<1>5. IsInjective(s) => IsInjective(Front(s)) /\ Last(s) \notin ToSet(Front(s))
  BY <1>1, <1>2, <1>3 DEF ToSet, IsInjective
<1>6. QED BY <1>1, <1>2, <1>3, <1>4, <1>5 DEF ToSet

LEMMA AppendFacts ==
  ASSUME NEW T, NEW s \in Seq(T), NEW e \in T
  PROVE  /\ Append(s, e) \in Seq(T)
         /\ DOMAIN Append(s, e) = 1 .. Len(s) + 1
         /\ \A i \in DOMAIN s : Append(s, e)[i] = s[i] /\ i \in DOMAIN Append(s, e)
         /\ Append(s, e)[Len(s) + 1] = e
         /\ Len(s) + 1 \notin DOMAIN s
         /\ ToSet(Append(s, e)) = ToSet(s) \cup {e}
         /\ IsInjective(s) /\ e \notin ToSet(s) => IsInjective(Append(s, e))
<1>1. Len(s) \in Nat /\ DOMAIN s = 1 .. Len(s)
  BY LenProperties
<1>2. /\ Append(s, e) \in Seq(T) /\ DOMAIN Append(s, e) = 1 .. Len(s) + 1
      /\ \A i \in 1 .. Len(s) : Append(s, e)[i] = s[i]
      /\ Append(s, e)[Len(s) + 1] = e
  BY <1>1, AppendProperties, LenProperties
<1>3. ToSet(Append(s, e)) = ToSet(s) \cup {e}
  BY <1>1, <1>2 DEF ToSet
<1>4. IsInjective(s) /\ e \notin ToSet(s) => IsInjective(Append(s, e))
  BY <1>1, <1>2 DEF ToSet, IsInjective
<1>5. QED BY <1>1, <1>2, <1>3, <1>4

\* put: into a slot that was free, or is new, and nowhere else.
IsPut(s, b, callback, slot, t) ==
  /\ t \in SlotBuffers
  /\ slot \in DOMAIN t.cell[b] /\ slot \in Nat /\ t.cell[b][slot] = callback
  /\ slot \in ToSet(s.free[b]) \/ slot \notin DOMAIN s.cell[b]
  /\ \A i \in DOMAIN s.cell[b] \ {slot} : t.cell[b][i] = s.cell[b][i]
  /\ \A i \in DOMAIN t.cell[b] : i = slot \/ i \in DOMAIN s.cell[b]
  /\ \A a \in Buffers : DOMAIN s.cell[a] \subseteq DOMAIN t.cell[a]
  /\ \A a \in Buffers \ {b} : t.cell[a] = s.cell[a] /\ t.free[a] = s.free[a]
  /\ \A x \in ToSet(t.free[b]) : x \in ToSet(s.free[b])
  /\ IsInjective(s.free[b]) => IsInjective(t.free[b]) /\ slot \notin ToSet(t.free[b])

LEMMA PutFacts ==
  ASSUME NEW s \in SlotBuffers, NEW b \in Buffers, NEW callback \in Callbacks,
         NEW slot, slot = Index(s, b), NEW t, t = Put(s, b, callback)
  PROVE  IsPut(s, b, callback, slot, t)
<1>1. /\ s \in [cell : [Buffers -> Seq(Callbacks)], free : [Buffers -> Seq(Nat)]]
      /\ \A a \in Buffers : /\ First \in DOMAIN s.cell[a]
                            /\ ToSet(s.free[a]) \subseteq DOMAIN s.cell[a]
      /\ s.cell[b] \in Seq(Callbacks) /\ s.free[b] \in Seq(Nat)
  BY DEF SlotBuffers
<1>2. CASE s.free[b] = <<>>
  <2>1. slot = Len(s.cell[b]) + 1 /\ t = [s EXCEPT !.cell[b] = Append(@, callback)]
    BY <1>2 DEF Index, Put
  <2>2. /\ t.cell[b] = Append(s.cell[b], callback) /\ t.free = s.free
        /\ \A a \in Buffers \ {b} : t.cell[a] = s.cell[a]
        /\ t \in [cell : [Buffers -> Seq(Callbacks)], free : [Buffers -> Seq(Nat)]]
    <3>1. Append(s.cell[b], callback) \in Seq(Callbacks)
      BY <1>1, AppendFacts
    <3>2. t = [cell |-> [s.cell EXCEPT ![b] = Append(s.cell[b], callback)], free |-> s.free]
      BY <1>1, <2>1
    <3>3. t.cell = [s.cell EXCEPT ![b] = Append(s.cell[b], callback)] /\ t.free = s.free
      BY ONLY <3>2
    <3>4. s.cell \in [Buffers -> Seq(Callbacks)] /\ s.free \in [Buffers -> Seq(Nat)]
      BY <1>1
    <3>5. t.cell \in [Buffers -> Seq(Callbacks)] /\ t.free \in [Buffers -> Seq(Nat)]
      BY ONLY <3>1, <3>3, <3>4
    <3>6. t.cell[b] = Append(s.cell[b], callback) /\ \A a \in Buffers \ {b} : t.cell[a] = s.cell[a]
      BY <3>3, <3>4
    <3>7. t \in [cell : [Buffers -> Seq(Callbacks)], free : [Buffers -> Seq(Nat)]]
      BY ONLY <3>2, <3>3, <3>5
    <3>8. QED BY ONLY <3>3, <3>6, <3>7
  <2>3. /\ DOMAIN t.cell[b] = 1 .. Len(s.cell[b]) + 1 /\ Len(s.cell[b]) \in Nat
        /\ \A i \in DOMAIN s.cell[b] : t.cell[b][i] = s.cell[b][i] /\ i \in DOMAIN t.cell[b]
        /\ t.cell[b][Len(s.cell[b]) + 1] = callback /\ Len(s.cell[b]) + 1 \notin DOMAIN s.cell[b]
        /\ DOMAIN s.cell[b] = 1 .. Len(s.cell[b])
    BY <1>1, <2>2, AppendFacts, LenProperties
  <2>4. \A a \in Buffers : DOMAIN s.cell[a] \subseteq DOMAIN t.cell[a]
    BY <2>2, <2>3
  <2>5. t \in SlotBuffers
    BY <1>1, <2>2, <2>4 DEF SlotBuffers
  <2>6. /\ slot \in DOMAIN t.cell[b] /\ slot \in Nat /\ t.cell[b][slot] = callback
        /\ slot \notin DOMAIN s.cell[b]
        /\ \A i \in DOMAIN t.cell[b] : i = slot \/ i \in DOMAIN s.cell[b]
    BY <2>1, <2>3
  <2>7. ToSet(t.free[b]) = {}
    BY <1>2, <2>2 DEF ToSet
  <2>8. QED BY <1>1, <2>2, <2>3, <2>4, <2>5, <2>6, <2>7 DEF IsPut
<1>3. CASE s.free[b] # <<>>
  <2>1. /\ slot = Last(s.free[b])
        /\ t = [s EXCEPT !.cell[b][Last(s.free[b])] = callback, !.free[b] = Front(@)]
    BY <1>3 DEF Index, Put
  <2>2. /\ slot \in Nat /\ slot \in ToSet(s.free[b]) /\ slot \in DOMAIN s.cell[b]
        /\ Front(s.free[b]) \in Seq(Nat)
        /\ ToSet(Front(s.free[b])) \subseteq ToSet(s.free[b])
        /\ IsInjective(s.free[b]) => IsInjective(Front(s.free[b])) /\ slot \notin ToSet(Front(s.free[b]))
    <3>1. /\ Last(s.free[b]) \in Nat /\ Last(s.free[b]) \in ToSet(s.free[b])
          /\ Front(s.free[b]) \in Seq(Nat)
          /\ ToSet(Front(s.free[b])) \subseteq ToSet(s.free[b])
          /\ IsInjective(s.free[b]) =>
               IsInjective(Front(s.free[b])) /\ Last(s.free[b]) \notin ToSet(Front(s.free[b]))
      <4>1. s.free[b] \in Seq(Nat) /\ s.free[b] # <<>>
        BY <1>1, <1>3
      <4>2. QED BY ONLY <4>1, LastFacts
    <3>2. ToSet(s.free[b]) \subseteq DOMAIN s.cell[b]
      BY <1>1
    <3>3. QED BY <2>1, <3>1, <3>2
  <2>3. [s.cell[b] EXCEPT ![slot] = callback] \in Seq(Callbacks)
    BY <1>1, <2>2, ExceptSeq, LenProperties
  <2>4. /\ t.cell[b] = [s.cell[b] EXCEPT ![slot] = callback]
        /\ t.free[b] = Front(s.free[b])
        /\ \A a \in Buffers \ {b} : t.cell[a] = s.cell[a] /\ t.free[a] = s.free[a]
        /\ t \in [cell : [Buffers -> Seq(Callbacks)], free : [Buffers -> Seq(Nat)]]
    <3> DEFINE f == Front(s.free[b])
    <3> HIDE DEF f
    <3>1. t = [s EXCEPT !.cell[b][slot] = callback, !.free[b] = f]
      BY <1>1, <2>1 DEF f
    <3>2. f \in Seq(Nat) /\ [s.cell[b] EXCEPT ![slot] = callback] \in Seq(Callbacks)
      BY <2>2, <2>3 DEF f
    <3>3. t = [cell |-> [s.cell EXCEPT ![b] = [s.cell[b] EXCEPT ![slot] = callback]],
               free |-> [s.free EXCEPT ![b] = f]]
      BY <1>1, <3>1
    <3>4. /\ t.cell = [s.cell EXCEPT ![b] = [s.cell[b] EXCEPT ![slot] = callback]]
          /\ t.free = [s.free EXCEPT ![b] = f]
      BY ONLY <3>3
    <3>5. t.cell \in [Buffers -> Seq(Callbacks)] /\ t.free \in [Buffers -> Seq(Nat)]
      BY <1>1, <3>2, <3>4
    <3>6. QED BY <1>1, <3>3, <3>4, <3>5 DEF f
  <2>5. /\ DOMAIN t.cell[b] = DOMAIN s.cell[b] /\ t.cell[b][slot] = callback
        /\ \A i \in DOMAIN s.cell[b] \ {slot} : t.cell[b][i] = s.cell[b][i]
    BY <1>1, <2>2, <2>4
  <2>6. \A a \in Buffers : DOMAIN s.cell[a] = DOMAIN t.cell[a]
    BY <2>4, <2>5
  <2>7. t \in SlotBuffers
    BY <1>1, <2>2, <2>4, <2>6 DEF SlotBuffers
  <2>8. QED BY <2>2, <2>4, <2>5, <2>6, <2>7 DEF IsPut
<1>4. QED BY <1>2, <1>3 DEF IsPut

\* take: the slot is given back, and nothing else happens.
IsTake(s, b, i, t) ==
  /\ t \in SlotBuffers
  /\ t.cell = s.cell
  /\ \A a \in Buffers \ {b} : t.free[a] = s.free[a]
  /\ \A x \in ToSet(t.free[b]) : x \in ToSet(s.free[b]) \/ x = i
  /\ IsInjective(s.free[b]) /\ i \notin ToSet(s.free[b]) => IsInjective(t.free[b])

LEMMA TakeFacts ==
  ASSUME NEW s \in SlotBuffers, NEW b \in Buffers, NEW i \in DOMAIN s.cell[b],
         NEW t, t = Take(s, b, i)
  PROVE  IsTake(s, b, i, t)
<1>1. /\ s \in [cell : [Buffers -> Seq(Callbacks)], free : [Buffers -> Seq(Nat)]]
      /\ \A a \in Buffers : /\ First \in DOMAIN s.cell[a]
                            /\ ToSet(s.free[a]) \subseteq DOMAIN s.cell[a]
      /\ s.cell[b] \in Seq(Callbacks) /\ s.free[b] \in Seq(Nat)
  BY DEF SlotBuffers
<1>2. i \in Nat
  BY <1>1, LenProperties
<1>3. /\ Append(s.free[b], i) \in Seq(Nat)
      /\ ToSet(Append(s.free[b], i)) = ToSet(s.free[b]) \cup {i}
      /\ IsInjective(s.free[b]) /\ i \notin ToSet(s.free[b]) => IsInjective(Append(s.free[b], i))
  <2>1. s.free[b] \in Seq(Nat) /\ i \in Nat
    BY <1>1, <1>2
  <2>2. QED BY ONLY <2>1, AppendFacts
<1>4. /\ t.cell = s.cell /\ t.free[b] = Append(s.free[b], i)
      /\ \A a \in Buffers \ {b} : t.free[a] = s.free[a]
      /\ t \in [cell : [Buffers -> Seq(Callbacks)], free : [Buffers -> Seq(Nat)]]
  BY <1>1, <1>3 DEF Take
<1>5. t \in SlotBuffers
  <2>1. \A a \in Buffers : First \in DOMAIN t.cell[a] /\ ToSet(t.free[a]) \subseteq DOMAIN t.cell[a]
    <3>1. ToSet(t.free[b]) \subseteq DOMAIN s.cell[b]
      BY <1>1, <1>3, <1>4
    <3>2. \A a \in Buffers \ {b} : ToSet(t.free[a]) \subseteq DOMAIN t.cell[a]
      BY <1>1, <1>4
    <3>3. QED BY <1>1, <1>4, <3>1, <3>2
  <2>2. QED BY ONLY <1>4, <2>1 DEF SlotBuffers
<1>6. QED BY <1>3, <1>4, <1>5 DEF IsTake
-----------------------------------------------------------------------------
(* The inductive invariant.                                                *)

Asks     == [type : Buffers, call : Callbacks, dev : Calls, slot : Nat]
Wirings  == [type : {"connect", "disconnect"}, call : {NoCall}, dev : Calls \X Calls, slot : {First}]
Requests == Asks \cup Wirings
Replies  == [type : Buffers, call : Callbacks, dev : Calls, slot : Nat, ok : BOOLEAN]

Typed ==
  /\ slots \in SlotBuffers
  /\ remote \subseteq table /\ table \subseteq Calls
  /\ launched \in BOOLEAN /\ running \in BOOLEAN
  /\ op \in [Calls -> {"none", "create", "load", "ask", "duplicate"}]
  /\ phase \in [Calls -> {"none", "async", "first", "asleep", "returned", "timedout"}]
  /\ fn \in Calls \cup {NoCall}
  /\ batch \in Seq(Requests) /\ down \in Seq(Requests)
  /\ up \in Seq(Replies) /\ out \in Seq(Replies)
  /\ devs \subseteq Calls /\ conns \subseteq devs \X devs
  /\ ran \in [Calls -> Seq(Callbacks)]
  /\ full \subseteq Calls /\ failed \subseteq Calls /\ lost \subseteq Calls
  /\ wants \subseteq Calls \X Calls
  /\ slips \subseteq {"unnamed", "uncalled", "early", "dead", "dropped", "restarted"}
  /\ left \in [Spent -> Nat]

Wired == InOrder(devs, conns, order, devs)

\* In which buffers the callback of call c may be.
Fits(c, b) == op[c] = b \/ (op[c] = "duplicate" /\ b \in {"create", "ask"})

Known ==
  \A b \in Buffers : \A i \in DOMAIN slots.cell[b] :
    slots.cell[b][i] \in Calls => Fits(slots.cell[b][i], b)

Phased ==
  \A c \in Calls :
    /\ phase[c] = "none" <=> op[c] = "none"
    /\ op[c] = "none" => ran[c] = <<>>
    /\ op[c] = "duplicate" => phase[c] = "async"
    /\ phase[c] = "returned" => c \in full
    /\ c \in full => ran[c] # <<>>

\* Messages name slots that exist, and calls that wait for what they ask for.
FineMessage(s, m) ==
  m.type \in Buffers =>
    /\ m.slot \in DOMAIN s.cell[m.type]
    /\ m.call \in Calls => Fits(m.call, m.type)
                           /\ (Confused(Target(m.call)) \/ ran[m.call] = <<>>)
    /\ m.call = NoCall => m.type = "load" /\ "uncalled" \in slips
Fine(s, msgs) == \A i \in DOMAIN msgs : FineMessage(s, msgs[i])

\* Every call has one message at most.
Single(msgs) ==
  \A i, j \in DOMAIN msgs : msgs[i].call \in Calls /\ msgs[i].call = msgs[j].call => i = j

\* The slots of the messages of a buffer.
HeldIn(s, b, msgs) ==
  /\ IsInjective(s.free[b])
  /\ \A i \in DOMAIN msgs : msgs[i].type = b /\ msgs[i].call # NoCall =>
       /\ s.cell[b][msgs[i].slot] = msgs[i].call
       /\ msgs[i].slot \notin ToSet(s.free[b])
       /\ \A j \in DOMAIN msgs :
            msgs[j].type = b /\ msgs[j].call # NoCall /\ msgs[j].slot = msgs[i].slot => i = j
Held(s, msgs) == \A b \in Buffers : ~Confused(b) => HeldIn(s, b, msgs)

Requested == batch \o down
Replied   == up \o out

Messages == Fine(slots, InFlight) /\ Single(InFlight) /\ Held(slots, InFlight)

\* The last wiring in R about the connection makes it what the client wants; if there
\* is none, it is so.
About(m, p) == m.type \in {"connect", "disconnect"} /\ m.dev = p
Wanted(R, p, cs, ws) ==
  \/ /\ \A i \in DOMAIN R : ~About(R[i], p)
     /\ p \in cs <=> p \in ws
  \/ \E i \in DOMAIN R :
       /\ About(R[i], p)
       /\ \A j \in DOMAIN R : About(R[j], p) => j <= i
       /\ R[i].type = "connect" <=> p \in ws

Creates(m, d) == m.type = "create" /\ m.dev = d

\* Until a restart a device is created by its own call, and once.
Fresh ==
  "restarted" \notin slips =>
    /\ \A c \in devs : Fits(c, "create")
    /\ \A i \in DOMAIN Requested :
         /\ Requested[i].call \notin devs
         /\ Requested[i].type = "create" => Requested[i].call = Requested[i].dev
    /\ \A i \in DOMAIN Replied : Replied[i].call \in devs => Replied[i].type = "create"

Agrees ==
  running /\ "dropped" \notin slips =>
    /\ \A d \in table : \/ d \in devs \cup failed
                        \/ \E i \in DOMAIN Requested : Creates(Requested[i], d)
    /\ "restarted" \notin slips => \A p \in Calls \X Calls : Wanted(Requested, p, conns, wants)

IInv ==
  /\ Typed /\ Wired /\ Known /\ Phased /\ Messages /\ Fresh /\ Agrees
  /\ OwnAnswer /\ NothingForgotten /\ FrameIsThere

-----------------------------------------------------------------------------
(* Messages on their way.                                                  *)

Same(m, n) == m.type = n.type /\ m.call = n.call /\ m.dev = n.dev /\ m.slot = n.slot

\* The messages of F were in G, but for those at new; none of them is one that was at gone.
Flows(F, G, new, gone) ==
  \E g \in [DOMAIN F \ new -> DOMAIN G \ gone] :
    /\ \A i, j \in DOMAIN F \ new : g[i] = g[j] => i = j
    /\ \A i \in DOMAIN F \ new : Same(F[i], G[g[i]])

\* B is dropped, N is sent, V is received and O is dropped.
LEMMA FlowThrough ==
  ASSUME NEW T, NEW B \in Seq(T), NEW D \in Seq(T), NEW N \in Seq(T), NEW V \in Seq(T),
         NEW U \in Seq(T), NEW O \in Seq(T)
  PROVE  Flows((D \o N) \o U, (B \o D) \o ((V \o U) \o O),
               Len(D) + 1 .. Len(D) + Len(N),
               Len(B) + Len(D) + 1 .. Len(B) + Len(D) + Len(V))
<1> DEFINE F == (D \o N) \o U
           G == (B \o D) \o ((V \o U) \o O)
           new == Len(D) + 1 .. Len(D) + Len(N)
           gone == Len(B) + Len(D) + 1 .. Len(B) + Len(D) + Len(V)
           g == [i \in DOMAIN F \ new |->
                   IF i <= Len(D) THEN i + Len(B) ELSE i - Len(N) + Len(B) + Len(V)]
<1>1. /\ Len(B) \in Nat /\ Len(D) \in Nat /\ Len(N) \in Nat /\ Len(V) \in Nat
      /\ Len(U) \in Nat /\ Len(O) \in Nat
  BY LenProperties
<1>2. /\ DOMAIN F = 1 .. Len(D) + Len(N) + Len(U)
      /\ \A i \in DOMAIN F : F[i] = IF i <= Len(D) THEN D[i]
                                    ELSE IF i <= Len(D) + Len(N) THEN N[i - Len(D)]
                                    ELSE U[i - Len(D) - Len(N)]
  <2>1. /\ D \o N \in Seq(T) /\ Len(D \o N) = Len(D) + Len(N)
        /\ \A j \in 1 .. Len(D) + Len(N) :
             (D \o N)[j] = IF j <= Len(D) THEN D[j] ELSE N[j - Len(D)]
    BY ConcatElements
  <2> DEFINE DN == D \o N
  <2> HIDE DEF DN
  <2>2. /\ DN \o U \in Seq(T) /\ Len(DN \o U) = Len(DN) + Len(U)
        /\ \A j \in 1 .. Len(DN) + Len(U) :
             (DN \o U)[j] = IF j <= Len(DN) THEN DN[j] ELSE U[j - Len(DN)]
    BY <2>1, ConcatElements DEF DN
  <2>3. F = DN \o U
    BY DEF DN
  <2> HIDE DEF F
  <2>4. DOMAIN F = 1 .. Len(D) + Len(N) + Len(U)
    BY <1>1, <2>1, <2>2, <2>3, LenProperties DEF DN
  <2>5. QED BY <1>1, <2>1, <2>2, <2>3, <2>4 DEF DN
<1>3. /\ DOMAIN G = 1 .. Len(B) + Len(D) + Len(V) + Len(U) + Len(O)
      /\ \A i \in 1 .. Len(D) : G[i + Len(B)] = D[i]
      /\ \A i \in 1 .. Len(U) : G[i + Len(B) + Len(D) + Len(V)] = U[i]
  <2> DEFINE BD == B \o D
             VU == V \o U
             VUO == VU \o O
  <2>1. /\ BD \in Seq(T) /\ Len(BD) = Len(B) + Len(D)
        /\ \A j \in 1 .. Len(B) + Len(D) : BD[j] = IF j <= Len(B) THEN B[j] ELSE D[j - Len(B)]
    BY ConcatElements
  <2>2. /\ VU \in Seq(T) /\ Len(VU) = Len(V) + Len(U)
        /\ \A j \in 1 .. Len(V) + Len(U) : VU[j] = IF j <= Len(V) THEN V[j] ELSE U[j - Len(V)]
    BY ConcatElements
  <2> HIDE DEF BD, VU
  <2>3. /\ VUO \in Seq(T) /\ Len(VUO) = Len(VU) + Len(O)
        /\ \A j \in 1 .. Len(VU) + Len(O) : VUO[j] = IF j <= Len(VU) THEN VU[j] ELSE O[j - Len(VU)]
    <3>1. VU \in Seq(T) /\ O \in Seq(T)
      BY <2>2
    <3>2. QED BY ONLY <3>1, ConcatElements DEF VUO
  <2> HIDE DEF VUO
  <2>4. /\ BD \o VUO \in Seq(T) /\ Len(BD \o VUO) = Len(BD) + Len(VUO)
        /\ \A j \in 1 .. Len(BD) + Len(VUO) :
             (BD \o VUO)[j] = IF j <= Len(BD) THEN BD[j] ELSE VUO[j - Len(BD)]
    <3>1. BD \in Seq(T) /\ VUO \in Seq(T)
      BY <2>1, <2>3
    <3>2. QED BY ONLY <3>1, ConcatElements
  <2>5. G = BD \o VUO
    BY DEF BD, VU, VUO
  <2> HIDE DEF G
  <2>6. DOMAIN G = 1 .. Len(B) + Len(D) + Len(V) + Len(U) + Len(O)
    BY <1>1, <2>1, <2>2, <2>3, <2>4, <2>5, LenProperties
  <2>7. ASSUME NEW i \in 1 .. Len(D) PROVE G[i + Len(B)] = D[i]
    <3>1. i + Len(B) \in 1 .. Len(BD) + Len(VUO) /\ i + Len(B) <= Len(BD)
      BY <1>1, <2>1, <2>2, <2>3
    <3>2. G[i + Len(B)] = BD[i + Len(B)]
      BY ONLY <2>4, <2>5, <3>1
    <3>3. Len(B) \in Nat /\ Len(D) \in Nat /\ i \in 1 .. Len(D)
      BY <1>1
    <3>4. i + Len(B) \in 1 .. Len(B) + Len(D) /\ ~(i + Len(B) <= Len(B)) /\ (i + Len(B)) - Len(B) = i
      BY ONLY <3>3
    <3>5. BD[i + Len(B)] = D[i]
      BY <2>1, <3>4
    <3>6. QED BY <3>2, <3>5
  <2>8. ASSUME NEW i \in 1 .. Len(U) PROVE G[i + Len(B) + Len(D) + Len(V)] = U[i]
    <3> DEFINE j == i + Len(B) + Len(D) + Len(V)
    <3>1. j \in 1 .. Len(BD) + Len(VUO) /\ ~(j <= Len(BD)) /\ j - Len(BD) = i + Len(V)
      BY <1>1, <2>1, <2>2, <2>3, SMTT(30)
    <3>2. G[j] = VUO[i + Len(V)]
      BY <2>4, <2>5, <3>1
    <3>3. VUO[i + Len(V)] = VU[i + Len(V)]
      <4>1. i + Len(V) \in 1 .. Len(VU) + Len(O) /\ i + Len(V) <= Len(VU)
        BY <1>1, <2>2
      <4>2. QED BY <2>3, <4>1
    <3>4. VU[i + Len(V)] = U[i]
      <4>1. Len(V) \in Nat /\ Len(U) \in Nat /\ i \in 1 .. Len(U)
        BY <1>1
      <4>2. i + Len(V) \in 1 .. Len(V) + Len(U) /\ ~(i + Len(V) <= Len(V)) /\ i + Len(V) - Len(V) = i
        BY ONLY <4>1
      <4>3. QED BY <2>2, <4>2
    <3>5. QED BY <3>2, <3>3, <3>4
  <2>9. QED BY <2>6, <2>7, <2>8
<1> HIDE DEF F, G
<1>4. g \in [DOMAIN F \ new -> DOMAIN G \ gone]
  <2> SUFFICES ASSUME NEW i \in DOMAIN F \ new PROVE g[i] \in DOMAIN G \ gone
    OBVIOUS
  <2>1. CASE i <= Len(D)
    <3>1. i \in Nat /\ i >= 1 /\ g[i] = i + Len(B)
      BY <1>1, <1>2, <2>1
    <3> HIDE DEF g, new
    <3>2. g[i] \in DOMAIN G
      BY <1>1, <1>3, <2>1, <3>1
    <3>3. g[i] \notin gone
      BY <1>1, <2>1, <3>1
    <3>4. QED BY <3>2, <3>3
  <2>2. CASE ~(i <= Len(D))
    <3>1. i - Len(D) - Len(N) \in 1 .. Len(U) /\ i \in Nat /\ g[i] = i - Len(N) + Len(B) + Len(V)
      BY <1>1, <1>2, <2>2, SMTT(30)
    <3> HIDE DEF g, new
    <3>2. g[i] \in DOMAIN G
      BY <1>1, <1>3, <2>2, <3>1
    <3>3. g[i] \notin gone
      BY <1>1, <2>2, <3>1
    <3>4. QED BY <3>2, <3>3
  <2>3. QED BY <2>1, <2>2
<1>5. \A i, j \in DOMAIN F \ new : g[i] = g[j] => i = j
  <2> SUFFICES ASSUME NEW i \in DOMAIN F \ new, NEW j \in DOMAIN F \ new, g[i] = g[j] PROVE i = j
    OBVIOUS
  <2>1. i \in Nat /\ j \in Nat
    BY ONLY <1>1, <1>2
  <2>2. g[i] = IF i <= Len(D) THEN i + Len(B) ELSE i - Len(N) + Len(B) + Len(V)
    OBVIOUS
  <2>3. g[j] = IF j <= Len(D) THEN j + Len(B) ELSE j - Len(N) + Len(B) + Len(V)
    OBVIOUS
  <2>4. (i <= Len(D) \/ i - Len(N) > Len(D)) /\ (j <= Len(D) \/ j - Len(N) > Len(D))
    BY <1>1, <1>2, <2>1, SMTT(30)
  <2>5. (IF i <= Len(D) THEN i + Len(B) ELSE i - Len(N) + Len(B) + Len(V))
          = IF j <= Len(D) THEN j + Len(B) ELSE j - Len(N) + Len(B) + Len(V)
    BY <2>2, <2>3
  <2>6. QED BY ONLY <1>1, <2>1, <2>4, <2>5, SMTT(30)
<1>6. \A i \in DOMAIN F \ new : F[i] = G[g[i]]
  <2> SUFFICES ASSUME NEW i \in DOMAIN F \ new PROVE F[i] = G[g[i]]
    OBVIOUS
  <2>1. CASE i <= Len(D)
    <3>1. i \in 1 .. Len(D) /\ g[i] = i + Len(B)
      BY <1>1, <1>2, <2>1
    <3> HIDE DEF g
    <3>2. F[i] = D[i]
      BY <1>2, <3>1
    <3>3. G[i + Len(B)] = D[i]
      BY <1>3, <3>1
    <3>4. QED BY <3>1, <3>2, <3>3
  <2>2. CASE ~(i <= Len(D))
    <3>1. i - Len(D) - Len(N) \in 1 .. Len(U) /\ F[i] = U[i - Len(D) - Len(N)]
      BY <1>1, <1>2, <2>2, SMTT(30)
    <3>2. g[i] = (i - Len(D) - Len(N)) + Len(B) + Len(D) + Len(V)
      BY <1>1, <1>2, <2>2, SMTT(30)
    <3>3. QED BY <1>3, <3>1, <3>2
  <2>3. QED BY <2>1, <2>2
<1> HIDE DEF g, new, gone
<1>7. Flows(F, G, new, gone)
  BY <1>4, <1>5, <1>6 DEF Flows, Same
<1>8. QED BY <1>7 DEF F, G, new, gone

\* The first request is answered.
LEMMA FlowReply ==
  ASSUME NEW T, NEW R \in Seq(T), NEW P \in Seq(T), R # <<>>, NEW r \in T, Same(r, Head(R))
  PROVE  Flows(Tail(R) \o Append(P, r), R \o P, {}, {})
<1> DEFINE F == Tail(R) \o Append(P, r)
           G == R \o P
           g == [i \in DOMAIN F \ {} |-> IF i < Len(R) + Len(P) THEN i + 1 ELSE 1]
<1>1. /\ Len(R) \in Nat \ {0} /\ Len(P) \in Nat
      /\ Tail(R) \in Seq(T) /\ Len(Tail(R)) = Len(R) - 1
      /\ \A i \in 1 .. Len(R) - 1 : Tail(R)[i] = R[i + 1]
      /\ Head(R) = R[1]
  BY HeadTailProperties, LenProperties, EmptySeq
<1>2. /\ Append(P, r) \in Seq(T) /\ Len(Append(P, r)) = Len(P) + 1
      /\ \A i \in 1 .. Len(P) : Append(P, r)[i] = P[i]
      /\ Append(P, r)[Len(P) + 1] = r
  BY AppendProperties
<1>3. /\ DOMAIN F = 1 .. Len(R) + Len(P)
      /\ \A i \in 1 .. Len(R) + Len(P) :
           F[i] = IF i < Len(R) THEN R[i + 1] ELSE IF i < Len(R) + Len(P) THEN P[i + 1 - Len(R)] ELSE r
  <2> DEFINE R1 == Tail(R)
             P1 == Append(P, r)
  <2> HIDE DEF R1, P1
  <2>1. /\ R1 \o P1 \in Seq(T) /\ Len(R1 \o P1) = Len(R1) + Len(P1)
        /\ \A j \in 1 .. Len(R1) + Len(P1) :
             (R1 \o P1)[j] = IF j <= Len(R1) THEN R1[j] ELSE P1[j - Len(R1)]
    BY <1>1, <1>2, ConcatElements DEF R1, P1
  <2>2. F = R1 \o P1
    BY DEF R1, P1
  <2> HIDE DEF F
  <2>3. DOMAIN F = 1 .. Len(R) + Len(P)
    BY <1>1, <1>2, <2>1, <2>2, LenProperties DEF R1, P1
  <2>4. QED BY <1>1, <1>2, <2>1, <2>2, <2>3 DEF R1, P1
<1>4. /\ DOMAIN G = 1 .. Len(R) + Len(P)
      /\ \A i \in 1 .. Len(R) + Len(P) : G[i] = IF i <= Len(R) THEN R[i] ELSE P[i - Len(R)]
  BY ConcatElements, LenProperties
<1> HIDE DEF F, G
<1>5. g \in [DOMAIN F \ {} -> DOMAIN G \ {}]
  BY <1>1, <1>3, <1>4
<1>6. \A i, j \in DOMAIN F \ {} : g[i] = g[j] => i = j
  BY <1>1, <1>3
<1>7. \A i \in DOMAIN F \ {} : Same(F[i], G[g[i]])
  <2> SUFFICES ASSUME NEW i \in 1 .. Len(R) + Len(P) PROVE Same(F[i], G[g[i]])
    BY <1>3
  <2>1. CASE i < Len(R)
    <3>1. g[i] = i + 1 /\ F[i] = G[i + 1]
      BY <1>1, <1>3, <1>4, <2>1
    <3>2. QED BY <3>1 DEF Same
  <2>2. CASE ~(i < Len(R)) /\ i < Len(R) + Len(P)
    <3>1. g[i] = i + 1 /\ F[i] = G[i + 1]
      BY <1>1, <1>3, <1>4, <2>2
    <3>2. QED BY <3>1 DEF Same
  <2>3. CASE i = Len(R) + Len(P)
    <3>1. g[i] = 1 /\ F[i] = r /\ G[1] = Head(R)
      BY <1>1, <1>3, <1>4, <2>3
    <3>2. QED BY <3>1
  <2>4. QED BY <1>1, <2>1, <2>2, <2>3
<1> HIDE DEF g
<1>8. Flows(F, G, {}, {})
  BY <1>5, <1>6, <1>7 DEF Flows
<1>9. QED BY <1>8 DEF F, G

\* Messages that come and go, and are of other buffers if they are new.
LEMMA HeldFlows ==
  ASSUME NEW s, NEW t, NEW b, NEW F, NEW G, NEW new, NEW gone,
         t.cell[b] = s.cell[b], t.free[b] = s.free[b],
         HeldIn(s, b, G), Flows(F, G, new, gone),
         \A k \in DOMAIN F \cap new : F[k].type # b \/ F[k].call = NoCall
  PROVE  HeldIn(t, b, F)
<1>1. PICK g \in [DOMAIN F \ new -> DOMAIN G \ gone] :
        /\ \A i, j \in DOMAIN F \ new : g[i] = g[j] => i = j
        /\ \A i \in DOMAIN F \ new : Same(F[i], G[g[i]])
  BY DEF Flows
<1>2. IsInjective(t.free[b])
  BY DEF HeldIn
<1>3. ASSUME NEW i \in DOMAIN F, F[i].type = b, F[i].call # NoCall
      PROVE  /\ t.cell[b][F[i].slot] = F[i].call
             /\ F[i].slot \notin ToSet(t.free[b])
             /\ \A j \in DOMAIN F :
                  F[j].type = b /\ F[j].call # NoCall /\ F[j].slot = F[i].slot => i = j
  <2>1. i \in DOMAIN F \ new
    BY <1>3
  <2>2. g[i] \in DOMAIN G /\ Same(F[i], G[g[i]])
    BY <1>1, <2>1
  <2>3. /\ s.cell[b][F[i].slot] = F[i].call
        /\ F[i].slot \notin ToSet(s.free[b])
    BY <1>3, <2>2 DEF HeldIn, Same
  <2>4. ASSUME NEW j \in DOMAIN F, F[j].type = b, F[j].call # NoCall, F[j].slot = F[i].slot
        PROVE  i = j
    <3>1. j \in DOMAIN F \ new
      BY <2>4
    <3>2. g[j] \in DOMAIN G /\ Same(F[j], G[g[j]])
      BY <1>1, <3>1
    <3>3. g[i] = g[j]
      BY <1>3, <2>2, <2>4, <3>2 DEF HeldIn, Same
    <3>4. QED BY <1>1, <2>1, <3>1, <3>3
  <2>5. QED BY <2>3, <2>4
<1>4. QED BY <1>2, <1>3 DEF HeldIn

\* A reply comes, and its slot is given back.
LEMMA HeldTake ==
  ASSUME NEW s \in SlotBuffers, NEW b \in Buffers, NEW F, NEW G, NEW k \in DOMAIN G,
         NEW slot \in DOMAIN s.cell[b], NEW t, t = Take(s, b, slot),
         G[k].type = b, G[k].call # NoCall, G[k].slot = slot,
         HeldIn(s, b, G), Flows(F, G, {}, {k})
  PROVE  HeldIn(t, b, F)
<1>1. PICK g \in [DOMAIN F \ {} -> DOMAIN G \ {k}] :
        /\ \A i, j \in DOMAIN F \ {} : g[i] = g[j] => i = j
        /\ \A i \in DOMAIN F \ {} : Same(F[i], G[g[i]])
  BY DEF Flows
<1>2. IsTake(s, b, slot, t)
  BY TakeFacts
<1>3. HeldIn(s, b, F)
  <2>1. \A i \in DOMAIN F \cap {} : F[i].type # b \/ F[i].call = NoCall
    OBVIOUS
  <2>2. QED BY <2>1, HeldFlows
<1>4. IsInjective(t.free[b])
  BY <1>2 DEF HeldIn, IsTake
<1>5. ASSUME NEW i \in DOMAIN F, F[i].type = b, F[i].call # NoCall
      PROVE  F[i].slot # slot
  <2>1. g[i] \in DOMAIN G /\ g[i] # k /\ Same(F[i], G[g[i]])
    BY <1>1
  <2>2. QED BY <1>5, <2>1 DEF HeldIn, Same
<1>6. QED BY <1>2, <1>3, <1>4, <1>5 DEF HeldIn, IsTake

\* A callback is put in a slot, and a request with the slot is sent.
LEMMA HeldPut ==
  ASSUME NEW s \in SlotBuffers, NEW b \in Buffers, NEW callback \in Callbacks,
         NEW slot, slot = Index(s, b), NEW t, t = Put(s, b, callback),
         NEW F, NEW G, NEW new, NEW gone, Flows(F, G, new, gone),
         \A k \in DOMAIN F \cap new : F[k].slot = slot /\ F[k].call = callback,
         \A k, l \in DOMAIN F \cap new : k = l,
         \A i \in DOMAIN G : G[i].type = b => G[i].slot \in DOMAIN s.cell[b],
         HeldIn(s, b, G)
  PROVE  HeldIn(t, b, F)
<1>1. PICK g \in [DOMAIN F \ new -> DOMAIN G \ gone] :
        /\ \A i, j \in DOMAIN F \ new : g[i] = g[j] => i = j
        /\ \A i \in DOMAIN F \ new : Same(F[i], G[g[i]])
  BY DEF Flows
<1>2. IsPut(s, b, callback, slot, t)
  BY PutFacts
<1>3. /\ \A k \in DOMAIN F \cap new : F[k].slot = slot /\ F[k].call = callback
      /\ \A k, l \in DOMAIN F \cap new : k = l
  OBVIOUS
<1>4. IsInjective(t.free[b]) /\ slot \notin ToSet(t.free[b])
  BY <1>2 DEF HeldIn, IsPut
<1>5. ASSUME NEW i \in DOMAIN F \ new, F[i].type = b, F[i].call # NoCall
      PROVE  /\ F[i].slot # slot
             /\ t.cell[b][F[i].slot] = F[i].call
             /\ F[i].slot \notin ToSet(t.free[b])
  <2>1. g[i] \in DOMAIN G /\ Same(F[i], G[g[i]])
    BY <1>1
  <2>2. /\ s.cell[b][F[i].slot] = F[i].call
        /\ F[i].slot \notin ToSet(s.free[b])
        /\ F[i].slot \in DOMAIN s.cell[b]
    BY <1>5, <2>1 DEF HeldIn, Same
  <2>3. QED BY <1>2, <2>2 DEF IsPut
<1>6. ASSUME NEW i \in DOMAIN F, F[i].type = b, F[i].call # NoCall
      PROVE  /\ t.cell[b][F[i].slot] = F[i].call
             /\ F[i].slot \notin ToSet(t.free[b])
             /\ \A j \in DOMAIN F :
                  F[j].type = b /\ F[j].call # NoCall /\ F[j].slot = F[i].slot => i = j
  <2>1. CASE i \in new
    <3>1. F[i].slot = slot /\ F[i].call = callback
      BY <1>3, <2>1
    <3>2. ASSUME NEW j \in DOMAIN F, F[j].type = b, F[j].call # NoCall, F[j].slot = F[i].slot
          PROVE  i = j
      <4>1. j \in new
        BY <1>5, <3>1, <3>2
      <4>2. QED BY <1>3, <2>1, <4>1
    <3>3. QED BY <1>2, <1>4, <3>1, <3>2 DEF IsPut
  <2>2. CASE i \notin new
    <3>1. i \in DOMAIN F \ new
      BY <2>2
    <3>2. ASSUME NEW j \in DOMAIN F, F[j].type = b, F[j].call # NoCall, F[j].slot = F[i].slot
          PROVE  i = j
      <4>1. j \in DOMAIN F \ new
        BY <1>3, <1>5, <1>6, <3>1, <3>2
      <4>2. g[i] \in DOMAIN G /\ g[j] \in DOMAIN G /\ Same(F[i], G[g[i]]) /\ Same(F[j], G[g[j]])
        BY <1>1, <3>1, <4>1
      <4>3. g[i] = g[j]
        BY <1>6, <3>2, <4>2 DEF HeldIn, Same
      <4>4. QED BY <1>1, <3>1, <4>1, <4>3
    <3>3. QED BY <1>5, <1>6, <3>1, <3>2
  <2>3. QED BY <2>1, <2>2
<1>7. QED BY <1>4, <1>6 DEF HeldIn

\* A call whose message is new had none, or it is gone.
LEMMA SingleFlows ==
  ASSUME NEW F, NEW G, NEW new, NEW gone, Single(G), Flows(F, G, new, gone),
         \A k \in DOMAIN F \cap new : F[k].call \in Calls =>
           /\ \A l \in DOMAIN F \cap new : k = l
           /\ \A i \in DOMAIN G \ gone : G[i].call # F[k].call
  PROVE  Single(F)
<1>1. PICK g \in [DOMAIN F \ new -> DOMAIN G \ gone] :
        /\ \A i, j \in DOMAIN F \ new : g[i] = g[j] => i = j
        /\ \A i \in DOMAIN F \ new : Same(F[i], G[g[i]])
  BY DEF Flows
<1> SUFFICES ASSUME NEW i \in DOMAIN F, NEW j \in DOMAIN F, F[i].call \in Calls, F[i].call = F[j].call
             PROVE  i = j
  BY DEF Single
<1>2. ASSUME NEW k \in DOMAIN F \ new PROVE g[k] \in DOMAIN G \ gone /\ G[g[k]].call = F[k].call
  BY <1>1 DEF Same
<1>3. CASE i \in new \/ j \in new
  BY <1>2, <1>3
<1>4. CASE i \notin new /\ j \notin new
  <2>1. g[i] = g[j]
    BY <1>2, <1>4 DEF Single
  <2>2. QED BY <1>1, <1>4, <2>1
<1>5. QED BY <1>3, <1>4

\* The slots after a restart: every device has put one callback, and First was had once.
IsPutAll(s, seq, n) ==
  /\ PutAll(s, seq)[n] \in SlotBuffers
  /\ \A a \in Buffers : DOMAIN s.cell[a] \subseteq DOMAIN PutAll(s, seq)[n].cell[a]
  /\ \A a \in Buffers \ {"create"} :
       PutAll(s, seq)[n].cell[a] = s.cell[a] /\ PutAll(s, seq)[n].free[a] = s.free[a]
  /\ \A i \in DOMAIN PutAll(s, seq)[n].cell["create"] :
       PutAll(s, seq)[n].cell["create"][i] \in Calls =>
         i \in DOMAIN s.cell["create"] /\ s.cell["create"][i] = PutAll(s, seq)[n].cell["create"][i]

\* The recursive definition defines something.
LEMMA PutAllIs ==
  ASSUME NEW s, NEW T, NEW seq \in Seq(T)
  PROVE  /\ PutAll(s, seq)[0] = s
         /\ \A n \in 1 .. Len(seq) :
              PutAll(s, seq)[n] = Put(PutAll(s, seq)[n - 1], "create", Restore(seq[n]))
<1> DEFINE Step(g, n) == IF n = 0 THEN s ELSE Put(g[n - 1], "create", Restore(seq[n]))
           Defined == {N \in 0 .. Len(seq) : \E g : g = [n \in 0 .. N |-> Step(g, n)]}
<1>1. Len(seq) \in Nat
  OBVIOUS
<1>2. 0 \in Defined
  <2> DEFINE g == [n \in 0 .. 0 |-> s]
  <2>1. g = [n \in 0 .. 0 |-> Step(g, n)]
    OBVIOUS
  <2> HIDE DEF g, Step
  <2>2. QED BY <1>1, <2>1
<1>3. ASSUME NEW N \in 1 .. Len(seq), N - 1 \in Defined PROVE N \in Defined
  <2>1. PICK g : g = [n \in 0 .. N - 1 |-> Step(g, n)]
    BY <1>3
  <2> DEFINE h == [n \in 0 .. N |-> IF n = N THEN Put(g[N - 1], "create", Restore(seq[N])) ELSE g[n]]
  <2>2. \A n \in 0 .. N : h[n] = Step(h, n)
    <3> SUFFICES ASSUME NEW n \in 0 .. N PROVE h[n] = Step(h, n)
      OBVIOUS
    <3>1. CASE n = N
      <4>1. h[n - 1] = g[N - 1]
        BY <1>1, <3>1
      <4>2. QED BY <1>1, <3>1, <4>1
    <3>2. CASE n # N
      <4>1. n \in 0 .. N - 1 /\ h[n] = g[n]
        BY <1>1, <3>2
      <4>2. g[n] = Step(g, n)
        <5> HIDE DEF Step
        <5>1. QED BY <2>1, <4>1
      <4>3. n # 0 => h[n - 1] = g[n - 1]
        BY <1>1, <4>1
      <4>4. QED BY <4>1, <4>2, <4>3
    <3>3. QED BY <3>1, <3>2
  <2>3. h = [n \in 0 .. N |-> Step(h, n)]
    <3> HIDE DEF Step
    <3>1. QED BY <2>2
  <2> HIDE DEF h, Step
  <2>4. N \in 0 .. Len(seq)
    BY <1>1
  <2>5. QED BY <2>3, <2>4
<1>4. Len(seq) \in Defined
  <2> HIDE DEF Defined
  <2>1. \A n \in 1 .. Len(seq) : n - 1 \in Defined => n \in Defined
    BY <1>3
  <2>2. Len(seq) \in 0 .. Len(seq)
    BY <1>1
  <2>3. \A n \in 0 .. Len(seq) : n \in Defined
    BY ONLY <1>1, <1>2, <2>1, InductionUpTo
  <2>4. QED BY ONLY <2>2, <2>3
<1>5. \E g : g = [n \in 0 .. Len(seq) |-> Step(g, n)]
  <2> HIDE DEF Step
  <2>1. QED BY <1>4
<1>6. PutAll(s, seq) = CHOOSE g : g = [n \in 0 .. Len(seq) |-> Step(g, n)]
  BY DEF PutAll
<1>7. PutAll(s, seq) = [n \in 0 .. Len(seq) |-> Step(PutAll(s, seq), n)]
  <2> HIDE DEF Step
  <2>1. QED BY <1>5, <1>6
<1>8. \A n \in 0 .. Len(seq) : PutAll(s, seq)[n] = Step(PutAll(s, seq), n)
  <2> HIDE DEF Step
  <2>1. QED BY <1>7
<1>9. PutAll(s, seq)[0] = s
  BY <1>1, <1>8
<1>10. ASSUME NEW n \in 1 .. Len(seq)
       PROVE  PutAll(s, seq)[n] = Put(PutAll(s, seq)[n - 1], "create", Restore(seq[n]))
  <2>1. n \in 0 .. Len(seq) /\ n # 0
    BY <1>1
  <2>2. QED BY <1>8, <2>1
<1>11. QED BY <1>9, <1>10

LEMMA PutAllFacts ==
  ASSUME NEW s \in SlotBuffers, NEW seq \in Seq(Calls)
  PROVE  \A n \in 0 .. Len(seq) : IsPutAll(s, seq, n)
<1> DEFINE Proved == {n \in 0 .. Len(seq) : IsPutAll(s, seq, n)}
<1>1. Len(seq) \in Nat
  OBVIOUS
<1>2. 0 \in Proved
  <2>1. PutAll(s, seq)[0] = s
    BY PutAllIs
  <2>2. QED BY <1>1, <2>1 DEF IsPutAll
<1>3. ASSUME NEW n \in 1 .. Len(seq), n - 1 \in Proved PROVE n \in Proved
  <2> DEFINE before == PutAll(s, seq)[n - 1]
             after == PutAll(s, seq)[n]
             slot == Index(before, "create")
  <2>1. IsPutAll(s, seq, n - 1) /\ before \in SlotBuffers
    BY <1>3 DEF IsPutAll
  <2>2. after = Put(before, "create", Restore(seq[n]))
    BY PutAllIs
  <2>3. Restore(seq[n]) \in Callbacks /\ Restore(seq[n]) \notin Calls
    BY CallsAssumption DEF Callbacks
  <2> HIDE DEF before, after, slot
  <2>4. IsPut(before, "create", Restore(seq[n]), slot, after)
    BY <2>1, <2>2, <2>3, PutFacts DEF slot, Buffers
  <2>5. /\ before \in SlotBuffers
        /\ \A a \in Buffers : DOMAIN s.cell[a] \subseteq DOMAIN before.cell[a]
        /\ \A a \in Buffers \ {"create"} : before.cell[a] = s.cell[a] /\ before.free[a] = s.free[a]
        /\ \A i \in DOMAIN before.cell["create"] :
             before.cell["create"][i] \in Calls =>
               i \in DOMAIN s.cell["create"] /\ s.cell["create"][i] = before.cell["create"][i]
    BY <2>1 DEF IsPutAll, before
  <2>6. after \in SlotBuffers
    BY <2>4 DEF IsPut
  <2>7. \A a \in Buffers : DOMAIN s.cell[a] \subseteq DOMAIN after.cell[a]
    BY <2>4, <2>5 DEF IsPut
  <2>8. \A a \in Buffers \ {"create"} : after.cell[a] = s.cell[a] /\ after.free[a] = s.free[a]
    BY <2>4, <2>5 DEF IsPut
  <2>9. \A i \in DOMAIN after.cell["create"] :
          after.cell["create"][i] \in Calls =>
            i \in DOMAIN s.cell["create"] /\ s.cell["create"][i] = after.cell["create"][i]
    <3> SUFFICES ASSUME NEW i \in DOMAIN after.cell["create"], after.cell["create"][i] \in Calls
                 PROVE  i \in DOMAIN s.cell["create"] /\ s.cell["create"][i] = after.cell["create"][i]
      OBVIOUS
    <3>1. i # slot
      BY <2>3, <2>4 DEF IsPut
    <3>2. i \in DOMAIN before.cell["create"] /\ after.cell["create"][i] = before.cell["create"][i]
      BY <2>4, <3>1 DEF IsPut
    <3>3. QED BY <2>5, <3>2
  <2>10. IsPutAll(s, seq, n)
    BY <2>6, <2>7, <2>8, <2>9 DEF IsPutAll, after
  <2>11. QED BY <1>1, <2>10
<1>4. QED
  <2> HIDE DEF Proved
  <2>1. \A n \in 0 .. Len(seq) : n \in Proved
    BY <1>1, <1>2, <1>3, InductionUpTo
  <2>2. QED BY <2>1 DEF Proved

-----------------------------------------------------------------------------
(* The steps, in fewer kinds.                                              *)

\* A request is sent: what Ask does.
IsAsk(s, type, callback, dev, slot, m) ==
  /\ slot = Index(s, type) /\ slots' = Put(s, type, callback)
  /\ IsPut(s, type, callback, slot, slots')
  /\ m = Message(type, callback, dev, OnWire(type, slot)) /\ m \in Asks
  /\ down' = Append(down, m)
  /\ slips \subseteq slips' /\ slips' \subseteq slips \cup {"unnamed"}
  /\ m.slot = First \/ type # "create"
  /\ m.slot = slot \/ (type = "create" /\ "unnamed" \in slips')

LEMMA AskFacts ==
  ASSUME NEW s \in SlotBuffers, NEW type \in Buffers, NEW callback \in Callbacks, NEW dev \in Calls,
         Ask(s, type, callback, dev)
  PROVE  \E slot \in Nat, m \in Asks : IsAsk(s, type, callback, dev, slot, m)
<1> DEFINE slot == Index(s, type)
           m == Message(type, callback, dev, OnWire(type, slot))
<1>1. IsPut(s, type, callback, slot, slots')
  BY PutFacts DEF Ask
<1> HIDE DEF slot
<1>2. slot \in Nat
  BY <1>1 DEF IsPut
<1>3. m \in Asks
  BY <1>2 DEF Message, OnWire, Asks, First
<1>4. /\ m.slot = OnWire(type, slot)
      /\ OnWire(type, slot) = First \/ type # "create"
      /\ OnWire(type, slot) = slot \/ (type = "create" /\ slot # First)
  <2>1. m.slot = OnWire(type, slot)
    BY DEF Message
  <2> HIDE DEF m
  <2>2. CASE type = "create"
    BY <2>1, <2>2 DEF OnWire
  <2>3. CASE type # "create"
    BY <2>1, <2>3 DEF OnWire
  <2>4. QED BY <2>2, <2>3
<1>5. /\ down' = Append(down, m)
      /\ slips' = IF type = "create" /\ slot # First THEN slips \cup {"unnamed"} ELSE slips
  BY DEF Ask, Slip, slot
<1>6. IsAsk(s, type, callback, dev, slot, m)
  <2>1. slot = Index(s, type) /\ slots' = Put(s, type, callback)
    BY DEF Ask, slot
  <2> HIDE DEF m
  <2>2. QED BY <1>1, <1>3, <1>4, <1>5, <2>1 DEF IsAsk, m
<1>7. QED BY <1>2, <1>3, <1>6

Begins(c, kind, type, d) ==
  /\ phase[c] = "none" /\ op' = [op EXCEPT ![c] = kind]
  /\ \E where \in {"async", "first"} :
       phase' = [phase EXCEPT ![c] = where] /\ (kind = "duplicate" => where = "async")
  /\ kind = type \/ (kind = "duplicate" /\ type = "ask")
  /\ Ask(slots, type, c, d)
  /\ type = "create" => d = c
  /\ table' = IF type = "create" THEN table \cup {c} ELSE table
  /\ left' \in [Spent -> Nat]
  /\ UNCHANGED <<remote, launched, fn, up, process, history>>

Wires(type, p) ==
  /\ down' = Append(down, Message(type, NoCall, p, First))
  /\ wants' = IF type = "connect" THEN wants \cup {p} ELSE wants \ {p}
  /\ left' \in [Spent -> Nat]
  /\ UNCHANGED <<slots, devices, callers, up, process, ran, full, failed, lost, slips>>

Erases(d) ==
  /\ table' = table \ {d} /\ remote' = remote \ {d}
  /\ left' \in [Spent -> Nat]
  /\ UNCHANGED <<slots, launched, callers, down, up, process, history, slips>>

LEMMA SpendFacts ==
  ASSUME Typed, NEW kinds \in SUBSET Spent, Spend(kinds)
  PROVE  left' \in [Spent -> Nat]
BY DEF Typed, Spend

LEMMA CallCases ==
  ASSUME Typed, Call
  PROVE  \/ \E c, d \in Calls, kind, type \in Buffers \cup {"duplicate"} :
              type \in Buffers /\ Begins(c, kind, type, d)
         \/ \E p \in Calls \X Calls, type \in {"connect", "disconnect"} : Wires(type, p)
         \/ \E d \in Calls : Erases(d)
<1>1. table \subseteq Calls /\ remote \subseteq table
  BY DEF Typed
<1>2. ASSUME NEW c \in Calls, NEW blocking \in BOOLEAN, NEW kind \in Buffers \cup {"duplicate"},
             Begin(c, kind, blocking)
      PROVE  /\ left' \in [Spent -> Nat]
             /\ phase[c] = "none" /\ op' = [op EXCEPT ![c] = kind]
             /\ phase' = [phase EXCEPT ![c] = IF blocking THEN "first" ELSE "async"]
  <2> DEFINE kinds == {IF kind \in {"load", "ask"} THEN "query" ELSE kind}
                      \cup (IF blocking THEN {"blocking"} ELSE {})
  <2>1. Spend(kinds) /\ kinds \subseteq Spent
    BY <1>2 DEF Begin, Buffers, Spent
  <2> HIDE DEF kinds
  <2>2. left' \in [Spent -> Nat]
    BY <2>1, SpendFacts
  <2>3. QED BY <1>2, <2>2 DEF Begin
<1>3. ASSUME NEW c \in Calls, NEW blocking \in BOOLEAN, Create(c, blocking)
      PROVE  Begins(c, "create", "create", c)
  <2>1. Begin(c, "create", blocking)
    BY <1>3 DEF Create
  <2>2. QED BY <1>2, <1>3, <2>1 DEF Create, Begins, Buffers
<1>4. ASSUME NEW c \in Calls, NEW d \in Calls, NEW blocking \in BOOLEAN, NEW type \in {"load", "ask"},
             Query(c, type, d, blocking)
      PROVE  Begins(c, type, type, d)
  <2>1. Begin(c, type, blocking)
    BY <1>4 DEF Query
  <2>2. QED BY <1>2, <1>4, <2>1 DEF Query, Begins, Buffers, devices
<1>5. ASSUME NEW c \in Calls, NEW d \in Calls, Duplicate(c, d)
      PROVE  Begins(c, "duplicate", "ask", d)
  <2>1. Begin(c, "duplicate", FALSE)
    BY <1>5 DEF Duplicate
  <2>2. QED BY <1>2, <1>5, <2>1 DEF Duplicate, Begins, Buffers, devices
<1>6. ASSUME NEW c \in Calls, NEW d \in Calls, Connect(c, d)
      PROVE  Wires("connect", <<c, d>>)
  <2>1. Spend({"wire"}) /\ {"wire"} \subseteq Spent
    BY <1>6 DEF Connect, Rewires, Spent
  <2>2. QED BY <1>6, <2>1, SpendFacts DEF Connect, Rewires, Wires
<1>7. ASSUME NEW c \in Calls, NEW d \in Calls, Disconnect(c, d)
      PROVE  Wires("disconnect", <<c, d>>)
  <2>1. Spend({"wire"}) /\ {"wire"} \subseteq Spent
    BY <1>7 DEF Disconnect, Rewires, Spent
  <2>2. QED BY <1>7, <2>1, SpendFacts DEF Disconnect, Rewires, Wires
<1>8. ASSUME NEW d \in Calls, Erase(d)
      PROVE  Erases(d)
  <2>1. Spend({"erase"}) /\ {"erase"} \subseteq Spent
    BY <1>8 DEF Erase, Spent
  <2>2. QED BY <1>8, <2>1, SpendFacts DEF Erase, Erases
<1>9. QED
  <2>1. CASE \E c \in Calls : \E blocking \in BOOLEAN : Create(c, blocking)
    BY <1>3, <2>1 DEF Buffers
  <2>2. CASE \E c \in Calls : \E blocking \in BOOLEAN : \E d \in Calls :
               Query(c, "load", d, blocking) \/ Query(c, "ask", d, blocking)
    BY <1>4, <2>2 DEF Buffers
  <2>3. CASE \E c, d \in Calls : Duplicate(c, d)
    BY <1>5, <2>3 DEF Buffers
  <2>4. CASE \E c, d \in Calls : Connect(c, d) \/ Disconnect(c, d)
    BY <1>6, <1>7, <2>4
  <2>5. CASE \E d \in Calls : Erase(d)
    BY <1>8, <2>5
  <2>6. QED BY <2>1, <2>2, <2>3, <2>4, <2>5 DEF Call

Waits(c, where) ==
  /\ Inside(c) /\ where \in {"asleep", "returned", "timedout"}
  /\ phase' = [phase EXCEPT ![c] = where]
  /\ slips' \in {slips, slips \cup {"early"}}
  /\ where = "returned" => c \in full
  /\ fn = c => "early" \in slips' \/ where = "asleep"
  /\ UNCHANGED <<slots, devices, op, fn, down, up, process, history, left>>

LEMMA WaitCases ==
  ASSUME NEW c \in Calls, Wait(c)
  PROVE  \E where \in {"asleep", "returned", "timedout"} : Waits(c, where)
<1>1. CASE FirstLook(c) /\ c \in full
  BY <1>1 DEF FirstLook, Goes, Waits, Inside, Slip
<1>2. CASE FirstLook(c) /\ c \notin full
  BY <1>2 DEF FirstLook, Goes, Waits, Inside
<1>3. CASE Wake(c)
  BY <1>3 DEF Wake, Goes, Waits, Inside
<1>4. CASE Timeout(c)
  BY <1>4 DEF Timeout, Goes, Waits, Inside
<1>5. QED BY <1>1, <1>2, <1>3, <1>4 DEF Wait

\* A reply is received, and its callback found.
Receives(msg, s, callback) ==
  /\ up # <<>> /\ msg = Head(up) /\ up' = Tail(up) /\ fn = NoCall
  /\ s = Take(slots, msg.type, msg.slot) /\ callback = s.cell[msg.type][msg.slot]
  /\ remote' = remote \/ (msg.dev \in table /\ remote' = remote \cup {msg.dev})
  /\ UNCHANGED <<launched, op, phase, process, failed, wants, left>>

ReplyWakes(msg, s, callback) ==
  /\ callback \in Calls /\ Inside(callback)
  /\ slots' = s
  /\ ran' = [ran EXCEPT ![callback] = Append(@, msg.call)]
  /\ full' \in {full, full \cup {callback}} /\ fn' = callback
  /\ UNCHANGED <<table, down, lost, slips>>
ReplyCrashes(msg, s, callback) ==
  /\ callback \in Calls /\ phase[callback] # "async" /\ ~Inside(callback)
  /\ slots' = s
  /\ slips' = slips \cup {"dead"}
  /\ UNCHANGED <<table, down, lost, ran, full, fn>>
ReplyCopies(msg, s, callback) ==
  /\ callback \in Calls /\ phase[callback] = "async"
  /\ op[callback] = "duplicate" /\ msg.type = "ask"
  /\ table' = table \cup {callback}
  /\ Ask(s, "create", callback, callback)
  /\ UNCHANGED <<ran, full, fn, lost>>
ReplyRuns(msg, s, callback) ==
  /\ callback \in Calls /\ phase[callback] = "async"
  /\ op[callback] # "duplicate" \/ msg.type # "ask"
  /\ slots' = s
  /\ ran' = [ran EXCEPT ![callback] = Append(@, msg.call)]
  /\ full' = full \cup {callback}
  /\ \/ /\ down' = Append(down, Message("load", NoCall, msg.dev, First))
        /\ slips' = slips \cup {"uncalled"}
     \/ UNCHANGED <<down, slips>>
  /\ UNCHANGED <<table, fn, lost>>
ReplyRestores(msg, s, callback) ==
  /\ \E d \in Calls : callback = Restore(d) /\ Ask(s, "load", Ignored, d)
  /\ UNCHANGED <<table, ran, full, fn, lost>>
ReplyIgnored(msg, s, callback) ==
  /\ callback \notin Calls
  /\ slots' = s
  /\ lost' = lost \/ lost' = lost \cup CallsIn(<<msg>>)
  /\ callback \in {NoCall, Ignored} => lost' = lost \cup CallsIn(<<msg>>)
  /\ UNCHANGED <<table, down, ran, full, fn, slips>>

LEMMA PollCases ==
  ASSUME PollReply
  PROVE  \E msg, s, callback :
           /\ Receives(msg, s, callback)
           /\ \/ ReplyWakes(msg, s, callback) \/ ReplyCrashes(msg, s, callback)
              \/ ReplyCopies(msg, s, callback) \/ ReplyRuns(msg, s, callback)
              \/ ReplyRestores(msg, s, callback) \/ ReplyIgnored(msg, s, callback)
<1> DEFINE msg == Head(up)
           s == Take(slots, msg.type, msg.slot)
           callback == s.cell[msg.type][msg.slot]
<1>1. Receives(msg, s, callback)
  BY DEF PollReply, Polls, Receives
<1>2. /\ Run(s, msg) /\ callback = s.cell[msg.type][msg.slot]
      /\ UNCHANGED <<op, phase>>
  BY DEF PollReply
<1> HIDE DEF msg, s, callback
<1>3. CASE /\ callback \in Calls /\ phase[callback] # "async"
           /\ RunBlocking(callback, msg.call, msg.type # "ask" \/ msg.ok)
           /\ slots' = s /\ UNCHANGED <<table, down, lost>>
  <2>1. CASE Inside(callback)
    <3>1. ReplyWakes(msg, s, callback)
      BY <1>3, <2>1 DEF RunBlocking, ReplyWakes
    <3>2. QED BY <1>1, <3>1
  <2>2. CASE ~Inside(callback)
    <3>1. ReplyCrashes(msg, s, callback)
      BY <1>3, <2>2 DEF RunBlocking, ReplyCrashes, Slip
    <3>2. QED BY <1>1, <3>1
  <2>3. QED BY <2>1, <2>2
<1>4. CASE /\ callback \in Calls /\ phase[callback] = "async"
           /\ op[callback] = "duplicate" /\ msg.type = "ask"
           /\ table' = table \cup {callback}
           /\ Ask(s, "create", callback, callback)
           /\ UNCHANGED <<ran, full, fn, lost>>
  <2>1. ReplyCopies(msg, s, callback)
    BY <1>4 DEF ReplyCopies
  <2>2. QED BY <1>1, <2>1
<1>5. CASE /\ callback \in Calls /\ phase[callback] = "async"
           /\ ~(op[callback] = "duplicate" /\ msg.type = "ask")
           /\ ran' = [ran EXCEPT ![callback] = Append(@, msg.call)]
           /\ full' = full \cup {callback}
           /\ slots' = s /\ UNCHANGED <<table, fn, lost>>
           /\ IF op[callback] = "duplicate" /\ msg.ok
              THEN down' = Append(down, Message("load", NoCall, msg.dev, First)) /\ Slip("uncalled", TRUE)
              ELSE UNCHANGED <<down, slips>>
  <2>1. ReplyRuns(msg, s, callback)
    BY <1>5 DEF ReplyRuns, Slip
  <2>2. QED BY <1>1, <2>1
<1>6. CASE /\ \E d \in Calls : callback = Restore(d)
           /\ IF msg.ok THEN Ask(s, "load", Ignored, callback[2])
                        ELSE slots' = s /\ UNCHANGED <<down, slips>>
           /\ UNCHANGED <<table, ran, full, fn, lost>>
  <2>1. PICK d \in Calls : callback = Restore(d)
    BY <1>6
  <2>2. callback[2] = d /\ callback \notin Calls \cup {NoCall, Ignored}
    BY <2>1, CallsAssumption DEF Restore
  <2>3. ReplyRestores(msg, s, callback) \/ ReplyIgnored(msg, s, callback)
    BY <1>6, <2>1, <2>2 DEF ReplyRestores, ReplyIgnored
  <2>4. QED BY <1>1, <2>3
<1>7. CASE /\ callback \in {NoCall, Ignored}
           /\ slots' = s
           /\ lost' = lost \cup CallsIn(<<msg>>)
           /\ UNCHANGED <<table, down, ran, full, fn, slips>>
  <2>1. ReplyIgnored(msg, s, callback)
    BY <1>7, CallsAssumption DEF ReplyIgnored
  <2>2. QED BY <1>1, <2>1
<1>8. QED BY <1>2, <1>3, <1>4, <1>5, <1>6, <1>7 DEF Run

-----------------------------------------------------------------------------
(* Types.                                                                  *)

LEMMA RequestKinds ==
  ASSUME NEW m \in Requests
  PROVE  /\ m.call \in Callbacks
         /\ m.type \in Buffers => m \in Asks
         /\ m.type \in {"connect", "disconnect"} => m \in Wirings
<1>1. \A w \in Wirings : w.type \notin Buffers /\ w.call \in Callbacks
  BY DEF Wirings, Buffers, Callbacks
<1>2. \A a \in Asks : a.type \notin {"connect", "disconnect"} /\ a.call \in Callbacks
  BY DEF Asks, Buffers
<1>3. QED BY <1>1, <1>2 DEF Requests

LEMMA HeadRequest ==
  ASSUME Typed, batch # <<>>
  PROVE  /\ Head(batch) \in Requests /\ Tail(batch) \in Seq(Requests)
         /\ Len(batch) \in Nat /\ Len(batch) > 0 /\ Head(batch) = batch[1]
BY HeadTailProperties, EmptySeq, LenProperties DEF Typed

LEMMA HeadReply ==
  ASSUME Typed, up # <<>>
  PROVE  /\ Head(up) \in Replies /\ Tail(up) \in Seq(Replies)
         /\ Head(up).type \in Buffers /\ Head(up).call \in Callbacks /\ Head(up).dev \in Calls
<1>1. up \in Seq(Replies)
  BY DEF Typed
<1>2. Head(up) \in Replies /\ Tail(up) \in Seq(Replies)
  BY <1>1, HeadTailProperties, EmptySeq
<1>3. QED BY <1>2 DEF Replies

\* In which order the messages on their way are listed.
LEMMA FlightIs ==
  ASSUME Typed
  PROVE  /\ Requested \in Seq(Requests) /\ Replied \in Seq(Replies)
         /\ InFlight = Requested \o Replied
         /\ Requested \in Seq(Requests \cup Replies) /\ Replied \in Seq(Requests \cup Replies)
         /\ InFlight \in Seq(Requests \cup Replies)
<1> DEFINE T == Requests \cup Replies
<1>1. /\ batch \in Seq(T) /\ down \in Seq(T) /\ up \in Seq(T) /\ out \in Seq(T)
  <2>1. /\ batch \in Seq(Requests) /\ down \in Seq(Requests)
        /\ up \in Seq(Replies) /\ out \in Seq(Replies)
    BY DEF Typed
  <2>2. QED BY <2>1
<1>2. Requested \in Seq(Requests) /\ Replied \in Seq(Replies)
  BY ConcatElements DEF Typed, Requested, Replied
<1>3. Requested \in Seq(T) /\ Replied \in Seq(T)
  BY <1>1, ConcatElements DEF Requested, Replied
<1> HIDE DEF T
<1>4. (Requested \o up) \o out = Requested \o Replied
  <2> DEFINE R == Requested
  <2> HIDE DEF R
  <2>1. R \in Seq(T)
    BY <1>3 DEF R
  <2>2. (R \o up) \o out = R \o (up \o out)
    BY ONLY <1>1, <2>1, ConcatAssociative, SMTT(30)
  <2>3. QED BY <2>2 DEF R, Replied
<1>5. InFlight = Requested \o Replied
  BY <1>4 DEF InFlight, Requested
<1>6. InFlight \in Seq(T)
  BY <1>3, <1>5, ConcatElements
<1>7. QED BY <1>2, <1>3, <1>5, <1>6 DEF T

\* The reply that comes next.
LEMMA NextReply ==
  ASSUME Typed, up # <<>>
  PROVE  /\ Len(Requested) + 1 \in DOMAIN InFlight
         /\ InFlight[Len(Requested) + 1] = Head(up)
<1>1. /\ up \in Seq(Replies) /\ out \in Seq(Replies) /\ Len(up) \in Nat \ {0} /\ Len(out) \in Nat
      /\ Len(Requested) \in Nat /\ Head(up) = up[1]
  BY FlightIs, HeadTailProperties, EmptySeq, LenProperties DEF Typed
<1>2. Replied \in Seq(Replies) /\ Len(Replied) = Len(up) + Len(out) /\ Replied[1] = Head(up)
  <2>1. /\ up \o out \in Seq(Replies) /\ Len(up \o out) = Len(up) + Len(out)
        /\ \A j \in 1 .. Len(up) + Len(out) : (up \o out)[j] = IF j <= Len(up) THEN up[j] ELSE out[j - Len(up)]
    BY <1>1, ConcatElements
  <2>2. 1 \in 1 .. Len(up) + Len(out) /\ 1 <= Len(up)
    BY <1>1
  <2>3. QED BY <1>1, <2>1, <2>2 DEF Replied
<1> DEFINE T == Requests \cup Replies
           R == Requested
           P == Replied
<1>3. R \in Seq(T) /\ P \in Seq(T) /\ InFlight = R \o P
  BY FlightIs
<1> HIDE DEF T, R, P
<1>4. /\ Len(R \o P) = Len(R) + Len(P) /\ R \o P \in Seq(T)
      /\ \A j \in 1 .. Len(R) + Len(P) : (R \o P)[j] = IF j <= Len(R) THEN R[j] ELSE P[j - Len(R)]
  BY <1>3, ConcatElements
<1>5. Len(R) + 1 \in 1 .. Len(R) + Len(P) /\ ~(Len(R) + 1 <= Len(R)) /\ Len(R) + 1 - Len(R) = 1
  BY <1>1, <1>2 DEF R, P
<1>6. (R \o P)[Len(R) + 1] = P[1] /\ Len(R) + 1 \in DOMAIN (R \o P)
  BY <1>4, <1>5, LenProperties
<1>7. QED BY <1>2, <1>3, <1>6 DEF R, P

\* What Receives finds.
LEMMA ReceivesFacts ==
  ASSUME Typed, Fine(slots, InFlight), NEW msg, NEW s, NEW callback, Receives(msg, s, callback)
  PROVE  /\ msg \in Replies /\ msg.type \in Buffers /\ msg.call \in Callbacks /\ msg.dev \in Calls
         /\ FineMessage(slots, msg) /\ msg.slot \in DOMAIN slots.cell[msg.type]
         /\ IsTake(slots, msg.type, msg.slot, s) /\ s \in SlotBuffers
         /\ callback = slots.cell[msg.type][msg.slot] /\ callback \in Callbacks
         /\ up' \in Seq(Replies) /\ remote' \subseteq table
<1>1. up # <<>> /\ msg = Head(up) /\ up' = Tail(up) /\ s = Take(slots, msg.type, msg.slot)
      /\ callback = s.cell[msg.type][msg.slot]
  BY DEF Receives
<1>2. msg \in Replies /\ msg.type \in Buffers /\ msg.call \in Callbacks /\ msg.dev \in Calls
      /\ up' \in Seq(Replies)
  BY <1>1, HeadReply
<1>3. FineMessage(slots, msg)
  BY <1>1, NextReply DEF Fine
<1>4. msg.slot \in DOMAIN slots.cell[msg.type]
  BY <1>2, <1>3 DEF FineMessage
<1>5. slots \in SlotBuffers
  BY DEF Typed
<1>6. IsTake(slots, msg.type, msg.slot, s)
  BY <1>1, <1>2, <1>4, <1>5, TakeFacts
<1>7. s \in SlotBuffers /\ s.cell = slots.cell
  BY <1>6 DEF IsTake
<1>8. slots.cell[msg.type] \in Seq(Callbacks)
  BY <1>2, <1>5 DEF SlotBuffers
<1>9. callback = slots.cell[msg.type][msg.slot] /\ callback \in Callbacks
  BY <1>1, <1>4, <1>7, <1>8, LenProperties
<1>10. remote' \subseteq table
  BY DEF Receives, Typed
<1>11. QED BY <1>2, <1>3, <1>4, <1>6, <1>7, <1>9, <1>10

\* A restart of the whole table.
Restarts(seq) ==
  /\ seq \in Seq(table) /\ seq \in SetToSeqs(table)
  /\ running' = TRUE /\ launched' = TRUE
  /\ Ends /\ left' \in [Spent -> Nat]
  /\ slots' = PutAll(slots, seq)[Len(seq)]
  /\ down' = down \o Restores(seq)
  /\ slips' \in {slips \cup {"restarted"}, slips \cup {"restarted", "unnamed"}}
  /\ \A i \in DOMAIN seq : Index(PutAll(slots, seq)[i - 1], "create") # First => "unnamed" \in slips'
  /\ UNCHANGED <<table, remote, callers, up, ran, full, failed, wants>>

LEMMA TableSeqs ==
  ASSUME NEW S, IsFiniteSet(S), NEW seq \in SetToSeqs(S)
  PROVE  seq \in Seq(S) /\ \A d \in S : \E i \in DOMAIN seq : seq[i] = d
<1>1. /\ Cardinality(S) \in Nat
      /\ seq \in [1 .. Cardinality(S) -> S]
      /\ \A i, j \in 1 .. Cardinality(S) : i # j => seq[i] # seq[j]
  BY FS_CardinalityType DEF SetToSeqs
<1>2. seq \in Injection(1 .. Cardinality(S), S)
  BY <1>1 DEF Injection, IsInjective
<1>3. Cardinality(1 .. Cardinality(S)) = Cardinality(S)
  BY <1>1, FS_Interval
<1>4. seq \in Surjection(1 .. Cardinality(S), S)
  BY <1>2, <1>3, FS_Injection
<1>5. QED BY <1>1, <1>4 DEF Surjection

LEMMA RestartCases ==
  ASSUME Typed, Restart
  PROVE  \E seq : Restarts(seq)
<1>1. IsFiniteSet(table)
  BY FS_Subset, CallsAssumption DEF Typed
<1>2. PICK seq \in SetToSeqs(table) :
        /\ slots' = PutAll(slots, seq)[Len(seq)]
        /\ down' = down \o Restores(seq)
        /\ slips' = slips \cup {"restarted"}
                    \cup (IF \E i \in DOMAIN seq : Index(PutAll(slots, seq)[i - 1], "create") # First
                          THEN {"unnamed"} ELSE {})
  BY DEF Restart, ToRestore
<1>3. seq \in Seq(table)
  BY <1>1, TableSeqs
<1>4. left' \in [Spent -> Nat]
  BY SpendFacts DEF Restart, Spent
<1>5. /\ slips' \in {slips \cup {"restarted"}, slips \cup {"restarted", "unnamed"}}
      /\ \A i \in DOMAIN seq : Index(PutAll(slots, seq)[i - 1], "create") # First => "unnamed" \in slips'
  <2>1. CASE \E i \in DOMAIN seq : Index(PutAll(slots, seq)[i - 1], "create") # First
    BY <1>2, <2>1
  <2>2. CASE ~ \E i \in DOMAIN seq : Index(PutAll(slots, seq)[i - 1], "create") # First
    BY <1>2, <2>2
  <2>3. QED BY <2>1, <2>2
<1>6. QED BY <1>2, <1>3, <1>4, <1>5 DEF Restart, Restarts

LEMMA RestoresType ==
  ASSUME NEW seq \in Seq(Calls)
  PROVE  /\ Restores(seq) \in Seq(Asks) /\ Len(Restores(seq)) = Len(seq)
         /\ \A i \in 1 .. Len(seq) : Restores(seq)[i] = Message("create", Restore(seq[i]), seq[i], First)
<1>1. Len(seq) \in Nat /\ DOMAIN seq = 1 .. Len(seq) /\ \A i \in 1 .. Len(seq) : seq[i] \in Calls
  BY LenProperties
<1>2. \A d \in Calls : Message("create", Restore(d), d, First) \in Asks
  BY DEF Message, Asks, Buffers, Callbacks, First
<1>3. QED BY <1>1, <1>2 DEF Restores

LEMMA TypedCalls ==
  ASSUME Typed, Call
  PROVE  Typed'
<1>1. /\ slots \in SlotBuffers /\ remote \subseteq table /\ table \subseteq Calls
      /\ op \in [Calls -> {"none", "create", "load", "ask", "duplicate"}]
      /\ phase \in [Calls -> {"none", "async", "first", "asleep", "returned", "timedout"}]
      /\ down \in Seq(Requests) /\ wants \subseteq Calls \X Calls
      /\ slips \subseteq {"unnamed", "uncalled", "early", "dead", "dropped", "restarted"}
  BY DEF Typed
<1>2. ASSUME NEW c \in Calls, NEW d \in Calls, NEW kind \in Buffers \cup {"duplicate"}, NEW type \in Buffers,
             Begins(c, kind, type, d)
      PROVE  Typed'
  <2>1. c \in Callbacks
    BY DEF Callbacks
  <2>2. PICK slot \in Nat, m \in Asks : IsAsk(slots, type, c, d, slot, m)
    BY <1>1, <1>2, <2>1, AskFacts DEF Begins
  <2>3. slots' \in SlotBuffers
    BY <2>2 DEF IsAsk, IsPut
  <2>4. down' \in Seq(Requests)
    BY <1>1, <2>2 DEF IsAsk, Requests
  <2>5. slips' \subseteq {"unnamed", "uncalled", "early", "dead", "dropped", "restarted"}
    BY <1>1, <2>2 DEF IsAsk
  <2>6. op' \in [Calls -> {"none", "create", "load", "ask", "duplicate"}]
    BY <1>1, <1>2 DEF Begins, Buffers
  <2>7. phase' \in [Calls -> {"none", "async", "first", "asleep", "returned", "timedout"}]
    BY <1>1, <1>2 DEF Begins
  <2>8. remote' \subseteq table' /\ table' \subseteq Calls
    BY <1>1, <1>2 DEF Begins
  <2>9. QED BY <1>2, <2>3, <2>4, <2>5, <2>6, <2>7, <2>8 DEF Typed, Begins, process, history, wiring
<1>3. ASSUME NEW p \in Calls \X Calls, NEW type \in {"connect", "disconnect"}, Wires(type, p)
      PROVE  Typed'
  <2>1. Message(type, NoCall, p, First) \in Requests
    BY DEF Message, Wirings, Requests
  <2>2. down' \in Seq(Requests)
    BY <1>1, <1>3, <2>1 DEF Wires
  <2>3. wants' \subseteq Calls \X Calls
    BY <1>1, <1>3 DEF Wires
  <2>4. QED BY <1>3, <2>2, <2>3 DEF Typed, Wires, process, wiring, devices, callers
<1>4. ASSUME NEW d \in Calls, Erases(d)
      PROVE  Typed'
  <2>1. remote' \subseteq table' /\ table' \subseteq Calls
    BY <1>1, <1>4 DEF Erases
  <2>2. QED BY <1>4, <2>1 DEF Typed, Erases, process, history, wiring, callers
<1>5. QED BY <1>2, <1>3, <1>4, CallCases

\* The message of a buffer that is handled.
LEMMA HandledAsk ==
  ASSUME Typed, batch # <<>>, Head(batch).type \in Buffers
  PROVE  /\ Head(batch) \in Asks /\ Head(batch).dev \in Calls
         /\ \A ok \in BOOLEAN : Reply(ok) => \E r \in Replies : Same(r, Head(batch)) /\ out' = Append(out, r)
<1>1. Head(batch) \in Asks
  BY HeadRequest, RequestKinds
<1>2. ASSUME NEW ok \in BOOLEAN, Reply(ok)
      PROVE  \E r \in Replies : Same(r, Head(batch)) /\ out' = Append(out, r)
  <2> DEFINE m == Head(batch)
             r == [type |-> m.type, call |-> m.call, dev |-> m.dev, slot |-> m.slot, ok |-> ok]
  <2>1. r \in Replies
    BY <1>1 DEF Asks, Replies
  <2>2. Same(r, m)
    BY DEF Same
  <2>3. out' = Append(out, r)
    BY <1>2 DEF Reply
  <2>4. QED BY <2>1, <2>2, <2>3
<1>3. QED BY <1>1, <1>2 DEF Asks


LEMMA CallsInCalls ==
  ASSUME NEW msgs PROVE CallsIn(msgs) \subseteq Calls
BY DEF CallsIn

LEMMA TypedProcess ==
  ASSUME Typed, Process
  PROVE  Typed'
<1>1. /\ batch \in Seq(Requests) /\ down \in Seq(Requests) /\ up \in Seq(Replies) /\ out \in Seq(Replies)
      /\ devs \subseteq Calls /\ conns \subseteq devs \X devs
      /\ failed \subseteq Calls /\ lost \subseteq Calls
      /\ slips \subseteq {"unnamed", "uncalled", "early", "dead", "dropped", "restarted"}
  BY DEF Typed
<1>2. CASE Receive
  <2>1. batch' \in Seq(Requests) /\ down' \in Seq(Requests)
    <3>1. PICK n \in 1 .. Len(down) : batch' = SubSeq(down, 1, n) /\ down' = SubSeq(down, n + 1, Len(down))
      BY <1>2 DEF Receive
    <3>2. QED BY <1>1, <3>1
  <2>2. QED BY <1>2, <2>1 DEF Receive, Typed, devices, callers, wiring, history
<1>3. CASE HandleCreate
  <2>1. batch # <<>> /\ Head(batch).type = "create" /\ batch' = Tail(batch)
    BY <1>3 DEF HandleCreate, Handles, Handled
  <2>2. Head(batch).dev \in Calls /\ batch' \in Seq(Requests)
    BY <2>1, HandledAsk, HeadRequest DEF Buffers
  <2>3. out' \in Seq(Replies)
    <3>1. Reply(TRUE) \/ Reply(FALSE)
      BY <1>3 DEF HandleCreate
    <3>2. PICK r \in Replies : out' = Append(out, r)
      BY <2>1, <3>1, HandledAsk DEF Buffers
    <3>3. QED BY <1>1, <3>2
  <2>4. /\ devs' \subseteq Calls /\ conns' \subseteq devs' \X devs' /\ failed' \subseteq Calls
    <3>1. CASE devs' = devs \cup {Head(batch).dev} /\ conns' = {c \in conns : c[1] # Head(batch).dev}
               /\ UNCHANGED failed
      BY <1>1, <2>2, <3>1
    <3>2. CASE failed' = failed \cup {Head(batch).dev} /\ UNCHANGED wiring
      BY <1>1, <2>2, <3>2 DEF wiring
    <3>3. QED BY <1>3, <3>1, <3>2 DEF HandleCreate
  <2>5. QED BY <1>3, <2>2, <2>3, <2>4 DEF HandleCreate, Typed, clientSide, devices, callers
<1>4. CASE HandleQuery
  <2>1. batch # <<>> /\ Head(batch).type \in Buffers /\ batch' = Tail(batch)
    BY <1>4 DEF HandleQuery, HasDevice, Handles, Handled, Buffers
  <2>2. batch' \in Seq(Requests)
    BY <2>1, HeadRequest
  <2>3. PICK r \in Replies : out' = Append(out, r)
    BY <1>4, <2>1, HandledAsk DEF HandleQuery
  <2>4. out' \in Seq(Replies)
    BY <1>1, <2>3
  <2>5. QED BY <1>4, <2>2, <2>4 DEF HandleQuery, Typed, clientSide, devices, callers, wiring, history
<1>5. CASE HandleSilently
  <2>1. batch' \in Seq(Requests)
    BY <1>5, HeadRequest DEF HandleSilently, HasDevice, Handles, Handled
  <2>2. lost' \subseteq Calls
    BY <1>1, <1>5, CallsInCalls DEF HandleSilently
  <2>3. QED BY <1>5, <2>1, <2>2 DEF HandleSilently, Typed, clientSide, devices, callers, wiring
<1>6. CASE HandleConnect
  <2>1. batch # <<>> /\ Head(batch).type = "connect"
    BY <1>6 DEF HandleConnect, Handles
  <2>2. batch' \in Seq(Requests)
    BY <1>6, <2>1, HeadRequest DEF HandleConnect, HandleWiring, Handled
  <2>3. Head(batch).dev \in devs \X devs
    <3>1. Head(batch) \in Wirings
      BY <2>1, HeadRequest, RequestKinds
    <3>2. Head(batch).dev \in Calls \X Calls
      BY <3>1 DEF Wirings
    <3>3. QED BY <1>6, <3>2 DEF HandleConnect, HasEnds
  <2>4. conns' \subseteq devs \X devs
    BY <1>1, <1>6, <2>3 DEF HandleConnect, HandleWiring
  <2>5. QED BY <1>6, <2>2, <2>4 DEF HandleConnect, HandleWiring, Typed, clientSide, devices, callers, history
<1>7. CASE HandleDisconnect
  <2>1. batch' \in Seq(Requests)
    BY <1>7, HeadRequest DEF HandleDisconnect, HandleWiring, Handles, Handled
  <2>2. conns' \subseteq devs \X devs
    BY <1>1, <1>7 DEF HandleDisconnect, HandleWiring
  <2>3. QED BY <1>7, <2>1, <2>2 DEF HandleDisconnect, HandleWiring, Typed, clientSide, devices, callers, history
<1>8. CASE HandleThrows
  <2>1. batch' \in Seq(Requests)
    BY <1>8 DEF HandleThrows
  <2>2. lost' \subseteq Calls
    BY <1>1, <1>8, CallsInCalls DEF HandleThrows
  <2>3. slips' \subseteq {"unnamed", "uncalled", "early", "dead", "dropped", "restarted"}
    BY <1>1, <1>8 DEF HandleThrows, Slip
  <2>4. QED BY <1>8, <2>1, <2>2, <2>3 DEF HandleThrows, Typed, clientSide, devices, callers, wiring
<1>9. CASE SendOut
  <2>1. up' \in Seq(Replies) /\ out' \in Seq(Replies)
    BY <1>1, <1>9, ConcatElements DEF SendOut
  <2>2. QED BY <1>9, <2>1 DEF SendOut, Typed, devices, callers, wiring, history
<1>10. QED BY <1>2, <1>3, <1>4, <1>5, <1>6, <1>7, <1>8, <1>9 DEF Process

LEMMA TypedPoll ==
  ASSUME Typed, Fine(slots, InFlight), Poll
  PROVE  Typed'
<1>1. /\ slots \in SlotBuffers /\ remote \subseteq table /\ table \subseteq Calls
      /\ fn \in Calls \cup {NoCall}
      /\ down \in Seq(Requests) /\ up \in Seq(Replies)
      /\ ran \in [Calls -> Seq(Callbacks)] /\ full \subseteq Calls /\ lost \subseteq Calls
      /\ slips \subseteq {"unnamed", "uncalled", "early", "dead", "dropped", "restarted"}
  BY DEF Typed
<1>2. CASE PollReply
  <2>1. PICK msg, s, callback :
           /\ Receives(msg, s, callback)
           /\ \/ ReplyWakes(msg, s, callback) \/ ReplyCrashes(msg, s, callback)
              \/ ReplyCopies(msg, s, callback) \/ ReplyRuns(msg, s, callback)
              \/ ReplyRestores(msg, s, callback) \/ ReplyIgnored(msg, s, callback)
    BY <1>2, PollCases
  <2>2. /\ msg \in Replies /\ msg.type \in Buffers /\ msg.call \in Callbacks /\ msg.dev \in Calls
        /\ s \in SlotBuffers /\ callback \in Callbacks
        /\ up' \in Seq(Replies) /\ remote' \subseteq table
    BY <2>1, ReceivesFacts
  <2>3. UNCHANGED <<launched, op, phase, process, failed, wants, left>>
    BY <2>1 DEF Receives
  <2>4. ASSUME NEW c \in Calls
        PROVE  [ran EXCEPT ![c] = Append(@, msg.call)] \in [Calls -> Seq(Callbacks)]
    BY <1>1, <2>2
  <2>5. CASE ReplyWakes(msg, s, callback)
    <3>1. ran' \in [Calls -> Seq(Callbacks)] /\ full' \subseteq Calls /\ fn' \in Calls \cup {NoCall}
      BY <1>1, <2>4, <2>5 DEF ReplyWakes
    <3>2. QED BY <1>1, <2>2, <2>3, <2>5, <3>1 DEF ReplyWakes, Typed, process, wiring
  <2>6. CASE ReplyCrashes(msg, s, callback)
    <3>1. slips' \subseteq {"unnamed", "uncalled", "early", "dead", "dropped", "restarted"}
      BY <1>1, <2>6 DEF ReplyCrashes
    <3>2. QED BY <1>1, <2>2, <2>3, <2>6, <3>1 DEF ReplyCrashes, Typed, process, wiring
  <2>7. CASE ReplyCopies(msg, s, callback)
    <3>1. callback \in Calls /\ table' \subseteq Calls /\ remote' \subseteq table'
      BY <1>1, <2>2, <2>7 DEF ReplyCopies
    <3>2. PICK slot \in Nat, m \in Asks : IsAsk(s, "create", callback, callback, slot, m)
      BY <2>2, <2>7, <3>1, AskFacts DEF ReplyCopies, Buffers
    <3>3. slots' \in SlotBuffers
      BY <3>2 DEF IsAsk, IsPut
    <3>4. down' \in Seq(Requests)
      BY <1>1, <3>2 DEF IsAsk, Requests
    <3>5. slips' \subseteq {"unnamed", "uncalled", "early", "dead", "dropped", "restarted"}
      BY <1>1, <3>2 DEF IsAsk
    <3>6. QED BY <2>2, <2>3, <2>7, <3>1, <3>3, <3>4, <3>5 DEF ReplyCopies, Typed, process, wiring
  <2>8. CASE ReplyRuns(msg, s, callback)
    <3>1. ran' \in [Calls -> Seq(Callbacks)] /\ full' \subseteq Calls
      BY <1>1, <2>4, <2>8 DEF ReplyRuns
    <3>2. Message("load", NoCall, msg.dev, First) \in Requests
      BY <2>2 DEF Message, Requests, Asks, Buffers, Callbacks, First
    <3>3. down' \in Seq(Requests)
      <4>1. down' = Append(down, Message("load", NoCall, msg.dev, First)) \/ down' = down
        BY <2>8 DEF ReplyRuns
      <4>2. QED BY <1>1, <3>2, <4>1, SMTT(30)
    <3>4. slips' \subseteq {"unnamed", "uncalled", "early", "dead", "dropped", "restarted"}
      BY <1>1, <2>8 DEF ReplyRuns
    <3>5. QED BY <1>1, <2>2, <2>3, <2>8, <3>1, <3>3, <3>4 DEF ReplyRuns, Typed, process, wiring
  <2>9. CASE ReplyRestores(msg, s, callback)
    <3>1. PICK d \in Calls : Ask(s, "load", Ignored, d)
      BY <2>9 DEF ReplyRestores
    <3>2. PICK slot \in Nat, m \in Asks : IsAsk(s, "load", Ignored, d, slot, m)
      BY <2>2, <3>1, AskFacts DEF Buffers, Callbacks
    <3>3. slots' \in SlotBuffers
      BY <3>2 DEF IsAsk, IsPut
    <3>4. down' \in Seq(Requests)
      BY <1>1, <3>2 DEF IsAsk, Requests
    <3>5. slips' \subseteq {"unnamed", "uncalled", "early", "dead", "dropped", "restarted"}
      BY <1>1, <3>2 DEF IsAsk
    <3>6. QED BY <1>1, <2>2, <2>3, <2>9, <3>3, <3>4, <3>5 DEF ReplyRestores, Typed, process, wiring
  <2>10. CASE ReplyIgnored(msg, s, callback)
    <3>1. lost' \subseteq Calls
      BY <1>1, <2>10, CallsInCalls DEF ReplyIgnored
    <3>2. QED BY <1>1, <2>2, <2>3, <2>10, <3>1 DEF ReplyIgnored, Typed, process, wiring
  <2>11. QED BY <2>1, <2>5, <2>6, <2>7, <2>8, <2>9, <2>10
<1>3. CASE PollThrows
  <2>1. up' \in Seq(Replies)
    BY <1>3, HeadReply DEF PollThrows, Polls
  <2>2. lost' \subseteq Calls
    BY <1>1, <1>3, CallsInCalls DEF PollThrows
  <2>3. QED BY <1>3, <2>1, <2>2 DEF PollThrows, Typed, devices, callers, process, wiring
<1>4. CASE PollFindsDead
  BY <1>4 DEF PollFindsDead, Typed, callers, process, wiring, history
<1>5. CASE FnEnd
  BY <1>5 DEF FnEnd, Typed, devices, process, wiring, history
<1>6. QED BY <1>2, <1>3, <1>4, <1>5 DEF Poll

LEMMA TypedStep ==
  ASSUME Typed, Fine(slots, InFlight), [Next]_vars
  PROVE  Typed'
<1>1. CASE Call
  BY <1>1, TypedCalls
<1>2. CASE Process
  BY <1>2, TypedProcess
<1>3. CASE Poll
  BY <1>3, TypedPoll
<1>4. CASE Die
  <2>1. left' \in [Spent -> Nat]
    BY <1>4, SpendFacts DEF Die, Spent
  <2>2. lost' \subseteq Calls
    BY <1>4, CallsInCalls DEF Die, Ends, Typed
  <2>3. batch' \in Seq(Requests) /\ out' \in Seq(Replies)
    BY <1>4 DEF Die, Ends
  <2>4. QED BY <1>4, <2>1, <2>2, <2>3 DEF Die, Ends, Typed, clientSide, devices, callers
<1>5. CASE Restart
  <2>1. PICK seq : Restarts(seq)
    BY <1>5, RestartCases
  <2>2. lost' \subseteq Calls
    BY <2>1, CallsInCalls DEF Restarts, Ends, Typed
  <2>3. batch' \in Seq(Requests) /\ out' \in Seq(Replies)
    BY <2>1 DEF Restarts, Ends
  <2>4. seq \in Seq(Calls) /\ Len(seq) \in 0 .. Len(seq)
    BY <2>1, LenProperties DEF Restarts, Typed
  <2>5. slots' \in SlotBuffers
    <3>1. IsPutAll(slots, seq, Len(seq))
      BY <2>4, PutAllFacts DEF Typed
    <3>2. QED BY <2>1, <3>1 DEF Restarts, IsPutAll
  <2>6. down' \in Seq(Requests)
    <3>1. Restores(seq) \in Seq(Requests)
      BY <2>4, RestoresType DEF Requests
    <3>2. down \in Seq(Requests)
      BY DEF Typed
    <3>3. QED BY <2>1, <3>1, <3>2, ConcatElements DEF Restarts
  <2>7. slips' \subseteq {"unnamed", "uncalled", "early", "dead", "dropped", "restarted"}
    BY <2>1 DEF Restarts, Typed
  <2>8. QED BY <2>1, <2>2, <2>3, <2>5, <2>6, <2>7 DEF Restarts, Ends, Typed, callers
<1>6. ASSUME NEW c \in Calls, Wait(c)
      PROVE  Typed'
  <2>1. PICK where \in {"asleep", "returned", "timedout"} : Waits(c, where)
    BY <1>6, WaitCases
  <2>2. phase' \in [Calls -> {"none", "async", "first", "asleep", "returned", "timedout"}]
    BY <2>1 DEF Waits, Typed
  <2>3. slips' \subseteq {"unnamed", "uncalled", "early", "dead", "dropped", "restarted"}
    BY <2>1 DEF Waits, Typed
  <2>4. QED BY <2>1, <2>2, <2>3 DEF Waits, Typed, devices, process, wiring, history
<1>7. CASE UNCHANGED vars
  BY <1>7 DEF vars, Typed
<1>8. QED BY <1>1, <1>2, <1>3, <1>4, <1>5, <1>6, <1>7 DEF Next

-----------------------------------------------------------------------------
(* How the messages on their way flow in each step.                        *)

LEMMA NoNumbers ==
  ASSUME NEW n \in Nat
  PROVE  n + 1 .. n + Len(<<>>) = {} /\ n + 1 .. n + 1 = {n + 1}
OBVIOUS

LEMMA HeadThenTail ==
  ASSUME NEW T, NEW s \in Seq(T), s # <<>>
  PROVE  s = <<Head(s)>> \o Tail(s)
<1>1. Len(s) \in Nat \ {0} /\ 1 \in 1 .. Len(s) /\ Len(s) \in 1 .. Len(s)
  BY EmptySeq, LenProperties
<1>2. SubSeq(s, 1, Len(s)) = <<s[1]>> \o SubSeq(s, 1 + 1, Len(s))
  BY <1>1, SubSeqRecursiveFirst
<1>3. SubSeq(s, 1, Len(s)) = s /\ Tail(s) = SubSeq(s, 2, Len(s)) /\ Head(s) = s[1] /\ 1 + 1 = 2
  BY SubSeqFull, TailIsSubSeq
<1>4. QED BY <1>2, <1>3

LEMMA TailOfConcat ==
  ASSUME NEW T, NEW s \in Seq(T), s # <<>>, NEW t \in Seq(T)
  PROVE  /\ s \o t # <<>> /\ Head(s \o t) = Head(s)
         /\ Tail(s \o t) = Tail(s) \o t
<1> DEFINE st == s \o t
           rest == Tail(s) \o t
<1>1. /\ st \in Seq(T) /\ Len(st) = Len(s) + Len(t) /\ Len(s) \in Nat \ {0} /\ Len(t) \in Nat
      /\ \A j \in 1 .. Len(s) + Len(t) : st[j] = IF j <= Len(s) THEN s[j] ELSE t[j - Len(s)]
  BY ConcatElements, EmptySeq, LenProperties
<1>2. /\ Tail(s) \in Seq(T) /\ Len(Tail(s)) = Len(s) - 1
      /\ \A j \in 1 .. Len(s) - 1 : Tail(s)[j] = s[j + 1]
  BY HeadTailProperties
<1>3. /\ rest \in Seq(T) /\ Len(rest) = Len(Tail(s)) + Len(t)
      /\ \A j \in 1 .. Len(Tail(s)) + Len(t) :
           rest[j] = IF j <= Len(Tail(s)) THEN Tail(s)[j] ELSE t[j - Len(Tail(s))]
  BY <1>2, ConcatElements
<1> HIDE DEF st, rest
<1>4. st # <<>> /\ Head(st) = st[1] /\ Head(s) = s[1] /\ st[1] = s[1]
  BY <1>1, EmptySeq
<1>5. Tail(st) \in Seq(T) /\ Len(Tail(st)) = Len(rest) /\ \A j \in 1 .. Len(rest) : Tail(st)[j] = st[j + 1]
  BY <1>1, <1>2, <1>3, <1>4, HeadTailProperties
<1>6. ASSUME NEW j \in 1 .. Len(rest) PROVE st[j + 1] = rest[j]
  <2>1. j + 1 \in 1 .. Len(s) + Len(t) /\ j \in 1 .. Len(Tail(s)) + Len(t) /\ (j + 1 <= Len(s) <=> j <= Len(Tail(s)))
    BY <1>1, <1>2, <1>3
  <2>2. CASE j + 1 <= Len(s)
    <3>1. st[j + 1] = s[j + 1] /\ rest[j] = Tail(s)[j] /\ j \in 1 .. Len(s) - 1
      BY <1>1, <1>2, <1>3, <2>1, <2>2
    <3>2. QED BY <1>2, <3>1
  <2>3. CASE ~(j + 1 <= Len(s))
    <3>1. st[j + 1] = t[j + 1 - Len(s)] /\ rest[j] = t[j - Len(Tail(s))]
      BY <1>1, <1>3, <2>1, <2>3
    <3>2. j + 1 - Len(s) = j - Len(Tail(s))
      BY <1>1, <1>2
    <3>3. QED BY <3>1, <3>2
  <2>4. QED BY <2>2, <2>3
<1>7. Tail(st) = rest
  BY <1>3, <1>5, <1>6, SeqEqual
<1>8. QED BY <1>4, <1>7 DEF st, rest

LEMMA FlowDrop ==
  ASSUME NEW T, NEW B \in Seq(T), NEW D \in Seq(T), NEW U \in Seq(T), NEW O \in Seq(T)
  PROVE  Flows(D \o U, (B \o D) \o (U \o O), {}, {})
<1>1. <<>> \in Seq(T) /\ Len(D) \in Nat /\ Len(B) + Len(D) \in Nat
  BY LenProperties
<1>2. D \o <<>> = D /\ <<>> \o U = U
  BY ConcatEmptySeq
<1>3. Flows((D \o <<>>) \o U, (B \o D) \o ((<<>> \o U) \o O),
            Len(D) + 1 .. Len(D) + Len(<<>>),
            Len(B) + Len(D) + 1 .. Len(B) + Len(D) + Len(<<>>))
  BY <1>1, FlowThrough
<1>4. Len(D) + 1 .. Len(D) + Len(<<>>) = {} /\ Len(B) + Len(D) + 1 .. Len(B) + Len(D) + Len(<<>>) = {}
  BY <1>1, NoNumbers
<1>5. QED BY <1>2, <1>3, <1>4

LEMMA FlowSend ==
  ASSUME NEW T, NEW B \in Seq(T), NEW D \in Seq(T), NEW N \in Seq(T), NEW U \in Seq(T), NEW O \in Seq(T)
  PROVE  Flows((D \o N) \o U, (B \o D) \o (U \o O), Len(D) + 1 .. Len(D) + Len(N), {})
<1>1. <<>> \in Seq(T) /\ Len(B) + Len(D) \in Nat
  BY LenProperties
<1>2. <<>> \o U = U
  BY ConcatEmptySeq
<1>3. Flows((D \o N) \o U, (B \o D) \o ((<<>> \o U) \o O),
            Len(D) + 1 .. Len(D) + Len(N),
            Len(B) + Len(D) + 1 .. Len(B) + Len(D) + Len(<<>>))
  BY <1>1, FlowThrough
<1>4. Len(B) + Len(D) + 1 .. Len(B) + Len(D) + Len(<<>>) = {}
  BY <1>1, NoNumbers
<1>5. QED BY <1>2, <1>3, <1>4

\* One request is sent, and one reply may be received.
LEMMA FlowAppend ==
  ASSUME NEW T, NEW R \in Seq(T), NEW P \in Seq(T), NEW m \in T
  PROVE  /\ Flows(Append(R, m) \o P, R \o P, {Len(R) + 1}, {})
         /\ P # <<>> => /\ Flows(Append(R, m) \o Tail(P), R \o P, {Len(R) + 1}, {Len(R) + 1})
                        /\ Flows(R \o Tail(P), R \o P, {}, {Len(R) + 1})
         /\ (Append(R, m) \o P)[Len(R) + 1] = m
         /\ P # <<>> => (Append(R, m) \o Tail(P))[Len(R) + 1] = m
<1>1. /\ <<>> \in Seq(T) /\ <<m>> \in Seq(T) /\ Len(R) \in Nat /\ Len(<<m>>) = 1 /\ Len(<<>>) = 0
      /\ Append(R, m) = R \o <<m>>
  BY LenProperties, AppendIsConcat
<1>2. /\ <<>> \o R = R /\ P \o <<>> = P /\ <<>> \o P = P /\ R \o <<>> = R
  BY ConcatEmptySeq
<1>3. Flows(Append(R, m) \o P, R \o P, {Len(R) + 1}, {})
  <2>1. Flows((R \o <<m>>) \o P, (<<>> \o R) \o (P \o <<>>), Len(R) + 1 .. Len(R) + Len(<<m>>), {})
    BY <1>1, FlowSend
  <2>2. QED BY <1>1, <1>2, <2>1, NoNumbers
<1>4. ASSUME P # <<>>
      PROVE  /\ Flows(Append(R, m) \o Tail(P), R \o P, {Len(R) + 1}, {Len(R) + 1})
             /\ Flows(R \o Tail(P), R \o P, {}, {Len(R) + 1})
             /\ Tail(P) \in Seq(T)
  <2> DEFINE V == <<Head(P)>>
             U == Tail(P)
  <2>1. V \in Seq(T) /\ U \in Seq(T) /\ P = V \o U /\ Len(V) = 1
    BY <1>4, HeadTailProperties, HeadThenTail
  <2> HIDE DEF V, U
  <2>2. (V \o U) \o <<>> = P
    BY <1>2, <2>1
  <2>3. Len(<<>>) + Len(R) = Len(R)
    BY <1>1
  <2>4. Flows((R \o <<m>>) \o U, (<<>> \o R) \o ((V \o U) \o <<>>),
              Len(R) + 1 .. Len(R) + Len(<<m>>),
              Len(<<>>) + Len(R) + 1 .. Len(<<>>) + Len(R) + Len(V))
    BY <1>1, <2>1, FlowThrough
  <2>5. Flows((R \o <<>>) \o U, (<<>> \o R) \o ((V \o U) \o <<>>),
              Len(R) + 1 .. Len(R) + Len(<<>>),
              Len(<<>>) + Len(R) + 1 .. Len(<<>>) + Len(R) + Len(V))
    BY <1>1, <2>1, FlowThrough
  <2>6. Len(R) + 1 .. Len(R) + 1 = {Len(R) + 1} /\ Len(R) + 1 .. Len(R) + Len(<<>>) = {}
    BY <1>1, NoNumbers
  <2>7. Flows(Append(R, m) \o U, R \o P, {Len(R) + 1}, {Len(R) + 1})
    BY <1>1, <1>2, <2>1, <2>2, <2>3, <2>4, <2>6
  <2>8. Flows(R \o U, R \o P, {}, {Len(R) + 1})
    BY <1>1, <1>2, <2>1, <2>2, <2>3, <2>5, <2>6
  <2>9. QED BY <2>1, <2>7, <2>8 DEF U
<1>5. ASSUME NEW Q \in Seq(T) PROVE (Append(R, m) \o Q)[Len(R) + 1] = m
  <2> DEFINE A == Append(R, m)
  <2>1. A \in Seq(T) /\ Len(A) = Len(R) + 1 /\ A[Len(R) + 1] = m
    BY AppendProperties
  <2> HIDE DEF A
  <2>2. Len(R) + 1 \in 1 .. Len(A) + Len(Q) /\ Len(R) + 1 <= Len(A)
    BY <1>1, <2>1, LenProperties
  <2>3. (A \o Q)[Len(R) + 1] = A[Len(R) + 1]
    BY <2>1, <2>2, ConcatElements
  <2>4. QED BY <2>1, <2>3 DEF A
<1>6. QED BY <1>3, <1>4, <1>5

\* Several requests are sent: where they are.
LEMMA SentElements ==
  ASSUME NEW T, NEW D \in Seq(T), NEW N \in Seq(T), NEW U \in Seq(T)
  PROVE  \A i \in 1 .. Len(N) : ((D \o N) \o U)[Len(D) + i] = N[i]
<1>1. Len(D) \in Nat /\ Len(N) \in Nat /\ Len(U) \in Nat
  BY LenProperties
<1> SUFFICES ASSUME NEW i \in 1 .. Len(N) PROVE ((D \o N) \o U)[Len(D) + i] = N[i]
  OBVIOUS
<1> DEFINE DN == D \o N
<1>2. /\ DN \in Seq(T) /\ Len(DN) = Len(D) + Len(N)
      /\ \A j \in 1 .. Len(D) + Len(N) : DN[j] = IF j <= Len(D) THEN D[j] ELSE N[j - Len(D)]
  BY ConcatElements
<1> HIDE DEF DN
<1>3. /\ Len(D) + i \in 1 .. Len(D) + Len(N) /\ ~(Len(D) + i <= Len(D)) /\ Len(D) + i - Len(D) = i
      /\ Len(D) + i \in 1 .. Len(DN) + Len(U) /\ Len(D) + i <= Len(DN)
  BY <1>1, <1>2
<1>4. DN[Len(D) + i] = N[i]
  BY <1>2, <1>3
<1>5. (DN \o U)[Len(D) + i] = DN[Len(D) + i]
  BY <1>2, <1>3, ConcatElements
<1>6. QED BY <1>4, <1>5 DEF DN

LEMMA FlowNone ==
  ASSUME NEW F
  PROVE  Flows(F, F, {}, {})
<1> DEFINE g == [i \in DOMAIN F \ {} |-> i]
<1>1. g \in [DOMAIN F \ {} -> DOMAIN F \ {}]
  OBVIOUS
<1>2. \A i, j \in DOMAIN F \ {} : g[i] = g[j] => i = j
  OBVIOUS
<1>3. \A i \in DOMAIN F \ {} : Same(F[i], F[g[i]])
  BY DEF Same
<1> HIDE DEF g
<1>4. QED BY <1>1, <1>2, <1>3 DEF Flows

LEMMA NextFlight ==
  ASSUME Typed'
  PROVE  /\ InFlight' = Requested' \o Replied'
         /\ Requested' \in Seq(Requests \cup Replies) /\ Replied' \in Seq(Requests \cup Replies)
         /\ Requested' \in Seq(Requests) /\ Replied' \in Seq(Replies)
<1> DEFINE T == Requests \cup Replies
<1>1. /\ batch' \in Seq(Requests) /\ down' \in Seq(Requests)
      /\ up' \in Seq(Replies) /\ out' \in Seq(Replies)
  BY DEF Typed
<1>2. batch' \in Seq(T) /\ down' \in Seq(T) /\ up' \in Seq(T) /\ out' \in Seq(T)
  BY <1>1
<1>3. Requested' \in Seq(Requests) /\ Replied' \in Seq(Replies)
  BY <1>1, ConcatElements DEF Requested, Replied
<1> HIDE DEF T
<1>4. Requested' \in Seq(T) /\ Replied' \in Seq(T)
  BY <1>2, ConcatElements DEF Requested, Replied
<1>5. (Requested' \o up') \o out' = Requested' \o Replied'
  <2> DEFINE R == Requested'
             u == up'
             o == out'
  <2> HIDE DEF R, u, o
  <2>1. R \in Seq(T) /\ u \in Seq(T) /\ o \in Seq(T)
    BY <1>2, <1>4 DEF R, u, o
  <2>2. (R \o u) \o o = R \o (u \o o)
    BY <2>1, ConcatAssociative, SMTT(30)
  <2>3. QED BY <2>2 DEF R, u, o, Replied
<1>6. QED BY <1>3, <1>4, <1>5 DEF InFlight, Requested, T

\* What a step of the process does with the first request and the devices.
Takes(m)   == batch # <<>> /\ m = Head(batch) /\ Requested # <<>> /\ m = Head(Requested)
              /\ Requested' = Tail(Requested)
Answers(m) == \E r \in Replies : Same(r, m) /\ Replied' = Append(Replied, r)

ProcessMovesOn ==
  Requested' = Requested /\ Replied' = Replied /\ UNCHANGED <<devs, conns, failed, lost, slips>>
ProcessCreates(m) ==
  /\ Takes(m) /\ m \in Asks /\ m.type = "create" /\ Answers(m)
  /\ \/ devs' = devs \cup {m.dev} /\ conns' = {c \in conns : c[1] # m.dev} /\ UNCHANGED failed
     \/ failed' = failed \cup {m.dev} /\ UNCHANGED <<devs, conns>>
  /\ UNCHANGED <<lost, slips>>
ProcessAnswers(m) ==
  /\ Takes(m) /\ m \in Asks /\ m.type # "create"
  /\ \/ Answers(m) /\ UNCHANGED lost
     \/ Replied' = Replied /\ lost' = lost \cup CallsIn(<<m>>)
  /\ UNCHANGED <<devs, conns, failed, slips>>
ProcessWires(m) ==
  /\ Takes(m) /\ m \in Wirings /\ Replied' = Replied
  /\ conns' = IF m.type = "connect" THEN conns \cup {m.dev} ELSE conns \ {m.dev}
  /\ UNCHANGED <<devs, failed, lost, slips>>
ProcessDrops ==
  /\ Requested' = down /\ Replied' = Replied
  /\ lost' = lost \cup CallsIn(batch) /\ slips' = slips \cup {"dropped"}
  /\ UNCHANGED <<devs, conns, failed>>

LEMMA ProcessCases ==
  ASSUME Typed, Typed', Process
  PROVE  /\ UNCHANGED <<slots, devices, op, phase, fn, running, ran, full, wants, left>>
         /\ \/ ProcessMovesOn \/ ProcessDrops
            \/ \E m : ProcessCreates(m) \/ ProcessAnswers(m) \/ ProcessWires(m)
<1>1. /\ batch \in Seq(Requests) /\ down \in Seq(Requests) /\ up \in Seq(Replies) /\ out \in Seq(Replies)
      /\ Len(down) \in Nat /\ Len(batch) \in Nat
  BY LenProperties DEF Typed
<1>2. UNCHANGED <<slots, devices, op, phase, fn, running, ran, full, wants, left>>
  BY DEF Process, Receive, HandleCreate, HandleQuery, HandleSilently, HandleConnect, HandleDisconnect,
         HandleWiring, HandleThrows, SendOut, clientSide, callers, devices, history
<1>3. CASE Receive
  <2>1. PICK n \in 1 .. Len(down) : batch' = SubSeq(down, 1, n) /\ down' = SubSeq(down, n + 1, Len(down))
    BY <1>3 DEF Receive
  <2>2. SubSeq(down, 1, n) \o SubSeq(down, n + 1, Len(down)) = SubSeq(down, 1, Len(down))
    BY <1>1, ConcatAdjacentSubSeq
  <2>3. batch = <<>> /\ UNCHANGED <<up, out, devs, conns, failed, lost, slips>>
    BY <1>3 DEF Receive, wiring, history
  <2>4. batch' \o down' = down /\ batch \o down = down
    BY <1>1, <2>1, <2>2, <2>3, SubSeqFull, ConcatEmptySeq
  <2>5. ProcessMovesOn
    BY <2>3, <2>4 DEF ProcessMovesOn, Requested, Replied
  <2>6. QED BY <1>2, <2>5
\* The first message of the batch is taken.
<1>4. ASSUME batch # <<>>, batch' = Tail(batch), down' = down
      PROVE  Takes(Head(batch))
  <2>1. batch \o down # <<>> /\ Head(batch \o down) = Head(batch) /\ Tail(batch \o down) = Tail(batch) \o down
    BY <1>1, <1>4, TailOfConcat
  <2>2. QED BY <1>4, <2>1 DEF Requested, Takes
<1>5. ASSUME NEW r \in Replies, out' = Append(out, r), up' = up
      PROVE  Replied' = Append(Replied, r)
  <2>1. Append(out, r) = out \o <<r>> /\ <<r>> \in Seq(Replies)
    BY <1>1, AppendIsConcat
  <2>2. (up \o out) \o <<r>> = up \o (out \o <<r>>)
    BY <1>1, <2>1, ConcatAssociative, SMTT(30)
  <2>3. up \o out \in Seq(Replies)
    BY <1>1, ConcatElements
  <2>4. Append(up \o out, r) = (up \o out) \o <<r>>
    BY <2>3, AppendIsConcat
  <2>5. QED BY <1>5, <2>1, <2>2, <2>4 DEF Replied
<1>6. CASE HandleCreate \/ HandleQuery
  <2>1. /\ batch # <<>> /\ Head(batch).type \in Buffers /\ batch' = Tail(batch)
        /\ UNCHANGED <<down, up>> /\ \E ok \in BOOLEAN : Reply(ok)
    BY <1>6 DEF HandleCreate, HandleQuery, HasDevice, Handles, Handled, Buffers, clientSide
  <2>2. Head(batch) \in Asks /\ \E r \in Replies : Same(r, Head(batch)) /\ out' = Append(out, r)
    BY <2>1, HandledAsk
  <2>3. Takes(Head(batch)) /\ Answers(Head(batch))
    BY <1>4, <1>5, <2>1, <2>2 DEF Answers
  <2>4. CASE HandleCreate
    <3>1. ProcessCreates(Head(batch))
      BY <2>2, <2>3, <2>4 DEF HandleCreate, Handles, ProcessCreates, wiring
    <3>2. QED BY <1>2, <3>1
  <2>5. CASE HandleQuery
    <3>1. ProcessAnswers(Head(batch))
      BY <2>2, <2>3, <2>5 DEF HandleQuery, HasDevice, Handles, ProcessAnswers, wiring, history
    <3>2. QED BY <1>2, <3>1
  <2>6. QED BY <1>6, <2>4, <2>5
<1>7. CASE HandleSilently \/ HandleConnect \/ HandleDisconnect
  <2>1. batch # <<>> /\ batch' = Tail(batch) /\ UNCHANGED <<down, up, out>>
    BY <1>7 DEF HandleSilently, HandleConnect, HandleDisconnect, HandleWiring, HasDevice, Handles,
                Handled, clientSide
  <2>2. Takes(Head(batch)) /\ Replied' = Replied
    BY <1>4, <2>1 DEF Replied
  <2>3. CASE HandleSilently
    <3>1. Head(batch) \in Asks
      BY <2>1, <2>3, HandledAsk DEF HandleSilently, Handles, Buffers
    <3>2. ProcessAnswers(Head(batch))
      BY <2>2, <2>3, <3>1 DEF HandleSilently, Handles, ProcessAnswers, wiring
    <3>3. QED BY <1>2, <3>2
  <2>4. CASE HandleConnect \/ HandleDisconnect
    <3>1. Head(batch) \in Wirings
      BY <2>1, <2>4, HeadRequest, RequestKinds DEF HandleConnect, HandleDisconnect, Handles
    <3>2. ProcessWires(Head(batch))
      BY <2>2, <2>4, <3>1 DEF HandleConnect, HandleDisconnect, HandleWiring, Handles, ProcessWires, history
    <3>3. QED BY <1>2, <3>2
  <2>5. QED BY <1>7, <2>3, <2>4
<1>8. CASE HandleThrows
  <2>1. batch' = <<>> /\ UNCHANGED <<down, up, out, devs, conns, failed>>
        /\ lost' = lost \cup CallsIn(batch) /\ slips' = slips \cup {"dropped"}
    BY <1>8 DEF HandleThrows, clientSide, wiring, Slip
  <2>2. ProcessDrops
    BY <1>1, <2>1, ConcatEmptySeq DEF Requested, Replied, ProcessDrops
  <2>3. QED BY <1>2, <2>2
<1>9. CASE SendOut
  <2>1. up' = up \o out /\ out' = <<>> /\ UNCHANGED <<batch, down, devs, conns, failed, lost, slips>>
    BY <1>9 DEF SendOut, wiring, history
  <2>2. up \o out \in Seq(Replies)
    BY <1>1, ConcatElements
  <2>3. ProcessMovesOn
    BY <2>1, <2>2, ConcatEmptySeq DEF Requested, Replied, ProcessMovesOn
  <2>4. QED BY <1>2, <2>3
<1>10. QED BY <1>3, <1>6, <1>7, <1>8, <1>9 DEF Process

LEMMA ProcessFlow ==
  ASSUME Typed, Typed', Process
  PROVE  Flows(InFlight', InFlight, {}, {})
<1> DEFINE T == Requests \cup Replies
<1>1. /\ InFlight = Requested \o Replied /\ InFlight' = Requested' \o Replied'
      /\ Requested \in Seq(T) /\ Replied \in Seq(T)
  BY FlightIs, NextFlight
<1>2. batch \in Seq(T) /\ down \in Seq(T) /\ <<>> \in Seq(T) /\ Replies \subseteq T
  <2>1. batch \in Seq(Requests) /\ down \in Seq(Requests)
    BY DEF Typed
  <2>2. QED BY <2>1
<1>3. batch # <<>> => /\ Requested # <<>> /\ Head(Requested) = Head(batch)
                      /\ Tail(Requested) \in Seq(T) /\ <<Head(Requested)>> \in Seq(T)
                      /\ Requested = <<Head(Requested)>> \o Tail(Requested)
  <2> SUFFICES ASSUME batch # <<>> PROVE /\ Requested # <<>> /\ Head(Requested) = Head(batch)
                                         /\ Tail(Requested) \in Seq(T) /\ <<Head(Requested)>> \in Seq(T)
                                         /\ Requested = <<Head(Requested)>> \o Tail(Requested)
    OBVIOUS
  <2> HIDE DEF T
  <2>4. Requested # <<>> /\ Head(Requested) = Head(batch)
    BY <1>2, TailOfConcat DEF Requested
  <2>5. Head(Requested) \in T /\ Tail(Requested) \in Seq(T) /\ Requested = <<Head(Requested)>> \o Tail(Requested)
    BY <1>1, <2>4, HeadTailProperties, HeadThenTail
  <2>6. QED BY <2>4, <2>5
<1> HIDE DEF T
<1>4. CASE Requested' = Requested /\ Replied' = Replied
  BY <1>1, <1>4, FlowNone
<1>5. CASE /\ batch # <<>> /\ Requested' = Tail(Requested)
           /\ \E r \in Replies : Same(r, Head(batch)) /\ Replied' = Append(Replied, r)
  <2>1. PICK r \in T : Same(r, Head(Requested)) /\ Replied' = Append(Replied, r)
    BY <1>2, <1>3, <1>5
  <2>2. Flows(Tail(Requested) \o Append(Replied, r), Requested \o Replied, {}, {})
    BY <1>1, <1>3, <1>5, <2>1, FlowReply
  <2>3. QED BY <1>1, <1>5, <2>1, <2>2
<1>6. CASE batch # <<>> /\ Requested' = Tail(Requested) /\ Replied' = Replied
  <2>1. Replied \o <<>> = Replied
    BY <1>1, ConcatEmptySeq
  <2>2. Flows(Tail(Requested) \o Replied, (<<Head(Requested)>> \o Tail(Requested)) \o (Replied \o <<>>), {}, {})
    BY <1>1, <1>2, <1>3, <1>6, FlowDrop
  <2>3. QED BY <1>1, <1>3, <1>6, <2>1, <2>2
<1>7. CASE Requested' = down /\ Replied' = Replied
  <2>1. Replied \o <<>> = Replied
    BY <1>1, ConcatEmptySeq
  <2>2. Flows(down \o Replied, (batch \o down) \o (Replied \o <<>>), {}, {})
    BY <1>1, <1>2, FlowDrop
  <2>3. QED BY <1>1, <1>7, <2>1, <2>2 DEF Requested
<1>8. QED BY <1>4, <1>5, <1>6, <1>7, ProcessCases
         DEF ProcessMovesOn, ProcessDrops, ProcessCreates, ProcessAnswers, ProcessWires, Takes, Answers

\* The end of the process, and a reply that nobody hears.
LEMMA EndsFlow ==
  ASSUME Typed, Typed', Ends, down' = down, up' = up
  PROVE  Flows(InFlight', InFlight, {}, {})
<1> DEFINE T == Requests \cup Replies
<1>1. /\ batch \in Seq(T) /\ down \in Seq(T) /\ up \in Seq(T) /\ out \in Seq(T)
  <2>1. /\ batch \in Seq(Requests) /\ down \in Seq(Requests)
        /\ up \in Seq(Replies) /\ out \in Seq(Replies)
    BY DEF Typed
  <2>2. QED BY <2>1
<1>2. InFlight = (batch \o down) \o (up \o out) /\ InFlight' = Requested' \o Replied'
  BY FlightIs, NextFlight DEF Requested, Replied
<1>3. Requested' = down /\ Replied' = up
  BY <1>1, ConcatEmptySeq DEF Ends, Requested, Replied
<1>4. Flows(down \o up, (batch \o down) \o (up \o out), {}, {})
  BY <1>1, FlowDrop
<1>5. QED BY <1>2, <1>3, <1>4

LEMMA ReceivedMoves ==
  ASSUME Typed, up # <<>>, up' = Tail(up), out' = out
  PROVE  Replied # <<>> /\ Replied' = Tail(Replied)
<1>1. up \in Seq(Replies) /\ out \in Seq(Replies)
  BY DEF Typed
<1>2. up \o out # <<>> /\ Tail(up \o out) = Tail(up) \o out
  BY <1>1, TailOfConcat
<1>3. QED BY <1>2 DEF Replied

-----------------------------------------------------------------------------
(* The messages and their slots.                                           *)

LEMMA ConfusedGrows ==
  ASSUME slips \subseteq slips', NEW b, Confused(b)
  PROVE  Confused(b)'
BY DEF Confused

\* What the calls of messages asked for stays, and they have not been run.
CallsStay(msgs) ==
  \A i \in DOMAIN msgs : msgs[i].type \in Buffers /\ msgs[i].call \in Calls =>
    /\ op'[msgs[i].call] = op[msgs[i].call]
    /\ ran'[msgs[i].call] = ran[msgs[i].call] \/ Confused(Target(msgs[i].call))

LEMMA FineFlows ==
  ASSUME NEW s, NEW G, NEW new, NEW gone,
         Fine(s, G), CallsStay(G), Flows(InFlight', G, new, gone),
         slips \subseteq slips', \A b \in Buffers : DOMAIN s.cell[b] \subseteq DOMAIN slots'.cell[b],
         \A k \in DOMAIN InFlight' \cap new : FineMessage(slots, InFlight[k])'
  PROVE  Fine(slots, InFlight)'
<1>1. PICK g \in [DOMAIN InFlight' \ new -> DOMAIN G \ gone] :
        \A i \in DOMAIN InFlight' \ new : Same(InFlight'[i], G[g[i]])
  BY DEF Flows
<1> SUFFICES ASSUME NEW i \in DOMAIN InFlight' PROVE FineMessage(slots, InFlight[i])'
  BY DEF Fine
<1>2. CASE i \in new
  BY <1>2
<1>3. CASE i \notin new
  <2>0. PICK n : n = InFlight'[i]
    OBVIOUS
  <2> DEFINE m == G[g[i]]
  <2>1. g[i] \in DOMAIN G /\ Same(n, m)
    BY <1>1, <1>3, <2>0
  <2>2. FineMessage(s, m)
    BY <2>1 DEF Fine
  <2>3. m.type \in Buffers /\ m.call \in Calls =>
          op'[m.call] = op[m.call] /\ (ran'[m.call] = ran[m.call] \/ Confused(Target(m.call)))
    BY <2>1 DEF CallsStay
  <2> HIDE DEF m
  <2>4. ASSUME n.type \in Buffers
        PROVE  n.slot \in DOMAIN slots'.cell[n.type]
    BY <2>1, <2>2, <2>4 DEF FineMessage, Same
  <2>5. ASSUME n.type \in Buffers, n.call \in Calls
        PROVE  Fits(n.call, n.type)' /\ (Confused(Target(n.call))' \/ ran'[n.call] = <<>>)
    <3>1. m.type = n.type /\ m.call = n.call
      BY <2>1 DEF Same
    <3>2. Fits(n.call, n.type) /\ (Confused(Target(n.call)) \/ ran[n.call] = <<>>)
      BY <2>2, <2>5, <3>1 DEF FineMessage
    <3>3. op'[n.call] = op[n.call] /\ (ran'[n.call] = ran[n.call] \/ Confused(Target(n.call)))
      BY <2>3, <2>5, <3>1
    <3>4. Fits(n.call, n.type)'
      BY <3>2, <3>3 DEF Fits
    <3>5. Confused(Target(n.call)) => Confused(Target(n.call))'
      BY <3>3 DEF Confused, Target
    <3>6. QED BY <3>2, <3>3, <3>4, <3>5
  <2>6. ASSUME n.type \in Buffers, n.call = NoCall
        PROVE  n.type = "load" /\ "uncalled" \in slips'
    BY <2>1, <2>2, <2>6 DEF FineMessage, Same
  <2>7. QED BY <2>0, <2>4, <2>5, <2>6 DEF FineMessage
<1>4. QED BY <1>2, <1>3

\* No slot is had or given back; new messages have no callback.
LEMMA StayKeeps ==
  ASSUME NEW G, NEW new, NEW gone, slots \in SlotBuffers, slots' \in SlotBuffers,
         NEW s, slots' = s,
         Fine(s, G), Single(G), Held(s, G), CallsStay(G),
         Flows(InFlight', G, new, gone), slips \subseteq slips',
         \A k \in DOMAIN InFlight' \cap new :
           /\ InFlight'[k].call = NoCall
           /\ InFlight'[k].type \in Buffers =>
                InFlight'[k].type = "load" /\ InFlight'[k].slot = First /\ "uncalled" \in slips'
  PROVE  Messages'
<1>1. ASSUME NEW k \in DOMAIN InFlight' \cap new
      PROVE  FineMessage(slots, InFlight[k])'
  <2>1. InFlight'[k].call = NoCall /\ NoCall \notin Calls
    BY CallsAssumption
  <2>2. InFlight'[k].type \in Buffers => InFlight'[k].slot \in DOMAIN slots'.cell[InFlight'[k].type]
    BY DEF SlotBuffers
  <2>3. QED BY <2>1, <2>2 DEF FineMessage
<1>2. Fine(slots, InFlight)'
  BY <1>1, FineFlows
<1>3. Single(InFlight)'
  <2> DEFINE F == InFlight'
  <2> HIDE DEF F
  <2>1. Flows(F, G, new, gone) /\ \A k \in DOMAIN F \cap new : F[k].call \notin Calls
    BY CallsAssumption DEF F
  <2>2. Single(F)
    BY <2>1, SingleFlows
  <2>3. QED BY <2>2 DEF F, Single
<1>4. ASSUME NEW b \in Buffers, ~Confused(b)'
      PROVE  HeldIn(slots, b, InFlight)'
  <2> DEFINE F == InFlight'
  <2>1. HeldIn(s, b, G)
    BY <1>4, ConfusedGrows DEF Held
  <2>2. Flows(F, G, new, gone) /\ \A k \in DOMAIN F \cap new : F[k].type # b \/ F[k].call = NoCall
    OBVIOUS
  <2> HIDE DEF F
  <2>3. HeldIn(s, b, F)
    BY <2>1, <2>2, HeldFlows
  <2>4. QED BY <2>3 DEF F, HeldIn
<1>5. QED BY <1>2, <1>3, <1>4 DEF Messages, Held

\* A request is sent whose callback is in the slots.
LEMMA AskKeeps ==
  ASSUME NEW G, NEW s \in SlotBuffers, NEW k, NEW gone,
         Fine(s, G), Single(G), Held(s, G), CallsStay(G),
         Flows(InFlight', G, {k}, gone),
         NEW type \in Buffers, NEW callback \in Callbacks, NEW dev \in Calls, NEW slot \in Nat, NEW m \in Asks,
         IsAsk(s, type, callback, dev, slot, m), InFlight'[k] = m,
         callback # NoCall,
         callback \in Calls => /\ \A i \in DOMAIN G \ gone : G[i].call # callback
                               /\ Fits(callback, type)'
                               /\ Confused(Target(callback))' \/ ran'[callback] = <<>>
  PROVE  Messages'
<1> DEFINE F == InFlight'
<1>1. /\ IsPut(s, type, callback, slot, slots') /\ slips \subseteq slips'
      /\ slot = Index(s, type) /\ slots' = Put(s, type, callback)
      /\ m.type = type /\ m.call = callback
      /\ m.slot = First \/ type # "create"
      /\ m.slot = slot \/ (type = "create" /\ "unnamed" \in slips')
  BY DEF IsAsk, Message
<1>2. /\ slots' \in SlotBuffers /\ \A b \in Buffers : DOMAIN s.cell[b] \subseteq DOMAIN slots'.cell[b]
      /\ slot \in DOMAIN slots'.cell[type]
  BY <1>1 DEF IsPut
<1>3. m.slot \in DOMAIN slots'.cell[type]
  BY <1>1, <1>2 DEF SlotBuffers
<1>4. FineMessage(slots, InFlight[k])'
  BY <1>1, <1>3 DEF FineMessage
<1>5. Fine(slots, InFlight)'
  BY <1>1, <1>2, <1>4, FineFlows
<1>6. Single(InFlight)'
  <2> HIDE DEF F
  <2>1. Flows(F, G, {k}, gone) /\ \A l \in DOMAIN F \cap {k} : F[l].call = callback
    BY <1>1 DEF F
  <2>2. Single(F)
    BY <2>1, SingleFlows
  <2>3. QED BY <2>2 DEF F, Single
<1>7. ASSUME NEW b \in Buffers, ~Confused(b)'
      PROVE  HeldIn(slots, b, InFlight)'
  <2>1. HeldIn(s, b, G)
    BY <1>1, <1>7, ConfusedGrows DEF Held
  <2>2. CASE b # type
    <3>1. slots'.cell[b] = s.cell[b] /\ slots'.free[b] = s.free[b]
      BY <1>1, <2>2 DEF IsPut
    <3>2. Flows(F, G, {k}, gone) /\ \A l \in DOMAIN F \cap {k} : F[l].type # b
      BY <1>1, <2>2
    <3> DEFINE t == slots'
    <3> HIDE DEF F, t
    <3>3. HeldIn(t, b, F)
      BY <2>1, <3>1, <3>2, HeldFlows DEF t
    <3>4. QED BY <3>3 DEF F, t, HeldIn
  <2>3. CASE b = type
    <3>1. m.slot = slot
      BY <1>1, <1>7, <2>3 DEF Confused
    <3>2. \A l \in DOMAIN F \cap {k} : F[l].slot = slot /\ F[l].call = callback
      BY <1>1, <3>1
    <3>3. \A i \in DOMAIN G : G[i].type = b => G[i].slot \in DOMAIN s.cell[b]
      BY DEF Fine, FineMessage
    <3>4. Flows(F, G, {k}, gone) /\ \A l, j \in DOMAIN F \cap {k} : l = j
      OBVIOUS
    <3> DEFINE t == slots'
    <3>5. t = Put(s, b, callback) /\ slot = Index(s, b)
      BY <1>1, <2>3
    <3> HIDE DEF F, t
    <3>6. HeldIn(t, b, F)
      BY <2>1, <3>2, <3>3, <3>4, <3>5, HeldPut
    <3>7. QED BY <3>6 DEF F, t, HeldIn
  <2>4. QED BY <2>2, <2>3
<1>8. QED BY <1>5, <1>6, <1>7 DEF Messages, Held

\* What is left when a reply has been received and its slot given back, and whose
\* callback was in the slot.
IsReply(msg, s, callback, G) ==
  /\ msg \in Replies /\ msg.type \in Buffers /\ msg.call \in Callbacks /\ msg.dev \in Calls
  /\ s \in SlotBuffers /\ s.cell = slots.cell /\ callback \in Callbacks
  /\ G \in Seq(Requests \cup Replies)
  /\ Fine(s, G) /\ Single(G) /\ Held(s, G)
  /\ Flows(G, InFlight, {}, {Len(Requested) + 1})
  /\ \A i \in DOMAIN G : msg.call \in Calls => G[i].call # msg.call
  /\ callback \in Calls => Fits(callback, msg.type)
  /\ msg.call \in Calls => /\ Fits(msg.call, msg.type)
                           /\ Confused(Target(msg.call)) \/ ran[msg.call] = <<>>
  /\ ~Confused(msg.type) => msg.call # NoCall /\ callback = msg.call

LEMMA ReplyFacts ==
  ASSUME Typed, Known, Messages, NEW msg, NEW s, NEW callback, Receives(msg, s, callback)
  PROVE  IsReply(msg, s, callback, Requested \o Tail(Replied))
<1> DEFINE T == Requests \cup Replies
           G == Requested \o Tail(Replied)
           k == Len(Requested) + 1
<1>1. /\ msg \in Replies /\ msg.type \in Buffers /\ msg.call \in Callbacks /\ msg.dev \in Calls
      /\ FineMessage(slots, msg) /\ msg.slot \in DOMAIN slots.cell[msg.type]
      /\ IsTake(slots, msg.type, msg.slot, s) /\ s \in SlotBuffers
      /\ callback = slots.cell[msg.type][msg.slot] /\ callback \in Callbacks
  BY ReceivesFacts DEF Messages
<1>2. up # <<>> /\ msg = Head(up) /\ s = Take(slots, msg.type, msg.slot) /\ up' = Tail(up) /\ out' = out
  BY DEF Receives, process
<1>3. k \in DOMAIN InFlight /\ InFlight[k] = msg
  BY <1>2, NextReply
<1>4. /\ Requested \in Seq(T) /\ Replied \in Seq(T) /\ InFlight = Requested \o Replied
      /\ Replied # <<>> /\ Tail(Replied) \in Seq(T)
  BY <1>2, FlightIs, ReceivedMoves, HeadTailProperties
<1>5. G \in Seq(T)
  <2> HIDE DEF T
  <2>1. QED BY <1>4, ConcatElements
<1>6. Flows(G, InFlight, {}, {k})
  <2> HIDE DEF T
  <2>1. msg \in T
    BY <1>1 DEF T
  <2>2. QED BY <1>4, <2>1, FlowAppend
<1> HIDE DEF G, k
<1>7. PICK g \in [DOMAIN G \ {} -> DOMAIN InFlight \ {k}] :
        \A i \in DOMAIN G \ {} : Same(G[i], InFlight[g[i]])
  BY <1>6 DEF Flows
<1>8. s.cell = slots.cell /\ \A a \in Buffers \ {msg.type} : s.free[a] = slots.free[a]
  BY <1>1 DEF IsTake
<1>9. Fine(s, G)
  <2> SUFFICES ASSUME NEW i \in DOMAIN G PROVE FineMessage(s, G[i])
    BY DEF Fine
  <2>1. Same(G[i], InFlight[g[i]]) /\ FineMessage(slots, InFlight[g[i]])
    BY <1>7 DEF Messages, Fine
  <2>2. QED BY <1>8, <2>1 DEF Same, FineMessage
<1>10. Single(G)
  BY <1>6, SingleFlows DEF Messages
<1>11. \A i \in DOMAIN G : msg.call \in Calls => G[i].call # msg.call
  <2> SUFFICES ASSUME NEW i \in DOMAIN G, msg.call \in Calls, G[i].call = msg.call PROVE FALSE
    OBVIOUS
  <2>1. g[i] \in DOMAIN InFlight /\ g[i] # k /\ InFlight[g[i]].call = msg.call
    BY <1>7 DEF Same
  <2>2. QED BY <1>3, <2>1 DEF Messages, Single
<1>12. msg.call = NoCall => Confused(msg.type)
  BY <1>1 DEF FineMessage, Confused
<1>13. ASSUME ~Confused(msg.type)
       PROVE  callback = msg.call /\ msg.call # NoCall
  <2>1. HeldIn(slots, msg.type, InFlight)
    BY <1>1, <1>13 DEF Messages, Held
  <2>2. QED BY <1>1, <1>3, <1>12, <1>13, <2>1 DEF HeldIn
<1>14. Held(s, G)
  <2> SUFFICES ASSUME NEW b \in Buffers, ~Confused(b) PROVE HeldIn(s, b, G)
    BY DEF Held
  <2>1. HeldIn(slots, b, InFlight)
    BY DEF Messages, Held
  <2>2. CASE b = msg.type
    <3>1. slots \in SlotBuffers /\ msg.slot \in DOMAIN slots.cell[b] /\ s = Take(slots, b, msg.slot)
      BY <1>1, <1>2, <2>2 DEF Typed
    <3>2. InFlight[k].type = b /\ InFlight[k].call # NoCall /\ InFlight[k].slot = msg.slot
      BY <1>3, <1>12, <2>2
    <3>3. QED BY <1>3, <1>6, <2>1, <3>1, <3>2, HeldTake
  <2>3. CASE b # msg.type
    <3>1. s.cell[b] = slots.cell[b] /\ s.free[b] = slots.free[b]
      BY <1>8, <2>3
    <3>2. QED BY <1>6, <2>1, <3>1, HeldFlows
  <2>4. QED BY <2>2, <2>3
<1>15. callback \in Calls => Fits(callback, msg.type)
  BY <1>1 DEF Known
<1>16. msg.call \in Calls => Fits(msg.call, msg.type) /\ (Confused(Target(msg.call)) \/ ran[msg.call] = <<>>)
  BY <1>1 DEF FineMessage
<1>17. QED BY <1>1, <1>5, <1>6, <1>8, <1>9, <1>10, <1>11, <1>13, <1>14, <1>15, <1>16 DEF IsReply, G, k

\* A callback that runs gets the reply to its own call, for the first time, if its
\* buffer is not confused.
LEMMA RunsOwn ==
  ASSUME NEW msg, NEW s, NEW callback \in Calls, NEW G, IsReply(msg, s, callback, G),
         op[callback] # "duplicate" \/ msg.type # "ask", ~Confused(Target(callback))
  PROVE  callback = msg.call /\ ran[callback] = <<>>
<1>1. msg.type \in Buffers /\ Fits(callback, msg.type)
  BY DEF IsReply
<1>2. msg.type = Target(callback)
  BY <1>1 DEF Fits, Target, Buffers
<1>3. callback = msg.call
  BY <1>2 DEF IsReply
<1>4. QED BY <1>3 DEF IsReply

LEMMA SentMoves ==
  ASSUME Typed, NEW m \in Requests, down' = Append(down, m), batch' = batch
  PROVE  Requested' = Append(Requested, m)
<1>1. batch \in Seq(Requests) /\ down \in Seq(Requests) /\ batch \o down \in Seq(Requests)
  BY ConcatElements DEF Typed
<1>2. Append(down, m) = down \o <<m>> /\ <<m>> \in Seq(Requests)
  BY <1>1, AppendIsConcat
<1>3. (batch \o down) \o <<m>> = batch \o (down \o <<m>>)
  BY <1>1, <1>2, ConcatAssociative, SMTT(30)
<1>4. Append(batch \o down, m) = (batch \o down) \o <<m>>
  BY <1>1, AppendIsConcat
<1>5. QED BY <1>2, <1>3, <1>4 DEF Requested

\* A call that has not begun has no message.
LEMMA NoMessageYet ==
  ASSUME Messages, NEW c \in Calls, op[c] = "none",
         \A i \in DOMAIN InFlight : InFlight[i].type \in Buffers \/ InFlight[i].call = NoCall
  PROVE  \A i \in DOMAIN InFlight : InFlight[i].call # c
<1> SUFFICES ASSUME NEW i \in DOMAIN InFlight, InFlight[i].call = c PROVE FALSE
  OBVIOUS
<1>1. InFlight[i].type \in Buffers
  BY CallsAssumption
<1>2. Fits(c, InFlight[i].type)
  BY <1>1 DEF Messages, Fine, FineMessage
<1>3. QED BY <1>1, <1>2 DEF Fits, Buffers

LEMMA FlightTypes ==
  ASSUME Typed
  PROVE  \A i \in DOMAIN InFlight :
           /\ InFlight[i] \in Requests \cup Replies
           /\ InFlight[i].type \in Buffers \/ (InFlight[i] \in Wirings /\ InFlight[i].call = NoCall)
           /\ InFlight[i].type \in Kinds /\ InFlight[i].call \in Callbacks
<1> SUFFICES ASSUME NEW i \in DOMAIN InFlight
             PROVE  /\ InFlight[i] \in Requests \cup Replies
                    /\ InFlight[i].type \in Buffers \/ (InFlight[i] \in Wirings /\ InFlight[i].call = NoCall)
                    /\ InFlight[i].type \in Kinds /\ InFlight[i].call \in Callbacks
  OBVIOUS
<1>1. InFlight[i] \in Requests \cup Replies
  BY FlightIs, ElementOfSeq, LenProperties
<1>2. CASE InFlight[i] \in Asks
  BY <1>1, <1>2 DEF Asks, Kinds
<1>3. CASE InFlight[i] \in Wirings
  BY <1>1, <1>3 DEF Wirings, Kinds, Callbacks
<1>4. CASE InFlight[i] \in Replies
  BY <1>1, <1>4 DEF Replies, Kinds
<1>5. QED BY <1>1, <1>2, <1>3, <1>4 DEF Requests

LEMMA MessagesCalls ==
  ASSUME Typed, Typed', Phased, Messages, Call
  PROVE  Messages'
<1> DEFINE T == Requests \cup Replies
           k == Len(Requested) + 1
<1>1. /\ Requested \in Seq(T) /\ Replied \in Seq(T) /\ InFlight = Requested \o Replied
      /\ InFlight' = Requested' \o Replied'
      /\ slots \in SlotBuffers /\ slots' \in SlotBuffers
  BY FlightIs, NextFlight DEF Typed
<1>2. /\ op \in [Calls -> {"none", "create", "load", "ask", "duplicate"}]
      /\ \A i \in DOMAIN InFlight : InFlight[i].type \in Buffers \/ InFlight[i].call = NoCall
  BY FlightTypes DEF Typed
\* A request that has been sent.
<1>3. ASSUME NEW m \in Requests, down' = Append(down, m), UNCHANGED <<batch, up, out>>
      PROVE  Flows(InFlight', InFlight, {k}, {}) /\ InFlight'[k] = m
  <2>1. Requested' = Append(Requested, m) /\ Replied' = Replied /\ m \in T
    BY <1>3, SentMoves DEF Replied
  <2> HIDE DEF T
  <2>2. /\ Flows(Append(Requested, m) \o Replied, Requested \o Replied, {k}, {})
        /\ (Append(Requested, m) \o Replied)[k] = m
    BY <1>1, <2>1, FlowAppend
  <2>3. QED BY <1>1, <2>1, <2>2
<1> HIDE DEF k
<1>4. ASSUME NEW c \in Calls, NEW d \in Calls, NEW kind \in Buffers \cup {"duplicate"}, NEW type \in Buffers,
             Begins(c, kind, type, d)
      PROVE  Messages'
  <2>1. c \in Callbacks /\ c # NoCall
    BY CallsAssumption DEF Callbacks
  <2>2. PICK slot \in Nat, m \in Asks : IsAsk(slots, type, c, d, slot, m)
    BY <1>1, <1>4, <2>1, AskFacts DEF Begins
  <2>3. op[c] = "none" /\ ran[c] = <<>>
    BY <1>4 DEF Begins, Phased
  <2>4. \A i \in DOMAIN InFlight \ {} : InFlight[i].call # c
    BY <1>2, <2>3, NoMessageYet
  <2>5. down' = Append(down, m) /\ m \in Requests /\ UNCHANGED <<batch, up, out>>
    BY <1>4, <2>2 DEF IsAsk, Begins, process, Requests
  <2>6. Flows(InFlight', InFlight, {k}, {}) /\ InFlight'[k] = m
    BY <1>3, <2>5
  <2>7. ran' = ran /\ op' = [op EXCEPT ![c] = kind]
    BY <1>4 DEF Begins, history
  <2>8. CallsStay(InFlight)
    BY <1>2, <2>4, <2>7 DEF CallsStay
  <2>9. Fits(c, type)' /\ ran'[c] = <<>>
    BY <1>2, <1>4, <2>3, <2>7 DEF Fits, Begins
  <2>10. Fine(slots, InFlight) /\ Single(InFlight) /\ Held(slots, InFlight)
    BY DEF Messages
  <2>11. QED BY <1>1, <2>1, <2>2, <2>4, <2>6, <2>8, <2>9, <2>10, AskKeeps
<1>5. ASSUME NEW p \in Calls \X Calls, NEW type \in {"connect", "disconnect"}, Wires(type, p)
      PROVE  Messages'
  <2> DEFINE m == Message(type, NoCall, p, First)
  <2>1. m \in Requests /\ m.call = NoCall /\ m.type \notin Buffers
    BY DEF Message, Wirings, Requests, Buffers
  <2>2. down' = Append(down, m) /\ UNCHANGED <<batch, up, out>> /\ UNCHANGED <<slots, op, ran, slips>>
    BY <1>5 DEF Wires, process, callers
  <2> HIDE DEF m
  <2>3. Flows(InFlight', InFlight, {k}, {}) /\ InFlight'[k] = m
    BY <1>3, <2>1, <2>2
  <2>4. CallsStay(InFlight)
    BY <2>2 DEF CallsStay
  <2>5. Fine(slots, InFlight) /\ Single(InFlight) /\ Held(slots, InFlight)
    BY DEF Messages
  <2>6. QED BY <1>1, <2>1, <2>2, <2>3, <2>4, <2>5, StayKeeps
<1>6. ASSUME NEW d \in Calls, Erases(d)
      PROVE  Messages'
  <2>1. UNCHANGED <<batch, down, up, out, slots, op, ran, slips>>
    BY <1>6 DEF Erases, process, callers, history
  <2>2. InFlight' = InFlight
    BY <2>1 DEF InFlight
  <2>3. Flows(InFlight', InFlight, {}, {})
    BY <2>2, FlowNone
  <2>4. CallsStay(InFlight)
    BY <2>1 DEF CallsStay
  <2>5. Fine(slots, InFlight) /\ Single(InFlight) /\ Held(slots, InFlight)
    BY DEF Messages
  <2>6. QED BY <1>1, <2>1, <2>3, <2>4, <2>5, StayKeeps
<1>7. QED BY <1>4, <1>5, <1>6, CallCases

LEMMA QuietKeeps ==
  ASSUME Typed, Typed', Messages, slots' = slots, op' = op, ran' = ran, slips \subseteq slips',
         NEW gone, Flows(InFlight', InFlight, {}, gone)
  PROVE  Messages'
<1>1. CallsStay(InFlight)
  BY DEF CallsStay
<1>2. /\ Fine(slots, InFlight) /\ Single(InFlight) /\ Held(slots, InFlight)
      /\ slots \in SlotBuffers /\ slots' \in SlotBuffers
  BY DEF Messages, Typed
<1>3. QED BY <1>1, <1>2, StayKeeps

LEMMA MessagesProcess ==
  ASSUME Typed, Typed', Messages, Process
  PROVE  Messages'
<1>1. UNCHANGED <<slots, op, ran>> /\ slips \subseteq slips'
  BY DEF Process, Receive, HandleCreate, HandleQuery, HandleSilently, HandleConnect, HandleDisconnect,
         HandleWiring, HandleThrows, SendOut, clientSide, callers, history, Slip
<1>2. QED BY <1>1, ProcessFlow, QuietKeeps

\* The callback of a reply is a call that is run.
LEMMA RunStays ==
  ASSUME Typed, NEW msg, NEW s, NEW callback \in Calls, NEW G, IsReply(msg, s, callback, G),
         op[callback] # "duplicate" \/ msg.type # "ask",
         op' = op, ran' = [ran EXCEPT ![callback] = Append(@, msg.call)]
  PROVE  CallsStay(G)
<1> SUFFICES ASSUME NEW i \in DOMAIN G, G[i].call \in Calls, ran'[G[i].call] # ran[G[i].call]
             PROVE  Confused(Target(G[i].call))
  BY DEF CallsStay
<1>1. G[i].call = callback
  BY DEF Typed
<1>2. callback # msg.call
  BY <1>1 DEF IsReply
<1>3. QED BY <1>1, <1>2, RunsOwn

LEMMA MessagesReply ==
  ASSUME Typed, Typed', Known, Phased, Messages, PollReply
  PROVE  Messages'
<1> DEFINE T == Requests \cup Replies
           k == Len(Requested) + 1
           G == Requested \o Tail(Replied)
<1>1. PICK msg, s, callback :
         /\ Receives(msg, s, callback)
         /\ \/ ReplyWakes(msg, s, callback) \/ ReplyCrashes(msg, s, callback)
            \/ ReplyCopies(msg, s, callback) \/ ReplyRuns(msg, s, callback)
            \/ ReplyRestores(msg, s, callback) \/ ReplyIgnored(msg, s, callback)
  BY PollCases
<1>2. IsReply(msg, s, callback, G)
  BY <1>1, ReplyFacts
<1>3. /\ Requested \in Seq(T) /\ InFlight' = Requested' \o Replied'
      /\ Replied' = Tail(Replied) /\ Tail(Replied) \in Seq(T)
      /\ batch' = batch /\ op' = op
      /\ slots \in SlotBuffers /\ slots' \in SlotBuffers
  <2>1. up # <<>> /\ up' = Tail(up) /\ out' = out /\ batch' = batch /\ op' = op
    BY <1>1 DEF Receives, process
  <2>2. Replied # <<>> /\ Replied' = Tail(Replied) /\ Replied \in Seq(T)
    BY <2>1, FlightIs, ReceivedMoves
  <2>3. QED BY <2>1, <2>2, FlightIs, NextFlight, HeadTailProperties DEF Typed
<1>4. ASSUME down' = down
      PROVE  Flows(InFlight', G, {}, {})
  <2>1. Requested' = Requested
    BY <1>3, <1>4 DEF Requested
  <2>2. QED BY <1>3, <2>1, FlowNone
<1>5. ASSUME NEW m \in Asks, down' = Append(down, m)
      PROVE  Flows(InFlight', G, {k}, {}) /\ InFlight'[k] = m
  <2>1. Requested' = Append(Requested, m) /\ m \in T
    BY <1>3, <1>5, SentMoves DEF Requests
  <2> DEFINE P == Tail(Replied)
  <2> HIDE DEF T, P
  <2>2. P \in Seq(T)
    BY <1>3 DEF P
  <2>3. /\ Flows(Append(Requested, m) \o P, Requested \o P, {k}, {})
        /\ (Append(Requested, m) \o P)[k] = m
    BY <1>3, <2>1, <2>2, FlowAppend
  <2>4. QED BY <1>3, <2>1, <2>3 DEF P
<1>6. Fine(s, G) /\ Single(G) /\ Held(s, G) /\ s \in SlotBuffers
  BY <1>2 DEF IsReply
<1> HIDE DEF G, k
<1>7. CASE ReplyWakes(msg, s, callback)
  <2>1. callback \in Calls /\ op[callback] # "duplicate"
    BY <1>7 DEF ReplyWakes, Inside, Phased
  <2>2. CallsStay(G)
    BY <1>2, <1>3, <1>7, <2>1, RunStays DEF ReplyWakes
  <2>3. QED BY <1>3, <1>4, <1>6, <1>7, <2>2, StayKeeps DEF ReplyWakes
<1>8. CASE ReplyCrashes(msg, s, callback)
  <2>1. CallsStay(G)
    BY <1>3, <1>8 DEF ReplyCrashes, CallsStay
  <2>2. slips \subseteq slips'
    BY <1>8 DEF ReplyCrashes
  <2>3. QED BY <1>3, <1>4, <1>6, <1>8, <2>1, <2>2, StayKeeps DEF ReplyCrashes
<1>9. CASE ReplyCopies(msg, s, callback)
  <2>1. callback \in Calls /\ op[callback] = "duplicate" /\ msg.type = "ask" /\ ran' = ran
    BY <1>9 DEF ReplyCopies
  <2>2. callback \in Callbacks /\ callback # NoCall
    BY <2>1, CallsAssumption DEF Callbacks
  <2>3. callback = msg.call
    BY <1>2, <2>1 DEF IsReply, Confused
  <2>4. PICK slot \in Nat, m \in Asks : IsAsk(s, "create", callback, callback, slot, m)
    BY <1>6, <1>9, <2>1, <2>2, AskFacts DEF ReplyCopies, Buffers
  <2>5. down' = Append(down, m) /\ slips \subseteq slips'
    BY <2>4 DEF IsAsk
  <2>6. Flows(InFlight', G, {k}, {}) /\ InFlight'[k] = m
    BY <1>5, <2>5
  <2>7. CallsStay(G)
    BY <1>3, <2>1 DEF CallsStay
  <2>8. /\ \A i \in DOMAIN G \ {} : G[i].call # callback
        /\ Fits(callback, "create")'
        /\ Confused(Target(callback)) \/ ran[callback] = <<>>
    BY <1>2, <1>3, <2>1, <2>3 DEF IsReply, Fits
  <2>9. Confused(Target(callback))' \/ ran'[callback] = <<>>
    BY <1>3, <2>1, <2>5, <2>8 DEF Confused, Target
  <2>10. "create" \in Buffers
    BY DEF Buffers
  <2>11. QED BY <1>6, <2>1, <2>2, <2>4, <2>6, <2>7, <2>8, <2>9, <2>10, AskKeeps, ZenonT(40)
<1>10. CASE ReplyRuns(msg, s, callback)
  <2>1. callback \in Calls /\ slots' = s
    BY <1>10 DEF ReplyRuns
  <2>2. CallsStay(G)
    BY <1>2, <1>3, <1>10, <2>1, RunStays DEF ReplyRuns
  <2>3. CASE UNCHANGED <<down, slips>>
    BY <1>3, <1>4, <1>6, <2>1, <2>2, <2>3, StayKeeps
  <2>4. CASE /\ down' = Append(down, Message("load", NoCall, msg.dev, First))
             /\ slips' = slips \cup {"uncalled"}
    <3> DEFINE m == Message("load", NoCall, msg.dev, First)
    <3>1. m \in Asks /\ m.call = NoCall /\ m.type = "load" /\ m.slot = First
      BY <1>2 DEF IsReply, Message, Asks, Buffers, Callbacks, First
    <3> HIDE DEF m
    <3>2. down' = Append(down, m)
      BY <2>4 DEF m
    <3>3. Flows(InFlight', G, {k}, {}) /\ InFlight'[k] = m
      BY <1>5, <3>1, <3>2
    <3>4. QED BY <1>3, <1>6, <2>1, <2>2, <2>4, <3>1, <3>3, StayKeeps
  <2>5. QED BY <1>10, <2>3, <2>4 DEF ReplyRuns
<1>11. CASE ReplyRestores(msg, s, callback)
  <2>1. PICK d \in Calls : Ask(s, "load", Ignored, d)
    BY <1>11 DEF ReplyRestores
  <2>2. Ignored \in Callbacks /\ Ignored # NoCall /\ Ignored \notin Calls /\ "load" \in Buffers
    BY CallsAssumption DEF Callbacks, Buffers
  <2>3. PICK slot \in Nat, m \in Asks : IsAsk(s, "load", Ignored, d, slot, m)
    BY <1>6, <2>1, <2>2, AskFacts
  <2>4. down' = Append(down, m)
    BY <2>3 DEF IsAsk
  <2>5. Flows(InFlight', G, {k}, {}) /\ InFlight'[k] = m
    BY <1>5, <2>4
  <2>6. CallsStay(G)
    BY <1>3, <1>11 DEF ReplyRestores, CallsStay
  <2>7. QED BY <1>6, <2>2, <2>3, <2>5, <2>6, AskKeeps
<1>12. CASE ReplyIgnored(msg, s, callback)
  <2>1. CallsStay(G)
    BY <1>3, <1>12 DEF ReplyIgnored, CallsStay
  <2>2. QED BY <1>3, <1>4, <1>6, <1>12, <2>1, StayKeeps DEF ReplyIgnored
<1>13. QED BY <1>1, <1>7, <1>8, <1>9, <1>10, <1>11, <1>12

LEMMA MessagesPoll ==
  ASSUME Typed, Typed', Known, Phased, Messages, Poll
  PROVE  Messages'
<1>1. CASE PollReply
  BY <1>1, MessagesReply
<1>2. CASE PollThrows
  <2>1. /\ up # <<>> /\ up' = Tail(up) /\ out' = out /\ batch' = batch /\ down' = down
        /\ UNCHANGED <<slots, op, ran, slips>>
    BY <1>2 DEF PollThrows, Polls, process, callers
  <2>2. Replied # <<>> /\ Replied' = Tail(Replied) /\ Requested' = Requested
    BY <2>1, ReceivedMoves DEF Requested
  <2> DEFINE T == Requests \cup Replies
  <2>3. /\ Requested \in Seq(T) /\ Replied \in Seq(T) /\ InFlight = Requested \o Replied
        /\ InFlight' = Requested' \o Replied' /\ Head(Replied) \in T
    BY <2>2, FlightIs, NextFlight, HeadTailProperties
  <2> HIDE DEF T
  <2>4. Flows(InFlight', InFlight, {}, {Len(Requested) + 1})
    BY <2>2, <2>3, FlowAppend
  <2>5. QED BY <2>1, <2>4, QuietKeeps
<1>3. CASE PollFindsDead \/ FnEnd
  <2>1. UNCHANGED <<batch, down, up, out, slots, op, ran, slips>>
    BY <1>3 DEF PollFindsDead, FnEnd, process, callers, history
  <2>2. InFlight' = InFlight
    BY <2>1 DEF InFlight
  <2>3. QED BY <2>1, <2>2, FlowNone, QuietKeeps
<1>4. QED BY <1>1, <1>2, <1>3 DEF Poll

\* A second callback of a restart is not put in slot First.
LEMMA SecondUnnamed ==
  ASSUME NEW s \in SlotBuffers, IsInjective(s.free["create"]), NEW seq \in Seq(Calls),
         \A i \in DOMAIN seq : Index(PutAll(s, seq)[i - 1], "create") = First
  PROVE  Len(seq) <= 1
<1>1. Len(seq) \in Nat /\ DOMAIN seq = 1 .. Len(seq)
  BY LenProperties
<1> SUFFICES ASSUME Len(seq) >= 2 PROVE FALSE
  BY <1>1
<1> DEFINE t == PutAll(s, seq)[1]
<1>2. PutAll(s, seq)[0] = s /\ t = Put(s, "create", Restore(seq[1]))
  <2>1. 1 \in 1 .. Len(seq)
    BY <1>1
  <2>2. QED BY <2>1, PutAllIs
<1>3. Index(s, "create") = First /\ Index(t, "create") = First
  <2>1. 1 \in DOMAIN seq /\ 2 \in DOMAIN seq /\ 1 - 1 = 0 /\ 2 - 1 = 1
    BY <1>1
  <2>2. QED BY <1>2, <2>1
<1> HIDE DEF t
<1>4. Restore(seq[1]) \in Callbacks /\ NoCall \in Callbacks /\ "create" \in Buffers
  BY <1>1 DEF Callbacks, Buffers
<1>5. IsPut(s, "create", Restore(seq[1]), First, t)
  BY <1>2, <1>3, <1>4, PutFacts
<1>6. t \in SlotBuffers /\ First \in DOMAIN t.cell["create"] /\ First \notin ToSet(t.free["create"])
  BY <1>5 DEF IsPut
<1> DEFINE u == Put(t, "create", NoCall)
<1>7. IsPut(t, "create", NoCall, First, u)
  BY <1>3, <1>4, <1>6, PutFacts
<1>8. QED BY <1>6, <1>7 DEF IsPut

LEMMA MessagesRestart ==
  ASSUME Typed, Typed', Messages, Restart
  PROVE  Messages'
<1>1. PICK seq : Restarts(seq)
  BY RestartCases
<1>2. /\ seq \in Seq(Calls) /\ slots \in SlotBuffers /\ slots' \in SlotBuffers
      /\ Len(seq) \in Nat /\ Len(seq) \in 0 .. Len(seq) /\ DOMAIN seq = 1 .. Len(seq)
      /\ \A i \in 1 .. Len(seq) : seq[i] \in Calls
  BY <1>1, LenProperties DEF Restarts, Typed
<1> DEFINE T == Requests \cup Replies
           N == Restores(seq)
           F == InFlight'
           new == Len(down) + 1 .. Len(down) + Len(N)
<1>3. /\ slots' = PutAll(slots, seq)[Len(seq)] /\ down' = down \o N /\ up' = up
      /\ UNCHANGED <<op, ran>> /\ slips \subseteq slips'
      /\ batch' = <<>> /\ out' = <<>>
      /\ \A i \in DOMAIN seq : Index(PutAll(slots, seq)[i - 1], "create") # First => "unnamed" \in slips'
  BY <1>1 DEF Restarts, Ends, callers
<1>4. /\ N \in Seq(T) /\ Len(N) = Len(seq)
      /\ \A i \in 1 .. Len(seq) : N[i] = Message("create", Restore(seq[i]), seq[i], First)
  <2>1. N \in Seq(Asks) /\ Asks \subseteq T
    BY <1>2, RestoresType DEF Requests
  <2>2. QED BY <1>2, <2>1, RestoresType
<1>5. batch \in Seq(T) /\ down \in Seq(T) /\ up \in Seq(T) /\ out \in Seq(T) /\ Len(down) \in Nat
  <2>1. /\ batch \in Seq(Requests) /\ down \in Seq(Requests)
        /\ up \in Seq(Replies) /\ out \in Seq(Replies)
    BY DEF Typed
  <2>2. QED BY <2>1, LenProperties
<1> HIDE DEF T, N
<1>6. InFlight = (batch \o down) \o (up \o out) /\ F = (down \o N) \o up
  <2>1. F = Requested' \o Replied' /\ InFlight = (batch \o down) \o (up \o out)
    BY FlightIs, NextFlight DEF Requested, Replied
  <2>2. Requested' = down \o N /\ Replied' = up
    <3>1. Requested' = <<>> \o (down \o N) /\ Replied' = up \o <<>>
      BY <1>3 DEF Requested, Replied
    <3>2. down \o N \in Seq(T)
      BY <1>4, <1>5, ConcatElements
    <3>3. QED BY <1>5, <3>1, <3>2, ConcatEmptySeq
  <2>3. QED BY <2>1, <2>2
<1>7. Flows(F, InFlight, new, {})
  BY <1>4, <1>5, <1>6, FlowSend
<1>8. ASSUME NEW k \in new
      PROVE  /\ F[k].type = "create" /\ F[k].call \notin Calls \cup {NoCall} /\ F[k].slot = First
             /\ F[k].call = Restore(seq[k - Len(down)]) /\ k - Len(down) \in 1 .. Len(seq)
  <2>1. k - Len(down) \in 1 .. Len(N) /\ Len(down) + (k - Len(down)) = k
    BY <1>2, <1>4, <1>5
  <2>2. F[k] = N[k - Len(down)]
    <3>1. down \in Seq(T) /\ N \in Seq(T) /\ up \in Seq(T)
      BY <1>4, <1>5
    <3>2. \A i \in 1 .. Len(N) : ((down \o N) \o up)[Len(down) + i] = N[i]
      BY ONLY <3>1, SentElements
    <3>3. QED BY <1>6, <2>1, <3>2
  <2>3. F[k] = Message("create", Restore(seq[k - Len(down)]), seq[k - Len(down)], First)
    BY <1>4, <2>1, <2>2
  <2>4. Restore(seq[k - Len(down)]) \notin Calls \cup {NoCall}
    BY <1>2, <1>4, <2>1, CallsAssumption
  <2>5. QED BY <1>4, <2>1, <2>3, <2>4 DEF Message
<1>9. IsPutAll(slots, seq, Len(seq))
  BY <1>2, PutAllFacts
<1>10. /\ \A b \in Buffers : DOMAIN slots.cell[b] \subseteq DOMAIN slots'.cell[b]
       /\ \A b \in Buffers \ {"create"} : slots'.cell[b] = slots.cell[b] /\ slots'.free[b] = slots.free[b]
  BY <1>3, <1>9 DEF IsPutAll
<1>11. Fine(slots, InFlight) /\ Single(InFlight) /\ Held(slots, InFlight)
  BY DEF Messages
<1> HIDE DEF F, new
<1>12. Fine(slots, InFlight)'
  <2>1. CallsStay(InFlight)
    BY <1>3 DEF CallsStay
  <2>2. ASSUME NEW k \in DOMAIN F \cap new
        PROVE  FineMessage(slots, InFlight[k])'
    <3>1. /\ F[k].type = "create" /\ F[k].call \notin Calls \cup {NoCall} /\ F[k].slot = First
          /\ First \in DOMAIN slots'.cell["create"]
      BY <1>2, <1>8 DEF SlotBuffers, Buffers
    <3>2. QED BY <3>1 DEF F, FineMessage
  <2>3. QED BY <1>3, <1>7, <1>10, <1>11, <2>1, <2>2, FineFlows DEF F
<1>13. Single(InFlight)'
  <2>1. Single(F)
    BY <1>7, <1>8, <1>11, SingleFlows
  <2>2. QED BY <2>1 DEF F, Single
<1>14. ASSUME NEW b \in Buffers, ~Confused(b)'
       PROVE  HeldIn(slots, b, InFlight)'
  <2> DEFINE t == slots'
  <2>1. HeldIn(slots, b, InFlight)
    BY <1>3, <1>11, <1>14, ConfusedGrows DEF Held
  <2>2. HeldIn(t, b, F)
    <3>1. CASE b # "create"
      <4>1. t.cell[b] = slots.cell[b] /\ t.free[b] = slots.free[b]
        BY <1>10, <3>1
      <4>2. \A k \in DOMAIN F \cap new : F[k].type # b
        BY <1>8, <3>1
      <4> HIDE DEF t
      <4>3. QED BY <1>7, <2>1, <4>1, <4>2, HeldFlows
    <3>2. CASE b = "create"
      <4>1. \A i \in DOMAIN seq : Index(PutAll(slots, seq)[i - 1], "create") = First
        BY <1>3, <1>14, <3>2 DEF Confused
      <4>2. Len(seq) <= 1
        BY <1>2, <2>1, <3>2, <4>1, SecondUnnamed DEF HeldIn
      <4>3. CASE Len(seq) = 0
        <5>1. t = slots
          BY <1>2, <1>3, <4>3, PutAllIs
        <5>2. new = {}
          BY <1>4, <1>5, <4>3 DEF new
        <5> HIDE DEF t
        <5>3. QED BY <1>7, <2>1, <5>1, <5>2, HeldFlows
      <4>4. CASE Len(seq) = 1
        <5>1. 1 \in DOMAIN seq /\ 1 \in 1 .. Len(seq) /\ 1 - 1 = 0
          BY <1>2, <4>4
        <5>2. PutAll(slots, seq)[0] = slots /\ PutAll(slots, seq)[1] = Put(slots, "create", Restore(seq[1]))
          BY <1>2, <5>1, PutAllIs
        <5>3. t = Put(slots, b, Restore(seq[1])) /\ First = Index(slots, b)
          BY <1>3, <3>2, <4>1, <4>4, <5>1, <5>2
        <5>4. Restore(seq[1]) \in Callbacks
          BY <1>2, <5>1 DEF Callbacks
        <5>5. new = {Len(down) + 1} /\ Len(down) + 1 - Len(down) = 1
          BY <1>4, <1>5, <4>4 DEF new
        <5>6. \A k \in DOMAIN F \cap new : F[k].slot = First /\ F[k].call = Restore(seq[1])
          BY <1>8, <5>5
        <5>7. \A k, l \in DOMAIN F \cap new : k = l
          BY <5>5
        <5>8. \A i \in DOMAIN InFlight : InFlight[i].type = b => InFlight[i].slot \in DOMAIN slots.cell[b]
          BY <1>11 DEF Fine, FineMessage
        <5> HIDE DEF t
        <5>9. QED BY <1>2, <1>7, <2>1, <5>3, <5>4, <5>6, <5>7, <5>8, HeldPut
      <4>5. QED BY <1>2, <4>2, <4>3, <4>4
    <3>3. QED BY <3>1, <3>2
  <2>3. QED BY <2>2 DEF F, t, HeldIn
<1>15. QED BY <1>12, <1>13, <1>14 DEF Messages, Held

\* Every request names a slot that waits for it, in every buffer that is not confused.
LEMMA MessagesStep ==
  ASSUME Typed, Typed', Known, Phased, Messages, [Next]_vars
  PROVE  Messages'
<1>1. CASE Call
  BY <1>1, MessagesCalls
<1>2. CASE Process
  BY <1>2, MessagesProcess
<1>3. CASE Poll
  BY <1>3, MessagesPoll
<1>4. CASE Die
  <2>1. /\ UNCHANGED <<slots, op, ran, slips, down, up>> /\ Ends
    BY <1>4 DEF Die, clientSide, callers
  <2>2. QED BY <2>1, EndsFlow, QuietKeeps
<1>5. CASE Restart
  BY <1>5, MessagesRestart
\* No message moves.
<1>6. ASSUME UNCHANGED <<slots, op, ran, batch, down, up, out>>, slips \subseteq slips'
      PROVE  Messages'
  <2>1. InFlight' = InFlight
    BY <1>6 DEF InFlight
  <2>2. QED BY <1>6, <2>1, FlowNone, QuietKeeps
<1>7. ASSUME NEW c \in Calls, Wait(c)
      PROVE  Messages'
  <2>1. PICK where \in {"asleep", "returned", "timedout"} : Waits(c, where)
    BY <1>7, WaitCases
  <2>2. QED BY <1>6, <2>1 DEF Waits, process, history
<1>8. CASE UNCHANGED vars
  BY <1>6, <1>8 DEF vars
<1>9. QED BY <1>1, <1>2, <1>3, <1>4, <1>5, <1>7, <1>8 DEF Next

-----------------------------------------------------------------------------
(* The processing order.                                                   *)

\* It is made again whenever the devices or the connections change.
LEMMA WiredStep ==
  ASSUME Typed, Typed', Wired, [Next]_vars
  PROVE  Wired'
<1>1. IsFiniteSet(devs')
  BY FS_Subset, CallsAssumption DEF Typed
<1>2. ASSUME order' \in Orders(devs', conns')
      PROVE  Wired'
  <2> DEFINE ds == devs'
             cs == conns'
             o == order'
  <2> HIDE DEF ds, cs, o
  <2>1. InOrder(ds, cs, o, ds)
    BY <1>1, <1>2, OrdersAreOrders DEF ds, cs, o
  <2>2. QED BY <2>1 DEF Wired, InOrder, ReadersFirst, ds, cs, o
<1>3. ASSUME UNCHANGED wiring
      PROVE  Wired'
  BY <1>3 DEF Wired, wiring
<1>4. ASSUME Ends
      PROVE  Wired'
  <2>1. devs' = {} /\ conns' = {} /\ order' = <<>>
    BY <1>4 DEF Ends
  <2>2. InOrder({}, {}, <<>>, {})
    BY DEF InOrder, ReadersFirst, ToSet, IsInjective
  <2>3. QED BY <2>1, <2>2 DEF Wired, InOrder, ReadersFirst
<1>5. CASE Process
  <2>1. CASE HandleCreate
    <3>1. order' \in Orders(devs', conns') \/ UNCHANGED wiring
      BY <2>1 DEF HandleCreate
    <3>2. QED BY <1>2, <1>3, <3>1
  <2>2. CASE HandleConnect \/ HandleDisconnect
    <3>1. order' \in Orders(devs', conns')
      BY <2>2 DEF HandleConnect, HandleDisconnect, HandleWiring
    <3>2. QED BY <1>2, <3>1
  <2>3. CASE Receive \/ HandleQuery \/ HandleSilently \/ HandleThrows \/ SendOut
    <3>1. UNCHANGED wiring
      BY <2>3 DEF Receive, HandleQuery, HandleSilently, HandleThrows, SendOut
    <3>2. QED BY <1>3, <3>1
  <2>4. QED BY <1>5, <2>1, <2>2, <2>3 DEF Process
<1>6. CASE Die \/ Restart
  BY <1>4, <1>6 DEF Die, Restart
<1>7. CASE Call
  <2>1. UNCHANGED wiring
    BY <1>7, CallCases DEF Begins, Wires, Erases, process
  <2>2. QED BY <1>3, <2>1
<1>8. CASE Poll
  <2>1. UNCHANGED wiring
    BY <1>8 DEF Poll, PollReply, PollThrows, PollFindsDead, FnEnd, process
  <2>2. QED BY <1>3, <2>1
<1>9. ASSUME NEW c \in Calls, Wait(c)
      PROVE  Wired'
  <2>1. PICK where \in {"asleep", "returned", "timedout"} : Waits(c, where)
    BY <1>9, WaitCases
  <2>2. UNCHANGED wiring
    BY <2>1 DEF Waits, process
  <2>3. QED BY <1>3, <2>2
<1>10. CASE UNCHANGED vars
  BY <1>3, <1>10 DEF vars, wiring
<1>11. QED BY <1>5, <1>6, <1>7, <1>8, <1>9, <1>10 DEF Next

-----------------------------------------------------------------------------
(* The callers.                                                            *)

Callers == Known /\ Phased /\ OwnAnswer /\ FrameIsThere

\* No call begins or ends, and none is run.
LEMMA CallersStay ==
  ASSUME Callers, UNCHANGED <<op, phase, ran, full>>, fn' \in {fn, NoCall},
         slips \subseteq slips', Dead' => Dead,
         \A b \in Buffers : \A i \in DOMAIN slots'.cell[b] : slots'.cell[b][i] \in Calls =>
           i \in DOMAIN slots.cell[b] /\ slots.cell[b][i] = slots'.cell[b][i]
  PROVE  Callers'
<1>1. Known'
  BY DEF Callers, Known, Fits
<1>2. Phased'
  BY DEF Callers, Phased
<1>3. OwnAnswer'
  <2>1. \A c \in Calls : Confused(Target(c)) => Confused(Target(c))'
    BY DEF Confused, Target
  <2>2. QED BY <2>1 DEF Callers, OwnAnswer
<1>4. FrameIsThere'
  BY DEF Callers, FrameIsThere, Inside
<1>5. QED BY <1>1, <1>2, <1>3, <1>4 DEF Callers

\* A callback is put in a slot: that of a call, in a buffer where it fits.
LEMMA KnownAsk ==
  ASSUME Known, NEW s, s.cell = slots.cell, NEW type \in Buffers, NEW callback, NEW dev, NEW slot, NEW m,
         IsAsk(s, type, callback, dev, slot, m),
         \A c \in Calls : op'[c] = op[c] \/ op[c] = "none",
         callback \in Calls => Fits(callback, type)'
  PROVE  Known'
<1> SUFFICES ASSUME NEW b \in Buffers, NEW i \in DOMAIN slots'.cell[b], NEW c \in Calls, c = slots'.cell[b][i]
             PROVE  Fits(c, b)'
  BY DEF Known
<1>1. IsPut(s, type, callback, slot, slots')
  BY DEF IsAsk
<1>2. CASE b = type /\ i = slot
  <2>1. c = callback
    BY <1>1, <1>2 DEF IsPut
  <2>2. QED BY <1>2, <2>1
<1>3. CASE ~(b = type /\ i = slot)
  <2>1. i \in DOMAIN slots.cell[b] /\ c = slots.cell[b][i]
    BY <1>1, <1>3 DEF IsPut
  <2>2. Fits(c, b)
    BY <2>1 DEF Known
  <2>3. op[c] # "none"
    BY <2>2 DEF Fits, Buffers
  <2>4. QED BY <2>2, <2>3 DEF Fits
<1>4. QED BY <1>2, <1>3

LEMMA CallersCalls ==
  ASSUME Typed, Callers, ~Dead, Call
  PROVE  Callers'
<1>1. slots \in SlotBuffers /\ op \in [Calls -> {"none", "create", "load", "ask", "duplicate"}]
      /\ phase \in [Calls -> {"none", "async", "first", "asleep", "returned", "timedout"}]
      /\ ran \in [Calls -> Seq(Callbacks)] /\ fn \in Calls \cup {NoCall}
  BY DEF Typed
<1>2. ASSUME NEW c \in Calls, NEW d \in Calls, NEW kind \in Buffers \cup {"duplicate"}, NEW type \in Buffers,
             Begins(c, kind, type, d)
      PROVE  Callers'
  <2>1. c \in Callbacks
    BY DEF Callbacks
  <2>2. PICK slot \in Nat, m \in Asks : IsAsk(slots, type, c, d, slot, m)
    BY <1>1, <1>2, <2>1, AskFacts DEF Begins
  <2>3. PICK where \in {"async", "first"} :
          phase' = [phase EXCEPT ![c] = where] /\ (kind = "duplicate" => where = "async")
    BY <1>2 DEF Begins
  <2>4. /\ phase[c] = "none" /\ op' = [op EXCEPT ![c] = kind] /\ UNCHANGED <<ran, full, fn>>
        /\ slips \subseteq slips' /\ slips' \subseteq slips \cup {"unnamed"}
    BY <1>2, <2>2 DEF Begins, history, IsAsk
  <2>5. op[c] = "none" /\ ran[c] = <<>>
    BY <2>4 DEF Callers, Phased
  <2>6. Known'
    <3>1. \A e \in Calls : op'[e] = op[e] \/ op[e] = "none"
      BY <1>1, <2>4, <2>5
    <3>2. Fits(c, type)'
      BY <1>1, <1>2, <2>4 DEF Fits, Begins
    <3>3. Known
      BY DEF Callers
    <3>4. QED BY <2>2, <3>1, <3>2, <3>3, KnownAsk
  <2>7. Phased'
    <3>1. kind # "none"
      BY DEF Buffers
    <3>2. ASSUME NEW e \in Calls
          PROVE  /\ phase'[e] = "none" <=> op'[e] = "none"
                 /\ op'[e] = "none" => ran'[e] = <<>>
                 /\ op'[e] = "duplicate" => phase'[e] = "async"
                 /\ phase'[e] = "returned" => e \in full'
                 /\ e \in full' => ran'[e] # <<>>
      <4>1. CASE e = c
        BY <1>1, <2>3, <2>4, <2>5, <3>1, <4>1 DEF Callers, Phased
      <4>2. CASE e # c
        <5>1. phase'[e] = phase[e] /\ op'[e] = op[e]
          BY <1>1, <2>3, <2>4, <4>2
        <5>2. QED BY <2>4, <5>1 DEF Callers, Phased
      <4>3. QED BY <4>1, <4>2
    <3>3. QED BY <3>2 DEF Phased
  <2>8. OwnAnswer'
    <3> SUFFICES ASSUME NEW e \in Calls, ~Confused(Target(e))' PROVE ran'[e] \in {<<>>, <<e>>}
      BY DEF OwnAnswer
    <3>1. CASE e = c
      BY <2>4, <2>5, <3>1
    <3>2. CASE e # c
      <4>1. op'[e] = op[e]
        BY <1>1, <2>4, <3>2
      <4>2. ~Confused(Target(e))
        BY <2>4, <4>1 DEF Confused, Target
      <4>3. QED BY <2>4, <4>2 DEF Callers, OwnAnswer
    <3>3. QED BY <3>1, <3>2
  <2>9. FrameIsThere'
    <3>1. "early" \in slips' <=> "early" \in slips
      BY <2>4
    <3>2. ~Dead'
      BY <2>4 DEF Dead
    <3>3. ASSUME fn # NoCall, "early" \notin slips PROVE Inside(fn)'
      <4>1. Inside(fn) /\ fn \in Calls
        BY <1>1, <3>3 DEF Callers, FrameIsThere
      <4>2. fn # c
        BY <2>4, <4>1 DEF Inside
      <4>3. phase'[fn] = phase[fn]
        BY <1>1, <2>3, <4>1, <4>2
      <4>4. QED BY <2>4, <4>1, <4>3 DEF Inside
    <3>4. QED BY <2>4, <3>1, <3>2, <3>3 DEF FrameIsThere
  <2>10. QED BY <2>6, <2>7, <2>8, <2>9 DEF Callers
<1>3. ASSUME UNCHANGED <<slots, op, phase, ran, full, fn, slips>>
      PROVE  Callers'
  BY <1>3, CallersStay DEF Dead
<1>4. ASSUME NEW p, NEW type, Wires(type, p) PROVE Callers'
  BY <1>3, <1>4 DEF Wires, callers
<1>5. ASSUME NEW d, Erases(d) PROVE Callers'
  BY <1>3, <1>5 DEF Erases, callers, history
<1>6. QED BY <1>2, <1>4, <1>5, CallCases

\* A callback runs with the reply to its call, or its buffer is confused.
LEMMA CallersRun ==
  ASSUME Typed, Callers, ~Dead, NEW msg, NEW s, NEW callback \in Calls, NEW G,
         IsReply(msg, s, callback, G), op[callback] # "duplicate" \/ msg.type # "ask",
         slots' = s, UNCHANGED <<op, phase>>,
         ran' = [ran EXCEPT ![callback] = Append(@, msg.call)],
         full' \in {full, full \cup {callback}},
         slips \subseteq slips', ~Dead',
         "early" \in slips' => "early" \in slips,
         fn' = fn \/ (fn' = callback /\ Inside(callback))
  PROVE  Callers'
<1>1. ran \in [Calls -> Seq(Callbacks)] /\ slots'.cell = slots.cell /\ fn \in Calls \cup {NoCall}
  BY DEF Typed, IsReply
<1>2. Known'
  BY <1>1 DEF Callers, Known, Fits
<1>3. /\ ran'[callback] = Append(ran[callback], msg.call) /\ ran'[callback] # <<>>
      /\ \A c \in Calls \ {callback} : ran'[c] = ran[c]
  <2>1. /\ ran'[callback] = Append(ran[callback], msg.call)
        /\ \A c \in Calls \ {callback} : ran'[c] = ran[c]
    BY <1>1
  <2>2. msg.call \in Callbacks /\ ran[callback] \in Seq(Callbacks)
    BY <1>1 DEF IsReply
  <2>3. Append(ran[callback], msg.call) # <<>>
    BY <2>2, AppendProperties, EmptySeq, LenProperties
  <2>4. QED BY <2>1, <2>3
<1>4. op[callback] # "none"
  BY DEF IsReply, Fits, Buffers
<1>5. Phased'
  <2> SUFFICES ASSUME NEW c \in Calls
        PROVE  /\ phase[c] = "none" <=> op[c] = "none"
               /\ op[c] = "none" => ran'[c] = <<>>
               /\ op[c] = "duplicate" => phase[c] = "async"
               /\ phase[c] = "returned" => c \in full'
               /\ c \in full' => ran'[c] # <<>>
    BY DEF Phased
  <2>1. QED BY <1>3, <1>4 DEF Callers, Phased
<1>6. OwnAnswer'
  <2> SUFFICES ASSUME NEW c \in Calls, ~Confused(Target(c))' PROVE ran'[c] \in {<<>>, <<c>>}
    BY DEF OwnAnswer
  <2>1. ~Confused(Target(c))
    BY DEF Confused, Target
  <2>2. CASE c = callback
    <3>1. callback = msg.call /\ ran[callback] = <<>>
      BY <2>1, <2>2, RunsOwn
    <3>2. Append(<<>>, callback) = <<callback>>
      OBVIOUS
    <3>3. QED BY <1>3, <2>2, <3>1, <3>2
  <2>3. CASE c # callback
    BY <1>3, <2>1, <2>3 DEF Callers, OwnAnswer
  <2>4. QED BY <2>2, <2>3
<1>7. FrameIsThere'
  BY DEF Callers, FrameIsThere, Inside
<1>8. QED BY <1>2, <1>5, <1>6, <1>7 DEF Callers

\* A frame that is gone: its call timed out, or its buffer is confused.
LEMMA CallersCrash ==
  ASSUME Typed, Callers, NEW msg, NEW s, NEW callback \in Calls, NEW G,
         IsReply(msg, s, callback, G), phase[callback] # "async", ~Inside(callback)
  PROVE  phase[callback] = "timedout" \/ {"unnamed", "uncalled"} \cap slips # {}
<1>1. phase[callback] \in {"none", "async", "first", "asleep", "returned", "timedout"}
  BY DEF Typed
<1>2. op[callback] # "none" /\ op[callback] # "duplicate"
  BY DEF IsReply, Fits, Buffers, Callers, Phased
<1>3. phase[callback] # "none"
  BY <1>2 DEF Callers, Phased
<1>4. CASE phase[callback] = "returned"
  <2>1. ran[callback] # <<>>
    BY <1>4 DEF Callers, Phased
  <2>2. Confused(Target(callback))
    BY <1>2, <2>1, RunsOwn
  <2>3. QED BY <2>2 DEF Confused
<1>5. QED BY <1>1, <1>3, <1>4 DEF Inside

LEMMA CallersReply ==
  ASSUME Typed, Callers, Messages, ~Dead, PollReply
  PROVE  Callers'
<1>1. PICK msg, s, callback :
         /\ Receives(msg, s, callback)
         /\ \/ ReplyWakes(msg, s, callback) \/ ReplyCrashes(msg, s, callback)
            \/ ReplyCopies(msg, s, callback) \/ ReplyRuns(msg, s, callback)
            \/ ReplyRestores(msg, s, callback) \/ ReplyIgnored(msg, s, callback)
  BY PollCases
<1>2. PICK G : IsReply(msg, s, callback, G)
  BY <1>1, ReplyFacts DEF Callers
<1>3. /\ UNCHANGED <<op, phase>> /\ fn = NoCall /\ s.cell = slots.cell /\ s \in SlotBuffers
      /\ callback \in Callbacks
  BY <1>1, <1>2 DEF Receives, IsReply
\* The slots have no callback that they had not.
<1>4. ASSUME slots' = s
      PROVE  \A b \in Buffers : \A i \in DOMAIN slots'.cell[b] : slots'.cell[b][i] \in Calls =>
               i \in DOMAIN slots.cell[b] /\ slots.cell[b][i] = slots'.cell[b][i]
  BY <1>3, <1>4
<1>5. CASE ReplyWakes(msg, s, callback)
  <2>1. callback \in Calls /\ op[callback] # "duplicate"
    BY <1>5 DEF ReplyWakes, Inside, Callers, Phased
  <2>2. QED BY <1>2, <1>3, <1>5, <2>1, CallersRun DEF ReplyWakes, Dead
<1>6. CASE ReplyCrashes(msg, s, callback)
  <2>1. phase[callback] = "timedout" \/ {"unnamed", "uncalled"} \cap slips # {}
    BY <1>2, <1>6, CallersCrash DEF ReplyCrashes
  <2>2. /\ UNCHANGED <<op, phase, ran, full, fn>> /\ slips' = slips \cup {"dead"} /\ slots'.cell = slots.cell
        /\ callback \in Calls
    BY <1>3, <1>6 DEF ReplyCrashes
  <2>3. Known' /\ Phased'
    BY <2>2 DEF Callers, Known, Fits, Phased
  <2>4. OwnAnswer'
    BY <2>2 DEF Callers, OwnAnswer, Confused, Target
  <2>5. FrameIsThere'
    BY <1>3, <2>1, <2>2 DEF Callers, FrameIsThere, Inside
  <2>6. QED BY <2>3, <2>4, <2>5 DEF Callers
\* A new request, of a call that has begun or of none.
<1>7. ASSUME NEW type \in Buffers, NEW c \in Callbacks, NEW d \in Calls, Ask(s, type, c, d),
             c \in Calls => Fits(c, type), UNCHANGED <<ran, full, fn>>
      PROVE  Callers'
  <2>1. PICK slot \in Nat, m \in Asks : IsAsk(s, type, c, d, slot, m)
    BY <1>3, <1>7, AskFacts
  <2>2. slips \subseteq slips' /\ slips' \subseteq slips \cup {"unnamed"}
    BY <2>1 DEF IsAsk
  <2>3. Known'
    BY <1>3, <1>7, <2>1, KnownAsk DEF Callers, Fits
  <2>4. Phased'
    BY <1>3, <1>7 DEF Callers, Phased
  <2>5. OwnAnswer'
    <3>1. \A e \in Calls : Confused(Target(e)) => Confused(Target(e))'
      BY <1>3, <2>2 DEF Confused, Target
    <3>2. QED BY <1>7, <3>1 DEF Callers, OwnAnswer
  <2>6. FrameIsThere'
    BY <1>3, <1>7, <2>2 DEF Callers, FrameIsThere, Dead
  <2>7. QED BY <2>3, <2>4, <2>5, <2>6 DEF Callers
<1>8. CASE ReplyCopies(msg, s, callback)
  BY <1>3, <1>7, <1>8 DEF ReplyCopies, Buffers, Fits
<1>9. CASE ReplyRuns(msg, s, callback)
  <2>1. slips \subseteq slips' /\ slips' \subseteq slips \cup {"uncalled"}
    BY <1>9 DEF ReplyRuns
  <2>2. callback \in Calls /\ ~Dead'
    BY <1>9, <2>1 DEF ReplyRuns, Dead
  <2>3. QED BY <1>2, <1>3, <1>9, <2>1, <2>2, CallersRun DEF ReplyRuns
<1>10. CASE ReplyRestores(msg, s, callback)
  <2>1. Ignored \in Callbacks \ Calls /\ "load" \in Buffers
    BY CallsAssumption DEF Callbacks, Buffers
  <2>2. QED BY <1>7, <1>10, <2>1 DEF ReplyRestores
<1>11. CASE ReplyIgnored(msg, s, callback)
  BY <1>3, <1>4, <1>11, CallersStay DEF ReplyIgnored, Dead
<1>12. QED BY <1>1, <1>5, <1>6, <1>8, <1>9, <1>10, <1>11

LEMMA CallersStep ==
  ASSUME Typed, Callers, Messages, [Next]_vars
  PROVE  Callers'
\* The callers notice nothing.
<1>1. ASSUME UNCHANGED <<slots, op, phase, ran, full>>, fn' \in {fn, NoCall},
             slips \subseteq slips', Dead' => Dead
      PROVE  Callers'
  BY <1>1, CallersStay
<1>2. CASE ~Dead /\ Call
  BY <1>2, CallersCalls
<1>3. CASE Process
  <2>1. UNCHANGED <<slots, op, phase, ran, full, fn>> /\ slips \subseteq slips' /\ slips' \subseteq slips \cup {"dropped"}
    BY <1>3 DEF Process, Receive, HandleCreate, HandleQuery, HandleSilently, HandleConnect, HandleDisconnect,
           HandleWiring, HandleThrows, SendOut, clientSide, callers, history, Slip
  <2>2. QED BY <1>1, <2>1 DEF Dead
<1>4. CASE ~Dead /\ Poll
  <2>1. CASE PollReply
    BY <1>4, <2>1, CallersReply
  <2>2. CASE PollThrows \/ PollFindsDead \/ FnEnd
    BY <1>1, <2>2 DEF PollThrows, PollFindsDead, FnEnd, callers, history, Dead
  <2>3. QED BY <1>4, <2>1, <2>2 DEF Poll
<1>5. CASE Die
  BY <1>1, <1>5 DEF Die, clientSide, callers, Dead
<1>6. CASE Restart
  <2>1. PICK seq : Restarts(seq)
    BY <1>6, RestartCases
  <2>2. seq \in Seq(Calls) /\ Len(seq) \in 0 .. Len(seq) /\ slots \in SlotBuffers
    BY <2>1, LenProperties DEF Restarts, Typed
  <2>3. IsPutAll(slots, seq, Len(seq))
    BY <2>2, PutAllFacts
  <2>4. \A b \in Buffers : \A i \in DOMAIN slots'.cell[b] : slots'.cell[b][i] \in Calls =>
          i \in DOMAIN slots.cell[b] /\ slots.cell[b][i] = slots'.cell[b][i]
    BY <2>1, <2>3 DEF Restarts, IsPutAll
  <2>5. UNCHANGED <<op, phase, ran, full, fn>> /\ slips \subseteq slips' /\ (Dead' => Dead)
    BY <2>1 DEF Restarts, callers, Dead
  <2>6. QED BY <2>4, <2>5, CallersStay
<1>7. ASSUME NEW c \in Calls, Wait(c), ~Dead
      PROVE  Callers'
  <2>1. PICK where \in {"asleep", "returned", "timedout"} : Waits(c, where)
    BY <1>7, WaitCases
  <2>2. /\ UNCHANGED <<slots, op, ran, full, fn>> /\ Inside(c) /\ phase' = [phase EXCEPT ![c] = where]
        /\ slips' \in {slips, slips \cup {"early"}}
        /\ where = "returned" => c \in full
        /\ fn = c => "early" \in slips' \/ where = "asleep"
    BY <2>1 DEF Waits, history
  <2>3. phase \in [Calls -> {"none", "async", "first", "asleep", "returned", "timedout"}] /\ fn \in Calls \cup {NoCall}
    BY DEF Typed
  <2>4. Known'
    BY <2>2 DEF Callers, Known, Fits
  <2>5. Phased'
    BY <2>2, <2>3 DEF Callers, Phased, Inside
  <2>6. OwnAnswer'
    BY <2>2 DEF Callers, OwnAnswer, Confused, Target
  <2>7. FrameIsThere'
    <3>1. ~Dead'
      BY <1>7, <2>2 DEF Dead
    <3>2. ASSUME fn # NoCall, "early" \notin slips' PROVE Inside(fn)'
      <4>1. Inside(fn) /\ fn \in Calls
        BY <2>2, <2>3, <3>2 DEF Callers, FrameIsThere
      <4>2. phase'[fn] \in {"first", "asleep"}
        BY <2>2, <2>3, <3>2, <4>1 DEF Inside
      <4>3. QED BY <2>2, <4>2 DEF Inside
    <3>3. QED BY <2>2, <3>1, <3>2 DEF FrameIsThere
  <2>8. QED BY <2>4, <2>5, <2>6, <2>7 DEF Callers
<1>8. CASE UNCHANGED vars
  BY <1>1, <1>8 DEF vars, Dead
<1>9. QED BY <1>2, <1>3, <1>4, <1>5, <1>6, <1>7, <1>8 DEF Next

-----------------------------------------------------------------------------
(* Every call has its message, its reply, or is lost.                      *)

LEMMA CallsOfConcat ==
  ASSUME NEW T, NEW s \in Seq(T), NEW t \in Seq(T)
  PROVE  CallsIn(s \o t) = CallsIn(s) \cup CallsIn(t)
<1> DEFINE st == s \o t
<1>1. /\ st \in Seq(T) /\ Len(st) = Len(s) + Len(t) /\ Len(s) \in Nat /\ Len(t) \in Nat
      /\ \A j \in 1 .. Len(s) + Len(t) : st[j] = IF j <= Len(s) THEN s[j] ELSE t[j - Len(s)]
  BY ConcatElements, LenProperties
<1>2. DOMAIN st = 1 .. Len(s) + Len(t) /\ DOMAIN s = 1 .. Len(s) /\ DOMAIN t = 1 .. Len(t)
  BY <1>1, LenProperties
<1> HIDE DEF st
<1>3. ASSUME NEW i \in DOMAIN st PROVE (\E j \in DOMAIN s : st[i] = s[j]) \/ (\E j \in DOMAIN t : st[i] = t[j])
  <2>1. CASE i <= Len(s)
    BY <1>1, <1>2, <2>1
  <2>2. CASE ~(i <= Len(s))
    <3>1. i - Len(s) \in DOMAIN t /\ st[i] = t[i - Len(s)]
      BY <1>1, <1>2, <2>2
    <3>2. QED BY <3>1
  <2>3. QED BY <2>1, <2>2
<1>4. ASSUME NEW j \in DOMAIN s PROVE j \in DOMAIN st /\ st[j] = s[j]
  BY <1>1, <1>2
<1>5. ASSUME NEW j \in DOMAIN t PROVE j + Len(s) \in DOMAIN st /\ st[j + Len(s)] = t[j]
  BY <1>1, <1>2
<1>6. CallsIn(st) \subseteq CallsIn(s) \cup CallsIn(t)
  BY <1>3 DEF CallsIn
<1>7. CallsIn(s) \subseteq CallsIn(st)
  BY <1>4 DEF CallsIn
<1>8. CallsIn(t) \subseteq CallsIn(st)
  BY <1>5 DEF CallsIn
<1>9. QED BY <1>6, <1>7, <1>8 DEF st

LEMMA CallsOfOne ==
  ASSUME NEW T, NEW s \in Seq(T), NEW m \in T
  PROVE  /\ CallsIn(<<>>) = {} /\ CallsIn(<<m>>) = {m.call} \cap Calls
         /\ s # <<>> => CallsIn(s) = CallsIn(<<Head(s)>>) \cup CallsIn(Tail(s))
<1>1. CallsIn(<<>>) = {}
  BY DEF CallsIn
<1>2. CallsIn(<<m>>) = {m.call} \cap Calls
  BY DEF CallsIn
<1>5. ASSUME s # <<>> PROVE CallsIn(s) = CallsIn(<<Head(s)>>) \cup CallsIn(Tail(s))
  <2>1. s = <<Head(s)>> \o Tail(s) /\ <<Head(s)>> \in Seq(T) /\ Tail(s) \in Seq(T)
    BY <1>5, HeadThenTail, HeadTailProperties
  <2>2. QED BY <2>1, CallsOfConcat, ZenonT(40)
<1>6. QED BY <1>1, <1>2, <1>5

LEMMA CallsOfAppend ==
  /\ \A s \in Seq(Requests), m \in Requests :
       CallsIn(Append(s, m)) = CallsIn(s) \cup ({m.call} \cap Calls)
  /\ \A s \in Seq(Replies), m \in Replies :
       CallsIn(Append(s, m)) = CallsIn(s) \cup ({m.call} \cap Calls)
<1>1. ASSUME NEW T, NEW s \in Seq(T), NEW m \in T
      PROVE  CallsIn(Append(s, m)) = CallsIn(s) \cup ({m.call} \cap Calls)
  <2> DEFINE a == Append(s, m)
  <2>1. DOMAIN a = 1 .. Len(s) + 1 /\ DOMAIN s = 1 .. Len(s) /\ Len(s) \in Nat
        /\ (\A i \in DOMAIN s : a[i] = s[i]) /\ a[Len(s) + 1] = m
    BY AppendFacts, LenProperties
  <2> HIDE DEF a
  <2>2. \A i \in DOMAIN a : i \in DOMAIN s \/ i = Len(s) + 1
    BY <2>1
  <2>3. CallsIn(a) \subseteq CallsIn(s) \cup ({m.call} \cap Calls)
    BY <2>1, <2>2 DEF CallsIn
  <2>4. DOMAIN s \subseteq DOMAIN a /\ Len(s) + 1 \in DOMAIN a
    BY <2>1
  <2>5. CallsIn(s) \subseteq CallsIn(a)
    BY <2>1, <2>4 DEF CallsIn
  <2>6. {m.call} \cap Calls \subseteq CallsIn(a)
    BY <2>1, <2>4 DEF CallsIn
  <2>7. QED BY <2>3, <2>5, <2>6 DEF a
<1>2. QED BY <1>1

LEMMA CallsInFlight ==
  ASSUME Typed, Typed'
  PROVE  /\ CallsIn(InFlight) = CallsIn(Requested) \cup CallsIn(Replied)
         /\ CallsIn(InFlight') = CallsIn(Requested') \cup CallsIn(Replied')
         /\ CallsIn(Requested) = CallsIn(batch) \cup CallsIn(down)
         /\ CallsIn(Replied) = CallsIn(up) \cup CallsIn(out)
<1>1. CallsIn(InFlight) = CallsIn(Requested) \cup CallsIn(Replied)
  <2> DEFINE T == Requests \cup Replies
             R == Requested
             P == Replied
  <2>1. R \in Seq(T) /\ P \in Seq(T) /\ InFlight = R \o P
    BY FlightIs
  <2> HIDE DEF T, R, P
  <2>2. CallsIn(R \o P) = CallsIn(R) \cup CallsIn(P)
    BY <2>1, CallsOfConcat
  <2>3. QED BY <2>1, <2>2 DEF R, P
<1>2. CallsIn(InFlight') = CallsIn(Requested') \cup CallsIn(Replied')
  <2> DEFINE T == Requests \cup Replies
             R == Requested'
             P == Replied'
  <2>1. R \in Seq(T) /\ P \in Seq(T) /\ InFlight' = R \o P
    BY NextFlight
  <2> HIDE DEF T, R, P
  <2>2. CallsIn(R \o P) = CallsIn(R) \cup CallsIn(P)
    BY <2>1, CallsOfConcat
  <2>3. QED BY <2>1, <2>2 DEF R, P
<1>3. batch \in Seq(Requests) /\ down \in Seq(Requests) /\ up \in Seq(Replies) /\ out \in Seq(Replies)
  BY DEF Typed
<1>4. QED BY <1>1, <1>2, <1>3, CallsOfConcat DEF Requested, Replied

\* No call begins, and what becomes of a message is known.
LEMMA NoneForgotten ==
  ASSUME NothingForgotten, op' = op, slips \subseteq slips', lost \subseteq lost',
         \A c \in Calls : phase'[c] \in {"async", "first", "asleep"} => phase[c] \in {"async", "first", "asleep"},
         \A c \in Calls : ran[c] # <<>> => ran'[c] # <<>>,
         \A c \in CallsIn(InFlight) :
           c \in CallsIn(InFlight') \/ c \in lost' \/ ran'[c] # <<>> \/ Confused(Target(c))
  PROVE  NothingForgotten'
<1> SUFFICES ASSUME NEW c \in Calls, phase'[c] \in {"async", "first", "asleep"},
                    ~Confused(Target(c))', ~Dead'
             PROVE  ran'[c] # <<>> \/ c \in lost' \/ c \in CallsIn(InFlight')
  BY DEF NothingForgotten, CallsIn
<1>1. ~Confused(Target(c)) /\ ~Dead
  BY DEF Confused, Target, Dead
<1>2. ran[c] # <<>> \/ c \in lost \/ c \in CallsIn(InFlight)
  BY <1>1 DEF NothingForgotten
<1>3. QED BY <1>1, <1>2

LEMMA ForgottenProcess ==
  ASSUME Typed, Typed', NothingForgotten, Process
  PROVE  NothingForgotten'
<1>1. /\ UNCHANGED <<op, phase, ran>>
      /\ \/ ProcessMovesOn \/ ProcessDrops
         \/ \E m : ProcessCreates(m) \/ ProcessAnswers(m) \/ ProcessWires(m)
  BY ProcessCases
<1>2. Requested \in Seq(Requests) /\ Replied \in Seq(Replies)
  BY FlightIs
<1>3. ASSUME slips \subseteq slips', lost \subseteq lost',
             CallsIn(InFlight) \subseteq CallsIn(Requested') \cup CallsIn(Replied') \cup lost'
      PROVE  NothingForgotten'
  <2>1. \A c \in CallsIn(InFlight) : c \in CallsIn(InFlight') \/ c \in lost'
    BY <1>3, CallsInFlight
  <2>2. QED BY <1>1, <1>3, <2>1, NoneForgotten
<1>4. CASE ProcessMovesOn
  <2>1. CallsIn(InFlight) \subseteq CallsIn(Requested') \cup CallsIn(Replied') \cup lost'
    BY <1>4, CallsInFlight DEF ProcessMovesOn
  <2>2. QED BY <1>3, <1>4, <2>1 DEF ProcessMovesOn
<1>5. CASE ProcessDrops
  <2>1. CallsIn(InFlight) \subseteq CallsIn(Requested') \cup CallsIn(Replied') \cup lost'
    BY <1>5, CallsInFlight DEF ProcessDrops
  <2>2. QED BY <1>3, <1>5, <2>1 DEF ProcessDrops
\* The first request is taken.
<1>6. ASSUME NEW m, Takes(m)
      PROVE  /\ m \in Requests /\ CallsIn(Requested) = CallsIn(<<m>>) \cup CallsIn(Requested')
             /\ CallsIn(<<m>>) = {m.call} \cap Calls
             /\ Answers(m) => CallsIn(Replied') = CallsIn(Replied) \cup CallsIn(<<m>>)
  <2>1. Requested # <<>> /\ m = Head(Requested) /\ Requested' = Tail(Requested)
    BY <1>6 DEF Takes
  <2>2. m \in Requests
    BY <1>2, <2>1, HeadTailProperties
  <2>3. CallsIn(Requested) = CallsIn(<<m>>) \cup CallsIn(Requested') /\ CallsIn(<<m>>) = {m.call} \cap Calls
    BY <1>2, <2>1, <2>2, CallsOfOne
  <2>4. ASSUME NEW r \in Replies, Same(r, m), Replied' = Append(Replied, r)
        PROVE  CallsIn(Replied') = CallsIn(Replied) \cup CallsIn(<<m>>)
    <3>1. CallsIn(Replied') = CallsIn(Replied) \cup ({r.call} \cap Calls)
      <4>1. Replied \in Seq(Replies) /\ r \in Replies /\ Replied' = Append(Replied, r)
        BY <1>2, <2>4
      <4>2. QED BY ONLY <4>1, CallsOfAppend
    <3>2. r.call = m.call
      BY <2>4 DEF Same
    <3>3. QED BY <2>3, <2>4, <3>1, <3>2
  <2>5. QED BY <2>2, <2>3, <2>4 DEF Answers
<1>7. ASSUME NEW m, ProcessCreates(m)
      PROVE  NothingForgotten'
  <2>1. Takes(m) /\ Answers(m) /\ UNCHANGED <<lost, slips>>
    BY <1>7 DEF ProcessCreates
  <2>2. CallsIn(InFlight) \subseteq CallsIn(Requested') \cup CallsIn(Replied') \cup lost'
    BY <1>6, <2>1, CallsInFlight
  <2>3. QED BY <1>3, <2>1, <2>2
<1>8. ASSUME NEW m, ProcessAnswers(m)
      PROVE  NothingForgotten'
  <2>1. Takes(m) /\ UNCHANGED slips
    BY <1>8 DEF ProcessAnswers
  <2>2. \/ Answers(m) /\ UNCHANGED lost
        \/ Replied' = Replied /\ lost' = lost \cup CallsIn(<<m>>)
    BY <1>8 DEF ProcessAnswers
  <2>3. CallsIn(InFlight) \subseteq CallsIn(Requested') \cup CallsIn(Replied') \cup lost'
    BY <1>6, <2>1, <2>2, CallsInFlight
  <2>4. QED BY <1>3, <2>1, <2>2, <2>3
<1>9. ASSUME NEW m, ProcessWires(m)
      PROVE  NothingForgotten'
  <2>1. Takes(m) /\ Replied' = Replied /\ UNCHANGED <<lost, slips>> /\ m.call = NoCall
    BY <1>9 DEF ProcessWires, Wirings
  <2>2. CallsIn(<<m>>) = {}
    BY <1>6, <2>1, CallsAssumption
  <2>3. CallsIn(InFlight) \subseteq CallsIn(Requested') \cup CallsIn(Replied') \cup lost'
    BY <1>6, <2>1, <2>2, CallsInFlight
  <2>4. QED BY <1>3, <2>1, <2>3
<1>10. QED BY <1>1, <1>4, <1>5, <1>7, <1>8, <1>9

LEMMA ForgottenReply ==
  ASSUME Typed, Typed', Known, Messages, NothingForgotten, PollReply
  PROVE  NothingForgotten'
<1>1. PICK msg, s, callback :
         /\ Receives(msg, s, callback)
         /\ \/ ReplyWakes(msg, s, callback) \/ ReplyCrashes(msg, s, callback)
            \/ ReplyCopies(msg, s, callback) \/ ReplyRuns(msg, s, callback)
            \/ ReplyRestores(msg, s, callback) \/ ReplyIgnored(msg, s, callback)
  BY PollCases
<1>2. PICK G : IsReply(msg, s, callback, G)
  BY <1>1, ReplyFacts
<1>3. /\ UNCHANGED <<op, phase>> /\ batch' = batch /\ out' = out /\ up # <<>> /\ up' = Tail(up) /\ msg = Head(up)
  BY <1>1 DEF Receives, process
<1>4. /\ Requested \in Seq(Requests) /\ Replied \in Seq(Replies)
      /\ Replied # <<>> /\ Replied' = Tail(Replied) /\ Head(Replied) = msg
  <2>1. up \in Seq(Replies) /\ out \in Seq(Replies)
    BY DEF Typed
  <2>2. Head(up \o out) = Head(up)
    BY <1>3, <2>1, TailOfConcat
  <2>3. QED BY <1>3, <2>2, FlightIs, ReceivedMoves DEF Replied
<1>5. CallsIn(Replied) = ({msg.call} \cap Calls) \cup CallsIn(Replied')
  <2>1. msg \in Replies
    BY <1>2 DEF IsReply
  <2>2. QED BY <1>4, <2>1, CallsOfOne
<1>6. ASSUME NEW m \in Requests, down' = Append(down, m)
      PROVE  CallsIn(Requested') = CallsIn(Requested) \cup ({m.call} \cap Calls)
  <2>1. Requested' = Append(Requested, m)
    BY <1>3, <1>6, SentMoves
  <2>2. Requested \in Seq(Requests) /\ m \in Requests
    BY <1>4
  <2>3. QED BY ONLY <2>1, <2>2, CallsOfAppend
<1>7. down' = down => Requested' = Requested
  BY <1>3 DEF Requested
\* Unless its buffer is confused, the callback is the call that the reply is for.
<1>8. msg.call \in Calls /\ ~Confused(Target(msg.call)) => callback = msg.call
  BY <1>2 DEF IsReply, Fits, Target, Confused, Buffers
<1>9. ASSUME CallsIn(Requested) \subseteq CallsIn(Requested'), slips \subseteq slips', lost \subseteq lost',
             \A c \in Calls : ran[c] # <<>> => ran'[c] # <<>>,
             msg.call \in Calls => msg.call \in CallsIn(Requested') \/ ran'[msg.call] # <<>>
                                   \/ Confused(Target(msg.call))
      PROVE  NothingForgotten'
  <2>1. \A c \in CallsIn(InFlight) : c \in CallsIn(InFlight') \/ ran'[c] # <<>> \/ Confused(Target(c))
    BY <1>5, <1>9, CallsInFlight
  <2>2. QED BY <1>3, <1>9, <2>1, NoneForgotten
<1>10. ASSUME callback \in Calls, ran' = [ran EXCEPT ![callback] = Append(@, msg.call)]
       PROVE  ran'[callback] # <<>> /\ \A c \in Calls : ran[c] # <<>> => ran'[c] # <<>>
  <2>1. ran \in [Calls -> Seq(Callbacks)] /\ msg.call \in Callbacks
    BY <1>2 DEF Typed, IsReply
  <2>2. \A c \in Calls : ran'[c] = IF c = callback THEN Append(ran[callback], msg.call) ELSE ran[c]
    BY <1>10, <2>1
  <2>3. Append(ran[callback], msg.call) # <<>>
    <3>1. ran[callback] \in Seq(Callbacks)
      BY <1>10, <2>1
    <3>2. QED BY <2>1, <3>1, AppendProperties, EmptySeq, LenProperties
  <2>4. QED BY <1>10, <2>2, <2>3
<1>11. CASE ReplyWakes(msg, s, callback)
  BY <1>7, <1>8, <1>9, <1>10, <1>11 DEF ReplyWakes
<1>12. CASE ReplyCrashes(msg, s, callback)
  BY <1>12 DEF ReplyCrashes, NothingForgotten, Dead
<1>13. CASE ReplyCopies(msg, s, callback)
  <2>1. callback \in Calls /\ s \in SlotBuffers /\ UNCHANGED <<ran, lost>>
    BY <1>2, <1>13 DEF ReplyCopies, IsReply
  <2>2. PICK slot \in Nat, m \in Asks : IsAsk(s, "create", callback, callback, slot, m)
    BY <1>13, <2>1, AskFacts DEF ReplyCopies, Buffers, Callbacks
  <2>3. m.call = callback /\ down' = Append(down, m) /\ slips \subseteq slips'
    BY <2>2 DEF IsAsk, Message
  <2>4. CallsIn(Requested') = CallsIn(Requested) \cup {callback}
    BY <1>6, <2>1, <2>3 DEF Requests
  <2>5. QED BY <1>8, <1>9, <2>1, <2>3, <2>4
<1>14. CASE ReplyRuns(msg, s, callback)
  <2>1. callback \in Calls /\ slips \subseteq slips' /\ UNCHANGED lost
    BY <1>14 DEF ReplyRuns
  <2>2. CallsIn(Requested) \subseteq CallsIn(Requested')
    <3>1. Message("load", NoCall, msg.dev, First) \in Asks
      BY <1>2 DEF IsReply, Message, Asks, Buffers, Callbacks, First
    <3>2. QED BY <1>6, <1>7, <1>14, <3>1 DEF ReplyRuns, Requests
  <2>3. QED BY <1>8, <1>9, <1>10, <1>14, <2>1, <2>2 DEF ReplyRuns
<1>15. CASE ReplyRestores(msg, s, callback)
  <2>1. PICK d \in Calls : callback = Restore(d) /\ Ask(s, "load", Ignored, d)
    BY <1>15 DEF ReplyRestores
  <2>2. callback \notin Calls /\ s \in SlotBuffers /\ UNCHANGED <<ran, lost>>
    BY <1>2, <1>15, <2>1, CallsAssumption DEF ReplyRestores, IsReply
  <2>3. PICK slot \in Nat, m \in Asks : IsAsk(s, "load", Ignored, d, slot, m)
    BY <2>1, <2>2, AskFacts DEF Buffers, Callbacks
  <2>4. down' = Append(down, m) /\ slips \subseteq slips'
    BY <2>3 DEF IsAsk
  <2>5. CallsIn(Requested) \subseteq CallsIn(Requested')
    BY <1>6, <2>4 DEF Requests
  <2>6. QED BY <1>8, <1>9, <2>2, <2>4, <2>5
<1>16. CASE ReplyIgnored(msg, s, callback)
  <2>1. callback \notin Calls /\ lost \subseteq lost' /\ UNCHANGED <<down, ran, slips>>
    BY <1>16 DEF ReplyIgnored
  <2>2. QED BY <1>7, <1>8, <1>9, <2>1
<1>17. QED BY <1>1, <1>11, <1>12, <1>13, <1>14, <1>15, <1>16

LEMMA ForgottenStep ==
  ASSUME Typed, Typed', Known, Messages, NothingForgotten, [Next]_vars
  PROVE  NothingForgotten'
\* No message is lost.
<1>1. ASSUME UNCHANGED <<op, ran, lost, batch, down, up, out>>, slips \subseteq slips',
             \A c \in Calls : phase'[c] \in {"async", "first", "asleep"} => phase[c] \in {"async", "first", "asleep"}
      PROVE  NothingForgotten'
  <2>1. InFlight' = InFlight
    BY <1>1 DEF InFlight
  <2>2. QED BY <1>1, <2>1, NoneForgotten
<1>2. ASSUME NEW m \in Requests, down' = Append(down, m), UNCHANGED <<batch, up, out>>
      PROVE  CallsIn(InFlight') = CallsIn(InFlight) \cup ({m.call} \cap Calls)
  <2>1. Requested' = Append(Requested, m) /\ Replied' = Replied /\ Requested \in Seq(Requests)
    BY <1>2, SentMoves, FlightIs DEF Replied
  <2>2. CallsIn(Requested') = CallsIn(Requested) \cup ({m.call} \cap Calls)
    <3>1. m \in Requests
      OBVIOUS
    <3>2. QED BY ONLY <2>1, <3>1, CallsOfAppend
  <2>3. QED BY <2>1, <2>2, CallsInFlight
<1>3. CASE Call
  <2>1. ASSUME NEW c \in Calls, NEW d \in Calls, NEW kind \in Buffers \cup {"duplicate"}, NEW type \in Buffers,
               Begins(c, kind, type, d)
        PROVE  NothingForgotten'
    <3>1. PICK slot \in Nat, m \in Asks : IsAsk(slots, type, c, d, slot, m)
      BY <2>1, AskFacts DEF Begins, Typed, Callbacks
    <3>2. /\ m.call = c /\ down' = Append(down, m) /\ m \in Requests /\ slips \subseteq slips'
          /\ UNCHANGED <<batch, up, out, ran, lost>> /\ op' = [op EXCEPT ![c] = kind]
          /\ \E where : phase' = [phase EXCEPT ![c] = where]
      BY <2>1, <3>1 DEF IsAsk, Message, Requests, Begins, process, history
    <3>3. CallsIn(InFlight') = CallsIn(InFlight) \cup {c}
      BY <1>2, <3>2
    <3> SUFFICES ASSUME NEW e \in Calls, phase'[e] \in {"async", "first", "asleep"},
                        ~Confused(Target(e))', ~Dead'
                 PROVE  ran'[e] # <<>> \/ e \in lost' \/ e \in CallsIn(InFlight')
      BY DEF NothingForgotten, CallsIn
    <3>4. CASE e = c
      BY <3>3, <3>4
    <3>5. CASE e # c
      <4>1. phase'[e] = phase[e] /\ op'[e] = op[e]
        BY <3>2, <3>5 DEF Typed
      <4>2. ~Confused(Target(e)) /\ ~Dead
        BY <3>2, <4>1 DEF Confused, Target, Dead
      <4>3. QED BY <3>2, <3>3, <4>1, <4>2 DEF NothingForgotten
    <3>6. QED BY <3>4, <3>5
  <2>2. ASSUME NEW p \in Calls \X Calls, NEW type \in {"connect", "disconnect"}, Wires(type, p)
        PROVE  NothingForgotten'
    <3>1. Message(type, NoCall, p, First) \in Requests
      BY DEF Message, Wirings, Requests
    <3>2. CallsIn(InFlight) \subseteq CallsIn(InFlight')
      BY <1>2, <2>2, <3>1 DEF Wires, process
    <3>3. QED BY <2>2, <3>2, NoneForgotten DEF Wires, callers
  <2>3. ASSUME NEW d \in Calls, Erases(d)
        PROVE  NothingForgotten'
    BY <1>1, <2>3 DEF Erases, callers, process, history
  <2>4. QED BY <1>3, <2>1, <2>2, <2>3, CallCases
<1>4. CASE Process
  BY <1>4, ForgottenProcess
<1>5. CASE Poll
  <2>1. CASE PollReply
    BY <2>1, ForgottenReply
  <2>2. CASE PollThrows
    <3>1. /\ up # <<>> /\ up' = Tail(up) /\ UNCHANGED <<batch, down, out, op, phase, ran, slips>>
          /\ lost' = lost \cup CallsIn(<<Head(up)>>)
      BY <2>2 DEF PollThrows, Polls, process, callers
    <3>2. up \in Seq(Replies) /\ Head(up) \in Replies
      BY <3>1, HeadReply DEF Typed
    <3>3. CallsIn(up) = CallsIn(<<Head(up)>>) \cup CallsIn(up')
      BY <3>1, <3>2, CallsOfOne
    <3>4. Replied' = Tail(up) \o out /\ Requested' = Requested /\ Tail(up) \in Seq(Replies) /\ out \in Seq(Replies)
      BY <3>1, HeadReply DEF Replied, Requested, Typed
    <3>5. CallsIn(Replied') = CallsIn(up') \cup CallsIn(out)
      BY <3>1, <3>4, CallsOfConcat, ZenonT(40)
    <3>6. \A c \in CallsIn(InFlight) : c \in CallsIn(InFlight') \/ c \in lost'
      BY <3>1, <3>3, <3>4, <3>5, CallsInFlight
    <3>7. QED BY <3>1, <3>6, NoneForgotten
  <2>3. CASE PollFindsDead \/ FnEnd
    BY <1>1, <2>3 DEF PollFindsDead, FnEnd, callers, process, history
  <2>4. QED BY <1>5, <2>1, <2>2, <2>3 DEF Poll
\* What the process has read and not answered is lost.
<1>6. ASSUME Ends, up' = up, NEW N \in Seq(Requests), down' = down \o N,
             UNCHANGED <<op, phase, ran>>, slips \subseteq slips'
      PROVE  NothingForgotten'
  <2>1. batch' = <<>> /\ out' = <<>> /\ lost' = lost \cup CallsIn(batch) \cup CallsIn(out)
    BY <1>6 DEF Ends
  <2>2. down \in Seq(Requests) /\ up \in Seq(Replies) /\ down \o N \in Seq(Requests)
    BY ConcatElements DEF Typed
  <2>3. Requested' = down \o N /\ Replied' = up
    BY <1>6, <2>1, <2>2, ConcatEmptySeq DEF Requested, Replied
  <2>4. CallsIn(Requested') = CallsIn(down) \cup CallsIn(N)
    BY <2>2, <2>3, CallsOfConcat
  <2>5. \A c \in CallsIn(InFlight) : c \in CallsIn(InFlight') \/ c \in lost'
    BY <2>1, <2>3, <2>4, CallsInFlight
  <2>6. QED BY <1>6, <2>1, <2>5, NoneForgotten
<1>7. CASE Die
  <2>1. Ends /\ up' = up /\ down' = down /\ UNCHANGED <<op, phase, ran, slips>>
    BY <1>7 DEF Die, clientSide, callers
  <2>2. <<>> \in Seq(Requests) /\ down \o <<>> = down
    BY ConcatEmptySeq DEF Typed
  <2>3. QED BY <1>6, <2>1, <2>2
<1>8. CASE Restart
  <2>1. PICK seq : Restarts(seq)
    BY <1>8, RestartCases
  <2>2. seq \in Seq(Calls)
    BY <2>1 DEF Restarts, Typed
  <2>3. Restores(seq) \in Seq(Requests)
    BY <2>2, RestoresType DEF Requests
  <2>4. QED BY <1>6, <2>1, <2>3 DEF Restarts, callers
<1>9. ASSUME NEW c \in Calls, Wait(c)
      PROVE  NothingForgotten'
  <2>1. PICK where \in {"asleep", "returned", "timedout"} : Waits(c, where)
    BY <1>9, WaitCases
  <2>2. \A e \in Calls : phase'[e] \in {"async", "first", "asleep"} => phase[e] \in {"async", "first", "asleep"}
    BY <2>1 DEF Waits, Inside, Typed
  <2>3. QED BY <1>1, <2>1, <2>2 DEF Waits, process, history
<1>10. CASE UNCHANGED vars
  BY <1>1, <1>10 DEF vars
<1>11. QED BY <1>3, <1>4, <1>5, <1>7, <1>8, <1>9, <1>10 DEF Next

-----------------------------------------------------------------------------
(* What the client has asked for.                                          *)

LEMMA TailElements ==
  ASSUME NEW T, NEW s \in Seq(T), s # <<>>, NEW t, t = Tail(s)
  PROVE  /\ 1 \in DOMAIN s /\ s[1] = Head(s) /\ s[1] \in T
         /\ \A i \in DOMAIN s : i \in Nat /\ i >= 1
         /\ \A i \in DOMAIN t : i \in Nat /\ i >= 1 /\ i + 1 \in DOMAIN s /\ t[i] = s[i + 1]
         /\ \A i \in DOMAIN s \ {1} : i - 1 \in DOMAIN t /\ t[i - 1] = s[i]
<1>1. /\ Len(s) \in Nat \ {0} /\ DOMAIN s = 1 .. Len(s) /\ Head(s) = s[1] /\ s[1] \in T
      /\ Tail(s) \in Seq(T) /\ Len(Tail(s)) = Len(s) - 1
      /\ \A i \in 1 .. Len(s) - 1 : Tail(s)[i] = s[i + 1]
  BY HeadTailProperties, EmptySeq, LenProperties
<1>2. DOMAIN t = 1 .. Len(s) - 1 /\ \A i \in 1 .. Len(s) - 1 : t[i] = s[i + 1]
  BY <1>1, LenProperties
<1>3. ASSUME NEW i \in DOMAIN s \ {1} PROVE i - 1 \in DOMAIN t /\ t[i - 1] = s[i]
  BY <1>1, <1>2
<1>4. QED BY <1>1, <1>2, <1>3

LEMMA AppendElements ==
  ASSUME NEW T, NEW s \in Seq(T), NEW m \in T, NEW a, a = Append(s, m)
  PROVE  /\ \A i \in DOMAIN a : (i \in DOMAIN s /\ a[i] = s[i]) \/ (i = Len(s) + 1 /\ a[i] = m)
         /\ \A i \in DOMAIN s : i \in DOMAIN a /\ a[i] = s[i] /\ i <= Len(s) + 1
         /\ Len(s) + 1 \in DOMAIN a /\ a[Len(s) + 1] = m /\ Len(s) + 1 \notin DOMAIN s
<1>1. DOMAIN a = 1 .. Len(s) + 1 /\ DOMAIN s = 1 .. Len(s) /\ Len(s) \in Nat
      /\ (\A i \in DOMAIN s : a[i] = s[i]) /\ a[Len(s) + 1] = m
  BY AppendFacts, LenProperties
<1>2. QED BY <1>1

\* Another message is sent; the last wiring is sent.
LEMMA WantedSends ==
  ASSUME NEW T, NEW s \in Seq(T), NEW m \in T, NEW a, a = Append(s, m), NEW p, NEW cs, NEW ws, NEW ws2,
         \/ ~About(m, p) /\ Wanted(s, p, cs, ws) /\ (p \in ws2 <=> p \in ws)
         \/ About(m, p) /\ (m.type = "connect" <=> p \in ws2)
  PROVE  Wanted(a, p, cs, ws2)
<1>1. /\ \A i \in DOMAIN a : (i \in DOMAIN s /\ a[i] = s[i]) \/ (i = Len(s) + 1 /\ a[i] = m)
      /\ \A i \in DOMAIN s : i \in DOMAIN a /\ a[i] = s[i] /\ i <= Len(s) + 1
      /\ Len(s) + 1 \in DOMAIN a /\ a[Len(s) + 1] = m /\ Len(s) + 1 \notin DOMAIN s
  BY AppendElements
<1>2. Len(s) + 1 \in Int
  BY LenProperties
<1>3. CASE About(m, p)
  <2>1. \A j \in DOMAIN a : j <= Len(s) + 1
    BY <1>1, <1>2
  <2>2. QED BY <1>1, <1>3, <2>1 DEF Wanted
<1>4. CASE ~About(m, p) /\ \A i \in DOMAIN s : ~About(s[i], p)
  BY <1>1, <1>4 DEF Wanted
<1>5. CASE ~About(m, p) /\ ~ \A i \in DOMAIN s : ~About(s[i], p)
  <2>1. PICK i \in DOMAIN s :
          /\ About(s[i], p)
          /\ \A j \in DOMAIN s : About(s[j], p) => j <= i
          /\ s[i].type = "connect" <=> p \in ws
    BY <1>5 DEF Wanted
  <2>2. i \in DOMAIN a /\ a[i] = s[i]
    BY <1>1
  <2>3. \A j \in DOMAIN a : About(a[j], p) => j <= i
    BY <1>1, <1>5, <2>1
  <2>4. QED BY <1>5, <2>1, <2>2, <2>3 DEF Wanted
<1>6. QED BY <1>3, <1>4, <1>5

\* The first message is taken, and if it is a wiring it is done.
LEMMA WantedTakes ==
  ASSUME NEW T, NEW s \in Seq(T), s # <<>>, NEW t, t = Tail(s), NEW p, NEW cs, NEW cs2, NEW ws,
         Wanted(s, p, cs, ws),
         IF About(Head(s), p) THEN p \in cs2 <=> Head(s).type = "connect" ELSE p \in cs2 <=> p \in cs
  PROVE  Wanted(t, p, cs2, ws)
<1>1. /\ 1 \in DOMAIN s /\ s[1] = Head(s)
      /\ \A i \in DOMAIN s : i \in Nat /\ i >= 1
      /\ \A i \in DOMAIN t : i \in Nat /\ i >= 1 /\ i + 1 \in DOMAIN s /\ t[i] = s[i + 1]
      /\ \A i \in DOMAIN s \ {1} : i - 1 \in DOMAIN t /\ t[i - 1] = s[i]
  BY TailElements
<1>2. CASE \A i \in DOMAIN s : ~About(s[i], p)
  <2>1. \A i \in DOMAIN t : ~About(t[i], p)
    BY <1>1, <1>2
  <2>2. p \in cs <=> p \in ws
    BY <1>2 DEF Wanted
  <2>3. QED BY <1>1, <1>2, <2>1, <2>2 DEF Wanted
<1>3. CASE ~ \A i \in DOMAIN s : ~About(s[i], p)
  <2>1. PICK i \in DOMAIN s :
          /\ About(s[i], p)
          /\ \A j \in DOMAIN s : About(s[j], p) => j <= i
          /\ s[i].type = "connect" <=> p \in ws
    BY <1>3 DEF Wanted
  <2>2. CASE i = 1
    <3>1. \A j \in DOMAIN t : ~About(t[j], p)
      <4> SUFFICES ASSUME NEW j \in DOMAIN t, About(t[j], p) PROVE FALSE
        OBVIOUS
      <4>1. j + 1 \in DOMAIN s /\ About(s[j + 1], p) /\ j \in Nat /\ j >= 1
        BY <1>1
      <4>2. j + 1 <= 1
        BY <2>1, <2>2, <4>1
      <4>3. QED BY <4>1, <4>2
    <3>2. p \in cs2 <=> p \in ws
      BY <1>1, <2>1, <2>2
    <3>3. QED BY <3>1, <3>2 DEF Wanted
  <2>3. CASE i # 1
    <3>1. i - 1 \in DOMAIN t /\ t[i - 1] = s[i] /\ i \in Nat
      BY <1>1, <2>3
    <3>2. ASSUME NEW j \in DOMAIN t, About(t[j], p) PROVE j <= i - 1
      <4>1. j + 1 \in DOMAIN s /\ About(s[j + 1], p) /\ j \in Nat
        BY <1>1, <3>2
      <4>2. j + 1 <= i
        BY <2>1, <4>1
      <4>3. QED BY <3>1, <4>1, <4>2
    <3>3. QED BY <2>1, <3>1, <3>2 DEF Wanted
  <2>4. QED BY <2>2, <2>3
<1>4. QED BY <1>2, <1>3

\* Where in the list of all messages a request is, and a reply.
LEMMA FlightElements ==
  ASSUME Typed
  PROVE  /\ \A i \in DOMAIN Requested : i \in DOMAIN InFlight /\ InFlight[i] = Requested[i] /\ i \in Nat
         /\ \A i \in DOMAIN Replied :
              /\ Len(Requested) + i \in DOMAIN InFlight /\ InFlight[Len(Requested) + i] = Replied[i]
              /\ Len(Requested) + i \notin DOMAIN Requested
         /\ \A i \in DOMAIN down : \E j \in DOMAIN Requested : Requested[j] = down[i]
<1> DEFINE T == Requests \cup Replies
           R == Requested
           P == Replied
<1>1. R \in Seq(T) /\ P \in Seq(T) /\ InFlight = R \o P
  BY FlightIs
<1> HIDE DEF T, R, P
<1>2. /\ Len(R \o P) = Len(R) + Len(P) /\ R \o P \in Seq(T) /\ Len(R) \in Nat /\ Len(P) \in Nat
      /\ \A j \in 1 .. Len(R) + Len(P) : (R \o P)[j] = IF j <= Len(R) THEN R[j] ELSE P[j - Len(R)]
      /\ DOMAIN R = 1 .. Len(R) /\ DOMAIN P = 1 .. Len(P)
  BY <1>1, ConcatElements, LenProperties
<1>3. DOMAIN (R \o P) = 1 .. Len(R) + Len(P)
  BY <1>2, LenProperties
<1>4. ASSUME NEW i \in DOMAIN R PROVE i \in DOMAIN (R \o P) /\ (R \o P)[i] = R[i] /\ i \in Nat
  BY <1>2, <1>3
<1>5. ASSUME NEW i \in DOMAIN P
      PROVE  /\ Len(R) + i \in DOMAIN (R \o P) /\ (R \o P)[Len(R) + i] = P[i] /\ Len(R) + i \notin DOMAIN R
  BY <1>2, <1>3
<1>6. ASSUME NEW i \in DOMAIN down PROVE \E j \in DOMAIN Requested : Requested[j] = down[i]
  <2>1. batch \in Seq(Requests) /\ down \in Seq(Requests)
    BY DEF Typed
  <2> DEFINE b == batch
             d == down
             bd == b \o d
  <2> HIDE DEF b, d
  <2>2. /\ bd \in Seq(Requests) /\ Len(bd) = Len(b) + Len(d) /\ Len(b) \in Nat /\ Len(d) \in Nat
        /\ \A j \in 1 .. Len(b) + Len(d) : bd[j] = IF j <= Len(b) THEN b[j] ELSE d[j - Len(b)]
        /\ DOMAIN d = 1 .. Len(d)
    BY <2>1, ConcatElements, LenProperties DEF b, d
  <2> HIDE DEF bd
  <2>3. DOMAIN bd = 1 .. Len(b) + Len(d) /\ i \in 1 .. Len(d)
    BY <2>2, LenProperties DEF d
  <2>4. Len(b) + i \in DOMAIN bd /\ bd[Len(b) + i] = d[i]
    BY <2>2, <2>3
  <2>5. QED BY <2>4 DEF bd, b, d, Requested
<1>7. QED BY <1>1, <1>4, <1>5, <1>6 DEF R, P

\* No device is created; a message that is new is of no device.
LEMMA FreshKeeps ==
  ASSUME Fresh, slips \subseteq slips', devs' \subseteq devs, \A c \in devs : op'[c] = op[c] \/ op[c] = "none",
         \A i \in DOMAIN Requested' :
           \/ \E j \in DOMAIN Requested : Requested'[i] = Requested[j]
           \/ /\ "restarted" \notin slips => Requested'[i].call \notin devs
              /\ Requested'[i].type = "create" => Requested'[i].call = Requested'[i].dev
           \/ "restarted" \in slips',
         \A i \in DOMAIN Replied' :
           \/ \E j \in DOMAIN Replied : Replied'[i] = Replied[j]
           \/ "restarted" \notin slips => Replied'[i].call \notin devs
  PROVE  Fresh'
<1> SUFFICES ASSUME "restarted" \notin slips'
             PROVE  /\ \A c \in devs' : Fits(c, "create")'
                    /\ \A i \in DOMAIN Requested' :
                         /\ Requested'[i].call \notin devs'
                         /\ Requested'[i].type = "create" => Requested'[i].call = Requested'[i].dev
                    /\ \A i \in DOMAIN Replied' : Replied'[i].call \in devs' => Replied'[i].type = "create"
  BY DEF Fresh
<1>1. "restarted" \notin slips
  OBVIOUS
<1>2. /\ \A c \in devs : Fits(c, "create")
      /\ \A i \in DOMAIN Requested :
           /\ Requested[i].call \notin devs
           /\ Requested[i].type = "create" => Requested[i].call = Requested[i].dev
      /\ \A i \in DOMAIN Replied : Replied[i].call \in devs => Replied[i].type = "create"
  BY <1>1 DEF Fresh
<1>3. \A c \in devs' : Fits(c, "create")'
  BY <1>2 DEF Fits, Buffers
<1>4. ASSUME NEW i \in DOMAIN Requested'
      PROVE  /\ Requested'[i].call \notin devs'
             /\ Requested'[i].type = "create" => Requested'[i].call = Requested'[i].dev
  <2>1. CASE \E j \in DOMAIN Requested : Requested'[i] = Requested[j]
    BY <1>2, <2>1
  <2>2. CASE ~ \E j \in DOMAIN Requested : Requested'[i] = Requested[j]
    BY <1>1, <2>2
  <2>3. QED BY <2>1, <2>2
<1>5. ASSUME NEW i \in DOMAIN Replied', Replied'[i].call \in devs' PROVE Replied'[i].type = "create"
  <2>1. CASE \E j \in DOMAIN Replied : Replied'[i] = Replied[j]
    BY <1>2, <1>5, <2>1
  <2>2. CASE ~ \E j \in DOMAIN Replied : Replied'[i] = Replied[j]
    BY <1>1, <1>5, <2>2
  <2>3. QED BY <2>1, <2>2
<1>6. QED BY <1>3, <1>4, <1>5

LEMMA FreshProcess ==
  ASSUME Typed, Typed', Messages, Fresh, Process
  PROVE  Fresh'
<1>1. /\ UNCHANGED <<op, phase, ran>>
      /\ \/ ProcessMovesOn \/ ProcessDrops
         \/ \E m : ProcessCreates(m) \/ ProcessAnswers(m) \/ ProcessWires(m)
  BY ProcessCases
<1>2. Requested \in Seq(Requests) /\ Replied \in Seq(Replies) /\ devs \subseteq Calls
  BY FlightIs DEF Typed
<1>3. CASE ProcessMovesOn
  BY <1>1, <1>3, FreshKeeps DEF ProcessMovesOn
<1>4. CASE ProcessDrops
  <2>1. \A i \in DOMAIN Requested' : \E j \in DOMAIN Requested : Requested'[i] = Requested[j]
    BY <1>4, FlightElements DEF ProcessDrops
  <2>2. devs' \subseteq devs /\ Replied' = Replied /\ slips \subseteq slips'
    BY <1>4 DEF ProcessDrops
  <2>3. QED BY <1>1, <2>1, <2>2, FreshKeeps
\* The first request is taken.
<1>5. ASSUME NEW m, Takes(m)
      PROVE  /\ m = Requested[1] /\ 1 \in DOMAIN Requested /\ m \in Requests
             /\ \A i \in DOMAIN Requested' :
                  i \in Nat /\ i >= 1 /\ i + 1 \in DOMAIN Requested /\ Requested'[i] = Requested[i + 1]
  <2>1. Requested # <<>> /\ m = Head(Requested) /\ Requested' = Tail(Requested)
    BY <1>5 DEF Takes
  <2>2. QED BY <1>2, <2>1, TailElements
<1>6. ASSUME NEW m, Takes(m), slips' = slips, devs' \subseteq devs, Replied' = Replied \/ Answers(m)
      PROVE  Fresh'
  <2>1. \A i \in DOMAIN Requested' : \E j \in DOMAIN Requested : Requested'[i] = Requested[j]
    BY <1>5, <1>6
  <2>2. "restarted" \notin slips => m.call \notin devs
    BY <1>5, <1>6 DEF Fresh
  <2>3. ASSUME NEW i \in DOMAIN Replied'
        PROVE  \/ \E j \in DOMAIN Replied : Replied'[i] = Replied[j]
               \/ "restarted" \notin slips => Replied'[i].call \notin devs
    <3>1. CASE Replied' = Replied
      BY <2>3, <3>1
    <3>2. CASE Answers(m)
      <4>1. PICK r \in Replies : Same(r, m) /\ Replied' = Append(Replied, r)
        BY <3>2 DEF Answers
      <4>2. (i \in DOMAIN Replied /\ Replied'[i] = Replied[i]) \/ Replied'[i] = r
        BY <1>2, <2>3, <4>1, AppendElements
      <4>3. r.call = m.call
        BY <4>1 DEF Same
      <4>4. QED BY <2>2, <4>2, <4>3
    <3>3. QED BY <1>6, <3>1, <3>2
  <2>4. QED BY <1>1, <1>6, <2>1, <2>3, FreshKeeps
<1>7. ASSUME NEW m, ProcessCreates(m)
      PROVE  Fresh'
  <2>1. Takes(m) /\ Answers(m) /\ slips' = slips /\ m \in Asks /\ m.type = "create"
    BY <1>7 DEF ProcessCreates
  <2>2. CASE UNCHANGED devs
    BY <1>6, <2>1, <2>2
  <2>3. CASE devs' = devs \cup {m.dev} /\ "restarted" \notin slips
    <3>1. /\ \A c \in devs : Fits(c, "create")
          /\ \A i \in DOMAIN Requested :
               /\ Requested[i].call \notin devs
               /\ Requested[i].type = "create" => Requested[i].call = Requested[i].dev
          /\ \A i \in DOMAIN Replied : Replied[i].call \in devs => Replied[i].type = "create"
      BY <2>3 DEF Fresh
    <3>2. m.call = m.dev /\ m.dev \in Calls /\ m.call \in Calls
      BY <1>5, <2>1, <3>1 DEF Asks
    <3>3. 1 \in DOMAIN InFlight /\ InFlight[1] = m
      BY <1>5, <2>1, FlightElements
    <3>4. Fits(m.call, "create")
      BY <2>1, <3>2, <3>3 DEF Messages, Fine, FineMessage, Buffers
    <3>5. \A j \in DOMAIN InFlight : InFlight[j].call = m.call => j = 1
      BY <3>2, <3>3 DEF Messages, Single
    <3>6. \A c \in devs' : Fits(c, "create")'
      BY <1>1, <2>3, <3>1, <3>2, <3>4 DEF Fits
    <3>7. ASSUME NEW i \in DOMAIN Requested'
          PROVE  /\ Requested'[i].call \notin devs'
                 /\ Requested'[i].type = "create" => Requested'[i].call = Requested'[i].dev
      <4>1. i \in Nat /\ i >= 1 /\ i + 1 \in DOMAIN Requested /\ Requested'[i] = Requested[i + 1]
        BY <1>5, <2>1
      <4>2. i + 1 \in DOMAIN InFlight /\ InFlight[i + 1] = Requested[i + 1] /\ i + 1 # 1
        BY <4>1, FlightElements
      <4>3. Requested[i + 1].call # m.call
        BY <3>5, <4>2
      <4>4. QED BY <2>3, <3>1, <3>2, <4>1, <4>3
    <3>8. ASSUME NEW i \in DOMAIN Replied', Replied'[i].call \in devs'
          PROVE  Replied'[i].type = "create"
      <4>1. PICK r \in Replies : Same(r, m) /\ Replied' = Append(Replied, r)
        BY <2>1 DEF Answers
      <4>2. (i \in DOMAIN Replied /\ Replied'[i] = Replied[i]) \/ Replied'[i] = r
        BY <1>2, <3>8, <4>1, AppendElements
      <4>3. CASE i \in DOMAIN Replied /\ Replied'[i] = Replied[i]
        <5>1. Len(Requested) + i \in DOMAIN InFlight /\ InFlight[Len(Requested) + i] = Replied[i]
              /\ Len(Requested) + i \notin DOMAIN Requested
          BY <4>3, FlightElements
        <5>2. Replied[i].call # m.call
          BY <1>5, <2>1, <3>5, <5>1
        <5>3. Replied[i].call \in devs
          BY <2>3, <3>2, <3>8, <4>3, <5>2
        <5>4. QED BY <3>1, <4>3, <5>3
      <4>4. CASE Replied'[i] = r
        BY <2>1, <4>1, <4>4 DEF Same
      <4>5. QED BY <4>2, <4>3, <4>4
    <3>9. QED BY <3>6, <3>7, <3>8 DEF Fresh
  <2>4. CASE "restarted" \in slips
    BY <2>1, <2>4 DEF Fresh
  <2>5. QED BY <1>7, <2>2, <2>3, <2>4 DEF ProcessCreates
<1>8. ASSUME NEW m, ProcessAnswers(m) \/ ProcessWires(m)
      PROVE  Fresh'
  <2>1. Takes(m) /\ slips' = slips /\ devs' = devs /\ (Replied' = Replied \/ Answers(m))
    BY <1>8 DEF ProcessAnswers, ProcessWires
  <2>2. QED BY <1>6, <2>1
<1>9. QED BY <1>1, <1>3, <1>4, <1>7, <1>8

LEMMA FreshReply ==
  ASSUME Typed, Typed', Known, Messages, Fresh, PollReply
  PROVE  Fresh'
<1>1. PICK msg, s, callback :
         /\ Receives(msg, s, callback)
         /\ \/ ReplyWakes(msg, s, callback) \/ ReplyCrashes(msg, s, callback)
            \/ ReplyCopies(msg, s, callback) \/ ReplyRuns(msg, s, callback)
            \/ ReplyRestores(msg, s, callback) \/ ReplyIgnored(msg, s, callback)
  BY PollCases
<1>2. PICK G : IsReply(msg, s, callback, G)
  BY <1>1, ReplyFacts
<1>3. /\ op' = op /\ batch' = batch /\ out' = out /\ devs' = devs /\ up # <<>> /\ up' = Tail(up) /\ msg = Head(up)
  BY <1>1 DEF Receives, process, wiring
<1>4. /\ Requested \in Seq(Requests) /\ Replied \in Seq(Replies) /\ devs \subseteq Calls
      /\ Replied # <<>> /\ Replied' = Tail(Replied) /\ Head(Replied) = msg
  <2>1. up \in Seq(Replies) /\ out \in Seq(Replies) /\ devs \subseteq Calls
    BY DEF Typed
  <2>2. Head(up \o out) = Head(up)
    BY <1>3, <2>1, TailOfConcat
  <2>3. QED BY <1>3, <2>1, <2>2, FlightIs, ReceivedMoves DEF Replied
<1>5. /\ \A i \in DOMAIN Replied' : \E j \in DOMAIN Replied : Replied'[i] = Replied[j]
      /\ 1 \in DOMAIN Replied /\ Replied[1] = msg
  BY <1>4, TailElements
<1>6. ASSUME down' = down, slips \subseteq slips'
      PROVE  Fresh'
  <2>1. Requested' = Requested
    BY <1>3, <1>6 DEF Requested
  <2>2. QED BY <1>3, <1>5, <1>6, <2>1, FreshKeeps
<1>7. ASSUME NEW m \in Requests, down' = Append(down, m), slips \subseteq slips',
             "restarted" \notin slips => m.call \notin devs, m.type = "create" => m.call = m.dev
      PROVE  Fresh'
  <2>1. Requested' = Append(Requested, m)
    BY <1>3, <1>7, SentMoves
  <2>2. \A i \in DOMAIN Requested' : (i \in DOMAIN Requested /\ Requested'[i] = Requested[i]) \/ Requested'[i] = m
    BY <1>4, <2>1, AppendElements
  <2>3. QED BY <1>3, <1>5, <1>7, <2>2, FreshKeeps
<1>8. CASE ReplyCopies(msg, s, callback)
  <2>1. callback \in Calls /\ s \in SlotBuffers /\ msg.type = "ask"
    BY <1>2, <1>8 DEF ReplyCopies, IsReply
  <2>2. PICK slot \in Nat, m \in Asks : IsAsk(s, "create", callback, callback, slot, m)
    BY <1>8, <2>1, AskFacts DEF ReplyCopies, Buffers, Callbacks
  <2>3. /\ m.call = callback /\ m.dev = callback /\ down' = Append(down, m) /\ slips \subseteq slips'
        /\ m \in Requests
    BY <2>2 DEF IsAsk, Message, Requests
  <2>4. callback = msg.call
    BY <1>2, <2>1 DEF IsReply, Confused
  <2>5. "restarted" \notin slips => callback \notin devs
    BY <1>5, <2>1, <2>4 DEF Fresh
  <2>6. QED BY <1>7, <2>3, <2>5
<1>9. CASE ReplyRuns(msg, s, callback)
  <2>1. slips \subseteq slips' /\ (down' = down \/ down' = Append(down, Message("load", NoCall, msg.dev, First)))
    BY <1>9 DEF ReplyRuns
  <2>2. Message("load", NoCall, msg.dev, First) \in Requests
    BY <1>2 DEF IsReply, Message, Requests, Asks, Buffers, Callbacks, First
  <2>3. NoCall \notin devs
    BY <1>4, CallsAssumption
  <2>4. QED BY <1>6, <1>7, <2>1, <2>2, <2>3 DEF Message
<1>10. CASE ReplyRestores(msg, s, callback)
  <2>1. PICK d \in Calls : callback = Restore(d) /\ Ask(s, "load", Ignored, d)
    BY <1>10 DEF ReplyRestores
  <2>2. s \in SlotBuffers
    BY <1>2 DEF IsReply
  <2>3. PICK slot \in Nat, m \in Asks : IsAsk(s, "load", Ignored, d, slot, m)
    BY <2>1, <2>2, AskFacts DEF Buffers, Callbacks
  <2>4. m.call = Ignored /\ m.type = "load" /\ down' = Append(down, m) /\ slips \subseteq slips' /\ m \in Requests
    BY <2>3 DEF IsAsk, Message, Requests
  <2>5. Ignored \notin devs
    BY <1>4, CallsAssumption
  <2>6. QED BY <1>7, <2>4, <2>5
<1>11. CASE ReplyWakes(msg, s, callback) \/ ReplyCrashes(msg, s, callback) \/ ReplyIgnored(msg, s, callback)
  BY <1>6, <1>11 DEF ReplyWakes, ReplyCrashes, ReplyIgnored
<1>12. QED BY <1>1, <1>8, <1>9, <1>10, <1>11

LEMMA FreshStep ==
  ASSUME Typed, Typed', Known, Phased, Messages, Fresh, [Next]_vars
  PROVE  Fresh'
<1>1. Requested \in Seq(Requests) /\ devs \subseteq Calls
  BY FlightIs DEF Typed
\* No message is new.
<1>2. ASSUME UNCHANGED <<batch, down, up, out, devs, op>>, slips \subseteq slips'
      PROVE  Fresh'
  BY <1>2, FreshKeeps DEF Requested, Replied
\* A request is sent.
<1>3. ASSUME NEW m \in Requests, down' = Append(down, m), UNCHANGED <<batch, up, out, devs>>,
             slips \subseteq slips', \A c \in devs : op'[c] = op[c] \/ op[c] = "none",
             "restarted" \notin slips => m.call \notin devs, m.type = "create" => m.call = m.dev
      PROVE  Fresh'
  <2>1. Requested' = Append(Requested, m) /\ Replied' = Replied
    BY <1>3, SentMoves DEF Replied
  <2>2. \A i \in DOMAIN Requested' : (i \in DOMAIN Requested /\ Requested'[i] = Requested[i]) \/ Requested'[i] = m
    BY <1>1, <2>1, AppendElements
  <2>3. QED BY <1>3, <2>1, <2>2, FreshKeeps
<1>4. CASE Call
  <2>1. ASSUME NEW c \in Calls, NEW d \in Calls, NEW kind \in Buffers \cup {"duplicate"}, NEW type \in Buffers,
               Begins(c, kind, type, d)
        PROVE  Fresh'
    <3>1. PICK slot \in Nat, m \in Asks : IsAsk(slots, type, c, d, slot, m)
      BY <2>1, AskFacts DEF Begins, Typed, Callbacks
    <3>2. /\ m.call = c /\ m.type = type /\ m.dev = d /\ down' = Append(down, m) /\ m \in Requests
          /\ slips \subseteq slips' /\ UNCHANGED <<batch, up, out, devs>> /\ op' = [op EXCEPT ![c] = kind]
          /\ type = "create" => d = c
      BY <2>1, <3>1 DEF IsAsk, Message, Requests, Begins, process, wiring
    <3>3. op[c] = "none"
      BY <2>1 DEF Begins, Phased
    <3>4. "restarted" \notin slips => c \notin devs
      BY <3>3 DEF Fresh, Fits, Buffers
    <3>5. \A e \in devs : op'[e] = op[e] \/ op[e] = "none"
      BY <1>1, <3>2, <3>3 DEF Typed
    <3>6. QED BY <1>3, <3>2, <3>4, <3>5
  <2>2. ASSUME NEW p \in Calls \X Calls, NEW type \in {"connect", "disconnect"}, Wires(type, p)
        PROVE  Fresh'
    <3> DEFINE m == Message(type, NoCall, p, First)
    <3>1. m \in Requests /\ m.call \notin devs /\ m.type # "create"
      BY <1>1, CallsAssumption DEF Message, Wirings, Requests
    <3>2. down' = Append(down, m) /\ UNCHANGED <<batch, up, out, devs, op, slips>>
      BY <2>2 DEF Wires, callers, process, wiring
    <3> HIDE DEF m
    <3>3. QED BY <1>3, <3>1, <3>2
  <2>3. ASSUME NEW d \in Calls, Erases(d)
        PROVE  Fresh'
    BY <1>2, <2>3 DEF Erases, callers, process, wiring, history
  <2>4. QED BY <1>4, <2>1, <2>2, <2>3, CallCases
<1>5. CASE Process
  BY <1>5, FreshProcess
<1>6. CASE Poll
  <2>1. CASE PollReply
    BY <2>1, FreshReply
  <2>2. CASE PollThrows
    <3>1. /\ up # <<>> /\ up' = Tail(up) /\ UNCHANGED <<batch, down, out, op, slips, devs>>
      BY <2>2 DEF PollThrows, Polls, process, callers, wiring
    <3>2. Requested' = Requested /\ Replied \in Seq(Replies) /\ Replied # <<>> /\ Replied' = Tail(Replied)
      BY <3>1, ReceivedMoves, FlightIs DEF Requested
    <3>3. \A i \in DOMAIN Replied' : \E j \in DOMAIN Replied : Replied'[i] = Replied[j]
      BY <3>2, TailElements
    <3>4. QED BY <3>1, <3>2, <3>3, FreshKeeps
  <2>3. CASE PollFindsDead \/ FnEnd
    BY <1>2, <2>3 DEF PollFindsDead, FnEnd, callers, process, wiring, history
  <2>4. QED BY <1>6, <2>1, <2>2, <2>3 DEF Poll
<1>7. CASE Die
  <2>1. /\ batch' = <<>> /\ out' = <<>> /\ devs' = {} /\ down' = down /\ up' = up /\ UNCHANGED <<op, slips>>
    BY <1>7 DEF Die, Ends, clientSide, callers
  <2>2. down \in Seq(Requests) /\ up \in Seq(Replies) /\ out \in Seq(Replies)
    BY DEF Typed
  <2>3. Requested' = down /\ Replied' = up
    BY <2>1, <2>2, ConcatEmptySeq DEF Requested, Replied
  <2>4. \A i \in DOMAIN Requested' : \E j \in DOMAIN Requested : Requested'[i] = Requested[j]
    BY <2>3, FlightElements
  <2>5. \A i \in DOMAIN Replied' : Replied'[i].call \notin devs'
    BY <2>1
  <2>6. \A c \in devs' : FALSE
    BY <2>1
  <2>7. QED BY <2>1, <2>4, <2>5, <2>6 DEF Fresh
<1>8. CASE Restart
  <2>1. "restarted" \in slips'
    BY <1>8 DEF Restart
  <2>2. QED BY <2>1 DEF Fresh
<1>9. ASSUME NEW c \in Calls, Wait(c)
      PROVE  Fresh'
  <2>1. PICK where \in {"asleep", "returned", "timedout"} : Waits(c, where)
    BY <1>9, WaitCases
  <2>2. QED BY <1>2, <2>1 DEF Waits, process, wiring
<1>10. CASE UNCHANGED vars
  BY <1>2, <1>10 DEF vars
<1>11. QED BY <1>4, <1>5, <1>6, <1>7, <1>8, <1>9, <1>10 DEF Next

LEMMA AgreesStays ==
  ASSUME Agrees, running' => running, slips \subseteq slips', UNCHANGED <<devs, conns, failed, wants>>,
         table' \subseteq table, Requested' = Requested
  PROVE  Agrees'
BY DEF Agrees, Wanted, About, Creates

\* A request is sent.
LEMMA AgreesSends ==
  ASSUME Typed, Agrees, running' = running, slips \subseteq slips', UNCHANGED <<devs, conns, failed>>,
         NEW m \in Requests, Requested' = Append(Requested, m),
         \A d \in table' : d \in table \/ Creates(m, d),
         \A p \in Calls \X Calls : \/ ~About(m, p) /\ (p \in wants' <=> p \in wants)
                                   \/ About(m, p) /\ (m.type = "connect" <=> p \in wants')
  PROVE  Agrees'
<1> SUFFICES ASSUME running, "dropped" \notin slips
             PROVE  /\ \A d \in table' : \/ d \in devs \cup failed
                                         \/ \E i \in DOMAIN Requested' : Creates(Requested'[i], d)
                    /\ "restarted" \notin slips' =>
                         \A p \in Calls \X Calls : Wanted(Requested', p, conns, wants')
  BY DEF Agrees, Wanted, About, Creates
<1>1. Requested \in Seq(Requests)
  BY FlightIs
<1>2. /\ \A i \in DOMAIN Requested : i \in DOMAIN Requested' /\ Requested'[i] = Requested[i]
      /\ Len(Requested) + 1 \in DOMAIN Requested' /\ Requested'[Len(Requested) + 1] = m
  BY <1>1, AppendElements
<1>3. ASSUME NEW d \in table'
      PROVE  \/ d \in devs \cup failed
             \/ \E i \in DOMAIN Requested' : Creates(Requested'[i], d)
  <2>1. CASE d \in table
    BY <1>2, <2>1 DEF Agrees
  <2>2. CASE Creates(m, d)
    BY <1>2, <2>2
  <2>3. QED BY <2>1, <2>2
<1>4. ASSUME "restarted" \notin slips', NEW p \in Calls \X Calls
      PROVE  Wanted(Requested', p, conns, wants')
  <2>1. Wanted(Requested, p, conns, wants)
    BY <1>4 DEF Agrees
  <2>2. \/ ~About(m, p) /\ (p \in wants' <=> p \in wants)
        \/ About(m, p) /\ (m.type = "connect" <=> p \in wants')
    OBVIOUS
  <2>3. QED BY <1>1, <2>1, <2>2, WantedSends
<1>5. QED BY <1>3, <1>4

\* A request is taken, and done.
LEMMA AgreesTakes ==
  ASSUME Typed, Agrees, running' = running, slips' = slips, UNCHANGED <<table, wants>>,
         NEW m, Takes(m),
         devs \cup failed \subseteq devs' \cup failed',
         \A d \in Calls : Creates(m, d) => d \in devs' \cup failed',
         "restarted" \notin slips =>
           \A p \in Calls \X Calls :
             IF About(m, p) THEN p \in conns' <=> m.type = "connect" ELSE p \in conns' <=> p \in conns
  PROVE  Agrees'
<1> SUFFICES ASSUME running, "dropped" \notin slips
             PROVE  /\ \A d \in table : \/ d \in devs' \cup failed'
                                        \/ \E i \in DOMAIN Requested' : Creates(Requested'[i], d)
                    /\ "restarted" \notin slips =>
                         \A p \in Calls \X Calls : Wanted(Requested', p, conns', wants)
  BY DEF Agrees, Wanted, About, Creates
<1>1. Requested \in Seq(Requests) /\ Requested # <<>> /\ m = Head(Requested) /\ Requested' = Tail(Requested)
      /\ table \subseteq Calls
  BY FlightIs DEF Takes, Typed
<1>2. /\ Requested[1] = m
      /\ \A i \in DOMAIN Requested \ {1} : i - 1 \in DOMAIN Requested' /\ Requested'[i - 1] = Requested[i]
  BY <1>1, TailElements
<1>3. ASSUME NEW d \in table
      PROVE  \/ d \in devs' \cup failed'
             \/ \E i \in DOMAIN Requested' : Creates(Requested'[i], d)
  <2>1. d \in devs \cup failed \/ \E i \in DOMAIN Requested : Creates(Requested[i], d)
    BY DEF Agrees
  <2>2. CASE d \in devs \cup failed
    BY <2>2
  <2>3. ASSUME NEW i \in DOMAIN Requested, Creates(Requested[i], d)
        PROVE  \/ d \in devs' \cup failed'
               \/ \E j \in DOMAIN Requested' : Creates(Requested'[j], d)
    <3>1. CASE i = 1
      BY <1>1, <1>2, <2>3, <3>1
    <3>2. CASE i # 1
      BY <1>2, <2>3, <3>2
    <3>3. QED BY <3>1, <3>2
  <2>4. QED BY <2>1, <2>2, <2>3
<1>4. ASSUME "restarted" \notin slips, NEW p \in Calls \X Calls
      PROVE  Wanted(Requested', p, conns', wants)
  <2>1. Wanted(Requested, p, conns, wants)
    BY <1>4 DEF Agrees
  <2>2. IF About(Head(Requested), p) THEN p \in conns' <=> Head(Requested).type = "connect"
                                     ELSE p \in conns' <=> p \in conns
    BY <1>1, <1>4
  <2>3. QED BY <1>1, <2>1, <2>2, WantedTakes
<1>5. QED BY <1>3, <1>4

LEMMA AgreesProcess ==
  ASSUME Typed, Typed', Fresh, Agrees, Process
  PROVE  Agrees'
<1>1. /\ UNCHANGED <<table, running, wants>>
      /\ \/ ProcessMovesOn \/ ProcessDrops
         \/ \E m : ProcessCreates(m) \/ ProcessAnswers(m) \/ ProcessWires(m)
  BY ProcessCases DEF devices
<1>2. conns \subseteq devs \X devs
  BY DEF Typed
<1>3. CASE ProcessMovesOn
  BY <1>1, <1>3, AgreesStays DEF ProcessMovesOn
<1>4. CASE ProcessDrops
  BY <1>4 DEF ProcessDrops, Agrees
<1>5. ASSUME NEW m, ProcessCreates(m)
      PROVE  Agrees'
  <2>1. /\ Takes(m) /\ slips' = slips /\ m \in Asks /\ m.type = "create"
        /\ \/ devs' = devs \cup {m.dev} /\ conns' = {c \in conns : c[1] # m.dev} /\ UNCHANGED failed
           \/ failed' = failed \cup {m.dev} /\ UNCHANGED <<devs, conns>>
    BY <1>5 DEF ProcessCreates
  <2>2. devs \cup failed \subseteq devs' \cup failed' /\ \A d \in Calls : Creates(m, d) => d \in devs' \cup failed'
    BY <2>1 DEF Creates
  <2>3. \A p : ~About(m, p)
    BY <2>1 DEF About
  \* A device that is new has no connections.
  <2>4. "restarted" \notin slips => conns' = conns
    <3>1. CASE conns' = {c \in conns : c[1] # m.dev} /\ "restarted" \notin slips
      <4>1. Requested \in Seq(Requests) /\ Requested # <<>> /\ m = Head(Requested)
        BY <2>1, FlightIs DEF Takes
      <4>2. 1 \in DOMAIN Requested /\ m = Requested[1]
        BY <4>1, TailElements
      <4>3. m.dev \notin devs
        BY <2>1, <3>1, <4>2 DEF Fresh
      <4>4. \A c \in conns : c[1] \in devs
        BY <1>2
      <4>5. \A c \in conns : c[1] # m.dev
        BY <4>3, <4>4
      <4>6. QED BY <3>1, <4>5
    <3>2. QED BY <2>1, <3>1
  <2>5. QED BY <1>1, <2>1, <2>2, <2>3, <2>4, AgreesTakes
<1>6. ASSUME NEW m, ProcessAnswers(m)
      PROVE  Agrees'
  <2>1. Takes(m) /\ slips' = slips /\ m \in Asks /\ m.type # "create" /\ UNCHANGED <<devs, conns, failed>>
    BY <1>6 DEF ProcessAnswers
  <2>2. (\A p : ~About(m, p)) /\ \A d : ~Creates(m, d)
    BY <2>1 DEF About, Asks, Buffers, Creates
  <2>3. QED BY <1>1, <2>1, <2>2, AgreesTakes
<1>7. ASSUME NEW m, ProcessWires(m)
      PROVE  Agrees'
  <2>1. /\ Takes(m) /\ slips' = slips /\ m \in Wirings /\ UNCHANGED <<devs, failed>>
        /\ conns' = IF m.type = "connect" THEN conns \cup {m.dev} ELSE conns \ {m.dev}
    BY <1>7 DEF ProcessWires
  <2>2. \A d : ~Creates(m, d)
    BY <2>1 DEF Wirings, Creates
  <2>3. \A p : IF About(m, p) THEN p \in conns' <=> m.type = "connect" ELSE p \in conns' <=> p \in conns
    BY <2>1 DEF About, Wirings
  <2>4. QED BY <1>1, <2>1, <2>2, <2>3, AgreesTakes
<1>8. QED BY <1>1, <1>3, <1>4, <1>5, <1>6, <1>7

LEMMA AgreesReply ==
  ASSUME Typed, Typed', Known, Messages, Agrees, PollReply
  PROVE  Agrees'
<1>1. PICK msg, s, callback :
         /\ Receives(msg, s, callback)
         /\ \/ ReplyWakes(msg, s, callback) \/ ReplyCrashes(msg, s, callback)
            \/ ReplyCopies(msg, s, callback) \/ ReplyRuns(msg, s, callback)
            \/ ReplyRestores(msg, s, callback) \/ ReplyIgnored(msg, s, callback)
  BY PollCases
<1>2. PICK G : IsReply(msg, s, callback, G)
  BY <1>1, ReplyFacts
<1>3. UNCHANGED <<batch, running, devs, conns, failed, wants>>
  BY <1>1 DEF Receives, process, wiring
<1>4. ASSUME down' = down, slips \subseteq slips', table' = table
      PROVE  Agrees'
  <2>1. Requested' = Requested
    BY <1>3, <1>4 DEF Requested
  <2>2. QED BY <1>3, <1>4, <2>1, AgreesStays
<1>5. ASSUME NEW m \in Asks, down' = Append(down, m), slips \subseteq slips',
             \A d \in table' : d \in table \/ Creates(m, d)
      PROVE  Agrees'
  <2>1. Requested' = Append(Requested, m) /\ m \in Requests
    BY <1>3, <1>5, SentMoves DEF Requests
  <2>2. \A p : ~About(m, p)
    BY DEF Asks, Buffers, About
  <2>3. QED BY <1>3, <1>5, <2>1, <2>2, AgreesSends
<1>6. s \in SlotBuffers
  BY <1>2 DEF IsReply
<1>7. CASE ReplyCopies(msg, s, callback)
  <2>1. callback \in Calls /\ table' = table \cup {callback}
    BY <1>7 DEF ReplyCopies
  <2>2. PICK slot \in Nat, m \in Asks : IsAsk(s, "create", callback, callback, slot, m)
    BY <1>6, <1>7, <2>1, AskFacts DEF ReplyCopies, Buffers, Callbacks
  <2>3. Creates(m, callback) /\ down' = Append(down, m) /\ slips \subseteq slips'
    BY <2>2 DEF IsAsk, Message, Creates
  <2>4. QED BY <1>5, <2>1, <2>3
<1>8. CASE ReplyRuns(msg, s, callback)
  <2>1. /\ slips \subseteq slips' /\ table' = table
        /\ down' = down \/ down' = Append(down, Message("load", NoCall, msg.dev, First))
    BY <1>8 DEF ReplyRuns
  <2>2. Message("load", NoCall, msg.dev, First) \in Asks
    BY <1>2 DEF IsReply, Message, Asks, Buffers, Callbacks, First
  <2>3. QED BY <1>4, <1>5, <2>1, <2>2
<1>9. CASE ReplyRestores(msg, s, callback)
  <2>1. PICK d \in Calls : Ask(s, "load", Ignored, d)
    BY <1>9 DEF ReplyRestores
  <2>2. PICK slot \in Nat, m \in Asks : IsAsk(s, "load", Ignored, d, slot, m)
    BY <1>6, <2>1, AskFacts DEF Buffers, Callbacks
  <2>3. down' = Append(down, m) /\ slips \subseteq slips' /\ table' = table
    BY <1>9, <2>2 DEF IsAsk, ReplyRestores
  <2>4. QED BY <1>5, <2>3
<1>10. CASE ReplyWakes(msg, s, callback) \/ ReplyCrashes(msg, s, callback) \/ ReplyIgnored(msg, s, callback)
  BY <1>4, <1>10 DEF ReplyWakes, ReplyCrashes, ReplyIgnored
<1>11. QED BY <1>1, <1>7, <1>8, <1>9, <1>10

LEMMA AgreesStep ==
  ASSUME Typed, Typed', Known, Messages, Fresh, Agrees, [Next]_vars
  PROVE  Agrees'
\* No request is new.
<1>1. ASSUME UNCHANGED <<batch, down, running, devs, conns, failed, wants>>, slips \subseteq slips', table' \subseteq table
      PROVE  Agrees'
  BY <1>1, AgreesStays DEF Requested
<1>2. CASE Call
  <2>1. ASSUME NEW c \in Calls, NEW d \in Calls, NEW kind \in Buffers \cup {"duplicate"}, NEW type \in Buffers,
               Begins(c, kind, type, d)
        PROVE  Agrees'
    <3>1. PICK slot \in Nat, m \in Asks : IsAsk(slots, type, c, d, slot, m)
      BY <2>1, AskFacts DEF Begins, Typed, Callbacks
    <3>2. /\ m.type = type /\ m.dev = d /\ down' = Append(down, m) /\ m \in Requests
          /\ slips \subseteq slips' /\ UNCHANGED <<batch, running, devs, conns, failed, wants>>
          /\ type = "create" => d = c
          /\ table' = IF type = "create" THEN table \cup {c} ELSE table
      BY <2>1, <3>1 DEF IsAsk, Message, Requests, Begins, process, wiring, history
    <3>3. \A p : ~About(m, p)
      BY DEF Asks, Buffers, About
    <3>4. \A e \in table' : e \in table \/ Creates(m, e)
      BY <3>2 DEF Creates
    <3>5. Requested' = Append(Requested, m)
      BY <3>2, SentMoves
    <3>6. QED BY <3>2, <3>3, <3>4, <3>5, AgreesSends
  <2>2. ASSUME NEW p \in Calls \X Calls, NEW type \in {"connect", "disconnect"}, Wires(type, p)
        PROVE  Agrees'
    <3> DEFINE m == Message(type, NoCall, p, First)
    <3>1. m \in Requests /\ m.type = type /\ m.dev = p
      BY DEF Message, Wirings, Requests
    <3>2. /\ down' = Append(down, m) /\ UNCHANGED <<batch, running, devs, conns, failed, table, slips>>
          /\ wants' = IF type = "connect" THEN wants \cup {p} ELSE wants \ {p}
      BY <2>2 DEF Wires, devices, process, wiring
    <3> HIDE DEF m
    <3>3. Requested' = Append(Requested, m)
      BY <3>1, <3>2, SentMoves
    <3>4. \A q \in Calls \X Calls : \/ ~About(m, q) /\ (q \in wants' <=> q \in wants)
                                    \/ About(m, q) /\ (m.type = "connect" <=> q \in wants')
      BY <3>1, <3>2 DEF About
    <3>5. QED BY <3>1, <3>2, <3>3, <3>4, AgreesSends
  <2>3. ASSUME NEW d \in Calls, Erases(d)
        PROVE  Agrees'
    BY <1>1, <2>3 DEF Erases, process, wiring, history
  <2>4. QED BY <1>2, <2>1, <2>2, <2>3, CallCases
<1>3. CASE Process
  BY <1>3, AgreesProcess
<1>4. CASE Poll
  <2>1. CASE PollReply
    BY <2>1, AgreesReply
  <2>2. CASE PollThrows \/ PollFindsDead \/ FnEnd
    BY <1>1, <2>2 DEF PollThrows, PollFindsDead, FnEnd, devices, process, wiring, history
  <2>3. QED BY <1>4, <2>1, <2>2 DEF Poll
<1>5. CASE Die
  BY <1>5 DEF Die, Agrees
<1>6. CASE Restart
  <2>1. PICK seq : Restarts(seq)
    BY <1>6, RestartCases
  <2>2. seq \in SetToSeqs(table) /\ seq \in Seq(Calls) /\ IsFiniteSet(table)
    BY <2>1, FS_Subset, CallsAssumption DEF Restarts, Typed
  <2>3. /\ Restores(seq) \in Seq(Requests) /\ Len(Restores(seq)) = Len(seq)
        /\ \A i \in 1 .. Len(seq) : Restores(seq)[i] = Message("create", Restore(seq[i]), seq[i], First)
    BY <2>2, RestoresType DEF Requests
  <2>4. down \in Seq(Requests) /\ down \o Restores(seq) \in Seq(Requests)
    BY <2>3, ConcatElements DEF Typed
  <2>5. Requested' = down \o Restores(seq)
    BY <2>1, <2>4, ConcatEmptySeq DEF Requested, Restarts, Ends
  <2>6. ASSUME NEW d \in table PROVE \E i \in DOMAIN Requested' : Creates(Requested'[i], d)
    <3>1. PICK i \in DOMAIN seq : seq[i] = d
      BY <2>2, TableSeqs
    <3>2. i \in 1 .. Len(seq)
      BY <2>2, LenProperties
    <3> DEFINE D == down
               N == Restores(seq)
    <3> HIDE DEF D, N
    <3>3. /\ D \in Seq(Requests) /\ N \in Seq(Requests) /\ Len(N) = Len(seq) /\ Requested' = D \o N
          /\ N[i] = Message("create", Restore(seq[i]), seq[i], First)
      BY <2>3, <2>4, <2>5, <3>2 DEF D, N
    <3>4. /\ D \o N \in Seq(Requests) /\ Len(D \o N) = Len(D) + Len(N) /\ Len(D) \in Nat /\ Len(N) \in Nat
          /\ \A j \in 1 .. Len(D) + Len(N) : (D \o N)[j] = IF j <= Len(D) THEN D[j] ELSE N[j - Len(D)]
      <4>1. D \in Seq(Requests) /\ N \in Seq(Requests)
        BY <3>3
      <4>2. Len(D) \in Nat /\ Len(N) \in Nat
        BY ONLY <4>1, LenProperties
      <4>3. /\ D \o N \in Seq(Requests) /\ Len(D \o N) = Len(D) + Len(N)
            /\ \A j \in 1 .. Len(D) + Len(N) : (D \o N)[j] = IF j <= Len(D) THEN D[j] ELSE N[j - Len(D)]
        BY ONLY <4>1, ConcatElements
      <4>4. QED BY ONLY <4>2, <4>3
    <3>5. /\ Len(D) + i \in 1 .. Len(D) + Len(N) /\ ~(Len(D) + i <= Len(D)) /\ Len(D) + i - Len(D) = i
      BY <3>2, <3>3, <3>4
    <3> DEFINE DN == D \o N
               at == Len(D) + i
    <3>e. /\ DN \in Seq(Requests) /\ Len(DN) = Len(D) + Len(N) /\ Requested' = DN
          /\ \A j \in 1 .. Len(D) + Len(N) : DN[j] = IF j <= Len(D) THEN D[j] ELSE N[j - Len(D)]
          /\ at \in 1 .. Len(D) + Len(N) /\ ~(at <= Len(D)) /\ at - Len(D) = i
      BY <3>3, <3>4, <3>5, SMTT(30)
    <3> HIDE DEF DN, at
    <3>d. DOMAIN DN = 1 .. Len(D) + Len(N)
      BY <3>e, LenProperties
    <3>6. DN[at] = N[i] /\ at \in DOMAIN DN
      BY <3>d, <3>e
    <3>7. Creates(N[i], d)
      BY <3>1, <3>3 DEF Creates, Message
    <3>8. QED BY <3>e, <3>6, <3>7
  <2>7. "restarted" \in slips' /\ table' = table
    BY <2>1 DEF Restarts
  <2>8. QED BY <2>6, <2>7 DEF Agrees, Creates
<1>7. ASSUME NEW c \in Calls, Wait(c)
      PROVE  Agrees'
  <2>1. PICK where \in {"asleep", "returned", "timedout"} : Waits(c, where)
    BY <1>7, WaitCases
  <2>2. QED BY <1>1, <2>1 DEF Waits, devices, process, wiring, history
<1>8. CASE UNCHANGED vars
  BY <1>1, <1>8 DEF vars
<1>9. QED BY <1>2, <1>3, <1>4, <1>5, <1>6, <1>7, <1>8 DEF Next
-----------------------------------------------------------------------------
(* The inductive invariant holds.                                          *)

LEMMA NothingInFlight ==
  ASSUME Init
  PROVE  InFlight = <<>> /\ Requested = <<>> /\ Replied = <<>> /\ CallsIn(InFlight) = {}
<1>1. batch = <<>> /\ down = <<>> /\ up = <<>> /\ out = <<>>
  BY DEF Init
<1>2. Requested = <<>> /\ Replied = <<>>
  <2>1. <<>> \o <<>> = <<>>
    BY EmptySeq, ConcatEmptySeq
  <2>2. QED BY <1>1, <2>1 DEF Requested, Replied
<1>3. <<>> \o <<>> = <<>>
  BY EmptySeq, ConcatEmptySeq
<1>4. InFlight = <<>>
  BY <1>1, <1>3 DEF InFlight
<1>5. QED BY <1>2, <1>4 DEF CallsIn

LEMMA InitIInv == Init => IInv
<1> SUFFICES ASSUME Init PROVE IInv
  OBVIOUS
<1> USE NothingInFlight
<1>1. Typed
  <2>1. slots \in SlotBuffers
    <3> DEFINE cells == [b \in Buffers |-> <<NoCall>>]
               frees == [b \in Buffers |-> <<First>>]
    <3>1. /\ <<NoCall>> \in Seq(Callbacks) /\ <<First>> \in Seq(Nat)
          /\ DOMAIN <<NoCall>> = {1} /\ ToSet(<<First>>) = {1} /\ First = 1
      BY DEF Callbacks, First, ToSet
    <3>2. cells \in [Buffers -> Seq(Callbacks)] /\ frees \in [Buffers -> Seq(Nat)]
      BY <3>1
    <3>3. \A b \in Buffers : First \in DOMAIN cells[b] /\ ToSet(frees[b]) \subseteq DOMAIN cells[b]
      BY <3>1
    <3>4. slots = [cell |-> cells, free |-> frees]
      BY DEF Init
    <3> HIDE DEF cells, frees
    <3>5. QED BY <3>2, <3>3, <3>4 DEF SlotBuffers
  <2>2. /\ op \in [Calls -> {"none", "create", "load", "ask", "duplicate"}]
        /\ phase \in [Calls -> {"none", "async", "first", "asleep", "returned", "timedout"}]
        /\ ran \in [Calls -> Seq(Callbacks)]
    BY EmptySeq DEF Init
  <2>3. left \in [Spent -> Nat]
    BY BudgetsAssumption DEF Init
  <2>4. QED BY <2>1, <2>2, <2>3, EmptySeq DEF Init, Typed
<1>2. Wired
  BY EmptySeq DEF Init, Wired, InOrder, ReadersFirst, IsInjective, ToSet
<1>3. Known
  <2>1. \A b \in Buffers : slots.cell[b] = <<NoCall>>
    BY DEF Init
  <2>2. QED BY <2>1, CallsAssumption DEF Known
<1>4. Phased
  BY DEF Init, Phased
<1>5. Messages
  <2>1. \A b \in Buffers : IsInjective(slots.free[b])
    <3>1. \A b \in Buffers : slots.free[b] = <<First>>
      BY DEF Init
    <3>2. IsInjective(<<First>>)
      BY DEF IsInjective
    <3>3. QED BY <3>1, <3>2
  <2>2. QED BY <2>1 DEF Messages, Fine, Single, Held, HeldIn
<1>6. Fresh
  BY DEF Init, Fresh
<1>7. Agrees
  BY DEF Init, Agrees, Wanted
<1>8. OwnAnswer /\ NothingForgotten /\ FrameIsThere
  BY DEF Init, OwnAnswer, NothingForgotten, FrameIsThere, Dead
<1>9. QED BY <1>1, <1>2, <1>3, <1>4, <1>5, <1>6, <1>7, <1>8 DEF IInv

LEMMA NextIInv == IInv /\ [Next]_vars => IInv'
<1> SUFFICES ASSUME IInv, [Next]_vars PROVE IInv'
  OBVIOUS
<1>1. /\ Typed /\ Wired /\ Known /\ Phased /\ Messages /\ Fresh /\ Agrees
      /\ OwnAnswer /\ NothingForgotten /\ FrameIsThere
  BY DEF IInv
<1>2. Typed'
  BY <1>1, TypedStep DEF Messages
<1>3. Wired'
  BY <1>1, <1>2, WiredStep
<1>4. Messages'
  BY <1>1, <1>2, MessagesStep
<1>5. Known' /\ Phased' /\ OwnAnswer' /\ FrameIsThere'
  <2>1. Callers
    BY <1>1 DEF Callers
  <2>2. Callers'
    BY <1>1, <2>1, CallersStep
  <2>3. QED BY <2>2 DEF Callers
<1>6. NothingForgotten'
  BY <1>1, <1>2, ForgottenStep
<1>7. Fresh'
  BY <1>1, <1>2, FreshStep
<1>8. Agrees'
  BY <1>1, <1>2, AgreesStep
<1>9. QED BY <1>2, <1>3, <1>4, <1>5, <1>6, <1>7, <1>8 DEF IInv

LEMMA AlwaysIInv == Spec => []IInv
BY InitIInv, NextIInv, PTL DEF Spec

-----------------------------------------------------------------------------
(* The properties.                                                         *)

\* The messages of each channel are among those on their way.
LEMMA ChannelsInFlight ==
  ASSUME Typed
  PROVE  \A msgs \in {down, up, batch, out} : \A i \in DOMAIN msgs :
           \E j \in DOMAIN InFlight : InFlight[j] = msgs[i]
<1>1. \A i \in DOMAIN Requested : i \in DOMAIN InFlight /\ InFlight[i] = Requested[i]
  BY FlightElements
<1>2. \A i \in DOMAIN Replied :
        Len(Requested) + i \in DOMAIN InFlight /\ InFlight[Len(Requested) + i] = Replied[i]
  BY FlightElements
<1>3. \A i \in DOMAIN down : \E j \in DOMAIN Requested : Requested[j] = down[i]
  BY FlightElements
<1>4. \A i \in DOMAIN batch : i \in DOMAIN Requested /\ Requested[i] = batch[i]
  BY ConcatElements, LenProperties DEF Typed, Requested
<1>5. \A i \in DOMAIN up : i \in DOMAIN Replied /\ Replied[i] = up[i]
  BY ConcatElements, LenProperties DEF Typed, Replied
<1>6. ASSUME NEW i \in DOMAIN out
      PROVE  \E j \in DOMAIN Replied : Replied[j] = out[i]
  <2> DEFINE P == up \o out
             at == Len(up) + i
  <2>1. /\ up \in Seq(Replies) /\ out \in Seq(Replies) /\ Len(up) \in Nat /\ Len(out) \in Nat
        /\ i \in 1 .. Len(out)
    BY LenProperties DEF Typed
  <2>2. /\ P \in Seq(Replies) /\ Len(P) = Len(up) + Len(out)
        /\ \A j \in 1 .. Len(up) + Len(out) : P[j] = IF j <= Len(up) THEN up[j] ELSE out[j - Len(up)]
        /\ at \in 1 .. Len(up) + Len(out) /\ ~(at <= Len(up)) /\ at - Len(up) = i
    BY <2>1, ConcatElements
  <2>3. Replied = P
    BY DEF Replied
  <2> HIDE DEF P, at
  <2>4. DOMAIN P = 1 .. Len(up) + Len(out)
    BY <2>2, LenProperties
  <2>5. P[at] = out[i] /\ at \in DOMAIN P
    BY <2>2, <2>4
  <2>6. QED BY <2>3, <2>5
<1>7. QED BY <1>1, <1>2, <1>3, <1>4, <1>5, <1>6

LEMMA IInvTypes == IInv => TypeOK
<1> SUFFICES ASSUME IInv PROVE TypeOK
  OBVIOUS
<1>1. Typed /\ Fine(slots, InFlight)
  BY DEF IInv, Messages
<1>2. ASSUME NEW b \in Buffers
      PROVE  slots.cell[b] \in Seq(Callbacks) /\ slots.free[b] \in Seq(DOMAIN slots.cell[b])
  <2>1. /\ slots.cell[b] \in Seq(Callbacks) /\ slots.free[b] \in Seq(Nat)
        /\ ToSet(slots.free[b]) \subseteq DOMAIN slots.cell[b]
    BY <1>1 DEF Typed, SlotBuffers
  <2> DEFINE f == slots.free[b]
             cells == DOMAIN slots.cell[b]
  <2>2. f \in Seq(Nat) /\ \A i \in 1 .. Len(f) : f[i] \in cells
    BY <2>1, LenProperties DEF ToSet
  <2> HIDE DEF f, cells
  <2>3. Len(f) \in Nat /\ f \in [1 .. Len(f) -> Nat]
    BY <2>2, LenProperties
  <2>4. f \in [1 .. Len(f) -> cells]
    BY <2>2, <2>3
  <2>5. f \in Seq(cells)
    BY <2>3, <2>4, SeqDef
  <2>6. QED BY <2>1, <2>5 DEF f, cells
<1>3. ASSUME NEW msgs \in {down, up, batch, out}, NEW i \in DOMAIN msgs
      PROVE  /\ msgs[i].type \in Kinds /\ msgs[i].call \in Callbacks
             /\ msgs[i].type \in Buffers => msgs[i].slot \in DOMAIN slots.cell[msgs[i].type]
  <2>1. PICK j \in DOMAIN InFlight : InFlight[j] = msgs[i]
    BY <1>1, <1>3, ChannelsInFlight
  <2>2. InFlight[j].type \in Kinds /\ InFlight[j].call \in Callbacks
    BY <1>1, FlightTypes
  <2>3. InFlight[j].type \in Buffers => InFlight[j].slot \in DOMAIN slots.cell[InFlight[j].type]
    BY <1>1 DEF Fine, FineMessage
  <2>4. QED BY <2>1, <2>2, <2>3
<1>4. QED BY <1>1, <1>2, <1>3 DEF TypeOK, Typed

LEMMA IInvHeld == IInv => SlotsHeld
<1> SUFFICES ASSUME IInv, NEW b \in Buffers, ~Confused(b)
             PROVE  /\ IsInjective(slots.free[b])
                    /\ \A i \in Unanswered(b) :
                         LET slot == InFlight[i].slot IN
                         /\ slots.cell[b][slot] = InFlight[i].call
                         /\ slot \notin ToSet(slots.free[b])
                         /\ \A j \in Unanswered(b) \ {i} : InFlight[j].slot # slot
  BY DEF SlotsHeld
<1>1. HeldIn(slots, b, InFlight)
  BY DEF IInv, Messages, Held
<1>2. QED BY <1>1 DEF HeldIn, Unanswered

LEMMA IInvAgreement == IInv => Agreement
<1> SUFFICES ASSUME IInv, running, batch = <<>>, down = <<>>, "dropped" \notin slips
             PROVE  /\ table \subseteq devs \cup failed
                    /\ "restarted" \notin slips => conns = wants
  BY DEF Agreement
<1>1. <<>> \o <<>> = <<>>
  BY EmptySeq, ConcatEmptySeq
<1>2. Requested = <<>>
  BY <1>1 DEF Requested
<1>3. /\ \A d \in table : d \in devs \cup failed
      /\ "restarted" \notin slips => \A p \in Calls \X Calls : p \in conns <=> p \in wants
  BY <1>2 DEF IInv, Agrees, Wanted
<1>4. conns \subseteq Calls \X Calls /\ wants \subseteq Calls \X Calls
  BY DEF IInv, Typed
<1>5. QED BY <1>3, <1>4

LEMMA IInvOrder == IInv => ReadersBeforeSources
BY DEF IInv, Wired, InOrder, ReadersFirst, ReadersBeforeSources

\* The slots, the devices and the messages are always what the code's types make
\* them, and a reply names a slot that its buffer has (slot_buffer, msg::in, msg::out).
THEOREM TypesHold == Spec => []TypeOK
<1>1. IInv => TypeOK
  BY IInvTypes
<1>2. QED BY <1>1, AlwaysIInv, PTL

\* slot_buffer: as long as a request is unanswered its callback stays in the slot that
\* its index names, and the slot is given to nobody else; unless an index was not sent.
THEOREM SlotsAreHeld == Spec => []SlotsHeld
<1>1. IInv => SlotsHeld
  BY IInvHeld
<1>2. QED BY <1>1, AlwaysIInv, PTL

\* The callback of a call runs at most once, and with the reply to its own request
\* (the poll thread, visit for the messages that the sandbox sends back).
THEOREM AnswersAreOwn == Spec => []OwnAnswer
<1>1. IInv => OwnAnswer
  BY DEF IInv
<1>2. QED BY <1>1, AlwaysIInv, PTL

\* A call that still waits has been answered, or its request or reply is on its way,
\* or it went with an exception, a reply that is never sent, or the process.
THEOREM NoCallIsForgotten == Spec => []NothingForgotten
<1>1. IInv => NothingForgotten
  BY DEF IInv
<1>2. QED BY <1>1, AlwaysIInv, PTL

\* blocking_sandbox_operation: while the poll thread runs the function of a blocking
\* call the frame that it refers to exists, but for the two ways it may be gone.
THEOREM FramesAreThere == Spec => []FrameIsThere
<1>1. IInv => FrameIsThere
  BY DEF IInv
<1>2. QED BY <1>1, AlwaysIInv, PTL

\* A process that has handled all requests has the devices and connections of the
\* client, devices also after a restart (msg-proc.hpp, restart in client.cpp).
THEOREM ProcessAgrees == Spec => []Agreement
<1>1. IInv => Agreement
  BY IInvAgreement
<1>2. QED BY <1>1, AlwaysIInv, PTL

\* op.hpp's make_device_processing_order, whatever is created, connected and
\* disconnected: every device once, and one that nothing feeds after all it feeds.
THEOREM OrderIsReadersFirst == Spec => []ReadersBeforeSources
<1>1. IInv => ReadersBeforeSources
  BY IInvOrder
<1>2. QED BY <1>1, AlwaysIInv, PTL
=============================================================================
