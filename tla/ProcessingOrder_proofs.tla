----------------------- MODULE ProcessingOrder_proofs -----------------------
(***************************************************************************)
(* What the processing order of a sandbox is, for any devices and          *)
(* connections: theorems about ProcessingOrder.  Its order is built by     *)
(* recursion over a table; induction is had from the well-foundedness of   *)
(* the finite sets of numbers.                                             *)
(***************************************************************************)
EXTENDS ProcessingOrder, FiniteSetTheorems, TLAPS

LEMMA LeastNatural ==
  ASSUME NEW S \in SUBSET Nat, S # {}
  PROVE  \E n \in S : \A m \in S : n <= m
<1> DEFINE Below == {1 .. n : n \in S}
           R == StrictSubsetOrdering(Nat)
           F == FiniteSubsetsOf(Nat)
<1>1. IsWellFoundedOn(R, F)
  BY FS_StrictSubsetOrderingWellFounded
<1>2. Below \subseteq F /\ Below # {}
  <2>1. \A n \in S : 1 .. n \in SUBSET Nat /\ IsFiniteSet(1 .. n)
    BY FS_Interval
  <2>2. QED BY <2>1 DEF FiniteSubsetsOf
<1>3. PICK x \in Below : \A y \in Below : ~(<<y, x>> \in R)
  <2> HIDE DEF Below, R, F
  <2>1. QED BY <1>1, <1>2, WFMin
<1>4. PICK n \in S : x = 1 .. n
  OBVIOUS
<1>5. ASSUME NEW m \in S, m < n PROVE FALSE
  <2>1. 1 .. m \in Below /\ 1 .. m \in SUBSET Nat /\ 1 .. n \in SUBSET Nat
    OBVIOUS
  <2>2. 1 .. m \subseteq 1 .. n /\ n \in 1 .. n /\ n \notin 1 .. m
    BY <1>5
  <2>3. <<1 .. m, 1 .. n>> \in R
    BY <2>1, <2>2 DEF StrictSubsetOrdering
  <2>4. QED BY <1>3, <1>4, <2>1, <2>3
<1>6. QED BY <1>5

\* Induction up to N, over the set of the numbers for which a statement holds.
LEMMA InductionUpTo ==
  ASSUME NEW N \in Nat, NEW S, 0 \in S, \A n \in 1 .. N : n - 1 \in S => n \in S
  PROVE  \A n \in 0 .. N : n \in S
<1> DEFINE Others == {n \in 0 .. N : n \notin S}
<1> SUFFICES ASSUME Others # {} PROVE FALSE
  OBVIOUS
<1>1. PICK n \in Others : \A m \in Others : n <= m
  <2>1. Others \in SUBSET Nat
    OBVIOUS
  <2> HIDE DEF Others
  <2>2. QED BY <2>1, LeastNatural
<1>2. n \in 1 .. N
  OBVIOUS
<1>3. n - 1 \in 0 .. N /\ n - 1 < n
  BY <1>2
<1>4. n - 1 \in S
  BY <1>1, <1>3
<1>5. QED BY <1>2, <1>4

-----------------------------------------------------------------------------
(* One insertion.                                                          *)

LEMMA ConcatElements ==
  ASSUME NEW T, NEW s \in Seq(T), NEW t \in Seq(T)
  PROVE  /\ s \o t \in Seq(T)
         /\ Len(s \o t) = Len(s) + Len(t)
         /\ \A j \in 1 .. Len(s) + Len(t) :
              (s \o t)[j] = IF j <= Len(s) THEN s[j] ELSE t[j - Len(s)]
OBVIOUS

\* Inserting shifts what comes behind.
LEMMA InsertAtElements ==
  ASSUME NEW T, NEW s \in Seq(T), NEW d \in T, NEW i \in 1 .. Len(s) + 1
  PROVE  /\ InsertAt(s, i, d) \in Seq(T)
         /\ Len(InsertAt(s, i, d)) = Len(s) + 1
         /\ \A j \in 1 .. Len(s) + 1 :
              InsertAt(s, i, d)[j] = IF j < i THEN s[j] ELSE IF j = i THEN d ELSE s[j - 1]
<1>1. Len(s) \in Nat /\ i \in Nat
  OBVIOUS
<1>2. /\ SubSeq(s, 1, i - 1) \in Seq(T) /\ Len(SubSeq(s, 1, i - 1)) = i - 1
      /\ \A j \in 1 .. i - 1 : SubSeq(s, 1, i - 1)[j] = s[j]
  BY <1>1
<1>3. /\ SubSeq(s, i, Len(s)) \in Seq(T) /\ Len(SubSeq(s, i, Len(s))) = Len(s) - i + 1
      /\ \A j \in 1 .. Len(s) - i + 1 : SubSeq(s, i, Len(s))[j] = s[j + i - 1]
  BY <1>1
<1>4. <<d>> \in Seq(T) /\ Len(<<d>>) = 1 /\ <<d>>[1] = d
  OBVIOUS
<1> DEFINE front == SubSeq(s, 1, i - 1)
           back == SubSeq(s, i, Len(s))
<1> HIDE DEF front, back
<1>5. /\ front \o <<d>> \in Seq(T) /\ Len(front \o <<d>>) = i
      /\ \A j \in 1 .. i : (front \o <<d>>)[j] = IF j < i THEN s[j] ELSE d
  <2>1. \A j \in 1 .. i : (front \o <<d>>)[j] = IF j <= i - 1 THEN front[j] ELSE <<d>>[j - (i - 1)]
    BY <1>1, <1>2, <1>4, ConcatElements DEF front
  <2>2. \A j \in 1 .. i : j > i - 1 => j - (i - 1) = 1
    BY <1>1
  <2>3. front \o <<d>> \in Seq(T) /\ Len(front \o <<d>>) = i
    BY <1>1, <1>2, <1>4, ConcatElements DEF front
  <2>4. QED BY <1>1, <1>2, <1>4, <2>1, <2>2, <2>3 DEF front
<1>6. InsertAt(s, i, d) = (front \o <<d>>) \o back
  BY DEF InsertAt, front, back
<1>7. /\ (front \o <<d>>) \o back \in Seq(T)
      /\ Len((front \o <<d>>) \o back) = Len(s) + 1
      /\ \A j \in 1 .. Len(s) + 1 :
           ((front \o <<d>>) \o back)[j] = IF j <= i THEN (front \o <<d>>)[j] ELSE back[j - i]
  <2>1. Len(front \o <<d>>) + Len(back) = Len(s) + 1
    <3>1. Len(front \o <<d>>) = i
      BY ONLY <1>5
    <3>2. Len(back) = Len(s) - i + 1
      BY ONLY <1>3 DEF back
    <3>3. i + (Len(s) - i + 1) = Len(s) + 1
      BY ONLY <1>1
    <3>4. QED BY ONLY <3>1, <3>2, <3>3
  <2> DEFINE head == front \o <<d>>
  <2>2. head \in Seq(T) /\ Len(head) = i /\ back \in Seq(T)
    BY <1>3, <1>5 DEF back
  <2> HIDE DEF head
  <2>3. /\ head \o back \in Seq(T)
        /\ Len(head \o back) = Len(head) + Len(back)
        /\ \A j \in 1 .. Len(head) + Len(back) :
             (head \o back)[j] = IF j <= Len(head) THEN head[j] ELSE back[j - Len(head)]
    BY <2>2, ConcatElements
  <2>4. QED BY <2>1, <2>2, <2>3 DEF head
<1>8. \A j \in 1 .. Len(s) + 1 : j > i => back[j - i] = s[j - 1]
  <2> SUFFICES ASSUME NEW j \in 1 .. Len(s) + 1, j > i PROVE back[j - i] = s[j - 1]
    OBVIOUS
  <2>1. j - i \in 1 .. Len(s) - i + 1 /\ (j - i) + i - 1 = j - 1
    BY <1>1
  <2>2. QED BY <1>3, <2>1 DEF back
<1>9. QED BY <1>1, <1>5, <1>6, <1>7, <1>8

\* Nothing before the index feeds the device, and all is before it if nothing does.
LEMMA IndexFacts ==
  ASSUME NEW cs, NEW T, NEW s \in Seq(T), NEW d
  PROVE  /\ InsertionIndex(cs, s, d) \in 1 .. Len(s) + 1
         /\ \A j \in DOMAIN s : <<s[j], d>> \in cs => InsertionIndex(cs, s, d) <= j
         /\ (\A j \in DOMAIN s : <<s[j], d>> \notin cs) => InsertionIndex(cs, s, d) = Len(s) + 1
<1> DEFINE feeders == {i \in DOMAIN s : Feeds(cs, s[i], d)}
<1>1. feeders \in SUBSET Nat /\ Len(s) \in Nat /\ DOMAIN s = 1 .. Len(s)
  OBVIOUS
<1>2. InsertionIndex(cs, s, d) = IF feeders = {} THEN Len(s) + 1
                                 ELSE CHOOSE i \in feeders : \A j \in feeders : i <= j
  BY DEF InsertionIndex
<1>3. CASE feeders = {}
  <2>1. \A j \in DOMAIN s : <<s[j], d>> \notin cs
    BY <1>3 DEF Feeds
  <2>2. QED BY <1>1, <1>2, <1>3, <2>1
<1>4. CASE feeders # {}
  <2> DEFINE i == InsertionIndex(cs, s, d)
  <2>1. \E k \in feeders : \A j \in feeders : k <= j
    <3> HIDE DEF feeders
    <3>1. QED BY <1>1, <1>4, LeastNatural
  <2>2. i \in feeders /\ \A j \in feeders : i <= j
    <3> HIDE DEF feeders
    <3>1. QED BY <1>2, <1>4, <2>1
  <2>3. i \in DOMAIN s /\ <<s[i], d>> \in cs
    BY <2>2 DEF Feeds
  <2>4. \A j \in DOMAIN s : <<s[j], d>> \in cs => i <= j
    BY <2>2 DEF Feeds
  <2>5. QED BY <1>1, <2>3, <2>4
<1>5. QED BY <1>3, <1>4

\* A device that nothing feeds comes after all that it feeds.
ReadersFirst(ds, cs, o) ==
  \A i, j \in DOMAIN o :
    <<o[i], o[j]>> \in cs /\ (\A d \in ds : <<d, o[i]>> \notin cs) => j < i

\* An order of those devices that are done.
InOrder(ds, cs, o, done) ==
  /\ o \in Seq(ds)
  /\ IsInjective(o)
  /\ ToSet(o) = done
  /\ ReadersFirst(ds, cs, o)

LEMMA InsertKeepsOrder ==
  ASSUME NEW ds, NEW cs, NEW o, NEW done, InOrder(ds, cs, o, done), NEW d \in ds, d \notin done
  PROVE  InOrder(ds, cs, Insert(cs, o, d), done \cup {d})
<1> DEFINE ix == InsertionIndex(cs, o, d)
           new == Insert(cs, o, d)
<1>1. /\ o \in Seq(ds) /\ Len(o) \in Nat /\ DOMAIN o = 1 .. Len(o)
      /\ \A i \in DOMAIN o : o[i] \in ds
  BY DEF InOrder
<1>2. /\ ix \in 1 .. Len(o) + 1
      /\ \A j \in DOMAIN o : <<o[j], d>> \in cs => ix <= j
      /\ (\A j \in DOMAIN o : <<o[j], d>> \notin cs) => ix = Len(o) + 1
  BY <1>1, IndexFacts
<1> HIDE DEF ix
<1>3. /\ new \in Seq(ds) /\ Len(new) = Len(o) + 1 /\ DOMAIN new = 1 .. Len(o) + 1
      /\ \A j \in 1 .. Len(o) + 1 :
           new[j] = IF j < ix THEN o[j] ELSE IF j = ix THEN d ELSE o[j - 1]
  <2>1. new = InsertAt(o, ix, d)
    BY DEF Insert, ix
  <2>2. /\ InsertAt(o, ix, d) \in Seq(ds)
        /\ Len(InsertAt(o, ix, d)) = Len(o) + 1
        /\ \A j \in 1 .. Len(o) + 1 :
             InsertAt(o, ix, d)[j] = IF j < ix THEN o[j] ELSE IF j = ix THEN d ELSE o[j - 1]
    <3>1. o \in Seq(ds) /\ ix \in 1 .. Len(o) + 1
      BY <1>1, <1>2
    <3>2. QED BY <3>1, InsertAtElements
  <2> HIDE DEF new
  <2>3. DOMAIN new = 1 .. Len(new)
    BY <2>1, <2>2
  <2>4. QED BY <2>1, <2>2, <2>3
<1> HIDE DEF new
\* Where each place of the new order was in the old one.
<1> DEFINE was(j) == IF j < ix THEN j ELSE j - 1
<1>4. \A j \in DOMAIN new : j # ix => was(j) \in DOMAIN o /\ new[j] = o[was(j)]
  BY <1>1, <1>2, <1>3
<1>5. new[ix] = d /\ ix \in DOMAIN new
  BY <1>2, <1>3
<1>6. \A i, j \in DOMAIN new : i # ix /\ j # ix => (was(i) < was(j) <=> i < j) /\ (was(i) = was(j) => i = j)
  BY <1>1, <1>2, <1>3
<1>7. \A i \in DOMAIN o : o[i] # d
  BY DEF InOrder, ToSet
<1>8. IsInjective(new)
  <2> SUFFICES ASSUME NEW i \in DOMAIN new, NEW j \in DOMAIN new, new[i] = new[j] PROVE i = j
    BY DEF IsInjective
  <2>1. CASE i = ix \/ j = ix
    BY <1>4, <1>5, <1>7, <2>1
  <2>2. CASE i # ix /\ j # ix
    <3>1. was(i) = was(j)
      BY <1>4, <2>2 DEF InOrder, IsInjective
    <3>2. QED BY <1>6, <2>2, <3>1
  <2>3. QED BY <2>1, <2>2
<1>9. ToSet(new) = done \cup {d}
  <2>1. ToSet(new) \subseteq done \cup {d}
    <3> SUFFICES ASSUME NEW j \in DOMAIN new PROVE new[j] \in done \cup {d}
      BY DEF ToSet
    <3>1. QED BY <1>4, <1>5 DEF InOrder, ToSet
  <2>2. ASSUME NEW e \in done PROVE e \in ToSet(new)
    <3>1. PICK i \in DOMAIN o : o[i] = e
      BY DEF InOrder, ToSet
    <3> DEFINE j == IF i < ix THEN i ELSE i + 1
    <3>2. j \in 1 .. Len(o) + 1 /\ new[j] = o[i]
      BY <1>1, <1>2, <1>3
    <3>3. QED BY <1>3, <3>1, <3>2 DEF ToSet
  <2>3. QED BY <1>5, <2>1, <2>2 DEF ToSet
<1>10. ReadersFirst(ds, cs, new)
  <2> SUFFICES ASSUME NEW i \in DOMAIN new, NEW j \in DOMAIN new,
                      <<new[i], new[j]>> \in cs, \A e \in ds : <<e, new[i]>> \notin cs
               PROVE  j < i
    BY DEF ReadersFirst
  <2>1. CASE i # ix /\ j # ix
    <3>1. was(j) < was(i)
      BY <1>4, <2>1 DEF InOrder, ReadersFirst
    <3>2. QED BY <1>6, <2>1, <3>1
  <2>2. CASE i = ix /\ j # ix
    <3>1. \A k \in DOMAIN o : <<o[k], d>> \notin cs
      BY <1>1, <1>5, <2>2
    <3>2. QED BY <1>1, <1>2, <1>3, <2>2, <3>1
  <2>3. CASE i # ix /\ j = ix
    <3>1. ix <= was(i)
      BY <1>2, <1>4, <1>5, <2>3
    <3>2. QED BY <1>1, <1>2, <1>3, <2>3, <3>1
  <2>4. CASE i = ix /\ j = ix
    BY <1>5, <2>4
  <2>5. QED BY <2>1, <2>2, <2>3, <2>4
<1>11. QED BY <1>3, <1>8, <1>9, <1>10 DEF InOrder, new

-----------------------------------------------------------------------------
(* The order of a table.                                                   *)

\* The recursive definition defines something.
LEMMA BuiltIs ==
  ASSUME NEW cs, NEW T, NEW table \in Seq(T)
  PROVE  /\ DOMAIN Built(cs, table) = 0 .. Len(table)
         /\ Built(cs, table)[0] = <<>>
         /\ \A n \in 1 .. Len(table) :
              Built(cs, table)[n] = Insert(cs, Built(cs, table)[n - 1], table[n])
<1> DEFINE Step(g, n) == IF n = 0 THEN <<>> ELSE Insert(cs, g[n - 1], table[n])
           Defined == {N \in 0 .. Len(table) : \E g : g = [n \in 0 .. N |-> Step(g, n)]}
<1>1. Len(table) \in Nat
  OBVIOUS
<1>2. 0 \in Defined
  <2> DEFINE g == [n \in 0 .. 0 |-> <<>>]
  <2>1. g = [n \in 0 .. 0 |-> Step(g, n)]
    OBVIOUS
  <2> HIDE DEF g, Step
  <2>2. QED BY <1>1, <2>1
<1>3. ASSUME NEW N \in 1 .. Len(table), N - 1 \in Defined PROVE N \in Defined
  <2>1. PICK g : g = [n \in 0 .. N - 1 |-> Step(g, n)]
    BY <1>3
  <2> DEFINE h == [n \in 0 .. N |-> IF n = N THEN Insert(cs, g[N - 1], table[N]) ELSE g[n]]
  <2>2. \A n \in 0 .. N : h[n] = Step(h, n)
    <3> SUFFICES ASSUME NEW n \in 0 .. N PROVE h[n] = Step(h, n)
      OBVIOUS
    <3>1. CASE n = N
      <4>1. h[n - 1] = g[N - 1]
        BY <1>1, <3>1
      <4>2. QED BY <1>1, <3>1, <4>1
    <3>2. CASE n # N
      <4>1. n \in 0 .. N - 1 /\ h[n] = g[n]
        BY <1>1, <3>2
      <4>2. g[n] = Step(g, n)
        <5> HIDE DEF Step
        <5>1. QED BY <2>1, <4>1
      <4>3. n # 0 => h[n - 1] = g[n - 1]
        BY <1>1, <4>1
      <4>4. QED BY <4>1, <4>2, <4>3
    <3>3. QED BY <3>1, <3>2
  <2>3. h = [n \in 0 .. N |-> Step(h, n)]
    <3> HIDE DEF Step
    <3>1. QED BY <2>2
  <2> HIDE DEF h, Step
  <2>4. N \in 0 .. Len(table)
    BY <1>1
  <2>5. QED BY <2>3, <2>4
<1>4. Len(table) \in Defined
  <2> HIDE DEF Defined
  <2>1. \A n \in 1 .. Len(table) : n - 1 \in Defined => n \in Defined
    BY <1>3
  <2>2. Len(table) \in 0 .. Len(table)
    BY <1>1
  <2>3. \A n \in 0 .. Len(table) : n \in Defined
    BY ONLY <1>1, <1>2, <2>1, InductionUpTo
  <2>4. QED BY ONLY <2>2, <2>3
<1>5. \E g : g = [n \in 0 .. Len(table) |-> Step(g, n)]
  <2> HIDE DEF Step
  <2>1. QED BY <1>4
<1>6. Built(cs, table) = CHOOSE g : g = [n \in 0 .. Len(table) |-> Step(g, n)]
  BY DEF Built
<1>7. Built(cs, table) = [n \in 0 .. Len(table) |-> Step(Built(cs, table), n)]
  <2> HIDE DEF Step
  <2>1. QED BY <1>5, <1>6
<1>8. DOMAIN Built(cs, table) = 0 .. Len(table)
  <2> HIDE DEF Step
  <2>1. QED BY <1>7
<1>9. \A n \in 0 .. Len(table) : Built(cs, table)[n] = Step(Built(cs, table), n)
  <2> HIDE DEF Step
  <2>1. QED BY <1>7
<1>10. Built(cs, table)[0] = <<>>
  BY <1>1, <1>9
<1>11. ASSUME NEW n \in 1 .. Len(table)
       PROVE  Built(cs, table)[n] = Insert(cs, Built(cs, table)[n - 1], table[n])
  <2>1. n \in 0 .. Len(table) /\ n # 0
    BY <1>1
  <2>2. QED BY <1>9, <2>1
<1>12. QED BY <1>8, <1>10, <1>11

\* Every device once, the readers of a source before it, in whatever order the table
\* has them, and whatever cycles are among the connections.
THEOREM OrdersAreOrders ==
  ASSUME NEW ds, IsFiniteSet(ds), NEW cs, NEW o \in Orders(ds, cs)
  PROVE  InOrder(ds, cs, o, ds)
<1>1. PICK table \in SetToSeqs(ds) : o = Built(cs, table)[Len(table)]
  BY DEF Orders
<1>2. Cardinality(ds) \in Nat
  BY FS_CardinalityType
<1>3. /\ table \in [1 .. Cardinality(ds) -> ds]
      /\ \A i, j \in 1 .. Cardinality(ds) : i # j => table[i] # table[j]
  BY DEF SetToSeqs
<1>4. table \in Seq(ds) /\ Len(table) = Cardinality(ds)
  BY <1>2, <1>3
<1> DEFINE Done(n) == {table[i] : i \in 1 .. n}
           Ordered == {n \in 0 .. Len(table) : InOrder(ds, cs, Built(cs, table)[n], Done(n))}
<1>5. 0 \in Ordered
  <2>1. Done(0) = {}
    OBVIOUS
  <2>2. InOrder(ds, cs, <<>>, {})
    BY DEF InOrder, IsInjective, ToSet, ReadersFirst
  <2> HIDE DEF Done
  <2>3. QED BY <1>2, <1>4, <2>1, <2>2, BuiltIs
<1>6. ASSUME NEW n \in 1 .. Len(table), n - 1 \in Ordered PROVE n \in Ordered
  <2>1. InOrder(ds, cs, Built(cs, table)[n - 1], Done(n - 1))
    BY <1>6
  <2>2. table[n] \in ds /\ table[n] \notin Done(n - 1)
    BY <1>2, <1>3, <1>4
  <2>3. Done(n) = Done(n - 1) \cup {table[n]}
    BY <1>2, <1>4
  <2> HIDE DEF Done
  <2>4. InOrder(ds, cs, Insert(cs, Built(cs, table)[n - 1], table[n]), Done(n))
    BY <2>1, <2>2, <2>3, InsertKeepsOrder
  <2>5. QED BY <1>2, <1>4, <2>4, BuiltIs
<1>7. Len(table) \in Ordered
  <2>1. Len(table) \in Nat /\ Len(table) \in 0 .. Len(table)
    BY <1>4
  <2> HIDE DEF Ordered
  <2>2. \A n \in 0 .. Len(table) : n \in Ordered
    BY <1>5, <1>6, <2>1, InductionUpTo
  <2>3. QED BY <2>1, <2>2
<1>8. Done(Len(table)) = ds
  <2>1. table \in Injection(1 .. Cardinality(ds), ds)
    BY <1>3 DEF Injection, IsInjective
  <2>2. Cardinality(1 .. Cardinality(ds)) = Cardinality(ds)
    BY <1>2, FS_Interval
  <2>3. table \in Surjection(1 .. Cardinality(ds), ds)
    BY <2>1, <2>2, FS_Injection
  <2>4. QED BY <1>4, <2>3 DEF Surjection
<1>9. QED BY <1>1, <1>7, <1>8

\* There is one.
LEMMA OrdersExist ==
  ASSUME NEW ds, IsFiniteSet(ds), NEW cs
  PROVE  Orders(ds, cs) # {}
<1>1. PICK f \in Bijection(1 .. Cardinality(ds), ds) : TRUE
  BY FS_CardinalityType DEF ExistsBijection
<1>2. f \in SetToSeqs(ds)
  BY <1>1 DEF SetToSeqs, Bijection, Injection, IsInjective
<1>3. QED BY <1>2 DEF Orders
=============================================================================
