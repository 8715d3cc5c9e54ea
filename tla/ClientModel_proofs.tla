------------------------- MODULE ClientModel_proofs -------------------------
(***************************************************************************)
(* Theorems of ClientModel, for any finite sets of ids and any bounds.     *)
(***************************************************************************)
EXTENDS ClientModel, TLAPS

-----------------------------------------------------------------------------
(* Tables.                                                                 *)

Table(keys, rows) == UNION {[D -> rows] : D \in SUBSET keys}

Models == [groups    : Table(Groups, GroupRecords),
           sandboxes : Table(Sandboxes, SandboxRecords),
           devices   : Table(Devices, DeviceRecords)]

LEMMA TableFacts ==
  ASSUME NEW keys, NEW rows, NEW t \in Table(keys, rows)
  PROVE  /\ t \in [DOMAIN t -> rows]
         /\ DOMAIN t \subseteq keys
         /\ \A k \in DOMAIN t : t[k] \in rows
  BY DEF Table

LEMMA IsTable ==
  ASSUME NEW keys, NEW rows, NEW t, NEW D \in SUBSET keys, t \in [D -> rows]
  PROVE  t \in Table(keys, rows) /\ DOMAIN t = D
  BY DEF Table

LEMMA PutIsTable ==
  ASSUME NEW keys, NEW rows, NEW t \in Table(keys, rows), NEW k \in keys, NEW r \in rows
  PROVE  Put(t, k, r) \in Table(keys, rows)
<1>1. Put(t, k, r) \in [DOMAIN t \cup {k} -> rows]
  BY TableFacts DEF Put
<1>2. DOMAIN t \cup {k} \in SUBSET keys
  BY TableFacts
<1> QED
  BY <1>1, <1>2, IsTable DEF Put

LEMMA DropIsTable ==
  ASSUME NEW keys, NEW rows, NEW t \in Table(keys, rows), NEW k
  PROVE  Drop(t, k) \in Table(keys, rows)
<1>1. Drop(t, k) \in [DOMAIN t \ {k} -> rows]
  BY TableFacts DEF Drop
<1>2. DOMAIN t \ {k} \in SUBSET keys
  BY TableFacts
<1> QED
  BY <1>1, <1>2, IsTable DEF Drop

LEMMA RowFacts ==
  ASSUME NEW keys, NEW rows, NEW t \in Table(keys, rows), NEW k \in DOMAIN t, NEW r \in rows
  PROVE  /\ [t EXCEPT ![k] = r] \in Table(keys, rows)
         /\ DOMAIN [t EXCEPT ![k] = r] = DOMAIN t
         /\ [t EXCEPT ![k] = r][k] = r
         /\ \A j \in DOMAIN t \ {k} : [t EXCEPT ![k] = r][j] = t[j]
<1>1. [t EXCEPT ![k] = r] \in [DOMAIN t -> rows]
  BY TableFacts
<1> QED
  BY <1>1, TableFacts, IsTable

LEMMA ModelTables ==
  ASSUME NEW m \in Models
  PROVE  /\ m.groups \in Table(Groups, GroupRecords)
         /\ m.sandboxes \in Table(Sandboxes, SandboxRecords)
         /\ m.devices \in Table(Devices, DeviceRecords)
         /\ DOMAIN m.groups \subseteq Groups /\ DOMAIN m.sandboxes \subseteq Sandboxes
         /\ DOMAIN m.devices \subseteq Devices
         /\ \A g \in DOMAIN m.groups : m.groups[g] \in GroupRecords
         /\ \A s \in DOMAIN m.sandboxes : m.sandboxes[s] \in SandboxRecords
         /\ \A d \in DOMAIN m.devices : m.devices[d] \in DeviceRecords
  BY TableFacts DEF Models

-----------------------------------------------------------------------------
(* What holds of a model that nothing has broken.                          *)

Marked(m) ==
  /\ \A g \in DOMAIN m.groups : m.groups[g].marked => m.groups[g].sandboxes # {}
  /\ \A s \in DOMAIN m.sandboxes : m.sandboxes[s].marked => m.sandboxes[s].devices # {}

\* While sandbox s is being erased.
MarkedBut(m, s) ==
  /\ \A g \in DOMAIN m.groups : m.groups[g].marked => m.groups[g].sandboxes # {}
  /\ \A r \in DOMAIN m.sandboxes \ {s} : m.sandboxes[r].marked => m.sandboxes[r].devices # {}

Resolved(m) ==
  \A g \in DOMAIN m.groups : \A c \in m.groups[g].conns :
    /\ {c[1], c[2]} \subseteq DOMAIN m.devices
    /\ m.devices[c[1]].sbox # m.devices[c[2]].sbox
    /\ {m.devices[c[1]].sbox, m.devices[c[2]].sbox} \subseteq m.groups[g].sandboxes

Good(m) == m \in Models /\ Contained(m) /\ Marked(m)

-----------------------------------------------------------------------------
(* Changes to rows that none of this depends on.                           *)

Similar(m, n) ==
  /\ n.groups = m.groups
  /\ DOMAIN n.sandboxes = DOMAIN m.sandboxes
  /\ \A s \in DOMAIN m.sandboxes :
       /\ n.sandboxes[s].group = m.sandboxes[s].group
       /\ n.sandboxes[s].marked = m.sandboxes[s].marked
       /\ n.sandboxes[s].devices = m.sandboxes[s].devices
  /\ DOMAIN n.devices = DOMAIN m.devices
  /\ \A d \in DOMAIN m.devices : n.devices[d].sbox = m.devices[d].sbox

LEMMA SimilarIsGood ==
  ASSUME NEW m, NEW n \in Models, Good(m), Similar(m, n)
  PROVE  Good(n) /\ Ids(n) = Ids(m) /\ (Resolved(m) => Resolved(n))
<1>1. Contained(n)
  BY DEF Good, Contained, Similar
<1>2. Marked(n)
  BY DEF Good, Marked, Similar
<1>3. Ids(n) = Ids(m)
  BY DEF Ids, Similar
<1>4. Resolved(m) => Resolved(n)
  BY DEF Resolved, Similar
<1> QED
  BY <1>1, <1>2, <1>3, <1>4 DEF Good

-----------------------------------------------------------------------------
(* One lemma for each change to the tables.                                *)

LEMMA GroupAdded ==
  ASSUME NEW m, Good(m), NEW g \in Groups \ DOMAIN m.groups
  PROVE  LET n == [m EXCEPT !.groups = Put(@, g, NewGroup)] IN
         Good(n) /\ Ids(n) = Ids(m) \cup {g} /\ (Resolved(m) => Resolved(n))
<1> DEFINE n == [m EXCEPT !.groups = Put(@, g, NewGroup)]
<1>1. m \in Models /\ NewGroup \in GroupRecords
  BY DEF Good, NewGroup, GroupRecords
<1>2. n.groups = Put(m.groups, g, NewGroup) /\ n.sandboxes = m.sandboxes /\ n.devices = m.devices
  BY <1>1 DEF Models
<1>3. /\ DOMAIN n.groups = DOMAIN m.groups \cup {g}
      /\ n.groups[g] = NewGroup
      /\ \A h \in DOMAIN m.groups : n.groups[h] = m.groups[h]
  BY <1>2 DEF Put
<1>3a. n.groups \in Table(Groups, GroupRecords)
  BY <1>1, <1>2, ModelTables, PutIsTable
<1>4. n \in Models
  BY <1>1, <1>3a DEF Models
<1>5. NewGroup.sandboxes = {} /\ ~NewGroup.marked /\ NewGroup.conns = {}
  BY DEF NewGroup
<1> HIDE DEF n
<1>6. Contained(n)
  BY <1>2, <1>3, <1>5 DEF Good, Contained
<1>7. Marked(n)
  BY <1>2, <1>3, <1>5 DEF Good, Marked
<1>8. Ids(n) = Ids(m) \cup {g}
  BY <1>2, <1>3 DEF Ids
<1>9. Resolved(m) => Resolved(n)
  BY <1>2, <1>3, <1>5 DEF Resolved
<1> QED
  BY <1>4, <1>6, <1>7, <1>8, <1>9 DEF Good, n

LEMMA SandboxAdded ==
  ASSUME NEW m, Good(m), NEW s \in Sandboxes \ DOMAIN m.sandboxes, NEW g \in DOMAIN m.groups
  PROVE  LET n == AddSandbox(m, s, g) IN
         Good(n) /\ Ids(n) = Ids(m) \cup {s} /\ (Resolved(m) => Resolved(n))
<1> DEFINE n == AddSandbox(m, s, g)
           row == [m.groups[g] EXCEPT !.sandboxes = @ \cup {s}]
<1>1. m \in Models /\ g \in Groups /\ m.groups[g] \in GroupRecords
  BY ModelTables DEF Good
<1>2. NewSandbox(g) \in SandboxRecords
  BY <1>1 DEF NewSandbox, SandboxRecords
<1>3. /\ row \in GroupRecords /\ row.sandboxes = m.groups[g].sandboxes \cup {s}
      /\ row.conns = m.groups[g].conns /\ row.marked = m.groups[g].marked
  BY <1>1 DEF GroupRecords
<1> HIDE DEF row
<1>4. /\ n.groups = [m.groups EXCEPT ![g] = row] /\ n.devices = m.devices
      /\ n.sandboxes = Put(m.sandboxes, s, NewSandbox(g))
  BY <1>1 DEF Models, AddSandbox, row
<1>5. /\ DOMAIN n.groups = DOMAIN m.groups
      /\ n.groups[g] = row
      /\ \A h \in DOMAIN m.groups \ {g} : n.groups[h] = m.groups[h]
      /\ n.groups \in Table(Groups, GroupRecords)
  BY <1>1, <1>3, <1>4, ModelTables, RowFacts
<1>6. /\ DOMAIN n.sandboxes = DOMAIN m.sandboxes \cup {s}
      /\ n.sandboxes[s] = NewSandbox(g)
      /\ \A r \in DOMAIN m.sandboxes : n.sandboxes[r] = m.sandboxes[r]
  BY <1>4 DEF Put
<1>6a. n.sandboxes \in Table(Sandboxes, SandboxRecords)
  BY <1>1, <1>2, <1>4, ModelTables, PutIsTable
<1>7. n \in Models
  BY <1>1, <1>4, <1>5, <1>6a DEF Models, AddSandbox
<1>8. NewSandbox(g).group = g /\ NewSandbox(g).devices = {} /\ ~NewSandbox(g).marked
  BY DEF NewSandbox
<1> HIDE DEF n
<1>9. Contained(n)
  BY <1>3, <1>4, <1>5, <1>6, <1>8 DEF Good, Contained
<1>10. Marked(n)
  BY <1>3, <1>4, <1>5, <1>6, <1>8 DEF Good, Marked
<1>11. Ids(n) = Ids(m) \cup {s}
  BY <1>4, <1>5, <1>6 DEF Ids
<1>12. Resolved(m) => Resolved(n)
  BY <1>3, <1>4, <1>5 DEF Resolved
<1> QED
  BY <1>7, <1>9, <1>10, <1>11, <1>12 DEF Good, n

LEMMA GroupRow ==
  ASSUME NEW m \in Models, NEW g \in DOMAIN m.groups, NEW row \in GroupRecords, NEW n,
         n = [m EXCEPT !.groups = [m.groups EXCEPT ![g] = row]]
  PROVE  /\ n \in Models /\ n.sandboxes = m.sandboxes /\ n.devices = m.devices
         /\ DOMAIN n.groups = DOMAIN m.groups /\ n.groups[g] = row
         /\ \A h \in DOMAIN m.groups \ {g} : n.groups[h] = m.groups[h]
<1>1. /\ n.groups = [m.groups EXCEPT ![g] = row]
      /\ n.sandboxes = m.sandboxes /\ n.devices = m.devices
  BY DEF Models
<1>2. n.groups \in Table(Groups, GroupRecords)
  BY <1>1, ModelTables, RowFacts
<1>3. n \in Models
  BY <1>1, <1>2 DEF Models
<1> QED
  BY <1>1, <1>3, ModelTables, TableFacts

LEMMA SandboxRow ==
  ASSUME NEW m \in Models, NEW s \in DOMAIN m.sandboxes, NEW row \in SandboxRecords, NEW n,
         n = [m EXCEPT !.sandboxes = [m.sandboxes EXCEPT ![s] = row]]
  PROVE  /\ n \in Models /\ n.groups = m.groups /\ n.devices = m.devices
         /\ DOMAIN n.sandboxes = DOMAIN m.sandboxes /\ n.sandboxes[s] = row
         /\ \A r \in DOMAIN m.sandboxes \ {s} : n.sandboxes[r] = m.sandboxes[r]
<1>1. /\ n.sandboxes = [m.sandboxes EXCEPT ![s] = row]
      /\ n.groups = m.groups /\ n.devices = m.devices
  BY DEF Models
<1>2. n.sandboxes \in Table(Sandboxes, SandboxRecords)
  BY <1>1, ModelTables, RowFacts
<1>3. n \in Models
  BY <1>1, <1>2 DEF Models
<1> QED
  BY <1>1, <1>3, ModelTables, TableFacts

LEMMA DeviceAdded ==
  ASSUME NEW m, Good(m), NEW d \in Devices \ DOMAIN m.devices, NEW dev \in DeviceRecords,
         dev.sbox \in DOMAIN m.sandboxes
  PROVE  LET n == AddDevice(m, d, dev) IN
         Good(n) /\ Ids(n) = Ids(m) \cup {d} /\ (Resolved(m) => Resolved(n))
<1> DEFINE n == AddDevice(m, d, dev)
           s == dev.sbox
           row == [m.sandboxes[s] EXCEPT !.devices = @ \cup {d}]
<1>1. m \in Models /\ s \in DOMAIN m.sandboxes /\ m.sandboxes[s] \in SandboxRecords
  BY ModelTables DEF Good
<1>2. /\ row \in SandboxRecords /\ row.devices = m.sandboxes[s].devices \cup {d}
      /\ row.group = m.sandboxes[s].group /\ row.marked = m.sandboxes[s].marked
  BY <1>1 DEF SandboxRecords
<1> HIDE DEF row
<1>3. /\ n.sandboxes = [m.sandboxes EXCEPT ![s] = row] /\ n.groups = m.groups
      /\ n.devices = Put(m.devices, d, dev)
  <2>1. n = [m EXCEPT !.sandboxes = WithDevice(@, s, d), !.devices = Put(@, d, dev)]
    BY DEF AddDevice
  <2>2. WithDevice(m.sandboxes, s, d) = [m.sandboxes EXCEPT ![s] = row]
    BY <1>1 DEF WithDevice, row
  <2> HIDE DEF n
  <2> QED
    BY <1>1, <2>1, <2>2 DEF Models
<1> HIDE DEF s
<1>4. /\ DOMAIN n.sandboxes = DOMAIN m.sandboxes
      /\ n.sandboxes[s] = row
      /\ \A r \in DOMAIN m.sandboxes \ {s} : n.sandboxes[r] = m.sandboxes[r]
      /\ n.sandboxes \in Table(Sandboxes, SandboxRecords)
  BY <1>1, <1>2, <1>3, ModelTables, RowFacts
<1>5. /\ DOMAIN n.devices = DOMAIN m.devices \cup {d}
      /\ n.devices[d] = dev
      /\ \A e \in DOMAIN m.devices : n.devices[e] = m.devices[e]
  BY <1>3 DEF Put
<1>6. n.devices \in Table(Devices, DeviceRecords)
  BY <1>1, <1>3, ModelTables, PutIsTable
<1>7. n \in Models
  BY <1>1, <1>3, <1>4, <1>6 DEF Models, AddDevice
<1>8. dev.sbox = s
  BY DEF s
<1> HIDE DEF n
<1>9. Contained(n)
  BY <1>1, <1>2, <1>3, <1>4, <1>5, <1>8 DEF Good, Contained
<1>10. Marked(n)
  BY <1>2, <1>3, <1>4 DEF Good, Marked
<1>11. Ids(n) = Ids(m) \cup {d}
  BY <1>3, <1>4, <1>5 DEF Ids
<1>12. Resolved(m) => Resolved(n)
  BY <1>3, <1>5 DEF Resolved
<1> QED
  BY <1>7, <1>9, <1>10, <1>11, <1>12 DEF Good, n

\* Connections between two sandboxes of the group, or fewer connections.
LEMMA ConnsChanged ==
  ASSUME NEW m, Good(m), NEW g \in DOMAIN m.groups, NEW conns \in SUBSET (Devices \X Devices),
         \A c \in conns \ m.groups[g].conns :
           /\ {c[1], c[2]} \subseteq DOMAIN m.devices
           /\ m.devices[c[1]].sbox # m.devices[c[2]].sbox
           /\ {m.devices[c[1]].sbox, m.devices[c[2]].sbox} \subseteq m.groups[g].sandboxes
  PROVE  LET n == [m EXCEPT !.groups[g].conns = conns] IN
         Good(n) /\ Ids(n) = Ids(m) /\ (Resolved(m) => Resolved(n))
<1> DEFINE n == [m EXCEPT !.groups[g].conns = conns]
           row == [m.groups[g] EXCEPT !.conns = conns]
<1>1. m \in Models /\ m.groups[g] \in GroupRecords
  BY ModelTables DEF Good
<1>2. /\ row \in GroupRecords /\ row.conns = conns
      /\ row.marked = m.groups[g].marked /\ row.sandboxes = m.groups[g].sandboxes
  BY <1>1 DEF GroupRecords
<1>3. n = [m EXCEPT !.groups = [m.groups EXCEPT ![g] = row]]
  OBVIOUS
<1> HIDE DEF row, n
<1>4. /\ n \in Models /\ n.sandboxes = m.sandboxes /\ n.devices = m.devices
      /\ DOMAIN n.groups = DOMAIN m.groups /\ n.groups[g] = row
      /\ \A h \in DOMAIN m.groups \ {g} : n.groups[h] = m.groups[h]
  BY <1>1, <1>2, <1>3, GroupRow
<1>5. Contained(n)
  BY <1>2, <1>4 DEF Good, Contained
<1>6. Marked(n)
  BY <1>2, <1>4 DEF Good, Marked
<1>7. Ids(n) = Ids(m)
  BY <1>4 DEF Ids
<1>8. Resolved(m) => Resolved(n)
  BY <1>2, <1>4 DEF Resolved
<1> QED
  BY <1>4, <1>5, <1>6, <1>7, <1>8 DEF Good, n

LEMMA GroupMarked ==
  ASSUME NEW m, Good(m), NEW g \in DOMAIN m.groups, m.groups[g].sandboxes # {}
  PROVE  LET n == [m EXCEPT !.groups[g].marked = TRUE] IN
         Good(n) /\ Ids(n) = Ids(m) /\ (Resolved(m) => Resolved(n))
<1> DEFINE n == [m EXCEPT !.groups[g].marked = TRUE]
           row == [m.groups[g] EXCEPT !.marked = TRUE]
<1>1. m \in Models /\ m.groups[g] \in GroupRecords
  BY ModelTables DEF Good
<1>2. /\ row \in GroupRecords /\ row.conns = m.groups[g].conns
      /\ row.sandboxes = m.groups[g].sandboxes
  BY <1>1 DEF GroupRecords
<1>3. n = [m EXCEPT !.groups = [m.groups EXCEPT ![g] = row]]
  OBVIOUS
<1> HIDE DEF row, n
<1>4. /\ n \in Models /\ n.sandboxes = m.sandboxes /\ n.devices = m.devices
      /\ DOMAIN n.groups = DOMAIN m.groups /\ n.groups[g] = row
      /\ \A h \in DOMAIN m.groups \ {g} : n.groups[h] = m.groups[h]
  BY <1>1, <1>2, <1>3, GroupRow
<1>5. Contained(n)
  BY <1>2, <1>4 DEF Good, Contained
<1>6. Marked(n)
  BY <1>2, <1>4 DEF Good, Marked
<1>7. Ids(n) = Ids(m)
  BY <1>4 DEF Ids
<1>8. Resolved(m) => Resolved(n)
  BY <1>2, <1>4 DEF Resolved
<1> QED
  BY <1>4, <1>5, <1>6, <1>7, <1>8 DEF Good, n

LEMMA SandboxMarked ==
  ASSUME NEW m, Good(m), NEW s \in DOMAIN m.sandboxes, m.sandboxes[s].devices # {}
  PROVE  LET n == [m EXCEPT !.sandboxes[s].marked = TRUE] IN
         Good(n) /\ Ids(n) = Ids(m) /\ (Resolved(m) => Resolved(n))
<1> DEFINE n == [m EXCEPT !.sandboxes[s].marked = TRUE]
           row == [m.sandboxes[s] EXCEPT !.marked = TRUE]
<1>1. m \in Models /\ m.sandboxes[s] \in SandboxRecords
  BY ModelTables DEF Good
<1>2. /\ row \in SandboxRecords /\ row.group = m.sandboxes[s].group
      /\ row.devices = m.sandboxes[s].devices
  BY <1>1 DEF SandboxRecords
<1>3. n = [m EXCEPT !.sandboxes = [m.sandboxes EXCEPT ![s] = row]]
  OBVIOUS
<1> HIDE DEF row, n
<1>4. /\ n \in Models /\ n.groups = m.groups /\ n.devices = m.devices
      /\ DOMAIN n.sandboxes = DOMAIN m.sandboxes /\ n.sandboxes[s] = row
      /\ \A r \in DOMAIN m.sandboxes \ {s} : n.sandboxes[r] = m.sandboxes[r]
  BY <1>1, <1>2, <1>3, SandboxRow
<1>5. Contained(n)
  BY <1>2, <1>4 DEF Good, Contained
<1>6. Marked(n)
  BY <1>2, <1>4 DEF Good, Marked
<1>7. Ids(n) = Ids(m)
  BY <1>4 DEF Ids
<1>8. Resolved(m) => Resolved(n)
  BY <1>4 DEF Resolved
<1> QED
  BY <1>4, <1>5, <1>6, <1>7, <1>8 DEF Good, n

LEMMA GroupDropped ==
  ASSUME NEW m \in Models, Contained(m), NEW g \in DOMAIN m.groups,
         m.groups[g].sandboxes = {}
  PROVE  LET n == [m EXCEPT !.groups = Drop(@, g)] IN
         /\ n \in Models /\ Contained(n) /\ Ids(n) \subseteq Ids(m)
         /\ n.sandboxes = m.sandboxes /\ n.devices = m.devices
         /\ DOMAIN n.groups = DOMAIN m.groups \ {g}
         /\ \A h \in DOMAIN n.groups : n.groups[h] = m.groups[h]
         /\ Resolved(m) => Resolved(n)
<1> DEFINE n == [m EXCEPT !.groups = Drop(@, g)]
<1>1. n.groups = Drop(m.groups, g) /\ n.sandboxes = m.sandboxes /\ n.devices = m.devices
  BY DEF Models
<1>2. DOMAIN n.groups = DOMAIN m.groups \ {g} /\ \A h \in DOMAIN n.groups : n.groups[h] = m.groups[h]
  BY <1>1 DEF Drop
<1>3. n.groups \in Table(Groups, GroupRecords)
  BY <1>1, ModelTables, DropIsTable
<1>4. n \in Models
  BY <1>1, <1>3 DEF Models
<1> HIDE DEF n
<1>5. Contained(n)
  BY <1>1, <1>2 DEF Contained
<1>6. Ids(n) \subseteq Ids(m)
  BY <1>1, <1>2 DEF Ids
<1>7. Resolved(m) => Resolved(n)
  BY <1>1, <1>2 DEF Resolved
<1> QED
  BY <1>1, <1>2, <1>4, <1>5, <1>6, <1>7 DEF n

LEMMA SandboxErased ==
  ASSUME NEW m \in Models, Contained(m), NEW s \in DOMAIN m.sandboxes,
         m.sandboxes[s].devices = {}, MarkedBut(m, s)
  PROVE  LET n == EraseSandbox(m, s) IN
         Good(n) /\ Ids(n) \subseteq Ids(m) /\ (Resolved(m) => Resolved(n))
<1> DEFINE n == EraseSandbox(m, s)
           g == m.sandboxes[s].group
           row == [m.groups[g] EXCEPT !.sandboxes = @ \ {s}]
           removed == [m EXCEPT !.sandboxes = Drop(@, s), !.groups[g].sandboxes = @ \ {s}]
<1>1. g \in DOMAIN m.groups /\ m.groups[g] \in GroupRecords
  BY ModelTables DEF Contained
<1>2. /\ row \in GroupRecords /\ row.sandboxes = m.groups[g].sandboxes \ {s}
      /\ row.conns = m.groups[g].conns /\ row.marked = m.groups[g].marked
  BY <1>1 DEF GroupRecords
<1>3. n = IF removed.groups[g].marked /\ removed.groups[g].sandboxes = {}
          THEN [removed EXCEPT !.groups = Drop(@, g)]
          ELSE removed
  BY DEF EraseSandbox
<1>4. \A d \in DOMAIN m.devices : m.devices[d].sbox # s
  BY DEF Contained
<1> HIDE DEF row, n
<1>5. /\ removed.groups = [m.groups EXCEPT ![g] = row] /\ removed.devices = m.devices
      /\ removed.sandboxes = Drop(m.sandboxes, s)
  BY <1>1 DEF Models, row
<1>6. /\ DOMAIN removed.sandboxes = DOMAIN m.sandboxes \ {s}
      /\ \A r \in DOMAIN removed.sandboxes : removed.sandboxes[r] = m.sandboxes[r]
  BY <1>5 DEF Drop
<1>7. removed.sandboxes \in Table(Sandboxes, SandboxRecords)
  <2>1. m.sandboxes \in Table(Sandboxes, SandboxRecords)
    BY ModelTables
  <2>2. Drop(m.sandboxes, s) \in Table(Sandboxes, SandboxRecords)
    BY ONLY <2>1, DropIsTable
  <2> HIDE DEF removed
  <2>3. QED BY <1>5, <2>2
<1> HIDE DEF g
<1>8. /\ DOMAIN removed.groups = DOMAIN m.groups
      /\ removed.groups[g] = row
      /\ \A h \in DOMAIN m.groups \ {g} : removed.groups[h] = m.groups[h]
      /\ removed.groups \in Table(Groups, GroupRecords)
  BY <1>1, <1>2, <1>5, ModelTables, RowFacts
<1>9. removed \in Models
  BY <1>5, <1>7, <1>8 DEF Models
<1> HIDE DEF removed
<1>10. Contained(removed)
  <2>1. \A h \in DOMAIN removed.groups :
          removed.groups[h].sandboxes = {r \in DOMAIN removed.sandboxes : removed.sandboxes[r].group = h}
    <3>1. \A h \in DOMAIN m.groups :
            m.groups[h].sandboxes = {r \in DOMAIN m.sandboxes : m.sandboxes[r].group = h}
      BY DEF Contained
    <3>2. m.sandboxes[s].group = g
      BY DEF g
    <3>3. ASSUME NEW h \in DOMAIN m.groups
          PROVE  {r \in DOMAIN removed.sandboxes : removed.sandboxes[r].group = h}
                   = IF h = g THEN m.groups[g].sandboxes \ {s} ELSE m.groups[h].sandboxes
      BY ONLY <1>6, <3>1, <3>2, <3>3
    <3>4. \A h \in DOMAIN m.groups :
            removed.groups[h].sandboxes
              = IF h = g THEN m.groups[g].sandboxes \ {s} ELSE m.groups[h].sandboxes
      BY ONLY <1>1, <1>2, <1>8
    <3>5. QED BY ONLY <1>8, <3>3, <3>4
  <2>2. \A r \in DOMAIN removed.sandboxes :
          /\ removed.sandboxes[r].group \in DOMAIN removed.groups
          /\ removed.sandboxes[r].devices
               = {d \in DOMAIN removed.devices : removed.devices[d].sbox = r}
    BY <1>5, <1>6, <1>8 DEF Contained
  <2>3. \A d \in DOMAIN removed.devices : removed.devices[d].sbox \in DOMAIN removed.sandboxes
    BY <1>4, <1>5, <1>6 DEF Contained
  <2> QED
    BY <2>1, <2>2, <2>3 DEF Contained
<1>11. Ids(removed) \subseteq Ids(m)
  BY <1>5, <1>6, <1>8 DEF Ids
<1>12. Resolved(m) => Resolved(removed)
  BY <1>2, <1>4, <1>5, <1>8 DEF Resolved
<1>13. /\ \A r \in DOMAIN removed.sandboxes :
            removed.sandboxes[r].marked => removed.sandboxes[r].devices # {}
       /\ \A h \in DOMAIN m.groups \ {g} :
            removed.groups[h].marked => removed.groups[h].sandboxes # {}
  BY <1>6, <1>8 DEF MarkedBut
<1>14. CASE removed.groups[g].marked /\ removed.groups[g].sandboxes = {}
  <2>1. n = [removed EXCEPT !.groups = Drop(@, g)]
    BY <1>3, <1>14
  <2>2. /\ n \in Models /\ Contained(n) /\ Ids(n) \subseteq Ids(removed)
        /\ n.sandboxes = removed.sandboxes
        /\ DOMAIN n.groups = DOMAIN removed.groups \ {g}
        /\ \A h \in DOMAIN n.groups : n.groups[h] = removed.groups[h]
        /\ Resolved(removed) => Resolved(n)
    BY <1>1, <1>8, <1>9, <1>10, <1>14, <2>1, GroupDropped, SMTT(30)
  <2>3. Marked(n)
    BY <1>8, <1>13, <2>2 DEF Marked
  <2> QED
    BY <1>11, <1>12, <2>2, <2>3 DEF Good, n
<1>15. CASE ~(removed.groups[g].marked /\ removed.groups[g].sandboxes = {})
  <2>1. n = removed
    BY <1>3, <1>15
  <2>2. Marked(removed)
    BY <1>8, <1>13, <1>15 DEF Marked
  <2> QED
    BY <1>9, <1>10, <1>11, <1>12, <2>1, <2>2 DEF Good, n
<1> QED
  BY <1>14, <1>15

LEMMA DeviceErased ==
  ASSUME NEW m, Good(m), NEW d \in DOMAIN m.devices
  PROVE  LET n == EraseDevice(m, d) IN
         Good(n) /\ Ids(n) \subseteq Ids(m) /\ (Resolved(m) /\ ~Connected(m, d) => Resolved(n))
<1> DEFINE n == EraseDevice(m, d)
           s == m.devices[d].sbox
           row == [m.sandboxes[s] EXCEPT !.devices = @ \ {d}]
           removed == [m EXCEPT !.devices = Drop(@, d), !.sandboxes[s].devices = @ \ {d}]
<1>1. m \in Models /\ s \in DOMAIN m.sandboxes /\ m.sandboxes[s] \in SandboxRecords
  BY ModelTables DEF Good, Contained
<1>2. /\ row \in SandboxRecords /\ row.devices = m.sandboxes[s].devices \ {d}
      /\ row.group = m.sandboxes[s].group /\ row.marked = m.sandboxes[s].marked
  BY <1>1 DEF SandboxRecords
<1>3. n = IF removed.sandboxes[s].marked /\ removed.sandboxes[s].devices = {}
          THEN EraseSandbox(removed, s)
          ELSE removed
  BY DEF EraseDevice
<1> HIDE DEF row, n
<1>4. /\ removed.sandboxes = [m.sandboxes EXCEPT ![s] = row] /\ removed.groups = m.groups
      /\ removed.devices = Drop(m.devices, d)
  BY <1>1 DEF Models, row
<1>5. /\ DOMAIN removed.devices = DOMAIN m.devices \ {d}
      /\ \A e \in DOMAIN removed.devices : removed.devices[e] = m.devices[e]
  BY <1>4 DEF Drop
<1>6. removed.devices \in Table(Devices, DeviceRecords)
  <2>1. m.devices \in Table(Devices, DeviceRecords)
    BY <1>1, ModelTables
  <2>2. Drop(m.devices, d) \in Table(Devices, DeviceRecords)
    BY ONLY <2>1, DropIsTable
  <2> HIDE DEF removed
  <2>3. QED BY <1>4, <2>2
<1> HIDE DEF s
<1>7. /\ DOMAIN removed.sandboxes = DOMAIN m.sandboxes
      /\ removed.sandboxes[s] = row
      /\ \A r \in DOMAIN m.sandboxes \ {s} : removed.sandboxes[r] = m.sandboxes[r]
      /\ removed.sandboxes \in Table(Sandboxes, SandboxRecords)
  BY <1>1, <1>2, <1>4, ModelTables, RowFacts
<1>8. removed \in Models
  BY <1>1, <1>4, <1>6, <1>7 DEF Models
<1> HIDE DEF removed
<1>9. Contained(removed)
  <2>1. \A g \in DOMAIN removed.groups :
          removed.groups[g].sandboxes = {r \in DOMAIN removed.sandboxes : removed.sandboxes[r].group = g}
    BY <1>2, <1>4, <1>7 DEF Good, Contained
  <2>2. \A r \in DOMAIN removed.sandboxes :
          /\ removed.sandboxes[r].group \in DOMAIN removed.groups
          /\ removed.sandboxes[r].devices
               = {e \in DOMAIN removed.devices : removed.devices[e].sbox = r}
    <3>1. \A r \in DOMAIN m.sandboxes :
            /\ m.sandboxes[r].group \in DOMAIN m.groups
            /\ m.sandboxes[r].devices = {e \in DOMAIN m.devices : m.devices[e].sbox = r}
      BY DEF Good, Contained
    <3>2. m.devices[d].sbox = s
      BY DEF s
    <3>3. ASSUME NEW r \in DOMAIN m.sandboxes
          PROVE  {e \in DOMAIN removed.devices : removed.devices[e].sbox = r}
                   = IF r = s THEN m.sandboxes[s].devices \ {d} ELSE m.sandboxes[r].devices
      BY ONLY <1>5, <3>1, <3>2, <3>3
    <3>4. \A r \in DOMAIN m.sandboxes :
            /\ removed.sandboxes[r].group = m.sandboxes[r].group
            /\ removed.sandboxes[r].devices
                 = IF r = s THEN m.sandboxes[s].devices \ {d} ELSE m.sandboxes[r].devices
      BY ONLY <1>2, <1>7
    <3>5. QED BY ONLY <1>4, <1>7, <3>1, <3>3, <3>4
  <2>3. \A e \in DOMAIN removed.devices : removed.devices[e].sbox \in DOMAIN removed.sandboxes
    BY <1>5, <1>7 DEF Good, Contained
  <2> QED
    BY <2>1, <2>2, <2>3 DEF Contained
<1>10. Ids(removed) \subseteq Ids(m)
  BY <1>4, <1>5, <1>7 DEF Ids
<1>11. Resolved(m) /\ ~Connected(m, d) => Resolved(removed)
  BY <1>4, <1>5 DEF Resolved, Connected
<1>12. MarkedBut(removed, s)
  BY <1>4, <1>7 DEF Good, Marked, MarkedBut
<1>13. CASE removed.sandboxes[s].marked /\ removed.sandboxes[s].devices = {}
  BY <1>1, <1>3, <1>7, <1>8, <1>9, <1>10, <1>11, <1>12, <1>13, SandboxErased DEF n
<1>14. CASE ~(removed.sandboxes[s].marked /\ removed.sandboxes[s].devices = {})
  <2>1. Marked(removed)
    BY <1>12, <1>14 DEF MarkedBut, Marked
  <2> QED
    BY <1>3, <1>8, <1>9, <1>10, <1>11, <1>14, <2>1 DEF Good, n
<1> QED
  BY <1>13, <1>14

-----------------------------------------------------------------------------
(* Changes to one row that are Similar.                                    *)

LEMMA SandboxRelaunched ==
  ASSUME NEW m, Good(m), NEW s \in DOMAIN m.sandboxes, NEW launched \in BOOLEAN, NEW row,
         row = [m.sandboxes[s] EXCEPT !.launched = launched]
  PROVE  LET n == PutSandbox(m, s, row) IN n \in Models /\ Similar(m, n)
<1> DEFINE n == PutSandbox(m, s, row)
<1>1. m \in Models /\ s \in Sandboxes /\ m.sandboxes[s] \in SandboxRecords
  BY ModelTables DEF Good
<1>2. /\ row \in SandboxRecords /\ row.group = m.sandboxes[s].group
      /\ row.marked = m.sandboxes[s].marked /\ row.devices = m.sandboxes[s].devices
  BY <1>1 DEF SandboxRecords
<1>3. /\ n.groups = m.groups /\ n.devices = m.devices
      /\ n.sandboxes = Put(m.sandboxes, s, row)
  BY <1>1 DEF Models, PutSandbox
<1>4. /\ DOMAIN n.sandboxes = DOMAIN m.sandboxes /\ n.sandboxes[s] = row
      /\ \A r \in DOMAIN m.sandboxes \ {s} : n.sandboxes[r] = m.sandboxes[r]
  BY <1>3 DEF Put
<1>5. n.sandboxes \in Table(Sandboxes, SandboxRecords)
  BY <1>1, <1>2, <1>3, ModelTables, PutIsTable
<1>6. n \in Models
  BY <1>1, <1>5 DEF Models, PutSandbox
<1> QED
  BY <1>2, <1>3, <1>4, <1>6 DEF Similar

LEMMA DevicesChanged ==
  ASSUME NEW m \in Models, NEW t \in Table(Devices, DeviceRecords),
         DOMAIN t = DOMAIN m.devices, \A d \in DOMAIN t : t[d].sbox = m.devices[d].sbox
  PROVE  LET n == [m EXCEPT !.devices = t] IN
         n \in Models /\ Similar(m, n) /\ n.sandboxes = m.sandboxes /\ n.devices = t
  BY DEF Models, Similar

LEMMA DeviceChanged ==
  ASSUME NEW m \in Models, NEW d \in DOMAIN m.devices, NEW row \in DeviceRecords,
         row.sbox = m.devices[d].sbox
  PROVE  LET n == [m EXCEPT !.devices = [m.devices EXCEPT ![d] = row]] IN
         n \in Models /\ Similar(m, n)
<1>1. /\ [m.devices EXCEPT ![d] = row] \in Table(Devices, DeviceRecords)
      /\ DOMAIN [m.devices EXCEPT ![d] = row] = DOMAIN m.devices
      /\ \A e \in DOMAIN m.devices : [m.devices EXCEPT ![d] = row][e].sbox = m.devices[e].sbox
  BY ModelTables, RowFacts
<1> QED
  BY <1>1, DevicesChanged

-----------------------------------------------------------------------------
(* What a step does to the model.                                          *)

Sound ==
  ~Broken =>
    /\ Good(working) /\ Ids(working) \subseteq ids
    /\ Good(published) /\ Ids(published) \subseteq ids
    /\ "dangling" \notin slips => Resolved(working) /\ Resolved(published)

\* A step that breaks nothing; and what has been erased.
Step ==
  /\ slips \subseteq slips' /\ ids \subseteq ids'
  /\ ~Broken' =>
       /\ Good(working') /\ Ids(working') \subseteq ids'
       /\ published' \in {published, working'}
       /\ "dangling" \notin slips' /\ Resolved(working) => Resolved(working')
  /\ slips' \cap {"stale", "ghost"} = {} => Ids(working') \cap ids \subseteq Ids(working)

LEMMA SoundStep == ASSUME Sound, ~Broken, Step PROVE Sound'
  BY DEF Sound, Step, Broken

\* A change that keeps the model good, by a step that notes no slip or another.
LEMMA Changed ==
  ASSUME Good(working'), Ids(working') \subseteq ids', ids \subseteq ids',
         slips \subseteq slips', published' \in {published, working'},
         "dangling" \notin slips' /\ Resolved(working) => Resolved(working'),
         Ids(working') \cap ids \subseteq Ids(working)
  PROVE  Step
  BY DEF Step

LEMMA ChangedAlike ==
  ASSUME Sound, ~Broken, working' \in Models, Similar(working, working'), ids' = ids,
         slips \subseteq slips', published' \in {published, working'}
  PROVE  Step
<1>1. Good(working') /\ Ids(working') = Ids(working) /\ (Resolved(working) => Resolved(working'))
  BY SimilarIsGood DEF Sound
<1> QED
  BY <1>1, Changed DEF Sound

LEMMA Unchanged ==
  ASSUME Sound, ~Broken, working' = working, ids' = ids,
         slips \subseteq slips', published' \in {published, working'}
  PROVE  Step
  BY Changed DEF Sound

\* What a slip excuses.
LEMMA Slipped ==
  ASSUME slips \subseteq slips', ids \subseteq ids', slips' \cap {"stale", "ghost"} # {}
  PROVE  Step
  BY DEF Step, Broken

LEMMA SoundInit == ASSUME Init PROVE Sound
<1>1. DOMAIN Empty = {} /\ Empty \in Table(Groups, GroupRecords)
      /\ Empty \in Table(Sandboxes, SandboxRecords) /\ Empty \in Table(Devices, DeviceRecords)
  <2>1. \A rows : Empty \in [{} -> rows]
    BY DEF Empty
  <2> QED
    BY <2>1, IsTable DEF Empty
<1>2. NoModel \in Models
  BY <1>1 DEF NoModel, Models
<1>3. NoModel.groups = Empty /\ NoModel.sandboxes = Empty /\ NoModel.devices = Empty
  BY DEF NoModel
<1> HIDE DEF NoModel
<1>4. Contained(NoModel) /\ Marked(NoModel) /\ Resolved(NoModel) /\ Ids(NoModel) = {}
  BY <1>1, <1>3 DEF Contained, Marked, Resolved, Ids
<1> QED
  BY <1>2, <1>4 DEF Init, Sound, Good

-----------------------------------------------------------------------------
(* One lemma for each action that changes the model.                       *)

LEMMA CreateGroupStep ==
  ASSUME Sound, ~Broken, NEW g \in Groups, CreateGroup(g)
  PROVE  Step
<1>1. Good(working) /\ Ids(working) \subseteq ids /\ g \notin ids
  BY DEF Sound, CreateGroup
<1>2. g \notin DOMAIN working.groups
  BY <1>1 DEF Ids
<1>3. Good(working') /\ Ids(working') = Ids(working) \cup {g}
      /\ (Resolved(working) => Resolved(working'))
  BY <1>1, <1>2, GroupAdded DEF CreateGroup, Update
<1>4. ids' = ids \cup {g} /\ slips' = slips /\ published' = published
  BY DEF CreateGroup, Update
<1> QED
  BY <1>1, <1>3, <1>4, Changed

LEMMA CreateSandboxStep ==
  ASSUME Sound, ~Broken, NEW s \in Sandboxes, NEW g \in Groups, CreateSandbox(s, g)
  PROVE  Step
<1>1. Good(working) /\ Ids(working) \subseteq ids /\ s \notin ids /\ g \in DOMAIN working.groups
  BY DEF Sound, CreateSandbox
<1>2. s \notin DOMAIN working.sandboxes
  BY <1>1 DEF Ids
<1>3. Good(working') /\ Ids(working') = Ids(working) \cup {s}
      /\ (Resolved(working) => Resolved(working'))
  BY <1>1, <1>2, SandboxAdded DEF CreateSandbox, UpdatePublish
<1>4. ids' = ids \cup {s} /\ slips' = slips /\ published' = working'
  BY DEF CreateSandbox, UpdatePublish
<1> QED
  BY <1>1, <1>3, <1>4, Changed

\* A device of a sandbox that is no longer there is noted.
LEMMA CreateStep ==
  ASSUME Sound, ~Broken, NEW s, NEW d \in Devices, NEW known \in BOOLEAN, CreateIn(s, d, known)
  PROVE  Step
<1> DEFINE dev == NewDevice(s, known)
<1>1. Good(working) /\ Ids(working) \subseteq ids /\ d \notin ids
  BY DEF Sound, CreateIn
<1>2. d \notin DOMAIN working.devices
  BY <1>1 DEF Ids
<1>3. /\ ids' = ids \cup {d} /\ slips \subseteq slips' /\ published' = published
      /\ working' = AddDevice(working, d, dev)
      /\ s \notin DOMAIN working.sandboxes => "orphan" \in slips'
  BY DEF CreateIn, Slip, Update
<1>4. dev.sbox = s
  BY DEF NewDevice
<1>5. CASE s \in DOMAIN working.sandboxes
  <2>1. dev \in DeviceRecords
    BY <1>1, <1>5, ModelTables DEF NewDevice, DeviceRecords, Good
  <2> HIDE DEF dev
  <2>2. Good(working') /\ Ids(working') = Ids(working) \cup {d}
        /\ (Resolved(working) => Resolved(working'))
    BY <1>1, <1>2, <1>3, <1>4, <1>5, <2>1, DeviceAdded
  <2> QED
    BY <1>1, <1>3, <2>2, Changed
<1>6. CASE s \notin DOMAIN working.sandboxes
  <2> HIDE DEF dev
  <2>1. /\ working' = [working EXCEPT !.sandboxes = WithDevice(@, s, d), !.devices = Put(@, d, dev)]
        /\ WithDevice(working.sandboxes, s, d) = working.sandboxes
    BY <1>3, <1>4, <1>6 DEF AddDevice, WithDevice
  <2>2. /\ working'.groups = working.groups /\ working'.sandboxes = working.sandboxes
        /\ working'.devices = Put(working.devices, d, dev)
    BY <1>1, <2>1 DEF Good, Models
  <2>3. DOMAIN working'.devices = DOMAIN working.devices \cup {d}
    BY <2>2 DEF Put
  <2>4. Ids(working') = Ids(working) \cup {d}
    BY <2>2, <2>3 DEF Ids
  <2> QED
    BY <1>1, <1>3, <1>6, <2>4 DEF Step, Broken
<1> QED
  BY <1>5, <1>6

LEMMA ConnsStep ==
  ASSUME Sound, ~Broken, NEW d \in Devices, NEW e \in Devices, Connect(d, e) \/ Disconnect(d, e)
  PROVE  Step
<1> DEFINE g == Sbox(working, d).group
           old == working.groups[g].conns
<1>1. /\ Good(working) /\ Ids(working) \subseteq ids /\ CanConnect(d, e)
      /\ ids' = ids /\ slips' = slips /\ published' = working'
  BY DEF Sound, Connect, Disconnect, UpdatePublish
<1>2. /\ g \in DOMAIN working.groups /\ Sbox(working, e).group = g
      /\ {d, e} \subseteq DOMAIN working.devices
      /\ working.devices[d].sbox \in DOMAIN working.sandboxes
      /\ working.devices[e].sbox \in DOMAIN working.sandboxes
  BY <1>1 DEF CanConnect, Live
<1>3. old \subseteq Devices \X Devices
  BY <1>1, <1>2, ModelTables DEF Good, GroupRecords
<1>4. working.devices[d].sbox \in working.groups[g].sandboxes
      /\ working.devices[e].sbox \in working.groups[g].sandboxes
  BY <1>1, <1>2 DEF Good, Contained, Sbox
<1>5. \A c \in Cross(d, e) : c = <<d, e>> /\ working.devices[d].sbox # working.devices[e].sbox
  BY DEF Cross
<1>6. PICK conns \in SUBSET (Devices \X Devices) :
        /\ conns \subseteq old \cup Cross(d, e)
        /\ working' = [working EXCEPT !.groups[g].conns = conns]
  <2>1. old \cup Cross(d, e) \in SUBSET (Devices \X Devices)
        /\ old \ Cross(d, e) \in SUBSET (Devices \X Devices)
    BY <1>3, <1>5
  <2>2. CASE Connect(d, e)
    <3>1. working' = [working EXCEPT !.groups[g].conns = old \cup Cross(d, e)]
      BY <2>2 DEF Connect, UpdatePublish
    <3> QED
      BY <2>1, <3>1
  <2>3. CASE Disconnect(d, e)
    <3>1. working' = [working EXCEPT !.groups[g].conns = old \ Cross(d, e)]
      BY <2>3 DEF Disconnect, UpdatePublish
    <3> QED
      BY <2>1, <3>1
  <2> QED
    BY <2>2, <2>3
<1> HIDE DEF g
<1>7. \A c \in conns \ working.groups[g].conns :
        /\ {c[1], c[2]} \subseteq DOMAIN working.devices
        /\ working.devices[c[1]].sbox # working.devices[c[2]].sbox
        /\ {working.devices[c[1]].sbox, working.devices[c[2]].sbox} \subseteq working.groups[g].sandboxes
  BY <1>2, <1>4, <1>5, <1>6
<1>8. Good(working') /\ Ids(working') = Ids(working) /\ (Resolved(working) => Resolved(working'))
  BY <1>1, <1>2, <1>6, <1>7, ConnsChanged, ZenonT(40)
<1> QED
  BY <1>1, <1>8, Changed

LEMMA EraseGroupStep ==
  ASSUME Sound, ~Broken, NEW g \in Groups, EraseTheGroup(g)
  PROVE  Step
<1>1. /\ Good(working) /\ Ids(working) \subseteq ids /\ g \in DOMAIN working.groups
      /\ ids' = ids /\ slips' = slips /\ published' = working'
  BY DEF Sound, EraseTheGroup, UpdatePublish
<1>2. CASE working.groups[g].sandboxes = {}
  <2>1. working' = [working EXCEPT !.groups = Drop(@, g)]
    BY <1>2 DEF EraseTheGroup, UpdatePublish
  <2>1a. working \in Models /\ Contained(working)
    BY <1>1 DEF Good
  <2>2. /\ working' \in Models /\ Contained(working') /\ Ids(working') \subseteq Ids(working)
        /\ working'.sandboxes = working.sandboxes
        /\ DOMAIN working'.groups = DOMAIN working.groups \ {g}
        /\ \A h \in DOMAIN working'.groups : working'.groups[h] = working.groups[h]
        /\ Resolved(working) => Resolved(working')
    <3>1. LET n == [working EXCEPT !.groups = Drop(@, g)] IN
          /\ n \in Models /\ Contained(n) /\ Ids(n) \subseteq Ids(working)
          /\ n.sandboxes = working.sandboxes /\ n.devices = working.devices
          /\ DOMAIN n.groups = DOMAIN working.groups \ {g}
          /\ \A h \in DOMAIN n.groups : n.groups[h] = working.groups[h]
          /\ Resolved(working) => Resolved(n)
      BY <1>1, <1>2, <2>1a, GroupDropped
    <3> QED
      BY <2>1, <3>1
  <2>3. Marked(working')
    BY <1>1, <2>2 DEF Good, Marked
  <2> QED
    BY <1>1, <2>2, <2>3, Changed DEF Good
<1>3. CASE working.groups[g].sandboxes # {}
  <2>1. working' = [working EXCEPT !.groups[g].marked = TRUE]
    BY <1>3 DEF EraseTheGroup, UpdatePublish
  <2>2. Good(working') /\ Ids(working') = Ids(working) /\ (Resolved(working) => Resolved(working'))
    BY <1>1, <1>3, <2>1, GroupMarked
  <2> QED
    BY <1>1, <2>2, Changed
<1> QED
  BY <1>2, <1>3

LEMMA EraseSandboxStep ==
  ASSUME Sound, ~Broken, NEW s \in Sandboxes, EraseTheSandbox(s)
  PROVE  Step
<1>1. /\ Good(working) /\ Ids(working) \subseteq ids /\ s \in DOMAIN working.sandboxes
      /\ ids' = ids /\ slips' = slips /\ published' = working'
  BY DEF Sound, EraseTheSandbox, UpdatePublish
<1>2. CASE working.sandboxes[s].devices = {}
  <2>1. working' = EraseSandbox(working, s)
    BY <1>2 DEF EraseTheSandbox, UpdatePublish
  <2>2. MarkedBut(working, s)
    BY <1>1 DEF Good, Marked, MarkedBut
  <2>3. Good(working') /\ Ids(working') \subseteq Ids(working)
        /\ (Resolved(working) => Resolved(working'))
    BY <1>1, <1>2, <2>1, <2>2, SandboxErased DEF Good
  <2> QED
    BY <1>1, <2>3, Changed
<1>3. CASE working.sandboxes[s].devices # {}
  <2>1. working' = [working EXCEPT !.sandboxes[s].marked = TRUE]
    BY <1>3 DEF EraseTheSandbox, UpdatePublish
  <2>2. Good(working') /\ Ids(working') = Ids(working) /\ (Resolved(working) => Resolved(working'))
    BY <1>1, <1>3, <2>1, SandboxMarked
  <2> QED
    BY <1>1, <2>2, Changed
<1> QED
  BY <1>2, <1>3

LEMMA EraseDeviceStep ==
  ASSUME Sound, ~Broken, NEW d \in Devices, EraseTheDevice(d)
  PROVE  Step
<1>1. /\ Good(working) /\ Ids(working) \subseteq ids /\ d \in DOMAIN working.devices
      /\ ids' = ids /\ slips \subseteq slips' /\ published' = working'
      /\ working' = EraseDevice(working, d)
      /\ Connected(working, d) => "dangling" \in slips'
  BY DEF Sound, EraseTheDevice, UpdatePublish, Slip, Live
<1>2. Good(working') /\ Ids(working') \subseteq Ids(working)
      /\ (Resolved(working) /\ ~Connected(working, d) => Resolved(working'))
  BY <1>1, DeviceErased
<1> QED
  BY <1>1, <1>2, Changed

\* Putting back what was read: it is noted unless nothing has changed since.
LEMMA RenderModeStep == ASSUME Sound, ~Broken, RenderModeEnd PROVE Step
<1>1. slips \subseteq slips' /\ ids' = ids /\ published' = published
  BY DEF RenderModeEnd, Slip, Update
<1>2. working' = working \/ "stale" \in slips'
  BY DEF RenderModeEnd, Slip, Update
<1> QED
  BY <1>1, <1>2, Slipped, Unchanged

LEMMA RestartStep == ASSUME Sound, ~Broken, RestartEnd PROVE Step
<1> DEFINE s == slow.sbox
           row == [slow.row EXCEPT !.launched = TRUE]
<1>1. /\ slips \subseteq slips' /\ ids' = ids /\ published' = published
      /\ working' = PutSandbox(working, s, row)
  BY DEF RestartEnd, Slip, Update, PutSandbox
<1>2. CASE /\ s \in DOMAIN working.sandboxes
           /\ row = [working.sandboxes[s] EXCEPT !.launched = TRUE]
  <2>1. Good(working)
    BY DEF Sound
  <2> HIDE DEF s, row
  <2>2. working' \in Models /\ Similar(working, working')
    BY <1>1, <1>2, <2>1, SandboxRelaunched
  <2> QED
    BY <1>1, <2>2, ChangedAlike
<1>3. CASE ~(/\ s \in DOMAIN working.sandboxes
             /\ row = [working.sandboxes[s] EXCEPT !.launched = TRUE])
  <2>1. "stale" \in slips'
    BY <1>3 DEF RestartEnd, Slip
  <2> QED
    BY <1>1, <2>1, Slipped
<1> QED
  BY <1>2, <1>3

LEMMA RetryStep == ASSUME Sound, ~Broken, NEW d \in Devices, RetryDevice(d) PROVE Step
<1>1. /\ slips \subseteq slips' /\ ids' = ids /\ published' = published
      /\ working' = [slow.model EXCEPT !.devices[d].known = TRUE]
      /\ d \in Waiting(slow.model)
      /\ working # slow.model => "stale" \in slips'
  BY DEF RetryDevice, Slip, Update
<1>2. CASE working = slow.model
  <2> DEFINE row == [working.devices[d] EXCEPT !.known = TRUE]
  <2>1. working \in Models /\ d \in DOMAIN working.devices
    BY <1>1, <1>2 DEF Waiting, Sound, Good
  <2>2. working.devices[d] \in DeviceRecords
    BY <2>1, ModelTables
  <2>3. row \in DeviceRecords /\ row.sbox = working.devices[d].sbox
    BY <2>2 DEF DeviceRecords
  <2>4. working' = [working EXCEPT !.devices = [working.devices EXCEPT ![d] = row]]
    BY <1>1, <1>2
  <2> HIDE DEF row
  <2>5. working' \in Models /\ Similar(working, working')
    BY <2>1, <2>3, <2>4, DeviceChanged
  <2> QED
    BY <1>1, <2>5, ChangedAlike
<1>3. CASE working # slow.model
  BY <1>1, <1>3, Slipped
<1> QED
  BY <1>2, <1>3

LEMMA FindsDeadStep == ASSUME Sound, ~Broken, NEW s \in Sandboxes, PollFindsDead(s) PROVE Step
<1> DEFINE row == [todo[s] EXCEPT !.launched = FALSE]
           cleared == [d \in DOMAIN working.devices \cup row.devices |->
                         IF d \notin DOMAIN working.devices THEN Ghost
                         ELSE IF d \in row.devices THEN [working.devices[d] EXCEPT !.remote = FALSE]
                         ELSE working.devices[d]]
           put == PutSandbox(working, s, row)
<1>1. /\ slips \subseteq slips' /\ ids' = ids /\ published' = working'
      /\ working' = [put EXCEPT !.devices = cleared]
      /\ Overwrites(s, row, FALSE) => "stale" \in slips'
  BY DEF PollFindsDead, Slip, UpdatePublish
<1>2. CASE ~Overwrites(s, row, FALSE)
  <2>1. Good(working) /\ working \in Models /\ Contained(working)
    BY DEF Sound, Good
  <2>2. /\ s \in DOMAIN working.sandboxes
        /\ row = [working.sandboxes[s] EXCEPT !.launched = FALSE]
    BY <1>2 DEF Overwrites
  <2>3. row.devices \subseteq DOMAIN working.devices
    <3>1. working.sandboxes[s] \in SandboxRecords
      BY <2>1, <2>2, ModelTables
    <3>2. row.devices = working.sandboxes[s].devices
      BY <2>2, <3>1 DEF SandboxRecords
    <3> QED
      BY <2>1, <2>2, <3>2 DEF Contained
  <2> HIDE DEF row
  <2>4. \A d \in DOMAIN working.devices :
          cleared[d] \in DeviceRecords /\ cleared[d].sbox = working.devices[d].sbox
    <3> SUFFICES ASSUME NEW d \in DOMAIN working.devices
                 PROVE  cleared[d] \in DeviceRecords /\ cleared[d].sbox = working.devices[d].sbox
      OBVIOUS
    <3>1. working.devices[d] \in DeviceRecords
      BY <2>1, ModelTables
    <3>2. cleared[d] = IF d \in row.devices THEN [working.devices[d] EXCEPT !.remote = FALSE]
                       ELSE working.devices[d]
      OBVIOUS
    <3> QED
      BY <3>1, <3>2 DEF DeviceRecords
  <2>5. DOMAIN cleared = DOMAIN working.devices /\ cleared \in [DOMAIN working.devices -> DeviceRecords]
    BY <2>3, <2>4
  <2>6. DOMAIN working.devices \subseteq Devices
    BY <2>1, ModelTables
  <2> HIDE DEF cleared
  <2>7. cleared \in Table(Devices, DeviceRecords)
    BY <2>5, <2>6, IsTable
  <2>8. put \in Models /\ Similar(working, put)
    BY <2>1, <2>2, SandboxRelaunched
  <2> HIDE DEF put
  <2>9. DOMAIN put.devices = DOMAIN working.devices
        /\ \A d \in DOMAIN cleared : cleared[d].sbox = put.devices[d].sbox
    BY <2>4, <2>5, <2>8 DEF Similar
  <2>10. working' \in Models /\ Similar(put, working')
    BY <1>1, <2>5, <2>7, <2>8, <2>9, DevicesChanged
  <2>11. Similar(working, working')
    BY <2>8, <2>10 DEF Similar
  <2> QED
    BY <1>1, <2>10, <2>11, ChangedAlike
<1>3. CASE Overwrites(s, row, FALSE)
  BY <1>1, <1>3, Slipped
<1> QED
  BY <1>2, <1>3

LEMMA CreatedStep == ASSUME Sound, ~Broken, NEW d \in Devices, PollCreated(d) PROVE Step
<1>1. ids' = ids /\ slips \subseteq slips'
  BY DEF PollCreated, Slip
<1>2. CASE Live(d)
  <2> DEFINE row == [working.devices[d] EXCEPT !.remote = TRUE]
  <2>1. working \in Models /\ d \in DOMAIN working.devices
    BY <1>2 DEF Live, Sound, Good
  <2>2. working.devices[d] \in DeviceRecords
    BY <2>1, ModelTables
  <2>3. row \in DeviceRecords /\ row.sbox = working.devices[d].sbox
    BY <2>2 DEF DeviceRecords
  <2>4. /\ working' = [working EXCEPT !.devices = [working.devices EXCEPT ![d] = row]]
        /\ published' = working'
    BY <1>2 DEF PollCreated, UpdatePublish
  <2> HIDE DEF row
  <2>5. working' \in Models /\ Similar(working, working')
    BY <2>1, <2>3, <2>4, DeviceChanged
  <2> QED
    BY <1>1, <2>4, <2>5, ChangedAlike
<1>3. CASE ~Live(d)
  <2>1. working' = working /\ published' = published
    BY <1>3 DEF PollCreated, modelVars
  <2> QED
    BY <1>1, <2>1, Unchanged
<1> QED
  BY <1>2, <1>3

LEMMA AutosaveStep == ASSUME Sound, ~Broken, NEW d \in Devices, PollAutosave(d) PROVE Step
<1>1. ids' = ids /\ slips \subseteq slips' /\ published' = working'
  BY DEF PollAutosave, Slip, UpdatePublish
<1>2. working' = working \/ "ghost" \in slips'
  BY DEF PollAutosave, Slip, UpdatePublish
<1> QED
  BY <1>1, <1>2, Slipped, Unchanged

LEMMA ConfirmStep == ASSUME Sound, ~Broken, PollConfirm PROVE Step
<1>1. ids' = ids /\ slips \subseteq slips' /\ published' = working'
  BY DEF PollConfirm, Slip, UpdatePublish
<1>2. working' = working \/ "stale" \in slips'
  BY DEF PollConfirm, Slip, UpdatePublish
<1> QED
  BY <1>1, <1>2, Slipped, Unchanged

-----------------------------------------------------------------------------
(* Every step.                                                             *)

LEMMA CallStep == ASSUME Sound, ~Broken, Call PROVE Step
<1>1. ASSUME NEW g \in Groups, CreateGroup(g) PROVE Step
  BY <1>1, CreateGroupStep
<1>2. ASSUME NEW g \in Groups, EraseTheGroup(g) PROVE Step
  BY <1>2, EraseGroupStep
<1>3. ASSUME NEW s \in Sandboxes, EraseTheSandbox(s) PROVE Step
  BY <1>3, EraseSandboxStep
<1>4. ASSUME NEW s \in Sandboxes, NEW g \in Groups, CreateSandbox(s, g) PROVE Step
  BY <1>4, CreateSandboxStep
<1>5. ASSUME NEW d \in Devices, EraseTheDevice(d) PROVE Step
  BY <1>5, EraseDeviceStep
<1>6. ASSUME NEW s \in Sandboxes, NEW d \in Devices, NEW known \in BOOLEAN,
             CreateDeviceAsync(s, d, known)
      PROVE  Step
  BY <1>6, CreateStep DEF CreateDeviceAsync
<1>7. ASSUME NEW d \in Devices, NEW e \in Devices, Connect(d, e) \/ Disconnect(d, e) PROVE Step
  BY <1>7, ConnsStep
<1> QED
  BY <1>1, <1>2, <1>3, <1>4, <1>5, <1>6, <1>7 DEF Call

LEMMA SlowCallStep == ASSUME Sound, ~Broken, SlowCall \/ RetryBegin PROVE Step
<1>1. ASSUME NEW g \in Groups, RenderModeBegin(g) PROVE Step
  BY <1>1, Unchanged DEF RenderModeBegin, modelVars
<1>2. ASSUME NEW s \in Sandboxes, CreateBegin(s) PROVE Step
  BY <1>2, Unchanged DEF CreateBegin, modelVars
<1>3. ASSUME NEW s \in Sandboxes, RestartBegin(s) PROVE Step
  BY <1>3, Unchanged DEF RestartBegin, Slip, modelVars
<1>4. ASSUME NEW s \in Sandboxes, RestartThrows(s) PROVE Step
  BY <1>4, Unchanged DEF RestartThrows, Slip, modelVars
<1>5. ASSUME NEW d \in Devices, NEW known \in BOOLEAN, CreateEnd(d, known) PROVE Step
  BY <1>5, CreateStep DEF CreateEnd
<1>6. CASE RetryBegin
  BY <1>6, Unchanged DEF RetryBegin, modelVars
<1> QED
  BY <1>1, <1>2, <1>3, <1>4, <1>5, <1>6, RenderModeStep, RestartStep, RetryStep DEF SlowCall

LEMMA ProcessStep == ASSUME Sound, ~Broken, Process PROVE Step
<1>1. working' = working /\ published' = published /\ ids' = ids /\ slips' = slips
  BY DEF Process, Confirm, Die, Autosave, Reply, modelVars
<1> QED
  BY <1>1, Unchanged

LEMMA PollStep == ASSUME Sound, ~Broken, Poll PROVE Step
<1>1. CASE PollBegin \/ PollDone \/ \E s \in Sandboxes : PollVisits(s)
  BY <1>1, Unchanged DEF PollBegin, PollDone, PollVisits, modelVars
<1>2. ASSUME NEW d \in Devices, PollFailed(d) PROVE Step
  BY <1>2, Unchanged DEF PollFailed, UpdatePublish
<1> QED
  BY <1>1, <1>2, FindsDeadStep, ConfirmStep, AutosaveStep, CreatedStep DEF Poll

LEMMA NextStep == ASSUME Sound, Next PROVE Step
  BY CallStep, SlowCallStep, ProcessStep, PollStep DEF Next, ClientNext

LEMMA SoundNext == ASSUME Sound, [Next]_vars PROVE Sound'
<1>1. CASE Next
  BY <1>1, NextStep, SoundStep DEF Next
<1>2. CASE UNCHANGED vars
  <2>1. UNCHANGED <<working, published, ids, slips>>
    BY <1>2 DEF vars
  <2>2. Broken' = Broken
    BY <2>1 DEF Broken
  <2>3. Good(working)' = Good(working) /\ Ids(working)' = Ids(working) /\ Resolved(working)' = Resolved(working)
    BY <2>1
  <2>4. Good(published)' = Good(published) /\ Ids(published)' = Ids(published)
        /\ Resolved(published)' = Resolved(published)
    BY <2>1
  <2> QED
    BY <2>1, <2>2, <2>3, <2>4 DEF Sound
<1> QED
  BY <1>1, <1>2

THEOREM AlwaysSound == Spec => []Sound
<1>1. Init => Sound
  BY SoundInit
<1>2. Sound /\ [Next]_vars => Sound'
  BY SoundNext
<1> QED
  BY <1>1, <1>2, PTL DEF Spec

-----------------------------------------------------------------------------
(* The properties.                                                         *)

\* Groups know their sandboxes and sandboxes their devices, in the model and in
\* what the audio thread sees, whatever the calls and the threads do, until one of
\* the steps named in slips.
THEOREM ModelsAreContained == Spec => []Containment
<1>1. Sound => Containment
  BY DEF Sound, Good, Containment
<1> QED
  BY <1>1, AlwaysSound, PTL

\* erase leaves nothing marked that has lost its last child.
THEOREM MarkedGoWithTheirContent == Spec => []MarkedHasContent
<1>1. Sound => MarkedHasContent
  BY DEF Sound, Good, Marked, MarkedHasContent
<1> QED
  BY <1>1, AlwaysSound, PTL

\* The audio thread finds the devices of every connection, unless a device that was
\* connected has been erased.
THEOREM ConnectionsAreThere == Spec => []ConnectionsResolve
<1>1. Sound => ConnectionsResolve
  BY DEF Sound, Resolved, ConnectionsResolve
<1> QED
  BY <1>1, AlwaysSound, PTL

\* Ids come back only from a copy that was read before, or from an autosave.
THEOREM IdsGoForGood == Spec => ErasedForGood
<1>1. Sound /\ Next => (slips' \cap {"stale", "ghost"} = {}
                          => Ids(working') \cap ids \subseteq Ids(working))
  BY NextStep DEF Step
<1>2. Sound /\ [Next]_vars => [slips' \cap {"stale", "ghost"} = {}
                          => Ids(working') \cap ids \subseteq Ids(working)]_vars
  BY <1>1
<1> QED
  BY <1>2, AlwaysSound, PTL DEF Spec, ErasedForGood

-----------------------------------------------------------------------------
(* Types: of the model, of what the threads have read of it, and of what   *)
(* the processes have sent.  The rows that are put back into the model     *)
(* have ids that were given out.                                           *)

ModelsOK ==
  /\ working \in Models /\ published \in Models
  /\ Ids(working) \subseteq ids /\ Ids(published) \subseteq ids

SlowCalls ==
  {Idle} \cup [kind : {"create"}, sbox : Sandboxes]
         \cup [kind : {"render"}, group : Groups, row : GroupRecords]
         \cup [kind : {"restart"}, sbox : Sandboxes, row : SandboxRecords]
         \cup [kind : {"retry"}, model : Models]

ReadOK ==
  /\ slow \in SlowCalls
  /\ slow.kind = "render"  => slow.group \in ids
  /\ slow.kind = "restart" => slow.sbox \in ids
  /\ slow.kind = "retry"   => Ids(slow.model) \subseteq ids

RoundOK ==
  /\ todo \in Table(Sandboxes, SandboxRecords)
  /\ \A s \in DOMAIN todo : s \in ids /\ todo[s].devices \subseteq ids
  /\ visit \in DOMAIN todo \cup {NoSandbox}

\* Messages are about devices that were created in the process.
ProcessesOK ==
  /\ ids \subseteq Groups \cup Sandboxes \cup Devices
  /\ proc \in [Sandboxes -> {"none", "running", "dead"}]
  /\ home \in [Devices -> Sandboxes \cup {NoSandbox}]
  /\ \A d \in Devices \ ids : home[d] = NoSandbox
  /\ asked \in [Devices -> Nat] /\ has \in [Devices -> BOOLEAN]

InboxOK ==
  /\ DOMAIN inbox = Sandboxes
  /\ \A s \in Sandboxes, d \in Devices :
       [type |-> "autosave", dev |-> d] \in inbox[s] => d \in ids

HistoryOK ==
  /\ slips \subseteq {"orphan", "dangling", "stale", "ghost", "late", "replaced", "threw"}
  /\ left \in [Kinds -> Nat]

Typed == ModelsOK /\ ReadOK /\ RoundOK /\ ProcessesOK /\ InboxOK /\ HistoryOK

LEMMA ReadFacts ==
  ASSUME slow \in SlowCalls
  PROVE  /\ slow.kind \in SlowKinds \cup {"none"}
         /\ slow.kind = "none" => slow = Idle
         /\ slow.kind = "create" => slow.sbox \in Sandboxes
         /\ slow.kind = "render" => slow.group \in Groups /\ slow.row \in GroupRecords
         /\ slow.kind = "restart" => slow.sbox \in Sandboxes /\ slow.row \in SandboxRecords
         /\ slow.kind = "retry" => slow.model \in Models
         /\ \A m : slow.kind = "retry" => [slow EXCEPT !.model = m].model = m
                                       /\ [slow EXCEPT !.model = m].kind = "retry"
  BY DEF SlowCalls, Idle, SlowKinds

LEMMA GroupPut ==
  ASSUME NEW m \in Models, NEW g \in Groups, NEW row \in GroupRecords, NEW n,
         n = [m EXCEPT !.groups = Put(@, g, row)]
  PROVE  n \in Models /\ Ids(n) = Ids(m) \cup {g}
<1>1. /\ n.groups = Put(m.groups, g, row)
      /\ n.sandboxes = m.sandboxes /\ n.devices = m.devices
  BY DEF Models
<1>2. n.groups \in Table(Groups, GroupRecords)
  BY <1>1, ModelTables, PutIsTable
<1>2a. DOMAIN n.groups = DOMAIN m.groups \cup {g}
  BY <1>1 DEF Put
<1>3. n \in Models
  BY <1>2 DEF Models
<1> QED
  BY <1>1, <1>2a, <1>3 DEF Ids

LEMMA SandboxPut ==
  ASSUME NEW m \in Models, NEW s \in Sandboxes, NEW row \in SandboxRecords, NEW n,
         n = PutSandbox(m, s, row)
  PROVE  /\ n \in Models /\ Ids(n) = Ids(m) \cup {s}
         /\ n.groups = m.groups /\ n.devices = m.devices
         /\ DOMAIN n.sandboxes = DOMAIN m.sandboxes \cup {s} /\ n.sandboxes[s] = row
         /\ \A r \in DOMAIN m.sandboxes \ {s} : n.sandboxes[r] = m.sandboxes[r]
<1>1. /\ n.sandboxes = Put(m.sandboxes, s, row)
      /\ n.groups = m.groups /\ n.devices = m.devices
  BY DEF Models, PutSandbox
<1>2. n.sandboxes \in Table(Sandboxes, SandboxRecords)
  BY <1>1, ModelTables, PutIsTable
<1>3. /\ DOMAIN n.sandboxes = DOMAIN m.sandboxes \cup {s} /\ n.sandboxes[s] = row
      /\ \A r \in DOMAIN m.sandboxes \ {s} : n.sandboxes[r] = m.sandboxes[r]
  BY <1>1 DEF Put
<1>4. n \in Models
  BY <1>2 DEF Models, PutSandbox
<1> QED
  BY <1>1, <1>3, <1>4 DEF Ids

LEMMA DevicesPut ==
  ASSUME NEW m \in Models, NEW t \in Table(Devices, DeviceRecords), NEW n,
         n = [m EXCEPT !.devices = t]
  PROVE  /\ n \in Models /\ Ids(n) \subseteq Ids(m) \cup DOMAIN t
         /\ n.groups = m.groups /\ n.sandboxes = m.sandboxes /\ n.devices = t
<1>1. n.groups = m.groups /\ n.sandboxes = m.sandboxes /\ n.devices = t
  BY DEF Models
<1>2. n \in Models
  BY DEF Models
<1> QED
  BY <1>1, <1>2 DEF Ids

LEMMA GhostIsDevice == Ghost \in DeviceRecords
  BY DEF Ghost, NewDevice, DeviceRecords

-----------------------------------------------------------------------------
(* The model keeps its type, even by a step that breaks it.                *)

LEMMA CreateTyped ==
  ASSUME Typed, NEW s \in Sandboxes, NEW d \in Devices, NEW known \in BOOLEAN,
         CreateIn(s, d, known)
  PROVE  working' \in Models /\ Ids(working') \subseteq ids'
<1> DEFINE dev == NewDevice(s, known)
           tables == WithDevice(working.sandboxes, s, d)
<1>1. /\ working \in Models /\ Ids(working) \subseteq ids /\ ids' = ids \cup {d}
      /\ working' = AddDevice(working, d, dev)
  BY DEF Typed, ModelsOK, CreateIn, Update
<1>2. dev \in DeviceRecords /\ dev.sbox = s
  BY DEF NewDevice, DeviceRecords
<1> HIDE DEF dev
<1>3. /\ tables \in Table(Sandboxes, SandboxRecords)
      /\ DOMAIN tables = DOMAIN working.sandboxes
  <2>1. CASE s \in DOMAIN working.sandboxes
    <3> DEFINE row == [working.sandboxes[s] EXCEPT !.devices = @ \cup {d}]
    <3>1. working.sandboxes[s] \in SandboxRecords
      BY <1>1, <2>1, ModelTables
    <3>2. row \in SandboxRecords
      BY <3>1 DEF SandboxRecords
    <3>3. tables = [working.sandboxes EXCEPT ![s] = row]
      BY <2>1 DEF WithDevice
    <3> HIDE DEF row, tables
    <3> QED
      BY <1>1, <2>1, <3>2, <3>3, ModelTables, RowFacts
  <2>2. CASE s \notin DOMAIN working.sandboxes
    BY <1>1, <2>2, ModelTables DEF WithDevice
  <2> QED
    BY <2>1, <2>2
<1>4. /\ Put(working.devices, d, dev) \in Table(Devices, DeviceRecords)
      /\ DOMAIN Put(working.devices, d, dev) = DOMAIN working.devices \cup {d}
  BY <1>1, <1>2, ModelTables, PutIsTable DEF Put
<1> HIDE DEF tables
<1>5. working' = [working EXCEPT !.sandboxes = tables, !.devices = Put(working.devices, d, dev)]
  BY <1>1, <1>2 DEF AddDevice, tables
<1>6. /\ working'.groups = working.groups /\ working'.sandboxes = tables
      /\ working'.devices = Put(working.devices, d, dev)
  BY <1>1, <1>5 DEF Models
<1>7. working' \in Models
  BY <1>1, <1>3, <1>4, <1>5 DEF Models
<1> QED
  BY <1>1, <1>3, <1>4, <1>6, <1>7 DEF Ids

LEMMA RenderModeTyped ==
  ASSUME Typed, RenderModeEnd
  PROVE  working' \in Models /\ Ids(working') \subseteq ids'
<1>1. /\ working \in Models /\ Ids(working) \subseteq ids /\ ids' = ids
      /\ slow.group \in Groups \cap ids /\ slow.row \in GroupRecords
      /\ working' = [working EXCEPT !.groups = Put(@, slow.group, slow.row)]
  BY ReadFacts DEF Typed, ModelsOK, ReadOK, RenderModeEnd, Update
<1> QED
  BY <1>1, GroupPut

LEMMA RestartTyped ==
  ASSUME Typed, RestartEnd
  PROVE  working' \in Models /\ Ids(working') \subseteq ids'
<1> DEFINE row == [slow.row EXCEPT !.launched = TRUE]
<1>1. /\ working \in Models /\ Ids(working) \subseteq ids /\ ids' = ids
      /\ slow.sbox \in Sandboxes \cap ids /\ slow.row \in SandboxRecords
      /\ working' = PutSandbox(working, slow.sbox, row)
  BY ReadFacts DEF Typed, ModelsOK, ReadOK, RestartEnd, Update, PutSandbox
<1>2. row \in SandboxRecords
  BY <1>1 DEF SandboxRecords
<1> HIDE DEF row
<1> QED
  BY <1>1, <1>2, SandboxPut

LEMMA RetryTyped ==
  ASSUME Typed, NEW d \in Devices, RetryDevice(d)
  PROVE  /\ working' \in Models /\ Ids(working') \subseteq ids'
         /\ slow' = Idle \/ slow' = [slow EXCEPT !.model = working']
<1> DEFINE row == [slow.model.devices[d] EXCEPT !.known = TRUE]
<1>1. /\ slow.model \in Models /\ Ids(slow.model) \subseteq ids /\ ids' = ids
      /\ slow.kind = "retry"
      /\ d \in DOMAIN slow.model.devices
      /\ working' = [slow.model EXCEPT !.devices[d].known = TRUE]
      /\ slow' = Idle \/ slow' = [slow EXCEPT !.model = working']
  BY ReadFacts DEF Typed, ReadOK, RetryDevice, Update, Waiting
<1>2. row \in DeviceRecords
  <2>1. slow.model.devices[d] \in DeviceRecords
    BY <1>1, ModelTables
  <2> QED
    BY <2>1 DEF DeviceRecords
<1>3. working' = [slow.model EXCEPT !.devices = [slow.model.devices EXCEPT ![d] = row]]
  BY <1>1
<1> HIDE DEF row
<1>4. PICK table \in Table(Devices, DeviceRecords) :
        /\ DOMAIN table = DOMAIN slow.model.devices
        /\ working' = [slow.model EXCEPT !.devices = table]
  <2>1. /\ [slow.model.devices EXCEPT ![d] = row] \in Table(Devices, DeviceRecords)
        /\ DOMAIN [slow.model.devices EXCEPT ![d] = row] = DOMAIN slow.model.devices
    BY <1>1, <1>2, ModelTables, RowFacts
  <2> QED
    BY <1>3, <2>1
<1>4a. DOMAIN slow.model.devices \subseteq Ids(slow.model)
  BY DEF Ids
<1>5. working' \in Models /\ Ids(working') \subseteq Ids(slow.model)
  BY <1>1, <1>4, <1>4a, DevicesPut, ZenonT(40)
<1> QED
  BY <1>1, <1>5

LEMMA FindsDeadTyped ==
  ASSUME Typed, NEW s \in Sandboxes, PollFindsDead(s)
  PROVE  working' \in Models /\ Ids(working') \subseteq ids'
<1> DEFINE row == [todo[s] EXCEPT !.launched = FALSE]
           cleared == [d \in DOMAIN working.devices \cup row.devices |->
                         IF d \notin DOMAIN working.devices THEN Ghost
                         ELSE IF d \in row.devices THEN [working.devices[d] EXCEPT !.remote = FALSE]
                         ELSE working.devices[d]]
           put == PutSandbox(working, s, row)
<1>1. /\ working \in Models /\ Ids(working) \subseteq ids /\ ids' = ids
      /\ s \in ids /\ todo[s] \in SandboxRecords /\ todo[s].devices \subseteq ids
      /\ working' = [put EXCEPT !.devices = cleared]
  BY TableFacts DEF Typed, ModelsOK, RoundOK, PollFindsDead, UpdatePublish
<1>2. row \in SandboxRecords /\ row.devices = todo[s].devices
  BY <1>1 DEF SandboxRecords
<1> HIDE DEF row
<1>3. row.devices \subseteq Devices /\ row.devices \subseteq ids
  BY <1>1, <1>2 DEF SandboxRecords
<1>4. \A d \in DOMAIN working.devices \cup row.devices : cleared[d] \in DeviceRecords
  <2> SUFFICES ASSUME NEW d \in DOMAIN working.devices \cup row.devices
               PROVE  cleared[d] \in DeviceRecords
    OBVIOUS
  <2>1. d \in DOMAIN working.devices => working.devices[d] \in DeviceRecords
    BY <1>1, ModelTables
  <2>2. CASE d \notin DOMAIN working.devices
    <3>1. cleared[d] = Ghost
      BY <2>2
    <3> QED
      BY <3>1, GhostIsDevice
  <2>3. CASE d \in DOMAIN working.devices
    <3>1. cleared[d] = IF d \in row.devices THEN [working.devices[d] EXCEPT !.remote = FALSE]
                       ELSE working.devices[d]
      BY <2>3
    <3> QED
      BY <2>1, <2>3, <3>1 DEF DeviceRecords
  <2> QED
    BY <2>2, <2>3
<1>5. cleared \in [DOMAIN working.devices \cup row.devices -> DeviceRecords]
  BY <1>4
<1> HIDE DEF cleared
<1>6. /\ DOMAIN working.devices \cup row.devices \in SUBSET Devices
      /\ DOMAIN working.devices \subseteq ids
  BY <1>1, <1>3, ModelTables DEF Ids
<1>7. cleared \in Table(Devices, DeviceRecords) /\ DOMAIN cleared \subseteq ids
  BY <1>3, <1>5, <1>6, IsTable
<1>8. put \in Models /\ Ids(put) \subseteq ids
  BY <1>1, <1>2, SandboxPut
<1> HIDE DEF put
<1> QED
  BY <1>1, <1>7, <1>8, DevicesPut

LEMMA ConfirmTyped ==
  ASSUME Typed, PollConfirm
  PROVE  working' \in Models /\ Ids(working') \subseteq ids'
<1>1. /\ working \in Models /\ Ids(working) \subseteq ids /\ ids' = ids
      /\ visit \in DOMAIN todo /\ visit \in ids
      /\ working' = PutSandbox(working, visit, todo[visit])
  BY DEF Typed, ModelsOK, RoundOK, PollConfirm, Takes, UpdatePublish
<1>2. visit \in Sandboxes /\ todo[visit] \in SandboxRecords
  BY <1>1, TableFacts DEF Typed, RoundOK
<1> QED
  BY <1>1, <1>2, SandboxPut

LEMMA AutosaveTyped ==
  ASSUME Typed, NEW d \in Devices, PollAutosave(d)
  PROVE  working' \in Models /\ Ids(working') \subseteq ids'
<1>1. /\ working \in Models /\ Ids(working) \subseteq ids /\ ids' = ids
      /\ visit \in DOMAIN todo
      /\ [type |-> "autosave", dev |-> d] \in inbox[visit]
      /\ working' = working \/ working' = [working EXCEPT !.devices = Put(@, d, Ghost)]
  BY DEF Typed, ModelsOK, RoundOK, PollAutosave, TakesFor, UpdatePublish
<1>2. d \in ids
  BY <1>1, TableFacts DEF Typed, RoundOK, InboxOK
<1>3. /\ Put(working.devices, d, Ghost) \in Table(Devices, DeviceRecords)
      /\ DOMAIN Put(working.devices, d, Ghost) = DOMAIN working.devices \cup {d}
  <2>1. Put(working.devices, d, Ghost) \in Table(Devices, DeviceRecords)
    BY <1>1, ModelTables, PutIsTable, GhostIsDevice
  <2>2. DOMAIN Put(working.devices, d, Ghost) = DOMAIN working.devices \cup {d}
    BY DEF Put
  <2> QED
    BY <2>1, <2>2
<1>4. DOMAIN working.devices \subseteq ids
  BY <1>1 DEF Ids
<1> QED
  BY <1>1, <1>2, <1>3, <1>4, DevicesPut

-----------------------------------------------------------------------------
(* What the groups of actions leave alone.                                 *)

LEMMA CallFacts ==
  ASSUME Call
  PROVE  /\ published' \in {published, working'} /\ slips' \subseteq slips \cup {"dangling"}
         /\ UNCHANGED <<slow, todo, visit, has, inbox>>
  BY DEF Call, CreateGroup, EraseTheGroup, EraseTheSandbox, CreateSandbox, EraseTheDevice,
         CreateDeviceAsync, CreateIn, Connect, Disconnect, Update, UpdatePublish, Slip,
         processVars, pollVars

LEMMA SlowFacts ==
  ASSUME SlowCall \/ RetryBegin
  PROVE  /\ published' = published
         /\ slips' \subseteq slips \cup {"orphan", "stale", "replaced", "threw"}
         /\ UNCHANGED <<todo, visit, inbox>>
  BY DEF SlowCall, RetryBegin, RenderModeBegin, CreateBegin, RestartBegin, RestartThrows,
         RenderModeEnd, RestartEnd, RetryDevice, CreateEnd, CreateIn, Update, Slip,
         modelVars, processVars, pollVars

LEMMA ProcessFacts ==
  ASSUME Process
  PROVE  UNCHANGED <<working, published, ids, home, slow, todo, visit, slips>>
  BY DEF Process, Confirm, Die, Autosave, Reply, modelVars, pollVars

LEMMA PollFacts ==
  ASSUME Poll
  PROVE  /\ published' \in {published, working'}
         /\ slips' \subseteq slips \cup {"stale", "ghost", "late"}
         /\ UNCHANGED <<ids, proc, home, asked, has, slow, left>>
         /\ DOMAIN inbox' = DOMAIN inbox /\ \A s \in DOMAIN inbox : inbox'[s] \subseteq inbox[s]
<1>1. /\ published' \in {published, working'}
      /\ slips' \subseteq slips \cup {"stale", "ghost", "late"}
      /\ UNCHANGED <<ids, proc, home, asked, has, slow, left>>
  BY DEF Poll, PollBegin, PollConfirm, PollDone, PollFindsDead, PollVisits, PollAutosave,
         PollCreated, PollFailed, UpdatePublish, Slip, modelVars, processVars, pollVars
<1>2. DOMAIN inbox' = DOMAIN inbox /\ \A s \in DOMAIN inbox : inbox'[s] \subseteq inbox[s]
  <2>1. CASE inbox' = inbox
    BY <2>1
  <2>2. ASSUME NEW msg, inbox' = [inbox EXCEPT ![visit] = @ \ {msg}]
        PROVE  DOMAIN inbox' = DOMAIN inbox /\ \A s \in DOMAIN inbox : inbox'[s] \subseteq inbox[s]
    BY <2>2
  <2>3. inbox' = inbox \/ \E msg : inbox' = [inbox EXCEPT ![visit] = @ \ {msg}]
    BY DEF Poll, PollBegin, PollConfirm, PollDone, PollFindsDead, PollVisits, PollAutosave,
           PollCreated, PollFailed, Takes, TakesFor, processVars
  <2> QED
    BY <2>1, <2>2, <2>3
<1> QED
  BY <1>1, <1>2

-----------------------------------------------------------------------------
(* Every step keeps the types.                                             *)

LEMMA ModelsStep == ASSUME Typed, Sound, Next PROVE ModelsOK'
<1>1. Step /\ ~Broken
  BY NextStep DEF Next
<1>2. published' \in {published, working'}
  BY CallFacts, SlowFacts, ProcessFacts, PollFacts DEF Next, ClientNext
<1>3. working' \in Models /\ Ids(working') \subseteq ids'
  <2>1. CASE ~Broken'
    BY <1>1, <2>1 DEF Step, Good
  <2>2. CASE Call
    BY <1>1, <2>1, <2>2, CallFacts DEF Broken
  <2>3. CASE SlowCall \/ RetryBegin
    <3>1. ASSUME NEW d \in Devices, NEW known \in BOOLEAN, CreateEnd(d, known)
          PROVE  working' \in Models /\ Ids(working') \subseteq ids'
      <4>1. slow.sbox \in Sandboxes
        BY <3>1, ReadFacts DEF CreateEnd, Typed, ReadOK
      <4> QED
        BY <3>1, <4>1, CreateTyped DEF CreateEnd
    <3>2. CASE \/ \E g \in Groups : RenderModeBegin(g)
               \/ \E s \in Sandboxes : CreateBegin(s) \/ RestartBegin(s) \/ RestartThrows(s)
               \/ RetryBegin
      BY <3>2 DEF RenderModeBegin, CreateBegin, RestartBegin, RestartThrows, RetryBegin,
                  modelVars, Typed, ModelsOK
    <3> QED
      BY <2>3, <3>1, <3>2, RenderModeTyped, RestartTyped, RetryTyped DEF SlowCall
  <2>4. CASE Process
    BY <2>4, ProcessFacts DEF Typed, ModelsOK
  <2>5. CASE Poll
    <3>1. CASE PollBegin \/ PollDone \/ (\E s \in Sandboxes : PollVisits(s))
               \/ \E d \in Devices : PollFailed(d)
      BY <3>1 DEF PollBegin, PollDone, PollVisits, PollFailed, UpdatePublish,
                  modelVars, Typed, ModelsOK
    <3>2. ASSUME NEW d \in Devices, PollCreated(d)
          PROVE  working' \in Models /\ Ids(working') \subseteq ids'
      <4>1. slips' \subseteq slips \cup {"late"}
        BY <3>2 DEF PollCreated, Slip
      <4> QED
        BY <1>1, <2>1, <4>1 DEF Broken
    <3> QED
      BY <2>5, <3>1, <3>2, FindsDeadTyped, ConfirmTyped, AutosaveTyped DEF Poll
  <2> QED
    BY <2>2, <2>3, <2>4, <2>5 DEF Next, ClientNext
<1> QED
  BY <1>1, <1>2, <1>3 DEF Typed, ModelsOK, Step

LEMMA ReadStep == ASSUME Typed, Sound, Next PROVE ReadOK'
<1>1. /\ ids \subseteq ids' /\ slow \in SlowCalls
      /\ working \in Models /\ Ids(working) \subseteq ids
  BY NextStep DEF Step, Typed, ModelsOK, ReadOK
<1>2. CASE slow' = slow
  BY <1>1, <1>2 DEF Typed, ReadOK
<1>3. CASE slow' = Idle
  BY <1>3 DEF ReadOK, SlowCalls, Idle
<1>4. ASSUME NEW g \in Groups, RenderModeBegin(g) PROVE ReadOK'
  <2>1. /\ slow' = [kind |-> "render", group |-> g, row |-> working.groups[g]]
        /\ g \in DOMAIN working.groups
    BY <1>4 DEF RenderModeBegin, SlowBegin
  <2>2. working.groups[g] \in GroupRecords /\ g \in ids
    BY <1>1, <2>1, ModelTables DEF Ids
  <2> QED
    BY <1>1, <2>1, <2>2 DEF ReadOK, SlowCalls
<1>5. ASSUME NEW s \in Sandboxes, CreateBegin(s) PROVE ReadOK'
  <2>1. slow' = [kind |-> "create", sbox |-> s]
    BY <1>5 DEF CreateBegin, SlowBegin
  <2> QED
    BY <2>1 DEF ReadOK, SlowCalls
<1>6. ASSUME NEW s \in Sandboxes, RestartBegin(s) PROVE ReadOK'
  <2>1. /\ slow' = [kind |-> "restart", sbox |-> s, row |-> working.sandboxes[s]]
        /\ s \in DOMAIN working.sandboxes
    BY <1>6 DEF RestartBegin, SlowBegin
  <2>2. working.sandboxes[s] \in SandboxRecords /\ s \in ids
    BY <1>1, <2>1, ModelTables DEF Ids
  <2> QED
    BY <1>1, <2>1, <2>2 DEF ReadOK, SlowCalls
<1>7. CASE RetryBegin
  <2>1. slow' = [kind |-> "retry", model |-> working] /\ ids' = ids
    BY <1>7 DEF RetryBegin
  <2> QED
    BY <1>1, <2>1 DEF ReadOK, SlowCalls
<1>8. ASSUME NEW d \in Devices, RetryDevice(d) PROVE ReadOK'
  <2>1. working' \in Models /\ Ids(working') \subseteq ids'
    BY <1>8, RetryTyped
  <2>2. slow.kind = "retry" /\ (slow' = Idle \/ slow' = [slow EXCEPT !.model = working'])
    BY <1>8, RetryTyped DEF RetryDevice
  <2>3. slow' = Idle \/ slow' = [kind |-> "retry", model |-> working']
    BY <1>1, <2>2 DEF SlowCalls, Idle
  <2>4. CASE slow' = [kind |-> "retry", model |-> working']
    BY <2>1, <2>4 DEF ReadOK, SlowCalls
  <2> QED
    BY <1>3, <2>3, <2>4
<1>9. CASE Call \/ Process \/ Poll
  BY <1>2, <1>9, CallFacts, ProcessFacts, PollFacts
<1>10. \/ \E s \in Sandboxes : RestartThrows(s)
       \/ RenderModeEnd \/ RestartEnd \/ \E d \in Devices, known \in BOOLEAN : CreateEnd(d, known)
       => slow' = slow \/ slow' = Idle
  BY DEF RestartThrows, RenderModeEnd, RestartEnd, CreateEnd
<1> QED
  BY <1>2, <1>3, <1>4, <1>5, <1>6, <1>7, <1>8, <1>9, <1>10 DEF Next, ClientNext, SlowCall

LEMMA RoundStep == ASSUME Typed, Sound, Next PROVE RoundOK'
<1>1. ids \subseteq ids' /\ ~Broken
  BY NextStep DEF Step, Next
<1>2. /\ todo \in Table(Sandboxes, SandboxRecords)
      /\ \A s \in DOMAIN todo : s \in ids /\ todo[s].devices \subseteq ids
      /\ visit \in DOMAIN todo \cup {NoSandbox}
  BY DEF Typed, RoundOK
<1>3. CASE todo' = todo /\ visit' \in DOMAIN todo \cup {NoSandbox}
  BY <1>1, <1>2, <1>3 DEF RoundOK
<1>4. ASSUME NEW s, todo' = Drop(todo, s), visit' = NoSandbox PROVE RoundOK'
  <2>1. /\ todo' \in Table(Sandboxes, SandboxRecords)
        /\ DOMAIN todo' = DOMAIN todo \ {s} /\ \A r \in DOMAIN todo' : todo'[r] = todo[r]
    BY <1>2, <1>4, DropIsTable DEF Drop
  <2> QED
    BY <1>1, <1>2, <1>4, <2>1 DEF RoundOK
<1>5. CASE PollBegin
  <2>1. todo' = working.sandboxes /\ visit' = NoSandbox
    BY <1>5 DEF PollBegin
  <2>2. working \in Models /\ Contained(working) /\ Ids(working) \subseteq ids
    BY <1>1 DEF Sound, Good
  <2>3. \A s \in DOMAIN working.sandboxes :
          s \in ids /\ working.sandboxes[s].devices \subseteq ids
    BY <2>2 DEF Contained, Ids
  <2> QED
    BY <1>1, <2>1, <2>2, <2>3, ModelTables DEF RoundOK
<1>6. CASE Call \/ SlowCall \/ RetryBegin \/ Process
  BY <1>2, <1>3, <1>6, CallFacts, SlowFacts, ProcessFacts
<1>7. ASSUME NEW s \in Sandboxes, PollFindsDead(s) PROVE RoundOK'
  BY <1>4, <1>7 DEF PollFindsDead
<1>8. ASSUME NEW s \in Sandboxes, PollVisits(s) PROVE RoundOK'
  BY <1>3, <1>8 DEF PollVisits
<1>9. CASE PollDone
  BY <1>4, <1>9 DEF PollDone
<1>10. CASE PollConfirm \/ \E d \in Devices : PollAutosave(d) \/ PollCreated(d) \/ PollFailed(d)
  BY <1>2, <1>3, <1>10 DEF PollConfirm, PollAutosave, PollCreated, PollFailed, pollVars
<1> QED
  BY <1>5, <1>6, <1>7, <1>8, <1>9, <1>10 DEF Next, ClientNext, Poll

LEMMA CreateInProcess ==
  ASSUME Typed, NEW s \in Sandboxes, NEW d \in Devices, NEW known \in BOOLEAN,
         CreateIn(s, d, known)
  PROVE  ProcessesOK'
  BY DEF Typed, ProcessesOK, CreateIn

LEMMA KeptIsTyped ==
  ASSUME ProcessesOK, NEW s, NEW kept \in Kept(s)
  PROVE  kept \in [Devices -> Nat]
<1>1. \A n \in UNION {0 .. asked[d] : d \in Devices} : n \in Nat
  BY DEF ProcessesOK
<1> QED
  BY <1>1 DEF Kept

LEMMA ReplaceTyped ==
  ASSUME Typed, NEW s \in Sandboxes, NEW devs, Replace(s, devs), UNCHANGED <<ids, home>>
  PROVE  ProcessesOK'
<1>1. PICK kept \in [Devices -> Nat] :
        asked' = [d \in Devices |-> IF d \in devs THEN kept[d] + 1 ELSE kept[d]]
  BY KeptIsTyped DEF Replace, Typed, ProcessesOK
<1>2. asked' \in [Devices -> Nat]
  BY <1>1
<1>3. proc' \in [Sandboxes -> {"none", "running", "dead"}] /\ has' \in [Devices -> BOOLEAN]
  BY DEF Replace, Gone, Typed, ProcessesOK
<1> QED
  BY <1>2, <1>3 DEF Typed, ProcessesOK

LEMMA ProcessesStep == ASSUME Typed, Sound, Next PROVE ProcessesOK'
<1>1. CASE UNCHANGED <<ids, proc, home, asked, has>>
  BY <1>1 DEF Typed, ProcessesOK
<1>2. ASSUME NEW g \in Groups, CreateGroup(g) PROVE ProcessesOK'
  BY <1>2 DEF CreateGroup, processVars, Typed, ProcessesOK
<1>3. ASSUME NEW s \in Sandboxes, NEW g \in Groups, CreateSandbox(s, g) PROVE ProcessesOK'
  BY <1>3 DEF CreateSandbox, Typed, ProcessesOK
<1>4. ASSUME NEW s \in Sandboxes, NEW d \in Devices, NEW known \in BOOLEAN,
             CreateDeviceAsync(s, d, known)
      PROVE  ProcessesOK'
  BY <1>4, CreateInProcess DEF CreateDeviceAsync
<1>5. ASSUME NEW d \in Devices, NEW known \in BOOLEAN, CreateEnd(d, known) PROVE ProcessesOK'
  <2>1. slow.sbox \in Sandboxes
    BY <1>5, ReadFacts DEF CreateEnd, Typed, ReadOK
  <2> QED
    BY <1>5, <2>1, CreateInProcess DEF CreateEnd
<1>6. ASSUME NEW s \in Sandboxes, RestartBegin(s) PROVE ProcessesOK'
  <2>1. Replace(s, working.sandboxes[s].devices)
    BY <1>6 DEF RestartBegin
  <2> QED
    BY <1>6, <2>1, ReplaceTyped DEF RestartBegin
<1>7. ASSUME NEW s \in Sandboxes, RestartThrows(s) PROVE ProcessesOK'
  <2>1. PICK some : Replace(s, some)
    BY <1>7 DEF RestartThrows
  <2> QED
    BY <1>7, <2>1, ReplaceTyped DEF RestartThrows
<1>8. ASSUME NEW d \in Devices, RetryDevice(d) PROVE ProcessesOK'
  BY <1>8 DEF RetryDevice, Typed, ProcessesOK
<1>9. ASSUME NEW s \in Sandboxes, Die(s) PROVE ProcessesOK'
  <2>1. asked' \in [Devices -> Nat] /\ has' \in [Devices -> BOOLEAN]
    BY <1>9, KeptIsTyped DEF Die, Gone, Typed, ProcessesOK
  <2> QED
    BY <1>9, <2>1 DEF Die, Typed, ProcessesOK
<1>10. ASSUME NEW s \in Sandboxes, NEW d \in Devices, NEW type, Reply(s, d, type)
       PROVE  ProcessesOK'
  <2>1. asked[d] \in Nat /\ asked[d] > 0
    BY <1>10 DEF Reply, Typed, ProcessesOK
  <2>2. asked[d] - 1 \in Nat
    BY <2>1
  <2>3. asked' \in [Devices -> Nat]
    BY <1>10, <2>2 DEF Reply, Typed, ProcessesOK
  <2>4. has' \in [Devices -> BOOLEAN]
    BY <1>10 DEF Reply, Typed, ProcessesOK
  <2> QED
    BY <1>10, <2>3, <2>4 DEF Reply, Typed, ProcessesOK
<1>11. CASE Poll
  BY <1>1, <1>11, PollFacts
<1>12. \/ \E g \in Groups : EraseTheGroup(g) \/ RenderModeBegin(g)
       \/ \E s \in Sandboxes : EraseTheSandbox(s) \/ CreateBegin(s) \/ Confirm(s)
       \/ \E d \in Devices : EraseTheDevice(d) \/ \E s \in Sandboxes : Autosave(s, d)
       \/ \E d, e \in Devices : Connect(d, e) \/ Disconnect(d, e)
       \/ RenderModeEnd \/ RestartEnd \/ RetryBegin
       => UNCHANGED <<ids, proc, home, asked, has>>
  BY DEF EraseTheGroup, RenderModeBegin, EraseTheSandbox, CreateBegin, Confirm, EraseTheDevice,
         Autosave, Connect, Disconnect, RenderModeEnd, RestartEnd, RetryBegin, processVars
<1> QED
  BY <1>1, <1>2, <1>3, <1>4, <1>5, <1>6, <1>7, <1>8, <1>9, <1>10, <1>11, <1>12
     DEF Next, ClientNext, Call, SlowCall, Process

LEMMA InboxStep == ASSUME Typed, Sound, Next PROVE InboxOK'
<1>1. ids \subseteq ids' /\ InboxOK
  BY NextStep DEF Step, Typed
<1>2. CASE inbox' = inbox
  BY <1>1, <1>2 DEF InboxOK
<1>3. CASE Poll
  BY <1>1, <1>3, PollFacts DEF InboxOK
<1>4. ASSUME NEW s \in Sandboxes, NEW msg, Send(s, msg),
             \A d \in Devices : msg = [type |-> "autosave", dev |-> d] => d \in ids
      PROVE  InboxOK'
  BY <1>1, <1>4 DEF InboxOK, Send
<1>5. ASSUME NEW s \in Sandboxes, Confirm(s) PROVE InboxOK'
  <2>1. \A d \in Devices : [type |-> "confirm"] # [type |-> "autosave", dev |-> d]
    <3>1. [type |-> "confirm"].type = "confirm"
      OBVIOUS
    <3>2. \A d : [type |-> "autosave", dev |-> d].type = "autosave"
      OBVIOUS
    <3> QED
      BY <3>1, <3>2
  <2> QED
    BY <1>4, <1>5, <2>1 DEF Confirm
<1>6. ASSUME NEW s \in Sandboxes, NEW d \in Devices, Autosave(s, d) PROVE InboxOK'
  <2>1. home[d] \in Sandboxes
    BY <1>6 DEF Autosave
  <2>2. d \in ids
    BY <2>1, IdsAssumption DEF Typed, ProcessesOK
  <2>3. \A e \in Devices : [type |-> "autosave", dev |-> d] = [type |-> "autosave", dev |-> e]
                            => e \in ids
    BY <2>2
  <2> QED
    BY <1>4, <1>6, <2>3 DEF Autosave
<1>7. ASSUME NEW s \in Sandboxes, NEW d \in Devices, NEW type \in {"created", "failed"},
             Reply(s, d, type)
      PROVE  InboxOK'
  <2>1. \A e : [type |-> type, dev |-> d] # [type |-> "autosave", dev |-> e]
    <3>1. [type |-> type, dev |-> d].type \in {"created", "failed"}
      OBVIOUS
    <3>2. \A e : [type |-> "autosave", dev |-> e].type = "autosave"
      OBVIOUS
    <3> QED
      BY <3>1, <3>2
  <2> QED
    BY <1>4, <1>7, <2>1 DEF Reply
<1>8. ASSUME NEW s \in Sandboxes, Die(s) PROVE InboxOK'
  BY <1>2, <1>8 DEF Die
<1> QED
  BY <1>2, <1>3, <1>5, <1>6, <1>7, <1>8, CallFacts, SlowFacts DEF Next, ClientNext, Process

LEMMA UseTyped ==
  ASSUME left \in [Kinds -> Nat], NEW kind \in Kinds, Use(kind)
  PROVE  left' \in [Kinds -> Nat]
<1>1. left[kind] \in Nat /\ left[kind] > 0
  BY DEF Use
<1>2. left[kind] - 1 \in Nat
  BY <1>1
<1> QED
  BY <1>2 DEF Use

LEMMA HistoryStep == ASSUME Typed, Sound, Next PROVE HistoryOK'
<1>1. slips' \subseteq {"orphan", "dangling", "stale", "ghost", "late", "replaced", "threw"}
  BY CallFacts, SlowFacts, ProcessFacts, PollFacts DEF Next, ClientNext, Typed, HistoryOK
<1>2. left' = left \/ \E kind \in Kinds : Use(kind)
  <2>1. Call => left' = left \/ \E kind \in Kinds : Use(kind)
    BY DEF Call, CreateGroup, EraseTheGroup, EraseTheSandbox, CreateSandbox, EraseTheDevice,
           CreateDeviceAsync, CreateIn, Connect, Disconnect, Kinds
  <2>2. SlowCall \/ RetryBegin => left' = left \/ \E kind \in Kinds : Use(kind)
    BY DEF SlowCall, RetryBegin, RenderModeBegin, CreateBegin, RestartBegin, RestartThrows,
           RenderModeEnd, RestartEnd, RetryDevice, CreateEnd, CreateIn, SlowBegin, Kinds
  <2>3. Process => left' = left \/ \E kind \in Kinds : Use(kind)
    BY DEF Process, Confirm, Die, Autosave, Reply, Kinds
  <2> QED
    BY <2>1, <2>2, <2>3, PollFacts DEF Next, ClientNext
<1>3. left' \in [Kinds -> Nat]
  BY <1>2, UseTyped DEF Typed, HistoryOK
<1> QED
  BY <1>1, <1>3 DEF HistoryOK

LEMMA TypedInit == ASSUME Init PROVE Typed
<1>1. /\ Empty \in Table(Sandboxes, SandboxRecords) /\ DOMAIN Empty = {}
      /\ Ids(NoModel) = {} /\ NoModel \in Models
  <2>1. \A rows : Empty \in [{} -> rows]
    BY DEF Empty
  <2>2. DOMAIN Empty = {} /\ \A keys, rows : Empty \in Table(keys, rows)
    BY <2>1, IsTable DEF Empty
  <2> HIDE DEF Empty
  <2> QED
    BY <2>2 DEF NoModel, Models, Ids
<1> HIDE DEF NoModel
<1>2. ModelsOK /\ RoundOK
  BY <1>1 DEF Init, ModelsOK, RoundOK
<1>3. ReadOK
  BY DEF Init, ReadOK, SlowCalls, Idle
<1>4. ProcessesOK /\ InboxOK
  BY DEF Init, ProcessesOK, InboxOK
<1>5. HistoryOK
  BY BudgetsAssumption DEF Init, HistoryOK
<1> QED
  BY <1>2, <1>3, <1>4, <1>5 DEF Typed

LEMMA TypedNext == ASSUME Typed, Sound, [Next]_vars PROVE Typed'
<1>1. CASE Next
  BY <1>1, ModelsStep, ReadStep, RoundStep, ProcessesStep, InboxStep, HistoryStep DEF Typed
<1>2. CASE UNCHANGED vars
  <2>1. ModelsOK' /\ ReadOK' /\ RoundOK'
    BY <1>2 DEF vars, Typed, ModelsOK, ReadOK, RoundOK, Ids, Models
  <2>2. ProcessesOK' /\ InboxOK' /\ HistoryOK'
    BY <1>2 DEF vars, Typed, ProcessesOK, InboxOK, HistoryOK
  <2> QED
    BY <2>1, <2>2 DEF Typed
<1> QED
  BY <1>1, <1>2

\* The model and every row that a thread keeps of it have their types, whichever
\* step writes it back, and nothing in either model has an id that was not given out.
THEOREM TypeCorrect == Spec => []TypeOK
<1>1. \A keys, rows : \A t \in Table(keys, rows) : TableOK(t, keys, rows)
  BY TableFacts DEF TableOK
<1>2. \A m \in Models : ModelOK(m)
  BY <1>1, ModelTables DEF ModelOK
<1>3. Typed => TypeOK
  BY <1>1, <1>2, ReadFacts
     DEF Typed, ModelsOK, ReadOK, RoundOK, ProcessesOK, HistoryOK, TypeOK
<1> QED
  BY <1>3, TypedInit, TypedNext, AlwaysSound, PTL DEF Spec

-----------------------------------------------------------------------------
(* Models with nothing new: rows that are still there are the same, but    *)
(* for the marks and the sets of children; a plugin may have become known. *)

Fewer(m, n) ==
  /\ \A d \in DOMAIN n.devices :
       /\ d \in DOMAIN m.devices
       /\ n.devices[d].sbox = m.devices[d].sbox /\ n.devices[d].remote = m.devices[d].remote
       /\ m.devices[d].known => n.devices[d].known
  /\ \A s \in DOMAIN n.sandboxes :
       s \in DOMAIN m.sandboxes /\ n.sandboxes[s].launched = m.sandboxes[s].launched

LEMMA GroupsAreFewer ==
  ASSUME NEW m \in Models, NEW groups, NEW n, n = [m EXCEPT !.groups = groups]
  PROVE  Fewer(m, n)
<1>1. n.devices = m.devices /\ n.sandboxes = m.sandboxes
  BY DEF Models
<1> QED
  BY <1>1 DEF Fewer

LEMMA SandboxIsFewer ==
  ASSUME NEW m \in Models, NEW s \in DOMAIN m.sandboxes, NEW row \in SandboxRecords, NEW n,
         row.launched = m.sandboxes[s].launched,
         n = [m EXCEPT !.sandboxes = [m.sandboxes EXCEPT ![s] = row]]
  PROVE  Fewer(m, n)
  BY SandboxRow DEF Fewer

LEMMA ErasedSandboxIsFewer ==
  ASSUME NEW m \in Models, NEW s \in DOMAIN m.sandboxes,
         m.sandboxes[s].group \in DOMAIN m.groups
  PROVE  Fewer(m, EraseSandbox(m, s))
<1> DEFINE n == EraseSandbox(m, s)
           g == m.sandboxes[s].group
           removed == [m EXCEPT !.sandboxes = Drop(@, s), !.groups[g].sandboxes = @ \ {s}]
<1>1. removed.devices = m.devices /\ removed.sandboxes = Drop(m.sandboxes, s)
  BY DEF Models
<1>2. [removed EXCEPT !.groups = Drop(@, g)].devices = removed.devices
      /\ [removed EXCEPT !.groups = Drop(@, g)].sandboxes = removed.sandboxes
  BY DEF Models
<1>3. n = [removed EXCEPT !.groups = Drop(@, g)] \/ n = removed
  BY DEF EraseSandbox
<1> HIDE DEF n, removed
<1>4. n.devices = m.devices /\ n.sandboxes = Drop(m.sandboxes, s)
  BY <1>1, <1>2, <1>3
<1> QED
  BY <1>4 DEF Fewer, Drop, n

LEMMA ErasedDeviceIsFewer ==
  ASSUME NEW m, Good(m), NEW d \in DOMAIN m.devices
  PROVE  Fewer(m, EraseDevice(m, d))
<1> DEFINE n == EraseDevice(m, d)
           s == m.devices[d].sbox
           row == [m.sandboxes[s] EXCEPT !.devices = @ \ {d}]
           removed == [m EXCEPT !.devices = Drop(@, d), !.sandboxes[s].devices = @ \ {d}]
<1>1. m \in Models /\ s \in DOMAIN m.sandboxes /\ m.sandboxes[s] \in SandboxRecords
  BY ModelTables DEF Good, Contained
<1>2. /\ row \in SandboxRecords /\ row.launched = m.sandboxes[s].launched
      /\ row.group = m.sandboxes[s].group
  BY <1>1 DEF SandboxRecords
<1>3. n = EraseSandbox(removed, s) \/ n = removed
  BY DEF EraseDevice
<1> HIDE DEF row, n
<1>4. /\ removed.sandboxes = [m.sandboxes EXCEPT ![s] = row] /\ removed.groups = m.groups
      /\ removed.devices = Drop(m.devices, d)
  BY <1>1 DEF Models, row
<1>5. /\ DOMAIN removed.devices = DOMAIN m.devices \ {d}
      /\ \A e \in DOMAIN removed.devices : removed.devices[e] = m.devices[e]
  BY <1>4 DEF Drop
<1>6. removed.devices \in Table(Devices, DeviceRecords)
  <2>1. m.devices \in Table(Devices, DeviceRecords)
    BY <1>1, ModelTables
  <2>2. Drop(m.devices, d) \in Table(Devices, DeviceRecords)
    BY ONLY <2>1, DropIsTable
  <2> HIDE DEF removed
  <2>3. QED BY <1>4, <2>2
<1> HIDE DEF s
<1>7. /\ DOMAIN removed.sandboxes = DOMAIN m.sandboxes
      /\ removed.sandboxes[s] = row
      /\ \A r \in DOMAIN m.sandboxes \ {s} : removed.sandboxes[r] = m.sandboxes[r]
      /\ removed.sandboxes \in Table(Sandboxes, SandboxRecords)
  BY <1>1, <1>2, <1>4, ModelTables, RowFacts
<1>8. removed \in Models
  BY <1>1, <1>4, <1>6, <1>7 DEF Models
<1> HIDE DEF removed
<1>9. Fewer(m, removed)
  BY <1>2, <1>5, <1>7 DEF Fewer
<1>10. removed.sandboxes[s].group \in DOMAIN removed.groups
  BY <1>1, <1>2, <1>4, <1>7 DEF Good, Contained
<1>11. Fewer(removed, EraseSandbox(removed, s))
  BY <1>1, <1>7, <1>8, <1>10, ErasedSandboxIsFewer
<1>12. n = removed \/ Fewer(removed, n)
  BY <1>3, <1>11
<1>13. Fewer(m, n)
  BY <1>9, <1>12 DEF Fewer
<1> QED
  BY <1>13 DEF n

LEMMA EraseSandboxFewer ==
  ASSUME Sound, ~Broken, NEW s \in Sandboxes, EraseTheSandbox(s)
  PROVE  Fewer(working, working')
<1>1. /\ working \in Models /\ s \in DOMAIN working.sandboxes
      /\ working.sandboxes[s].group \in DOMAIN working.groups
  BY DEF Sound, Good, EraseTheSandbox
<1>2. CASE working.sandboxes[s].devices = {}
  <2>1. working' = EraseSandbox(working, s)
    BY <1>2 DEF EraseTheSandbox, UpdatePublish
  <2> QED
    BY <1>1, <2>1, ErasedSandboxIsFewer
<1>3. CASE working.sandboxes[s].devices # {}
  <2> DEFINE row == [working.sandboxes[s] EXCEPT !.marked = TRUE]
  <2>1. working' = [working EXCEPT !.sandboxes = [working.sandboxes EXCEPT ![s] = row]]
    BY <1>3 DEF EraseTheSandbox, UpdatePublish
  <2>2. working.sandboxes[s] \in SandboxRecords
    BY <1>1, ModelTables
  <2>3. row \in SandboxRecords /\ row.launched = working.sandboxes[s].launched
    BY <2>2 DEF SandboxRecords
  <2> HIDE DEF row
  <2> QED
    BY <1>1, <2>1, <2>3, SandboxIsFewer
<1> QED
  BY <1>2, <1>3

LEMMA EraseDeviceFewer ==
  ASSUME Sound, ~Broken, NEW d \in Devices, EraseTheDevice(d)
  PROVE  Fewer(working, working')
<1>1. Good(working) /\ d \in DOMAIN working.devices /\ working' = EraseDevice(working, d)
  BY DEF Sound, EraseTheDevice, UpdatePublish, Live
<1> QED
  BY <1>1, ErasedDeviceIsFewer

LEMMA ConnsFewer ==
  ASSUME Sound, ~Broken, NEW d \in Devices, NEW e \in Devices, Connect(d, e) \/ Disconnect(d, e)
  PROVE  Fewer(working, working')
<1>1. working \in Models /\ \E groups : working' = [working EXCEPT !.groups = groups]
  BY DEF Sound, Good, Connect, Disconnect, UpdatePublish
<1> QED
  BY <1>1, GroupsAreFewer

LEMMA GroupFewer ==
  ASSUME Sound, ~Broken, NEW g \in Groups, CreateGroup(g) \/ EraseTheGroup(g)
  PROVE  Fewer(working, working')
<1>1. working \in Models /\ \E groups : working' = [working EXCEPT !.groups = groups]
  BY DEF Sound, Good, CreateGroup, EraseTheGroup, Update, UpdatePublish
<1> QED
  BY <1>1, GroupsAreFewer

LEMMA RetryFewer ==
  ASSUME Sound, ~Broken, NEW d \in Devices, RetryDevice(d), ~Broken'
  PROVE  /\ Fewer(working, working') /\ slow.model = working
         /\ slow' = Idle => Waiting(working') = {}
<1>1. /\ slow.model = working /\ d \in DOMAIN working.devices
      /\ working' = [working EXCEPT !.devices[d].known = TRUE]
      /\ slow' = Idle \/ slow' = [slow EXCEPT !.model = working']
      /\ slow.kind = "retry"
  BY DEF RetryDevice, Waiting, Update, Slip, Broken
<1> DEFINE row == [working.devices[d] EXCEPT !.known = TRUE]
<1>2. working \in Models /\ working.devices[d] \in DeviceRecords
  BY <1>1, ModelTables DEF Sound, Good
<1>3. /\ row \in DeviceRecords /\ row.known
      /\ row.sbox = working.devices[d].sbox /\ row.remote = working.devices[d].remote
  BY <1>2 DEF DeviceRecords
<1>4. working' = [working EXCEPT !.devices = [working.devices EXCEPT ![d] = row]]
  BY <1>1
<1> HIDE DEF row
<1>5. /\ working'.devices = [working.devices EXCEPT ![d] = row]
      /\ working'.sandboxes = working.sandboxes
  BY <1>2, <1>4 DEF Models
<1>6. Fewer(working, working')
  BY <1>3, <1>5 DEF Fewer
<1>7. slow' = Idle => Waiting(working') = {}
  <2>1. CASE Waiting(working') = {}
    BY <2>1
  <2>2. CASE Waiting(working') # {}
    <3>1. slow' = [slow EXCEPT !.model = working']
      BY <2>2 DEF RetryDevice, Update
    <3>2. slow'.kind = "retry"
      BY <1>1, <3>1
    <3> QED
      BY <3>2 DEF Idle
  <2> QED
    BY <2>1, <2>2
<1> QED
  BY <1>1, <1>6, <1>7

-----------------------------------------------------------------------------
(* Devices and their remote counterparts.                                  *)

\* What a process has it has while it runs,
HasOK == \A d \in Devices : has[d] => home[d] \in Sandboxes /\ proc[home[d]] = "running"

\* a device is in the sandbox that it was created in,
HomeOK == ~Broken => \A d \in DOMAIN working.devices : home[d] = working.devices[d].sbox

\* and a process that runs is known to have been launched, or will be.
LaunchedOK ==
  ~Broken /\ slips \cap {"late", "replaced", "threw"} = {} =>
    \A s \in DOMAIN working.sandboxes :
      proc[s] = "running" => working.sandboxes[s].launched \/ Restarting(s)

Presence == HasOK /\ HomeOK /\ LaunchedOK /\ RemoteIsThere

\* Neither the processes nor a restart under way change.
LEMMA FewerKeepsPresence ==
  ASSUME Typed, Sound', Presence, slips \subseteq slips', Fewer(working, working'),
         UNCHANGED <<proc, home, has>>, \A s : Restarting(s) => Restarting(s)'
  PROVE  Presence'
<1>1. HasOK'
  BY DEF Presence, HasOK
<1>2. HomeOK'
  BY DEF Presence, HomeOK, Broken, Fewer
<1>3. LaunchedOK'
  BY DEF Presence, LaunchedOK, Broken, Fewer
<1>4. RemoteIsThere'
  <2> SUFFICES ASSUME ~Broken', slips' \cap {"late", "replaced", "threw"} = {},
                      NEW d \in DOMAIN working'.devices, working'.devices[d].remote
               PROVE  LET dev == working'.devices[d] IN
                      \/ has'[d] /\ proc'[dev.sbox] = "running"
                      \/ proc'[dev.sbox] = "dead"
                         /\ \/ working'.sandboxes[dev.sbox].launched
                            \/ slow'.kind = "restart" /\ slow'.sbox = dev.sbox
    BY DEF RemoteIsThere, Restarting
  <2>1. ~Broken /\ slips \cap {"late", "replaced", "threw"} = {}
    BY DEF Broken
  <2>2. /\ d \in DOMAIN working.devices /\ working.devices[d].remote
        /\ working'.devices[d].sbox = working.devices[d].sbox
    BY DEF Fewer
  <2>3. working'.devices[d].sbox \in DOMAIN working'.sandboxes
    BY DEF Sound, Good, Contained
  <2>4. working'.sandboxes[working'.devices[d].sbox].launched
          = working.sandboxes[working'.devices[d].sbox].launched
    BY <2>3 DEF Fewer
  <2> QED
    BY <2>1, <2>2, <2>4 DEF Presence, RemoteIsThere, Restarting
<1> QED
  BY <1>1, <1>2, <1>3, <1>4 DEF Presence

LEMMA SameIsFewer == ASSUME working' = working PROVE Fewer(working, working')
  BY DEF Fewer

\* When a step has broken the model there is only HasOK to be shown.
LEMMA BrokenPresence == ASSUME HasOK', Broken' PROVE Presence'
  BY DEF Presence, HomeOK, LaunchedOK, RemoteIsThere

LEMMA CreateSandboxPresence ==
  ASSUME Typed, Sound, ~Broken, Presence, NEW s \in Sandboxes, NEW g \in Groups,
         CreateSandbox(s, g)
  PROVE  Presence'
<1>1. /\ proc' = [proc EXCEPT ![s] = "running"] /\ proc \in [Sandboxes -> {"none", "running", "dead"}]
      /\ UNCHANGED <<home, has, slow, slips>>
      /\ working' = AddSandbox(working, s, g) /\ s \notin ids
  BY DEF CreateSandbox, UpdatePublish, Typed, ProcessesOK
<1>2. working \in Models /\ Contained(working) /\ s \notin DOMAIN working.sandboxes
  BY <1>1 DEF Sound, Good, Ids
<1>3. /\ working'.devices = working.devices
      /\ working'.sandboxes = Put(working.sandboxes, s, NewSandbox(g))
  BY <1>1, <1>2 DEF AddSandbox, Models
<1>4. /\ DOMAIN working'.sandboxes = DOMAIN working.sandboxes \cup {s}
      /\ working'.sandboxes[s].launched
      /\ \A r \in DOMAIN working.sandboxes : working'.sandboxes[r] = working.sandboxes[r]
  BY <1>2, <1>3 DEF Put, NewSandbox
<1>5. \A r : r # s => proc'[r] = proc[r]
  BY <1>1
<1>6. \A r : Restarting(r)' = Restarting(r)
  BY <1>1 DEF Restarting
<1>7. HasOK'
  BY <1>1 DEF Presence, HasOK
<1>8. HomeOK'
  BY <1>1, <1>3 DEF Presence, HomeOK, Broken
<1>9. LaunchedOK'
  BY <1>1, <1>4, <1>5, <1>6 DEF Presence, LaunchedOK, Broken
<1>10. \A d \in DOMAIN working.devices :
         working.devices[d].sbox \in DOMAIN working.sandboxes /\ working.devices[d].sbox # s
  BY <1>2 DEF Contained
<1>11. RemoteIsThere'
  BY <1>1, <1>3, <1>4, <1>5, <1>6, <1>10 DEF Presence, RemoteIsThere, Broken
<1> QED
  BY <1>7, <1>8, <1>9, <1>11 DEF Presence

\* A device that is created in a sandbox that is there.
LEMMA AddedDevice ==
  ASSUME NEW m \in Models, NEW d \in Devices, NEW dev \in DeviceRecords,
         dev.sbox \in DOMAIN m.sandboxes, NEW n, n = AddDevice(m, d, dev)
  PROVE  /\ n.devices = Put(m.devices, d, dev)
         /\ DOMAIN n.sandboxes = DOMAIN m.sandboxes
         /\ \A s \in DOMAIN m.sandboxes : n.sandboxes[s].launched = m.sandboxes[s].launched
<1> DEFINE s == dev.sbox
           row == [m.sandboxes[s] EXCEPT !.devices = @ \cup {d}]
<1>1. m.sandboxes[s] \in SandboxRecords
  BY ModelTables
<1>2. row \in SandboxRecords /\ row.launched = m.sandboxes[s].launched
  BY <1>1 DEF SandboxRecords
<1>3. n.devices = Put(m.devices, d, dev) /\ n.sandboxes = [m.sandboxes EXCEPT ![s] = row]
  BY DEF AddDevice, WithDevice, Models
<1> HIDE DEF row
<1> QED
  BY <1>2, <1>3

LEMMA CreatePresence ==
  ASSUME Typed, Sound, ~Broken, Presence, NEW s \in Sandboxes, NEW d \in Devices,
         NEW known \in BOOLEAN, CreateIn(s, d, known), \A r : Restarting(r)' = Restarting(r)
  PROVE  Presence'
<1> DEFINE dev == NewDevice(s, known)
<1>1. /\ d \notin ids /\ home' = [home EXCEPT ![d] = s] /\ UNCHANGED <<proc, has>>
      /\ working' = AddDevice(working, d, dev)
      /\ s \notin DOMAIN working.sandboxes => "orphan" \in slips'
      /\ slips \subseteq slips'
      /\ home \in [Devices -> Sandboxes \cup {NoSandbox}] /\ home[d] = NoSandbox
  BY DEF CreateIn, Update, Slip, Typed, ProcessesOK
<1>2. /\ working \in Models /\ Contained(working) /\ d \notin DOMAIN working.devices
      /\ DOMAIN working.devices \subseteq Devices
  BY <1>1, ModelTables DEF Sound, Good, Ids
<1>3. ~has[d]
  BY <1>1, IdsAssumption DEF Presence, HasOK
<1>4. home'[d] = s /\ \A e \in Devices : e # d => home'[e] = home[e]
  BY <1>1
<1>5. HasOK'
  BY <1>1, <1>3, <1>4 DEF Presence, HasOK
<1>6. CASE s \in DOMAIN working.sandboxes
  <2>1. dev \in DeviceRecords /\ dev.sbox = s /\ ~dev.remote
    BY DEF NewDevice, DeviceRecords
  <2> HIDE DEF dev
  <2>2. /\ working'.devices = Put(working.devices, d, dev)
        /\ DOMAIN working'.sandboxes = DOMAIN working.sandboxes
        /\ \A r \in DOMAIN working.sandboxes :
             working'.sandboxes[r].launched = working.sandboxes[r].launched
    BY <1>1, <1>2, <1>6, <2>1, AddedDevice
  <2>3. /\ DOMAIN working'.devices = DOMAIN working.devices \cup {d}
        /\ working'.devices[d] = dev
        /\ \A e \in DOMAIN working.devices : working'.devices[e] = working.devices[e]
    BY <1>2, <2>2 DEF Put
  <2>4. HomeOK'
    BY <1>1, <1>2, <1>4, <2>1, <2>3 DEF Presence, HomeOK, Broken
  <2>5. LaunchedOK'
    BY <1>1, <2>2 DEF Presence, LaunchedOK, Broken
  <2>6. \A e \in DOMAIN working.devices : working.devices[e].sbox \in DOMAIN working.sandboxes
    BY <1>2 DEF Contained
  <2>7. RemoteIsThere'
    BY <1>1, <2>1, <2>2, <2>3, <2>6 DEF Presence, RemoteIsThere, Broken
  <2> QED
    BY <1>5, <2>4, <2>5, <2>7 DEF Presence
<1>7. CASE s \notin DOMAIN working.sandboxes
  BY <1>1, <1>5, <1>7, BrokenPresence DEF Broken
<1> QED
  BY <1>6, <1>7

\* A process that ends takes what it has with it; one that starts has nothing.
LEMMA GoneHas ==
  ASSUME Typed, Presence, NEW s \in Sandboxes, UNCHANGED home, has' = Gone(s),
         NEW p \in {"running", "dead"}, proc' = [proc EXCEPT ![s] = p]
  PROVE  /\ HasOK'
         /\ \A d \in Devices : home[d] # s => has'[d] = has[d]
<1>1. /\ proc \in [Sandboxes -> {"none", "running", "dead"}]
      /\ has' = [d \in Devices |-> IF home[d] = s THEN FALSE ELSE has[d]]
  BY DEF Typed, ProcessesOK, Gone
<1> QED
  BY <1>1 DEF Presence, HasOK

LEMMA RestartPresence ==
  ASSUME Typed, Sound, ~Broken, Presence, NEW s \in Sandboxes, RestartBegin(s)
  PROVE  Presence'
<1>1. /\ s \in DOMAIN working.sandboxes
      /\ proc' = [proc EXCEPT ![s] = "running"] /\ has' = Gone(s)
      /\ UNCHANGED <<working, home>> /\ slips \subseteq slips' /\ Broken' = Broken
      /\ HadDevices(s) => "replaced" \in slips'
      /\ slow = Idle /\ slow'.kind = "restart" /\ slow'.sbox = s
  BY DEF RestartBegin, Replace, SlowBegin, Slip, modelVars, Broken
<1>2. proc \in [Sandboxes -> {"none", "running", "dead"}]
  BY DEF Typed, ProcessesOK
<1>3. proc'[s] = "running" /\ \A r : r # s => proc'[r] = proc[r]
  BY <1>1, <1>2
<1>4. (\A r : ~Restarting(r)) /\ Restarting(s)'
  BY <1>1 DEF Restarting, Idle
<1>5. HasOK' /\ \A d \in Devices : home[d] # s => has'[d] = has[d]
  BY <1>1, GoneHas
<1>6. HomeOK'
  BY <1>1 DEF Presence, HomeOK
<1>7. LaunchedOK'
  BY <1>1, <1>3, <1>4 DEF Presence, LaunchedOK
<1>8. RemoteIsThere'
  <2> SUFFICES ASSUME ~Broken', slips' \cap {"late", "replaced", "threw"} = {},
                      NEW d \in DOMAIN working'.devices, working'.devices[d].remote
               PROVE  LET dev == working'.devices[d] IN
                      \/ has'[d] /\ proc'[dev.sbox] = "running"
                      \/ proc'[dev.sbox] = "dead"
                         /\ \/ working'.sandboxes[dev.sbox].launched
                            \/ slow'.kind = "restart" /\ slow'.sbox = dev.sbox
    BY DEF RemoteIsThere, Restarting
  <2>1. slips \cap {"late", "replaced", "threw"} = {} /\ ~HadDevices(s)
    BY <1>1
  <2>2. d \in Devices /\ home[d] = working.devices[d].sbox
    BY <1>1, ModelTables DEF Typed, ModelsOK, Presence, HomeOK
  <2>3. home[d] # s
    BY <1>1, <2>1, <2>2 DEF HadDevices, Remotes
  <2> QED
    BY <1>1, <1>3, <1>4, <1>5, <2>1, <2>2, <2>3 DEF Presence, RemoteIsThere, Restarting
<1> QED
  BY <1>5, <1>6, <1>7, <1>8 DEF Presence

LEMMA ThrowsPresence ==
  ASSUME Typed, Sound, ~Broken, Presence, NEW s \in Sandboxes, RestartThrows(s)
  PROVE  Presence'
<1>1. /\ proc' = [proc EXCEPT ![s] = "running"] /\ has' = Gone(s)
      /\ UNCHANGED <<working, home>> /\ "threw" \in slips'
  BY DEF RestartThrows, Replace, Slip, modelVars
<1>2. HasOK'
  BY <1>1, GoneHas
<1> QED
  BY <1>1, <1>2 DEF Presence, HomeOK, LaunchedOK, RemoteIsThere

LEMMA RestartEndPresence ==
  ASSUME Typed, Sound, ~Broken, Presence, RestartEnd
  PROVE  Presence'
<1> DEFINE s == slow.sbox
           row == [slow.row EXCEPT !.launched = TRUE]
<1>1. /\ UNCHANGED <<proc, home, has>> /\ slips \subseteq slips'
      /\ working' = PutSandbox(working, s, row) /\ s \in Sandboxes /\ slow.row \in SandboxRecords
      /\ slow.kind = "restart" /\ slow' = Idle
  BY ReadFacts DEF RestartEnd, Slip, Update, PutSandbox, processVars, Typed, ReadOK
<1>2. HasOK'
  BY <1>1 DEF Presence, HasOK
<1>3. CASE ~Broken'
  <2>1. s \in DOMAIN working.sandboxes
    BY <1>3 DEF RestartEnd, Slip, Broken
  <2>2. row \in SandboxRecords /\ row.launched
    BY <1>1 DEF SandboxRecords
  <2> HIDE DEF s, row
  <2>3. working \in Models
    BY DEF Sound, Good
  <2>4. /\ working'.devices = working.devices
        /\ DOMAIN working'.sandboxes = DOMAIN working.sandboxes
        /\ working'.sandboxes[s].launched
        /\ \A r \in DOMAIN working.sandboxes \ {s} : working'.sandboxes[r] = working.sandboxes[r]
    <3>1. /\ working'.devices = working.devices
          /\ DOMAIN working'.sandboxes = DOMAIN working.sandboxes \cup {s}
          /\ working'.sandboxes[s] = row
          /\ \A r \in DOMAIN working.sandboxes \ {s} : working'.sandboxes[r] = working.sandboxes[r]
      BY ONLY <1>1, <2>2, <2>3, SandboxPut
    <3> QED
      BY <2>1, <2>2, <3>1
  <2>5. \A r : Restarting(r) => r = s
    BY <1>1 DEF Restarting, s
  <2>6. HomeOK'
    BY <1>1, <2>4 DEF Presence, HomeOK
  <2>7. LaunchedOK'
    BY <1>1, <2>4, <2>5 DEF Presence, LaunchedOK, Broken
  <2>8. \A d \in DOMAIN working.devices : working.devices[d].sbox \in DOMAIN working.sandboxes
    BY DEF Sound, Good, Contained
  <2>9. RemoteIsThere'
    BY <1>1, <2>4, <2>5, <2>8 DEF Presence, RemoteIsThere, Broken
  <2> QED
    BY <1>2, <2>6, <2>7, <2>9 DEF Presence
<1> QED
  BY <1>2, <1>3, BrokenPresence

LEMMA ReplyPresence ==
  ASSUME Typed, Presence, NEW s \in Sandboxes, NEW d \in Devices, NEW type, Reply(s, d, type)
  PROVE  Presence'
<1>1. /\ UNCHANGED <<working, proc, home, slow, slips>> /\ proc[s] = "running" /\ home[d] = s
      /\ has' = [has EXCEPT ![d] = @ \/ type = "created"] /\ has \in [Devices -> BOOLEAN]
  BY DEF Reply, modelVars, Typed, ProcessesOK
<1>2. \A e \in Devices : /\ has[e] => has'[e]
                         /\ has'[e] => has[e] \/ e = d
  BY <1>1
<1>3. HasOK'
  BY <1>1, <1>2 DEF Presence, HasOK
<1>4. HomeOK' /\ LaunchedOK'
  BY <1>1 DEF Presence, HomeOK, LaunchedOK, Broken, Restarting
<1>5. DOMAIN working.devices \subseteq Devices
  BY ModelTables DEF Typed, ModelsOK
<1>6. RemoteIsThere'
  BY <1>1, <1>2, <1>5 DEF Presence, RemoteIsThere, Broken, Restarting
<1> QED
  BY <1>3, <1>4, <1>6 DEF Presence

LEMMA DiePresence ==
  ASSUME Typed, Sound, ~Broken, Presence, NEW s \in Sandboxes, Die(s)
  PROVE  Presence'
<1>1. /\ UNCHANGED <<working, home, slow, slips>> /\ proc[s] = "running"
      /\ proc' = [proc EXCEPT ![s] = "dead"] /\ has' = Gone(s)
  BY DEF Die, modelVars
<1>2. proc \in [Sandboxes -> {"none", "running", "dead"}]
  BY DEF Typed, ProcessesOK
<1>3. proc'[s] = "dead" /\ \A r : r # s => proc'[r] = proc[r]
  BY <1>1, <1>2
<1>4. \A r : Restarting(r)' = Restarting(r)
  BY <1>1 DEF Restarting
<1>5. HasOK' /\ \A d \in Devices : home[d] # s => has'[d] = has[d]
  BY <1>1, GoneHas
<1>6. HomeOK' /\ LaunchedOK'
  BY <1>1, <1>3, <1>4 DEF Presence, HomeOK, LaunchedOK, Broken
<1>7. RemoteIsThere'
  <2> SUFFICES ASSUME ~Broken', slips' \cap {"late", "replaced", "threw"} = {},
                      NEW d \in DOMAIN working'.devices, working'.devices[d].remote
               PROVE  LET dev == working'.devices[d] IN
                      \/ has'[d] /\ proc'[dev.sbox] = "running"
                      \/ proc'[dev.sbox] = "dead"
                         /\ \/ working'.sandboxes[dev.sbox].launched
                            \/ slow'.kind = "restart" /\ slow'.sbox = dev.sbox
    BY DEF RemoteIsThere, Restarting
  <2>1. ~Broken /\ slips \cap {"late", "replaced", "threw"} = {}
    BY <1>1 DEF Broken
  <2>2. /\ d \in Devices /\ home[d] = working.devices[d].sbox
        /\ working.devices[d].sbox \in DOMAIN working.sandboxes
    BY <1>1, <2>1, ModelTables DEF Typed, ModelsOK, Presence, HomeOK, Sound, Good, Contained
  <2>3. CASE home[d] = s
    BY <1>1, <1>3, <1>4, <2>1, <2>2, <2>3 DEF Presence, LaunchedOK, Restarting
  <2>4. CASE home[d] # s
    BY <1>1, <1>3, <1>4, <1>5, <2>1, <2>2, <2>4 DEF Presence, RemoteIsThere, Restarting
  <2> QED
    BY <2>3, <2>4
<1> QED
  BY <1>5, <1>6, <1>7 DEF Presence

LEMMA FindsDeadPresence ==
  ASSUME Typed, Sound, ~Broken, Presence, NEW s \in Sandboxes, PollFindsDead(s)
  PROVE  Presence'
<1> DEFINE row == [todo[s] EXCEPT !.launched = FALSE]
           cleared == [d \in DOMAIN working.devices \cup row.devices |->
                         IF d \notin DOMAIN working.devices THEN Ghost
                         ELSE IF d \in row.devices THEN [working.devices[d] EXCEPT !.remote = FALSE]
                         ELSE working.devices[d]]
           put == PutSandbox(working, s, row)
<1>1. /\ UNCHANGED <<proc, home, has, slow>> /\ slips \subseteq slips' /\ proc[s] # "running"
      /\ working' = [put EXCEPT !.devices = cleared]
      /\ Overwrites(s, row, FALSE) => "stale" \in slips'
      /\ todo[s] \in SandboxRecords
  BY TableFacts DEF PollFindsDead, Slip, UpdatePublish, processVars, Typed, RoundOK
<1>2. HasOK'
  BY <1>1 DEF Presence, HasOK
<1>3. CASE Overwrites(s, row, FALSE)
  BY <1>1, <1>2, <1>3, BrokenPresence DEF Broken
<1>4. CASE ~Overwrites(s, row, FALSE)
  <2>1. working \in Models /\ Contained(working)
    BY DEF Sound, Good
  <2>2. s \in DOMAIN working.sandboxes /\ row = [working.sandboxes[s] EXCEPT !.launched = FALSE]
    BY <1>4 DEF Overwrites
  <2>3. row \in SandboxRecords
    BY <1>1 DEF SandboxRecords
  <2>4. row.devices = {d \in DOMAIN working.devices : working.devices[d].sbox = s}
    <3>1. working.sandboxes[s] \in SandboxRecords
      BY <2>1, <2>2, ModelTables
    <3>2. row.devices = working.sandboxes[s].devices
      BY <2>2, <3>1 DEF SandboxRecords
    <3> QED
      BY <2>1, <2>2, <3>2 DEF Contained
  <2> HIDE DEF row
  <2>5. DOMAIN cleared = DOMAIN working.devices
    BY <2>4
  <2>6. \A d \in DOMAIN working.devices :
          /\ cleared[d].sbox = working.devices[d].sbox
          /\ cleared[d].remote => working.devices[d].remote /\ working.devices[d].sbox # s
    <3> SUFFICES ASSUME NEW d \in DOMAIN working.devices
                 PROVE  /\ cleared[d].sbox = working.devices[d].sbox
                        /\ cleared[d].remote
                             => working.devices[d].remote /\ working.devices[d].sbox # s
      OBVIOUS
    <3>1. working.devices[d] \in DeviceRecords
      BY <2>1, ModelTables
    <3>2. cleared[d] = IF d \in row.devices THEN [working.devices[d] EXCEPT !.remote = FALSE]
                       ELSE working.devices[d]
      OBVIOUS
    <3> QED
      BY <2>4, <3>1, <3>2 DEF DeviceRecords
  <2> HIDE DEF cleared
  <2>7. /\ put \in Models
        /\ DOMAIN put.sandboxes = DOMAIN working.sandboxes
        /\ \A r \in DOMAIN working.sandboxes \ {s} : put.sandboxes[r] = working.sandboxes[r]
    <3>1. /\ put \in Models
          /\ DOMAIN put.sandboxes = DOMAIN working.sandboxes \cup {s}
          /\ \A r \in DOMAIN working.sandboxes \ {s} : put.sandboxes[r] = working.sandboxes[r]
      BY <2>1, <2>3, SandboxPut
    <3> QED
      BY <2>2, <3>1
  <2> HIDE DEF put
  <2>8. working'.devices = cleared /\ working'.sandboxes = put.sandboxes
    BY <1>1, <2>7 DEF Models
  <2>9. \A r : Restarting(r)' = Restarting(r)
    BY <1>1 DEF Restarting
  <2>10. HomeOK'
    BY <1>1, <2>5, <2>6, <2>8 DEF Presence, HomeOK
  <2>11. LaunchedOK'
    BY <1>1, <2>7, <2>8, <2>9 DEF Presence, LaunchedOK, Broken
  <2>12. \A d \in DOMAIN working.devices : working.devices[d].sbox \in DOMAIN working.sandboxes
    BY <2>1 DEF Contained
  <2>13. RemoteIsThere'
    BY <1>1, <2>5, <2>6, <2>7, <2>8, <2>9, <2>12 DEF Presence, RemoteIsThere, Broken
  <2> QED
    BY <1>2, <2>10, <2>11, <2>13 DEF Presence
<1> QED
  BY <1>3, <1>4

LEMMA CreatedPresence ==
  ASSUME Typed, Sound, ~Broken, Presence, NEW d \in Devices, PollCreated(d)
  PROVE  Presence'
<1>1. UNCHANGED <<proc, home, has, slow>> /\ slips \subseteq slips'
  BY DEF PollCreated, Slip
<1>2. \A r : Restarting(r)' = Restarting(r)
  BY <1>1 DEF Restarting
<1>3. HasOK'
  BY <1>1 DEF Presence, HasOK
<1>4. CASE ~Live(d)
  <2>1. UNCHANGED <<working, slips>>
    BY <1>4 DEF PollCreated, modelVars
  <2> QED
    BY <1>1, <1>2, <1>3, <2>1
       DEF Presence, HomeOK, LaunchedOK, RemoteIsThere, Broken
<1>5. CASE Live(d)
  <2> DEFINE row == [working.devices[d] EXCEPT !.remote = TRUE]
  <2>1. /\ working \in Models /\ d \in DOMAIN working.devices
        /\ ~has[d] => "late" \in slips'
    BY <1>5 DEF Live, Sound, Good, PollCreated, Slip
  <2>2. row.sbox = working.devices[d].sbox
    BY <2>1, ModelTables DEF DeviceRecords
  <2>3. working' = [working EXCEPT !.devices = [working.devices EXCEPT ![d] = row]]
    BY <1>5 DEF PollCreated, UpdatePublish
  <2> HIDE DEF row
  <2>4. /\ working'.sandboxes = working.sandboxes
        /\ working'.devices = [working.devices EXCEPT ![d] = row]
    BY <2>1, <2>3 DEF Models
  <2>5. /\ DOMAIN working'.devices = DOMAIN working.devices
        /\ \A e \in DOMAIN working.devices :
             /\ working'.devices[e].sbox = working.devices[e].sbox
             /\ e # d => working'.devices[e] = working.devices[e]
    BY <2>2, <2>4
  <2>6. HomeOK'
    BY <1>1, <2>5 DEF Presence, HomeOK
  <2>7. LaunchedOK'
    BY <1>1, <1>2, <2>4 DEF Presence, LaunchedOK, Broken
  <2>8. has[d] => proc[working.devices[d].sbox] = "running"
    BY <2>1 DEF Presence, HasOK, HomeOK
  <2>9. RemoteIsThere'
    BY <1>1, <1>2, <2>1, <2>4, <2>5, <2>8 DEF Presence, RemoteIsThere, Broken
  <2> QED
    BY <1>3, <2>6, <2>7, <2>9 DEF Presence
<1> QED
  BY <1>4, <1>5

LEMMA PresenceInit == ASSUME Init PROVE Presence
<1>1. HasOK
  BY DEF Init, HasOK
<1>2. HomeOK /\ LaunchedOK /\ RemoteIsThere
  BY DEF Init, NoModel, Empty, HomeOK, LaunchedOK, RemoteIsThere
<1> QED
  BY <1>1, <1>2 DEF Presence

\* A step that leaves the processes alone keeps HasOK, even if it breaks the model.
LEMMA QuietStep ==
  ASSUME Typed, Sound', Presence, slips \subseteq slips', UNCHANGED <<proc, home, has>>,
         ~Broken' => Fewer(working, working'), \A s : Restarting(s) => Restarting(s)'
  PROVE  Presence'
<1>1. CASE ~Broken'
  BY <1>1, FewerKeepsPresence
<1>2. CASE Broken'
  BY <1>2, BrokenPresence DEF Presence, HasOK
<1> QED
  BY <1>1, <1>2

LEMMA PresenceStep == ASSUME Typed, Sound, Presence, Next PROVE Presence'
<1>1. ~Broken /\ Sound' /\ slips \subseteq slips'
  BY NextStep, SoundStep DEF Next, Step
<1>2. ASSUME UNCHANGED <<proc, home, has>>, ~Broken' => Fewer(working, working'),
             \/ slow' = slow \/ slow.kind # "restart"
      PROVE  Presence'
  <2>1. \A s : Restarting(s) => Restarting(s)'
    BY <1>2 DEF Restarting
  <2> QED
    BY <1>1, <1>2, <2>1, QuietStep
<1>3. ASSUME UNCHANGED <<proc, home, has>>, working' = working \/ Broken',
             \/ slow' = slow \/ slow.kind # "restart"
      PROVE  Presence'
  BY <1>2, <1>3, SameIsFewer
<1>4. CASE Call
  <2>1. ASSUME NEW g \in Groups, NEW s \in Sandboxes, CreateSandbox(s, g) PROVE Presence'
    BY <1>1, <2>1, CreateSandboxPresence
  <2>2. ASSUME NEW s \in Sandboxes, NEW d \in Devices, NEW known \in BOOLEAN,
               CreateDeviceAsync(s, d, known)
        PROVE  Presence'
    <3>1. \A r : Restarting(r)' = Restarting(r)
      BY <1>4, CallFacts DEF Restarting
    <3> QED
      BY <1>1, <2>2, <3>1, CreatePresence DEF CreateDeviceAsync
  <2>3. ASSUME NEW g \in Groups, CreateGroup(g) \/ EraseTheGroup(g) PROVE Presence'
    <3>1. UNCHANGED <<proc, home, has, slow>>
      BY <2>3 DEF CreateGroup, EraseTheGroup, processVars
    <3>2. Fewer(working, working')
      BY <1>1, <2>3, GroupFewer
    <3> QED
      BY <1>2, <3>1, <3>2
  <2>4. ASSUME NEW s \in Sandboxes, EraseTheSandbox(s) PROVE Presence'
    <3>1. UNCHANGED <<proc, home, has, slow>>
      BY <2>4 DEF EraseTheSandbox, processVars
    <3>2. Fewer(working, working')
      BY <1>1, <2>4, EraseSandboxFewer
    <3> QED
      BY <1>2, <3>1, <3>2
  <2>5. ASSUME NEW d \in Devices, EraseTheDevice(d) PROVE Presence'
    <3>1. UNCHANGED <<proc, home, has, slow>>
      BY <2>5 DEF EraseTheDevice, processVars
    <3>2. Fewer(working, working')
      BY <1>1, <2>5, EraseDeviceFewer
    <3> QED
      BY <1>2, <3>1, <3>2
  <2>6. ASSUME NEW d \in Devices, NEW e \in Devices, Connect(d, e) \/ Disconnect(d, e)
        PROVE  Presence'
    <3>1. UNCHANGED <<proc, home, has, slow>>
      BY <2>6 DEF Connect, Disconnect, processVars
    <3>2. Fewer(working, working')
      BY <1>1, <2>6, ConnsFewer
    <3> QED
      BY <1>2, <3>1, <3>2
  <2> QED
    BY <1>4, <2>1, <2>2, <2>3, <2>4, <2>5, <2>6 DEF Call
<1>5. CASE SlowCall \/ RetryBegin
  <2>1. ASSUME NEW d \in Devices, NEW known \in BOOLEAN, CreateEnd(d, known) PROVE Presence'
    <3>1. slow.sbox \in Sandboxes
      BY <2>1, ReadFacts DEF CreateEnd, Typed, ReadOK
    <3>2. \A r : Restarting(r)' = Restarting(r)
      BY <2>1 DEF CreateEnd, Restarting, Idle
    <3> QED
      BY <1>1, <2>1, <3>1, <3>2, CreatePresence DEF CreateEnd
  <2>2. ASSUME NEW s \in Sandboxes, RestartBegin(s) \/ RestartThrows(s) PROVE Presence'
    BY <1>1, <2>2, RestartPresence, ThrowsPresence
  <2>3. CASE RestartEnd
    BY <1>1, <2>3, RestartEndPresence
  <2>4. ASSUME NEW d \in Devices, RetryDevice(d) PROVE Presence'
    <3>1. UNCHANGED <<proc, home, has>> /\ slow.kind # "restart"
      BY <2>4 DEF RetryDevice
    <3> QED
      BY <1>1, <1>2, <2>4, <3>1, RetryFewer
  <2>5. CASE RenderModeEnd
    <3>1. /\ UNCHANGED <<proc, home, has>> /\ slow.kind # "restart"
          /\ working' = working \/ "stale" \in slips'
      BY <2>5 DEF RenderModeEnd, processVars, Update, Slip
    <3> QED
      BY <1>3, <3>1 DEF Broken
  <2>6. CASE \/ \E g \in Groups : RenderModeBegin(g)
             \/ \E s \in Sandboxes : CreateBegin(s)
             \/ RetryBegin
    <3>1. UNCHANGED <<working, proc, home, has>> /\ slow.kind # "restart"
      BY <2>6 DEF RenderModeBegin, CreateBegin, RetryBegin, SlowBegin, Idle, modelVars, processVars
    <3> QED
      BY <1>3, <3>1
  <2> QED
    BY <1>5, <2>1, <2>2, <2>3, <2>4, <2>5, <2>6 DEF SlowCall
<1>6. CASE Process
  <2>1. ASSUME NEW s \in Sandboxes, NEW d \in Devices, Autosave(s, d) PROVE Presence'
    <3>1. UNCHANGED <<working, proc, home, has, slow>>
      BY <2>1 DEF Autosave, modelVars
    <3> QED
      BY <1>3, <3>1
  <2>2. ASSUME NEW s \in Sandboxes, Confirm(s) PROVE Presence'
    <3>1. UNCHANGED <<working, proc, home, has, slow>>
      BY <2>2 DEF Confirm, modelVars
    <3> QED
      BY <1>3, <3>1
  <2> QED
    BY <1>1, <1>6, <2>1, <2>2, ReplyPresence, DiePresence DEF Process
<1>7. CASE Poll
  <2>1. UNCHANGED <<proc, home, has, slow>>
    BY <1>7, PollFacts
  <2>2. CASE PollBegin \/ PollDone \/ (\E s \in Sandboxes : PollVisits(s))
             \/ \E d \in Devices : PollFailed(d)
    <3>1. working' = working
      BY <2>2 DEF PollBegin, PollDone, PollVisits, PollFailed, UpdatePublish, modelVars
    <3> QED
      BY <1>3, <2>1, <3>1
  <2>3. CASE PollConfirm \/ \E d \in Devices : PollAutosave(d)
    <3>1. working' = working \/ slips' \cap {"stale", "ghost"} # {}
      BY <2>3 DEF PollConfirm, PollAutosave, UpdatePublish, Slip
    <3> QED
      BY <1>3, <2>1, <3>1 DEF Broken
  <2> QED
    BY <1>1, <1>7, <2>2, <2>3, FindsDeadPresence, CreatedPresence DEF Poll
<1> QED
  BY <1>4, <1>5, <1>6, <1>7 DEF Next, ClientNext

\* A device with a remote has one, in a process that runs, or the process has died
\* and the poll thread will find out or a restart will launch it again; unless a
\* restart replaced a process that lived, or threw, or an answer came after a death.
THEOREM RemotesAreThere == Spec => []RemoteIsThere
<1>1. Typed /\ Sound /\ Presence /\ [Next]_vars => Presence'
  <2>1. ASSUME Presence, UNCHANGED vars PROVE Presence'
    BY <2>1 DEF vars, Presence, HasOK, HomeOK, LaunchedOK, RemoteIsThere, Broken, Restarting
  <2> QED
    BY <2>1, PresenceStep
<1>2. Presence => RemoteIsThere
  BY DEF Presence
<1> QED
  BY <1>1, <1>2, TypedInit, TypedNext, PresenceInit, AlwaysSound, PTL DEF Spec

-----------------------------------------------------------------------------
(* Devices that wait for their plugin (for PluginScan).                    *)

KnownStays(m, n) ==
  \A d \in DOMAIN m.devices \cap DOMAIN n.devices : m.devices[d].known => n.devices[d].known

LEMMA FewerKnown == ASSUME NEW m, NEW n, Fewer(m, n) PROVE KnownStays(m, n)
  BY DEF Fewer, KnownStays

LEMMA SameDevicesKnown == ASSUME NEW m, NEW n, n.devices = m.devices PROVE KnownStays(m, n)
  BY DEF KnownStays

LEMMA CreateKnown ==
  ASSUME Typed, ~Broken, Sound, NEW s, NEW d \in Devices, NEW known, CreateIn(s, d, known)
  PROVE  KnownStays(working, working')
<1>1. /\ working \in Models /\ d \notin DOMAIN working.devices
      /\ working' = AddDevice(working, d, NewDevice(s, known))
  BY DEF CreateIn, Update, Sound, Good, Ids
<1>2. working'.devices = Put(working.devices, d, NewDevice(s, known))
  BY <1>1 DEF AddDevice, Models
<1> QED
  BY <1>1, <1>2 DEF KnownStays, Put

LEMMA FindsDeadKnown ==
  ASSUME Typed, ~Broken, Sound, NEW s \in Sandboxes, PollFindsDead(s)
  PROVE  KnownStays(working, working')
<1> DEFINE row == [todo[s] EXCEPT !.launched = FALSE]
           cleared == [d \in DOMAIN working.devices \cup row.devices |->
                         IF d \notin DOMAIN working.devices THEN Ghost
                         ELSE IF d \in row.devices THEN [working.devices[d] EXCEPT !.remote = FALSE]
                         ELSE working.devices[d]]
           put == PutSandbox(working, s, row)
<1>1. working \in Models /\ working' = [put EXCEPT !.devices = cleared]
  BY DEF PollFindsDead, UpdatePublish, Sound, Good
<1>2. \A d \in DOMAIN working.devices : cleared[d].known = working.devices[d].known
  <2> SUFFICES ASSUME NEW d \in DOMAIN working.devices
               PROVE  cleared[d].known = working.devices[d].known
    OBVIOUS
  <2>1. working.devices[d] \in DeviceRecords
    BY <1>1, ModelTables
  <2>2. cleared[d] = IF d \in row.devices THEN [working.devices[d] EXCEPT !.remote = FALSE]
                     ELSE working.devices[d]
    OBVIOUS
  <2> QED
    BY <2>1, <2>2 DEF DeviceRecords
<1> HIDE DEF cleared
<1>3. working'.devices = cleared
  BY <1>1 DEF Models, PutSandbox
<1> QED
  BY <1>2, <1>3 DEF KnownStays

LEMMA CreatedKnown ==
  ASSUME Typed, ~Broken, Sound, NEW d \in Devices, PollCreated(d)
  PROVE  KnownStays(working, working')
<1>1. CASE ~Live(d)
  BY <1>1, SameDevicesKnown DEF PollCreated, modelVars
<1>2. CASE Live(d)
  <2> DEFINE row == [working.devices[d] EXCEPT !.remote = TRUE]
  <2>1. working \in Models /\ d \in DOMAIN working.devices
    BY <1>2 DEF Live, Sound, Good
  <2>2. row.known = working.devices[d].known
    BY <2>1, ModelTables DEF DeviceRecords
  <2>3. working' = [working EXCEPT !.devices = [working.devices EXCEPT ![d] = row]]
    BY <1>2 DEF PollCreated, UpdatePublish
  <2> HIDE DEF row
  <2>4. working'.devices = [working.devices EXCEPT ![d] = row]
    BY <2>1, <2>3 DEF Models
  <2> QED
    BY <2>2, <2>4 DEF KnownStays
<1> QED
  BY <1>1, <1>2

LEMMA KnownStep ==
  ASSUME Typed, Sound, Next, ~Broken'
  PROVE  KnownStays(working, working')
<1>1. ~Broken /\ working \in Models
  BY DEF Next, Sound, Good
<1>2. CASE working' = working
  BY <1>2, SameDevicesKnown
<1>3. CASE Call
  <2>1. ASSUME NEW g \in Groups, NEW s \in Sandboxes, CreateSandbox(s, g)
        PROVE  KnownStays(working, working')
    <3>1. working' = AddSandbox(working, s, g)
      BY <2>1 DEF CreateSandbox, UpdatePublish
    <3>2. working'.devices = working.devices
      BY <1>1, <3>1 DEF AddSandbox, Models
    <3> QED
      BY <3>2, SameDevicesKnown
  <2> QED
    BY <1>1, <1>3, <2>1, GroupFewer, EraseSandboxFewer, EraseDeviceFewer, ConnsFewer, FewerKnown,
       CreateKnown DEF Call, CreateDeviceAsync
<1>4. CASE SlowCall \/ RetryBegin
  <2>1. CASE RestartEnd
    <3>1. \E row : working' = PutSandbox(working, slow.sbox, row)
      BY <2>1 DEF RestartEnd, Update, PutSandbox
    <3>2. working'.devices = working.devices
      BY <1>1, <3>1 DEF PutSandbox, Models
    <3> QED
      BY <3>2, SameDevicesKnown
  <2>2. CASE RenderModeEnd
    BY <1>2, <2>2 DEF RenderModeEnd, Slip, Update, Broken
  <2>3. ASSUME NEW d \in Devices, RetryDevice(d) PROVE KnownStays(working, working')
    BY <1>1, <2>3, RetryFewer, FewerKnown
  <2>4. ASSUME NEW d \in Devices, NEW known \in BOOLEAN, CreateEnd(d, known)
        PROVE  KnownStays(working, working')
    BY <1>1, <2>4, CreateKnown DEF CreateEnd
  <2>5. CASE \/ \E g \in Groups : RenderModeBegin(g)
             \/ \E s \in Sandboxes : CreateBegin(s) \/ RestartBegin(s) \/ RestartThrows(s)
             \/ RetryBegin
    BY <1>2, <2>5 DEF RenderModeBegin, CreateBegin, RestartBegin, RestartThrows, RetryBegin, modelVars
  <2> QED
    BY <1>4, <2>1, <2>2, <2>3, <2>4, <2>5 DEF SlowCall
<1>5. CASE Process
  BY <1>2, <1>5, ProcessFacts
<1>6. CASE Poll
  <2>1. CASE PollBegin \/ PollDone \/ (\E s \in Sandboxes : PollVisits(s))
             \/ \E d \in Devices : PollFailed(d)
    BY <1>2, <2>1 DEF PollBegin, PollDone, PollVisits, PollFailed, UpdatePublish, modelVars
  <2>2. CASE PollConfirm \/ \E d \in Devices : PollAutosave(d)
    <3>1. working' = working \/ slips' \cap {"stale", "ghost"} # {}
      BY <2>2 DEF PollConfirm, PollAutosave, UpdatePublish, Slip
    <3> QED
      BY <1>2, <3>1 DEF Broken
  <2> QED
    BY <1>1, <1>6, <2>1, <2>2, FindsDeadKnown, CreatedKnown DEF Poll
<1> QED
  BY <1>3, <1>4, <1>5, <1>6 DEF Next, ClientNext

\* No device begins to wait but when it is created, and a retry that ends leaves
\* none that waits.
LEMMA WaitingStep ==
  ASSUME Typed, Sound, Next, ~Broken'
  PROVE  /\ \A d \in Waiting(working') :
              \/ d \in Waiting(working)
              \/ d \in Devices \cap (ids' \ ids) /\ ~working'.devices[d].known
         /\ slow.kind = "retry" => slow'.kind = "retry" \/ Waiting(working') = {}
<1>1. /\ ~Broken /\ KnownStays(working, working') /\ Sound' /\ Step
      /\ working \in Models /\ working' \in Models /\ Contained(working)
  BY KnownStep, NextStep, SoundStep DEF Next, Sound, Good
<1>2. ASSUME NEW d \in Waiting(working')
      PROVE  \/ d \in Waiting(working)
             \/ d \in Devices \cap (ids' \ ids) /\ ~working'.devices[d].known
  <2>1. d \in DOMAIN working'.devices /\ ~working'.devices[d].known /\ d \in Devices /\ d \in ids'
    BY <1>1, ModelTables DEF Waiting, Step, Ids
  <2>2. CASE d \in ids
    <3>1. Ids(working') \cap ids \subseteq Ids(working)
      BY <1>1 DEF Step, Broken
    <3>2. d \in Ids(working)
      BY <2>1, <2>2, <3>1 DEF Ids
    <3>3. d \in DOMAIN working.devices
      BY <1>1, <2>1, <3>2, ModelTables, IdsAssumption DEF Ids
    <3> QED
      BY <1>1, <2>1, <3>3 DEF KnownStays, Waiting, Contained
  <2> QED
    BY <2>1, <2>2
<1>3. ASSUME slow.kind = "retry" PROVE slow'.kind = "retry" \/ Waiting(working') = {}
  <2>1. CASE slow' = slow
    BY <1>3, <2>1
  <2>2. ASSUME NEW d \in Devices, RetryDevice(d)
        PROVE  slow'.kind = "retry" \/ Waiting(working') = {}
    <3>1. slow' = Idle => Waiting(working') = {}
      BY <1>1, <2>2, RetryFewer
    <3>2. slow' = Idle \/ slow' = [slow EXCEPT !.model = working']
      BY <2>2, RetryTyped
    <3>3. slow \in SlowCalls
      BY DEF Typed, ReadOK
    <3> QED
      BY <1>3, <3>1, <3>2, <3>3, ReadFacts
  <2>3. CASE SlowCall \/ RetryBegin
    <3>1. slow # Idle /\ slow.kind # "render" /\ slow.kind # "restart" /\ slow.kind # "create"
      BY <1>3 DEF Idle
    <3> QED
      BY <2>2, <2>3, <3>1
         DEF SlowCall, RetryBegin, RenderModeBegin, CreateBegin, RestartBegin, RestartThrows,
             RenderModeEnd, RestartEnd, CreateEnd, SlowBegin
  <2> QED
    BY <2>1, <2>2, <2>3, CallFacts, ProcessFacts, PollFacts DEF Next, ClientNext
<1> QED
  BY <1>2, <1>3
=============================================================================
