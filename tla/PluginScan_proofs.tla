-------------------------- MODULE PluginScan_proofs --------------------------
(***************************************************************************)
(* Theorems of PluginScan, for any files, contents and bounds.             *)
(***************************************************************************)
EXTENDS PluginScan, ClientModel_proofs

-----------------------------------------------------------------------------
(* The scanner and the client's model.                                     *)

LEMMA ScanStepIsStep == [ScanNext]_all => [Next]_vars
<1> SUFFICES ASSUME ScanNext PROVE Next \/ UNCHANGED vars
  BY DEF all
<1>0. ~Broken
  BY DEF ScanNext
<1>1. CASE Client
  BY <1>0, <1>1 DEF Client, Next
<1>2. ASSUME NEW f \in Files, ListFile(f) PROVE Next \/ UNCHANGED vars
  BY <1>2 DEF ListFile, Write
<1>3. ASSUME NEW f \in Files, FileBroken(f) PROVE Next \/ UNCHANGED vars
  BY <1>3 DEF FileBroken
<1>4. ASSUME NEW f \in Files, ReadPlugfile(f) PROVE Next \/ UNCHANGED vars
  BY <1>4 DEF ReadPlugfile, Reads, Handler
<1>5. ASSUME NEW f \in Files, NEW k \in Kids, ReadBrokenPlugfile(k, f) PROVE Next \/ UNCHANGED vars
  BY <1>5 DEF ReadBrokenPlugfile, Reads, Handler
<1>6. ASSUME NEW f \in Files, NEW p \in Contents[f], ScanPlugin(f, p) PROVE Next \/ UNCHANGED vars
  BY <1>6 DEF ScanPlugin, Write
<1>7. ASSUME NEW f \in Files, NEW p \in Contents[f], ReadPlugin(f, p) PROVE Next \/ UNCHANGED vars
  BY <1>7 DEF ReadPlugin, Reads, Handler
<1>8. ASSUME NEW f \in Files, NEW p \in Contents[f], ReadBrokenPlugin(f, p) PROVE Next \/ UNCHANGED vars
  BY <1>8 DEF ReadBrokenPlugin, Reads, Handler
<1>9. ASSUME NEW f \in Files, NEW p \in Contents[f], ReadNoise(f, p) PROVE Next \/ UNCHANGED vars
  BY <1>9 DEF ReadNoise, Reads, Handler
<1>10. ASSUME NEW f \in Files, ReadNoise(Listing, f) PROVE Next \/ UNCHANGED vars
  BY <1>10 DEF ReadNoise, Reads, Handler
<1>11. ASSUME NEW k \in Kids, StartKid(k) PROVE Next \/ UNCHANGED vars
  BY <1>11 DEF StartKid, Handler
<1>12. ASSUME NEW k \in Kids, KidEnds(k) PROVE Next \/ UNCHANGED vars
  BY <1>12 DEF KidEnds
<1>13. ASSUME NEW k \in Kids, ReadEnd(k) PROVE Next \/ UNCHANGED vars
  BY <1>13 DEF ReadEnd, Handler
<1>14. CASE Enter
  BY <1>14 DEF Enter, Return
<1>15. CASE NoScanner
  BY <1>15 DEF NoScanner, Handler
<1>16. CASE StartThrows
  BY <1>16 DEF StartThrows, Return
<1>17. CASE RunsOut
  BY <1>17 DEF RunsOut, Return
<1>18. CASE Retry
  BY <1>0, <1>18 DEF Retry, Next
<1>19. CASE Start
  BY <1>19 DEF Start
<1>20. ASSUME NEW flag \in BOOLEAN, Scan(flag) PROVE Next \/ UNCHANGED vars
  BY <1>20 DEF Scan
<1>21. CASE UNCHANGED all
  BY <1>21 DEF all, scanVars
<1> QED
  BY <1>1, <1>2, <1>3, <1>4, <1>5, <1>6, <1>7, <1>8, <1>9, <1>10, <1>11, <1>12, <1>13,
     <1>14, <1>15, <1>16, <1>17, <1>18, <1>19, <1>20, <1>21 DEF ScanNext, Scanner

\* The scanner changes the client's model by retry_failed_devices alone: what
\* is proved of ClientModel holds with it.
THEOREM ScanImplementsModel == ScanSpec => Spec
<1>1. ScanInit => Init
  BY DEF ScanInit
<1> QED
  BY <1>1, ScanStepIsStep, PTL DEF ScanSpec, Spec

-----------------------------------------------------------------------------
(* Rows of plugins.                                                        *)

AllRows == {Row(p, broken) : p \in AllPlugins, broken \in BOOLEAN}

RowsOK ==
  /\ plugins \subseteq AllRows
  /\ seen \subseteq AllPlugins
  /\ BestIsKnown

LEMMA RowsInit == ScanInit => RowsOK
  BY DEF ScanInit, RowsOK, BestIsKnown

LEMMA VersionsAreNumbers == \A p \in AllPlugins : p.version \in Nat
  BY ContentsAssumption DEF AllPlugins

LEMMA RowIsRow == ASSUME NEW p \in AllPlugins, NEW broken \in BOOLEAN PROVE Row(p, broken) \in AllRows
  BY DEF AllRows

LEMMA RowsHaveVersions == \A row \in AllRows : row.version \in Nat
  BY VersionsAreNumbers DEF AllRows, Row

\* A row is added for a plugin unless there is one that is not older.
LEMMA RowsStep == RowsOK /\ [ScanNext]_all => RowsOK'
<1> SUFFICES ASSUME RowsOK, [ScanNext]_all PROVE RowsOK'
  OBVIOUS
<1>0. UNCHANGED <<plugins, seen>> => RowsOK'
  BY DEF RowsOK, BestIsKnown
<1>1. CASE Client
  BY <1>0, <1>1 DEF Client, scanVars
<1>2. ASSUME NEW f \in Files, ListFile(f) PROVE RowsOK'
  BY <1>2, <1>0 DEF ListFile, Write, rows
<1>3. ASSUME NEW f \in Files, FileBroken(f) PROVE RowsOK'
  BY <1>3, <1>0 DEF FileBroken, rows
<1>4. ASSUME NEW f \in Files, ReadPlugfile(f) PROVE RowsOK'
  BY <1>4, <1>0 DEF ReadPlugfile, Reads, Handler, rows
<1>5. ASSUME NEW f \in Files, NEW k \in Kids, ReadBrokenPlugfile(k, f) PROVE RowsOK'
  BY <1>5, <1>0 DEF ReadBrokenPlugfile, Reads, Handler, rows
<1>6. ASSUME NEW f \in Files, NEW p \in Contents[f], ScanPlugin(f, p) PROVE RowsOK'
  BY <1>6, <1>0 DEF ScanPlugin, Write, rows
<1>7. ASSUME NEW f \in Files, NEW p \in Contents[f], ReadPlugin(f, p) PROVE RowsOK'
  <2>1. p \in AllPlugins /\ seen' = seen \cup {p}
    BY <1>7 DEF ReadPlugin, AllPlugins
  <2>2. CASE \E row \in Existing(p) : Outdated(p, row)
    <3>1. plugins \subseteq plugins' /\ plugins' \subseteq plugins \cup {Row(p, FALSE)}
      BY <1>7 DEF ReadPlugin
    <3>2. \E row \in plugins : row.ext = p.ext /\ row.version >= p.version
      <4>1. PICK row \in plugins : row.ext = p.ext /\ p.version <= row.version
        BY <2>2 DEF Existing, Outdated
      <4>2. row.version \in Nat /\ p.version \in Nat
        BY <2>1, <4>1, VersionsAreNumbers, RowsHaveVersions DEF RowsOK
      <4>3. row.version >= p.version
        BY <4>1, <4>2
      <4> QED
        BY <4>1, <4>3
    <3> QED
      BY <2>1, <3>1, <3>2, RowIsRow DEF RowsOK, BestIsKnown
  <2>3. CASE ~\E row \in Existing(p) : Outdated(p, row)
    <3>1. plugins' = plugins \cup {Row(p, FALSE)}
      BY <1>7, <2>3 DEF ReadPlugin
    <3>2. Row(p, FALSE).ext = p.ext /\ Row(p, FALSE).version >= p.version
      BY <2>1, VersionsAreNumbers DEF Row
    <3> QED
      BY <2>1, <3>1, <3>2, RowIsRow DEF RowsOK, BestIsKnown
  <2> QED
    BY <2>2, <2>3
<1>8. ASSUME NEW f \in Files, NEW p \in Contents[f], ReadBrokenPlugin(f, p) PROVE RowsOK'
  <2>1. p \in AllPlugins /\ plugins' = plugins \cup {Row(p, TRUE)} /\ seen' = seen
    BY <1>8 DEF ReadBrokenPlugin, AllPlugins
  <2> QED
    BY <2>1, RowIsRow DEF RowsOK, BestIsKnown
<1>9. ASSUME NEW f \in Files, NEW p \in Contents[f], ReadNoise(f, p) PROVE RowsOK'
  BY <1>9, <1>0 DEF ReadNoise, Reads, Handler, rows
<1>10. ASSUME NEW f \in Files, ReadNoise(Listing, f) PROVE RowsOK'
  BY <1>10, <1>0 DEF ReadNoise, Reads, Handler, rows
<1>11. ASSUME NEW k \in Kids, StartKid(k) PROVE RowsOK'
  BY <1>11, <1>0 DEF StartKid, Handler, rows
<1>12. ASSUME NEW k \in Kids, KidEnds(k) PROVE RowsOK'
  BY <1>12, <1>0 DEF KidEnds, rows
<1>13. ASSUME NEW k \in Kids, ReadEnd(k) PROVE RowsOK'
  BY <1>13, <1>0 DEF ReadEnd, Handler, rows
<1>14. CASE Enter
  BY <1>14, <1>0 DEF Enter, Return, rows
<1>15. CASE NoScanner
  BY <1>15, <1>0 DEF NoScanner, Handler, rows
<1>16. CASE StartThrows
  BY <1>16, <1>0 DEF StartThrows, Return, rows
<1>17. CASE RunsOut
  BY <1>17, <1>0 DEF RunsOut, Return, rows
<1>18. CASE Retry
  BY <1>18, <1>0 DEF Retry, rows
<1>19. CASE Start
  BY <1>19, <1>0 DEF Start, rows
<1>20. ASSUME NEW flag \in BOOLEAN, Scan(flag) PROVE RowsOK'
  BY <1>20, <1>0 DEF Scan, rows
<1>21. CASE UNCHANGED all
  BY <1>21, <1>0 DEF all, scanVars, rows
<1> QED
  BY <1>1, <1>2, <1>3, <1>4, <1>5, <1>6, <1>7, <1>8, <1>9, <1>10, <1>11, <1>12, <1>13,
     <1>14, <1>15, <1>16, <1>17, <1>18, <1>19, <1>20, <1>21 DEF ScanNext, Scanner

\* The order in which the files are scanned does not matter.
THEOREM BestAlwaysKnown == ScanSpec => []BestIsKnown
<1>1. RowsOK => BestIsKnown
  BY DEF RowsOK
<1> QED
  BY <1>1, RowsInit, RowsStep, PTL DEF ScanSpec

-----------------------------------------------------------------------------
(* Processes and pipes.                                                    *)

Flags ==
  /\ caller \in {"idle", "scanning", "retrying"}
  /\ thread \in {"none", "loop", "inside", "ended"}
  /\ stop \in BOOLEAN /\ retry \in BOOLEAN /\ missed \in BOOLEAN
  /\ scanning \in BOOLEAN /\ (scanning <=> thread \in {"loop", "inside"})
  /\ scans \in 0 .. MaxScans
  /\ ended \in {"not", "complete", "stopped", "threw"}

Pipes ==
  /\ posted \subseteq Kids /\ reading \subseteq Kids
  /\ kids \in [Kids -> {"none", "running", "ended"}]
  /\ rest = [k \in Kids |-> rest[k]] /\ lines = [k \in Kids |-> lines[k]]
  /\ rest[Listing] \subseteq Files /\ \A f \in Files : rest[f] \subseteq Contents[f]

FileRows == [path : Files, broken : BOOLEAN]

Items ==
  /\ files \subseteq FileRows
  /\ found \in AllPlugins \cup {Nothing}

LEMMA FileRow == \A f \in Files, broken \in BOOLEAN : [path |-> f, broken |-> broken] \in FileRows
  BY DEF FileRows

LEMMA ShapeInit == ScanInit => Flags /\ Pipes /\ Items
<1> SUFFICES ASSUME ScanInit PROVE Flags /\ Pipes /\ Items
  OBVIOUS
<1>1. kids \in [Kids -> {"none", "running", "ended"}] /\ lines = [k \in Kids |-> lines[k]]
  BY DEF ScanInit, NoScan, UnderWay
<1>2. reading \subseteq Kids
  BY DEF ScanInit, NoScan, UnderWay, Kids
<1>3. files \subseteq FileRows
  <2>1. [path : Files, broken : {FALSE}] \subseteq FileRows
    BY DEF FileRows
  <2>2. files = {} \/ files = [path : Files, broken : {FALSE}]
    BY DEF ScanInit, NoScan, UnderWay
  <2> QED
    BY <2>1, <2>2
<1>4. rest = [k \in Kids |-> rest[k]] /\ \A k \in Kids : rest[k] = {}
  BY DEF ScanInit
<1>5. /\ thread \in {"none", "inside"} /\ stop \in BOOLEAN /\ retry \in BOOLEAN /\ ended = "not"
      /\ scanning \in BOOLEAN /\ (scanning <=> thread = "inside")
  BY DEF ScanInit, NoScan, UnderWay
<1>6. /\ caller = "idle" /\ scans \in 0 .. MaxScans /\ posted = {} /\ found = Nothing
      /\ missed = FALSE
  BY DEF ScanInit
<1>7. Flags
  BY <1>5, <1>6 DEF Flags
<1>8. Pipes
  BY <1>1, <1>2, <1>4, <1>6 DEF Pipes, Kids
<1> QED
  BY <1>3, <1>6, <1>7, <1>8 DEF Items

LEMMA FlagsStep == Flags /\ [ScanNext]_all => Flags'
<1> SUFFICES ASSUME Flags, [ScanNext]_all PROVE Flags'
  OBVIOUS
<1> USE ScansAssumption DEF Flags, call, procs, rows
<1>1. CASE Client
  BY <1>1 DEF Client, scanVars
<1>2. ASSUME NEW f \in Files, ListFile(f) PROVE Flags'
  BY <1>2 DEF ListFile, Write
<1>3. ASSUME NEW f \in Files, FileBroken(f) PROVE Flags'
  BY <1>3 DEF FileBroken
<1>4. ASSUME NEW f \in Files, ReadPlugfile(f) PROVE Flags'
  BY <1>4 DEF ReadPlugfile, Reads, Handler
<1>5. ASSUME NEW f \in Files, NEW k \in Kids, ReadBrokenPlugfile(k, f) PROVE Flags'
  BY <1>5 DEF ReadBrokenPlugfile, Reads, Handler
<1>6. ASSUME NEW f \in Files, NEW p \in Contents[f], ScanPlugin(f, p) PROVE Flags'
  BY <1>6 DEF ScanPlugin, Write
<1>7. ASSUME NEW f \in Files, NEW p \in Contents[f], ReadPlugin(f, p) PROVE Flags'
  BY <1>7 DEF ReadPlugin, Reads, Handler
<1>8. ASSUME NEW f \in Files, NEW p \in Contents[f], ReadBrokenPlugin(f, p) PROVE Flags'
  BY <1>8 DEF ReadBrokenPlugin, Reads, Handler
<1>9. ASSUME NEW f \in Files, NEW p \in Contents[f], ReadNoise(f, p) PROVE Flags'
  BY <1>9 DEF ReadNoise, Reads, Handler
<1>10. ASSUME NEW f \in Files, ReadNoise(Listing, f) PROVE Flags'
  BY <1>10 DEF ReadNoise, Reads, Handler
<1>11. ASSUME NEW k \in Kids, StartKid(k) PROVE Flags'
  BY <1>11 DEF StartKid, Handler
<1>12. ASSUME NEW k \in Kids, KidEnds(k) PROVE Flags'
  BY <1>12 DEF KidEnds
<1>13. ASSUME NEW k \in Kids, ReadEnd(k) PROVE Flags'
  BY <1>13 DEF ReadEnd, Handler
<1>14. CASE Enter
  BY <1>14 DEF Enter, Return
<1>15. CASE NoScanner
  BY <1>15 DEF NoScanner, Handler
<1>16. CASE StartThrows
  BY <1>16 DEF StartThrows, Return
<1>17. CASE RunsOut
  BY <1>17 DEF RunsOut, Return
<1>18. CASE Retry
  BY <1>18 DEF Retry
<1>19. CASE Start
  BY <1>19 DEF Start
<1>20. ASSUME NEW flag \in BOOLEAN, Scan(flag) PROVE Flags'
  BY <1>20 DEF Scan
<1>21. CASE UNCHANGED all
  BY <1>21 DEF all, scanVars
<1> QED
  BY <1>1, <1>2, <1>3, <1>4, <1>5, <1>6, <1>7, <1>8, <1>9, <1>10, <1>11, <1>12, <1>13,
     <1>14, <1>15, <1>16, <1>17, <1>18, <1>19, <1>20, <1>21 DEF ScanNext, Scanner

LEMMA PipesStep == Pipes /\ [ScanNext]_all => Pipes'
<1> SUFFICES ASSUME Pipes, [ScanNext]_all PROVE Pipes'
  OBVIOUS
<1> USE ContentsAssumption DEF Pipes, call, procs, rows, Kids
<1>1. CASE Client
  BY <1>1 DEF Client, scanVars
<1>2. ASSUME NEW f \in Files, ListFile(f) PROVE Pipes'
  BY <1>2 DEF ListFile, Write
<1>3. ASSUME NEW f \in Files, FileBroken(f) PROVE Pipes'
  BY <1>3 DEF FileBroken
<1>4. ASSUME NEW f \in Files, ReadPlugfile(f) PROVE Pipes'
  BY <1>4 DEF ReadPlugfile, Reads, Handler
<1>5. ASSUME NEW f \in Files, NEW k \in Kids, ReadBrokenPlugfile(k, f) PROVE Pipes'
  BY <1>5 DEF ReadBrokenPlugfile, Reads, Handler
<1>6. ASSUME NEW f \in Files, NEW p \in Contents[f], ScanPlugin(f, p) PROVE Pipes'
  BY <1>6 DEF ScanPlugin, Write
<1>7. ASSUME NEW f \in Files, NEW p \in Contents[f], ReadPlugin(f, p) PROVE Pipes'
  BY <1>7 DEF ReadPlugin, Reads, Handler
<1>8. ASSUME NEW f \in Files, NEW p \in Contents[f], ReadBrokenPlugin(f, p) PROVE Pipes'
  BY <1>8 DEF ReadBrokenPlugin, Reads, Handler
<1>9. ASSUME NEW f \in Files, NEW p \in Contents[f], ReadNoise(f, p) PROVE Pipes'
  BY <1>9 DEF ReadNoise, Reads, Handler
<1>10. ASSUME NEW f \in Files, ReadNoise(Listing, f) PROVE Pipes'
  BY <1>10 DEF ReadNoise, Reads, Handler
<1>11. ASSUME NEW k \in Kids, StartKid(k) PROVE Pipes'
  BY <1>11 DEF StartKid, Handler
<1>12. ASSUME NEW k \in Kids, KidEnds(k) PROVE Pipes'
  BY <1>12 DEF KidEnds
<1>13. ASSUME NEW k \in Kids, ReadEnd(k) PROVE Pipes'
  BY <1>13 DEF ReadEnd, Handler
<1>14. CASE Enter
  BY <1>14 DEF Enter, Return
<1>15. CASE NoScanner
  BY <1>15 DEF NoScanner, Handler
<1>16. CASE StartThrows
  BY <1>16 DEF StartThrows, Return
<1>17. CASE RunsOut
  BY <1>17 DEF RunsOut, Return
<1>18. CASE Retry
  BY <1>18 DEF Retry
<1>19. CASE Start
  BY <1>19 DEF Start
<1>20. ASSUME NEW flag \in BOOLEAN, Scan(flag) PROVE Pipes'
  BY <1>20 DEF Scan
<1>21. CASE UNCHANGED all
  BY <1>21 DEF all, scanVars
<1> QED
  BY <1>1, <1>2, <1>3, <1>4, <1>5, <1>6, <1>7, <1>8, <1>9, <1>10, <1>11, <1>12, <1>13,
     <1>14, <1>15, <1>16, <1>17, <1>18, <1>19, <1>20, <1>21 DEF ScanNext, Scanner

LEMMA ItemsStep == Items /\ [ScanNext]_all => Items'
<1> SUFFICES ASSUME Items, [ScanNext]_all PROVE Items'
  OBVIOUS
<1> USE DEF Items, call, procs, rows, AllPlugins
<1>1. CASE Client
  BY <1>1 DEF Client, scanVars
<1>2. ASSUME NEW f \in Files, ListFile(f) PROVE Items'
  BY <1>2 DEF ListFile, Write
<1>3. ASSUME NEW f \in Files, FileBroken(f) PROVE Items'
  BY <1>3 DEF FileBroken
<1>4. ASSUME NEW f \in Files, ReadPlugfile(f) PROVE Items'
  BY <1>4, FileRow DEF ReadPlugfile
<1>5. ASSUME NEW f \in Files, NEW k \in Kids, ReadBrokenPlugfile(k, f) PROVE Items'
  BY <1>5, FileRow DEF ReadBrokenPlugfile
<1>6. ASSUME NEW f \in Files, NEW p \in Contents[f], ScanPlugin(f, p) PROVE Items'
  BY <1>6 DEF ScanPlugin, Write
<1>7. ASSUME NEW f \in Files, NEW p \in Contents[f], ReadPlugin(f, p) PROVE Items'
  BY <1>7 DEF ReadPlugin, Reads, Handler
<1>8. ASSUME NEW f \in Files, NEW p \in Contents[f], ReadBrokenPlugin(f, p) PROVE Items'
  BY <1>8 DEF ReadBrokenPlugin, Reads, Handler
<1>9. ASSUME NEW f \in Files, NEW p \in Contents[f], ReadNoise(f, p) PROVE Items'
  BY <1>9 DEF ReadNoise, Reads, Handler
<1>10. ASSUME NEW f \in Files, ReadNoise(Listing, f) PROVE Items'
  BY <1>10 DEF ReadNoise, Reads, Handler
<1>11. ASSUME NEW k \in Kids, StartKid(k) PROVE Items'
  BY <1>11 DEF StartKid, Handler
<1>12. ASSUME NEW k \in Kids, KidEnds(k) PROVE Items'
  BY <1>12 DEF KidEnds
<1>13. ASSUME NEW k \in Kids, ReadEnd(k) PROVE Items'
  BY <1>13 DEF ReadEnd, Handler
<1>14. CASE Enter
  BY <1>14 DEF Enter, Return
<1>15. CASE NoScanner
  BY <1>15 DEF NoScanner, Handler
<1>16. CASE StartThrows
  BY <1>16 DEF StartThrows, Return
<1>17. CASE RunsOut
  BY <1>17 DEF RunsOut, Return
<1>18. CASE Retry
  BY <1>18 DEF Retry
<1>19. CASE Start
  BY <1>19 DEF Start
<1>20. ASSUME NEW flag \in BOOLEAN, Scan(flag) PROVE Items'
  BY <1>20 DEF Scan
<1>21. CASE UNCHANGED all
  BY <1>21 DEF all, scanVars
<1> QED
  BY <1>1, <1>2, <1>3, <1>4, <1>5, <1>6, <1>7, <1>8, <1>9, <1>10, <1>11, <1>12, <1>13,
     <1>14, <1>15, <1>16, <1>17, <1>18, <1>19, <1>20, <1>21 DEF ScanNext, Scanner

\* What lives or has written is read, while the scan goes on; afterwards
\* nothing lives.
Handled ==
  /\ thread \in {"loop", "inside"} =>
       /\ ended = "not"
       /\ \A k \in Kids : kids[k] = "running" \/ lines[k] # {} => k \in reading
  /\ thread \in {"none", "ended"} => \A k \in Kids : kids[k] # "running"
  /\ ended = "complete" => \A k \in Kids : lines[k] = {}

LEMMA HandledInit == ScanInit => Handled
  BY DEF ScanInit, NoScan, UnderWay, Handled, Kids

LEMMA HandledStep == Flags /\ Pipes /\ Handled /\ [ScanNext]_all => Handled'
<1> SUFFICES ASSUME Flags, Pipes, Handled, [ScanNext]_all PROVE Handled'
  OBVIOUS
<1> USE DEF Flags, Pipes, Handled, call, procs, rows, Kids
<1>1. CASE Client
  BY <1>1 DEF Client, scanVars
<1>2. ASSUME NEW f \in Files, ListFile(f) PROVE Handled'
  BY <1>2 DEF ListFile, Write
<1>3. ASSUME NEW f \in Files, FileBroken(f) PROVE Handled'
  BY <1>3 DEF FileBroken
<1>4. ASSUME NEW f \in Files, ReadPlugfile(f) PROVE Handled'
  BY <1>4 DEF ReadPlugfile, Reads, Handler
<1>5. ASSUME NEW f \in Files, NEW k \in Kids, ReadBrokenPlugfile(k, f) PROVE Handled'
  BY <1>5 DEF ReadBrokenPlugfile, Reads, Handler
<1>6. ASSUME NEW f \in Files, NEW p \in Contents[f], ScanPlugin(f, p) PROVE Handled'
  BY <1>6 DEF ScanPlugin, Write
<1>7. ASSUME NEW f \in Files, NEW p \in Contents[f], ReadPlugin(f, p) PROVE Handled'
  BY <1>7 DEF ReadPlugin, Reads, Handler
<1>8. ASSUME NEW f \in Files, NEW p \in Contents[f], ReadBrokenPlugin(f, p) PROVE Handled'
  BY <1>8 DEF ReadBrokenPlugin, Reads, Handler
<1>9. ASSUME NEW f \in Files, NEW p \in Contents[f], ReadNoise(f, p) PROVE Handled'
  BY <1>9 DEF ReadNoise, Reads, Handler
<1>10. ASSUME NEW f \in Files, ReadNoise(Listing, f) PROVE Handled'
  BY <1>10 DEF ReadNoise, Reads, Handler
<1>11. ASSUME NEW k \in Kids, StartKid(k) PROVE Handled'
  BY <1>11 DEF StartKid, Handler
<1>12. ASSUME NEW k \in Kids, KidEnds(k) PROVE Handled'
  BY <1>12 DEF KidEnds
<1>13. ASSUME NEW k \in Kids, ReadEnd(k) PROVE Handled'
  BY <1>13 DEF ReadEnd, Handler
<1>14. CASE Enter
  <2>1. thread = "loop" /\ UNCHANGED <<lines, reading>>
    BY <1>14 DEF Enter
  <2>2. CASE stop
    <3>1. /\ thread' = "ended" /\ ended' = "stopped"
          /\ kids' = [k \in Kids |-> IF kids[k] = "running" THEN "ended" ELSE kids[k]]
      BY <1>14, <2>2 DEF Enter, Return
    <3>2. QED BY <2>1, <3>1
  <2>3. CASE ~stop
    <3>1. thread' = "inside" /\ UNCHANGED <<ended, kids>>
      BY <1>14, <2>3 DEF Enter
    <3>2. QED BY <2>1, <3>1
  <2>4. QED BY <2>2, <2>3
<1>15. CASE NoScanner
  BY <1>15 DEF NoScanner, Handler
<1>16. CASE StartThrows
  BY <1>16 DEF StartThrows, Return
<1>17. CASE RunsOut
  BY <1>17 DEF RunsOut, Return
<1>18. CASE Retry
  BY <1>18 DEF Retry
<1>19. CASE Start
  BY <1>19 DEF Start
<1>20. ASSUME NEW flag \in BOOLEAN, Scan(flag) PROVE Handled'
  BY <1>20 DEF Scan
<1>21. CASE UNCHANGED all
  BY <1>21 DEF all, scanVars
<1> QED
  BY <1>1, <1>2, <1>3, <1>4, <1>5, <1>6, <1>7, <1>8, <1>9, <1>10, <1>11, <1>12, <1>13,
     <1>14, <1>15, <1>16, <1>17, <1>18, <1>19, <1>20, <1>21 DEF ScanNext, Scanner

\* is_scanning says whether a scan is under way, however it ends, and every
\* row is of a plugin of some file.
THEOREM ScanTypeCorrect == ScanSpec => []ScanTypeOK
<1>1. Flags => scanning = (thread \in {"loop", "inside"})
  <2>1. CASE scanning
    BY <2>1 DEF Flags
  <2>2. CASE ~scanning
    BY <2>2 DEF Flags
  <2> QED
    BY <2>1, <2>2
<1>2. Flags /\ Pipes /\ Items /\ RowsOK => ScanTypeOK
  BY <1>1 DEF Flags, Pipes, Items, FileRows, RowsOK, AllRows, ScanTypeOK
<1> QED
  BY <1>2, ShapeInit, FlagsStep, PipesStep, ItemsStep, RowsInit, RowsStep, PTL DEF ScanSpec

\* A scan that ends by itself has read all that the processes wrote.
THEOREM CompleteIsAll == ScanSpec => []CompleteMeansAll
<1>1. Flags /\ Handled => CompleteMeansAll
  BY DEF Flags, Handled, CompleteMeansAll
<1> QED
  BY <1>1, ShapeInit, FlagsStep, PipesStep, HandledInit, HandledStep, PTL DEF ScanSpec

-----------------------------------------------------------------------------
(* Devices that wait for a plugin.                                         *)

\* The scan thread tries devices again before it does anything else.
TriedAtOnce ==
  /\ NobodyLeftWaiting
  /\ thread # "loop" => found = Nothing

LEMMA TriedInit == ScanInit => TriedAtOnce
<1> SUFFICES ASSUME ScanInit PROVE TriedAtOnce
  OBVIOUS
<1>1. Existing(Nothing) = {} /\ found = Nothing
  BY DEF ScanInit, Existing
<1> QED
  BY <1>1 DEF TriedAtOnce, NobodyLeftWaiting

LEMMA ClientTried ==
  ASSUME Typed, Sound, TriedAtOnce, Client, ~Broken
  PROVE  TriedAtOnce'
<1>1. Next /\ UNCHANGED <<found, thread, plugins, missed>>
  BY DEF Client, Next, scanVars
<1>2. Existing(Nothing)' = Existing(Nothing)
  BY <1>1 DEF Existing
<1>3. ASSUME ~Broken', ~missed, Existing(Nothing) # {}
      PROVE  \/ found # Nothing /\ found.ext = Wanted
             \/ slow'.kind = "retry"
             \/ Waiting(working') = {}
  <2>1. /\ \A d \in Waiting(working') :
             \/ d \in Waiting(working)
             \/ d \in Devices \cap (ids' \ ids) /\ ~working'.devices[d].known
        /\ slow.kind = "retry" => slow'.kind = "retry" \/ Waiting(working') = {}
    BY <1>1, <1>3, WaitingStep
  <2>2. \A d \in Devices \cap (ids' \ ids) : working'.devices[d].known
    BY <1>3 DEF Client
  <2>3. \/ found # Nothing /\ found.ext = Wanted
        \/ slow.kind = "retry"
        \/ Waiting(working) = {}
    BY <1>3 DEF TriedAtOnce, NobodyLeftWaiting
  <2> QED
    BY <2>1, <2>2, <2>3
<1> QED
  BY <1>1, <1>2, <1>3 DEF TriedAtOnce, NobodyLeftWaiting

\* A plugin that is new, if the scan is to try devices again, is found; it has a
\* version, and Nothing has none.
LEMMA ReadPluginTried ==
  ASSUME TriedAtOnce, NEW f \in Files, NEW p \in Contents[f], ReadPlugin(f, p)
  PROVE  TriedAtOnce'
<1>1. /\ found = Nothing /\ thread' = "loop" /\ UNCHANGED vars
  BY DEF ReadPlugin, Reads, Handler, TriedAtOnce
<1>2. p # Nothing
  BY ContentsAssumption DEF Nothing
<1>3. UNCHANGED <<Broken, Waiting(working), slow>>
  BY <1>1 DEF vars, Broken, Waiting
<1>4. CASE UNCHANGED <<plugins, found, missed>>
  BY <1>1, <1>3, <1>4 DEF TriedAtOnce, NobodyLeftWaiting, Existing
<1>5. CASE /\ plugins' = plugins \cup {Row(p, FALSE)}
           /\ found' = IF Retries(retry) THEN p ELSE Nothing
           /\ missed' = (missed \/ (p.ext = Wanted /\ ~retry))
  <2>1. CASE p.ext = Wanted
    BY <1>1, <1>2, <1>5, <2>1 DEF TriedAtOnce, NobodyLeftWaiting, Retries
  <2>2. CASE p.ext # Wanted
    <3>1. Existing(Nothing)' = Existing(Nothing)
      BY <1>5, <2>2 DEF Existing, Row, Nothing
    <3> QED
      BY <1>1, <1>3, <1>5, <2>2, <3>1 DEF TriedAtOnce, NobodyLeftWaiting
  <2> QED
    BY <2>1, <2>2
<1> QED
  BY <1>4, <1>5 DEF ReadPlugin

LEMMA ReadBrokenTried ==
  ASSUME TriedAtOnce, NEW f \in Files, NEW p \in Contents[f], ReadBrokenPlugin(f, p)
  PROVE  TriedAtOnce'
<1>1. /\ found = Nothing /\ found' = found /\ UNCHANGED vars
      /\ plugins' = plugins \cup {Row(p, TRUE)} /\ missed' = (missed \/ p.ext = Wanted)
  BY DEF ReadBrokenPlugin, Reads, Handler, TriedAtOnce
<1>2. UNCHANGED <<Broken, Waiting(working), slow>>
  BY <1>1 DEF vars, Broken, Waiting
<1>3. p.ext # Wanted => Existing(Nothing)' = Existing(Nothing)
  BY <1>1 DEF Existing, Row, Nothing
<1> QED
  BY <1>1, <1>2, <1>3 DEF TriedAtOnce, NobodyLeftWaiting

LEMMA RetryTried ==
  ASSUME TriedAtOnce, Retry
  PROVE  TriedAtOnce'
<1>1. found' = Nothing /\ found # Nothing /\ UNCHANGED <<plugins, missed>>
  BY DEF Retry
<1>2. CASE found.ext = Wanted /\ Waiting(working) # {}
  <2>1. slow' = [kind |-> "retry", model |-> working]
    BY <1>2 DEF Retry, RetryBegin
  <2> QED
    BY <1>1, <2>1 DEF TriedAtOnce, NobodyLeftWaiting
<1>3. CASE ~(found.ext = Wanted /\ Waiting(working) # {})
  <2>1. UNCHANGED vars
    BY <1>3 DEF Retry
  <2>2. UNCHANGED <<Broken, Waiting(working), slow, Existing(Nothing)>>
    BY <1>1, <2>1 DEF vars, Broken, Waiting, Existing
  <2> QED
    BY <1>1, <1>3, <2>2 DEF TriedAtOnce, NobodyLeftWaiting
<1> QED
  BY <1>2, <1>3

LEMMA TriedStep == Typed /\ Sound /\ Flags /\ TriedAtOnce /\ [ScanNext]_all => TriedAtOnce'
<1> SUFFICES ASSUME Typed, Sound, Flags, TriedAtOnce, [ScanNext]_all PROVE TriedAtOnce'
  OBVIOUS
<1>0. ASSUME UNCHANGED <<vars, plugins, found, missed>>,
             thread' = thread \/ thread' = "loop" \/ found = Nothing
      PROVE  TriedAtOnce'
  <2>1. UNCHANGED <<Broken, Waiting(working), slow, Existing(Nothing)>>
    BY <1>0 DEF vars, Broken, Waiting, Existing
  <2> QED
    BY <1>0, <2>1 DEF TriedAtOnce, NobodyLeftWaiting
<1>1. CASE Client /\ ~Broken
  BY <1>1, ClientTried
<1>2. ASSUME NEW f \in Files, ListFile(f) PROVE TriedAtOnce'
  BY <1>2, <1>0 DEF ListFile, Write, rows
<1>3. ASSUME NEW f \in Files, FileBroken(f) PROVE TriedAtOnce'
  BY <1>3, <1>0 DEF FileBroken, rows
<1>4. ASSUME NEW f \in Files, ReadPlugfile(f) PROVE TriedAtOnce'
  BY <1>4, <1>0 DEF ReadPlugfile, Reads, Handler
<1>5. ASSUME NEW f \in Files, NEW k \in Kids, ReadBrokenPlugfile(k, f) PROVE TriedAtOnce'
  BY <1>5, <1>0 DEF ReadBrokenPlugfile, Reads, Handler
<1>6. ASSUME NEW f \in Files, NEW p \in Contents[f], ScanPlugin(f, p) PROVE TriedAtOnce'
  BY <1>6, <1>0 DEF ScanPlugin, Write, rows
<1>7. ASSUME NEW f \in Files, NEW p \in Contents[f], ReadNoise(f, p) PROVE TriedAtOnce'
  BY <1>7, <1>0 DEF ReadNoise, Reads, Handler, rows
<1>8. ASSUME NEW f \in Files, ReadNoise(Listing, f) PROVE TriedAtOnce'
  BY <1>8, <1>0 DEF ReadNoise, Reads, Handler, rows
<1>9. ASSUME NEW k \in Kids, StartKid(k) PROVE TriedAtOnce'
  BY <1>9, <1>0 DEF StartKid, Handler, rows
<1>10. ASSUME NEW k \in Kids, KidEnds(k) PROVE TriedAtOnce'
  BY <1>10, <1>0 DEF KidEnds, rows
<1>11. ASSUME NEW k \in Kids, ReadEnd(k) PROVE TriedAtOnce'
  BY <1>11, <1>0 DEF ReadEnd, Handler, rows
<1>12. CASE Enter
  BY <1>12, <1>0 DEF Enter, rows
<1>13. CASE NoScanner
  BY <1>13, <1>0 DEF NoScanner, Handler, rows
<1>14. CASE StartThrows \/ RunsOut
  <2>1. thread = "inside"
    BY <1>14 DEF StartThrows, RunsOut
  <2>2. found = Nothing
    BY <2>1 DEF TriedAtOnce
  <2> QED
    BY <1>14, <1>0, <2>2 DEF StartThrows, RunsOut, rows
<1>15. CASE Start
  BY <1>15, <1>0 DEF Start, rows
<1>16. ASSUME NEW flag \in BOOLEAN, Scan(flag) PROVE TriedAtOnce'
  BY <1>16, <1>0 DEF Scan, rows
<1>17. CASE UNCHANGED all
  BY <1>17, <1>0 DEF all, scanVars
<1> QED
  BY <1>1, <1>2, <1>3, <1>4, <1>5, <1>6, <1>7, <1>8, <1>9, <1>10, <1>11, <1>12, <1>13,
     <1>14, <1>15, <1>16, <1>17, ReadPluginTried, ReadBrokenTried, RetryTried
     DEF ScanNext, Scanner

\* No device waits for a plugin that is known, however scans, creations, restarts and
\* deaths interleave: the devices are found again by an invariant of ClientModel.
THEOREM NobodyIsLeftWaiting == ScanSpec => []NobodyLeftWaiting
<1>1. TriedAtOnce => NobodyLeftWaiting
  BY DEF TriedAtOnce
<1>2. ScanInit => Typed /\ Sound
  BY TypedInit, SoundInit DEF ScanInit
<1>3. Typed /\ Sound /\ [ScanNext]_all => Typed' /\ Sound'
  BY ScanStepIsStep, TypedNext, SoundNext
<1> QED
  BY <1>1, <1>2, <1>3, TriedInit, TriedStep, ShapeInit, FlagsStep, PTL DEF ScanSpec
=============================================================================
