---------------------------- MODULE MCPluginScan ----------------------------
(***************************************************************************)
(* Instances of ClientModel with PluginScan.  Without a scan: two groups   *)
(* with two sandboxes, and a connection or a death; two devices and a call *)
(* that writes back what it read; one device through two such calls and a  *)
(* death, or one call, two deaths and a message.  With a scan under way:   *)
(* two devices.  And calls of scan without other calls.  The files have    *)
(* the same plugin in two versions.                                        *)
(***************************************************************************)
EXTENDS PluginScan, TLC

CONSTANTS f1, f2, p

Budget(group, sandbox, device, unknown, connect, slows, death, message) ==
  [group |-> group, sandbox |-> sandbox, device |-> device, unknown |-> unknown,
   connect |-> connect, slow |-> slows, death |-> death, message |-> message]

Changes ==
  { Budget(2, 2, 0, 2, 1, 0, 0, 0), Budget(1, 2, 1, 1, 1, 0, 1, 0), Budget(2, 2, 1, 0, 0, 0, 1, 0),
    Budget(1, 1, 1, 1, 0, 1, 0, 0), Budget(1, 1, 1, 0, 0, 2, 1, 0), Budget(1, 1, 0, 1, 0, 2, 1, 0),
    Budget(1, 1, 1, 0, 0, 1, 2, 1) }
Waits == Budget(1, 1, 1, 2, 0, 0, 0, 0)
Scans == Budget(0, 0, 0, 0, 0, 0, 0, 0)

SmallBudgets == Changes \cup {Waits, Scans}

TwoVersions == [f \in {f1, f2} |-> {[ext |-> p, version |-> IF f = f1 THEN 1 ELSE 2]}]

MCInit ==
  /\ ScanInit
  /\ UnderWay <=> left = Waits
  /\ scans = IF left = Scans THEN MaxScans ELSE 0
MCSpec == MCInit /\ [][ScanNext]_all

Symmetry == Permutations(Groups) \cup Permutations(Sandboxes) \cup Permutations(Devices)
=============================================================================
