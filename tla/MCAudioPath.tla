---------------------------- MODULE MCAudioPath ----------------------------
(***************************************************************************)
(* Instances of AudioPath.                                                 *)
(***************************************************************************)
EXTENDS AudioPath

CONSTANTS d1, d2, d3, s1, s2

Budget(activate, connect, disconnect, crash, sleep, request, event) ==
  [activate |-> activate, connect |-> connect, disconnect |-> disconnect,
   crash |-> crash, sleep |-> sleep, request |-> request, event |-> event]

\* A device in the middle has a sandbox of its own.
Around == {[d \in Devices |-> IF d = d2 THEN s2 ELSE s1]}

SmallBudgets ==
  { Budget(1, 2, 1, 0, 0, 0, 0), Budget(0, 1, 0, 1, 0, 0, 0), Budget(0, 0, 0, 1, 0, 0, 1),
    Budget(1, 0, 0, 0, 1, 1, 1), Budget(0, 0, 0, 0, 0, 0, 3), Budget(0, 2, 0, 0, 1, 1, 0) }

ChainBudgets == {Budget(0, 1, 0, 0, 0, 0, 0)}
=============================================================================
