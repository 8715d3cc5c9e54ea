-------------------------- MODULE MCSandboxCalls --------------------------
(***************************************************************************)
(* Instances of SandboxCalls: two and three devices that are connected;    *)
(* blocking calls, and callers that have left; deaths and restarts;        *)
(* copies; and devices that are erased while replies are on their way.     *)
(***************************************************************************)
EXTENDS SandboxCalls

Budget(create, query, duplicate, blocking, wire, erase, end) ==
  [create |-> create, query |-> query, duplicate |-> duplicate, blocking |-> blocking,
   wire |-> wire, erase |-> erase, end |-> end]

SmallBudgets ==
  { Budget(3, 0, 0, 0, 2, 0, 0), Budget(1, 2, 0, 1, 0, 1, 1), Budget(1, 2, 0, 2, 0, 0, 0),
    Budget(1, 1, 0, 1, 0, 0, 2), Budget(1, 1, 1, 0, 0, 1, 0), Budget(1, 0, 1, 0, 0, 0, 1),
    Budget(2, 0, 0, 1, 0, 1, 0), Budget(2, 0, 0, 0, 1, 0, 1), Budget(2, 0, 0, 0, 3, 0, 0) }
=============================================================================
