---------------------------- MODULE MCSignaling ----------------------------
(***************************************************************************)
(* Instances of GroupSignaling: what may happen in a behaviour is chosen   *)
(* when it begins.  For liveness, faults are tried in the combinations     *)
(* that meet, and not all at once.                                         *)
(***************************************************************************)
EXTENDS GroupSignaling

\* Every kind of action that is not listed does not happen.
Only(counts) == [kind \in Kinds |-> IF kind \in DOMAIN counts THEN counts[kind] ELSE 0]

GroupBudgets      == {Only([activate |-> 1, crash |-> 1, restart |-> 1])}
PairBudgets       == {Only([activate |-> 1])}
DeactivateBudgets == {Only([activate |-> 1, deactivate |-> 1])}

LiveBudgets ==
  { Only([activate |-> 1, crash |-> 2, restart |-> 1]),
    Only([activate |-> 1, crash |-> 1, deactivate |-> 1, interrupt |-> 1]),
    Only([activate |-> 1, crash |-> 1, deactivate |-> 1, renderMode |-> 1]) }
=============================================================================
