-------------------------- MODULE ProcessingOrder --------------------------
(***************************************************************************)
(* The order in which a sandbox processes its devices (sbox/src/op.hpp).   *)
(* A connection is a pair: the device that feeds, the device that is fed.  *)
(***************************************************************************)
EXTENDS Integers, SequencesExt

\* Mutant: the two devices the other way round.
FeedsBackwards(cs, b, a) == <<a, b>> \in cs

\* is_a_connected_to_input_of_b
Feeds(cs, b, a) == <<b, a>> \in cs

\* find_insertion_index: of the first device that feeds d, or the end.
InsertionIndex(cs, seq, d) ==
  LET feeders == {i \in DOMAIN seq : Feeds(cs, seq[i], d)}
  IN  IF feeders = {} THEN Len(seq) + 1
      ELSE CHOOSE i \in feeders : \A j \in feeders : i <= j

Insert(cs, seq, d) == InsertAt(seq, InsertionIndex(cs, seq, d), d)

\* make_device_processing_order: of the first n devices of the table, for each n.
Built(cs, table) ==
  LET built[n \in 0 .. Len(table)] ==
        IF n = 0 THEN <<>> ELSE Insert(cs, built[n - 1], table[n])
  IN  built

\* And of all, for any order in which the table is iterated.
Orders(ds, cs) == {Built(cs, seq)[Len(seq)] : seq \in SetToSeqs(ds)}
=============================================================================
