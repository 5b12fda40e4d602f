--------------------------- MODULE MCAcquisition ---------------------------
(* Model-checking instances of AcquisitionIdempotency. *)
EXTENDS AcquisitionIdempotency, TLC

Symmetry == Permutations(Calls) \cup Permutations(Fingerprints)
============================================================================
