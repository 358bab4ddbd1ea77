--------------------------- MODULE MCEventSafety ---------------------------
(* The Event Service under every call of its endpoints, in any order.      *)
EXTENDS EventLifecycle, TLC

MCDetails == [start : Times, end : Times]

Interchangeable == Permutations(RoundIds) \cup Permutations(Coordinators)
============================================================================
