----------------------- MODULE MCEquipmentAllocation -----------------------
(* Two events at the same time or one after the other, and two units of one item. *)
EXTENDS EquipmentAllocation, TLC

CONSTANTS speakers

MCStock == speakers :> 2
MCWindows == {[from |-> 0, to |-> 2], [from |-> 2, to |-> 4]}
Symmetric == Permutations(Lines) \cup Permutations(Callers) \cup Permutations(Events)
============================================================================
