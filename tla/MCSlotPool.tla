----------------------------- MODULE MCSlotPool -----------------------------
(* Three reader threads, each of a connection of its own, compete for      *)
(* three slots, at most two each; the worker releases, stop() closes.      *)
EXTENDS SlotPool

MCOwnerOf == [t \in Claimers |-> t]
=============================================================================
