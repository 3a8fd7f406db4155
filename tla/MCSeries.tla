------------------------------ MODULE MCSeries ------------------------------
(* Small instances of Series for TLC; the .cfg files choose the faults. *)
EXTENDS Series

AnyFault == FaultKinds

=============================================================================
