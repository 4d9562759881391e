--------------------------- MODULE MCApprovalView ---------------------------
(* Instances of ApprovalView for TLC. *)
EXTENDS ApprovalView, TLC

CONSTANTS i1, o1, o2

\* The other organization has no requests, and its listings fail too.
FirstOrg == i1 :> o1
=============================================================================
