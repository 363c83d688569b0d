------------------------- MODULE MCSqlApprovalStore -------------------------
(* Constants for model-checking SqlApprovalStore.                          *)
EXTENDS SqlApprovalStore, TLC

CONSTANTS w1, w2, w3, w4, operator, admin1, admin2

MCTasks ==
    { [kind |-> "approve", by |-> admin1], [kind |-> "approve", by |-> admin2],
      [kind |-> "reject", by |-> admin2], [kind |-> "execute", by |-> operator],
      [kind |-> "read", by |-> admin1] }

\* Requests are alike until they choose their task.
AnyWorker == Permutations(Workers)
=============================================================================
