---------------------------- MODULE MCWorkflowStore ----------------------------
(* Constants for model-checking WorkflowStore.                                 *)
EXTENDS WorkflowStore, TLC

CONSTANTS h1, h2, d1, d2, c1, c2

\* Saves that race without drains, and drains that race over the events of a few saves.
MCBudgets ==
    { [saves |-> 5, events |-> 0, drains |-> 0, crashes |-> 1],
      [saves |-> 2, events |-> 2, drains |-> 3, crashes |-> 1] }

\* Handlers, drainers and contents are interchangeable.
Anyone == Permutations(Handlers) \cup Permutations(Drainers) \cup Permutations(Contents)
=============================================================================
