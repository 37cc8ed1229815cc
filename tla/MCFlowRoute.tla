----------------------------- MODULE MCFlowRoute -----------------------------
(* Instances of FlowRoute small enough to check.                           *)
EXTENDS FlowRoute, TLC

CONSTANTS work, review, done

\* The route of docs/flows.md that goes back to work when a review fails, with
\* a review that an option or a merge ends.
Edge(from, on, to, cond) == [from |-> from, on |-> on, to |-> to, cond |-> cond]
ReviewRoute ==
  { Edge(work, "success", review, FALSE),
    Edge(review, "failure", work, FALSE),
    Edge(review, "success", done, TRUE),
    Edge(review, "changed", done, TRUE),
    Edge(review, "merged", done, FALSE) }
=============================================================================
