------------------------- MODULE MCTaskReliability -------------------------
(* Instances of TaskReliability for TLC. *)
EXTENDS TaskReliability, TLC

CONSTANTS r1, r2, r3, w1, w2

MCSymmetry == Permutations(Results) \cup Permutations(Workers)

\* "mail" declares @retry_policy(retry_on=(OSError,)); "job" declares nothing
\* and retries only when an operator pins a budget.
MCPaths == {"mail", "job"}
MCPolicy ==
  [mail |-> [declared |-> TRUE, attempts |-> 2, retryLost |-> TRUE, retryOn |-> {"error"}],
   job  |-> [declared |-> FALSE, attempts |-> 1, retryLost |-> TRUE,
              retryOn |-> Raised \cup {"superseded", "lost"}]]

\* One task, with one retry.
MCOnePath == {"mail"}
MCShortPolicy == [mail |-> MCPolicy["mail"]]

MCOneRank == [r \in Results |-> 0]
=============================================================================
