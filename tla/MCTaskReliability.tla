------------------------ MODULE MCTaskReliability ------------------------
(* Small instances of TaskReliability. *)
EXTENDS TaskReliability, TLC

CONSTANTS w1, w2

TwoWorkers == {w1, w2}

\* send_email_task opts in with @retry_policy; a plain task does not, and only
\* a pinned budget makes it retry.
CatchAll == {"error", "fatal", "lost", "superseded"}
MCPolicy ==
    [p \in {"email", "plain"} |->
        IF p = "email"
        THEN [declared |-> TRUE, attempts |-> 2, retryLost |-> TRUE,
              retryOn |-> {"error", "lost", "superseded"}]
        ELSE [declared |-> FALSE, attempts |-> 1, retryLost |-> TRUE,
              retryOn |-> CatchAll]]
MCPaths == DOMAIN MCPolicy
Declared2 == [p \in {"email"} |-> MCPolicy["email"]]
OnlyEmail == {"email"}

Symmetry == Permutations(TwoWorkers)
=============================================================================
