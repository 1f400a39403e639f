----------------------------- MODULE MCSandbox ------------------------------
(* Instances of SandboxJobs for model checking.                            *)
EXTENDS SandboxJobs, TLC

CONSTANTS j1, j2, r1, r2, d1, w1, w2, h1, h2

OneJob == {j1}
TwoJobs == {j1, j2}
OneRequest == {r1}
TwoRequests == {r1, r2}
OneWorker == {w1}
TwoWorkers == {w1, w2}
OneHandler == {h1}
TwoHandlers == {h1, h2}

(* Jobs, requests, workers and handlers are interchangeable.               *)
Alike ==
    Permutations(Jobs) \cup Permutations(Requests)
        \cup Permutations(Workers) \cup Permutations(Handlers)

=============================================================================
