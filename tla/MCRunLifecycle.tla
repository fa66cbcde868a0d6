----------------------------- MODULE MCRunLifecycle -----------------------------
(* Instances of RunLifecycle for TLC. *)
EXTENDS RunLifecycle, TLC

CONSTANTS k1, k2, s1, s2, r1, r2, kindA, kindB, noSnapshot, noView

\* The moves of a worker that executes, validates and fails, but leaves target
\* resolution to the server.
EngineMoves ==
    {<<"EXECUTING", "WAITING_INPUT">>, <<"EXECUTING", "RECOVERABLE_FAILURE">>,
     <<"WAITING_INPUT", "EXECUTING">>, <<"PAUSING", "PAUSED">>,
     <<"VALIDATING", "REVIEW_REQUIRED">>, <<"VALIDATING", "FAILED">>,
     <<"REVIEW_REQUIRED", "EXECUTING">>, <<"PACKAGING", "FAILED">>}

\* The same, for a worker that also reports a failed resolution and declares a
\* recovered run ready again, which the transition table allows.
RecoveringMoves ==
    EngineMoves \cup {<<"RESOLVING_TARGET", "RECOVERABLE_FAILURE">>,
                      <<"RECOVERABLE_FAILURE", "READY">>}

\* A worker that only validates and packages.
PackagingMoves == {<<"VALIDATING", "REVIEW_REQUIRED">>, <<"PACKAGING", "FAILED">>}

\* The operations on the shortest ways to a package, to a cancelled run and to
\* the deletion of either.
PackagingOps ==
    {"putDiscovery", "resolveTarget", "startRun", "validateRun", "createReview",
     "createPackage", "cancelRun", "requestRunDeletion", "restoreRunDeletion"}

\* The operations on the way to the review of a validated run.
ReviewOps == {"putDiscovery", "resolveTarget", "startRun", "validateRun", "createReview"}

\* These workers leave the states the server enters to the server.
ASSUME WorkersAssumption == WorkerKeepsOut

Symmetry == Permutations({s1, s2}) \cup Permutations({r1, r2})
=============================================================================
