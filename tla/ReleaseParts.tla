---------------------------- MODULE ReleaseParts -----------------------------
(***************************************************************************)
(* The release pipeline: the run, its package and its publication.         *)
(* Each is an instance with constants and assumptions of its own; the      *)
(* variables are those of its module.                                      *)
(***************************************************************************)
EXTENDS Naturals, FiniteSets, Sequences, ComponentState

CONSTANTS
    ReleaseProcs, AuthorOf, Isolated, ReleaseCalls, ReleaseFaults,
    PublicProcs, Kinds, NTasks, PublicCalls, PublicFaults,
    Artifacts, Paths, PackageProcs, MaxEdits, PackageFaults, PackageCalls

VARIABLES
    files,
    receipt, effects,
    pair, lock, aged,
    staging, certified, results, edits

Release == INSTANCE ReleaseRun WITH
    Procs <- ReleaseProcs, MaxCalls <- ReleaseCalls, MaxFaults <- ReleaseFaults
Public == INSTANCE PublicRelease WITH
    Procs <- PublicProcs, MaxCalls <- PublicCalls, MaxFaults <- PublicFaults
Package == INSTANCE CustomerPackage WITH
    Procs <- PackageProcs, MaxFaults <- PackageFaults, MaxCalls <- PackageCalls

\* A review comes after its author's task, which is no review.
RolesAreOrdered ==
    /\ AuthorOf \in Seq(Nat)
    /\ \A t \in DOMAIN AuthorOf : AuthorOf[t] # 0 =>
            AuthorOf[t] \in DOMAIN AuthorOf /\ AuthorOf[t] < t /\ AuthorOf[AuthorOf[t]] = 0

ASSUME ReleaseAssumption == RolesAreOrdered /\ ReleaseCalls \in Nat /\ Isolated \in BOOLEAN

\* No process is called like the absence of a lock's owner.
ProcsArePositive == 0 \notin PublicProcs
ASSUME PublicAssumption == ProcsArePositive /\ PublicCalls \in Nat /\ NTasks \in Nat
=============================================================================
