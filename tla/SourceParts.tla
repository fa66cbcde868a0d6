----------------------------- MODULE SourceParts -----------------------------
(***************************************************************************)
(* What reaches the host: the isolated runtime, control plans, sources.    *)
(* Each is an instance with constants and assumptions of its own; the      *)
(* variables are those of its module.                                      *)
(***************************************************************************)
EXTENDS Naturals, FiniteSets, Sequences, ComponentState

CONSTANTS
    RuntimeCalls, RuntimeFaults,
    EntryNames, EntryContents, SourceChanges, CaptureCalls,
    SshCalls, SshFaults,
    Payloads, ReleaseMaximum, CatalogMaximum, Callers, ControlTime, MaxFence, ControlCalls

VARIABLES
    taken,
    input, entries, world, flow, result,
    protocol, source, root, todo, walks, opened, seen, store, changes,
    index, held, imported, captured, prepared,
    fence, signed, nonces, admitted, probes

Runtime == INSTANCE RuntimeFlow WITH
    MaxCalls <- RuntimeCalls, MaxFaults <- RuntimeFaults
Capture == INSTANCE SourceCapture WITH
    MaxChanges <- SourceChanges, MaxCalls <- CaptureCalls
Ssh == INSTANCE SshSource WITH
    MaxCalls <- SshCalls, MaxFaults <- SshFaults
Control == INSTANCE ControlPlan WITH
    MaxTime <- ControlTime, MaxCalls <- ControlCalls

ASSUME RuntimeAssumption == RuntimeCalls \in Nat /\ RuntimeFaults \in Nat

ASSUME SshAssumption == SshCalls \in Nat

\* No plan is called like an unused nonce.
IdsAreNames == "none" \notin Control!Ids
ASSUME ControlAssumption == IdsAreNames
=============================================================================
