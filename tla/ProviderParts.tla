---------------------------- MODULE ProviderParts ----------------------------
(***************************************************************************)
(* The providers: the broker and its command, the container, the adapter.  *)
(* Each is an instance with constants and assumptions of its own; the      *)
(* variables are those of its module.                                      *)
(***************************************************************************)
EXTENDS Naturals, FiniteSets, Sequences, ComponentState

CONSTANTS
    BrokerCalls, BrokerFaults,
    CommandCalls,
    TaskEvidence, AdmittedEvidence, StreamLimit, TaskEvents,
    AgentEvidence, Allowed, OutputBytes, AgentAttempts

VARIABLES
    staged, running,
    admission, launches,
    journalled, document,
    provider, role, group, reason, exit, proposal

Broker == INSTANCE ProviderBroker WITH
    Calls <- BrokerCalls, MaxFaults <- BrokerFaults
Command == INSTANCE ProviderCommand WITH
    Calls <- CommandCalls
Task == INSTANCE ProviderTask WITH
    Evidence <- TaskEvidence, MaxEvents <- TaskEvents
Agent == INSTANCE AgentTask WITH
    Evidence <- AgentEvidence, MaxAttempts <- AgentAttempts

\* No call of the broker is called like the absence of a container.
BrokerCallsAreNames == 0 \notin BrokerCalls
ASSUME BrokerAssumption == BrokerCallsAreNames
=============================================================================
