------------------------------ MODULE ControlPlan ------------------------------
(***************************************************************************)
(* packages/runtime/src/control-plan.ts: signed plans of dynamic controls. *)
(*                                                                         *)
(* A plan is signed, admitted once into a journal, dispatched to the       *)
(* runtime broker under the authority its caller holds, and revoked or     *)
(* reconciled.  Every lookup of the journal is awaited, so that admissions,*)
(* dispatches and revocations overtake each other between a lookup and     *)
(* what is done with its answer.                                           *)
(***************************************************************************)
EXTENDS Naturals

CONSTANTS
    Payloads,   \* [id, nonce, fence, expires, budget]; budget stands for what its controls may do
    ReleaseMaximum, CatalogMaximum, \* of a budget: release-wide, in the catalog of the profile
    Callers,
    MaxTime, MaxFence,  \* bounds: the clock, the fence of the attempt
    MaxCalls            \* bound: calls

VARIABLES
    now, fence,     \* the authority of the moment
    signed,         \* payloads the host helper signed
    records,        \* the journal: plan id -> admission
    nonces,         \* the journal: nonce -> plan id
    admitted,       \* what admissions returned to their callers
    call,           \* the call each caller is in
    probes,         \* what the broker was asked
    calls

vars == <<now, fence, signed, records, nonces, admitted, call, probes, calls>>

Ids == {p.id : p \in Payloads}
Nonces == {p.nonce : p \in Payloads}
NoRecord == [state |-> "none"]
NoCall == [op |-> "none"]

\* An envelope: a payload and the one its digest and signature by a pinned key are of.
Envelopes == [payload : Payloads, covers : signed]
Authority == [now |-> now, fence |-> fence]

\* assertStrictControlPlanPayload, validateControl
Strict(p) == p.budget <= ReleaseMaximum

\* validateControlPlanAuthority: the attempt, the time, the release catalog.
Within(p, a) == p.fence = a.fence /\ p.expires > a.now /\ p.budget <= CatalogMaximum

\* verifySignedDynamicControlPlan
Verified(e, a) == Strict(e.payload) /\ Within(e.payload, a) /\ e.covers = e.payload

Admission(p) == [state |-> "admitted", payload |-> p]

TypeOK ==
    /\ signed \subseteq Payloads /\ DOMAIN records = Ids
    /\ \A i \in Ids : records[i] # NoRecord => records[i].payload.id = i
    /\ nonces \in [Nonces -> Ids \cup {"none"}]
    /\ \A c \in Callers : call[c].op \in {"none", "admit", "dispatch", "reconcile"}

Init ==
    /\ now = 0 /\ fence = 1 /\ signed = {}
    /\ records = [i \in Ids |-> NoRecord] /\ nonces = [n \in Nonces |-> "none"]
    /\ admitted = {} /\ call = [c \in Callers |-> NoCall] /\ probes = {} /\ calls = 0

Journal == <<records, nonces>>
World == <<now, fence, signed>>

Tick ==
    /\ now < MaxTime /\ now' = now + 1
    /\ UNCHANGED <<fence, signed, Journal, admitted, call, probes, calls>>
NewAttempt ==
    /\ fence < MaxFence /\ fence' = fence + 1
    /\ UNCHANGED <<now, signed, Journal, admitted, call, probes, calls>>

(***************************************************************************)
(* createSignedDynamicControlPlan: nothing outside the authority is        *)
(* signed.                                                                 *)
(***************************************************************************)
Sign(p) ==
    /\ p \notin signed /\ Strict(p) /\ Within(p, Authority)
    /\ signed' = signed \cup {p}
    /\ UNCHANGED <<now, fence, Journal, admitted, call, probes, calls>>

Called(c) == call[c] = NoCall /\ calls < MaxCalls /\ calls' = calls + 1
Return(c) == call' = [call EXCEPT ![c] = NoCall]

(***************************************************************************)
(* admitSignedDynamicControlPlan.  The envelope is verified and copied     *)
(* before the first await; the nonce and the id are looked up, each with   *)
(* an await, before the record is appended.                                *)
(***************************************************************************)
Admit(c) ==
    /\ Called(c)
    /\ \E e \in Envelopes :
          /\ Verified(e, Authority)
          /\ call' = [call EXCEPT ![c] = [op |-> "admit", at |-> "nonce", payload |-> e.payload]]
    /\ UNCHANGED <<World, Journal, admitted, probes>>

Look(c) ==
    /\ call[c].op = "admit"
    /\ LET p == call[c].payload
       IN \/ /\ call[c].at = "nonce"
             /\ IF nonces[p.nonce] = "none" THEN call' = [call EXCEPT ![c].at = "id"] ELSE Return(c)
          \/ /\ call[c].at = "id"
             /\ IF records[p.id] = NoRecord THEN call' = [call EXCEPT ![c].at = "append"] ELSE Return(c)
    /\ UNCHANGED <<World, Journal, admitted, probes, calls>>

\* Mutant: the journal relies on the lookups of its callers.
DuplicateUnchecked(p) == FALSE

\* InMemoryControlPlanAdmissionJournal.append
Duplicate(p) == records[p.id] # NoRecord \/ nonces[p.nonce] # "none"

Append(c) ==
    /\ call[c].op = "admit" /\ call[c].at = "append"
    /\ LET p == call[c].payload
       IN IF Duplicate(p) THEN UNCHANGED <<Journal, admitted>>
          ELSE /\ records' = [records EXCEPT ![p.id] = Admission(p)]
               /\ nonces' = [nonces EXCEPT ![p.nonce] = p.id]
               /\ admitted' = admitted \cup {p}
    /\ Return(c) /\ UNCHANGED <<World, probes, calls>>

(***************************************************************************)
(* dispatchAdmittedControlPlan.  The journal is read first; the envelope   *)
(* is verified against the authority the caller passed, and both are       *)
(* compared with what was read.                                            *)
(***************************************************************************)
Dispatch(c) ==
    /\ Called(c)
    /\ \E e \in Envelopes, a \in admitted :
          call' = [call EXCEPT ![c] =
              [op |-> "dispatch", envelope |-> e, admission |-> a, authority |-> Authority,
               durable |-> records[e.payload.id]]]
    /\ UNCHANGED <<World, Journal, admitted, probes>>

\* The durable admission is of exactly these signed bytes (signatures of equal payloads are equal).
Exact(d) == d.durable = Admission(d.envelope.payload) /\ d.admission = d.envelope.covers

Probe(c) ==
    /\ call[c].op = "dispatch"
    /\ LET d == call[c]
       IN probes' = IF Verified(d.envelope, d.authority) /\ Exact(d)
                    THEN probes \cup {[payload |-> d.envelope.payload, at |-> d.authority,
                                       revoked |-> d.durable.state = "revoked"]}
                    ELSE probes
    /\ Return(c) /\ UNCHANGED <<World, Journal, admitted, calls>>

(***************************************************************************)
(* revokeControlPlan and reconcileControlPlanAdmission.  The latter reads  *)
(* the record, and revokes after the await one that is not what it         *)
(* expects or has expired.                                                 *)
(***************************************************************************)
Revoked(i) == [records EXCEPT ![i] = IF @ = NoRecord THEN @ ELSE [@ EXCEPT !.state = "revoked"]]

Revoke(i) ==
    /\ calls < MaxCalls /\ calls' = calls + 1
    /\ records' = Revoked(i)
    /\ UNCHANGED <<World, nonces, admitted, call, probes>>

Reconcile(c) ==
    /\ Called(c)
    /\ \E p \in Payloads :
          call' = [call EXCEPT ![c] = [op |-> "reconcile", expected |-> p, at |-> now,
                                       durable |-> records[p.id]]]
    /\ UNCHANGED <<World, Journal, admitted, probes>>

Reattached(d) == d.durable = Admission(d.expected) /\ d.expected.expires > d.at

Reconciled(c) ==
    /\ call[c].op = "reconcile"
    /\ LET d == call[c]
       IN records' = IF ~Reattached(d) /\ d.durable.state = "admitted"
                     THEN Revoked(d.expected.id) ELSE records
    /\ Return(c) /\ UNCHANGED <<World, nonces, admitted, probes, calls>>

Next ==
    \/ Tick \/ NewAttempt
    \/ \E p \in Payloads : Sign(p)
    \/ \E c \in Callers : Admit(c) \/ Look(c) \/ Append(c) \/ Dispatch(c) \/ Probe(c)
                          \/ Reconcile(c) \/ Reconciled(c)
    \/ \E i \in Ids : Revoke(i)

Spec == Init /\ [][Next]_vars

(***************************************************************************)
(* What the broker is asked to do was signed, is the plan its id was       *)
(* admitted for, belonged to the attempt and the time of the dispatch and  *)
(* had not been revoked when the dispatch began; and a nonce has been      *)
(* spent on one plan only, however the admissions interleave.              *)
(***************************************************************************)
ProbesAreAuthorised ==
    \A x \in probes :
        /\ x.payload \in signed /\ records[x.payload.id].payload = x.payload
        /\ Within(x.payload, x.at) /\ Strict(x.payload) /\ ~x.revoked
        /\ \A y \in probes : x.payload.nonce = y.payload.nonce => x.payload = y.payload
=============================================================================
