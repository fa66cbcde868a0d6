------------------------------- MODULE AgentTask -------------------------------
(***************************************************************************)
(* packages/agent-adapters: a task is given to a provider and its proposal *)
(* taken or refused.                                                       *)
(*                                                                         *)
(* An author's task and the review of its proposal are each tried several  *)
(* times.  Whatever lies in the outbox when the transport answers, of this *)
(* attempt, of an earlier one or of the other task, goes through the       *)
(* executor's checks and through the adapter's.  The two validate the      *)
(* proposal with one function, each against the task it was handed.        *)
(***************************************************************************)
EXTENDS Naturals, FiniteSets

CONSTANTS
    Evidence, Allowed,  \* evidence; what the task's view admits
    OutputBytes,        \* the output budget of a task
    MaxAttempts         \* bound: attempts of a task

VARIABLES
    run     \* attempt -> what its adapter call is at, and its outcome

vars == run

Roles == {"author", "independent-reviewer"}
Attempts == Roles \X (1..MaxAttempts)       \* the attempt id and the fence token
NoProposal == [by |-> <<>>]
Idle == [pc |-> "idle", outcome |-> "none", proposal |-> NoProposal, expected |-> NoProposal]

\* Results of a runner's transport, and the outcome each is mapped to.
TransportStates == {"completed", "budget-exhausted", "cancelled", "failed"}

(***************************************************************************)
(* What a provider may write: a proposal names the attempt it was asked    *)
(* by, cites evidence, and its content uses it.  An author claims and      *)
(* limits, a reviewer judges the author's proposal.                        *)
(***************************************************************************)
Authored ==
    [by : {"author"} \X (1..MaxAttempts), cites : SUBSET Evidence, uses : SUBSET Evidence,
     claims : 0..1, listed : 0..1, limits : 0..1, bytes : {OutputBytes, OutputBytes + 1}]

AuthorsProposals == {run[a].proposal : a \in {x \in Attempts : x[1] = "author"}} \ {NoProposal}

Reviews ==
    [by : {"independent-reviewer"} \X (1..MaxAttempts), cites : SUBSET Evidence,
     uses : SUBSET Evidence, of : AuthorsProposals \cup {NoProposal},
     verdict : {"passed", "passed-with-objections", "failed"}, objections : 0..1, listed : 0..1,
     bytes : {OutputBytes}]

TypeOK ==
    /\ DOMAIN run = Attempts
    /\ \A a \in Attempts :
          /\ run[a].pc \in {"idle", "transport", "done"}
          /\ run[a].outcome \in (TransportStates \ {"completed"}) \cup
                {"none", "succeeded", "contract-invalid", "permission-denied", "provider-unavailable"}

Init == run = [a \in Attempts |-> Idle]

(***************************************************************************)
(* The capsule: a task with the profile of its role, evidence inside the   *)
(* view and the budget.  A capability other than the outbox and attested   *)
(* inference is denied.                                                    *)
(***************************************************************************)
ValidTask(a, t) == t.profile = a[1] /\ (a[1] = "author" <=> t.expected = NoProposal)
ValidCapsule(a, t) == ValidTask(a, t) /\ t.evidence \subseteq Allowed
Denied(requested) == requested \ {"proposal-outbox", "provider-inference"}
Missing(requested) == {"proposal-outbox", "provider-inference"} \ requested

(***************************************************************************)
(* validateAgentProposal: no errors.                                       *)
(***************************************************************************)
\* Mutant: a proposal is bound to its task and not to the attempt.
BindsTask(p, a) == p.by[1] = a[1]

Binds(p, a) == p.by = a

Cites(p) == p.cites \subseteq Allowed
AuthorContent(p) == p.claims = 1 /\ p.uses # {} /\ p.uses \subseteq p.cites /\ p.listed = p.limits
ReviewContent(p, expected) ==
    /\ p.of = expected /\ p.uses # {} /\ p.uses \subseteq p.cites
    /\ p.verdict = "passed" <=> p.objections = 0
    /\ p.listed = 0
ValidProposal(p, a, expected) ==
    /\ Binds(p, a) /\ Cites(p)
    /\ IF a[1] = "author" THEN "claims" \in DOMAIN p /\ AuthorContent(p)
       ELSE "of" \in DOMAIN p /\ ReviewContent(p, expected)

(***************************************************************************)
(* createAgentAdapter.run up to the call of the executor.  A capsule or a  *)
(* capability that is refused, and an executor that is not there, end the  *)
(* call without one.  Which proposal a review is asked for is the caller's *)
(* choice, and any digest would do here; the one caller,                   *)
(* executeProviderTasks of scripts/run-release-assessment.mjs, takes the   *)
(* digest of an author's proposal it was given.                            *)
(***************************************************************************)
Attempted(a) == \A n \in 1..(a[2] - 1) : run[<<a[1], n>>].outcome \notin {"none", "succeeded"}

Ended(a, outcome, p) ==
    run' = [run EXCEPT ![a].pc = "done", ![a].outcome = outcome, ![a].proposal = p]

Run(a) ==
    /\ run[a] = Idle /\ Attempted(a)
    /\ \E profile \in Roles, evidence \in SUBSET Evidence, available \in BOOLEAN,
          expected \in AuthorsProposals \cup {NoProposal},
          requested \in SUBSET {"proposal-outbox", "provider-inference", "source"} :
          LET t == [profile |-> profile, evidence |-> evidence, expected |-> expected]
          IN IF ~ValidCapsule(a, t) THEN Ended(a, "contract-invalid", NoProposal)
             ELSE IF Denied(requested) \cup Missing(requested) # {}
             THEN Ended(a, "permission-denied", NoProposal)
             ELSE IF ~available THEN Ended(a, "provider-unavailable", NoProposal)
             ELSE run' = [run EXCEPT ![a] = [Idle EXCEPT !.pc = "transport", !.expected = expected]]

\* The launch plan is refused, the transport throws or its metadata is not valid: execute throws.
Throw(a) == run[a].pc = "transport" /\ Ended(a, "failed", NoProposal)

\* The transport ended otherwise than completed, or left no proposal.
Unfinished(a) ==
    /\ run[a].pc = "transport"
    /\ \E s \in TransportStates :
          Ended(a, IF s = "completed" THEN "contract-invalid" ELSE s, NoProposal)

(***************************************************************************)
(* createBrokeredProviderExecutor.execute with a proposal in the outbox.   *)
(* Its receipt must be of its bytes, its bytes within the budget, its text *)
(* must parse and it must be valid for the task of the envelope.           *)
(***************************************************************************)
Received(p, sealed) == sealed /\ p.bytes <= OutputBytes

Executed(a, p, sealed, parses) ==
    IF Received(p, sealed) /\ parses /\ ValidProposal(p, a, run[a].expected)
    THEN "completed" ELSE "contract-invalid"

\* The rest of createAgentAdapter.run: the proposal is validated once more.
Outcome(a, p, state) ==
    IF state = "completed" /\ ValidProposal(p, a, run[a].expected)
    THEN "succeeded" ELSE "contract-invalid"

Answer(a) ==
    /\ run[a].pc = "transport"
    /\ \E p \in Authored \cup Reviews, sealed \in BOOLEAN, parses \in BOOLEAN :
          LET outcome == Outcome(a, p, Executed(a, p, sealed, parses))
          IN Ended(a, outcome, IF outcome = "succeeded" THEN p ELSE NoProposal)

Next == \E a \in Attempts : Run(a) \/ Throw(a) \/ Unfinished(a) \/ Answer(a)

Spec == Init /\ [][Next]_vars

(***************************************************************************)
(* A proposal that was taken was written for the attempt that took it and  *)
(* rests on evidence of the view; a review that was taken judges a         *)
(* proposal that was taken, since the caller asks for no other review, and *)
(* passes it only without an objection.                                    *)
(***************************************************************************)
TakenIsBound ==
    \A x \in {y \in Attempts : run[y].outcome = "succeeded"} :
        LET p == run[x].proposal
        IN /\ p.by = x /\ p.uses # {} /\ p.cites \cup p.uses \subseteq Allowed
           /\ x[1] # "author" =>
                /\ \E y \in Attempts : y[1] = "author" /\ run[y].proposal = p.of
                /\ p.verdict = "passed" => p.objections = 0
=============================================================================
