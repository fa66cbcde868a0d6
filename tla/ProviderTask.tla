------------------------------- MODULE ProviderTask -------------------------------
(***************************************************************************)
(* container/provider-task.mjs: inside the provider container.  The task's *)
(* envelope is validated, the provider's program is run as a process group *)
(* against an output and a time limit, its event stream is parsed, and the *)
(* final proposal is validated against the task before it is written.      *)
(***************************************************************************)
EXTENDS Naturals, Sequences

CONSTANTS
    Evidence,     \* evidence occurrences
    AdmittedEvidence,  \* those of them the task admits (evidenceView.allowedEvidenceIds)
    StreamLimit,  \* streamOutputLimit, in events
    MaxEvents     \* bound: events a provider emits

VARIABLES
    provider,   \* "codex" or "claude-code"
    role,       \* "author" or "independent-reviewer"
    pc,         \* "start", "running", "closed", "failed" or "written"
    group,      \* processes of the group that are alive
    events,     \* the standard output so far, one entry per event
    reason,     \* terminationReason
    exit,       \* exit status of the provider's program
    proposal    \* the text of the final event

vars == <<provider, role, pc, group, events, reason, exit, proposal>>

NoProposal == [kind |-> "none"]
-----------------------------------------------------------------------------
(* The event streams: what every state of a parser accepts next. *)

CodexNext ==
    [initial |-> [thread |-> "thread"], thread |-> [turn |-> "turn"],
     turn |-> [message |-> "final"], final |-> [completed |-> "closed"]]

ClaudeNext ==
    [initial |-> [init |-> "initialized"], initialized |-> [assistant |-> "assistant"],
     assistant |-> [result |-> "closed"]]

Table == IF provider = "codex" THEN CodexNext ELSE ClaudeNext

\* "other" stands for a tool, an error and whatever else a provider may emit.
EventKinds == UNION {DOMAIN Table[s] : s \in DOMAIN Table} \cup {"other"}

After(table, state, event) ==
    IF state \in DOMAIN table /\ event \in DOMAIN table[state] THEN table[state][event]
    ELSE "refused"

ParseEvents(stream) ==
    LET state[n \in 0..Len(stream)] ==
            IF n = 0 THEN "initial" ELSE After(Table, state[n - 1], stream[n])
    IN  state[Len(stream)]
-----------------------------------------------------------------------------
(* The final proposal. *)

Claims == [id : 1..2, cites : SUBSET Evidence]
AuthorProposals ==
    [kind : {"author"}, bound : BOOLEAN, cited : SUBSET Evidence,
     claims : {<<>>} \cup {<<c>> : c \in Claims} \cup {<<c, d>> : c, d \in Claims},
     limitations : SUBSET {1}, declared : SUBSET {1}]
ReviewProposals ==
    [kind : {"review"}, bound : BOOLEAN, cited : SUBSET Evidence, cites : SUBSET Evidence,
     ofAuthor : BOOLEAN, verdict : {"passed", "objected", "unable"}, objections : SUBSET {1},
     declared : SUBSET {1}]

\* A citation is of evidence the proposal lists and the task admits.
Cites(ids, p) == ids \subseteq p.cited /\ ids \subseteq AdmittedEvidence

AuthorContent(p) ==
    /\ p.claims # <<>>
    /\ \A i, j \in DOMAIN p.claims : p.claims[i].id = p.claims[j].id => i = j
    /\ \A i \in DOMAIN p.claims : p.claims[i].cites # {} /\ Cites(p.claims[i].cites, p)
    /\ p.declared = p.limitations

ReviewContent(p) ==
    /\ p.ofAuthor
    /\ (p.verdict = "passed") <=> (p.objections = {})
    /\ p.cites # {} /\ Cites(p.cites, p)
    /\ p.declared = {}

\* validateFinalProposal: identity, listed evidence, content of the task's profile.
ListsAdmitted(p) == p.cited \subseteq AdmittedEvidence
ValidProposal(p) ==
    /\ p.bound /\ ListsAdmitted(p)
    /\ \/ role = "author" /\ p.kind = "author" /\ AuthorContent(p)
       \/ role # "author" /\ p.kind = "review" /\ ReviewContent(p)
-----------------------------------------------------------------------------
(* The process group. *)

\* validateProviderTaskEnvelope and the deadline come before anything is started.
Start ==
    /\ pc = "start"
    /\ \/ pc' = "failed" /\ UNCHANGED group
       \/ pc' = "running" /\ group' = {"program"}
    /\ UNCHANGED <<provider, role, events, reason, exit, proposal>>

Fork ==
    /\ "program" \in group /\ reason = "none"
    /\ group' = {"program", "child"}
    /\ UNCHANGED <<provider, role, pc, events, reason, exit, proposal>>

\* terminate: the first reason is kept, the group gets SIGTERM and the pipes are closed.
Terminate(why) ==
    /\ reason' = IF reason = "none" THEN why ELSE reason
    /\ UNCHANGED <<provider, role, pc, group, events, exit, proposal>>

Emit ==
    /\ pc = "running" /\ group # {} /\ reason = "none" /\ Len(events) < MaxEvents
    /\ IF Len(events) + 1 > StreamLimit
         THEN Terminate("output")
         ELSE /\ \E kind \in EventKinds : events' = Append(events, kind)
              /\ UNCHANGED <<provider, role, pc, group, reason, exit, proposal>>

TimeUp ==
    /\ pc = "running" /\ reason = "none"
    /\ Terminate("time")

\* A process ends by itself, from SIGTERM, or from SIGKILL 250 ms later.
End(process) ==
    /\ process \in group
    /\ group' = group \ {process}
    /\ \E status \in {0, 1} : exit' = IF process = "program" THEN status ELSE exit
    /\ UNCHANGED <<provider, role, pc, events, reason, proposal>>

\* close: the program has ended and no one holds its pipes; both timers are cleared, so
\* SIGKILL no longer reaches a child that ignored SIGTERM.
Close ==
    /\ pc = "running" /\ "program" \notin group
    /\ group = {} \/ reason # "none"
    /\ pc' = "closed"
    /\ UNCHANGED <<provider, role, group, events, reason, exit, proposal>>

\* Mutant of StreamAccepted: a program that exits cleanly after its termination.
StreamAcceptedLate == exit = 0 /\ ParseEvents(events) = "closed"

\* What follows the close, in its order: the reason, the exit status, the stream.
StreamAccepted == reason = "none" /\ exit = 0 /\ ParseEvents(events) = "closed"

Reject ==
    /\ pc = "closed"
    /\ ~ StreamAccepted
    /\ pc' = "failed"
    /\ UNCHANGED <<provider, role, group, events, reason, exit, proposal>>

Finish ==
    /\ pc = "closed"
    /\ StreamAccepted
    /\ proposal' \in AuthorProposals \cup ReviewProposals
    /\ pc' = IF ValidProposal(proposal') THEN "written" ELSE "failed"
    /\ UNCHANGED <<provider, role, group, events, reason, exit>>

Init ==
    /\ provider \in {"codex", "claude-code"} /\ role \in {"author", "independent-reviewer"}
    /\ pc = "start" /\ group = {} /\ events = <<>> /\ reason = "none" /\ exit = 0
    /\ proposal = NoProposal

Next ==
    \/ Start \/ Fork \/ Emit \/ TimeUp \/ Close \/ Reject \/ Finish
    \/ \E process \in {"program", "child"} : End(process)

Spec == Init /\ [][Next]_vars
-----------------------------------------------------------------------------
(* Properties. *)

\* Every piece of evidence a proposal mentions anywhere.
Mentioned(p) ==
    p.cited \cup IF p.kind = "review" THEN p.cites
                 ELSE UNION {p.claims[i].cites : i \in DOMAIN p.claims}

Closed == IF provider = "codex" THEN <<"thread", "turn", "message", "completed">>
          ELSE <<"init", "assistant", "result">>

\* A proposal file exists only for the one closed stream of its provider, of a group that
\* was not terminated and whose program succeeded; it mentions admitted evidence only, is of
\* the task's role, and a review that passes has no objection (executeProviderPlan,
\* extractProviderProposal, validateFinalProposal).
ProposalIsEarned ==
    pc = "written" =>
        /\ reason = "none" /\ exit = 0 /\ group = {}
        /\ events = Closed
        /\ Mentioned(proposal) \subseteq AdmittedEvidence /\ Mentioned(proposal) # {}
        /\ (proposal.kind = "author") <=> (role = "author")
        /\ proposal.kind = "review" => (proposal.verdict = "passed") = (proposal.objections = {})
=============================================================================
