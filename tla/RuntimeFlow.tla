------------------------------ MODULE RuntimeFlow ------------------------------
(***************************************************************************)
(* scripts/production-runtime-flow.mjs: one attempt of the isolated        *)
(* runtime, as a fixed list of helper commands and the cleanup that        *)
(* follows however the list ends.                                          *)
(*                                                                         *)
(* Each command is journalled PREPARED before it is asked and COMPLETED    *)
(* after its answer.  A later process replays the COMPLETED ones and asks  *)
(* the PREPARED one again, if its payload is the same as before; the       *)
(* helper takes a command id once.  What the process has admitted, stored  *)
(* and created it knows from flags of its own.                             *)
(***************************************************************************)
EXTENDS Naturals, Sequences

CONSTANTS
    MaxCalls,   \* bound: processes
    MaxFaults   \* bound: refusals, errors, timeouts, failed appends, an abort, crashes

VARIABLES
    input,      \* optional parts of the input: an acquisition approval, a secret
    entries,    \* isolated-runtime-journal.json: the entry of each step
    world,      \* what exists: the runtime, the admitted guard, the stored secret
    taken,      \* steps whose command id the helper has taken
    flow,       \* the process
    result,     \* what it returned
    calls, faults

vars == <<input, entries, world, taken, flow, result, calls, faults>>

Required == {"preflight", "create", "stage", "compile", "build", "start", "heartbeat",
             "issue", "admit", "probe", "collect"}
MainSteps == Required \cup {"acquire", "store", "consume"}
CleanupSteps == {"guard-revoke", "secret-revoke", "stop", "emergency-stop", "destroy"}
Steps == MainSteps \cup CleanupSteps

\* The steps in their order, with the ones that are there only if a condition holds.
When(condition, steps) == IF condition THEN steps ELSE <<>>
Main(i) ==
    <<"preflight", "create", "stage", "compile">> \o When(i.acquire, <<"acquire">>)
        \o <<"build", "start", "heartbeat", "issue", "admit">>
        \o When(i.secret, <<"store", "consume">>) \o <<"probe", "collect">>

\* A result other than SUCCEEDED stops the flow after these steps.
Checked == (Required \ {"create", "heartbeat", "collect"}) \cup {"acquire", "store", "consume"}

NoEntry == [phase |-> "none"]
NoResult == [state |-> "none", cleanup |-> "none"]
Fresh(i) ==
    [pc |-> "step", todo |-> Main(i), created |-> FALSE, guard |-> FALSE, stored |-> FALSE,
     stopped |-> FALSE, destroyed |-> FALSE, emergency |-> FALSE, error |-> "none",
     residue |-> FALSE, answer |-> "none", aborted |-> FALSE]
Idle == [Fresh([acquire |-> FALSE, secret |-> FALSE]) EXCEPT !.pc = "idle"]

Step == Head(flow.todo)
Cleaning == Step \in CleanupSteps
Stops == {"cancelled", "emergency"}     \* FlowStop
Fault == faults < MaxFaults /\ faults' = faults + 1


(***************************************************************************)
(* The payload of a step, as far as another process may build a different  *)
(* one: an expiry or a deadline from the clock, the reason of a cleanup.   *)
(***************************************************************************)
Payload(s) ==
    [at  |-> IF s \in {"issue", "stop"} THEN calls ELSE 0,
     why |-> IF s \in {"guard-revoke", "secret-revoke", "emergency-stop"}
             THEN flow.error ELSE "none"]

\* finally: what is left to do for a flow that ended this way.
Finally(f) ==
    IF f.error \in Stops THEN <<"emergency-stop", "destroy">>
    ELSE When(f.guard, <<"guard-revoke">>) \o When(f.stored, <<"secret-revoke">>)
            \o When(f.created, <<"stop", "destroy">>)

\* An error of a main step ends the list; a cleanup step leaves residue and is passed over.
Thrown(f, error) ==
    IF Cleaning
    THEN [f EXCEPT !.error = IF Step = "emergency-stop" \/ @ = "none" THEN error ELSE @,
                   !.residue = TRUE, !.todo = Tail(@), !.pc = "step"]
    ELSE LET g == [f EXCEPT !.error = error, !.pc = "step"]
         IN [g EXCEPT !.todo = Finally(g)]

\* Mutant: what a step makes is flagged by the step itself, when it went well.
BegunLate ==
    [flow EXCEPT !.guard = @ \/ Step = "probe", !.stored = @ \/ Step = "consume",
                 !.created = @ \/ Step = "stage"]

\* What is flagged before the effect is asked.
Begun ==
    [flow EXCEPT !.created = @ \/ Step = "create", !.guard = @ \/ Step = "admit",
                 !.stored = @ \/ Step = "store"]

\* A main step that went well; after the last one the cleanup.
Passed(f) ==
    LET g == [f EXCEPT !.pc = "step"]
    IN [g EXCEPT !.todo = IF Len(@) > 1 THEN Tail(@) ELSE Finally(g)]

(***************************************************************************)
(* What a result does to the flow.  The state of a revocation is not       *)
(* looked at.                                                              *)
(***************************************************************************)
Resulted(f, state) ==
    LET ok == state = "SUCCEEDED"
        g == [f EXCEPT !.pc = "step", !.todo = Tail(@), !.residue = @ \/ ~ok]
    IN CASE Step = "guard-revoke"   -> [g EXCEPT !.guard = FALSE, !.residue = f.residue]
         [] Step = "secret-revoke"  -> [g EXCEPT !.stored = FALSE, !.residue = f.residue]
         [] Step = "stop"           -> [g EXCEPT !.stopped = TRUE]
         [] Step = "emergency-stop" -> [g EXCEPT !.stopped = TRUE, !.emergency = TRUE]
         [] Step = "destroy"        ->
              [g EXCEPT !.destroyed = ok,
                        !.error = IF ok \/ @ # "none" THEN @ ELSE "failed"]
         [] Step \in Checked /\ ~ok -> Thrown(f, "failed")
         [] OTHER                   -> Passed(f)

TypeOK ==
    /\ DOMAIN entries = Steps
    /\ \A s \in Steps : entries[s].phase \in {"none", "PREPARED", "COMPLETED"}
    /\ world.runtime \in {"none", "live", "gone"} /\ {world.guard, world.secret} \subseteq BOOLEAN
    /\ taken \subseteq Steps
    /\ flow.pc \in {"idle", "step", "ask", "record", "returned"}
    /\ flow.error \in {"none", "failed"} \cup Stops
    /\ result.cleanup \in {"none", "COMPLETE", "RESIDUE", "NOT_NEEDED"}
    /\ calls \in 0..MaxCalls /\ faults \in 0..MaxFaults

Init ==
    /\ input \in [acquire : BOOLEAN, secret : BOOLEAN]
    /\ entries = [s \in Steps |-> NoEntry]
    /\ world = [runtime |-> "none", guard |-> FALSE, secret |-> FALSE]
    /\ taken = {}
    /\ flow = Idle /\ result = NoResult
    /\ calls = 0 /\ faults = 0

\* executeIsolatedRuntime: the entries of the file are the resumeEntries.
Start ==
    /\ flow.pc = "idle" /\ calls < MaxCalls
    /\ calls' = calls + 1
    /\ flow' = Fresh(input) /\ result' = NoResult
    /\ UNCHANGED <<input, entries, world, taken, faults>>

AtStep(pc) ==
    /\ flow.pc = pc /\ flow.todo # <<>>
    /\ UNCHANGED <<input, result, calls>>

\* Destroy follows an emergency stop that failed only if the runtime was created.
Due == Step # "destroy" \/ flow.created \/ flow.emergency
Skip ==
    /\ AtStep("step") /\ ~Due
    /\ flow' = [flow EXCEPT !.todo = Tail(@)]
    /\ UNCHANGED <<entries, world, taken, faults>>

\* controlCheck
Cancelled == flow.aborted /\ ~Cleaning
Stop ==
    /\ AtStep("step") /\ Due /\ Cancelled
    /\ flow' = Thrown(Begun, "cancelled")
    /\ UNCHANGED <<entries, world, taken, faults>>

\* An entry of an earlier process: its result counts, if the payload is the same.
Bound(s) == entries[s].payload = Payload(s)
Replay ==
    /\ AtStep("step") /\ Due /\ ~Cancelled
    /\ entries[Step].phase = "COMPLETED"
    /\ flow' = IF Bound(Step) THEN Resulted(Begun, entries[Step].state)
                              ELSE Thrown(Begun, "failed")
    /\ UNCHANGED <<entries, world, taken, faults>>

Pending ==
    /\ AtStep("step") /\ Due /\ ~Cancelled
    /\ entries[Step].phase = "PREPARED"
    /\ flow' = IF Bound(Step) THEN [Begun EXCEPT !.pc = "ask"] ELSE Thrown(Begun, "failed")
    /\ UNCHANGED <<entries, world, taken, faults>>

Prepare ==
    /\ AtStep("step") /\ Due /\ ~Cancelled
    /\ entries[Step].phase = "none"
    /\ \/ /\ entries' = [entries EXCEPT ![Step] = [phase |-> "PREPARED", payload |-> Payload(Step)]]
          /\ flow' = [Begun EXCEPT !.pc = "ask"]
          /\ UNCHANGED faults
       \/ Fault /\ flow' = Thrown(Begun, "failed") /\ UNCHANGED entries
    /\ UNCHANGED <<world, taken>>

\* What a command does when it succeeds.
Effect(s) ==
    CASE s = "create"         -> [world EXCEPT !.runtime = "live"]
      [] s = "destroy"        -> [world EXCEPT !.runtime = "gone"]
      [] s = "admit"          -> [world EXCEPT !.guard = TRUE]
      [] s = "guard-revoke"   -> [world EXCEPT !.guard = FALSE]
      [] s = "store"          -> [world EXCEPT !.secret = TRUE]
      [] s = "secret-revoke"  -> [world EXCEPT !.secret = FALSE]
      [] s = "emergency-stop" -> [runtime |-> "gone", guard |-> FALSE, secret |-> FALSE]
      [] OTHER                -> world

\* The helper takes a new command id; an emergency stop needs a live runtime.
Takes(s) == s \notin taken /\ (s = "emergency-stop" => world.runtime = "live")
\* A command may be refused with a result, except the ones that only have one.
Refusable == Steps \ {"create", "stage", "heartbeat", "issue", "collect"}

Answered(f) == [f EXCEPT !.pc = "record"]

Ask ==
    /\ AtStep("ask") /\ Takes(Step)
    /\ taken' = taken \cup {Step}
    /\ \/ /\ world' = Effect(Step)
          /\ flow' = [Answered(flow) EXCEPT !.answer = "SUCCEEDED"]
          /\ UNCHANGED faults
       \/ /\ Step \in Refusable /\ Fault
          /\ flow' = [Answered(flow) EXCEPT !.answer = "FAILED"]
          /\ UNCHANGED world
       \/ /\ Fault   \* an error, or no answer in requestTimeoutMs
          /\ world' \in {world, Effect(Step)}
          /\ flow' \in {Thrown(flow, "failed"), Thrown(flow, "emergency")}
    /\ UNCHANGED entries

\* The id is taken (IDEMPOTENCY_CONFLICT) or the runtime is not there.
Refused ==
    /\ AtStep("ask") /\ ~Takes(Step)
    /\ flow' = Thrown(flow, "failed")
    /\ UNCHANGED <<entries, world, taken, faults>>

Record ==
    /\ AtStep("record")
    /\ \/ /\ entries' = [entries EXCEPT ![Step] =
                           [phase |-> "COMPLETED", payload |-> @.payload, state |-> flow.answer]]
          /\ flow' = Resulted(flow, flow.answer)
          /\ UNCHANGED faults
       \/ Fault /\ flow' = Thrown(flow, "failed") /\ UNCHANGED entries
    /\ UNCHANGED <<world, taken>>

\* The end of run(): what is flagged and not undone is residue.
Residue(f) ==
    f.residue \/ f.guard \/ f.stored \/ ((f.created \/ f.emergency) /\ ~f.destroyed)

Return ==
    /\ flow.pc = "step" /\ flow.todo = <<>>
    /\ result' =
         [state |-> IF Residue(flow) THEN "BLOCKED"
                    ELSE CASE flow.error = "none" -> "SUCCEEDED"
                           [] flow.error = "cancelled" -> "CANCELLED"
                           [] OTHER -> "BLOCKED",
          cleanup |-> IF Residue(flow) THEN "RESIDUE"
                      ELSE IF flow.destroyed /\ flow.stopped THEN "COMPLETE" ELSE "NOT_NEEDED"]
    /\ flow' = [flow EXCEPT !.pc = "returned"]
    /\ UNCHANGED <<input, entries, world, taken, calls, faults>>

Abort ==
    /\ flow.pc \in {"step", "ask", "record"} /\ ~flow.aborted /\ Fault
    /\ flow' = [flow EXCEPT !.aborted = TRUE]
    /\ UNCHANGED <<input, entries, world, taken, result, calls>>

\* Also after the result, before the caller has written it down.
Crash ==
    /\ flow.pc # "idle" /\ Fault
    /\ flow' = Idle /\ result' = NoResult
    /\ UNCHANGED <<input, entries, world, taken, calls>>

Next ==
    \/ Start \/ Skip \/ Stop \/ Replay \/ Pending \/ Prepare \/ Ask \/ Refused \/ Record
    \/ Return \/ Abort \/ Crash

Spec == Init /\ [][Next]_vars

-----------------------------------------------------------------------------
Returned == flow.pc = "returned"
RevokesGranted ==
    \A s \in {"guard-revoke", "secret-revoke"} :
        entries[s].phase = "COMPLETED" => entries[s].state = "SUCCEEDED"

\* When one process went from the first command to the result, a result without
\* residue leaves no runtime however the list ended, and no guard and no secret
\* unless a revocation was answered with a failed result.  In any process,
\* SUCCEEDED means that every command of the list has its answer in the journal
\* and that the cleanup is complete (the flags and the residue of run()).
FlowIsAccounted ==
    Returned =>
        /\ calls = 1 /\ result.cleanup # "RESIDUE" =>
             /\ world.runtime # "live"
             /\ RevokesGranted => ~world.guard /\ ~world.secret
        /\ result.state = "SUCCEEDED" =>
             /\ result.cleanup = "COMPLETE"
             /\ \A i \in DOMAIN Main(input) : entries[Main(input)[i]].phase = "COMPLETED"

\* "Any surviving secret, mount, process, disk, or envelope is blocking
\* residue" (.agent-build/specs/safety.md): a result without residue leaves no
\* runtime and no secret behind.
NothingSurvives ==
    Returned /\ result.cleanup # "RESIDUE" => world.runtime # "live" /\ ~world.secret

=============================================================================
