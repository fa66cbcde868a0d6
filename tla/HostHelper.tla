------------------------------- MODULE HostHelper -------------------------------
(***************************************************************************)
(* The trusted host helper: the root process that performs host effects    *)
(* (create a VM, stage a provider task, acquire a source) for the release  *)
(* orchestrator, and the journal that makes those effects at most once.    *)
(*                                                                         *)
(*   caller     scripts/host-helper-client.mjs, used with one commandId    *)
(*              per step; a resumed run asks again under the same          *)
(*              commandId, with a fresh counter and nonce;                 *)
(*   serve      scripts/host-helper-service.mjs: one handler per frame,    *)
(*              handlers interleave at every await;                        *)
(*   journal    scripts/host-helper-journal.mjs: one transaction at a      *)
(*              time, an fsynced file and the process's copy of it;        *)
(*   operator   the maintenance verbs reconcile and emergency-stop, run by *)
(*              a process of their own while serve is down;                *)
(*   faults     crashes, a host reboot, a journal write that fails, a      *)
(*              frame that is presented twice or late.                     *)
(*                                                                         *)
(* A frame is its index in frames: nonce and requestDigest are unique to   *)
(* it (newRequestIdentity, digestCanonical).  The singleton lock is taken  *)
(* to work here.                                                           *)
(***************************************************************************)
EXTENDS Integers, Sequences, FiniteSets

CONSTANTS
    Keys,           \* command identifiers (commandId = idempotencyKey)
    Runs,           \* run identifiers
    Runtimes,       \* runtime identifiers
    RunOf,          \* [Keys -> Runs]
    FenceOf,        \* [Keys -> Nat], the fence of the command's attempt
    OperationOf,    \* [Keys -> Operations]
    RuntimeOf,      \* [Keys -> Runtimes]
    MaxFrames,      \* bound: frames the callers sign
    MaxDeliveries,  \* how often one frame may be presented to the helper
    MaxCrashes,     \* bound: helper crashes and reboots
    MaxFailures,    \* bound: failed journal writes
    Reboots         \* may a crash be a reboot of the host

Operations == {"vm.create", "vm.destroy", "other"}

ASSUME ConstantsAssumption ==
    /\ RunOf \in [Keys -> Runs]
    /\ FenceOf \in [Keys -> Nat]
    /\ OperationOf \in [Keys -> Operations]
    /\ RuntimeOf \in [Keys -> Runtimes]
    /\ "installation" \notin Runtimes
    /\ MaxFrames \in Nat /\ MaxDeliveries \in Nat
    /\ MaxCrashes \in Nat /\ MaxFailures \in Nat
    /\ Reboots \in BOOLEAN

\* Codes of a REJECTED response: those only a refused admission gives, those of
\* a driver that threw (POLICY_REJECTED: its binary is not the registered one;
\* AUTH_FAILED: its answer does not parse or is not of the operation's form; it
\* crashed or was killed: INTERNAL), and INVALID_TRANSITION.
Refusals == {"REPLAY", "EXPIRED", "STALE_FENCE", "IDEMPOTENCY_CONFLICT"}
Codes == Refusals \cup {"POLICY_REJECTED", "AUTH_FAILED", "INVALID_TRANSITION", "INTERNAL"}
Outcomes == {"SUCCEEDED", "FAILED"}    \* of a driver that returns
Results == Outcomes \cup Codes         \* of a command, as answered
Phases == {"none", "FENCED", "STOPPED", "COMPLETE", "RECONCILING", "RECONCILED"}

FrameIds == 1..MaxFrames
Threads == FrameIds \X (1..MaxDeliveries)   \* <<frame, delivery>>
Subjects == Runtimes \cup {"installation"}

VARIABLES
    counterFile,  \* the client's counter file, 0 when it is absent
    frames,       \* the signed frames in the order they were signed
    expired,      \* frames whose 60 seconds are over
    handler,      \* [pc, result] of each delivery's handler
    call,         \* the frame a caller awaits for a command, 0 when none
    answered,     \* frame -> the response its caller verified
    up,           \* what the helper process is doing
    target,       \* the runtime a running emergency-stop stops
    socket,       \* does the socket file exist
    journal,      \* the journal as the process holds it (the file when down)
    disk,         \* the journal file
    wedged,       \* the temporary file of a failed write is in the way
    driven,       \* history: the deliveries whose driver was called
    outcome,      \* history: what the effect of each command came to
    alive,        \* the runtimes that exist on the host
    crashes, failures

journalVars == <<journal, disk, wedged, failures>>
hostVars == <<driven, outcome, alive>>
callerVars == <<counterFile, frames, expired, call, answered>>
processVars == <<up, target, socket, crashes>>
vars == <<callerVars, handler, processVars, journalVars, hostVars>>

Key(t) == frames[t[1]].key
Pc(t) == handler[t].pc
Entered(t, pc, result) == handler' = [handler EXCEPT ![t] = [pc |-> pc, result |-> result]]
-----------------------------------------------------------------------------
(* The journal.  entries: idempotency; an entry without a result is ACCEPTED. *)

Empty ==
    [counters  |-> [r \in Runs |-> -1],
     nonces    |-> {},
     fences    |-> [r \in Runs |-> -1],
     entries   |-> [k \in {} |-> <<>>],
     resources |-> [rt \in {} |-> <<>>],
     cleanup   |-> [s \in Subjects |-> "none"]]

Put(f, x, y) == [z \in DOMAIN f \cup {x} |-> IF z = x THEN y ELSE f[z]]
Drop(f, x) == [z \in DOMAIN f \ {x} |-> f[z]]

\* A transaction that reached the disk.
Written(draft) ==
    /\ ~wedged
    /\ journal' = draft /\ disk' = draft
    /\ UNCHANGED <<wedged, failures>>

\* A transaction that threw: its temporary file exists already; the write
\* failed and left one; or only the fsync of the directory failed, after the
\* rename.
NotWritten(draft) ==
    /\ UNCHANGED journal
    /\ \/ wedged /\ UNCHANGED <<disk, wedged, failures>>
       \/ /\ ~wedged /\ failures < MaxFailures
          /\ failures' = failures + 1
          /\ \/ wedged' = TRUE /\ UNCHANGED disk
             \/ disk' = draft /\ UNCHANGED wedged

Pending(j) == {k \in DOMAIN j.entries : j.entries[k].result = "none"}

\* mutant: a command is recognised by its frame
KnownFrame(f) ==
    LET k == frames[f].key
    IN k \in DOMAIN journal.entries /\ journal.entries[k].frame = f

\* The command was admitted before.
Known(f) == frames[f].key \in DOMAIN journal.entries

\* Why admit refuses a frame ("none" when it does not).
Refusal(f) ==
    LET k == frames[f].key
        r == RunOf[k]
    IN IF Known(f)
       THEN IF journal.entries[k].frame # f THEN "IDEMPOTENCY_CONFLICT"
            ELSE IF journal.entries[k].result = "none" THEN "INVALID_TRANSITION"
            ELSE "none"
       ELSE IF frames[f].counter <= journal.counters[r] \/ f \in journal.nonces THEN "REPLAY"
            ELSE IF FenceOf[k] < journal.fences[r] THEN "STALE_FENCE"
            ELSE "none"

Admitted(f) ==
    LET k == frames[f].key
        r == RunOf[k]
    IN [counters  |-> [journal.counters EXCEPT ![r] = frames[f].counter],
        nonces    |-> journal.nonces \cup {f},
        fences    |-> [journal.fences EXCEPT ![r] = FenceOf[k]],
        entries   |-> Put(journal.entries, k, [frame |-> f, result |-> "none"]),
        resources |-> journal.resources,
        cleanup   |-> journal.cleanup]

\* mutant: the error code is kept as the state of the resource
ResourceOfCode(f, result) == [frame |-> f, state |-> result]

\* What complete records for a frame: its result, and the resource a create
\* leaves or a complete cleanup releases.
Resource(f, result) ==
    [frame |-> f, state |-> IF result \in Codes THEN "REJECTED" ELSE result]
Completed(f, result) ==
    LET k == frames[f].key
        rt == RuntimeOf[k]
        released == OperationOf[k] = "vm.destroy" /\ result = "SUCCEEDED"
    IN [journal EXCEPT
          !.entries = Put(journal.entries, k, [frame |-> f, result |-> result]),
          !.resources =
              IF OperationOf[k] = "vm.create"
              THEN Put(journal.resources, rt, Resource(f, result))
              ELSE IF released THEN Drop(journal.resources, rt) ELSE journal.resources,
          !.cleanup[rt] = IF released THEN "COMPLETE" ELSE @]

\* complete finds the admission it is about.
Binds(f) ==
    LET k == frames[f].key
    IN k \in DOMAIN journal.entries /\ journal.entries[k].frame = f

Maintained(s, phase) == [journal EXCEPT !.cleanup[s] = phase]
-----------------------------------------------------------------------------
Init ==
    /\ counterFile = 0
    /\ frames = <<>> /\ expired = {}
    /\ handler = [t \in Threads |-> [pc |-> "unsent", result |-> "none"]]
    /\ call = [k \in Keys |-> 0]
    /\ answered = [f \in {} |-> "none"]
    /\ up = "down" /\ target = "installation" /\ socket = FALSE
    /\ journal = Empty /\ disk = Empty /\ wedged = FALSE
    /\ driven = {} /\ outcome = [k \in Keys |-> "none"] /\ alive = {}
    /\ crashes = 0 /\ failures = 0

(* The caller.                                                               *)

\* request: the socket is checked, the next counter reserved, a fresh frame
\* signed and sent.  A socket left by a crash refuses the connection.
Request(k) ==
    /\ call[k] = 0
    /\ socket
    /\ Len(frames) < MaxFrames
    /\ counterFile' = counterFile + 1
    /\ frames' = Append(frames, [key |-> k, counter |-> counterFile + 1])
    /\ LET f == Len(frames) + 1
       IN IF up = "serving"
          THEN /\ call' = [call EXCEPT ![k] = f]
               /\ Entered(<<f, 1>>, "queued", "none")
          ELSE UNCHANGED <<call, handler>>
    /\ UNCHANGED <<expired, answered, processVars, journalVars, hostVars>>

\* The caller dies, times out or loses the connection; a resumed run asks again.
GiveUp(k) ==
    /\ call[k] # 0
    /\ call' = [call EXCEPT ![k] = 0]
    /\ UNCHANGED <<counterFile, frames, expired, answered, handler, processVars,
                   journalVars, hostVars>>

\* A frame is presented to the helper once more.
Redeliver(t) ==
    /\ t[1] \in DOMAIN frames /\ t[2] > 1
    /\ Pc(t) = "unsent" /\ Pc(<<t[1], t[2] - 1>>) # "unsent"
    /\ up = "serving"
    /\ Entered(t, "queued", "none")
    /\ UNCHANGED <<callerVars, processVars, journalVars, hostVars>>

\* The frame's 60 seconds end; it matters only to a delivery not yet validated.
Expire(f) ==
    /\ f \in DOMAIN frames \ expired
    /\ \E d \in 1..MaxDeliveries : Pc(<<f, d>>) \in {"unsent", "queued"}
    /\ expired' = expired \cup {f}
    /\ UNCHANGED <<counterFile, frames, call, answered, handler, processVars,
                   journalVars, hostVars>>

(* handle, one step per await.                                               *)

\* validateHostRequest or admit throws.
Refuse(t) ==
    /\ Pc(t) = "queued"
    /\ IF t[1] \in expired
       THEN Entered(t, "rejecting", "EXPIRED")
       ELSE /\ Refusal(t[1]) # "none"
            /\ Entered(t, "rejecting", Refusal(t[1]))
    /\ UNCHANGED <<callerVars, processVars, journalVars, hostVars>>

\* mutant: the driver is called although the admission was not written
AdmitUnwritten(t) ==
    /\ Pc(t) = "queued" /\ t[1] \notin expired
    /\ Refusal(t[1]) = "none"
    /\ LET replay == Known(t[1])
           draft == IF replay THEN journal ELSE Admitted(t[1])
       IN \/ /\ Written(draft)
             /\ IF replay THEN Entered(t, "replying", journal.entries[Key(t)].result)
                          ELSE Entered(t, "admitted", "none")
          \/ NotWritten(draft) /\ Entered(t, "admitted", "none")
    /\ UNCHANGED <<callerVars, processVars, hostVars>>

\* admit returns, or its write fails.
Admit(t) ==
    /\ Pc(t) = "queued" /\ t[1] \notin expired
    /\ Refusal(t[1]) = "none"
    /\ LET replay == Known(t[1])
           draft == IF replay THEN journal ELSE Admitted(t[1])
       IN \/ /\ Written(draft)
             /\ IF replay THEN Entered(t, "replying", journal.entries[Key(t)].result)
                          ELSE Entered(t, "admitted", "none")
          \/ NotWritten(draft) /\ Entered(t, "rejecting", "INTERNAL")
    /\ UNCHANGED <<callerVars, processVars, hostVars>>

\* What the effect of command k leaves on the host.
Effect(k, result) ==
    CASE OperationOf[k] = "vm.create" /\ result = "SUCCEEDED" -> alive \cup {RuntimeOf[k]}
      [] OperationOf[k] = "vm.destroy" /\ result = "SUCCEEDED" -> alive \ {RuntimeOf[k]}
      [] OTHER -> alive

\* The driver performs the effect and returns, throws with or without it, or
\* answers something validateHostOperationResult refuses, a failed create
\* included: a result of vm.create is ACCEPTED or RUNNING.
Drive(t) ==
    /\ Pc(t) = "admitted"
    /\ driven' = driven \cup {t}
    /\ \E result \in Outcomes :
          /\ outcome' = [outcome EXCEPT ![Key(t)] = result]
          /\ alive' = Effect(Key(t), result)
          /\ \/ /\ OperationOf[Key(t)] = "vm.create" => result = "SUCCEEDED"
                /\ Entered(t, "returned", result)
             \/ \E code \in {"INTERNAL", "AUTH_FAILED"} : Entered(t, "rejecting", code)
             \/ result = "FAILED" /\ Entered(t, "rejecting", "POLICY_REJECTED")
    /\ UNCHANGED <<callerVars, processVars, journalVars>>

\* mutant: the response is sent before it is recorded
CompleteLate(t) ==
    /\ Pc(t) = "returned"
    /\ Entered(t, "replying", handler[t].result)
    /\ UNCHANGED <<callerVars, processVars, journalVars, hostVars>>

\* complete with the driver's result.
Complete(t) ==
    /\ Pc(t) = "returned"
    /\ LET draft == Completed(t[1], handler[t].result)
       IN \/ /\ Binds(t[1]) /\ Written(draft)
             /\ Entered(t, "replying", handler[t].result)
          \/ /\ Binds(t[1]) /\ NotWritten(draft)
             /\ Entered(t, "rejecting", "INTERNAL")
          \/ /\ ~Binds(t[1]) /\ UNCHANGED journalVars
             /\ Entered(t, "rejecting", "INTERNAL")
    /\ UNCHANGED <<callerVars, processVars, hostVars>>

\* mutant: the rejection is recorded for the command, whatever its frame
RejectKey(t) ==
    /\ Pc(t) = "rejecting"
    /\ LET draft == Completed(t[1], handler[t].result)
       IN \/ Key(t) \in DOMAIN journal.entries /\ (Written(draft) \/ NotWritten(draft))
          \/ Key(t) \notin DOMAIN journal.entries /\ UNCHANGED journalVars
    /\ Entered(t, "replying", handler[t].result)
    /\ UNCHANGED <<callerVars, processVars, hostVars>>

\* The catch block: complete with REJECTED, whose own failure is ignored.
Reject(t) ==
    /\ Pc(t) = "rejecting"
    /\ LET draft == Completed(t[1], handler[t].result)
       IN \/ Binds(t[1]) /\ (Written(draft) \/ NotWritten(draft))
          \/ ~Binds(t[1]) /\ UNCHANGED journalVars
    /\ Entered(t, "replying", handler[t].result)
    /\ UNCHANGED <<callerVars, processVars, hostVars>>

\* The response reaches the caller that still waits for this frame.
Reply(t) ==
    /\ Pc(t) = "replying"
    /\ Entered(t, "done", handler[t].result)
    /\ IF t[2] = 1 /\ call[Key(t)] = t[1]
       THEN /\ answered' = Put(answered, t[1], handler[t].result)
            /\ call' = [call EXCEPT ![Key(t)] = 0]
       ELSE UNCHANGED <<answered, call>>
    /\ UNCHANGED <<counterFile, frames, expired, processVars, journalVars, hostVars>>

(* The process.                                                              *)

\* listen refuses to start over a socket file.
Serve ==
    /\ up = "down" /\ ~socket
    /\ up' = "serving" /\ socket' = TRUE
    /\ UNCHANGED <<target, crashes, callerVars, handler, journalVars, hostVars>>

\* stop: no connection is open.
StopServing ==
    /\ up = "serving"
    /\ \A t \in Threads : Pc(t) \in {"unsent", "done"}
    /\ up' = "down" /\ socket' = FALSE
    /\ wedged' = FALSE /\ journal' = disk
    /\ UNCHANGED <<target, crashes, callerVars, handler, disk, failures, hostVars>>

RemoveSocket ==
    /\ up = "down" /\ socket
    /\ socket' = FALSE
    /\ UNCHANGED <<up, target, crashes, callerVars, handler, journalVars, hostVars>>

\* The process dies.  Open connections and their handlers die with it; the
\* next process reads the file and writes under another temporary name.
Die ==
    /\ up # "down"
    /\ crashes < MaxCrashes
    /\ crashes' = crashes + 1
    /\ up' = "down"
    /\ handler' = [t \in Threads |->
                     IF Pc(t) = "unsent" THEN handler[t]
                     ELSE [pc |-> "done", result |-> handler[t].result]]
    /\ journal' = disk /\ wedged' = FALSE
    /\ UNCHANGED <<target, frames, expired, answered, disk, failures, hostVars>>

Crash == Die /\ UNCHANGED <<socket, counterFile, call>>

\* /var/run, with the socket and the counter file, is gone after a reboot, and
\* so are the callers and the runtimes.
Reboot ==
    /\ Reboots
    /\ crashes < MaxCrashes
    /\ crashes' = crashes + 1
    /\ up' = "down" /\ socket' = FALSE /\ counterFile' = 0
    /\ call' = [k \in Keys |-> 0]
    /\ handler' = [t \in Threads |->
                     IF Pc(t) = "unsent" THEN handler[t]
                     ELSE [pc |-> "done", result |-> handler[t].result]]
    /\ journal' = disk /\ wedged' = FALSE
    /\ alive' = {}
    /\ UNCHANGED <<target, frames, expired, answered, disk, failures, driven, outcome>>

(* Maintenance: a process of its own.  A write of it that fails throws        *)
(* (AbandonMaintenance).                                                      *)

StartReconcile ==
    /\ up = "down"
    /\ up' = "reconciling"
    /\ Written(Maintained("installation", "RECONCILING"))
    /\ UNCHANGED <<target, socket, crashes, callerVars, handler, hostVars>>

\* mutant: reconciliation rewrites commands that have a result
ReconcileAll(k) ==
    /\ up = "reconciling"
    /\ k \in DOMAIN journal.entries
    /\ Written([journal EXCEPT !.entries[k].result =
                    IF outcome[k] = "SUCCEEDED" THEN "SUCCEEDED" ELSE "FAILED"])
    /\ UNCHANGED <<callerVars, handler, processVars, hostVars>>

\* reconcileAccepted, with the result the external broker reports: the truth.
\* The state must be terminal, which no valid result of vm.create is: a create
\* stays pending, and the reconciliation throws.
ReconcileAccepted(k) ==
    /\ up = "reconciling"
    /\ k \in Pending(journal)
    /\ OperationOf[k] # "vm.create"
    /\ Written([journal EXCEPT !.entries[k].result =
                    IF outcome[k] = "SUCCEEDED" THEN "SUCCEEDED" ELSE "FAILED"])
    /\ UNCHANGED <<callerVars, handler, processVars, hostVars>>

EndReconcile ==
    /\ up = "reconciling"
    /\ Pending(journal) = {}
    /\ Written(Maintained("installation", "RECONCILED"))
    /\ up' = "down"
    /\ UNCHANGED <<target, socket, crashes, callerVars, handler, hostVars>>

\* emergencyStop up to its driver; without a resource it throws instead.
StartEmergencyStop(rt) ==
    /\ up = "down"
    /\ rt \in DOMAIN journal.resources
    /\ up' = "stopping" /\ target' = rt
    /\ Written(Maintained(rt, "FENCED"))
    /\ UNCHANGED <<socket, crashes, callerVars, handler, hostVars>>

\* The driver returns, with or without residue; STOPPED is recorded either way.
EndEmergencyStop ==
    /\ up = "stopping"
    /\ up' = "down" /\ target' = "installation"
    /\ alive' \in {alive, alive \ {target}}
    /\ Written(Maintained(target, "STOPPED"))
    /\ UNCHANGED <<socket, crashes, callerVars, handler, driven, outcome>>

\* A maintenance process that throws.
AbandonMaintenance ==
    /\ up \in {"reconciling", "stopping"}
    /\ up' = "down" /\ target' = "installation"
    /\ UNCHANGED <<socket, crashes, callerVars, handler, journalVars, hostVars>>

Caller == \E k \in Keys : Request(k) \/ GiveUp(k)
Channel == (\E t \in Threads : Redeliver(t)) \/ (\E f \in FrameIds : Expire(f))
Handle ==
    \E t \in Threads :
        \/ Refuse(t) \/ Admit(t) \/ Drive(t) \/ Complete(t) \/ Reject(t) \/ Reply(t)
Process == Serve \/ StopServing \/ RemoveSocket \/ Crash \/ Reboot
Maintenance ==
    \/ StartReconcile \/ EndReconcile \/ EndEmergencyStop \/ AbandonMaintenance
    \/ \E k \in Keys : ReconcileAccepted(k)
    \/ \E rt \in Runtimes : StartEmergencyStop(rt)

Next == Caller \/ Channel \/ Handle \/ Process \/ Maintenance
Spec == Init /\ [][Next]_vars
-----------------------------------------------------------------------------
Entries == [frame : FrameIds, result : Results \cup {"none"}]
Resources == [frame : FrameIds, state : Outcomes \cup {"REJECTED"}]
PartialFunctions(S, T) == UNION {[D -> T] : D \in SUBSET S}
Journals ==
    [counters : [Runs -> Nat \cup {-1}], nonces : SUBSET FrameIds,
     fences : [Runs -> Nat \cup {-1}], entries : PartialFunctions(Keys, Entries),
     resources : PartialFunctions(Runtimes, Resources), cleanup : [Subjects -> Phases]]

\* Type invariant.
TypeOK ==
    /\ counterFile \in Nat
    /\ frames \in Seq([key : Keys, counter : Nat]) /\ Len(frames) <= MaxFrames
    /\ expired \subseteq DOMAIN frames
    /\ handler \in [Threads ->
          [pc : {"unsent", "queued", "admitted", "returned", "rejecting", "replying", "done"},
           result : Results \cup {"none"}]]
    /\ call \in [Keys -> FrameIds \cup {0}]
    /\ answered \in PartialFunctions(FrameIds, Results)
    /\ up \in {"down", "serving", "reconciling", "stopping"}
    /\ target \in Subjects /\ socket \in BOOLEAN
    /\ journal \in Journals /\ disk \in Journals /\ wedged \in BOOLEAN
    /\ driven \subseteq Threads
    /\ outcome \in [Keys -> Outcomes \cup {"none"}]
    /\ alive \subseteq Runtimes
    /\ crashes \in Nat /\ failures \in Nat

\* At most one driver call is ever made for a command, whatever is resent,
\* presented twice, lost in a crash or left half-written: admit and the journal
\* exist for this.
EffectOnce == \A t, u \in driven : Key(t) = Key(u) => t = u

\* An effect has an admission on disk that names the frame which caused it, so
\* no crash can make the helper forget that it may have happened.
AdmittedBeforeEffect ==
    \A t \in driven :
        Key(t) \in DOMAIN disk.entries /\ disk.entries[Key(t)].frame = t[1]

\* The journal never records a command whose driver was called as one that was
\* refused admission, whatever the frames of other attempts at it come to: a
\* refusal says that nothing was done and that nothing needs to be cleaned up.
\* Only the driver's own call may end in a code that denies the effect.
EffectIsNotRefused ==
    \A t \in driven : disk.entries[Key(t)].result \notin Refusals

\* A caller that was told an outcome finds the same outcome in the journal after
\* any crash or reconciliation: the terminal reply follows its record.
AnswersAreJournalled ==
    \A f \in DOMAIN answered :
        answered[f] \in Outcomes =>
            LET k == frames[f].key
            IN k \in DOMAIN disk.entries /\ disk.entries[k].result = answered[f]

\* The helper never goes back on what it admitted: no command is forgotten, no
\* frame rebinds a command, and no counter or fence of a run moves down, across
\* crashes and failed writes too.
JournalOnlyGrows ==
    [][/\ \A k \in DOMAIN journal.entries :
             /\ k \in DOMAIN journal'.entries
             /\ journal'.entries[k].frame = journal.entries[k].frame
       /\ \A r \in Runs : /\ journal.counters[r] <= journal'.counters[r]
                          /\ journal.fences[r] <= journal'.fences[r]
       /\ journal.nonces \subseteq journal'.nonces]_vars

\* The durable result of a command is what later replays return, so it does not
\* change once it is recorded.
ResultIsFinal ==
    [][\A k \in DOMAIN journal.entries :
          journal.entries[k].result # "none" =>
             /\ k \in DOMAIN journal'.entries
             /\ journal'.entries[k].result = journal.entries[k].result]_vars

\* The helper implements the effect ledger: each command is admitted, performed
\* and concluded at most once and in this order.
Ledger == INSTANCE EffectLedger WITH
    effect <- [k \in Keys |-> IF \E t \in driven : Key(t) = k THEN "performed"
                              ELSE IF k \in DOMAIN journal.entries THEN "admitted"
                              ELSE "none"],
    result <- [k \in Keys |-> IF k \in DOMAIN journal.entries
                              THEN journal.entries[k].result ELSE "none"]
ImplementsLedger == Ledger!Spec
=============================================================================
