------------------------------ MODULE SshSource ------------------------------
(***************************************************************************)
(* The acquisition of an SSH source: createFlow(...).execute of            *)
(* scripts/production-ssh-source.mjs, called by prepareNewRun of           *)
(* scripts/run-release-assessment.mjs.                                     *)
(*                                                                         *)
(* The index of the configuration names the acquisition under way, so that *)
(* the next run of the same configuration continues it; the acquisition's  *)
(* journal ends with the state to continue from.  The source that the      *)
(* helper holds is released whatever happened, and the index is removed    *)
(* when the release is proved or the run's journal is written.  The        *)
(* commands of one acquisition have fixed ids, which the helper takes once.*)
(***************************************************************************)
EXTENDS Naturals

CONSTANTS
    MaxCalls,   \* bound: runs of the configuration
    MaxFaults   \* bound: crashes, errors and lost answers

VARIABLES
    index,      \* .ssh-acquisitions/<id>.json: the acquisition, or 0
    journal,    \* ssh-acquisition-journal.json of each acquisition: the last state
    taken,      \* commands of each acquisition the helper has taken
    held,       \* acquisitions whose source the helper holds
    imported,   \* those whose snapshot is in the transfer store
    captured,   \* those whose run has its own snapshot
    prepared,   \* those whose run has its journal
    proc,       \* the process
    calls, faults

vars == <<index, journal, taken, held, imported, captured, prepared, proc, calls, faults>>

Acquisitions == 1..MaxCalls
Phases == {"INITIAL", "ACQUIRING", "ACQUIRED", "FINALIZED", "IMPORTED", "RELEASED"}
Initial == [phase |-> "INITIAL", command |-> FALSE, root |-> FALSE]
Idle == [pc |-> "idle", acq |-> 0, state |-> Initial, identity |-> FALSE, error |-> FALSE]

At(pc) == proc.pc = pc
Acq == proc.acq
State == proc.state
Fault == faults < MaxFaults /\ faults' = faults + 1
Outside == <<index, captured, prepared, calls>>

\* emit: the journal's last entry carries this state.
Emit(state) == journal' = [journal EXCEPT ![Acq] = state]

\* The flow ends in an error: a source that was admitted is released first.
Raised(p) ==
    [p EXCEPT !.error = TRUE,
              !.pc = IF p.state.command /\ p.state.phase # "RELEASED" THEN "release" ELSE "failed"]

\* The next state is journalled, or the journal throws after the state was taken over.
Enter(state, pc) ==
    LET p == [proc EXCEPT !.state = state, !.pc = pc]
    IN \/ Emit(state) /\ proc' = p /\ UNCHANGED faults
       \/ Fault /\ proc' = Raised(p) /\ UNCHANGED journal

Fails == proc' = Raised(proc) /\ UNCHANGED journal

\* What execute goes on with (validateResumeState and the chain of phases).
Resumed(state) ==
    CASE state.phase = "INITIAL"   -> "acquire"
      [] state.phase = "ACQUIRING" -> "resume-status"
      [] state.phase = "ACQUIRED"  -> "finalize"
      [] state.phase = "FINALIZED" -> "import"
      [] state.phase = "IMPORTED"  -> "release"
      [] state.phase = "RELEASED"  -> IF state.root THEN "capture" ELSE "failed"

Init ==
    /\ index = 0 /\ journal = [a \in Acquisitions |-> Initial]
    /\ taken = [a \in Acquisitions |-> {}]
    /\ held = {} /\ imported = {} /\ captured = {} /\ prepared = {}
    /\ proc = Idle /\ calls = 0 /\ faults = 0

\* The index is read, or made with the run directory (exclusiveFsyncWrite).
Begin ==
    /\ At("idle") /\ calls < MaxCalls
    /\ calls' = calls + 1
    /\ index' = IF index = 0 THEN calls' ELSE index
    /\ LET state == journal[index']
       IN proc' = [Idle EXCEPT !.pc = Resumed(state), !.acq = index', !.state = state,
                               !.error = state.phase = "RELEASED" /\ ~state.root]
    /\ UNCHANGED <<journal, taken, held, imported, captured, prepared, faults>>

\* The helper takes an id once; asked again it refuses (IDEMPOTENCY_CONFLICT).
New(command) == command \notin taken[Acq]
Take(command) == taken' = [taken EXCEPT ![Acq] = @ \cup {command}]

\* An answer may be an error, or be lost, with the command done or not.
Lose(does) == Fault /\ Fails /\ (does \/ UNCHANGED held)

(* The answer admits the command; it carries the whole identity or only part of it. *)
Acquire ==
    /\ At("acquire") /\ Take("acquire")
    /\ \/ /\ New("acquire") /\ held' = held \cup {Acq}
          /\ \E identity \in BOOLEAN :
               LET state == [State EXCEPT !.phase = "ACQUIRING", !.command = TRUE]
               IN \/ /\ Emit(state) /\ UNCHANGED faults
                     /\ proc' = [proc EXCEPT !.state = state, !.pc = "poll",
                                             !.identity = identity]
                  \/ /\ Fault /\ UNCHANGED journal
                     /\ proc' = Raised([proc EXCEPT !.state = state])
       \/ New("acquire") /\ Lose(held' = held \cup {Acq})
       \/ ~New("acquire") /\ Fails /\ UNCHANGED <<held, faults>>
    /\ UNCHANGED <<Outside, imported>>

\* A resumed acquisition has only what source.status tells, which is no identity.
ResumeStatus ==
    /\ At("resume-status") /\ Take("resume-status")
    /\ \/ New("resume-status") /\ proc' = [proc EXCEPT !.pc = "poll"] /\ UNCHANGED journal
       \/ ~New("resume-status") /\ Fails
    /\ UNCHANGED <<Outside, held, imported, faults>>

\* pollAcquisition: the acquisition succeeds, fails, or is polled once too often.
Poll ==
    /\ At("poll") /\ Take("status")
    /\ \/ proc.identity /\ Enter([State EXCEPT !.phase = "ACQUIRED"], "finalize")
       \/ ~proc.identity /\ Fails /\ UNCHANGED faults
       \/ Fault /\ Fails
    /\ UNCHANGED <<Outside, held, imported>>

Finalize ==
    /\ At("finalize") /\ Take("finalize")
    /\ \/ New("finalize") /\ Enter([State EXCEPT !.phase = "FINALIZED"], "import")
       \/ ~New("finalize") /\ Fails /\ UNCHANGED faults
       \/ Fault /\ Fails
    /\ UNCHANGED <<Outside, held, imported>>

\* verifySshTransfer needs the helper's transfer directory; the import renames its tree to a
\* name made of the snapshot's id, which must be free.
Import ==
    /\ At("import")
    /\ \/ /\ Acq \in held /\ Acq \notin imported
          /\ imported' = imported \cup {Acq}
          /\ Enter([State EXCEPT !.phase = "IMPORTED", !.root = TRUE], "release")
       \/ /\ Acq \notin held \/ Acq \in imported
          /\ Fails /\ UNCHANGED <<imported, faults>>
       \/ Fault /\ Fails /\ UNCHANGED imported
    /\ UNCHANGED <<Outside, taken, held>>

\* After the release: an error is thrown with the state, else the run goes on.
Released(p) == [p EXCEPT !.pc = IF p.error THEN "failed" ELSE "capture"]

\* Only a cleanup that is COMPLETE without residue makes the state RELEASED; when the journal
\* throws after it, the error carries that state.
Release ==
    /\ At("release") /\ Take("release")
    /\ LET state == [State EXCEPT !.phase = "RELEASED"]
       IN \/ /\ New("release") /\ held' = held \ {Acq}
             /\ Emit(state) /\ UNCHANGED faults
             /\ proc' = Released([proc EXCEPT !.state = state])
          \/ /\ New("release") /\ held' = held \ {Acq}
             /\ Fault /\ UNCHANGED journal
             /\ proc' = [proc EXCEPT !.state = state, !.pc = "failed", !.error = TRUE]
          \/ /\ New("release") /\ Fault /\ held' \in {held, held \ {Acq}}
             /\ proc' = [proc EXCEPT !.pc = "failed", !.error = TRUE] /\ UNCHANGED journal
          \/ /\ ~New("release") /\ UNCHANGED <<held, journal, faults>>
             /\ proc' = [proc EXCEPT !.pc = "failed", !.error = TRUE]
    /\ UNCHANGED <<Outside, imported>>

\* Mutant of Forgettable: any error without a snapshot.
ForgettableAlways == ~State.root

\* prepareNewRun's catch: the index goes when the source is released and nothing was imported.
Forgettable == State.phase = "RELEASED" /\ ~State.root

Forget ==
    /\ At("failed")
    /\ index' = IF Forgettable THEN 0 ELSE index
    /\ proc' = Idle
    /\ UNCHANGED <<journal, taken, held, imported, captured, prepared, calls, faults>>

\* createImmutableLocalSnapshot into the run directory: its name must be free.
Capture ==
    /\ At("capture")
    /\ IF Acq \in captured
         THEN proc' = Idle /\ UNCHANGED captured
         ELSE proc' = [proc EXCEPT !.pc = "prepare"] /\ captured' = captured \cup {Acq}
    /\ UNCHANGED <<index, journal, taken, held, imported, prepared, calls, faults>>

Prepare ==
    /\ At("prepare")
    /\ prepared' = prepared \cup {Acq}
    /\ proc' = [proc EXCEPT !.pc = "unlink"]
    /\ UNCHANGED <<index, journal, taken, held, imported, captured, calls, faults>>

Unlink ==
    /\ At("unlink")
    /\ index' = 0 /\ proc' = Idle
    /\ UNCHANGED <<journal, taken, held, imported, captured, prepared, calls, faults>>

Crash ==
    /\ ~At("idle") /\ Fault
    /\ proc' = Idle
    /\ UNCHANGED <<index, journal, taken, held, imported, captured, prepared, calls>>

Next ==
    \/ Begin \/ Acquire \/ ResumeStatus \/ Poll \/ Finalize \/ Import \/ Release
    \/ Forget \/ Capture \/ Prepare \/ Unlink \/ Crash

Spec == Init /\ [][Next]_vars

-----------------------------------------------------------------------------
\* A source the helper holds is named by the index, so that the next run of the
\* configuration still knows of it; a run that has its journal was captured from
\* an imported snapshot whose source was released (execute's release after every
\* outcome, prepareNewRun's catch and its last unlink).
SourceIsAccounted ==
    /\ \A a \in held : index = a
    /\ \A a \in prepared :
         a \notin held /\ a \in imported \cap captured /\ journal[a].phase = "RELEASED"
=============================================================================
