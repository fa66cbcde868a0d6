----------------------------- MODULE Components ------------------------------
(***************************************************************************)
(* Components that share no state in the models, side by side: the first   *)
(* state picks one of them, and the behaviour is one of that component's.  *)
(* A variable name that several of them have is declared once; what the    *)
(* picked one does not use stays 0.                                        *)
(***************************************************************************)
EXTENDS ReleaseParts, ProviderParts, SourceParts, ServerParts

\* The variables only one component has.
ReleaseOwn == <<receipt, effects>>
PublicOwn == <<pair, lock, aged>>
BrokerOwn == <<admission, launches>>
CommandOwn == <<journalled, document>>
TaskOwn == <<provider, role, group, reason, exit, proposal>>
RuntimeOwn == <<input, entries, world, flow, result>>
CaptureOwn == <<protocol, source, root, todo, walks, opened, seen, store, changes>>
SshOwn == <<index, held, imported, captured, prepared>>
ControlOwn == <<fence, signed, nonces, admitted, probes>>
PackageOwn == <<staging, certified, results, edits>>
InputsOwn == <<restarts, approvals, shown, handles, tokens, values, timers, session>>
ConsoleOwn == <<rows, token, cookie, tabs, answers, informed, crossed>>
InstallOwn == <<kit, target, host, service, socket, verdict>>
IdOwn == <<file, launch, used, removed>>

vars == <<part, ReleaseOwn, PublicOwn, BrokerOwn, CommandOwn, TaskOwn, RuntimeOwn, CaptureOwn,
          SshOwn, ControlOwn, PackageOwn, InputsOwn, ConsoleOwn, InstallOwn, IdOwn, journal,
          proc, asked, calls, faults, files, authority, records, staged, running, call, pc,
          events, taken, now, run>>

\* What a variable of the components that were not picked holds.
Off(v) == v = 0
ReleaseOff == Off(receipt) /\ Off(effects)
PublicOff == Off(pair) /\ Off(lock) /\ Off(aged)
BrokerOff == Off(admission) /\ Off(launches)
CommandOff == Off(journalled) /\ Off(document)
TaskOff == Off(provider) /\ Off(role) /\ Off(group) /\ Off(reason) /\ Off(exit) /\
            Off(proposal)
RuntimeOff == Off(input) /\ Off(entries) /\ Off(world) /\ Off(flow) /\ Off(result)
CaptureOff == Off(protocol) /\ Off(source) /\ Off(root) /\ Off(todo) /\ Off(walks) /\
            Off(opened) /\ Off(seen) /\ Off(store) /\ Off(changes)
SshOff == Off(index) /\ Off(held) /\ Off(imported) /\ Off(captured) /\ Off(prepared)
ControlOff == Off(fence) /\ Off(signed) /\ Off(nonces) /\ Off(admitted) /\ Off(probes)
PackageOff == Off(staging) /\ Off(certified) /\ Off(results) /\ Off(edits)
InputsOff == Off(restarts) /\ Off(approvals) /\ Off(shown) /\ Off(handles) /\ Off(tokens) /\
            Off(values) /\ Off(timers) /\ Off(session)
ConsoleOff == Off(rows) /\ Off(token) /\ Off(cookie) /\ Off(tabs) /\ Off(answers) /\
            Off(informed) /\ Off(crossed)
InstallOff == Off(kit) /\ Off(target) /\ Off(host) /\ Off(service) /\ Off(socket) /\
            Off(verdict)
IdOff == Off(file) /\ Off(launch) /\ Off(used) /\ Off(removed)

Init ==
    \/ /\ part = "release" /\ Release!Init
       /\ PublicOff /\ BrokerOff /\ CommandOff /\ TaskOff /\ RuntimeOff /\ CaptureOff /\
          SshOff /\ ControlOff /\ PackageOff /\ InputsOff /\ ConsoleOff /\ InstallOff /\
          IdOff /\ Off(files) /\ Off(authority) /\ Off(records) /\ Off(staged) /\
          Off(running) /\ Off(call) /\ Off(pc) /\ Off(events) /\ Off(taken) /\ Off(now) /\
          Off(run)
    \/ /\ part = "public" /\ Public!Init
       /\ ReleaseOff /\ BrokerOff /\ CommandOff /\ TaskOff /\ RuntimeOff /\ CaptureOff /\
          SshOff /\ ControlOff /\ PackageOff /\ InputsOff /\ ConsoleOff /\ InstallOff /\
          IdOff /\ Off(journal) /\ Off(asked) /\ Off(authority) /\ Off(records) /\
          Off(staged) /\ Off(running) /\ Off(call) /\ Off(pc) /\ Off(events) /\ Off(taken) /\
          Off(now) /\ Off(run)
    \/ /\ part = "broker" /\ Broker!Init
       /\ ReleaseOff /\ PublicOff /\ CommandOff /\ TaskOff /\ RuntimeOff /\ CaptureOff /\
          SshOff /\ ControlOff /\ PackageOff /\ InputsOff /\ ConsoleOff /\ InstallOff /\
          IdOff /\ Off(journal) /\ Off(proc) /\ Off(asked) /\ Off(calls) /\ Off(files) /\
          Off(pc) /\ Off(events) /\ Off(taken) /\ Off(now) /\ Off(run)
    \/ /\ part = "command" /\ Command!Init
       /\ ReleaseOff /\ PublicOff /\ BrokerOff /\ TaskOff /\ RuntimeOff /\ CaptureOff /\
          SshOff /\ ControlOff /\ PackageOff /\ InputsOff /\ ConsoleOff /\ InstallOff /\
          IdOff /\ Off(journal) /\ Off(proc) /\ Off(calls) /\ Off(faults) /\ Off(files) /\
          Off(authority) /\ Off(records) /\ Off(pc) /\ Off(events) /\ Off(taken) /\
          Off(now) /\ Off(run)
    \/ /\ part = "task" /\ Task!Init
       /\ ReleaseOff /\ PublicOff /\ BrokerOff /\ CommandOff /\ RuntimeOff /\ CaptureOff /\
          SshOff /\ ControlOff /\ PackageOff /\ InputsOff /\ ConsoleOff /\ InstallOff /\
          IdOff /\ Off(journal) /\ Off(proc) /\ Off(asked) /\ Off(calls) /\ Off(faults) /\
          Off(files) /\ Off(authority) /\ Off(records) /\ Off(staged) /\ Off(running) /\
          Off(call) /\ Off(taken) /\ Off(now) /\ Off(run)
    \/ /\ part = "runtime" /\ Runtime!Init
       /\ ReleaseOff /\ PublicOff /\ BrokerOff /\ CommandOff /\ TaskOff /\ CaptureOff /\
          SshOff /\ ControlOff /\ PackageOff /\ InputsOff /\ ConsoleOff /\ InstallOff /\
          IdOff /\ Off(journal) /\ Off(proc) /\ Off(asked) /\ Off(files) /\ Off(authority) /\
          Off(records) /\ Off(staged) /\ Off(running) /\ Off(call) /\ Off(pc) /\
          Off(events) /\ Off(now) /\ Off(run)
    \/ /\ part = "capture" /\ Capture!Init
       /\ ReleaseOff /\ PublicOff /\ BrokerOff /\ CommandOff /\ TaskOff /\ RuntimeOff /\
          SshOff /\ ControlOff /\ PackageOff /\ InputsOff /\ ConsoleOff /\ InstallOff /\
          IdOff /\ Off(journal) /\ Off(proc) /\ Off(asked) /\ Off(faults) /\ Off(files) /\
          Off(authority) /\ Off(records) /\ Off(staged) /\ Off(running) /\ Off(call) /\
          Off(events) /\ Off(taken) /\ Off(now) /\ Off(run)
    \/ /\ part = "ssh" /\ Ssh!Init
       /\ ReleaseOff /\ PublicOff /\ BrokerOff /\ CommandOff /\ TaskOff /\ RuntimeOff /\
          CaptureOff /\ ControlOff /\ PackageOff /\ InputsOff /\ ConsoleOff /\ InstallOff /\
          IdOff /\ Off(asked) /\ Off(files) /\ Off(authority) /\ Off(records) /\
          Off(staged) /\ Off(running) /\ Off(call) /\ Off(pc) /\ Off(events) /\ Off(now) /\
          Off(run)
    \/ /\ part = "plan" /\ Control!Init
       /\ ReleaseOff /\ PublicOff /\ BrokerOff /\ CommandOff /\ TaskOff /\ RuntimeOff /\
          CaptureOff /\ SshOff /\ PackageOff /\ InputsOff /\ ConsoleOff /\ InstallOff /\
          IdOff /\ Off(journal) /\ Off(proc) /\ Off(asked) /\ Off(faults) /\ Off(files) /\
          Off(authority) /\ Off(staged) /\ Off(running) /\ Off(pc) /\ Off(events) /\
          Off(taken) /\ Off(run)
    \/ /\ part = "agent" /\ Agent!Init
       /\ ReleaseOff /\ PublicOff /\ BrokerOff /\ CommandOff /\ TaskOff /\ RuntimeOff /\
          CaptureOff /\ SshOff /\ ControlOff /\ PackageOff /\ InputsOff /\ ConsoleOff /\
          InstallOff /\ IdOff /\ Off(journal) /\ Off(proc) /\ Off(asked) /\ Off(calls) /\
          Off(faults) /\ Off(files) /\ Off(authority) /\ Off(records) /\ Off(staged) /\
          Off(running) /\ Off(call) /\ Off(pc) /\ Off(events) /\ Off(taken) /\ Off(now)
    \/ /\ part = "package" /\ Package!Init
       /\ ReleaseOff /\ PublicOff /\ BrokerOff /\ CommandOff /\ TaskOff /\ RuntimeOff /\
          CaptureOff /\ SshOff /\ ControlOff /\ InputsOff /\ ConsoleOff /\ InstallOff /\
          IdOff /\ Off(journal) /\ Off(asked) /\ Off(authority) /\ Off(records) /\
          Off(staged) /\ Off(running) /\ Off(call) /\ Off(pc) /\ Off(events) /\ Off(taken) /\
          Off(now) /\ Off(run)
    \/ /\ part = "inputs" /\ Inputs!Init
       /\ ReleaseOff /\ PublicOff /\ BrokerOff /\ CommandOff /\ TaskOff /\ RuntimeOff /\
          CaptureOff /\ SshOff /\ ControlOff /\ PackageOff /\ ConsoleOff /\ InstallOff /\
          IdOff /\ Off(journal) /\ Off(proc) /\ Off(asked) /\ Off(calls) /\ Off(faults) /\
          Off(files) /\ Off(authority) /\ Off(records) /\ Off(staged) /\ Off(running) /\
          Off(call) /\ Off(pc) /\ Off(events) /\ Off(taken)
    \/ /\ part = "console" /\ Console!Init
       /\ ReleaseOff /\ PublicOff /\ BrokerOff /\ CommandOff /\ TaskOff /\ RuntimeOff /\
          CaptureOff /\ SshOff /\ ControlOff /\ PackageOff /\ InputsOff /\ InstallOff /\
          IdOff /\ Off(journal) /\ Off(proc) /\ Off(asked) /\ Off(calls) /\ Off(faults) /\
          Off(files) /\ Off(authority) /\ Off(records) /\ Off(staged) /\ Off(running) /\
          Off(call) /\ Off(pc) /\ Off(events) /\ Off(taken) /\ Off(now) /\ Off(run)
    \/ /\ part = "install" /\ Install!Init
       /\ ReleaseOff /\ PublicOff /\ BrokerOff /\ CommandOff /\ TaskOff /\ RuntimeOff /\
          CaptureOff /\ SshOff /\ ControlOff /\ PackageOff /\ InputsOff /\ ConsoleOff /\
          IdOff /\ Off(journal) /\ Off(asked) /\ Off(faults) /\ Off(files) /\ Off(records) /\
          Off(staged) /\ Off(running) /\ Off(call) /\ Off(pc) /\ Off(taken) /\ Off(now) /\
          Off(run)
    \/ /\ part = "id" /\ Id!Init
       /\ ReleaseOff /\ PublicOff /\ BrokerOff /\ CommandOff /\ TaskOff /\ RuntimeOff /\
          CaptureOff /\ SshOff /\ ControlOff /\ PackageOff /\ InputsOff /\ ConsoleOff /\
          InstallOff /\ Off(journal) /\ Off(proc) /\ Off(asked) /\ Off(calls) /\
          Off(faults) /\ Off(files) /\ Off(authority) /\ Off(records) /\ Off(staged) /\
          Off(running) /\ Off(call) /\ Off(pc) /\ Off(events) /\ Off(taken) /\ Off(now) /\
          Off(run)

Next ==
    /\ UNCHANGED part
    /\ \/ /\ part = "release" /\ Release!Next
          /\ UNCHANGED <<PublicOwn, BrokerOwn, CommandOwn, TaskOwn, RuntimeOwn, CaptureOwn,
                        SshOwn, ControlOwn, PackageOwn, InputsOwn, ConsoleOwn, InstallOwn,
                        IdOwn, files, authority, records, staged, running, call, pc, events,
                        taken, now, run>>
       \/ /\ part = "public" /\ Public!Next
          /\ UNCHANGED <<ReleaseOwn, BrokerOwn, CommandOwn, TaskOwn, RuntimeOwn, CaptureOwn,
                        SshOwn, ControlOwn, PackageOwn, InputsOwn, ConsoleOwn, InstallOwn,
                        IdOwn, journal, asked, authority, records, staged, running, call, pc,
                        events, taken, now, run>>
       \/ /\ part = "broker" /\ Broker!Next
          /\ UNCHANGED <<ReleaseOwn, PublicOwn, CommandOwn, TaskOwn, RuntimeOwn, CaptureOwn,
                        SshOwn, ControlOwn, PackageOwn, InputsOwn, ConsoleOwn, InstallOwn,
                        IdOwn, journal, proc, asked, calls, files, pc, events, taken, now, run>>
       \/ /\ part = "command" /\ Command!Next
          /\ UNCHANGED <<ReleaseOwn, PublicOwn, BrokerOwn, TaskOwn, RuntimeOwn, CaptureOwn,
                        SshOwn, ControlOwn, PackageOwn, InputsOwn, ConsoleOwn, InstallOwn,
                        IdOwn, journal, proc, calls, faults, files, authority, records, pc,
                        events, taken, now, run>>
       \/ /\ part = "task" /\ Task!Next
          /\ UNCHANGED <<ReleaseOwn, PublicOwn, BrokerOwn, CommandOwn, RuntimeOwn, CaptureOwn,
                        SshOwn, ControlOwn, PackageOwn, InputsOwn, ConsoleOwn, InstallOwn,
                        IdOwn, journal, proc, asked, calls, faults, files, authority,
                        records, staged, running, call, taken, now, run>>
       \/ /\ part = "runtime" /\ Runtime!Next
          /\ UNCHANGED <<ReleaseOwn, PublicOwn, BrokerOwn, CommandOwn, TaskOwn, CaptureOwn,
                        SshOwn, ControlOwn, PackageOwn, InputsOwn, ConsoleOwn, InstallOwn,
                        IdOwn, journal, proc, asked, files, authority, records, staged,
                        running, call, pc, events, now, run>>
       \/ /\ part = "capture" /\ Capture!Next
          /\ UNCHANGED <<ReleaseOwn, PublicOwn, BrokerOwn, CommandOwn, TaskOwn, RuntimeOwn,
                        SshOwn, ControlOwn, PackageOwn, InputsOwn, ConsoleOwn, InstallOwn,
                        IdOwn, journal, proc, asked, faults, files, authority, records,
                        staged, running, call, events, taken, now, run>>
       \/ /\ part = "ssh" /\ Ssh!Next
          /\ UNCHANGED <<ReleaseOwn, PublicOwn, BrokerOwn, CommandOwn, TaskOwn, RuntimeOwn,
                        CaptureOwn, ControlOwn, PackageOwn, InputsOwn, ConsoleOwn,
                        InstallOwn, IdOwn, asked, files, authority, records, staged, running,
                        call, pc, events, now, run>>
       \/ /\ part = "plan" /\ Control!Next
          /\ UNCHANGED <<ReleaseOwn, PublicOwn, BrokerOwn, CommandOwn, TaskOwn, RuntimeOwn,
                        CaptureOwn, SshOwn, PackageOwn, InputsOwn, ConsoleOwn, InstallOwn,
                        IdOwn, journal, proc, asked, faults, files, authority, staged,
                        running, pc, events, taken, run>>
       \/ /\ part = "agent" /\ Agent!Next
          /\ UNCHANGED <<ReleaseOwn, PublicOwn, BrokerOwn, CommandOwn, TaskOwn, RuntimeOwn,
                        CaptureOwn, SshOwn, ControlOwn, PackageOwn, InputsOwn, ConsoleOwn,
                        InstallOwn, IdOwn, journal, proc, asked, calls, faults, files,
                        authority, records, staged, running, call, pc, events, taken, now>>
       \/ /\ part = "package" /\ Package!Next
          /\ UNCHANGED <<ReleaseOwn, PublicOwn, BrokerOwn, CommandOwn, TaskOwn, RuntimeOwn,
                        CaptureOwn, SshOwn, ControlOwn, InputsOwn, ConsoleOwn, InstallOwn,
                        IdOwn, journal, asked, authority, records, staged, running, call, pc,
                        events, taken, now, run>>
       \/ /\ part = "inputs" /\ Inputs!Next
          /\ UNCHANGED <<ReleaseOwn, PublicOwn, BrokerOwn, CommandOwn, TaskOwn, RuntimeOwn,
                        CaptureOwn, SshOwn, ControlOwn, PackageOwn, ConsoleOwn, InstallOwn,
                        IdOwn, journal, proc, asked, calls, faults, files, authority,
                        records, staged, running, call, pc, events, taken>>
       \/ /\ part = "console" /\ Console!Next
          /\ UNCHANGED <<ReleaseOwn, PublicOwn, BrokerOwn, CommandOwn, TaskOwn, RuntimeOwn,
                        CaptureOwn, SshOwn, ControlOwn, PackageOwn, InputsOwn, InstallOwn,
                        IdOwn, journal, proc, asked, calls, faults, files, authority,
                        records, staged, running, call, pc, events, taken, now, run>>
       \/ /\ part = "install" /\ Install!Next
          /\ UNCHANGED <<ReleaseOwn, PublicOwn, BrokerOwn, CommandOwn, TaskOwn, RuntimeOwn,
                        CaptureOwn, SshOwn, ControlOwn, PackageOwn, InputsOwn, ConsoleOwn,
                        IdOwn, journal, asked, faults, files, records, staged, running, call,
                        pc, taken, now, run>>
       \/ /\ part = "id" /\ Id!Next
          /\ UNCHANGED <<ReleaseOwn, PublicOwn, BrokerOwn, CommandOwn, TaskOwn, RuntimeOwn,
                        CaptureOwn, SshOwn, ControlOwn, PackageOwn, InputsOwn, ConsoleOwn,
                        InstallOwn, journal, proc, asked, calls, faults, files, authority,
                        records, staged, running, call, pc, events, taken, now, run>>

Spec == Init /\ [][Next]_vars
-----------------------------------------------------------------------------
(* The properties of the components, stated in their modules.                *)

\* Every variable of the picked component has its type.
TypeOK ==
    /\ part = "release" => Release!TypeOK
    /\ part = "public" => Public!TypeOK
    /\ part = "broker" => Broker!TypeOK
    /\ part = "runtime" => Runtime!TypeOK
    /\ part = "plan" => Control!TypeOK
    /\ part = "agent" => Agent!TypeOK
    /\ part = "package" => Package!TypeOK
    /\ part = "inputs" => Inputs!TypeOK
    /\ part = "console" => Console!TypeOK
    /\ part = "install" => Install!TypeOK
    /\ part = "id" => Id!TypeOK

\* A validated draft owns to what did not succeed or was left open, and reviews what is in it.
DraftIsHonest == part = "release" => Release!DraftIsHonest

\* No command, finalizer or crash takes a run out of an integrity state.
IntegrityIsFinal == [][part = "release" => Release!IntegrityKept]_vars

\* A release certificate exists only for an equivalent pair with every review and the
\* authorization on disk.
CertificateIsEarned == part = "public" => Public!CertificateIsEarned

\* What the pair's journal calls admitted or published is on disk, whole.
AdmittedIsWritten == part = "public" => Public!AdmittedIsWritten

\* While no process died or was slow, one command at a time works on a pair.
OneHolder == part = "public" => Public!OneHolder

\* What the broker recorded of a job is what happened to it.
RecordsAreTrue == part = "broker" => Broker!RecordsAreTrue

\* A broker call that was admitted and returned left its records, and what else it left
\* has a throw of a dependency to blame.
ReturnedIsSettled == part = "broker" => Broker!ReturnedIsSettled

\* A result document that says completed was written with nothing left on the host.
DocumentIsHonest == part = "command" => Command!DocumentIsHonest

\* A proposal comes from a program that ended well and mentions admitted evidence only.
ProposalIsEarned == part = "task" => Task!ProposalIsEarned

\* A runtime result without residue leaves nothing; a SUCCEEDED one has every answer.
FlowIsAccounted == part = "runtime" => Runtime!FlowIsAccounted

\* A snapshot is what the source held at one instant of the capture.
SnapshotIsAnInstant == part = "capture" => Capture!SnapshotIsAnInstant

\* The index, the helper and the snapshots of an SSH acquisition agree.
SourceIsAccounted == part = "ssh" => Ssh!SourceIsAccounted

\* The broker is asked for admitted plans only, and a nonce is spent on one of them.
ProbesAreAuthorised == part = "plan" => Control!ProbesAreAuthorised

\* A proposal that was taken belongs to its attempt, its evidence and, a review, to a taken proposal.
TakenIsBound == part = "agent" => Agent!TakenIsBound

\* A detached digest is of the archive beside it, certified and free of what may not leave.
PackageIsSealed == part = "package" => Package!PackageIsSealed

\* A secret in memory is of a live handle and will be erased; no token outlives its handle.
SecretsAreHeld == part = "inputs" => Inputs!SecretsAreHeld

\* A tab changes only what it has seen, and shows the last events without a gap.
ConsoleIsInformed == part = "console" => Console!ConsoleIsInformed

\* Installed bytes were recorded by a ceremony; what was verified, or runs, is one release.
InstallationIsWhole == part = "install" => Install!InstallationIsWhole

\* Unless the operator removes the file, every launcher gets the same id.
EngagementIsOne == part = "id" => Id!EngagementIsOne
=============================================================================
