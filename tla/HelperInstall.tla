----------------------------- MODULE HelperInstall -----------------------------
(***************************************************************************)
(* The installation of the host helper on one machine: the installer       *)
(* (install-production-host-helper.sh install | verify), the validator it  *)
(* ends with, and the service that runs the validator before and after it  *)
(* loads its modules.                                                      *)
(*                                                                         *)
(* The installer copies the kit's files to a stage of its own, compares    *)
(* them with the record of the release ceremony and installs the staged    *)
(* bytes, one file at a time.  Nothing locks out a second installer, and   *)
(* the kit, the record and the service go on meanwhile.                    *)
(*                                                                         *)
(* The contents of a file: a release's, "edited" (no release's), "torn"    *)
(* (a copy that was cut off) or "none".                                    *)
(***************************************************************************)
EXTENDS Naturals

CONSTANTS
    Procs,          \* installer processes
    FileCount,      \* files of a release, in the order the installer takes them
    Releases,
    IndexIsFree,    \* may an awk program assign to a variable named index: POSIX says no
    MaxCalls, MaxEvents    \* bounds: installer commands; changes of the world and faults

Files == 1..FileCount
Contents == Releases \cup {"edited", "torn", "none"}
\* verified-host-helper.txt: the record of a release, one that is not closed, or no file.
Records == Releases \cup {"open", "none"}

VARIABLES
    authority,   \* the record
    kit,         \* the checkout
    target,      \* the installed files
    host,        \* identity, directories, configuration and key
    proc, service,
    socket,      \* does the socket file exist
    verdict,     \* history: the release found installed, "none" when files are written after
    calls, events

vars == <<authority, kit, target, host, proc, service, socket, verdict, calls, events>>
world == <<authority, kit, calls, events>>

All(content) == [n \in Files |-> content]
Idle == [pc |-> "idle", mode |-> "none", n |-> 1, stage |-> All("none"), record |-> "none",
         alone |-> FALSE, refused |-> "none"]
Stopped == [pc |-> "stopped", n |-> 1, loaded |-> All("none"), record |-> "none",
            alone |-> FALSE]

TypeOK ==
    /\ authority \in Records /\ verdict \in Releases \cup {"none"} /\ socket \in BOOLEAN
    /\ kit \in [Files -> Contents] /\ target \in [Files -> Contents]
    /\ \A p \in Procs : proc[p].stage \in [Files -> Contents] /\ proc[p].record \in Records
    /\ service.loaded \in [Files -> Contents] /\ service.record \in Records

Init ==
    /\ authority = (CHOOSE r \in Releases : TRUE) /\ kit = All(authority) /\ target = All("none")
    /\ host = [group |-> FALSE, user |-> FALSE, state |-> FALSE, run |-> FALSE,
               config |-> "given", key |-> "given"]
    /\ proc = [p \in Procs |-> Idle] /\ service = Stopped
    /\ socket = FALSE /\ verdict = "none" /\ calls = 0 /\ events = 0

At(p, pc) == proc[p].pc = pc
File(p) == proc[p].n
Goto(p, pc) == proc' = [proc EXCEPT ![p].pc = pc, ![p].n = 1]
\* die, with the stage removed; what was installed stays.
Die(p) == proc' = [proc EXCEPT ![p] = [Idle EXCEPT !.refused = proc[p].refused]]
Stay == UNCHANGED <<target, host, service, socket, verdict, world>>

\* The next file of a loop, or what follows the last one.
Advance(p, pc) ==
    IF File(p) < FileCount THEN [proc EXCEPT ![p].n = @ + 1]
    ELSE [proc EXCEPT ![p].pc = pc, ![p].n = 1, ![p].alone = @ \/ pc = "inspect"]
-----------------------------------------------------------------------------
(* The installer. *)

Begin(p, mode) ==
    /\ At(p, "idle") /\ calls < MaxCalls /\ calls' = calls + 1
    /\ proc' = [proc EXCEPT ![p] = [Idle EXCEPT !.pc = "record", !.mode = mode]]
    /\ UNCHANGED <<authority, kit, target, host, service, socket, verdict, events>>

\* The awk program that checks that the record is closed; it names a variable index.
Readable(record) == record \in Releases /\ IndexIsFree

ReadRecord(p) ==
    /\ At(p, "record")
    /\ IF Readable(authority) THEN Goto(p, "preverify")
       ELSE proc' = [proc EXCEPT ![p] = [Idle EXCEPT !.refused = authority]]
    /\ Stay

\* Every comparison reads the record again.
Preverify(p) ==
    /\ At(p, "preverify")
    /\ IF kit[File(p)] # authority THEN Die(p)
       ELSE proc' = Advance(p, IF proc[p].mode = "verify" THEN "inspect" ELSE "stage")
    /\ Stay

Stage(p) ==
    /\ At(p, "stage")
    /\ proc' = [Advance(p, "staged") EXCEPT ![p].stage[File(p)] = kit[File(p)]]
    /\ Stay

\* Mutant of StageVerified: what was compared in the checkout is not compared again.
StageTrusted(p) == TRUE

StageVerified(p) == proc[p].stage[File(p)] = authority

VerifyStage(p) ==
    /\ At(p, "staged")
    /\ IF StageVerified(p) THEN proc' = Advance(p, "admit") ELSE Die(p)
    /\ Stay

Admit(p) ==
    /\ At(p, "admit")
    /\ IF host.key = "absent" THEN Die(p) ELSE Goto(p, "identity")
    /\ Stay

\* create_identity: nothing may exist yet, or all of it; a group alone is never completed.
Identity(p) ==
    /\ At(p, "identity")
    /\ IF host.group # host.user THEN Die(p) /\ UNCHANGED host
       ELSE /\ Goto(p, IF host.user THEN "directories" ELSE "useradd")
            /\ host' = [host EXCEPT !.group = TRUE]
    /\ UNCHANGED <<target, service, socket, verdict, world>>

UserAdd(p) ==
    /\ At(p, "useradd") /\ Goto(p, "directories")
    /\ host' = [host EXCEPT !.user = TRUE]
    /\ UNCHANGED <<target, service, socket, verdict, world>>

Directories(p) ==
    /\ At(p, "directories") /\ Goto(p, "copy")
    /\ host' = [host EXCEPT !.state = TRUE, !.run = TRUE]
    /\ UNCHANGED <<target, service, socket, verdict, world>>

\* A file is written: nobody who is looking at the files is alone any more.
Written(p, content, procs) ==
    /\ target' = [target EXCEPT ![File(p)] = content]
    /\ proc' = [q \in Procs |-> [procs[q] EXCEPT !.alone = FALSE]]
    /\ service' = [service EXCEPT !.alone = @ /\ service.pc = "running"]
    /\ verdict' = "none"

Copy(p) ==
    /\ At(p, "copy")
    /\ IF proc[p].stage[File(p)] = "none"
         THEN Die(p) /\ UNCHANGED <<target, service, verdict>>
         ELSE Written(p, proc[p].stage[File(p)], Advance(p, "own"))
    /\ UNCHANGED <<host, socket, world>>

Own(p) ==
    /\ At(p, "own")
    /\ IF host.key = "absent" THEN Die(p) /\ host' = [host EXCEPT !.config = "owned"]
       ELSE /\ proc' = [proc EXCEPT ![p].pc = "inspect", ![p].n = 1, ![p].alone = TRUE]
            /\ host' = [host EXCEPT !.config = "owned", !.key = "owned"]
    /\ UNCHANGED <<target, service, socket, verdict, world>>

Prepared ==
    host.group /\ host.user /\ host.state /\ host.run /\ host.config = "owned" /\ host.key = "owned"

\* verify_installation, up to the validator.
Inspect(p) ==
    /\ At(p, "inspect")
    /\ IF Prepared /\ target[File(p)] = authority
         THEN proc' = Advance(p, "load") ELSE Die(p)
    /\ Stay
-----------------------------------------------------------------------------
(* The validator: one copy of the record, then every file, then the rest. *)

LoadRecord(p) ==
    /\ At(p, "load")
    /\ IF authority \in Releases
         THEN proc' = [proc EXCEPT ![p].record = authority, ![p].pc = "validate"] ELSE Die(p)
    /\ Stay

\* The socket of a running service, or of one that was killed, is refused.
Startable == Prepared /\ ~ socket

Validate(p) ==
    /\ At(p, "validate")
    /\ LET last == File(p) = FileCount
           good == target[File(p)] = proc[p].record /\ (last => Startable)
       IN  /\ IF good /\ ~ last THEN proc' = Advance(p, "validate") ELSE Die(p)
           /\ verdict' = IF good /\ last /\ proc[p].alone THEN proc[p].record ELSE verdict
    /\ UNCHANGED <<target, host, service, socket, world>>
-----------------------------------------------------------------------------
(* The service: validate, load the modules, validate in the process that   *)
(* loaded them, listen.                                                    *)

Serve(s) == service' = s /\ UNCHANGED <<target, host, proc, verdict, world>>
Phase(pc) == service.pc = pc

Start ==
    /\ Phase("stopped") /\ authority \in Releases
    /\ Serve([Stopped EXCEPT !.pc = "prestart", !.record = authority, !.alone = TRUE])
    /\ UNCHANGED socket

Checked(pc, s) ==
    /\ Phase(pc)
    /\ LET last == service.n = FileCount
           good == target[service.n] = service.record /\ (last => Startable)
       IN  Serve(IF ~ good THEN Stopped
                 ELSE IF last THEN [s EXCEPT !.n = 1] ELSE [service EXCEPT !.n = @ + 1])
    /\ UNCHANGED socket

Prestart == Checked("prestart", [service EXCEPT !.pc = "import"])

\* A module that is torn or absent cannot be loaded.
Import ==
    /\ Phase("import")
    /\ LET s == [service EXCEPT !.loaded[service.n] = target[service.n]]
       IN  Serve(IF target[service.n] \in {"torn", "none"} THEN Stopped
                 ELSE IF service.n < FileCount THEN [s EXCEPT !.n = @ + 1]
                 ELSE IF authority \notin Releases THEN Stopped
                 ELSE [s EXCEPT !.n = 1, !.pc = "entry", !.record = authority])
    /\ UNCHANGED socket

Entry == Checked("entry", [service EXCEPT !.pc = "listen"])

Listen ==
    /\ Phase("listen") /\ ~ socket /\ socket' = TRUE
    /\ Serve([service EXCEPT !.pc = "running"])

Stop ==
    /\ Phase("running") /\ socket' = FALSE
    /\ Serve(Stopped)

\* The operator removes the socket of a service that was killed.
RemoveSocket ==
    /\ Phase("stopped") /\ socket /\ socket' = FALSE
    /\ UNCHANGED <<target, host, proc, service, verdict, world>>
-----------------------------------------------------------------------------
(* The world. *)

Event == events < MaxEvents /\ events' = events + 1 /\ UNCHANGED calls
Change == Event /\ UNCHANGED <<target, host, proc, service, socket, verdict>>

CheckOut(r) == kit # All(r) /\ kit' = All(r) /\ Change /\ UNCHANGED authority
Edit(n) == kit[n] # "edited" /\ kit' = [kit EXCEPT ![n] = "edited"] /\ Change /\ UNCHANGED authority
Ceremony(record) ==
    record # authority /\ authority' = record /\ Change /\ UNCHANGED kit

Fault == Event /\ UNCHANGED <<authority, kit>>

\* The installer is killed; the file it was writing is cut off.
Kill(p) ==
    /\ ~ At(p, "idle") /\ Fault
    /\ LET left == [proc EXCEPT ![p] = Idle]
       IN  \/ proc' = left /\ UNCHANGED <<target, service, verdict>>
           \/ At(p, "copy") /\ Written(p, "torn", left)
    /\ UNCHANGED <<host, socket>>

\* The trap of HUP, INT and TERM removes the stage and the installer goes on.
Trapped == {"admit", "identity", "useradd", "directories", "copy", "own", "inspect", "load",
            "validate"}
Signal(p) ==
    /\ proc[p].pc \in Trapped /\ proc[p].mode = "install" /\ Fault
    /\ proc' = [proc EXCEPT ![p].stage = All("none")]
    /\ UNCHANGED <<target, host, service, socket, verdict>>

KillService ==
    /\ ~ Phase("stopped") /\ Fault /\ service' = Stopped
    /\ UNCHANGED <<target, host, proc, socket, verdict>>

\* What is under /run goes: the directory of the socket, and the key.
Reboot ==
    /\ Fault
    /\ host' = [host EXCEPT !.run = FALSE, !.key = "absent"]
    /\ proc' = [p \in Procs |-> Idle] /\ service' = Stopped /\ socket' = FALSE
    /\ UNCHANGED <<target, verdict>>

\* The operator provides the key.
Provision ==
    /\ host.key = "absent" /\ host' = [host EXCEPT !.key = "given"]
    /\ UNCHANGED <<target, proc, service, socket, verdict, world>>

Next ==
    \/ \E p \in Procs :
        \/ Begin(p, "install") \/ Begin(p, "verify")
        \/ ReadRecord(p) \/ Preverify(p) \/ Stage(p) \/ VerifyStage(p) \/ Admit(p)
        \/ Identity(p) \/ UserAdd(p) \/ Directories(p) \/ Copy(p) \/ Own(p)
        \/ Inspect(p) \/ LoadRecord(p) \/ Validate(p) \/ Kill(p) \/ Signal(p)
    \/ Start \/ Prestart \/ Import \/ Entry \/ Listen \/ Stop \/ RemoveSocket
    \/ KillService \/ Reboot \/ Provision
    \/ \E r \in Releases : CheckOut(r)
    \/ \E n \in Files : Edit(n)
    \/ \E record \in Records : Ceremony(record)

Spec == Init /\ [][Next]_vars
-----------------------------------------------------------------------------
(* Properties. *)

\* Whatever becomes of the checkout, the record, the installer and the service meanwhile:
\* only bytes that a ceremony recorded are ever installed; a verified installation is the
\* whole of one release with its identity; and a service whose start met no copying runs
\* modules that are all of the release it validated (verify_payload_tree,
\* verify_installation, validateProductionHostHelperInstallation).
InstallationIsWhole ==
    /\ \A n \in Files : target[n] # "edited"
    /\ verdict # "none" => target = All(verdict) /\ host.group /\ host.user /\ host.state
    /\ Phase("running") /\ service.alone => service.loaded = All(service.record)

\* operator-runbook.md: "The installer accepts only the closed record for the current
\* platform and architecture."  It does not refuse one that is.
RecordIsAccepted == \A p \in Procs : proc[p].refused \notin Releases
=============================================================================
