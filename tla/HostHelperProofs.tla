---------------------------- MODULE HostHelperProofs ----------------------------
(***************************************************************************)
(* Proofs about HostHelper, for every value of its constants: any number   *)
(* of commands, frames, deliveries, crashes and failed writes.             *)
(*                                                                         *)
(* A delivery claims its command when admit has let it through or its      *)
(* driver was called.  The journal names the frame of every claim, the     *)
(* file is never behind the process's copy, and the journal only grows;    *)
(* so a second claim on a command cannot pass admit.                       *)
(***************************************************************************)
EXTENDS HostHelper, TLAPS

Claims(t) == t \in driven \/ Pc(t) = "admitted"

\* What every later journal keeps of an earlier one.
Extends(new, old) ==
    /\ \A k \in DOMAIN old.entries :
          /\ k \in DOMAIN new.entries
          /\ new.entries[k].frame = old.entries[k].frame
    /\ \A r \in Runs : /\ old.counters[r] <= new.counters[r]
                       /\ old.fences[r] <= new.fences[r]
    /\ old.nonces \subseteq new.nonces

\* A delivery that was made belongs to a frame that was signed.
Sent == \A t \in Threads : Pc(t) # "unsent" => t[1] \in DOMAIN frames
\* A handler that is about to answer has something to answer.
ResultIsKnown ==
    \A t \in Threads :
        Pc(t) \in {"returned", "rejecting", "replying"} => handler[t].result \in Results
ClaimsAreJournalled ==
    \A t \in Threads : Claims(t) =>
        /\ t[1] \in DOMAIN frames
        /\ Key(t) \in DOMAIN journal.entries
        /\ journal.entries[Key(t)].frame = t[1]
ClaimsAreSingle ==
    \A t, u \in Threads : Claims(t) /\ Claims(u) /\ Key(t) = Key(u) => t = u

IInv ==
    /\ TypeOK
    /\ Sent
    /\ ResultIsKnown
    /\ Extends(disk, journal)
    /\ ClaimsAreJournalled
    /\ ClaimsAreSingle

-----------------------------------------------------------------------------
(* Partial functions.                                                         *)
LEMMA PutType ==
    ASSUME NEW S, NEW T, NEW f \in PartialFunctions(S, T), NEW x \in S, NEW y \in T
    PROVE  Put(f, x, y) \in PartialFunctions(S, T)
  <1>1. PICK D \in SUBSET S : f \in [D -> T]
    BY DEF PartialFunctions
  <1>2. Put(f, x, y) \in [D \cup {x} -> T]
    BY <1>1 DEF Put
  <1>3. D \cup {x} \in SUBSET S
    BY <1>1
  <1> QED
    BY <1>2, <1>3 DEF PartialFunctions

LEMMA DropType ==
    ASSUME NEW S, NEW T, NEW f \in PartialFunctions(S, T), NEW x
    PROVE  Drop(f, x) \in PartialFunctions(S, T)
  <1>1. PICK D \in SUBSET S : f \in [D -> T]
    BY DEF PartialFunctions
  <1>2. Drop(f, x) \in [D \ {x} -> T]
    BY <1>1 DEF Drop
  <1>3. D \ {x} \in SUBSET S
    BY <1>1
  <1> QED
    BY <1>2, <1>3 DEF PartialFunctions

LEMMA PartialDomain ==
    ASSUME NEW S, NEW T, NEW f \in PartialFunctions(S, T), NEW x \in DOMAIN f
    PROVE  x \in S /\ f[x] \in T
  BY DEF PartialFunctions

(* The frames a delivery can be about.                                        *)
LEMMA FrameTypes ==
    ASSUME TypeOK, NEW f \in DOMAIN frames
    PROVE  /\ f \in FrameIds /\ f # 0
           /\ frames[f].key \in Keys /\ frames[f].counter \in Nat
           /\ RunOf[frames[f].key] \in Runs /\ FenceOf[frames[f].key] \in Nat
           /\ RuntimeOf[frames[f].key] \in Runtimes
  <1> DEFINE S == [key : Keys, counter : Nat]
  <1>1. frames \in Seq(S) /\ Len(frames) <= MaxFrames
    BY DEF TypeOK
  <1>2. frames[f] \in S
    <2> HIDE DEF S
    <2> QED
      BY <1>1
  <1>3. f \in 1..Len(frames) /\ Len(frames) \in Nat
    <2> HIDE DEF S
    <2> QED
      BY <1>1
  <1> QED
    BY <1>1, <1>2, <1>3, ConstantsAssumption DEF FrameIds

-----------------------------------------------------------------------------
(* The drafts of the transactions: each is a journal that extends the last.   *)
LEMMA ExtendsItself == \A j \in Journals : Extends(j, j)
  BY DEF Extends, Journals

LEMMA ExtendsFurther ==
    ASSUME NEW a \in Journals, NEW b \in Journals, NEW c \in Journals,
           Extends(c, b), Extends(b, a)
    PROVE  Extends(c, a)
  <1>1. \A r \in Runs : a.counters[r] \in Int /\ b.counters[r] \in Int /\ c.counters[r] \in Int
                        /\ a.fences[r] \in Int /\ b.fences[r] \in Int /\ c.fences[r] \in Int
    BY DEF Journals
  <1> QED
    BY <1>1 DEF Extends

LEMMA AdmittedExtends ==
    ASSUME TypeOK, NEW f \in DOMAIN frames, Refusal(f) = "none", ~ Known(f)
    PROVE  /\ Admitted(f) \in Journals
           /\ Extends(Admitted(f), journal)
           /\ frames[f].key \in DOMAIN Admitted(f).entries
           /\ Admitted(f).entries[frames[f].key].frame = f
  <1> DEFINE k == frames[f].key
             r == RunOf[k]
             entry == [frame |-> f, result |-> "none"]
             new == Put(journal.entries, k, entry)
             counters == [journal.counters EXCEPT ![r] = frames[f].counter]
             fences == [journal.fences EXCEPT ![r] = FenceOf[k]]
  <1>1. /\ f \in FrameIds /\ k \in Keys /\ frames[f].counter \in Nat
        /\ r \in Runs /\ FenceOf[k] \in Nat
    BY FrameTypes
  <1>2. /\ journal \in Journals
        /\ journal.entries \in PartialFunctions(Keys, Entries)
        /\ journal.counters \in [Runs -> Nat \cup {-1}]
        /\ journal.fences \in [Runs -> Nat \cup {-1}]
        /\ journal.nonces \in SUBSET FrameIds
        /\ journal.resources \in PartialFunctions(Runtimes, Resources)
        /\ journal.cleanup \in [Subjects -> Phases]
    BY DEF TypeOK, Journals
  <1>3. entry \in Entries
    BY <1>1 DEF Entries
  <1>4. new \in PartialFunctions(Keys, Entries)
    BY <1>1, <1>2, <1>3, PutType
  <1>5. Admitted(f) = [counters |-> counters, nonces |-> journal.nonces \cup {f},
                       fences |-> fences, entries |-> new,
                       resources |-> journal.resources, cleanup |-> journal.cleanup]
    BY DEF Admitted
  <1>6. /\ counters \in [Runs -> Nat \cup {-1}] /\ fences \in [Runs -> Nat \cup {-1}]
    BY <1>1, <1>2
  <1>7. frames[f].counter > journal.counters[r] /\ FenceOf[k] >= journal.fences[r]
    BY <1>1, <1>2 DEF Refusal
  <1>8. \A q \in Runs : journal.counters[q] <= counters[q] /\ journal.fences[q] <= fences[q]
    BY <1>1, <1>2, <1>7
  <1>9. \A x \in DOMAIN journal.entries : x \in DOMAIN new /\ new[x] = journal.entries[x]
    BY DEF Known, Put
  <1>10. k \in DOMAIN new /\ new[k] = entry
    BY DEF Put
  <1> HIDE DEF counters, fences, new, entry, k, r
  <1>11. Admitted(f) \in Journals
    BY <1>1, <1>2, <1>4, <1>5, <1>6 DEF Journals
  <1>12. Extends(Admitted(f), journal)
    BY <1>5, <1>8, <1>9 DEF Extends
  <1> QED
    BY <1>5, <1>10, <1>11, <1>12 DEF k, entry

LEMMA CompletedExtends ==
    ASSUME TypeOK, NEW f \in DOMAIN frames, NEW result \in Results, Binds(f)
    PROVE  Completed(f, result) \in Journals /\ Extends(Completed(f, result), journal)
  <1> DEFINE k == frames[f].key
             rt == RuntimeOf[k]
             entry == [frame |-> f, result |-> result]
             new == Put(journal.entries, k, entry)
             released == OperationOf[k] = "vm.destroy" /\ result = "SUCCEEDED"
             created == Put(journal.resources, rt, Resource(f, result))
             dropped == Drop(journal.resources, rt)
             resources == IF OperationOf[k] = "vm.create" THEN created
                          ELSE IF released THEN dropped ELSE journal.resources
             cleanup == [journal.cleanup EXCEPT ![rt] = IF released THEN "COMPLETE" ELSE @]
  <1>1. f \in FrameIds /\ k \in Keys /\ rt \in Runtimes
    BY FrameTypes
  <1>2. /\ journal \in Journals
        /\ journal.entries \in PartialFunctions(Keys, Entries)
        /\ journal.counters \in [Runs -> Nat \cup {-1}]
        /\ journal.fences \in [Runs -> Nat \cup {-1}]
        /\ journal.nonces \in SUBSET FrameIds
        /\ journal.resources \in PartialFunctions(Runtimes, Resources)
        /\ journal.cleanup \in [Subjects -> Phases]
    BY DEF TypeOK, Journals
  <1>3. new \in PartialFunctions(Keys, Entries)
    <2>1. entry \in Entries
      BY <1>1 DEF Entries
    <2> QED
      BY <1>1, <1>2, <2>1, PutType
  <1>4. resources \in PartialFunctions(Runtimes, Resources)
    <2>1. Resource(f, result) \in Resources
      BY <1>1 DEF Resource, Resources, Results
    <2>2. created \in PartialFunctions(Runtimes, Resources)
      BY <1>1, <1>2, <2>1, PutType
    <2>3. dropped \in PartialFunctions(Runtimes, Resources)
      BY <1>2, DropType
    <2> QED
      BY <1>2, <2>2, <2>3
  <1>5. cleanup \in [Subjects -> Phases]
    BY <1>1, <1>2 DEF Subjects, Phases
  <1>6. Completed(f, result) =
           [counters |-> journal.counters, nonces |-> journal.nonces,
            fences |-> journal.fences, entries |-> new,
            resources |-> resources, cleanup |-> cleanup]
    <2>1. Completed(f, result) = [journal EXCEPT !.entries = new, !.resources = resources,
                                                 !.cleanup = cleanup]
      BY DEF Completed
    <2> HIDE DEF new, resources, cleanup
    <2> QED
      BY <1>2, <2>1 DEF Journals
  <1>7. \A x \in DOMAIN journal.entries :
            x \in DOMAIN new /\ new[x].frame = journal.entries[x].frame
    BY DEF Binds, Put
  <1>8. \A r \in Runs : journal.counters[r] <= journal.counters[r]
                        /\ journal.fences[r] <= journal.fences[r]
    BY <1>2
  <1> HIDE DEF new, resources, cleanup
  <1>9. Completed(f, result) \in Journals
    BY <1>2, <1>3, <1>4, <1>5, <1>6 DEF Journals
  <1>10. Extends(Completed(f, result), journal)
    BY <1>6, <1>7, <1>8 DEF Extends
  <1> QED
    BY <1>9, <1>10

LEMMA MaintainedExtends ==
    ASSUME TypeOK, NEW s \in Subjects, NEW phase \in Phases
    PROVE  Maintained(s, phase) \in Journals /\ Extends(Maintained(s, phase), journal)
  <1> DEFINE cleanup == [journal.cleanup EXCEPT ![s] = phase]
  <1>1. journal \in Journals /\ journal.cleanup \in [Subjects -> Phases]
    BY DEF TypeOK, Journals
  <1>2. cleanup \in [Subjects -> Phases]
    BY <1>1
  <1>3. Maintained(s, phase) = [journal EXCEPT !.cleanup = cleanup]
    BY <1>1 DEF Maintained, Journals
  <1> HIDE DEF cleanup
  <1>4. Maintained(s, phase) \in Journals
    BY <1>1, <1>2, <1>3 DEF Journals
  <1>5. Extends(Maintained(s, phase), journal)
    <2>1. Extends(journal, journal)
      BY <1>1, ExtendsItself
    <2> QED
      BY <1>1, <1>3, <2>1 DEF Extends, Journals
  <1> QED
    BY <1>4, <1>5

\* The draft of reconcileAccepted.
Reconciled(k, result) == [journal EXCEPT !.entries[k].result = result]

LEMMA ReconciledExtends ==
    ASSUME TypeOK, NEW k \in DOMAIN journal.entries, NEW result \in Results
    PROVE  Reconciled(k, result) \in Journals /\ Extends(Reconciled(k, result), journal)
  <1> DEFINE entry == [journal.entries[k] EXCEPT !.result = result]
             new == [journal.entries EXCEPT ![k] = entry]
  <1>1. journal \in Journals /\ journal.entries \in PartialFunctions(Keys, Entries)
    BY DEF TypeOK, Journals
  <1>2. journal.entries[k] \in Entries
    BY <1>1, PartialDomain
  <1>3. entry \in Entries /\ entry.frame = journal.entries[k].frame
    BY <1>2 DEF Entries
  <1> HIDE DEF entry
  <1>4. new \in PartialFunctions(Keys, Entries)
    BY <1>1, <1>3 DEF PartialFunctions
  <1>5. \A x \in DOMAIN journal.entries :
            x \in DOMAIN new /\ new[x].frame = journal.entries[x].frame
    BY <1>1, <1>3 DEF PartialFunctions
  <1>6. Reconciled(k, result) = [journal EXCEPT !.entries = new]
    BY <1>1 DEF Reconciled, Journals, entry
  <1> HIDE DEF new
  <1>7. Reconciled(k, result) \in Journals
    BY <1>1, <1>4, <1>6 DEF Journals
  <1>8. Extends(Reconciled(k, result), journal)
    <2>1. Extends(journal, journal)
      BY <1>1, ExtendsItself
    <2> QED
      BY <1>1, <1>5, <1>6, <2>1 DEF Extends, Journals
  <1> QED
    BY <1>7, <1>8

-----------------------------------------------------------------------------
(* Every step writes the journal by extending it, and keeps the file at least *)
(* as far as the process's copy.                                              *)
JournalMoves ==
    /\ journal' \in Journals /\ disk' \in Journals
    /\ Extends(journal', journal)
    /\ Extends(disk', journal')
    /\ wedged' \in BOOLEAN /\ failures' \in Nat

LEMMA WriteMoves ==
    ASSUME TypeOK, Extends(disk, journal),
           NEW draft \in Journals, Extends(draft, journal),
           Written(draft) \/ NotWritten(draft)
    PROVE  JournalMoves
  <1>1. journal \in Journals /\ disk \in Journals /\ wedged \in BOOLEAN /\ failures \in Nat
    BY DEF TypeOK
  <1>2. Extends(journal, journal) /\ Extends(draft, draft)
    BY <1>1, ExtendsItself
  <1>3. CASE Written(draft)
    BY <1>1, <1>2, <1>3 DEF Written, JournalMoves
  <1>4. CASE NotWritten(draft)
    <2>1. journal' = journal /\ (disk' = disk \/ disk' = draft)
      BY <1>4 DEF NotWritten
    <2>2. failures' = failures \/ failures' = failures + 1
      BY <1>4 DEF NotWritten
    <2>3. wedged' = wedged \/ wedged' = TRUE
      BY <1>4 DEF NotWritten
    <2>4. failures' \in Nat
      BY <1>1, <2>2
    <2>5. wedged' \in BOOLEAN
      BY <1>1, <2>3, Zenon
    <2> QED
      BY <1>1, <1>2, <2>1, <2>4, <2>5 DEF JournalMoves
  <1> QED
    BY <1>3, <1>4

LEMMA NoMove ==
    ASSUME TypeOK, Extends(disk, journal), UNCHANGED journalVars
    PROVE  JournalMoves
  <1>1. journal \in Journals /\ disk \in Journals /\ wedged \in BOOLEAN /\ failures \in Nat
    BY DEF TypeOK
  <1>2. Extends(journal, journal)
    BY <1>1, ExtendsItself
  <1> QED
    BY <1>1, <1>2 DEF journalVars, JournalMoves

\* What a restart does: the process reads the file.
LEMMA Reload ==
    ASSUME TypeOK, Extends(disk, journal),
           journal' = disk, disk' = disk, wedged' = FALSE, failures' = failures
    PROVE  JournalMoves
  <1>1. disk \in Journals /\ failures \in Nat
    BY DEF TypeOK
  <1>2. Extends(disk, disk)
    BY <1>1, ExtendsItself
  <1> QED
    BY <1>1, <1>2 DEF JournalMoves

LEMMA HandlerMoves ==
    ASSUME TypeOK, Sent, ResultIsKnown, Extends(disk, journal), NEW t \in Threads,
           Refuse(t) \/ Admit(t) \/ Drive(t) \/ Complete(t) \/ Reject(t) \/ Reply(t)
    PROVE  JournalMoves
  <1>1. ASSUME Pc(t) # "unsent"
        PROVE  t[1] \in DOMAIN frames
    BY <1>1 DEF Sent
  <1>2. journal \in Journals
    BY DEF TypeOK
  <1>3. CASE Refuse(t) \/ Drive(t) \/ Reply(t)
    BY <1>3, NoMove DEF Refuse, Drive, Reply
  <1>4. CASE Admit(t)
    <2> DEFINE draft == IF Known(t[1]) THEN journal ELSE Admitted(t[1])
    <2>1. Refusal(t[1]) = "none" /\ t[1] \in DOMAIN frames
      BY <1>1, <1>4 DEF Admit
    <2>2. draft \in Journals /\ Extends(draft, journal)
      BY <1>2, <2>1, AdmittedExtends, ExtendsItself
    <2>3. Written(draft) \/ NotWritten(draft)
      BY <1>4 DEF Admit
    <2> HIDE DEF draft
    <2> QED
      BY <2>2, <2>3, WriteMoves
  <1>5. CASE Complete(t) \/ Reject(t)
    <2> DEFINE draft == Completed(t[1], handler[t].result)
    <2>1. t[1] \in DOMAIN frames /\ handler[t].result \in Results
      BY <1>1, <1>5 DEF Complete, Reject, ResultIsKnown
    <2>2. CASE ~ Binds(t[1])
      BY <1>5, <2>2, NoMove DEF Complete, Reject
    <2>3. CASE Binds(t[1])
      <3>1. draft \in Journals /\ Extends(draft, journal)
        BY <2>1, <2>3, CompletedExtends
      <3>2. Written(draft) \/ NotWritten(draft)
        BY <1>5, <2>3 DEF Complete, Reject
      <3> HIDE DEF draft
      <3> QED
        BY <3>1, <3>2, WriteMoves
    <2> QED
      BY <2>2, <2>3
  <1> QED
    BY <1>3, <1>4, <1>5

LEMMA MaintenanceMoves ==
    ASSUME TypeOK, Extends(disk, journal), Maintenance
    PROVE  JournalMoves
  <1>1. CASE StartReconcile \/ EndReconcile
    <2>1. \E phase \in Phases : Written(Maintained("installation", phase))
      BY <1>1 DEF StartReconcile, EndReconcile, Phases
    <2>2. "installation" \in Subjects
      BY DEF Subjects
    <2> QED
      BY <2>1, <2>2, MaintainedExtends, WriteMoves
  <1>2. CASE EndEmergencyStop
    <2>1. Written(Maintained(target, "STOPPED"))
      BY <1>2 DEF EndEmergencyStop
    <2>2. "STOPPED" \in Phases /\ target \in Subjects
      BY DEF Phases, TypeOK
    <2> QED
      BY <2>1, <2>2, MaintainedExtends, WriteMoves
  <1>3. ASSUME NEW rt \in Runtimes, StartEmergencyStop(rt)
        PROVE  JournalMoves
    <2>1. Written(Maintained(rt, "FENCED"))
      BY <1>3 DEF StartEmergencyStop
    <2>2. "FENCED" \in Phases /\ rt \in Subjects
      BY DEF Phases, Subjects
    <2> QED
      BY <2>1, <2>2, MaintainedExtends, WriteMoves
  <1>4. ASSUME NEW k \in Keys, ReconcileAccepted(k)
        PROVE  JournalMoves
    <2> DEFINE result == IF outcome[k] = "SUCCEEDED" THEN "SUCCEEDED" ELSE "FAILED"
    <2>1. Written(Reconciled(k, result)) /\ k \in DOMAIN journal.entries
      BY <1>4 DEF ReconcileAccepted, Reconciled, Pending
    <2>2. result \in Results
      BY DEF Results, Outcomes
    <2> QED
      BY <2>1, <2>2, ReconciledExtends, WriteMoves
  <1>5. CASE AbandonMaintenance
    BY <1>5, NoMove DEF AbandonMaintenance
  <1> QED
    BY <1>1, <1>2, <1>3, <1>4, <1>5 DEF Maintenance

LEMMA NextMoves ==
    ASSUME TypeOK, Sent, ResultIsKnown, Extends(disk, journal), [Next]_vars
    PROVE  JournalMoves
  <1>1. CASE Caller
    BY <1>1, NoMove DEF Caller, Request, GiveUp
  <1>2. CASE Channel
    BY <1>2, NoMove DEF Channel, Redeliver, Expire
  <1>3. CASE Handle
    BY <1>3, HandlerMoves DEF Handle
  <1>4. CASE Serve \/ RemoveSocket
    BY <1>4, NoMove DEF Serve, RemoveSocket
  <1>5. CASE StopServing \/ Crash \/ Reboot
    BY <1>5, Reload DEF StopServing, Crash, Die, Reboot
  <1>6. CASE Maintenance
    BY <1>6, MaintenanceMoves
  <1>7. CASE UNCHANGED vars
    BY <1>7, NoMove DEF vars, journalVars
  <1> QED
    BY <1>1, <1>2, <1>3, <1>4, <1>5, <1>6, <1>7 DEF Next, Process

-----------------------------------------------------------------------------
(* Signed frames stay, and what happens to the handlers.                      *)
FramesKept == \A f \in DOMAIN frames : f \in DOMAIN frames' /\ frames'[f] = frames[f]

\* The handlers after a restart.
Restarted ==
    [t \in Threads |-> IF Pc(t) = "unsent" THEN handler[t]
                       ELSE [pc |-> "done", result |-> handler[t].result]]

LEMMA RequestFrames ==
    ASSUME TypeOK, NEW k \in Keys, Request(k)
    PROVE  /\ FramesKept
           /\ Len(frames) + 1 \in DOMAIN frames' /\ Len(frames) + 1 \in FrameIds
           /\ frames' \in Seq([key : Keys, counter : Nat]) /\ Len(frames') <= MaxFrames
           /\ DOMAIN frames \subseteq DOMAIN frames'
           /\ counterFile' \in Nat
  <1> DEFINE S == [key : Keys, counter : Nat]
             new == [key |-> k, counter |-> counterFile + 1]
  <1>1. frames \in Seq(S) /\ Len(frames) < MaxFrames /\ new \in S /\ MaxFrames \in Nat
    BY ConstantsAssumption DEF TypeOK, Request
  <1>2. frames' = Append(frames, new)
    BY DEF Request
  <1>3. counterFile' \in Nat
    BY DEF Request, TypeOK
  <1> HIDE DEF S, new
  <1>4. /\ FramesKept /\ Len(frames) + 1 \in DOMAIN frames' /\ frames' \in Seq(S)
        /\ Len(frames') = Len(frames) + 1 /\ Len(frames) \in Nat
    BY <1>1, <1>2 DEF FramesKept
  <1>5. Len(frames) + 1 \in FrameIds
    BY <1>1, <1>4 DEF FrameIds
  <1> QED
    BY <1>1, <1>3, <1>4, <1>5 DEF S, FramesKept

LEMMA OtherFrames ==
    ASSUME [Next]_vars
    PROVE  frames' = frames \/ \E k \in Keys : Request(k)
  <1>1. CASE Caller
    BY <1>1 DEF Caller, GiveUp
  <1>2. CASE Channel \/ UNCHANGED vars
    BY <1>2 DEF Channel, Redeliver, Expire, callerVars, vars
  <1>3. CASE Handle
    BY <1>3 DEF Handle, Refuse, Admit, Drive, Complete, Reject, Reply, callerVars
  <1>4. CASE Process
    BY <1>4 DEF Process, Serve, StopServing, RemoveSocket, Crash, Die, Reboot, callerVars
  <1>5. CASE Maintenance
    BY <1>5 DEF Maintenance, StartReconcile, EndReconcile, EndEmergencyStop,
                AbandonMaintenance, ReconcileAccepted, StartEmergencyStop, callerVars
  <1> QED
    BY <1>1, <1>2, <1>3, <1>4, <1>5 DEF Next

LEMMA NextFrames ==
    ASSUME TypeOK, [Next]_vars
    PROVE  FramesKept
  BY OtherFrames, RequestFrames DEF FramesKept

\* One handler moves, all stay, or all restart.
LEMMA HandlerShape ==
    ASSUME [Next]_vars
    PROVE  \/ handler' = handler /\ driven' = driven
           \/ handler' = Restarted /\ driven' = driven
           \/ \E k \in Keys : /\ Request(k) /\ driven' = driven
                              /\ Entered(<<Len(frames) + 1, 1>>, "queued", "none")
           \/ \E t \in Threads : Redeliver(t)
           \/ \E t \in Threads :
                 Refuse(t) \/ Admit(t) \/ Drive(t) \/ Complete(t) \/ Reject(t) \/ Reply(t)
  <1>1. CASE Caller
    BY <1>1 DEF Caller, GiveUp, Request, hostVars
  <1>2. CASE Channel \/ UNCHANGED vars
    BY <1>2 DEF Channel, Expire, hostVars, vars
  <1>3. CASE Handle
    BY <1>3 DEF Handle
  <1>4. CASE Process
    BY <1>4 DEF Process, Serve, StopServing, RemoveSocket, Crash, Die, Reboot, hostVars, Restarted
  <1>5. CASE Maintenance
    BY <1>5 DEF Maintenance, StartReconcile, EndReconcile, EndEmergencyStop,
                AbandonMaintenance, ReconcileAccepted, StartEmergencyStop, hostVars
  <1> QED
    BY <1>1, <1>2, <1>3, <1>4, <1>5 DEF Next

\* A handler that entered a pc with a result, seen from one delivery.
LEMMA EnteredHandler ==
    ASSUME TypeOK, NEW t \in Threads, NEW pc, NEW result, Entered(t, pc, result)
    PROVE  /\ Pc(t)' = pc /\ handler'[t].result = result
           /\ \A u \in Threads : u # t => handler'[u] = handler[u]
  BY DEF TypeOK, Entered, Pc

\* What admit leaves behind when it lets a new command through.
FreshClaim(t) ==
    /\ Pc(t) = "queued"
    /\ t[1] \in DOMAIN frames
    /\ Key(t) \notin DOMAIN journal.entries
    /\ Key(t) \in DOMAIN journal'.entries
    /\ journal'.entries[Key(t)].frame = t[1]

LEMMA AdmitClaims ==
    ASSUME TypeOK, Sent, NEW t \in Threads, Admit(t), Claims(t)'
    PROVE  Claims(t) \/ FreshClaim(t)
  <1>1. Pc(t) = "queued" /\ t[1] \in DOMAIN frames /\ Refusal(t[1]) = "none"
    BY DEF Admit, Sent
  <1>2. driven' = driven
    BY DEF Admit, hostVars
  <1>3. CASE t \in driven
    BY <1>3 DEF Claims
  <1>4. CASE Pc(t)' = "admitted"
    <2>1. ~ Known(t[1]) /\ Written(Admitted(t[1]))
      BY <1>4, EnteredHandler DEF Admit
    <2>2. journal' = Admitted(t[1])
      BY <2>1 DEF Written
    <2> QED
      BY <1>1, <2>1, <2>2, AdmittedExtends DEF FreshClaim, Key, Known
  <1> QED
    BY <1>2, <1>3, <1>4 DEF Claims

(* A claim that is new was made by admit, for a command the journal did not   *)
(* know; and one step makes at most one.                                      *)
LEMMA NewClaims ==
    ASSUME TypeOK, Sent, [Next]_vars
    PROVE  \/ \A t \in Threads : Claims(t)' => Claims(t)
           \/ \E t \in Threads : /\ FreshClaim(t)
                                 /\ \A u \in Threads : Claims(u)' => Claims(u) \/ u = t
  <1>1. CASE handler' = handler /\ driven' = driven
    BY <1>1 DEF Claims, Pc
  <1>2. CASE handler' = Restarted /\ driven' = driven
    BY <1>2 DEF Claims, Pc, Restarted
  <1>3. ASSUME NEW k \in Keys, Request(k), driven' = driven,
               Entered(<<Len(frames) + 1, 1>>, "queued", "none")
        PROVE  \A t \in Threads : Claims(t)' => Claims(t)
    BY <1>3 DEF Claims, Pc, Entered, TypeOK
  <1>4. ASSUME NEW t \in Threads, Redeliver(t)
        PROVE  \A u \in Threads : Claims(u)' => Claims(u)
    BY <1>4 DEF Redeliver, Claims, Pc, Entered, TypeOK, hostVars
  <1>5. ASSUME NEW t \in Threads, Refuse(t) \/ Complete(t) \/ Reject(t) \/ Reply(t)
        PROVE  \A u \in Threads : Claims(u)' => Claims(u)
    <2>1. driven' = driven
      BY <1>5 DEF Refuse, Complete, Reject, Reply, hostVars
    <2>2. \E pc \in {"rejecting", "replying", "done"} : \E result : Entered(t, pc, result)
      BY <1>5 DEF Refuse, Complete, Reject, Reply
    <2>3. Pc(t)' # "admitted" /\ \A u \in Threads : u # t => handler'[u] = handler[u]
      BY <2>2, EnteredHandler
    <2> QED
      BY <2>1, <2>3 DEF Claims, Pc
  <1>6. ASSUME NEW t \in Threads, Drive(t)
        PROVE  \A u \in Threads : Claims(u)' => Claims(u)
    <2>1. driven' = driven \cup {t} /\ Pc(t) = "admitted"
      BY <1>6 DEF Drive
    <2>2. \E pc \in {"returned", "rejecting"} : \E result : Entered(t, pc, result)
      BY <1>6 DEF Drive
    <2>3. \A u \in Threads : u # t => handler'[u] = handler[u]
      BY <2>2, EnteredHandler
    <2> QED
      BY <2>1, <2>3 DEF Claims, Pc
  <1>7. ASSUME NEW t \in Threads, Admit(t)
        PROVE  \A u \in Threads : Claims(u)' => Claims(u) \/ u = t
    <2>1. driven' = driven
      BY <1>7 DEF Admit, hostVars
    <2>2. \E pc, result : Entered(t, pc, result)
      BY <1>7 DEF Admit
    <2>3. \A u \in Threads : u # t => handler'[u] = handler[u]
      BY <2>2, EnteredHandler
    <2> QED
      BY <2>1, <2>3 DEF Claims, Pc
  <1>8. ASSUME NEW t \in Threads, Admit(t)
        PROVE  \/ \A u \in Threads : Claims(u)' => Claims(u)
               \/ FreshClaim(t)
    BY <1>7, <1>8, AdmitClaims
  <1> QED
    BY <1>1, <1>2, <1>3, <1>4, <1>5, <1>6, <1>7, <1>8, HandlerShape

(* Claims stay journalled and single.                                         *)
LEMMA ClaimsStep ==
    ASSUME IInv, [Next]_vars
    PROVE  ClaimsAreJournalled' /\ ClaimsAreSingle'
  <1>1. JournalMoves /\ FramesKept
    BY NextMoves, NextFrames DEF IInv
  <1>2. \A t \in Threads : t[1] \in DOMAIN frames => Key(t)' = Key(t) /\ t[1] \in DOMAIN frames'
    BY <1>1 DEF FramesKept, Key
  <1>3. ASSUME NEW t \in Threads, Claims(t) \/ FreshClaim(t)
        PROVE  /\ t[1] \in DOMAIN frames
               /\ Key(t) \in DOMAIN journal'.entries
               /\ journal'.entries[Key(t)].frame = t[1]
    BY <1>1, <1>3 DEF IInv, ClaimsAreJournalled, FreshClaim, JournalMoves, Extends
  <1>4. \/ \A t \in Threads : Claims(t)' => Claims(t)
        \/ \E t \in Threads : /\ FreshClaim(t)
                              /\ \A u \in Threads : Claims(u)' => Claims(u) \/ u = t
    BY NewClaims DEF IInv
  <1>5. ClaimsAreJournalled'
    BY <1>2, <1>3, <1>4 DEF ClaimsAreJournalled
  <1>6. ASSUME NEW t \in Threads, NEW u \in Threads, Claims(t), FreshClaim(u)
        PROVE  Key(t) # Key(u)
    BY <1>6 DEF IInv, ClaimsAreJournalled, FreshClaim
  <1>7. ASSUME NEW t \in Threads, NEW u \in Threads, Claims(t)', Claims(u)', Key(t)' = Key(u)'
        PROVE  t = u
    <2>1. (Claims(t) \/ FreshClaim(t)) /\ (Claims(u) \/ FreshClaim(u))
      BY <1>4, <1>7
    <2>2. Key(t) = Key(u)
      BY <1>2, <1>3, <1>7, <2>1
    <2>3. CASE Claims(t) /\ Claims(u)
      BY <2>2, <2>3 DEF IInv, ClaimsAreSingle
    <2> QED
      BY <1>4, <1>6, <1>7, <2>1, <2>2, <2>3
  <1>8. ClaimsAreSingle'
    BY <1>7 DEF ClaimsAreSingle
  <1> QED
    BY <1>5, <1>8

-----------------------------------------------------------------------------
(* Types, in the groups that one action changes together.                     *)
HandlerPcs == {"unsent", "queued", "admitted", "returned", "rejecting", "replying", "done"}
HandlersTyped ==
    /\ handler \in [Threads -> [pc : HandlerPcs, result : Results \cup {"none"}]]
    /\ Sent
    /\ ResultIsKnown
CallerTyped ==
    /\ counterFile \in Nat
    /\ frames \in Seq([key : Keys, counter : Nat]) /\ Len(frames) <= MaxFrames
    /\ expired \subseteq DOMAIN frames
    /\ call \in [Keys -> FrameIds \cup {0}]
    /\ answered \in PartialFunctions(FrameIds, Results)
ProcessTyped ==
    /\ up \in {"down", "serving", "reconciling", "stopping"}
    /\ target \in Subjects /\ socket \in BOOLEAN /\ crashes \in Nat
HostTyped ==
    /\ driven \subseteq Threads
    /\ outcome \in [Keys -> Outcomes \cup {"none"}]
    /\ alive \subseteq Runtimes

LEMMA RefusalType == \A f : Refusal(f) \in Codes \cup {"none"}
  BY DEF Refusal, Codes, Refusals

LEMMA EnteredTyped ==
    ASSUME HandlersTyped, FramesKept, NEW t \in Threads, t[1] \in DOMAIN frames',
           NEW pc \in HandlerPcs, NEW result \in Results \cup {"none"},
           pc \in {"returned", "rejecting", "replying"} => result \in Results,
           Entered(t, pc, result)
    PROVE  HandlersTyped'
  <1> DEFINE new == [pc |-> pc, result |-> result]
             H == [pc : HandlerPcs, result : Results \cup {"none"}]
  <1>1. handler' = [handler EXCEPT ![t] = new] /\ new \in H /\ new.pc = pc /\ new.result = result
    BY DEF Entered
  <1>2. handler \in [Threads -> H]
    BY DEF HandlersTyped
  <1> HIDE DEF new, H
  <1>3. handler' \in [Threads -> H]
    BY <1>1, <1>2
  <1>4. handler'[t] = new /\ \A u \in Threads : u # t => handler'[u] = handler[u]
    BY <1>1, <1>2
  <1>5. Sent'
    BY <1>1, <1>4 DEF HandlersTyped, Sent, Pc, FramesKept
  <1>6. ResultIsKnown'
    BY <1>1, <1>4 DEF HandlersTyped, ResultIsKnown, Pc
  <1> QED
    BY <1>3, <1>5, <1>6 DEF HandlersTyped, H

\* The result of a command that admit replays.
LEMMA ReplayedResult ==
    ASSUME TypeOK, NEW f \in DOMAIN frames, Refusal(f) = "none", Known(f)
    PROVE  journal.entries[frames[f].key].result \in Results
  <1>1. journal.entries \in PartialFunctions(Keys, Entries)
    BY DEF TypeOK, Journals
  <1>2. journal.entries[frames[f].key] \in Entries
    BY <1>1, PartialDomain DEF Known
  <1> QED
    BY <1>2 DEF Refusal, Known, Entries

LEMMA HandlersStep ==
    ASSUME TypeOK, HandlersTyped, [Next]_vars
    PROVE  HandlersTyped'
  <1>1. FramesKept
    BY NextFrames
  <1>2. CASE handler' = handler
    BY <1>1, <1>2 DEF HandlersTyped, Sent, ResultIsKnown, Pc, FramesKept
  <1>3. CASE handler' = Restarted
    <2>1. handler' \in [Threads -> [pc : HandlerPcs, result : Results \cup {"none"}]]
      BY <1>3 DEF HandlersTyped, Restarted, HandlerPcs
    <2>2. Sent'
      BY <1>1, <1>3 DEF HandlersTyped, Sent, Pc, Restarted, FramesKept
    <2>3. ResultIsKnown'
      BY <1>3 DEF HandlersTyped, ResultIsKnown, Pc, Restarted
    <2> QED
      BY <2>1, <2>2, <2>3 DEF HandlersTyped
  <1>4. ASSUME NEW k \in Keys, Request(k), Entered(<<Len(frames) + 1, 1>>, "queued", "none")
        PROVE  HandlersTyped'
    <2> DEFINE t == <<Len(frames) + 1, 1>>
    <2>1. t[1] \in DOMAIN frames'
      BY <1>4, RequestFrames
    <2>2. CASE t \in Threads
      <3> HIDE DEF t
      <3> QED
        BY <1>1, <1>4, <2>1, <2>2, EnteredTyped DEF HandlerPcs, t
    <2>3. CASE t \notin Threads
      <3>1. handler' = handler
        BY <1>4, <2>3 DEF HandlersTyped, Entered
      <3> QED
        BY <1>2, <3>1
    <2> QED
      BY <2>2, <2>3
  <1>5. ASSUME NEW t \in Threads, Redeliver(t)
        PROVE  HandlersTyped'
    <2>1. t[1] \in DOMAIN frames' /\ Entered(t, "queued", "none")
      BY <1>1, <1>5 DEF Redeliver, FramesKept
    <2> QED
      BY <1>1, <2>1, EnteredTyped DEF HandlerPcs
  <1>6. ASSUME NEW t \in Threads,
               Refuse(t) \/ Admit(t) \/ Drive(t) \/ Complete(t) \/ Reject(t) \/ Reply(t)
        PROVE  HandlersTyped'
    <2>1. Pc(t) # "unsent"
      BY <1>6 DEF Refuse, Admit, Drive, Complete, Reject, Reply
    <2>2. t[1] \in DOMAIN frames /\ t[1] \in DOMAIN frames'
      BY <1>1, <2>1 DEF HandlersTyped, Sent, FramesKept
    <2>3. CASE Refuse(t)
      <3>1. \E result \in Codes : Entered(t, "rejecting", result)
        BY <2>3, RefusalType DEF Refuse, Codes, Refusals
      <3> QED
        BY <1>1, <2>2, <3>1, EnteredTyped DEF HandlerPcs, Results
    <2>4. CASE Admit(t)
      <3>1. CASE Entered(t, "admitted", "none") \/ Entered(t, "rejecting", "INTERNAL")
        BY <1>1, <2>2, <3>1, EnteredTyped DEF HandlerPcs, Results, Codes, Refusals
      <3>2. CASE Known(t[1]) /\ Entered(t, "replying", journal.entries[Key(t)].result)
        <4>1. journal.entries[Key(t)].result \in Results
          BY <2>2, <2>4, <3>2, ReplayedResult DEF Admit, Key
        <4> QED
          BY <1>1, <2>2, <3>2, <4>1, EnteredTyped DEF HandlerPcs
      <3> QED
        BY <2>4, <3>1, <3>2 DEF Admit
    <2>5. CASE Drive(t)
      <3>1. \/ \E result \in Outcomes : Entered(t, "returned", result)
            \/ \E code \in {"INTERNAL", "AUTH_FAILED", "POLICY_REJECTED"} :
                  Entered(t, "rejecting", code)
        BY <2>5 DEF Drive
      <3> QED
        BY <1>1, <2>2, <3>1, EnteredTyped DEF HandlerPcs, Results, Codes, Refusals
    <2>6. CASE Complete(t) \/ Reject(t)
      <3>1. handler[t].result \in Results
        BY <2>6 DEF Complete, Reject, HandlersTyped, ResultIsKnown
      <3>2. Entered(t, "replying", handler[t].result) \/ Entered(t, "rejecting", "INTERNAL")
        BY <2>6 DEF Complete, Reject
      <3> QED
        BY <1>1, <2>2, <3>1, <3>2, EnteredTyped DEF HandlerPcs, Results, Codes, Refusals
    <2>7. CASE Reply(t)
      <3>1. handler[t].result \in Results
        BY <2>7 DEF Reply, HandlersTyped, ResultIsKnown
      <3> QED
        BY <1>1, <2>2, <2>7, <3>1, EnteredTyped DEF Reply, HandlerPcs
    <2> QED
      BY <1>6, <2>3, <2>4, <2>5, <2>6, <2>7
  <1> QED
    BY <1>2, <1>3, <1>4, <1>5, <1>6, HandlerShape

LEMMA PutAnswer ==
    ASSUME TypeOK, HandlersTyped, NEW t \in Threads, Reply(t)
    PROVE  /\ answered' \in PartialFunctions(FrameIds, Results)
           /\ call' \in [Keys -> FrameIds \cup {0}]
  <1>1. t[1] \in FrameIds /\ handler[t].result \in Results
    BY DEF Reply, HandlersTyped, ResultIsKnown, Threads
  <1>2. Put(answered, t[1], handler[t].result) \in PartialFunctions(FrameIds, Results)
    BY <1>1, PutType DEF TypeOK
  <1>3. answered' = answered \/ answered' = Put(answered, t[1], handler[t].result)
    BY DEF Reply
  <1>4. call' = call \/ call' = [call EXCEPT ![Key(t)] = 0]
    BY DEF Reply
  <1> QED
    BY <1>2, <1>3, <1>4 DEF TypeOK

LEMMA CallerStep ==
    ASSUME TypeOK, HandlersTyped, [Next]_vars
    PROVE  CallerTyped'
  <1>1. CASE UNCHANGED callerVars
    BY <1>1 DEF TypeOK, CallerTyped, callerVars
  <1>2. ASSUME NEW k \in Keys, Request(k)
        PROVE  CallerTyped'
    <2>1. call' = call \/ call' = [call EXCEPT ![k] = Len(frames) + 1]
      BY <1>2 DEF Request
    <2>2. call' \in [Keys -> FrameIds \cup {0}]
      BY <1>2, <2>1, RequestFrames DEF TypeOK
    <2>3. expired' = expired /\ answered' = answered
      BY <1>2 DEF Request
    <2>4. expired' \subseteq DOMAIN frames'
      BY <1>2, <2>3, RequestFrames DEF TypeOK
    <2>5. answered' \in PartialFunctions(FrameIds, Results)
      BY <2>3 DEF TypeOK
    <2> QED
      BY <1>2, <2>2, <2>4, <2>5, RequestFrames DEF CallerTyped
  <1>3. ASSUME NEW k \in Keys, GiveUp(k)
        PROVE  CallerTyped'
    BY <1>3 DEF GiveUp, TypeOK, CallerTyped
  <1>4. ASSUME NEW f \in FrameIds, Expire(f)
        PROVE  CallerTyped'
    BY <1>4 DEF Expire, TypeOK, CallerTyped
  <1>5. ASSUME NEW t \in Threads, Reply(t)
        PROVE  CallerTyped'
    <2>1. counterFile' = counterFile /\ frames' = frames /\ expired' = expired
      BY <1>5 DEF Reply
    <2> QED
      BY <1>5, <2>1, PutAnswer DEF TypeOK, CallerTyped
  <1>6. CASE Crash \/ Reboot
    <2>1. frames' = frames /\ expired' = expired /\ answered' = answered
      BY <1>6 DEF Crash, Die, Reboot
    <2>2. (counterFile' = counterFile \/ counterFile' = 0)
          /\ (call' = call \/ call' = [k \in Keys |-> 0])
      BY <1>6 DEF Crash, Reboot
    <2> QED
      BY <2>1, <2>2 DEF TypeOK, CallerTyped
  <1>7. CASE Maintenance
    BY <1>1, <1>7 DEF Maintenance, StartReconcile, EndReconcile, EndEmergencyStop,
                      AbandonMaintenance, ReconcileAccepted, StartEmergencyStop
  <1>8. CASE Serve \/ StopServing \/ RemoveSocket \/ UNCHANGED vars
    BY <1>1, <1>8 DEF Serve, StopServing, RemoveSocket, vars
  <1>9. ASSUME NEW t \in Threads,
               Redeliver(t) \/ Refuse(t) \/ Admit(t) \/ Drive(t) \/ Complete(t) \/ Reject(t)
        PROVE  CallerTyped'
    BY <1>1, <1>9 DEF Redeliver, Refuse, Admit, Drive, Complete, Reject
  <1> QED
    BY <1>2, <1>3, <1>4, <1>5, <1>6, <1>7, <1>8, <1>9
       DEF Next, Caller, Channel, Handle, Process

LEMMA ProcessStep ==
    ASSUME TypeOK, [Next]_vars
    PROVE  ProcessTyped'
  <1>1. CASE UNCHANGED processVars
    BY <1>1 DEF TypeOK, ProcessTyped, processVars
  <1>2. CASE Caller \/ Channel \/ Handle \/ UNCHANGED vars
    BY <1>1, <1>2 DEF Caller, Request, GiveUp, Channel, Redeliver, Expire, Handle, Refuse,
                      Admit, Drive, Complete, Reject, Reply, vars
  <1>3. CASE Process
    <2>1. target' = target /\ (crashes' = crashes \/ crashes' = crashes + 1)
      BY <1>3 DEF Process, Serve, StopServing, RemoveSocket, Crash, Die, Reboot
    <2>2. up' \in {"down", "serving"} \/ up' = up
      BY <1>3 DEF Process, Serve, StopServing, RemoveSocket, Crash, Die, Reboot
    <2>3. socket' = TRUE \/ socket' = FALSE \/ socket' = socket
      BY <1>3 DEF Process, Serve, StopServing, RemoveSocket, Crash, Die, Reboot
    <2>4. socket' \in BOOLEAN
      BY <2>3, Zenon DEF TypeOK
    <2> QED
      BY <2>1, <2>2, <2>4 DEF TypeOK, ProcessTyped
  <1>4. CASE Maintenance
    <2>1. socket' = socket /\ crashes' = crashes
      BY <1>4, Zenon DEF Maintenance, StartReconcile, EndReconcile, EndEmergencyStop,
                  AbandonMaintenance, ReconcileAccepted, StartEmergencyStop, processVars
    <2>2. up' \in {"down", "reconciling", "stopping"} \/ up' = up
      BY <1>4 DEF Maintenance, StartReconcile, EndReconcile, EndEmergencyStop,
                  AbandonMaintenance, ReconcileAccepted, StartEmergencyStop, processVars
    <2>3. target' = target \/ target' = "installation" \/ target' \in Runtimes
      BY <1>4 DEF Maintenance, StartReconcile, EndReconcile, EndEmergencyStop,
                  AbandonMaintenance, ReconcileAccepted, StartEmergencyStop, processVars
    <2>4. target' \in Subjects
      BY <2>3 DEF TypeOK, Subjects
    <2>5. up' \in {"down", "serving", "reconciling", "stopping"}
      BY <2>2 DEF TypeOK
    <2> QED
      BY <2>1, <2>4, <2>5 DEF TypeOK, ProcessTyped
  <1> QED
    BY <1>2, <1>3, <1>4 DEF Next

LEMMA HostStep ==
    ASSUME TypeOK, HandlersTyped, [Next]_vars
    PROVE  HostTyped'
  <1>1. CASE UNCHANGED hostVars
    BY <1>1 DEF TypeOK, HostTyped, hostVars
  <1>2. ASSUME NEW t \in Threads, Drive(t)
        PROVE  HostTyped'
    <2>1. t[1] \in DOMAIN frames
      BY <1>2 DEF Drive, HandlersTyped, Sent
    <2>2. Key(t) \in Keys /\ RuntimeOf[Key(t)] \in Runtimes
      BY <2>1, FrameTypes DEF Key
    <2>3. driven' = driven \cup {t}
      BY <1>2 DEF Drive
    <2>4. PICK result \in Outcomes :
              /\ outcome' = [outcome EXCEPT ![Key(t)] = result]
              /\ alive' = Effect(Key(t), result)
      BY <1>2 DEF Drive
    <2>5. alive' \subseteq Runtimes
      BY <2>2, <2>4 DEF Effect, TypeOK
    <2>6. outcome' \in [Keys -> Outcomes \cup {"none"}]
      BY <2>2, <2>4 DEF TypeOK
    <2> QED
      BY <2>3, <2>5, <2>6 DEF TypeOK, HostTyped
  <1>3. CASE Reboot \/ EndEmergencyStop
    <2>1. driven' = driven /\ outcome' = outcome /\ alive' \subseteq alive
      BY <1>3 DEF Reboot, EndEmergencyStop
    <2> QED
      BY <2>1 DEF TypeOK, HostTyped
  <1>4. ASSUME NEW t \in Threads,
               Redeliver(t) \/ Refuse(t) \/ Admit(t) \/ Complete(t) \/ Reject(t) \/ Reply(t)
        PROVE  HostTyped'
    BY <1>1, <1>4 DEF Redeliver, Refuse, Admit, Complete, Reject, Reply
  <1>5. CASE Serve \/ StopServing \/ RemoveSocket \/ Crash \/ Caller
    BY <1>1, <1>5 DEF Serve, StopServing, RemoveSocket, Crash, Die, Caller, Request, GiveUp
  <1>6. ASSUME NEW f \in FrameIds, Expire(f)
        PROVE  HostTyped'
    BY <1>1, <1>6 DEF Expire
  <1>7. ASSUME Maintenance, ~ EndEmergencyStop
        PROVE  HostTyped'
    BY <1>1, <1>7 DEF Maintenance, StartReconcile, EndReconcile, AbandonMaintenance,
                      ReconcileAccepted, StartEmergencyStop
  <1>8. CASE UNCHANGED vars
    BY <1>1, <1>8 DEF vars
  <1> QED
    BY <1>2, <1>3, <1>4, <1>5, <1>6, <1>7, <1>8
       DEF Next, Channel, Handle, Process, Maintenance

-----------------------------------------------------------------------------
LEMMA TypeParts ==
    TypeOK <=> /\ CallerTyped /\ ProcessTyped /\ HostTyped
               /\ handler \in [Threads -> [pc : HandlerPcs, result : Results \cup {"none"}]]
               /\ journal \in Journals /\ disk \in Journals
               /\ wedged \in BOOLEAN /\ failures \in Nat
  BY Zenon DEF TypeOK, CallerTyped, ProcessTyped, HostTyped, HandlerPcs

LEMMA EmptyType == Empty \in Journals
  <1> DEFINE none == [k \in {} |-> <<>>]
  <1>1. none \in PartialFunctions(Keys, Entries) /\ none \in PartialFunctions(Runtimes, Resources)
    <2>1. \A T : none \in [{} -> T]
      OBVIOUS
    <2> HIDE DEF none
    <2>2. \A S, T : none \in PartialFunctions(S, T)
      BY <2>1 DEF PartialFunctions
    <2> QED
      BY <2>2
  <1>2. Empty = [counters |-> [r \in Runs |-> -1], nonces |-> {}, fences |-> [r \in Runs |-> -1],
                 entries |-> none, resources |-> none,
                 cleanup |-> [s \in Subjects |-> "none"]]
    BY DEF Empty
  <1> HIDE DEF none
  <1> QED
    BY <1>1, <1>2 DEF Journals, Phases

LEMMA InitIInv ==
    ASSUME Init
    PROVE  IInv
  <1>1. CallerTyped
    <2>1. frames = <<>> /\ Len(frames) = 0 /\ frames \in Seq([key : Keys, counter : Nat])
      BY DEF Init
    <2>2. answered \in PartialFunctions(FrameIds, Results)
      <3>1. answered \in [{} -> Results]
        BY DEF Init
      <3> QED
        BY <3>1 DEF PartialFunctions
    <2> QED
      BY <2>1, <2>2, ConstantsAssumption DEF Init, CallerTyped
  <1>2. ProcessTyped
    BY DEF Init, ProcessTyped, Subjects
  <1>3. HostTyped
    BY DEF Init, HostTyped
  <1>4. HandlersTyped
    BY DEF Init, HandlersTyped, HandlerPcs, Sent, ResultIsKnown, Pc
  <1>5. journal \in Journals /\ disk \in Journals /\ failures \in Nat /\ disk = journal
    BY EmptyType DEF Init
  <1>6. wedged \in BOOLEAN
    BY DEF Init
  <1>7. TypeOK
    BY <1>1, <1>2, <1>3, <1>4, <1>5, <1>6, TypeParts, Zenon DEF HandlersTyped
  <1>8. Extends(disk, journal)
    BY <1>5, ExtendsItself
  <1>9. \A t \in Threads : ~ Claims(t)
    BY DEF Init, Claims, Pc
  <1>10. ClaimsAreJournalled /\ ClaimsAreSingle
    BY <1>9 DEF ClaimsAreJournalled, ClaimsAreSingle
  <1> QED
    BY <1>4, <1>7, <1>8, <1>10 DEF IInv, HandlersTyped

LEMMA NextIInv ==
    ASSUME IInv, [Next]_vars
    PROVE  IInv'
  <1>1. TypeOK /\ HandlersTyped
    BY TypeParts DEF IInv, HandlersTyped
  <1>2. JournalMoves
    BY NextMoves DEF IInv
  <1>3. CallerTyped' /\ ProcessTyped' /\ HostTyped' /\ HandlersTyped'
    BY <1>1, CallerStep, ProcessStep, HostStep, HandlersStep
  <1>4. TypeOK'
    BY <1>2, <1>3, TypeParts, Zenon DEF HandlersTyped, JournalMoves,
       TypeOK, CallerTyped, ProcessTyped, HostTyped, HandlerPcs
  <1>5. Sent' /\ ResultIsKnown' /\ Extends(disk, journal)'
    BY <1>2, <1>3 DEF HandlersTyped, JournalMoves
  <1> QED
    BY <1>4, <1>5, ClaimsStep DEF IInv

(* The inductive invariant holds in every reachable state.                    *)
THEOREM Invariance == Spec => []IInv
  <1>1. Init => IInv
    BY InitIInv
  <1>2. IInv /\ [Next]_vars => IInv'
    BY NextIInv
  <1> QED
    BY <1>1, <1>2, PTL DEF Spec

(* Type correctness: the helper's journal, its handlers and the frames keep   *)
(* their shape through every crash, failed write and redelivery.              *)
THEOREM TypeCorrect == Spec => []TypeOK
  <1>1. IInv => TypeOK
    BY DEF IInv
  <1> QED
    BY <1>1, Invariance, PTL

(* At most one effect for a command, whatever is resent, redelivered, lost in *)
(* a crash or left half-written: admit (host-helper-journal.mjs) is the only  *)
(* way to the driver (host-helper-service.mjs).                               *)
THEOREM EffectAtMostOnce == Spec => []EffectOnce
  <1>1. IInv => EffectOnce
    BY DEF IInv, TypeOK, ClaimsAreSingle, Claims, EffectOnce
  <1> QED
    BY <1>1, Invariance, PTL

(* Every effect has its admission on disk, with the frame that caused it, so  *)
(* a helper that restarts knows that the effect may have happened.            *)
THEOREM AdmissionFirst == Spec => []AdmittedBeforeEffect
  <1>1. IInv => AdmittedBeforeEffect
    BY DEF IInv, TypeOK, ClaimsAreJournalled, Claims, AdmittedBeforeEffect, Extends
  <1> QED
    BY <1>1, Invariance, PTL

(* The journal never forgets a command, a frame, a counter or a fence: every  *)
(* transaction, every restart and every maintenance verb extends it.          *)
THEOREM JournalGrows == Spec => JournalOnlyGrows
  <1>1. IInv /\ [Next]_vars => Extends(journal', journal)
    BY NextMoves DEF IInv, JournalMoves
  <1>2. Extends(journal', journal) =>
           /\ \A k \in DOMAIN journal.entries :
                 /\ k \in DOMAIN journal'.entries
                 /\ journal'.entries[k].frame = journal.entries[k].frame
           /\ \A r \in Runs : /\ journal.counters[r] <= journal'.counters[r]
                              /\ journal.fences[r] <= journal'.fences[r]
           /\ journal.nonces \subseteq journal'.nonces
    BY DEF Extends
  <1> QED
    BY <1>1, <1>2, Invariance, PTL DEF Spec, JournalOnlyGrows

-----------------------------------------------------------------------------
(* What the journal says of a command.  The two theorems below hold when no   *)
(* frame is presented twice: a late duplicate of an answered frame rewrites   *)
(* its result (ResultIsFinal is refuted for that reason).                     *)

\* Both the process's copy and the file give command k a result of R.
Says(k, R) ==
    /\ k \in DOMAIN journal.entries /\ journal.entries[k].result \in R
    /\ k \in DOMAIN disk.entries /\ disk.entries[k].result \in R

LEMMA CompletedEntries ==
    ASSUME TypeOK, NEW f, NEW result
    PROVE  Completed(f, result).entries =
              Put(journal.entries, frames[f].key, [frame |-> f, result |-> result])
  BY DEF TypeOK, Journals, Completed

LEMMA MaintainedEntries ==
    ASSUME TypeOK, NEW s, NEW phase
    PROVE  Maintained(s, phase).entries = journal.entries
  BY DEF TypeOK, Journals, Maintained

LEMMA ReconciledEntries ==
    ASSUME TypeOK, NEW k \in DOMAIN journal.entries, NEW result,
           NEW x \in DOMAIN journal.entries
    PROVE  /\ x \in DOMAIN Reconciled(k, result).entries
           /\ Reconciled(k, result).entries[x].result =
                 IF x = k THEN result ELSE journal.entries[x].result
  <1> DEFINE entry == [journal.entries[k] EXCEPT !.result = result]
             new == [journal.entries EXCEPT ![k] = entry]
  <1>1. journal \in Journals /\ journal.entries \in PartialFunctions(Keys, Entries)
    BY DEF TypeOK, Journals
  <1>2. journal.entries[k] \in Entries
    BY <1>1, PartialDomain
  <1>3. entry.result = result
    BY <1>2 DEF Entries
  <1> HIDE DEF entry
  <1>4. x \in DOMAIN new /\ new[x] = IF x = k THEN entry ELSE journal.entries[x]
    BY <1>1 DEF PartialFunctions
  <1>5. Reconciled(k, result) = [journal EXCEPT !.entries = new]
    BY <1>1 DEF Reconciled, Journals, entry
  <1> HIDE DEF new
  <1>6. Reconciled(k, result).entries = new
    BY <1>1, <1>5 DEF Journals
  <1> QED
    BY <1>3, <1>4, <1>6

(* A transaction whose draft says the same, written or not.                   *)
LEMMA DraftSays ==
    ASSUME NEW k, NEW R, Says(k, R), NEW draft, Written(draft) \/ NotWritten(draft),
           k \in DOMAIN draft.entries, draft.entries[k].result \in R
    PROVE  Says(k, R)'
  <1>1. journal' \in {journal, draft} /\ disk' \in {disk, draft}
    BY DEF Written, NotWritten
  <1> QED
    BY <1>1 DEF Says

\* A handler that is about to record another result for command k.
Rewrites(t, k, R) ==
    /\ Pc(t) \in {"returned", "rejecting"}
    /\ Key(t) = k /\ Binds(t[1])
    /\ handler[t].result \notin R

(* What the journal says of a command changes only when the handler of its    *)
(* own frame completes or rejects it, or reconcile settles a pending command. *)
LEMMA SaysStep ==
    ASSUME IInv, [Next]_vars, NEW k, NEW R, Says(k, R), "none" \in R => Outcomes \subseteq R
    PROVE  Says(k, R)' \/ \E t \in Threads : Rewrites(t, k, R)
  <1>1. TypeOK /\ k \in DOMAIN journal.entries /\ journal.entries[k].result \in R
    BY DEF IInv, Says
  <1>2. ASSUME UNCHANGED <<journal, disk>>
        PROVE  Says(k, R)'
    BY <1>2 DEF Says
  <1>3. CASE journal' = disk /\ disk' = disk
    BY <1>3 DEF Says
  <1>4. ASSUME NEW t \in Threads, Admit(t)
        PROVE  Says(k, R)'
    <2> DEFINE draft == IF Known(t[1]) THEN journal ELSE Admitted(t[1])
    <2>1. Written(draft) \/ NotWritten(draft)
      BY <1>4 DEF Admit
    <2>2. k \in DOMAIN draft.entries /\ draft.entries[k].result \in R
      BY <1>1 DEF Admitted, Known, Put
    <2> HIDE DEF draft
    <2> QED
      BY <2>1, <2>2, DraftSays
  <1>5. ASSUME NEW t \in Threads, Complete(t) \/ Reject(t)
        PROVE  Says(k, R)' \/ Rewrites(t, k, R)
    <2> DEFINE draft == Completed(t[1], handler[t].result)
    <2>1. CASE ~ Binds(t[1])
      BY <1>2, <1>5, <2>1 DEF Complete, Reject, journalVars
    <2>2. CASE Binds(t[1])
      <3>1. Written(draft) \/ NotWritten(draft)
        BY <1>5, <2>2 DEF Complete, Reject
      <3>2. draft.entries = Put(journal.entries, Key(t), [frame |-> t[1], result |-> handler[t].result])
        BY <1>1, CompletedEntries DEF Key
      <3>3. Pc(t) \in {"returned", "rejecting"}
        BY <1>5 DEF Complete, Reject
      <3> HIDE DEF draft
      <3>4. CASE Key(t) = k /\ handler[t].result \notin R
        BY <2>2, <3>3, <3>4 DEF Rewrites
      <3>5. CASE ~ (Key(t) = k /\ handler[t].result \notin R)
        <4>1. k \in DOMAIN draft.entries /\ draft.entries[k].result \in R
          BY <1>1, <3>2, <3>5 DEF Put
        <4> QED
          BY <3>1, <4>1, DraftSays
      <3> QED
        BY <3>4, <3>5
    <2> QED
      BY <2>1, <2>2
  <1>6. ASSUME NEW t \in Threads, Refuse(t) \/ Drive(t) \/ Reply(t)
        PROVE  Says(k, R)'
    BY <1>2, <1>6 DEF Refuse, Drive, Reply, journalVars
  <1>7. ASSUME NEW s, NEW phase, Written(Maintained(s, phase))
        PROVE  Says(k, R)'
    BY <1>1, <1>7, MaintainedEntries, DraftSays
  <1>8. ASSUME NEW x \in Keys, ReconcileAccepted(x)
        PROVE  Says(k, R)'
    <2> DEFINE result == IF outcome[x] = "SUCCEEDED" THEN "SUCCEEDED" ELSE "FAILED"
    <2>1. /\ Written(Reconciled(x, result)) /\ x \in DOMAIN journal.entries
          /\ journal.entries[x].result = "none"
      BY <1>8 DEF ReconcileAccepted, Reconciled, Pending
    <2>2. result \in Outcomes
      BY DEF Outcomes
    <2> HIDE DEF result
    <2>3. /\ k \in DOMAIN Reconciled(x, result).entries
          /\ Reconciled(x, result).entries[k].result =
                IF k = x THEN result ELSE journal.entries[k].result
      BY <1>1, <2>1, ReconciledEntries
    <2>4. Reconciled(x, result).entries[k].result \in R
      BY <1>1, <2>1, <2>2, <2>3
    <2> QED
      BY <2>1, <2>3, <2>4, DraftSays
  <1>9. CASE Caller \/ Channel \/ Serve \/ RemoveSocket \/ AbandonMaintenance \/ UNCHANGED vars
    BY <1>2, <1>9 DEF Caller, Request, GiveUp, Channel, Redeliver, Expire, Serve, RemoveSocket,
       AbandonMaintenance, journalVars, vars
  <1>10. CASE StopServing \/ Crash \/ Reboot
    BY <1>3, <1>10 DEF StopServing, Crash, Die, Reboot
  <1>11. CASE Maintenance
    BY <1>7, <1>8, <1>9, <1>11
       DEF Maintenance, StartReconcile, EndReconcile, StartEmergencyStop, EndEmergencyStop
  <1> QED
    BY <1>4, <1>5, <1>6, <1>9, <1>10, <1>11 DEF Next, Handle, Process

(* When no frame is presented twice, only the delivery that claims a command  *)
(* can record a result for it.                                                *)
LEMMA OwnFrame ==
    ASSUME MaxDeliveries = 1, NEW t \in Threads, NEW u \in Threads, t[1] = u[1]
    PROVE  t = u
  BY DEF Threads

-----------------------------------------------------------------------------
(* An effect is not refused.                                                  *)
Unrefused == (Results \ Refusals) \cup {"none"}

DriverIsOver(t) ==
    /\ Pc(t) \in {"returned", "rejecting", "replying", "done"}
    /\ handler[t].result \in Unrefused

\* The journal has no refusal for a command that is claimed, and a handler whose driver was
\* called is not about to refuse it.
RefusalInv ==
    \A t \in Threads : /\ Claims(t) => Says(Key(t), Unrefused)
                       /\ t \in driven => DriverIsOver(t)

LEMMA DriverStaysOver ==
    ASSUME IInv, RefusalInv, [Next]_vars, NEW t \in Threads, t \in driven'
    PROVE  DriverIsOver(t)'
  <1>1. TypeOK /\ Sent
    BY DEF IInv
  <1>2. CASE t \notin driven
    <2>1. PICK u \in Threads : Drive(u)
      BY <1>2, HandlerShape DEF Redeliver, Refuse, Admit, Complete, Reject, Reply, hostVars
    <2>2. u = t
      BY <1>2, <2>1 DEF Drive
    <2>3. \/ \E result \in Outcomes : Entered(t, "returned", result)
          \/ \E code \in {"INTERNAL", "AUTH_FAILED", "POLICY_REJECTED"} :
                Entered(t, "rejecting", code)
      BY <2>1, <2>2 DEF Drive
    <2> QED
      BY <1>1, <2>3, EnteredHandler DEF DriverIsOver, Outcomes, Unrefused, Results, Codes, Refusals
  <1>3. CASE t \in driven
    <2>1. DriverIsOver(t) /\ t[1] \in DOMAIN frames
      BY <1>3 DEF RefusalInv, IInv, ClaimsAreJournalled, Claims
    <2>2. CASE handler'[t] = handler[t]
      BY <2>1, <2>2 DEF DriverIsOver, Pc
    <2>3. CASE handler' = Restarted
      BY <2>1, <2>3 DEF DriverIsOver, Pc, Restarted
    <2>4. ASSUME NEW k \in Keys, Request(k), Entered(<<Len(frames) + 1, 1>>, "queued", "none")
          PROVE  handler'[t] = handler[t]
      <3>1. t[1] # Len(frames) + 1
        BY <1>1, <2>1 DEF TypeOK
      <3> QED
        BY <1>1, <2>4, <3>1 DEF Entered, TypeOK
    <2>5. ASSUME NEW u \in Threads, Redeliver(u) \/ Refuse(u) \/ Admit(u) \/ Drive(u)
          PROVE  handler'[t] = handler[t]
      <3>1. u # t
        BY <2>1, <2>5 DEF DriverIsOver, Redeliver, Refuse, Admit, Drive
      <3>2. \E pc, result : Entered(u, pc, result)
        BY <2>5 DEF Redeliver, Refuse, Admit, Drive
      <3> QED
        BY <1>1, <3>1, <3>2, EnteredHandler
    <2>6. ASSUME NEW u \in Threads, Complete(u) \/ Reject(u) \/ Reply(u)
          PROVE  DriverIsOver(t)'
      <3>1. \E pc \in {"replying", "rejecting", "done"} : \E result \in {handler[u].result, "INTERNAL"} :
                Entered(u, pc, result)
        BY <2>6 DEF Complete, Reject, Reply
      <3>2. CASE u = t
        BY <1>1, <2>1, <3>1, <3>2, EnteredHandler DEF DriverIsOver, Unrefused, Results, Codes, Refusals
      <3>3. CASE u # t
        BY <1>1, <2>2, <3>1, <3>3, EnteredHandler
      <3> QED
        BY <3>2, <3>3
    <2> QED
      BY <2>2, <2>3, <2>4, <2>5, <2>6, HandlerShape
  <1> QED
    BY <1>2, <1>3

(* A command that admit lets through is recorded without a result.            *)
LEMMA FreshSays ==
    ASSUME IInv, [Next]_vars, NEW t \in Threads, Claims(t)', ~ Claims(t)
    PROVE  Says(Key(t), Unrefused)' /\ t[1] \in DOMAIN frames
  <1>1. TypeOK /\ Sent
    BY DEF IInv
  <1>2. t \notin driven' \/ \E u \in Threads : Drive(u)
    BY HandlerShape DEF Claims, Redeliver, Refuse, Admit, Complete, Reject, Reply, hostVars
  <1>3. ASSUME NEW u \in Threads, Drive(u)
        PROVE  FALSE
    <2>1. driven' = driven \cup {u} /\ Pc(u) = "admitted"
      BY <1>3 DEF Drive
    <2>2. \E pc \in {"returned", "rejecting"} : \E result : Entered(u, pc, result)
      BY <1>3 DEF Drive
    <2> QED
      BY <1>1, <2>1, <2>2, EnteredHandler DEF Claims, Pc
  <1>4. Pc(t)' = "admitted" /\ Pc(t) # "admitted"
    BY <1>2, <1>3 DEF Claims
  <1>5. ASSUME NEW u \in Threads, Redeliver(u) \/ Refuse(u) \/ Complete(u) \/ Reject(u) \/ Reply(u)
        PROVE  FALSE
    <2>1. \E pc \in {"queued", "rejecting", "replying", "done"} : \E result : Entered(u, pc, result)
      BY <1>5 DEF Redeliver, Refuse, Complete, Reject, Reply
    <2> QED
      BY <1>1, <1>4, <2>1, EnteredHandler DEF Pc
  <1>6. ASSUME NEW u \in Threads, Admit(u)
        PROVE  u = t
    <2>1. \E pc, result : Entered(u, pc, result)
      BY <1>6 DEF Admit
    <2> QED
      BY <1>1, <1>4, <2>1, EnteredHandler DEF Pc
  <1>7. handler' # handler /\ handler' # Restarted
    BY <1>4 DEF Pc, Restarted
  <1>8. ASSUME NEW k \in Keys, Entered(<<Len(frames) + 1, 1>>, "queued", "none")
        PROVE  FALSE
    BY <1>1, <1>4, <1>8 DEF Entered, TypeOK, Pc
  <1>9. Admit(t)
    BY <1>3, <1>5, <1>6, <1>7, <1>8, HandlerShape
  <1>10. ~ Known(t[1]) /\ Written(Admitted(t[1])) /\ t[1] \in DOMAIN frames
    BY <1>1, <1>4, <1>9, EnteredHandler DEF Admit, Sent
  <1>11. journal' = Admitted(t[1]) /\ disk' = Admitted(t[1]) /\ Key(t)' = Key(t)
    BY <1>1, <1>10, NextFrames DEF Written, FramesKept, Key
  <1> QED
    BY <1>10, <1>11 DEF Says, Admitted, Put, Key, Unrefused

LEMMA RefusalStep ==
    ASSUME MaxDeliveries = 1, IInv, RefusalInv, [Next]_vars
    PROVE  RefusalInv'
  <1> SUFFICES ASSUME NEW t \in Threads, Claims(t)'
               PROVE  Says(Key(t), Unrefused)'
    BY DriverStaysOver DEF RefusalInv
  <1>1. CASE ~ Claims(t)
    BY <1>1, FreshSays
  <1>2. CASE Claims(t)
    <2>1. /\ Says(Key(t), Unrefused) /\ t[1] \in DOMAIN frames
          /\ journal.entries[Key(t)].frame = t[1]
      BY <1>2 DEF RefusalInv, IInv, ClaimsAreJournalled
    <2>2. Key(t)' = Key(t)
      BY <2>1, NextFrames DEF IInv, FramesKept, Key
    <2>3. ~ \E u \in Threads : Rewrites(u, Key(t), Unrefused)
      <3>1. SUFFICES ASSUME NEW u \in Threads, Rewrites(u, Key(t), Unrefused) PROVE FALSE
        OBVIOUS
      <3>2. u = t
        BY <2>1, <3>1, OwnFrame DEF Rewrites, Binds, Key
      <3> QED
        BY <1>2, <3>1, <3>2 DEF Rewrites, Claims, RefusalInv, DriverIsOver
    <2>4. Says(Key(t), Unrefused)' \/ \E u \in Threads : Rewrites(u, Key(t), Unrefused)
      <3> DEFINE k == Key(t)
      <3>1. Outcomes \subseteq Unrefused /\ Says(k, Unrefused)
        BY <2>1 DEF Outcomes, Unrefused, Results, Codes, Refusals
      <3> HIDE DEF k
      <3>2. /\ k \in DOMAIN journal'.entries /\ journal'.entries[k].result \in Unrefused
            /\ k \in DOMAIN disk'.entries /\ disk'.entries[k].result \in Unrefused
            \/ \E u \in Threads : Rewrites(u, k, Unrefused)
        BY <3>1, SaysStep DEF Says
      <3> QED
        BY <2>2, <3>2 DEF k, Says
    <2> QED
      BY <2>3, <2>4
  <1> QED
    BY <1>1, <1>2

(* The journal never records a command whose driver was called as one that    *)
(* was refused admission: what the handler of its frame records after the     *)
(* driver is an outcome or a code of the driver's own call, and no other      *)
(* handler can record for it.  A frame presented twice breaks this: its       *)
(* second handler is refused and binds the same admission (helper_replay_     *)
(* result shows the trace), hence the assumption.                             *)
THEOREM EffectUnrefused ==
    ASSUME MaxDeliveries = 1
    PROVE  Spec => []EffectIsNotRefused
  <1>1. Init => RefusalInv
    BY DEF Init, RefusalInv, Claims, Pc
  <1>2. IInv /\ RefusalInv /\ [Next]_vars => RefusalInv'
    BY RefusalStep
  <1>3. IInv /\ RefusalInv => EffectIsNotRefused
    BY DEF IInv, TypeOK, RefusalInv, Claims, Says, Unrefused, Refusals, EffectIsNotRefused
  <1> QED
    BY <1>1, <1>2, <1>3, Invariance, PTL DEF Spec

-----------------------------------------------------------------------------
(* An answer is journalled.                                                   *)
First(f) == <<f, 1>>

\* The handler of frame f is giving, or has given, the answer r.
Told(f, r) ==
    \/ Pc(First(f)) = "replying" /\ handler[First(f)].result = r
    \/ Pc(First(f)) = "done" /\ f \in DOMAIN answered /\ answered[f] = r

\* The journal has outcome r for the command of frame f, by that frame.
Recorded(f, r) ==
    /\ f \in DOMAIN frames
    /\ Says(frames[f].key, {r})
    /\ journal.entries[frames[f].key].frame = f

AnswerInv ==
    /\ \A t \in Threads : Pc(t) = "rejecting" => handler[t].result \in Codes
    /\ \A f \in DOMAIN answered : Pc(First(f)) = "done"
    /\ \A f \in FrameIds, r \in Outcomes : Told(f, r) => Recorded(f, r)

LEMMA FirstThread ==
    ASSUME MaxDeliveries = 1
    PROVE  /\ \A f \in FrameIds : First(f) \in Threads /\ First(f)[1] = f
           /\ \A t \in Threads : t = First(t[1]) /\ t[1] \in FrameIds /\ t[2] = 1
  BY DEF First, Threads

LEMMA RejectingStep ==
    ASSUME IInv, AnswerInv, [Next]_vars, NEW t \in Threads, Pc(t)' = "rejecting"
    PROVE  handler'[t].result \in Codes
  <1>1. TypeOK /\ (Pc(t) = "rejecting" => handler[t].result \in Codes)
    BY DEF IInv, AnswerInv
  <1>2. CASE handler'[t] = handler[t]
    BY <1>1, <1>2 DEF Pc
  <1>3. CASE handler' = Restarted
    BY <1>1, <1>3 DEF Pc, Restarted
  <1>4. ASSUME NEW k \in Keys, Entered(<<Len(frames) + 1, 1>>, "queued", "none")
        PROVE  handler'[t] = handler[t]
    BY <1>1, <1>4 DEF Entered, TypeOK, Pc
  <1>5. ASSUME NEW u \in Threads, NEW pc, NEW result, Entered(u, pc, result),
               pc = "rejecting" => result \in Codes
        PROVE  handler'[t].result \in Codes
    BY <1>1, <1>2, <1>5, EnteredHandler
  <1>6. ASSUME NEW u \in Threads,
               Redeliver(u) \/ Admit(u) \/ Drive(u) \/ Complete(u) \/ Reject(u) \/ Reply(u)
        PROVE  handler'[t].result \in Codes
    <2>1. \E pc, result :
              /\ Entered(u, pc, result)
              /\ pc = "rejecting" => result \in {"INTERNAL", "AUTH_FAILED", "POLICY_REJECTED"}
      BY <1>6 DEF Redeliver, Admit, Drive, Complete, Reject, Reply
    <2> QED
      BY <1>5, <2>1 DEF Codes, Refusals
  <1>7. ASSUME NEW u \in Threads, Refuse(u)
        PROVE  handler'[t].result \in Codes
    <2>1. \E result \in Codes : Entered(u, "rejecting", result)
      BY <1>7, RefusalType DEF Refuse, Codes, Refusals
    <2> QED
      BY <1>5, <2>1
  <1> QED
    BY <1>2, <1>3, <1>4, <1>6, <1>7, HandlerShape

(* The answers the callers hold change with Reply alone.                      *)
LEMMA AnswerChanges ==
    ASSUME [Next]_vars
    PROVE  answered' = answered \/ \E t \in Threads : Reply(t)
  <1>1. CASE Caller \/ Channel
    BY <1>1 DEF Caller, Request, GiveUp, Channel, Redeliver, Expire, callerVars
  <1>2. CASE Handle
    BY <1>2 DEF Handle, Refuse, Admit, Drive, Complete, Reject, callerVars
  <1>3. CASE Process \/ Maintenance \/ UNCHANGED vars
    BY <1>3 DEF Process, Serve, StopServing, RemoveSocket, Crash, Die, Reboot, Maintenance,
       StartReconcile, EndReconcile, EndEmergencyStop, AbandonMaintenance,
       ReconcileAccepted, StartEmergencyStop, callerVars, vars
  <1> QED
    BY <1>1, <1>2, <1>3 DEF Next

LEMMA ReplyAnswers ==
    ASSUME IInv, NEW t \in Threads, Reply(t)
    PROVE  /\ Pc(t) = "replying" /\ Pc(t)' = "done"
           /\ \A f \in DOMAIN answered' : f # t[1] => f \in DOMAIN answered /\ answered'[f] = answered[f]
           /\ t[1] \in DOMAIN answered' =>
                 \/ answered'[t[1]] = handler[t].result
                 \/ t[1] \in DOMAIN answered /\ answered'[t[1]] = answered[t[1]]
           /\ \A u \in Threads : u # t => handler'[u] = handler[u]
  <1>1. TypeOK /\ Entered(t, "done", handler[t].result)
    BY DEF IInv, Reply
  <1>2. answered' = answered \/ answered' = Put(answered, t[1], handler[t].result)
    BY DEF Reply
  <1>3. Pc(t) = "replying" /\ Pc(t)' = "done" /\ \A u \in Threads : u # t => handler'[u] = handler[u]
    BY <1>1, EnteredHandler DEF Reply
  <1> QED
    BY <1>2, <1>3 DEF Put

LEMMA AnsweredStep ==
    ASSUME MaxDeliveries = 1, IInv, AnswerInv, [Next]_vars, NEW f \in DOMAIN answered'
    PROVE  Pc(First(f))' = "done"
  <1>1. TypeOK /\ Sent
    BY DEF IInv
  <1>2. f \in FrameIds
    <2>1. answered' \in PartialFunctions(FrameIds, Results)
      BY NextIInv DEF IInv, TypeOK
    <2> QED
      BY <2>1, PartialDomain DEF PartialFunctions
  <1>3. CASE f \in DOMAIN answered
    <2>1. Pc(First(f)) = "done" /\ First(f) \in Threads /\ f \in DOMAIN frames
      BY <1>1, <1>2, <1>3, FirstThread DEF AnswerInv, Sent
    <2>2. CASE handler' = handler
      BY <2>1, <2>2 DEF Pc
    <2>3. CASE handler' = Restarted
      BY <2>1, <2>3 DEF Pc, Restarted
    <2>4. ASSUME Entered(<<Len(frames) + 1, 1>>, "queued", "none")
          PROVE  Pc(First(f))' = "done"
      <3>1. First(f) # <<Len(frames) + 1, 1>>
        BY <1>1, <2>1 DEF First, TypeOK
      <3> QED
        BY <1>1, <2>1, <2>4, <3>1 DEF Entered, TypeOK, Pc
    <2>5. ASSUME NEW u \in Threads,
                 \/ Redeliver(u) \/ Refuse(u) \/ Admit(u) \/ Drive(u) \/ Complete(u)
                 \/ Reject(u) \/ Reply(u)
          PROVE  Pc(First(f))' = "done"
      <3>1. u # First(f)
        BY <2>1, <2>5 DEF Redeliver, Refuse, Admit, Drive, Complete, Reject, Reply
      <3>2. \E pc, result : Entered(u, pc, result)
        BY <2>5 DEF Redeliver, Refuse, Admit, Drive, Complete, Reject, Reply
      <3> QED
        BY <1>1, <2>1, <3>1, <3>2, EnteredHandler DEF Pc
    <2> QED
      BY <2>2, <2>3, <2>4, <2>5, HandlerShape
  <1>4. CASE f \notin DOMAIN answered
    <2>1. PICK t \in Threads : Reply(t)
      BY <1>4, AnswerChanges
    <2>2. f = t[1] /\ Pc(t)' = "done"
      BY <1>4, <2>1, ReplyAnswers
    <2> QED
      BY <2>2, FirstThread
  <1> QED
    BY <1>3, <1>4

(* What was recorded for an answer that is on its way stays recorded.         *)
LEMMA RecordedStays ==
    ASSUME MaxDeliveries = 1, IInv, AnswerInv, [Next]_vars,
           NEW f \in FrameIds, NEW r \in Outcomes, Told(f, r)
    PROVE  Recorded(f, r)'
  <1> DEFINE k == frames[f].key
  <1>1. f \in DOMAIN frames /\ Says(k, {r}) /\ journal.entries[k].frame = f
    BY DEF AnswerInv, Recorded
  <1>2. f \in DOMAIN frames' /\ frames'[f].key = k
    BY <1>1, NextFrames DEF IInv, FramesKept
  <1>3. k \in DOMAIN journal.entries
    BY <1>1 DEF Says
  <1>4. journal'.entries[k].frame = f
    BY <1>1, <1>3, NextMoves DEF IInv, JournalMoves, Extends
  <1>5. ASSUME NEW t \in Threads, Rewrites(t, k, {r})
        PROVE  FALSE
    <2>1. t = First(f)
      BY <1>1, <1>5, FirstThread DEF Rewrites, Binds, Key
    <2> QED
      BY <1>5, <2>1 DEF Rewrites, Told
  <1>6. "none" \notin {r}
    BY DEF Outcomes
  <1> HIDE DEF k
  <1>7. /\ k \in DOMAIN journal'.entries /\ journal'.entries[k].result \in {r}
        /\ k \in DOMAIN disk'.entries /\ disk'.entries[k].result \in {r}
    BY <1>1, <1>5, <1>6, SaysStep DEF Says
  <1> QED
    BY <1>2, <1>4, <1>7 DEF Recorded, Says

(* A handler that turns to answering an outcome has it in the journal: it     *)
(* completed the command with it, or admit found it there.                    *)
LEMMA RecordedFirst ==
    ASSUME MaxDeliveries = 1, IInv, AnswerInv, [Next]_vars,
           NEW f \in FrameIds, NEW r \in Outcomes, Told(f, r)', ~ Told(f, r)
    PROVE  Recorded(f, r)'
  <1> DEFINE t == First(f)
  <1>1. TypeOK /\ Sent /\ t \in Threads /\ t[1] = f
    BY FirstThread DEF IInv
  <1> HIDE DEF t
  <1>2. ASSUME NEW u \in Threads, Reply(u)
        PROVE  FALSE
    <2>1. CASE u = t
      BY <1>1, <1>2, <2>1, ReplyAnswers DEF Told, AnswerInv, t, Reply
    <2>2. CASE u # t
      <3>1. u[1] # f
        BY <1>1, <2>2, OwnFrame
      <3> QED
        BY <1>1, <1>2, <2>2, <3>1, ReplyAnswers DEF Told, t, Pc
    <2> QED
      BY <2>1, <2>2
  <1>3. answered' = answered
    BY <1>2, AnswerChanges
  <1>4. f \in DOMAIN answered => Pc(t) = "done"
    BY DEF AnswerInv, t
  <1>5. handler'[t] # handler[t]
    BY <1>3 DEF Told, Pc, t
  <1>6. Pc(t)' = "replying" /\ handler'[t].result = r
    <2>1. SUFFICES ASSUME f \in DOMAIN answered, answered[f] = r PROVE FALSE
      BY <1>3 DEF Told, t
    <2> QED
      BY <1>4, <2>1 DEF Told, t
  <1>7. handler' # Restarted
    BY <1>1, <1>5, <1>6 DEF Pc, Restarted
  <1>8. ~ Entered(<<Len(frames) + 1, 1>>, "queued", "none")
    <2>1. handler'[t].pc = "replying" /\ handler \in [Threads -> [pc : HandlerPcs, result : Results \cup {"none"}]]
      BY <1>1, <1>6 DEF Pc, t, TypeOK, HandlerPcs
    <2>2. SUFFICES ASSUME NEW x, handler' = [handler EXCEPT ![x] = [pc |-> "queued", result |-> "none"]]
                   PROVE  handler'[t] = handler[t]
      BY <1>5 DEF Entered
    <2> QED
      BY <1>1, <2>1, <2>2
  <1>9. PICK u \in Threads :
            Redeliver(u) \/ Refuse(u) \/ Admit(u) \/ Drive(u) \/ Complete(u) \/ Reject(u)
    BY <1>2, <1>5, <1>7, <1>8, HandlerShape
  <1>10. PICK pc, result : Entered(u, pc, result)
    BY <1>9 DEF Redeliver, Refuse, Admit, Drive, Complete, Reject
  <1>11. u = t
    BY <1>1, <1>5, <1>10, EnteredHandler
  <1>12. ~ (Redeliver(t) \/ Refuse(t) \/ Drive(t))
    <2>1. ASSUME Redeliver(t) \/ Refuse(t) \/ Drive(t)
          PROVE  \E p \in {"queued", "rejecting", "returned"} : \E x : Entered(t, p, x)
      BY <2>1 DEF Redeliver, Refuse, Drive
    <2> QED
      BY <1>1, <1>6, <2>1, EnteredHandler
  <1>13. ~ Reject(t)
    <2>1. ASSUME Reject(t)
          PROVE  Entered(t, "replying", handler[t].result) /\ handler[t].result \in Codes
      BY <1>1, <2>1 DEF Reject, AnswerInv
    <2> QED
      BY <1>1, <1>6, <2>1, EnteredHandler DEF Codes, Refusals, Outcomes
  <1>14. f \in DOMAIN frames /\ f \in DOMAIN frames' /\ frames'[f] = frames[f] /\ Key(t) = frames[f].key
    <2>1. Pc(t) # "unsent"
      BY <1>9, <1>11, <1>12, <1>13 DEF Admit, Complete
    <2> QED
      BY <1>1, <2>1, NextFrames DEF Sent, FramesKept, Key
  <1>15. CASE Complete(t)
    <2>1. /\ Written(Completed(f, handler[t].result))
          /\ Entered(t, "replying", handler[t].result)
      BY <1>1, <1>6, <1>15, EnteredHandler DEF Complete
    <2>2. handler[t].result = r
      BY <1>1, <1>6, <2>1, EnteredHandler
    <2>3. /\ journal' = Completed(f, r) /\ disk' = Completed(f, r)
          /\ Completed(f, r).entries = Put(journal.entries, frames[f].key,
                                            [frame |-> f, result |-> r])
      BY <1>1, <2>1, <2>2, CompletedEntries DEF Written
    <2> QED
      BY <1>14, <2>3 DEF Recorded, Says, Put
  <1>16. CASE Admit(t)
    <2>1. /\ Known(f) /\ Written(journal) /\ Refusal(f) = "none"
          /\ Entered(t, "replying", journal.entries[frames[f].key].result)
      BY <1>1, <1>6, <1>14, <1>16, EnteredHandler DEF Admit
    <2>2. journal.entries[frames[f].key].result = r
      BY <1>1, <1>6, <2>1, EnteredHandler
    <2>3. journal.entries[frames[f].key].frame = f
      BY <2>1 DEF Refusal, Known
    <2> QED
      BY <1>14, <2>1, <2>2, <2>3 DEF Recorded, Says, Written, Known
  <1> QED
    BY <1>9, <1>11, <1>12, <1>13, <1>15, <1>16

LEMMA AnswerStep ==
    ASSUME MaxDeliveries = 1, IInv, AnswerInv, [Next]_vars
    PROVE  AnswerInv'
  <1>1. \A t \in Threads : Pc(t)' = "rejecting" => handler'[t].result \in Codes
    BY RejectingStep
  <1>2. \A f \in DOMAIN answered' : Pc(First(f))' = "done"
    BY AnsweredStep
  <1>3. \A f \in FrameIds, r \in Outcomes : Told(f, r)' => Recorded(f, r)'
    BY RecordedStays, RecordedFirst
  <1> QED
    BY <1>1, <1>2, <1>3 DEF AnswerInv

(* A caller that was told an outcome finds it in the journal after any crash  *)
(* or reconciliation: handle answers after complete wrote, and nothing else   *)
(* records for the frame it answered.                                         *)
THEOREM AnswersDurable ==
    ASSUME MaxDeliveries = 1
    PROVE  Spec => []AnswersAreJournalled
  <1>1. Init => AnswerInv
    <2> SUFFICES ASSUME Init PROVE AnswerInv
      OBVIOUS
    <2>1. \A f \in FrameIds : First(f) \in Threads
      BY FirstThread
    <2>2. DOMAIN answered = {} /\ \A t \in Threads : Pc(t) = "unsent"
      BY DEF Init, Pc
    <2> QED
      BY <2>1, <2>2 DEF AnswerInv, Told
  <1>2. IInv /\ AnswerInv /\ [Next]_vars => AnswerInv'
    BY AnswerStep
  <1>3. IInv /\ AnswerInv => AnswersAreJournalled
    <2> SUFFICES ASSUME IInv, AnswerInv, NEW f \in DOMAIN answered, answered[f] \in Outcomes
                 PROVE  /\ frames[f].key \in DOMAIN disk.entries
                        /\ disk.entries[frames[f].key].result = answered[f]
      BY DEF AnswersAreJournalled
    <2>1. f \in FrameIds
      BY PartialDomain DEF IInv, TypeOK, PartialFunctions
    <2>2. Told(f, answered[f])
      BY DEF AnswerInv, Told
    <2> QED
      BY <2>1, <2>2 DEF AnswerInv, Recorded, Says
  <1> QED
    BY <1>1, <1>2, <1>3, Invariance, PTL DEF Spec

-----------------------------------------------------------------------------
(* The helper implements the effect ledger.                                   *)

\* What a journal says of a command.
Res(j, k) == IF k \in DOMAIN j.entries THEN j.entries[k].result ELSE "unknown"

\* A later journal has at most one command one step further.
Advances(new, old, x) ==
    \/ Res(new, x) = Res(old, x)
    \/ Res(old, x) = "unknown" /\ Res(new, x) = "none"
    \/ Res(old, x) = "none" /\ Res(new, x) \in Results
OneStep(new, old) ==
    \E x \in Keys : /\ Advances(new, old, x)
                    /\ \A k \in Keys \ {x} : Res(new, k) = Res(old, k)
StepOrSame(new, old) == (\A k \in Keys : Res(new, k) = Res(old, k)) \/ OneStep(new, old)

\* No handler runs unless the process serves.
Idle == \A t \in Threads : Pc(t) \in {"unsent", "done"}
IdleWhenDown == up # "serving" => Idle

\* An entry names frame f, in the process's copy or in the file.
Named(f) ==
    \/ \E k \in DOMAIN journal.entries : journal.entries[k].frame = f
    \/ \E k \in DOMAIN disk.entries : disk.entries[k].frame = f

\* A handler that may still record a result.
Open(t) ==
    \/ Pc(t) \in {"admitted", "returned"}
    \/ Pc(t) = "rejecting" /\ Binds(t[1])
Owns(t) ==
    /\ Key(t) \in DOMAIN journal.entries
    /\ journal.entries[Key(t)].frame = t[1]
    /\ journal.entries[Key(t)].result = "none"

LedgerInv ==
    /\ IdleWhenDown
    /\ \A t \in Threads : Pc(t) \in {"unsent", "queued"} => ~ Named(t[1])
    /\ \A t \in Threads : Open(t) => Owns(t)
    /\ StepOrSame(disk, journal)

\* A transaction with this draft, that reached the disk or threw.
Tried(draft) == Written(draft) \/ NotWritten(draft)

(* How a step changes the journal.                                            *)
Unmoved == UNCHANGED <<journal, disk>>
Reloaded == journal' = disk /\ disk' = disk /\ Idle'
AdmitsNew(t) == Admit(t) /\ ~ Known(t[1]) /\ Tried(Admitted(t[1]))
AdmitsKnown(t) == Admit(t) /\ Known(t[1]) /\ Tried(journal)
Records(t) ==
    /\ Complete(t) \/ Reject(t)
    /\ Binds(t[1])
    /\ Tried(Completed(t[1], handler[t].result))
Maintains == \E s \in Subjects, phase \in Phases : Written(Maintained(s, phase))
Settles(x, result) ==
    /\ x \in DOMAIN journal.entries /\ journal.entries[x].result = "none"
    /\ Written(Reconciled(x, result))
Settling == Idle /\ handler' = handler

LEMMA JournalCases ==
    ASSUME IInv, LedgerInv, [Next]_vars
    PROVE  \/ Unmoved
           \/ Reloaded
           \/ \E t \in Threads : AdmitsNew(t) \/ AdmitsKnown(t) \/ Records(t)
           \/ Settling /\ Maintains
           \/ Settling /\ \E x \in Keys, result \in Outcomes : Settles(x, result)
  <1>1. CASE Caller \/ Channel \/ Serve \/ RemoveSocket \/ AbandonMaintenance \/ UNCHANGED vars
    BY <1>1 DEF Caller, Request, GiveUp, Channel, Redeliver, Expire, Serve, RemoveSocket,
       AbandonMaintenance, journalVars, vars, Unmoved
  <1>2. CASE Handle
    <2>1. PICK t \in Threads : Refuse(t) \/ Admit(t) \/ Drive(t) \/ Complete(t) \/ Reject(t) \/ Reply(t)
      BY <1>2 DEF Handle
    <2>2. CASE Refuse(t) \/ Drive(t) \/ Reply(t)
      BY <2>2 DEF Refuse, Drive, Reply, journalVars, Unmoved
    <2>3. CASE Admit(t)
      BY <2>3 DEF Admit, AdmitsNew, AdmitsKnown, Tried
    <2>4. CASE (Complete(t) \/ Reject(t)) /\ ~ Binds(t[1])
      BY <2>4 DEF Complete, Reject, journalVars, Unmoved
    <2>5. CASE (Complete(t) \/ Reject(t)) /\ Binds(t[1])
      BY <2>5 DEF Complete, Reject, Records, Tried
    <2> QED
      BY <2>1, <2>2, <2>3, <2>4, <2>5
  <1>3. CASE StopServing
    BY <1>3 DEF StopServing, Reloaded, Idle, Pc
  <1>4. CASE Crash \/ Reboot
    <2>1. journal' = disk /\ disk' = disk /\ handler' = Restarted
      BY <1>4 DEF Crash, Die, Reboot, Restarted
    <2> QED
      BY <2>1 DEF Reloaded, Idle, Pc, Restarted
  <1>5. ASSUME up # "serving", handler' = handler
        PROVE  Settling
    BY <1>5 DEF LedgerInv, IdleWhenDown, Settling
  <1>6. CASE StartReconcile \/ EndReconcile \/ EndEmergencyStop
             \/ \E rt \in Runtimes : StartEmergencyStop(rt)
    <2>1. Settling
      BY <1>5, <1>6 DEF StartReconcile, EndReconcile, EndEmergencyStop, StartEmergencyStop
    <2>2. Maintains
      BY <1>6 DEF StartReconcile, EndReconcile, EndEmergencyStop, StartEmergencyStop, Maintains,
         Subjects, Phases, IInv, TypeOK
    <2> QED
      BY <2>1, <2>2
  <1>7. ASSUME NEW k \in Keys, ReconcileAccepted(k)
        PROVE  Settling /\ \E x \in Keys, result \in Outcomes : Settles(x, result)
    <2>1. Settling
      BY <1>5, <1>7 DEF ReconcileAccepted
    <2>2. /\ k \in DOMAIN journal.entries /\ journal.entries[k].result = "none"
          /\ \E result \in Outcomes : Written(Reconciled(k, result))
      BY <1>7 DEF ReconcileAccepted, Reconciled, Pending, Outcomes
    <2> QED
      BY <2>1, <2>2 DEF Settles
  <1> QED
    BY <1>1, <1>2, <1>3, <1>4, <1>6, <1>7 DEF Next, Process, Maintenance

(* Every draft is one step from the process's copy.                           *)
LEMMA AdmittedAdvances ==
    ASSUME TypeOK, Sent, NEW t \in Threads, AdmitsNew(t)
    PROVE  OneStep(Admitted(t[1]), journal)
  <1>1. Key(t) \in Keys
    BY FrameTypes DEF AdmitsNew, Admit, Sent, Key
  <1>2. Admitted(t[1]).entries = Put(journal.entries, Key(t), [frame |-> t[1], result |-> "none"])
    BY DEF Admitted, Key
  <1>3. Key(t) \notin DOMAIN journal.entries
    BY DEF AdmitsNew, Known, Key
  <1> QED
    BY <1>1, <1>2, <1>3 DEF OneStep, Advances, Res, Put

LEMMA CompletedAdvances ==
    ASSUME TypeOK, Sent, ResultIsKnown, NEW t \in Threads, Records(t), Owns(t)
    PROVE  OneStep(Completed(t[1], handler[t].result), journal)
  <1>1. Key(t) \in Keys /\ handler[t].result \in Results
    BY FrameTypes DEF Records, Complete, Reject, Sent, Key, ResultIsKnown
  <1>2. Completed(t[1], handler[t].result).entries =
           Put(journal.entries, Key(t), [frame |-> t[1], result |-> handler[t].result])
    BY CompletedEntries DEF Key
  <1> QED
    BY <1>1, <1>2 DEF OneStep, Advances, Res, Put, Owns

LEMMA ReconciledAdvances ==
    ASSUME TypeOK, NEW x \in Keys, NEW result \in Outcomes, Settles(x, result)
    PROVE  OneStep(Reconciled(x, result), journal)
  <1>1. \A k \in DOMAIN journal.entries :
           /\ k \in DOMAIN Reconciled(x, result).entries
           /\ Reconciled(x, result).entries[k].result =
                 IF k = x THEN result ELSE journal.entries[k].result
    BY ReconciledEntries DEF Settles
  <1>2. DOMAIN Reconciled(x, result).entries = DOMAIN journal.entries
    BY DEF Reconciled, TypeOK, Journals, PartialFunctions
  <1> QED
    BY <1>1, <1>2 DEF OneStep, Advances, Res, Settles, Results

(* So is what the process and the file hold after any step.                   *)
LEMMA TriedSteps ==
    ASSUME NEW draft, Tried(draft), StepOrSame(draft, journal), StepOrSame(disk, journal)
    PROVE  StepOrSame(journal', journal) /\ StepOrSame(disk', journal')
  <1>1. \/ journal' = draft /\ disk' = draft
        \/ journal' = journal /\ disk' \in {disk, draft}
    BY DEF Tried, Written, NotWritten
  <1> QED
    BY <1>1 DEF StepOrSame

LEMMA OpenRecords ==
    ASSUME IInv, LedgerInv, NEW t \in Threads, Records(t)
    PROVE  Open(t) /\ Owns(t)
  BY DEF Records, Complete, Reject, Open, LedgerInv

LEMMA StepsStay ==
    ASSUME IInv, LedgerInv, [Next]_vars
    PROVE  StepOrSame(journal', journal) /\ StepOrSame(disk', journal')
  <1>1. TypeOK /\ Sent /\ ResultIsKnown /\ StepOrSame(disk, journal)
    BY DEF IInv, LedgerInv
  <1>2. CASE Unmoved
    BY <1>1, <1>2 DEF Unmoved, StepOrSame
  <1>3. CASE Reloaded
    BY <1>1, <1>3 DEF Reloaded, StepOrSame
  <1>4. ASSUME NEW t \in Threads, AdmitsNew(t)
        PROVE  StepOrSame(journal', journal) /\ StepOrSame(disk', journal')
    BY <1>1, <1>4, AdmittedAdvances, TriedSteps DEF AdmitsNew, StepOrSame
  <1>5. ASSUME NEW t \in Threads, AdmitsKnown(t)
        PROVE  StepOrSame(journal', journal) /\ StepOrSame(disk', journal')
    <2>1. StepOrSame(journal, journal)
      BY DEF StepOrSame
    <2> QED
      BY <1>1, <1>5, <2>1, TriedSteps DEF AdmitsKnown
  <1>6. ASSUME NEW t \in Threads, Records(t)
        PROVE  StepOrSame(journal', journal) /\ StepOrSame(disk', journal')
    BY <1>1, <1>6, OpenRecords, CompletedAdvances, TriedSteps DEF Records, StepOrSame
  <1>7. CASE Maintains
    <2>1. PICK s \in Subjects, phase \in Phases : Written(Maintained(s, phase))
      BY <1>7 DEF Maintains
    <2>2. StepOrSame(Maintained(s, phase), journal)
      BY <1>1, MaintainedEntries DEF StepOrSame, Res
    <2> QED
      BY <1>1, <2>1, <2>2, TriedSteps DEF Tried
  <1>8. ASSUME NEW x \in Keys, NEW result \in Outcomes, Settles(x, result)
        PROVE  StepOrSame(journal', journal) /\ StepOrSame(disk', journal')
    <2>1. StepOrSame(Reconciled(x, result), journal)
      BY <1>1, <1>8, ReconciledAdvances DEF StepOrSame
    <2> QED
      BY <1>1, <1>8, <2>1, TriedSteps DEF Tried, Settles
  <1> QED
    BY <1>2, <1>3, <1>4, <1>5, <1>6, <1>7, <1>8, JournalCases

LEMMA IdleStep ==
    ASSUME IInv, LedgerInv, [Next]_vars
    PROVE  IdleWhenDown'
  <1>1. CASE Idle' \/ up' = "serving"
    BY <1>1 DEF IdleWhenDown
  <1>2. ASSUME up' = up, handler' = handler
        PROVE  IdleWhenDown'
    BY <1>2 DEF LedgerInv, IdleWhenDown, Idle, Pc
  <1>3. ASSUME NEW t \in Threads,
               Refuse(t) \/ Admit(t) \/ Drive(t) \/ Complete(t) \/ Reject(t) \/ Reply(t)
        PROVE  IdleWhenDown'
    <2>1. Pc(t) \notin {"unsent", "done"} /\ up' = up
      BY <1>3 DEF Refuse, Admit, Drive, Complete, Reject, Reply, processVars
    <2>2. up = "serving"
      BY <2>1 DEF LedgerInv, IdleWhenDown, Idle
    <2> QED
      BY <1>1, <2>1, <2>2
  <1>4. CASE Caller \/ Channel
    <2>1. up' = "serving" \/ (up' = up /\ handler' = handler)
      BY <1>4 DEF Caller, Request, GiveUp, Channel, Redeliver, Expire, processVars
    <2> QED
      BY <1>1, <1>2, <2>1
  <1>5. CASE Serve \/ RemoveSocket \/ UNCHANGED vars
    BY <1>1, <1>2, <1>5 DEF Serve, RemoveSocket, vars, processVars
  <1>6. CASE Maintenance
    <2>1. up # "serving" /\ handler' = handler
      BY <1>6 DEF Maintenance, StartReconcile, EndReconcile, EndEmergencyStop,
         AbandonMaintenance, ReconcileAccepted, StartEmergencyStop
    <2> QED
      BY <2>1 DEF LedgerInv, IdleWhenDown, Idle, Pc
  <1>7. CASE StopServing
    BY <1>7 DEF StopServing, IdleWhenDown, Idle, Pc
  <1>8. CASE Crash \/ Reboot
    <2>1. handler' = Restarted
      BY <1>8 DEF Crash, Die, Reboot, Restarted
    <2> QED
      BY <2>1 DEF IdleWhenDown, Idle, Pc, Restarted
  <1> QED
    BY <1>3, <1>4, <1>5, <1>6, <1>7, <1>8 DEF Next, Handle, Process

(* A delivery that was not admitted yet stays as it is, or was queued now.    *)
LEMMA EarlyBefore ==
    ASSUME TypeOK, Sent, [Next]_vars, NEW t \in Threads, Pc(t)' \in {"unsent", "queued"}
    PROVE  /\ Pc(t) \in {"unsent", "queued"}
           /\ ~ (Admit(t) \/ Complete(t) \/ Reject(t))
  <1>1. CASE handler' = handler
    <2>1. ~ (Admit(t) \/ Complete(t) \/ Reject(t))
      <3>1. ASSUME Admit(t) \/ Complete(t) \/ Reject(t)
            PROVE  \E pc \in {"admitted", "rejecting", "replying"} : \E result : Entered(t, pc, result)
        BY <3>1 DEF Admit, Complete, Reject
      <3> QED
        BY <3>1, EnteredHandler
    <2> QED
      BY <1>1, <2>1 DEF Pc
  <1>2. CASE handler' = Restarted
    <2>1. ~ (Admit(t) \/ Complete(t) \/ Reject(t))
      <3>1. ASSUME Admit(t) \/ Complete(t) \/ Reject(t)
            PROVE  \E pc \in {"admitted", "rejecting", "replying"} : \E result : Entered(t, pc, result)
        BY <3>1 DEF Admit, Complete, Reject
      <3> QED
        BY <3>1, EnteredHandler
    <2> QED
      BY <1>2, <2>1 DEF Pc, Restarted
  <1>3. ASSUME NEW u \in Threads, NEW pc, NEW result, Entered(u, pc, result)
        PROVE  u = t => Pc(t)' = pc
    BY <1>3, EnteredHandler
  <1>4. ASSUME NEW u \in Threads, NEW pc, NEW result, Entered(u, pc, result), u # t
        PROVE  Pc(t)' = Pc(t)
    BY <1>4, EnteredHandler DEF Pc
  <1>5. ~ (Admit(t) \/ Complete(t) \/ Reject(t))
    <2>1. ASSUME Admit(t) \/ Complete(t) \/ Reject(t)
          PROVE  \E pc \in {"admitted", "rejecting", "replying"} : \E result : Entered(t, pc, result)
      BY <2>1 DEF Admit, Complete, Reject
    <2> QED
      BY <1>3, <2>1
  <1>6. ASSUME NEW u \in Threads,
               \/ Redeliver(u) \/ Refuse(u) \/ Admit(u) \/ Drive(u) \/ Complete(u)
               \/ Reject(u) \/ Reply(u)
        PROVE  Pc(t) \in {"unsent", "queued"}
    <2>1. CASE u # t
      <3>1. \E pc, result : Entered(u, pc, result)
        BY <1>6 DEF Redeliver, Refuse, Admit, Drive, Complete, Reject, Reply
      <3> QED
        BY <1>4, <2>1, <3>1
    <2>2. CASE u = t
      <3>1. CASE Redeliver(t)
        BY <3>1 DEF Redeliver
      <3>2. CASE ~ Redeliver(t)
        <4>1. \E pc \in {"admitted", "returned", "rejecting", "replying", "done"} : \E result :
                  Entered(t, pc, result)
          BY <1>6, <2>2, <3>2 DEF Refuse, Admit, Drive, Complete, Reject, Reply
        <4> QED
          BY <1>3, <4>1
      <3> QED
        BY <3>1, <3>2
    <2> QED
      BY <2>1, <2>2
  <1>7. ASSUME Entered(<<Len(frames) + 1, 1>>, "queued", "none")
        PROVE  Pc(t) \in {"unsent", "queued"}
    <2>1. CASE t = <<Len(frames) + 1, 1>>
      <3>1. t[1] \notin DOMAIN frames
        BY <2>1 DEF TypeOK
      <3> QED
        BY <3>1 DEF Sent
    <2>2. CASE t # <<Len(frames) + 1, 1>>
      BY <1>7, <2>2 DEF Entered, TypeOK, Pc
    <2> QED
      BY <2>1, <2>2
  <1> QED
    BY <1>1, <1>2, <1>5, <1>6, <1>7, HandlerShape

(* The entries a transaction adds name the frame of the handler that runs it. *)
LEMMA NamedStep ==
    ASSUME IInv, LedgerInv, [Next]_vars, NEW f, Named(f)'
    PROVE  \/ Named(f)
           \/ \E t \in Threads : t[1] = f /\ (Admit(t) \/ Complete(t) \/ Reject(t))
  <1>1. TypeOK
    BY DEF IInv
  <1>2. CASE Unmoved \/ Reloaded
    BY <1>2 DEF Unmoved, Reloaded, Named
  <1>3. ASSUME NEW draft, Tried(draft),
               \A k \in DOMAIN draft.entries :
                  k \in DOMAIN journal.entries /\ draft.entries[k].frame = journal.entries[k].frame
        PROVE  Named(f)
    <2>1. journal' \in {journal, draft} /\ disk' \in {disk, draft}
      BY <1>3 DEF Tried, Written, NotWritten
    <2> QED
      BY <1>3, <2>1 DEF Named
  <1>4. ASSUME NEW t \in Threads, NEW draft, Tried(draft), NEW entry, entry.frame = t[1],
               draft.entries = Put(journal.entries, Key(t), entry)
        PROVE  Named(f) \/ t[1] = f
    <2>1. journal' \in {journal, draft} /\ disk' \in {disk, draft}
      BY <1>4 DEF Tried, Written, NotWritten
    <2>2. \A k \in DOMAIN draft.entries :
             \/ draft.entries[k].frame = t[1]
             \/ k \in DOMAIN journal.entries /\ draft.entries[k] = journal.entries[k]
      BY <1>4 DEF Put
    <2> QED
      BY <2>1, <2>2 DEF Named
  <1>5. ASSUME NEW t \in Threads, AdmitsNew(t)
        PROVE  Named(f) \/ t[1] = f
    <2>1. Admitted(t[1]).entries = Put(journal.entries, Key(t), [frame |-> t[1], result |-> "none"])
      BY DEF Admitted, Key
    <2> QED
      BY <1>4, <1>5, <2>1 DEF AdmitsNew
  <1>6. ASSUME NEW t \in Threads, Records(t)
        PROVE  Named(f) \/ t[1] = f
    <2>1. Completed(t[1], handler[t].result).entries =
             Put(journal.entries, Key(t), [frame |-> t[1], result |-> handler[t].result])
      BY <1>1, CompletedEntries DEF Key
    <2> QED
      BY <1>4, <1>6, <2>1 DEF Records
  <1>7. ASSUME NEW t \in Threads, AdmitsKnown(t)
        PROVE  Named(f)
    BY <1>3, <1>7 DEF AdmitsKnown
  <1>8. CASE Maintains
    BY <1>1, <1>3, <1>8, MaintainedEntries DEF Maintains, Tried
  <1>9. ASSUME NEW x \in Keys, NEW result \in Outcomes, Settles(x, result)
        PROVE  Named(f)
    <2>1. DOMAIN Reconciled(x, result).entries = DOMAIN journal.entries
      BY <1>1 DEF Reconciled, TypeOK, Journals, PartialFunctions
    <2>2. Extends(Reconciled(x, result), journal)
      BY <1>1, <1>9, ReconciledExtends DEF Settles, Results
    <2> QED
      BY <1>3, <1>9, <2>1, <2>2 DEF Settles, Tried, Extends
  <1> QED
    BY <1>2, <1>5, <1>6, <1>7, <1>8, <1>9, JournalCases
       DEF AdmitsNew, Records

LEMMA UnnamedStep ==
    ASSUME MaxDeliveries = 1, IInv, LedgerInv, [Next]_vars, NEW t \in Threads,
           Pc(t)' \in {"unsent", "queued"}
    PROVE  ~ Named(t[1])'
  <1>1. Pc(t) \in {"unsent", "queued"} /\ ~ (Admit(t) \/ Complete(t) \/ Reject(t))
    BY EarlyBefore DEF IInv
  <1>2. ~ Named(t[1])
    BY <1>1 DEF LedgerInv
  <1>3. \A u \in Threads : u[1] = t[1] => u = t
    BY OwnFrame
  <1> QED
    BY <1>1, <1>2, <1>3, NamedStep

\* A handler that acts leaves where it was.
LEMMA ActsMove ==
    ASSUME TypeOK, NEW t \in Threads, Admit(t) \/ Complete(t) \/ Reject(t)
    PROVE  Pc(t)' # Pc(t)
  <1>1. CASE Admit(t)
    <2>1. Pc(t) = "queued" /\ \E pc \in {"admitted", "replying", "rejecting"} : \E result : Entered(t, pc, result)
      BY <1>1 DEF Admit
    <2> QED
      BY <2>1, EnteredHandler
  <1>2. CASE Complete(t)
    <2>1. Pc(t) = "returned" /\ \E pc \in {"replying", "rejecting"} : \E result : Entered(t, pc, result)
      BY <1>2 DEF Complete
    <2> QED
      BY <2>1, EnteredHandler
  <1>3. CASE Reject(t)
    <2>1. Pc(t) = "rejecting" /\ Entered(t, "replying", handler[t].result)
      BY <1>3 DEF Reject
    <2> QED
      BY <2>1, EnteredHandler
  <1> QED
    BY <1>1, <1>2, <1>3

(* A handler that stays where it is keeps what it owns, and comes to own      *)
(* nothing by another one's transaction.                                      *)
LEMMA OpenWaits ==
    ASSUME MaxDeliveries = 1, IInv, LedgerInv, [Next]_vars, NEW t \in Threads,
           Open(t)', Pc(t)' = Pc(t)
    PROVE  Owns(t)'
  <1>1. TypeOK /\ Sent
    BY DEF IInv
  <1>2. Pc(t) \in {"admitted", "returned", "rejecting"}
    BY DEF Open
  <1>3. t[1] \in DOMAIN frames /\ Key(t)' = Key(t) /\ frames'[t[1]] = frames[t[1]]
    BY <1>1, <1>2, NextFrames DEF Sent, FramesKept, Key
  <1>4. ~ (Admit(t) \/ Complete(t) \/ Reject(t))
    BY <1>1, ActsMove
  <1>5. Pc(t) = "rejecting" =>
           Key(t) \in DOMAIN journal'.entries /\ journal'.entries[Key(t)].frame = t[1]
    BY <1>3 DEF Open, Binds, Key
  <1>6. Open(t) => Owns(t)
    BY DEF LedgerInv
  <1>7. CASE UNCHANGED journal
    <2>1. Open(t)
      BY <1>2, <1>5, <1>7 DEF Open, Binds, Key
    <2> QED
      BY <1>3, <1>6, <1>7, <2>1 DEF Owns
  <1>8. ASSUME NEW u \in Threads, u # t, NEW entry, entry.frame = u[1],
               journal'.entries = Put(journal.entries, Key(u), entry),
               Key(u) \in DOMAIN journal.entries => journal.entries[Key(u)].frame = u[1]
        PROVE  Owns(t)'
    <2>1. u[1] # t[1]
      BY <1>8, OwnFrame
    <2>2. Open(t)
      BY <1>2, <1>5, <1>8, <2>1 DEF Open, Binds, Key, Put
    <2>3. Owns(t) /\ Key(u) # Key(t)
      BY <1>6, <1>8, <2>1, <2>2 DEF Owns
    <2>4. Key(t) \in DOMAIN journal'.entries /\ journal'.entries[Key(t)] = journal.entries[Key(t)]
      BY <1>8, <2>3 DEF Owns, Put
    <2> QED
      BY <1>3, <2>3, <2>4 DEF Owns
  <1>9. ASSUME NEW u \in Threads, AdmitsNew(u)
        PROVE  Owns(t)'
    <2>1. u # t /\ Key(u) \notin DOMAIN journal.entries
      BY <1>4, <1>9 DEF AdmitsNew, Known, Key
    <2>2. journal' = journal \/ journal' = Admitted(u[1])
      BY <1>9 DEF AdmitsNew, Tried, Written, NotWritten
    <2>3. Admitted(u[1]).entries = Put(journal.entries, Key(u), [frame |-> u[1], result |-> "none"])
      BY DEF Admitted, Key
    <2> QED
      BY <1>7, <1>8, <2>1, <2>2, <2>3
  <1>10. ASSUME NEW u \in Threads, Records(u)
         PROVE  Owns(t)'
    <2>1. u # t /\ journal.entries[Key(u)].frame = u[1]
      BY <1>4, <1>10 DEF Records, Binds, Key
    <2>2. journal' = journal \/ journal' = Completed(u[1], handler[u].result)
      BY <1>10 DEF Records, Tried, Written, NotWritten
    <2>3. Completed(u[1], handler[u].result).entries =
             Put(journal.entries, Key(u), [frame |-> u[1], result |-> handler[u].result])
      BY <1>1, CompletedEntries DEF Key
    <2> QED
      BY <1>7, <1>8, <2>1, <2>2, <2>3
  <1>11. CASE Unmoved \/ \E u \in Threads : AdmitsKnown(u)
    <2>1. UNCHANGED journal
      BY <1>11 DEF Unmoved, AdmitsKnown, Tried, Written, NotWritten
    <2> QED
      BY <1>7, <2>1
  <1>12. ~ Reloaded /\ ~ Settling
    BY <1>2 DEF Reloaded, Settling, Idle
  <1> QED
    BY <1>9, <1>10, <1>11, <1>12, JournalCases

LEMMA OpenStep ==
    ASSUME MaxDeliveries = 1, IInv, LedgerInv, [Next]_vars, NEW t \in Threads, Open(t)'
    PROVE  Owns(t)'
  <1>1. TypeOK /\ Sent
    BY DEF IInv
  <1>2. Pc(t)' \in {"admitted", "returned", "rejecting"}
    BY DEF Open
  <1>3. CASE Pc(t)' = Pc(t)
    BY <1>3, OpenWaits
  <1>4. ASSUME Pc(t)' # Pc(t)
        PROVE  Refuse(t) \/ Admit(t) \/ Drive(t) \/ Complete(t)
    <2>1. handler' # handler /\ handler' # Restarted
      BY <1>2, <1>4 DEF Pc, Restarted
    <2>2. ASSUME Entered(<<Len(frames) + 1, 1>>, "queued", "none")
          PROVE  FALSE
      BY <1>1, <1>2, <1>4, <2>2 DEF Entered, TypeOK, Pc
    <2>3. PICK u \in Threads :
              \/ Redeliver(u) \/ Refuse(u) \/ Admit(u) \/ Drive(u) \/ Complete(u)
              \/ Reject(u) \/ Reply(u)
      BY <2>1, <2>2, HandlerShape
    <2>4. \E pc, result : Entered(u, pc, result)
      BY <2>3 DEF Redeliver, Refuse, Admit, Drive, Complete, Reject, Reply
    <2>5. u = t
      BY <1>1, <1>4, <2>4, EnteredHandler DEF Pc
    <2>6. ~ (Redeliver(t) \/ Reject(t) \/ Reply(t))
      <3>1. ASSUME Redeliver(t) \/ Reject(t) \/ Reply(t)
            PROVE  \E pc \in {"queued", "replying", "done"} : \E result : Entered(t, pc, result)
        BY <3>1 DEF Redeliver, Reject, Reply
      <3> QED
        BY <1>1, <1>2, <3>1, EnteredHandler
    <2> QED
      BY <2>3, <2>5, <2>6
  <1>5. ASSUME Refuse(t) \/ Admit(t) \/ Drive(t) \/ Complete(t)
        PROVE  t[1] \in DOMAIN frames /\ Key(t)' = Key(t) /\ frames'[t[1]] = frames[t[1]]
    <2>1. Pc(t) # "unsent"
      BY <1>5 DEF Refuse, Admit, Drive, Complete
    <2> QED
      BY <1>1, <2>1, NextFrames DEF Sent, FramesKept, Key
  <1>6. ASSUME UNCHANGED journal, Refuse(t) \/ Admit(t), Pc(t)' = "rejecting"
        PROVE  FALSE
    <2>1. Binds(t[1])' /\ Pc(t) = "queued"
      BY <1>6 DEF Open, Refuse, Admit
    <2>2. Key(t) \in DOMAIN journal.entries /\ journal.entries[Key(t)].frame = t[1]
      BY <1>5, <1>6, <2>1 DEF Binds, Key
    <2> QED
      BY <2>1, <2>2 DEF LedgerInv, Named
  <1>7. CASE Refuse(t)
    <2>1. UNCHANGED journal /\ \E result : Entered(t, "rejecting", result)
      BY <1>7 DEF Refuse, journalVars
    <2> QED
      BY <1>1, <1>6, <1>7, <2>1, EnteredHandler
  <1>8. CASE Admit(t)
    <2>1. ~ Known(t[1])
      <3>1. SUFFICES ASSUME Known(t[1]) PROVE FALSE
        OBVIOUS
      <3>2. Refusal(t[1]) = "none" /\ Pc(t) = "queued"
        BY <1>8 DEF Admit
      <3>3. Key(t) \in DOMAIN journal.entries /\ journal.entries[Key(t)].frame = t[1]
        BY <3>1, <3>2 DEF Refusal, Known, Key
      <3> QED
        BY <3>2, <3>3 DEF LedgerInv, Named
    <2>2. CASE Pc(t)' = "rejecting"
      <3>1. \/ Entered(t, "admitted", "none")
            \/ NotWritten(Admitted(t[1]))
        BY <1>8, <2>1 DEF Admit
      <3>2. UNCHANGED journal
        BY <1>1, <2>2, <3>1, EnteredHandler DEF NotWritten
      <3> QED
        BY <1>6, <1>8, <2>2, <3>2
    <2>3. CASE Pc(t)' # "rejecting"
      <3>1. \/ Written(Admitted(t[1]))
            \/ Entered(t, "rejecting", "INTERNAL")
        BY <1>8, <2>1 DEF Admit
      <3>2. journal' = Admitted(t[1])
        BY <1>1, <2>3, <3>1, EnteredHandler DEF Written
      <3>3. journal'.entries = Put(journal.entries, Key(t), [frame |-> t[1], result |-> "none"])
        BY <3>2 DEF Admitted, Key
      <3> QED
        BY <1>5, <1>8, <3>3 DEF Owns, Put
    <2> QED
      BY <2>2, <2>3
  <1>9. CASE Drive(t)
    <2>1. UNCHANGED journal /\ Owns(t)
      BY <1>9 DEF Drive, journalVars, LedgerInv, Open
    <2> QED
      BY <1>5, <1>9, <2>1 DEF Owns
  <1>10. CASE Complete(t)
    <2>1. Owns(t)
      BY <1>10 DEF Complete, LedgerInv, Open
    <2>2. Entered(t, "replying", handler[t].result) \/ UNCHANGED journal
      BY <1>10 DEF Complete, NotWritten, journalVars
    <2>3. UNCHANGED journal
      BY <1>1, <1>2, <2>2, EnteredHandler
    <2> QED
      BY <1>5, <1>10, <2>1, <2>3 DEF Owns
  <1> QED
    BY <1>3, <1>4, <1>7, <1>8, <1>9, <1>10

LEMMA LedgerInvStep ==
    ASSUME MaxDeliveries = 1, IInv, LedgerInv, [Next]_vars
    PROVE  LedgerInv'
  <1>1. \A t \in Threads : Pc(t)' \in {"unsent", "queued"} => ~ Named(t[1])'
    BY UnnamedStep
  <1>2. \A t \in Threads : Open(t)' => Owns(t)'
    BY OpenStep
  <1>3. StepOrSame(disk, journal)'
    BY StepsStay DEF StepOrSame, OneStep, Advances, Res
  <1> QED
    BY <1>1, <1>2, <1>3, IdleStep DEF LedgerInv

LEMMA InitLedgerInv ==
    ASSUME Init
    PROVE  LedgerInv
  <1>1. \A t \in Threads : Pc(t) = "unsent"
    BY DEF Init, Pc
  <1>2. disk = journal /\ DOMAIN journal.entries = {}
    BY DEF Init, Empty
  <1>3. IdleWhenDown /\ \A t \in Threads : ~ Open(t)
    BY <1>1 DEF IdleWhenDown, Idle, Open
  <1>4. \A f : ~ Named(f)
    BY <1>2 DEF Named
  <1>5. StepOrSame(disk, journal)
    BY <1>2 DEF StepOrSame
  <1> QED
    BY <1>3, <1>4, <1>5 DEF LedgerInv

-----------------------------------------------------------------------------
\* The refinement mapping, command by command.
Performed(k) == \E t \in driven : Key(t) = k
EffectOf(k) ==
    IF Performed(k) THEN "performed"
    ELSE IF k \in DOMAIN journal.entries THEN "admitted" ELSE "none"
ResultOf(k) == IF k \in DOMAIN journal.entries THEN journal.entries[k].result ELSE "none"
EffectMap == [k \in Keys |-> EffectOf(k)]
ResultMap == [k \in Keys |-> ResultOf(k)]

(* The journal says "unknown" of the commands it does not have.               *)
LEMMA ResKnown ==
    ASSUME TypeOK, NEW k
    PROVE  /\ Res(journal, k) = "unknown" <=> k \notin DOMAIN journal.entries
           /\ k \in DOMAIN journal.entries => Res(journal, k) = ResultOf(k)
           /\ ResultOf(k) = IF Res(journal, k) = "unknown" THEN "none" ELSE Res(journal, k)
  <1>1. ASSUME k \in DOMAIN journal.entries
        PROVE  journal.entries[k].result # "unknown"
    <2>1. journal.entries[k] \in Entries
      BY <1>1, PartialDomain DEF TypeOK, Journals
    <2> QED
      BY <2>1 DEF Entries, Results, Outcomes, Codes, Refusals
  <1> QED
    BY <1>1 DEF Res, ResultOf

(* The maps move when a command's entry moves, and only there.                *)
LEMMA MapsMove ==
    /\ (\A k \in Keys : EffectOf(k)' = EffectOf(k)) => EffectMap' = EffectMap
    /\ (\A k \in Keys : ResultOf(k)' = ResultOf(k)) => ResultMap' = ResultMap
    /\ \A x \in Keys : \A v :
          (\A k \in Keys : EffectOf(k)' = IF k = x THEN v ELSE EffectOf(k))
             => EffectMap' = [EffectMap EXCEPT ![x] = v]
    /\ \A x \in Keys : \A v :
          (\A k \in Keys : ResultOf(k)' = IF k = x THEN v ELSE ResultOf(k))
             => ResultMap' = [ResultMap EXCEPT ![x] = v]
  <1>1. EffectMap' = [k \in Keys |-> EffectOf(k)'] /\ ResultMap' = [k \in Keys |-> ResultOf(k)']
    BY DEF EffectMap, ResultMap
  <1>2. EffectMap = [k \in Keys |-> EffectOf(k)] /\ ResultMap = [k \in Keys |-> ResultOf(k)]
    BY DEF EffectMap, ResultMap
  <1> QED
    BY <1>1, <1>2

(* Every step of the helper is a step of the ledger or leaves it as it is.    *)
LEMMA LedgerStep ==
    ASSUME IInv, RefusalInv, LedgerInv, [Next]_vars
    PROVE  Ledger!Next \/ (EffectMap' = EffectMap /\ ResultMap' = ResultMap)
  <1>1. TypeOK /\ TypeOK'
    BY NextIInv DEF IInv
  <1>2. \A t \in driven : t \in Threads /\ Key(t)' = Key(t) /\ Key(t) \in DOMAIN journal.entries
    BY <1>1, NextFrames DEF IInv, TypeOK, ClaimsAreJournalled, Claims, FramesKept, Key
  <1>3. CASE driven' = driven
    <2>1. \A k \in Keys : Performed(k)' <=> Performed(k)
      BY <1>2, <1>3 DEF Performed
    <2>2. \A k \in Keys : Performed(k) => k \in DOMAIN journal.entries
      BY <1>2 DEF Performed
    <2>3. \A k \in Keys :
             /\ Res(journal, k) = "unknown" <=> k \notin DOMAIN journal.entries
             /\ ResultOf(k) = IF Res(journal, k) = "unknown" THEN "none" ELSE Res(journal, k)
      BY <1>1, ResKnown
    <2>4. \A k \in Keys :
             /\ Res(journal', k) = "unknown" <=> k \notin DOMAIN journal'.entries
             /\ ResultOf(k)' = IF Res(journal', k) = "unknown" THEN "none" ELSE Res(journal', k)
      <3> SUFFICES ASSUME NEW k \in Keys
                   PROVE  /\ Res(journal', k) = "unknown" <=> k \notin DOMAIN journal'.entries
                          /\ ResultOf(k)' = IF Res(journal', k) = "unknown" THEN "none" ELSE Res(journal', k)
        OBVIOUS
      <3>1. ASSUME k \in DOMAIN journal'.entries
            PROVE  journal'.entries[k].result # "unknown"
        <4>1. journal'.entries[k] \in Entries
          BY <1>1, <3>1, PartialDomain DEF TypeOK, Journals
        <4> QED
          BY <4>1 DEF Entries, Results, Outcomes, Codes, Refusals
      <3> QED
        BY <3>1 DEF Res, ResultOf
    <2>5. ASSUME NEW k \in Keys, Res(journal', k) = Res(journal, k)
          PROVE  EffectOf(k)' = EffectOf(k) /\ ResultOf(k)' = ResultOf(k)
      BY <2>1, <2>3, <2>4, <2>5 DEF EffectOf
    <2>6. CASE \A k \in Keys : Res(journal', k) = Res(journal, k)
      BY <2>5, <2>6 DEF EffectMap, ResultMap
    <2>7. CASE OneStep(journal', journal)
      <3>1. PICK x \in Keys : /\ Advances(journal', journal, x)
                              /\ \A k \in Keys \ {x} : Res(journal', k) = Res(journal, k)
        BY <2>7 DEF OneStep
      <3>2. CASE Res(journal', x) = Res(journal, x)
        BY <2>6, <3>1, <3>2
      <3>3. CASE Res(journal, x) = "unknown" /\ Res(journal', x) = "none"
        <4>1. EffectOf(x) = "none" /\ EffectOf(x)' = "admitted" /\ ResultOf(x)' = ResultOf(x)
          BY <2>1, <2>2, <2>3, <2>4, <3>3 DEF EffectOf
        <4>2. /\ EffectMap[x] = "none" /\ ResultMap' = ResultMap
              /\ EffectMap' = [EffectMap EXCEPT ![x] = "admitted"]
          <5>1. \A k \in Keys : /\ ResultOf(k)' = ResultOf(k)
                                /\ EffectOf(k)' = IF k = x THEN "admitted" ELSE EffectOf(k)
            BY <2>5, <3>1, <4>1
          <5> QED
            BY <4>1, <5>1, MapsMove DEF EffectMap
        <4>3. Ledger!Admit(x)
          BY <4>2 DEF Ledger!Admit, EffectMap, EffectOf, Performed, ResultMap, ResultOf
        <4> QED
          BY <4>3 DEF Ledger!Next
      <3>4. CASE Res(journal, x) = "none" /\ Res(journal', x) \in Results
        <4>0. PICK r \in Results : Res(journal', x) = r
          BY <3>4
        <4>1. "none" \notin Results /\ "unknown" \notin Results
          BY DEF Results, Outcomes, Codes, Refusals
        <4>2. EffectOf(x) # "none" /\ EffectOf(x)' = EffectOf(x)
              /\ ResultOf(x) = "none" /\ ResultOf(x)' = r
          BY <2>1, <2>2, <2>3, <2>4, <3>4, <4>0, <4>1 DEF EffectOf
        <4>4. /\ EffectMap[x] # "none" /\ ResultMap[x] = "none" /\ EffectMap' = EffectMap
              /\ ResultMap' = [ResultMap EXCEPT ![x] = r]
          <5>1. \A k \in Keys : /\ EffectOf(k)' = EffectOf(k)
                                /\ ResultOf(k)' = IF k = x THEN r ELSE ResultOf(k)
            BY <2>5, <3>1, <4>2
          <5> QED
            BY <4>2, <5>1, MapsMove DEF EffectMap, ResultMap
        <4>5. Ledger!Conclude(x, r)
          BY <4>4 DEF Ledger!Conclude, EffectMap, EffectOf, Performed, ResultMap, ResultOf
        <4> QED
          BY <3>1, <4>0, <4>5 DEF Ledger!Next
      <3> QED
        BY <3>1, <3>2, <3>3, <3>4 DEF Advances
    <2> QED
      BY <2>6, <2>7, StepsStay DEF StepOrSame
  <1>4. ASSUME NEW t \in Threads, Drive(t)
        PROVE  Ledger!Next
    <2>1. Pc(t) = "admitted" /\ driven' = driven \cup {t} /\ journal' = journal
      BY <1>4 DEF Drive, journalVars
    <2>2. Owns(t) /\ t[1] \in DOMAIN frames
      BY <2>1 DEF LedgerInv, Open, IInv, Sent
    <2>3. Key(t) \in Keys /\ Key(t)' = Key(t)
      BY <1>1, <2>2, FrameTypes, NextFrames DEF IInv, FramesKept, Key
    <2>4. ~ Performed(Key(t))
      <3>1. SUFFICES ASSUME NEW u \in driven, Key(u) = Key(t) PROVE FALSE
        BY DEF Performed
      <3>2. u = t
        BY <1>2, <2>1, <3>1 DEF IInv, ClaimsAreSingle, Claims
      <3> QED
        BY <2>1, <3>2 DEF RefusalInv, DriverIsOver
    <2>5. \A k \in Keys : Performed(k)' <=> (Performed(k) \/ k = Key(t))
      BY <1>2, <2>1, <2>3 DEF Performed
    <2>6. /\ EffectOf(Key(t)) = "admitted" /\ ResultOf(Key(t)) = "none"
      BY <2>2, <2>4 DEF EffectOf, ResultOf, Owns
    <2>7. \A k \in Keys : /\ ResultOf(k)' = ResultOf(k)
                          /\ EffectOf(k)' = IF k = Key(t) THEN "performed" ELSE EffectOf(k)
      BY <2>1, <2>5 DEF EffectOf, ResultOf
    <2>x. PICK x \in Keys : x = Key(t)
      BY <2>3
    <2>8. x \in Keys /\ EffectMap[x] = "admitted" /\ ResultMap[x] = "none"
          /\ ResultMap' = ResultMap /\ EffectMap' = [EffectMap EXCEPT ![x] = "performed"]
      BY <2>x, <2>6, <2>7, MapsMove DEF EffectMap, ResultMap
    <2>9. Ledger!Perform(x)
      BY <2>8 DEF Ledger!Perform, EffectMap, EffectOf, Performed, ResultMap, ResultOf
    <2> QED
      BY <2>9 DEF Ledger!Next
  <1>5. driven' = driven \/ \E t \in Threads : Drive(t)
    BY HandlerShape DEF Redeliver, Refuse, Admit, Complete, Reject, Reply, hostVars
  <1> QED
    BY <1>3, <1>4, <1>5

(* The helper implements the effect ledger when no frame is presented twice:  *)
(* through crashes, failed writes and reconciliation, each command is         *)
(* admitted, performed and concluded at most once and in this order.          *)
THEOREM LedgerImplemented ==
    ASSUME MaxDeliveries = 1
    PROVE  Spec => ImplementsLedger
  <1>1. Init => Ledger!Init
    <2> SUFFICES ASSUME Init PROVE Ledger!Init
      OBVIOUS
    <2>1. driven = {} /\ DOMAIN journal.entries = {}
      BY DEF Init, Empty
    <2> QED
      BY <2>1 DEF Ledger!Init
  <1>2. Init => RefusalInv /\ LedgerInv
    <2>1. Init => RefusalInv
      BY DEF Init, RefusalInv, Claims, Pc
    <2> QED
      BY <2>1, InitLedgerInv
  <1>3. IInv /\ RefusalInv /\ LedgerInv /\ [Next]_vars => RefusalInv' /\ LedgerInv'
    BY RefusalStep, LedgerInvStep
  <1>4. IInv /\ RefusalInv /\ LedgerInv /\ [Next]_vars => [Ledger!Next]_(Ledger!vars)
    <2> SUFFICES ASSUME IInv, RefusalInv, LedgerInv, [Next]_vars,
                        EffectMap' = EffectMap, ResultMap' = ResultMap
                 PROVE  UNCHANGED Ledger!vars
      BY LedgerStep
    <2> QED
      BY DEF Ledger!vars, EffectMap, EffectOf, Performed, ResultMap, ResultOf
  <1> QED
    BY <1>1, <1>2, <1>3, <1>4, Invariance, PTL DEF Spec, ImplementsLedger, Ledger!Spec
=============================================================================
