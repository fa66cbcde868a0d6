--------------------------- MODULE ProviderProofs ----------------------------
(***************************************************************************)
(* Proofs about the providers' side.  Each part has an invariant           *)
(* of its own, named after the component; constants have the assumptions of *)
(* the group's module.                                                     *)
(***************************************************************************)
EXTENDS ProviderParts, NumberFacts, TLAPS

-----------------------------------------------------------------------------
(***************************************************************************)
(* What the broker recorded of a job, and what a call that returned left,  *)
(* for any number of calls and faults.  One call is admitted at most; the  *)
(* invariant says of each of its places which records there are, which     *)
(* files, and which container.                                             *)
(***************************************************************************)

Outside == {"idle", "admit", "catch", "finally", "returned"}
Fresh == {"stage", "launch", "precancel", "running", "cancel", "cleanup", "recordRemoved"}
Settling == {"recordNone", "recordLast", "recordLeft"}
BrokerPlaces == Outside \cup Fresh \cup Settling \cup {"recordResidue", "recordResult"}

BrokerOutcomes == {"completed", "failed", "cancelled", "budget-exhausted"}
Dependencies == {"admission", "staging", "execution", "cancel", "cleanup", "journal"}
CallStates ==
    [pc : BrokerPlaces, aborted : BOOLEAN,
     code : {"none", "BROKER_CANCELLED", "BROKER_BUDGET_EXHAUSTED"}, staged : BOOLEAN,
     admitted : BOOLEAN, cleanupRecorded : BOOLEAN, result : BrokerOutcomes \cup {"none"},
     cancelled : BOOLEAN, blame : SUBSET Dependencies]
Entries ==
    [call : BrokerCalls, kind : {"result"}, state : BrokerOutcomes]
        \cup [call : BrokerCalls, kind : {"cleanup"}, state : {"removed", "residue",
        "not-staged"}]

BrokerTyped ==
    /\ authority \in {"live", "cancelled"} /\ admission \subseteq BrokerCalls
    /\ records \in Seq(Entries)
    /\ staged \subseteq BrokerCalls
    /\ running \in BrokerCalls \cup {0}
    /\ launches \in {0, 1} /\ call \in [BrokerCalls -> CallStates]

HasKind(kind) == \E i \in DOMAIN records : records[i].kind = kind

\* The files of a call that has not got a handle on them any more.
LeftBehind(c, k) == c \in staged => k.blame \cap {"staging", "cleanup"} # {}

\* Of the admitted call: the records it has, the files and the container it may have left.
RecordsFit(k) ==
    /\ k.pc \notin {"idle", "admit"}
    /\ k.pc \in Fresh => records = <<>>
    /\ k.pc \in Fresh \cup Settling \cup {"recordResidue"} => ~ k.cleanupRecorded
    /\ k.pc \in {"recordResidue", "recordResult"} => ~ HasKind("result")
    /\ k.pc = "recordResult" =>
        /\ k.cleanupRecorded /\ HasKind("cleanup")
        /\ k.result = "completed" => \E i \in DOMAIN records : records[i].state = "removed"
    /\ k.pc \in {"cleanup", "recordRemoved", "recordResidue",
       "recordResult"} => k.result # "none"
    /\ k.pc = "catch" /\ ~ k.cleanupRecorded => ~ HasKind("result")
    /\ k.pc \in {"catch", "finally"} /\ k.cleanupRecorded => "journal" \in k.blame
    /\ k.pc \in Settling \cup {"finally"} => "journal" \in k.blame \/ HasKind("result")
    /\ k.pc = "returned" => "journal" \in k.blame \/ (HasKind("result") /\ HasKind("cleanup"))

BrokerEffectsFit(c, k) ==
    /\ k.pc \in {"stage", "launch", "precancel"} => launches = 0 /\ running = 0
    /\ k.pc \in {"cleanup", "recordRemoved", "recordResidue", "recordResult"} => running = 0
    /\ running = c => k.pc \in {"running", "cancel"} \/ k.blame \cap {"cancel", "execution"} # {}
    /\ k.pc \in {"stage", "recordRemoved", "recordLast"} => c \notin staged
    /\ k.pc \in Settling
       \cup {"recordResidue", "recordResult", "returned"} => LeftBehind(c, k)
    /\ k.staged \/ LeftBehind(c, k)

\* What a call that was not admitted has: nothing.
Bystands(c, k) ==
    /\ k.pc \in Outside /\ ~ k.staged /\ ~ k.cleanupRecorded
    /\ c \notin staged /\ running # c

CallsFit ==
    \A c \in BrokerCalls :
        IF call[c].admitted THEN admission = {c} /\ RecordsFit(call[c])
        /\ BrokerEffectsFit(c, call[c])
        ELSE Bystands(c, call[c])

\* Before an admission nothing was done, and afterwards every record is of the one call.
OneAdmission ==
    /\ admission = {} => records = <<>> /\ launches = 0 /\ running = 0 /\ staged = {}
    /\ \A i \in DOMAIN records : call[records[i].call].admitted

BrokerInv == BrokerTyped /\ CallsFit /\ OneAdmission /\ Broker!RecordsAreTrue

LEMMA BrokerInitInvariant == ASSUME Broker!Init PROVE BrokerInv
<1>1. Broker!Idle \in CallStates
  BY DEF Broker!Idle, CallStates, BrokerPlaces, Outside
<1>2. BrokerTyped
  BY <1>1 DEF Broker!Init, BrokerTyped
<1>3. CallsFit
  BY BrokerAssumption DEF Broker!Init, CallsFit, Bystands, Broker!Idle, Outside,
     BrokerCallsAreNames
<1>4. OneAdmission /\ Broker!RecordsAreTrue
  BY DEF Broker!Init, OneAdmission, Broker!RecordsAreTrue
<1> QED BY <1>2, <1>3, <1>4 DEF BrokerInv

\* What a call keeps when it goes on, and when a dependency throws.
LEMMA GotoCall ==
  ASSUME BrokerTyped, NEW c \in BrokerCalls, NEW at \in BrokerPlaces, Broker!Goto(c, at)
  PROVE  \E x \in CallStates :
            /\ call' = [call EXCEPT ![c] = x] /\ x.pc = at
            /\ x.blame = call[c].blame /\ x.admitted = call[c].admitted
            /\ x.staged = call[c].staged /\ x.cleanupRecorded = call[c].cleanupRecorded
            /\ x.result = call[c].result
<1>1. call[c] \in CallStates BY DEF BrokerTyped
<1>2. PICK x \in CallStates : x = [call[c] EXCEPT !.pc = at] BY <1>1 DEF CallStates
<1>3. call' = [call EXCEPT ![c] = x] BY <1>2 DEF Broker!Goto, BrokerTyped
<1> QED BY <1>1, <1>2, <1>3 DEF CallStates

LEMMA ThrowsCall ==
  ASSUME BrokerTyped, NEW c \in BrokerCalls, NEW at \in BrokerPlaces, NEW d \in Dependencies,
         Broker!Throws(c, d, at)
  PROVE  \E x \in CallStates :
            /\ call' = [call EXCEPT ![c] = x] /\ x.pc = at
            /\ x.blame = call[c].blame \cup {d} /\ x.admitted = call[c].admitted
            /\ x.staged = call[c].staged /\ x.cleanupRecorded = call[c].cleanupRecorded
            /\ x.result = call[c].result
<1>1. call[c] \in CallStates BY DEF BrokerTyped
<1>2. PICK b \in SUBSET Dependencies : b = call[c].blame \cup {d} BY <1>1 DEF CallStates
<1>3. PICK x \in CallStates : x = [call[c] EXCEPT !.pc = at, !.blame = b]
  BY <1>1 DEF CallStates
<1>4. call' = [call EXCEPT ![c] = x] BY <1>2, <1>3 DEF Broker!Throws, BrokerTyped
<1> QED BY <1>1, <1>2, <1>3, <1>4 DEF CallStates

\* A call that was not admitted goes on with nothing.
LEMMA BystanderInvariant ==
  ASSUME BrokerInv, NEW c \in BrokerCalls, ~ call[c].admitted, NEW x \in CallStates,
         call' = [call EXCEPT ![c] = x], ~ x.admitted, x.pc \in Outside, ~ x.staged,
         ~ x.cleanupRecorded,
         admission' = admission \/ (admission = {} /\ admission' = {c}),
         UNCHANGED <<authority, records, staged, running, launches>>
  PROVE  BrokerInv'
<1>1. call' \in [BrokerCalls -> CallStates] /\ call'[c] = x
      /\ \A d \in BrokerCalls : d # c => call'[d] = call[d]
  BY DEF BrokerInv, BrokerTyped
<1>2. BrokerTyped'
  BY <1>1 DEF BrokerInv, BrokerTyped
<1>3. CallsFit'
  BY <1>1 DEF BrokerInv, CallsFit, Bystands, RecordsFit, BrokerEffectsFit, LeftBehind, HasKind
<1>4. OneAdmission'
  BY <1>1 DEF BrokerInv, OneAdmission, BrokerTyped, Entries
<1>5. Broker!RecordsAreTrue'
  BY DEF BrokerInv, Broker!RecordsAreTrue
<1> QED BY <1>2, <1>3, <1>4, <1>5 DEF BrokerInv

\* The admitted call goes on: the others have nothing, and keep it.
LEMMA AdmittedInvariant ==
  ASSUME BrokerInv, NEW c \in BrokerCalls, NEW x \in CallStates,
         call' = [call EXCEPT ![c] = x], x.admitted, admission' = {c},
         call[c].admitted \/ admission = {},
         authority' = authority, records' \in Seq(Entries),
         \A i \in DOMAIN records' : records'[i].call = c,
         staged' \subseteq staged \cup {c}, running' \in {running, 0, c},
         launches' \in {0, 1},
         RecordsFit(x)', BrokerEffectsFit(c, x)', Broker!RecordsAreTrue'
  PROVE  BrokerInv'
<1>1. call' \in [BrokerCalls -> CallStates] /\ call'[c] = x
      /\ \A d \in BrokerCalls : d # c => call'[d] = call[d]
  BY DEF BrokerInv, BrokerTyped
<1>2. \A d \in BrokerCalls : d # c => ~ call[d].admitted /\ Bystands(d, call[d])
  BY DEF BrokerInv, CallsFit
<1>3. BrokerTyped'
  BY <1>1 DEF BrokerInv, BrokerTyped
<1>4. CallsFit'
  BY <1>1, <1>2, BrokerAssumption DEF CallsFit, Bystands, BrokerCallsAreNames
<1>5. OneAdmission'
  BY <1>1 DEF OneAdmission
<1> QED BY <1>3, <1>4, <1>5 DEF BrokerInv

\* What the journal has after an entry.
LEMMA AfterEntry ==
  ASSUME records \in Seq(Entries), NEW e \in Entries, records' = Append(records, e)
  PROVE  /\ records' \in Seq(Entries) /\ DOMAIN records' = 1..(Len(records) + 1)
         /\ DOMAIN records = 1..Len(records) /\ Len(records) \in Nat
         /\ \A i \in DOMAIN records : records'[i] = records[i]
         /\ records'[Len(records) + 1] = e
  OBVIOUS

\* The journal is asked to write an entry of the admitted call, and did or did not.
LEMMA EntryInvariant ==
  ASSUME BrokerInv, NEW c \in BrokerCalls, call[c].admitted, NEW x \in CallStates,
         call' = [call EXCEPT ![c] = x], x.admitted,
         UNCHANGED <<authority, admission, staged, running, launches>>,
         NEW e \in Entries, e.call = c, records' \in {records, Append(records, e)},
         e.kind = "result" => ~ HasKind("result"),
         e.state = "removed" => c \notin staged,
         e.state = "completed" =>
            running = 0 /\ \E i \in DOMAIN records : records[i].state = "removed",
         RecordsFit(x)', BrokerEffectsFit(c, x)
  PROVE  BrokerInv'
<1>1. admission = {c} BY DEF BrokerInv, CallsFit
<1>2. \A i \in DOMAIN records : records[i].call = c
  BY <1>1 DEF BrokerInv, OneAdmission, CallsFit, BrokerTyped, Entries
<1>3. BrokerEffectsFit(c, x)'
  BY DEF BrokerEffectsFit, LeftBehind
<1>4. records \in Seq(Entries) BY DEF BrokerInv, BrokerTyped
<1>5. CASE records' = records
  <2>1. Broker!RecordsAreTrue' BY <1>5 DEF BrokerInv, Broker!RecordsAreTrue
  <2> QED BY <1>1, <1>2, <1>3, <1>4, <1>5, <2>1, AdmittedInvariant DEF BrokerInv, BrokerTyped
<1>6. CASE records' = Append(records, e)
  <2>1. /\ records' \in Seq(Entries) /\ DOMAIN records' = 1..(Len(records) + 1)
        /\ DOMAIN records = 1..Len(records) /\ Len(records) \in Nat
        /\ \A i \in DOMAIN records : records'[i] = records[i]
        /\ records'[Len(records) + 1] = e
    BY <1>4, <1>6, AfterEntry
  <2>2. \A i \in DOMAIN records' : records'[i].call = c
    BY <1>2, <2>1
  <2>3. Broker!RecordsAreTrue'
    <3>1. launches' <= 1 BY DEF BrokerInv, Broker!RecordsAreTrue
    <3>2. ASSUME NEW i \in DOMAIN records'
          PROVE  /\ records'[i].kind = "result" =>
                      \A j \in DOMAIN records' : records'[j].kind = "result" => i = j
                 /\ records'[i].state = "removed" => records'[i].call \notin staged'
                 /\ records'[i].state = "completed" =>
                      running' = 0 /\ \E j \in 1..(i - 1) : records'[j].state = "removed"
      <4>1. CASE i \in DOMAIN records
        BY <4>1, <2>1 DEF BrokerInv, Broker!RecordsAreTrue, HasKind
      <4>2. CASE i = Len(records) + 1
        <5>1. 1..(i - 1) = DOMAIN records BY <2>1, <4>2
        <5> QED BY <4>2, <2>1, <5>1 DEF HasKind
      <4> QED BY <2>1, <4>1, <4>2
    <3> QED BY <3>1, <3>2 DEF Broker!RecordsAreTrue
  <2> QED BY <1>1, <1>3, <2>1, <2>2, <2>3, AdmittedInvariant DEF BrokerInv, BrokerTyped
<1> QED BY <1>5, <1>6

\* Journalled moves the call, and writes or throws.
LEMMA JournalledCall ==
  ASSUME BrokerInv, NEW c \in BrokerCalls, NEW kind, NEW state, NEW done \in CallStates,
         NEW thrown \in BrokerPlaces, Broker!Journalled(c, kind, state, done, thrown)
  PROVE  \E x \in CallStates :
            /\ call' = [call EXCEPT ![c] = x]
            /\ \/ x = done /\ records' = Broker!Record(c, kind, state)
               \/ /\ records' \in {records, Broker!Record(c, kind, state)}
                  /\ x.pc = thrown /\ x.blame = call[c].blame \cup {"journal"}
                  /\ x.admitted = call[c].admitted /\ x.staged = call[c].staged
                  /\ x.cleanupRecorded = call[c].cleanupRecorded /\ x.result = call[c].result
<1>1. CASE call' = [call EXCEPT ![c] = done] /\ records' = Broker!Record(c, kind, state)
  BY <1>1
<1>2. CASE Broker!Throws(c, "journal", thrown)
      /\ records' \in {records, Broker!Record(c, kind, state)}
  BY <1>2, ThrowsCall DEF BrokerInv, Dependencies
<1> QED BY <1>1, <1>2 DEF Broker!Journalled

\* Every record is of the admitted call.
LEMMA RecordsOfOne ==
  ASSUME BrokerInv, NEW c \in BrokerCalls, admission = {c}
  PROVE  \A i \in DOMAIN records : records[i].call = c
<1> SUFFICES ASSUME NEW i \in DOMAIN records PROVE records[i].call = c
  OBVIOUS
<1>1. records[i] \in Entries BY DEF BrokerInv, BrokerTyped
<1>2. records[i].call \in BrokerCalls BY <1>1 DEF Entries
<1>3. call[records[i].call].admitted BY DEF BrokerInv, OneAdmission
<1>4. admission = {records[i].call} BY <1>2, <1>3 DEF BrokerInv, CallsFit
<1> QED BY <1>4

\* What is known of a call that was admitted.
LEMMA OfAdmitted ==
  ASSUME BrokerInv, NEW c \in BrokerCalls, call[c].pc \notin Outside
  PROVE  /\ call[c] \in CallStates /\ call[c].admitted /\ admission = {c}
         /\ RecordsFit(call[c]) /\ BrokerEffectsFit(c, call[c])
         /\ \A i \in DOMAIN records : records[i].call = c
<1>1. call[c] \in CallStates /\ call[c].admitted
  BY DEF BrokerInv, BrokerTyped, CallsFit, Bystands
<1>2. admission = {c} /\ RecordsFit(call[c]) /\ BrokerEffectsFit(c, call[c])
  BY <1>1 DEF BrokerInv, CallsFit
<1>3. \A i \in DOMAIN records : records[i].call = c
  BY <1>2, RecordsOfOne
<1> QED BY <1>1, <1>2, <1>3

\* The same of a call that throws.
LEMMA AdmittedAnywhere ==
  ASSUME BrokerInv, NEW c \in BrokerCalls, call[c].admitted
  PROVE  /\ call[c] \in CallStates /\ admission = {c}
         /\ RecordsFit(call[c]) /\ BrokerEffectsFit(c, call[c])
         /\ \A i \in DOMAIN records : records[i].call = c
<1>1. call[c] \in CallStates
  BY DEF BrokerInv, BrokerTyped
<1>2. admission = {c} /\ RecordsFit(call[c]) /\ BrokerEffectsFit(c, call[c])
  BY DEF BrokerInv, CallsFit
<1>3. \A i \in DOMAIN records : records[i].call = c
  BY <1>2, RecordsOfOne
<1> QED BY <1>1, <1>2, <1>3

LEMMA RefuseInvariant ==
  ASSUME BrokerInv, NEW c \in BrokerCalls, Broker!Refuse(c) PROVE BrokerInv'
<1>1. call[c] \in CallStates /\ call[c].pc = "idle" BY DEF BrokerInv, BrokerTyped,
      Broker!Refuse, Broker!At
<1>2. PICK x \in CallStates : x = [call[c] EXCEPT !.pc = "returned", !.result = "failed"]
  BY <1>1 DEF CallStates, BrokerPlaces, Outside, BrokerOutcomes
<1>3. call' = [call EXCEPT ![c] = x]
  BY <1>2 DEF Broker!Refuse, BrokerInv, BrokerTyped
<1>4. /\ x.pc = "returned" /\ x.admitted = call[c].admitted /\ x.staged = call[c].staged
      /\ x.cleanupRecorded = call[c].cleanupRecorded
  BY <1>1, <1>2 DEF CallStates
<1>5. ~ call[c].admitted
  BY <1>1 DEF BrokerInv, CallsFit, RecordsFit
<1> QED BY <1>3, <1>4, <1>5, BystanderInvariant DEF Broker!Refuse, Outside, BrokerInv,
    CallsFit, Bystands

LEMMA CheckInvariant ==
  ASSUME BrokerInv, NEW c \in BrokerCalls, Broker!Check(c) PROVE BrokerInv'
<1>1. call[c] \in CallStates /\ call[c].pc = "idle" BY DEF BrokerInv, BrokerTyped,
      Broker!Check, Broker!At
<1>2. PICK x \in CallStates :
          /\ call' = [call EXCEPT ![c] = x] /\ x.pc = "admit" /\ x.staged = call[c].staged
          /\ x.admitted = call[c].admitted /\ x.cleanupRecorded = call[c].cleanupRecorded
  BY GotoCall DEF Broker!Check, BrokerInv, BrokerPlaces, Outside
<1>3. ~ call[c].admitted
  BY <1>1 DEF BrokerInv, CallsFit, RecordsFit
<1> QED BY <1>2, <1>3, BystanderInvariant DEF Broker!Check, Outside, BrokerInv, CallsFit,
    Bystands

LEMMA AdmitOnceInvariant ==
  ASSUME BrokerInv, NEW c \in BrokerCalls, Broker!AdmitOnce(c) PROVE BrokerInv'
<1>1. call[c] \in CallStates /\ call[c].pc = "admit" BY DEF BrokerInv, BrokerTyped,
      Broker!AdmitOnce, Broker!At
<1>2. ~ call[c].admitted
  BY <1>1 DEF BrokerInv, CallsFit, RecordsFit
<1>3. Bystands(c, call[c]) BY <1>2 DEF BrokerInv, CallsFit
<1>4. ASSUME admission = {}, admission' = {c},
             call' = [call EXCEPT ![c].pc = "stage", ![c].admitted = TRUE]
      PROVE  BrokerInv'
  <2>1. PICK x \in CallStates : x = [call[c] EXCEPT !.pc = "stage", !.admitted = TRUE]
    BY <1>1 DEF CallStates, BrokerPlaces, Fresh
  <2>2. call' = [call EXCEPT ![c] = x]
    BY <1>4, <2>1 DEF BrokerInv, BrokerTyped
  <2>3. /\ x.pc = "stage" /\ x.admitted /\ x.staged = call[c].staged
        /\ x.cleanupRecorded = call[c].cleanupRecorded
    BY <1>1, <2>1 DEF CallStates
  <2>4. records = <<>> /\ launches = 0 /\ running = 0 /\ staged = {}
    BY <1>4 DEF BrokerInv, OneAdmission
  <2>5. UNCHANGED <<authority, records, staged, running, launches>>
    BY DEF Broker!AdmitOnce
  <2>6. RecordsFit(x)' /\ BrokerEffectsFit(c, x)'
    BY <1>3, <2>3, <2>4, <2>5, BrokerAssumption
       DEF RecordsFit, BrokerEffectsFit, LeftBehind, Bystands, BrokerCallsAreNames, Outside,
           Settling
  <2>7. Broker!RecordsAreTrue'
    BY <2>5 DEF BrokerInv, Broker!RecordsAreTrue
  <2>8. /\ \A i \in DOMAIN records' : records'[i].call = c
        /\ records' \in Seq(Entries) /\ staged' \subseteq staged \cup {c}
        /\ running' \in {running, 0, c} /\ launches' \in {0, 1} /\ authority' = authority
    BY <2>4, <2>5
  <2> QED BY <1>4, <2>2, <2>3, <2>6, <2>7, <2>8, AdmittedInvariant
<1>5. ASSUME NEW x \in CallStates, call' = [call EXCEPT ![c] = x], x.pc = "catch",
             x.admitted = call[c].admitted, x.staged = call[c].staged,
             x.cleanupRecorded = call[c].cleanupRecorded,
             admission' = admission \/ (admission = {} /\ admission' = {c})
      PROVE  BrokerInv'
  BY <1>2, <1>3, <1>5, BystanderInvariant DEF Broker!AdmitOnce, Outside, Bystands
<1>6. ASSUME admission = {}, admission' = {c},
             Broker!Throws(c, "admission", "catch") PROVE BrokerInv'
  BY <1>5, <1>6, ThrowsCall DEF BrokerInv, BrokerPlaces, Outside, Dependencies
<1>7. ASSUME Broker!Goto(c, "catch"), UNCHANGED admission PROVE BrokerInv'
  BY <1>5, <1>7, GotoCall DEF BrokerInv, BrokerPlaces, Outside
<1> QED BY <1>4, <1>6, <1>7 DEF Broker!AdmitOnce

LEMMA BrokerStageInvariant ==
  ASSUME BrokerInv, NEW c \in BrokerCalls, Broker!Stage(c) PROVE BrokerInv'
<1>1. call[c].pc = "stage" BY DEF Broker!Stage, Broker!At
<1>2. /\ call[c] \in CallStates /\ call[c].admitted /\ admission = {c}
      /\ RecordsFit(call[c]) /\ BrokerEffectsFit(c, call[c])
  BY <1>1, OfAdmitted DEF Outside
<1>3. /\ records = <<>> /\ ~ call[c].cleanupRecorded /\ launches = 0 /\ running = 0
      /\ c \notin staged
  BY <1>1, <1>2 DEF RecordsFit, BrokerEffectsFit, Fresh
<1>4. UNCHANGED <<authority, admission, records, running, launches>> BY DEF Broker!Stage
<1>5. ASSUME NEW x \in CallStates, call' = [call EXCEPT ![c] = x],
             x.pc \in {"launch", "catch"},
             x.admitted, ~ x.cleanupRecorded, staged' \subseteq staged \cup {c},
             c \in staged' => x.staged \/ "staging" \in x.blame
      PROVE  BrokerInv'
  <2>1. RecordsFit(x)'
    BY <1>3, <1>4, <1>5 DEF RecordsFit, HasKind, Fresh, Settling
  <2>2. BrokerEffectsFit(c, x)'
    BY <1>3, <1>4, <1>5, BrokerAssumption
       DEF BrokerEffectsFit, LeftBehind, BrokerCallsAreNames, Settling
  <2>3. Broker!RecordsAreTrue'
    BY <1>3, <1>4 DEF BrokerInv, Broker!RecordsAreTrue
  <2>4. /\ \A i \in DOMAIN records' : records'[i].call = c
        /\ records' \in Seq(Entries)
        /\ running' \in {running, 0, c} /\ launches' \in {0, 1} /\ authority' = authority
    BY <1>3, <1>4
  <2> QED BY <1>2, <1>4, <1>5, <2>1, <2>2, <2>3, <2>4, AdmittedInvariant
<1>6. ASSUME staged' = staged \cup {c}, NEW at \in {"launch", "catch"},
             call' = [call EXCEPT ![c].pc = at, ![c].staged = TRUE]
      PROVE  BrokerInv'
  <2>1. PICK x \in CallStates : x = [call[c] EXCEPT !.pc = at, !.staged = TRUE]
    BY <1>2 DEF CallStates, BrokerPlaces, Fresh, Outside
  <2>2. call' = [call EXCEPT ![c] = x]
    BY <1>6, <2>1 DEF BrokerInv, BrokerTyped
  <2>3. x.pc = at /\ x.staged /\ x.admitted /\ ~ x.cleanupRecorded
    BY <1>2, <1>3, <2>1 DEF CallStates
  <2> QED BY <1>5, <1>6, <2>2, <2>3
<1>7. ASSUME staged' \in {staged, staged \cup {c}},
             Broker!Throws(c, "staging", "catch") PROVE BrokerInv'
  <2>1. PICK x \in CallStates :
            /\ call' = [call EXCEPT ![c] = x] /\ x.pc = "catch"
            /\ x.blame = call[c].blame \cup {"staging"} /\ x.admitted = call[c].admitted
            /\ x.cleanupRecorded = call[c].cleanupRecorded
    BY <1>7, ThrowsCall DEF BrokerInv, BrokerPlaces, Outside, Dependencies
  <2> QED BY <1>2, <1>3, <1>5, <1>7, <2>1
<1> QED BY <1>6, <1>7 DEF Broker!Stage

\* Neither a signal nor a timer decides by itself what is recorded.
LEMMA BrokerSignalInvariant ==
  ASSUME BrokerInv, NEW c \in BrokerCalls, Broker!Abort(c)
         \/ Broker!Timeout(c) PROVE BrokerInv'
<1>1. call[c] \in CallStates BY DEF BrokerInv, BrokerTyped
<1>2. PICK x \in CallStates :
          /\ call' = [call EXCEPT ![c] = x] /\ x.pc = call[c].pc /\ x.blame = call[c].blame
          /\ x.admitted = call[c].admitted /\ x.staged = call[c].staged
          /\ x.cleanupRecorded = call[c].cleanupRecorded /\ x.result = call[c].result
  <2>1. CASE Broker!Abort(c)
    <3>1. PICK code \in {"none", "BROKER_CANCELLED", "BROKER_BUDGET_EXHAUSTED"} :
              code = IF call[c].code = "none"
              /\ Broker!At(c, "running") THEN "BROKER_CANCELLED"
                     ELSE call[c].code
      BY <1>1 DEF CallStates
    <3>2. PICK x \in CallStates : x = [call[c] EXCEPT !.aborted = TRUE, !.code = code]
      BY <1>1 DEF CallStates
    <3>3. call' = [call EXCEPT ![c] = x]
      BY <2>1, <3>1, <3>2 DEF Broker!Abort, BrokerInv, BrokerTyped
    <3> QED BY <1>1, <3>2, <3>3 DEF CallStates
  <2>2. CASE Broker!Timeout(c)
    <3>1. PICK x \in CallStates : x = [call[c] EXCEPT !.code = "BROKER_BUDGET_EXHAUSTED"]
      BY <1>1 DEF CallStates
    <3>2. call' = [call EXCEPT ![c] = x]
      BY <2>2, <3>1 DEF Broker!Timeout, BrokerInv, BrokerTyped
    <3> QED BY <1>1, <3>1, <3>2 DEF CallStates
  <2> QED BY <2>1, <2>2
<1>3. UNCHANGED <<authority, admission, records, staged, running, launches>>
  BY DEF Broker!Abort, Broker!Timeout
<1>4. CASE ~ call[c].admitted
  BY <1>2, <1>3, <1>4, BystanderInvariant DEF BrokerInv, CallsFit, Bystands
<1>5. CASE call[c].admitted
  <2>1. /\ admission = {c} /\ RecordsFit(call[c]) /\ BrokerEffectsFit(c, call[c])
        /\ \A i \in DOMAIN records : records[i].call = c
    BY <1>5, AdmittedAnywhere
  <2>2. RecordsFit(x)' /\ BrokerEffectsFit(c, x)'
    BY <1>2, <1>3, <2>1 DEF RecordsFit, BrokerEffectsFit, LeftBehind, HasKind
  <2>3. Broker!RecordsAreTrue' BY <1>3 DEF BrokerInv, Broker!RecordsAreTrue
  <2> QED BY <1>2, <1>3, <1>5, <2>1, <2>2, <2>3, AdmittedInvariant DEF BrokerInv, BrokerTyped
<1> QED BY <1>4, <1>5

\* The admitted call moves without an entry.
LEMMA BrokerMoveInvariant ==
  ASSUME BrokerInv, NEW c \in BrokerCalls, call[c].admitted, NEW x \in CallStates,
         call' = [call EXCEPT ![c] = x], x.admitted,
         UNCHANGED <<authority, admission, records, launches>>,
         staged' \subseteq staged, running' \in {running, 0},
         RecordsFit(x), BrokerEffectsFit(c, x)'
  PROVE  BrokerInv'
<1>1. admission = {c} /\ \A i \in DOMAIN records : records[i].call = c
  BY AdmittedAnywhere
<1>2. RecordsFit(x)' BY DEF RecordsFit, HasKind
<1>3. Broker!RecordsAreTrue' BY DEF BrokerInv, Broker!RecordsAreTrue
<1>4. /\ \A i \in DOMAIN records' : records'[i].call = c
      /\ records' \in Seq(Entries) /\ launches' \in {0, 1}
  BY <1>1 DEF BrokerInv, BrokerTyped
<1> QED BY <1>1, <1>2, <1>3, <1>4, AdmittedInvariant

LEMMA LaunchInvariant ==
  ASSUME BrokerInv, NEW c \in BrokerCalls, Broker!Launch(c) PROVE BrokerInv'
<1>1. call[c].pc = "launch" BY DEF Broker!Launch, Broker!At
<1>2. /\ call[c] \in CallStates /\ call[c].admitted /\ admission = {c}
      /\ RecordsFit(call[c]) /\ BrokerEffectsFit(c, call[c])
  BY <1>1, OfAdmitted DEF Outside
<1>3. records = <<>> /\ ~ call[c].cleanupRecorded /\ launches = 0 /\ running = 0
  BY <1>1, <1>2 DEF RecordsFit, BrokerEffectsFit, Fresh
<1>4. UNCHANGED <<authority, admission, records, staged>> BY DEF Broker!Launch
<1>5. call[c].staged \/ LeftBehind(c, call[c])
  BY <1>2 DEF BrokerEffectsFit
<1>6. CASE call[c].aborted
  <2>1. PICK x \in CallStates : x = [call[c] EXCEPT !.pc = "precancel",
        !.code = "BROKER_CANCELLED"]
    BY <1>2 DEF CallStates, BrokerPlaces, Fresh
  <2>2. call' = [call EXCEPT ![c] = x] /\ UNCHANGED <<running, launches>>
    BY <1>6, <2>1 DEF Broker!Launch, BrokerInv, BrokerTyped
  <2>3. /\ x.pc = "precancel" /\ x.admitted /\ ~ x.cleanupRecorded /\ x.blame = call[c].blame
        /\ x.staged = call[c].staged
    BY <1>2, <1>3, <2>1 DEF CallStates
  <2>4. RecordsFit(x)
    BY <1>3, <2>3 DEF RecordsFit, HasKind, Fresh, Settling
  <2>5. BrokerEffectsFit(c, x)'
    BY <1>3, <1>4, <1>5, <2>2, <2>3, BrokerAssumption
       DEF BrokerEffectsFit, LeftBehind, BrokerCallsAreNames, Settling
  <2> QED BY <1>2, <1>4, <2>2, <2>3, <2>4, <2>5, BrokerMoveInvariant
<1>7. CASE ~ call[c].aborted
  <2>1. PICK x \in CallStates :
            /\ call' = [call EXCEPT ![c] = x] /\ x.pc = "running"
            /\ x.blame = call[c].blame /\ x.admitted = call[c].admitted
            /\ x.staged = call[c].staged /\ x.cleanupRecorded = call[c].cleanupRecorded
    BY <1>7, GotoCall DEF Broker!Launch, BrokerInv, BrokerPlaces, Fresh
  <2>2. running' = c /\ launches' = 1
    BY <1>3, <1>7 DEF Broker!Launch
  <2>3. RecordsFit(x)'
    BY <1>2, <1>3, <1>4, <2>1 DEF RecordsFit, HasKind, Fresh, Settling
  <2>4. BrokerEffectsFit(c, x)'
    BY <1>4, <1>5, <2>1, <2>2 DEF BrokerEffectsFit, LeftBehind, Settling
  <2>5. Broker!RecordsAreTrue'
    BY <1>3, <1>4, <2>2 DEF Broker!RecordsAreTrue
  <2>6. /\ \A i \in DOMAIN records' : records'[i].call = c
        /\ records' \in Seq(Entries) /\ staged' \subseteq staged \cup {c}
        /\ running' \in {running, 0, c} /\ launches' \in {0, 1} /\ authority' = authority
    BY <1>3, <1>4, <2>2
  <2> QED BY <1>2, <1>4, <2>1, <2>3, <2>4, <2>5, <2>6, AdmittedInvariant
<1> QED BY <1>6, <1>7

\* The container's race is over, or its cancellation was tried.
LEMMA RunEnds ==
  ASSUME BrokerInv, NEW c \in BrokerCalls, call[c].pc \in {"running", "cancel", "precancel"},
         NEW x \in CallStates, call' = [call EXCEPT ![c] = x],
         x.pc \in {"cancel", "catch", "cleanup"}, x.admitted, ~ x.cleanupRecorded,
         x.staged = call[c].staged, call[c].blame \subseteq x.blame,
         UNCHANGED <<authority, admission, records, staged, launches>>,
         running' \in {running, 0},
         x.pc = "cleanup" => running' = 0 /\ x.result # "none",
         running' = c => x.pc = "cancel" \/ x.blame \cap {"cancel", "execution"} # {}
  PROVE  BrokerInv'
<1>1. /\ call[c] \in CallStates /\ call[c].admitted
      /\ RecordsFit(call[c]) /\ BrokerEffectsFit(c, call[c])
  BY OfAdmitted DEF Outside
<1>2. records = <<>>
  BY <1>1 DEF RecordsFit, Fresh
<1>3. RecordsFit(x)
  BY <1>2 DEF RecordsFit, HasKind, Fresh, Settling
<1>4. BrokerEffectsFit(c, x)'
  BY <1>1 DEF BrokerEffectsFit, LeftBehind, Settling
<1> QED BY <1>1, <1>3, <1>4, BrokerMoveInvariant

LEMMA ContainerEndsInvariant ==
  ASSUME BrokerInv, NEW c \in BrokerCalls, Broker!ContainerEnds(c) \/ Broker!Lost(c)
         \/ Broker!Precancel(c) \/ Broker!Cancel(c)
  PROVE  BrokerInv'
<1>1. call[c].pc \in {"running", "cancel", "precancel"}
  BY DEF Broker!ContainerEnds, Broker!Lost, Broker!Precancel, Broker!Cancel, Broker!At
<1>2. /\ call[c] \in CallStates /\ call[c].admitted
      /\ RecordsFit(call[c]) /\ BrokerEffectsFit(c, call[c])
  BY <1>1, OfAdmitted DEF Outside
<1>3. ~ call[c].cleanupRecorded
  BY <1>1, <1>2 DEF RecordsFit, Fresh
<1>4. UNCHANGED <<authority, admission, records, staged, launches>>
  BY DEF Broker!ContainerEnds, Broker!Lost, Broker!Precancel, Broker!Cancel
<1>5. c # 0 BY BrokerAssumption DEF BrokerCallsAreNames
<1>6. ASSUME NEW answer \in Broker!Answers
             \cup {Broker!BudgetAnswer(TRUE), Broker!BudgetAnswer(FALSE)},
             call' = Broker!Ended(c, answer), running' \in {running, 0}, running' # c,
             Broker!Valid(answer) => running' = 0
      PROVE  BrokerInv'
  <2>0. answer.state \in BrokerOutcomes
    BY DEF Broker!Answers, Broker!BudgetAnswer, BrokerOutcomes
  <2>1. PICK at \in {"cleanup",
        "catch"} : at = IF Broker!Valid(answer) THEN "cleanup" ELSE "catch"
    OBVIOUS
  <2>2. PICK r \in BrokerOutcomes
        \cup {"none"} : r = IF Broker!Valid(answer) THEN answer.state ELSE call[c].result
    BY <1>2, <2>0 DEF CallStates
  <2>3. PICK x \in CallStates : x = [call[c] EXCEPT !.pc = at, !.result = r]
    BY <1>2, <2>1 DEF CallStates, BrokerPlaces, Fresh, Outside
  <2>4. call' = [call EXCEPT ![c] = x]
    BY <1>6, <2>1, <2>2, <2>3 DEF Broker!Ended, BrokerInv, BrokerTyped
  <2>5. /\ x.pc = at /\ x.result = r /\ x.admitted /\ ~ x.cleanupRecorded
        /\ x.staged = call[c].staged /\ x.blame = call[c].blame
    BY <1>2, <1>3, <2>3 DEF CallStates
  <2>6. at = "cleanup" => running' = 0 /\ r # "none"
    BY <1>6, <2>0, <2>1, <2>2 DEF BrokerOutcomes
  <2> QED BY <1>1, <1>2, <1>4, <1>6, <2>1, <2>4, <2>5, <2>6, RunEnds
<1>7. ASSUME NEW d \in Dependencies, NEW at \in {"catch", "cancel"}, Broker!Throws(c, d, at),
             running' \in {running, 0}, running' = c => at = "cancel" \/ d \in {"cancel", "execution"}
      PROVE  BrokerInv'
  <2>1. BrokerTyped /\ at \in BrokerPlaces BY DEF BrokerInv, BrokerPlaces, Fresh, Outside
  <2>2. PICK x \in CallStates :
            /\ call' = [call EXCEPT ![c] = x] /\ x.pc = at
            /\ x.blame = call[c].blame \cup {d} /\ x.admitted = call[c].admitted
            /\ x.staged = call[c].staged /\ x.cleanupRecorded = call[c].cleanupRecorded
    BY <1>7, <2>1, ThrowsCall
  <2> QED BY <1>1, <1>2, <1>3, <1>4, <1>7, <2>2, RunEnds
<1>8. ASSUME Broker!Goto(c, "cancel"), running' = running PROVE BrokerInv'
  <2>1. PICK x \in CallStates :
            /\ call' = [call EXCEPT ![c] = x] /\ x.pc = "cancel"
            /\ x.blame = call[c].blame /\ x.admitted = call[c].admitted
            /\ x.staged = call[c].staged /\ x.cleanupRecorded = call[c].cleanupRecorded
    BY <1>8, GotoCall DEF BrokerInv, BrokerPlaces, Fresh
  <2> QED BY <1>1, <1>2, <1>3, <1>4, <1>8, <2>1, RunEnds
<1>9. CASE Broker!ContainerEnds(c)
  <2>1. running = c BY <1>9 DEF Broker!ContainerEnds
  <2>2. CASE running' = 0 /\ \E answer \in Broker!Answers : call' = Broker!Ended(c, answer)
    BY <1>5, <1>6, <2>2
  <2>3. CASE running' \in {0, c} /\ Broker!Throws(c, "execution", "catch")
    BY <1>7, <2>1, <2>3 DEF Dependencies
  <2> QED BY <1>9, <2>2, <2>3 DEF Broker!ContainerEnds
<1>10. CASE Broker!Lost(c)
  BY <1>8, <1>10 DEF Broker!Lost
<1>11. CASE Broker!Precancel(c)
  BY <1>7, <1>8, <1>11 DEF Broker!Precancel, Dependencies
<1>12. CASE Broker!Cancel(c)
  <2>1. CASE running' = IF running = c THEN 0 ELSE running
    <3>1. running' # c /\ running' \in {running, 0} BY <1>5, <2>1
    <3>2. CASE call' = [call EXCEPT ![c].pc = "catch", ![c].cancelled = TRUE]
      <4>1. PICK x \in CallStates : x = [call[c] EXCEPT !.pc = "catch", !.cancelled = TRUE]
        BY <1>2 DEF CallStates, BrokerPlaces, Outside
      <4>2. call' = [call EXCEPT ![c] = x]
        BY <3>2, <4>1 DEF BrokerInv, BrokerTyped
      <4>3. /\ x.pc = "catch" /\ x.admitted /\ ~ x.cleanupRecorded
            /\ x.staged = call[c].staged /\ x.blame = call[c].blame
        BY <1>2, <1>3, <4>1 DEF CallStates
      <4> QED BY <1>1, <1>4, <3>1, <4>2, <4>3, RunEnds
    <3>3. CASE \E late \in BOOLEAN : call' = Broker!Ended(c, Broker!BudgetAnswer(late))
      <4>1. running' = 0
        <5>1. running \in {0, c}
          <6> SUFFICES ASSUME running # 0, running # c PROVE FALSE OBVIOUS
          <6>1. running \in BrokerCalls BY DEF BrokerInv, BrokerTyped
          <6>2. PICK d \in BrokerCalls : d = running BY <6>1
          <6>3. ~ Bystands(d, call[d]) BY <6>2 DEF Bystands
          <6>4. admission = {d} BY <6>3 DEF BrokerInv, CallsFit
          <6>5. admission = {c} BY <1>2 DEF BrokerInv, CallsFit
          <6> QED BY <6>2, <6>4, <6>5
        <5> QED BY <2>1, <5>1
      <4> QED BY <1>6, <3>1, <3>3, <4>1
    <3>4. CASE Broker!Throws(c, "cancel", "catch")
      BY <1>7, <3>1, <3>4 DEF Dependencies
    <3> QED BY <1>12, <3>2, <3>3, <3>4 DEF Broker!Cancel
  <2>2. CASE UNCHANGED running /\ Broker!Throws(c, "cancel", "catch")
    BY <1>7, <2>2 DEF Dependencies
  <2> QED BY <1>12, <2>1, <2>2 DEF Broker!Cancel
<1> QED BY <1>9, <1>10, <1>11, <1>12

LEMMA CleanupInvariant ==
  ASSUME BrokerInv, NEW c \in BrokerCalls, Broker!Cleanup(c) PROVE BrokerInv'
<1>1. call[c].pc = "cleanup" BY DEF Broker!Cleanup, Broker!At
<1>2. /\ call[c] \in CallStates /\ call[c].admitted
      /\ RecordsFit(call[c]) /\ BrokerEffectsFit(c, call[c])
  BY <1>1, OfAdmitted DEF Outside
<1>3. /\ records = <<>> /\ ~ call[c].cleanupRecorded /\ running = 0
      /\ call[c].result # "none" /\ c # 0
  BY <1>1, <1>2, BrokerAssumption DEF RecordsFit, BrokerEffectsFit, Fresh, BrokerCallsAreNames
<1>4. UNCHANGED <<authority, admission, records, running, launches>> BY DEF Broker!Cleanup
<1>5. ASSUME NEW x \in CallStates, call' = [call EXCEPT ![c] = x],
             x.admitted, ~ x.cleanupRecorded, x.result # "none", staged' \subseteq staged,
             \/ x.pc = "recordRemoved" /\ c \notin staged'
             \/ x.pc = "recordResidue" /\ "cleanup" \in x.blame
      PROVE  BrokerInv'
  <2>1. RecordsFit(x)
    BY <1>3, <1>5 DEF RecordsFit, HasKind, Fresh, Settling
  <2>2. BrokerEffectsFit(c, x)'
    BY <1>3, <1>4, <1>5 DEF BrokerEffectsFit, LeftBehind, Settling
  <2> QED BY <1>2, <1>3, <1>4, <1>5, <2>1, <2>2, BrokerMoveInvariant
<1>6. CASE staged' = staged \ {c} /\ Broker!Goto(c, "recordRemoved")
  BY <1>2, <1>3, <1>5, <1>6, GotoCall DEF BrokerInv, BrokerPlaces, Fresh
<1>7. CASE staged' = staged /\ Broker!Throws(c, "cleanup", "recordResidue")
  BY <1>2, <1>3, <1>5, <1>7, ThrowsCall DEF BrokerInv, BrokerPlaces, Dependencies
<1> QED BY <1>6, <1>7 DEF Broker!Cleanup

\* The record of a cleanup keeps the result that was given.
LEMMA RecordedCall ==
  ASSUME BrokerTyped, NEW c \in BrokerCalls, NEW r \in BrokerOutcomes
  PROVE  /\ Broker!Recorded(c, r) \in CallStates /\ Broker!Recorded(c, r).pc = "recordResult"
         /\ Broker!Recorded(c, r).cleanupRecorded /\ ~ Broker!Recorded(c, r).staged
         /\ Broker!Recorded(c, r).result = r /\ Broker!Recorded(c, r).blame = call[c].blame
         /\ Broker!Recorded(c, r).admitted = call[c].admitted
<1>1. call[c] \in CallStates BY DEF BrokerTyped
<1> QED BY <1>1 DEF Broker!Recorded, CallStates, BrokerPlaces

\* What there is of entries once one was written.
LEMMA EntryIsThere ==
  ASSUME BrokerInv, NEW e \in Entries, records' = Append(records, e)
  PROVE  /\ HasKind(e.kind)' /\ \E i \in DOMAIN records' : records'[i].state = e.state
         /\ \A kind : HasKind(kind) => HasKind(kind)'
         /\ \A kind : HasKind(kind)' => HasKind(kind) \/ kind = e.kind
<1>1. /\ DOMAIN records' = 1..(Len(records) + 1) /\ DOMAIN records = 1..Len(records)
      /\ Len(records) \in Nat /\ \A i \in DOMAIN records : records'[i] = records[i]
      /\ records'[Len(records) + 1] = e
  BY AfterEntry DEF BrokerInv, BrokerTyped
<1>2. Len(records) + 1 \in DOMAIN records' /\ DOMAIN records \subseteq DOMAIN records'
  BY <1>1
<1>3. \A i \in DOMAIN records' : i \in DOMAIN records \/ i = Len(records) + 1
  BY <1>1
<1> QED BY <1>1, <1>2, <1>3 DEF HasKind

LEMMA RecordCleanupInvariant ==
  ASSUME BrokerInv, NEW c \in BrokerCalls, Broker!RecordRemoved(c)
         \/ Broker!RecordResidue(c) PROVE BrokerInv'
<1>1. call[c].pc \in {"recordRemoved", "recordResidue"}
  BY DEF Broker!RecordRemoved, Broker!RecordResidue, Broker!At
<1>2. /\ call[c] \in CallStates /\ call[c].admitted
      /\ RecordsFit(call[c]) /\ BrokerEffectsFit(c, call[c])
  BY <1>1, OfAdmitted DEF Outside
<1>3. /\ ~ HasKind("result") /\ ~ call[c].cleanupRecorded /\ running = 0
      /\ call[c].result \in BrokerOutcomes /\ c # 0 /\ LeftBehind(c, call[c])
  BY <1>1, <1>2, BrokerAssumption
     DEF RecordsFit, BrokerEffectsFit, Fresh, HasKind, CallStates, BrokerCallsAreNames,
         LeftBehind
<1>4. UNCHANGED <<authority, admission, staged, running, launches>>
  BY DEF Broker!RecordRemoved, Broker!RecordResidue
<1>5. ASSUME NEW r \in BrokerOutcomes, NEW state \in {"removed", "residue"},
             NEW at \in {"recordResidue", "catch"},
             Broker!Journalled(c, "cleanup", state, Broker!Recorded(c, r), at),
             state = "removed" => c \notin staged, state = "residue" => r # "completed"
      PROVE  BrokerInv'
  <2>1. PICK e \in Entries : e = [call |-> c, kind |-> "cleanup", state |-> state]
    BY DEF Entries
  <2>2. Broker!Record(c, "cleanup", state) = Append(records, e)
    BY <2>1 DEF Broker!Record
  <2>3. /\ Broker!Recorded(c, r) \in CallStates /\ Broker!Recorded(c, r).pc = "recordResult"
        /\ Broker!Recorded(c, r).cleanupRecorded /\ ~ Broker!Recorded(c, r).staged
        /\ Broker!Recorded(c, r).result = r /\ Broker!Recorded(c, r).blame = call[c].blame
        /\ Broker!Recorded(c, r).admitted = call[c].admitted
    BY RecordedCall DEF BrokerInv
  <2>4. PICK x \in CallStates :
            /\ call' = [call EXCEPT ![c] = x]
            /\ \/ x = Broker!Recorded(c, r) /\ records' = Append(records, e)
               \/ /\ records' \in {records, Append(records, e)}
                  /\ x.pc = at /\ x.blame = call[c].blame \cup {"journal"}
                  /\ x.admitted = call[c].admitted /\ x.staged = call[c].staged
                  /\ x.cleanupRecorded = call[c].cleanupRecorded /\ x.result = call[c].result
    BY <1>5, <2>2, <2>3, JournalledCall DEF BrokerPlaces, Outside
  <2>5. /\ e.call = c /\ e.kind = "cleanup" /\ e.state = state
        /\ e.state # "completed" /\ x.admitted
    BY <1>2, <2>1, <2>3, <2>4
  <2>6. records' \in {records, Append(records, e)} BY <2>4
  <2>7. ~ HasKind("result")'
    BY <1>3, <2>5, <2>6, EntryIsThere DEF HasKind
  <2>8. BrokerEffectsFit(c, x)
    BY <1>1, <1>2, <1>3, <2>3, <2>4 DEF BrokerEffectsFit, LeftBehind, Settling
  <2>9. RecordsFit(x)'
    <3>1. CASE x = Broker!Recorded(c, r) /\ records' = Append(records, e)
      <4>1. HasKind("cleanup")' /\ \E i \in DOMAIN records' : records'[i].state = state
        BY <2>5, <3>1, EntryIsThere
      <4> QED BY <1>5, <2>3, <2>7, <3>1, <4>1 DEF RecordsFit, Fresh, Settling, BrokerOutcomes
    <3>2. CASE x.pc = at /\ x.cleanupRecorded = call[c].cleanupRecorded
          /\ x.result = call[c].result
      BY <1>3, <2>7, <3>2 DEF RecordsFit, Fresh, Settling, BrokerOutcomes
    <3> QED BY <2>4, <3>1, <3>2
  <2> QED BY <1>2, <1>4, <1>5, <2>4, <2>5, <2>6, <2>8, <2>9, EntryInvariant
<1>6. CASE Broker!RecordRemoved(c)
  <2>1. c \notin staged
    BY <1>2, <1>6 DEF Broker!RecordRemoved, Broker!At, BrokerEffectsFit
  <2> QED BY <1>3, <1>5, <1>6, <2>1 DEF Broker!RecordRemoved
<1>7. CASE Broker!RecordResidue(c)
  BY <1>5, <1>7 DEF Broker!RecordResidue, BrokerOutcomes
<1> QED BY <1>6, <1>7

LEMMA RecordResultInvariant ==
  ASSUME BrokerInv, NEW c \in BrokerCalls, Broker!RecordResult(c) PROVE BrokerInv'
<1>1. call[c].pc = "recordResult" BY DEF Broker!RecordResult, Broker!At
<1>2. /\ call[c] \in CallStates /\ call[c].admitted
      /\ RecordsFit(call[c]) /\ BrokerEffectsFit(c, call[c])
  BY <1>1, OfAdmitted DEF Outside
<1>3. /\ ~ HasKind("result") /\ HasKind("cleanup") /\ running = 0 /\ LeftBehind(c, call[c])
      /\ call[c].result \in BrokerOutcomes /\ c # 0
      /\ call[c].result = "completed" => \E i \in DOMAIN records : records[i].state = "removed"
  BY <1>1, <1>2, BrokerAssumption
     DEF RecordsFit, BrokerEffectsFit, CallStates, BrokerCallsAreNames
<1>4. UNCHANGED <<authority, admission, staged, running, launches>>
  BY DEF Broker!RecordResult
<1>5. PICK e \in Entries : e = [call |-> c, kind |-> "result", state |-> call[c].result]
  BY <1>3 DEF Entries
<1>6. Broker!Record(c, "result", call[c].result) = Append(records, e)
  BY <1>5 DEF Broker!Record
<1>7. PICK y \in CallStates : y = [call[c] EXCEPT !.pc = "returned"]
  BY <1>2 DEF CallStates, BrokerPlaces, Outside
<1>8. y.pc = "returned" /\ y.admitted /\ y.blame = call[c].blame
  BY <1>2, <1>7 DEF CallStates
<1>9. PICK x \in CallStates :
          /\ call' = [call EXCEPT ![c] = x]
          /\ \/ x = y /\ records' = Append(records, e)
             \/ /\ records' \in {records, Append(records, e)}
                /\ x.pc = "catch" /\ x.blame = call[c].blame \cup {"journal"}
                /\ x.admitted = call[c].admitted /\ x.staged = call[c].staged
                /\ x.cleanupRecorded = call[c].cleanupRecorded /\ x.result = call[c].result
  <2>1. Broker!Journalled(c, "result", call[c].result, y, "catch") /\ "catch" \in BrokerPlaces
    BY <1>7 DEF Broker!RecordResult, BrokerPlaces, Outside
  <2> QED BY <1>6, <2>1, JournalledCall
<1>10. e.call = c /\ e.kind = "result" /\ e.state = call[c].result
  BY <1>5
<1>11. records' \in {records, Append(records, e)} /\ x.admitted
  BY <1>2, <1>8, <1>9
<1>12. BrokerEffectsFit(c, x)
  BY <1>2, <1>3, <1>8, <1>9 DEF BrokerEffectsFit, LeftBehind, Settling
<1>13. RecordsFit(x)'
  <2>1. CASE x = y /\ records' = Append(records, e)
    <3>1. HasKind("result")' /\ HasKind("cleanup")'
      BY <1>3, <1>10, <2>1, EntryIsThere
    <3> QED BY <1>8, <2>1, <3>1 DEF RecordsFit, Fresh, Settling
  <2>2. CASE x.pc = "catch" /\ x.blame = call[c].blame \cup {"journal"}
             /\ x.cleanupRecorded = call[c].cleanupRecorded
    <3>1. call[c].cleanupRecorded
      BY <1>1, <1>2 DEF RecordsFit
    <3> QED BY <2>2, <3>1 DEF RecordsFit, Fresh, Settling
  <2> QED BY <1>9, <2>1, <2>2
<1>14. /\ e.kind = "result" => ~ HasKind("result")
       /\ e.state = "removed" => c \notin staged
       /\ e.state = "completed" =>
            running = 0 /\ \E i \in DOMAIN records : records[i].state = "removed"
  BY <1>3, <1>10 DEF BrokerOutcomes
<1> QED BY <1>2, <1>4, <1>9, <1>10, <1>11, <1>12, <1>13, <1>14, EntryInvariant

\* A call that throws: what it gets when it has no entry to write, or when it wrote.
LEMMA CatchInvariant ==
  ASSUME BrokerInv, NEW c \in BrokerCalls, Broker!Catch(c) PROVE BrokerInv'
<1>1. call[c].pc = "catch" /\ call[c] \in CallStates
  BY DEF Broker!Catch, Broker!At, BrokerInv, BrokerTyped
<1>2. UNCHANGED <<authority, admission, staged, running, launches>>
  BY DEF Broker!Catch
<1>3. PICK y \in CallStates : y = [call[c] EXCEPT !.pc = "finally",
      !.result = Broker!Failure(c)]
  BY <1>1 DEF CallStates, BrokerPlaces, Outside, Broker!Failure, BrokerOutcomes
<1>4. /\ y.pc = "finally" /\ y.admitted = call[c].admitted /\ y.staged = call[c].staged
      /\ y.cleanupRecorded = call[c].cleanupRecorded /\ y.blame = call[c].blame
  BY <1>1, <1>3 DEF CallStates
<1>5. CASE ~ call[c].admitted
  <2>1. call' = [call EXCEPT ![c] = y] /\ records' = records
    BY <1>3, <1>5 DEF Broker!Catch, Broker!Unsettled
  <2>2. Bystands(c, call[c]) BY <1>5 DEF BrokerInv, CallsFit
  <2> QED BY <1>2, <1>4, <1>5, <2>1, <2>2, BystanderInvariant DEF Bystands, Outside
<1>6. CASE call[c].admitted
  <2>1. RecordsFit(call[c]) /\ BrokerEffectsFit(c, call[c])
    BY <1>6, AdmittedAnywhere
  <2>2. BrokerEffectsFit(c, y)
    BY <1>1, <1>4, <2>1 DEF BrokerEffectsFit, LeftBehind, Settling
  <2>3. CASE call[c].cleanupRecorded
    <3>1. call' = [call EXCEPT ![c] = y] /\ records' = records
      BY <1>3, <2>3 DEF Broker!Catch, Broker!Unsettled
    <3>2. RecordsFit(y)
      BY <1>1, <1>4, <2>1, <2>3 DEF RecordsFit, Fresh, Settling
    <3>3. BrokerEffectsFit(c, y)'
      BY <1>2, <2>2 DEF BrokerEffectsFit, LeftBehind
    <3> QED BY <1>2, <1>4, <1>6, <3>1, <3>2, <3>3, BrokerMoveInvariant DEF BrokerInv,
        BrokerTyped
  <2>4. CASE ~ call[c].cleanupRecorded
    <3>1. ~ HasKind("result") BY <1>1, <2>1, <2>4 DEF RecordsFit
    <3>0. PICK s \in {"cancelled", "failed"} : s = Broker!Failure(c)
      BY DEF Broker!Failure
    <3>2. PICK e \in Entries : e = [call |-> c, kind |-> "result", state |-> s]
      BY DEF Entries, BrokerOutcomes
    <3>3. Broker!Record(c, "result", s) = Append(records, e) BY <3>2 DEF Broker!Record
    <3>4. PICK x \in CallStates :
              /\ call' = [call EXCEPT ![c] = x]
              /\ \/ x = y /\ records' = Append(records, e)
                 \/ /\ records' \in {records, Append(records, e)}
                    /\ x.pc = "finally" /\ x.blame = call[c].blame \cup {"journal"}
                    /\ x.admitted = call[c].admitted /\ x.staged = call[c].staged
                    /\ x.cleanupRecorded = call[c].cleanupRecorded
                    /\ x.result = call[c].result
      <4>1. Broker!Journalled(c, "result", s, y, "finally") /\ "finally" \in BrokerPlaces
        BY <1>3, <1>6, <2>4, <3>0 DEF Broker!Catch, Broker!Unsettled, BrokerPlaces, Outside
      <4> QED BY <3>3, <4>1, JournalledCall
    <3>5. /\ e.call = c /\ e.kind = "result" /\ e.state # "completed" /\ e.state # "removed"
      BY <3>2
    <3>6. BrokerEffectsFit(c, x)
      BY <1>1, <2>1, <2>2, <3>4 DEF BrokerEffectsFit, LeftBehind, Settling
    <3>7. RecordsFit(x)'
      <4>1. CASE x = y /\ records' = Append(records, e)
        <5>1. HasKind("result")' BY <3>5, <4>1, EntryIsThere
        <5> QED BY <1>4, <2>4, <4>1, <5>1 DEF RecordsFit, Fresh, Settling
      <4>2. CASE x.pc = "finally" /\ x.blame = call[c].blame \cup {"journal"}
        BY <4>2 DEF RecordsFit, Fresh, Settling
      <4> QED BY <3>4, <4>1, <4>2
    <3>8. x.admitted /\ records' \in {records, Append(records, e)}
      BY <1>4, <1>6, <3>4
    <3> QED BY <1>2, <1>6, <3>1, <3>4, <3>5, <3>6, <3>7, <3>8, EntryInvariant
  <2> QED BY <2>3, <2>4
<1> QED BY <1>5, <1>6

LEMMA FinallyInvariant ==
  ASSUME BrokerInv, NEW c \in BrokerCalls, Broker!Finally(c) PROVE BrokerInv'
<1>1. call[c].pc = "finally" /\ call[c] \in CallStates
  BY DEF Broker!Finally, Broker!At, BrokerInv, BrokerTyped
<1>2. UNCHANGED <<authority, admission, records, running, launches>>
  BY DEF Broker!Finally
<1>3. CASE ~ call[c].admitted
  <2>1. Bystands(c, call[c]) BY <1>3 DEF BrokerInv, CallsFit
  <2>2. Broker!Goto(c, "returned") /\ staged' = staged
    BY <1>3, <2>1 DEF Broker!Finally, Bystands, Broker!Unsettled
  <2>3. PICK x \in CallStates :
            /\ call' = [call EXCEPT ![c] = x] /\ x.pc = "returned"
            /\ x.admitted = call[c].admitted
            /\ x.staged = call[c].staged /\ x.cleanupRecorded = call[c].cleanupRecorded
    BY <2>2, GotoCall DEF BrokerInv, BrokerPlaces, Outside
  <2> QED BY <1>2, <1>3, <2>1, <2>2, <2>3, BystanderInvariant DEF Bystands, Outside
<1>4. CASE call[c].admitted
  <2>1. RecordsFit(call[c]) /\ BrokerEffectsFit(c, call[c])
    BY <1>4, AdmittedAnywhere
  <2>2. /\ "journal" \in call[c].blame \/ HasKind("result")
        /\ call[c].cleanupRecorded => "journal" \in call[c].blame
        /\ running = c => call[c].blame \cap {"cancel", "execution"} # {}
        /\ call[c].staged \/ LeftBehind(c, call[c])
    BY <1>1, <2>1 DEF RecordsFit, BrokerEffectsFit
  <2>3. ASSUME NEW x \in CallStates, call' = [call EXCEPT ![c] = x], x.admitted,
               x.cleanupRecorded = call[c].cleanupRecorded, call[c].blame \subseteq x.blame,
               staged' \subseteq staged, LeftBehind(c, x)',
               \/ x.pc = "returned" /\ call[c].cleanupRecorded
               \/ x.pc \in Settling /\ ~ call[c].cleanupRecorded,
               x.pc = "recordLast" => c \notin staged'
        PROVE  BrokerInv'
    <3>1. RecordsFit(x)
      BY <2>2, <2>3 DEF RecordsFit, Fresh, Settling
    <3>2. BrokerEffectsFit(c, x)'
      BY <1>2, <2>2, <2>3 DEF BrokerEffectsFit, Settling
    <3> QED BY <1>2, <1>4, <2>3, <3>1, <3>2, BrokerMoveInvariant
  <2>4. Broker!Unsettled(c) <=> ~ call[c].cleanupRecorded
    BY <1>4 DEF Broker!Unsettled
  <2>5. CASE ~ call[c].staged
        /\ Broker!Goto(c, IF Broker!Unsettled(c) THEN "recordNone" ELSE "returned")
             /\ UNCHANGED staged
    <3>1. PICK at \in {"recordNone",
          "returned"} : at = IF Broker!Unsettled(c) THEN "recordNone" ELSE "returned"
      OBVIOUS
    <3>2. at \in BrokerPlaces /\ BrokerTyped /\ Broker!Goto(c, at) BY <2>5, <3>1
          DEF BrokerInv, BrokerPlaces, Outside, Settling
    <3>3. PICK x \in CallStates :
            /\ call' = [call EXCEPT ![c] = x] /\ x.pc = at
            /\ x.blame = call[c].blame /\ x.admitted = call[c].admitted
            /\ x.staged = call[c].staged /\ x.cleanupRecorded = call[c].cleanupRecorded
      BY <3>2, GotoCall
    <3>4. LeftBehind(c, x)' BY <2>2, <2>5, <3>3 DEF LeftBehind
    <3> QED BY <1>4, <2>3, <2>4, <2>5, <3>1, <3>3, <3>4 DEF Settling
  <2>6. CASE staged' = staged \ {c}
        /\ Broker!Goto(c, IF Broker!Unsettled(c) THEN "recordLast" ELSE "returned")
    <3>1. PICK at \in {"recordLast",
          "returned"} : at = IF Broker!Unsettled(c) THEN "recordLast" ELSE "returned"
      OBVIOUS
    <3>2. at \in BrokerPlaces /\ BrokerTyped /\ Broker!Goto(c, at) BY <2>6, <3>1
          DEF BrokerInv, BrokerPlaces, Outside, Settling
    <3>3. PICK x \in CallStates :
            /\ call' = [call EXCEPT ![c] = x] /\ x.pc = at
            /\ x.blame = call[c].blame /\ x.admitted = call[c].admitted
            /\ x.staged = call[c].staged /\ x.cleanupRecorded = call[c].cleanupRecorded
      BY <3>2, GotoCall
    <3>4. LeftBehind(c, x)' BY <2>6 DEF LeftBehind
    <3> QED BY <1>4, <2>3, <2>4, <2>6, <3>1, <3>3, <3>4 DEF Settling
  <2>7. CASE staged' = staged
             /\ Broker!Throws(c, "cleanup",
                IF Broker!Unsettled(c) THEN "recordLeft" ELSE "returned")
    <3>1. PICK at \in {"recordLeft",
          "returned"} : at = IF Broker!Unsettled(c) THEN "recordLeft" ELSE "returned"
      OBVIOUS
    <3>2. at \in BrokerPlaces /\ BrokerTyped /\ Broker!Throws(c, "cleanup", at)
          /\ "cleanup" \in Dependencies
      BY <2>7, <3>1 DEF BrokerInv, BrokerPlaces, Outside, Settling, Dependencies
    <3>3. PICK x \in CallStates :
            /\ call' = [call EXCEPT ![c] = x] /\ x.pc = at
            /\ x.blame = call[c].blame \cup {"cleanup"} /\ x.admitted = call[c].admitted
            /\ x.staged = call[c].staged /\ x.cleanupRecorded = call[c].cleanupRecorded
      BY <3>2, ThrowsCall
    <3>4. LeftBehind(c, x)' BY <3>3 DEF LeftBehind
    <3> QED BY <1>4, <2>3, <2>4, <2>7, <3>1, <3>3, <3>4 DEF Settling
  <2> QED BY <2>5, <2>6, <2>7 DEF Broker!Finally
<1> QED BY <1>3, <1>4

LEMMA RecordLastInvariant ==
  ASSUME BrokerInv, NEW c \in BrokerCalls, Broker!RecordLast(c) PROVE BrokerInv'
<1>1. call[c].pc \in Settling BY DEF Broker!RecordLast, Broker!LastState, Settling
<1>2. /\ call[c] \in CallStates /\ call[c].admitted
      /\ RecordsFit(call[c]) /\ BrokerEffectsFit(c, call[c])
  BY <1>1, OfAdmitted DEF Outside, Settling
<1>3. /\ "journal" \in call[c].blame \/ HasKind("result")
      /\ running = c => call[c].blame \cap {"cancel", "execution"} # {}
      /\ LeftBehind(c, call[c])
      /\ call[c].pc = "recordLast" => c \notin staged
  BY <1>1, <1>2 DEF RecordsFit, BrokerEffectsFit, Settling
<1>4. UNCHANGED <<authority, admission, staged, running, launches>>
  BY DEF Broker!RecordLast
<1>5. PICK s \in {"removed", "residue", "not-staged"} : s = Broker!LastState[call[c].pc]
  BY <1>1 DEF Broker!LastState, Settling
<1>6. s = "removed" => c \notin staged
  BY <1>1, <1>3, <1>5 DEF Broker!LastState, Settling
<1>7. PICK e \in Entries : e = [call |-> c, kind |-> "cleanup", state |-> s]
  BY DEF Entries
<1>8. Broker!Record(c, "cleanup", s) = Append(records, e) BY <1>7 DEF Broker!Record
<1>9. PICK y \in CallStates : y = [call[c] EXCEPT !.pc = "returned"]
  BY <1>2 DEF CallStates, BrokerPlaces, Outside
<1>10. y.pc = "returned" /\ y.admitted /\ y.blame = call[c].blame
  BY <1>2, <1>9 DEF CallStates
<1>11. PICK x \in CallStates :
          /\ call' = [call EXCEPT ![c] = x]
          /\ \/ x = y /\ records' = Append(records, e)
             \/ /\ records' \in {records, Append(records, e)}
                /\ x.pc = "returned" /\ x.blame = call[c].blame \cup {"journal"}
                /\ x.admitted = call[c].admitted /\ x.staged = call[c].staged
                /\ x.cleanupRecorded = call[c].cleanupRecorded /\ x.result = call[c].result
  <2>1. Broker!Journalled(c, "cleanup", s, y, "returned") /\ "returned" \in BrokerPlaces
    BY <1>5, <1>9 DEF Broker!RecordLast, BrokerPlaces, Outside
  <2> QED BY <1>8, <2>1, JournalledCall
<1>12. e.call = c /\ e.kind = "cleanup" /\ e.state = s
  BY <1>7
<1>13. records' \in {records, Append(records, e)} /\ x.admitted /\ x.pc = "returned"
  BY <1>2, <1>10, <1>11
<1>14. BrokerEffectsFit(c, x)
  BY <1>3, <1>10, <1>11 DEF BrokerEffectsFit, LeftBehind, Settling
<1>15. RecordsFit(x)'
  <2>1. CASE x = y /\ records' = Append(records, e)
    <3>1. HasKind("cleanup")' /\ (HasKind("result") => HasKind("result")')
      BY <1>12, <2>1, EntryIsThere
    <3> QED BY <1>3, <1>10, <2>1, <3>1 DEF RecordsFit, Fresh, Settling
  <2>2. CASE x.blame = call[c].blame \cup {"journal"}
    BY <1>13, <2>2 DEF RecordsFit, Fresh, Settling
  <2> QED BY <1>11, <2>1, <2>2
<1>16. /\ e.kind = "result" => ~ HasKind("result")
       /\ e.state = "removed" => c \notin staged
       /\ e.state # "completed"
  BY <1>6, <1>12
<1> QED BY <1>2, <1>4, <1>11, <1>12, <1>13, <1>14, <1>15, <1>16, EntryInvariant

LEMMA BrokerStepInvariant ==
  ASSUME BrokerInv, [Broker!Next]_(Broker!vars) PROVE BrokerInv'
<1>1. CASE Broker!CancelAuthority
  BY <1>1 DEF Broker!CancelAuthority, BrokerInv, BrokerTyped, CallsFit, RecordsFit,
     BrokerEffectsFit, Bystands, HasKind,
              LeftBehind, OneAdmission, Broker!RecordsAreTrue
<1>2. ASSUME NEW c \in BrokerCalls, Broker!Step(c) PROVE BrokerInv'
  BY <1>2, RefuseInvariant, CheckInvariant, AdmitOnceInvariant, BrokerStageInvariant,
     BrokerSignalInvariant, LaunchInvariant, ContainerEndsInvariant, CleanupInvariant,
     RecordCleanupInvariant, RecordResultInvariant, CatchInvariant, FinallyInvariant,
     RecordLastInvariant DEF Broker!Step
<1>3. CASE UNCHANGED Broker!vars
  BY <1>3 DEF Broker!vars, BrokerInv, BrokerTyped, CallsFit, RecordsFit, BrokerEffectsFit,
     Bystands, HasKind,
              LeftBehind, OneAdmission, Broker!RecordsAreTrue
<1> QED BY <1>1, <1>2, <1>3 DEF Broker!Next

(***************************************************************************)
(* The journal's entries, the calls and their results have their types.    *)
(***************************************************************************)
THEOREM BrokerTypes == Broker!Spec => []Broker!TypeOK
<1>1. Broker!Init => BrokerInv BY BrokerInitInvariant
<1>2. BrokerInv /\ [Broker!Next]_(Broker!vars) => BrokerInv' BY BrokerStepInvariant
<1>3. BrokerInv => Broker!TypeOK
  <2> SUFFICES ASSUME BrokerInv PROVE Broker!TypeOK OBVIOUS
  <2>1. \A i \in DOMAIN records : records[i] \in Entries BY DEF BrokerInv, BrokerTyped
  <2>2. \A c \in BrokerCalls : call[c].result \in Broker!States \cup {"none"}
    BY DEF BrokerInv, BrokerTyped, CallStates, Broker!States, BrokerOutcomes
  <2> QED BY <2>1, <2>2 DEF BrokerInv, BrokerTyped, Broker!TypeOK, Entries, Broker!States,
      BrokerOutcomes
<1> QED BY <1>1, <1>2, <1>3, PTL DEF Broker!Spec

(***************************************************************************)
(* At most one result and one container for a job, "removed" only of files *)
(* that are gone, "completed" only after it and with no container left     *)
(* (execute, its catch and its finally).                                   *)
(***************************************************************************)
THEOREM TrueRecords == Broker!Spec => []Broker!RecordsAreTrue
<1>1. Broker!Init => BrokerInv BY BrokerInitInvariant
<1>2. BrokerInv /\ [Broker!Next]_(Broker!vars) => BrokerInv' BY BrokerStepInvariant
<1>3. BrokerInv => Broker!RecordsAreTrue BY DEF BrokerInv
<1> QED BY <1>1, <1>2, <1>3, PTL DEF Broker!Spec

(***************************************************************************)
(* A call that was admitted and returned left its result and its cleanup   *)
(* in the journal unless the journal threw, no files unless their staging  *)
(* or their cleanup did, and no container unless its execution or its      *)
(* cancellation did (execute, its catch and its finally).                  *)
(***************************************************************************)
THEOREM SettledReturn == Broker!Spec => []Broker!ReturnedIsSettled
<1>1. Broker!Init => BrokerInv BY BrokerInitInvariant
<1>2. BrokerInv /\ [Broker!Next]_(Broker!vars) => BrokerInv' BY BrokerStepInvariant
<1>3. BrokerInv => Broker!ReturnedIsSettled
  <2> SUFFICES ASSUME BrokerInv, NEW c \in BrokerCalls, Broker!At(c, "returned"),
                      call[c].admitted
               PROVE  /\ "journal" \notin call[c].blame => Broker!Has(c, "result")
                         /\ Broker!Has(c, "cleanup")
                      /\ c \in staged => call[c].blame \cap {"staging", "cleanup"} # {}
                      /\ running = c => call[c].blame \cap {"cancel", "execution"} # {}
    BY DEF Broker!ReturnedIsSettled
  <2>1. /\ RecordsFit(call[c]) /\ BrokerEffectsFit(c, call[c])
        /\ \A i \in DOMAIN records : records[i].call = c
    BY AdmittedAnywhere
  <2> QED BY <2>1 DEF Broker!At, RecordsFit, BrokerEffectsFit, LeftBehind, Broker!Has, HasKind
<1> QED BY <1>1, <1>2, <1>3, PTL DEF Broker!Spec

-----------------------------------------------------------------------------
(***************************************************************************)
(* The result document of a provider job is honest, for any number of      *)
(* processes started for it.                                               *)
(*                                                                         *)
(* What makes it so is that a cleanup is final: once the one stage of the  *)
(* job was asked for and its files are gone, no container can be started,  *)
(* because starting one needs the files.                                   *)
(***************************************************************************)

Statuses == {"none", "completed", "failed", "cancelled", "budget-exhausted"}
Results == [status : Statuses, cleanup : {"none", "COMPLETE", "RESIDUE"}]
CommandPcs == {"idle", "preflight", "stage", "execute", "cancel", "cleanup", "write", "exit"}

CommandTyped ==
    /\ call \in [CommandCalls -> [pc : CommandPcs, staged : BOOLEAN, result : Results]]
    /\ staged \in BOOLEAN /\ running \in BOOLEAN /\ document \in Results

\* Nothing of the job is left, and nothing can come back.
Gone == "stage" \in asked /\ ~ staged /\ ~ running

Claims(result) == result.status = "completed" \/ result.cleanup = "COMPLETE"

\* How far a process is tells what the helper was asked.
ProcessIsHonest(c) ==
    /\ call[c].pc \in {"execute", "cancel", "cleanup"} => "stage" \in asked
    /\ call[c].pc \notin {"write", "exit"} => call[c].result.cleanup = "none"
    /\ Command!At(c, "write") /\ Claims(call[c].result) => Gone

CommandInv ==
    /\ CommandTyped
    /\ Claims(document) => Gone
    /\ \A c \in CommandCalls : ProcessIsHonest(c)

\* A cleanup that is done is never undone.
LEMMA GoneIsFinal == ASSUME Gone, CommandTyped, [Command!Next]_(Command!vars) PROVE Gone'
<1>1. ASSUME NEW c \in CommandCalls, Command!Cleanup(c) PROVE Gone'
  BY <1>1 DEF Gone, Command!Cleanup, Command!Asked
<1>2. ASSUME NEW c \in CommandCalls,
             Command!Begin(c) \/ Command!Preflight(c) \/ Command!Stage(c)
             \/ Command!WriteDocument(c) \/ Command!Kill(c)
      PROVE  Gone'
  BY <1>2 DEF Gone, Command!Begin, Command!Preflight, Command!Stage, Command!WriteDocument,
     Command!Kill, Command!Asked, Command!First
<1>3. ASSUME NEW c \in CommandCalls, Command!Execute(c) PROVE Gone'
  BY <1>3 DEF Gone, Command!Execute, Command!Asked
<1>4. ASSUME NEW c \in CommandCalls, Command!CancelJob(c) PROVE Gone'
  <2>1. running' \in {running, running /\ ~ Command!First("cancel")}
    BY <1>4 DEF Command!CancelJob
  <2>2. ~ running'
    BY <2>1, Zenon DEF Gone
  <2> QED BY <1>4, <2>2 DEF Gone, Command!CancelJob, Command!Asked
<1> QED BY <1>1, <1>2, <1>3, <1>4 DEF Command!Next, Command!vars, Gone

LEMMA CommandInitInvariant == ASSUME Command!Init PROVE CommandInv
<1>1. Command!NoDocument \in Results /\ ~Claims(Command!NoDocument)
  BY DEF Command!NoDocument, Results, Statuses, Claims
<1>2. ASSUME NEW c \in CommandCalls PROVE ProcessIsHonest(c)
  <2>1. call[c].pc = "idle" /\ call[c].result.cleanup = "none"
    BY DEF Command!Init, Command!Idle, Command!NoDocument
  <2> QED BY <2>1 DEF ProcessIsHonest, Command!At
<1>3. CommandTyped
  BY <1>1 DEF Command!Init, CommandTyped, Command!Idle, CommandPcs
<1> QED BY <1>1, <1>2, <1>3 DEF Command!Init, CommandInv

\* A step of one process leaves the others as they are; what they were promised stays.
LEMMA OthersStayHonest ==
  ASSUME CommandTyped, NEW c, NEW d, ProcessIsHonest(d), [Command!Next]_(Command!vars),
         call'[d] = call[d],
         asked \subseteq asked'
  PROVE  ProcessIsHonest(d)'
  BY GoneIsFinal DEF ProcessIsHonest, Command!At, Claims

\* An error before the cleanup is a failure that claims nothing.
LEMMA FailureClaimsNothing ==
  ASSUME CommandTyped, NEW c \in CommandCalls, NEW at \in CommandPcs, Command!Blocked(c, at),
         call[c].result.cleanup = "none"
  PROVE  /\ call' \in [CommandCalls -> [pc : CommandPcs, staged : BOOLEAN, result : Results]]
         /\ call'[c].pc = at /\ call'[c].result.cleanup = "none"
         /\ ~ Claims(call'[c].result)
         /\ \A d \in CommandCalls \ {c} : call'[d] = call[d]
<1> DEFINE failed == [call[c].result EXCEPT !.status = "failed"]
<1>1. failed \in Results /\ failed.cleanup = "none" /\ ~ Claims(failed)
  BY DEF CommandTyped, Results, Statuses, Claims
<1>2. call' = [call EXCEPT ![c] = [call[c] EXCEPT !.pc = at, !.result = failed]]
  BY DEF Command!Blocked, CommandTyped
<1> HIDE DEF failed
<1>3. [call[c] EXCEPT !.pc = at, !.result = failed]
        \in [pc : CommandPcs, staged : BOOLEAN, result : Results]
  BY <1>1 DEF CommandTyped
<1> QED BY <1>1, <1>2, <1>3 DEF CommandTyped

LEMMA CommandStepInvariant == ASSUME CommandInv,
[Command!Next]_(Command!vars) PROVE CommandInv'
<1> USE DEF Command!Goto, Command!At
<1>1. ASSUME NEW c \in CommandCalls, Command!Begin(c) PROVE CommandInv'
  <2>1. call[c].result.cleanup = "none" /\ CommandTyped
    BY <1>1 DEF Command!Begin, CommandInv, ProcessIsHonest
  <2>2. CommandTyped' /\ ProcessIsHonest(c)'
        /\ \A d \in CommandCalls \ {c} : call'[d] = call[d]
    <3>1. CASE Command!Blocked(c, "write")
      BY <1>1, <2>1, <3>1, FailureClaimsNothing DEF Command!Begin, CommandTyped, CommandPcs,
         ProcessIsHonest
    <3>2. CASE Command!Goto(c, "preflight")
      BY <1>1, <2>1, <3>2 DEF Command!Begin, CommandTyped, CommandPcs, ProcessIsHonest
    <3> QED BY <1>1, <3>1, <3>2 DEF Command!Begin
  <2> QED BY <1>1, <2>1, <2>2, GoneIsFinal, OthersStayHonest DEF Command!Begin, CommandInv
<1>2. ASSUME NEW c \in CommandCalls, Command!Preflight(c) PROVE CommandInv'
  <2>1. call[c].result.cleanup = "none" /\ CommandTyped
    BY <1>2 DEF Command!Preflight, CommandInv, ProcessIsHonest
  <2>2. CommandTyped' /\ ProcessIsHonest(c)'
        /\ \A d \in CommandCalls \ {c} : call'[d] = call[d]
    <3>1. CASE Command!Blocked(c, "write")
      BY <1>2, <2>1, <3>1, FailureClaimsNothing DEF Command!Preflight, CommandTyped,
         CommandPcs, ProcessIsHonest
    <3>2. CASE Command!Goto(c, "stage")
      BY <1>2, <2>1, <3>2 DEF Command!Preflight, CommandTyped, CommandPcs, ProcessIsHonest
    <3> QED BY <1>2, <3>1, <3>2 DEF Command!Preflight
  <2> QED BY <1>2, <2>1, <2>2, GoneIsFinal, OthersStayHonest DEF Command!Preflight,
      Command!Asked, CommandInv
<1>3. ASSUME NEW c \in CommandCalls, Command!Stage(c) PROVE CommandInv'
  <2>1. call[c].result.cleanup = "none" /\ CommandTyped
    BY <1>3 DEF Command!Stage, CommandInv, ProcessIsHonest
  <2>2. staged' \in BOOLEAN /\ "stage" \in asked' /\ asked \subseteq asked'
    BY <1>3, <2>1 DEF Command!Stage, Command!Asked, CommandTyped
  <2>3. CommandTyped' /\ ProcessIsHonest(c)'
        /\ \A d \in CommandCalls \ {c} : call'[d] = call[d]
    <3>1. CASE Command!Blocked(c, "write")
      BY <1>3, <2>1, <2>2, <3>1, FailureClaimsNothing DEF Command!Stage, CommandTyped,
         CommandPcs, ProcessIsHonest
    <3>2. CASE call' = [call EXCEPT ![c].pc = "execute", ![c].staged = TRUE]
      BY <1>3, <2>1, <2>2, <3>2 DEF Command!Stage, CommandTyped, CommandPcs, ProcessIsHonest
    <3> QED BY <1>3, <3>1, <3>2 DEF Command!Stage
  <2> QED BY <1>3, <2>1, <2>2, <2>3, GoneIsFinal, OthersStayHonest DEF Command!Stage,
      CommandInv
<1>4. ASSUME NEW c \in CommandCalls, Command!Execute(c) PROVE CommandInv'
  <2>1. call[c].result.cleanup = "none" /\ CommandTyped /\ "stage" \in asked
    BY <1>4 DEF Command!Execute, CommandInv, ProcessIsHonest
  <2>2. running' \in BOOLEAN /\ asked \subseteq asked'
    BY <1>4, <2>1 DEF Command!Execute, Command!Asked, CommandTyped
  <2>3. CommandTyped' /\ ProcessIsHonest(c)'
        /\ \A d \in CommandCalls \ {c} : call'[d] = call[d]
    <3>1. CASE Command!Blocked(c, "cancel")
      BY <1>4, <2>1, <2>2, <3>1, FailureClaimsNothing DEF Command!Execute, CommandTyped,
         CommandPcs, ProcessIsHonest
    <3>2. ASSUME NEW status \in {"completed", "failed", "cancelled", "budget-exhausted"},
                 call' = [call EXCEPT ![c].pc = "cleanup", ![c].result.status = status]
          PROVE  CommandTyped' /\ ProcessIsHonest(c)'
                 /\ \A d \in CommandCalls \ {c} : call'[d] = call[d]
      BY <1>4, <2>1, <2>2, <3>2
         DEF Command!Execute, CommandTyped, CommandPcs, ProcessIsHonest, Results, Statuses
    <3> QED BY <1>4, <3>1, <3>2 DEF Command!Execute
  <2> QED BY <1>4, <2>1, <2>2, <2>3, GoneIsFinal, OthersStayHonest DEF Command!Execute,
      CommandInv
<1>5. ASSUME NEW c \in CommandCalls, Command!CancelJob(c) PROVE CommandInv'
  <2>1. CommandTyped' BY <1>5 DEF Command!CancelJob, CommandInv, CommandTyped, CommandPcs
  <2>2. ProcessIsHonest(c)'
    BY <1>5 DEF Command!CancelJob, Command!Asked, CommandInv, CommandTyped, ProcessIsHonest
  <2>3. \A d \in CommandCalls \ {c} : call'[d] = call[d]
    BY <1>5 DEF Command!CancelJob, CommandInv, CommandTyped
  <2> QED BY <1>5, <2>1, <2>2, <2>3, GoneIsFinal, OthersStayHonest DEF Command!CancelJob,
      Command!Asked, CommandInv
<1>6. ASSUME NEW c \in CommandCalls, Command!Cleanup(c) PROVE CommandInv'
  <2>1. PICK answered \in BOOLEAN, done \in BOOLEAN :
          /\ IF done THEN staged' = FALSE /\ running' = FALSE
                     ELSE UNCHANGED <<staged, running>>
          /\ Command!Cleaned(c, Command!CleanupState(answered, done))
    BY <1>6 DEF Command!Cleanup
  <2>2. Command!CleanupState(answered, done) \in {"COMPLETE", "RESIDUE"}
        /\ (Command!CleanupState(answered, done) = "COMPLETE" => done)
    BY DEF Command!CleanupState
  <2>3. CommandTyped'
    <3> DEFINE state == Command!CleanupState(answered, done)
               new == [status |-> IF state = "COMPLETE" THEN call[c].result.status
                                  ELSE "failed",
                       cleanup |-> state]
    <3>1. new \in Results
      BY <2>2 DEF CommandInv, CommandTyped, Results, Statuses
    <3>2. call' = [call EXCEPT ![c] = [call[c] EXCEPT !.pc = "write", !.result = new]]
      BY <2>1 DEF Command!Cleaned, CommandInv, CommandTyped
    <3> HIDE DEF new
    <3>3. [call[c] EXCEPT !.pc = "write", !.result = new]
            \in [pc : CommandPcs, staged : BOOLEAN, result : Results]
      BY <3>1 DEF CommandInv, CommandTyped, CommandPcs
    <3> QED BY <1>6, <2>1, <3>2, <3>3 DEF Command!Cleanup, CommandInv, CommandTyped
  <2>4. ProcessIsHonest(c)'
    <3>1. call'[c].pc = "write" /\ (Claims(call'[c].result) => done)
      BY <2>1, <2>2 DEF Command!Cleaned, CommandInv, CommandTyped, Claims
    <3>2. "stage" \in asked
      BY <1>6 DEF Command!Cleanup, CommandInv, ProcessIsHonest
    <3> QED BY <1>6, <2>1, <3>1, <3>2 DEF Command!Cleanup, Command!Asked, ProcessIsHonest,
        Gone, Claims
  <2>5. \A d \in CommandCalls \ {c} : call'[d] = call[d]
    BY <2>1 DEF Command!Cleaned, CommandInv, CommandTyped
  <2> QED BY <1>6, <2>3, <2>4, <2>5, GoneIsFinal, OthersStayHonest DEF Command!Cleanup,
      Command!Asked, CommandInv
<1>7. ASSUME NEW c \in CommandCalls, Command!WriteDocument(c) PROVE CommandInv'
  <2>1. CommandTyped' BY <1>7 DEF Command!WriteDocument, CommandInv, CommandTyped, CommandPcs
  <2>2. ProcessIsHonest(c)'
    BY <1>7 DEF Command!WriteDocument, CommandInv, CommandTyped, ProcessIsHonest
  <2>3. \A d \in CommandCalls \ {c} : call'[d] = call[d]
    BY <1>7 DEF Command!WriteDocument, CommandInv, CommandTyped
  <2>4. Claims(document)' => Gone
    BY <1>7 DEF Command!WriteDocument, CommandInv, ProcessIsHonest, Claims
  <2> QED BY <1>7, <2>1, <2>2, <2>3, <2>4, GoneIsFinal, OthersStayHonest
      DEF Command!WriteDocument, CommandInv
<1>8. ASSUME NEW c \in CommandCalls, Command!Kill(c) PROVE CommandInv'
  <2>1. CommandTyped' BY <1>8 DEF Command!Kill, CommandInv, CommandTyped, CommandPcs
  <2>2. ProcessIsHonest(c)'
    BY <1>8 DEF Command!Kill, CommandInv, CommandTyped, ProcessIsHonest
  <2>3. \A d \in CommandCalls \ {c} : call'[d] = call[d]
    BY <1>8 DEF Command!Kill, CommandInv, CommandTyped
  <2> QED BY <1>8, <2>1, <2>2, <2>3, GoneIsFinal, OthersStayHonest DEF Command!Kill,
      CommandInv
<1>9. CASE UNCHANGED Command!vars
  BY <1>9 DEF Command!vars, CommandInv, CommandTyped, ProcessIsHonest, Gone, Claims
<1> QED BY <1>1, <1>2, <1>3, <1>4, <1>5, <1>6, <1>7, <1>8, <1>9 DEF Command!Next

(***************************************************************************)
(* A document that says completed, or carries a COMPLETE cleanup, was      *)
(* written with nothing of the job left on the host, and nothing comes     *)
(* back, however many processes are started for the job, whatever the      *)
(* helper's answers and wherever a process is killed (runCli).             *)
(***************************************************************************)
THEOREM HonestDocument == Command!Spec => []Command!DocumentIsHonest
<1>1. Command!Init => CommandInv BY CommandInitInvariant
<1>2. CommandInv /\ [Command!Next]_(Command!vars) => CommandInv' BY CommandStepInvariant
<1>3. CommandInv => Command!DocumentIsHonest BY DEF CommandInv, Claims, Gone,
      Command!DocumentIsHonest
<1> QED BY <1>1, <1>2, <1>3, PTL DEF Command!Spec

-----------------------------------------------------------------------------
(***************************************************************************)
(* What a proposal that was written has behind it, for any evidence and    *)
(* limits: the state of the parser is known from its table, read backward  *)
(* from the one event that closes the stream.                              *)
(***************************************************************************)

\* What the parser's states are after each of the first n events.
Parsed(f, stream, n) ==
    f = [m \in 0..n |-> IF m = 0 THEN "initial" ELSE Task!After(Task!Table, f[m - 1],
    stream[m])]

\* The numbers of events after which a stream has no state.
Unparsed(stream) == {n \in Nat : ~ \E f : Parsed(f, stream, n)}

\* Every stream has its states: the recursion of the parser is well defined.
LEMMA StreamIsParsed ==
  ASSUME NEW stream, NEW n \in Nat
  PROVE  \E f : Parsed(f, stream, n)
<1> SUFFICES ASSUME Unparsed(stream) # {} PROVE FALSE
  BY DEF Unparsed
<1>1. PICK k \in Unparsed(stream) : \A m \in Unparsed(stream) : k <= m
  <2>1. Unparsed(stream) \in SUBSET Nat BY DEF Unparsed
  <2> QED BY <2>1, LeastNumber
<1>2. k \in Nat /\ ~ \E f : Parsed(f, stream, k)
  BY <1>1 DEF Unparsed
<1>3. k # 0
  <2> SUFFICES ASSUME k = 0 PROVE FALSE OBVIOUS
  <2>1. Parsed([m \in 0..0 |-> "initial"], stream, 0)
    BY DEF Parsed
  <2> QED BY <2>1, <1>2
<1>4. k - 1 \in Nat /\ ~ (k <= k - 1)
  BY <1>2, <1>3
<1>5. PICK f : Parsed(f, stream, k - 1)
  BY <1>1, <1>4 DEF Unparsed
<1>6. PICK g : g = [m \in 0..k |-> IF m = k THEN Task!After(Task!Table, f[k - 1],
      stream[k]) ELSE f[m]]
  OBVIOUS
<1>7. g = [m \in 0..k |-> IF m = 0 THEN "initial" ELSE Task!After(Task!Table, g[m - 1],
      stream[m])]
  <2>1. ASSUME NEW m \in 0..k, m # 0, m # k
        PROVE  g[m] = Task!After(Task!Table, g[m - 1], stream[m])
    <3>1. m \in 0..(k - 1) /\ m - 1 \in 0..k /\ m - 1 # k
      BY <2>1, <1>2
    <3>2. f[m] = Task!After(Task!Table, f[m - 1], stream[m])
      BY <3>1, <2>1, <1>5 DEF Parsed
    <3> QED BY <3>1, <3>2, <1>6
  <2>2. g[0] = "initial"
    <3>1. 0 \in 0..(k - 1) /\ 0 \in 0..k /\ 0 # k
      BY <1>2, <1>3
    <3>2. f[0] = "initial"
      BY <3>1, <1>5 DEF Parsed
    <3> QED BY <3>1, <3>2, <1>6
  <2>3. g[k] = Task!After(Task!Table, g[k - 1], stream[k])
    <3>1. k \in 0..k /\ k - 1 \in 0..k /\ k - 1 # k
      BY <1>2, <1>3
    <3> QED BY <3>1, <1>6
  <2>4. ASSUME NEW m \in 0..k
        PROVE  g[m] = IF m = 0 THEN "initial" ELSE Task!After(Task!Table, g[m - 1], stream[m])
    <3>1. CASE m = 0 BY <3>1, <2>2
    <3>2. CASE m = k /\ m # 0 BY <3>2, <2>3
    <3>3. CASE m # 0 /\ m # k BY <3>3, <2>1
    <3> QED BY <3>1, <3>2, <3>3
  <2> QED BY <2>4, <1>6
<1> QED BY <1>7, <1>2 DEF Parsed

\* What ParseEvents looks up is a function of that kind.
LEMMA ParserState ==
  ASSUME NEW stream, Len(stream) \in Nat
  PROVE  \E f : Parsed(f, stream, Len(stream)) /\ Task!ParseEvents(stream) = f[Len(stream)]
<1>1. \E f : Parsed(f, stream, Len(stream)) BY StreamIsParsed
<1>2. PICK g : g = CHOOSE f : Parsed(f, stream, Len(stream)) OBVIOUS
<1>3. Parsed(g, stream, Len(stream)) BY <1>1, <1>2
<1>4. Task!ParseEvents(stream) = g[Len(stream)] BY <1>2 DEF Task!ParseEvents, Parsed
<1> QED BY <1>3, <1>4

\* Backward from "closed": what comes before a state of a table, and nothing before "initial".
LEMMA CodexBackward ==
  ASSUME NEW s, NEW e
  PROVE  /\ Task!After(Task!CodexNext, s, e) # "initial"
         /\ Task!After(Task!CodexNext, s, e) = "closed" => s = "final" /\ e = "completed"
         /\ Task!After(Task!CodexNext, s, e) = "final" => s = "turn" /\ e = "message"
         /\ Task!After(Task!CodexNext, s, e) = "turn" => s = "thread" /\ e = "turn"
         /\ Task!After(Task!CodexNext, s, e) = "thread" => s = "initial" /\ e = "thread"
<1>1. DOMAIN Task!CodexNext = {"initial", "thread", "turn", "final"}
  BY DEF Task!CodexNext
<1>2. /\ Task!CodexNext.initial = [thread |-> "thread"]
      /\ Task!CodexNext.thread = [turn |-> "turn"]
      /\ Task!CodexNext.turn = [message |-> "final"]
      /\ Task!CodexNext.final = [completed |-> "closed"]
  BY DEF Task!CodexNext
<1> QED BY <1>1, <1>2 DEF Task!After

LEMMA ClaudeBackward ==
  ASSUME NEW s, NEW e
  PROVE  /\ Task!After(Task!ClaudeNext, s, e) # "initial"
         /\ Task!After(Task!ClaudeNext, s, e) = "closed" => s = "assistant" /\ e = "result"
         /\ Task!After(Task!ClaudeNext, s, e) = "assistant" => s = "initialized"
            /\ e = "assistant"
         /\ Task!After(Task!ClaudeNext, s, e) = "initialized" => s = "initial" /\ e = "init"
<1>1. DOMAIN Task!ClaudeNext = {"initial", "initialized", "assistant"}
  BY DEF Task!ClaudeNext
<1>2. /\ Task!ClaudeNext.initial = [init |-> "initialized"]
      /\ Task!ClaudeNext.initialized = [assistant |-> "assistant"]
      /\ Task!ClaudeNext.assistant = [result |-> "closed"]
  BY DEF Task!ClaudeNext
<1> QED BY <1>1, <1>2 DEF Task!After

\* One step back in a stream.
LEMMA StepBack ==
  ASSUME NEW f, NEW stream, NEW n \in Nat, Parsed(f, stream, n), NEW m \in 0..n
  PROVE  /\ m = 0 => f[m] = "initial"
         /\ m # 0 => m - 1 \in 0..n /\ f[m] = Task!After(Task!Table, f[m - 1], stream[m])
  BY DEF Parsed

\* A stream that closes is the one its provider has.
LEMMA ClosedIsOne ==
  ASSUME NEW S, NEW stream \in Seq(S), provider \in {"codex", "claude-code"},
         Task!ParseEvents(stream) = "closed"
  PROVE  stream = Task!Closed
<1>1. Len(stream) \in Nat OBVIOUS
<1>2. PICK n \in Nat : n = Len(stream) OBVIOUS
<1>3. PICK f : Parsed(f, stream, n) /\ f[n] = "closed"
  BY <1>1, <1>2, ParserState
<1>4. stream = [i \in 1..n |-> stream[i]]
  BY <1>2
<1>5. CASE provider = "codex"
  <2>1. Task!Table = Task!CodexNext BY <1>5 DEF Task!Table
  <2>2. \A m \in 0..n : m # 0 => m - 1 \in 0..n
        /\ f[m] = Task!After(Task!CodexNext, f[m - 1], stream[m])
    BY <1>3, <2>1, StepBack
  <2>3. f[0] = "initial" BY <1>3, StepBack
  <2>4. \A m \in 0..n : f[m] = "initial" => m = 0
    BY <2>2, CodexBackward
  <2>5. n # 0 /\ n - 1 \in 0..n /\ f[n - 1] = "final" /\ stream[n] = "completed"
    BY <1>3, <2>2, <2>3, CodexBackward
  <2>6. n - 1 # 0 /\ n - 2 \in 0..n /\ f[n - 2] = "turn" /\ stream[n - 1] = "message"
    <3>1. n - 1 \in 0..n /\ n - 1 # 0 /\ (n - 1) - 1 = n - 2 BY <2>3, <2>5
    <3>2. n - 2 \in 0..n /\ f[n - 1] = Task!After(Task!CodexNext, f[n - 2], stream[n - 1])
      BY <2>2, <3>1
    <3> QED BY <2>5, <3>1, <3>2, CodexBackward
  <2>7. n - 2 # 0 /\ n - 3 \in 0..n /\ f[n - 3] = "thread" /\ stream[n - 2] = "turn"
    <3>1. n - 2 \in 0..n /\ n - 2 # 0 /\ (n - 2) - 1 = n - 3 BY <2>3, <2>6
    <3>2. n - 3 \in 0..n /\ f[n - 2] = Task!After(Task!CodexNext, f[n - 3], stream[n - 2])
      BY <2>2, <3>1
    <3> QED BY <2>6, <3>1, <3>2, CodexBackward
  <2>8. n - 3 # 0 /\ n - 4 \in 0..n /\ f[n - 4] = "initial" /\ stream[n - 3] = "thread"
    <3>1. n - 3 \in 0..n /\ n - 3 # 0 /\ (n - 3) - 1 = n - 4 BY <2>3, <2>7
    <3>2. n - 4 \in 0..n /\ f[n - 3] = Task!After(Task!CodexNext, f[n - 4], stream[n - 3])
      BY <2>2, <3>1
    <3> QED BY <2>7, <3>1, <3>2, CodexBackward
  <2>9. n = 4 BY <2>4, <2>8
  <2>10. Task!Closed = <<"thread", "turn", "message", "completed">>
    BY <1>5 DEF Task!Closed
  <2>12. stream = [i \in 1..4 |-> stream[i]] BY <1>4, <2>9
  <2>11. n - 1 = 3 /\ n - 2 = 2 /\ n - 3 = 1 BY <2>9
  <2>13. /\ stream[1] = "thread" /\ stream[2] = "turn"
         /\ stream[3] = "message" /\ stream[4] = "completed"
    BY <2>5, <2>6, <2>7, <2>8, <2>9, <2>11
  <2>14. Task!Closed = [i \in 1..4 |-> stream[i]]
    BY <2>10, <2>13
  <2> QED BY <2>12, <2>14
<1>6. CASE provider = "claude-code"
  <2>1. Task!Table = Task!ClaudeNext BY <1>6 DEF Task!Table
  <2>2. \A m \in 0..n : m # 0 => m - 1 \in 0..n
        /\ f[m] = Task!After(Task!ClaudeNext, f[m - 1], stream[m])
    BY <1>3, <2>1, StepBack
  <2>3. f[0] = "initial" BY <1>3, StepBack
  <2>4. \A m \in 0..n : f[m] = "initial" => m = 0
    BY <2>2, ClaudeBackward
  <2>5. n # 0 /\ n - 1 \in 0..n /\ f[n - 1] = "assistant" /\ stream[n] = "result"
    BY <1>3, <2>2, <2>3, ClaudeBackward
  <2>6. n - 1 # 0 /\ n - 2 \in 0..n /\ f[n - 2] = "initialized" /\ stream[n - 1] = "assistant"
    <3>1. n - 1 \in 0..n /\ n - 1 # 0 /\ (n - 1) - 1 = n - 2 BY <2>3, <2>5
    <3>2. n - 2 \in 0..n /\ f[n - 1] = Task!After(Task!ClaudeNext, f[n - 2], stream[n - 1])
      BY <2>2, <3>1
    <3> QED BY <2>5, <3>1, <3>2, ClaudeBackward
  <2>7. n - 2 # 0 /\ n - 3 \in 0..n /\ f[n - 3] = "initial" /\ stream[n - 2] = "init"
    <3>1. n - 2 \in 0..n /\ n - 2 # 0 /\ (n - 2) - 1 = n - 3 BY <2>3, <2>6
    <3>2. n - 3 \in 0..n /\ f[n - 2] = Task!After(Task!ClaudeNext, f[n - 3], stream[n - 2])
      BY <2>2, <3>1
    <3> QED BY <2>6, <3>1, <3>2, ClaudeBackward
  <2>8. n = 3 BY <2>4, <2>7
  <2>9. Task!Closed = <<"init", "assistant", "result">>
    BY <1>6 DEF Task!Closed
  <2>11. stream = [i \in 1..3 |-> stream[i]] BY <1>4, <2>8
  <2>10. n - 1 = 2 /\ n - 2 = 1 BY <2>8
  <2>12. stream[1] = "init" /\ stream[2] = "assistant" /\ stream[3] = "result"
    BY <2>5, <2>6, <2>7, <2>8, <2>10
  <2>13. Task!Closed = [i \in 1..3 |-> stream[i]]
    BY <2>9, <2>12
  <2> QED BY <2>11, <2>13
<1> QED BY <1>5, <1>6

\* A proposal that the validation accepts.
LEMMA ValidIsEarned ==
  ASSUME NEW p \in Task!AuthorProposals \cup Task!ReviewProposals, Task!ValidProposal(p),
         role \in {"author", "independent-reviewer"}
  PROVE  /\ Task!Mentioned(p) \subseteq AdmittedEvidence /\ Task!Mentioned(p) # {}
         /\ (p.kind = "author") <=> (role = "author")
         /\ p.kind = "review" => (p.verdict = "passed") = (p.objections = {})
<1>1. p.cited \subseteq AdmittedEvidence
  BY DEF Task!ValidProposal, Task!ListsAdmitted
<1>2. CASE role = "author"
  <2>1. p.kind = "author" /\ Task!AuthorContent(p)
    BY <1>2 DEF Task!ValidProposal
  <2>2. Task!Mentioned(p) = p.cited \cup UNION {p.claims[i].cites : i \in DOMAIN p.claims}
    BY <2>1 DEF Task!Mentioned
  <2>3. \A i \in DOMAIN p.claims : p.claims[i].cites # {}
        /\ p.claims[i].cites \subseteq AdmittedEvidence
    BY <2>1 DEF Task!AuthorContent, Task!Cites
  <2>4. DOMAIN p.claims # {}
    <3>1. p \in Task!AuthorProposals BY <2>1 DEF Task!AuthorProposals, Task!ReviewProposals
    <3>2. p.claims \in {<<>>} \cup {<<c>> : c \in Task!Claims}
          \cup {<<c, d>> : c, d \in Task!Claims}
      BY <3>1 DEF Task!AuthorProposals
    <3>3. p.claims # <<>> BY <2>1 DEF Task!AuthorContent
    <3>4. CASE p.claims \in {<<c>> : c \in Task!Claims}
      <4>1. PICK c \in Task!Claims : p.claims = <<c>> BY <3>4
      <4> QED BY <4>1
    <3>5. CASE p.claims \in {<<c, d>> : c, d \in Task!Claims}
      <4>1. PICK c, d \in Task!Claims : p.claims = <<c, d>> BY <3>5
      <4> QED BY <4>1
    <3> QED BY <3>2, <3>3, <3>4, <3>5
  <2> QED BY <1>1, <1>2, <2>1, <2>2, <2>3, <2>4
<1>3. CASE role # "author"
  <2>1. p.kind = "review" /\ Task!ReviewContent(p)
    BY <1>3 DEF Task!ValidProposal
  <2>2. Task!Mentioned(p) = p.cited \cup p.cites
    BY <2>1 DEF Task!Mentioned
  <2>3. p.cites # {} /\ p.cites \subseteq AdmittedEvidence
        /\ ((p.verdict = "passed") <=> (p.objections = {}))
    BY <2>1 DEF Task!ReviewContent, Task!Cites
  <2>4. (p.verdict = "passed") = (p.objections = {})
    BY <2>3
  <2> QED BY <1>1, <1>3, <2>1, <2>2, <2>3, <2>4
<1> QED BY <1>2, <1>3

\* The group that a task left behind, and what is behind a proposal that is written.
TaskInv ==
    /\ provider \in {"codex", "claude-code"} /\ role \in {"author", "independent-reviewer"}
    /\ events \in Seq(Task!EventKinds)
    /\ pc = "start" => group = {}
    /\ pc = "closed" /\ reason = "none" => group = {}
    /\ Task!ProposalIsEarned

LEMMA TaskStepInvariant ==
  ASSUME TaskInv, Task!Next PROVE TaskInv'
<1>1. UNCHANGED <<provider, role>>
  BY DEF Task!Next, Task!Start, Task!Fork, Task!Emit, Task!TimeUp, Task!Terminate, Task!Close,
     Task!Reject, Task!Finish, Task!End
<1>2. Task!EventKinds' = Task!EventKinds /\ Task!Closed' = Task!Closed
  BY <1>1 DEF Task!EventKinds, Task!Table, Task!Closed
<1>3. CASE Task!Start
  BY <1>1, <1>2, <1>3 DEF TaskInv, Task!Start, Task!ProposalIsEarned
<1>4. CASE Task!Fork
  BY <1>1, <1>2, <1>4 DEF TaskInv, Task!Fork, Task!ProposalIsEarned
<1>5. CASE Task!Emit
  BY <1>1, <1>2, <1>5 DEF TaskInv, Task!Emit, Task!Terminate, Task!ProposalIsEarned
<1>6. CASE Task!TimeUp
  BY <1>1, <1>2, <1>6 DEF TaskInv, Task!TimeUp, Task!Terminate, Task!ProposalIsEarned
<1>7. CASE Task!Close
  BY <1>1, <1>2, <1>7 DEF TaskInv, Task!Close, Task!ProposalIsEarned
<1>8. CASE Task!Reject
  BY <1>1, <1>2, <1>8 DEF TaskInv, Task!Reject, Task!ProposalIsEarned
<1>9. CASE Task!Finish
  <2>1. PICK p \in Task!AuthorProposals \cup Task!ReviewProposals : p = proposal'
    BY <1>9 DEF Task!Finish
  <2>2. CASE Task!ValidProposal(p)
    <3>1. reason = "none" /\ exit = 0 /\ Task!ParseEvents(events) = "closed" /\ group = {}
      BY <1>9 DEF Task!Finish, Task!StreamAccepted, TaskInv
    <3>2. events = Task!Closed
      BY <3>1, ClosedIsOne DEF TaskInv
    <3>3. /\ Task!Mentioned(p) \subseteq AdmittedEvidence /\ Task!Mentioned(p) # {}
          /\ (p.kind = "author") <=> (role = "author")
          /\ p.kind = "review" => (p.verdict = "passed") = (p.objections = {})
      BY <2>2, ValidIsEarned DEF TaskInv
    <3>4. (/\ Task!Mentioned(proposal) \subseteq AdmittedEvidence /\ Task!Mentioned(proposal) # {}
           /\ (proposal.kind = "author") <=> (role = "author")
           /\ proposal.kind = "review" =>
                (proposal.verdict = "passed") = (proposal.objections = {}))'
      BY <1>1, <2>1, <3>3 DEF Task!Mentioned
    <3> QED BY <1>1, <1>2, <1>9, <3>1, <3>2, <3>4
            DEF TaskInv, Task!Finish, Task!ProposalIsEarned
  <2>3. CASE ~ Task!ValidProposal(p)
    BY <1>1, <1>2, <1>9, <2>1, <2>3 DEF TaskInv, Task!Finish, Task!ProposalIsEarned
  <2> QED BY <2>2, <2>3
<1>10. ASSUME NEW process \in {"program", "child"}, Task!End(process) PROVE TaskInv'
  BY <1>1, <1>2, <1>10 DEF TaskInv, Task!End, Task!ProposalIsEarned
<1> QED BY <1>3, <1>4, <1>5, <1>6, <1>7, <1>8, <1>9, <1>10 DEF Task!Next

(***************************************************************************)
(* A proposal file exists only for the one stream that closes, of a        *)
(* program that succeeded and a group that was not terminated, mentions    *)
(* admitted evidence only and is of the task's role (executeProviderPlan,  *)
(* validateFinalProposal): for any evidence, and a stream of any length.   *)
(***************************************************************************)
THEOREM EarnedProposal == Task!Spec => []Task!ProposalIsEarned
<1>1. Task!Init => TaskInv
  BY DEF Task!Init, TaskInv, Task!ProposalIsEarned
<1>2. TaskInv /\ [Task!Next]_(Task!vars) => TaskInv'
  <2>1. TaskInv /\ UNCHANGED Task!vars => TaskInv'
    BY DEF Task!vars, TaskInv, Task!ProposalIsEarned, Task!Closed, Task!Mentioned,
       Task!EventKinds, Task!Table
  <2> QED BY <2>1, TaskStepInvariant
<1>3. TaskInv => Task!ProposalIsEarned
  BY DEF TaskInv
<1> QED BY <1>1, <1>2, <1>3, PTL DEF Task!Spec

-----------------------------------------------------------------------------
(***************************************************************************)
(* A proposal that was taken is bound to its attempt and its evidence, for *)
(* any evidence, any view and any number of attempts.                      *)
(*                                                                         *)
(* A review is compared with the proposal its own task expects, and that   *)
(* is one an author's attempt was taken for; since an attempt that has     *)
(* ended never changes, the review still judges a taken proposal later.    *)
(***************************************************************************)

AgentOutcomes ==
    {"none", "succeeded", "contract-invalid", "permission-denied", "provider-unavailable",
     "failed", "cancelled", "budget-exhausted"}

\* Every review there can be.
AllReviews ==
    [by : {"independent-reviewer"} \X (1..AgentAttempts), cites : SUBSET AgentEvidence,
     uses : SUBSET AgentEvidence, of : Agent!Authored \cup {Agent!NoProposal},
     verdict : {"passed", "passed-with-objections", "failed"}, objections : 0..1,
     listed : 0..1,
     bytes : {OutputBytes}]

Proposals == Agent!Authored \cup AllReviews
Adapters ==
    [pc : {"idle", "transport", "done"}, outcome : AgentOutcomes,
     proposal : Proposals \cup {Agent!NoProposal}, expected : Agent!Authored
     \cup {Agent!NoProposal}]

IsAuthor(a) == a[1] = "author"
Taken(a) == run[a].outcome = "succeeded"

\* What a taken proposal has to be, given what was taken of authors.
BoundTo(a, p) ==
    /\ p \in Proposals /\ p.by = a /\ p.uses # {} /\ p.cites \cup p.uses \subseteq Allowed
    /\ IsAuthor(a) => p \in Agent!Authored
    /\ ~IsAuthor(a) =>
         /\ p \in AllReviews /\ p.of \in Agent!AuthorsProposals
         /\ p.verdict = "passed" => p.objections = 0

AgentInv ==
    /\ run \in [Agent!Attempts -> Adapters]
    /\ Agent!AuthorsProposals \subseteq Agent!Authored
    /\ \A a \in Agent!Attempts :
        /\ run[a].pc # "done" => run[a].proposal = Agent!NoProposal /\ ~Taken(a)
        /\ run[a].pc = "transport"
           /\ ~IsAuthor(a) => run[a].expected \in Agent!AuthorsProposals
        /\ Taken(a) => BoundTo(a, run[a].proposal)

LEMMA AgentInitInvariant == ASSUME Agent!Init PROVE AgentInv
<1>1. Agent!Idle \in Adapters /\ Agent!Idle.pc = "idle" /\ Agent!Idle.outcome = "none"
      /\ Agent!Idle.proposal = Agent!NoProposal
  BY DEF Agent!Idle, Adapters, AgentOutcomes
<1>2. run \in [Agent!Attempts -> Adapters] /\ \A a \in Agent!Attempts : run[a] = Agent!Idle
  BY <1>1 DEF Agent!Init
<1>3. Agent!AuthorsProposals = {}
  BY <1>1, <1>2 DEF Agent!AuthorsProposals
<1> QED BY <1>1, <1>2, <1>3 DEF AgentInv, Taken

\* An attempt that has not ended goes on to r; everything the others were promised stays.
LEMMA AgentMoveInvariant ==
  ASSUME AgentInv, NEW a \in Agent!Attempts, run[a].pc # "done", NEW r \in Adapters,
         run' = [run EXCEPT ![a] = r],
         r.pc # "done" => r.proposal = Agent!NoProposal /\ r.outcome # "succeeded",
         r.pc = "transport" /\ ~IsAuthor(a) => r.expected \in Agent!AuthorsProposals,
         r.outcome = "succeeded" => BoundTo(a, r.proposal),
         r.outcome # "succeeded" => r.proposal = Agent!NoProposal
  PROVE  AgentInv'
<1>1. /\ run'[a] = r /\ \A b \in Agent!Attempts \ {a} : run'[b] = run[b]
      /\ run' \in [Agent!Attempts -> Adapters]
  BY DEF AgentInv
<1>2. Agent!AuthorsProposals \subseteq Agent!AuthorsProposals'
  <2> SUFFICES ASSUME NEW b \in Agent!Attempts, IsAuthor(b),
                      run[b].proposal # Agent!NoProposal
               PROVE  run[b].proposal \in Agent!AuthorsProposals'
    BY DEF Agent!AuthorsProposals, IsAuthor
  <2>1. b # a
    BY DEF AgentInv
  <2> QED BY <1>1, <2>1 DEF Agent!AuthorsProposals, IsAuthor
<1>3. Agent!AuthorsProposals' \subseteq Agent!Authored
  <2> SUFFICES ASSUME NEW b \in Agent!Attempts, IsAuthor(b),
                      run'[b].proposal # Agent!NoProposal
               PROVE  run'[b].proposal \in Agent!Authored
    BY DEF Agent!AuthorsProposals, IsAuthor
  <2>1. CASE b = a
    BY <1>1, <2>1 DEF BoundTo
  <2>2. CASE b # a
    <3>1. run[b].proposal \in Agent!AuthorsProposals
      BY <1>1, <2>2 DEF Agent!AuthorsProposals, IsAuthor
    <3> QED BY <1>1, <2>2, <3>1 DEF AgentInv
  <2> QED BY <2>1, <2>2
<1>4. \A b, p : BoundTo(b, p) => BoundTo(b, p)'
  BY <1>2 DEF BoundTo, IsAuthor
<1>5. ASSUME NEW b \in Agent!Attempts
      PROVE  /\ run'[b].pc # "done" => run'[b].proposal = Agent!NoProposal /\ ~Taken(b)'
             /\ run'[b].pc = "transport" /\ ~IsAuthor(b)
                  => run'[b].expected \in Agent!AuthorsProposals'
             /\ Taken(b)' => BoundTo(b, run[b].proposal)'
  <2>1. CASE b = a
    BY <1>1, <1>2, <1>4, <2>1 DEF Taken, BoundTo
  <2>2. CASE b # a
    BY <1>1, <1>2, <1>4, <2>2 DEF AgentInv, Taken, BoundTo
  <2> QED BY <2>1, <2>2
<1> QED BY <1>1, <1>3, <1>5 DEF AgentInv, IsAuthor

\* The end of an attempt that is not taken.
LEMMA EndedInvariant ==
  ASSUME AgentInv, NEW a \in Agent!Attempts, run[a].pc # "done",
         NEW outcome \in AgentOutcomes,
         outcome # "succeeded", Agent!Ended(a, outcome, Agent!NoProposal)
  PROVE  AgentInv'
<1> DEFINE r == [run[a] EXCEPT !.pc = "done", !.outcome = outcome,
    !.proposal = Agent!NoProposal]
<1>1. r \in Adapters /\ r.pc = "done" /\ r.outcome = outcome /\ r.proposal = Agent!NoProposal
  BY DEF AgentInv, Adapters
<1>2. run' = [run EXCEPT ![a] = r]
  BY DEF Agent!Ended, AgentInv
<1> HIDE DEF r
<1> QED BY <1>1, <1>2, AgentMoveInvariant

LEMMA RunInvariant == ASSUME AgentInv, NEW a \in Agent!Attempts, Agent!Run(a) PROVE AgentInv'
<1>1. run[a] = Agent!Idle /\ run[a].pc # "done"
  BY DEF Agent!Run, Agent!Idle
<1>2. PICK profile \in Agent!Roles, evidence \in SUBSET AgentEvidence, available \in BOOLEAN,
           expected \in Agent!AuthorsProposals \cup {Agent!NoProposal} :
        LET t == [profile |-> profile, evidence |-> evidence, expected |-> expected]
        IN \/ \E o \in AgentOutcomes \ {"succeeded"} : Agent!Ended(a, o, Agent!NoProposal)
           \/ /\ Agent!ValidCapsule(a, t)
              /\ run' = [run EXCEPT ![a] = [Agent!Idle EXCEPT !.pc = "transport",
                                                        !.expected = expected]]
  BY DEF Agent!Run, AgentOutcomes
<1>3. ASSUME NEW o \in AgentOutcomes \ {"succeeded"},
             Agent!Ended(a, o, Agent!NoProposal) PROVE AgentInv'
  BY <1>1, <1>3, EndedInvariant
<1>4. CASE /\ ~IsAuthor(a) => expected # Agent!NoProposal
           /\ run' = [run EXCEPT ![a] = [Agent!Idle EXCEPT !.pc = "transport",
                                                     !.expected = expected]]
  <2> DEFINE r == [Agent!Idle EXCEPT !.pc = "transport", !.expected = expected]
  <2>1. /\ r \in Adapters /\ r.pc = "transport" /\ r.outcome = "none"
        /\ r.proposal = Agent!NoProposal /\ r.expected = expected
    BY DEF AgentInv, Agent!Idle, Adapters, AgentOutcomes
  <2>2. run' = [run EXCEPT ![a] = r]
    BY <1>4
  <2> HIDE DEF r
  <2> QED BY <1>1, <1>4, <2>1, <2>2, AgentMoveInvariant
<1>5. Agent!ValidCapsule(a, [profile |-> profile, evidence |-> evidence,
      expected |-> expected])
        => (~IsAuthor(a) => expected # Agent!NoProposal)
  BY DEF Agent!ValidCapsule, Agent!ValidTask, IsAuthor
<1> QED BY <1>2, <1>3, <1>4, <1>5

\* A proposal with which the adapter succeeds is bound.
LEMMA ValidIsBound ==
  ASSUME AgentInv, NEW a \in Agent!Attempts, run[a].pc = "transport",
         NEW p \in Agent!Authored \cup Agent!Reviews,
         Agent!ValidProposal(p, a, run[a].expected)
  PROVE  BoundTo(a, p)
<1>1. p \in Proposals
  BY DEF Proposals, AllReviews, Agent!Reviews, AgentInv
<1>2. p.by = a /\ p.uses # {} /\ p.cites \cup p.uses \subseteq Allowed
  BY DEF Agent!ValidProposal, Agent!Binds, Agent!Cites, Agent!AuthorContent,
     Agent!ReviewContent
<1>3. CASE IsAuthor(a)
  <2>1. p \notin Agent!Reviews
    BY <1>2, <1>3 DEF Agent!Reviews, IsAuthor
  <2> QED BY <1>1, <1>2, <1>3, <2>1 DEF BoundTo
<1>4. CASE ~IsAuthor(a)
  <2>1. p \notin Agent!Authored
    BY <1>2, <1>4 DEF Agent!Authored, IsAuthor
  <2>2. p \in AllReviews
    BY <1>1, <2>1 DEF Proposals
  <2>3. p.of = run[a].expected /\ (p.verdict = "passed" => p.objections = 0)
    BY <1>4 DEF Agent!ValidProposal, Agent!ReviewContent, IsAuthor
  <2>4. p.of \in Agent!AuthorsProposals
    BY <1>4, <2>3 DEF AgentInv
  <2> QED BY <1>1, <1>2, <1>4, <2>2, <2>3, <2>4 DEF BoundTo
<1> QED BY <1>3, <1>4

LEMMA AgentAnswerInvariant == ASSUME AgentInv, NEW a \in Agent!Attempts,
Agent!Answer(a) PROVE AgentInv'
<1>1. run[a].pc = "transport" /\ run[a].pc # "done"
  BY DEF Agent!Answer
<1>2. PICK p \in Agent!Authored \cup Agent!Reviews, sealed \in BOOLEAN, parses \in BOOLEAN :
        LET outcome == Agent!Outcome(a, p, Agent!Executed(a, p, sealed, parses))
        IN Agent!Ended(a, outcome, IF outcome = "succeeded" THEN p ELSE Agent!NoProposal)
  BY DEF Agent!Answer
<1> DEFINE outcome == Agent!Outcome(a, p, Agent!Executed(a, p, sealed, parses))
<1>3. /\ outcome \in {"succeeded", "contract-invalid"}
      /\ outcome = "succeeded" => Agent!ValidProposal(p, a, run[a].expected)
  BY DEF Agent!Outcome
<1>4. Agent!Ended(a, outcome, IF outcome = "succeeded" THEN p ELSE Agent!NoProposal)
  BY <1>2
<1> HIDE DEF outcome
<1>5. CASE outcome = "contract-invalid"
  BY <1>1, <1>4, <1>5, EndedInvariant DEF AgentOutcomes
<1>6. CASE outcome = "succeeded"
  <2>1. BoundTo(a, p)
    BY <1>1, <1>3, <1>6, ValidIsBound
  <2> DEFINE r == [run[a] EXCEPT !.pc = "done", !.outcome = "succeeded", !.proposal = p]
  <2>2. r \in Adapters /\ r.pc = "done" /\ r.outcome = "succeeded" /\ r.proposal = p
    BY <2>1 DEF AgentInv, Adapters, BoundTo, AgentOutcomes
  <2>3. run' = [run EXCEPT ![a] = r]
    BY <1>4, <1>6 DEF Agent!Ended, AgentInv
  <2> HIDE DEF r
  <2> QED BY <1>1, <2>1, <2>2, <2>3, AgentMoveInvariant
<1> QED BY <1>3, <1>5, <1>6

LEMMA AgentStepInvariant == ASSUME AgentInv, [Agent!Next]_(Agent!vars) PROVE AgentInv'
<1>1. ASSUME NEW a \in Agent!Attempts, Agent!Run(a) PROVE AgentInv'
  BY <1>1, RunInvariant
<1>2. ASSUME NEW a \in Agent!Attempts, Agent!Throw(a) PROVE AgentInv'
  BY <1>2, EndedInvariant DEF Agent!Throw, AgentOutcomes
<1>3. ASSUME NEW a \in Agent!Attempts, Agent!Unfinished(a) PROVE AgentInv'
  <2>1. PICK s \in Agent!TransportStates :
          Agent!Ended(a, IF s = "completed" THEN "contract-invalid" ELSE s, Agent!NoProposal)
    BY <1>3 DEF Agent!Unfinished
  <2> DEFINE o == IF s = "completed" THEN "contract-invalid" ELSE s
  <2>2. o \in AgentOutcomes /\ o # "succeeded"
    BY DEF Agent!TransportStates, AgentOutcomes
  <2>3. Agent!Ended(a, o, Agent!NoProposal) /\ run[a].pc # "done"
    BY <1>3, <2>1 DEF Agent!Unfinished
  <2> HIDE DEF o
  <2> QED BY <2>2, <2>3, EndedInvariant
<1>4. ASSUME NEW a \in Agent!Attempts, Agent!Answer(a) PROVE AgentInv'
  BY <1>4, AgentAnswerInvariant
<1>5. CASE UNCHANGED Agent!vars
  BY <1>5 DEF Agent!vars, AgentInv, Taken, BoundTo, Agent!AuthorsProposals, IsAuthor
<1> QED BY <1>1, <1>2, <1>3, <1>4, <1>5 DEF Agent!Next

LEMMA InvariantImpliesBound == ASSUME AgentInv PROVE Agent!TakenIsBound
<1> SUFFICES ASSUME NEW x \in Agent!Attempts, Taken(x)
             PROVE  LET p == run[x].proposal
                    IN /\ p.by = x /\ p.uses # {} /\ p.cites \cup p.uses \subseteq Allowed
                       /\ x[1] # "author" =>
                            /\ \E y \in Agent!Attempts : y[1] = "author"
                               /\ run[y].proposal = p.of
                            /\ p.verdict = "passed" => p.objections = 0
  BY DEF Agent!TakenIsBound, Taken
<1>1. BoundTo(x, run[x].proposal)
  BY DEF AgentInv
<1> QED BY <1>1 DEF BoundTo, IsAuthor, Agent!AuthorsProposals

(***************************************************************************)
(* A proposal that was taken was written for the attempt that took it and  *)
(* rests on evidence of the view; a review that was taken judges a         *)
(* proposal that was taken, and passes it only without an objection:       *)
(* whatever lies in the outbox, however often a task is tried              *)
(* (packages/agent-adapters).                                              *)
(***************************************************************************)
THEOREM BoundProposals == Agent!Spec => []Agent!TakenIsBound
<1>1. Agent!Init => AgentInv BY AgentInitInvariant
<1>2. AgentInv /\ [Agent!Next]_(Agent!vars) => AgentInv' BY AgentStepInvariant
<1>3. AgentInv => Agent!TakenIsBound BY InvariantImpliesBound
<1> QED BY <1>1, <1>2, <1>3, PTL DEF Agent!Spec

\* Every attempt is in a state of an adapter's call and has an outcome of one.
THEOREM AgentTypes == Agent!Spec => []Agent!TypeOK
<1>1. Agent!Init => AgentInv BY AgentInitInvariant
<1>2. AgentInv /\ [Agent!Next]_(Agent!vars) => AgentInv' BY AgentStepInvariant
<1>3. AgentInv => Agent!TypeOK
  <2> SUFFICES ASSUME AgentInv PROVE Agent!TypeOK OBVIOUS
  <2>1. DOMAIN run = Agent!Attempts BY DEF AgentInv
  <2>2. ASSUME NEW a \in Agent!Attempts
        PROVE  run[a].pc \in {"idle", "transport", "done"} /\ run[a].outcome \in AgentOutcomes
    BY DEF AgentInv, Adapters
  <2> QED BY <2>1, <2>2 DEF Agent!TypeOK, AgentOutcomes, Agent!TransportStates
<1> QED BY <1>1, <1>2, <1>3, PTL DEF Agent!Spec
=============================================================================
