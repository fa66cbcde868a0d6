-------------------------- MODULE ComponentsProofs ---------------------------
(***************************************************************************)
(* What is proved of every component holds of all of them side by side.    *)
(* The part that the first state picks stays picked, its steps are the     *)
(* steps of its component, and the other parts' properties say nothing.    *)
(***************************************************************************)
EXTENDS Components, ReleaseProofs, ProviderProofs, SourceProofs, ServerProofs, TLAPS

\* The first state picks the part for good.
LEMMA PartStays ==
  ASSUME [Next]_vars PROVE UNCHANGED part
  BY DEF Next, vars

\* With release picked, the behaviour is one of ReleaseRun.
LEMMA ReleaseStarts ==
  ASSUME Init, part = "release" PROVE Release!Init
  BY DEF Init

LEMMA ReleaseSteps ==
  ASSUME [Next]_vars, part = "release" PROVE [Release!Next]_(Release!vars)
  BY DEF Next, vars, Release!vars, ReleaseOwn

\* A validated draft owns to what did not succeed or was left open, and reviews what is in it.
THEOREM DraftIsHonestHolds == OneCommand => (Spec => []DraftIsHonest)
<1>1. Init /\ part = "release" => Release!Init BY ReleaseStarts
<1>2. part = "release" /\ [Next]_vars => (part = "release")' BY PartStays
<1>3. ~ (part = "release") /\ [Next]_vars => (~ (part = "release"))' BY PartStays
<1>4. part = "release" /\ [Next]_vars => [Release!Next]_(Release!vars) BY ReleaseSteps
<1>5. OneCommand => (Release!Spec => [](Release!DraftIsHonest)) BY HonestDraft
<1>6. DraftIsHonest <=> (part = "release" => Release!DraftIsHonest) BY DEF DraftIsHonest
<1> QED BY <1>1, <1>2, <1>3, <1>4, <1>5, <1>6, PTL DEF Spec, Release!Spec

\* No command, finalizer or crash takes a run out of an integrity state.
THEOREM IntegrityIsFinalHolds == OneCommand => (Spec => IntegrityIsFinal)
<1>1. Init /\ part = "release" => Release!Init BY ReleaseStarts
<1>2. part = "release" /\ [Next]_vars => (part = "release")' BY PartStays
<1>3. ~ (part = "release") /\ [Next]_vars => (~ (part = "release"))' BY PartStays
<1>4. part = "release" /\ [Next]_vars => [Release!Next]_(Release!vars) BY ReleaseSteps
<1>5. OneCommand => (Release!Spec => [][Release!IntegrityKept]_(Release!vars))
  BY FinalIntegrity
<1>6. [Release!IntegrityKept]_(Release!vars) => Release!IntegrityKept BY IntegrityKeptStutters
<1> QED BY <1>1, <1>2, <1>3, <1>4, <1>5, <1>6, PTL DEF Spec, Release!Spec, IntegrityIsFinal

\* With public picked, the behaviour is one of PublicRelease.
LEMMA PublicStarts ==
  ASSUME Init, part = "public" PROVE Public!Init
  BY DEF Init

LEMMA PublicSteps ==
  ASSUME [Next]_vars, part = "public" PROVE [Public!Next]_(Public!vars)
  BY DEF Next, vars, Public!vars, PublicOwn

\* A release certificate exists only for an equivalent pair with every review and the
\* authorization on disk.
THEOREM CertificateIsEarnedHolds == Spec => []CertificateIsEarned
<1>1. Init /\ part = "public" => Public!Init BY PublicStarts
<1>2. part = "public" /\ [Next]_vars => (part = "public")' BY PartStays
<1>3. ~ (part = "public") /\ [Next]_vars => (~ (part = "public"))' BY PartStays
<1>4. part = "public" /\ [Next]_vars => [Public!Next]_(Public!vars) BY PublicSteps
<1>5. Public!Spec => [](Public!CertificateIsEarned) BY EarnedCertificate
<1>6. CertificateIsEarned <=> (part = "public" => Public!CertificateIsEarned) BY DEF CertificateIsEarned
<1> QED BY <1>1, <1>2, <1>3, <1>4, <1>5, <1>6, PTL DEF Spec, Public!Spec

\* What the pair's journal calls admitted or published is on disk, whole.
THEOREM AdmittedIsWrittenHolds == Spec => []AdmittedIsWritten
<1>1. Init /\ part = "public" => Public!Init BY PublicStarts
<1>2. part = "public" /\ [Next]_vars => (part = "public")' BY PartStays
<1>3. ~ (part = "public") /\ [Next]_vars => (~ (part = "public"))' BY PartStays
<1>4. part = "public" /\ [Next]_vars => [Public!Next]_(Public!vars) BY PublicSteps
<1>5. Public!Spec => [](Public!AdmittedIsWritten) BY WrittenAdmission
<1>6. AdmittedIsWritten <=> (part = "public" => Public!AdmittedIsWritten) BY DEF AdmittedIsWritten
<1> QED BY <1>1, <1>2, <1>3, <1>4, <1>5, <1>6, PTL DEF Spec, Public!Spec

\* While no process died or was slow, one command at a time works on a pair.
THEOREM OneHolderHolds == Spec => []OneHolder
<1>1. Init /\ part = "public" => Public!Init BY PublicStarts
<1>2. part = "public" /\ [Next]_vars => (part = "public")' BY PartStays
<1>3. ~ (part = "public") /\ [Next]_vars => (~ (part = "public"))' BY PartStays
<1>4. part = "public" /\ [Next]_vars => [Public!Next]_(Public!vars) BY PublicSteps
<1>5. Public!Spec => [](Public!OneHolder) BY LoneHolder
<1>6. OneHolder <=> (part = "public" => Public!OneHolder) BY DEF OneHolder
<1> QED BY <1>1, <1>2, <1>3, <1>4, <1>5, <1>6, PTL DEF Spec, Public!Spec

\* With broker picked, the behaviour is one of ProviderBroker.
LEMMA BrokerStarts ==
  ASSUME Init, part = "broker" PROVE Broker!Init
  BY DEF Init

LEMMA BrokerSteps ==
  ASSUME [Next]_vars, part = "broker" PROVE [Broker!Next]_(Broker!vars)
  BY DEF Next, vars, Broker!vars, BrokerOwn

\* What the broker recorded of a job is what happened to it.
THEOREM RecordsAreTrueHolds == Spec => []RecordsAreTrue
<1>1. Init /\ part = "broker" => Broker!Init BY BrokerStarts
<1>2. part = "broker" /\ [Next]_vars => (part = "broker")' BY PartStays
<1>3. ~ (part = "broker") /\ [Next]_vars => (~ (part = "broker"))' BY PartStays
<1>4. part = "broker" /\ [Next]_vars => [Broker!Next]_(Broker!vars) BY BrokerSteps
<1>5. Broker!Spec => [](Broker!RecordsAreTrue) BY TrueRecords
<1>6. RecordsAreTrue <=> (part = "broker" => Broker!RecordsAreTrue) BY DEF RecordsAreTrue
<1> QED BY <1>1, <1>2, <1>3, <1>4, <1>5, <1>6, PTL DEF Spec, Broker!Spec

\* A broker call that was admitted and returned left its records, and what else it left
\* has a throw of a dependency to blame.
THEOREM ReturnedIsSettledHolds == Spec => []ReturnedIsSettled
<1>1. Init /\ part = "broker" => Broker!Init BY BrokerStarts
<1>2. part = "broker" /\ [Next]_vars => (part = "broker")' BY PartStays
<1>3. ~ (part = "broker") /\ [Next]_vars => (~ (part = "broker"))' BY PartStays
<1>4. part = "broker" /\ [Next]_vars => [Broker!Next]_(Broker!vars) BY BrokerSteps
<1>5. Broker!Spec => [](Broker!ReturnedIsSettled) BY SettledReturn
<1>6. ReturnedIsSettled <=> (part = "broker" => Broker!ReturnedIsSettled) BY DEF ReturnedIsSettled
<1> QED BY <1>1, <1>2, <1>3, <1>4, <1>5, <1>6, PTL DEF Spec, Broker!Spec

\* With command picked, the behaviour is one of ProviderCommand.
LEMMA CommandStarts ==
  ASSUME Init, part = "command" PROVE Command!Init
  BY DEF Init

LEMMA CommandSteps ==
  ASSUME [Next]_vars, part = "command" PROVE [Command!Next]_(Command!vars)
  BY DEF Next, vars, Command!vars, CommandOwn

\* A result document that says completed was written with nothing left on the host.
THEOREM DocumentIsHonestHolds == Spec => []DocumentIsHonest
<1>1. Init /\ part = "command" => Command!Init BY CommandStarts
<1>2. part = "command" /\ [Next]_vars => (part = "command")' BY PartStays
<1>3. ~ (part = "command") /\ [Next]_vars => (~ (part = "command"))' BY PartStays
<1>4. part = "command" /\ [Next]_vars => [Command!Next]_(Command!vars) BY CommandSteps
<1>5. Command!Spec => [](Command!DocumentIsHonest) BY HonestDocument
<1>6. DocumentIsHonest <=> (part = "command" => Command!DocumentIsHonest) BY DEF DocumentIsHonest
<1> QED BY <1>1, <1>2, <1>3, <1>4, <1>5, <1>6, PTL DEF Spec, Command!Spec

\* With task picked, the behaviour is one of ProviderTask.
LEMMA TaskStarts ==
  ASSUME Init, part = "task" PROVE Task!Init
  BY DEF Init

LEMMA TaskSteps ==
  ASSUME [Next]_vars, part = "task" PROVE [Task!Next]_(Task!vars)
  BY DEF Next, vars, Task!vars, TaskOwn

\* A proposal comes from a program that ended well and mentions admitted evidence only.
THEOREM ProposalIsEarnedHolds == Spec => []ProposalIsEarned
<1>1. Init /\ part = "task" => Task!Init BY TaskStarts
<1>2. part = "task" /\ [Next]_vars => (part = "task")' BY PartStays
<1>3. ~ (part = "task") /\ [Next]_vars => (~ (part = "task"))' BY PartStays
<1>4. part = "task" /\ [Next]_vars => [Task!Next]_(Task!vars) BY TaskSteps
<1>5. Task!Spec => [](Task!ProposalIsEarned) BY EarnedProposal
<1>6. ProposalIsEarned <=> (part = "task" => Task!ProposalIsEarned) BY DEF ProposalIsEarned
<1> QED BY <1>1, <1>2, <1>3, <1>4, <1>5, <1>6, PTL DEF Spec, Task!Spec

\* With runtime picked, the behaviour is one of RuntimeFlow.
LEMMA RuntimeStarts ==
  ASSUME Init, part = "runtime" PROVE Runtime!Init
  BY DEF Init

LEMMA RuntimeSteps ==
  ASSUME [Next]_vars, part = "runtime" PROVE [Runtime!Next]_(Runtime!vars)
  BY DEF Next, vars, Runtime!vars, RuntimeOwn

\* A runtime result without residue leaves nothing; a SUCCEEDED one has every answer.
THEOREM FlowIsAccountedHolds == Spec => []FlowIsAccounted
<1>1. Init /\ part = "runtime" => Runtime!Init BY RuntimeStarts
<1>2. part = "runtime" /\ [Next]_vars => (part = "runtime")' BY PartStays
<1>3. ~ (part = "runtime") /\ [Next]_vars => (~ (part = "runtime"))' BY PartStays
<1>4. part = "runtime" /\ [Next]_vars => [Runtime!Next]_(Runtime!vars) BY RuntimeSteps
<1>5. Runtime!Spec => [](Runtime!FlowIsAccounted) BY AccountedFlow
<1>6. FlowIsAccounted <=> (part = "runtime" => Runtime!FlowIsAccounted) BY DEF FlowIsAccounted
<1> QED BY <1>1, <1>2, <1>3, <1>4, <1>5, <1>6, PTL DEF Spec, Runtime!Spec

\* With capture picked, the behaviour is one of SourceCapture.
LEMMA CaptureStarts ==
  ASSUME Init, part = "capture" PROVE Capture!Init
  BY DEF Init

LEMMA CaptureSteps ==
  ASSUME [Next]_vars, part = "capture" PROVE [Capture!Next]_(Capture!vars)
  BY DEF Next, vars, Capture!vars, CaptureOwn

\* A snapshot is what the source held at one instant of the capture.
THEOREM SnapshotIsAnInstantHolds == Spec => []SnapshotIsAnInstant
<1>1. Init /\ part = "capture" => Capture!Init BY CaptureStarts
<1>2. part = "capture" /\ [Next]_vars => (part = "capture")' BY PartStays
<1>3. ~ (part = "capture") /\ [Next]_vars => (~ (part = "capture"))' BY PartStays
<1>4. part = "capture" /\ [Next]_vars => [Capture!Next]_(Capture!vars) BY CaptureSteps
<1>5. Capture!Spec => [](Capture!SnapshotIsAnInstant) BY InstantSnapshot
<1>6. SnapshotIsAnInstant <=> (part = "capture" => Capture!SnapshotIsAnInstant) BY DEF SnapshotIsAnInstant
<1> QED BY <1>1, <1>2, <1>3, <1>4, <1>5, <1>6, PTL DEF Spec, Capture!Spec

\* With ssh picked, the behaviour is one of SshSource.
LEMMA SshStarts ==
  ASSUME Init, part = "ssh" PROVE Ssh!Init
  BY DEF Init

LEMMA SshSteps ==
  ASSUME [Next]_vars, part = "ssh" PROVE [Ssh!Next]_(Ssh!vars)
  BY DEF Next, vars, Ssh!vars, SshOwn

\* The index, the helper and the snapshots of an SSH acquisition agree.
THEOREM SourceIsAccountedHolds == Spec => []SourceIsAccounted
<1>1. Init /\ part = "ssh" => Ssh!Init BY SshStarts
<1>2. part = "ssh" /\ [Next]_vars => (part = "ssh")' BY PartStays
<1>3. ~ (part = "ssh") /\ [Next]_vars => (~ (part = "ssh"))' BY PartStays
<1>4. part = "ssh" /\ [Next]_vars => [Ssh!Next]_(Ssh!vars) BY SshSteps
<1>5. Ssh!Spec => [](Ssh!SourceIsAccounted) BY AccountedSource
<1>6. SourceIsAccounted <=> (part = "ssh" => Ssh!SourceIsAccounted) BY DEF SourceIsAccounted
<1> QED BY <1>1, <1>2, <1>3, <1>4, <1>5, <1>6, PTL DEF Spec, Ssh!Spec

\* With plan picked, the behaviour is one of ControlPlan.
LEMMA ControlStarts ==
  ASSUME Init, part = "plan" PROVE Control!Init
  BY DEF Init

LEMMA ControlSteps ==
  ASSUME [Next]_vars, part = "plan" PROVE [Control!Next]_(Control!vars)
  BY DEF Next, vars, Control!vars, ControlOwn

\* The broker is asked for admitted plans only, and a nonce is spent on one of them.
THEOREM ProbesAreAuthorisedHolds == Spec => []ProbesAreAuthorised
<1>1. Init /\ part = "plan" => Control!Init BY ControlStarts
<1>2. part = "plan" /\ [Next]_vars => (part = "plan")' BY PartStays
<1>3. ~ (part = "plan") /\ [Next]_vars => (~ (part = "plan"))' BY PartStays
<1>4. part = "plan" /\ [Next]_vars => [Control!Next]_(Control!vars) BY ControlSteps
<1>5. Control!Spec => [](Control!ProbesAreAuthorised) BY AuthorisedProbes
<1>6. ProbesAreAuthorised <=> (part = "plan" => Control!ProbesAreAuthorised) BY DEF ProbesAreAuthorised
<1> QED BY <1>1, <1>2, <1>3, <1>4, <1>5, <1>6, PTL DEF Spec, Control!Spec

\* With agent picked, the behaviour is one of AgentTask.
LEMMA AgentStarts ==
  ASSUME Init, part = "agent" PROVE Agent!Init
  BY DEF Init

LEMMA AgentSteps ==
  ASSUME [Next]_vars, part = "agent" PROVE [Agent!Next]_(Agent!vars)
  BY DEF Next, vars, Agent!vars

\* A proposal that was taken belongs to its attempt, its evidence and, a review, to a taken proposal.
THEOREM TakenIsBoundHolds == Spec => []TakenIsBound
<1>1. Init /\ part = "agent" => Agent!Init BY AgentStarts
<1>2. part = "agent" /\ [Next]_vars => (part = "agent")' BY PartStays
<1>3. ~ (part = "agent") /\ [Next]_vars => (~ (part = "agent"))' BY PartStays
<1>4. part = "agent" /\ [Next]_vars => [Agent!Next]_(Agent!vars) BY AgentSteps
<1>5. Agent!Spec => [](Agent!TakenIsBound) BY BoundProposals
<1>6. TakenIsBound <=> (part = "agent" => Agent!TakenIsBound) BY DEF TakenIsBound
<1> QED BY <1>1, <1>2, <1>3, <1>4, <1>5, <1>6, PTL DEF Spec, Agent!Spec

\* With package picked, the behaviour is one of CustomerPackage.
LEMMA PackageStarts ==
  ASSUME Init, part = "package" PROVE Package!Init
  BY DEF Init

LEMMA PackageSteps ==
  ASSUME [Next]_vars, part = "package" PROVE [Package!Next]_(Package!vars)
  BY DEF Next, vars, Package!vars, PackageOwn

\* A detached digest is of the archive beside it, certified and free of what may not leave.
THEOREM PackageIsSealedHolds == Spec => []PackageIsSealed
<1>1. Init /\ part = "package" => Package!Init BY PackageStarts
<1>2. part = "package" /\ [Next]_vars => (part = "package")' BY PartStays
<1>3. ~ (part = "package") /\ [Next]_vars => (~ (part = "package"))' BY PartStays
<1>4. part = "package" /\ [Next]_vars => [Package!Next]_(Package!vars) BY PackageSteps
<1>5. Package!Spec => [](Package!PackageIsSealed) BY SealedPackage
<1>6. PackageIsSealed <=> (part = "package" => Package!PackageIsSealed) BY DEF PackageIsSealed
<1> QED BY <1>1, <1>2, <1>3, <1>4, <1>5, <1>6, PTL DEF Spec, Package!Spec

\* With inputs picked, the behaviour is one of DraftInputs.
LEMMA InputsStarts ==
  ASSUME Init, part = "inputs" PROVE Inputs!Init
  BY DEF Init

LEMMA InputsSteps ==
  ASSUME [Next]_vars, part = "inputs" PROVE [Inputs!Next]_(Inputs!vars)
  BY DEF Next, vars, Inputs!vars, InputsOwn

\* A secret in memory is of a live handle and will be erased; no token outlives its handle.
THEOREM SecretsAreHeldHolds == Spec => []SecretsAreHeld
<1>1. Init /\ part = "inputs" => Inputs!Init BY InputsStarts
<1>2. part = "inputs" /\ [Next]_vars => (part = "inputs")' BY PartStays
<1>3. ~ (part = "inputs") /\ [Next]_vars => (~ (part = "inputs"))' BY PartStays
<1>4. part = "inputs" /\ [Next]_vars => [Inputs!Next]_(Inputs!vars) BY InputsSteps
<1>5. Inputs!Spec => [](Inputs!SecretsAreHeld) BY SecretsHeld
<1>6. SecretsAreHeld <=> (part = "inputs" => Inputs!SecretsAreHeld) BY DEF SecretsAreHeld
<1> QED BY <1>1, <1>2, <1>3, <1>4, <1>5, <1>6, PTL DEF Spec, Inputs!Spec

\* With install picked, the behaviour is one of HelperInstall.
LEMMA InstallStarts ==
  ASSUME Init, part = "install" PROVE Install!Init
  BY DEF Init

LEMMA InstallSteps ==
  ASSUME [Next]_vars, part = "install" PROVE [Install!Next]_(Install!vars)
  BY DEF Next, vars, Install!vars, InstallOwn

\* Installed bytes were recorded by a ceremony; what was verified, or runs, is one release.
THEOREM InstallationIsWholeHolds == Spec => []InstallationIsWhole
<1>1. Init /\ part = "install" => Install!Init BY InstallStarts
<1>2. part = "install" /\ [Next]_vars => (part = "install")' BY PartStays
<1>3. ~ (part = "install") /\ [Next]_vars => (~ (part = "install"))' BY PartStays
<1>4. part = "install" /\ [Next]_vars => [Install!Next]_(Install!vars) BY InstallSteps
<1>5. Install!Spec => [](Install!InstallationIsWhole) BY WholeInstallation
<1>6. InstallationIsWhole <=> (part = "install" => Install!InstallationIsWhole) BY DEF InstallationIsWhole
<1> QED BY <1>1, <1>2, <1>3, <1>4, <1>5, <1>6, PTL DEF Spec, Install!Spec

\* With id picked, the behaviour is one of EngagementId.
LEMMA IdStarts ==
  ASSUME Init, part = "id" PROVE Id!Init
  BY DEF Init

LEMMA IdSteps ==
  ASSUME [Next]_vars, part = "id" PROVE [Id!Next]_(Id!vars)
  BY DEF Next, vars, Id!vars, IdOwn

\* Unless the operator removes the file, every launcher gets the same id.
THEOREM EngagementIsOneHolds == Spec => []EngagementIsOne
<1>1. Init /\ part = "id" => Id!Init BY IdStarts
<1>2. part = "id" /\ [Next]_vars => (part = "id")' BY PartStays
<1>3. ~ (part = "id") /\ [Next]_vars => (~ (part = "id"))' BY PartStays
<1>4. part = "id" /\ [Next]_vars => [Id!Next]_(Id!vars) BY IdSteps
<1>5. Id!Spec => [](Id!EngagementIsOne) BY OneEngagement
<1>6. EngagementIsOne <=> (part = "id" => Id!EngagementIsOne) BY DEF EngagementIsOne
<1> QED BY <1>1, <1>2, <1>3, <1>4, <1>5, <1>6, PTL DEF Spec, Id!Spec

\* With console picked, the behaviour is one of OperatorConsole.
LEMMA ConsoleStarts ==
  ASSUME Init, part = "console" PROVE Console!Init
  BY DEF Init

LEMMA ConsoleSteps ==
  ASSUME [Next]_vars, part = "console" PROVE [Console!Next]_(Console!vars)
  BY DEF Next, vars, Console!vars, ConsoleOwn

\* A tab changes only what it has seen, and shows the last events without a gap.
THEOREM ConsoleIsInformedHolds == Spec => []ConsoleIsInformed
<1>1. Init /\ part = "console" => Console!Init BY ConsoleStarts
<1>2. part = "console" /\ [Next]_vars => (part = "console")' BY PartStays
<1>3. ~ (part = "console") /\ [Next]_vars => (~ (part = "console"))' BY PartStays
<1>4. part = "console" /\ [Next]_vars => [Console!Next]_(Console!vars) BY ConsoleSteps
<1>5. Console!Spec => [](Console!ConsoleIsInformed) BY InformedConsole
<1>6. ConsoleIsInformed <=> (part = "console" => Console!ConsoleIsInformed) BY DEF ConsoleIsInformed
<1> QED BY <1>1, <1>2, <1>3, <1>4, <1>5, <1>6, PTL DEF Spec, Console!Spec

\* The variables of the component that the first state picked keep their types.
THEOREM TypeOKHolds == OneCommand => (Spec => []TypeOK)
<1>1. OneCommand => (Spec => [](part = "release" => Release!TypeOK))
  <2>1. Init /\ part = "release" => Release!Init BY ReleaseStarts
  <2>2. part = "release" /\ [Next]_vars => (part = "release")' BY PartStays
  <2>3. ~ (part = "release") /\ [Next]_vars => (~ (part = "release"))' BY PartStays
  <2>4. part = "release" /\ [Next]_vars => [Release!Next]_(Release!vars) BY ReleaseSteps
  <2>5. OneCommand => (Release!Spec => [](Release!TypeOK)) BY ReleaseTypes
  <2> QED BY <2>1, <2>2, <2>3, <2>4, <2>5, PTL DEF Spec, Release!Spec
<1>2. Spec => [](part = "public" => Public!TypeOK)
  <2>1. Init /\ part = "public" => Public!Init BY PublicStarts
  <2>2. part = "public" /\ [Next]_vars => (part = "public")' BY PartStays
  <2>3. ~ (part = "public") /\ [Next]_vars => (~ (part = "public"))' BY PartStays
  <2>4. part = "public" /\ [Next]_vars => [Public!Next]_(Public!vars) BY PublicSteps
  <2>5. Public!Spec => [](Public!TypeOK) BY PublicTypes
  <2> QED BY <2>1, <2>2, <2>3, <2>4, <2>5, PTL DEF Spec, Public!Spec
<1>3. Spec => [](part = "broker" => Broker!TypeOK)
  <2>1. Init /\ part = "broker" => Broker!Init BY BrokerStarts
  <2>2. part = "broker" /\ [Next]_vars => (part = "broker")' BY PartStays
  <2>3. ~ (part = "broker") /\ [Next]_vars => (~ (part = "broker"))' BY PartStays
  <2>4. part = "broker" /\ [Next]_vars => [Broker!Next]_(Broker!vars) BY BrokerSteps
  <2>5. Broker!Spec => [](Broker!TypeOK) BY BrokerTypes
  <2> QED BY <2>1, <2>2, <2>3, <2>4, <2>5, PTL DEF Spec, Broker!Spec
<1>4. Spec => [](part = "runtime" => Runtime!TypeOK)
  <2>1. Init /\ part = "runtime" => Runtime!Init BY RuntimeStarts
  <2>2. part = "runtime" /\ [Next]_vars => (part = "runtime")' BY PartStays
  <2>3. ~ (part = "runtime") /\ [Next]_vars => (~ (part = "runtime"))' BY PartStays
  <2>4. part = "runtime" /\ [Next]_vars => [Runtime!Next]_(Runtime!vars) BY RuntimeSteps
  <2>5. Runtime!Spec => [](Runtime!TypeOK) BY FlowTypes
  <2> QED BY <2>1, <2>2, <2>3, <2>4, <2>5, PTL DEF Spec, Runtime!Spec
<1>5. Spec => [](part = "plan" => Control!TypeOK)
  <2>1. Init /\ part = "plan" => Control!Init BY ControlStarts
  <2>2. part = "plan" /\ [Next]_vars => (part = "plan")' BY PartStays
  <2>3. ~ (part = "plan") /\ [Next]_vars => (~ (part = "plan"))' BY PartStays
  <2>4. part = "plan" /\ [Next]_vars => [Control!Next]_(Control!vars) BY ControlSteps
  <2>5. Control!Spec => [](Control!TypeOK) BY ControlTypes
  <2> QED BY <2>1, <2>2, <2>3, <2>4, <2>5, PTL DEF Spec, Control!Spec
<1>6. Spec => [](part = "agent" => Agent!TypeOK)
  <2>1. Init /\ part = "agent" => Agent!Init BY AgentStarts
  <2>2. part = "agent" /\ [Next]_vars => (part = "agent")' BY PartStays
  <2>3. ~ (part = "agent") /\ [Next]_vars => (~ (part = "agent"))' BY PartStays
  <2>4. part = "agent" /\ [Next]_vars => [Agent!Next]_(Agent!vars) BY AgentSteps
  <2>5. Agent!Spec => [](Agent!TypeOK) BY AgentTypes
  <2> QED BY <2>1, <2>2, <2>3, <2>4, <2>5, PTL DEF Spec, Agent!Spec
<1>7. Spec => [](part = "package" => Package!TypeOK)
  <2>1. Init /\ part = "package" => Package!Init BY PackageStarts
  <2>2. part = "package" /\ [Next]_vars => (part = "package")' BY PartStays
  <2>3. ~ (part = "package") /\ [Next]_vars => (~ (part = "package"))' BY PartStays
  <2>4. part = "package" /\ [Next]_vars => [Package!Next]_(Package!vars) BY PackageSteps
  <2>5. Package!Spec => [](Package!TypeOK) BY PackageTypes
  <2> QED BY <2>1, <2>2, <2>3, <2>4, <2>5, PTL DEF Spec, Package!Spec
<1>8. Spec => [](part = "inputs" => Inputs!TypeOK)
  <2>1. Init /\ part = "inputs" => Inputs!Init BY InputsStarts
  <2>2. part = "inputs" /\ [Next]_vars => (part = "inputs")' BY PartStays
  <2>3. ~ (part = "inputs") /\ [Next]_vars => (~ (part = "inputs"))' BY PartStays
  <2>4. part = "inputs" /\ [Next]_vars => [Inputs!Next]_(Inputs!vars) BY InputsSteps
  <2>5. Inputs!Spec => [](Inputs!TypeOK) BY InputsTypes
  <2> QED BY <2>1, <2>2, <2>3, <2>4, <2>5, PTL DEF Spec, Inputs!Spec
<1>9. Spec => [](part = "console" => Console!TypeOK)
  <2>1. Init /\ part = "console" => Console!Init BY ConsoleStarts
  <2>2. part = "console" /\ [Next]_vars => (part = "console")' BY PartStays
  <2>3. ~ (part = "console") /\ [Next]_vars => (~ (part = "console"))' BY PartStays
  <2>4. part = "console" /\ [Next]_vars => [Console!Next]_(Console!vars) BY ConsoleSteps
  <2>5. Console!Spec => [](Console!TypeOK) BY ConsoleTypes
  <2> QED BY <2>1, <2>2, <2>3, <2>4, <2>5, PTL DEF Spec, Console!Spec
<1>10. Spec => [](part = "install" => Install!TypeOK)
  <2>1. Init /\ part = "install" => Install!Init BY InstallStarts
  <2>2. part = "install" /\ [Next]_vars => (part = "install")' BY PartStays
  <2>3. ~ (part = "install") /\ [Next]_vars => (~ (part = "install"))' BY PartStays
  <2>4. part = "install" /\ [Next]_vars => [Install!Next]_(Install!vars) BY InstallSteps
  <2>5. Install!Spec => [](Install!TypeOK) BY InstallTypes
  <2> QED BY <2>1, <2>2, <2>3, <2>4, <2>5, PTL DEF Spec, Install!Spec
<1>11. Spec => [](part = "id" => Id!TypeOK)
  <2>1. Init /\ part = "id" => Id!Init BY IdStarts
  <2>2. part = "id" /\ [Next]_vars => (part = "id")' BY PartStays
  <2>3. ~ (part = "id") /\ [Next]_vars => (~ (part = "id"))' BY PartStays
  <2>4. part = "id" /\ [Next]_vars => [Id!Next]_(Id!vars) BY IdSteps
  <2>5. Id!Spec => [](Id!TypeOK) BY IdTypes
  <2> QED BY <2>1, <2>2, <2>3, <2>4, <2>5, PTL DEF Spec, Id!Spec
<1>12. TypeOK <=>
        /\ part = "release" => Release!TypeOK
        /\ part = "public" => Public!TypeOK
        /\ part = "broker" => Broker!TypeOK
        /\ part = "runtime" => Runtime!TypeOK
        /\ part = "plan" => Control!TypeOK
        /\ part = "agent" => Agent!TypeOK
        /\ part = "package" => Package!TypeOK
        /\ part = "inputs" => Inputs!TypeOK
        /\ part = "console" => Console!TypeOK
        /\ part = "install" => Install!TypeOK
        /\ part = "id" => Id!TypeOK
  BY DEF TypeOK
<1> QED BY <1>1, <1>2, <1>3, <1>4, <1>5, <1>6,
    <1>7, <1>8, <1>9, <1>10, <1>11, <1>12, PTL
=============================================================================
