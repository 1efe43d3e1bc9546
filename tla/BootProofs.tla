----------------------------- MODULE BootProofs -----------------------------
(***************************************************************************)
(* Theorems about the boots of a machine, for any number of boots, files,  *)
(* contents and virtual file systems, and for every threshold.             *)
(*                                                                         *)
(* The inductive invariant has one part per subject: the files that are    *)
(* replaced atomically, the machine id among them, the virtual file        *)
(* systems, registryd, and the boot-attempt counter.                       *)
(*                                                                         *)
(* The last part is about the trackers that follow a boot (BootTrackers),  *)
(* whatever plan they are given.                                           *)
(***************************************************************************)
EXTENDS Boot, BootTrackers, FiniteSetTheorems, WellFoundedInduction, TLAPS

(***************************************************************************)
(* The files.                                                              *)
(***************************************************************************)
(* What is renamed is the whole new content, and is already on the disk.   *)
FileInv ==
  /\ FileTypeOK
  /\ \A f \in Files :
       /\ live[f] \in survivors[f]
       /\ stage[f] # "idle" => writing[f] \in Contents
       /\ stage[f] \in {"fsync", "rename"} => temp[f] = writing[f]
       /\ stage[f] = "rename" => tempAfter[f] = {temp[f]}

\* A clean shutdown's sync(): only what is live survives.
SyncFiles ==
  /\ survivors' = [f \in Files |-> {live[f]}]
  /\ UNCHANGED <<live, temp, tempAfter, stage, writing>>

(* All that a step of the machine may do to the files.                     *)
FileStep ==
  \/ UNCHANGED fileVars
  \/ \E f \in Files, c \in Contents : WriteAtomically(f, c)
  \/ \E f \in Files : WriteSyscall(f)
  \/ \E f \in Files : FsyncDirectory(f)
  \/ \E f \in Files : WriteFails(f)
  \/ SyncFiles
  \/ LosePower

(* A file system with no write in progress satisfies the files' invariant. *)
LEMMA FilesInitInv ==
  ASSUME NEW files \in [Files -> Held], FilesInit(files)
  PROVE  FileInv
BY Zenon DEF FilesInit, FileInv, FileTypeOK, Held, Stages

(* Every system call of a write, its failure, a sync and a power loss keep *)
(* the files' invariant.                                                   *)
LEMMA FileStepInv ==
  ASSUME FileInv, FileStep
  PROVE  FileInv'
<1> USE DEF FileInv, FileTypeOK, Held, Stages
<1>1. CASE UNCHANGED fileVars
  BY <1>1, Zenon DEF fileVars
<1>2. ASSUME NEW f \in Files, NEW c \in Contents, WriteAtomically(f, c)
      PROVE  FileInv'
  BY <1>2, Zenon DEF WriteAtomically
<1>3. ASSUME NEW f \in Files, WriteSyscall(f)
      PROVE  FileInv'
  <2>1. CASE CreateTemp(f)
    BY <2>1, Zenon DEF CreateTemp
  <2>2. CASE WriteAll(f)
    BY <2>2 DEF WriteAll
  <2>3. CASE FsyncTemp(f)
    BY <2>3 DEF FsyncTemp
  <2>4. CASE Rename(f)
    BY <2>4, Zenon DEF Rename
  <2> QED
    BY <1>3, <2>1, <2>2, <2>3, <2>4, Zenon DEF WriteSyscall
<1>4. ASSUME NEW f \in Files, FsyncDirectory(f)
      PROVE  FileInv'
  BY <1>4 DEF FsyncDirectory
<1>5. ASSUME NEW f \in Files, WriteFails(f)
      PROVE  FileInv'
  BY <1>5, Zenon DEF WriteFails
<1>6. CASE SyncFiles
  BY <1>6 DEF SyncFiles
<1>7. CASE LosePower
  BY <1>7 DEF LosePower
<1> QED
  BY <1>1, <1>2, <1>3, <1>4, <1>5, <1>6, <1>7, Zenon DEF FileStep

(* Only the rename changes what a reader finds, and it is a replacement of *)
(* the register; the sync of one file settles it; a sync of all of them is *)
(* a loss that loses nothing.                                              *)
LEMMA FileStepIsRegisterStep ==
  ASSUME FileInv, FileStep
  PROVE  [Register!RegisterNext]_(Register!registerVars)
<1> USE DEF FileInv, FileTypeOK, Register!registerVars
<1>1. CASE UNCHANGED fileVars
  BY <1>1, Zenon DEF fileVars
<1>2. ASSUME NEW f \in Files, NEW c \in Contents, WriteAtomically(f, c)
      PROVE  UNCHANGED Register!registerVars
  BY <1>2, Zenon DEF WriteAtomically
<1>3. ASSUME NEW f \in Files, WriteSyscall(f)
      PROVE  [Register!RegisterNext]_(Register!registerVars)
  <2>1. CASE CreateTemp(f) \/ WriteAll(f) \/ FsyncTemp(f)
    BY <2>1, Zenon DEF CreateTemp, WriteAll, FsyncTemp
  <2>2. CASE Rename(f)
    <3>1. temp[f] \in Contents /\ tempAfter[f] = {temp[f]}
      BY <2>2, Zenon DEF Rename
    <3>2. /\ live' = [live EXCEPT ![f] = temp[f]]
          /\ survivors' = [survivors EXCEPT ![f] = @ \cup {temp[f]}]
      BY <2>2, <3>1, Zenon DEF Rename
    <3>3. Register!Replace(f)
      BY <3>1, <3>2, Zenon DEF Register!Replace
    <3> QED
      BY <3>3, Zenon DEF Register!RegisterNext
  <2> QED
    BY <1>3, <2>1, <2>2, Zenon DEF WriteSyscall
<1>4. ASSUME NEW f \in Files, FsyncDirectory(f)
      PROVE  Register!RegisterNext
  BY <1>4, Zenon DEF FsyncDirectory, Register!RegisterNext, Register!Settle
<1>5. ASSUME NEW f \in Files, WriteFails(f)
      PROVE  UNCHANGED Register!registerVars
  BY <1>5, Zenon DEF WriteFails
<1>6. CASE SyncFiles
  BY <1>6, Zenon DEF SyncFiles, Register!RegisterNext, Register!RegisterLoss, Held, Register!Held
<1>7. CASE LosePower
  BY <1>7, Zenon DEF LosePower, Register!RegisterNext, Register!RegisterLoss, Held, Register!Held
<1> QED
  BY <1>1, <1>2, <1>3, <1>4, <1>5, <1>6, <1>7, Zenon DEF FileStep

(* The steps of the machine that touch the files do so by FileStep.        *)
LEMMA NextIsFileStep ==
  ASSUME [Next]_vars
  PROVE  FileStep
<1>1. CASE UNCHANGED fileVars
  BY <1>1, Zenon DEF FileStep
<1>2. CASE GenerateMachineId \/ SaveRandomSeed
  BY <1>2, BootAssumption, Zenon DEF GenerateMachineId, SaveRandomSeed, FileStep
<1>3. CASE MachineIdSyscall \/ SeedSyscall
  BY <1>3, BootAssumption, Zenon DEF MachineIdSyscall, SeedSyscall, FileStep
<1>4. CASE MachineIdPersisted \/ MachineIdEphemeral \/ SeedSaved
  BY <1>4, BootAssumption, Zenon DEF MachineIdPersisted, MachineIdEphemeral, SeedSaved, FileStep
<1>5. CASE PowerOff
  BY <1>5, Zenon DEF PowerOff, FileStep, SyncFiles
<1>6. CASE PowerLoss
  BY <1>6, Zenon DEF PowerLoss, FileStep
<1>7. CASE \/ ReadKernelCommandLine \/ VerifyPrivileges \/ VerifyRootWritable
           \/ MountVirtualFilesystems \/ RestoreRandomSeed \/ KeepMachineId
           \/ GenerateFails \/ ReadBootAttemptCounter
           \/ IncrementBootAttemptCounter \/ DecideBootMode \/ SetClockFromRtc
           \/ StartRegistryd \/ ProvisionBootPaths \/ SetupInfrastructure
           \/ RunPhase2Boot
  BY <1>1, <1>7, Zenon
     DEF ReadKernelCommandLine, VerifyPrivileges, VerifyRootWritable,
         MountVirtualFilesystems, RestoreRandomSeed, KeepMachineId,
         GenerateFails, ReadBootAttemptCounter, IncrementBootAttemptCounter,
         DecideBootMode, SetClockFromRtc, StartRegistryd, ProvisionBootPaths,
         SetupInfrastructure, RunPhase2Boot, PlatformCall
<1>8. CASE \/ RecoveryStep \/ RecoveryFails \/ ShellExits \/ RuntimeFails
           \/ ResetBootAttemptCounter \/ SwitchOn
  BY <1>1, <1>8, Zenon
     DEF RecoveryStep, RecoveryFails, ShellExits, RuntimeFails,
         ResetBootAttemptCounter, SwitchOn, CatchUpMounts,
         StartRecoveryRegistryd, SpawnShell, HaltWithoutShell, ConsoleStep
<1>9. CASE UNCHANGED vars
  BY <1>1, <1>9, Zenon DEF vars
<1> QED
  BY <1>2, <1>3, <1>4, <1>5, <1>6, <1>7, <1>8, <1>9, Zenon DEF Next, Phase1Step

(* Whatever the boots do and wherever the power goes, the machine id and   *)
(* the seed are atomic registers to their readers: a reader finds a whole  *)
(* content, and after a power loss one of those the file may have held.    *)
THEOREM FilesImplementRegister ==
  ASSUME NEW files \in [Files -> Held]
  PROVE  SpecFrom(files) => FilesAreAtomic
<1>1. Init(files) => FileInv
  BY FilesInitInv, Zenon DEF Init
<1>2. FileInv /\ [Next]_vars => FileInv'
  BY FileStepInv, NextIsFileStep, Zenon
<1>3. Init(files) => Register!RegisterInit
  BY Zenon DEF Init, FilesInit, Register!RegisterInit, Held, Register!Held
<1>4. FileInv /\ [Next]_vars => [Register!RegisterNext]_(Register!registerVars)
  BY FileStepIsRegisterStep, NextIsFileStep, Zenon
<1> QED
  BY <1>1, <1>2, <1>3, <1>4, PTL DEF SpecFrom, FilesAreAtomic, Register!RegisterSpec

(***************************************************************************)
(* The parts of the invariant about one boot.                              *)
(***************************************************************************)
BeforeMounts == {"off", "cmdline", "privileges", "root", "mounts"}

\* The steps up to the read of the counter.
BeforeCounter == BeforeMounts \cup {"seed", "machineId", "readCounter"}

\* The steps up to the start of registryd.
BeforeRegistryd ==
  BeforeCounter \cup {"increment", "threshold", "clock", "registryd"}

\* The steps of recovery, and the ends of a boot.
Recovering == {"recovery", "recoveryId", "recoveryRegistryd", "console",
               "shell", "halted", "exited"}

(* The step, and the reason to be in recovery.                             *)
StepInv ==
  /\ pc \in Steps
  /\ reason = "ThresholdReached" => pc \in Recovering

(* Nothing is started before the start of registryd, and recovery knows    *)
(* whether that start was tried.                                           *)
RegistrydInv ==
  /\ registryds \in 0 .. 1
  /\ pc \in BeforeRegistryd => registryds = 0
  /\ pc \in {"recovery", "recoveryId", "recoveryRegistryd"} /\ ~ RegistrydAttempted
       => registryds = 0

(* A boot begins with nothing mounted and goes on with everything mounted. *)
MountInv ==
  /\ mounts \in [Mounts -> {"unmounted", "bare", "ready"}]
  /\ pc \in BeforeMounts => \A m \in Mounts : mounts[m] = "unmounted"
  /\ pc \notin BeforeMounts \cup Recovering \cup {"syncing"} =>
       \A m \in Mounts : mounts[m] = "ready"

\* What the history of the boots records.
PastType ==
  [boots : Nat, unconfirmed : Nat, unrecorded : BOOLEAN, lost : BOOLEAN,
   id : Held \cup {None}]

(* The file never counts a boot that was not unconfirmed, and counts all   *)
(* of them while every write has succeeded; between the read and the       *)
(* decision the boot's own count stays one behind the file.                *)
CounterType ==
  /\ past \in PastType
  /\ cmd \in [recovery : BOOLEAN, threshold : Nat]
  /\ counted \in Nat
  /\ counter \in Nat \cup {Absent, Torn}
  /\ counterAfter \subseteq Nat \cup {Absent, Torn}
  /\ pc \in BeforeCounter => counted = 0

\* The file and the number of boots that were not confirmed.
FileTracks ==
  /\ counter \in Nat => counter <= past.unconfirmed
  /\ ~ past.unrecorded => Readable /\ ReadCounter = past.unconfirmed

\* The boot's own count between the read and the decision.
BootTracks ==
  /\ pc = "increment" =>
       /\ counted <= past.unconfirmed
       /\ ~ past.unrecorded /\ ~ cmd.recovery => counted = past.unconfirmed
  /\ pc = "threshold" =>
       /\ counted = 0 \/ counted < past.unconfirmed
       /\ ~ past.unrecorded /\ ~ cmd.recovery => counted + 1 = past.unconfirmed

\* The counter, as long as the power was never lost.
CounterInv ==
  /\ CounterType
  /\ ~ past.lost => FileTracks /\ BootTracks

(* The id a boot went on with as persistent is the only one on the disk.   *)
MachineIdInv ==
  /\ past.id # None => survivors[MachineId] = {past.id} /\ live[MachineId] = past.id
  /\ stage[MachineId] # "idle" => past.id = None /\ pc \in {"machineId", "recoveryId"}
  /\ pc \in BeforeMounts \cup {"seed", "machineId"} /\ stage[MachineId] = "idle"
       => survivors[MachineId] = {live[MachineId]}

\* The inductive invariant of the boots.
IInv ==
  /\ FileInv
  /\ StepInv
  /\ RegistrydInv
  /\ MountInv
  /\ CounterInv
  /\ EscalationIsExact
  /\ MachineIdInv

\* The steps that only call the platform.
PlatformStep ==
  \/ ReadKernelCommandLine \/ VerifyPrivileges \/ VerifyRootWritable
  \/ SetClockFromRtc \/ ProvisionBootPaths \/ SetupInfrastructure
  \/ RunPhase2Boot

(* The steps of Next, with the ones that only call the platform together.  *)
LEMMA NextSteps ==
  ASSUME [Next]_vars
  PROVE  \/ PlatformStep \/ MountVirtualFilesystems \/ RestoreRandomSeed
         \/ KeepMachineId \/ GenerateMachineId \/ GenerateFails
         \/ MachineIdSyscall \/ MachineIdPersisted \/ MachineIdEphemeral
         \/ ReadBootAttemptCounter \/ IncrementBootAttemptCounter
         \/ DecideBootMode \/ StartRegistryd \/ CatchUpMounts
         \/ StartRecoveryRegistryd \/ SpawnShell \/ HaltWithoutShell
         \/ RecoveryFails \/ ShellExits \/ RuntimeFails
         \/ ResetBootAttemptCounter \/ SaveRandomSeed \/ SeedSyscall
         \/ SeedSaved \/ PowerOff \/ PowerLoss \/ SwitchOn \/ UNCHANGED vars
BY Zenon DEF Next, Phase1Step, RecoveryStep, PlatformStep

(* Only the decision gives the threshold as its reason, and leads to        *)
(* recovery, which is left only by switching the machine off.              *)
LEMMA StepInvKept ==
  ASSUME StepInv, [Next]_vars
  PROVE  StepInv'
<1> USE DEF StepInv, Steps, Recovering, None
<1>1. CASE PlatformStep
  BY <1>1, Zenon DEF PlatformStep, ReadKernelCommandLine, VerifyPrivileges,
         VerifyRootWritable, SetClockFromRtc, ProvisionBootPaths,
         SetupInfrastructure, RunPhase2Boot, PlatformCall, EnterRecovery
<1>2. CASE MountVirtualFilesystems \/ CatchUpMounts
  BY <1>2, Zenon DEF MountVirtualFilesystems, CatchUpMounts, EnterRecovery
<1>3. CASE RestoreRandomSeed \/ KeepMachineId \/ GenerateMachineId
  BY <1>3, Zenon DEF RestoreRandomSeed, KeepMachineId, GenerateMachineId,
         AfterMachineId
<1>4. CASE GenerateFails \/ MachineIdSyscall \/ MachineIdPersisted \/ MachineIdEphemeral
  BY <1>4, Zenon DEF GenerateFails, MachineIdSyscall, MachineIdPersisted,
         MachineIdEphemeral, AfterMachineId, EnterRecovery, bootVars
<1>5. CASE ReadBootAttemptCounter \/ IncrementBootAttemptCounter \/ DecideBootMode
  BY <1>5, Zenon DEF ReadBootAttemptCounter, IncrementBootAttemptCounter,
         DecideBootMode, EnterRecovery
<1>6. CASE StartRegistryd \/ StartRecoveryRegistryd
  BY <1>6, Zenon DEF StartRegistryd, StartRecoveryRegistryd, Forked, EnterRecovery
<1>7. CASE SpawnShell \/ HaltWithoutShell \/ RecoveryFails \/ ShellExits \/ RuntimeFails
  BY <1>7, Zenon DEF SpawnShell, HaltWithoutShell, RecoveryFails, ShellExits,
         RuntimeFails, ConsoleStep, EnterRecovery
<1>8. CASE ResetBootAttemptCounter \/ SaveRandomSeed \/ SeedSyscall \/ SeedSaved
  BY <1>8, Zenon DEF ResetBootAttemptCounter, SaveRandomSeed, SeedSyscall, SeedSaved,
         bootVars
<1>9. CASE PowerOff \/ PowerLoss \/ SwitchOn
  BY <1>9, Zenon DEF PowerOff, PowerLoss, SwitchOn, Forget
<1>10. CASE UNCHANGED vars
  BY <1>10 DEF vars, bootVars
<1> QED
  BY <1>1, <1>2, <1>3, <1>4, <1>5, <1>6, <1>7, <1>8, <1>9, <1>10, NextSteps, Zenon

(* registryd is started by its own step, or by recovery when that step was *)
(* not reached.                                                            *)
LEMMA RegistrydInvKept ==
  ASSUME StepInv, RegistrydInv, [Next]_vars
  PROVE  RegistrydInv'
<1> USE DEF StepInv, RegistrydInv, RegistrydAttempted, Steps,
           BeforeRegistryd, BeforeCounter, BeforeMounts, None
<1>1. CASE PlatformStep
  BY <1>1, Zenon DEF PlatformStep, ReadKernelCommandLine, VerifyPrivileges,
         VerifyRootWritable, SetClockFromRtc, ProvisionBootPaths,
         SetupInfrastructure, RunPhase2Boot, PlatformCall, EnterRecovery
<1>2. CASE MountVirtualFilesystems \/ CatchUpMounts
  BY <1>2, Zenon DEF MountVirtualFilesystems, CatchUpMounts, EnterRecovery
<1>3. CASE RestoreRandomSeed \/ KeepMachineId \/ GenerateMachineId
  BY <1>3, Zenon DEF RestoreRandomSeed, KeepMachineId, GenerateMachineId,
         AfterMachineId
<1>4. CASE GenerateFails \/ MachineIdSyscall \/ MachineIdPersisted \/ MachineIdEphemeral
  BY <1>4, Zenon DEF GenerateFails, MachineIdSyscall, MachineIdPersisted,
         MachineIdEphemeral, AfterMachineId, EnterRecovery, bootVars
<1>5. CASE ReadBootAttemptCounter \/ IncrementBootAttemptCounter \/ DecideBootMode
  BY <1>5, Zenon DEF ReadBootAttemptCounter, IncrementBootAttemptCounter,
         DecideBootMode, EnterRecovery
<1>6. CASE StartRegistryd \/ StartRecoveryRegistryd
  BY <1>6 DEF StartRegistryd, StartRecoveryRegistryd, Forked, EnterRecovery
<1>7. CASE SpawnShell \/ HaltWithoutShell \/ RecoveryFails \/ ShellExits \/ RuntimeFails
  BY <1>7, Zenon DEF SpawnShell, HaltWithoutShell, RecoveryFails, ShellExits,
         RuntimeFails, ConsoleStep, EnterRecovery
<1>8. CASE ResetBootAttemptCounter \/ SaveRandomSeed \/ SeedSyscall \/ SeedSaved
  BY <1>8, Zenon DEF ResetBootAttemptCounter, SaveRandomSeed, SeedSyscall, SeedSaved,
         bootVars
<1>9. CASE PowerOff \/ PowerLoss \/ SwitchOn
  BY <1>9 DEF PowerOff, PowerLoss, SwitchOn, Forget
<1>10. CASE UNCHANGED vars
  BY <1>10, Zenon DEF vars, bootVars
<1> QED
  BY <1>1, <1>2, <1>3, <1>4, <1>5, <1>6, <1>7, <1>8, <1>9, <1>10, NextSteps, Zenon

(* A flag of the history is set and the rest is left.                      *)
LEMMA PastFlags ==
  ASSUME NEW p \in PastType, NEW q, NEW b \in BOOLEAN, NEW c \in BOOLEAN
  PROVE  /\ q = [p EXCEPT !.unrecorded = b] =>
              /\ q \in PastType /\ q.unconfirmed = p.unconfirmed
              /\ q.unrecorded = b /\ q.lost = p.lost /\ q.id = p.id
         /\ q = [p EXCEPT !.lost = b, !.unconfirmed = 0, !.unrecorded = c] =>
              q \in PastType /\ q.lost = b /\ q.id = p.id
<1>1. ASSUME q = [p EXCEPT !.unrecorded = b]
      PROVE  /\ q \in PastType /\ q.unconfirmed = p.unconfirmed
             /\ q.unrecorded = b /\ q.lost = p.lost /\ q.id = p.id
  BY <1>1, Zenon DEF PastType
<1>2. ASSUME q = [p EXCEPT !.lost = b, !.unconfirmed = 0, !.unrecorded = c]
      PROVE  q \in PastType /\ q.lost = b /\ q.id = p.id
  BY <1>2, Zenon DEF PastType
<1> QED
  BY <1>1, <1>2, Zenon

(* What an update of the history changes, and what it leaves.              *)
LEMMA PastUpdates ==
  ASSUME NEW p \in PastType, NEW q
  PROVE  /\ \A h \in Held \cup {None} : q = [p EXCEPT !.id = h] =>
              /\ q \in PastType /\ q.unconfirmed = p.unconfirmed
              /\ q.unrecorded = p.unrecorded /\ q.lost = p.lost /\ q.id = h
         /\ q = [p EXCEPT !.boots = @ + 1] =>
              /\ q \in PastType /\ q.unconfirmed = p.unconfirmed
              /\ q.unrecorded = p.unrecorded /\ q.lost = p.lost /\ q.id = p.id
         /\ q = [p EXCEPT !.unconfirmed = @ + 1] =>
              /\ q \in PastType /\ q.unconfirmed = p.unconfirmed + 1
              /\ q.unrecorded = p.unrecorded /\ q.lost = p.lost /\ q.id = p.id
         /\ q = [p EXCEPT !.unconfirmed = 0] =>
              /\ q \in PastType /\ q.unconfirmed = 0
              /\ q.unrecorded = p.unrecorded /\ q.lost = p.lost /\ q.id = p.id
         /\ q = [p EXCEPT !.unrecorded = TRUE] =>
              /\ q \in PastType /\ q.unconfirmed = p.unconfirmed
              /\ q.unrecorded = TRUE /\ q.lost = p.lost /\ q.id = p.id
         /\ q = [p EXCEPT !.lost = TRUE, !.unconfirmed = 0, !.unrecorded = FALSE] =>
              q \in PastType /\ q.lost = TRUE /\ q.id = p.id
<1>1. ASSUME NEW h \in Held \cup {None}, q = [p EXCEPT !.id = h]
      PROVE  /\ q \in PastType /\ q.unconfirmed = p.unconfirmed
             /\ q.unrecorded = p.unrecorded /\ q.lost = p.lost /\ q.id = h
  BY <1>1, Zenon DEF PastType
<1>2. ASSUME q = [p EXCEPT !.boots = @ + 1]
      PROVE  /\ q \in PastType /\ q.unconfirmed = p.unconfirmed
             /\ q.unrecorded = p.unrecorded /\ q.lost = p.lost /\ q.id = p.id
  BY <1>2 DEF PastType
<1>3. ASSUME q = [p EXCEPT !.unconfirmed = @ + 1]
      PROVE  /\ q \in PastType /\ q.unconfirmed = p.unconfirmed + 1
             /\ q.unrecorded = p.unrecorded /\ q.lost = p.lost /\ q.id = p.id
  BY <1>3 DEF PastType
<1>4. ASSUME q = [p EXCEPT !.unconfirmed = 0]
      PROVE  /\ q \in PastType /\ q.unconfirmed = 0
             /\ q.unrecorded = p.unrecorded /\ q.lost = p.lost /\ q.id = p.id
  BY <1>4, Zenon DEF PastType
<1>5. ASSUME q = [p EXCEPT !.unrecorded = TRUE]
      PROVE  /\ q \in PastType /\ q.unconfirmed = p.unconfirmed
             /\ q.unrecorded = TRUE /\ q.lost = p.lost /\ q.id = p.id
  BY <1>5, PastFlags, Zenon
<1>6. ASSUME q = [p EXCEPT !.lost = TRUE, !.unconfirmed = 0, !.unrecorded = FALSE]
      PROVE  q \in PastType /\ q.lost = TRUE /\ q.id = p.id
  BY <1>6, PastFlags, Zenon
<1> QED
  BY <1>1, <1>2, <1>3, <1>4, <1>5, <1>6, Zenon

(* The history but for the number of boots and the id.                     *)
SamePast ==
  /\ past' \in PastType
  /\ past'.unconfirmed = past.unconfirmed
  /\ past'.unrecorded = past.unrecorded
  /\ past'.lost = past.lost

(* A boot mounts everything before it goes on, or goes to recovery.         *)
LEMMA MountInvKept ==
  ASSUME StepInv, MountInv, [Next]_vars
  PROVE  MountInv'
<1> USE DEF StepInv, MountInv, Steps, BeforeMounts, Recovering
<1>1. CASE PlatformStep
  BY <1>1, Zenon DEF PlatformStep, ReadKernelCommandLine, VerifyPrivileges,
         VerifyRootWritable, SetClockFromRtc, ProvisionBootPaths,
         SetupInfrastructure, RunPhase2Boot, PlatformCall, EnterRecovery
<1>2. CASE MountVirtualFilesystems \/ CatchUpMounts
  <2>1. \A m, half : MountsUpTo(m, half) \in [Mounts -> {"unmounted", "bare", "ready"}]
    BY Zenon DEF MountsUpTo
  <2>2. pc \in BeforeMounts =>
          \A i \in Mounts : MountsUpTo(Cardinality(Mounts), FALSE)[i] = "ready"
    <3>1. \A i \in Mounts : ~ (i > Cardinality(Mounts))
      <4>1. PICK n \in Nat : n = Cardinality(Mounts)
        BY BootAssumption, FS_CardinalityType, Zenon
      <4> QED
        BY <4>1, BootAssumption
    <3> SUFFICES ASSUME pc \in BeforeMounts, NEW i \in Mounts
                 PROVE  MountsUpTo(Cardinality(Mounts), FALSE)[i] = "ready"
      BY Zenon
    <3>2. mounts[i] = "unmounted" /\ ~ (i > Cardinality(Mounts))
      BY <3>1, Zenon
    <3>3. MountsUpTo(Cardinality(Mounts), FALSE)[i] =
            IF mounts[i] # "unmounted" \/ i > Cardinality(Mounts) THEN mounts[i]
            ELSE IF i = Cardinality(Mounts) /\ FALSE THEN "bare" ELSE "ready"
      BY Zenon DEF MountsUpTo
    <3> QED
      BY <3>2, <3>3, Zenon
  <2>3. mounts' \in [Mounts -> {"unmounted", "bare", "ready"}]
    <3>1. mounts' = MountsUpTo(Cardinality(Mounts), FALSE) \/ MountSome
      BY <1>2, Zenon DEF MountVirtualFilesystems, CatchUpMounts
    <3>2. \E m, half : mounts' = MountsUpTo(m, half)
      BY <3>1, Zenon DEF MountSome
    <3>3. PICK m, half : mounts' = MountsUpTo(m, half)
      BY <3>2, Zenon
    <3>4. MountsUpTo(m, half) \in [Mounts -> {"unmounted", "bare", "ready"}]
      BY <2>1, Zenon
    <3> QED
      BY <3>3, <3>4, Zenon
  <2>4. \/ pc' \in {"recovery", "recoveryId"}
        \/ /\ pc = "mounts" /\ pc' = "seed"
           /\ mounts' = MountsUpTo(Cardinality(Mounts), FALSE)
    BY <1>2, Zenon DEF MountVirtualFilesystems, CatchUpMounts, EnterRecovery
  <2> QED
    BY <2>2, <2>3, <2>4, Zenon
<1>3. CASE RestoreRandomSeed \/ KeepMachineId \/ GenerateMachineId
  BY <1>3, Zenon DEF RestoreRandomSeed, KeepMachineId, GenerateMachineId,
         AfterMachineId
<1>4. CASE \/ GenerateFails \/ MachineIdSyscall \/ MachineIdPersisted
           \/ MachineIdEphemeral
  BY <1>4, Zenon DEF GenerateFails, MachineIdSyscall, MachineIdPersisted,
         MachineIdEphemeral, AfterMachineId, EnterRecovery, bootVars
<1>5. CASE \/ ReadBootAttemptCounter \/ IncrementBootAttemptCounter
           \/ DecideBootMode
  BY <1>5, Zenon DEF ReadBootAttemptCounter, IncrementBootAttemptCounter,
         DecideBootMode, EnterRecovery
<1>6. CASE StartRegistryd \/ StartRecoveryRegistryd
  BY <1>6, Zenon DEF StartRegistryd, StartRecoveryRegistryd, EnterRecovery
<1>7. CASE \/ SpawnShell \/ HaltWithoutShell \/ RecoveryFails \/ ShellExits
           \/ RuntimeFails
  BY <1>7, Zenon DEF SpawnShell, HaltWithoutShell, RecoveryFails, ShellExits,
         RuntimeFails, ConsoleStep, EnterRecovery
<1>8. CASE \/ ResetBootAttemptCounter \/ SaveRandomSeed \/ SeedSyscall
           \/ SeedSaved
  BY <1>8, Zenon DEF ResetBootAttemptCounter, SaveRandomSeed, SeedSyscall, SeedSaved,
         bootVars
<1>9. CASE PowerOff \/ PowerLoss \/ SwitchOn
  BY <1>9, Zenon DEF PowerOff, PowerLoss, SwitchOn, Forget
<1>10. CASE UNCHANGED vars
  BY <1>10, Zenon DEF vars, bootVars
<1> QED
  BY <1>1, <1>2, <1>3, <1>4, <1>5, <1>6, <1>7, <1>8, <1>9, <1>10, NextSteps, Zenon

(* A step that leaves the counter and its history alone, and neither reads *)
(* the counter nor decides on it.                                          *)
CounterStays ==
  /\ UNCHANGED <<cmd, counted, counter, counterAfter, past>>
  /\ pc' \in BeforeCounter => pc \in BeforeCounter
  /\ pc' \in {"increment", "threshold"} => pc' = pc
  /\ Admitted' => Admitted
  /\ reason' = "ThresholdReached" => reason = "ThresholdReached"

(* Such a step keeps what the counter and the escalation promise.          *)
LEMMA CounterStaysInv ==
  ASSUME CounterInv, EscalationIsExact, CounterStays
  PROVE  CounterInv' /\ EscalationIsExact'
<1>1. CounterType'
  BY Zenon DEF CounterInv, CounterType, CounterStays
<1>2. ~ past'.lost => FileTracks'
  BY Zenon DEF CounterInv, FileTracks, Readable, ReadCounter, CounterStays
<1>3. ~ past'.lost => BootTracks'
  BY Zenon DEF CounterInv, BootTracks, CounterStays
<1>4. EscalationIsExact'
  BY Zenon DEF EscalationIsExact, CounterStays
<1> QED
  BY <1>1, <1>2, <1>3, <1>4, Zenon DEF CounterInv

(* The steps that have nothing to do with the counter.                     *)
LEMMA CounterStaysSteps ==
  ASSUME \/ PlatformStep \/ MountVirtualFilesystems \/ CatchUpMounts
         \/ RestoreRandomSeed \/ GenerateFails \/ MachineIdSyscall
         \/ MachineIdEphemeral \/ StartRegistryd \/ StartRecoveryRegistryd
         \/ SpawnShell \/ HaltWithoutShell \/ RecoveryFails \/ ShellExits
         \/ RuntimeFails \/ SaveRandomSeed \/ SeedSyscall \/ SeedSaved
         \/ UNCHANGED vars
  PROVE  CounterStays
<1> USE DEF CounterStays, BeforeCounter, BeforeMounts, Admitted
<1>1. CASE PlatformStep
  BY <1>1, Zenon DEF PlatformStep, ReadKernelCommandLine, VerifyPrivileges,
         VerifyRootWritable, SetClockFromRtc, ProvisionBootPaths,
         SetupInfrastructure, RunPhase2Boot, PlatformCall, EnterRecovery
<1>2. CASE MountVirtualFilesystems \/ CatchUpMounts \/ RestoreRandomSeed
  BY <1>2, Zenon DEF MountVirtualFilesystems, CatchUpMounts, RestoreRandomSeed,
         EnterRecovery
<1>3. CASE GenerateFails \/ MachineIdSyscall \/ MachineIdEphemeral
  BY <1>3, Zenon DEF GenerateFails, MachineIdSyscall, MachineIdEphemeral,
         AfterMachineId, EnterRecovery, bootVars
<1>4. CASE StartRegistryd \/ StartRecoveryRegistryd
  BY <1>4, Zenon DEF StartRegistryd, StartRecoveryRegistryd, EnterRecovery
<1>5. CASE \/ SpawnShell \/ HaltWithoutShell \/ RecoveryFails \/ ShellExits
           \/ RuntimeFails
  BY <1>5, Zenon DEF SpawnShell, HaltWithoutShell, RecoveryFails, ShellExits,
         RuntimeFails, ConsoleStep, EnterRecovery
<1>6. CASE SaveRandomSeed \/ SeedSyscall \/ SeedSaved
  BY <1>6, Zenon DEF SaveRandomSeed, SeedSyscall, SeedSaved, bootVars
<1>7. CASE UNCHANGED vars
  BY <1>7, Zenon DEF vars, bootVars
<1> QED
  BY <1>1, <1>2, <1>3, <1>4, <1>5, <1>6, <1>7, Zenon

(* A boot that counts itself adds one to the file and to the boots nobody  *)
(* confirmed; a reset sets both to 0; a write that fails is recorded.      *)
LEMMA CounterInvKept ==
  ASSUME FileInv, StepInv, CounterInv, EscalationIsExact, [Next]_vars
  PROVE  CounterInv' /\ EscalationIsExact'
<1>1. CASE CounterStays
  BY <1>1, CounterStaysInv, Zenon
<1> USE DEF StepInv, CounterInv, CounterType, FileTracks, BootTracks,
           EscalationIsExact, Admitted, Readable, ReadCounter, PastType, Held, Steps,
           BeforeCounter, BeforeMounts, Recovering, None
<1>2. CASE KeepMachineId \/ GenerateMachineId \/ MachineIdPersisted
  <2>1. /\ \/ pc = "machineId" /\ pc' \in {pc, "readCounter"}
           \/ pc = "recoveryId" /\ pc' \in {pc, "recoveryRegistryd"}
        /\ UNCHANGED <<reason, cmd, counted, counter, counterAfter>>
    BY <1>2, Zenon DEF KeepMachineId, GenerateMachineId, MachineIdPersisted, AfterMachineId
  <2>2. past' = past \/ \E h \in Held \cup {None} : past' = [past EXCEPT !.id = h]
    BY <1>2, BootAssumption
      , Zenon DEF KeepMachineId, GenerateMachineId, MachineIdPersisted, FileInv, FileTypeOK
  <2>3. SamePast
    <3>1. past \in PastType
      BY Zenon
    <3>2. ASSUME NEW h \in Held \cup {None}, past' = [past EXCEPT !.id = h]
          PROVE  SamePast
      BY <3>1, <3>2, PastUpdates, Zenon DEF SamePast
    <3> QED
      BY <2>2, <3>1, <3>2, Zenon DEF SamePast
  <2> QED
    BY <2>1, <2>3 DEF SamePast
<1>3. CASE ReadBootAttemptCounter
  BY <1>3 DEF ReadBootAttemptCounter, EnterRecovery
<1>4. CASE IncrementBootAttemptCounter
  <2> DEFINE before == IF Readable THEN ReadCounter ELSE 0
  <2>1. PICK outcome \in WriteOutcomes :
          /\ WriteCounter(before + 1, outcome)
          /\ counted' = IF outcome = "ok" THEN counted ELSE 0
          /\ past' = IF past.lost THEN past
                     ELSE IF outcome = "ok" THEN [past EXCEPT !.unconfirmed = @ + 1]
                     ELSE [past EXCEPT !.unrecorded = TRUE]
    BY <1>4, Zenon DEF IncrementBootAttemptCounter
  <2>2. pc = "increment" /\ pc' = "threshold" /\ UNCHANGED <<reason, cmd>>
    BY <1>4, Zenon DEF IncrementBootAttemptCounter
  <2>3. before \in Nat /\ (~ past.lost => before <= past.unconfirmed)
    OBVIOUS
  <2>4. CASE outcome = "ok"
    <3>1. /\ counter' = before + 1 /\ counted' = counted
          /\ counterAfter' = counterAfter \cup {Torn, before + 1}
      BY <2>1, <2>4, Zenon DEF WriteCounter
    <3>2. /\ past' \in PastType /\ past'.lost = past.lost
          /\ past'.unrecorded = past.unrecorded
          /\ ~ past.lost => past'.unconfirmed = past.unconfirmed + 1
      <4>1. /\ past.lost => past' = past
            /\ ~ past.lost => past' = [past EXCEPT !.unconfirmed = @ + 1]
        BY <2>1, <2>4, Zenon
      <4>2. past \in PastType
        BY Zenon
      <4> QED
        BY <4>1, <4>2, PastUpdates, Zenon
    <3> HIDE DEF before
    <3>3. EscalationIsExact'
      BY <2>2, <3>2, Zenon
    <3>4. ~ past'.lost => BootTracks'
      BY <2>2, <3>1, <3>2
    <3>5. ~ past'.lost => FileTracks'
      <4>1. ~ past.lost /\ ~ past.unrecorded => before = past.unconfirmed
        BY Zenon DEF before
      <4> QED
        BY <2>3, <3>1, <3>2, <4>1, BootAssumption
    <3>6. CounterType'
      <4> HIDE DEF PastType
      <4>1. /\ counter' \in Nat \cup {Absent, Torn}
            /\ counterAfter' \subseteq Nat \cup {Absent, Torn}
        <5>1. before + 1 \in Nat
          BY <2>3
        <5> QED
          BY <3>1, <5>1, Zenon
      <4>2. cmd' \in [recovery : BOOLEAN, threshold : Nat] /\ counted' \in Nat
        BY <2>2, <3>1, Zenon
      <4> QED
        BY <2>2, <3>2, <4>1, <4>2, Zenon
    <3> QED
      BY <3>3, <3>4, <3>5, <3>6, Zenon
  <2>5. CASE outcome # "ok"
    <3>1. /\ counter' \in {counter, Torn} /\ counted' = 0
          /\ counterAfter' \subseteq counterAfter \cup {Torn}
      BY <2>1, <2>5, Zenon DEF WriteCounter, WriteOutcomes
    <3>2. /\ past' \in PastType /\ past'.lost = past.lost
          /\ ~ past.lost => past'.unrecorded /\ past'.unconfirmed = past.unconfirmed
      <4>1. /\ past.lost => past' = past
            /\ ~ past.lost => past' = [past EXCEPT !.unrecorded = TRUE]
        BY <2>1, <2>5, Zenon
      <4>2. past \in PastType
        BY Zenon
      <4> QED
        BY <4>1, <4>2, PastUpdates, Zenon
    <3> QED
      BY <2>2, <3>1, <3>2, BootAssumption, Zenon
  <2> QED
    BY <2>4, <2>5, Zenon
<1>5. CASE DecideBootMode
  BY <1>5 DEF DecideBootMode, EnterRecovery
<1>6. CASE ResetBootAttemptCounter
  <2>1. PICK outcome \in WriteOutcomes :
          /\ WriteCounter(0, outcome)
          /\ past' = IF past.lost THEN past
                     ELSE IF outcome = "ok" THEN [past EXCEPT !.unconfirmed = 0]
                     ELSE [past EXCEPT !.unrecorded = TRUE]
    BY <1>6, Zenon DEF ResetBootAttemptCounter
  <2>2. pc = "runtime" /\ UNCHANGED <<pc, reason, cmd, counted>>
    BY <1>6, Zenon DEF ResetBootAttemptCounter
  <2>3. CASE outcome = "ok"
    <3>1. counter' = 0 /\ counterAfter' = counterAfter \cup {Torn, 0}
      BY <2>1, <2>3, Zenon DEF WriteCounter
    <3>2. /\ past' \in PastType /\ past'.lost = past.lost
          /\ past'.unrecorded = past.unrecorded
          /\ ~ past.lost => past'.unconfirmed = 0
      <4>1. /\ past.lost => past' = past
            /\ ~ past.lost => past' = [past EXCEPT !.unconfirmed = 0]
        BY <2>1, <2>3, Zenon
      <4>2. past \in PastType
        BY Zenon
      <4> QED
        BY <4>1, <4>2, PastUpdates, Zenon
    <3>3. EscalationIsExact'
      BY <2>2, <3>2
    <3>4. ~ past'.lost => FileTracks'
      BY <3>1, <3>2, BootAssumption
    <3>5. CounterType'
      <4> HIDE DEF PastType
      <4>1. /\ counter' \in Nat \cup {Absent, Torn}
            /\ counterAfter' \subseteq Nat \cup {Absent, Torn}
        <5>1. 0 \in Nat
          BY Zenon
        <5> QED
          BY <3>1, <5>1, Zenon
      <4>2. cmd' \in [recovery : BOOLEAN, threshold : Nat] /\ counted' \in Nat
        BY <2>2, Zenon
      <4> QED
        BY <2>2, <3>2, <4>1, <4>2, Zenon
    <3>6. BootTracks'
      BY <2>2, Zenon
    <3> QED
      BY <3>3, <3>4, <3>5, <3>6, Zenon
  <2>4. CASE outcome # "ok"
    <3>1. counter' \in {counter, Torn} /\ counterAfter' \subseteq counterAfter \cup {Torn}
      BY <2>1, <2>4, Zenon DEF WriteCounter, WriteOutcomes
    <3>2. /\ past' \in PastType /\ past'.lost = past.lost
          /\ ~ past.lost => past'.unrecorded /\ past'.unconfirmed = past.unconfirmed
      <4>1. /\ past.lost => past' = past
            /\ ~ past.lost => past' = [past EXCEPT !.unrecorded = TRUE]
        BY <2>1, <2>4, Zenon
      <4>2. past \in PastType
        BY Zenon
      <4> QED
        BY <4>1, <4>2, PastUpdates, Zenon
    <3> QED
      BY <2>2, <3>1, <3>2, BootAssumption, Zenon
  <2> QED
    BY <2>3, <2>4, Zenon
<1>7. CASE PowerOff \/ SwitchOn
  <2>1. SamePast
    <3>1. past \in PastType
      BY Zenon
    <3>2. past' = past \/ past' = [past EXCEPT !.boots = @ + 1]
      BY <1>7, Zenon DEF PowerOff, SwitchOn
    <3> QED
      BY <3>1, <3>2, PastUpdates, ZenonT(60) DEF SamePast
  <2>2. /\ pc' \in {"off", "cmdline"}
        /\ reason' = None \/ (reason' = reason /\ pc = "off")
        /\ counter' = counter /\ counterAfter' \in {counterAfter, {counter}}
        /\ counted' = 0 \/ (counted' = counted /\ pc = "off")
        /\ cmd' \in [recovery : BOOLEAN, threshold : Nat]
    <3>1. CASE PowerOff
      BY <3>1, BootAssumption, Zenon DEF PowerOff, Forget, NoLine
    <3>2. CASE SwitchOn
      BY <3>2, BootAssumption, Zenon DEF SwitchOn
    <3> QED
      BY <1>7, <3>1, <3>2, Zenon
  <2> QED
    BY <2>1, <2>2 DEF SamePast
<1>8. CASE PowerLoss
  <2>1. past' \in PastType /\ past'.lost
    <3>1. past \in PastType
      BY Zenon
    <3> QED
      BY <1>8, <3>1, PastUpdates, Zenon DEF PowerLoss
  <2>2. /\ pc' = "off" /\ reason' = None /\ counted' = 0
        /\ cmd' \in [recovery : BOOLEAN, threshold : Nat]
        /\ counter' \in counterAfter /\ counterAfter' = {counter'}
    <3>1. /\ pc' = "off" /\ reason' = None /\ counted' = 0 /\ cmd' = NoLine
          /\ counter' \in counterAfter /\ counterAfter' = {counter'}
      BY <1>8, Zenon DEF PowerLoss, Forget
    <3>2. NoLine \in [recovery : BOOLEAN, threshold : Nat]
      BY BootAssumption, Zenon DEF NoLine
    <3> QED
      BY <3>1, <3>2, Zenon
  <2> QED
    BY <2>1, <2>2
<1> QED
  BY <1>1, <1>2, <1>3, <1>4, <1>5, <1>6, <1>7, <1>8, NextSteps, CounterStaysSteps, Zenon

(* An id becomes persistent when its write has succeeded or when a later   *)
(* boot finds it, and in both cases nothing else is on the disk.           *)
LEMMA MachineIdInvKept ==
  ASSUME FileInv, StepInv, CounterInv, MachineIdInv, [Next]_vars
  PROVE  MachineIdInv'
<1> USE BootAssumption DEF FileInv, FileTypeOK, StepInv, CounterInv, CounterType, MachineIdInv,
           PastType, Steps, BeforeMounts, None
<1>1. CASE PlatformStep
  BY <1>1, ZenonT(60) DEF PlatformStep, ReadKernelCommandLine, VerifyPrivileges,
         VerifyRootWritable, SetClockFromRtc, ProvisionBootPaths,
         SetupInfrastructure, RunPhase2Boot, PlatformCall, EnterRecovery, fileVars
<1>2. CASE MountVirtualFilesystems \/ CatchUpMounts \/ RestoreRandomSeed
  BY <1>2, ZenonT(60) DEF MountVirtualFilesystems, CatchUpMounts, RestoreRandomSeed,
         EnterRecovery, fileVars
<1>3. CASE KeepMachineId
  BY <1>3, Zenon DEF KeepMachineId, AfterMachineId, fileVars
<1>4. CASE GenerateMachineId
  BY <1>4, Zenon DEF GenerateMachineId, WriteAtomically
<1>5. CASE GenerateFails
  BY <1>5, Zenon DEF GenerateFails, AfterMachineId, EnterRecovery, fileVars
<1>6. CASE MachineIdSyscall
  BY <1>6 DEF MachineIdSyscall, WriteSyscall, CreateTemp, WriteAll, FsyncTemp,
         Rename, bootVars
<1>7. CASE MachineIdPersisted
  BY <1>7, Zenon DEF MachineIdPersisted, FsyncDirectory, AfterMachineId
<1>8. CASE MachineIdEphemeral
  BY <1>8, Zenon DEF MachineIdEphemeral, WriteFails, AfterMachineId
<1>9. CASE ReadBootAttemptCounter \/ DecideBootMode
  BY <1>9, Zenon DEF ReadBootAttemptCounter, DecideBootMode, EnterRecovery, fileVars
<1>10. CASE IncrementBootAttemptCounter \/ ResetBootAttemptCounter
  BY <1>10 DEF IncrementBootAttemptCounter, ResetBootAttemptCounter, fileVars
<1>11. CASE StartRegistryd \/ StartRecoveryRegistryd
  BY <1>11, Zenon DEF StartRegistryd, StartRecoveryRegistryd, EnterRecovery, fileVars
<1>12. CASE \/ SpawnShell \/ HaltWithoutShell \/ RecoveryFails \/ ShellExits
           \/ RuntimeFails
  BY <1>12, Zenon DEF SpawnShell, HaltWithoutShell, RecoveryFails, ShellExits,
         RuntimeFails, ConsoleStep, EnterRecovery, fileVars
<1>13. CASE SaveRandomSeed
  BY <1>13 DEF SaveRandomSeed, WriteAtomically
<1>14. CASE SeedSyscall
  BY <1>14 DEF SeedSyscall, WriteSyscall, CreateTemp, WriteAll, FsyncTemp,
         Rename, bootVars
<1>15. CASE SeedSaved
  BY <1>15 DEF SeedSaved, FsyncDirectory, WriteFails
<1>16. CASE PowerOff
  BY <1>16, Zenon DEF PowerOff
<1>17. CASE PowerLoss
  BY <1>17 DEF PowerLoss, LosePower
<1>18. CASE SwitchOn
  BY <1>18, Zenon DEF SwitchOn, fileVars
<1>19. CASE UNCHANGED vars
  BY <1>19, Zenon DEF vars, bootVars, fileVars
<1> QED
  BY <1>1, <1>2, <1>3, <1>4, <1>5, <1>6, <1>7, <1>8, <1>9, <1>10, <1>11, <1>12,
     <1>13, <1>14, <1>15, <1>16, <1>17, <1>18, <1>19, NextSteps, Zenon

(* The invariant holds when the machine is first switched on.              *)
LEMMA InvInit ==
  ASSUME NEW files \in [Files -> Held], Init(files)
  PROVE  IInv
<1>1. FileInv
  BY FilesInitInv, Zenon DEF Init
<1>2. StepInv /\ RegistrydInv /\ MountInv
  BY DEF Init, StepInv, RegistrydInv, MountInv, Steps, BeforeRegistryd, BeforeCounter,
         BeforeMounts, None
<1>3. CounterInv /\ EscalationIsExact
  BY BootAssumption
    , Zenon DEF Init, CounterInv, CounterType, FileTracks, BootTracks, EscalationIsExact, Admitted, PastType, Readable, ReadCounter,
         NoLine, None
<1>4. MachineIdInv
  BY BootAssumption, Zenon DEF Init, FilesInit, MachineIdInv, None
<1> QED
  BY <1>1, <1>2, <1>3, <1>4, Zenon DEF IInv

(* The inductive invariant of a machine that boots again and again.        *)
THEOREM BootInvariant ==
  ASSUME NEW files \in [Files -> Held]
  PROVE  SpecFrom(files) => []IInv
<1>1. Init(files) => IInv
  BY InvInit, Zenon
<1>2. IInv /\ [Next]_vars => IInv'
  BY FileStepInv, NextIsFileStep, StepInvKept, RegistrydInvKept, MountInvKept,
     CounterInvKept, MachineIdInvKept, Zenon DEF IInv
<1> QED
  BY <1>1, <1>2, PTL DEF SpecFrom

(* A boot never has two registryd processes on the same hives: recovery    *)
(* starts one only when the boot did not get as far as trying to.          *)
THEOREM RegistrydIsStartedOnce ==
  ASSUME NEW files \in [Files -> Held]
  PROVE  SpecFrom(files) => []OneRegistryd
<1>1. IInv => OneRegistryd
  BY DEF IInv, RegistrydInv, OneRegistryd
<1> QED
  BY <1>1, BootInvariant, PTL

(* For every threshold: boots that nobody confirms are admitted up to the  *)
(* threshold and no further while the counter can be written, and none is  *)
(* sent to recovery for the threshold before that.                         *)
THEOREM ThresholdIsExact ==
  ASSUME NEW files \in [Files -> Held]
  PROVE  SpecFrom(files) => []EscalationIsExact
<1>1. IInv => EscalationIsExact
  BY Zenon DEF IInv
<1> QED
  BY <1>1, BootInvariant, PTL

(* A machine id that a boot went on with as persistent is found by every   *)
(* later boot, until peinit itself writes another one.                     *)
THEOREM MachineIdPersists ==
  ASSUME NEW files \in [Files -> Held]
  PROVE  SpecFrom(files) => []MachineIdIsKept
<1>1. IInv => MachineIdIsKept
  BY Zenon DEF IInv, MachineIdInv, MachineIdIsKept
<1> QED
  BY <1>1, BootInvariant, PTL

(* The runtime is never entered with a virtual file system that is not     *)
(* mounted or not seeded.                                                  *)
THEOREM RuntimeIsMounted ==
  ASSUME NEW files \in [Files -> Held]
  PROVE  SpecFrom(files) => []RuntimeHasItsMounts
<1>1. IInv => RuntimeHasItsMounts
  BY Zenon DEF IInv, MountInv, RuntimeHasItsMounts, BeforeMounts, Recovering
<1> QED
  BY <1>1, BootInvariant, PTL

(***************************************************************************)
(* The trackers of a boot.                                                 *)
(***************************************************************************)
(* Every required service satisfies its dependents.                        *)
AllSatisfied == \A s \in success.required : SatisfiesDependents(s)

(* The times that the trackers compute with.                               *)
TrackersType ==
  /\ clock \in Nat /\ lastUnmet \in Nat /\ lastUnmet <= clock
  /\ DOMAIN states = Services
  /\ \A s \in Services : SatisfiesDependents(s) =>
       states[s].since \in Nat /\ states[s].since <= clock
  /\ DOMAIN success = {"required", "since", "reset"}
  /\ success.required \subseteq Services
  /\ success.since = NoTime \/ success.since \in Nat

(* When nothing required is down, the grace period did not begin before    *)
(* the last time something was: it is counted from the last of the         *)
(* required services to come up, or from the plan.                         *)
GraceInv ==
  /\ success.required = {} /\ success.since # NoTime => lastUnmet <= success.since
  /\ success.required # {} /\ AllSatisfied =>
       \E s \in success.required : lastUnmet <= states[s].since

TrackersInv == TrackersType /\ GraceInv

(* A set of natural numbers that is not empty has a least element.         *)
LEMMA LeastNatural ==
  ASSUME NEW S \in SUBSET Nat, S # {}
  PROVE  \E x \in S : \A y \in S : x <= y
<1>1. IsWellFoundedOn(OpToRel(<,Nat), Nat)
  BY NatLessThanWellFounded, Zenon
<1> DEFINE R == {p \in Nat \X Nat : p[1] < p[2]}
<1>2. OpToRel(<,Nat) = R
  BY Zenon DEF OpToRel
<1>3. IsWellFoundedOn(R, Nat)
  BY <1>1, <1>2, Zenon
<1> HIDE DEF R
<1>4. PICK x \in S : \A y \in S : ~(<<y, x>> \in R)
  BY <1>3, WFMin, Zenon
<1>5. \A y \in S : y < x => <<y, x>> \in R
  BY Zenon DEF R
<1>6. \A y \in S : ~(y < x)
  BY <1>4, <1>5, Zenon
<1>7. x \in Nat /\ \A y \in S : y \in Nat
  BY Zenon
<1> QED
  BY <1>6, <1>7

(* Max, of a set of natural numbers with a bound, is its greatest element. *)
LEMMA MaxIs ==
  ASSUME NEW S \in SUBSET Nat, S # {}, NEW b \in Nat, \A x \in S : x <= b
  PROVE  Max(S) \in S /\ \A y \in S : Max(S) >= y
<1> DEFINE T == {b - x : x \in S}
<1>1. T \in SUBSET Nat /\ T # {}
  <2>1. \A x \in S : x \in Nat /\ b - x \in Nat
    OBVIOUS
  <2> QED
    BY <2>1, Zenon
<1>2. PICK d \in T : \A e \in T : d <= e
  BY <1>1, LeastNatural, Zenon
<1>3. PICK x \in S : d = b - x
  BY <1>2, Zenon
<1>4. \A y \in S : b - x <= b - y
  BY <1>2, <1>3, Zenon
<1>5. \A y \in S : x >= y
  BY <1>4
<1>6. \E z \in S : \A y \in S : z >= y
  BY <1>5, Zenon
<1> QED
  BY <1>6, Zenon DEF Max

(* Before there is a plan the invariant holds: nothing is required.        *)
LEMMA TrackersInitInv == TrackersInit => TrackersInv
<1> SUFFICES ASSUME TrackersInit PROVE TrackersInv
  BY Zenon
<1>1. clock = 0 /\ lastUnmet = 0 /\ DOMAIN states = Services
  BY Zenon DEF TrackersInit
<1>2. /\ DOMAIN success = {"required", "since", "reset"}
      /\ success.required = {} /\ success.since = NoTime
  BY DEF TrackersInit, Unplanned
<1>3. \A s \in Services : states[s].state = "Inactive"
  BY DEF TrackersInit
<1>4. \A s \in Services : ~ SatisfiesDependents(s)
  BY <1>3 DEF SatisfiesDependents
<1>5. TrackersType
  BY <1>1, <1>2, <1>4 DEF TrackersType
<1> QED
  BY <1>2, <1>5, Zenon DEF TrackersInv, GraceInv

(* The plan begins the grace period of what is up already.                 *)
LEMMA PlanIsMadeInv == TrackersInv /\ PlanIsMade => TrackersInv'
<1> SUFFICES ASSUME TrackersInv, NEW plan \in Plans, NEW at \in Nat, ConfigurePhase2(plan, at)
             PROVE  TrackersInv'
  BY Zenon DEF PlanIsMade
<1>1. clock' = at /\ lastUnmet' = at /\ DOMAIN states' = Services
  BY Zenon DEF ConfigurePhase2
<1>2. ASSUME NEW s \in Services, SatisfiesDependents(s)' PROVE states'[s].since = at
  <2>1. states'[s] = [state |-> IF s \in plan.retained THEN "Active"
                             ELSE IF s \in plan.blocked THEN "Failed"
                             ELSE IF s \in plan.starts THEN "Starting"
                             ELSE "Inactive",
                      since |-> IF s \in plan.retained THEN at ELSE NoTime]
    BY Zenon DEF ConfigurePhase2
  <2>2. states'[s].state \in {"Active", "Reloading"}
    BY <1>2, Zenon DEF SatisfiesDependents
  <2>3. s \in plan.retained
    BY <2>1, <2>2
  <2> QED
    BY <2>1, <2>3
<1>3. /\ plan.starts \subseteq Services /\ plan.blocked \subseteq Services
      /\ plan.retained \subseteq Services
  BY DEF Plans
<1>4. /\ DOMAIN success' = {"required", "since", "reset"}
      /\ success'.required \subseteq plan.starts \cup plan.blocked \cup plan.retained
      /\ success'.since \in {NoTime, at}
  BY DEF ConfigurePhase2, ConfigureSuccess
<1>5. TrackersType'
  BY <1>1, <1>2, <1>3, <1>4 DEF TrackersType
<1>6. at <= at
  OBVIOUS
<1>7. success'.since # NoTime => lastUnmet' <= success'.since
  BY <1>1, <1>4, <1>6, Zenon
<1>8. ASSUME success'.required # {}, AllSatisfied'
      PROVE  \E s \in success'.required : lastUnmet' <= states'[s].since
  <2>1. PICK s \in success'.required : s \in Services
    BY <1>3, <1>4, <1>8, Zenon
  <2>2. states'[s].since = at
    BY <1>2, <1>8, <2>1, Zenon DEF AllSatisfied
  <2> QED
    BY <1>1, <1>6, <2>1, <2>2, Zenon
<1> QED
  BY <1>5, <1>7, <1>8, Zenon DEF TrackersInv, GraceInv

(* History: the last time something required was down is never ahead of    *)
(* the clock, and stays when nothing is down.                              *)
LEMMA ObserveIs ==
  ASSUME TrackersType, Observe, success' = success, clock' \in Nat, clock <= clock'
  PROVE  /\ lastUnmet' \in Nat /\ lastUnmet' <= clock'
         /\ AllSatisfied' => lastUnmet' = lastUnmet
<1>1. lastUnmet' = clock' \/ lastUnmet' = lastUnmet
  BY Zenon DEF Observe
<1>2. lastUnmet' \in Nat /\ lastUnmet' <= clock'
  BY <1>1 DEF TrackersType
<1>3. AllSatisfied' => lastUnmet' = lastUnmet
  BY Zenon DEF Observe, AllSatisfied, SatisfiesDependents
<1> QED
  BY <1>2, <1>3, Zenon

(* A service that moves keeps its stamp or takes the time it is.           *)
LEMMA ServiceMovesInv ==
  ASSUME TrackersInv, NEW s \in Services, ServiceMoves(s)
  PROVE  TrackersInv'
<1>1. PICK state, since :
        /\ states' = [states EXCEPT ![s] = [state |-> state, since |-> since]]
        /\ since = IF state \notin {"Active", "Reloading"} THEN NoTime
                   ELSE IF SatisfiesDependents(s) THEN states[s].since ELSE clock
  BY Zenon DEF ServiceMoves
<1>2. success' = success /\ clock' = clock /\ Observe
  BY Zenon DEF ServiceMoves
<1>3. TrackersType /\ GraceInv /\ clock \in Nat /\ clock <= clock
  BY DEF TrackersInv, TrackersType
<1>4. /\ lastUnmet' \in Nat /\ lastUnmet' <= clock
      /\ AllSatisfied' => lastUnmet' = lastUnmet
  BY <1>2, <1>3, ObserveIs, Zenon
<1>5. /\ DOMAIN states' = Services
      /\ states'[s] = [state |-> state, since |-> since]
      /\ \A t \in Services \ {s} : states'[t] = states[t]
  BY <1>1, <1>3, Zenon DEF TrackersType
<1>6. states'[s].state = state /\ states'[s].since = since
  BY <1>5
<1>7. SatisfiesDependents(s)' =>
        \/ SatisfiesDependents(s) /\ states'[s].since = states[s].since
        \/ ~SatisfiesDependents(s) /\ states'[s].since = clock
  BY <1>1, <1>6, Zenon DEF SatisfiesDependents
<1>8. \A t \in Services \ {s} : /\ SatisfiesDependents(t)' <=> SatisfiesDependents(t)
                                /\ states'[t].since = states[t].since
  BY <1>5, Zenon DEF SatisfiesDependents
<1>9. ASSUME NEW t \in Services, SatisfiesDependents(t)'
      PROVE  states'[t].since \in Nat /\ states'[t].since <= clock
  BY <1>3, <1>7, <1>8, <1>9, Zenon DEF TrackersType
<1>10. TrackersType'
  BY <1>2, <1>3, <1>4, <1>5, <1>9, Zenon DEF TrackersType
<1>11. ASSUME success.required # {}, AllSatisfied'
       PROVE  \E t \in success.required : lastUnmet' <= states'[t].since
  <2>1. \A t \in success.required : t \in Services /\ SatisfiesDependents(t)'
    BY <1>2, <1>3, <1>11, Zenon DEF AllSatisfied, TrackersType
  <2>2. CASE s \in success.required /\ ~SatisfiesDependents(s)
    <3>1. states'[s].since = clock
      BY <1>7, <2>1, <2>2, Zenon
    <3> QED
      BY <1>4, <2>2, <3>1, Zenon
  <2>3. CASE ~(s \in success.required /\ ~SatisfiesDependents(s))
    <3>1. AllSatisfied
      BY <1>8, <2>1, <2>3, Zenon DEF AllSatisfied
    <3>2. PICK t \in success.required : lastUnmet <= states[t].since
      BY <1>3, <1>11, <3>1, Zenon DEF GraceInv
    <3>3. states'[t].since = states[t].since
      BY <1>7, <1>8, <2>1, <2>3, <3>1, Zenon DEF AllSatisfied
    <3>4. lastUnmet' = lastUnmet
      BY <1>4, <1>11, Zenon
    <3> QED
      BY <3>2, <3>3, <3>4, Zenon
  <2> QED
    BY <2>2, <2>3, Zenon
<1>12. ASSUME success.required = {}, success.since # NoTime
       PROVE  lastUnmet' <= success.since
  <2>1. AllSatisfied'
    BY <1>2, <1>12, Zenon DEF AllSatisfied
  <2> QED
    BY <1>3, <1>4, <1>12, <2>1, Zenon DEF GraceInv
<1> QED
  BY <1>2, <1>10, <1>11, <1>12, Zenon DEF TrackersInv, GraceInv

(* Neither the clock nor the start of what waited for quiet brings a       *)
(* required service up, or down that was up.                               *)
LEMMA SameStampsInv ==
  ASSUME TrackersInv, success' = success, Observe, clock' \in Nat, clock <= clock',
         DOMAIN states' = Services,
         \A s \in Services : /\ SatisfiesDependents(s)' <=> SatisfiesDependents(s)
                             /\ SatisfiesDependents(s) => states'[s].since = states[s].since
  PROVE  TrackersInv'
<1>1. TrackersType /\ GraceInv
  BY Zenon DEF TrackersInv
<1>2. /\ lastUnmet' \in Nat /\ lastUnmet' <= clock'
      /\ AllSatisfied' => lastUnmet' = lastUnmet
  BY <1>1, ObserveIs, Zenon
<1>3. ASSUME NEW s \in Services, SatisfiesDependents(s)'
      PROVE  states'[s].since \in Nat /\ states'[s].since <= clock'
  <2>1. SatisfiesDependents(s) /\ states'[s].since = states[s].since
    BY <1>3, Zenon
  <2>2. states[s].since \in Nat /\ states[s].since <= clock /\ clock \in Nat
    BY <1>1, <2>1, Zenon DEF TrackersType
  <2>3. states[s].since <= clock'
    BY <2>2
  <2> QED
    BY <2>1, <2>2, <2>3, Zenon
<1>4. TrackersType'
  BY <1>1, <1>2, <1>3, Zenon DEF TrackersType
<1>5. success.required \subseteq Services
  BY <1>1, Zenon DEF TrackersType
<1>6. AllSatisfied' <=> AllSatisfied
  BY <1>5, Zenon DEF AllSatisfied
<1>7. ASSUME success.required # {}, AllSatisfied'
      PROVE  \E s \in success.required : lastUnmet' <= states'[s].since
  <2>1. PICK s \in success.required : lastUnmet <= states[s].since
    BY <1>1, <1>6, <1>7, Zenon DEF GraceInv
  <2>2. SatisfiesDependents(s) /\ s \in Services
    BY <1>5, <1>6, <1>7, <2>1, Zenon DEF AllSatisfied
  <2>3. states'[s].since = states[s].since /\ lastUnmet' = lastUnmet
    BY <1>2, <1>7, <2>2, Zenon
  <2> QED
    BY <2>1, <2>3, Zenon
<1>8. ASSUME success.required = {}, success.since # NoTime
      PROVE  lastUnmet' <= success.since
  <2>1. AllSatisfied'
    BY <1>8, Zenon DEF AllSatisfied
  <2> QED
    BY <1>1, <1>2, <1>8, <2>1, Zenon DEF GraceInv
<1> QED
  BY <1>4, <1>7, <1>8, Zenon DEF TrackersInv, GraceInv

(* Time passes.                                                            *)
LEMMA TickInv == TrackersInv /\ Tick => TrackersInv'
<1> SUFFICES ASSUME TrackersInv, Tick PROVE TrackersInv'
  BY Zenon
<1>1. states' = states /\ success' = success /\ Observe /\ clock' = clock + 1
  BY Zenon DEF Tick
<1>2. clock' \in Nat /\ clock <= clock' /\ DOMAIN states' = Services
  BY <1>1 DEF TrackersInv, TrackersType
<1>3. \A s \in Services : /\ SatisfiesDependents(s)' <=> SatisfiesDependents(s)
                          /\ states'[s].since = states[s].since
  BY <1>1, Zenon DEF SatisfiesDependents
<1> QED
  BY <1>1, <1>2, <1>3, SameStampsInv, Zenon

(* The services that waited for quiet are started.                         *)
LEMMA BootSettleDueInv == TrackersInv /\ BootSettleDue => TrackersInv'
<1> SUFFICES ASSUME TrackersInv, BootSettleDue PROVE TrackersInv'
  BY Zenon
<1>1. /\ success' = success /\ Observe /\ clock' = clock
      /\ states' = [s \in Services |->
                 IF s \in settle.deferred /\ states[s].state = "Inactive"
                 THEN [states[s] EXCEPT !.state = "Starting"] ELSE states[s]]
  BY Zenon DEF BootSettleDue
<1>2. clock' \in Nat /\ clock <= clock' /\ DOMAIN states' = Services
  BY <1>1 DEF TrackersInv, TrackersType
<1>3. ASSUME NEW s \in Services
      PROVE  /\ SatisfiesDependents(s)' <=> SatisfiesDependents(s)
             /\ SatisfiesDependents(s) => states'[s].since = states[s].since
  <2>1. CASE s \in settle.deferred /\ states[s].state = "Inactive"
    <3>1. states'[s] = [states[s] EXCEPT !.state = "Starting"]
      BY <1>1, <2>1, Zenon
    <3>2. states'[s].state \notin {"Active", "Reloading"}
      BY <3>1
    <3>3. states[s].state \notin {"Active", "Reloading"}
      BY <2>1
    <3> QED
      BY <3>2, <3>3, Zenon DEF SatisfiesDependents
  <2>2. CASE ~(s \in settle.deferred /\ states[s].state = "Inactive")
    <3>1. states'[s] = states[s]
      BY <1>1, <2>2, Zenon
    <3> QED
      BY <3>1, Zenon DEF SatisfiesDependents
  <2> QED
    BY <2>1, <2>2, Zenon
<1> QED
  BY <1>1, <1>2, <1>3, SameStampsInv, Zenon

(* The confirmation comes when the grace period is over, and not before.   *)
LEMMA BootSuccessDueInv ==
  TrackersInv /\ BootSuccessDue =>
    TrackersInv' /\ WaitingOn = {} /\ clock - lastUnmet >= Grace
<1> SUFFICES ASSUME TrackersInv, BootSuccessDue
             PROVE  TrackersInv' /\ WaitingOn = {} /\ clock - lastUnmet >= Grace
  BY Zenon
<1>1. TrackersType /\ GraceInv /\ clock \in Nat /\ lastUnmet \in Nat /\ Grace \in Nat
  BY TrackersAssumption, Zenon DEF TrackersInv, TrackersType
<1>2. PICK r : success' = [success EXCEPT !.reset = r]
  BY Zenon DEF BootSuccessDue
<1>3. UNCHANGED <<states, clock, lastUnmet>>
  BY Zenon DEF BootSuccessDue
<1>4. /\ DOMAIN success' = DOMAIN success /\ success'.required = success.required
      /\ success'.since = success.since
  BY <1>1, <1>2 DEF TrackersType
<1>5. TrackersInv'
  <2>1. \A s : SatisfiesDependents(s)' <=> SatisfiesDependents(s)
    BY <1>3, Zenon DEF SatisfiesDependents
  <2>2. AllSatisfied' <=> AllSatisfied
    BY <1>4, <2>1, Zenon DEF AllSatisfied
  <2>3. TrackersType'
    BY <1>1, <1>3, <1>4, <2>1, Zenon DEF TrackersType
  <2>4. GraceInv'
    BY <1>1, <1>3, <1>4, <2>2, Zenon DEF GraceInv
  <2> QED
    BY <2>3, <2>4, Zenon DEF TrackersInv
<1>6. SuccessDeadline > 0 /\ SuccessDeadline <= clock
  BY Zenon DEF BootSuccessDue, TimerFires
<1>7. SuccessDeadline # NoTime
  BY <1>6 DEF NoTime
<1>8. /\ success.reset = "no" /\ RequiredSatisfiedSince # NoTime
      /\ SuccessDeadline = RequiredSatisfiedSince + Grace
  BY <1>7, Zenon DEF SuccessDeadline
<1>9. AllSatisfied
  BY <1>8, Zenon DEF RequiredSatisfiedSince, AllSatisfied
<1>10. WaitingOn = {}
  BY <1>8, <1>9, Zenon DEF WaitingOn, AllSatisfied
<1>11. RequiredSatisfiedSince \in Nat /\ lastUnmet <= RequiredSatisfiedSince
  <2>1. CASE success.required = {}
    <3>1. RequiredSatisfiedSince = success.since
      BY <2>1, Zenon DEF RequiredSatisfiedSince
    <3> QED
      BY <1>1, <1>8, <2>1, <3>1, Zenon DEF GraceInv, TrackersType
  <2>2. CASE success.required # {}
    <3> DEFINE S == {states[s].since : s \in success.required}
    <3>1. RequiredSatisfiedSince = Max(S)
      BY <1>9, <2>2, Zenon DEF RequiredSatisfiedSince, AllSatisfied
    <3>2. \A s \in success.required : states[s].since \in Nat /\ states[s].since <= clock
      BY <1>1, <1>9, Zenon DEF AllSatisfied, TrackersType
    <3>3. S \in SUBSET Nat /\ S # {} /\ \A x \in S : x <= clock
      BY <2>2, <3>2, Zenon
    <3>4. PICK s \in success.required : lastUnmet <= states[s].since
      BY <1>1, <1>9, <2>2, Zenon DEF GraceInv
    <3>5. states[s].since \in S
      BY <3>4, Zenon
    <3> HIDE DEF S
    <3>6. Max(S) \in Nat /\ Max(S) >= states[s].since
      BY <1>1, <3>3, <3>5, MaxIs, Zenon
    <3>7. states[s].since \in Nat
      BY <3>2, <3>4, Zenon
    <3>8. lastUnmet <= Max(S)
      BY <1>1, <3>4, <3>6, <3>7
    <3> QED
      BY <3>1, <3>6, <3>8, Zenon
  <2> QED
    BY <2>1, <2>2, Zenon
<1>12. clock - lastUnmet >= Grace
  BY <1>1, <1>6, <1>8, <1>11
<1> QED
  BY <1>5, <1>10, <1>12, Zenon

(* Every step keeps the invariant, and a step that confirms the boot finds *)
(* the grace period over.                                                  *)
LEMMA TrackersStep ==
  ASSUME TrackersInv, [PlanIsMade \/ TrackersNext]_trackerVars
  PROVE  /\ TrackersInv'
         /\ success'.reset # success.reset => WaitingOn = {} /\ clock - lastUnmet >= Grace
<1>1. CASE PlanIsMade
  <2>1. success.reset = "no" /\ success'.reset = "no"
    BY <1>1 DEF PlanIsMade, Unplanned, ConfigurePhase2, ConfigureSuccess
  <2> QED
    BY <1>1, <2>1, PlanIsMadeInv, Zenon
<1>2. ASSUME NEW s \in Services, ServiceMoves(s) PROVE TrackersInv' /\ success' = success
  BY <1>2, ServiceMovesInv, Zenon DEF ServiceMoves
<1>3. CASE Tick
  BY <1>3, TickInv, Zenon DEF Tick
<1>4. CASE BootSuccessDue
  BY <1>4, BootSuccessDueInv, Zenon
<1>5. CASE BootSettleDue
  BY <1>5, BootSettleDueInv, Zenon DEF BootSettleDue
<1>6. CASE UNCHANGED trackerVars
  <2>1. UNCHANGED <<states, success, settle, clock, lastUnmet>>
    BY <1>6, Zenon DEF trackerVars
  <2>2. TrackersType' /\ (AllSatisfied' <=> AllSatisfied)
    BY <2>1, Zenon DEF TrackersInv, TrackersType, AllSatisfied, SatisfiesDependents
  <2>3. TrackersInv'
    BY <2>1, <2>2, Zenon DEF TrackersInv, GraceInv
  <2> QED
    BY <2>1, <2>3, Zenon
<1> QED
  BY <1>1, <1>2, <1>3, <1>4, <1>5, <1>6, Zenon DEF TrackersNext

(* The counter of boot attempts is reset only when every critical service  *)
(* of the plan has been up without a break for the whole grace period,     *)
(* whatever the plan and however the services fail and come back.          *)
THEOREM GraceIsWaitedFor == TrackersSpec => ConfirmedAfterGrace
<1>1. TrackersInv /\ [PlanIsMade \/ TrackersNext]_trackerVars =>
        /\ TrackersInv'
        /\ [success'.reset # success.reset =>
              /\ WaitingOn = {}
              /\ clock - lastUnmet >= Grace]_trackerVars
  BY TrackersStep, Zenon
<1> QED
  BY <1>1, TrackersInitInv, PTL DEF TrackersSpec, ConfirmedAfterGrace
=============================================================================
