-------------------------------- MODULE Boot --------------------------------
(***************************************************************************)
(* A machine that boots again and again: run_init from its first step to   *)
(* the runtime or to recovery, the three files that outlive a boot, and    *)
(* the restart at the end of each boot, with or without the power lost.    *)
(*                                                                         *)
(* The step run_init has reached is pc.  A platform call either succeeds   *)
(* or fails; what a failure leads to is the code's.                        *)
(***************************************************************************)
EXTENDS Integers, FiniteSets, FiniteSetsExt, AtomicFile

CONSTANTS
  Ids,           \* machine ids the generator may return
  Seeds,         \* seeds the kernel may return
  MachineId, RandomSeed,   \* the two members of Files
  Threshold,     \* the boot-attempt threshold of the command line
  CommandLines,  \* what a boot may be started with: [recovery, threshold]
  Mounts,        \* virtual file systems, in table order from 1
  MaxBoots       \* bound: boots of a behaviour

ASSUME BootAssumption ==
  /\ {MachineId, RandomSeed} \subseteq Files /\ MachineId # RandomSeed
  /\ Ids \cup Seeds \subseteq Contents
  /\ Absent \notin Nat /\ Torn \notin Nat
  /\ Threshold \in Nat
  /\ CommandLines \subseteq [recovery : BOOLEAN, threshold : Nat]
  /\ IsFiniteSet(Mounts) /\ Mounts = 1 .. Cardinality(Mounts)

VARIABLES
  pc,            \* where run_init is
  reason,        \* why the boot is in recovery
  cmd,           \* this boot's command line
  counted,       \* the counter as this boot read it
  counter,       \* what the counter file holds: a number, Absent or Torn
  counterAfter,  \* what it may hold after a power loss
  mounts,        \* Mounts -> "unmounted", "bare" or "ready"
  registryds,    \* registryd processes this boot has started
  reset,         \* how this boot's reset of the counter went
  past           \* history of the earlier boots, for the properties

bootVars == <<pc, reason, cmd, counted, counter, counterAfter, mounts,
              registryds, reset, past>>
vars     == <<bootVars, fileVars>>

None == "none"

Steps == {"cmdline", "privileges", "root", "mounts", "seed", "machineId",
          "readCounter", "increment", "threshold", "clock", "registryd",
          "provision", "infrastructure", "phase2", "runtime", "saveSeed",
          "recovery", "recoveryId", "recoveryRegistryd", "console", "shell",
          "halted", "exited", "syncing", "off"}

NoLine == [recovery |-> FALSE, threshold |-> Threshold]

(***************************************************************************)
(* The counter file: opened with truncation and written in place.  It is   *)
(* not flushed, so until the file systems are synced a power loss may      *)
(* leave any content it has had since, or an empty file.                   *)
(***************************************************************************)
Readable == counter = Absent \/ counter \in Nat

ReadCounter == IF counter = Absent THEN 0 ELSE counter

(* The write goes through, fails with the file still as it was, or fails   *)
(* with the file already truncated.                                        *)
WriteCounter(value, outcome) ==
  CASE outcome = "ok" ->
         /\ counter' = value
         /\ counterAfter' = counterAfter \cup {Torn, value}
    [] outcome = "refused" ->
         UNCHANGED <<counter, counterAfter>>
    [] outcome = "truncated" ->
         /\ counter' = Torn
         /\ counterAfter' = counterAfter \cup {Torn}

WriteOutcomes == {"ok", "refused", "truncated"}

(***************************************************************************)
(* run_init.                                                               *)
(***************************************************************************)
EnterRecovery(why) ==
  /\ pc' = "recovery"
  /\ reason' = why

(* A platform call that keeps no state here: on to the next step, or to    *)
(* recovery.                                                               *)
PlatformCall(at, next, why) ==
  /\ pc = at
  /\ \/ pc' = next /\ UNCHANGED reason
     \/ EnterRecovery(why)
  /\ UNCHANGED <<cmd, counted, counter, counterAfter, mounts, registryds, reset,
                 past, fileVars>>

ReadKernelCommandLine == PlatformCall("cmdline", "privileges", "KernelCommandLine")
VerifyPrivileges      == PlatformCall("privileges", "root", "Privileges")
VerifyRootWritable    == PlatformCall("root", "mounts", "RootWritable")

(* mount_phase1_virtual_filesystems, up to its first failure: what is      *)
(* mounted is left alone, and a mount is seeded right after it is made.    *)
MountsUpTo(m, half) ==
  [i \in Mounts |-> IF mounts[i] # "unmounted" \/ i > m THEN mounts[i]
                    ELSE IF i = m /\ half THEN "bare" ELSE "ready"]

MountSome ==
  \E m \in Mounts \cup {0} : \E half \in BOOLEAN :
    mounts' = MountsUpTo(m, half)

MountVirtualFilesystems ==
  /\ pc = "mounts"
  /\ \/ /\ mounts' = MountsUpTo(Cardinality(Mounts), FALSE)
        /\ pc' = "seed"
        /\ UNCHANGED reason
     \/ /\ MountSome
        /\ EnterRecovery("VirtualFilesystems")
  /\ UNCHANGED <<cmd, counted, counter, counterAfter, registryds, reset, past,
                 fileVars>>

(* Advisory: whatever restore_random_seed finds, the boot goes on.         *)
RestoreRandomSeed ==
  /\ pc = "seed"
  /\ pc' = "machineId"
  /\ UNCHANGED <<reason, cmd, counted, counter, counterAfter, mounts,
                 registryds, reset, past, fileVars>>

(***************************************************************************)
(* ensure_machine_id: a valid file is kept; otherwise a new id is written, *)
(* and a failure to write it costs only its persistence.                   *)
(***************************************************************************)
ValidId(content) == content \in Ids

AfterMachineId(at) == IF at = "machineId" THEN "readCounter"
                      ELSE "recoveryRegistryd"

KeepMachineId ==
  /\ pc \in {"machineId", "recoveryId"}
  /\ stage[MachineId] = "idle"
  /\ ValidId(live[MachineId])
  /\ pc' = AfterMachineId(pc)
  /\ past' = IF pc = "machineId" THEN [past EXCEPT !.id = live[MachineId]]
             ELSE past
  /\ UNCHANGED <<reason, cmd, counted, counter, counterAfter, mounts,
                 registryds, reset, fileVars>>

(* There is no valid id, or the file cannot be read and is taken for none. *)
GenerateMachineId ==
  /\ pc \in {"machineId", "recoveryId"}
  /\ past' = [past EXCEPT !.id = None]
  /\ \E id \in Ids : WriteAtomically(MachineId, id)
  /\ UNCHANGED <<pc, reason, cmd, counted, counter, counterAfter, mounts,
                 registryds, reset>>

(* No random bytes: the one failure of this step that ends the boot, and   *)
(* in recovery one more failure that is ignored.                           *)
GenerateFails ==
  /\ pc \in {"machineId", "recoveryId"}
  /\ stage[MachineId] = "idle"
  /\ ~ ValidId(live[MachineId])
  /\ IF pc = "machineId" THEN EnterRecovery("MachineId")
     ELSE pc' = "recoveryRegistryd" /\ UNCHANGED reason
  /\ UNCHANGED <<cmd, counted, counter, counterAfter, mounts, registryds, reset,
                 past, fileVars>>

MachineIdSyscall ==
  /\ pc \in {"machineId", "recoveryId"}
  /\ WriteSyscall(MachineId)
  /\ UNCHANGED bootVars

(* Generated: the write has returned success.                              *)
MachineIdPersisted ==
  /\ pc \in {"machineId", "recoveryId"}
  /\ FsyncDirectory(MachineId)
  /\ pc' = AfterMachineId(pc)
  /\ past' = IF pc = "machineId" THEN [past EXCEPT !.id = live[MachineId]]
             ELSE past
  /\ UNCHANGED <<reason, cmd, counted, counter, counterAfter, mounts,
                 registryds, reset>>

(* Ephemeral: the id is this boot's only, as far as peinit knows.          *)
MachineIdEphemeral ==
  /\ pc \in {"machineId", "recoveryId"}
  /\ WriteFails(MachineId)
  /\ pc' = AfterMachineId(pc)
  /\ UNCHANGED <<reason, cmd, counted, counter, counterAfter, mounts,
                 registryds, reset, past>>

(***************************************************************************)
(* The boot-attempt counter.                                               *)
(***************************************************************************)
ReadBootAttemptCounter ==
  /\ pc = "readCounter"
  /\ IF cmd.recovery
     THEN pc' = "increment" /\ UNCHANGED <<reason, counted>>
     ELSE IF Readable
     THEN pc' = "increment" /\ counted' = ReadCounter /\ UNCHANGED reason
     ELSE EnterRecovery("BootAttemptCounter") /\ UNCHANGED counted
  /\ UNCHANGED <<cmd, counter, counterAfter, mounts, registryds, reset, past,
                 fileVars>>

(* increment reads for itself and takes an unreadable counter for 0; a     *)
(* failed write makes this boot's count 0.                                 *)
IncrementBootAttemptCounter ==
  /\ pc = "increment"
  /\ \E outcome \in WriteOutcomes :
       /\ WriteCounter((IF Readable THEN ReadCounter ELSE 0) + 1, outcome)
       /\ counted' = IF outcome = "ok" THEN counted ELSE 0
       /\ past' = IF past.lost THEN past
                  ELSE IF outcome = "ok"
                  THEN [past EXCEPT !.unconfirmed = @ + 1]
                  ELSE [past EXCEPT !.unrecorded = TRUE]
  /\ pc' = "threshold"
  /\ UNCHANGED <<reason, cmd, mounts, registryds, reset, fileVars>>

(* A boot more than the threshold.                                         *)
DecideOneLater ==
  /\ pc = "threshold"
  /\ IF cmd.recovery THEN EnterRecovery("Forced")
     ELSE IF cmd.threshold > 0 /\ counted > cmd.threshold
     THEN EnterRecovery("ThresholdReached")
     ELSE pc' = "clock" /\ UNCHANGED reason
  /\ UNCHANGED <<cmd, counted, counter, counterAfter, mounts, registryds, reset,
                 past, fileVars>>

(* Forced recovery first, then the threshold against the count read before *)
(* the increment; a threshold of 0 switches the check off.                 *)
DecideBootMode ==
  /\ pc = "threshold"
  /\ IF cmd.recovery THEN EnterRecovery("Forced")
     ELSE IF cmd.threshold > 0 /\ counted >= cmd.threshold
     THEN EnterRecovery("ThresholdReached")
     ELSE pc' = "clock" /\ UNCHANGED reason
  /\ UNCHANGED <<cmd, counted, counter, counterAfter, mounts, registryds, reset,
                 past, fileVars>>

SetClockFromRtc == PlatformCall("clock", "registryd", "RtcClock")

(***************************************************************************)
(* registryd.  A start that fails may have forked a process already.       *)
(***************************************************************************)
Forked == {registryds, registryds + 1}

StartRegistryd ==
  /\ pc = "registryd"
  /\ \/ /\ registryds' = registryds + 1
        /\ pc' = "provision"
        /\ UNCHANGED reason
     \/ /\ registryds' \in Forked
        /\ EnterRecovery("Registryd")
  /\ UNCHANGED <<cmd, counted, counter, counterAfter, mounts, reset, past,
                 fileVars>>

ProvisionBootPaths  == PlatformCall("provision", "infrastructure", "Provisioning")
SetupInfrastructure == PlatformCall("infrastructure", "phase2", "Infrastructure")

(* Reading the registry, the plan, and its dispatch; any failure of these  *)
(* leaves the supervisor as it was.                                        *)
RunPhase2Boot == PlatformCall("phase2", "runtime", "Phase2")

(* The runtime loop ends with an error.                                    *)
RuntimeFails ==
  /\ pc = "runtime"
  /\ EnterRecovery("Runtime")
  /\ UNCHANGED <<cmd, counted, counter, counterAfter, mounts, registryds, reset,
                 past, fileVars>>

(***************************************************************************)
(* The runtime, as far as the counter is concerned: the reset BootTrackers *)
(* decides on, tried once in a boot.                                       *)
(***************************************************************************)
ResetBootAttemptCounter ==
  /\ pc = "runtime"
  /\ reset = None
  /\ \E outcome \in WriteOutcomes :
       /\ WriteCounter(0, outcome)
       /\ reset' = outcome
       /\ past' = IF past.lost THEN past
                  ELSE IF outcome = "ok"
                  THEN [past EXCEPT !.unconfirmed = 0]
                  ELSE [past EXCEPT !.unrecorded = TRUE]
  /\ UNCHANGED <<pc, reason, cmd, counted, mounts, registryds, fileVars>>

(***************************************************************************)
(* The end of a boot.                                                      *)
(***************************************************************************)
(* An orderly shutdown saves a new seed before the machine goes off.       *)
SaveRandomSeed ==
  /\ pc = "runtime"
  /\ \E seed \in Seeds : WriteAtomically(RandomSeed, seed)
  /\ pc' = "saveSeed"
  /\ UNCHANGED <<reason, cmd, counted, counter, counterAfter, mounts,
                 registryds, reset, past>>

SeedSyscall ==
  /\ pc = "saveSeed"
  /\ WriteSyscall(RandomSeed)
  /\ UNCHANGED bootVars

SeedSaved ==
  /\ pc = "saveSeed"
  /\ FsyncDirectory(RandomSeed) \/ WriteFails(RandomSeed)
  /\ pc' = "syncing"
  /\ UNCHANGED <<reason, cmd, counted, counter, counterAfter, mounts,
                 registryds, reset, past>>

(* What is only in memory is gone.                                         *)
Forget ==
  /\ reason' = None
  /\ cmd' = NoLine
  /\ counted' = 0
  /\ mounts' = [m \in Mounts |-> "unmounted"]
  /\ registryds' = 0
  /\ reset' = None

(* The machine goes off with its file systems synced: at the end of a      *)
(* shutdown, or at the operator's hands in recovery.                       *)
PowerOff ==
  /\ pc \in {"syncing", "shell", "halted"}
  /\ pc' = "off"
  /\ counterAfter' = {counter}
  /\ survivors' = [f \in Files |-> {live[f]}]
  /\ Forget
  /\ UNCHANGED <<counter, past, live, temp, tempAfter, stage, writing>>

PowerLoss ==
  /\ pc # "off"
  /\ pc' = "off"
  /\ LosePower
  /\ counter' \in counterAfter
  /\ counterAfter' = {counter'}
  /\ past' = [past EXCEPT !.lost = TRUE, !.unconfirmed = 0,
                          !.unrecorded = FALSE]
  /\ Forget

SwitchOn ==
  /\ pc = "off"
  /\ past.boots < MaxBoots
  /\ pc' = "cmdline"
  /\ cmd' \in CommandLines
  /\ past' = [past EXCEPT !.boots = @ + 1]
  /\ UNCHANGED <<reason, counted, counter, counterAfter, mounts, registryds,
                 reset, fileVars>>

(***************************************************************************)
(* Recovery: the catch-up on Phase 1, at most one registryd, and a shell   *)
(* that is started again whenever it ends.                                 *)
(***************************************************************************)
CatchUpMounts ==
  /\ pc = "recovery"
  /\ \/ mounts' = MountsUpTo(Cardinality(Mounts), FALSE)
     \/ MountSome
  /\ pc' = "recoveryId"
  /\ UNCHANGED <<reason, cmd, counted, counter, counterAfter, registryds, reset,
                 past, fileVars>>

(* How the attempt ended, not whether there was one.                       *)
RegistrydServes ==
  reason \in {"Provisioning", "Infrastructure", "Phase2", "Runtime"}

(* Phase 1 has made its own attempt when it got as far as registryd.       *)
RegistrydAttempted ==
  reason \in {"Registryd", "Provisioning", "Infrastructure", "Phase2",
              "Runtime"}

(* No shell until registryd runs.                                          *)
AwaitRecoveryRegistryd ==
  /\ pc = "recoveryRegistryd"
  /\ registryds' \in IF RegistrydAttempted THEN {registryds} ELSE Forked
  /\ pc' = IF registryds' > 0 THEN "console" ELSE pc
  /\ UNCHANGED <<reason, cmd, counted, counter, counterAfter, mounts, reset,
                 past, fileVars>>

StartRecoveryRegistryd ==
  /\ pc = "recoveryRegistryd"
  /\ registryds' \in IF RegistrydAttempted THEN {registryds} ELSE Forked
  /\ pc' = "console"
  /\ UNCHANGED <<reason, cmd, counted, counter, counterAfter, mounts, reset,
                 past, fileVars>>

ConsoleStep(next) ==
  /\ pc' = next
  /\ UNCHANGED <<reason, cmd, counted, counter, counterAfter, mounts,
                 registryds, reset, past, fileVars>>

(* /bin/recsh, else /bin/sh.                                               *)
SpawnShell == pc = "console" /\ ConsoleStep("shell")
ShellExits == pc = "shell" /\ ConsoleStep("console")
(* Neither can be executed or started: sync and halt.                      *)
HaltWithoutShell == pc = "console" /\ ConsoleStep("halted")
(* A probe that fails for another reason, or a wait that does, ends peinit.*)
RecoveryFails == pc \in {"console", "shell"} /\ ConsoleStep("exited")

(***************************************************************************)
(* Specification.                                                          *)
(***************************************************************************)
Init(files) ==
  /\ FilesInit(files)
  /\ pc = "off"
  /\ reason = None
  /\ cmd = NoLine
  /\ counted = 0
  /\ counter = Absent
  /\ counterAfter = {Absent}
  /\ mounts = [m \in Mounts |-> "unmounted"]
  /\ registryds = 0
  /\ reset = None
  /\ past = [boots |-> 0, unconfirmed |-> 0, unrecorded |-> FALSE,
             lost |-> FALSE, id |-> None]

Phase1Step ==
  \/ ReadKernelCommandLine
  \/ VerifyPrivileges
  \/ VerifyRootWritable
  \/ MountVirtualFilesystems
  \/ RestoreRandomSeed
  \/ KeepMachineId
  \/ GenerateMachineId
  \/ GenerateFails
  \/ MachineIdSyscall
  \/ MachineIdPersisted
  \/ MachineIdEphemeral
  \/ ReadBootAttemptCounter
  \/ IncrementBootAttemptCounter
  \/ DecideBootMode
  \/ SetClockFromRtc
  \/ StartRegistryd
  \/ ProvisionBootPaths
  \/ SetupInfrastructure
  \/ RunPhase2Boot

RecoveryStep ==
  \/ CatchUpMounts
  \/ StartRecoveryRegistryd
  \/ SpawnShell
  \/ HaltWithoutShell

Next ==
  \/ Phase1Step
  \/ RecoveryStep
  \/ RecoveryFails
  \/ ShellExits
  \/ RuntimeFails
  \/ ResetBootAttemptCounter
  \/ SaveRandomSeed
  \/ SeedSyscall
  \/ SeedSaved
  \/ PowerOff
  \/ PowerLoss
  \/ SwitchOn

(* peinit's own steps are taken while the machine runs.                    *)
BootFairness ==
  /\ WF_vars(Phase1Step)
  /\ WF_vars(RecoveryStep)

SpecFrom(files) == Init(files) /\ [][Next]_vars /\ BootFairness

Spec == SpecFrom([f \in Files |-> Absent])

(***************************************************************************)
(* Properties.                                                             *)
(***************************************************************************)
(* A boot never has two registryd processes on the same hives, whichever   *)
(* step it went to recovery from and however the start had failed.         *)
OneRegistryd == registryds <= 1

Admitted == pc \in {"clock", "registryd", "provision", "infrastructure",
                    "phase2", "runtime"}

(* The threshold admits exactly that many boots in a row that nobody       *)
(* confirms: no more, as long as every write of the counter succeeds, and a *)
(* boot is sent to recovery for it only after that many.                   *)
EscalationIsExact ==
  ~ past.lost =>
    /\ Admitted /\ cmd.threshold > 0 /\ ~ past.unrecorded
         => past.unconfirmed <= cmd.threshold
    /\ reason = "ThresholdReached" => past.unconfirmed > cmd.threshold

(* A machine id a boot went on with as persistent is the machine's id in   *)
(* every later boot, wherever the power was lost, until the file cannot be *)
(* read and another one is written.                                        *)
MachineIdIsKept == past.id # None => live[MachineId] = past.id

(* The file systems a service may rely on were set up whole: the runtime   *)
(* is reached with every mount made and seeded.                            *)
RuntimeHasItsMounts ==
  pc \in {"runtime", "saveSeed"} => \A m \in Mounts : mounts[m] = "ready"

(* Every boot that is not cut off comes to the runtime, to a shell or to a *)
(* halt, or peinit exits because not even the shells could be probed.      *)
BootIsDecided ==
  pc = "cmdline" ~> pc \in {"runtime", "shell", "halted", "exited", "off"}

Register == INSTANCE AtomicRegister WITH value <- live, mayBe <- survivors

(* The machine id and the seed are atomic registers to the boots that      *)
(* read them, wherever a write fails or the power goes                     *)
(* (boundary/linux_machine_id.rs, boundary/linux_random_seed.rs).          *)
FilesAreAtomic == Register!RegisterSpec

=============================================================================
