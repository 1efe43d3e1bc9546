----------------------------- MODULE AtomicFile -----------------------------
(***************************************************************************)
(* The files peinit rewrites through a temporary file and a rename: the    *)
(* machine id and the random seed.  A write is a sequence of system calls, *)
(* any of which may fail and between any two of which the power may go.    *)
(*                                                                         *)
(* For a path the model keeps what a reader finds now (live) and the set   *)
(* of what a reader may find once the power has gone (survivors).  For the *)
(* temporary file it keeps the same two: its data reach the disk with      *)
(* fsync, its new name reaches the disk with the fsync of the directory.   *)
(***************************************************************************)
EXTENDS Naturals

CONSTANTS
  Files,      \* the paths written this way
  Contents,   \* complete contents
  Absent,     \* no file at the path
  Torn        \* a file with none or only a part of the bytes written

VARIABLES
  live,       \* Files -> what the path holds
  survivors,  \* Files -> what the path may hold after a power loss
  temp,       \* Files -> what the temporary file holds
  tempAfter,  \* Files -> what its data may be after a power loss
  stage,      \* Files -> the system call the writer is at
  writing     \* Files -> the content being written

fileVars == <<live, survivors, temp, tempAfter, stage, writing>>

Stages == {"idle", "create", "write", "fsync", "rename", "fsyncDir"}
Held   == Contents \cup {Absent, Torn}

FileTypeOK ==
  /\ live      \in [Files -> Held]
  /\ survivors \in [Files -> SUBSET Held]
  /\ temp      \in [Files -> Held]
  /\ tempAfter \in [Files -> SUBSET Held]
  /\ stage     \in [Files -> Stages]
  /\ writing   \in [Files -> Contents \cup {Absent}]

(* A file as the installation or an earlier, finished write left it; a     *)
(* file damaged by other hands is Torn to its reader.                      *)
FilesInit(initial) ==
  /\ live      = initial
  /\ survivors = [f \in Files |-> {live[f]}]
  /\ temp      = [f \in Files |-> Absent]
  /\ tempAfter = [f \in Files |-> {Absent}]
  /\ stage     = [f \in Files |-> "idle"]
  /\ writing   = [f \in Files |-> Absent]

(* write_machine_id_atomically / write_seed_atomically up to the temporary *)
(* file's creation.                                                        *)
WriteAtomically(f, c) ==
  /\ stage[f] = "idle"
  /\ stage'   = [stage EXCEPT ![f] = "create"]
  /\ writing' = [writing EXCEPT ![f] = c]
  /\ UNCHANGED <<live, survivors, temp, tempAfter>>

(* The directory and the temporary file; a leftover is truncated.          *)
CreateTemp(f) ==
  /\ stage[f] = "create"
  /\ temp'      = [temp EXCEPT ![f] = Torn]
  /\ tempAfter' = [tempAfter EXCEPT ![f] = {Absent, Torn}]
  /\ stage'     = [stage EXCEPT ![f] = "write"]
  /\ UNCHANGED <<live, survivors, writing>>

(* write_all_fd: all the bytes are in the page cache.                      *)
WriteAll(f) ==
  /\ stage[f] = "write"
  /\ temp'      = [temp EXCEPT ![f] = writing[f]]
  /\ tempAfter' = [tempAfter EXCEPT ![f] = {Absent, Torn, writing[f]}]
  /\ stage'     = [stage EXCEPT ![f] = "fsync"]
  /\ UNCHANGED <<live, survivors, writing>>

(* On to the rename without the fsync before it.                           *)
FsyncNothing(f) ==
  /\ stage[f] = "fsync"
  /\ stage' = [stage EXCEPT ![f] = "rename"]
  /\ UNCHANGED <<live, survivors, temp, tempAfter, writing>>

FsyncTemp(f) ==
  /\ stage[f] = "fsync"
  /\ tempAfter' = [tempAfter EXCEPT ![f] = {temp[f]}]
  /\ stage'     = [stage EXCEPT ![f] = "rename"]
  /\ UNCHANGED <<live, survivors, temp, writing>>

(* The new name reaches the disk at some later time, with whatever data    *)
(* the file has there.                                                     *)
Rename(f) ==
  /\ stage[f] = "rename"
  /\ live'      = [live EXCEPT ![f] = temp[f]]
  /\ survivors' = [survivors EXCEPT ![f] = @ \cup tempAfter[f]]
  /\ temp'      = [temp EXCEPT ![f] = Absent]
  /\ tempAfter' = [tempAfter EXCEPT ![f] = {Absent}]
  /\ stage'     = [stage EXCEPT ![f] = "fsyncDir"]
  /\ UNCHANGED writing

(* fsync_directory: the write has succeeded.                               *)
FsyncDirectory(f) ==
  /\ stage[f] = "fsyncDir"
  /\ survivors' = [survivors EXCEPT ![f] = {live[f]}]
  /\ stage'     = [stage EXCEPT ![f] = "idle"]
  /\ writing'   = [writing EXCEPT ![f] = Absent]
  /\ UNCHANGED <<live, temp, tempAfter>>

(* Any call may fail; the temporary file is then removed and the error     *)
(* returned.  After the rename there is no temporary file left to remove.  *)
WriteFails(f) ==
  /\ stage[f] \in {"create", "write", "fsync", "rename", "fsyncDir"}
  /\ temp'      = [temp EXCEPT ![f] = Absent]
  /\ tempAfter' = [tempAfter EXCEPT ![f] = {Absent}]
  /\ stage'     = [stage EXCEPT ![f] = "idle"]
  /\ writing'   = [writing EXCEPT ![f] = Absent]
  /\ UNCHANGED <<live, survivors>>

WriteSyscall(f) ==
  \/ CreateTemp(f)
  \/ WriteAll(f)
  \/ FsyncTemp(f)
  \/ Rename(f)

(* The power goes: each path holds one of its survivors, and whatever the  *)
(* temporary file holds then is truncated by the next write.               *)
LosePower ==
  /\ \E left \in [Files -> Held] :
       /\ \A f \in Files : left[f] \in survivors[f]
       /\ live' = left
  /\ survivors' = [f \in Files |-> {live'[f]}]
  /\ temp'      = [f \in Files |-> Absent]
  /\ tempAfter' = [f \in Files |-> {Absent}]
  /\ stage'     = [f \in Files |-> "idle"]
  /\ writing'   = [f \in Files |-> Absent]
=============================================================================
