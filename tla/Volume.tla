------------------------------- MODULE Volume -------------------------------
(***************************************************************************)
(* project2: the volume control block of a 3600fs disk and the programs    *)
(* that pass it around: 3600mkfs writes it, vfs_mount() reads it, reports  *)
(* what is wrong with it and marks it dirty, vfs_unmount() reads it again  *)
(* and marks it clean.  A process may die at any time, and a call of       *)
(* dread() or dwrite() may fail, which is reported and then ignored.       *)
(***************************************************************************)
EXTENDS Naturals

CONSTANTS
  Mounters,     \* the 3600fs processes of one disk file
  MaxFormats,   \* bound on the runs of 3600mkfs
  MaxDeaths,    \* bound on the processes killed from outside
  MaxFailures   \* bound on the failing system calls

ASSUME VolumeAssumption ==
  /\ MaxFormats \in Nat
  /\ MaxDeaths \in Nat
  /\ MaxFailures \in Nat

Vcbs == [magic : {"MAGICNUM", "other"}, dirty : BOOLEAN]

VARIABLES
  file,       \* the disk file: missing, short of a block, or whole
  disk,       \* block 0 of it, when whole
  pc,         \* where each process is: out, mounting, mounted, unmounting
  connected,  \* fd, as dconnect() left it
  myvcb,      \* the local copy of vfs_mount() or vfs_unmount()
  overrun,    \* has dread() written a block over the smaller myvcb?
  reported,   \* what the last vfs_mount() said
  open,       \* history: the processes that have mounted the disk, with or
              \* without their mark on it, and have neither unmounted it since
              \* nor died before another one unmounted it
  unmarked,   \* history: those of them whose mark has not reached the disk
  shared,     \* history: two processes have had the disk mounted at once
  fresh,      \* history: nothing has been written since 3600mkfs
  formats, deaths, failures

procVars == <<pc, connected, myvcb, overrun, reported>>
history == <<open, unmarked, shared, fresh>>
vars == <<file, disk, procVars, history, formats, deaths, failures>>

CanFail == failures < MaxFailures

-----------------------------------------------------------------------------
(* disk.c                                                                  *)

(* Mutant: the block is read into another buffer.                          *)
DreadElsewhere(m) ==
  /\ \E garbage \in Vcbs : myvcb' = [myvcb EXCEPT ![m] = garbage]
  /\ overrun' = [overrun EXCEPT ![m] = FALSE]
  /\ UNCHANGED failures

(* dread(0, &myvcb): the block replaces the local copy and what lies behind *)
(* it on the stack; a call that fails leaves an uninitialised copy.         *)
Dread(m) ==
  \/ /\ connected'[m] /\ file = "whole"
     /\ myvcb' = [myvcb EXCEPT ![m] = disk]
     /\ overrun' = [overrun EXCEPT ![m] = TRUE]
     /\ UNCHANGED failures
  \/ /\ \/ ~ connected'[m] /\ UNCHANGED failures
        \/ connected'[m] /\ file # "whole" /\ UNCHANGED failures
        \/ CanFail /\ failures' = failures + 1
     /\ \E garbage \in Vcbs : myvcb' = [myvcb EXCEPT ![m] = garbage]
     /\ overrun' = [overrun EXCEPT ![m] = FALSE]

Dwrite(m, block) ==
  \/ /\ connected[m]
     /\ file' = "whole"
     /\ disk' = block
     /\ UNCHANGED failures
  \/ /\ ~ connected[m]
     /\ UNCHANGED <<file, disk, failures>>
  \/ /\ CanFail
     /\ failures' = failures + 1
     /\ UNCHANGED <<file, disk>>

(* Did the write of this step reach the disk?                              *)
Reached(m) == connected[m] /\ failures' = failures

-----------------------------------------------------------------------------
(* 3600mkfs.  It runs before the disk is mounted, and leaves dirty          *)
(* uninitialised; a failing write leaves the file without a block.          *)
Format ==
  /\ formats < MaxFormats
  /\ \A m \in Mounters : pc[m] = "out"
  /\ formats' = formats + 1
  /\ \/ /\ \E garbage \in BOOLEAN : disk' = [magic |-> "MAGICNUM", dirty |-> garbage]
        /\ file' = "whole"
        /\ open' = {}
        /\ unmarked' = {}
        /\ fresh' = TRUE
        /\ UNCHANGED failures
     \/ /\ CanFail
        /\ failures' = failures + 1
        /\ file' = IF file = "missing" THEN "short" ELSE file
        /\ UNCHANGED <<disk, open, unmarked, fresh>>
  /\ UNCHANGED <<procVars, shared, deaths>>

-----------------------------------------------------------------------------
(* vfs_mount(), up to the write.  Nothing keeps a second process out.      *)
Report(vcb) ==
  IF vcb.magic # "MAGICNUM" THEN "unrecognized" ELSE IF vcb.dirty THEN "improper" ELSE "nothing"

Mounted == {m \in Mounters : pc[m] \in {"mounting", "mounted", "unmounting"}}

Mount(m) ==
  /\ pc[m] = "out"
  /\ shared' = (shared \/ Mounted # {})
  /\ connected' = [connected EXCEPT ![m] = file # "missing"]
  /\ Dread(m)
  /\ reported' = [reported EXCEPT ![m] = Report(myvcb'[m])]
  /\ pc' = [pc EXCEPT ![m] = "mounting"]
  /\ UNCHANGED <<file, disk, open, unmarked, fresh, formats, deaths>>

(* Mutant: the mark is left out.                                           *)
Unmarked(vcb) == vcb

Marked(vcb) == [vcb EXCEPT !.dirty = TRUE]

(* A process whose mark could not be written has the disk mounted all the  *)
(* same; one that overran its frame may not get out of vfs_mount().        *)
MountWrite(m) ==
  /\ pc[m] = "mounting"
  /\ Dwrite(m, Marked(myvcb[m]))
  /\ open' = open \cup {m}
  /\ unmarked' = IF Reached(m) THEN unmarked \ {m} ELSE unmarked \cup ({m} \ open)
  /\ fresh' = (fresh /\ ~ Reached(m))
  /\ \/ pc' = [pc EXCEPT ![m] = "mounted"]
     \/ overrun[m] /\ pc' = [pc EXCEPT ![m] = "dead"]
  /\ UNCHANGED <<connected, myvcb, overrun, reported, shared, formats, deaths>>

(* vfs_unmount().                                                          *)
Unmount(m) ==
  /\ pc[m] = "mounted"
  /\ pc' = [pc EXCEPT ![m] = "unmounting"]
  /\ UNCHANGED connected
  /\ Dread(m)
  /\ UNCHANGED <<file, disk, reported, history, formats, deaths>>

(* Mutant: the mark stays.                                                 *)
NotCleaned(vcb) == vcb

Cleaned(vcb) == [vcb EXCEPT !.dirty = FALSE]

UnmountWrite(m) ==
  /\ pc[m] = "unmounting"
  /\ Dwrite(m, Cleaned(myvcb[m]))
  /\ \/ pc' = [pc EXCEPT ![m] = "out"]
     \/ overrun[m] /\ pc' = [pc EXCEPT ![m] = "dead"]
  /\ open' = IF Reached(m) THEN (open \cap Mounted) \ {m} ELSE open
  /\ unmarked' = unmarked \cap open'
  /\ fresh' = (fresh /\ ~ Reached(m))
  /\ connected' = [connected EXCEPT ![m] = FALSE]
  /\ UNCHANGED <<myvcb, overrun, reported, shared, formats, deaths>>

(* A process is killed; a dead one may be started again.                   *)
Die(m) ==
  /\ deaths < MaxDeaths
  /\ pc[m] \in {"mounting", "mounted", "unmounting"}
  /\ deaths' = deaths + 1
  /\ pc' = [pc EXCEPT ![m] = "dead"]
  /\ UNCHANGED <<file, disk, connected, myvcb, overrun, reported, history, formats, failures>>

Restart(m) ==
  /\ pc[m] = "dead"
  /\ pc' = [pc EXCEPT ![m] = "out"]
  /\ connected' = [connected EXCEPT ![m] = FALSE]
  /\ overrun' = [overrun EXCEPT ![m] = FALSE]
  /\ UNCHANGED <<file, disk, myvcb, reported, history, formats, deaths, failures>>

-----------------------------------------------------------------------------
Init ==
  /\ file \in {"missing", "short", "whole"}
  /\ disk \in [magic : {"other"}, dirty : BOOLEAN]
  /\ pc = [m \in Mounters |-> "out"]
  /\ connected = [m \in Mounters |-> FALSE]
  /\ myvcb \in [Mounters -> {[magic |-> "other", dirty |-> FALSE]}]
  /\ overrun = [m \in Mounters |-> FALSE]
  /\ reported = [m \in Mounters |-> "nothing"]
  /\ open = {}
  /\ unmarked = {}
  /\ shared = FALSE
  /\ fresh = FALSE
  /\ formats = 0
  /\ deaths = 0
  /\ failures = 0

Next ==
  \/ Format
  \/ \E m \in Mounters :
       Mount(m) \/ MountWrite(m) \/ Unmount(m) \/ UnmountWrite(m) \/ Die(m) \/ Restart(m)

Spec == Init /\ [][Next]_vars

-----------------------------------------------------------------------------
(* Correctness.                                                            *)

TypeOK ==
  /\ file \in {"missing", "short", "whole"}
  /\ disk \in Vcbs
  /\ pc \in [Mounters -> {"out", "mounting", "mounted", "unmounting", "dead"}]
  /\ connected \in [Mounters -> BOOLEAN]
  /\ myvcb \in [Mounters -> Vcbs]
  /\ overrun \in [Mounters -> BOOLEAN]
  /\ reported \in [Mounters -> {"nothing", "unrecognized", "improper"}]
  /\ open \subseteq Mounters
  /\ unmarked \subseteq open
  /\ shared \in BOOLEAN
  /\ fresh \in BOOLEAN
  /\ formats \in Nat
  /\ deaths \in Nat
  /\ failures \in Nat

(* The processes in open whose mark has reached the disk.                  *)
Known == open \ unmarked

(* From the mark of a mount on the disk is dirty until it is unmounted:    *)
(* while that process has it mounted, and after it has died with it        *)
(* mounted (3600fs.c:73-79, 103-109).                                      *)
(*                                                                         *)
(* Of processes that take turns: with two at once, the first to unmount    *)
(* the disk marks it clean for both.                                       *)
DirtyWhileMounted ==
  ~ shared =>
    /\ Known # {} => file = "whole" /\ disk.dirty
    /\ \A m \in Mounters :
         (pc[m] = "mounted" /\ connected[m] /\ failures = 0) => disk.dirty

(* A mount that has read the disk and reports nothing has missed no one    *)
(* whose mark had reached the disk: whichever process before it died with  *)
(* the disk mounted, or failed to unmount it, and was followed by no       *)
(* unmount and no format, had failed to write its mark (3600fs.c:61-71,    *)
(* 74-79: the failure is reported and the disk mounted all the same).  Of  *)
(* processes that take turns.                                              *)
SilentMountIsSafe ==
  \A m \in Mounters :
    (pc[m] = "mounting" /\ overrun[m] /\ reported[m] = "nothing" /\ ~ shared)
      => open \subseteq unmarked

(* And one that complains has a reason to: a process that marked the disk  *)
(* did not unmount it, or the disk is fresh from 3600mkfs, which leaves    *)
(* dirty as it finds it on its stack (3600fs.c:69, 3600mkfs.c:35-53).      *)
AlarmIsRight ==
  \A m \in Mounters :
    (pc[m] = "mounting" /\ overrun[m] /\ reported[m] = "improper" /\ ~ shared) => Known # {} \/ fresh

(* Mounting and unmounting never cost a formatted disk its magic number,   *)
(* as long as no call fails, with any number of processes at once: what    *)
(* one writes back is what another one wrote, but for the mark             *)
(* (3600fs.c:61, 77, 99, 107).                                             *)
MagicKept == (formats > 0 /\ failures = 0) => disk.magic = "MAGICNUM"
=============================================================================
