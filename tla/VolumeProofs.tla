---------------------------- MODULE VolumeProofs ----------------------------
(***************************************************************************)
(* Of any number of processes on one disk: what a mount reports is right,  *)
(* and the mark and the magic number are kept.                             *)
(***************************************************************************)
EXTENDS Volume, TLAPS

(* One process at a time, as long as the disk has not been shared.         *)
AloneInv == ~ shared => \A m, n \in Mounted : m = n

(* The mark is on the disk if a mount wrote it and nothing took it back,   *)
(* and, on a formatted disk, for no other reason but the format itself.    *)
MarkInv ==
  ~ shared =>
    /\ Known # {} => file = "whole" /\ disk.dirty
    /\ (disk.magic = "MAGICNUM" /\ disk.dirty) => Known # {} \/ fresh
    /\ \A m \in Mounters :
         (pc[m] = "mounted" /\ connected[m] /\ failures = 0) => disk.dirty

(* A formatted disk has its magic number, and so has every copy that a     *)
(* process is about to write back.                                         *)
CopyInv ==
  (formats > 0 /\ failures = 0) =>
    /\ file = "whole"
    /\ disk.magic = "MAGICNUM"
    /\ \A m \in Mounters :
         (pc[m] \in {"mounting", "unmounting"} /\ connected[m]) => myvcb[m].magic = "MAGICNUM"

ReportInv == SilentMountIsSafe /\ AlarmIsRight

Inv == TypeOK /\ AloneInv /\ MarkInv /\ CopyInv /\ ReportInv

-----------------------------------------------------------------------------
(* The fields of a volume control block that is marked or cleaned.         *)
LEMMA MarkedFields ==
  ASSUME NEW vcb \in Vcbs
  PROVE  /\ Marked(vcb) \in Vcbs /\ Marked(vcb).dirty /\ Marked(vcb).magic = vcb.magic
         /\ Cleaned(vcb) \in Vcbs /\ ~ Cleaned(vcb).dirty /\ Cleaned(vcb).magic = vcb.magic
  BY DEF Vcbs, Marked, Cleaned

(* The initial states.                                                     *)
LEMMA InitInv == Init => Inv
  <1> SUFFICES ASSUME Init PROVE Inv
    OBVIOUS
  <1>1. TypeOK
    <2>1. [magic |-> "other", dirty |-> FALSE] \in Vcbs /\ disk \in Vcbs
      BY DEF Init, Vcbs
    <2>2. \A m \in Mounters : myvcb[m] \in Vcbs
      BY <2>1 DEF Init
    <2>3. myvcb \in [Mounters -> Vcbs]
      BY <2>2 DEF Init
    <2> QED BY <2>1, <2>3 DEF Init, TypeOK
  <1>2. AloneInv
    BY DEF Init, AloneInv, Mounted
  <1>3. MarkInv
    BY DEF Init, MarkInv, Known
  <1>4. CopyInv
    BY DEF Init, CopyInv
  <1>5. ReportInv
    BY DEF Init, ReportInv, SilentMountIsSafe, AlarmIsRight, Known
  <1> QED BY <1>1, <1>2, <1>3, <1>4, <1>5 DEF Inv

(* What dread() leaves behind.                                             *)
LEMMA DreadResult ==
  ASSUME TypeOK, NEW m \in Mounters, Dread(m)
  PROVE  /\ failures' \in Nat /\ failures' \geq failures
         /\ \E vcb \in Vcbs, o \in BOOLEAN :
              /\ myvcb' = [myvcb EXCEPT ![m] = vcb]
              /\ overrun' = [overrun EXCEPT ![m] = o]
              /\ o => vcb = disk
              /\ (connected'[m] /\ file = "whole" /\ failures' = failures) => vcb = disk
  <1>1. CASE /\ connected'[m] /\ file = "whole"
             /\ myvcb' = [myvcb EXCEPT ![m] = disk]
             /\ overrun' = [overrun EXCEPT ![m] = TRUE]
             /\ UNCHANGED failures
    <2>1. disk \in Vcbs /\ failures' \in Nat /\ failures' \geq failures
      BY <1>1 DEF TypeOK
    <2>2. \E vcb \in Vcbs, o \in BOOLEAN :
              /\ myvcb' = [myvcb EXCEPT ![m] = vcb]
              /\ overrun' = [overrun EXCEPT ![m] = o]
              /\ o => vcb = disk
              /\ (connected'[m] /\ file = "whole" /\ failures' = failures) => vcb = disk
      BY <1>1, <2>1
    <2> QED BY <2>1, <2>2
  <1>2. CASE /\ \/ ~ connected'[m] /\ UNCHANGED failures
                \/ connected'[m] /\ file # "whole" /\ UNCHANGED failures
                \/ CanFail /\ failures' = failures + 1
             /\ \E garbage \in Vcbs : myvcb' = [myvcb EXCEPT ![m] = garbage]
             /\ overrun' = [overrun EXCEPT ![m] = FALSE]
    <2>1. PICK vcb \in Vcbs : myvcb' = [myvcb EXCEPT ![m] = vcb]
      BY <1>2
    <2>2. failures \in Nat
      BY DEF TypeOK
    <2>3. failures' \in Nat /\ failures' \geq failures
      BY <1>2, <2>2
    <2>4. ~ (connected'[m] /\ file = "whole" /\ failures' = failures)
      BY <1>2, <2>2
    <2> QED BY <1>2, <2>1, <2>3, <2>4
  <1> QED BY <1>1, <1>2 DEF Dread

(* What dwrite() does to the disk.                                         *)
LEMMA DwriteResult ==
  ASSUME TypeOK, NEW m \in Mounters, NEW block \in Vcbs, Dwrite(m, block)
  PROVE  /\ failures' \in Nat /\ failures' \geq failures
         /\ file' \in {"missing", "short", "whole"} /\ disk' \in Vcbs
         /\ IF Reached(m) THEN file' = "whole" /\ disk' = block
            ELSE UNCHANGED <<file, disk>> /\ (connected[m] => failures' # failures)
  <1>1. failures \in Nat /\ failures + 1 # failures
    BY DEF TypeOK
  <1>2. CASE connected[m] /\ file' = "whole" /\ disk' = block /\ UNCHANGED failures
    BY <1>1, <1>2 DEF Reached
  <1>3. CASE ~ connected[m] /\ UNCHANGED <<file, disk, failures>>
    BY <1>1, <1>3 DEF Reached, TypeOK
  <1>4. CASE CanFail /\ failures' = failures + 1 /\ UNCHANGED <<file, disk>>
    BY <1>1, <1>4 DEF Reached, TypeOK
  <1> QED BY <1>2, <1>3, <1>4 DEF Dwrite

-----------------------------------------------------------------------------
(* Formatting.                                                             *)
LEMMA FormatInv == Inv /\ Format => Inv'
  <1> SUFFICES ASSUME Inv, Format PROVE Inv'
    OBVIOUS
  <1> USE DEF Inv
  <1>1. /\ \A m \in Mounters : pc[m] = "out"
        /\ Mounted = {} /\ Mounted' = {}
        /\ UNCHANGED <<pc, connected, myvcb, overrun, reported, shared>>
    BY DEF Format, procVars, Mounted
  <1>2. TypeOK'
    <2>0. \A garbage \in BOOLEAN : [magic |-> "MAGICNUM", dirty |-> garbage] \in Vcbs
      BY DEF Vcbs
    <2>1. disk' \in Vcbs
      BY <2>0 DEF TypeOK, Format
    <2>4. file' \in {"missing", "short", "whole"}
      BY DEF TypeOK, Format
    <2>5. open' \subseteq Mounters /\ unmarked' \subseteq open' /\ fresh' \in BOOLEAN
      BY DEF TypeOK, Format
    <2>2. formats' \in Nat /\ deaths' \in Nat
      BY DEF TypeOK, Format
    <2>3. failures' \in Nat
      BY DEF TypeOK, Format
    <2> QED BY <1>1, <2>1, <2>2, <2>3, <2>4, <2>5 DEF TypeOK
  <1>3. CASE /\ \E garbage \in BOOLEAN : disk' = [magic |-> "MAGICNUM", dirty |-> garbage]
             /\ file' = "whole"
             /\ open' = {}
             /\ unmarked' = {}
             /\ fresh' = TRUE
    BY <1>1, <1>2, <1>3 DEF AloneInv, MarkInv, CopyInv, ReportInv, SilentMountIsSafe, AlarmIsRight, Known
  <1>4. CASE /\ CanFail
             /\ failures' = failures + 1
             /\ file' = IF file = "missing" THEN "short" ELSE file
             /\ UNCHANGED <<disk, open, unmarked, fresh>>
    <2>1. failures' # 0
      BY <1>4 DEF TypeOK
    <2> QED BY <1>1, <1>2, <1>4, <2>1 DEF AloneInv, MarkInv, CopyInv, ReportInv, SilentMountIsSafe, AlarmIsRight, Known
  <1> QED BY <1>3, <1>4 DEF Format

(* Mounting: the first process to do so finds nobody else.                 *)
LEMMA MountInv == ASSUME Inv, NEW m \in Mounters, Mount(m) PROVE Inv'
  <1> USE DEF Inv
  <1>1. PICK vcb \in Vcbs, o \in BOOLEAN :
           /\ myvcb' = [myvcb EXCEPT ![m] = vcb]
           /\ overrun' = [overrun EXCEPT ![m] = o]
           /\ o => vcb = disk
           /\ (connected'[m] /\ file = "whole" /\ failures' = failures) => vcb = disk
    BY DreadResult DEF Mount
  <1>2. failures' \in Nat /\ failures' \geq failures
    BY DreadResult DEF Mount
  <1>3. /\ pc[m] = "out" /\ pc' = [pc EXCEPT ![m] = "mounting"]
        /\ shared' = (shared \/ Mounted # {})
        /\ connected' = [connected EXCEPT ![m] = file # "missing"]
        /\ reported' = [reported EXCEPT ![m] = Report(myvcb'[m])]
        /\ UNCHANGED <<file, disk, open, unmarked, fresh, formats, deaths>>
    BY DEF Mount
  <1>4. myvcb'[m] = vcb /\ overrun'[m] = o
    BY <1>1 DEF TypeOK
  <1>5. TypeOK'
    <2>1. shared' \in BOOLEAN /\ connected' \in [Mounters -> BOOLEAN]
      BY <1>3 DEF TypeOK
    <2>2. reported' \in [Mounters -> {"nothing", "unrecognized", "improper"}]
      BY <1>3 DEF TypeOK, Report
    <2>3. myvcb' \in [Mounters -> Vcbs] /\ overrun' \in [Mounters -> BOOLEAN]
      BY <1>1 DEF TypeOK
    <2>4. pc' \in [Mounters -> {"out", "mounting", "mounted", "unmounting", "dead"}]
      BY <1>3 DEF TypeOK
    <2> QED BY <1>2, <1>3, <2>1, <2>2, <2>3, <2>4 DEF TypeOK
  <1>6. ~ shared' => ~ shared /\ Mounted = {}
    BY <1>3
  <1>7. ~ shared' => Mounted' = {m}
    BY <1>3, <1>6 DEF Mounted, TypeOK
  <1>8. AloneInv'
    BY <1>7 DEF AloneInv
  <1>9. MarkInv'
    <2>1. \A n \in Mounters : pc'[n] = "mounted" => pc[n] = "mounted" /\ n # m
      BY <1>3 DEF TypeOK
    <2>2. \A n \in Mounters : n # m => connected'[n] = connected[n]
      BY <1>3 DEF TypeOK
    <2>3. failures' = 0 => failures = 0
      BY <1>2 DEF TypeOK
    <2> QED BY <1>3, <1>6, <2>1, <2>2, <2>3 DEF MarkInv, Known
  <1>10. CopyInv'
    <2> SUFFICES ASSUME formats > 0, failures' = 0
                 PROVE  /\ file = "whole" /\ disk.magic = "MAGICNUM"
                        /\ \A n \in Mounters :
                             (pc'[n] \in {"mounting", "unmounting"} /\ connected'[n])
                               => myvcb'[n].magic = "MAGICNUM"
      BY <1>3 DEF CopyInv
    <2>1. failures = 0 /\ failures' = failures
      BY <1>2 DEF TypeOK
    <2>2. file = "whole" /\ disk.magic = "MAGICNUM"
      BY <2>1 DEF CopyInv
    <2>3. ASSUME NEW n \in Mounters, n # m, pc'[n] \in {"mounting", "unmounting"}, connected'[n]
          PROVE  myvcb'[n].magic = "MAGICNUM"
      <3>1. pc'[n] = pc[n] /\ connected'[n] = connected[n] /\ myvcb'[n] = myvcb[n]
        BY <1>1, <1>3, <2>3 DEF TypeOK
      <3> QED BY <2>1, <2>3, <3>1 DEF CopyInv
    <2>4. connected'[m] => myvcb'[m].magic = "MAGICNUM"
      BY <1>1, <1>4, <2>1, <2>2
    <2> QED BY <2>2, <2>3, <2>4
  <1>11. ReportInv'
    <2>1. ASSUME NEW n \in Mounters, pc'[n] = "mounting", ~ shared'
          PROVE  n = m
      BY <1>7, <2>1 DEF Mounted
    <2>2. o => reported'[m] = Report(disk)
      BY <1>1, <1>3, <1>4 DEF TypeOK
    <2>3. ASSUME ~ shared', o, reported'[m] = "nothing" PROVE open' \subseteq unmarked'
      <3>1. ~ disk.dirty
        BY <2>2, <2>3 DEF Report
      <3> QED BY <1>3, <1>6, <2>3, <3>1 DEF MarkInv, Known
    <2>4. ASSUME ~ shared', o, reported'[m] = "improper" PROVE Known' # {} \/ fresh'
      <3>1. disk.magic = "MAGICNUM" /\ disk.dirty
        BY <2>2, <2>4 DEF Report
      <3> QED BY <1>3, <1>6, <2>4, <3>1 DEF MarkInv, Known
    <2> QED BY <1>4, <2>1, <2>3, <2>4 DEF ReportInv, SilentMountIsSafe, AlarmIsRight
  <1> QED BY <1>5, <1>8, <1>9, <1>10, <1>11

(* The write of a mount puts the mark on the disk, or fails.               *)
LEMMA MountWriteInv == ASSUME Inv, NEW m \in Mounters, MountWrite(m) PROVE Inv'
  <1> USE DEF Inv
  <1>1. /\ myvcb[m] \in Vcbs /\ Marked(myvcb[m]) \in Vcbs /\ Marked(myvcb[m]).dirty
        /\ Marked(myvcb[m]).magic = myvcb[m].magic
    BY MarkedFields DEF TypeOK
  <1>2. /\ failures' \in Nat /\ failures' \geq failures
        /\ file' \in {"missing", "short", "whole"} /\ disk' \in Vcbs
        /\ IF Reached(m) THEN file' = "whole" /\ disk' = Marked(myvcb[m])
           ELSE UNCHANGED <<file, disk>> /\ (connected[m] => failures' # failures)
    BY <1>1, DwriteResult DEF MountWrite
  <1>3. /\ pc[m] = "mounting"
        /\ \/ pc' = [pc EXCEPT ![m] = "mounted"]
           \/ pc' = [pc EXCEPT ![m] = "dead"]
        /\ open' = open \cup {m}
        /\ unmarked' = IF Reached(m) THEN unmarked \ {m} ELSE unmarked \cup ({m} \ open)
        /\ fresh' = (fresh /\ ~ Reached(m))
        /\ UNCHANGED <<connected, myvcb, overrun, reported, shared, formats, deaths>>
    BY DEF MountWrite
  <1>4. TypeOK'
    <2>1. pc' \in [Mounters -> {"out", "mounting", "mounted", "unmounting", "dead"}]
      BY <1>3 DEF TypeOK
    <2>2. open' \subseteq Mounters /\ unmarked' \subseteq open' /\ fresh' \in BOOLEAN
      BY <1>3 DEF TypeOK
    <2> QED BY <1>2, <1>3, <2>1, <2>2 DEF TypeOK
  <1>5. Mounted' \subseteq Mounted /\ m \in Mounted
    BY <1>3 DEF Mounted, TypeOK
  <1>6. ASSUME ~ shared PROVE \A n \in Mounted : n = m
    BY <1>5, <1>6 DEF AloneInv
  <1>7. AloneInv'
    BY <1>3, <1>5 DEF AloneInv
  <1>8. MarkInv'
    <2> SUFFICES ASSUME ~ shared
                 PROVE  /\ Known' # {} => file' = "whole" /\ disk'.dirty
                        /\ (disk'.magic = "MAGICNUM" /\ disk'.dirty) => Known' # {} \/ fresh'
                        /\ \A n \in Mounters :
                             (pc'[n] = "mounted" /\ connected'[n] /\ failures' = 0) => disk'.dirty
      BY <1>3 DEF MarkInv
    <2>1. CASE Reached(m)
      <3>1. m \in Known'
        BY <1>3, <2>1 DEF Known
      <3> QED BY <1>1, <1>2, <1>3, <2>1, <3>1
    <2>2. CASE ~ Reached(m)
      <3>1. UNCHANGED <<file, disk, fresh, connected>> /\ Known' = Known
        BY <1>2, <1>3, <2>2 DEF TypeOK, Known
      <3>2. \A n \in Mounters : pc'[n] = "mounted" => n = m
        BY <1>5, <1>6 DEF Mounted
      <3>3. connected[m] => failures' # 0
        BY <1>2, <2>2 DEF TypeOK
      <3> QED BY <3>1, <3>2, <3>3 DEF MarkInv
    <2> QED BY <2>1, <2>2
  <1>9. CopyInv'
    <2> SUFFICES ASSUME formats > 0, failures' = 0
                 PROVE  /\ file' = "whole" /\ disk'.magic = "MAGICNUM"
                        /\ \A n \in Mounters :
                             (pc'[n] \in {"mounting", "unmounting"} /\ connected[n])
                               => myvcb[n].magic = "MAGICNUM"
      BY <1>3 DEF CopyInv
    <2>1. failures = 0
      BY <1>2 DEF TypeOK
    <2>2. \A n \in Mounters : pc'[n] \in {"mounting", "unmounting"} => pc'[n] = pc[n]
      BY <1>3 DEF TypeOK
    <2>3. Reached(m) => connected[m] /\ myvcb[m].magic = "MAGICNUM"
      BY <1>3, <2>1 DEF CopyInv, Reached
    <2> QED BY <1>1, <1>2, <2>1, <2>2, <2>3 DEF CopyInv
  <1>10. ReportInv'
    <2>1. ASSUME NEW n \in Mounters, pc'[n] = "mounting", ~ shared
          PROVE  FALSE
      <3>1. n \in Mounted'
        BY <2>1 DEF Mounted
      <3>2. n = m
        BY <1>5, <1>6, <2>1, <3>1
      <3> QED BY <1>3, <2>1, <3>2 DEF TypeOK
    <2> QED BY <1>3, <2>1 DEF ReportInv, SilentMountIsSafe, AlarmIsRight, Known
  <1> QED BY <1>4, <1>7, <1>8, <1>9, <1>10

(* Unmounting reads the disk again.                                        *)
LEMMA UnmountInv == ASSUME Inv, NEW m \in Mounters, Unmount(m) PROVE Inv'
  <1> USE DEF Inv
  <1>1. PICK vcb \in Vcbs, o \in BOOLEAN :
           /\ myvcb' = [myvcb EXCEPT ![m] = vcb]
           /\ overrun' = [overrun EXCEPT ![m] = o]
           /\ o => vcb = disk
           /\ (connected'[m] /\ file = "whole" /\ failures' = failures) => vcb = disk
    BY DreadResult DEF Unmount
  <1>2. failures' \in Nat /\ failures' \geq failures
    BY DreadResult DEF Unmount
  <1>3. /\ pc[m] = "mounted" /\ pc' = [pc EXCEPT ![m] = "unmounting"]
        /\ UNCHANGED <<file, disk, connected, reported, open, unmarked, shared, fresh, formats, deaths>>
    BY DEF Unmount, history
  <1>4. TypeOK'
    <2>1. myvcb' \in [Mounters -> Vcbs] /\ overrun' \in [Mounters -> BOOLEAN]
      BY <1>1 DEF TypeOK
    <2>2. pc' \in [Mounters -> {"out", "mounting", "mounted", "unmounting", "dead"}]
      BY <1>3 DEF TypeOK
    <2> QED BY <1>2, <1>3, <2>1, <2>2 DEF TypeOK
  <1>5. Mounted' = Mounted
    BY <1>3 DEF Mounted, TypeOK
  <1>6. AloneInv'
    BY <1>3, <1>5 DEF AloneInv
  <1>7. MarkInv'
    <2>1. \A n \in Mounters : pc'[n] = "mounted" => pc[n] = "mounted"
      BY <1>3 DEF TypeOK
    <2>2. failures' = 0 => failures = 0
      BY <1>2 DEF TypeOK
    <2> QED BY <1>3, <2>1, <2>2 DEF MarkInv, Known
  <1>8. CopyInv'
    <2> SUFFICES ASSUME formats > 0, failures' = 0
                 PROVE  /\ file = "whole" /\ disk.magic = "MAGICNUM"
                        /\ \A n \in Mounters :
                             (pc'[n] \in {"mounting", "unmounting"} /\ connected[n])
                               => myvcb'[n].magic = "MAGICNUM"
      BY <1>3 DEF CopyInv
    <2>1. failures = 0 /\ failures' = failures
      BY <1>2 DEF TypeOK
    <2>2. file = "whole" /\ disk.magic = "MAGICNUM"
      BY <2>1 DEF CopyInv
    <2>3. \A n \in Mounters : n # m => pc'[n] = pc[n] /\ myvcb'[n] = myvcb[n]
      BY <1>1, <1>3 DEF TypeOK
    <2>4. connected[m] => myvcb'[m].magic = "MAGICNUM"
      BY <1>1, <1>3, <2>1, <2>2 DEF TypeOK
    <2> QED BY <2>1, <2>2, <2>3, <2>4 DEF CopyInv
  <1>9. ReportInv'
    <2>1. \A n \in Mounters :
            pc'[n] = "mounting" => pc[n] = "mounting" /\ overrun'[n] = overrun[n]
      BY <1>1, <1>3 DEF TypeOK
    <2> QED BY <1>3, <2>1 DEF ReportInv, SilentMountIsSafe, AlarmIsRight, Known
  <1> QED BY <1>4, <1>6, <1>7, <1>8, <1>9

(* The write of an unmount takes the mark away, or fails.                  *)
LEMMA UnmountWriteInv == ASSUME Inv, NEW m \in Mounters, UnmountWrite(m) PROVE Inv'
  <1> USE DEF Inv
  <1>1. /\ myvcb[m] \in Vcbs /\ Cleaned(myvcb[m]) \in Vcbs /\ ~ Cleaned(myvcb[m]).dirty
        /\ Cleaned(myvcb[m]).magic = myvcb[m].magic
    BY MarkedFields DEF TypeOK
  <1>2. /\ failures' \in Nat /\ failures' \geq failures
        /\ file' \in {"missing", "short", "whole"} /\ disk' \in Vcbs
        /\ IF Reached(m) THEN file' = "whole" /\ disk' = Cleaned(myvcb[m])
           ELSE UNCHANGED <<file, disk>> /\ (connected[m] => failures' # failures)
    BY <1>1, DwriteResult DEF UnmountWrite
  <1>3. /\ pc[m] = "unmounting"
        /\ \/ pc' = [pc EXCEPT ![m] = "out"]
           \/ pc' = [pc EXCEPT ![m] = "dead"]
        /\ open' = IF Reached(m) THEN (open \cap Mounted) \ {m} ELSE open
        /\ unmarked' = unmarked \cap open'
        /\ fresh' = (fresh /\ ~ Reached(m))
        /\ connected' = [connected EXCEPT ![m] = FALSE]
        /\ UNCHANGED <<myvcb, overrun, reported, shared, formats, deaths>>
    BY DEF UnmountWrite
  <1>4. TypeOK'
    <2>1. pc' \in [Mounters -> {"out", "mounting", "mounted", "unmounting", "dead"}]
      BY <1>3 DEF TypeOK
    <2>2. open' \subseteq Mounters /\ unmarked' \subseteq open' /\ fresh' \in BOOLEAN /\ connected' \in [Mounters -> BOOLEAN]
      BY <1>3 DEF TypeOK
    <2> QED BY <1>2, <1>3, <2>1, <2>2 DEF TypeOK
  <1>5. Mounted' = Mounted \ {m} /\ m \in Mounted
    BY <1>3 DEF Mounted, TypeOK
  <1>6. ASSUME ~ shared PROVE Mounted = {m} /\ Mounted' = {}
    BY <1>5, <1>6 DEF AloneInv
  <1>7. AloneInv'
    BY <1>3, <1>6 DEF AloneInv
  <1>8. MarkInv'
    <2> SUFFICES ASSUME ~ shared
                 PROVE  /\ Known' # {} => file' = "whole" /\ disk'.dirty
                        /\ (disk'.magic = "MAGICNUM" /\ disk'.dirty) => Known' # {} \/ fresh'
                        /\ \A n \in Mounters :
                             (pc'[n] = "mounted" /\ connected'[n] /\ failures' = 0) => disk'.dirty
      BY <1>3 DEF MarkInv
    <2>1. \A n \in Mounters : pc'[n] # "mounted"
      BY <1>6 DEF Mounted
    <2>2. CASE Reached(m)
      <3>1. Known' = {}
        BY <1>3, <1>6, <2>2 DEF Known
      <3> QED BY <1>1, <1>2, <2>1, <2>2, <3>1
    <2>3. CASE ~ Reached(m)
      <3>1. Known' = Known
        BY <1>3, <2>3 DEF Known, TypeOK
      <3> QED BY <1>2, <1>3, <2>1, <2>3, <3>1 DEF MarkInv, TypeOK
    <2> QED BY <2>2, <2>3
  <1>9. CopyInv'
    <2> SUFFICES ASSUME formats > 0, failures' = 0
                 PROVE  /\ file' = "whole" /\ disk'.magic = "MAGICNUM"
                        /\ \A n \in Mounters :
                             (pc'[n] \in {"mounting", "unmounting"} /\ connected'[n])
                               => myvcb[n].magic = "MAGICNUM"
      BY <1>3 DEF CopyInv
    <2>1. failures = 0
      BY <1>2 DEF TypeOK
    <2>2. \A n \in Mounters :
            pc'[n] \in {"mounting", "unmounting"} => pc'[n] = pc[n] /\ connected'[n] = connected[n]
      BY <1>3 DEF TypeOK
    <2>3. Reached(m) => connected[m] /\ myvcb[m].magic = "MAGICNUM"
      BY <1>3, <2>1 DEF CopyInv, Reached
    <2> QED BY <1>1, <1>2, <2>1, <2>2, <2>3 DEF CopyInv
  <1>10. ReportInv'
    <2>1. \A n \in Mounters : pc'[n] = "mounting" => shared
      BY <1>6 DEF Mounted
    <2> QED BY <1>3, <2>1 DEF ReportInv, SilentMountIsSafe, AlarmIsRight, Known
  <1> QED BY <1>4, <1>7, <1>8, <1>9, <1>10

(* Deaths and restarts leave the disk alone.                               *)
LEMMA DieInv == ASSUME Inv, NEW m \in Mounters, Die(m) \/ Restart(m) PROVE Inv'
  <1> USE DEF Inv
  <1>1. /\ UNCHANGED <<file, disk, myvcb, reported, open, unmarked, shared, fresh, formats, failures>>
        /\ deaths' \in Nat
    BY DEF Die, Restart, history, TypeOK
  <1>2. /\ pc' \in [Mounters -> {"out", "mounting", "mounted", "unmounting", "dead"}]
        /\ connected' \in [Mounters -> BOOLEAN] /\ overrun' \in [Mounters -> BOOLEAN]
    BY DEF Die, Restart, TypeOK
  <1>3. ASSUME NEW n \in Mounters, pc'[n] \in {"mounting", "mounted", "unmounting"}
        PROVE  pc'[n] = pc[n] /\ connected'[n] = connected[n] /\ overrun'[n] = overrun[n]
    BY <1>3 DEF Die, Restart, TypeOK
  <1>4. TypeOK'
    BY <1>1, <1>2 DEF TypeOK
  <1>5. Mounted' \subseteq Mounted
    BY <1>3 DEF Mounted
  <1>6. AloneInv'
    BY <1>1, <1>5 DEF AloneInv
  <1>7. MarkInv'
    BY <1>1, <1>3 DEF MarkInv, Known
  <1>8. CopyInv'
    BY <1>1, <1>3 DEF CopyInv
  <1>9. ReportInv'
    BY <1>1, <1>3 DEF ReportInv, SilentMountIsSafe, AlarmIsRight, Known
  <1> QED BY <1>4, <1>6, <1>7, <1>8, <1>9

-----------------------------------------------------------------------------
(* The invariant, of every behaviour.                                      *)
LEMMA NextInv == Inv /\ [Next]_vars => Inv'
  <1> SUFFICES ASSUME Inv, [Next]_vars PROVE Inv'
    OBVIOUS
  <1>1. CASE Format
    BY <1>1, FormatInv
  <1>2. ASSUME NEW m \in Mounters, Mount(m) PROVE Inv'
    BY <1>2, MountInv
  <1>3. ASSUME NEW m \in Mounters, MountWrite(m) PROVE Inv'
    BY <1>3, MountWriteInv
  <1>4. ASSUME NEW m \in Mounters, Unmount(m) PROVE Inv'
    BY <1>4, UnmountInv
  <1>5. ASSUME NEW m \in Mounters, UnmountWrite(m) PROVE Inv'
    BY <1>5, UnmountWriteInv
  <1>6. ASSUME NEW m \in Mounters, Die(m) \/ Restart(m) PROVE Inv'
    BY <1>6, DieInv
  <1>7. CASE UNCHANGED vars
    BY <1>7 DEF vars, procVars, history, Inv, TypeOK, AloneInv, Mounted, MarkInv, CopyInv, ReportInv,
                SilentMountIsSafe, AlarmIsRight, Known
  <1> QED BY <1>1, <1>2, <1>3, <1>4, <1>5, <1>6, <1>7 DEF Next

LEMMA AlwaysInv == Spec => []Inv
  BY InitInv, NextInv, PTL DEF Spec

(* A disk that a process has marked is dirty while that process has it     *)
(* mounted, and after it has died, for any number of processes that take   *)
(* turns.                                                                  *)
THEOREM StaysDirty == Spec => []DirtyWhileMounted
  <1>1. Inv => DirtyWhileMounted
    BY DEF Inv, MarkInv, DirtyWhileMounted
  <1> QED BY <1>1, AlwaysInv, PTL

(* Of any number of processes that take turns: when a mount has read the   *)
(* disk and says nothing, every process that died with the disk mounted,   *)
(* or could not unmount it, had failed to write its mark.                  *)
THEOREM SilenceIsSafe == Spec => []SilentMountIsSafe
  <1>1. Inv => SilentMountIsSafe
    BY DEF Inv, ReportInv
  <1> QED BY <1>1, AlwaysInv, PTL

(* And when it complains, the disk is fresh or one who marked it did not   *)
(* unmount it.                                                             *)
THEOREM AlarmsAreRight == Spec => []AlarmIsRight
  <1>1. Inv => AlarmIsRight
    BY DEF Inv, ReportInv
  <1> QED BY <1>1, AlwaysInv, PTL

(* No mount or unmount of any number of processes, overlapping or not,     *)
(* costs a formatted disk its magic number as long as no call fails.       *)
THEOREM MagicStays == Spec => []MagicKept
  <1>1. Inv => MagicKept
    BY DEF Inv, CopyInv, MagicKept
  <1> QED BY <1>1, AlwaysInv, PTL
=============================================================================
