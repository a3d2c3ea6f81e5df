---------------------------- MODULE RotatingLog ----------------------------
(***************************************************************************)
(* RotatingHandler of package log/logger: its loggers, the goroutine that  *)
(* looks at the size of the file once a second, and the files. Lines are   *)
(* counted; Print, Printf and the like write through lg, the functions     *)
(* with a level through lgDebug .. lgError, which share one file.          *)
(*                                                                         *)
(* rename closes and removes files before it takes mu, and no writer takes *)
(* mu. The file that the constructor opens is not kept in logfile, and     *)
(* rename sets the output of lg only.                                      *)
(***************************************************************************)
EXTENDS Integers, Sequences

CONSTANTS
  MaxNum,        (* maxNum: rotated files                                  *)
  MaxSize,       (* maxSize, in lines                                      *)
  MaxWrites,     (* bound: lines written                                   *)
  MaxStarts,     (* bound: processes after the first                       *)
  MaxFault       (* bound: os.Rename and os.Create that fail               *)

ASSUME LogConstantsOK == /\ MaxNum \in Nat \ {0} /\ MaxSize \in Nat \ {0}
                         /\ {MaxWrites, MaxStarts, MaxFault} \subseteq Nat

VARIABLES
  size,          (* lines of every file there has been, by number          *)
  disk,          (* the file of each name, 0 when there is none; name 0 is *)
                 (* filename, name i is filename.<i>.log                   *)
  lg, levelled,  (* the files of the loggers                               *)
  logfile,       (* 0 is nil                                               *)
  lgClosed,      (* the descriptor that lg writes to was closed            *)
  suffix,
  step,          (* the goroutine: "idle" or its next step in rename       *)
  up,            (* NewRotatingHandler has returned                        *)
  lost,          (* history: lines written through lg to no open file      *)
  rotated,       (* history: the files this process has rotated            *)
  writes, starts, faults

files   == <<size, disk>>
outs    == <<lg, levelled, logfile, lgClosed>>
bound   == <<writes, starts, faults>>
logVars == <<files, outs, suffix, step, up, lost, rotated, bound>>

FileNames == 0 .. MaxNum

LogInit ==
  /\ size = <<0>> /\ disk = [n \in FileNames |-> IF n = 0 THEN 1 ELSE 0]
  /\ lg = 1 /\ levelled = 1 /\ logfile = 0 /\ lgClosed = FALSE
  /\ suffix = 0 /\ step = "idle" /\ up = TRUE /\ lost = 0 /\ rotated = <<>>
  /\ writes = 0 /\ starts = 0 /\ faults = 0

Fault   == faults < MaxFault /\ faults' = faults + 1
NoFault == UNCHANGED faults

-----------------------------------------------------------------------------
(* The loggers. An error of the file is dropped.                           *)

Write(file) == size' = [size EXCEPT ![file] = @ + 1]

PrintLine ==
  /\ up /\ writes < MaxWrites /\ writes' = writes + 1
  /\ \/ lg # 0 /\ ~lgClosed /\ Write(lg) /\ UNCHANGED lost
     \/ (lg = 0 \/ lgClosed) /\ lost' = lost + 1 /\ UNCHANGED size
  /\ UNCHANGED <<disk, outs, suffix, step, up, rotated, starts, faults>>

Level ==
  /\ up /\ writes < MaxWrites /\ writes' = writes + 1
  /\ Write(levelled)
  /\ UNCHANGED <<disk, outs, suffix, step, up, lost, rotated, starts, faults>>

-----------------------------------------------------------------------------
(* fileCheck and rename                                                    *)

IsMustRename(file) == MaxNum > 1 /\ file # 0 /\ size[file] >= MaxSize

(* Mutant of NextSuffix: the last file is never used.                      *)
ShortSuffix == (suffix % (MaxNum - 1)) + 1

NextSuffix == (suffix % MaxNum) + 1

RenameRest == UNCHANGED <<levelled, up, lost, writes, starts>>

FileCheck ==
  /\ up /\ step = "idle" /\ IsMustRename(disk[0])
  /\ suffix' = NextSuffix /\ step' = "close"
  /\ UNCHANGED <<files, lg, logfile, lgClosed, rotated, faults>> /\ RenameRest

(* At the first rotation logfile is nil and nothing is closed.             *)
CloseFile ==
  /\ step = "close" /\ step' = "remove"
  /\ lgClosed' = (lgClosed \/ (logfile # 0 /\ lg = logfile))
  /\ UNCHANGED <<files, lg, logfile, suffix, rotated, faults>> /\ RenameRest

RemoveOld ==
  /\ step = "remove" /\ step' = "rename"
  /\ disk' = [disk EXCEPT ![suffix] = 0]
  /\ UNCHANGED <<size, lg, logfile, lgClosed, suffix, rotated, faults>> /\ RenameRest

RenameFile ==
  /\ step = "rename" /\ step' = "create"
  /\ \/ NoFault /\ rotated' = Append(rotated, disk[0])
        /\ disk' = [disk EXCEPT ![suffix] = disk[0], ![0] = 0]
     \/ Fault /\ UNCHANGED <<disk, rotated>>
  /\ UNCHANGED <<size, lg, logfile, lgClosed, suffix>> /\ RenameRest

(* os.Create empties the file that is there when os.Rename has failed; lg  *)
(* has the closed descriptor of that file until SetOutput.                 *)
CreateFile ==
  /\ step = "create" /\ step' = "output"
  /\ \/ /\ NoFault /\ disk[0] = 0
        /\ size' = Append(size, 0) /\ logfile' = Len(size')
        /\ disk' = [disk EXCEPT ![0] = Len(size')]
     \/ /\ NoFault /\ disk[0] # 0
        /\ size' = [size EXCEPT ![disk[0]] = 0] /\ logfile' = disk[0]
        /\ UNCHANGED disk
     \/ Fault /\ logfile' = 0 /\ UNCHANGED files
  /\ UNCHANGED <<lg, lgClosed, suffix, rotated>> /\ RenameRest

(* Mutant of SetOutput: not when os.Create has failed.                     *)
SetOutputIfOpen ==
  /\ step = "output" /\ step' = "idle" /\ up' = TRUE
  /\ IF logfile = 0 THEN UNCHANGED <<lg, lgClosed>> ELSE lg' = logfile /\ lgClosed' = FALSE
  /\ UNCHANGED <<files, levelled, logfile, suffix, lost, rotated, bound>>

SetOutput ==
  /\ step = "output" /\ step' = "idle" /\ up' = TRUE
  /\ lg' = logfile /\ lgClosed' = FALSE
  /\ UNCHANGED <<files, levelled, logfile, suffix, lost, rotated, bound>>

Rotate == \/ FileCheck \/ CloseFile \/ RemoveOld \/ RenameFile \/ CreateFile \/ SetOutput

(* The process ends and another one opens the file to append to it. The    *)
(* suffix begins again at 0.                                               *)
NewRotatingHandler ==
  /\ starts < MaxStarts /\ starts' = starts + 1
  /\ LET file == IF disk[0] = 0 THEN Len(size) + 1 ELSE disk[0] IN
       /\ size' = IF disk[0] = 0 THEN Append(size, 0) ELSE size
       /\ disk' = [disk EXCEPT ![0] = file]
       /\ lg' = file /\ levelled' = file
  /\ logfile' = 0 /\ lgClosed' = FALSE /\ lost' = 0 /\ rotated' = <<>>
  /\ \/ ~IsMustRename(disk[0]) /\ suffix' = 0 /\ step' = "idle" /\ up' = TRUE
     \/ IsMustRename(disk[0]) /\ suffix' = 1 /\ step' = "close" /\ up' = FALSE
  /\ UNCHANGED <<writes, faults>>

LogNext == PrintLine \/ Level \/ Rotate \/ NewRotatingHandler

LogSpec == LogInit /\ [][LogNext]_logVars

-----------------------------------------------------------------------------
Files == 1 .. Len(size)

(* The types of the variables.                                             *)
LogTypeOK ==
  /\ size \in Seq(Nat) /\ disk \in [FileNames -> Files \cup {0}]
  /\ {lg, logfile} \subseteq Files \cup {0} /\ levelled \in Files /\ lgClosed \in BOOLEAN
  /\ suffix \in FileNames /\ step \in {"idle", "close", "remove", "rename", "create", "output"}
  /\ up \in BOOLEAN /\ lost \in Nat /\ rotated \in Seq(Files)
  /\ {writes, starts, faults} \subseteq Nat

OnDisk(file) == \E n \in FileNames : disk[n] = file

(* The files rotated last are kept: maxNum of them, one less while the     *)
(* next is rotated and for each fault. They are those of this process: the *)
(* next one begins with suffix 1, whatever file is the oldest              *)
(* (logger.go:277-293).                                                    *)
KeepsLast ==
  \A i \in DOMAIN rotated :
    i > Len(rotated) - MaxNum + faults + (IF step = "rename" THEN 1 ELSE 0)
      => OnDisk(rotated[i])

(* A line of Print is lost only between the Close and the SetOutput of a   *)
(* rotation, which no lock keeps Print out of, unless os.Create has failed *)
(* (logger.go:277-296).                                                    *)
LostInRotation ==
  [][lost' = lost + 1 => step \in {"remove", "rename", "create", "output"} \/ lg = 0]_logVars

(* The lines with a level stay on disk for maxNum rotations of their       *)
(* process and no longer: the next one removes the file that the loggers   *)
(* of the levels still write to, and all that they write from then on is   *)
(* lost with it (logger.go:137-141, 284-287, 295).                         *)
LevelledKept ==
  faults = 0 =>
    (OnDisk(levelled) <=> \/ Len(rotated) <= MaxNum /\ step # "rename"
                          \/ Len(rotated) < MaxNum)
=============================================================================
