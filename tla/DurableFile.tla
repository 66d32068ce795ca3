------------------------------- MODULE DurableFile -------------------------------
(* One file and its directory under the operations that the ledger, the       *)
(* journal, the observations and the vault are written with                   *)
(* (internal/durable/durable.go, durable_unix.go): WriteFile, CreateExclusive, *)
(* Remove, Erase and EnsureDir, with failing steps, power losses, and a        *)
(* program outside that replaces the file or gives it a second name.          *)
(*                                                                            *)
(* An inode holds what was written (cache) and what is sure to be on disk; a   *)
(* power loss keeps either. Directory changes reach the disk in order, and     *)
(* the list of versions since the last flush says which ones may be found.     *)
EXTENDS Naturals, FiniteSets, SequencesExt

CONSTANTS
    Values,          \* contents written by the operations
    Outside,         \* the content a program outside puts there
    Depth,           \* directories above the file that EnsureDir makes
    MaxInodes, MaxOperations, MaxFailures, MaxLosses   \* bounds of the instance

ASSUME FileAssumption == Depth \in Nat

VARIABLES
    dirs,     \* versions of the directory [path, temp, link], the last is current
    inodes,   \* [cache, disk], by number, 0 stands for no file
    oper,     \* the operation under way
    level,    \* [made, kept], directories that exist and that no loss can take
    may,      \* ghost: contents the file may be found with
    harm,     \* ghost: files lost that nobody asked to erase, directories not kept
    counts    \* how much of each bound is used

fileVars == <<dirs, inodes, oper, level, may, harm, counts>>

Absent == "absent"
Zero   == "zero"
Torn   == "torn"
NoOper == [kind |-> "none", at |-> "idle", value |-> Zero, inode |-> 0, met |-> {}]

FileInit ==
    /\ dirs = <<[path |-> 0, temp |-> 0, link |-> 0]>>
    /\ inodes = <<>> /\ oper = NoOper /\ may = {Absent} /\ harm = {}
    /\ level = [made |-> 0, kept |-> 0, cut |-> FALSE]
    /\ counts = [operations |-> 0, failures |-> 0, losses |-> 0]

Current == Last(dirs)
\* The current directory changes; earlier versions may still be found.
Renames(d) == dirs' = Append(dirs, d)
Content(i) == IF i = 0 THEN Absent ELSE inodes[i].cache
Survivors(i) == IF i = 0 THEN {Absent} ELSE {inodes[i].cache, inodes[i].disk}
Fresh(v) == Append(inodes, [cache |-> v, disk |-> Torn])

Step(at) == oper' = [oper EXCEPT !.at = at]

------------------------------------------------------------------------------
\* An operation is called.
Call(kind, v) ==
    /\ oper = NoOper /\ counts.operations < MaxOperations /\ Len(inodes) < MaxInodes
    /\ oper' = [NoOper EXCEPT !.kind = kind, !.value = v,
                   !.at = CASE kind = "write" -> "temp" [] kind = "create" -> "open"
                            [] kind = "erase" -> "inspect" [] kind = "remove" -> "unlink"
                            [] kind = "ensure" -> "level"]
    /\ counts' = [counts EXCEPT !.operations = @ + 1]
    /\ UNCHANGED <<dirs, inodes, level, may, harm>>

\* Any step reports an error; the file that was under way is removed.
FailStep ==
    /\ oper.at \notin {"idle", "refused"} /\ counts.failures < MaxFailures
    /\ LET gone == [Current EXCEPT !.temp = 0,
                       !.path = IF oper.kind = "create" /\ oper.at = "flush" THEN 0 ELSE @]
       IN dirs' = IF gone = Current THEN dirs ELSE Append(dirs, gone)
    /\ may' = IF oper.kind = "create" /\ oper.at = "flush" THEN may \cup {Absent} ELSE may
    /\ level' = [level EXCEPT !.cut = @ \/ oper.kind = "ensure"]
    /\ counts' = [counts EXCEPT !.failures = @ + 1]
    /\ oper' = NoOper
    /\ UNCHANGED <<inodes, harm>>

\* The process dies, and leaves what it was writing.
ProcessDies ==
    /\ oper.at # "idle" /\ counts.failures < MaxFailures
    /\ level' = [level EXCEPT !.cut = @ \/ oper.kind = "ensure"]
    /\ counts' = [counts EXCEPT !.failures = @ + 1]
    /\ oper' = NoOper
    /\ UNCHANGED <<dirs, inodes, may, harm>>

\* An operation refuses before it changed anything.
Refused ==
    /\ oper.at = "refused" /\ oper' = NoOper
    /\ UNCHANGED <<dirs, inodes, level, may, harm, counts>>

------------------------------------------------------------------------------
(* WriteFile *)

CreateTemp ==
    /\ oper.at = "temp" /\ Len(inodes) < MaxInodes
    /\ inodes' = Fresh(oper.value)
    /\ Renames([Current EXCEPT !.temp = Len(inodes) + 1])
    /\ oper' = [oper EXCEPT !.at = "flush", !.inode = Len(inodes) + 1]
    /\ UNCHANGED <<level, may, harm, counts>>

\* Variant: the content is left to the system to write.
NoFlush ==
    /\ oper.at = "flush"
    /\ Step(CASE oper.kind = "write" -> "rename" [] oper.kind = "create" -> "sync"
              [] oper.kind = "erase" -> "check")
    /\ UNCHANGED <<dirs, inodes, level, may, harm, counts>>

\* doFlushFile, of every operation that writes.
Flush ==
    /\ oper.at = "flush"
    /\ inodes' = [inodes EXCEPT ![oper.inode].disk = inodes[oper.inode].cache]
    /\ Step(CASE oper.kind = "write" -> "rename" [] oper.kind = "create" -> "sync"
              [] oper.kind = "erase" -> "check")
    /\ UNCHANGED <<dirs, level, may, harm, counts>>

renameReplace ==
    /\ oper.at = "rename"
    /\ Renames([Current EXCEPT !.path = oper.inode, !.temp = 0])
    /\ may' = may \cup {oper.value}
    /\ Step("sync")
    /\ UNCHANGED <<inodes, level, harm, counts>>

\* SyncDir, and the operation returns without error.
SyncDir ==
    /\ oper.at = "sync"
    /\ dirs' = <<Current>>
    /\ may' = oper.met \cup (IF oper.kind \in {"write", "create"} THEN {oper.value} ELSE {Absent})
    /\ oper' = NoOper
    /\ UNCHANGED <<inodes, level, harm, counts>>

------------------------------------------------------------------------------
(* CreateExclusive *)

OpenExclusive ==
    /\ oper.at = "open"
    /\ IF Current.path # 0
         THEN Step("refused") /\ UNCHANGED <<dirs, inodes, may>>
         ELSE /\ inodes' = Fresh(oper.value)
              /\ Renames([Current EXCEPT !.path = Len(inodes) + 1])
              /\ may' = may \cup {Torn, oper.value}
              /\ oper' = [oper EXCEPT !.at = "flush", !.inode = Len(inodes) + 1]
    /\ UNCHANGED <<level, harm, counts>>

------------------------------------------------------------------------------
(* Remove *)

Unlink ==
    /\ oper.at = "unlink"
    /\ IF Current.path = 0 THEN UNCHANGED dirs ELSE Renames([Current EXCEPT !.path = 0])
    /\ may' = may \cup {Absent}
    /\ Step("sync")
    /\ UNCHANGED <<inodes, level, harm, counts>>

------------------------------------------------------------------------------
(* Erase *)

\* The first look at the path; an absent file still has its directory flushed.
Inspect ==
    /\ oper.at = "inspect"
    /\ Step(IF Current.path = 0 THEN "sync" ELSE "handle")
    /\ UNCHANGED <<dirs, inodes, level, may, harm, counts>>

\* openForErase, and what the open handle shows: a file with a second name,
\* or one that is gone by now, is not touched.
OpenForErase ==
    /\ oper.at = "handle"
    /\ IF Current.path = 0 \/ Current.link = Current.path
         THEN Step("refused")
         ELSE oper' = [oper EXCEPT !.at = "truncate", !.inode = Current.path]
    /\ UNCHANGED <<dirs, inodes, level, may, harm, counts>>

Truncate ==
    /\ oper.at = "truncate"
    /\ inodes' = [inodes EXCEPT ![oper.inode].cache = Zero]
    /\ may' = may \cup {Zero}
    /\ harm' = IF Current.link = oper.inode THEN harm \cup {"shared file"} ELSE harm
    /\ Step("flush")
    /\ UNCHANGED <<dirs, level, counts>>

\* nameRefersTo and the unlink, taken together: the window between them is
\* ADR-030's.
UnlinkChecked ==
    /\ oper.at = "check"
    /\ IF Current.path # oper.inode
         THEN Step("refused") /\ UNCHANGED <<dirs, may, harm>>
         ELSE /\ Renames([Current EXCEPT !.path = 0])
              /\ may' = may \cup {Absent}
              /\ Step("sync")
              /\ harm' = IF Content(Current.path) = Zero THEN harm ELSE harm \cup {"replaced file"}
    /\ UNCHANGED <<inodes, level, counts>>

------------------------------------------------------------------------------
(* EnsureDir *)

\* One missing ancestor after the other, the outermost first.
MakeLevel ==
    /\ oper.at = "level"
    /\ IF level.made = Depth
         THEN /\ oper' = NoOper
              /\ harm' = IF level.kept = Depth \/ level.cut THEN harm
                                                            ELSE harm \cup {"directory"}
              /\ UNCHANGED level
         ELSE /\ level' = [level EXCEPT !.made = @ + 1]
              /\ Step("keep") /\ UNCHANGED harm
    /\ UNCHANGED <<dirs, inodes, may, counts>>

KeepLevel ==
    /\ oper.at = "keep"
    /\ level' = [level EXCEPT !.kept = IF @ = level.made - 1 THEN level.made ELSE @]
    /\ Step("level")
    /\ UNCHANGED <<dirs, inodes, may, harm, counts>>

------------------------------------------------------------------------------
(* From outside *)

\* A program renames a file of its own to the path, but for the check.
Replace ==
    /\ oper.at # "check" \/ Current.path = oper.inode
    /\ Len(inodes) < MaxInodes /\ Outside \notin {inodes[i].cache : i \in DOMAIN inodes}
    /\ inodes' = Append(inodes, [cache |-> Outside, disk |-> Outside])
    /\ Renames([Current EXCEPT !.path = Len(inodes) + 1])
    /\ may' = may \cup {Outside}
    /\ oper' = IF oper = NoOper THEN oper ELSE [oper EXCEPT !.met = @ \cup {Outside}]
    /\ UNCHANGED <<level, harm, counts>>

\* The file gets a second name while no operation has it open.
Link ==
    /\ oper.at \in {"idle", "inspect", "handle"} /\ Current.path # 0 /\ Current.link = 0
    /\ Renames([Current EXCEPT !.link = Current.path])
    /\ UNCHANGED <<inodes, oper, level, may, harm, counts>>

\* The power is lost: any version of the directory since the last flush, any
\* of the two contents of an inode, and any of the levels not kept.
LosePower ==
    /\ counts.losses < MaxLosses
    /\ \E k \in DOMAIN dirs :
          dirs' = <<dirs[k]>>
    /\ \E onDisk \in SUBSET DOMAIN inodes :
          LET found(i) == IF i \in onDisk THEN inodes[i].disk ELSE inodes[i].cache
          IN inodes' = [i \in DOMAIN inodes |-> [cache |-> found(i), disk |-> found(i)]]
    /\ \E n \in level.kept .. level.made :
          level' = [level EXCEPT !.made = n, !.kept = n]
    /\ oper' = NoOper
    /\ counts' = [counts EXCEPT !.losses = @ + 1]
    /\ UNCHANGED <<may, harm>>

------------------------------------------------------------------------------
FileNext ==
    \/ \E kind \in {"write", "create"}, v \in Values : Call(kind, v)
    \/ \E kind \in {"erase", "remove", "ensure"} : Call(kind, Zero)
    \/ FailStep \/ ProcessDies \/ Refused \/ CreateTemp \/ Flush \/ renameReplace \/ SyncDir
    \/ OpenExclusive \/ Unlink \/ Inspect \/ OpenForErase \/ Truncate \/ UnlinkChecked
    \/ MakeLevel \/ KeepLevel \/ Replace \/ Link \/ LosePower

FileSpec == FileInit /\ [][FileNext]_fileVars

------------------------------------------------------------------------------
(* Properties *)

\* Now and after a loss of power at this moment, the file has one of the
\* contents it may have: that of the last operation that returned without
\* error, or one that a later, unfinished operation was about to give it.
AccountedFor ==
    \A k \in DOMAIN dirs : Survivors(dirs[k].path) \subseteq may

\* The operations keep what they promise, across failing steps and losses of
\* power (durable.go "a lost unlink can only leave an empty file behind, never
\* the erased content"), an erase empties no file that has a second name and
\* takes none away that it has not emptied, and EnsureDir, unless an earlier
\* one was cut off, leaves no directory that a loss can take.
FileIsAccountedFor == AccountedFor /\ harm = {}
=============================================================================
