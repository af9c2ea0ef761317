------------------------------ MODULE SafeCopy -------------------------------
(***************************************************************************)
(* selinux_copy_files_safely (src/src/lib/util/selinux.c:333): the copy of *)
(* a table of files that authselect uses wherever it replaces system files *)
(* (opt-out, backup-restore).  A first loop writes every new content into  *)
(* a temporary file next to its destination, a second loop renames the     *)
(* temporary files over the destinations and removes the destinations that *)
(* have no source.  One action is one iteration of one of the loops.       *)
(*                                                                         *)
(* A temporary file has a random name of its own (mkstemp), so what else   *)
(* happens on the disk cannot meet it; "tmp" says which ones exist.        *)
(***************************************************************************)
EXTENDS Naturals

CONSTANTS
    N,               \* number of rows of the table
    Contents,        \* what a file can hold
    Empty,           \* the content of an empty file
    Short,           \* the content of a file whose buffered tail was lost
    Missing,         \* there is no file of that name
    CanUnlink,       \* rows with can_unlink
    EmptyIfMissing,  \* rows with write_empty_if_missing
    Faults           \* which failures the environment may cause

Rows   == 1..N
Values == Contents \cup {Missing}

(* Failures: "write" an error while a temporary file is prepared, "rename" *)
(* and "unlink" errors of these calls, "shortwrite" data lost when stdio   *)
(* flushes its buffer in fclose(), whose result file_copy and              *)
(* textfile_write ignore, "crash" the end of the process at any point.     *)
AllFaults == {"write", "rename", "unlink", "shortwrite", "crash"}

ASSUME NAssumption        == N \in Nat
ASSUME ContentsAssumption == Empty \in Contents /\ Short \in Contents
ASSUME MissingAssumption  == Missing \notin Contents
ASSUME TableAssumption    == CanUnlink \subseteq Rows /\ EmptyIfMissing \subseteq Rows
ASSUME FaultsAssumption   == Faults \subseteq AllFaults

VARIABLES
    src,    \* source files of the table
    dst,    \* destination files of the table
    skip,   \* rows whose destination is NULL
    tmp,    \* temporary file of each row, Missing if it is not on the disk
    row,    \* loop counter i
    phase,  \* which loop: "temp" writes temporary files, "rename" renames
    ret,    \* "running", then the errno returned, or "crashed"
    old     \* history: dst at the call

vars == <<src, dst, skip, tmp, row, phase, ret, old>>

NoTemps == [r \in Rows |-> Missing]

Init ==
    /\ src \in [Rows -> Values]
    /\ dst \in [Rows -> Values]
    /\ skip \in SUBSET Rows
    /\ tmp = NoTemps
    /\ row = 1
    /\ phase = "temp"
    /\ ret = "running"
    /\ old = dst

-----------------------------------------------------------------------------

At(p) == ret = "running" /\ phase = p /\ row \in Rows

(* Broken variants, to show that the properties below notice: they are not *)
(* part of the specification.  The loop steps over a row ...               *)
BrokenNextRow == row' = row + 2 /\ UNCHANGED <<phase, ret>>

NextRow == row' = row + 1 /\ UNCHANGED <<phase, ret>>

(* What a file may hold when file_copy has reported success: the error of  *)
(* the fclose() that flushes the last of the data is not looked at.        *)
Copies(content) ==
    IF "shortwrite" \in Faults /\ content # Empty THEN {content, Short} ELSE {content}

(* ... the clean-up is forgotten ...                                       *)
BrokenFail(errno) ==
    /\ ret' = errno
    /\ UNCHANGED <<src, dst, skip, tmp, row, phase, old>>

(* The "done" label: temporary files are removed, the destinations stay.   *)
Fail(errno) ==
    /\ ret' = errno
    /\ tmp' = NoTemps
    /\ UNCHANGED <<src, dst, skip, row, phase, old>>

(* ... the source is copied straight over the destination ...              *)
BrokenWriteTemp ==
    /\ At("temp") /\ row \notin skip
    /\ src[row] # Missing
    /\ tmp' = [tmp EXCEPT ![row] = src[row]]
    /\ dst' = [dst EXCEPT ![row] = src[row]]
    /\ NextRow
    /\ UNCHANGED <<src, skip, old>>

(* ... can_unlink is not looked at ...                                     *)
BrokenDeleteLater ==
    /\ At("temp") /\ row \notin skip
    /\ src[row] = Missing
    /\ row \notin EmptyIfMissing
    /\ NextRow
    /\ UNCHANGED <<src, dst, skip, tmp, old>>

(* ... the destination is removed to make room for the rename ...          *)
BrokenRenameFails ==
    /\ "rename" \in Faults
    /\ At("rename") /\ row \notin skip
    /\ tmp[row] # Missing
    /\ dst' = [dst EXCEPT ![row] = Missing]
    /\ tmp' = NoTemps
    /\ ret' = "EIO"
    /\ UNCHANGED <<src, skip, row, phase, old>>

(* ... or the second loop forgets the rows that are skipped.               *)
BrokenRemove ==
    /\ At("rename")
    /\ tmp[row] = Missing
    /\ dst' = [dst EXCEPT ![row] = Missing]
    /\ NextRow
    /\ UNCHANGED <<src, skip, tmp, old>>

SkipRow ==
    /\ At(phase)
    /\ row \in skip
    /\ NextRow
    /\ UNCHANGED <<src, dst, skip, tmp, old>>

(* selinux_mkstemp_copy: a new file that holds the source's content.       *)
WriteTemp ==
    /\ At("temp") /\ row \notin skip
    /\ src[row] # Missing
    /\ \E c \in Copies(src[row]) : tmp' = [tmp EXCEPT ![row] = c]
    /\ NextRow
    /\ UNCHANGED <<src, dst, skip, old>>

WriteEmptyTemp ==
    /\ At("temp") /\ row \notin skip
    /\ src[row] = Missing
    /\ row \in EmptyIfMissing
    /\ tmp' = [tmp EXCEPT ![row] = Empty]
    /\ NextRow
    /\ UNCHANGED <<src, dst, skip, old>>

(* tmpfiles[i] stays NULL: the destination is removed by the second loop.  *)
DeleteLater ==
    /\ At("temp") /\ row \notin skip
    /\ src[row] = Missing
    /\ row \in CanUnlink \ EmptyIfMissing
    /\ NextRow
    /\ UNCHANGED <<src, dst, skip, tmp, old>>

RefuseToDelete ==
    /\ At("temp") /\ row \notin skip
    /\ src[row] = Missing
    /\ row \notin CanUnlink \cup EmptyIfMissing
    /\ Fail("EPERM")

WriteFails ==
    /\ "write" \in Faults
    /\ At("temp") /\ row \notin skip
    /\ src[row] # Missing \/ row \in EmptyIfMissing
    /\ Fail("EIO")

StartRenaming ==
    /\ ret = "running" /\ phase = "temp" /\ row \notin Rows
    /\ phase' = "rename"
    /\ row' = 1
    /\ UNCHANGED <<src, dst, skip, tmp, ret, old>>

Rename ==
    /\ At("rename") /\ row \notin skip
    /\ tmp[row] # Missing
    /\ dst' = [dst EXCEPT ![row] = tmp[row]]
    /\ tmp' = [tmp EXCEPT ![row] = Missing]
    /\ NextRow
    /\ UNCHANGED <<src, skip, old>>

RenameFails ==
    /\ "rename" \in Faults
    /\ At("rename") /\ row \notin skip
    /\ tmp[row] # Missing
    /\ Fail("EIO")

(* The result of unlink() is not looked at.                                *)
Remove ==
    /\ At("rename") /\ row \notin skip
    /\ tmp[row] = Missing
    /\ \/ dst' = [dst EXCEPT ![row] = Missing]
       \/ "unlink" \in Faults /\ UNCHANGED dst
    /\ NextRow
    /\ UNCHANGED <<src, skip, tmp, old>>

Return ==
    /\ ret = "running" /\ phase = "rename" /\ row \notin Rows
    /\ ret' = "EOK"
    /\ UNCHANGED <<src, dst, skip, tmp, row, phase, old>>

Crash ==
    /\ "crash" \in Faults
    /\ ret = "running"
    /\ ret' = "crashed"
    /\ UNCHANGED <<src, dst, skip, tmp, row, phase, old>>

Step ==
    \/ SkipRow
    \/ WriteTemp \/ WriteEmptyTemp \/ DeleteLater
    \/ RefuseToDelete \/ WriteFails
    \/ StartRenaming
    \/ Rename \/ RenameFails \/ Remove
    \/ Return

Next == Step \/ Crash

Spec == Init /\ [][Next]_vars

-----------------------------------------------------------------------------

(* The content each destination shall have: the source's, an empty file,   *)
(* no file at all, or, for a row that is skipped, what it had.             *)
Wanted ==
    [r \in Rows |->
        IF r \in skip THEN old[r]
        ELSE IF src[r] # Missing THEN src[r]
        ELSE IF r \in EmptyIfMissing THEN Empty
        ELSE IF r \in CanUnlink THEN Missing
        ELSE old[r]]

Outcome ==
    CASE ret = "running" -> "running"
      [] ret = "EOK"     -> "complete"
      [] ret \in {"EPERM", "EIO"} /\ phase = "temp" -> "refused"
      [] OTHER           -> "partial"

Abstract == INSTANCE AtomicReplace
    WITH before <- old, wanted <- Wanted, files <- dst, outcome <- Outcome, Gone <- Missing

(* The types of the variables.                                             *)
TypeOK ==
    /\ src \in [Rows -> Values]
    /\ dst \in [Rows -> Values]
    /\ skip \in SUBSET Rows
    /\ tmp \in [Rows -> Values]
    /\ row \in 1..(N + 1)
    /\ phase \in {"temp", "rename"}
    /\ ret \in {"running", "EOK", "EPERM", "EIO", "crashed"}
    /\ old \in [Rows -> Values]

(* An error while the temporary files are prepared (disk full, unreadable  *)
(* source, a source that must exist and does not) returns with every       *)
(* destination as it was: "so we can safely fail on error without          *)
(* overwriting destination files" (selinux.c:379).                         *)
SafeFailure == phase = "temp" => dst = old

(* A destination the table does not allow to remove (can_unlink is false)  *)
(* is there at every moment if it was there at the call, whatever fails    *)
(* and wherever the process dies: PAM never misses such a file.            *)
ProtectedStay ==
    \A r \in Rows \ CanUnlink : old[r] # Missing => dst[r] # Missing

(* Whatever the call returns it leaves no temporary file behind, also when *)
(* some of them have already been renamed.                                 *)
NoLitter == ret \in {"EOK", "EPERM", "EIO"} => tmp = NoTemps

(* A row that is skipped is never written or removed, by either loop.      *)
SkippedUntouched == \A r \in skip : dst[r] = old[r] /\ tmp[r] = Missing

(* The destinations only ever change as AtomicReplace allows.              *)
Refinement == Abstract!Spec

(* EOK means that all destinations hold what was asked for: "ensure that   *)
(* the destination is writable and there is enough space to hold the file" *)
(* (selinux.h:83).                                                         *)
SuccessIsComplete == ret = "EOK" => dst = Wanted

=============================================================================
