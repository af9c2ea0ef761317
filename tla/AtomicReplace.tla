---------------------------- MODULE AtomicReplace ----------------------------
(***************************************************************************)
(* What a caller of selinux_copy_files_safely (src/src/lib/util/selinux.h) *)
(* is promised about the destination files: each one changes at most once, *)
(* from what it held to what is wanted for it, with nothing in between to  *)
(* be seen; an error found while preparing leaves all of them as they were.*)
(* Only a crash, or an error of rename itself, may leave the work half     *)
(* done, and then still file by file.  Removing a file is best effort: it  *)
(* is allowed ("can_unlink"), not promised.                                *)
(*                                                                         *)
(* SafeCopy.tla is shown to implement this specification.                  *)
(***************************************************************************)

CONSTANTS
    Rows,      \* the files to replace
    Values,    \* what a file name can stand for
    Gone       \* the value for "no such file"

VARIABLES
    before,    \* what the files held when the operation started
    wanted,    \* what they shall hold when it is complete
    files,     \* what they hold now
    outcome    \* "running" or how it ended

vars == <<before, wanted, files, outcome>>

Init ==
    /\ before \in [Rows -> Values]
    /\ wanted \in [Rows -> Values]
    /\ files = before
    /\ outcome = "running"

Replace(r) ==
    /\ outcome = "running"
    /\ files' = [files EXCEPT ![r] = wanted[r]]
    /\ UNCHANGED <<before, wanted, outcome>>

Complete ==
    /\ outcome = "running"
    /\ \A r \in Rows : wanted[r] # Gone => files[r] = wanted[r]
    /\ outcome' = "complete"
    /\ UNCHANGED <<before, wanted, files>>

Refuse ==
    /\ outcome = "running"
    /\ files = before
    /\ outcome' = "refused"
    /\ UNCHANGED <<before, wanted, files>>

Interrupt ==
    /\ outcome = "running"
    /\ outcome' = "partial"
    /\ UNCHANGED <<before, wanted, files>>

Next ==
    \/ \E r \in Rows : Replace(r)
    \/ Complete
    \/ Refuse
    \/ Interrupt

Spec == Init /\ [][Next]_vars

=============================================================================
