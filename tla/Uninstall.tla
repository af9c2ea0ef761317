------------------------------ MODULE Uninstall ------------------------------
(***************************************************************************)
(* authselect opt-out (authselect_uninstall, src/src/lib/authselect.c:136).*)
(* The links to generated files become files of their own, then            *)
(* authselect.conf and the generated files are removed.  The command may   *)
(* fail or die at any system call and may be started again at any time.    *)
(* The copy is the component SafeCopy with the generated files for sources *)
(* and the names in /etc for destinations.                                 *)
(***************************************************************************)
EXTENDS Naturals

CONSTANTS
    N,        \* number of generated files, and of names in /etc
    Texts,    \* contents of files
    Link,     \* the name is a link to its generated file
    Missing,  \* there is no file of that name
    Faults    \* failures of the environment

Rows   == 1..N
Values == Texts \cup {Missing}

(* "stat", "conf" and "unlink" are errors of lstat/readlink, of unlinking  *)
(* authselect.conf and of unlinking a generated file; the others are those *)
(* of SafeCopy.                                                            *)
AllFaults == {"stat", "conf", "unlink", "write", "rename", "crash"}

ASSUME RowsAssumption    == N \in Nat
ASSUME ValuesAssumption  == Link \notin Values /\ Missing \notin Texts
ASSUME FaultsAssumption  == Faults \subseteq AllFaults

VARIABLES
    conf,    \* whether there is an authselect.conf
    gen,     \* the generated files
    sys,     \* the names in /etc: a link, a file of another origin, or nothing
    stage,   \* where the command is
    ret,     \* its result
    skip, tmp, row, phase, copied, old,  \* the locals of SafeCopy, see there
    first    \* history: what was read under each name at the beginning

copy == <<skip, tmp, row, phase, copied, old>>
vars == <<conf, gen, sys, stage, ret, copy, first>>

C == INSTANCE SafeCopy
    WITH Contents <- Texts \cup {Link}, Empty <- Link, Short <- Link,
         CanUnlink <- {}, EmptyIfMissing <- {},
         Faults <- Faults \cap {"write", "rename"},
         src <- gen, dst <- sys, ret <- copied

(* What a program that opens the name reads.                               *)
Readable == [r \in Rows |-> IF sys[r] = Link THEN gen[r] ELSE sys[r]]

Init ==
    /\ conf \in BOOLEAN
    /\ gen \in [Rows -> Values]
    /\ sys \in [Rows -> Values \cup {Link}]
    /\ stage = "idle" /\ ret = "none"
    /\ skip = {} /\ tmp = C!NoTemps /\ row = 1 /\ phase = "temp"
    /\ copied = "EOK" /\ old = sys
    /\ first = Readable

-----------------------------------------------------------------------------

End(errno) == stage' = "idle" /\ ret' = errno

(* Broken variants, to show that the properties notice; they are no part   *)
(* of the specification.  A link is taken for a file of the user ...       *)
BrokenCheckLink ==
    /\ stage = "check" /\ row \in Rows
    /\ skip' = IF sys[row] = Link /\ row > 1 THEN skip ELSE skip \cup {row}
    /\ row' = row + 1
    /\ UNCHANGED <<conf, gen, sys, stage, ret, tmp, phase, copied, old, first>>

(* ... an error of the copy is not looked at, only its refusal ...         *)
BrokenCopy ==
    /\ stage = "copy"
    /\ C!Step
    /\ CASE copied' = "running" -> UNCHANGED <<stage, ret>>
         [] copied' = "EPERM"   -> End(copied')
         [] OTHER               -> stage' = "conf" /\ UNCHANGED ret
    /\ UNCHANGED <<conf, gen, first>>

(* ... a file is stepped over ...                                          *)
BrokenRemoveFile ==
    /\ stage = "files" /\ row \in Rows
    /\ gen' = [gen EXCEPT ![row] = Missing]
    /\ row' = row + 2
    /\ UNCHANGED <<conf, sys, stage, ret, skip, tmp, phase, copied, old, first>>

(* ... or authselect.conf goes first.                                      *)
BrokenStart ==
    /\ stage = "idle"
    /\ stage' = "check" /\ ret' = "running"
    /\ skip' = {} /\ row' = 1
    /\ conf' = FALSE
    /\ UNCHANGED <<gen, sys, tmp, phase, copied, old, first>>

Start ==
    /\ stage = "idle"
    /\ stage' = "check" /\ ret' = "running"
    /\ skip' = {} /\ row' = 1
    /\ UNCHANGED <<conf, gen, sys, tmp, phase, copied, old, first>>

(* file_does_not_link_to: what is not a link to the generated file is not  *)
(* authselect's and is left alone.                                         *)
CheckLink ==
    /\ stage = "check" /\ row \in Rows
    /\ skip' = IF sys[row] = Link THEN skip ELSE skip \cup {row}
    /\ row' = row + 1
    /\ UNCHANGED <<conf, gen, sys, stage, ret, tmp, phase, copied, old, first>>

CheckFails ==
    /\ stage = "check" /\ row \in Rows
    /\ "stat" \in Faults
    /\ End("EIO")
    /\ UNCHANGED <<conf, gen, sys, copy, first>>

StartCopy ==
    /\ stage = "check" /\ row \notin Rows
    /\ stage' = "copy"
    /\ tmp' = C!NoTemps /\ row' = 1 /\ phase' = "temp"
    /\ copied' = "running" /\ old' = sys
    /\ UNCHANGED <<conf, gen, sys, ret, skip, first>>

Copy ==
    /\ stage = "copy"
    /\ C!Step
    /\ CASE copied' = "running" -> UNCHANGED <<stage, ret>>
         [] copied' = "EOK"     -> stage' = "conf" /\ UNCHANGED ret
         [] OTHER               -> End(copied')
    /\ UNCHANGED <<conf, gen, first>>

RemoveConf ==
    /\ stage = "conf"
    /\ \/ conf' = FALSE /\ stage' = "files" /\ row' = 1 /\ UNCHANGED ret
       \/ "conf" \in Faults /\ conf /\ End("EIO") /\ UNCHANGED <<conf, row>>
    /\ UNCHANGED <<gen, sys, skip, tmp, phase, copied, old, first>>

(* "We can ignore errors here" (system.c:338).                             *)
RemoveFile ==
    /\ stage = "files" /\ row \in Rows
    /\ \/ gen' = [gen EXCEPT ![row] = Missing]
       \/ "unlink" \in Faults /\ UNCHANGED gen
    /\ row' = row + 1
    /\ UNCHANGED <<conf, sys, stage, ret, skip, tmp, phase, copied, old, first>>

Return ==
    /\ stage = "files" /\ row \notin Rows
    /\ End("EOK")
    /\ UNCHANGED <<conf, gen, sys, copy, first>>

Crash ==
    /\ stage # "idle"
    /\ "crash" \in Faults
    /\ End("crashed")
    /\ UNCHANGED <<conf, gen, sys, copy, first>>

Step ==
    \/ CheckLink \/ CheckFails \/ StartCopy \/ Copy
    \/ RemoveConf \/ RemoveFile \/ Return

Next == Start \/ Step \/ Crash

Spec == Init /\ [][Next]_vars

-----------------------------------------------------------------------------

(* The types of the variables.                                             *)
TypeOK ==
    /\ conf \in BOOLEAN
    /\ gen \in [Rows -> Values]
    /\ sys \in [Rows -> Values \cup {Link}]
    /\ stage \in {"idle", "check", "copy", "conf", "files"}
    /\ ret \in {"none", "running", "crashed", "EOK", "EPERM", "EIO"}
    /\ skip \subseteq Rows
    /\ tmp \in [Rows -> Values]
    /\ row \in 1..(N + 1)
    /\ phase \in {"temp", "rename"}
    /\ copied \in {"running", "EOK", "EPERM", "EIO"}
    /\ old \in [Rows -> Values \cup {Link}]
    /\ first \in [Rows -> Values]

(* What PAM and NSS read under each name is the same before, at every      *)
(* moment of and after any number of opt-outs, complete, failed or killed: *)
(* "If this fail, the uninstallation must fail to avoid breaking the       *)
(* system by removing PAM files" (authselect.spec.in:250).                 *)
NothingChangesForReaders == Readable = first

(* A successful opt-out leaves nothing that depends on authselect: no      *)
(* configuration and no name that links to a generated file, also after    *)
(* earlier attempts that ended half way.                                   *)
SuccessMeansOut == ret = "EOK" => ~conf /\ \A r \in Rows : sys[r] # Link

(* authselect.conf, by which the other commands recognise an authselect    *)
(* system, goes only when no name is a link any more, so that an opt-out   *)
(* that dies can be repeated and "check" reports it until then.            *)
ConfLeavesAfterLinks == [][conf' # conf => \A r \in Rows : sys[r] # Link]_vars

(* An attempt that failed or died never makes a later one refuse: only     *)
(* generated files that were missing from the start do.                    *)
CanBeRepeated == (\A r \in Rows : first[r] # Missing) => ret # "EPERM"

=============================================================================
