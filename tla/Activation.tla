----------------------------- MODULE Activation ------------------------------
(***************************************************************************)
(* The commands that write the system configuration (select, apply-changes,*)
(* enable-feature, disable-feature; src/src/lib/authselect.c and           *)
(* src/src/lib/profiles/activate.c), as processes that run on one disk.    *)
(* authselect takes no lock: the commands of the administrator, of the     *)
(* package scripts and of authselect-apply-changes.service interleave at   *)
(* every system call that another process can see.  One action is the      *)
(* stretch of code between two such calls.                                 *)
(***************************************************************************)
EXTENDS Naturals, FiniteSets

CONSTANTS
    Procs,        \* processes that can run authselect
    N,            \* number of generated files, and of symbolic links to them
    Nsswitch,     \* the row of nsswitch.conf
    Dconf,        \* rows whose directory in /etc is made if it is missing
    Profiles,     \* profile ids
    Features,     \* optional features
    Supported,    \* features that each version of the templates knows
    Malformed,    \* rows of each profile with an expression that does not parse
    Commands,     \* commands that can be started
    MaxVersion,   \* bound: updates of the package that ships the profiles
    MaxCommands,  \* bound: commands started
    MaxFaults,    \* bound: failures
    Faults,       \* failures of the environment, a subset of AllFaults
    UpdateAnytime,\* whether the package can be updated while a command runs
    MaxEdits,     \* bound: files of authselect replaced by other programs
    Absent,       \* there is no file of that name
    Blank         \* a file without content, or with nothing but the preamble

Rows      == 1..N
Versions  == 0..MaxVersion
Configs   == [profile : Profiles, features : SUBSET Features]
Rendered  == [config : Configs, version : Versions] \cup {Blank}
AllFaults == {"error", "crash"}
Changes   == {"directories", "files"}
AllCommands ==
    [op : {"select"}, config : Configs, force : BOOLEAN] \cup
    [op : {"apply"}, upgrade : BOOLEAN] \cup
    [op : {"enable", "disable"}, feature : Features]

ASSUME ProcsAssumption    == IsFiniteSet(Procs)
ASSUME RowsAssumption     == N \in Nat /\ Nsswitch \in Nat
ASSUME DconfAssumption    == Dconf \subseteq Rows
ASSUME CommandsAssumption == Commands \subseteq AllCommands
ASSUME VersionsAssumption == MaxVersion \in Nat /\ Supported \in [Versions -> SUBSET Features]
ASSUME TemplateAssumption == Malformed \in [Profiles -> SUBSET Rows]
ASSUME BoundsAssumption   == MaxCommands \in Nat /\ MaxFaults \in Nat /\ MaxEdits \in Nat
ASSUME FaultsAssumption   == Faults \subseteq AllFaults
ASSUME AbsentAssumption   == Absent \notin Rendered \cup Configs \cup Versions
ASSUME BlankAssumption    == Blank \notin Configs \cup Versions \cup {Absent}
                             /\ Blank \notin [config : Configs, version : Versions]

VARIABLES
    (* the disk *)
    conf,     \* /etc/authselect/authselect.conf
    gen,      \* the generated files in /etc/authselect
    link,     \* the names in /etc that shall be links to them
    dirs,     \* rows whose directory in /etc exists
    pkg,      \* version of the installed templates and of their checksum
    sumCopy,  \* the checksum copied by the last activation
    (* the processes *)
    pc,       \* next system call, "idle" if none runs
    cmd,      \* the command
    want,     \* profile id and features to activate
    tpl,      \* version of the templates that were read
    tmp,      \* temporary files of the command that are on the disk
    row,      \* loop counter
    writable, \* no directory has been found missing or read-only so far
    ret,      \* result of the last command
    (* bounds and history *)
    started, faults, edits,
    touched,  \* what the command has changed on the disk, of Changes
    solo      \* nothing else has happened since the command was started

disk     == <<conf, gen, link, dirs, sumCopy>>
locals   == <<cmd, want, tpl, tmp, row, writable>>
counters == <<started, faults, edits>>
vars     == <<disk, pkg, pc, locals, ret, counters, touched, solo>>

NoTemps == [r \in Rows |-> Absent]

(* What template_generate makes of a template.  It returns NULL for an     *)
(* expression that does not parse, and system.c:132 looks at the wrong     *)
(* pointer: the NULL is written as a file that holds only the preamble.    *)
Render(config, version, r) ==
    IF r \in Malformed[config.profile] THEN Blank
    ELSE [config |-> config, version |-> version]

-----------------------------------------------------------------------------

(* A system on which PAM and NSS are set up by other means, maybe without  *)
(* dconf ("none": a name that has never existed), or by a complete         *)
(* activation of the first version of the templates.                       *)
Unconfigured ==
    /\ conf = Absent
    /\ gen = [r \in Rows |-> Absent]
    /\ dirs \in {Rows, Rows \ Dconf}
    /\ link = [r \in Rows |-> IF r \in dirs THEN "other" ELSE "none"]
    /\ sumCopy = Absent

Configured(config) ==
    /\ config.features \subseteq Supported[0]
    /\ conf = config
    /\ Nsswitch \notin Malformed[config.profile]
    /\ gen = [r \in Rows |-> Render(config, 0, r)]
    /\ dirs = Rows
    /\ link = [r \in Rows |-> "authselect"]
    /\ sumCopy = 0

Init ==
    /\ Unconfigured \/ \E config \in Configs : Configured(config)
    /\ pkg = 0
    /\ pc = [p \in Procs |-> "idle"]
    /\ cmd = [p \in Procs |-> Absent]
    /\ want = [p \in Procs |-> Absent]
    /\ tpl = [p \in Procs |-> 0]
    /\ tmp = [p \in Procs |-> NoTemps]
    /\ row = [p \in Procs |-> 1]
    /\ writable = [p \in Procs |-> TRUE]
    /\ ret = [p \in Procs |-> "none"]
    /\ started = 0 /\ faults = 0 /\ edits = 0
    /\ touched = [p \in Procs |-> {}]
    /\ solo = [p \in Procs |-> FALSE]

-----------------------------------------------------------------------------

At(p, l)   == pc[p] = l
Goto(p, l) == pc' = [pc EXCEPT ![p] = l] /\ UNCHANGED ret
Set(f, p, v) == [f EXCEPT ![p] = v]

(* The command ends; its temporary files have been removed.                *)
End(p, errno) ==
    /\ pc' = [pc EXCEPT ![p] = "idle"]
    /\ ret' = [ret EXCEPT ![p] = errno]

NoFault == UNCHANGED <<started, faults, edits>>

Fault(kind) ==
    /\ kind \in Faults /\ faults < MaxFaults
    /\ faults' = faults + 1
    /\ UNCHANGED <<started, edits>>

DiskKept    == UNCHANGED <<disk, touched>>
Touch(p, what) == touched' = [touched EXCEPT ![p] = @ \cup {what}]
Undisturbed == UNCHANGED <<pkg, solo>>

(* textfile_read and config_read: an empty file has no profile id.         *)
ConfReadable == conf \notin {Absent, Blank}

(* authselect_check_features                                               *)
FeaturesKnown(config, version) == config.features \subseteq Supported[version]

-----------------------------------------------------------------------------

(* Broken variants of the actions below, to show that the properties       *)
(* notice.  They are no part of the specification.                         *)

(* A configuration that cannot be read is used ...                         *)
BrokenReadConf(p) ==
    /\ At(p, "conf")
    /\ want' = Set(want, p, conf)
    /\ Goto(p, IF cmd[p].op # "apply" THEN "profile"
               ELSE IF cmd[p].upgrade THEN "checksum" ELSE "trim")
    /\ DiskKept /\ Undisturbed /\ NoFault
    /\ UNCHANGED <<cmd, tpl, tmp, row, writable>>

(* ... templates read by an earlier command are used again ...             *)
BrokenReadProfile(p) ==
    /\ At(p, "profile")
    /\ IF ~FeaturesKnown(want[p], pkg) THEN End(p, "EINVAL")
       ELSE Goto(p, IF cmd[p].op = "select" /\ cmd[p].force THEN "locations"
                    ELSE "validate")
    /\ DiskKept /\ Undisturbed /\ NoFault
    /\ UNCHANGED locals

(* ... the checksum is copied together with reading the templates ...      *)
BrokenEarlyChecksum(p) ==
    /\ At(p, "profile")
    /\ tpl' = Set(tpl, p, pkg)
    /\ sumCopy' = pkg
    /\ Touch(p, "files")
    /\ IF ~FeaturesKnown(want[p], pkg) THEN End(p, "EINVAL")
       ELSE Goto(p, IF cmd[p].op = "select" /\ cmd[p].force THEN "locations"
                    ELSE "validate")
    /\ Undisturbed /\ NoFault
    /\ UNCHANGED <<conf, gen, link, dirs, cmd, want, tmp, row, writable>>

(* ... a missing directory is left to the code that makes the links ...    *)
BrokenCheckLocations(p) ==
    /\ At(p, "locations")
    /\ IF Nsswitch \in Malformed[want[p].profile] THEN End(p, "ENOMEM")
       ELSE Goto(p, "temp")
    /\ DiskKept /\ Undisturbed /\ NoFault
    /\ UNCHANGED locals

(* ... the temporary files are never renamed ...                           *)
BrokenWriteTemp(p) ==
    /\ At(p, "temp")
    /\ IF row[p] \in Rows
       THEN /\ tmp' = [tmp EXCEPT ![p][row[p]] = Render(want[p], tpl[p], row[p])]
            /\ row' = Set(row, p, row[p] + 1)
            /\ UNCHANGED <<pc, ret>>
       ELSE /\ row' = Set(row, p, 1)
            /\ tmp' = Set(tmp, p, NoTemps)
            /\ Goto(p, "open")
    /\ DiskKept /\ Undisturbed /\ NoFault
    /\ UNCHANGED <<cmd, want, tpl, writable>>

(* ... the loop over the files forgets to count ...                        *)
BrokenLoop(p) ==
    /\ At(p, "temp")
    /\ IF row[p] \in Rows
       THEN /\ tmp' = [tmp EXCEPT ![p][row[p]] = Render(want[p], tpl[p], row[p])]
            /\ UNCHANGED <<pc, ret>>
       ELSE Goto(p, "rename") /\ UNCHANGED tmp
    /\ DiskKept /\ Undisturbed /\ NoFault
    /\ UNCHANGED <<cmd, want, tpl, row, writable>>

(* ... all the names are removed before the first link is made ...         *)
BrokenUnlinkAll(p) ==
    /\ At(p, "unlink")
    /\ IF row[p] \in Rows
       THEN /\ link' = [r \in Rows |-> IF r < row[p] THEN link[r] ELSE "absent"]
            /\ Touch(p, "files") /\ Goto(p, "symlink")
       ELSE /\ Goto(p, "dconf")
            /\ UNCHANGED <<link, touched>>
    /\ Undisturbed /\ NoFault
    /\ UNCHANGED <<conf, gen, dirs, sumCopy, locals>>

(* ... or a link that is in the way is cleaned up.                         *)
BrokenSymlink(p) ==
    /\ At(p, "symlink")
    /\ LET r == row[p] IN
       IF r \in dirs /\ link[r] = "absent"
       THEN /\ link' = [link EXCEPT ![r] = "authselect"]
            /\ row' = Set(row, p, r + 1)
            /\ Goto(p, "unlink")
       ELSE /\ link' = [link EXCEPT ![r] = "absent"]
            /\ End(p, "EEXIST")
            /\ UNCHANGED row
    /\ Touch(p, "files") /\ Undisturbed /\ NoFault
    /\ UNCHANGED <<conf, gen, dirs, sumCopy, cmd, want, tpl, tmp, writable>>

-----------------------------------------------------------------------------

Start(p) ==
    /\ At(p, "idle") /\ started < MaxCommands
    /\ \E c \in Commands :
          /\ cmd' = Set(cmd, p, c)
          /\ want' = Set(want, p, IF c.op = "select" THEN c.config ELSE Absent)
          /\ pc' = Set(pc, p, IF c.op = "select" THEN "profile" ELSE "conf")
    /\ ret' = Set(ret, p, "running")
    /\ row' = Set(row, p, 1)
    /\ writable' = Set(writable, p, TRUE)
    /\ tmp' = Set(tmp, p, NoTemps)
    /\ started' = started + 1
    /\ touched' = Set(touched, p, {})
    /\ solo' = [q \in Procs |-> q = p /\ \A o \in Procs : At(o, "idle")]
    /\ UNCHANGED <<disk, pkg, tpl, faults, edits>>

(* What a command makes of the configuration it reads.                     *)
Asked(command, config) ==
    [profile  |-> config.profile,
     features |-> IF command.op = "enable" THEN config.features \cup {command.feature}
                  ELSE IF command.op = "disable" THEN config.features \ {command.feature}
                  ELSE config.features]

ReadConf(p) ==
    /\ At(p, "conf")
    /\ \/ ~ConfReadable /\ End(p, "ENOENT") /\ UNCHANGED want
       \/ /\ ConfReadable
          /\ want' = Set(want, p, Asked(cmd[p], conf))
          /\ Goto(p, IF cmd[p].op # "apply" THEN "profile"
                     ELSE IF cmd[p].upgrade THEN "checksum" ELSE "trim")
    /\ DiskKept /\ Undisturbed /\ NoFault
    /\ UNCHANGED <<cmd, tpl, tmp, row, writable>>

(* Either checksum may be impossible to read; that no copy of it was made  *)
(* is no error.                                                            *)
CompareChecksum(p) ==
    /\ At(p, "checksum")
    /\ \/ NoFault /\ sumCopy = pkg /\ End(p, "EAGAIN")
       \/ NoFault /\ sumCopy # pkg /\ Goto(p, "trim")
       \/ Fault("error") /\ End(p, "ENOENT")
    /\ DiskKept /\ Undisturbed
    /\ UNCHANGED locals

(* apply-changes reads the profile and drops the features that it no       *)
(* longer supports.                                                        *)
TrimFeatures(p) ==
    /\ At(p, "trim")
    /\ \/ /\ NoFault
          /\ want' = Set(want, p, [profile  |-> want[p].profile,
                                   features |-> want[p].features \cap Supported[pkg]])
          /\ Goto(p, "profile")
       \/ Fault("error") /\ End(p, "ENOENT") /\ UNCHANGED want
    /\ DiskKept /\ Undisturbed
    /\ UNCHANGED <<cmd, tpl, tmp, row, writable>>

(* authselect_activate reads the templates, again for apply-changes, and   *)
(* checks the features against them.                                       *)
ReadProfile(p) ==
    /\ At(p, "profile")
    /\ \/ Fault("error") /\ End(p, "ENOENT") /\ UNCHANGED tpl
       \/ /\ NoFault
          /\ tpl' = Set(tpl, p, pkg)
          /\ IF ~FeaturesKnown(want[p], pkg) THEN End(p, "EINVAL")
             ELSE Goto(p, IF cmd[p].op = "select" /\ cmd[p].force THEN "locations"
                          ELSE "validate")
    /\ DiskKept /\ Undisturbed
    /\ UNCHANGED <<cmd, want, tmp, row, writable>>

(* authselect_validate_configuration: only a configuration file that       *)
(* cannot be read stops the activation.  Changes found in the files are    *)
(* logged and overwritten.                                                 *)
Validate(p) ==
    /\ At(p, "validate")
    /\ IF ConfReadable THEN Goto(p, "locations") ELSE End(p, "EEXIST")
    /\ DiskKept /\ Undisturbed /\ NoFault
    /\ UNCHANGED locals

(* One row of authselect_config_locations_writable, which goes on behind a *)
(* directory that is missing or read-only; an error stands for both.  The  *)
(* directory of authselect.conf is checked with that of the first row.     *)
(* When all are writable the content is generated in memory; nsswitch.c    *)
(* does notice an expression that does not parse.                          *)
CheckLocations(p) ==
    /\ At(p, "locations")
    /\ LET r == row[p] IN
       \/ /\ NoFault /\ r \in Rows
          /\ IF r \in dirs
             THEN row' = Set(row, p, r + 1) /\ UNCHANGED <<pc, ret>>
             ELSE Goto(p, "mkdir") /\ UNCHANGED row
          /\ UNCHANGED writable
       \/ /\ Fault("error") /\ r \in Rows
          /\ writable' = Set(writable, p, FALSE)
          /\ row' = Set(row, p, r + 1)
          /\ UNCHANGED <<pc, ret>>
       \/ /\ NoFault /\ r \notin Rows
          /\ row' = Set(row, p, 1)
          /\ IF ~writable[p] THEN End(p, "EACCES")
             ELSE IF Nsswitch \in Malformed[want[p].profile] THEN End(p, "ENOMEM")
             ELSE Goto(p, "temp")
          /\ UNCHANGED writable
    /\ DiskKept /\ Undisturbed
    /\ UNCHANGED <<cmd, want, tpl, tmp>>

(* file_make_path; the directories above that are missing too are made in  *)
(* the same step, and may be all that is made before an error.  When       *)
(* another command has made the directory since, file_exists notices it in *)
(* time, or mkdir fails.                                                   *)
MakeDirectory(p) ==
    /\ At(p, "mkdir")
    /\ LET r == row[p] IN
       \/ /\ NoFault /\ r \notin dirs
          /\ dirs' = dirs \cup {r}
          /\ Touch(p, "directories")
          /\ UNCHANGED writable
       \/ /\ NoFault /\ r \in dirs
          /\ writable' \in {writable, Set(writable, p, FALSE)}
          /\ UNCHANGED <<dirs, touched>>
       \/ /\ Fault("error")
          /\ writable' = Set(writable, p, FALSE)
          /\ Touch(p, "directories")
          /\ UNCHANGED dirs
    /\ row' = Set(row, p, row[p] + 1)
    /\ Goto(p, "locations") /\ Undisturbed
    /\ UNCHANGED <<conf, gen, link, sumCopy, cmd, want, tpl, tmp>>

WriteTemp(p) ==
    /\ At(p, "temp")
    /\ LET r == row[p] IN
       \/ /\ NoFault /\ r \in Rows
          /\ tmp' = [tmp EXCEPT ![p][r] = Render(want[p], tpl[p], r)]
          /\ row' = Set(row, p, r + 1)
          /\ UNCHANGED <<pc, ret>>
       \/ /\ NoFault /\ r \notin Rows
          /\ row' = Set(row, p, 1)
          /\ Goto(p, "rename")
          /\ UNCHANGED tmp
       \/ /\ Fault("error") /\ r \in Rows
          /\ tmp' = Set(tmp, p, NoTemps)
          /\ End(p, "EIO")
          /\ UNCHANGED row
    /\ DiskKept /\ Undisturbed
    /\ UNCHANGED <<cmd, want, tpl, writable>>

(* A temporary file whose rename fails stays on the disk: its name is      *)
(* forgotten (system.c:194) before the others are removed.                 *)
RenameTemp(p) ==
    /\ At(p, "rename")
    /\ LET r == row[p] IN
       \/ /\ NoFault /\ r \in Rows
          /\ gen' = [gen EXCEPT ![r] = tmp[p][r]]
          /\ tmp' = [tmp EXCEPT ![p][r] = Absent]
          /\ row' = Set(row, p, r + 1)
          /\ Touch(p, "files")
          /\ UNCHANGED <<pc, ret>>
       \/ /\ NoFault /\ r \notin Rows
          /\ row' = Set(row, p, 1)
          /\ Goto(p, "open")
          /\ UNCHANGED <<gen, tmp, touched>>
       \/ /\ Fault("error") /\ r \in Rows
          /\ tmp' = Set(tmp, p, [NoTemps EXCEPT ![r] = tmp[p][r]])
          /\ End(p, "EIO")
          /\ UNCHANGED <<gen, row, touched>>
    /\ Undisturbed
    /\ UNCHANGED <<conf, link, dirs, sumCopy, cmd, want, tpl, writable>>

(* textfile_write(authselect.conf): fopen truncates the file, the content  *)
(* comes with fclose.  After an error the file is unlinked, also if fopen  *)
(* has failed; the result of unlink is not looked at.                      *)
OpenConf(p) ==
    /\ At(p, "open")
    /\ \/ NoFault /\ conf' = Blank /\ Goto(p, "write")
       \/ Fault("error") /\ conf' \in {conf, Absent} /\ End(p, "EIO")
    /\ Touch(p, "files") /\ Undisturbed
    /\ UNCHANGED <<gen, link, dirs, sumCopy, locals>>

WriteConf(p) ==
    /\ At(p, "write")
    /\ \/ NoFault /\ conf' = want[p] /\ Goto(p, "unlink")
       \/ Fault("error") /\ conf' \in {Blank, Absent} /\ End(p, "EIO")
    /\ Touch(p, "files") /\ Undisturbed
    /\ UNCHANGED <<gen, link, dirs, sumCopy, locals>>

(* symlinks_write: each name is removed, if there is one, and then created *)
(* as a link.                                                              *)
Unlink(p) ==
    /\ At(p, "unlink")
    /\ LET r == row[p] IN
       \/ /\ NoFault /\ r \in Rows
          /\ link' = [link EXCEPT ![r] = "absent"]
          /\ Touch(p, "files") /\ Goto(p, "symlink")
       \/ /\ NoFault /\ r \notin Rows
          /\ Goto(p, "dconf")
          /\ UNCHANGED <<link, touched>>
       \/ /\ Fault("error") /\ r \in Rows
          /\ End(p, "EIO")
          /\ UNCHANGED <<link, touched>>
    /\ Undisturbed
    /\ UNCHANGED <<conf, gen, dirs, sumCopy, locals>>

Symlink(p) ==
    /\ At(p, "symlink")
    /\ LET r == row[p] IN
       \/ /\ NoFault /\ r \in dirs /\ link[r] = "absent"
          /\ link' = [link EXCEPT ![r] = "authselect"]
          /\ row' = Set(row, p, r + 1)
          /\ Touch(p, "files") /\ Goto(p, "unlink")
       \/ /\ NoFault /\ (r \in dirs => link[r] # "absent")
          /\ End(p, IF r \in dirs THEN "EEXIST" ELSE "ENOENT")
          /\ UNCHANGED <<link, row, touched>>
       \/ /\ Fault("error")
          /\ End(p, "EIO")
          /\ UNCHANGED <<link, row, touched>>
    /\ Undisturbed
    /\ UNCHANGED <<conf, gen, dirs, sumCopy, cmd, want, tpl, tmp, writable>>

(* "dconf update" is an external program; that it is missing is no error.  *)
UpdateDconf(p) ==
    /\ At(p, "dconf")
    /\ \/ NoFault /\ Goto(p, "checksum copy")
       \/ Fault("error") /\ End(p, "EIO")
    /\ DiskKept /\ Undisturbed
    /\ UNCHANGED locals

(* The checksum of the installed profiles is copied; an error is a warning.*)
CopyChecksum(p) ==
    /\ At(p, "checksum copy")
    /\ \/ NoFault /\ sumCopy' = pkg
       \/ Fault("error") /\ sumCopy' \in {sumCopy, Blank}
    /\ End(p, "EOK")
    /\ Touch(p, "files") /\ Undisturbed
    /\ UNCHANGED <<conf, gen, link, dirs, locals>>

Step(p) ==
    \/ ReadConf(p) \/ CompareChecksum(p) \/ TrimFeatures(p)
    \/ ReadProfile(p) \/ Validate(p)
    \/ CheckLocations(p) \/ MakeDirectory(p)
    \/ WriteTemp(p) \/ RenameTemp(p)
    \/ OpenConf(p) \/ WriteConf(p)
    \/ Unlink(p) \/ Symlink(p)
    \/ UpdateDconf(p) \/ CopyChecksum(p)

(* The process dies (a signal, a power cut); the disk stays as it is, with *)
(* a copied checksum that may have been truncated and not yet written.     *)
Crash(p) ==
    /\ ~At(p, "idle")
    /\ Fault("crash")
    /\ End(p, "crashed")
    /\ \/ UNCHANGED sumCopy
       \/ At(p, "checksum copy") /\ sumCopy' = Blank
    /\ Undisturbed
    /\ UNCHANGED <<conf, gen, link, dirs, touched, locals>>

Quiet == \A p \in Procs : At(p, "idle")

(* A new version of the package: templates and their checksum.             *)
PackageUpdate ==
    /\ pkg < MaxVersion
    /\ UpdateAnytime \/ Quiet
    /\ pkg' = pkg + 1
    /\ solo' = [p \in Procs |-> FALSE]
    /\ UNCHANGED <<disk, pc, locals, ret, counters, touched>>

(* Another program puts a file of its own in the place of a link.          *)
Overwrite(r) ==
    /\ edits < MaxEdits
    /\ Quiet
    /\ link[r] = "authselect"
    /\ link' = [link EXCEPT ![r] = "other"]
    /\ edits' = edits + 1
    /\ solo' = [p \in Procs |-> FALSE]
    /\ UNCHANGED <<conf, gen, dirs, sumCopy, pkg, pc, locals, ret, started, faults, touched>>

(* All the commands there may be have ended.                               *)
Finished ==
    /\ Quiet /\ started = MaxCommands
    /\ UNCHANGED vars

Next ==
    \/ \E p \in Procs : Start(p) \/ Step(p) \/ Crash(p)
    \/ PackageUpdate
    \/ \E r \in Rows : Overwrite(r)
    \/ Finished

Spec == Init /\ [][Next]_vars

(* The operating system lets every process run.                            *)
FairSpec == Spec /\ \A p \in Procs : WF_vars(Step(p))

-----------------------------------------------------------------------------

Labels == {"idle", "conf", "checksum", "trim", "profile", "validate", "locations",
           "mkdir", "temp", "rename", "open", "write", "unlink", "symlink", "dconf",
           "checksum copy"}
Errnos == {"none", "running", "crashed", "EOK", "ENOENT", "EAGAIN", "EINVAL",
           "EEXIST", "EACCES", "ENOMEM", "EIO"}

(* The types of the variables; past reading authselect.conf a command has  *)
(* a profile and features, also when that file was unreadable.             *)
TypeOK ==
    /\ conf \in Configs \cup {Absent, Blank}
    /\ gen \in [Rows -> Rendered \cup {Absent}]
    /\ link \in [Rows -> {"authselect", "other", "absent", "none"}]
    /\ dirs \subseteq Rows
    /\ pkg \in Versions
    /\ sumCopy \in Versions \cup {Absent, Blank}
    /\ pc \in [Procs -> Labels]
    /\ cmd \in [Procs -> Commands \cup {Absent}]
    /\ want \in [Procs -> Configs \cup {Absent}]
    /\ tpl \in [Procs -> Versions]
    /\ tmp \in [Procs -> [Rows -> Rendered \cup {Absent}]]
    /\ row \in [Procs -> 1..(N + 1)]
    /\ ret \in [Procs -> Errnos]
    /\ started \in Nat /\ faults \in Nat /\ edits \in Nat
    /\ writable \in [Procs -> BOOLEAN]
    /\ touched \in [Procs -> SUBSET Changes]
    /\ solo \in [Procs -> BOOLEAN]
    /\ \A p \in Procs : pc[p] \notin {"idle", "conf"} => want[p] \in Configs

(* A name in /etc never links to a generated file that does not exist, not *)
(* while commands run side by side and not after any crash: the links come *)
(* last (activate.c:69-86), so PAM reads a whole file or misses the name.  *)
NoDangling == \A r \in Rows : link[r] = "authselect" => gen[r] # Absent

(* A command that reports success and had the system to itself leaves the  *)
(* files, the configuration and the links of the profile it was asked for, *)
(* whatever crashes, failures, races and updates have left before it.      *)
SoloActivates ==
    \A p \in Procs :
        At(p, "idle") /\ ret[p] = "EOK" /\ solo[p] =>
            /\ conf = want[p]
            /\ \A r \in Rows : gen[r] = Render(want[p], pkg, r)
            /\ \A r \in Rows : link[r] = "authselect"

(* When only one command runs at a time, a refusal comes before the first  *)
(* file is written: the checks know of everything that the writing needs,  *)
(* the directories of the links included.  No configuration, an unknown    *)
(* profile or feature, not configured by authselect and nothing to do      *)
(* change nothing at all; a read-only directory and a malformed            *)
(* nsswitch.conf may leave directories made for dconf (config.c:88).       *)
RefusalLeavesFiles ==
    \A p \in Procs :
        /\ ret[p] \in {"ENOENT", "EAGAIN", "EINVAL", "EEXIST"} => touched[p] = {}
        /\ ret[p] \in {"EACCES", "ENOMEM"} => touched[p] \subseteq {"directories"}

(* At most one name in /etc is missing for each process that is between    *)
(* unlink and symlink (symlinks.c:44-58) or was stopped there: a log-in    *)
(* meets one missing PAM service at a time, and a crash leaves one.        *)
FewNamesMissing ==
    Cardinality({r \in Rows : link[r] = "absent"})
        <= Cardinality({p \in Procs : At(p, "symlink")}) + faults

(* If the copied checksum is that of the installed profiles, on which      *)
(* apply-changes --upgrade answers that no action is needed, the generated *)
(* files come from these profiles.                                         *)
FreshWhenUpToDate ==
    sumCopy = pkg =>
        \A r \in Rows : gen[r] \notin {Absent, Blank} => gen[r].version = pkg

(* Commands that race for the links leave all of them in place, the losers *)
(* that end with EEXIST included (nothing else having failed).             *)
RaceLinksAll ==
    Quiet /\ faults = 0 /\ (\E p \in Procs : "files" \in touched[p]) =>
        \A r \in Rows : link[r] = "authselect"

(* Every command ends, also when it races with others.                     *)
EveryCommandEnds == \A p \in Procs : ~At(p, "idle") ~> At(p, "idle")

-----------------------------------------------------------------------------

(* What "authselect check" finds valid (config.c:109): the generated files *)
(* are there and the links point to them.                                  *)
Valid ==
    /\ ConfReadable
    /\ Nsswitch \notin Malformed[conf.profile]
    /\ \A r \in Rows : gen[r] # Absent /\ link[r] = "authselect"

(* "Check that generated files exist and have proper content"              *)
(* (config.c:124): a valid configuration is the one authselect.conf names. *)
ValidMeansRendered ==
    Valid => \A r \in Rows : gen[r] # Blank /\ gen[r].config = conf

(* Success of authselect_system_generate ("EOK on success, other errno     *)
(* code on failure", files.h:158) means that the templates were processed. *)
SuccessMeansRendered ==
    \A p \in Procs :
        At(p, "idle") /\ ret[p] = "EOK" /\ solo[p] => \A r \in Rows : gen[r] # Blank

=============================================================================
