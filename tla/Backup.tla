------------------------------- MODULE Backup --------------------------------
(***************************************************************************)
(* Backups of the configuration (src/src/lib/authselect_backup.c): taken   *)
(* under a name of the user or a fresh one, removed, and restored, between *)
(* commands that change the configuration.  Backup and restore go file by  *)
(* file and can fail or die at any of them.  One command runs at a time.   *)
(*                                                                         *)
(* A restore prepares all its temporary files in one step: that this part  *)
(* changes nothing else and refuses as a whole is what SafeCopy shows, and *)
(* so is what becomes of data that fclose() loses.                         *)
(***************************************************************************)
EXTENDS Naturals, FiniteSets

CONSTANTS
    Names,       \* names of backups
    N,           \* number of generated files, and of names in /etc
    Protected,   \* rows that a restore may not remove (system-auth, postlogin)
    Switchable,  \* the row that older backups lack (switchable-auth)
    Configs,     \* what authselect can be configured to
    Own,         \* content of a file that is not authselect's
    Torn,        \* content of a file that was copied in part
    Empty,       \* content of an empty file
    Link,        \* the name is a link to the generated file
    Missing,     \* there is no file of that name
    MaxOps,      \* bound: commands and edits
    MaxFaults    \* bound: errors and crashes

Rows  == 1..N
Texts == Configs \cup {Own, Torn, Empty}

ASSUME RowsAssumption   == N \in Nat /\ Protected \subseteq Rows /\ Switchable \in Rows \ Protected
ASSUME BoundsAssumption == MaxOps \in Nat /\ MaxFaults \in Nat
ASSUME ValuesAssumption == /\ Missing \notin Texts /\ Link \notin Texts \cup {Missing}
                           /\ {Own, Torn, Empty} \cap Configs = {}

VARIABLES
    conf, gen, sys,  \* authselect.conf, the generated files, the names in /etc
    saved,           \* what the directory of each backup holds
    pc, name, row,   \* where the running command is, its backup, its loop counter
    kind,            \* what it does: a backup, or a restore of one of two kinds
    new,             \* its temporary files
    ret,             \* result of the last command
    ops, faults,     \* bounds
    note             \* history: the configuration each backup was taken of

system == <<conf, gen, sys>>
locals == <<name, kind, row, new>>
vars   == <<system, saved, pc, locals, ret, ops, faults, note>>

Nothing == [conf |-> Missing, files |-> [r \in Rows |-> Missing]]
NoNote  == [conf |-> Missing, files |-> [r \in Rows |-> Missing],
            fresh |-> TRUE, done |-> FALSE]

(* What a program that opens the name reads, and what file_copy copies.    *)
Readable == [r \in Rows |-> IF sys[r] = Link THEN gen[r] ELSE sys[r]]

(* authselect_validate_configuration.  A torn authselect.conf, one without *)
(* its only line, names no profile.                                        *)
Valid == conf \in Configs /\ \A r \in Rows : sys[r] = Link /\ gen[r] # Missing

Init ==
    /\ conf = Missing
    /\ gen = [r \in Rows |-> Missing]
    /\ sys \in {s \in [Rows -> {Own, Missing}] : \A r \in Protected : s[r] = Own}
    /\ saved = [n \in Names |-> Nothing]
    /\ pc = "idle" /\ name \in Names /\ kind = "backup" /\ row = 1
    /\ new = Nothing
    /\ ret = "none"
    /\ ops = 0 /\ faults = 0
    /\ note = [n \in Names |-> NoNote]

-----------------------------------------------------------------------------

Begin(l) ==
    /\ pc = "idle" /\ ops < MaxOps
    /\ ops' = ops + 1
    /\ pc' = l
    /\ UNCHANGED faults

At(l) == pc = l /\ UNCHANGED ops

Goto(l) == pc' = l /\ UNCHANGED <<ret, faults>>

Return(errno) == pc' = "idle" /\ ret' = errno

Fault ==
    /\ faults < MaxFaults
    /\ faults' = faults + 1
    /\ \E errno \in {"EIO", "crashed"} : Return(errno)

(* What other commands and programs make of the configuration meanwhile;   *)
(* see Activation and Uninstall.                                           *)
Activate(config) ==
    /\ Begin("idle")
    /\ conf' = config
    /\ gen' = [r \in Rows |-> config]
    /\ sys' = [r \in Rows |-> Link]
    /\ ret' = "none"
    /\ UNCHANGED <<saved, locals, note>>

OptOut ==
    /\ Begin("idle")
    /\ \A r \in Rows : Readable[r] # Missing \/ sys[r] # Link
    /\ conf' = Missing
    /\ gen' = [r \in Rows |-> Missing]
    /\ sys' = Readable
    /\ ret' = "none"
    /\ UNCHANGED <<saved, locals, note>>

Edit(r) ==
    /\ Begin("idle")
    /\ sys' = [sys EXCEPT ![r] = IF r \in Protected THEN Own ELSE Missing]
    /\ sys' # sys
    /\ ret' = "none"
    /\ UNCHANGED <<conf, gen, saved, locals, note>>

-----------------------------------------------------------------------------

(* Broken variants, to show that the properties notice; they are no part   *)
(* of the specification.  An invalid configuration is saved as one of      *)
(* authselect ...                                                          *)
BrokenStartBackup(n) ==
    /\ Begin(IF conf # Missing THEN "save conf" ELSE "save")
    /\ name' = n /\ kind' = "backup" /\ row' = 1 /\ ret' = "running"
    /\ note' = [note EXCEPT ![n] =
                   [conf |-> IF Valid THEN conf ELSE Missing, files |-> Readable,
                    fresh |-> saved[n] = Nothing, done |-> FALSE]]
    /\ UNCHANGED <<system, saved, new>>

(* ... the generated file is saved instead of what the name stands for ... *)
BrokenSaveFile ==
    /\ At("save") /\ row \in Rows
    /\ saved' = [saved EXCEPT ![name].files[row] = gen[row]]
    /\ row' = row + 1
    /\ Goto("save")
    /\ UNCHANGED <<system, name, kind, new, note>>

(* ... protected files are removed like any other ...                      *)
BrokenRefuse ==
    /\ kind = "authselect"
    /\ \E r \in Rows \ {Switchable} : saved[name].files[r] = Missing

(* ... a row is stepped over ...                                           *)
BrokenRestoreFile ==
    /\ At("restore") /\ row \in Rows
    /\ IF kind = "authselect"
       THEN gen' = [gen EXCEPT ![row] = new.files[row]] /\ UNCHANGED sys
       ELSE sys' = [sys EXCEPT ![row] = new.files[row]] /\ UNCHANGED gen
    /\ row' = row + 2
    /\ Goto("restore")
    /\ UNCHANGED <<conf, saved, name, kind, new, note>>

(* ... or the links are made first.                                        *)
BrokenStartRestore(n) ==
    /\ Begin("prepare")
    /\ name' = n /\ row' = 1 /\ ret' = "running"
    /\ kind' = IF saved[n].conf # Missing THEN "authselect" ELSE "system"
    /\ sys' = IF kind' = "authselect" THEN [r \in Rows |-> Link] ELSE sys
    /\ UNCHANGED <<conf, gen, saved, new, note>>

(* The directory is created, or one that is there is used as it is.  A     *)
(* name that was not given is a fresh one (mkdtemp).                       *)
StartBackup(n) ==
    /\ Begin(IF Valid THEN "save conf" ELSE "save")
    /\ name' = n /\ kind' = "backup" /\ row' = 1 /\ ret' = "running"
    /\ note' = [note EXCEPT ![n] =
                   [conf |-> IF Valid THEN conf ELSE Missing, files |-> Readable,
                    fresh |-> saved[n] = Nothing, done |-> FALSE]]
    /\ UNCHANGED <<system, saved, new>>

SaveConf ==
    /\ At("save conf")
    /\ saved' = [saved EXCEPT ![name].conf = conf]
    /\ Goto("save")
    /\ UNCHANGED <<system, locals, note>>

(* What does not exist is not copied, and what the directory holds of an   *)
(* earlier backup under that name stays.                                   *)
SaveFile ==
    /\ At("save") /\ row \in Rows
    /\ saved' = IF Readable[row] = Missing THEN saved
                ELSE [saved EXCEPT ![name].files[row] = Readable[row]]
    /\ row' = row + 1
    /\ Goto("save")
    /\ UNCHANGED <<system, name, kind, new, note>>

SaveFails ==
    /\ \/ At("save conf")
       \/ At("save") /\ row \in Rows
    /\ Fault
    /\ \/ UNCHANGED saved
       \/ pc = "save conf" /\ saved' = [saved EXCEPT ![name].conf = Torn]
       \/ pc = "save" /\ Readable[row] # Missing
          /\ saved' = [saved EXCEPT ![name].files[row] = Torn]
    /\ UNCHANGED <<system, locals, note>>

SaveDone ==
    /\ At("save") /\ row \notin Rows
    /\ Return("EOK")
    /\ note' = [note EXCEPT ![name].done = TRUE]
    /\ UNCHANGED <<system, saved, locals, faults>>

(* dir_remove unlinks the files in the order of the directory.             *)
RemoveBackup(n) ==
    /\ Begin("idle")
    /\ saved' = [saved EXCEPT ![n] = Nothing]
    /\ note' = [note EXCEPT ![n] = NoNote]
    /\ ret' = "none"
    /\ UNCHANGED <<system, locals>>

RemoveFails(n) ==
    /\ pc = "idle" /\ ops < MaxOps /\ ops' = ops + 1
    /\ Fault
    /\ \E rows \in SUBSET Rows, c \in {saved[n].conf, Missing} :
          saved' = [saved EXCEPT ![n] =
                       [conf  |-> c,
                        files |-> [r \in Rows |-> IF r \in rows THEN Missing ELSE @.files[r]]]]
    /\ note' = [note EXCEPT ![n].done = FALSE]
    /\ UNCHANGED <<system, locals>>

-----------------------------------------------------------------------------

(* A backup with an authselect.conf is one of authselect.                  *)
StartRestore(n) ==
    /\ Begin("prepare")
    /\ name' = n /\ row' = 1 /\ ret' = "running"
    /\ kind' = IF saved[n].conf # Missing THEN "authselect" ELSE "system"
    /\ UNCHANGED <<system, saved, new, note>>

Refuse ==
    \E r \in Rows :
        /\ saved[name].files[r] = Missing
        /\ r \in IF kind = "authselect" THEN Rows \ {Switchable} ELSE Protected

Prepare ==
    /\ At("prepare")
    /\ IF Refuse
       THEN Return("EPERM") /\ UNCHANGED <<new, faults>>
       ELSE /\ Goto("restore conf")
            /\ new' = [conf  |-> saved[name].conf,
                       files |-> [r \in Rows |->
                           IF kind = "authselect" /\ saved[name].files[r] = Missing
                           THEN Empty ELSE saved[name].files[r]]]
    /\ UNCHANGED <<system, saved, name, kind, row, note>>

(* A removal that fails (the result of unlink() is not looked at).         *)
Unnoticed(removed) ==
    /\ removed = Missing /\ faults < MaxFaults
    /\ faults' = faults + 1
    /\ pc' = "restore" /\ UNCHANGED ret

RestoreConf ==
    /\ At("restore conf")
    /\ \/ conf' = new.conf /\ Goto("restore")
       \/ Unnoticed(new.conf) /\ UNCHANGED conf
    /\ UNCHANGED <<gen, sys, saved, locals, note>>

RestoreFile ==
    /\ At("restore") /\ row \in Rows
    /\ \/ /\ Goto("restore")
          /\ \/ kind = "authselect" /\ gen' = [gen EXCEPT ![row] = new.files[row]] /\ UNCHANGED sys
             \/ kind = "system" /\ sys' = [sys EXCEPT ![row] = new.files[row]] /\ UNCHANGED gen
       \/ Unnoticed(new.files[row]) /\ UNCHANGED <<gen, sys>>
    /\ row' = row + 1
    /\ UNCHANGED <<conf, saved, name, kind, new, note>>

FilesRestored ==
    /\ At("restore") /\ row \notin Rows
    /\ IF kind = "authselect"
       THEN Goto("unlink") /\ row' = 1
       ELSE Return("EOK") /\ UNCHANGED <<row, faults>>
    /\ UNCHANGED <<system, saved, name, kind, new, note>>

(* authselect_symlinks_write                                               *)
Unlink ==
    /\ At("unlink") /\ row \in Rows
    /\ sys' = [sys EXCEPT ![row] = Missing]
    /\ Goto("symlink")
    /\ UNCHANGED <<conf, gen, saved, locals, note>>

Symlink ==
    /\ At("symlink")
    /\ sys' = [sys EXCEPT ![row] = Link]
    /\ row' = row + 1
    /\ Goto("unlink")
    /\ UNCHANGED <<conf, gen, saved, name, kind, new, note>>

(* dconf update follows, which can fail like any other step.               *)
Linked ==
    /\ At("unlink") /\ row \notin Rows
    /\ Return("EOK")
    /\ UNCHANGED <<system, saved, locals, faults, note>>

RestoreFails ==
    /\ pc \in {"prepare", "restore conf", "restore", "unlink", "symlink"}
    /\ Fault
    /\ UNCHANGED <<system, saved, locals, ops, note>>

Next ==
    \/ \E config \in Configs : Activate(config)
    \/ OptOut
    \/ \E r \in Rows : Edit(r)
    \/ \E n \in Names : StartBackup(n) \/ RemoveBackup(n) \/ RemoveFails(n) \/ StartRestore(n)
    \/ SaveConf \/ SaveFile \/ SaveFails \/ SaveDone
    \/ Prepare \/ RestoreConf \/ RestoreFile \/ FilesRestored
    \/ Unlink \/ Symlink \/ Linked \/ RestoreFails

Spec == Init /\ [][Next]_vars

-----------------------------------------------------------------------------

Dirs == [conf : Configs \cup {Missing, Torn}, files : [Rows -> Texts \cup {Missing}]]

(* The types of the variables.                                             *)
TypeOK ==
    /\ conf \in Configs \cup {Missing, Torn}
    /\ gen \in [Rows -> Texts \cup {Missing}]
    /\ sys \in [Rows -> Texts \cup {Missing, Link}]
    /\ saved \in [Names -> Dirs]
    /\ pc \in {"idle", "save conf", "save", "prepare", "restore conf", "restore",
               "unlink", "symlink"}
    /\ name \in Names /\ row \in 1..(N + 1)
    /\ kind \in {"backup", "authselect", "system"}
    /\ new \in Dirs
    /\ ret \in {"none", "running", "EOK", "EPERM", "EIO", "crashed"}
    /\ ops \in 0..MaxOps /\ faults \in 0..MaxFaults
    /\ \A n \in Names : [conf |-> note[n].conf, files |-> note[n].files] \in Dirs

(* A name never links to a generated file that is missing, whatever backup *)
(* is restored (a complete one, an interrupted one, one in part removed)   *)
(* and wherever the restore fails or dies.                                 *)
NoDangling == \A r \in Rows : sys[r] = Link => gen[r] # Missing

(* A protected file goes missing only for the moment in which a link takes *)
(* its place: a backup that lacks it never takes it away, whatever the     *)
(* backup is and whatever fails.  "It is not safe to delete" (selinux.c:399). *)
ProtectedStay ==
    [][\A r \in Protected :
          Readable[r] # Missing /\ Readable'[r] = Missing
          => pc' = "symlink" /\ row' = r]_vars

GivenBack(n) ==
    /\ note[n].conf \in {conf} \cup (IF faults > 0 THEN {Missing} ELSE {})
    /\ \A r \in Rows :
          note[n].files[r] \in {Readable[r]} \cup (IF faults > 0 THEN {Missing} ELSE {})

(* The last command was a successful restore of a completed backup.        *)
Restored == pc = "idle" /\ ret = "EOK" /\ kind # "backup" /\ note[name].done

(* A successful restore of a backup taken under a new name makes the       *)
(* configuration, and what is read under every name, what it was when the  *)
(* backup was taken, whatever happened to the system in between; only a    *)
(* file that did not exist may now be there, when its removal failed.      *)
RestoreGivesBack == Restored /\ note[name].fresh => GivenBack(name)

(* ... and it is never refused, provided the protected files were there:   *)
(* a configuration that is broken in any way is saved as one that can be   *)
(* put back.                                                               *)
CompleteIsRestorable ==
    ret = "EPERM" /\ note[name].done /\ note[name].fresh
    => \E r \in Protected : note[name].files[r] = Missing

=============================================================================
