------------------------------ MODULE Commands -------------------------------
(***************************************************************************)
(* The command authselect as its users run it (src/src/cli/main.c): each   *)
(* command reads its words (CommandLine) and then calls the library one    *)
(* function after the other.  Two commands may run side by side, fail or be*)
(* killed, and the package is updated in between.                          *)
(*                                                                         *)
(* The library is kept coarse: one generated file, one name in /etc and one*)
(* step for a backup stand for the many that Activation, Uninstall and     *)
(* Backup model one by one.                                                *)
(***************************************************************************)
EXTENDS CommandLine

CONSTANTS
    Procs,        \* processes that can run a command
    CommandLines, \* command lines that can be given
    Vocabulary,   \* words of the command lines that are only read
    MaxWords,     \* bound: words of such a command line
    Features,     \* optional features
    Supported,    \* features of the profiles of each version of the package
    Initial,      \* the profile and the features of a system that is configured
    BadRequirements, \* profiles whose file REQUIREMENTS does not parse
    MaxCommands,  \* bound: commands that write started
    MaxBeside,    \* bound: the first of them, that may run side by side
    MaxFaults,    \* bound: failures and crashes
    Link,         \* the name in /etc is a link to the generated file
    Own,          \* a file of other origin
    Garbage,      \* what freed memory may hold
    Unknown,      \* no statement about the configuration
    NoJob         \* no command runs

(* What the words come to, and the free ones.                              *)
Routed == [line \in CommandLines |-> Route(line)]
Free   == [line \in {l \in CommandLines : l.name \in DOMAIN OptionTable}
              |-> Popt(OptionTable[line.name], StripLogging(line.words)).free]

Installed == DOMAIN Supported[0]
Versions  == DOMAIN Supported
Rendered  == [id : Installed, features : SUBSET Features, version : Versions]
Lines     == Seq(Installed \cup Features \cup {""})

(* What the words of a user may name, and what he may wish for.            *)
Typed == (UNION {ToSet(line.words) : line \in CommandLines})
         \cup (IF Default = Absent THEN {} ELSE ToSet(Default))
Goals == [id : Installed \cup Typed, features : SUBSET (Features \cup Typed)]

ASSUME VersionsAssumption == 0 \in Versions /\ Versions \subseteq Nat
(* All versions have the same profiles.                                    *)
ASSUME SupportedAssumption == Supported \in [Versions -> [Installed -> SUBSET Features]]
ASSUME InitialAssumption ==
    /\ Initial[1] \in Installed /\ Tail(Initial) \in Seq(Features) /\ IsInjective(Tail(Initial))
    /\ ToSet(Tail(Initial)) \subseteq Supported[0][Initial[1]]
(* No profile is named like an option, and no line of the configuration is *)
(* empty or looks like a comment.                                          *)
ASSUME NamesAssumption ==
    Installed \cap DashWords = {} /\ (Installed \cup Features) \cap {"", Comment} = {}
ASSUME MarkersAssumption ==
    /\ Link \notin Rendered \cup {Own, Absent} /\ Absent \notin Rendered \cup {Own}
    /\ Absent \notin Versions /\ Absent \notin Lines /\ Garbage \notin Features
    /\ Absent \notin Goals /\ Unknown \notin Goals /\ Absent # Unknown
(* A user other than root cannot write: there are no such opt-outs.        *)
ASSUME LinesAssumption ==
    /\ \A line \in CommandLines :
          line.words \in Seq(STRING) /\ (line.name = "opt-out" => line.root)
    /\ Default = Absent \/ Default \in Seq(STRING)
ASSUME BoundsAssumption ==
    /\ MaxWords \in Nat /\ MaxBeside \in Nat /\ MaxCommands \in Nat /\ MaxFaults \in Nat
    /\ MaxBeside <= MaxCommands

VARIABLES
    (* the disk *)
    conf,     \* lines of /etc/authselect/authselect.conf
    gen,      \* a generated file in /etc/authselect
    name,     \* its name in /etc
    sum,      \* version of the copied checksum
    pkg,      \* version of the installed profiles
    saved,    \* what the newest complete backup holds
    (* the processes *)
    pc,       \* next call of a command, "idle" if none runs
    job,      \* what it works on
    exit,     \* exit status of the command that ended last
    (* bounds and history *)
    started, faults,
    asked,    \* what the last change was to leave, Unknown unless it went well
    overlap   \* two commands have run side by side

disk     == <<conf, gen, name, sum>>
counters == <<started, faults>>
vars     == <<disk, pkg, saved, pc, job, exit, counters, asked, overlap>>

(* What a program that opens the name reads; Absent if the link dangles.   *)
Live     == IF name = Link THEN gen ELSE name
Snapshot == [conf |-> conf, live |-> Live]

(* A system that was never configured, and one that a command has.         *)
Unconfigured ==
    conf = Absent /\ gen = Absent /\ name = Own /\ sum = Absent /\ asked = Absent

Configured(id, features) ==
    /\ conf = ConfigWrite(id, features)
    /\ asked = [id |-> id, features |-> ToSet(features)]
    /\ gen = [id |-> id, features |-> ToSet(features), version |-> 0]
    /\ name = Link /\ sum = 0

Init ==
    /\ Unconfigured \/ Configured(Initial[1], Tail(Initial))
    /\ pkg = 0 /\ saved = Absent
    /\ pc = [p \in Procs |-> "idle"]
    /\ job = [p \in Procs |-> NoJob]
    /\ exit = 0
    /\ started = 0 /\ faults = 0
    /\ overlap = FALSE

-----------------------------------------------------------------------------

(* authselect_profile and authselect_profile_requirements as select,       *)
(* enable-feature and requirements use them: their errors are replaced.    *)
LookUp(id) ==
    CASE id \notin Installed      -> "ENOMEM"
      [] id \in BadRequirements   -> "EFAULT"
      [] OTHER                    -> "EOK"

(* authselect_check_features *)
Check(id, features) == ToSet(features) \subseteq Supported[pkg][id]

(* authselect_validate_configuration, also of a system that was never      *)
(* configured; a link to a file that is missing is no file for access().   *)
LinksRemoved == name = Link => gen = Absent
NothingThere == conf = Absent /\ gen = Absent /\ Live = Absent

Validate ==
    LET config == ConfigRead(conf)
        user   == gen = Absent /\ LinksRemoved
    IN  IF config.errno = "EOK"
        THEN [errno |-> "EOK",
              valid |-> config.id \in Installed /\ gen # Absent /\ name = Link]
        ELSE [errno |-> IF user /\ NothingThere THEN "ENOENT" ELSE "EEXIST", valid |-> user]

IsFeatureEnabled(feature) ==
    LET config == ConfigRead(conf) IN
    IF config.errno # "EOK" THEN config.errno
    ELSE IF HasValue(config.features, feature) THEN "EOK" ELSE "ENOENT"

(* The results of the commands that write nothing.  Not all of them pass on*)
(* what they are told.                                                     *)
CheckConfiguration ==
    CASE ~Validate.valid                               -> "EBADF"
      [] Validate.valid /\ Validate.errno = "ENOENT"   -> "ENODEV"
      [] Validate.valid /\ Validate.errno = "EEXIST"   -> "ENOENT"
      [] OTHER                                         -> "EOK"

Show(given) ==
    IF "preset" \in given.options \/ given.id \in Installed THEN "EOK" ELSE "ENOMEM"

PrintCurrent        == ConfigRead(conf).errno
IsEnabled(given)    == IsFeatureEnabled(given.id)
Requirements(given) == LookUp(given.id)
ListFeatures(given) == IF given.id \in Installed THEN "EOK" ELSE "ENOENT"
Test(given)         == IF given.id \in Installed THEN "EOK" ELSE "ENOENT"

Answer(command, given) ==
    CASE command = "check"              -> CheckConfiguration
      [] command = "current"            -> PrintCurrent
      [] command = "is-feature-enabled" -> IsEnabled(given)
      [] command = "requirements"       -> Requirements(given)
      [] command = "show"               -> Show(given)
      [] command = "test"               -> Test(given)
      [] command = "list-features"      -> ListFeatures(given)
      [] OTHER                          -> "EOK"

(* The calls of the commands that write, up to the one that does.          *)
Select    == <<"profile", "backup", "activate">>
Apply     == <<"backup", "apply">>
Enable    == <<"current", "profile", "backup", "enable">>
Disable   == <<"backup", "disable">>
Uninstall == <<"copy">>

Calls ==
    [command \in NeedRoot |->
        CASE command = "select"          -> Select
          [] command = "apply-changes"   -> Apply
          [] command = "enable-feature"  -> Enable
          [] command = "disable-feature" -> Disable
          [] command = "opt-out"         -> Uninstall]

(* Whether the options ask for a backup.  select: -b, --backup or --force  *)
(* without --nobackup; the others: -b or --backup.                         *)
AsksBackup(options) ==
    \/ options \cap {"backup", "name", "named"} # {}
    \/ "force" \in options /\ "nobackup" \notin options

(* What the user means: the profile and the set of features that the words *)
(* and the configuration before them stand for.                            *)
Meant(line) ==
    LET told    == ToSet(Tail(Free[line])) \ DashWords
        first   == Head(Free[line])
        default == ConfigRead(Default)
        known   == asked \notin {Absent, Unknown}
    IN  CASE line.name = "opt-out" -> Absent
          [] line.name = "select"  ->
                IF first \in PresetWords
                THEN [id |-> default.id, features |-> ToSet(default.features) \cup told]
                ELSE [id |-> first, features |-> told]
          [] line.name = "enable-feature"  /\ known -> [asked EXCEPT !.features = @ \cup {first}]
          [] line.name = "disable-feature" /\ known -> [asked EXCEPT !.features = @ \ {first}]
          [] line.name = "apply-changes"   /\ known ->
                [asked EXCEPT !.features = @ \cap Supported[pkg][asked.id]]
          [] OTHER -> Unknown

-----------------------------------------------------------------------------

At(p, label) == pc[p] = label
Quiet        == \A p \in Procs : At(p, "idle")
Goto(p, label) == pc' = [pc EXCEPT ![p] = label]

(* The command goes on with other values of its variables.                 *)
Go(p, label, j) ==
    /\ Goto(p, label)
    /\ job' = [job EXCEPT ![p] = j]
    /\ UNCHANGED exit

(* It ends.  History: the success of a command that was alone leaves what  *)
(* its user meant.                                                         *)
End(p, errno) ==
    /\ Goto(p, "idle")
    /\ exit' = ExitStatus(errno)
    /\ asked' = IF exit' = 0 /\ job[p].alone THEN job[p].meant
                ELSE IF disk' # disk THEN Unknown ELSE asked
    /\ job' = [job EXCEPT ![p] = NoJob]

(* It has changed the disk and goes on.                                    *)
Write(p, label) ==
    /\ Go(p, label, [job[p] EXCEPT !.wrote = @ \/ disk' # disk])
    /\ asked' = IF disk' # disk THEN Unknown ELSE asked

(* The commands that run are no longer alone.                              *)
Disturbed ==
    [p \in Procs |-> IF At(p, "idle") THEN NoJob ELSE [job[p] EXCEPT !.alone = FALSE]]

NoFault == UNCHANGED counters
Fault   == faults < MaxFaults /\ faults' = faults + 1 /\ UNCHANGED started
Frame   == UNCHANGED <<pkg, overlap>>
Reads   == UNCHANGED <<disk, saved>> /\ NoFault /\ Frame
Writes  == UNCHANGED saved /\ Frame

(* The command goes on to its next call.                                   *)
Following(p) ==
    LET calls == Calls[job[p].line.name]
    IN  Goto(p, calls[1 + SelectInSeq(calls, LAMBDA call : At(p, call))])

-----------------------------------------------------------------------------

(* Broken variants, to show that the properties notice; they are no part   *)
(* of the specification.  A backup that fails is reported and forgotten ...*)
BrokenBackup(p) ==
    /\ At(p, "backup")
    /\ \/ NoFault /\ saved' = IF AsksBackup(job[p].options) THEN Snapshot ELSE saved
       \/ Fault /\ UNCHANGED saved
    /\ Following(p)
    /\ UNCHANGED <<disk, job, exit, asked>> /\ Frame

(* ... a feature to delete is only looked for in the other elements ...    *)
BrokenTrim(p) ==
    /\ At(p, "trim") /\ Reads /\ UNCHANGED asked
    /\ LET j == job[p] IN
       \/ /\ j.at > Len(j.features)
          /\ Go(p, "activate", j)
       \/ /\ j.at <= Len(j.features)
          /\ j.features[j.at] \in Supported[j.version][j.id]
          /\ Go(p, "trim", [j EXCEPT !.at = @ + 1])
       \/ /\ j.at <= Len(j.features)
          /\ j.features[j.at] \notin Supported[j.version][j.id]
          /\ Go(p, "trim", j)

(* ... or opt-out takes the link for a file of the user.                   *)
BrokenCopyName(p) ==
    /\ At(p, "copy")
    /\ UNCHANGED disk
    /\ Write(p, "remove conf")
    /\ NoFault /\ Writes

(* Processes that are idle are alike: it is one of them that begins.       *)
Begin(p) ==
    /\ At(p, "idle") /\ p = CHOOSE q \in Procs : At(q, "idle")
    /\ started < IF Quiet THEN MaxCommands ELSE MaxBeside
    /\ \E line \in CommandLines :
          LET given == Routed[line]
          IN  /\ line.name \in NeedRoot /\ given.errno = "EOK"
              /\ Goto(p, Head(Calls[line.name]))
              /\ job' = [Disturbed EXCEPT ![p] =
                    [line |-> line, id |-> given.id, features |-> given.features,
                     word |-> given.id, options |-> given.options, at |-> 1, version |-> pkg,
                     alone |-> Quiet, wrote |-> FALSE, meant |-> Meant(line),
                     before |-> Snapshot]]
              /\ overlap' = (overlap \/ ~Quiet)
    /\ started' = started + 1
    /\ exit' = 0
    /\ UNCHANGED <<disk, saved, pkg, faults, asked>>

(* A command that is refused for its words, prints its help or only reads. *)
(* requirements and test free an array they have not set when their words  *)
(* cannot be read (main.c:639, 730).                                       *)
Killed == 137

Ask ==
    /\ Quiet
    /\ \E line \in CommandLines :
          LET given == Routed[line] IN
          \/ given.errno # "EOK" /\ exit' = ExitStatus(given.errno)
          \/ given.errno \notin {"EOK", "help"} /\ line.name \in TakesProfile \ {"select"}
             /\ exit' = Killed
          \/ given.errno = "EOK" /\ line.name \notin NeedRoot
             /\ exit' = ExitStatus(Answer(line.name, given))
    /\ UNCHANGED <<pc, job, asked>> /\ Reads

(* enable-feature looks for the configuration before anything else.        *)
Current(p) ==
    /\ At(p, "current") /\ Reads
    /\ LET config == ConfigRead(conf) IN
       \/ config.errno # "EOK" /\ End(p, config.errno)
       \/ config.errno = "EOK" /\ Go(p, "profile", [job[p] EXCEPT !.id = config.id])
          /\ UNCHANGED asked

Profile(p) ==
    /\ At(p, "profile") /\ Reads
    /\ LET errno == LookUp(job[p].id) IN
       \/ errno # "EOK" /\ End(p, errno)
       \/ errno = "EOK" /\ Following(p) /\ UNCHANGED <<job, exit, asked>>

(* perform_backup; a failure ends the command (Fail).                      *)
Backup(p) ==
    /\ At(p, "backup")
    /\ saved' = IF AsksBackup(job[p].options) THEN Snapshot ELSE saved
    /\ Following(p)
    /\ UNCHANGED <<disk, job, exit, asked>> /\ NoFault /\ Frame

(* The library reads the configuration, again for enable-feature; the      *)
(* command works on a copy.                                                *)
Use(p, label, config, features) ==
    /\ Go(p, label, [job[p] EXCEPT !.id = config.id, !.features = features, !.version = pkg])
    /\ UNCHANGED asked

FeatureEnable(p) ==
    /\ At(p, "enable") /\ Reads
    /\ LET config == ConfigRead(conf) IN
       \/ config.errno # "EOK" /\ End(p, config.errno)
       \/ config.errno = "EOK"
          /\ Use(p, "activate", config, AddValue(config.features, job[p].word, TRUE))

FeatureDisable(p) ==
    /\ At(p, "disable") /\ Reads
    /\ LET config == ConfigRead(conf) IN
       \/ config.errno # "EOK" /\ End(p, config.errno)
       \/ config.errno = "EOK"
          /\ Use(p, "activate", config, DelValue(config.features, job[p].word, 0, Garbage))

(* "Installed profiles did not change" is a success.                       *)
ApplyChanges(p) ==
    /\ At(p, "apply") /\ Reads
    /\ LET config   == ConfigRead(conf)
           upToDate == "upgrade" \in job[p].options /\ sum = pkg
       IN  \/ config.errno # "EOK" /\ End(p, config.errno)
           \/ config.errno = "EOK" /\ upToDate /\ End(p, "EOK")
           \/ config.errno = "EOK" /\ ~upToDate /\ config.id \notin Installed /\ End(p, "ENOENT")
           \/ config.errno = "EOK" /\ ~upToDate /\ config.id \in Installed
              /\ Use(p, "trim", config, config.features)

(* The loop of apply-changes over the features (authselect.c:221).  The one*)
(* to delete is named by its own element; after a deletion the index stays.*)
Trim(p) ==
    /\ At(p, "trim") /\ Reads /\ UNCHANGED asked
    /\ LET j == job[p] IN
       \/ /\ j.at > Len(j.features)
          /\ Go(p, "activate", j)
       \/ /\ j.at <= Len(j.features)
          /\ j.features[j.at] \in Supported[j.version][j.id]
          /\ Go(p, "trim", [j EXCEPT !.at = @ + 1])
       \/ /\ j.at <= Len(j.features)
          /\ j.features[j.at] \notin Supported[j.version][j.id]
          /\ \E stale \in {j.features[j.at], Garbage} :
                Go(p, "trim",
                   [j EXCEPT !.features = DelValue(@, j.features[j.at], j.at, stale)])

(* authselect_activate, up to the first write.                             *)
Activate(p) ==
    /\ At(p, "activate") /\ Reads
    /\ LET j      == job[p]
           forced == j.line.name = "select" /\ "force" \in j.options
       IN  CASE j.id \notin Installed -> End(p, "ENOENT")
             [] j.id \in Installed /\ ~Check(j.id, j.features) -> End(p, "EINVAL")
             [] j.id \in Installed /\ Check(j.id, j.features) /\ ~forced
                /\ Validate.errno # "EOK" -> End(p, "EEXIST")
             [] OTHER -> Go(p, "generate", [j EXCEPT !.version = pkg]) /\ UNCHANGED asked

-----------------------------------------------------------------------------

Generate(p) ==
    /\ At(p, "generate")
    /\ gen' = [id |-> job[p].id, features |-> ToSet(job[p].features),
               version |-> job[p].version]
    /\ UNCHANGED <<conf, name, sum>>
    /\ Write(p, "truncate") /\ NoFault /\ Writes

Truncate(p) ==
    /\ At(p, "truncate")
    /\ conf' = <<>>
    /\ UNCHANGED <<gen, name, sum>>
    /\ Write(p, "record") /\ NoFault /\ Writes

Record(p) ==
    /\ At(p, "record")
    /\ conf' = ConfigWrite(job[p].id, job[p].features)
    /\ UNCHANGED <<gen, name, sum>>
    /\ Write(p, "unlink") /\ NoFault /\ Writes

Unlink(p) ==
    /\ At(p, "unlink")
    /\ name' = Absent
    /\ UNCHANGED <<conf, gen, sum>>
    /\ Write(p, "symlink") /\ NoFault /\ Writes

Symlink(p) ==
    /\ At(p, "symlink")
    /\ \/ name = Absent /\ name' = Link /\ UNCHANGED <<conf, gen, sum>>
          /\ Write(p, "checksum")
       \/ name # Absent /\ UNCHANGED disk /\ End(p, "EEXIST")
    /\ NoFault /\ Writes

(* After the update of dconf, which may Fail, the checksum is copied; an   *)
(* error of the copy "is not a fatal error" (activate.c:100).              *)
KeepChecksum(p) ==
    /\ At(p, "checksum")
    /\ \/ sum' = pkg /\ NoFault
       \/ UNCHANGED sum /\ Fault
    /\ UNCHANGED <<conf, gen, name>>
    /\ End(p, "EOK") /\ Writes

(* opt-out: the link becomes a copy, if there is something to copy ...     *)
CopyName(p) ==
    /\ At(p, "copy")
    /\ \/ name = Link /\ gen = Absent /\ UNCHANGED disk /\ End(p, "EPERM")
       \/ /\ name = Link => gen # Absent
          /\ name' = Live
          /\ UNCHANGED <<conf, gen, sum>>
          /\ Write(p, "remove conf")
    /\ NoFault /\ Writes

RemoveConf(p) ==
    /\ At(p, "remove conf")
    /\ conf' = Absent
    /\ UNCHANGED <<gen, name, sum>>
    /\ Write(p, "remove files") /\ NoFault /\ Writes

(* "We can ignore errors here" (system.c:338).                             *)
RemoveFiles(p) ==
    /\ At(p, "remove files")
    /\ \/ gen' = Absent /\ NoFault
       \/ UNCHANGED gen /\ Fault
    /\ UNCHANGED <<conf, name, sum>>
    /\ End(p, "EOK") /\ Writes

Step(p) ==
    \/ Current(p) \/ Profile(p) \/ Backup(p)
    \/ FeatureEnable(p) \/ FeatureDisable(p) \/ ApplyChanges(p) \/ Trim(p) \/ Activate(p)
    \/ Generate(p) \/ Truncate(p) \/ Record(p) \/ Unlink(p) \/ Symlink(p)
    \/ KeepChecksum(p)
    \/ CopyName(p) \/ RemoveConf(p) \/ RemoveFiles(p)

-----------------------------------------------------------------------------

(* A call fails and the command with it.  textfile_write removes the file  *)
(* it could not write, and does not look whether that worked.              *)
Fail(p) ==
    /\ \/ pc[p] \in {"generate", "truncate", "record", "unlink", "symlink", "checksum",
                    "copy", "remove conf"}
       \/ At(p, "backup") /\ AsksBackup(job[p].options)
    /\ conf' \in IF pc[p] \in {"truncate", "record"} THEN {conf, Absent} ELSE {conf}
    /\ UNCHANGED <<gen, name, sum>>
    /\ End(p, "EIO") /\ Fault /\ Writes

(* The process is killed.                                                  *)
Crash(p) ==
    /\ ~At(p, "idle")
    /\ Fault
    /\ Goto(p, "idle")
    /\ job' = [job EXCEPT ![p] = NoJob]
    /\ exit' = Killed
    /\ UNCHANGED <<disk, saved, asked>> /\ Frame

(* A new version of the package with the profiles.                         *)
PackageUpdate ==
    /\ Quiet /\ pkg + 1 \in Versions
    /\ pkg' = pkg + 1
    /\ UNCHANGED <<disk, saved, pc, job, exit, counters, asked, overlap>>

Next ==
    \/ \E p \in Procs : Begin(p) \/ Step(p) \/ Fail(p) \/ Crash(p)
    \/ Ask
    \/ PackageUpdate

Spec == Init /\ [][Next]_vars

(* The operating system lets every process run.                            *)
FairSpec == Spec /\ \A p \in Procs : WF_vars(Step(p))

-----------------------------------------------------------------------------

Labels   == {"idle", "current", "profile", "backup", "enable", "disable", "apply", "trim",
             "activate", "generate", "truncate", "record", "unlink", "symlink", "checksum",
             "copy", "remove conf", "remove files"}
Contents == Rendered \cup {Own, Absent}
Wishes   == Goals \cup {Absent, Unknown}

(* The types of the variables.                                             *)
TypeOK ==
    /\ conf = Absent \/ conf \in Lines
    /\ gen \in Rendered \cup {Absent}
    /\ name \in Contents \cup {Link}
    /\ sum \in Versions \cup {Absent} /\ pkg \in Versions
    /\ saved # Absent => saved.live \in Contents /\ (saved.conf = Absent \/ saved.conf \in Lines)
    /\ pc \in [Procs -> Labels]
    /\ \A p \in Procs : At(p, "idle") => job[p] = NoJob
    /\ \A p \in Procs : ~At(p, "idle") =>
          /\ job[p].line \in CommandLines
          /\ job[p].features \in Seq(Features \cup Typed)
          /\ job[p].meant \in Wishes
    /\ exit \in 0..6 \cup {Killed}
    /\ started \in 0..MaxCommands /\ faults \in 0..MaxFaults
    /\ asked \in Wishes
    /\ overlap \in BOOLEAN

(* "--backup" follows "--", which ends the options only for popt.          *)
BackupAfterEnd(words) ==
    LET ended == SelectInSeq(words, LAMBDA w : w = "--")
    IN  ended # 0 /\ Contains(SubSeq(words, ended, Len(words)), "--backup")

(* popt and the loop of parse_profile_options agree on the features: of any*)
(* words that popt accepts, the loop takes those after the profile, once   *)
(* each, and never a profile, an option or the name of a backup.  (Not if  *)
(* "--backup" follows "--".)  All words are looked at before a command has *)
(* started.                                                                *)
ReadingsAgree ==
    started = 0 => \A words \in BoundedSeq(Vocabulary, MaxWords) :
        LET popt == Popt(OptionTable["select"], words)
        IN  popt.errno = "EOK" /\ popt.free # <<>> /\ Head(popt.free) \notin DashWords
            /\ ~BackupAfterEnd(words)
            => LoopFeatures(words) =
                  Copy(Without(Tail(popt.free), DashWords), TRUE)

(* The words with which a user asks for a backup (main.c:192-194).         *)
Demands(words) ==
    \/ ToSet(words) \cap {"-b", "--backup", "--backup=before"} # {}
    \/ ToSet(words) \cap {"-f", "--force"} # {} /\ "--nobackup" \notin ToSet(words)

(* The words that demand a backup reach the command as options.  (Words    *)
(* after "--" need not: popt takes them for features.)                     *)
WordsAreHeard ==
    \A line \in CommandLines :
        Routed[line].errno = "EOK" /\ line.name \in NeedRoot \ {"opt-out"} /\ Demands(line.words)
            => AsksBackup(Routed[line].options)

(* popt and the loop of parse_profile_options read every select alike.     *)
WordsAreMeant ==
    \A line \in CommandLines : line.name = "select" => ~BackupAfterEnd(line.words)

(* What the manual says of backups (authselect.8.adoc:57-76): with -b,     *)
(* --backup or --force, unless --nobackup is given, nothing is written     *)
(* before the system as it was is saved.                                   *)
ForcedIsSaved ==
    \A p \in Procs :
        ~At(p, "idle") /\ job[p].line.name # "opt-out" /\ Demands(job[p].line.words)
        /\ job[p].alone /\ job[p].wrote
            => saved = job[p].before

(* If no command has run since the last change, the configuration is what  *)
(* the commands that succeeded one after the other add up to, and all that *)
(* is written and answered agrees with it: no feature is lost, left over or*)
(* doubled on the way through words, presets, files and arrays, and after  *)
(* an opt-out nothing belongs to authselect.                               *)
FeaturesAsAsked ==
    Quiet /\ asked # Unknown =>
        IF asked = Absent THEN ConfigRead(conf).errno = "ENOENT" /\ name # Link
        ELSE /\ conf[1] = asked.id /\ ToSet(Tail(conf)) \ {""} = asked.features
             /\ IsInjective(Tail(conf))
             /\ gen.id = asked.id /\ gen.features = asked.features
             /\ name = Link /\ CheckConfiguration = "EOK"
             /\ \A f \in Features :
                   IsFeatureEnabled(f) = IF f \in asked.features THEN "EOK" ELSE "ENOENT"

(* The name in /etc links to a generated file that is missing only after   *)
(* two commands have run side by side (apply-changes recreates the links   *)
(* while opt-out is about to remove the files); no failure or crash of a   *)
(* sequence of commands ever leads there.                                  *)
DanglingNeedsOverlap == ~overlap => ~(name = Link /\ gen = Absent)

(* Every command ends, with its loop over features that it deletes from.   *)
CommandsEnd == \A p \in Procs : ~At(p, "idle") ~> At(p, "idle")

(* "To print help for the selected command run authselect COMMAND --help"  *)
(* (authselect.8.adoc:49): a command with a word for help changes nothing. *)
HelpChangesNothing ==
    \A p \in Procs :
        ~At(p, "idle") /\ ToSet(job[p].line.words) \cap HelpWords # {} => ~job[p].wrote

=============================================================================
