----------------------------- MODULE CommandLine -----------------------------
(***************************************************************************)
(* What authselect makes of its command line (src/src/cli/cli_tool.c, the  *)
(* option tables and parse_profile_options of main.c, presets.c) and of    *)
(* the lines of a configuration file (src/src/lib/util/config.c): operators*)
(* that return a record with an errno.  A command line is the name of a    *)
(* command, the words that follow it, and whether root gives it.           *)
(*                                                                         *)
(* Profiles and features are read twice from the same words: by popt, whose*)
(* first free word is the profile, and by a loop that looks for the other  *)
(* free words itself.                                                      *)
(***************************************************************************)
EXTENDS StringArray

CONSTANTS
    Absent,     \* there is no such file
    Default     \* lines of the file of the preset @system-default, or Absent

-----------------------------------------------------------------------------

(* Words that set options; "--backup" takes the next word for a value.     *)
BackupWords == {<<"-b", "backup">>, <<"--backup", "name">>, <<"--backup=before", "named">>}
QuietWords  == {<<"-q", "quiet">>, <<"--quiet", "quiet">>}
ForceWords  == {<<"-f", "force">>, <<"--force", "force">>, <<"--nobackup", "nobackup">>}
PrintWords  == {"-a", "-n", "-s", "-p", "-c", "-f", "-w", "-o", "-d", "-l"} \X {"file"}

OptionTable ==
    [c \in {"list", "list-features", "show", "requirements", "check", "is-feature-enabled",
            "select", "apply-changes", "enable-feature", "disable-feature", "current", "test"} |->
        CASE c = "select"          -> BackupWords \cup QuietWords \cup ForceWords
          [] c = "apply-changes"   -> BackupWords \cup {<<"--upgrade", "upgrade">>}
          [] c = "enable-feature"  -> BackupWords \cup QuietWords
          [] c = "disable-feature" -> BackupWords
          [] c = "current"         -> {<<"-r", "raw">>, <<"--raw", "raw">>}
          [] c = "test"            -> PrintWords
          [] OTHER                 -> {}]

(* Commands whose function does not look at the words at all.              *)
Deaf     == {"opt-out", "version"}
Known    == DOMAIN OptionTable \cup Deaf
NeedRoot == {"select", "apply-changes", "enable-feature", "disable-feature", "opt-out"}

(* How many free words a command takes.                                    *)
TakesProfile == {"select", "requirements", "test"}
FreeWords(name) ==
    CASE name \in TakesProfile \cup {"list-features"} -> Nat \ {0}
      [] name \in {"show", "enable-feature", "disable-feature", "is-feature-enabled"} -> {1}
      [] OTHER -> {0}

HelpWords    == {"-?", "--help", "--usage"}
LoggingWords == {"--debug", "--trace", "--warn"}
DashWords    == {entry[1] : entry \in UNION {OptionTable[c] : c \in DOMAIN OptionTable}}
                \cup HelpWords \cup LoggingWords \cup {"-", "--", "--unknown"}
PresetWords  == {"@system-default", "@unknown"}

-----------------------------------------------------------------------------

(* The logging options are taken out first, up to a "--".                  *)
StripLogging(words) ==
    LET Word(s, w) ==
        [rest  |-> s.rest \/ w = "--",
         words |-> IF ~s.rest /\ w \in LoggingWords THEN s.words ELSE Append(s.words, w)]
    IN  FoldLeft(Word, [rest |-> FALSE, words |-> <<>>], words).words

(* popt: options may stand anywhere, "--" ends them, "-" is no option.     *)
Popt(table, words) ==
    LET Meanings(w) == {entry[2] : entry \in {e \in table : e[1] = w}}
        Word(s, w) ==
        CASE s.errno # "EOK"                             -> s
          [] s.errno = "EOK" /\ s.pending                -> [s EXCEPT !.pending = FALSE]
          [] s.errno = "EOK" /\ ~s.pending
             /\ (s.rest \/ w = "-" \/ w \notin DashWords) -> [s EXCEPT !.free = Append(@, w)]
          [] OTHER ->
             CASE w = "--"           -> [s EXCEPT !.rest = TRUE]
               [] w \in HelpWords    -> [s EXCEPT !.errno = "help"]
               [] Meanings(w) # {}   -> [s EXCEPT !.options = @ \cup Meanings(w),
                                                  !.pending = "name" \in Meanings(w)]
               [] OTHER              -> [s EXCEPT !.errno = "EINVAL"]
        start == [errno |-> "EOK", pending |-> FALSE, rest |-> FALSE,
                  options |-> {}, free |-> <<>>]
        end   == FoldLeft(Word, start, words)
    IN  IF end.pending THEN [end EXCEPT !.errno = "EINVAL"] ELSE end

(* A broken variant, to show that ReadingsAgree notices; it is no part of  *)
(* the specification: the name of a backup is not skipped.                 *)
BrokenLoopFeatures(words) ==
    LET Word(s, w) ==
        CASE w \in DashWords                   -> s
          [] w \notin DashWords /\ ~s.profile  -> [s EXCEPT !.profile = TRUE]
          [] w \notin DashWords /\ s.profile   -> [s EXCEPT !.features = AddValue(@, w, TRUE)]
    IN  FoldLeft(Word, [profile |-> FALSE, features |-> <<>>], words).features

(* The loop of parse_profile_options: what it takes for features.          *)
LoopFeatures(words) ==
    LET Word(s, w) ==
        CASE s.skip          -> [s EXCEPT !.skip = FALSE]
          [] w = "--backup" /\ ~s.skip                        -> [s EXCEPT !.skip = TRUE]
          [] w \in DashWords \ {"--backup"} /\ ~s.skip        -> s
          [] w \notin DashWords /\ ~s.skip /\ ~s.profile      -> [s EXCEPT !.profile = TRUE]
          [] w \notin DashWords /\ ~s.skip /\ s.profile       ->
                [s EXCEPT !.features = AddValue(@, w, TRUE)]
    IN  FoldLeft(Word, [skip |-> FALSE, profile |-> FALSE, features |-> <<>>], words).features

-----------------------------------------------------------------------------

(* Blank lines and comments of a file do not count, of the others the first*)
(* is the profile and the rest are features.                               *)
Comment == "# comment"

Explode(lines) == Without(lines, {"", Comment})

ConfigRead(lines) ==
    IF lines = Absent \/ Explode(lines) = <<>> THEN [errno |-> "ENOENT"]
    ELSE [errno    |-> "EOK",
          id       |-> Head(Explode(lines)),
          features |-> Copy(Tail(Explode(lines)), TRUE)]

(* The two parts of the file end with a newline each.                      *)
Implode(features)         == IF features = <<>> THEN <<"">> ELSE features
ConfigWrite(id, features) == <<id>> \o Implode(features)

(* cli_preset_resolve: the features of the preset, then those given.       *)
ResolvePreset(id, features) ==
    LET preset == ConfigRead(IF id = "@system-default" THEN Default ELSE Absent) IN
    IF preset.errno # "EOK" THEN preset
    ELSE [preset EXCEPT !.features = AddAll(Copy(@, TRUE), features, TRUE)]

-----------------------------------------------------------------------------

Given(errno, id, features, options) ==
    [errno |-> errno, id |-> id, features |-> features, options |-> options]

Refusal(errno) == Given(errno, Absent, <<>>, {})

(* The words after the command, read by its function.                      *)
ReadWords(name, words) ==
    LET popt     == Popt(OptionTable[name], words)
        first    == IF popt.free = <<>> THEN Absent ELSE Head(popt.free)
        features == IF name \in TakesProfile THEN LoopFeatures(words) ELSE <<>>
        preset   == ResolvePreset(first, features)
    IN  IF popt.errno # "EOK" THEN Refusal(popt.errno)
        ELSE IF Len(popt.free) \notin FreeWords(name) THEN Refusal("EINVAL")
        ELSE IF name \in TakesProfile \cup {"list-features", "show"} /\ first \in PresetWords
             THEN IF preset.errno # "EOK" THEN Refusal(preset.errno)
                  ELSE Given("EOK", preset.id, preset.features, popt.options \cup {"preset"})
        ELSE Given("EOK", first, features, popt.options)

(* cli_tool_route: a word for help anywhere lifts the need for root.       *)
Route(line) ==
    LET words == StripLogging(line.words) IN
    IF line.name \notin Known THEN Refusal("EINVAL")
    ELSE IF line.name \in NeedRoot /\ ~line.root /\ ToSet(words) \cap HelpWords = {}
         THEN Refusal("EACCES")
    ELSE IF line.name \in Deaf THEN Given("EOK", Absent, <<>>, {})
    ELSE ReadWords(line.name, words)

(* A broken variant: other results are returned as they are (EIO is 5, but *)
(* EINVAL 22).                                                             *)
BrokenExitStatus(errno) ==
    CASE errno \in {"EOK", "help"} -> 0
      [] errno = "ENOENT" -> 2
      [] errno = "EACCES" -> 5
      [] errno = "EEXIST" -> 4
      [] OTHER -> 22

(* The exit status main() makes of a result; "help" is exit(0) by popt.    *)
ExitStatus(errno) ==
    CASE errno \in {"EOK", "help"} -> 0
      [] errno = "ENOENT" -> 2
      [] errno = "EBADF"  -> 3
      [] errno = "EEXIST" -> 4
      [] errno = "EACCES" -> 5
      [] errno = "ENODEV" -> 6
      [] OTHER -> 1

=============================================================================
