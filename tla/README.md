# A TLA+ model of authselect

authselect chooses how a Linux system authenticates its users: from a *profile*
(a directory of templates) and a set of *features* it generates the PAM, NSS and
dconf files in `/etc/authselect` and makes the names the system reads
(`/etc/pam.d/system-auth`, `/etc/nsswitch.conf`, ...) symbolic links to them.
A mistake locks everybody out, so what this project is about is what these names
stand for at every moment: while a command runs, when it fails or is killed at
any system call, when others run at the same time, and after any sequence of
commands.

Paths below are relative to the repository; library sources are in `src/lib`.

## 1. The system

authselect is a library (`libauthselect`) with a command-line tool on top. There
is no daemon and no lock: each command is a process that reads and writes files.

| component | state (files) | operations that change it |
|---|---|---|
| safe copy (`util/selinux.c`, `util/file.c`) | a table of source and destination files, temporary files next to the destinations | `selinux_copy_files_safely` |
| activation (`authselect.c`, `profiles/activate.c`, `files/*.c`) | `authselect.conf`, the generated files, the links, the copied checksum of the profiles | `select`, `apply-changes`, `enable-feature`, `disable-feature` |
| opt-out (`authselect.c`, `files/symlinks.c`, `files/system.c`) | the same | `opt-out` (in %preun of the package: `rpm/authselect.spec.in`) |
| backup (`authselect_backup.c`) | directories under `/var/lib/authselect/backups`, and the configuration | `backup`, `backup-restore`, `backup-remove` |
| custom profiles (`authselect_profile.c`) | profile directories | `create-profile` |
| profile lookup (`profiles/*.c`) | none (reads) | - |
| template engine, evaluator (`util/template.c`, `util/evaluator.c`) | none (text to text) | - |
| check, current, queries | none (reads) | - |
| command line (`src/cli/main.c`, `cli_tool.c`, `presets.c`) | none (the words of a command) | makes of words a command, a profile, features and options, and calls the above in a fixed order |
| arrays of strings, configuration files (`util/string_array.c`, `util/config.c`) | none (values) | - |
| package scripts, systemd unit | none | call `apply-changes`, `opt-out`; replace the profiles |

They meet only on the disk. Opt-out and restore use the safe copy; activation and
restore write the links with `authselect_symlinks_write`; activation and
`check` read `authselect.conf`; package updates replace templates and their
checksum while commands may run. A select with `--force` first takes a backup. Features go a long
way: words of a command line (read twice), presets, arrays, `authselect.conf`
and back.

What is hard about them:

* **crashes and failures** at every system call. There is no journal: whatever is
  on the disk when a process dies is what PAM reads and what the next command finds.
* **interleaving**: `apply-changes --upgrade` runs from package scripts and at
  boot (`systemd/authselect-apply-changes.service`), the administrator runs others.
* **sequences of legal commands** over states that earlier failures left: a backup
  of an invalid configuration, an opt-out that died and is repeated.
* **unnoticed errors**: results of `fclose()` and `unlink()` that are not looked at.
* **stale reads**: the templates are read at the start, their checksum at the end.
* **the same words read twice**: popt finds the profile, a loop of its own the
  features, and each has to know which options take a value.

What makes the components correct:

* safe copy: an error before the first rename changes nothing; files that may not
  be removed are never missing; no litter.
* activation: links never dangle; a successful command leaves exactly its profile
  on the disk, whatever was there before; a refusal comes before the first file is
  written; a matching checksum means that the files are current; every command ends.
* opt-out: what is read under each name never changes; success leaves nothing of
  authselect behind; a failed attempt can be repeated.
* backup: a restore gives back what was saved; a backup of a broken configuration
  can be restored; an incomplete backup does no harm.
* custom profiles: a creation that fails takes away what it made and nothing else.
* template engine, evaluator: text is kept or dropped as the expressions say.
* command line: the two readings agree; what is configured is what the commands
  that succeeded add up to; nothing is written before a backup that was asked for;
  a question changes nothing.

## 2. The modules

| module | models | composed with |
|---|---|---|
| `AtomicReplace` | abstract: what callers of the safe copy are promised | - |
| `SafeCopy` | `selinux_copy_files_safely`, one loop iteration per action | implements `AtomicReplace` |
| `SafeCopyProofs` | proofs about `SafeCopy` | |
| `Activation` | the four activating commands as processes | |
| `MCActivation` | instances of it for TLC | |
| `ActivationProofs` | proofs about `Activation`: types, links, one command alone | |
| `Uninstall` | opt-out | instantiates `SafeCopy` for its copy |
| `UninstallProofs` | proofs about `Uninstall` | |
| `Backup` | backup, remove, restore among other commands | |
| `BackupProofs` | proofs about `Backup` | |
| `Evaluator` | the evaluator of feature expressions, token by token, and a reference definition of expressions | driven by `Template` |
| `EvaluatorProofs` | proofs about `Evaluator` as `Template` drives it | extends `Template` |
| `Template` | the template engine, operator by operator, and a reference reading of templates | extends `Evaluator` |
| `TemplateProofs` | proofs about `Template` | extends `EvaluatorProofs` |
| `MCTemplate` | the templates and expressions for TLC | |
| `Profiles` | lookup, listing and `create-profile` | |
| `MCProfiles` | the requests for TLC | |
| `ProfilesProofs` | proofs about `Profiles` | |
| `StringArray` | arrays of strings: add, merge, delete | |
| `CommandLine` | what words, presets and configuration files come to | extends `StringArray` |
| `Commands` | the commands as users run them, from the words to the exit status | extends `CommandLine`; activation, opt-out and backup coarsely |
| `MCCommands` | the command lines for TLC | |
| `CommandsProofs` | proofs about `Commands` | |

### SafeCopy

Variables are the locals of the function (`i` is `row`, `tmpfiles` is `tmp`; the
two loops are `phase`) and the files it works on. `WriteTemp`, `WriteEmptyTemp`,
`DeleteLater` and `RefuseToDelete` are the branches of the first loop,
`Rename`, `RenameFails` and `Remove` those of the second, `Fail` is the code at
the label `done`. A temporary file has a random name, so no other process can
meet it. `Faults` selects what the environment may do: errors of the writes,
of `rename`, silent failure of `unlink`, data lost in `fclose()`
("shortwrite"), crash. SELinux contexts are left out: their errors end in the
same places, except that one in `selinux_mkstemp_for` leaves a temporary file behind
(section 6).

### Activation

The disk is `conf`, `gen`, `link`, `dirs`, `sumCopy`; `pkg` is the version of the
installed templates. Each process has the variables of its command, and `pc` names
the next system call another process could see the effect of. One action is the
code up to and including that call, so TLC explores every order of the calls of
the processes. `authselect.conf` is written in two steps because `fopen("w")`
truncates it; each link takes two because `symlink` cannot replace a name.
Every call has its failure and the process may die before any of them.

`CheckLocations` is one row of the loop over the directories of the links. The
loop goes on behind a directory that cannot be written (`writable` is its
`result`), and makes missing ones on its way (`MakeDirectory`), but only those of
dconf: the rows `Dconf`, with `create_path` in `paths.h`. So a command refused with
EACCES for another row, or with ENOMEM for `nsswitch.conf`, may leave directories
behind; `touched` tells directories from files, and `RefusalLeavesFiles` says which
refusal may do what. A system that was never configured starts with or without the
directories of dconf. The missing parents of a directory are made in one step with it.

A rendered file is a record of the profile, features and template version it comes
from; the templates of which an expression does not parse are the constant
`Malformed`. `PackageUpdate` (a new version of the templates and of their
checksum in one step) and `Overwrite` (another program replaces a link) are the
environment.

`UpdateAnytime` lets an update come in the middle of a command, too. The theorems
hold for both values; the runs exclude it, because `FreshWhenUpToDate` is then
false (section 6).

`Render` gives a blank file where the code goes on after a failed
`template_generate`, because `system.c:132` tests the wrong pointer.

### Uninstall

Opt-out from *any* state of the names, links and generated files: the check which
names are links, the copy (`SafeCopy!Step` with the generated files for sources
and the names for destinations), then `authselect.conf`, then the generated
files, whose removal may fail unnoticed. It can be started any number of times.

### Backup

One command runs at a time, over up to `MaxOps` commands. A backup copies
`authselect.conf` (when the configuration is valid) and then each file, straight
into its directory, and may stop in the middle with a torn file; a restore reads
the directory back, and decides by the presence of `authselect.conf` in it
which of two tables to use: the one of authselect (generated files, then links)
or that of a system (the names themselves, with only `system-auth` and
`postlogin` protected). `Activate`, `OptOut` and `Edit` stand for what happens
to the configuration in between; Activation and Uninstall have them in detail.
The preparation of all temporary files is one action, justified by `SafeFailure`
and `NoLitter` of SafeCopy. The variable `note` is history: what the
configuration was when each backup was started.

### Evaluator and Template

`evaluator_state_machine` calls itself for what is in parentheses; `calls` is the
stack of these calls with their locals (`state`, `result`, `negation`,
`operator`). One action reads one token. Besides the tokens of expressions there
are the three ways a text can be none: a word that is no operator, a
character that no token begins with, a lone quotation mark. `Meaning` is the
reference: the values of an expression by its grammar, computed from all ways to
split it, so that it does not resemble the left-to-right machine.

`Template` searches operators from the front (`Match`), runs the evaluator
(`Evaluate`), and carries the operator out on the text in place (`Replace`), with
the string functions as they are: a line is removed from behind the nearest
newline *that is still there*, which may be several lines further up. Items
stand for stretches of bytes that are kept or zeroed together. `Meant` is the
reference, a reading of the template from the top with sets of removed lines.
Regular expressions and trimming are left out.

### Profiles

Up to three directories of one profile name (vendor, default, custom) and
processes that create it. One action per system call; each file is a text, or a
link to the file of another location, or missing. `Opens` follows links, as
`fopen` does. A file that is removed while a process has it open is "gone" for
that process. `Unlink` and `Rmdir` are the code at the label `done`, which is also reached
when the directory existed (then without names of files, `filepaths`).
The last of two writers of the same file wins.

### StringArray, CommandLine and Commands

`StringArray` is `string_array.c` on sequences. `DelValue` has the case in which
the value to delete is an element of the array itself: the function goes on
comparing with what the freed memory holds, which is the parameter `stale`
(`Trim` chooses it). The loops over arrays are folds, so that they can be
reasoned about.

`CommandLine` has no state. A command line is a sequence of words; the words that
begin with a dash are listed (`DashWords`), everything else is a profile, a
feature or a value. `StripLogging`, `Popt` and `LoopFeatures` are the three passes
over them, `OptionTable` holds the tables of the commands, `ConfigRead` and
`ResolvePreset` read a file line by line. Popt is a library; its model is what
`cli_tool_popt_ex` relies on: options anywhere, `--` ends them, an option with a
value takes the next word.

`Commands` composes this with the library. `Select`, `Apply`, `Enable`, `Disable`
and `Uninstall` are the calls each command makes, in order; one action is one
call, or one write of the activation and the opt-out. There is one generated file
and one link, since Activation and Uninstall show how several differ. The
commands that only read are answered by `Ask`, which runs them in every state in
which nothing else does and with every other command line that is refused. The array
of `apply-changes` is walked element by element (`Trim`). `asked` is history: what
the last change was to leave according to its user (`Meant`, computed from the
free words and the previous wish, not from what the model did with them), and
`Unknown` as soon as the disk changes otherwise. `exit` is the exit status, with
`Killed` for a process ended by a signal.

## 3. The runs

| run | question | bounds |
|---|---|---|
| `SafeCopy_calls` | the promises row by row, and the refinement of `AtomicReplace` | 3 rows: an ordinary, a removable, an empty-if-missing one; all contents, all rows skipped or not, all failures but "shortwrite" |
| `SafeCopy_diskfull` (violation) | does EOK mean complete files? | the same, with "shortwrite" |
| `Activation_solo` | sequences of commands of one administrator | every kind of command, 3 commands, 3 files, two of them with directories that may be missing, 3 profiles (one with a malformed nsswitch.conf), 1 feature that the update drops, 2 failures, 1 update, 1 edit |
| `Activation_race` | two processes at once, and that every command ends | 2 processes, 2 commands, 2 files, one with a directory that may be missing, 1 failure or crash, 1 update between commands |
| `Activation_check_content` (violation) | does `check` notice files of another profile? | a crash after the renames |
| `Activation_bad_template` (violation) | does success mean that the templates were processed? | a profile whose PAM templates do not parse |
| `Uninstall_faults` | any number of opt-outs from any state | 3 names, 2 contents, every failure, unbounded faults and attempts |
| `Backup_sequences` | sequences around backup and restore | 6 commands, 2 failures or crashes, 3 files (protected, switchable-auth, ordinary), 2 configurations, 1 name |
| `Template_generate` | are expressions evaluated and templates generated as they are meant? | 2 features, all subsets of them; all sequences of 4 of the 10 tokens, of 5 of the tokens f, and, not and parentheses, over 1000 well-formed expressions of up to 9 tokens; all arrangements of 3 of 15 items, three lines with up to 4 of 6 operators |
| `Profiles_create` | what does create-profile leave, alone and next to another? | 2 creators, 3 files, 1 failure or crash, 8 requests, every location with no, an empty, an incomplete or a complete profile |
| `Commands_session` | do users get what they type? | 9 command lines that write and 14 that do not; 2 side by side and a third afterwards; a system never configured or with 2 features; an update that drops features; 1 failure or crash; for the two readings, all sequences of up to 5 of 9 words |
| `Commands_help` (violation) | does asking for help leave the system alone? | a select, and opt-out with `--help` |

Why the bounds are enough: the loops treat their rows alike but for the
attributes of a row, and each combination of attributes that the tables of the
code have occurs; with three rows there is one before, one at and one after any
failure. Two processes show every pairwise race, and two files let one process
overtake the other in a loop. Two failures let the clean-up of the first be hit by the
second. Two configurations (three profiles) suffice to tell what belongs to
whom. Backups under different names do not share any state, so one name is all
that matters, and six commands hold the longest story told by a hazard: activate,
damage, back up (fails), back up again, damage, restore. The theorems of section
4 need no bounds at all. An expression of five tokens nests one call and
closes it at every state of the machine; three lines have a line to remove behind
one that is gone. Three files of a profile are the mandatory one, the one whose
read errors are tolerated and a template. Two commands side by side show every
pair, and a third finds what they left; five words hold a profile, a feature and an option with a value in
every order, with one word more to go wrong; two features to be removed from a
list of two meet the index that stays behind a deletion.

Activation checks sequences (`Activation_solo`) and interleavings (`Activation_race`) for
different properties: dangling and missing links are a matter of the second (and
the theorem `LinksNeverDangle` is about both). Edits by other programs are left to
Activation and Backup.

**Deadlock** is checked where a system goes on (`Activation` stutters
explicitly in `Finished` once all commands have ended; in `Commands` questions can
always be asked). `SafeCopy` is a call that
returns, `Template` and `Profiles` end, and `Backup` stops when its commands are
used up: there the check is off.

**Fairness**: `WF_vars(Step(p))` for each process `p`: the operating system runs
every process. No fairness is assumed of starts, crashes, updates or edits. That
is enough for `EveryCommandEnds` and `CommandsEnd` because no command waits for
another: there are no locks and no retries. The one loop whose index does not
always advance, over the features of `apply-changes`, ends because each round
removes one.

**What the violations show.** Each finding quotes the text the code departs from.
(1) `file_copy` and `textfile_write` ignore `fclose()`, so a full disk can
truncate a file that then replaces a good one. (2) `check` looks at type and mode of
the generated files only, so a crash between the renames and the new
`authselect.conf` leaves a "valid" configuration whose files are another profile's.
(3) A PAM template that does not parse is written as an empty file with success.
(4) `opt-out` never parses its words: `authselect opt-out --help`
removes the configuration of the system instead of printing help.

## 4. The proofs

TLAPS proves, for every value of the constants that satisfies the modules'
`ASSUME`s, what the table lists: any number of rows, processes, creators,
commands, profiles, versions and failures. Each module has one section per
invariant: it holds initially, every action preserves it, it implies the property.

| module | theorems | what the inductive invariant adds to the properties |
|---|---|---|
| `SafeCopyProofs` | types, `SafeFailure`, `ProtectedStay`, `NoLitter`, `SkippedUntouched`; `SafeCopy` implements `AtomicReplace`; EOK means complete | `IInv`: rows the first loop has passed are `Prepared`, rows the second has not reached still are. Without it, nothing says that a protected file has something to be replaced by |
| `UninstallProofs` | types, `NothingChangesForReaders`, `SuccessMeansOut`, `CanBeRepeated`, `ConfLeavesAfterLinks` | how far each loop is: which names were found to be links, which copies are written, which links are gone. The steps of the copy are those of `SafeCopy`, through its instance |
| `BackupProofs` | types, `NoDangling`, `RestoreGivesBack`, `CompleteIsRestorable`, `ProtectedStay` | three relations: a backup holds what was noted when it began (`ISaved`, and up to the current row `ISaving`); the restore has in hand what the backup holds (`INew`); what is in place up to the current row is what it has in hand |
| `ActivationProofs` | types, `NoDangling`, `SoloActivates`, `RefusalLeavesFiles` | `Guided` ties the place of a process to its command and counter. `Placed`: a command that has found no fault so far is past directories that exist, and past the loop all of them do, whoever made them; so no link fails for want of a directory. `LInv`: past the first loop all temporary files exist, past the second all generated files, and nobody ever removes one. `ISolo` says how much of its work a command that is alone has done at each place |
| `ActivationProofs`, side by side | `FewNamesMissing`, `RaceLinksAll`, `FreshWhenUpToDate` | `Orphans`, names that are missing and that no process will create, number at most the failures; with no failure, a name that is not linked is `Pending` for a process that nobody has overtaken there; `IFresh` carries the version a process has rendered from its read to its rename |
| `EvaluatorProofs` | types, `EvaluatesWellFormed`, `MalformedRefused`, for expressions of any length | `ValueInv`: every value of the expression is `Promised`, that is, each active call has an end, where its parenthesis is closed, and a value it returns there. `ShapeInv`: each call has a start, and what is behind it is an expression once the operand that is missing comes |
| `TemplateProofs` | types, `GeneratesWhatIsMeant`, `UnlistedMakeNoDifference`, for templates of any length | `Shows`: where the search stands, the features and what has become of each item are what the reading of the items before says; an item ahead is erased exactly if its line is gone or the template has ended |
| `ProfilesProofs` | types, `ListedAreFound`, `FailureLeavesNothing`, `SettledStay`, `SuccessIsACopy` | `Shape` ties a creator's variables to its place; `IClean`: the directory of a creator holds only files it has made up to its counter, and nobody else has them open; `ICopy`: what has been copied, what has been read and what the base holds are the same text |
| `CommandsProofs`, one command after the other | `DanglingNeedsOverlap`, the backup before the first write, `ForcedIsSaved` | `DInv`: while no two commands have met, the one that runs finds the generated file as its place wants it; `BInv`: a command before its backup has changed nothing, and one behind it was saved; `OInv`: a command never loses the options it began with |
| `CommandsProofs`, words and files | types, `ReadingsAgree`, `FeaturesAsAsked`, for any number of words and lines | `KInv`: at each place, what a command works on comes from its words or from the disk, and its features have no duplicates where it needs them without. `MInv`: a command that is alone carries what its user meant through its remaining calls (`Means`), first as what is still to be computed, then as what is to be written, then as what is there. `AInv`: while nothing runs, the disk is what was asked for |

The argument about the evaluator has one part more. Its reference definition is a
recursive function on the parts of an expression, and what such a function computes
has to be proved by induction, for which the library's theorems cannot be used (they
take an operator as parameter). `EvaluatorProofs` gets it from the one fact that
every set of naturals has a least element (`LeastNatural`): that the function
satisfies its equation (`ValuesAre`), that values are Booleans (`PartsAreBoolean`),
that whether there is a value does not depend on the features (`ShapesAgree`), and
that every value can be had by reading from left to right (`Splits`), as the
machine does. Reading from left to right is itself defined without recursion: a
set of places and results that is closed under reading one more operand
(`Completes`).

`TemplateProofs` uses the same for the reading of a template (`ReadingIs`), and
rests on one lemma about `string_remove_line`: all of the operator's line is between
the newlines it finds, and everything else between them has been removed before
(`LineRemoved`), although the first newline may be several lines up. That
features nobody names do not matter follows from two readings side by
side (`ReadsAlike`).

`CommandsProofs` begins with folds: the loops over words, lines and arrays are
`FoldLeft`s, which the library defines by a recursive function on sets of positions
that takes the operator as a parameter. Each operator that is folded has a name there
(`Turn`), so that all folds have one equation (`FoldEquation`), and from
`FoldExists` on a fold is what its steps make of it (`FoldAppend`). What holds
after any words is then shown by induction over sequences, with a set in the place
of the predicate (`SeqInduction`). The two readings of a select agree because
popt and the loop know the same after every word (`Agree`): the loop skips a
word exactly when popt waits for the name of a backup. What
`string_array_del_value` leaves (`DelValueIs`) is stated for any string found in the
freed memory; that the value stands in the array only once is what makes it harmless.

**Assumptions** are about constants only and TLC evaluates them in every run: the
bounds are naturals, templates are sequences of items, the markers (`Missing`, `Link`, `Blank`, ...) differ from
contents, the sets of rows are subsets of the rows, the processes of `Activation`
are finitely many, the rows `Dconf` are rows, the files of a profile come in an order without repetition
(`OrderAssumption`: the table of `profiles/read.c`), a version of the package
supports some features of each profile, and the same profiles. The configuration at
the beginning names one of them and features it supports, each once (as
`authselect_config_write` leaves it). No profile is named like an option and no name
is empty or begins like a comment (`NamesAssumption`), because popt and
`string_explode` would not hand it over: with such a name the theorems are wrong and
authselect does not work either.

**Hypotheses** of single theorems, each of them needed:

* `SafeCopyProofs!Implementation` excludes "shortwrite", and
  `SuccessNeedsTwoCalls` also "unlink": without these two, `SafeCopy_diskfull` is
  the counterexample. The theorem says that they are the only ones: were the
  results of `fclose()` and `unlink()` looked at, EOK would mean complete files.
* `RefusalsAreHarmless` is about one process (`Single`): next to others an EEXIST
  may also come from a `symlink` that another process has won, after the files were
  written. `EarlyRefusalsAreHarmless` needs no such thing for the other errors. Both
  say that ENOENT, EAGAIN and EINVAL leave the disk as it is, and that EACCES and
  ENOMEM make nothing but directories.
* `RacersLinkAll` excludes names replaced by other programs (`edits = 0`), which
  `Activation_race` does by its bound; failures are excluded in the property.
* `UpToDateMeansFresh` excludes `UpdateAnytime`: an update in the middle of
  a command is recorded as applied (section 6).
* `FailureLeavesNothing` has the premise `NoContest`. It used to say that nobody
  else creates *this* profile, and for that the proof failed: two other creators
  in contest for the base of this one can write through its links, or remove
  what it is going to read. No run sees this, since it takes three creators.
* `DemandsAreMet` has `WordsAreHeard`: a command line that demands a backup has
  it in the options of the command. `HeardUnlessEnded` proves that from plain words:
  it holds unless somebody types `--`. TLC evaluates it for all command lines of
  `Commands_session` (`WordsAreHeardAssumption` in `MCCommands`).
* `NothingIsLost` has `WordsAreMeant`: no select has a `--backup` behind a `--`, where
  the two readings differ (section 6). `ReadingsAgree` names the same case. TLC
  evaluates it, too (`WordsAreMeantAssumption`).

**Only model-checked** are `EveryCommandEnds` and `CommandsEnd`, which are
liveness properties. Every invariant and every action property that a passing run
checks is also a theorem.


## 5. Not modelled

Messages, SELinux contexts, translations, help texts
and the formatting of lists have no state a property could be about. File owners
and modes are left out: the commands run as root. In Uninstall, Backup, Activation
and Commands a write that reports success has succeeded; what happens otherwise is
`SafeCopy_diskfull`. Backups and restores do not run at the same time as other
commands: nothing in the code prevents it and no document promises anything for
it. Opt-out next to other commands is in Commands, where links may dangle
(`DanglingNeedsOverlap` says that nothing else leads there). In `Commands` the
questions are asked and the package is updated when no command runs; `Activation`
has the updates of a package as one step, rpm replaces files one by one. The words of
`create-profile` and of the backup commands are not read: each hands them to one
function of the library, which Profiles and Backup have.

Failures of memory allocation are left out everywhere.

## 6. Other things noticed

Differences that no run is spent on:

* `man/authselect.8.adoc:84-86` says that `apply-changes` needs a valid
  configuration; `authselect.c:117` logs the changes and overwrites them.
* `rpm/authselect.spec.in:251-252` expects opt-out to fail only on write errors;
  it also refuses with EPERM when a linked generated file is missing
  (`RefuseToDelete`).
* A restore of a system configuration leaves the generated files where they are,
  so that `check` calls the result invalid.
* A rename that fails in `authselect_system_write` leaves its temporary file
  (`files/system.c:193`). So does `selinux_mkstemp_for` when it cannot restore the
  SELinux context: it has made the file, but does not hand its name over
  (`util/selinux.c:142`). `selinux_mkstemp_copy` hands it over, and the file is removed.
* `paths.h:135` says of `create_path` that, if it is false, a missing directory is
  no more than a warning; `files/config.c:96` refuses the activation then, and makes
  the directory if it is true.
* Two first activations side by side can both find the directories of dconf missing.
  `mkdir` of the slower one then fails with EEXIST, and it is refused with EACCES. With
  two directories to make even both can be refused, although each is writable.
* `file_links_to` compares only as many characters as the link has, so a link to a
  prefix of the expected path counts as a link to it.
* `string_array_del_value(features, features[i])` goes on comparing with the
  string it has just freed. Whatever it finds there, `apply-changes` removes
  exactly what it should (`FeaturesAsAsked`, `CommandsEnd`).
* An update of the package during a command is recorded as applied: the checksum
  is copied at the end (`profiles/activate.c:98`) from what is then installed, and
  `apply-changes --upgrade` later sees nothing to do.
* A backup into a name that exists is mixed with the earlier one: files that no
  longer exist stay in it (`authselect_backup.c:45`) and come back with a restore.
* `requirements` and `test` free an array they never set when their words cannot be
  read (`main.c:639`, `730`).
* `select`, `show`, `requirements` and `enable-feature` turn the ENOENT of a
  missing profile into ENOMEM, so that they exit with 1, where
  `man/authselect.8.adoc:326` says 2; `test`, `list-features` and unknown presets
  do exit with 2.
* With links that dangle and no `authselect.conf`, `check` says "No configuration
  detected", since `access()` follows links.
* After an update that drops an enabled feature, `enable-feature` and
  `disable-feature` fail for every other feature until `apply-changes` is run.
* Behind a `--`, the loop for features still takes `--backup` for an option with a
  value, popt does not.
* `string_levenshtein` takes the smallest of three numbers wrongly when the
  first two are equal and smaller (`util/string.c:333`), so the distance of "aba" and
  "bab" is 3. It only picks the words of a hint.
* An expression ends at a character that begins no token: `"a" && "b"` is accepted
  as `"a"`. `(not) "a")` is accepted, too. `MalformedRefused` says that these are
  the only two ways.
* `and` binds no tighter than `or`: `"a" or "b" and "c"` is `("a" or "b") and "c"`.
  The manual is silent about it.
* `create-profile` for an empty directory that exists fails with EEXIST and removes
  the directory (`authselect_profile.c:602`).
* Two creators of one profile that have both passed the existence check can
  write through the links of each other into the base profile, and the
  clean-up of one takes the files of the other. The properties of `Profiles`
  exclude exactly this case (`NoContest`: no two creators make one profile).

## 7. Plan

1. (done) SafeCopy, its abstract specification; Activation; Uninstall; Backup;
   Evaluator, Template, Profiles; StringArray, CommandLine, Commands.
2. (done) Theorems about everything that is not a matter of recursion over data:
   section 4.
3. (done) Theorems about what recurses over data: expressions and templates, the
   words of a command line, the lines of a file, arrays, all of any length.
4. Extensions of the models: the merge of the user's nsswitch.conf (a pure
   function of two lists of lines), an abstract activation ("the configuration is
   one of a sequence of complete ones, or a command is running") implemented by
   `Activation`.
