-------------------------- MODULE ActivationProofs ---------------------------
(***************************************************************************)
(* Proofs about Activation, for any number of processes, files, profiles,  *)
(* features, versions and failures: the types, that no name links to a     *)
(* generated file that does not exist, what a command that had the system  *)
(* to itself has done when it succeeds, that a refusal comes before the    *)
(* first file is written; then, for commands that run side by side, what the names in /etc are    *)
(* when some of them lose, fail or die, and what the copied checksum says  *)
(* of the generated files.                                                 *)
(***************************************************************************)
EXTENDS Activation, TLAPS, FiniteSetTheorems, FunctionTheorems

USE DEF At, Set

Reading == {"conf", "checksum", "trim", "profile", "validate"}
Before  == Reading \cup {"locations", "mkdir"}

(* What the types rest on: where a command is says what it is and which    *)
(* values its loop counter can have.                                       *)
Guided ==
    \A p \in Procs :
        /\ pc[p] = "conf" => cmd[p] \in Commands /\ cmd[p].op # "select"
        /\ pc[p] \in {"mkdir", "symlink"} => row[p] \in Rows

TInv == TypeOK /\ Guided

-----------------------------------------------------------------------------

(* A rendered file is none of the values that stand for no file.           *)
LEMMA RenderType ==
    ASSUME NEW config \in Configs, NEW version \in Versions, NEW r \in Rows
    PROVE  Render(config, version, r) \in Rendered /\ Render(config, version, r) # Absent
BY AbsentAssumption DEF Render, Rendered

(* The configuration a command asks for is one, if it has read one.        *)
LEMMA AskedType ==
    ASSUME NEW c \in Commands, c.op # "select", NEW config \in Configs
    PROVE  Asked(c, config) \in Configs
<1>1. c \in AllCommands
  BY CommandsAssumption
<1>2. c.op \in {"enable", "disable"} => c.feature \in Features
  BY <1>1 DEF AllCommands
<1>3. config.profile \in Profiles /\ config.features \in SUBSET Features
  BY DEF Configs
<1>. QED  BY <1>2, <1>3 DEF Asked, Configs

LEMMA TypeInit == Init => TInv
<1>. SUFFICES ASSUME Init PROVE TInv
  OBVIOUS
<1>1. 0 \in Versions /\ 1 \in 1..(N + 1)
  BY RowsAssumption, VersionsAssumption DEF Versions
<1>2. conf \in Configs \cup {Absent, Blank} /\ gen \in [Rows -> Rendered \cup {Absent}]
      /\ link \in [Rows -> {"authselect", "other", "absent", "none"}] /\ dirs \subseteq Rows
      /\ sumCopy \in Versions \cup {Absent, Blank}
  BY <1>1, RenderType DEF Init, Unconfigured, Configured
<1>3. TypeOK
  BY <1>1, <1>2 DEF Init, TypeOK, NoTemps, Labels, Errnos
<1>4. Guided
  BY DEF Init, Guided
<1>. QED  BY <1>3, <1>4 DEF TInv

LEMMA TypeStep ==
    ASSUME TInv, NEW p \in Procs, Step(p)
    PROVE  TInv'
<1>. USE DEF TInv, Undisturbed, NoFault, Goto, End, DiskKept, Touch, locals, disk
<1>a. row[p] \in 1..(N + 1) /\ pc[p] \in Labels /\ cmd[p] \in Commands \cup {Absent}
      /\ want[p] \in Configs \cup {Absent} /\ tpl[p] \in Versions
      /\ (pc[p] \notin {"idle", "conf"} => want[p] \in Configs)
  BY DEF TypeOK
<1>b. \A k : Fault(k) => started' = started /\ edits' = edits /\ faults' \in Nat
  BY DEF Fault, TypeOK
<1>c. \A r \in Rows : r + 1 \in 1..(N + 1)
  BY RowsAssumption DEF Rows
<1>d. 1 \in 1..(N + 1)
  BY RowsAssumption
<1>e. \A what \in Changes : Touch(p, what) => touched' \in [Procs -> SUBSET Changes]
  BY DEF TypeOK
<1>f. {"files", "directories"} \subseteq Changes
  BY DEF Changes
<1>1. CASE ReadConf(p)
  <2>1. want' \in [Procs -> Configs \cup {Absent}]
        /\ (pc'[p] \notin {"idle", "conf"} => want'[p] \in Configs)
    BY <1>1, AskedType DEF ReadConf, TypeOK, Guided, ConfReadable
  <2>2. TypeOK'
    BY <1>1, <2>1 DEF ReadConf, TypeOK, Labels, Errnos
  <2>3. Guided'
    BY <1>1 DEF ReadConf, Guided, TypeOK
  <2>. QED  BY <2>2, <2>3
<1>2. CASE CompareChecksum(p)
  <2>1. TypeOK'
    BY <1>2, <1>b DEF CompareChecksum, TypeOK, Labels, Errnos
  <2>2. Guided'
    BY <1>2 DEF CompareChecksum, Guided, TypeOK
  <2>. QED  BY <2>1, <2>2
<1>3. CASE TrimFeatures(p)
  <2>1. want' \in [Procs -> Configs \cup {Absent}] /\ want'[p] \in Configs
    <3>1. want[p] \in Configs /\ want \in [Procs -> Configs \cup {Absent}]
      BY <1>3, <1>a DEF TrimFeatures, TypeOK
    <3>2. [profile |-> want[p].profile, features |-> want[p].features \cap Supported[pkg]]
              \in Configs
      BY <3>1 DEF Configs
    <3>. QED  BY <1>3, <3>1, <3>2 DEF TrimFeatures
  <2>2. TypeOK'
    BY <1>3, <1>b, <2>1 DEF TrimFeatures, TypeOK, Labels, Errnos
  <2>3. Guided'
    BY <1>3 DEF TrimFeatures, Guided, TypeOK
  <2>. QED  BY <2>2, <2>3
<1>4. CASE ReadProfile(p)
  <2>1. TypeOK'
    BY <1>4, <1>b DEF ReadProfile, TypeOK, Labels, Errnos
  <2>2. Guided'
    BY <1>4 DEF ReadProfile, Guided, TypeOK
  <2>. QED  BY <2>1, <2>2
<1>5. CASE Validate(p)
  <2>1. TypeOK'
    BY <1>5 DEF Validate, TypeOK, Labels, Errnos
  <2>2. Guided'
    BY <1>5 DEF Validate, Guided, TypeOK
  <2>. QED  BY <2>1, <2>2
<1>6. CASE CheckLocations(p)
  <2>1. row' \in [Procs -> 1..(N + 1)]
    BY <1>6, <1>c, <1>d DEF CheckLocations, TypeOK
  <2>4. /\ writable' \in [Procs -> BOOLEAN] /\ pc' \in [Procs -> Labels]
        /\ ret' \in [Procs -> Errnos] /\ pc[p] = "locations"
        /\ started' \in Nat /\ faults' \in Nat /\ edits' \in Nat
    <3>1. writable \in [Procs -> BOOLEAN] /\ pc \in [Procs -> Labels] /\ ret \in [Procs -> Errnos]
          /\ started \in Nat /\ faults \in Nat /\ edits \in Nat
      BY DEF TypeOK
    <3>2. /\ writable' = writable \/ writable' = [writable EXCEPT ![p] = FALSE]
          /\ UNCHANGED <<started, edits>> /\ faults' \in Nat /\ pc[p] = "locations"
      BY <1>6, <1>b, <3>1 DEF CheckLocations
    <3>3. \/ UNCHANGED <<pc, ret>>
          \/ pc' = [pc EXCEPT ![p] = "mkdir"] /\ ret' = ret
          \/ pc' = [pc EXCEPT ![p] = "temp"] /\ ret' = ret
          \/ pc' = [pc EXCEPT ![p] = "idle"] /\ ret' = [ret EXCEPT ![p] = "EACCES"]
          \/ pc' = [pc EXCEPT ![p] = "idle"] /\ ret' = [ret EXCEPT ![p] = "ENOMEM"]
      BY <1>6, Zenon DEF CheckLocations
    <3>. QED  BY <3>1, <3>2, <3>3 DEF Labels, Errnos
  <2>5. UNCHANGED <<disk, touched, pkg, solo, cmd, want, tpl, tmp>>
    BY <1>6 DEF CheckLocations
  <2>2. TypeOK'
    <3>1. \A q \in Procs : pc'[q] \notin {"idle", "conf"} => pc[q] \notin {"idle", "conf"}
      BY <1>6, <2>4 DEF CheckLocations, TypeOK
    <3>. QED  BY <2>1, <2>4, <2>5, <3>1 DEF TypeOK
  <2>3. Guided'
    BY <1>6 DEF CheckLocations, Guided, TypeOK
  <2>. QED  BY <2>2, <2>3
<1>15. CASE MakeDirectory(p)
  <2>1. row' \in [Procs -> 1..(N + 1)] /\ dirs' \subseteq Rows
    BY <1>15, <1>c DEF MakeDirectory, TypeOK, Guided
  <2>2. touched' \in [Procs -> SUBSET Changes] /\ writable' \in [Procs -> BOOLEAN]
    BY <1>15, <1>e, <1>f DEF MakeDirectory, TypeOK
  <2>3. TypeOK'
    BY <1>15, <1>b, <2>1, <2>2 DEF MakeDirectory, TypeOK, Labels
  <2>4. Guided'
    BY <1>15 DEF MakeDirectory, Guided, TypeOK
  <2>. QED  BY <2>3, <2>4
<1>7. CASE WriteTemp(p)
  <2>0. want[p] \in Configs
    BY <1>7, <1>a DEF WriteTemp
  <2>1. tmp' \in [Procs -> [Rows -> Rendered \cup {Absent}]]
    <3>1. tmp[p] \in [Rows -> Rendered \cup {Absent}]
      BY DEF TypeOK
    <3>2. NoTemps \in [Rows -> Rendered \cup {Absent}]
      BY DEF NoTemps
    <3>3. row[p] \in Rows => Render(want[p], tpl[p], row[p]) \in Rendered
      BY <2>0, <1>a, RenderType
    <3>4. row[p] \in Rows =>
             [tmp[p] EXCEPT ![row[p]] = Render(want[p], tpl[p], row[p])]
                 \in [Rows -> Rendered \cup {Absent}]
      BY <3>1, <3>3
    <3>5. \/ row[p] \in Rows
             /\ tmp' = [tmp EXCEPT ![p] =
                          [tmp[p] EXCEPT ![row[p]] = Render(want[p], tpl[p], row[p])]]
          \/ tmp' = [tmp EXCEPT ![p] = NoTemps]
          \/ tmp' = tmp
      BY <1>7, Zenon DEF WriteTemp
    <3>. QED  BY <3>2, <3>4, <3>5 DEF TypeOK
  <2>2. row' \in [Procs -> 1..(N + 1)]
    BY <1>7, <1>c, <1>d DEF WriteTemp, TypeOK
  <2>3. TypeOK'
    BY <1>7, <1>b, <2>1, <2>2 DEF WriteTemp, TypeOK, Labels, Errnos
  <2>4. Guided'
    BY <1>7 DEF WriteTemp, Guided, TypeOK
  <2>. QED  BY <2>3, <2>4
<1>8. CASE RenameTemp(p)
  <2>1. tmp' \in [Procs -> [Rows -> Rendered \cup {Absent}]]
        /\ gen' \in [Rows -> Rendered \cup {Absent}]
    <3>1. tmp[p] \in [Rows -> Rendered \cup {Absent}] /\ tmp \in [Procs -> [Rows -> Rendered \cup {Absent}]]
          /\ gen \in [Rows -> Rendered \cup {Absent}]
      BY DEF TypeOK
    <3>2. \A r \in Rows : [NoTemps EXCEPT ![r] = tmp[p][r]] \in [Rows -> Rendered \cup {Absent}]
                          /\ [tmp[p] EXCEPT ![r] = Absent] \in [Rows -> Rendered \cup {Absent}]
      BY <3>1 DEF NoTemps
    <3>3. \/ row[p] \in Rows
             /\ tmp' = [tmp EXCEPT ![p] = [tmp[p] EXCEPT ![row[p]] = Absent]]
             /\ gen' = [gen EXCEPT ![row[p]] = tmp[p][row[p]]]
          \/ row[p] \in Rows
             /\ tmp' = [tmp EXCEPT ![p] = [NoTemps EXCEPT ![row[p]] = tmp[p][row[p]]]]
             /\ gen' = gen
          \/ tmp' = tmp /\ gen' = gen
      BY <1>8, Zenon DEF RenameTemp
    <3>. QED  BY <3>1, <3>2, <3>3
  <2>2. row' \in [Procs -> 1..(N + 1)]
    BY <1>8, <1>c, <1>d DEF RenameTemp, TypeOK
  <2>5. touched' \in [Procs -> SUBSET Changes]
    BY <1>8, <1>e, <1>f DEF RenameTemp, TypeOK
  <2>3. TypeOK'
    BY <1>8, <1>b, <2>1, <2>2, <2>5 DEF RenameTemp, TypeOK, Labels, Errnos
  <2>4. Guided'
    BY <1>8 DEF RenameTemp, Guided, TypeOK
  <2>. QED  BY <2>3, <2>4
<1>9. CASE OpenConf(p)
  <2>1. TypeOK'
    BY <1>9, <1>b, <1>e, <1>f DEF OpenConf, TypeOK, Labels, Errnos
  <2>2. Guided'
    BY <1>9 DEF OpenConf, Guided, TypeOK
  <2>. QED  BY <2>1, <2>2
<1>10. CASE WriteConf(p)
  <2>1. TypeOK'
    BY <1>10, <1>a, <1>b, <1>e, <1>f DEF WriteConf, TypeOK, Labels, Errnos
  <2>2. Guided'
    BY <1>10 DEF WriteConf, Guided, TypeOK
  <2>. QED  BY <2>1, <2>2
<1>11. CASE Unlink(p)
  <2>3. touched' \in [Procs -> SUBSET Changes]
    BY <1>11, <1>e, <1>f DEF Unlink, TypeOK
  <2>1. TypeOK'
    BY <1>11, <1>b, <2>3 DEF Unlink, TypeOK, Labels, Errnos
  <2>2. Guided'
    BY <1>11 DEF Unlink, Guided, TypeOK
  <2>. QED  BY <2>1, <2>2
<1>12. CASE Symlink(p)
  <2>1. row' \in [Procs -> 1..(N + 1)]
    <3>1. row[p] \in Rows /\ row \in [Procs -> 1..(N + 1)]
      BY <1>12 DEF Symlink, TypeOK, Guided
    <3>2. row' = row \/ row' = [row EXCEPT ![p] = row[p] + 1]
      BY <1>12, Zenon DEF Symlink
    <3>. QED  BY <1>c, <3>1, <3>2
  <2>4. touched' \in [Procs -> SUBSET Changes]
    BY <1>12, <1>e, <1>f DEF Symlink, TypeOK
  <2>2. TypeOK'
    <3>1. /\ UNCHANGED <<conf, gen, dirs, sumCopy, cmd, want, tpl, tmp, writable, pkg, solo>>
          /\ started' \in Nat /\ edits' \in Nat /\ faults' \in Nat /\ pc[p] = "symlink"
      BY <1>12, <1>b DEF Symlink, TypeOK
    <3>2. link' = link \/ link' = [link EXCEPT ![row[p]] = "authselect"]
      BY <1>12, Zenon DEF Symlink
    <3>3. \/ pc' = [pc EXCEPT ![p] = "unlink"] /\ ret' = ret
          \/ \E errno \in {"EEXIST", "ENOENT", "EIO"} :
                pc' = [pc EXCEPT ![p] = "idle"] /\ ret' = [ret EXCEPT ![p] = errno]
      BY <1>12 DEF Symlink
    <3>4. link' \in [Rows -> {"authselect", "other", "absent", "none"}]
      BY <3>2 DEF TypeOK
    <3>5. /\ pc' \in [Procs -> Labels] /\ ret' \in [Procs -> Errnos]
          /\ pc'[p] \in {"unlink", "idle"} /\ \A q \in Procs \ {p} : pc'[q] = pc[q]
      <4>1. pc \in [Procs -> Labels] /\ ret \in [Procs -> Errnos]
        BY DEF TypeOK
      <4>2. {"unlink", "idle"} \subseteq Labels /\ {"EEXIST", "ENOENT", "EIO"} \subseteq Errnos
        BY DEF Labels, Errnos
      <4>. QED  BY <3>3, <4>1, <4>2
    <3>. QED  BY <2>1, <2>4, <3>1, <3>4, <3>5 DEF TypeOK
  <2>3. Guided'
    BY <1>12 DEF Symlink, Guided, TypeOK
  <2>. QED  BY <2>2, <2>3
<1>13. CASE UpdateDconf(p)
  <2>1. TypeOK'
    BY <1>13, <1>b DEF UpdateDconf, TypeOK, Labels, Errnos
  <2>2. Guided'
    BY <1>13 DEF UpdateDconf, Guided, TypeOK
  <2>. QED  BY <2>1, <2>2
<1>14. CASE CopyChecksum(p)
  <2>1. TypeOK'
    BY <1>14, <1>b, <1>e, <1>f DEF CopyChecksum, TypeOK, Labels, Errnos
  <2>2. Guided'
    BY <1>14 DEF CopyChecksum, Guided, TypeOK
  <2>. QED  BY <2>1, <2>2
<1>. QED
  BY <1>1, <1>2, <1>3, <1>4, <1>5, <1>6, <1>7, <1>8, <1>9, <1>10, <1>11, <1>12,
     <1>13, <1>14, <1>15 DEF Step

LEMMA TypeNext == TInv /\ [Next]_vars => TInv'
<1>. SUFFICES ASSUME TInv, [Next]_vars PROVE TInv'
  OBVIOUS
<1>. USE DEF TInv
<1>1. ASSUME NEW p \in Procs, Start(p) PROVE TInv'
  <2>. USE <1>1 DEF Start
  <2>1. PICK c \in Commands :
           /\ cmd' = Set(cmd, p, c)
           /\ want' = Set(want, p, IF c.op = "select" THEN c.config ELSE Absent)
           /\ pc' = Set(pc, p, IF c.op = "select" THEN "profile" ELSE "conf")
    OBVIOUS
  <2>2. c.op = "select" => c.config \in Configs
    BY CommandsAssumption DEF AllCommands
  <2>3. tmp' \in [Procs -> [Rows -> Rendered \cup {Absent}]]
    BY DEF TypeOK, NoTemps
  <2>4. row' \in [Procs -> 1..(N + 1)] /\ started' \in Nat
    BY RowsAssumption DEF TypeOK
  <2>5. want' \in [Procs -> Configs \cup {Absent}]
        /\ \A q \in Procs : pc'[q] \notin {"idle", "conf"} => want'[q] \in Configs
    BY <2>1, <2>2 DEF TypeOK
  <2>6. solo' \in [Procs -> BOOLEAN]
    OBVIOUS
  <2>7. pc' \in [Procs -> Labels] /\ cmd' \in [Procs -> Commands \cup {Absent}]
    BY <2>1 DEF TypeOK, Labels
  <2>8. TypeOK'
    BY <2>3, <2>4, <2>5, <2>6, <2>7 DEF TypeOK, disk, Errnos
  <2>9. Guided'
    BY <2>1 DEF Guided, TypeOK
  <2>. QED  BY <2>8, <2>9
<1>2. ASSUME NEW p \in Procs, Step(p) PROVE TInv'
  BY <1>2, TypeStep
<1>3. ASSUME NEW p \in Procs, Crash(p) PROVE TInv'
  <2>a. pc \in [Procs -> Labels] /\ ret \in [Procs -> Errnos] /\ faults \in Nat
        /\ sumCopy \in Versions \cup {Absent, Blank}
    BY DEF TypeOK
  <2>b. /\ pc' = [pc EXCEPT ![p] = "idle"] /\ ret' = [ret EXCEPT ![p] = "crashed"]
        /\ faults' = faults + 1 /\ (sumCopy' = sumCopy \/ sumCopy' = Blank)
        /\ UNCHANGED <<started, edits, pkg, solo, conf, gen, link, dirs, touched, locals>>
    BY <1>3, Zenon DEF Crash, Fault, End, Undisturbed
  <2>c. faults' \in Nat
    BY <2>a, <2>b
  <2>d. sumCopy' \in Versions \cup {Absent, Blank}
    BY <2>a, <2>b, Zenon
  <2>1. /\ pc' \in [Procs -> Labels] /\ pc'[p] = "idle"
        /\ \A q \in Procs \ {p} : pc'[q] = pc[q]
        /\ ret' \in [Procs -> Errnos]
    BY <2>a, <2>b DEF Labels, Errnos
  <2>2. TypeOK'
    BY <2>1, <2>b, <2>c, <2>d DEF TypeOK, locals
  <2>3. Guided'
    BY <2>1, <2>b DEF Guided, locals
  <2>. QED  BY <2>2, <2>3
<1>4. CASE PackageUpdate
  <2>. USE <1>4 DEF PackageUpdate, disk, locals, counters
  <2>1. pkg' \in Versions
    BY VersionsAssumption DEF TypeOK, Versions
  <2>2. TypeOK'
    BY <2>1 DEF TypeOK
  <2>3. Guided'
    BY DEF Guided
  <2>. QED  BY <2>2, <2>3
<1>5. ASSUME NEW r \in Rows, Overwrite(r) PROVE TInv'
  <2>. USE <1>5 DEF Overwrite, locals
  <2>1. TypeOK'
    BY DEF TypeOK
  <2>2. Guided'
    BY DEF Guided
  <2>. QED  BY <2>1, <2>2
<1>6. CASE Finished \/ UNCHANGED vars
  <2>. USE <1>6 DEF Finished, vars, disk, locals, counters
  <2>1. TypeOK'
    BY DEF TypeOK
  <2>2. Guided'
    BY DEF Guided
  <2>. QED  BY <2>1, <2>2
<1>. QED  BY <1>1, <1>2, <1>3, <1>4, <1>5, <1>6 DEF Next

(* The types of the variables are those TypeOK gives, in every state of    *)
(* any number of interleaved commands, failures, crashes and updates.      *)
THEOREM TypeCorrect == Spec => []TypeOK
<1>1. TInv => TypeOK
  BY DEF TInv
<1>. QED  BY TypeInit, TypeNext, <1>1, PTL DEF Spec

-----------------------------------------------------------------------------

(* What the loop over the locations is good for: behind it every directory *)
(* is there, made by whatever command, and directories are never removed.  *)
Placed ==
    \A p \in Procs :
        /\ pc[p] \in Before /\ writable[p] => \A r \in Rows : r < row[p] => r \in dirs
        /\ pc[p] \in {"temp", "rename", "open", "write", "unlink", "symlink"} =>
              Rows \subseteq dirs

LEMMA PlacedInit == Init => Placed
BY DEF Init, Placed, Before, Reading

(* One process goes on, and keeps what it knows of the directories.        *)
LEMMA PlacedFrame ==
    ASSUME Placed, NEW p \in Procs, dirs \subseteq dirs',
           \A q \in Procs \ {p} : pc'[q] = pc[q] /\ row'[q] = row[q] /\ writable'[q] = writable[q],
           pc'[p] \in Before /\ writable'[p] => \A r \in Rows : r < row'[p] => r \in dirs',
           pc'[p] \in {"temp", "rename", "open", "write", "unlink", "symlink"} =>
               Rows \subseteq dirs'
    PROVE  Placed'
BY DEF Placed

LEMMA PlacedStep ==
    ASSUME TInv, Placed, NEW p \in Procs, Step(p) \/ Crash(p)
    PROVE  Placed'
<1>. USE DEF Undisturbed, NoFault, Goto, End, DiskKept, Touch, locals, disk
<1>a. /\ pc \in [Procs -> Labels] /\ row \in [Procs -> 1..(N + 1)]
      /\ writable \in [Procs -> BOOLEAN] /\ row[p] \in 1..(N + 1) /\ N \in Nat
  BY RowsAssumption DEF TInv, TypeOK
<1>b. /\ \A r \in Rows : r < row[p] + 1 => r < row[p] \/ r = row[p]
      /\ row[p] \notin Rows => \A r \in Rows : r < row[p]
      /\ \A r \in Rows : ~(r < 1)
  BY <1>a DEF Rows
<1>c. /\ pc[p] \in Before /\ writable[p] => \A r \in Rows : r < row[p] => r \in dirs
      /\ pc[p] \in {"temp", "rename", "open", "write", "unlink", "symlink"} =>
            Rows \subseteq dirs
  BY DEF Placed
<1>1. CASE \/ ReadConf(p) \/ CompareChecksum(p) \/ TrimFeatures(p) \/ ReadProfile(p)
          \/ Validate(p)
  <2>1. /\ UNCHANGED <<dirs, row, writable>> /\ pc[p] \in Before
        /\ \A q \in Procs \ {p} : pc'[q] = pc[q]
        /\ pc'[p] \in Before \cup {"idle"}
    BY <1>1, <1>a DEF ReadConf, CompareChecksum, TrimFeatures, ReadProfile, Validate,
        Before, Reading
  <2>. QED
    BY <1>c, <2>1, PlacedFrame DEF Before, Reading
<1>2. CASE CheckLocations(p)
  <2>1. /\ UNCHANGED dirs /\ pc[p] \in Before
        /\ \A q \in Procs \ {p} : pc'[q] = pc[q] /\ row'[q] = row[q] /\ writable'[q] = writable[q]
    BY <1>2, <1>a DEF CheckLocations, Before
  <2>2. \/ row[p] \in dirs /\ row'[p] = row[p] + 1 /\ writable' = writable /\ pc' = pc
        \/ row' = row /\ writable' = writable /\ pc'[p] = "mkdir"
        \/ writable'[p] = FALSE /\ pc' = pc
        \/ pc'[p] = "idle"
        \/ row[p] \notin Rows /\ writable[p] /\ pc'[p] = "temp"
    BY <1>2, <1>a DEF CheckLocations
  <2>3. pc[p] = "locations"
    BY <1>2 DEF CheckLocations
  <2>. QED
    BY <1>b, <1>c, <2>1, <2>2, <2>3, PlacedFrame DEF Before, Reading
<1>3. CASE MakeDirectory(p)
  <2>1. /\ dirs \subseteq dirs' /\ pc[p] \in Before /\ pc'[p] = "locations"
        /\ \A q \in Procs \ {p} : pc'[q] = pc[q] /\ row'[q] = row[q] /\ writable'[q] = writable[q]
        /\ row'[p] = row[p] + 1
        /\ writable'[p] => writable[p] /\ row[p] \in dirs'
    BY <1>3, <1>a DEF MakeDirectory, Before
  <2>. QED
    BY <1>b, <1>c, <2>1, PlacedFrame
<1>4. CASE \/ WriteTemp(p) \/ RenameTemp(p) \/ OpenConf(p) \/ WriteConf(p) \/ Unlink(p)
          \/ Symlink(p) \/ UpdateDconf(p) \/ CopyChecksum(p) \/ Crash(p)
  <2>1. /\ UNCHANGED <<dirs, writable>>
        /\ \A q \in Procs \ {p} : pc'[q] = pc[q] /\ row'[q] = row[q]
        /\ pc'[p] \notin Before
        /\ pc'[p] \in {"temp", "rename", "open", "write", "unlink", "symlink"} =>
              pc[p] \in {"temp", "rename", "open", "write", "unlink", "symlink"}
    BY <1>4, <1>a DEF WriteTemp, RenameTemp, OpenConf, WriteConf, Unlink, Symlink,
        UpdateDconf, CopyChecksum, Crash, Before, Reading
  <2>. QED
    BY <1>c, <2>1, PlacedFrame
<1>. QED
  BY <1>1, <1>2, <1>3, <1>4 DEF Step

LEMMA PlacedNext == TInv /\ Placed /\ [Next]_vars => Placed'
<1>. SUFFICES ASSUME TInv, Placed, [Next]_vars PROVE Placed'
  OBVIOUS
<1>1. ASSUME NEW p \in Procs, Start(p) PROVE Placed'
  <2>1. /\ UNCHANGED dirs /\ pc'[p] \in {"profile", "conf"} /\ row'[p] = 1
        /\ \A q \in Procs \ {p} : pc'[q] = pc[q] /\ row'[q] = row[q] /\ writable'[q] = writable[q]
    BY <1>1 DEF Start, disk, TInv, TypeOK
  <2>2. \A r \in Rows : ~(r < 1)
    BY DEF Rows
  <2>. QED
    BY <2>1, <2>2, PlacedFrame
<1>2. ASSUME NEW p \in Procs, Step(p) \/ Crash(p) PROVE Placed'
  BY <1>2, PlacedStep
<1>3. CASE PackageUpdate \/ (\E r \in Rows : Overwrite(r)) \/ Finished \/ UNCHANGED vars
  BY <1>3 DEF PackageUpdate, Overwrite, Finished, vars, disk, locals, counters, Placed
<1>. QED
  BY <1>1, <1>2, <1>3 DEF Next

-----------------------------------------------------------------------------

(* Why the links never dangle: the renames come before the links, and what *)
(* is renamed was written before.  Nothing ever removes a generated file.  *)
Prepared ==
    \A p \in Procs, r \in Rows :
        /\ pc[p] = "temp" /\ r < row[p] => tmp[p][r] # Absent
        /\ pc[p] = "rename" /\ r >= row[p] => tmp[p][r] # Absent
        /\ pc[p] = "rename" /\ r < row[p] => gen[r] # Absent
        /\ pc[p] \in {"open", "write", "unlink", "symlink"} => gen[r] # Absent

LInv == TInv /\ Prepared /\ NoDangling

LEMMA LinkInit == Init => LInv
<1>. SUFFICES ASSUME Init PROVE LInv
  OBVIOUS
<1>1. NoDangling
  <2>1. CASE Unconfigured
    BY <2>1 DEF NoDangling, Unconfigured
  <2>2. CASE \E config \in Configs : Configured(config)
    <3>1. 0 \in Versions
      BY VersionsAssumption DEF Versions
    <3>. QED  BY <2>2, <3>1, RenderType DEF NoDangling, Configured
  <2>. QED  BY <2>1, <2>2 DEF Init
<1>2. Prepared
  BY DEF Init, Prepared
<1>. QED  BY TypeInit, <1>1, <1>2 DEF LInv

(* A step that leaves files, links and temporary files alone and moves no  *)
(* process into the middle of an activation.                               *)
LEMMA QuietStep ==
    ASSUME LInv, UNCHANGED <<gen, link>>, NEW p \in Procs,
           \A q \in Procs \ {p} :
               pc'[q] = pc[q] /\ tmp'[q] = tmp[q] /\ row'[q] = row[q],
           pc'[p] \notin {"temp", "rename", "open", "write", "unlink", "symlink"}
    PROVE  Prepared' /\ NoDangling'
BY DEF LInv, Prepared, NoDangling

LEMMA LinkStep ==
    ASSUME LInv, NEW p \in Procs, Step(p)
    PROVE  Prepared' /\ NoDangling'
<1>. USE DEF Undisturbed, NoFault, Goto, End, DiskKept, Touch, locals, disk
<1>a. /\ TypeOK /\ Guided /\ Prepared /\ NoDangling
      /\ pc \in [Procs -> Labels] /\ row \in [Procs -> 1..(N + 1)]
      /\ tmp \in [Procs -> [Rows -> Rendered \cup {Absent}]]
      /\ gen \in [Rows -> Rendered \cup {Absent}]
  BY DEF LInv, TInv, TypeOK
<1>1. CASE \/ ReadConf(p) \/ CompareChecksum(p) \/ TrimFeatures(p)
          \/ ReadProfile(p) \/ Validate(p) \/ UpdateDconf(p) \/ CopyChecksum(p)
  <2>1. UNCHANGED <<gen, link, tmp, row>>
    BY <1>1 DEF ReadConf, CompareChecksum, TrimFeatures, ReadProfile, Validate,
                UpdateDconf, CopyChecksum
  <2>2. /\ \A q \in Procs \ {p} : pc'[q] = pc[q]
        /\ pc'[p] \notin {"temp", "rename", "open", "write", "unlink", "symlink"}
    BY <1>1, <1>a DEF ReadConf, CompareChecksum, TrimFeatures, ReadProfile, Validate,
                UpdateDconf, CopyChecksum
  <2>. QED  BY <2>1, <2>2, QuietStep
<1>2. CASE CheckLocations(p)
  <2>1. /\ UNCHANGED <<gen, link, tmp>>
        /\ \A q \in Procs \ {p} : pc'[q] = pc[q] /\ row'[q] = row[q]
        /\ \/ pc'[p] \in {"locations", "mkdir", "idle"}
           \/ pc'[p] = "temp" /\ row'[p] = 1
    BY <1>2, <1>a DEF CheckLocations
  <2>2. \A r \in Rows : ~(r < 1)
    BY DEF Rows
  <2>. QED  BY <1>a, <2>1, <2>2, QuietStep DEF Prepared, NoDangling
<1>8. CASE MakeDirectory(p)
  <2>1. /\ UNCHANGED <<gen, link, tmp>> /\ pc'[p] = "locations"
        /\ \A q \in Procs \ {p} : pc'[q] = pc[q] /\ row'[q] = row[q]
    BY <1>8, <1>a DEF MakeDirectory
  <2>. QED  BY <2>1, QuietStep
<1>3. CASE WriteTemp(p)
  <2>1. row[p] \in Rows => Render(want[p], tpl[p], row[p]) # Absent
    BY <1>3, <1>a, RenderType DEF WriteTemp, TypeOK
  <2>2. UNCHANGED <<gen, link>>
    BY <1>3 DEF WriteTemp
  <2>3. CASE row[p] \in Rows /\ row' = [row EXCEPT ![p] = row[p] + 1] /\ UNCHANGED pc
             /\ tmp' = [tmp EXCEPT ![p][row[p]] = Render(want[p], tpl[p], row[p])]
    <3>1. \A r \in Rows : r < row[p] + 1 => r < row[p] \/ r = row[p]
      BY <1>a DEF Rows
    <3>2. pc[p] = "temp"
      BY <1>3 DEF WriteTemp
    <3>3. \A r \in Rows : r < row'[p] => tmp'[p][r] # Absent
      BY <2>1, <2>3, <3>1, <3>2, <1>a DEF Prepared
    <3>4. \A q \in Procs \ {p} : tmp'[q] = tmp[q] /\ row'[q] = row[q]
      BY <2>3, <1>a
    <3>. QED  BY <2>2, <2>3, <3>2, <3>3, <3>4, <1>a DEF Prepared, NoDangling
  <2>4. CASE row[p] \notin Rows /\ row' = [row EXCEPT ![p] = 1]
             /\ pc' = [pc EXCEPT ![p] = "rename"] /\ UNCHANGED tmp
    <3>1. \A r \in Rows : r < row[p] /\ ~(r < 1)
      BY <2>4, <1>a, RowsAssumption DEF Rows
    <3>2. \A r \in Rows : tmp[p][r] # Absent
      BY <3>1, <1>3, <1>a DEF WriteTemp, Prepared
    <3>. QED  BY <2>2, <2>4, <3>1, <3>2, <1>a DEF Prepared, NoDangling
  <2>5. CASE tmp' = [tmp EXCEPT ![p] = NoTemps] /\ pc' = [pc EXCEPT ![p] = "idle"]
             /\ UNCHANGED row
    BY <2>2, <2>5, <1>a, QuietStep
  <2>. QED  BY <1>3, <2>3, <2>4, <2>5 DEF WriteTemp
<1>4. CASE RenameTemp(p)
  <2>1. UNCHANGED link /\ pc[p] = "rename"
    BY <1>4 DEF RenameTemp
  <2>2. CASE row[p] \in Rows /\ row' = [row EXCEPT ![p] = row[p] + 1] /\ UNCHANGED pc
             /\ gen' = [gen EXCEPT ![row[p]] = tmp[p][row[p]]]
             /\ tmp' = [tmp EXCEPT ![p][row[p]] = Absent]
    <3>1. \A r \in Rows : /\ r < row[p] + 1 => r < row[p] \/ r = row[p]
                          /\ r >= row[p] + 1 => r >= row[p] /\ r # row[p]
                          /\ row[p] >= row[p]
      BY <1>a, <2>2 DEF Rows
    <3>2. tmp[p][row[p]] # Absent
      BY <2>1, <2>2, <3>1, <1>a DEF Prepared
    <3>3. \A r \in Rows : gen[r] # Absent => gen'[r] # Absent
      BY <2>2, <3>2, <1>a
    <3>4. \A r \in Rows : /\ r < row'[p] => gen'[r] # Absent
                          /\ r >= row'[p] => tmp'[p][r] # Absent
      BY <2>1, <2>2, <3>1, <3>2, <1>a DEF Prepared
    <3>5. \A q \in Procs \ {p} : tmp'[q] = tmp[q] /\ row'[q] = row[q]
      BY <2>2, <1>a
    <3>. QED  BY <2>1, <2>2, <3>3, <3>4, <3>5, <1>a DEF Prepared, NoDangling
  <2>3. CASE row[p] \notin Rows /\ row' = [row EXCEPT ![p] = 1]
             /\ pc' = [pc EXCEPT ![p] = "open"] /\ UNCHANGED <<gen, tmp>>
    <3>1. \A r \in Rows : r < row[p]
      BY <2>3, <1>a, RowsAssumption DEF Rows
    <3>2. \A r \in Rows : gen[r] # Absent
      BY <2>1, <3>1, <1>a DEF Prepared
    <3>. QED  BY <2>1, <2>3, <3>2, <1>a DEF Prepared, NoDangling
  <2>4. CASE tmp' = [tmp EXCEPT ![p] = [NoTemps EXCEPT ![row[p]] = tmp[p][row[p]]]]
             /\ pc' = [pc EXCEPT ![p] = "idle"] /\ UNCHANGED <<gen, row>>
    BY <2>1, <2>4, <1>a, QuietStep
  <2>. QED  BY <1>4, <2>2, <2>3, <2>4 DEF RenameTemp
<1>5. CASE OpenConf(p) \/ WriteConf(p)
  <2>1. UNCHANGED <<gen, link, tmp, row>>
    BY <1>5 DEF OpenConf, WriteConf
  <2>. QED  BY <1>5, <2>1, <1>a DEF OpenConf, WriteConf, Prepared, NoDangling
<1>6. CASE Unlink(p)
  BY <1>6, <1>a DEF Unlink, Prepared, NoDangling, TypeOK
<1>7. CASE Symlink(p)
  <2>1. \A r \in Rows : gen[r] # Absent
    BY <1>7, <1>a DEF Symlink, Prepared
  <2>2. UNCHANGED <<gen, tmp>>
    BY <1>7 DEF Symlink
  <2>3. \A q \in Procs : pc'[q] \in {"temp", "rename"} => pc'[q] = pc[q] /\ row'[q] = row[q]
    BY <1>7, <1>a DEF Symlink
  <2>. QED  BY <2>1, <2>2, <2>3, <1>a DEF Prepared, NoDangling
<1>. QED
  BY <1>1, <1>2, <1>3, <1>4, <1>5, <1>6, <1>7, <1>8 DEF Step

LEMMA LinkNext == LInv /\ [Next]_vars => LInv'
<1>. SUFFICES ASSUME LInv, [Next]_vars PROVE Prepared' /\ NoDangling'
  BY TypeNext DEF LInv
<1>a. TypeOK /\ Prepared /\ NoDangling
  BY DEF LInv, TInv
<1>1. ASSUME NEW p \in Procs, Start(p) PROVE Prepared' /\ NoDangling'
  <2>1. UNCHANGED <<gen, link>>
    BY <1>1 DEF Start, disk
  <2>2. \A q \in Procs \ {p} : pc'[q] = pc[q] /\ tmp'[q] = tmp[q] /\ row'[q] = row[q]
    BY <1>1, <1>a DEF Start, TypeOK
  <2>3. pc'[p] \in {"profile", "conf"}
    BY <1>1, <1>a DEF Start, TypeOK
  <2>. QED  BY <2>1, <2>2, <2>3, QuietStep
<1>2. ASSUME NEW p \in Procs, Step(p) PROVE Prepared' /\ NoDangling'
  BY <1>2, LinkStep
<1>3. ASSUME NEW p \in Procs, Crash(p) PROVE Prepared' /\ NoDangling'
  <2>1. UNCHANGED <<gen, link, tmp, row>>
    BY <1>3 DEF Crash, locals
  <2>2. pc'[p] = "idle" /\ \A q \in Procs \ {p} : pc'[q] = pc[q]
    BY <1>3, <1>a DEF Crash, End, TypeOK
  <2>. QED  BY <2>1, <2>2, QuietStep
<1>4. CASE PackageUpdate \/ Finished \/ UNCHANGED vars
  BY <1>4, <1>a DEF PackageUpdate, Finished, vars, disk, locals, Prepared, NoDangling
<1>5. ASSUME NEW r \in Rows, Overwrite(r) PROVE Prepared' /\ NoDangling'
  BY <1>5, <1>a DEF Overwrite, locals, Prepared, NoDangling, TypeOK
<1>. QED  BY <1>1, <1>2, <1>3, <1>4, <1>5 DEF Next

(* No name in /etc ever links to a generated file that does not exist: for *)
(* any number of commands that interleave at every system call, wherever   *)
(* any of them fails or dies, with updates and foreign edits in between.   *)
THEOREM LinksNeverDangle == Spec => []NoDangling
<1>1. LInv => NoDangling
  BY DEF LInv
<1>. QED  BY LinkInit, LinkNext, <1>1, PTL DEF Spec

-----------------------------------------------------------------------------

(* What a command that has had the system to itself has reached: the       *)
(* templates it has read are installed, and each file it is past has the   *)
(* content asked for.  None of this can be known of a command that races.  *)
Reached(p) ==
    /\ \A q \in Procs \ {p} : pc[q] = "idle"
    /\ pc[p] \in {"validate", "locations", "mkdir", "temp", "rename"} => tpl[p] = pkg
    /\ pc[p] = "temp" => \A r \in Rows : r < row[p] => tmp[p][r] = Render(want[p], pkg, r)
    /\ pc[p] = "rename" =>
          \A r \in Rows : (IF r < row[p] THEN gen[r] ELSE tmp[p][r]) = Render(want[p], pkg, r)
    /\ pc[p] \in {"open", "write"} => row[p] = 1
    /\ pc[p] \in {"open", "write", "unlink", "symlink", "dconf", "checksum copy"} =>
          \A r \in Rows : gen[r] = Render(want[p], pkg, r)
    /\ pc[p] \in {"unlink", "symlink", "dconf", "checksum copy"} => conf = want[p]
    /\ pc[p] \in {"unlink", "symlink"} => \A r \in Rows : r < row[p] => link[r] = "authselect"
    /\ pc[p] \in {"dconf", "checksum copy"} => \A r \in Rows : link[r] = "authselect"
    /\ pc[p] = "idle" /\ ret[p] = "EOK" =>
          /\ conf = want[p]
          /\ \A r \in Rows : gen[r] = Render(want[p], pkg, r) /\ link[r] = "authselect"

ISolo ==
    \A p \in Procs :
        /\ pc[p] # "idle" => ret[p] = "running"
        /\ solo[p] => Reached(p)

(* Nothing but another process comes between unlink and symlink.           *)
Single == \A p, q \in Procs : p = q

EarlyRefusals == {"ENOENT", "EAGAIN", "EINVAL"}
LateRefusals  == {"EACCES", "ENOMEM"}

(* Up to the loop over the locations a command has changed nothing, and up *)
(* to the first rename nothing but directories.  It gives up later only    *)
(* for an error, or for a link that was made while it ran.                 *)
Refuses(p) ==
    /\ pc[p] # "idle" => ret[p] = "running"
    /\ pc[p] \in Reading => touched[p] = {}
    /\ pc[p] \in {"locations", "mkdir", "temp"} => touched[p] \subseteq {"directories"}
    /\ ret[p] \in EarlyRefusals => touched[p] = {}
    /\ ret[p] \in LateRefusals => touched[p] \subseteq {"directories"}
    /\ solo[p] => \A q \in Procs \ {p} : pc[q] = "idle"
    /\ solo[p] \/ Single => /\ pc[p] = "symlink" => link[row[p]] = "absent"
                            /\ ret[p] = "EEXIST" => touched[p] = {}

IRefuse == \A p \in Procs : Refuses(p)

-----------------------------------------------------------------------------

LEMMA SoloInit == Init => ISolo /\ IRefuse
BY DEF Init, ISolo, IRefuse, Refuses, EarlyRefusals, LateRefusals, Reading

(* A command that goes on disturbs only itself: another one is not alone.  *)
LEMMA SoloFrame ==
    ASSUME ISolo, NEW p \in Procs, pc[p] # "idle", UNCHANGED solo,
           \A q \in Procs \ {p} : pc'[q] = pc[q] /\ ret'[q] = ret[q],
           pc'[p] # "idle" => ret'[p] = "running",
           Reached(p) => Reached(p)'
    PROVE  ISolo'
<1>1. \A q \in Procs \ {p} : ~solo[q]
  BY DEF ISolo, Reached
<1>. QED
  BY <1>1 DEF ISolo

LEMMA SoloStep ==
    ASSUME TInv, ISolo, NEW p \in Procs, Step(p) \/ Crash(p)
    PROVE  ISolo'
<1>. USE DEF Undisturbed, NoFault, Goto, End, DiskKept, Touch, locals, disk
<1>a. /\ pc \in [Procs -> Labels] /\ row \in [Procs -> 1..(N + 1)]
      /\ ret \in [Procs -> Errnos] /\ tpl \in [Procs -> Versions]
      /\ tmp \in [Procs -> [Rows -> Rendered \cup {Absent}]]
      /\ gen \in [Rows -> Rendered \cup {Absent}]
      /\ link \in [Rows -> {"authselect", "other", "absent", "none"}]
      /\ want \in [Procs -> Configs \cup {Absent}]
      /\ row[p] \in 1..(N + 1) /\ N \in Nat
  BY RowsAssumption DEF TInv, TypeOK, Guided
<1>b. /\ \A r \in Rows : ~(r < 1)
      /\ \A r \in Rows : r < row[p] + 1 => r < row[p] \/ r = row[p]
      /\ row[p] \notin Rows => \A r \in Rows : r < row[p]
      /\ \A r \in Rows : r = row[p] => ~(r < row[p])
      /\ row[p] \in Rows => \A r \in Rows : r < row[p] + 1 <=> r < row[p] \/ r = row[p]
  BY <1>a DEF Rows
<1>c. /\ \A q \in Procs \ {p} : pc'[q] = pc[q] /\ ret'[q] = ret[q]
      /\ pc'[p] # "idle" => ret'[p] = ret[p]
      /\ pc[p] # "idle" /\ solo' = solo
  BY <1>a DEF Step, Crash, ReadConf, CompareChecksum, TrimFeatures, ReadProfile, Validate,
     CheckLocations, MakeDirectory, WriteTemp, RenameTemp, OpenConf, WriteConf, Unlink,
     Symlink, UpdateDconf, CopyChecksum
<1>d. pc'[p] # "idle" => ret'[p] = "running"
  BY <1>c DEF ISolo
<1>. SUFFICES ASSUME Reached(p) PROVE Reached(p)'
  BY <1>c, <1>d, SoloFrame
<1>f. \A q \in Procs \ {p} : pc'[q] = "idle"
  BY <1>c DEF Reached
<1>1. CASE \/ ReadConf(p) \/ CompareChecksum(p) \/ TrimFeatures(p) \/ ReadProfile(p)
          \/ Validate(p) \/ CheckLocations(p) \/ MakeDirectory(p)
  <2>1. /\ UNCHANGED pkg /\ pc[p] \in Before
        /\ pc'[p] \in Before \cup {"idle", "temp"}
        /\ pc'[p] = "temp" => row'[p] = 1
        /\ pc'[p] \in {"validate", "locations", "mkdir", "temp"} =>
              \/ tpl'[p] = pkg
              \/ tpl'[p] = tpl[p] /\ pc[p] \in {"validate", "locations", "mkdir"}
        /\ pc'[p] = "idle" => ret'[p] # "EOK"
    BY <1>1, <1>a DEF ReadConf, CompareChecksum, TrimFeatures, ReadProfile, Validate,
        CheckLocations, MakeDirectory, Before, Reading
  <2>. QED
    BY <1>b, <1>f, <2>1 DEF Reached, Before, Reading
<1>2. CASE WriteTemp(p)
  <2>1. /\ UNCHANGED <<pkg, tpl, want>> /\ pc[p] = "temp" /\ tpl[p] = pkg
    BY <1>2 DEF WriteTemp, Reached
  <2>2. CASE /\ row[p] \in Rows /\ pc' = pc /\ row' = [row EXCEPT ![p] = row[p] + 1]
             /\ tmp' = [tmp EXCEPT ![p][row[p]] = Render(want[p], tpl[p], row[p])]
    <3>1. row'[p] = row[p] + 1
          /\ tmp'[p] = [tmp[p] EXCEPT ![row[p]] = Render(want[p], pkg, row[p])]
      BY <1>a, <2>1, <2>2
    <3>2. ASSUME NEW r \in Rows, r < row[p] + 1 PROVE tmp'[p][r] = Render(want[p], pkg, r)
      BY <1>a, <1>b, <2>1, <3>1, <3>2 DEF Reached
    <3>. QED
      BY <1>f, <2>1, <2>2, <3>1, <3>2 DEF Reached
  <2>3. CASE /\ row[p] \notin Rows /\ tmp' = tmp
             /\ pc'[p] = "rename" /\ row'[p] = 1
    BY <1>b, <1>f, <2>1, <2>3 DEF Reached
  <2>4. CASE pc'[p] = "idle" /\ ret'[p] = "EIO"
    BY <1>f, <2>4 DEF Reached
  <2>. QED
    BY <1>2, <1>a, <2>2, <2>3, <2>4 DEF WriteTemp
<1>3. CASE RenameTemp(p)
  <2>1. /\ UNCHANGED <<pkg, tpl, want>> /\ pc[p] = "rename" /\ tpl[p] = pkg
    BY <1>3 DEF RenameTemp, Reached
  <2>2. CASE /\ row[p] \in Rows /\ gen' = [gen EXCEPT ![row[p]] = tmp[p][row[p]]]
             /\ tmp' = [tmp EXCEPT ![p][row[p]] = Absent]
             /\ row' = [row EXCEPT ![p] = row[p] + 1] /\ pc' = pc
    <3>1. row'[p] = row[p] + 1 /\ tmp'[p] = [tmp[p] EXCEPT ![row[p]] = Absent]
      BY <1>a, <2>2
    <3>2. ASSUME NEW r \in Rows
          PROVE  (IF r < row'[p] THEN gen'[r] ELSE tmp'[p][r]) = Render(want[p], pkg, r)
      <4>1. (IF r < row[p] THEN gen[r] ELSE tmp[p][r]) = Render(want[p], pkg, r)
        BY <2>1 DEF Reached
      <4>. QED
        BY <1>a, <1>b, <2>2, <3>1, <4>1
    <3>. QED
      BY <1>f, <2>1, <2>2, <3>1, <3>2 DEF Reached
  <2>3. CASE /\ row[p] \notin Rows /\ UNCHANGED <<gen, tmp>>
             /\ pc'[p] = "open" /\ row'[p] = 1
    BY <1>b, <1>f, <2>1, <2>3 DEF Reached
  <2>4. CASE pc'[p] = "idle" /\ ret'[p] = "EIO"
    BY <1>f, <2>4 DEF Reached
  <2>. QED
    BY <1>3, <1>a, <2>2, <2>3, <2>4 DEF RenameTemp
<1>4. CASE OpenConf(p) \/ WriteConf(p)
  <2>1. /\ UNCHANGED <<pkg, want, gen, row>> /\ pc[p] \in {"open", "write"}
        /\ \/ pc'[p] = "write"
           \/ pc'[p] = "unlink" /\ conf' = want[p]
           \/ pc'[p] = "idle" /\ ret'[p] = "EIO"
    BY <1>4, <1>a DEF OpenConf, WriteConf
  <2>. QED
    BY <1>b, <1>f, <2>1 DEF Reached
<1>5. CASE Unlink(p)
  <2>1. UNCHANGED <<pkg, want, gen, conf, row>> /\ pc[p] = "unlink"
    BY <1>5 DEF Unlink
  <2>2. CASE /\ row[p] \in Rows /\ link' = [link EXCEPT ![row[p]] = "absent"]
             /\ pc'[p] = "symlink"
    <3>1. \A r \in Rows : r < row[p] => link'[r] = link[r]
      BY <1>a, <1>b, <2>2
    <3>. QED
      BY <1>f, <2>1, <2>2, <3>1 DEF Reached
  <2>3. CASE row[p] \notin Rows /\ pc'[p] = "dconf" /\ link' = link
    BY <1>b, <1>f, <2>1, <2>3 DEF Reached
  <2>4. CASE pc'[p] = "idle" /\ ret'[p] = "EIO"
    BY <1>f, <2>4 DEF Reached
  <2>. QED
    BY <1>5, <1>a, <2>2, <2>3, <2>4 DEF Unlink
<1>6. CASE Symlink(p)
  <2>1. UNCHANGED <<pkg, want, gen, conf>> /\ pc[p] = "symlink"
    BY <1>6 DEF Symlink
  <2>2. CASE /\ link' = [link EXCEPT ![row[p]] = "authselect"]
             /\ row' = [row EXCEPT ![p] = row[p] + 1] /\ pc'[p] = "unlink"
    <3>1. row'[p] = row[p] + 1
      BY <1>a, <2>2
    <3>2. \A r \in Rows : r < row[p] + 1 => link'[r] = "authselect"
      BY <1>a, <1>b, <2>1, <2>2 DEF Reached
    <3>. QED
      BY <1>f, <2>1, <2>2, <3>1, <3>2 DEF Reached
  <2>3. CASE pc'[p] = "idle" /\ ret'[p] # "EOK"
    BY <1>f, <2>3 DEF Reached
  <2>. QED
    BY <1>6, <1>a, <2>2, <2>3 DEF Symlink
<1>7. CASE UpdateDconf(p)
  <2>1. /\ UNCHANGED <<pkg, want, gen, conf, link>> /\ pc[p] = "dconf"
        /\ pc'[p] = "checksum copy" \/ (pc'[p] = "idle" /\ ret'[p] = "EIO")
    BY <1>7, <1>a DEF UpdateDconf
  <2>. QED
    BY <1>f, <2>1 DEF Reached
<1>8. CASE CopyChecksum(p)
  <2>1. UNCHANGED <<pkg, want, gen, conf, link>> /\ pc[p] = "checksum copy" /\ pc'[p] = "idle"
    BY <1>8, <1>a DEF CopyChecksum
  <2>. QED
    BY <1>f, <2>1 DEF Reached
<1>9. CASE Crash(p)
  <2>1. pc'[p] = "idle" /\ ret'[p] # "EOK"
    BY <1>9, <1>a DEF Crash
  <2>. QED
    BY <1>f, <2>1 DEF Reached
<1>. QED
  BY <1>1, <1>2, <1>3, <1>4, <1>5, <1>6, <1>7, <1>8, <1>9 DEF Step

(* Whoever starts a command or does anything else ends the others' claim   *)
(* to have been alone.                                                     *)
LEMMA SoloNext == TInv /\ ISolo /\ [Next]_vars => ISolo'
<1>. SUFFICES ASSUME TInv, ISolo, [Next]_vars PROVE ISolo'
  OBVIOUS
<1>1. ASSUME NEW p \in Procs, Start(p) PROVE ISolo'
  <2>1. /\ \A q \in Procs \ {p} : pc'[q] = pc[q] /\ ret'[q] = ret[q] /\ ~solo'[q]
        /\ pc'[p] \in {"profile", "conf"} /\ ret'[p] = "running"
        /\ solo'[p] => \A o \in Procs : pc[o] = "idle"
    BY <1>1 DEF Start, TInv, TypeOK
  <2>2. solo'[p] => Reached(p)'
    BY <2>1 DEF Reached
  <2>3. pc'[p] # "idle" => ret'[p] = "running"
    BY <2>1
  <2>4. ASSUME NEW q \in Procs \ {p} PROVE pc'[q] # "idle" => ret'[q] = "running"
    BY <2>1 DEF ISolo
  <2>. QED
    BY <2>1, <2>2, <2>3, <2>4, Zenon DEF ISolo
<1>2. ASSUME NEW p \in Procs, Step(p) \/ Crash(p) PROVE ISolo'
  BY <1>2, SoloStep
<1>3. CASE PackageUpdate \/ \E r \in Rows : Overwrite(r)
  BY <1>3 DEF PackageUpdate, Overwrite, ISolo
<1>4. CASE Finished \/ UNCHANGED vars
  <2>1. UNCHANGED <<pc, ret, solo, row, tpl, tmp, want, conf, gen, link, pkg>>
    BY <1>4 DEF Finished, vars, disk, locals, counters
  <2>2. \A p \in Procs : Reached(p)' <=> Reached(p)
    BY <2>1 DEF Reached
  <2>. QED
    BY <2>1, <2>2 DEF ISolo
<1>. QED
  BY <1>1, <1>2, <1>3, <1>4 DEF Next

(* Among any number of commands, failures, crashes and updates: a command  *)
(* that had the system to itself and reports success has done all of it.   *)
THEOREM SuccessAlone == Spec => []SoloActivates
<1>1. ISolo => SoloActivates
  BY DEF ISolo, Reached, SoloActivates
<1>. QED  BY <1>1, TypeInit, TypeNext, SoloInit, SoloNext, PTL DEF Spec

-----------------------------------------------------------------------------

LEMMA PlacedInv == Spec => []Placed
BY TypeInit, TypeNext, PlacedInit, PlacedNext, PTL DEF Spec

LEMMA RefuseStep ==
    ASSUME TInv, Placed, IRefuse, NEW p \in Procs, Step(p) \/ Crash(p)
    PROVE  IRefuse'
<1>. USE DEF Undisturbed, NoFault, Goto, End, DiskKept, Touch, locals, disk
<1>a. /\ pc \in [Procs -> Labels] /\ row \in [Procs -> 1..(N + 1)]
      /\ ret \in [Procs -> Errnos] /\ touched \in [Procs -> SUBSET Changes]
      /\ link \in [Rows -> {"authselect", "other", "absent", "none"}]
  BY DEF TInv, TypeOK
<1>b. /\ \A q \in Procs \ {p} : pc'[q] = pc[q] /\ ret'[q] = ret[q] /\ touched'[q] = touched[q]
      /\ pc'[p] # "idle" => ret'[p] = ret[p]
      /\ pc[p] # "idle" /\ solo' = solo
  BY <1>a DEF Step, Crash, ReadConf, CompareChecksum, TrimFeatures, ReadProfile, Validate,
     CheckLocations, MakeDirectory, WriteTemp, RenameTemp, OpenConf, WriteConf, Unlink,
     Symlink, UpdateDconf, CopyChecksum
<1>c. \A q \in Procs \ {p} : ~(solo[q] \/ Single)
  BY <1>b DEF IRefuse, Refuses, Single
<1>d. Refuses(p)
  BY DEF IRefuse
<1>e. ASSUME NEW q \in Procs \ {p} PROVE Refuses(q)'
  <2>1. Refuses(q)
    BY DEF IRefuse
  <2>2. ~solo'[q] /\ ~Single /\ Single' = Single
    BY <1>b, <1>c DEF Single
  <2>3. /\ pc'[q] \in Reading => touched'[q] = {}
        /\ pc'[q] \in {"locations", "mkdir", "temp"} => touched'[q] \subseteq {"directories"}
    BY <1>b, <2>1 DEF Refuses
  <2>4. /\ ret'[q] \in EarlyRefusals => touched'[q] = {}
        /\ ret'[q] \in LateRefusals => touched'[q] \subseteq {"directories"}
    BY <1>b, <2>1 DEF Refuses
  <2>5. pc'[q] # "idle" => ret'[q] = "running"
    BY <1>b, <2>1 DEF Refuses
  <2>. QED
    BY <2>2, <2>3, <2>4, <2>5, Zenon DEF Refuses
<1>f. /\ pc'[p] # "idle" => ret'[p] = "running"
      /\ solo'[p] => \A q \in Procs \ {p} : pc'[q] = "idle"
  BY <1>b, <1>d, Zenon DEF Refuses
<1>. DEFINE Kept ==
       /\ pc'[p] \in Reading => touched'[p] = {}
       /\ pc'[p] \in {"locations", "mkdir", "temp"} => touched'[p] \subseteq {"directories"}
       /\ pc'[p] = "idle" /\ ret'[p] \in EarlyRefusals => touched'[p] = {}
       /\ pc'[p] = "idle" /\ ret'[p] \in LateRefusals => touched'[p] \subseteq {"directories"}
       /\ solo[p] \/ Single =>
             /\ pc'[p] = "symlink" => link'[row'[p]] = "absent"
             /\ pc'[p] = "idle" /\ ret'[p] = "EEXIST" => touched'[p] = {}
<1>g. ASSUME Kept PROVE Refuses(p)'
  <2>1. "running" \notin EarlyRefusals \cup LateRefusals
    BY DEF EarlyRefusals, LateRefusals
  <2>2. /\ ret'[p] \in EarlyRefusals => touched'[p] = {}
        /\ ret'[p] \in LateRefusals => touched'[p] \subseteq {"directories"}
    BY <1>f, <1>g, <2>1
  <2>3. ASSUME solo'[p] \/ Single PROVE ret'[p] = "EEXIST" => touched'[p] = {}
    BY <1>b, <1>f, <1>g, <2>3
  <2>4. Single' = Single /\ solo' = solo
    BY <1>b DEF Single
  <2>. QED
    BY <1>f, <1>g, <2>2, <2>3, <2>4, Zenon DEF Refuses
<1>. SUFFICES Kept
  BY <1>e, <1>g, Zenon DEF IRefuse
<1>. USE DEF EarlyRefusals, LateRefusals, Reading
<1>1. CASE \/ ReadConf(p) \/ CompareChecksum(p) \/ TrimFeatures(p) \/ ReadProfile(p)
          \/ Validate(p)
  <2>1. /\ pc[p] \in Reading /\ touched' = touched
        /\ pc'[p] \notin {"symlink"}
    BY <1>1, <1>a DEF ReadConf, CompareChecksum, TrimFeatures, ReadProfile, Validate
  <2>. QED
    BY <1>d, <2>1 DEF Refuses
<1>5. CASE CheckLocations(p) \/ MakeDirectory(p) \/ WriteTemp(p)
  <2>1. /\ pc[p] \in {"locations", "mkdir", "temp"}
        /\ touched'[p] \in {touched[p], touched[p] \cup {"directories"}}
        /\ pc'[p] \notin Reading \cup {"symlink"}
        /\ pc'[p] = "idle" => ret'[p] \in LateRefusals \cup {"EIO"}
    BY <1>5, <1>a DEF CheckLocations, MakeDirectory, WriteTemp
  <2>. QED
    BY <1>d, <2>1 DEF Refuses
<1>2. CASE \/ RenameTemp(p) \/ OpenConf(p) \/ WriteConf(p) \/ UpdateDconf(p)
          \/ CopyChecksum(p) \/ Crash(p)
  <2>1. /\ pc'[p] \notin Before \cup {"temp", "symlink"} \/ (pc'[p] = pc[p] /\ pc[p] = "rename")
        /\ pc'[p] = "idle" => ret'[p] \in {"EIO", "EOK", "crashed"}
    BY <1>2, <1>a DEF RenameTemp, OpenConf, WriteConf, UpdateDconf, CopyChecksum, Crash,
        Before
  <2>. QED
    BY <2>1 DEF Before
<1>3. CASE Unlink(p)
  <2>1. /\ pc'[p] \in {"symlink", "dconf", "idle"}
        /\ pc'[p] = "idle" => ret'[p] = "EIO"
        /\ pc'[p] = "symlink" => /\ row[p] \in Rows /\ row' = row
                                 /\ link' = [link EXCEPT ![row[p]] = "absent"]
    BY <1>3, <1>a DEF Unlink
  <2>. QED
    BY <1>a, <2>1
<1>4. CASE Symlink(p)
  <2>1. /\ pc'[p] \in {"unlink", "idle"} /\ pc[p] = "symlink"
        /\ row[p] \in dirs
        /\ pc'[p] = "idle" => ret'[p] = "EIO" \/ (ret'[p] = "EEXIST" /\ link[row[p]] # "absent")
    BY <1>4, <1>a DEF Symlink, Placed, TInv, Guided
  <2>. QED
    BY <1>d, <2>1 DEF Refuses
<1>. QED
  BY <1>1, <1>2, <1>3, <1>4, <1>5 DEF Step

LEMMA RefuseNext == TInv /\ Placed /\ IRefuse /\ [Next]_vars => IRefuse'
<1>. SUFFICES ASSUME TInv, Placed, IRefuse, [Next]_vars PROVE IRefuse'
  OBVIOUS
<1>1. ASSUME NEW p \in Procs, Start(p) PROVE IRefuse'
  <2>1. /\ \A q \in Procs \ {p} : /\ pc'[q] = pc[q] /\ ret'[q] = ret[q]
                                  /\ touched'[q] = touched[q] /\ ~solo'[q]
        /\ pc'[p] \in {"profile", "conf"} /\ ret'[p] = "running" /\ touched'[p] = {}
        /\ solo'[p] => \A o \in Procs : pc[o] = "idle"
    BY <1>1 DEF Start, TInv, TypeOK
  <2>2. \A q \in Procs \ {p} : ~Single
    BY DEF Single
  <2>. QED
    BY <2>1, <2>2 DEF IRefuse, Refuses, Single, EarlyRefusals, LateRefusals
<1>2. ASSUME NEW p \in Procs, Step(p) \/ Crash(p) PROVE IRefuse'
  BY <1>2, RefuseStep
<1>3. CASE PackageUpdate \/ \E r \in Rows : Overwrite(r)
  <2>1. /\ UNCHANGED <<pc, ret, touched, row>> /\ \A p \in Procs : ~solo'[p]
        /\ link' = link \/ \A p \in Procs : pc[p] = "idle"
    BY <1>3 DEF PackageUpdate, Overwrite, Quiet, disk, locals
  <2>. QED
    BY <2>1 DEF IRefuse, Refuses, Single
<1>4. CASE Finished \/ UNCHANGED vars
  BY <1>4 DEF Finished, vars, disk, locals, counters, IRefuse, Refuses, Single
<1>. QED
  BY <1>1, <1>2, <1>3, <1>4 DEF Next

(* For any number of commands that interleave: a missing configuration or  *)
(* profile, no action needed and an unknown feature are found before       *)
(* anything is changed; a location that cannot be written and a            *)
(* nsswitch.conf that does not parse, before more is made than directories.*)
(* No link fails later for want of its directory (that would be ENOENT).   *)
THEOREM EarlyRefusalsAreHarmless ==
    Spec => [](\A p \in Procs :
                  /\ ret[p] \in EarlyRefusals => touched[p] = {}
                  /\ ret[p] \in LateRefusals => touched[p] \subseteq {"directories"})
<1>1. IRefuse => \A p \in Procs :
                    /\ ret[p] \in EarlyRefusals => touched[p] = {}
                    /\ ret[p] \in LateRefusals => touched[p] \subseteq {"directories"}
  BY DEF IRefuse, Refuses
<1>. QED
  BY <1>1, TypeInit, TypeNext, PlacedInv, SoloInit, RefuseNext, PTL DEF Spec

(* EEXIST, too, changes nothing when one command runs at a time: it is     *)
(* then the refusal to overwrite a foreign configuration, and never a link *)
(* that another command has made between unlink and symlink.               *)
THEOREM RefusalsAreHarmless == Single => (Spec => []RefusalLeavesFiles)
<1>. SUFFICES ASSUME Single PROVE Spec => []RefusalLeavesFiles
  OBVIOUS
<1>1. IRefuse => RefusalLeavesFiles
  BY DEF IRefuse, Refuses, RefusalLeavesFiles, EarlyRefusals, LateRefusals
<1>. QED
  BY <1>1, TypeInit, TypeNext, PlacedInv, SoloInit, RefuseNext, PTL DEF Spec

-----------------------------------------------------------------------------
(* A missing name that no process is about to create again.                *)
Orphans ==
    {r \in Rows : link[r] = "absent"
                  /\ \A p \in Procs : ~(pc[p] = "symlink" /\ row[p] = r)}

(* Every orphan has cost a failure.                                        *)
IOrphans == IsFiniteSet(Orphans) /\ Cardinality(Orphans) <= faults

(* q is going to link row r, and nothing but a failure keeps it from that. *)
(* A process whose name has been linked by another is lost for the names   *)
(* that are left, but the other one is ahead of it.                        *)
Pending(q, r) ==
    \/ pc[q] \in {"rename", "open", "write"}
    \/ pc[q] = "unlink" /\ row[q] <= r
    \/ pc[q] = "symlink" /\ row[q] <= r /\ link[row[q]] = "absent"

Undamaged == faults = 0 /\ edits = 0

IRace ==
    /\ \A p \in Procs :
          /\ pc[p] \in {"write", "unlink", "symlink", "dconf", "checksum copy"} => "files" \in touched[p]
          /\ pc[p] \in {"open", "write"} => row[p] = 1
    /\ Undamaged /\ (\E p \in Procs : "files" \in touched[p]) =>
          \A r \in Rows : link[r] = "authselect" \/ \E q \in Procs : Pending(q, r)

(* The file, if it has content, comes from the installed templates.        *)
Fresh(file) == file \notin {Absent, Blank} => file.version = pkg

Renamed == {"open", "write", "unlink", "symlink", "dconf", "checksum copy"}

(* If an update waits for the commands that run, what they have read, what *)
(* they have written and what they have renamed comes from one version.    *)
IFresh ==
    /\ sumCopy \in Versions => sumCopy <= pkg
    /\ ~UpdateAnytime =>
          /\ \A p \in Procs :
                /\ pc[p] \in {"validate", "locations", "mkdir", "temp", "rename"} => tpl[p] = pkg
                /\ pc[p] # "idle" => \A r \in Rows : Fresh(tmp[p][r])
                /\ pc[p] = "rename" => \A r \in Rows : r < row[p] => Fresh(gen[r])
                /\ pc[p] \in Renamed => \A r \in Rows : Fresh(gen[r])
          /\ FreshWhenUpToDate

-----------------------------------------------------------------------------

LEMMA TypeInv == Spec => []TInv
BY TypeInit, TypeNext, PTL DEF Spec

LEMMA OrphansInit == Init => IOrphans
<1>. SUFFICES ASSUME Init PROVE IOrphans
  OBVIOUS
<1>1. Orphans = {}
  BY DEF Orphans, Init, Unconfigured, Configured
<1>. QED
  BY <1>1, FS_EmptySet DEF IOrphans, Init

(* Only a failure while a process is between unlink and symlink makes an   *)
(* orphan, and it makes one.                                               *)
LEMMA OrphansStep ==
    ASSUME TInv, Placed, NEW p \in Procs, Step(p) \/ Crash(p)
    PROVE  \/ Orphans' \subseteq Orphans /\ faults' \in {faults, faults + 1}
           \/ Orphans' \subseteq Orphans \cup {row[p]} /\ faults' = faults + 1
<1>. USE DEF Undisturbed, NoFault, Goto, End, DiskKept, Touch, locals, disk
<1>a. /\ pc \in [Procs -> Labels] /\ row \in [Procs -> 1..(N + 1)]
      /\ link \in [Rows -> {"authselect", "other", "absent", "none"}]
      /\ pc[p] = "symlink" => row[p] \in Rows
  BY DEF TInv, TypeOK, Guided
<1>d. pc[p] = "symlink" => row[p] \in dirs
  BY <1>a DEF Placed
<1>1. CASE \/ ReadConf(p) \/ CompareChecksum(p) \/ TrimFeatures(p) \/ ReadProfile(p)
          \/ Validate(p) \/ CheckLocations(p) \/ MakeDirectory(p) \/ WriteTemp(p)
          \/ RenameTemp(p) \/ OpenConf(p) \/ WriteConf(p) \/ UpdateDconf(p) \/ CopyChecksum(p)
  <2>1. /\ UNCHANGED link /\ faults' \in {faults, faults + 1}
        /\ pc[p] # "symlink" /\ \A q \in Procs \ {p} : pc'[q] = pc[q] /\ row'[q] = row[q]
    BY <1>1, <1>a DEF ReadConf, CompareChecksum, TrimFeatures, ReadProfile, Validate,
        CheckLocations, MakeDirectory, WriteTemp, RenameTemp, OpenConf, WriteConf,
        UpdateDconf, CopyChecksum, Fault
  <2>. QED
    BY <2>1 DEF Orphans
<1>2. CASE Unlink(p)
  <2>1. \/ /\ row[p] \in Rows /\ link' = [link EXCEPT ![row[p]] = "absent"]
           /\ pc' = [pc EXCEPT ![p] = "symlink"] /\ UNCHANGED <<row, faults>>
        \/ /\ pc'[p] # "symlink" /\ \A q \in Procs \ {p} : pc'[q] = pc[q]
           /\ UNCHANGED <<link, row>> /\ faults' \in {faults, faults + 1}
    BY <1>2, <1>a DEF Unlink, Fault
  <2>. QED
    BY <1>2, <1>a, <2>1 DEF Unlink, Orphans
<1>3. CASE Symlink(p)
  <2>1. CASE /\ link' = [link EXCEPT ![row[p]] = "authselect"] /\ UNCHANGED faults
             /\ \A q \in Procs \ {p} : pc'[q] = pc[q] /\ row'[q] = row[q]
    BY <1>a, <2>1, <1>3 DEF Orphans, Symlink
  <2>2. CASE /\ link[row[p]] # "absent" /\ UNCHANGED <<link, row, faults>>
             /\ \A q \in Procs \ {p} : pc'[q] = pc[q]
    BY <1>a, <2>2, <1>3 DEF Orphans, Symlink
  <2>3. CASE /\ UNCHANGED <<link, row>> /\ faults' = faults + 1
             /\ \A q \in Procs \ {p} : pc'[q] = pc[q]
    BY <1>a, <2>3 DEF Orphans
  <2>. QED
    BY <1>3, <1>a, <1>d, <2>1, <2>2, <2>3 DEF Symlink, Fault
<1>4. CASE Crash(p)
  <2>1. /\ UNCHANGED <<link, row>> /\ faults' = faults + 1
        /\ \A q \in Procs \ {p} : pc'[q] = pc[q]
    BY <1>4, <1>a DEF Crash, Fault
  <2>. QED
    BY <1>a, <2>1 DEF Orphans
<1>. QED
  BY <1>1, <1>2, <1>3, <1>4 DEF Step

LEMMA OrphansNext == TInv /\ Placed /\ IOrphans /\ [Next]_vars => IOrphans'
<1>. SUFFICES ASSUME TInv, Placed, IOrphans, [Next]_vars PROVE IOrphans'
  OBVIOUS
<1>a. faults \in Nat /\ IsFiniteSet(Orphans) /\ Cardinality(Orphans) \in Nat
      /\ Cardinality(Orphans) <= faults
  BY FS_CardinalityType DEF TInv, TypeOK, IOrphans
<1>1. \/ Orphans' \subseteq Orphans /\ faults' \in {faults, faults + 1}
      \/ \E r : Orphans' \subseteq Orphans \cup {r} /\ faults' = faults + 1
  <2>1. ASSUME NEW p \in Procs, Start(p)
        PROVE  Orphans' \subseteq Orphans /\ faults' = faults
    <3>1. /\ UNCHANGED <<link, faults>> /\ pc[p] = "idle"
          /\ \A q \in Procs \ {p} : pc'[q] = pc[q] /\ row'[q] = row[q]
      BY <2>1 DEF Start, disk, TInv, TypeOK
    <3>. QED
      BY <3>1 DEF Orphans
  <2>2. ASSUME NEW r \in Rows, Overwrite(r)
        PROVE  Orphans' \subseteq Orphans /\ faults' = faults
    BY <2>2 DEF Overwrite, Orphans, locals, TInv, TypeOK
  <2>3. CASE PackageUpdate \/ Finished \/ UNCHANGED vars
    BY <2>3 DEF PackageUpdate, Finished, vars, disk, locals, counters, Orphans
  <2>4. ASSUME NEW p \in Procs, Step(p) \/ Crash(p)
        PROVE  \/ Orphans' \subseteq Orphans /\ faults' \in {faults, faults + 1}
               \/ Orphans' \subseteq Orphans \cup {row[p]} /\ faults' = faults + 1
    BY <2>4, OrphansStep
  <2>. QED
    BY <2>1, <2>2, <2>3, <2>4 DEF Next
<1>2. CASE Orphans' \subseteq Orphans /\ faults' \in {faults, faults + 1}
  <2>1. IsFiniteSet(Orphans') /\ Cardinality(Orphans') <= Cardinality(Orphans)
    BY <1>a, <1>2, FS_Subset
  <2>2. Cardinality(Orphans') \in Nat
    BY <2>1, FS_CardinalityType
  <2>. QED
    BY <1>a, <1>2, <2>1, <2>2 DEF IOrphans
<1>3. ASSUME NEW r, Orphans' \subseteq Orphans \cup {r}, faults' = faults + 1
      PROVE  IOrphans'
  <2>1. IsFiniteSet(Orphans \cup {r}) /\ Cardinality(Orphans \cup {r}) \in Nat
        /\ Cardinality(Orphans \cup {r}) <= Cardinality(Orphans) + 1
    <3>1. /\ IsFiniteSet(Orphans \cup {r})
          /\ Cardinality(Orphans \cup {r})
                = IF r \in Orphans THEN Cardinality(Orphans) ELSE Cardinality(Orphans) + 1
      BY <1>a, FS_AddElement, Zenon
    <3>. QED  BY <1>a, <3>1
  <2>2. IsFiniteSet(Orphans') /\ Cardinality(Orphans') <= Cardinality(Orphans \cup {r})
    BY <1>3, <2>1, FS_Subset
  <2>3. Cardinality(Orphans') \in Nat
    BY <2>2, FS_CardinalityType
  <2>. QED
    BY <1>a, <1>3, <2>1, <2>2, <2>3 DEF IOrphans
<1>. QED
  BY <1>1, <1>2, <1>3

(* The names that are missing are orphans, or one for each process that is *)
(* about to create its own.                                                *)
LEMMA MissingNames == TInv /\ IOrphans => FewNamesMissing
<1>. SUFFICES ASSUME TInv, IOrphans PROVE FewNamesMissing
  OBVIOUS
<1>. DEFINE Linkers == {p \in Procs : pc[p] = "symlink"}
            Held    == {r \in Rows : \E p \in Linkers : row[p] = r}
            Lacking == {r \in Rows : link[r] = "absent"}
            at      == [p \in Linkers |-> row[p]]
<1>1. IsFiniteSet(Linkers)
  <2>1. Linkers \in SUBSET Procs
    OBVIOUS
  <2>. QED
    BY <2>1, ProcsAssumption, FS_Subset
<1>2. at \in Surjection(Linkers, Held)
  <2>1. \A p \in Linkers : row[p] \in Rows
    BY DEF TInv, Guided
  <2>2. at \in [Linkers -> Held] /\ \A r \in Held : \E p \in Linkers : at[p] = r
    BY <2>1
  <2>. QED
    BY <2>2, Fun_IsSurj
<1>3. IsFiniteSet(Held) /\ Cardinality(Held) <= Cardinality(Linkers)
  BY <1>1, <1>2, FS_Surjection
<1>4. Lacking \in SUBSET (Orphans \cup Held)
  BY DEF Orphans
<1>5. /\ IsFiniteSet(Orphans) /\ Cardinality(Orphans) <= faults /\ faults \in Nat
      /\ Cardinality(Orphans) \in Nat
  BY FS_CardinalityType DEF IOrphans, TInv, TypeOK
<1>6. /\ IsFiniteSet(Orphans \cup Held)
      /\ Cardinality(Orphans \cup Held)
            = Cardinality(Orphans) + Cardinality(Held) - Cardinality(Orphans \cap Held)
      /\ IsFiniteSet(Orphans \cap Held)
  <2>1. (Orphans \cap Held) \in SUBSET Orphans
    OBVIOUS
  <2>. QED
    BY <1>3, <1>5, <2>1, FS_Union, FS_Subset
<1>7. IsFiniteSet(Lacking) /\ Cardinality(Lacking) <= Cardinality(Orphans \cup Held)
  BY <1>4, <1>6, FS_Subset
<1>8. /\ Cardinality(Lacking) \in Nat /\ Cardinality(Held) \in Nat
      /\ Cardinality(Linkers) \in Nat /\ Cardinality(Orphans \cap Held) \in Nat
      /\ Cardinality(Orphans \cup Held) \in Nat
  BY <1>1, <1>3, <1>6, <1>7, FS_CardinalityType
<1>9. Cardinality(Lacking) <= Cardinality(Linkers) + faults
  <2>. HIDE DEF Linkers, Held, Lacking
  <2>. QED
    BY <1>3, <1>5, <1>6, <1>7, <1>8
<1>. QED
  BY <1>9 DEF FewNamesMissing

(* A log-in misses no more names than there are processes between unlink   *)
(* and symlink and failures so far.                                        *)
THEOREM FewNamesAreMissing == Spec => []FewNamesMissing
<1>. QED  BY TypeInv, PlacedInv, OrphansInit, OrphansNext, MissingNames, TypeInit, PTL DEF Spec

-----------------------------------------------------------------------------

LEMMA RaceInit == Init => IRace
BY DEF Init, IRace

(* A step that neither links nor changes who is going to link.             *)
LEMMA RaceFrame ==
    ASSUME TInv, IRace, NEW p \in Procs,
           UNCHANGED link, edits' = edits, faults' = faults,
           \A q \in Procs \ {p} :
               pc'[q] = pc[q] /\ row'[q] = row[q] /\ touched'[q] = touched[q],
           \A r \in Rows : Pending(p, r) => Pending(p, r)',
           "files" \in touched'[p] => "files" \in touched[p] \/ \A r \in Rows : Pending(p, r)',
           pc'[p] \in {"write", "unlink", "symlink", "dconf", "checksum copy"} => "files" \in touched'[p],
           pc'[p] \in {"open", "write"} => row'[p] = 1
    PROVE  IRace'
<1>1. \A q \in Procs, r \in Rows : Pending(q, r) => Pending(q, r)'
  BY DEF Pending
<1>. QED
  BY <1>1 DEF IRace, Undamaged

LEMMA RaceStep ==
    ASSUME TInv, Placed, IRace, NEW p \in Procs, Step(p), faults' = faults
    PROVE  IRace'
<1>. USE DEF Undisturbed, NoFault, Goto, End, DiskKept, Touch, locals, disk
<1>a. /\ pc \in [Procs -> Labels] /\ row \in [Procs -> 1..(N + 1)]
      /\ link \in [Rows -> {"authselect", "other", "absent", "none"}]
      /\ touched \in [Procs -> SUBSET Changes]
      /\ pc[p] = "symlink" => row[p] \in Rows
      /\ faults \in Nat
  BY DEF TInv, TypeOK, Guided
<1>b. \A kind : ~Fault(kind)
  BY <1>a DEF Fault
<1>c. pc[p] \in {"write", "unlink", "symlink", "dconf", "checksum copy"} => "files" \in touched[p]
  BY DEF IRace
<1>d. pc[p] = "symlink" => row[p] \in dirs
  BY <1>a DEF Placed
<1>1. CASE \/ ReadConf(p) \/ CompareChecksum(p) \/ TrimFeatures(p) \/ ReadProfile(p)
          \/ Validate(p) \/ CheckLocations(p) \/ WriteTemp(p)
  <2>1. /\ UNCHANGED <<link, edits, touched>>
        /\ \A q \in Procs \ {p} :
              pc'[q] = pc[q] /\ row'[q] = row[q]
        /\ pc[p] \notin {"rename", "open", "write", "unlink", "symlink"}
        /\ pc'[p] \notin {"open", "write", "unlink", "symlink", "dconf", "checksum copy"}
    BY <1>1, <1>a, <1>b DEF ReadConf, CompareChecksum, TrimFeatures, ReadProfile, Validate,
        CheckLocations, WriteTemp
  <2>. QED
    BY <2>1, RaceFrame DEF Pending
<1>7. CASE MakeDirectory(p)
  <2>1. /\ UNCHANGED <<link, edits>> /\ pc[p] = "mkdir" /\ pc'[p] = "locations"
        /\ \A q \in Procs \ {p} :
              pc'[q] = pc[q] /\ row'[q] = row[q] /\ touched'[q] = touched[q]
        /\ touched'[p] \in {touched[p], touched[p] \cup {"directories"}}
    <3>1. /\ UNCHANGED <<link, edits>> /\ pc[p] = "mkdir"
          /\ pc' = [pc EXCEPT ![p] = "locations"] /\ row' = [row EXCEPT ![p] = row[p] + 1]
          /\ \/ touched' = touched
             \/ touched' = [touched EXCEPT ![p] = touched[p] \cup {"directories"}]
      BY <1>7, <1>b, Zenon DEF MakeDirectory
    <3>. QED  BY <1>a, <3>1
  <2>. QED
    BY <2>1, RaceFrame DEF Pending
<1>2. CASE RenameTemp(p) \/ OpenConf(p)
  <2>1. /\ UNCHANGED <<link, edits>>
        /\ \A q \in Procs \ {p} :
              pc'[q] = pc[q] /\ row'[q] = row[q] /\ touched'[q] = touched[q]
        /\ pc'[p] \in {"rename", "open", "write"}
        /\ pc'[p] = "write" => "files" \in touched'[p]
        /\ pc'[p] \in {"open", "write"} => row'[p] = 1
    BY <1>2, <1>a, <1>b DEF RenameTemp, OpenConf, IRace
  <2>. QED
    BY <2>1, RaceFrame DEF Pending
<1>3. CASE WriteConf(p)
  <2>1. /\ UNCHANGED <<link, edits, row>> /\ pc[p] = "write"
        /\ \A q \in Procs \ {p} : pc'[q] = pc[q] /\ touched'[q] = touched[q]
        /\ pc'[p] = "unlink" /\ "files" \in touched'[p] /\ row[p] = 1
    BY <1>3, <1>a, <1>b DEF WriteConf, IRace
  <2>2. \A r \in Rows : 1 <= r
    BY DEF Rows
  <2>. QED
    BY <1>c, <2>1, <2>2, RaceFrame, <1>a DEF Pending
<1>4. CASE Unlink(p)
  <2>1. CASE row[p] \in Rows
    <3>1. /\ link' = [link EXCEPT ![row[p]] = "absent"] /\ UNCHANGED <<row, edits>>
          /\ pc' = [pc EXCEPT ![p] = "symlink"] /\ pc[p] = "unlink"
          /\ touched' = [touched EXCEPT ![p] = @ \cup {"files"}]
      BY <1>4, <1>b, <2>1, Zenon DEF Unlink
    <3>2. row[p] <= row[p]
      BY <1>a
    <3>3. \A q \in Procs, r \in Rows : Pending(q, r) => Pending(q, r)'
      BY <1>a, <2>1, <3>1 DEF Pending
    <3>4. \A r \in Rows : link[r] = "authselect" => link'[r] = "authselect" \/ Pending(p, r)'
      BY <1>a, <2>1, <3>1, <3>2 DEF Pending
    <3>5. (\E q \in Procs : "files" \in touched'[q]) => \E q \in Procs : "files" \in touched[q]
      BY <1>c, <3>1
    <3>6. \A q \in Procs :
             /\ pc'[q] \in {"write", "unlink", "symlink", "dconf", "checksum copy"} => "files" \in touched'[q]
             /\ pc'[q] \in {"open", "write"} => row'[q] = 1
      BY <1>a, <3>1 DEF IRace
    <3>. QED
      BY <3>1, <3>3, <3>4, <3>5, <3>6 DEF IRace, Undamaged
  <2>2. CASE row[p] \notin Rows
    <3>1. /\ UNCHANGED <<link, row, edits, touched>> /\ pc[p] = "unlink"
          /\ pc' = [pc EXCEPT ![p] = "dconf"]
      BY <1>4, <1>b, <2>2, Zenon DEF Unlink
    <3>2. \A r \in Rows : ~(row[p] <= r)
      BY <1>a, <2>2, RowsAssumption DEF Rows
    <3>. QED
      BY <1>a, <1>c, <3>1, <3>2, RaceFrame DEF Pending
  <2>. QED
    BY <2>1, <2>2
<1>5. CASE Symlink(p)
  <2>1. CASE row[p] \in dirs /\ link[row[p]] = "absent"
    <3>1. /\ link' = [link EXCEPT ![row[p]] = "authselect"] /\ UNCHANGED edits
          /\ row' = [row EXCEPT ![p] = row[p] + 1]
          /\ pc' = [pc EXCEPT ![p] = "unlink"] /\ pc[p] = "symlink" /\ row[p] \in Rows
          /\ touched' = [touched EXCEPT ![p] = @ \cup {"files"}]
      BY <1>5, <1>a, <1>b, <2>1, Zenon DEF Symlink
    <3>2. \A r \in Rows : row[p] <= r /\ r # row[p] => row[p] + 1 <= r
      BY <1>a, <3>1 DEF Rows
    <3>3. \A q \in Procs, r \in Rows :
             Pending(q, r) => link'[r] = "authselect" \/ Pending(q, r)' \/ Pending(p, r)'
      BY <1>a, <3>1, <3>2 DEF Pending
    <3>4. \A r \in Rows : link[r] = "authselect" => link'[r] = "authselect"
      BY <1>a, <3>1
    <3>5. (\E q \in Procs : "files" \in touched'[q]) => \E q \in Procs : "files" \in touched[q]
      BY <1>c, <3>1
    <3>6. \A q \in Procs :
             /\ pc'[q] \in {"write", "unlink", "symlink", "dconf", "checksum copy"} => "files" \in touched'[q]
             /\ pc'[q] \in {"open", "write"} => row'[q] = 1
      BY <1>a, <3>1 DEF IRace
    <3>. QED
      BY <3>1, <3>3, <3>4, <3>5, <3>6 DEF IRace, Undamaged
  <2>2. CASE row[p] \in dirs => link[row[p]] # "absent"
    <3>1. /\ UNCHANGED <<link, row, edits, touched>> /\ pc[p] = "symlink"
          /\ link[row[p]] # "absent"
          /\ pc' = [pc EXCEPT ![p] = "idle"]
      BY <1>5, <1>b, <1>d, <2>2 DEF Symlink
    <3>. QED
      BY <1>a, <2>2, <3>1, RaceFrame DEF Pending
  <2>. QED
    BY <2>1, <2>2
<1>6. CASE UpdateDconf(p) \/ CopyChecksum(p)
  <2>1. /\ UNCHANGED <<link, row, edits>> /\ pc[p] \in {"dconf", "checksum copy"}
        /\ pc'[p] \in {"checksum copy", "idle"} /\ touched'[p] \in {touched[p], touched[p] \cup {"files"}}
        /\ \A q \in Procs \ {p} : pc'[q] = pc[q] /\ touched'[q] = touched[q]
    BY <1>6, <1>a, <1>b DEF UpdateDconf, CopyChecksum
  <2>. QED
    BY <1>c, <2>1, RaceFrame DEF Pending
<1>. QED
  BY <1>1, <1>2, <1>3, <1>4, <1>5, <1>6, <1>7 DEF Step

(* After a failure there is nothing to show but what marks a process.      *)
LEMMA RaceFailed ==
    ASSUME TInv, IRace, NEW p \in Procs, Step(p) \/ Crash(p), faults' # faults
    PROVE  IRace'
<1>. USE DEF Undisturbed, NoFault, Goto, End, DiskKept, Touch, locals, disk
<1>a. /\ pc \in [Procs -> Labels] /\ touched \in [Procs -> SUBSET Changes] /\ faults \in Nat
      /\ row \in [Procs -> 1..(N + 1)]
  BY DEF TInv, TypeOK
<1>0. \E kind \in AllFaults : Fault(kind)
  BY DEF Step, ReadConf, CompareChecksum, TrimFeatures, ReadProfile, Validate,
      CheckLocations, MakeDirectory, WriteTemp, RenameTemp, OpenConf, WriteConf, Unlink,
      Symlink, UpdateDconf, CopyChecksum, Crash, AllFaults
<1>1. ~Undamaged'
  BY <1>0, <1>a DEF Undamaged, Fault
<1>2. /\ pc'[p] \in {"idle", "locations"}
      /\ \A q \in Procs \ {p} :
            pc'[q] = pc[q] /\ row'[q] = row[q] /\ touched'[q] = touched[q]
  BY <1>a DEF Step, ReadConf, CompareChecksum, TrimFeatures, ReadProfile, Validate,
      CheckLocations, MakeDirectory, WriteTemp, RenameTemp, OpenConf, WriteConf, Unlink,
      Symlink, UpdateDconf, CopyChecksum, Crash
<1>. QED
  BY <1>1, <1>2 DEF IRace

LEMMA RaceNext == TInv /\ Placed /\ IRace /\ [Next]_vars => IRace'
<1>. SUFFICES ASSUME TInv, Placed, IRace, [Next]_vars PROVE IRace'
  OBVIOUS
<1>1. ASSUME NEW p \in Procs, Start(p) PROVE IRace'
  <2>1. /\ UNCHANGED <<link, edits, faults>> /\ pc[p] = "idle"
        /\ \A q \in Procs \ {p} :
              pc'[q] = pc[q] /\ row'[q] = row[q] /\ touched'[q] = touched[q]
        /\ pc'[p] \in {"profile", "conf"} /\ touched'[p] = {}
    BY <1>1 DEF Start, disk, TInv, TypeOK
  <2>. QED
    BY <2>1, RaceFrame DEF Pending
<1>2. ASSUME NEW p \in Procs, Step(p) \/ Crash(p) PROVE IRace'
  <2>1. Crash(p) => faults' # faults
    <3>1. faults \in Nat /\ (Crash(p) => faults' = faults + 1)
      BY DEF Crash, Fault, TInv, TypeOK
    <3>. QED
      BY <3>1
  <2>. QED
    BY <1>2, <2>1, RaceStep, RaceFailed
<1>3. ASSUME NEW r \in Rows, Overwrite(r) PROVE IRace'
  <2>1. ~Undamaged'
    BY <1>3 DEF Overwrite, Undamaged, TInv, TypeOK
  <2>. QED
    BY <1>3, <2>1 DEF Overwrite, IRace, locals
<1>4. CASE PackageUpdate \/ Finished \/ UNCHANGED vars
  BY <1>4 DEF PackageUpdate, Finished, vars, disk, locals, counters, IRace, Undamaged, Pending
<1>. QED
  BY <1>1, <1>2, <1>3, <1>4 DEF Next

(* Whatever the interleaving: when the commands that raced have all ended, *)
(* every name is a link, as long as nothing has failed and no other        *)
(* program has replaced a link.                                            *)
THEOREM RacersLinkAll == Spec => [](edits = 0 => RaceLinksAll)
<1>1. IRace => (edits = 0 => RaceLinksAll)
  BY DEF IRace, Undamaged, RaceLinksAll, Quiet, Pending
<1>. QED  BY <1>1, TypeInv, PlacedInv, RaceInit, RaceNext, PTL DEF Spec

-----------------------------------------------------------------------------

(* What a process renders from the installed templates is fresh.           *)
LEMMA RenderFresh ==
    ASSUME TInv, NEW config \in Configs, NEW r \in Rows
    PROVE  Fresh(Render(config, pkg, r)) /\ Fresh(Absent)
BY DEF Render, Fresh

LEMMA FreshInit == Init => IFresh
<1>. SUFFICES ASSUME Init PROVE IFresh
  OBVIOUS
<1>1. sumCopy \in Versions => sumCopy <= pkg
  BY AbsentAssumption DEF Init, Unconfigured, Configured, Versions
<1>2. FreshWhenUpToDate
  BY DEF Init, Unconfigured, Configured, FreshWhenUpToDate, Render
<1>. QED
  BY <1>1, <1>2 DEF Init, IFresh, Renamed

(* One process goes on, without writing anything that is not fresh.        *)
LEMMA FreshFrame ==
    ASSUME TInv, IFresh, NEW p \in Procs, UNCHANGED pkg,
           sumCopy' \in {sumCopy, pkg, Blank}, sumCopy' = pkg => sumCopy = pkg \/ pc[p] \in Renamed,
           \A q \in Procs \ {p} : UNCHANGED <<pc[q], tpl[q], tmp[q], row[q]>>,
           ~UpdateAnytime =>
               /\ \A r \in Rows : gen'[r] = gen[r] \/ Fresh(gen'[r])
               /\ pc'[p] \in {"validate", "locations", "mkdir", "temp", "rename"} => tpl'[p] = pkg
               /\ pc'[p] # "idle" => \A r \in Rows : Fresh(tmp'[p][r])
               /\ pc'[p] = "rename" => \A r \in Rows : r < row'[p] => Fresh(gen'[r])
               /\ pc'[p] \in Renamed => \A r \in Rows : Fresh(gen'[r])
    PROVE  IFresh'
<1>1. \A file : Fresh(file)' <=> file' \notin {Absent, Blank} => file'.version = pkg
  BY DEF Fresh
<1>2. pkg \in Versions /\ pkg # Blank /\ pkg <= pkg
  BY BlankAssumption, VersionsAssumption DEF TInv, TypeOK, Versions
<1>3. sumCopy' \in Versions => sumCopy' <= pkg
  BY <1>2, BlankAssumption DEF IFresh
<1>4. ASSUME ~UpdateAnytime PROVE FreshWhenUpToDate'
  <2>1. CASE sumCopy' = pkg
    <3>1. \A r \in Rows : Fresh(gen[r])
      BY <1>4, <2>1 DEF IFresh, FreshWhenUpToDate, Fresh
    <3>. QED
      BY <1>4, <3>1 DEF FreshWhenUpToDate, Fresh
  <2>2. CASE sumCopy' # pkg
    BY <2>2 DEF FreshWhenUpToDate
  <2>. QED
    BY <2>1, <2>2
<1>. QED
  BY <1>3, <1>4 DEF IFresh, Fresh

LEMMA FreshStep ==
    ASSUME TInv, IFresh, NEW p \in Procs, Step(p) \/ Crash(p)
    PROVE  IFresh'
<1>. USE DEF Undisturbed, NoFault, Goto, End, DiskKept, Touch, locals, disk
<1>a. /\ pc \in [Procs -> Labels] /\ row \in [Procs -> 1..(N + 1)] /\ tpl \in [Procs -> Versions]
      /\ tmp \in [Procs -> [Rows -> Rendered \cup {Absent}]]
      /\ gen \in [Rows -> Rendered \cup {Absent}]
      /\ pc[p] \notin {"idle", "conf"} => want[p] \in Configs
      /\ pkg \in Versions
  BY DEF TInv, TypeOK, Guided
<1>b. ~UpdateAnytime =>
          /\ pc[p] \in {"validate", "locations", "mkdir", "temp", "rename"} => tpl[p] = pkg
          /\ pc[p] # "idle" => \A r \in Rows : Fresh(tmp[p][r])
          /\ pc[p] = "rename" => \A r \in Rows : r < row[p] => Fresh(gen[r])
          /\ pc[p] \in Renamed => \A r \in Rows : Fresh(gen[r])
  BY DEF IFresh
<1>1. CASE \/ ReadConf(p) \/ CompareChecksum(p) \/ TrimFeatures(p) \/ ReadProfile(p)
          \/ Validate(p) \/ CheckLocations(p) \/ MakeDirectory(p)
  <2>1. /\ UNCHANGED <<pkg, sumCopy, gen, tmp>>
        /\ \A q \in Procs \ {p} : pc'[q] = pc[q] /\ tpl'[q] = tpl[q] /\ row'[q] = row[q]
        /\ pc[p] # "idle" /\ pc'[p] \notin {"rename"} \cup Renamed
        /\ pc'[p] \in {"validate", "locations", "mkdir", "temp"} =>
              \/ tpl'[p] = pkg
              \/ tpl'[p] = tpl[p] /\ pc[p] \in {"validate", "locations", "mkdir"}
    BY <1>1, <1>a DEF ReadConf, CompareChecksum, TrimFeatures, ReadProfile, Validate,
        CheckLocations, MakeDirectory, Renamed
  <2>. QED
    BY <1>b, <2>1, FreshFrame
<1>2. CASE WriteTemp(p)
  <2>1. /\ UNCHANGED <<pkg, sumCopy, gen, tpl>> /\ pc[p] = "temp"
        /\ \A q \in Procs \ {p} : pc'[q] = pc[q] /\ tmp'[q] = tmp[q] /\ row'[q] = row[q]
    BY <1>2, <1>a DEF WriteTemp
  <2>2. \/ /\ row[p] \in Rows /\ pc'[p] = "temp"
           /\ tmp'[p] = [tmp[p] EXCEPT ![row[p]] = Render(want[p], tpl[p], row[p])]
        \/ pc'[p] = "rename" /\ row'[p] = 1 /\ tmp' = tmp
        \/ pc'[p] = "idle"
    BY <1>2, <1>a DEF WriteTemp
  <2>3. tmp[p] \in [Rows -> Rendered \cup {Absent}] /\ \A r \in Rows : ~(r < 1)
    BY <1>a DEF Rows
  <2>4. ASSUME ~UpdateAnytime, pc'[p] # "idle", NEW r \in Rows
        PROVE  Fresh(tmp'[p][r])
    <3>1. tpl[p] = pkg /\ Fresh(tmp[p][r])
      BY <1>b, <2>1, <2>4
    <3>2. want[p] \in Configs
      BY <1>a, <2>1
    <3>3. Fresh(Render(want[p], tpl[p], r))
      BY <3>1, <3>2, RenderFresh
    <3>4. CASE /\ row[p] \in Rows
               /\ tmp'[p] = [tmp[p] EXCEPT ![row[p]] = Render(want[p], tpl[p], row[p])]
      <4>1. tmp'[p][r] = tmp[p][r] \/ tmp'[p][r] = Render(want[p], tpl[p], r)
        BY <2>3, <3>4
      <4>. QED
        BY <3>1, <3>3, <4>1
    <3>5. CASE tmp' = tmp
      BY <3>1, <3>5
    <3>. QED
      BY <2>2, <2>4, <3>4, <3>5
  <2>. QED
    BY <1>b, <2>1, <2>2, <2>3, <2>4, FreshFrame DEF Renamed
<1>3. CASE RenameTemp(p)
  <2>1. /\ UNCHANGED <<pkg, sumCopy, tpl>> /\ pc[p] = "rename"
        /\ \A q \in Procs \ {p} : pc'[q] = pc[q] /\ tmp'[q] = tmp[q] /\ row'[q] = row[q]
    BY <1>3, <1>a DEF RenameTemp
  <2>2. tmp[p] \in [Rows -> Rendered \cup {Absent}]
    BY <1>a
  <2>3. CASE /\ row[p] \in Rows /\ gen' = [gen EXCEPT ![row[p]] = tmp[p][row[p]]]
             /\ tmp' = [tmp EXCEPT ![p][row[p]] = Absent]
             /\ row' = [row EXCEPT ![p] = row[p] + 1] /\ UNCHANGED pc
    <3>1. tmp'[p] = [tmp[p] EXCEPT ![row[p]] = Absent] /\ row'[p] = row[p] + 1
      BY <1>a, <2>3
    <3>2. \A r \in Rows : r < row[p] + 1 => r < row[p] \/ r = row[p]
      BY <1>a DEF Rows
    <3>3. Fresh(Absent)
      BY DEF Fresh
    <3>. QED
      BY <1>a, <1>b, <2>1, <2>2, <2>3, <3>1, <3>2, <3>3, FreshFrame DEF Renamed
  <2>4. CASE row[p] \notin Rows /\ pc'[p] = "open" /\ UNCHANGED <<gen, tmp>>
    <3>1. \A r \in Rows : r < row[p]
      BY <1>a, <2>4, RowsAssumption DEF Rows
    <3>. QED
      BY <1>b, <2>1, <2>4, <3>1, FreshFrame
  <2>5. CASE pc'[p] = "idle" /\ UNCHANGED gen
    BY <2>1, <2>5, FreshFrame DEF Renamed
  <2>. QED
    BY <1>3, <1>a, <2>3, <2>4, <2>5 DEF RenameTemp
<1>4. CASE OpenConf(p) \/ WriteConf(p) \/ Unlink(p) \/ Symlink(p) \/ UpdateDconf(p)
  <2>1. /\ UNCHANGED <<pkg, sumCopy, gen, tpl, tmp>>
        /\ \A q \in Procs \ {p} : pc'[q] = pc[q] /\ row'[q] = row[q]
        /\ pc[p] \in Renamed /\ pc'[p] \in Renamed \cup {"idle"}
    BY <1>4, <1>a DEF OpenConf, WriteConf, Unlink, Symlink, UpdateDconf, Renamed
  <2>. QED
    BY <1>b, <2>1, FreshFrame DEF Renamed
<1>5. CASE CopyChecksum(p) \/ Crash(p)
  <2>1. /\ UNCHANGED <<pkg, gen, tpl, tmp, row>> /\ pc'[p] = "idle"
        /\ \A q \in Procs \ {p} : pc'[q] = pc[q]
        /\ sumCopy' \in {sumCopy, Blank} \/ (sumCopy' = pkg /\ pc[p] \in Renamed)
    BY <1>5, <1>a DEF CopyChecksum, Crash, Renamed
  <2>2. pkg # Blank
    BY <1>a, BlankAssumption
  <2>. QED
    BY <2>1, <2>2, FreshFrame DEF Renamed
<1>. QED
  BY <1>1, <1>2, <1>3, <1>4, <1>5 DEF Step

LEMMA FreshNext == TInv /\ IFresh /\ [Next]_vars => IFresh'
<1>. SUFFICES ASSUME TInv, IFresh, [Next]_vars PROVE IFresh'
  OBVIOUS
<1>1. ASSUME NEW p \in Procs, Start(p) PROVE IFresh'
  <2>1. /\ UNCHANGED <<pkg, sumCopy, gen, tpl>> /\ pc'[p] \in {"profile", "conf"}
        /\ tmp'[p] = NoTemps
        /\ \A q \in Procs \ {p} : pc'[q] = pc[q] /\ tmp'[q] = tmp[q] /\ row'[q] = row[q]
    BY <1>1 DEF Start, disk, TInv, TypeOK
  <2>2. \A r \in Rows : Fresh(tmp'[p][r])
    BY <2>1 DEF Fresh, NoTemps
  <2>. QED
    BY <2>1, <2>2, FreshFrame DEF Renamed
<1>2. ASSUME NEW p \in Procs, Step(p) \/ Crash(p) PROVE IFresh'
  BY <1>2, FreshStep
<1>3. CASE PackageUpdate
  <2>1. /\ pkg' = pkg + 1 /\ sumCopy' = sumCopy /\ pc' = pc
        /\ UpdateAnytime \/ Quiet
        /\ pkg \in Versions /\ pkg < MaxVersion
    BY <1>3 DEF PackageUpdate, disk, TInv, TypeOK
  <2>2. /\ pkg + 1 \in Versions
        /\ \A v \in Versions : v <= pkg => v <= pkg + 1 /\ v # pkg + 1
    <3>1. MaxVersion \in Nat /\ pkg \in 0..MaxVersion /\ pkg < MaxVersion
      BY <2>1, VersionsAssumption DEF Versions
    <3>2. pkg + 1 \in 0..MaxVersion
      BY <3>1
    <3>3. \A v \in 0..MaxVersion : v <= pkg => v <= pkg + 1 /\ v # pkg + 1
      BY <3>1
    <3>. QED
      BY <3>2, <3>3 DEF Versions
  <2>3. sumCopy' # pkg'
    BY <2>1, <2>2 DEF IFresh
  <2>4. sumCopy' \in Versions => sumCopy' <= pkg'
    <3>1. sumCopy \in Versions => sumCopy <= pkg + 1
      BY <2>2 DEF IFresh
    <3>. QED
      BY <2>1, <3>1
  <2>5. ~UpdateAnytime => \A p \in Procs : pc'[p] = "idle"
    BY <2>1 DEF Quiet
  <2>. QED
    BY <2>3, <2>4, <2>5 DEF IFresh, FreshWhenUpToDate, Renamed
<1>4. CASE (\E r \in Rows : Overwrite(r)) \/ Finished \/ UNCHANGED vars
  BY <1>4 DEF Overwrite, Finished, vars, disk, locals, counters, IFresh, Fresh, FreshWhenUpToDate
<1>. QED
  BY <1>1, <1>2, <1>3, <1>4 DEF Next

(* "No action needed" is the truth for any number of commands and updates, *)
(* provided that no update comes while a command runs: the package's       *)
(* scripts run when its files are in place, but nothing makes an update    *)
(* wait for a command of the administrator (see the README).               *)
THEOREM UpToDateMeansFresh == ~UpdateAnytime => (Spec => []FreshWhenUpToDate)
<1>. SUFFICES ASSUME ~UpdateAnytime PROVE Spec => []FreshWhenUpToDate
  OBVIOUS
<1>1. IFresh => FreshWhenUpToDate
  BY DEF IFresh
<1>. QED  BY <1>1, TypeInv, FreshInit, FreshNext, PTL DEF Spec

=============================================================================
