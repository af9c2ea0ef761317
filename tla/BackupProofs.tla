---------------------------- MODULE BackupProofs ------------------------------
(***************************************************************************)
(* Proofs about Backup.  The invariant relates three things: what a backup *)
(* directory holds and what was to be saved in it, what the restore has in *)
(* hand and what the directory holds, and what the restore has put in      *)
(* place so far.                                                           *)
(***************************************************************************)
EXTENDS Backup, TLAPS

Saving    == {"save conf", "save"}
Linking   == {"unlink", "symlink"}
Replacing == {"restore conf", "restore"} \cup Linking

Notes == [conf : Configs \cup {Missing}, files : [Rows -> Texts \cup {Missing}],
          fresh : BOOLEAN, done : BOOLEAN]

(* Where the command is determines what kind of command it is.             *)
IPlace ==
    /\ note \in [Names -> Notes]
    /\ pc \in Saving => kind = "backup" /\ ~note[name].done
    /\ pc = "prepare" \/ pc \in Replacing =>
          kind = IF saved[name].conf # Missing THEN "authselect" ELSE "system"
    /\ pc \in Linking => kind = "authselect"
    /\ pc = "symlink" => row \in Rows
    /\ pc \in {"prepare", "restore conf"} => row = 1
    /\ pc # "idle" <=> ret = "running"

(* A configuration that is noted was valid: it has all its files.          *)
INote == \A n \in Names : note[n].conf # Missing =>
             \A r \in Rows : note[n].files[r] # Missing

(* A backup that is complete holds what was noted when it was begun, and   *)
(* one that is being taken holds it up to the current row.                 *)
Complete(n) ==
    saved[n].conf = note[n].conf /\ saved[n].files = note[n].files

ISaved == \A n \in Names : note[n].done /\ note[n].fresh => Complete(n)

ISaving ==
    pc \in Saving =>
        /\ note[name].files = Readable
        /\ pc = "save conf" => conf \in Configs /\ note[name].conf = conf /\ row = 1
        /\ note[name].fresh =>
              /\ pc = "save" => saved[name].conf = note[name].conf
              /\ \A r \in Rows : saved[name].files[r] =
                                     IF r < row THEN note[name].files[r] ELSE Missing

(* What is going to be put in place is what the backup holds, and it has   *)
(* the files that must not go missing.                                     *)
INew ==
    pc \in Replacing =>
        /\ new.conf = saved[name].conf
        /\ \A r \in Rows : saved[name].files[r] # Missing => new.files[r] = saved[name].files[r]
        /\ kind = "authselect" => \A r \in Rows : new.files[r] # Missing
        /\ kind = "system" => \A r \in Rows : new.files[r] = saved[name].files[r]
        /\ \A r \in Protected : new.files[r] # Missing

(* What is in place, a removal that failed aside.                          *)
IConf ==
    pc \in Replacing \ {"restore conf"} =>
        conf = new.conf \/ (new.conf = Missing /\ faults > 0)

IFiles ==
    pc = "restore" =>
        \A r \in Rows : r < row =>
            IF kind = "authselect" THEN gen[r] = new.files[r]
            ELSE sys[r] = new.files[r] \/ (new.files[r] = Missing /\ faults > 0)

ILinks ==
    pc \in Linking =>
        \A r \in Rows : gen[r] = new.files[r] /\ (r < row => sys[r] = Link)

IInv ==
    /\ TypeOK
    /\ IPlace
    /\ INote
    /\ ISaved
    /\ ISaving
    /\ INew
    /\ IConf
    /\ IFiles
    /\ ILinks
    /\ NoDangling
    /\ RestoreGivesBack
    /\ CompleteIsRestorable

-----------------------------------------------------------------------------

(* The bounds.                                                             *)
LEMMA CountUp ==
    ASSUME NEW max \in Nat, NEW k \in 0..max, k < max
    PROVE  k + 1 \in 0..max /\ k + 1 > 0
OBVIOUS

(* Fields of a note and of a directory.                                    *)
LEMMA MarkNote ==
    ASSUME NEW x \in Notes, NEW b \in BOOLEAN
    PROVE  /\ [x EXCEPT !.done = b] \in Notes
           /\ [x EXCEPT !.done = b].conf = x.conf
           /\ [x EXCEPT !.done = b].files = x.files
           /\ [x EXCEPT !.done = b].fresh = x.fresh
           /\ [x EXCEPT !.done = b].done = b
BY DEF Notes

LEMMA PutConf ==
    ASSUME NEW d \in Dirs, NEW c \in Configs \cup {Missing, Torn}
    PROVE  /\ [d EXCEPT !.conf = c] \in Dirs
           /\ [d EXCEPT !.conf = c].conf = c
           /\ [d EXCEPT !.conf = c].files = d.files
BY DEF Dirs

LEMMA PutFile ==
    ASSUME NEW d \in Dirs, NEW r \in Rows, NEW t \in Texts \cup {Missing}
    PROVE  /\ [d EXCEPT !.files[r] = t] \in Dirs
           /\ [d EXCEPT !.files[r] = t].conf = d.conf
           /\ [d EXCEPT !.files[r] = t].files = [d.files EXCEPT ![r] = t]
BY DEF Dirs

LEMMA InitInv == Init => IInv
<1>. SUFFICES ASSUME Init PROVE IInv
  OBVIOUS
<1>. USE RowsAssumption, BoundsAssumption, ValuesAssumption DEF Init
<1>1. Nothing \in Dirs
  BY DEF Nothing, Dirs
<1>2. /\ NoNote \in Notes /\ NoNote.conf = Missing /\ NoNote.done = FALSE
      /\ [conf |-> NoNote.conf, files |-> NoNote.files] \in Dirs
  BY DEF NoNote, Notes, Dirs
<1>3. TypeOK
  BY <1>1, <1>2 DEF TypeOK, Texts
<1>4. IPlace /\ INote /\ ISaved
  BY <1>2 DEF IPlace, INote, ISaved, Saving, Replacing, Linking
<1>5. NoDangling
  BY DEF NoDangling, Texts
<1>. QED
  BY <1>3, <1>4, <1>5 DEF IInv, ISaving, INew, IConf, IFiles, ILinks, Saving,
      Replacing, Linking, RestoreGivesBack, Restored, CompleteIsRestorable

(* Between commands nothing is in hand.                                    *)
LEMMA IdleInv ==
    ASSUME pc' = "idle", ret' \notin {"EOK", "EPERM", "running"},
           TypeOK', (note \in [Names -> Notes])', INote', ISaved', NoDangling'
    PROVE  IInv'
BY DEF IInv, IPlace, ISaving, INew, IConf, IFiles, ILinks, Saving, Replacing,
    Linking, RestoreGivesBack, Restored, CompleteIsRestorable

(* What other commands and programs do.                                    *)
LEMMA OthersInv ==
    ASSUME IInv,
           (\E config \in Configs : Activate(config)) \/ OptOut \/ \E r \in Rows : Edit(r)
    PROVE  IInv'
<1>. USE RowsAssumption, BoundsAssumption, ValuesAssumption DEF IInv
<1>1. pc' = "idle" /\ ret' = "none" /\ UNCHANGED <<saved, locals, note>>
      /\ ops' = ops + 1 /\ ops < MaxOps /\ UNCHANGED faults
  BY DEF Activate, OptOut, Edit, Begin
<1>2. TypeOK'
  <2>1. conf' \in Configs \cup {Missing, Torn} /\ gen' \in [Rows -> Texts \cup {Missing}]
        /\ sys' \in [Rows -> Texts \cup {Missing, Link}]
    BY DEF Activate, OptOut, Edit, TypeOK, Texts, Readable
  <2>2. ops' \in 0..MaxOps
    BY <1>1, CountUp, Zenon DEF TypeOK
  <2>. QED
    BY <1>1, <2>1, <2>2 DEF TypeOK, locals
<1>3. NoDangling'
  <2>1. CASE \E config \in Configs : Activate(config)
    BY <2>1 DEF Activate, NoDangling, Texts
  <2>2. CASE OptOut
    BY <2>2 DEF OptOut, NoDangling, TypeOK, Readable
  <2>3. CASE \E r \in Rows : Edit(r)
    BY <2>3 DEF Edit, NoDangling, TypeOK, Texts
  <2>. QED
    BY <2>1, <2>2, <2>3
<1>4. INote' /\ ISaved'
  BY <1>1 DEF INote, ISaved, Complete
<1>. QED
  BY <1>1, <1>2, <1>3, <1>4, IdleInv DEF IPlace

(* A backup is begun or removed.                                           *)
LEMMA BeginInv ==
    ASSUME IInv, NEW n \in Names,
           StartBackup(n) \/ RemoveBackup(n) \/ RemoveFails(n) \/ StartRestore(n)
    PROVE  IInv'
<1>. USE RowsAssumption, BoundsAssumption, ValuesAssumption DEF IInv
<1>a. /\ saved \in [Names -> Dirs] /\ note \in [Names -> Notes]
      /\ pc = "idle" /\ ops' = ops + 1 /\ ops < MaxOps /\ UNCHANGED system
  BY DEF TypeOK, IPlace, StartBackup, RemoveBackup, RemoveFails, StartRestore, Begin
<1>o. ops' \in 0..MaxOps
  BY <1>a, CountUp, Zenon DEF TypeOK
<1>b. NoDangling'
  BY <1>a DEF NoDangling, system
<1>1. CASE StartBackup(n)
  <2>. DEFINE new_note == [conf |-> IF Valid THEN conf ELSE Missing, files |-> Readable,
                           fresh |-> saved[n] = Nothing, done |-> FALSE]
  <2>1. /\ pc' = IF Valid THEN "save conf" ELSE "save"
        /\ name' = n /\ kind' = "backup" /\ row' = 1 /\ ret' = "running"
        /\ note' = [note EXCEPT ![n] = new_note]
        /\ UNCHANGED <<system, saved, new, faults>>
    BY <1>1 DEF StartBackup, Begin
  <2>2. Readable \in [Rows -> Texts \cup {Missing}] /\ Readable' = Readable
    BY <2>1 DEF Readable, TypeOK, system
  <2>3. /\ new_note \in Notes
        /\ [conf |-> new_note.conf, files |-> new_note.files] \in Dirs
    BY <2>2 DEF Notes, Dirs, Valid
  <2>4. /\ new_note.conf = IF Valid THEN conf ELSE Missing
        /\ new_note.files = Readable /\ new_note.done = FALSE
        /\ new_note.fresh => saved[n] = Nothing
    OBVIOUS
  <2>. HIDE DEF new_note
  <2>5. note' \in [Names -> Notes] /\ note'[n] = new_note
        /\ \A m \in Names \ {n} : note'[m] = note[m]
    BY <1>a, <2>1, <2>3
  <2>6. TypeOK'
    <3>1. \A m \in Names : [conf |-> note'[m].conf, files |-> note'[m].files] \in Dirs
      BY <2>3, <2>5 DEF TypeOK
    <3>2. pc' \in {"save conf", "save"}
      BY <2>1, Zenon
    <3>3. 1 \in 1..(N + 1)
      OBVIOUS
    <3>. QED
      BY <1>o, <2>1, <3>1, <3>2, <3>3, Zenon DEF TypeOK, system
  <2>7. INote' /\ ISaved'
    BY <2>1, <2>4, <2>5 DEF INote, ISaved, Complete, Valid, Readable
  <2>8. ISaving'
    <3>1. \A r \in Rows : ~(r < 1)
      BY DEF Rows
    <3>2. Nothing.conf = Missing /\ \A r \in Rows : Nothing.files[r] = Missing
      BY DEF Nothing
    <3>3. pc' = "save conf" <=> Valid
      BY <2>1
    <3>. QED
      BY <2>1, <2>2, <2>4, <2>5, <3>1, <3>2, <3>3 DEF ISaving, Saving, Valid, system
  <2>9. IPlace'
    BY <2>1, <2>4, <2>5 DEF IPlace, Saving, Replacing, Linking
  <2>. QED
    BY <1>b, <2>1, <2>6, <2>7, <2>8, <2>9 DEF INew, IConf, IFiles, ILinks, Replacing, Linking,
        RestoreGivesBack, Restored, CompleteIsRestorable
<1>2. CASE RemoveBackup(n)
  <2>. USE <1>2 DEF RemoveBackup, Begin
  <2>1. NoNote \in Notes /\ [conf |-> NoNote.conf, files |-> NoNote.files] \in Dirs
        /\ NoNote.conf = Missing /\ NoNote.done = FALSE /\ Nothing \in Dirs
    BY DEF NoNote, Notes, Dirs, Nothing
  <2>2. note' \in [Names -> Notes] /\ saved' \in [Names -> Dirs]
        /\ note'[n] = NoNote
        /\ \A m \in Names \ {n} : note'[m] = note[m] /\ saved'[m] = saved[m]
    BY <1>a, <2>1
  <2>3. TypeOK'
    BY <2>1, <2>2 DEF TypeOK, system, locals
  <2>4. INote' /\ ISaved'
    BY <2>1, <2>2 DEF INote, ISaved, Complete
  <2>. QED
    BY <1>b, <2>2, <2>3, <2>4, IdleInv
<1>3. CASE RemoveFails(n)
  <2>. USE <1>3 DEF RemoveFails, Fault, Return
  <2>1. PICK rows \in SUBSET Rows, c \in {saved[n].conf, Missing} :
           saved' = [saved EXCEPT ![n] =
                        [conf  |-> c,
                         files |-> [r \in Rows |-> IF r \in rows THEN Missing ELSE @.files[r]]]]
    OBVIOUS
  <2>2. saved' \in [Names -> Dirs] /\ \A m \in Names \ {n} : saved'[m] = saved[m]
    BY <1>a, <2>1 DEF Dirs
  <2>3. /\ note' \in [Names -> Notes] /\ note'[n].done = FALSE
        /\ note'[n].conf = note[n].conf /\ note'[n].files = note[n].files
        /\ \A m \in Names \ {n} : note'[m] = note[m]
    <3>1. note' = [note EXCEPT ![n] = [note[n] EXCEPT !.done = FALSE]]
      OBVIOUS
    <3>2. note[n] \in Notes
      BY <1>a
    <3>. QED
      BY <1>a, <3>1, <3>2, MarkNote
  <2>4. TypeOK'
    BY <2>2, <2>3 DEF TypeOK, system, locals
  <2>5. INote' /\ ISaved'
    BY <2>2, <2>3 DEF INote, ISaved, Complete
  <2>. QED
    BY <1>b, <2>3, <2>4, <2>5, IdleInv
<1>4. CASE StartRestore(n)
  <2>. USE <1>4 DEF StartRestore, Begin
  <2>1. TypeOK'
    BY DEF TypeOK, system
  <2>2. IPlace'
    BY <1>a DEF IPlace, Saving, Replacing, Linking
  <2>. QED
    BY <1>b, <2>1, <2>2 DEF INote, ISaved, Complete, ISaving, INew, IConf, IFiles, ILinks,
        Saving, Replacing, Linking, RestoreGivesBack, Restored, CompleteIsRestorable
<1>. QED
  BY <1>1, <1>2, <1>3, <1>4

(* The steps of a backup.                                                  *)
LEMMA SaveInv ==
    ASSUME IInv, SaveConf \/ SaveFile \/ SaveFails \/ SaveDone
    PROVE  IInv'
<1>a. /\ TypeOK /\ IPlace /\ INote /\ ISaved /\ ISaving /\ NoDangling
      /\ saved \in [Names -> Dirs] /\ note \in [Names -> Notes] /\ name \in Names
      /\ saved[name] \in Dirs /\ note[name] \in Notes
      /\ N \in Nat /\ row \in 1..(N + 1)
      /\ \A n \in Names : [conf |-> note[n].conf, files |-> note[n].files] \in Dirs
  BY RowsAssumption DEF IInv, TypeOK, IPlace
<1>b. UNCHANGED <<system, name, kind, new, ops>> /\ pc \in Saving
      /\ kind = "backup" /\ note[name].done = FALSE
  <2>1. UNCHANGED <<system, name, kind, new, ops>> /\ pc \in Saving
    BY DEF SaveConf, SaveFile, SaveFails, SaveDone, At, locals, Saving
  <2>. QED
    BY <1>a, <2>1 DEF IPlace, Notes
<1>c. NoDangling' /\ Readable' = Readable /\ conf' = conf
  BY <1>a, <1>b DEF NoDangling, Readable, system
<1>d. Readable \in [Rows -> Texts \cup {Missing}] /\ Texts \cup {Missing} # {}
      /\ conf \in Configs \cup {Missing, Torn} /\ Torn \in Texts
  BY <1>a DEF Readable, TypeOK, Texts
<1>1. CASE SaveConf
  <2>1. /\ saved' = [saved EXCEPT ![name] = [saved[name] EXCEPT !.conf = conf]]
        /\ pc = "save conf" /\ pc' = "save" /\ UNCHANGED <<row, ret, faults, note>>
    BY <1>1 DEF SaveConf, At, Goto, locals
  <2>2. /\ saved' \in [Names -> Dirs] /\ saved'[name].conf = conf
        /\ saved'[name].files = saved[name].files
        /\ \A m \in Names \ {name} : saved'[m] = saved[m]
    BY <1>a, <1>d, <2>1, PutConf
  <2>3. TypeOK'
    BY <1>a, <1>b, <2>1, <2>2 DEF TypeOK, system
  <2>4. IPlace'
    BY <1>a, <1>b, <2>1 DEF IPlace, Saving, Replacing, Linking
  <2>5. INote' /\ ISaved'
    BY <1>a, <1>b, <2>1, <2>2 DEF INote, ISaved, Complete
  <2>6. ISaving'
    BY <1>a, <1>b, <1>c, <2>1, <2>2 DEF ISaving, Saving
  <2>. QED
    BY <1>b, <1>c, <2>1, <2>3, <2>4, <2>5, <2>6 DEF IInv, INew, IConf, IFiles, ILinks,
        Replacing, Linking, RestoreGivesBack, Restored, IPlace, CompleteIsRestorable
<1>2. CASE SaveFile
  <2>1. /\ saved' = IF Readable[row] = Missing THEN saved
                    ELSE [saved EXCEPT ![name] = [saved[name] EXCEPT !.files[row] = Readable[row]]]
        /\ pc = "save" /\ pc' = "save" /\ row \in Rows /\ row' = row + 1
        /\ UNCHANGED <<ret, faults, note>>
    BY <1>2 DEF SaveFile, At, Goto
  <2>2. Readable[row] \in Texts \cup {Missing}
    BY <1>d, <2>1
  <2>3. /\ saved' \in [Names -> Dirs] /\ saved'[name].conf = saved[name].conf
        /\ \/ Readable[row] = Missing /\ saved'[name].files = saved[name].files
           \/ saved'[name].files = [saved[name].files EXCEPT ![row] = Readable[row]]
        /\ \A m \in Names \ {name} : saved'[m] = saved[m]
    <3>1. CASE Readable[row] = Missing
      BY <1>a, <2>1, <3>1
    <3>2. CASE Readable[row] # Missing
      BY <1>a, <2>1, <2>2, <3>2, PutFile
    <3>. QED
      BY <3>1, <3>2
  <2>4. TypeOK'
    <3>1. row' \in 1..(N + 1)
      BY <1>a, <2>1 DEF Rows
    <3>. QED
      BY <1>a, <1>b, <2>1, <2>3, <3>1 DEF TypeOK, system
  <2>5. IPlace'
    BY <1>a, <1>b, <2>1 DEF IPlace, Saving, Replacing, Linking
  <2>6. INote' /\ ISaved'
    BY <1>a, <1>b, <2>1, <2>3 DEF INote, ISaved, Complete
  <2>7. ISaving'
    <3>1. \A r \in Rows : r < row' <=> r < row \/ r = row
      BY <1>a, <2>1 DEF Rows
    <3>2. saved[name].files \in [Rows -> Texts \cup {Missing}]
      BY <1>a DEF Dirs
    <3>3. ASSUME note[name].fresh
          PROVE  /\ saved[name].conf = note[name].conf
                 /\ \A r \in Rows : saved'[name].files[r] =
                        IF r < row' THEN Readable[r] ELSE Missing
      BY <1>a, <2>1, <2>3, <3>1, <3>2, <3>3 DEF ISaving, Saving, Rows
    <3>. QED
      BY <1>a, <1>b, <1>c, <2>1, <2>3, <3>3 DEF ISaving, Saving
  <2>. QED
    BY <1>b, <1>c, <2>1, <2>4, <2>5, <2>6, <2>7 DEF IInv, INew, IConf, IFiles, ILinks,
        Replacing, Linking, RestoreGivesBack, Restored, IPlace, CompleteIsRestorable
<1>3. CASE SaveFails
  <2>1. /\ pc' = "idle" /\ ret' \in {"EIO", "crashed"} /\ UNCHANGED <<row, note>>
        /\ faults' = faults + 1 /\ faults < MaxFaults
    BY <1>3 DEF SaveFails, Fault, Return, locals
  <2>2. saved' \in [Names -> Dirs] /\ \A m \in Names \ {name} : saved'[m] = saved[m]
    <3>1. CASE UNCHANGED saved
      BY <1>a, <3>1
    <3>2. CASE saved' = [saved EXCEPT ![name] = [saved[name] EXCEPT !.conf = Torn]]
      BY <1>a, <3>2, PutConf
    <3>3. CASE row \in Rows /\ saved' = [saved EXCEPT ![name] = [saved[name] EXCEPT !.files[row] = Torn]]
      BY <1>a, <1>d, <3>3, PutFile
    <3>. QED
      BY <1>3, <3>1, <3>2, <3>3 DEF SaveFails, At
  <2>3. TypeOK'
    <3>1. faults' \in 0..MaxFaults
      BY <1>a, <2>1, CountUp, BoundsAssumption, Zenon DEF TypeOK
    <3>. QED
      BY <1>a, <1>b, <2>1, <2>2, <3>1 DEF TypeOK, system
  <2>4. INote' /\ ISaved'
    BY <1>a, <1>b, <2>1, <2>2 DEF INote, ISaved, Complete
  <2>. QED
    BY <1>a, <1>c, <2>1, <2>3, <2>4, IdleInv
<1>4. CASE SaveDone
  <2>1. /\ note' = [note EXCEPT ![name] = [note[name] EXCEPT !.done = TRUE]]
        /\ pc = "save" /\ pc' = "idle" /\ row \notin Rows /\ ret' = "EOK"
        /\ UNCHANGED <<saved, row, faults>>
    BY <1>4 DEF SaveDone, At, Return, locals
  <2>2. /\ note' \in [Names -> Notes]
        /\ note'[name].conf = note[name].conf /\ note'[name].files = note[name].files
        /\ note'[name].fresh = note[name].fresh
        /\ \A m \in Names \ {name} : note'[m] = note[m]
    BY <1>a, <2>1, MarkNote
  <2>3. TypeOK'
    BY <1>a, <1>b, <2>1, <2>2 DEF TypeOK, system
  <2>4. INote'
    BY <1>a, <2>2 DEF INote
  <2>5. ISaved'
    <3>1. \A r \in Rows : r < row
      BY <1>a, <2>1 DEF Rows
    <3>2. note[name].fresh => \A r \in Rows : saved[name].files[r] = note[name].files[r]
      BY <1>a, <2>1, <3>1 DEF ISaving, Saving
    <3>3. saved[name].files \in [Rows -> Texts \cup {Missing}]
          /\ note[name].files \in [Rows -> Texts \cup {Missing}]
      BY <1>a DEF Dirs, Notes
    <3>4. note[name].fresh => Complete(name)
      BY <1>a, <2>1, <3>2, <3>3 DEF ISaving, Saving, Complete
    <3>. QED
      BY <1>a, <2>1, <2>2, <3>4 DEF ISaved, Complete
  <2>6. IPlace'
    BY <1>a, <1>b, <2>1, <2>2 DEF IPlace, Saving, Replacing, Linking
  <2>. QED
    BY <1>b, <1>c, <2>1, <2>3, <2>4, <2>5, <2>6 DEF IInv, ISaving, INew, IConf, IFiles, ILinks,
        Saving, Replacing, Linking, RestoreGivesBack, Restored, CompleteIsRestorable
<1>. QED
  BY <1>1, <1>2, <1>3, <1>4

(* A restore of a backup that is complete has in hand what was noted.      *)
LEMMA InHand ==
    ASSUME IInv, pc \in Replacing, note[name].done, note[name].fresh
    PROVE  /\ new.conf = note[name].conf
           /\ \A r \in Rows : new.files[r] = note[name].files[r]
<1>1. name \in Names /\ Complete(name)
  BY DEF IInv, ISaved, TypeOK
<1>2. new.conf = note[name].conf
  BY <1>1 DEF IInv, INew, Complete
<1>3. CASE saved[name].conf # Missing
  BY <1>1, <1>3 DEF IInv, INote, INew, Complete
<1>4. CASE saved[name].conf = Missing
  BY <1>1, <1>4 DEF IInv, IPlace, INew, Complete
<1>. QED
  BY <1>2, <1>3, <1>4

(* The steps of a restore up to the links.                                 *)
LEMMA RestoreInv ==
    ASSUME IInv, Prepare \/ RestoreConf \/ RestoreFile \/ FilesRestored \/ RestoreFails
    PROVE  IInv'
<1>a. /\ TypeOK /\ IPlace /\ INote /\ ISaved /\ INew /\ IConf /\ IFiles /\ NoDangling
      /\ saved \in [Names -> Dirs] /\ note \in [Names -> Notes] /\ name \in Names
      /\ saved[name] \in Dirs /\ note[name] \in Notes /\ new \in Dirs
      /\ N \in Nat /\ row \in 1..(N + 1)
      /\ gen \in [Rows -> Texts \cup {Missing}] /\ sys \in [Rows -> Texts \cup {Missing, Link}]
  BY RowsAssumption DEF IInv, TypeOK, IPlace
<1>b. UNCHANGED <<saved, note, name, kind, ops>>
      /\ pc \in {"prepare"} \cup Replacing
      /\ kind = IF saved[name].conf # Missing THEN "authselect" ELSE "system"
  <2>1. UNCHANGED <<saved, note, name, kind, ops>>
        /\ pc \in {"prepare"} \cup Replacing
    BY DEF Prepare, RestoreConf, RestoreFile, FilesRestored, RestoreFails, At, locals,
        Replacing, Linking
  <2>. QED
    BY <1>a, <2>1 DEF IPlace
<1>c. INote' /\ ISaved'
  BY <1>a, <1>b DEF INote, ISaved, Complete
<1>1. CASE Prepare /\ Refuse
  <2>1. pc' = "idle" /\ ret' = "EPERM" /\ UNCHANGED <<system, new, row, faults>>
    BY <1>1 DEF Prepare, Return
  <2>2. TypeOK' /\ NoDangling'
    BY <1>a, <1>b, <2>1 DEF TypeOK, NoDangling, system
  <2>3. IPlace'
    BY <1>a, <1>b, <2>1 DEF IPlace, Saving, Replacing, Linking
  <2>4. CompleteIsRestorable'
    <3>1. SUFFICES ASSUME note[name].done, note[name].fresh
                   PROVE  \E r \in Protected : note[name].files[r] = Missing
      BY <1>b DEF CompleteIsRestorable
    <3>2. Complete(name)
      BY <1>a, <3>1 DEF ISaved
    <3>3. PICK r \in Rows : saved[name].files[r] = Missing
                 /\ r \in IF kind = "authselect" THEN Rows \ {Switchable} ELSE Protected
      BY <1>1 DEF Refuse
    <3>4. note[name].conf = Missing
      BY <1>a, <3>2, <3>3 DEF INote, Complete
    <3>. QED
      BY <1>b, <3>2, <3>3, <3>4 DEF Complete
  <2>. QED
    BY <1>c, <2>1, <2>2, <2>3, <2>4 DEF IInv, ISaving, INew, IConf, IFiles, ILinks,
        Saving, Replacing, Linking, RestoreGivesBack, Restored
<1>2. CASE Prepare /\ ~Refuse
  <2>. DEFINE files == [r \in Rows |->
                  IF kind = "authselect" /\ saved[name].files[r] = Missing
                  THEN Empty ELSE saved[name].files[r]]
  <2>1. /\ pc = "prepare" /\ pc' = "restore conf" /\ UNCHANGED <<system, row, ret, faults>>
        /\ new' = [conf |-> saved[name].conf, files |-> files]
    BY <1>2 DEF Prepare, Goto, At
  <2>2. saved[name].conf \in Configs \cup {Missing, Torn}
        /\ saved[name].files \in [Rows -> Texts \cup {Missing}]
    BY <1>a DEF Dirs
  <2>3. files \in [Rows -> Texts \cup {Missing}]
    BY <2>2 DEF Texts
  <2>4. new' \in Dirs /\ new'.conf = saved[name].conf /\ new'.files = files
    BY <2>1, <2>2, <2>3 DEF Dirs
  <2>5. INew'
    <3>1. \A r \in Rows : saved[name].files[r] # Missing => files[r] = saved[name].files[r]
      OBVIOUS
    <3>2. kind = "authselect" => \A r \in Rows : files[r] # Missing
      BY ValuesAssumption DEF Texts
    <3>3. kind = "system" => \A r \in Rows : files[r] = saved[name].files[r]
      OBVIOUS
    <3>4. \A r \in Protected : r \in Rows /\ files[r] # Missing
      BY <1>2, <1>b, <3>2, <3>3, RowsAssumption DEF Refuse
    <3>. QED
      BY <1>b, <2>4, <3>1, <3>2, <3>3, <3>4 DEF INew
  <2>6. TypeOK' /\ NoDangling'
    BY <1>a, <1>b, <2>1, <2>4 DEF TypeOK, NoDangling, system
  <2>7. IPlace'
    BY <1>a, <1>b, <2>1 DEF IPlace, Saving, Replacing, Linking
  <2>. QED
    BY <1>c, <2>1, <2>5, <2>6, <2>7 DEF IInv, ISaving, IConf, IFiles, ILinks,
        Saving, Replacing, Linking, RestoreGivesBack, Restored, CompleteIsRestorable, IPlace
<1>3. CASE RestoreConf
  <2>1. /\ pc = "restore conf" /\ pc' = "restore"
        /\ UNCHANGED <<gen, sys, new, row, ret>>
        /\ \/ conf' = new.conf /\ faults' = faults
           \/ conf' = conf /\ new.conf = Missing /\ faults < MaxFaults /\ faults' = faults + 1
    BY <1>3 DEF RestoreConf, At, Goto, Unnoticed, locals
  <2>2. row = 1 /\ \A r \in Rows : ~(r < 1)
    <3>1. row = 1
      BY <1>a, <2>1 DEF IPlace
    <3>2. \A r \in Rows : ~(r < 1)
      BY DEF Rows
    <3>. QED
      BY <3>1, <3>2
  <2>3. faults' \in 0..MaxFaults /\ (faults' = faults \/ faults' > 0)
    BY <1>a, <2>1, CountUp, BoundsAssumption, Zenon DEF TypeOK
  <2>4. TypeOK'
    BY <1>a, <1>b, <2>1, <2>3 DEF TypeOK, Dirs
  <2>5. IPlace'
    BY <1>a, <1>b, <2>1 DEF IPlace, Saving, Replacing, Linking
  <2>6. IConf' /\ IFiles'
    BY <2>1, <2>2, CountUp, <1>a, BoundsAssumption DEF IConf, IFiles, TypeOK
  <2>7. INew' /\ NoDangling'
    BY <1>a, <1>b, <2>1 DEF INew, NoDangling, Replacing
  <2>. QED
    BY <1>c, <2>1, <2>4, <2>5, <2>6, <2>7 DEF IInv, ISaving, ILinks,
        Saving, Replacing, Linking, RestoreGivesBack, Restored, CompleteIsRestorable, IPlace
<1>4. CASE RestoreFile
  <2>1. /\ pc = "restore" /\ pc' = "restore" /\ row \in Rows /\ row' = row + 1
        /\ UNCHANGED <<conf, new, ret>>
        /\ \/ /\ kind = "authselect" /\ gen' = [gen EXCEPT ![row] = new.files[row]]
              /\ UNCHANGED <<sys, faults>>
           \/ /\ kind = "system" /\ sys' = [sys EXCEPT ![row] = new.files[row]]
              /\ UNCHANGED <<gen, faults>>
           \/ /\ new.files[row] = Missing /\ UNCHANGED <<gen, sys>>
              /\ faults < MaxFaults /\ faults' = faults + 1
    BY <1>4 DEF RestoreFile, At, Goto, Unnoticed
  <2>2. faults' \in 0..MaxFaults /\ (faults' = faults \/ faults' > 0)
    BY <1>a, <2>1, CountUp, BoundsAssumption, Zenon DEF TypeOK
  <2>3. new.files[row] \in Texts \cup {Missing}
        /\ (kind = "authselect" => new.files[row] # Missing)
    BY <1>a, <2>1 DEF Dirs, INew, Replacing
  <2>4. TypeOK'
    <3>1. row' \in 1..(N + 1)
      BY <1>a, <2>1 DEF Rows
    <3>. QED
      BY <1>a, <1>b, <2>1, <2>2, <2>3, <3>1 DEF TypeOK
  <2>5. IPlace'
    BY <1>a, <1>b, <2>1 DEF IPlace, Saving, Replacing, Linking
  <2>6. NoDangling'
    BY <1>a, <2>1, <2>3, ValuesAssumption DEF NoDangling
  <2>7. IFiles'
    <3>1. \A r \in Rows : r < row' => r < row \/ r = row
      BY <1>a, <2>1 DEF Rows
    <3>2. faults > 0 => faults' > 0
      BY <2>2
    <3>. QED
      BY <1>a, <1>b, <2>1, <2>2, <2>3, <3>1, <3>2 DEF IFiles
  <2>8. IConf' /\ INew'
    BY <1>a, <1>b, <2>1, <2>2 DEF IConf, INew, Replacing, Linking
  <2>. QED
    BY <1>c, <2>1, <2>4, <2>5, <2>6, <2>7, <2>8 DEF IInv, ISaving, ILinks,
        Saving, Replacing, Linking, RestoreGivesBack, Restored, CompleteIsRestorable, IPlace
<1>5. CASE FilesRestored
  <2>1. /\ pc = "restore" /\ row \notin Rows /\ UNCHANGED <<system, new, faults>>
        /\ \/ /\ kind = "authselect" /\ pc' = "unlink" /\ row' = 1 /\ ret' = ret
           \/ /\ kind = "system" /\ pc' = "idle" /\ ret' = "EOK" /\ row' = row
    BY <1>5, <1>b DEF FilesRestored, At, Goto, Return
  <2>2. \A r \in Rows : r < row /\ ~(r < 1)
    BY <1>a, <2>1 DEF Rows
  <2>3. TypeOK' /\ NoDangling'
    <3>1. row' \in 1..(N + 1)
      BY <1>a, <2>1
    <3>2. pc' \in {"unlink", "idle"} /\ ret' \in {ret, "EOK"}
      BY <2>1
    <3>. QED
      BY <1>a, <1>b, <2>1, <3>1, <3>2 DEF TypeOK, NoDangling, system
  <2>4. IPlace'
    BY <1>a, <1>b, <2>1 DEF IPlace, Saving, Replacing, Linking
  <2>5. ILinks'
    BY <1>a, <1>b, <2>1, <2>2 DEF ILinks, IFiles, Linking, system
  <2>6. IConf' /\ INew'
    BY <1>a, <1>b, <2>1 DEF IConf, INew, Replacing, Linking, system
  <2>7. RestoreGivesBack'
    <3>1. SUFFICES ASSUME Restored', note[name].fresh
                   PROVE  GivenBack(name)'
      BY <1>b DEF RestoreGivesBack
    <3>2. note[name].done /\ kind = "system" /\ pc \in Replacing
      BY <1>b, <2>1, <3>1 DEF Restored, Replacing
    <3>3. /\ new.conf = note[name].conf
          /\ \A r \in Rows : new.files[r] = note[name].files[r]
      BY <3>1, <3>2, InHand
    <3>4. \A r \in Rows : sys[r] = new.files[r] \/ (new.files[r] = Missing /\ faults > 0)
      BY <1>a, <2>1, <2>2, <3>2 DEF IFiles
    <3>5. \A r \in Rows : sys[r] # Link => Readable[r] = sys[r]
      BY DEF Readable
    <3>6. \A r \in Rows : new.files[r] # Link
      BY <1>a, ValuesAssumption DEF Dirs
    <3>7. conf = new.conf \/ (new.conf = Missing /\ faults > 0)
      BY <1>a, <2>1 DEF IConf, Replacing
    <3>8. Readable' = Readable /\ conf' = conf /\ faults' = faults
          /\ note' = note /\ name' = name
      BY <1>b, <2>1 DEF Readable, system
    <3>. QED
      BY <3>3, <3>4, <3>5, <3>6, <3>7, <3>8 DEF GivenBack
  <2>. QED
    BY <1>c, <2>1, <2>3, <2>4, <2>5, <2>6, <2>7 DEF IInv, ISaving, IFiles,
        Saving, Replacing, Linking, RestoreGivesBack, Restored, CompleteIsRestorable, IPlace
<1>6. CASE RestoreFails
  <2>1. /\ pc' = "idle" /\ ret' \in {"EIO", "crashed"} /\ UNCHANGED <<system, new, row>>
        /\ faults' = faults + 1 /\ faults < MaxFaults
    BY <1>6 DEF RestoreFails, Fault, Return, locals
  <2>2. faults' \in 0..MaxFaults
    BY <1>a, <2>1, CountUp, BoundsAssumption, Zenon DEF TypeOK
  <2>3. TypeOK' /\ NoDangling'
    BY <1>a, <1>b, <2>1, <2>2 DEF TypeOK, NoDangling, system
  <2>. QED
    BY <1>a, <1>b, <1>c, <2>1, <2>3, IdleInv
<1>. QED
  BY <1>1, <1>2, <1>3, <1>4, <1>5, <1>6

(* The links, made over what is there.                                     *)
LEMMA LinkInv ==
    ASSUME IInv, Unlink \/ Symlink \/ Linked
    PROVE  IInv'
<1>a. /\ TypeOK /\ IPlace /\ INote /\ ISaved /\ INew /\ IConf /\ ILinks /\ NoDangling
      /\ N \in Nat /\ row \in 1..(N + 1)
      /\ gen \in [Rows -> Texts \cup {Missing}] /\ sys \in [Rows -> Texts \cup {Missing, Link}]
  BY RowsAssumption DEF IInv, TypeOK
<1>b. /\ UNCHANGED <<saved, note, name, kind, new, ops, conf, gen, faults>>
      /\ pc \in Linking /\ kind = "authselect"
  <2>1. UNCHANGED <<saved, note, name, kind, new, ops, conf, gen, faults>> /\ pc \in Linking
    BY DEF Unlink, Symlink, Linked, At, Goto, Return, locals, system, Linking
  <2>. QED
    BY <1>a, <2>1 DEF IPlace
<1>c. \A r \in Rows : gen[r] = new.files[r] /\ gen[r] # Missing
  BY <1>a, <1>b DEF ILinks, INew, Replacing
<1>d. INote' /\ ISaved'
  BY <1>a, <1>b DEF INote, ISaved, Complete
<1>1. CASE Unlink
  <2>1. /\ pc = "unlink" /\ pc' = "symlink" /\ row \in Rows /\ UNCHANGED <<row, ret>>
        /\ sys' = [sys EXCEPT ![row] = Missing]
    BY <1>1 DEF Unlink, At, Goto, locals
  <2>2. TypeOK' /\ NoDangling'
    BY <1>a, <1>b, <1>c, <2>1 DEF TypeOK, NoDangling
  <2>3. \A r \in Rows : r < row => r # row
    BY <1>a, <2>1 DEF Rows
  <2>4. IPlace' /\ INew' /\ IConf'
    BY <1>a, <1>b, <2>1 DEF IPlace, INew, IConf, Saving, Replacing, Linking
  <2>5. ILinks'
    BY <1>a, <1>b, <2>1, <2>3 DEF ILinks
  <2>. QED
    BY <1>d, <2>1, <2>2, <2>4, <2>5 DEF IInv, ISaving, IFiles, Saving, Replacing, Linking,
        RestoreGivesBack, Restored, CompleteIsRestorable, IPlace
<1>2. CASE Symlink
  <2>1. /\ pc = "symlink" /\ pc' = "unlink" /\ row' = row + 1 /\ UNCHANGED ret
        /\ row \in Rows /\ sys' = [sys EXCEPT ![row] = Link]
    BY <1>2, <1>a DEF Symlink, At, Goto, IPlace
  <2>2. row' \in 1..(N + 1) /\ \A r \in Rows : r < row' => r < row \/ r = row
    BY <1>a, <2>1 DEF Rows
  <2>3. TypeOK' /\ NoDangling'
    BY <1>a, <1>b, <1>c, <2>1, <2>2 DEF TypeOK, NoDangling
  <2>4. IPlace' /\ INew' /\ IConf'
    BY <1>a, <1>b, <2>1 DEF IPlace, INew, IConf, Saving, Replacing, Linking
  <2>5. ILinks'
    BY <1>a, <1>b, <2>1, <2>2 DEF ILinks
  <2>. QED
    BY <1>d, <2>1, <2>3, <2>4, <2>5 DEF IInv, ISaving, IFiles, Saving, Replacing, Linking,
        RestoreGivesBack, Restored, CompleteIsRestorable, IPlace
<1>3. CASE Linked
  <2>1. /\ pc = "unlink" /\ pc' = "idle" /\ ret' = "EOK" /\ row \notin Rows
        /\ UNCHANGED <<row, sys>>
    BY <1>3 DEF Linked, At, Return, locals, system
  <2>2. \A r \in Rows : r < row
    BY <1>a, <2>1 DEF Rows
  <2>3. TypeOK' /\ NoDangling'
    BY <1>a, <1>b, <2>1 DEF TypeOK, NoDangling
  <2>4. IPlace'
    BY <1>a, <1>b, <2>1 DEF IPlace, Saving, Replacing, Linking
  <2>5. RestoreGivesBack'
    <3>1. SUFFICES ASSUME note[name].done, note[name].fresh
                   PROVE  GivenBack(name)'
      BY <1>b DEF RestoreGivesBack, Restored
    <3>2. /\ new.conf = note[name].conf
          /\ \A r \in Rows : new.files[r] = note[name].files[r]
      BY <1>b, <3>1, InHand DEF Replacing
    <3>3. \A r \in Rows : Readable[r] = new.files[r]
      BY <1>a, <1>b, <1>c, <2>2 DEF Readable, ILinks
    <3>4. conf = new.conf \/ (new.conf = Missing /\ faults > 0)
      BY <1>a, <1>b DEF IConf, Replacing, Linking
    <3>5. Readable' = Readable
      BY <1>b, <2>1 DEF Readable
    <3>. QED
      BY <1>b, <3>2, <3>3, <3>4, <3>5 DEF GivenBack
  <2>. QED
    BY <1>d, <2>1, <2>3, <2>4, <2>5 DEF IInv, ISaving, INew, IConf, IFiles, ILinks,
        Saving, Replacing, Linking, CompleteIsRestorable
<1>. QED
  BY <1>1, <1>2, <1>3

LEMMA NextInv == IInv /\ [Next]_vars => IInv'
<1>. SUFFICES ASSUME IInv, [Next]_vars PROVE IInv'
  OBVIOUS
<1>1. CASE (\E config \in Configs : Activate(config)) \/ OptOut \/ \E r \in Rows : Edit(r)
  BY <1>1, OthersInv
<1>2. CASE \E n \in Names :
              StartBackup(n) \/ RemoveBackup(n) \/ RemoveFails(n) \/ StartRestore(n)
  BY <1>2, BeginInv
<1>3. CASE SaveConf \/ SaveFile \/ SaveFails \/ SaveDone
  BY <1>3, SaveInv
<1>4. CASE Prepare \/ RestoreConf \/ RestoreFile \/ FilesRestored \/ RestoreFails
  BY <1>4, RestoreInv
<1>5. CASE Unlink \/ Symlink \/ Linked
  BY <1>5, LinkInv
<1>6. CASE UNCHANGED vars
  <2>. USE <1>6 DEF vars, system, locals, IInv
  <2>1. Readable' = Readable
    BY DEF Readable
  <2>2. TypeOK' /\ IPlace' /\ INote' /\ ISaved'
    BY DEF TypeOK, IPlace, INote, ISaved, Complete
  <2>3. ISaving' /\ INew' /\ IConf' /\ IFiles' /\ ILinks' /\ NoDangling'
    BY <2>1 DEF ISaving, INew, IConf, IFiles, ILinks, NoDangling
  <2>4. RestoreGivesBack' /\ CompleteIsRestorable'
    BY <2>1 DEF RestoreGivesBack, Restored, GivenBack, CompleteIsRestorable
  <2>. QED
    BY <2>2, <2>3, <2>4
<1>. QED
  BY <1>1, <1>2, <1>3, <1>4, <1>5, <1>6 DEF Next

LEMMA Invariance == Spec => []IInv
BY InitInv, NextInv, PTL DEF Spec

-----------------------------------------------------------------------------

(* The variables have their types, whatever happens in whatever order, and *)
(* for any number of files, backups, commands and failures.                *)
THEOREM TypeCorrect == Spec => []TypeOK
<1>1. IInv => TypeOK
  BY DEF IInv
<1>. QED  BY <1>1, Invariance, PTL

(* No restore, of whatever backup and wherever it ends, leaves a link to a *)
(* generated file that is not there.                                       *)
THEOREM LinksNeverDangle == Spec => []NoDangling
<1>1. IInv => NoDangling
  BY DEF IInv
<1>. QED  BY <1>1, Invariance, PTL

(* A restore that succeeds gives back what was there at the backup.        *)
THEOREM RestoresWhatWasSaved == Spec => []RestoreGivesBack
<1>1. IInv => RestoreGivesBack
  BY DEF IInv
<1>. QED  BY <1>1, Invariance, PTL

(* A completed backup is refused only for want of a protected file that    *)
(* was not there when it was taken.                                        *)
THEOREM CompletedIsAccepted == Spec => []CompleteIsRestorable
<1>1. IInv => CompleteIsRestorable
  BY DEF IInv
<1>. QED  BY <1>1, Invariance, PTL

(* A protected file is never out of reach, except while a link replaces it.*)
THEOREM ProtectedStayReadable == Spec => ProtectedStay
<1>1. IInv /\ [Next]_vars
      => [\A r \in Protected :
             Readable[r] # Missing /\ Readable'[r] = Missing
             => pc' = "symlink" /\ row' = r]_vars
  <2>. SUFFICES ASSUME IInv, Next, NEW r \in Protected,
                       Readable[r] # Missing, Readable'[r] = Missing
                PROVE  pc' = "symlink" /\ row' = r
    OBVIOUS
  <2>a. /\ r \in Rows /\ TypeOK /\ IPlace /\ INew /\ ILinks /\ NoDangling /\ NoDangling'
        /\ gen \in [Rows -> Texts \cup {Missing}]
        /\ sys \in [Rows -> Texts \cup {Missing, Link}]
    BY RowsAssumption, NextInv DEF IInv, TypeOK
  <2>b. sys'[r] = Missing
    BY <2>a DEF Readable, NoDangling
  <2>c. sys[r] # Missing
    BY <2>a, ValuesAssumption DEF Readable
  <2>1. CASE \E config \in Configs : Activate(config)
    BY <2>1, <2>a, <2>b, ValuesAssumption DEF Activate
  <2>2. CASE OptOut
    BY <2>2, <2>a, <2>b DEF OptOut, Readable
  <2>3. CASE \E q \in Rows : Edit(q)
    BY <2>3, <2>a, <2>b, <2>c, ValuesAssumption DEF Edit, Texts
  <2>4. CASE RestoreFile
    BY <2>4, <2>a, <2>b, <2>c DEF RestoreFile, At, INew, Replacing
  <2>5. CASE Unlink
    BY <2>5, <2>a, <2>b, <2>c DEF Unlink, Goto, locals
  <2>6. CASE Symlink
    BY <2>6, <2>a, <2>b, <2>c, ValuesAssumption DEF Symlink
  <2>7. CASE UNCHANGED sys
    BY <2>7, <2>b, <2>c
  <2>. QED
    BY <2>1, <2>2, <2>3, <2>4, <2>5, <2>6, <2>7 DEF Next, StartBackup, RemoveBackup,
        RemoveFails, StartRestore, SaveConf, SaveFile, SaveFails, SaveDone, Prepare,
        RestoreConf, FilesRestored, Linked, RestoreFails, system
<1>. QED  BY <1>1, Invariance, PTL DEF Spec, ProtectedStay

=============================================================================
