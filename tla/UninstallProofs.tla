--------------------------- MODULE UninstallProofs ----------------------------
(***************************************************************************)
(* Proofs about Uninstall.  What is read under every name stays the same   *)
(* because a link is only ever replaced by a file with the content of the  *)
(* generated file it leads to, and a generated file only goes when nothing *)
(* leads to it.  The invariant keeps track of how far each loop has come:  *)
(* the rows that were found to be links, the rows whose copy is written,   *)
(* and the rows whose link is gone.                                        *)
(***************************************************************************)
EXTENDS Uninstall, TLAPS

(* The links are told from the files of the user, up to the current row.   *)
ICheck ==
    stage = "check" =>
        \A r \in Rows : r \in skip <=> r < row /\ sys[r] # Link

(* A row that is copied is a link to a file that exists and is written.    *)
Prepared(r) ==
    IF r \in skip THEN tmp[r] = Missing ELSE tmp[r] = gen[r] /\ gen[r] # Missing

ICopy ==
    stage = "copy" =>
        /\ copied = "running"
        /\ \A r \in Rows : r \in skip <=> old[r] # Link

IFirstLoop ==
    stage = "copy" /\ phase = "temp" =>
        /\ sys = old
        /\ \A r \in Rows : IF r < row THEN Prepared(r) ELSE tmp[r] = Missing

ISecondLoop ==
    stage = "copy" /\ phase = "rename" =>
        \A r \in Rows : IF r < row THEN sys[r] # Link
                                   ELSE sys[r] = old[r] /\ Prepared(r)

NoLinks == \A r \in Rows : sys[r] # Link

IRemove ==
    /\ stage \in {"conf", "files"} => NoLinks
    /\ stage = "files" => ~conf

IResult == stage # "idle" <=> ret = "running"

IInv ==
    /\ TypeOK
    /\ ICheck
    /\ ICopy
    /\ IFirstLoop
    /\ ISecondLoop
    /\ IRemove
    /\ IResult
    /\ NothingChangesForReaders
    /\ SuccessMeansOut
    /\ CanBeRepeated

-----------------------------------------------------------------------------

LEMMA InitInv == Init => IInv
<1>. SUFFICES ASSUME Init PROVE IInv
  OBVIOUS
<1>. USE RowsAssumption, ValuesAssumption DEF Init
<1>1. first \in [Rows -> Values]
  BY DEF Readable, Values
<1>2. TypeOK
  BY <1>1 DEF TypeOK, C!NoTemps, C!Rows, Rows, Values
<1>. QED
  BY <1>2 DEF IInv, ICheck, ICopy, IFirstLoop, ISecondLoop, IRemove, IResult,
              NothingChangesForReaders, SuccessMeansOut, CanBeRepeated

(* The copy of the generated files over their links, one step of SafeCopy. *)
LEMMA CopyInv ==
    ASSUME IInv, Copy
    PROVE  IInv'
<1>. USE RowsAssumption, ValuesAssumption DEF IInv, Copy, End
<1>. USE DEF C!At, C!NextRow, C!Fail, C!NoTemps, C!Rows
<1>a. stage = "copy" /\ copied = "running" /\ TypeOK
      /\ UNCHANGED <<conf, gen, first>>
  BY DEF ICopy
<1>1. CASE C!SkipRow
  <2>. USE <1>1, <1>a DEF C!SkipRow
  <2>1. TypeOK'
    BY DEF TypeOK, Rows
  <2>2. ICopy' /\ IFirstLoop'
    BY DEF ICopy, IFirstLoop, Prepared, TypeOK, Rows
  <2>3. ISecondLoop'
    BY DEF ICopy, ISecondLoop, Prepared, TypeOK, Rows
  <2>. QED
    BY <2>1, <2>2, <2>3 DEF ICheck, IRemove, IResult, NothingChangesForReaders,
        SuccessMeansOut, CanBeRepeated, Readable
<1>2. CASE C!WriteTemp
  <2>. USE <1>2, <1>a DEF C!WriteTemp, C!Copies
  <2>1. tmp' = [tmp EXCEPT ![row] = gen[row]]
    OBVIOUS
  <2>2. TypeOK'
    BY <2>1 DEF TypeOK, Rows
  <2>3. ICopy' /\ IFirstLoop' /\ ISecondLoop'
    BY <2>1 DEF ICopy, IFirstLoop, ISecondLoop, Prepared, TypeOK, Rows
  <2>. QED
    BY <2>2, <2>3 DEF ICheck, IRemove, IResult, NothingChangesForReaders,
        SuccessMeansOut, CanBeRepeated, Readable
<1>3. CASE C!RefuseToDelete
  <2>. USE <1>3, <1>a DEF C!RefuseToDelete
  <2>1. TypeOK'
    BY DEF TypeOK, Rows, Values
  <2>2. sys[row] = Link /\ gen[row] = Missing
    BY DEF ICopy, IFirstLoop, TypeOK, Rows
  <2>3. first[row] = Missing
    BY <2>2 DEF NothingChangesForReaders, Readable, TypeOK, Rows
  <2>4. CanBeRepeated'
    BY <2>3 DEF CanBeRepeated, Rows
  <2>. QED
    BY <2>1, <2>4 DEF ICheck, ICopy, IFirstLoop, ISecondLoop, IRemove, IResult,
        NothingChangesForReaders, SuccessMeansOut, Readable
<1>4. CASE C!WriteFails \/ C!RenameFails
  <2>. USE <1>4, <1>a DEF C!WriteFails, C!RenameFails
  <2>1. TypeOK'
    BY DEF TypeOK, Rows, Values
  <2>. QED
    BY <2>1 DEF ICheck, ICopy, IFirstLoop, ISecondLoop, IRemove, IResult,
        NothingChangesForReaders, SuccessMeansOut, CanBeRepeated, Readable
<1>5. CASE C!StartRenaming
  <2>. USE <1>5, <1>a DEF C!StartRenaming
  <2>1. TypeOK'
    BY DEF TypeOK, Rows
  <2>2. \A r \in Rows : r < row /\ ~(r < 1)
    BY DEF TypeOK, Rows
  <2>3. ICopy' /\ IFirstLoop' /\ ISecondLoop'
    BY <2>2 DEF ICopy, IFirstLoop, ISecondLoop, Prepared
  <2>. QED
    BY <2>1, <2>3 DEF ICheck, IRemove, IResult, NothingChangesForReaders,
        SuccessMeansOut, CanBeRepeated, Readable
<1>6. CASE C!Rename
  <2>. USE <1>6, <1>a DEF C!Rename
  <2>1. tmp[row] = gen[row] /\ gen[row] \in Texts /\ sys[row] = Link
    BY DEF ICopy, ISecondLoop, Prepared, TypeOK, Rows, Values
  <2>2. sys' = [sys EXCEPT ![row] = gen[row]]
    BY <2>1
  <2>3. TypeOK'
    BY <2>1, <2>2 DEF TypeOK, Rows, Values
  <2>4. Readable' = Readable
    BY <2>1, <2>2 DEF Readable, TypeOK, Rows, Values
  <2>5. sys'[row] # Link
    BY <2>1, <2>2 DEF TypeOK, Rows, Values
  <2>6. ISecondLoop'
    BY <2>2, <2>5 DEF ISecondLoop, Prepared, TypeOK, Rows
  <2>. QED
    BY <2>3, <2>4, <2>6 DEF ICheck, ICopy, IFirstLoop, IRemove, IResult,
        NothingChangesForReaders, SuccessMeansOut, CanBeRepeated
<1>7. CASE C!Return
  <2>. USE <1>7, <1>a DEF C!Return
  <2>1. TypeOK'
    BY DEF TypeOK, Rows
  <2>2. NoLinks
    BY DEF ISecondLoop, NoLinks, TypeOK, Rows
  <2>. QED
    BY <2>1, <2>2 DEF ICheck, ICopy, IFirstLoop, ISecondLoop, IRemove, IResult, NoLinks,
        NothingChangesForReaders, SuccessMeansOut, CanBeRepeated, Readable
<1>8. CASE C!WriteEmptyTemp \/ C!DeleteLater \/ C!Remove
  BY <1>8, <1>a DEF C!WriteEmptyTemp, C!DeleteLater, C!Remove, ISecondLoop,
      Prepared, TypeOK, Rows
<1>. QED
  BY <1>1, <1>2, <1>3, <1>4, <1>5, <1>6, <1>7, <1>8 DEF C!Step

LEMMA NextInv == IInv /\ [Next]_vars => IInv'
<1>. SUFFICES ASSUME IInv, [Next]_vars PROVE IInv'
  OBVIOUS
<1>. USE RowsAssumption, ValuesAssumption DEF IInv, copy
<1>1. CASE Start
  <2>. USE <1>1 DEF Start
  <2>1. TypeOK'
    BY DEF TypeOK, Rows
  <2>. QED
    BY <2>1 DEF ICheck, ICopy, IFirstLoop, ISecondLoop, IRemove, IResult,
        NothingChangesForReaders, SuccessMeansOut, CanBeRepeated, Readable, Rows
<1>2. CASE CheckLink
  <2>. USE <1>2 DEF CheckLink
  <2>1. TypeOK'
    BY DEF TypeOK, Rows
  <2>2. ICheck'
    BY DEF ICheck, TypeOK, Rows
  <2>. QED
    BY <2>1, <2>2 DEF ICopy, IFirstLoop, ISecondLoop, IRemove, IResult,
        NothingChangesForReaders, SuccessMeansOut, CanBeRepeated, Readable
<1>3. CASE CheckFails \/ Crash \/ Return
  <2>. USE <1>3 DEF CheckFails, Crash, Return, End
  <2>1. TypeOK'
    BY DEF TypeOK
  <2>. QED
    BY <2>1 DEF ICheck, ICopy, IFirstLoop, ISecondLoop, IRemove, IResult, NoLinks,
        NothingChangesForReaders, SuccessMeansOut, CanBeRepeated, Readable
<1>4. CASE StartCopy
  <2>. USE <1>4 DEF StartCopy, C!NoTemps, C!Rows
  <2>1. TypeOK'
    BY DEF TypeOK, Rows, Values
  <2>2. \A r \in Rows : r < row /\ ~(r < 1)
    BY DEF TypeOK, Rows
  <2>3. ICopy' /\ IFirstLoop'
    BY <2>2 DEF ICheck, ICopy, IFirstLoop, Rows
  <2>. QED
    BY <2>1, <2>3 DEF ICheck, ISecondLoop, IRemove, IResult,
        NothingChangesForReaders, SuccessMeansOut, CanBeRepeated, Readable
<1>5. CASE Copy
  BY <1>5, CopyInv
<1>6. CASE RemoveConf
  <2>. USE <1>6 DEF RemoveConf, End
  <2>a. conf' \in BOOLEAN
    BY Zenon DEF TypeOK
  <2>b. row' \in 1..(N + 1)
    BY DEF TypeOK
  <2>1. TypeOK'
    BY <2>a, <2>b DEF TypeOK
  <2>. QED
    BY <2>1 DEF ICheck, ICopy, IFirstLoop, ISecondLoop, IRemove, IResult, NoLinks,
        NothingChangesForReaders, SuccessMeansOut, CanBeRepeated, Readable
<1>7. CASE RemoveFile
  <2>. USE <1>7 DEF RemoveFile
  <2>1. TypeOK'
    BY DEF TypeOK, Rows, Values
  <2>2. Readable' = Readable
    BY DEF Readable, IRemove, NoLinks
  <2>. QED
    BY <2>1, <2>2 DEF ICheck, ICopy, IFirstLoop, ISecondLoop, IRemove, IResult, NoLinks,
        NothingChangesForReaders, SuccessMeansOut, CanBeRepeated
<1>8. CASE UNCHANGED vars
  BY <1>8 DEF vars, TypeOK, ICheck, ICopy, IFirstLoop, ISecondLoop, Prepared, IRemove,
      IResult, NoLinks, NothingChangesForReaders, SuccessMeansOut, CanBeRepeated, Readable
<1>. QED
  BY <1>1, <1>2, <1>3, <1>4, <1>5, <1>6, <1>7, <1>8 DEF Next, Step

LEMMA Invariance == Spec => []IInv
BY InitInv, NextInv, PTL DEF Spec

-----------------------------------------------------------------------------

(* The variables have their types, for any number of files and names, and  *)
(* whatever the files hold.                                                *)
THEOREM TypeCorrect == Spec => []TypeOK
<1>1. IInv => TypeOK
  BY DEF IInv
<1>. QED  BY <1>1, Invariance, PTL

(* Programs read the same under every name at each moment of any number of *)
(* opt-outs, wherever they fail or die.                                    *)
THEOREM ReadersSeeNoChange == Spec => []NothingChangesForReaders
<1>1. IInv => NothingChangesForReaders
  BY DEF IInv
<1>. QED  BY <1>1, Invariance, PTL

(* An opt-out that succeeds leaves no authselect.conf and no link.         *)
THEOREM OptOutIsComplete == Spec => []SuccessMeansOut
<1>1. IInv => SuccessMeansOut
  BY DEF IInv
<1>. QED  BY <1>1, Invariance, PTL

(* An opt-out is refused only for a generated file that was missing before *)
(* the first one: failed and killed attempts are no obstacle.              *)
THEOREM AttemptsDoNoHarm == Spec => []CanBeRepeated
<1>1. IInv => CanBeRepeated
  BY DEF IInv
<1>. QED  BY <1>1, Invariance, PTL

(* authselect.conf goes in no state in which a name is a link.             *)
THEOREM ConfIsLast == Spec => ConfLeavesAfterLinks
<1>1. IInv /\ [Next]_vars => [conf' # conf => \A r \in Rows : sys[r] # Link]_vars
  <2>. SUFFICES ASSUME IInv, Next, conf' # conf
                PROVE  NoLinks
    BY DEF NoLinks, vars
  <2>1. RemoveConf
    BY DEF Next, Step, Start, CheckLink, CheckFails, StartCopy, Copy, RemoveFile,
        Return, Crash
  <2>. QED  BY <2>1 DEF RemoveConf, IInv, IRemove
<1>. QED  BY <1>1, Invariance, PTL DEF Spec, ConfLeavesAfterLinks

=============================================================================
