--------------------------- MODULE SafeCopyProofs ----------------------------
(***************************************************************************)
(* Proofs about SafeCopy for tables of any length and any content.         *)
(*                                                                         *)
(* The safety properties are not inductive: that a protected destination   *)
(* survives the second loop depends on what the first one left in the      *)
(* temporary files.  IInv says so: rows the first loop is past are         *)
(* Prepared, rows the second loop has not reached are still Prepared.      *)
(***************************************************************************)
EXTENDS SafeCopy, TLAPS

(* What the first loop leaves of row r.                                    *)
Prepared(r) ==
    IF r \in skip THEN tmp[r] = Missing
    ELSE IF src[r] # Missing
         THEN tmp[r] = src[r] \/ ("shortwrite" \in Faults /\ tmp[r] = Short)
    ELSE IF r \in EmptyIfMissing THEN tmp[r] = Empty
    ELSE r \in CanUnlink /\ tmp[r] = Missing

(* No data is lost behind the back of the calls that report errors.        *)
Reliable == "shortwrite" \notin Faults

IFirstLoop ==
    /\ phase = "temp" => dst = old
    /\ ret = "running" /\ phase = "temp" =>
          \A r \in Rows : IF r < row THEN Prepared(r) ELSE tmp[r] = Missing

ISecondLoop ==
    ret = "running" /\ phase = "rename" =>
        \A r \in Rows :
            IF r < row THEN tmp[r] = Missing /\ (Reliable => Wanted[r] = Missing \/ dst[r] = Wanted[r])
                       ELSE Prepared(r)

IInv ==
    /\ TypeOK
    /\ IFirstLoop
    /\ ISecondLoop
    /\ ProtectedStay
    /\ SkippedUntouched
    /\ NoLitter

-----------------------------------------------------------------------------

LEMMA InitInv == Init => IInv
<1> SUFFICES ASSUME Init PROVE IInv
    OBVIOUS
<1>1. TypeOK
    BY NAssumption DEF Init, TypeOK, NoTemps, Values
<1>2. \A r \in Rows : r >= row
    BY DEF Init, Rows
<1>3. QED
    BY <1>1, <1>2 DEF Init, IInv, IFirstLoop, ISecondLoop, ProtectedStay,
        SkippedUntouched, NoLitter, NoTemps, Rows

LEMMA NextInv == IInv /\ [Next]_vars => IInv'
<1> SUFFICES ASSUME IInv, [Next]_vars PROVE IInv'
    OBVIOUS
<1> USE NAssumption, ContentsAssumption, MissingAssumption, TableAssumption
<1> USE DEF IInv
<1>1. CASE SkipRow
    <2> USE <1>1 DEF SkipRow, At, NextRow
    <2>1. TypeOK'
        BY DEF TypeOK, Rows, Values
    <2>2. IFirstLoop'
        BY DEF TypeOK, IFirstLoop, Prepared, Rows, Values
    <2>3. ISecondLoop'
        BY DEF TypeOK, IFirstLoop, ISecondLoop, SkippedUntouched, Prepared,
            Wanted, Reliable, Rows, Values
    <2>4. ProtectedStay'
        BY DEF TypeOK, ISecondLoop, ProtectedStay, Prepared, Rows, Values
    <2>5. SkippedUntouched'
        BY DEF TypeOK, SkippedUntouched, Rows, Values
    <2>6. NoLitter'
        BY DEF TypeOK, IFirstLoop, ISecondLoop, NoLitter, NoTemps, Prepared, Rows, Values
    <2>7. QED
        BY <2>1, <2>2, <2>3, <2>4, <2>5, <2>6
<1>2. CASE WriteTemp
    <2> USE <1>2 DEF WriteTemp, Copies, At, NextRow
    <2>1. TypeOK'
        BY DEF TypeOK, Rows, Values
    <2>2. IFirstLoop'
        BY DEF TypeOK, IFirstLoop, Prepared, Rows, Values
    <2>3. ISecondLoop'
        BY DEF TypeOK, IFirstLoop, ISecondLoop, SkippedUntouched, Prepared,
            Wanted, Reliable, Rows, Values
    <2>4. ProtectedStay'
        BY DEF TypeOK, ISecondLoop, ProtectedStay, Prepared, Rows, Values
    <2>5. SkippedUntouched'
        BY DEF TypeOK, SkippedUntouched, Rows, Values
    <2>6. NoLitter'
        BY DEF TypeOK, IFirstLoop, ISecondLoop, NoLitter, NoTemps, Prepared, Rows, Values
    <2>7. QED
        BY <2>1, <2>2, <2>3, <2>4, <2>5, <2>6
<1>3. CASE WriteEmptyTemp
    <2> USE <1>3 DEF WriteEmptyTemp, At, NextRow
    <2>1. TypeOK'
        BY DEF TypeOK, Rows, Values
    <2>2. IFirstLoop'
        BY DEF TypeOK, IFirstLoop, Prepared, Rows, Values
    <2>3. ISecondLoop'
        BY DEF TypeOK, IFirstLoop, ISecondLoop, SkippedUntouched, Prepared,
            Wanted, Reliable, Rows, Values
    <2>4. ProtectedStay'
        BY DEF TypeOK, ISecondLoop, ProtectedStay, Prepared, Rows, Values
    <2>5. SkippedUntouched'
        BY DEF TypeOK, SkippedUntouched, Rows, Values
    <2>6. NoLitter'
        BY DEF TypeOK, IFirstLoop, ISecondLoop, NoLitter, NoTemps, Prepared, Rows, Values
    <2>7. QED
        BY <2>1, <2>2, <2>3, <2>4, <2>5, <2>6
<1>4. CASE DeleteLater
    <2> USE <1>4 DEF DeleteLater, At, NextRow
    <2>1. TypeOK'
        BY DEF TypeOK, Rows, Values
    <2>2. IFirstLoop'
        BY DEF TypeOK, IFirstLoop, Prepared, Rows, Values
    <2>3. ISecondLoop'
        BY DEF TypeOK, IFirstLoop, ISecondLoop, SkippedUntouched, Prepared,
            Wanted, Reliable, Rows, Values
    <2>4. ProtectedStay'
        BY DEF TypeOK, ISecondLoop, ProtectedStay, Prepared, Rows, Values
    <2>5. SkippedUntouched'
        BY DEF TypeOK, SkippedUntouched, Rows, Values
    <2>6. NoLitter'
        BY DEF TypeOK, IFirstLoop, ISecondLoop, NoLitter, NoTemps, Prepared, Rows, Values
    <2>7. QED
        BY <2>1, <2>2, <2>3, <2>4, <2>5, <2>6
<1>5. CASE RefuseToDelete
    <2> USE <1>5 DEF RefuseToDelete, At, Fail, NoTemps
    <2>1. TypeOK'
        BY DEF TypeOK, Rows, Values
    <2>2. IFirstLoop'
        BY DEF TypeOK, IFirstLoop, Prepared, Rows, Values
    <2>3. ISecondLoop'
        BY DEF TypeOK, IFirstLoop, ISecondLoop, SkippedUntouched, Prepared,
            Wanted, Reliable, Rows, Values
    <2>4. ProtectedStay'
        BY DEF TypeOK, ISecondLoop, ProtectedStay, Prepared, Rows, Values
    <2>5. SkippedUntouched'
        BY DEF TypeOK, SkippedUntouched, Rows, Values
    <2>6. NoLitter'
        BY DEF TypeOK, IFirstLoop, ISecondLoop, NoLitter, NoTemps, Prepared, Rows, Values
    <2>7. QED
        BY <2>1, <2>2, <2>3, <2>4, <2>5, <2>6
<1>6. CASE WriteFails
    <2> USE <1>6 DEF WriteFails, At, Fail, NoTemps
    <2>1. TypeOK'
        BY DEF TypeOK, Rows, Values
    <2>2. IFirstLoop'
        BY DEF TypeOK, IFirstLoop, Prepared, Rows, Values
    <2>3. ISecondLoop'
        BY DEF TypeOK, IFirstLoop, ISecondLoop, SkippedUntouched, Prepared,
            Wanted, Reliable, Rows, Values
    <2>4. ProtectedStay'
        BY DEF TypeOK, ISecondLoop, ProtectedStay, Prepared, Rows, Values
    <2>5. SkippedUntouched'
        BY DEF TypeOK, SkippedUntouched, Rows, Values
    <2>6. NoLitter'
        BY DEF TypeOK, IFirstLoop, ISecondLoop, NoLitter, NoTemps, Prepared, Rows, Values
    <2>7. QED
        BY <2>1, <2>2, <2>3, <2>4, <2>5, <2>6
<1>7. CASE StartRenaming
    <2> USE <1>7 DEF StartRenaming
    <2>1. TypeOK'
        BY DEF TypeOK, Rows, Values
    <2>2. IFirstLoop'
        BY DEF TypeOK, IFirstLoop, Prepared, Rows, Values
    <2>3. ISecondLoop'
        BY DEF TypeOK, IFirstLoop, ISecondLoop, SkippedUntouched, Prepared,
            Wanted, Reliable, Rows, Values
    <2>4. ProtectedStay'
        BY DEF TypeOK, ISecondLoop, ProtectedStay, Prepared, Rows, Values
    <2>5. SkippedUntouched'
        BY DEF TypeOK, SkippedUntouched, Rows, Values
    <2>6. NoLitter'
        BY DEF TypeOK, IFirstLoop, ISecondLoop, NoLitter, NoTemps, Prepared, Rows, Values
    <2>7. QED
        BY <2>1, <2>2, <2>3, <2>4, <2>5, <2>6
<1>8. CASE Rename
    <2> USE <1>8 DEF Rename, At, NextRow
    <2>1. TypeOK'
        BY DEF TypeOK, Rows, Values
    <2>2. IFirstLoop'
        BY DEF TypeOK, IFirstLoop, Prepared, Rows, Values
    <2>3. ISecondLoop'
        BY DEF TypeOK, IFirstLoop, ISecondLoop, SkippedUntouched, Prepared,
            Wanted, Reliable, Rows, Values
    <2>4. ProtectedStay'
        BY DEF TypeOK, ISecondLoop, ProtectedStay, Prepared, Rows, Values
    <2>5. SkippedUntouched'
        BY DEF TypeOK, SkippedUntouched, Rows, Values
    <2>6. NoLitter'
        BY DEF TypeOK, IFirstLoop, ISecondLoop, NoLitter, NoTemps, Prepared, Rows, Values
    <2>7. QED
        BY <2>1, <2>2, <2>3, <2>4, <2>5, <2>6
<1>9. CASE RenameFails
    <2> USE <1>9 DEF RenameFails, At, Fail, NoTemps
    <2>1. TypeOK'
        BY DEF TypeOK, Rows, Values
    <2>2. IFirstLoop'
        BY DEF TypeOK, IFirstLoop, Prepared, Rows, Values
    <2>3. ISecondLoop'
        BY DEF TypeOK, IFirstLoop, ISecondLoop, SkippedUntouched, Prepared,
            Wanted, Reliable, Rows, Values
    <2>4. ProtectedStay'
        BY DEF TypeOK, ISecondLoop, ProtectedStay, Prepared, Rows, Values
    <2>5. SkippedUntouched'
        BY DEF TypeOK, SkippedUntouched, Rows, Values
    <2>6. NoLitter'
        BY DEF TypeOK, IFirstLoop, ISecondLoop, NoLitter, NoTemps, Prepared, Rows, Values
    <2>7. QED
        BY <2>1, <2>2, <2>3, <2>4, <2>5, <2>6
<1>10. CASE Remove
    <2> USE <1>10 DEF Remove, At, NextRow
    <2>1. TypeOK'
        BY DEF TypeOK, Rows, Values
    <2>2. IFirstLoop'
        BY DEF TypeOK, IFirstLoop, Prepared, Rows, Values
    <2>3. ISecondLoop'
        BY DEF TypeOK, IFirstLoop, ISecondLoop, SkippedUntouched, Prepared,
            Wanted, Reliable, Rows, Values
    <2>4. ProtectedStay'
        BY DEF TypeOK, ISecondLoop, ProtectedStay, Prepared, Rows, Values
    <2>5. SkippedUntouched'
        BY DEF TypeOK, SkippedUntouched, Rows, Values
    <2>6. NoLitter'
        BY DEF TypeOK, IFirstLoop, ISecondLoop, NoLitter, NoTemps, Prepared, Rows, Values
    <2>7. QED
        BY <2>1, <2>2, <2>3, <2>4, <2>5, <2>6
<1>11. CASE Return
    <2> USE <1>11 DEF Return
    <2>1. TypeOK'
        BY DEF TypeOK, Rows, Values
    <2>2. IFirstLoop'
        BY DEF TypeOK, IFirstLoop, Prepared, Rows, Values
    <2>3. ISecondLoop'
        BY DEF TypeOK, IFirstLoop, ISecondLoop, SkippedUntouched, Prepared,
            Wanted, Reliable, Rows, Values
    <2>4. ProtectedStay'
        BY DEF TypeOK, ISecondLoop, ProtectedStay, Prepared, Rows, Values
    <2>5. SkippedUntouched'
        BY DEF TypeOK, SkippedUntouched, Rows, Values
    <2>6. NoLitter'
        BY DEF TypeOK, IFirstLoop, ISecondLoop, NoLitter, NoTemps, Prepared, Rows, Values
    <2>7. QED
        BY <2>1, <2>2, <2>3, <2>4, <2>5, <2>6
<1>12. CASE Crash
    <2> USE <1>12 DEF Crash
    <2>1. TypeOK'
        BY DEF TypeOK, Rows, Values
    <2>2. IFirstLoop'
        BY DEF TypeOK, IFirstLoop, Prepared, Rows, Values
    <2>3. ISecondLoop'
        BY DEF TypeOK, IFirstLoop, ISecondLoop, SkippedUntouched, Prepared,
            Wanted, Reliable, Rows, Values
    <2>4. ProtectedStay'
        BY DEF TypeOK, ISecondLoop, ProtectedStay, Prepared, Rows, Values
    <2>5. SkippedUntouched'
        BY DEF TypeOK, SkippedUntouched, Rows, Values
    <2>6. NoLitter'
        BY DEF TypeOK, IFirstLoop, ISecondLoop, NoLitter, NoTemps, Prepared, Rows, Values
    <2>7. QED
        BY <2>1, <2>2, <2>3, <2>4, <2>5, <2>6
<1>13. CASE UNCHANGED vars
    BY <1>13 DEF vars, TypeOK, IFirstLoop, ISecondLoop, Prepared, Wanted,
        ProtectedStay, SkippedUntouched, NoLitter, NoTemps
<1>14. QED
    BY <1>1, <1>2, <1>3, <1>4, <1>5, <1>6, <1>7, <1>8, <1>9, <1>10, <1>11, <1>12, <1>13 DEF Next, Step

-----------------------------------------------------------------------------

LEMMA Invariance == Spec => []IInv
<1> QED
    BY InitInv, NextInv, PTL DEF Spec

(* TypeOK holds for every table and whatever fails.                        *)
THEOREM TypeCorrect == Spec => []TypeOK
<1>1. IInv => TypeOK
    BY DEF IInv
<1> QED
    BY <1>1, Invariance, PTL

(* An error before the first rename leaves every destination as it was,    *)
(* for tables of any length: selinux_copy_files_safely can "safely fail".  *)
THEOREM FailureIsSafe == Spec => []SafeFailure
<1>1. IInv => SafeFailure
    BY DEF IInv, IFirstLoop, SafeFailure
<1> QED
    BY <1>1, Invariance, PTL

(* A destination the table does not allow to remove never goes missing,    *)
(* at no point of the copy and under no combination of failures.           *)
THEOREM ProtectedFilesStay == Spec => []ProtectedStay
<1>1. IInv => ProtectedStay
    BY DEF IInv
<1> QED
    BY <1>1, Invariance, PTL

(* No temporary file outlives the call, unless the process dies.           *)
THEOREM LeavesNoLitter == Spec => []NoLitter
<1>1. IInv => NoLitter
    BY DEF IInv
<1> QED
    BY <1>1, Invariance, PTL

(* The rows that are skipped are not touched.                              *)
THEOREM SkipsRows == Spec => []SkippedUntouched
<1>1. IInv => SkippedUntouched
    BY DEF IInv
<1> QED
    BY <1>1, Invariance, PTL

-----------------------------------------------------------------------------

(* With errors and crashes at any point, but without lost data that the    *)
(* code does not notice, selinux_copy_files_safely implements              *)
(* AtomicReplace: every destination is the old file or the wanted one, a   *)
(* refusal has changed nothing, EOK means that all of them were replaced.  *)
THEOREM Implementation == Reliable => (Spec => Refinement)
<1> SUFFICES ASSUME Reliable PROVE Spec => Refinement
    OBVIOUS
<1>1. Init => Abstract!Init
    <2> SUFFICES ASSUME Init PROVE Abstract!Init
        OBVIOUS
    <2>1. Wanted \in [Rows -> Values]
        BY ContentsAssumption DEF Init, Wanted, Values
    <2>2. Outcome = "running"
        BY DEF Init, Outcome
    <2> QED
        BY <2>1, <2>2 DEF Init, Abstract!Init
<1>2. IInv /\ [Next]_vars => [Abstract!Next]_(Abstract!vars)
    <2> SUFFICES ASSUME IInv, [Next]_vars
                 PROVE  [Abstract!Next]_(Abstract!vars)
        OBVIOUS
    <2> USE DEF Abstract!vars
    <2>1. CASE SkipRow \/ WriteTemp \/ WriteEmptyTemp \/ DeleteLater \/ StartRenaming
        BY <2>1 DEF SkipRow, WriteTemp, WriteEmptyTemp, DeleteLater,
            StartRenaming, At, NextRow, Wanted, Outcome
    <2>2. CASE RefuseToDelete \/ WriteFails
        BY <2>2 DEF RefuseToDelete, WriteFails, At, Fail, Wanted, Outcome,
            IInv, IFirstLoop, Abstract!Next, Abstract!Refuse
    <2>3. CASE Rename
        <3> USE <2>3 DEF Rename, At, NextRow
        <3>1. tmp[row] = Wanted[row]
            BY DEF IInv, ISecondLoop, Prepared, Wanted, Reliable, TypeOK, Rows
        <3>2. Wanted' = Wanted /\ Outcome = "running" /\ Outcome' = "running"
            BY DEF Wanted, Outcome
        <3> QED
            BY <3>1, <3>2 DEF Abstract!Next, Abstract!Replace
    <2>4. CASE Remove
        <3> USE <2>4 DEF Remove, At, NextRow
        <3>1. Wanted[row] = Missing
            BY DEF IInv, ISecondLoop, Prepared, Wanted, Reliable, TypeOK, Rows,
                Values, ProtectedStay
        <3>2. dst' = [dst EXCEPT ![row] = Missing] \/ dst' = dst
            OBVIOUS
        <3>3. Wanted' = Wanted /\ Outcome = "running" /\ Outcome' = "running"
            BY DEF Wanted, Outcome
        <3> QED
            BY <3>1, <3>2, <3>3 DEF Abstract!Next, Abstract!Replace
    <2>5. CASE RenameFails
        BY <2>5 DEF RenameFails, At, Fail, Wanted, Outcome,
            Abstract!Next, Abstract!Interrupt
    <2>6. CASE Crash
        BY <2>6 DEF Crash, Wanted, Outcome, Abstract!Next, Abstract!Interrupt
    <2>7. CASE Return
        <3> USE <2>7 DEF Return
        <3>2. \A r \in Rows : Wanted[r] # Missing => dst[r] = Wanted[r]
            BY NAssumption DEF IInv, ISecondLoop, TypeOK, Rows
        <3>3. Wanted' = Wanted /\ Outcome = "running" /\ Outcome' = "complete"
            BY DEF Wanted, Outcome
        <3> QED
            BY <3>2, <3>3 DEF Abstract!Next, Abstract!Complete
    <2>8. CASE UNCHANGED vars
        BY <2>8 DEF vars, Wanted, Outcome
    <2> QED
        BY <2>1, <2>2, <2>3, <2>4, <2>5, <2>6, <2>7, <2>8 DEF Next, Step
<1> QED
    BY <1>1, <1>2, Invariance, PTL DEF Spec, Abstract!Spec, Refinement

-----------------------------------------------------------------------------

(* The two calls whose result is not looked at, fclose (file.c:545) and    *)
(* unlink (selinux.c:434), do what they are asked to do.                   *)
NothingUnnoticed == Faults \cap {"shortwrite", "unlink"} = {}

(* What the second loop is past is as wanted, and EOK ends that loop.      *)
IComplete ==
    /\ ret = "running" /\ phase = "rename" => \A r \in Rows : r < row => dst[r] = Wanted[r]
    /\ ret = "EOK" => \A r \in Rows : dst[r] = Wanted[r]

LEMMA CompleteNext ==
    ASSUME NothingUnnoticed, IInv, IComplete, [Next]_vars
    PROVE  IComplete'
<1>a. /\ dst \in [Rows -> Values] /\ row \in 1..(N + 1) /\ N \in Nat
      /\ \A r \in Rows : r < row + 1 <=> r < row \/ r = row
      /\ \A r \in Rows : ~(r < 1)
  BY NAssumption DEF IInv, TypeOK, Rows
<1>1. CASE SkipRow
  <2>1. UNCHANGED <<src, dst, skip, old, phase, ret>> /\ row' = row + 1
        /\ row \in Rows /\ row \in skip
    BY <1>1 DEF SkipRow, At, NextRow
  <2>2. Wanted' = Wanted /\ dst[row] = Wanted[row]
    BY <2>1 DEF IInv, SkippedUntouched, Wanted
  <2>. QED
    BY <1>a, <2>1, <2>2 DEF IComplete
<1>2. CASE Rename
  <2>1. /\ UNCHANGED <<src, skip, old, phase, ret>> /\ row' = row + 1
        /\ dst' = [dst EXCEPT ![row] = tmp[row]]
        /\ row \in Rows /\ row \notin skip /\ tmp[row] # Missing
        /\ ret = "running" /\ phase = "rename"
    BY <1>2 DEF Rename, At, NextRow
  <2>2. Prepared(row) /\ "shortwrite" \notin Faults
    BY <1>a, <2>1 DEF IInv, ISecondLoop, NothingUnnoticed, Rows
  <2>3. Wanted' = Wanted /\ tmp[row] = Wanted[row]
    BY <2>1, <2>2 DEF Prepared, Wanted
  <2>. QED
    BY <1>a, <2>1, <2>3 DEF IComplete
<1>3. CASE Remove
  <2>1. /\ UNCHANGED <<src, skip, old, phase, ret>> /\ row' = row + 1
        /\ dst' = [dst EXCEPT ![row] = Missing]
        /\ row \in Rows /\ row \notin skip /\ tmp[row] = Missing
        /\ ret = "running" /\ phase = "rename"
    BY <1>3 DEF Remove, At, NextRow, NothingUnnoticed
  <2>2. Prepared(row) /\ "shortwrite" \notin Faults
    BY <1>a, <2>1 DEF IInv, ISecondLoop, NothingUnnoticed, Rows
  <2>3. Wanted' = Wanted /\ Wanted[row] = Missing
    BY <2>1, <2>2, ContentsAssumption, MissingAssumption DEF Prepared, Wanted
  <2>. QED
    BY <1>a, <2>1, <2>3 DEF IComplete
<1>4. CASE WriteTemp \/ WriteEmptyTemp \/ DeleteLater \/ RefuseToDelete \/ WriteFails
  BY <1>4 DEF WriteTemp, WriteEmptyTemp, DeleteLater, RefuseToDelete, WriteFails, Fail,
     At, NextRow, IComplete
<1>5. CASE StartRenaming \/ RenameFails \/ Crash
  BY <1>5, <1>a DEF StartRenaming, RenameFails, Crash, At, Fail, IComplete
<1>6. CASE Return
  <2>1. UNCHANGED <<src, dst, skip, old>> /\ ret = "running" /\ phase = "rename"
        /\ row \notin Rows /\ ret' = "EOK"
    BY <1>6 DEF Return
  <2>2. Wanted' = Wanted /\ \A r \in Rows : r < row
    BY <1>a, <2>1 DEF Wanted, Rows
  <2>. QED
    BY <2>1, <2>2 DEF IComplete
<1>7. CASE UNCHANGED vars
  BY <1>7 DEF vars, IComplete, Wanted
<1>. QED
  BY <1>1, <1>2, <1>3, <1>4, <1>5, <1>6, <1>7 DEF Next, Step

(* EOK means that all destinations are as wanted, whatever else fails, if  *)
(* fclose and unlink do not: the two unchecked calls are the only cause of *)
(* the violation that the run with a full disk finds.                      *)
THEOREM SuccessNeedsTwoCalls == NothingUnnoticed => (Spec => []SuccessIsComplete)
<1>. SUFFICES ASSUME NothingUnnoticed PROVE Spec => []SuccessIsComplete
  OBVIOUS
<1>1. Init => IComplete
  BY DEF Init, IComplete
<1>2. IInv /\ IComplete /\ [Next]_vars => IComplete'
  BY CompleteNext
<1>3. IInv /\ IComplete => SuccessIsComplete
  BY DEF IInv, TypeOK, IComplete, SuccessIsComplete, Wanted
<1>. QED  BY <1>1, <1>2, <1>3, Invariance, PTL DEF Spec

=============================================================================
