----------------------------- MODULE StringArray -----------------------------
(***************************************************************************)
(* NULL-terminated arrays of strings (src/src/lib/util/string_array.c), as *)
(* sequences.  Lists of features are such arrays wherever they are read,   *)
(* merged, changed and written.                                            *)
(***************************************************************************)
EXTENDS Naturals, SequencesExt

HasValue(array, value) == Contains(array, value)

(* unique: a value that is already there is not added again.               *)
AddValue(array, value, unique) ==
    IF unique /\ HasValue(array, value) THEN array ELSE Append(array, value)

AddAll(to, items, unique) ==
    FoldLeft(LAMBDA array, value : AddValue(array, value, unique), to, items)

Copy(array, unique) == AddAll(<<>>, array, unique)

(* The strings of array that are none of values.                           *)
Without(array, values) ==
    FoldLeft(LAMBDA kept, value : IF value \in values THEN kept ELSE Append(kept, value),
             <<>>, array)

(* A broken variant, no part of the specification: the rest does not move, *)
(* so that the array ends where the string was.                            *)
BrokenDelValue(array, value, owner, stale) ==
    IF Contains(array, value)
    THEN SubSeq(array, 1, SelectInSeq(array, LAMBDA s : s = value) - 1)
    ELSE array

(* Every string equal to value is freed and the rest moves together.  If   *)
(* value is the string at index owner itself (0: it is memory of the       *)
(* caller), it has been freed when the strings after it are compared, and  *)
(* stale is what that memory then holds.                                   *)
DelValue(array, value, owner, stale) ==
    LET Freed(i)      == array[i] = IF owner # 0 /\ i > owner THEN stale ELSE value
        Move(kept, i) == IF Freed(i) THEN kept ELSE Append(kept, array[i])
    IN  FoldLeftDomain(Move, <<>>, array)

=============================================================================
