---------------------------- MODULE TemplateProofs ----------------------------
(***************************************************************************)
(* Proofs about Template, for any templates and any features.              *)
(***************************************************************************)
EXTENDS EvaluatorProofs, FiniteSetTheorems

-----------------------------------------------------------------------------
(* The reference reading satisfies its equation: functions that do so for  *)
(* the first n items exist for every n.                                    *)

ReadFrom(t, start, R, i) ==
    IF i = 0 THEN Unread(t, start) ELSE Read(t, R[i - 1], i)

LEMMA ReadingIs ==
    ASSUME NEW t, Len(t) \in Nat, NEW start
    PROVE  LET R == Reading(t, start) IN
           /\ R[0] = Unread(t, start)
           /\ \A i \in 1..Len(t) : R[i] = Read(t, R[i - 1], i)
<1>. DEFINE B(F, i) == ReadFrom(t, start, F, i)
            Good(n) == \E F : F = [i \in 0..Len(t) |-> F[i]] /\
                              \A i \in 0..Len(t) : i < n => F[i] = B(F, i)
            S == {n \in Nat : Good(n)}
<1>1. Good(0)
  <2>. DEFINE F == [i \in 0..Len(t) |-> 0]
  <2>1. F = [i \in 0..Len(t) |-> F[i]] /\ \A i \in 0..Len(t) : ~(i < 0)
    OBVIOUS
  <2>. QED
    BY <2>1
<1>2. ASSUME NEW n \in Nat, Good(n) PROVE Good(n + 1)
  <2>1. PICK F : \A i \in 0..Len(t) : i < n => F[i] = B(F, i)
    BY <1>2
  <2>. DEFINE G == [i \in 0..Len(t) |-> B(F, i)]
  <2>2. \A i \in 0..Len(t) : G[i] = B(F, i)
    OBVIOUS
  <2>3. G = [i \in 0..Len(t) |-> G[i]]
    OBVIOUS
  <2>. HIDE DEF G
  <2>4. ASSUME NEW i \in 0..Len(t), i < n + 1 PROVE G[i] = B(G, i)
    <3>1. i # 0 => i - 1 \in 0..Len(t) /\ i - 1 < n
      BY <2>4
    <3>2. i # 0 => G[i - 1] = F[i - 1]
      BY <2>1, <2>2, <3>1
    <3>3. B(F, i) = B(G, i)
      BY <3>2 DEF ReadFrom
    <3>. QED
      BY <2>2, <3>3
  <2>. QED
    BY <2>3, <2>4
<1>3. Good(Len(t) + 1)
  <2>. HIDE DEF Good
  <2>1. 0 \in S /\ \A n \in Nat : n \in S => n + 1 \in S
    BY <1>1, <1>2
  <2>. HIDE DEF S
  <2>2. \A n \in Nat : n \in S
    BY <2>1, InductionOverNat
  <2>. QED
    BY <2>2 DEF S
<1>4. PICK F : F = [i \in 0..Len(t) |-> F[i]] /\ \A i \in 0..Len(t) : F[i] = B(F, i)
  <2>1. PICK F : F = [i \in 0..Len(t) |-> F[i]] /\
                 \A i \in 0..Len(t) : i < Len(t) + 1 => F[i] = B(F, i)
    BY <1>3
  <2>2. \A i \in 0..Len(t) : i < Len(t) + 1
    OBVIOUS
  <2>. QED
    BY <2>1, <2>2
<1>. DEFINE Q(W) == W = [i \in 0..Len(t) |-> B(W, i)]
<1>5. Q(F)
  <2>1. [i \in 0..Len(t) |-> F[i]] = [i \in 0..Len(t) |-> B(F, i)]
    BY <1>4
  <2>. QED
    BY <1>4, <2>1
<1>6. Reading(t, start) = CHOOSE W : Q(W)
  BY DEF Reading, ReadFrom
<1>. HIDE DEF Q
<1>7. Q(Reading(t, start))
  BY <1>5, <1>6
<1>. DEFINE R == Reading(t, start)
<1>8. \A i \in 0..Len(t) : R[i] = ReadFrom(t, start, R, i)
  BY <1>7 DEF Q
<1>. HIDE DEF R
<1>9. R[0] = Unread(t, start) /\ \A i \in 1..Len(t) : R[i] = Read(t, R[i - 1], i)
  BY <1>8 DEF ReadFrom
<1>. QED
  BY <1>9 DEF R

(* An item that is not read: ordinary text, or nothing counts any more.    *)
Passes(t, r, i) ==
    \/ t[i].op \in {"text", "newline"}
    \/ r.wrong \/ r.end <= Len(t) \/ Line(t, i) \in r.removed

LEMMA Passed ==
    ASSUME NEW t, NEW r, NEW i, Passes(t, r, i)
    PROVE  Read(t, r, i) = r
BY DEF Passes, Read

(* An operator that is read turns r into s.                                *)
Turns(t, i, holds, r, s) ==
    /\ s.features = IF t[i].op = "imply" /\ TRUE \in holds
                    THEN r.features \cup t[i].implied ELSE r.features
    /\ s.removed = IF Removes(t[i].op, holds)
                   THEN r.removed \cup {Line(t, i)} ELSE r.removed
    /\ s.end = IF Leaves(t[i].op, holds) THEN i ELSE r.end
    /\ s.wrong \in BOOLEAN /\ (s.wrong <=> holds = {})

LEMMA Taken ==
    ASSUME NEW t, NEW r, NEW i, ~Passes(t, r, i)
    PROVE  Turns(t, i, Meaning(t[i].expr, r.features), r, Read(t, r, i))
BY DEF Passes, Read, Turns

(* What is removed are lines that have been reached, and the end is an     *)
(* item that has been read.                                                *)
LEMMA ReadingFacts ==
    ASSUME NEW t, Len(t) \in Nat, NEW start
    PROVE  \A i \in 0..Len(t) :
              LET r == Reading(t, start)[i] IN
              /\ \A l \in r.removed : \E j \in 1..i : l = Line(t, j)
              /\ r.end = Len(t) + 1 \/ r.end \in 1..i
              /\ r.wrong \in BOOLEAN
<1>. DEFINE R == Reading(t, start)
            Good(i) == /\ \A l \in R[i].removed : \E j \in 1..i : l = Line(t, j)
                       /\ R[i].end = Len(t) + 1 \/ R[i].end \in 1..i
                       /\ R[i].wrong \in BOOLEAN
            S == {n \in Nat : n <= Len(t) => Good(n)}
<1>0. R[0] = Unread(t, start) /\ \A i \in 1..Len(t) : R[i] = Read(t, R[i - 1], i)
  BY ReadingIs
<1>. HIDE DEF R
<1>1. Good(0)
  BY <1>0 DEF Unread
<1>2. ASSUME NEW n \in Nat, n + 1 <= Len(t), Good(n) PROVE Good(n + 1)
  <2>. DEFINE i == n + 1
              r == R[n]
              s == R[i]
  <2>1. i \in 1..Len(t) /\ i - 1 = n
    BY <1>2
  <2>2. s = Read(t, r, i)
    BY <1>0, <2>1
  <2>. HIDE DEF i, r, s
  <2>3. CASE Passes(t, r, i)
    <3>1. s = r
      BY <2>2, <2>3, Passed
    <3>2. 1..n \subseteq 1..i
      BY DEF i
    <3>. QED
      BY <1>2, <3>1, <3>2 DEF i, r, s
  <2>4. CASE ~Passes(t, r, i)
    <3>1. PICK holds : holds = Meaning(t[i].expr, r.features)
      OBVIOUS
    <3>0. Turns(t, i, holds, r, s)
      BY <2>2, <2>4, <3>1, Taken, Zenon
    <3>2. /\ s.removed = IF Removes(t[i].op, holds)
                         THEN r.removed \cup {Line(t, i)} ELSE r.removed
          /\ s.end = IF Leaves(t[i].op, holds) THEN i ELSE r.end
          /\ s.wrong \in BOOLEAN
      BY <3>0 DEF Turns
    <3>3. \A l \in s.removed : l \in r.removed \/ l = Line(t, i)
      BY <3>2
    <3>4. s.end = i \/ s.end = r.end
      BY <3>2
    <3>5. 1..n \subseteq 1..i /\ i \in 1..i
      BY <2>1 DEF i
    <3>6. \A l \in s.removed : \E j \in 1..i : l = Line(t, j)
      BY <1>2, <3>3, <3>5 DEF r
    <3>7. s.end = Len(t) + 1 \/ s.end \in 1..i
      BY <1>2, <3>4, <3>5 DEF r
    <3>. QED
      BY <3>2, <3>6, <3>7 DEF s, i
  <2>. QED
    BY <2>3, <2>4
<1>. HIDE DEF Good
<1>3. 0 \in S /\ \A n \in Nat : n \in S => n + 1 \in S
  BY <1>1, <1>2
<1>. HIDE DEF S
<1>4. \A n \in Nat : n \in S
  BY <1>3, InductionOverNat
<1>5. \A i \in 0..Len(t) : Good(i)
  BY <1>4 DEF S
<1>. QED
  BY <1>5 DEF Good, R

(* Nothing is learnt from items that are passed over.                      *)
LEMMA NothingRead ==
    ASSUME NEW t, Len(t) \in Nat, NEW start, NEW a \in 0..Len(t), NEW b \in a..Len(t),
           \A i \in (a + 1)..b : Passes(t, Reading(t, start)[a], i)
    PROVE  Reading(t, start)[b] = Reading(t, start)[a]
<1>. DEFINE R == Reading(t, start)
            S == {n \in Nat : a + n <= b => R[a + n] = R[a]}
<1>0. \A i \in 1..Len(t) : R[i] = Read(t, R[i - 1], i)
  BY ReadingIs
<1>. HIDE DEF R
<1>1. 0 \in S
  OBVIOUS
<1>2. ASSUME NEW n \in Nat, n \in S, a + (n + 1) <= b PROVE R[a + (n + 1)] = R[a]
  <2>. DEFINE i == a + (n + 1)
  <2>1. i \in 1..Len(t) /\ i \in (a + 1)..b /\ i - 1 = a + n
    BY <1>2
  <2>2. R[i - 1] = R[a]
    BY <1>2, <2>1
  <2>3. Passes(t, R[a], i)
    BY <2>1 DEF R
  <2>. HIDE DEF i
  <2>4. R[i] = Read(t, R[a], i)
    BY <1>0, <2>1, <2>2
  <2>. QED
    BY <2>3, <2>4, Passed DEF i
<1>3. \A n \in Nat : n \in S => n + 1 \in S
  BY <1>2
<1>. HIDE DEF S
<1>4. b - a \in S
  BY <1>1, <1>3, InductionOverNat
<1>5. a + (b - a) = b
  OBVIOUS
<1>. QED
  BY <1>4, <1>5 DEF S, R

-----------------------------------------------------------------------------
(* Lines.                                                                  *)

Newlines(t, i) == {j \in 1..(i - 1) : t[j].op = "newline"}

LEMMA LinesAre ==
    ASSUME NEW t, NEW i \in Nat, NEW j \in Nat, i <= j
    PROVE  /\ Line(t, i) \in Nat /\ Line(t, j) \in Nat /\ Line(t, i) <= Line(t, j)
           /\ Line(t, i) = Line(t, j) <=> \A k \in i..(j - 1) : 1 <= k => t[k].op # "newline"
<1>. DEFINE I == Newlines(t, i)
            J == Newlines(t, j)
<1>1. I \subseteq J /\ Line(t, i) = Cardinality(I) /\ Line(t, j) = Cardinality(J)
  BY DEF Newlines, Line
<1>2. IsFiniteSet(J)
  <2>1. IsFiniteSet(1..(j - 1)) /\ J \subseteq 1..(j - 1)
    BY FS_Interval DEF Newlines
  <2>. QED
    BY <2>1, FS_Subset
<1>3. IsFiniteSet(I) /\ Cardinality(I) <= Cardinality(J)
      /\ (Cardinality(I) = Cardinality(J) => I = J)
  BY <1>1, <1>2, FS_Subset
<1>4. Cardinality(I) \in Nat /\ Cardinality(J) \in Nat
  BY <1>2, <1>3, FS_CardinalityType
<1>5. I = J <=> \A k \in i..(j - 1) : 1 <= k => t[k].op # "newline"
  BY DEF Newlines
<1>. HIDE DEF I, J
<1>. QED
  BY <1>1, <1>3, <1>4, <1>5

LEMMA GreatestNatural ==
    ASSUME NEW n \in Nat, NEW T \in SUBSET (0..n), T # {}
    PROVE  \E x \in T : \A y \in T : x >= y
<1>. DEFINE U == {n - x : x \in T}
<1>0. \A x \in T : n - x \in Nat
  OBVIOUS
<1>1. U \in SUBSET Nat /\ U # {}
  BY <1>0
<1>2. PICK u \in U : \A v \in U : u <= v
  BY <1>1, LeastNatural
<1>3. PICK x \in T : u = n - x
  BY <1>2
<1>4. ASSUME NEW y \in T PROVE x >= y
  <2>1. n - y \in U
    OBVIOUS
  <2>2. n - x <= n - y
    BY <1>2, <1>3, <2>1
  <2>3. x \in 0..n /\ y \in 0..n
    OBVIOUS
  <2>. QED
    BY <2>2, <2>3
<1>. QED
  BY <1>4

-----------------------------------------------------------------------------
(* Where the search stands, what has become of the items is what the       *)
(* reading of those before says.                                           *)

Known == Reading(template, requested)

Shows(n) ==
    /\ Known[n].wrong = FALSE /\ features = Known[n].features
    /\ content = [i \in Items |-> Form(template, Known, n, i)]

LEMMA ItemsAre ==
    ASSUME template \in Seq(Item)
    PROVE  Items = 1..Len(template) /\ Len(template) \in Nat
           /\ \A i \in Items : template[i] \in Item
BY DEF Items

(* What has not been read is as it was written, unless its line is gone or *)
(* the template has ended.                                                 *)
LEMMA FormAhead ==
    ASSUME NEW t, NEW R, NEW n \in Nat, NEW i \in Nat, n < i
    PROVE  Form(t, R, n, i) =
               IF i >= R[n].end \/ Line(t, i) \in R[n].removed THEN "erased" ELSE "written"
<1>1. ~(i <= n)
  OBVIOUS
<1>. QED
  BY <1>1 DEF Form

LEMMA FirstMatch ==
    ASSUME template \in Seq(Item), Matches # {}
    PROVE  match \in Matches /\ \A i \in Matches : match <= i
<1>1. Matches \in SUBSET Nat
  BY ItemsAre DEF Matches
<1>2. \E x \in Matches : \A y \in Matches : x <= y
  BY <1>1, LeastNatural
<1>. QED
  BY <1>2 DEF match, Min

(* What the search passes over is not read.                                *)
LEMMA SearchedPasses ==
    ASSUME template \in Seq(Item), cursor \in 1..(Len(template) + 1), Shows(cursor - 1),
           NEW i \in Items, i >= cursor, i \notin Matches
    PROVE  /\ Passes(template, Known[cursor - 1], i)
           /\ template[i].op \in {"text", "newline"} \/ content[i] = "erased"
<1>1. i \in 1..Len(template) /\ Len(template) \in Nat
  BY ItemsAre
<1>2. PICK n \in Nat : n = cursor - 1
  OBVIOUS
<1>3. n < i
  BY <1>1, <1>2
<1>4. content[i] = Form(template, Known, n, i)
  BY <1>2 DEF Shows
<1>5. content[i] = IF i >= Known[n].end \/ Line(template, i) \in Known[n].removed
                   THEN "erased" ELSE "written"
  BY <1>1, <1>3, <1>4, FormAhead
<1>6. template[i].op \in {"text", "newline"} \/ content[i] # "written"
  BY DEF Matches
<1>7. Known[n].end = Len(template) + 1 \/ Known[n].end \in 1..n
  BY <1>1, <1>2, ReadingFacts DEF Known
<1>8. i >= Known[n].end => Known[n].end <= Len(template)
  BY <1>1, <1>7
<1>. QED
  BY <1>2, <1>5, <1>6, <1>8 DEF Passes

(* The search ends with nothing more to be known.                          *)
LEMMA SearchedAll ==
    ASSUME template \in Seq(Item), cursor \in 1..(Len(template) + 1), Shows(cursor - 1),
           NEW b \in (cursor - 1)..Len(template), \A i \in Matches : i > b
    PROVE  /\ Known[b] = Known[cursor - 1]
           /\ Shows(b)
<1>1. Items = 1..Len(template) /\ Len(template) \in Nat
  BY ItemsAre
<1>2. PICK n \in Nat : n = cursor - 1
  OBVIOUS
<1>3. n \in 0..Len(template) /\ b \in n..Len(template) /\ b \in Nat
  BY <1>1, <1>2
<1>4. ASSUME NEW i \in (n + 1)..b
      PROVE  /\ i \in Items
             /\ Passes(template, Known[n], i)
             /\ template[i].op \in {"text", "newline"} \/ content[i] = "erased"
  <2>1. i \in Items /\ i >= cursor /\ i \notin Matches
    BY <1>1, <1>2, <1>3
  <2>. QED
    BY <1>2, <2>1, SearchedPasses
<1>5. Known[b] = Known[n]
  BY <1>1, <1>3, <1>4, NothingRead DEF Known
<1>6. ASSUME NEW i \in Items PROVE Form(template, Known, b, i) = Form(template, Known, n, i)
  <2>1. i \in Nat
    BY <1>1
  <2>2. CASE i <= n
    <3>1. i <= b
      BY <1>3, <2>1, <2>2
    <3>. QED
      BY <1>5, <2>2, <3>1 DEF Form
  <2>3. CASE i > b
    <3>1. i > n
      BY <1>3, <2>1, <2>3
    <3>. QED
      BY <1>3, <1>5, <2>1, <2>3, <3>1, FormAhead
  <2>4. CASE i \in (n + 1)..b
    <3>1. n < i
      BY <2>4
    <3>2. Form(template, Known, n, i) = content[i]
      BY <1>2 DEF Shows
    <3>3. CASE template[i].op \in {"text", "newline"}
      <4>1. template[i].op \notin LineOperators \cup {"imply"} /\ template[i].op # "if"
        BY <3>3 DEF LineOperators
      <4>. QED
        BY <1>5, <4>1 DEF Form
    <3>4. CASE content[i] = "erased"
      <4>1. i >= Known[n].end \/ Line(template, i) \in Known[n].removed
        BY <2>1, <3>1, <3>2, <3>4, FormAhead
      <4>. QED
        BY <1>5, <4>1 DEF Form
    <3>. QED
      BY <1>4, <2>4, <3>3, <3>4
  <2>. QED
    BY <1>3, <2>1, <2>2, <2>3, <2>4
<1>7. [i \in Items |-> Form(template, Known, b, i)] = [i \in Items |-> Form(template, Known, n, i)]
  BY <1>6
<1>. QED
  BY <1>2, <1>5, <1>7 DEF Shows

(* What is known where an operator is found, m.                            *)
Finds(m) ==
    /\ template \in Seq(Item) /\ m \in 1..Len(template)
    /\ template[m].op \in LineOperators \cup {"if", "imply"}
    /\ Shows(m - 1) /\ content[m] = "written"
    /\ Known[m - 1].end = Len(template) + 1
    /\ Line(template, m) \notin Known[m - 1].removed
    /\ Turns(template, m, Meaning(template[m].expr, features), Known[m - 1], Known[m])

LEMMA Found ==
    ASSUME template \in Seq(Item), cursor \in 1..(Len(template) + 1), Shows(cursor - 1),
           Matches # {}
    PROVE  Finds(match)
<1>. DEFINE m == match
<1>1. m \in Matches /\ \A i \in Matches : m <= i
  BY FirstMatch
<1>. HIDE DEF m
<1>2. Items = 1..Len(template) /\ Len(template) \in Nat /\ \A i \in Items : template[i] \in Item
  BY ItemsAre
<1>3. m \in Items /\ m >= cursor /\ content[m] = "written"
      /\ template[m].op \notin {"text", "newline"}
  BY <1>1 DEF Matches
<1>4. PICK n \in Nat : n = m - 1
  BY <1>2, <1>3
<1>5. m \in 1..Len(template) /\ n \in (cursor - 1)..Len(template) /\ m - 1 = n /\ n < m /\ m \in Nat
      /\ n \in 0..Len(template)
  BY <1>2, <1>3, <1>4
<1>6. \A i \in Matches : i > n
  <2>1. \A i \in Matches : i \in Nat
    BY <1>2 DEF Matches
  <2>. QED
    BY <1>1, <1>5, <2>1
<1>7. Shows(n)
  BY <1>5, <1>6, SearchedAll
<1>8. content[m] = Form(template, Known, n, m)
  BY <1>3, <1>7 DEF Shows
<1>9. ~(m >= Known[n].end) /\ Line(template, m) \notin Known[n].removed
  BY <1>3, <1>5, <1>8, FormAhead
<1>10. Known[n].end = Len(template) + 1
  <2>1. Known[n].end = Len(template) + 1 \/ Known[n].end \in 1..n
    BY <1>2, <1>5, ReadingFacts DEF Known
  <2>. QED
    BY <1>5, <1>9, <2>1
<1>11. template[m].op \in LineOperators \cup {"if", "imply"}
  <2>1. template[m].op \in {"text", "newline"} \cup LineOperators \cup {"if", "imply"}
    BY <1>2, <1>3 DEF Item
  <2>. QED
    BY <1>3, <2>1
<1>12. ~Passes(template, Known[n], m)
  <2>1. Known[n].wrong = FALSE /\ ~(Known[n].end <= Len(template))
    BY <1>2, <1>7, <1>10 DEF Shows
  <2>. QED
    BY <1>3, <1>9, <2>1 DEF Passes
<1>13. Known[m] = Read(template, Known[n], m)
  BY <1>2, <1>5, ReadingIs DEF Known
<1>14. Turns(template, m, Meaning(template[m].expr, features), Known[n], Known[m])
  <2>1. features = Known[n].features
    BY <1>7 DEF Shows
  <2>. QED
    BY <1>12, <1>13, <2>1, Taken
<1>. QED
  BY <1>3, <1>5, <1>7, <1>9, <1>10, <1>11, <1>14 DEF Finds, m

(* The other items when the operator has been read.                        *)
LEMMA FormOfOthers ==
    ASSUME NEW m, Finds(m), NEW i \in Items, i # m
    PROVE  Form(template, Known, m, i) =
               IF i >= Known[m].end \/ Line(template, i) \in Known[m].removed
               THEN "erased" ELSE content[i]
<1>1. Items = 1..Len(template) /\ Len(template) \in Nat /\ i \in Nat /\ m \in 1..Len(template)
  BY ItemsAre DEF Finds
<1>2. PICK n \in Nat : n = m - 1
  BY <1>1
<1>3. (i <= m <=> i <= n) /\ content[i] = Form(template, Known, n, i)
      /\ Known[n].end = Len(template) + 1
  BY <1>1, <1>2 DEF Finds, Shows
<1>4. Known[n].removed \subseteq Known[m].removed
  BY <1>2 DEF Finds, Turns
<1>5. ~(i >= Known[n].end)
  BY <1>1, <1>3
<1>. QED
  BY <1>3, <1>4, <1>5 DEF Form

LEMMA FormOfOperator ==
    ASSUME NEW m, Finds(m)
    PROVE  Form(template, Known, m, m) =
               IF \/ m >= Known[m].end \/ Line(template, m) \in Known[m].removed
                  \/ template[m].op \in LineOperators \cup {"imply"}
               THEN "erased"
               ELSE IF TRUE \in Meaning(template[m].expr, features) THEN "yes" ELSE "no"
<1>1. m <= m /\ features = Known[m - 1].features
  BY DEF Finds, Shows
<1>2. template[m].op \in LineOperators \cup {"if", "imply"}
  BY DEF Finds
<1>. QED
  BY <1>1, <1>2 DEF Form

-----------------------------------------------------------------------------
(* string_remove_line removes the line of the operator, and else only what *)
(* was removed before: the newline it stops at may be further up.          *)

LEMMA StartIs ==
    ASSUME template \in Seq(Item), match \in Items
    PROVE  /\ LineStart \in 1..match
           /\ LineStart = 1 \/ LineStart - 1 \in LineEnds
           /\ \A k \in LineEnds : k < match => k < LineStart
<1>. DEFINE m == match
            T == {0} \cup {i \in LineEnds : i < m}
<1>1. Items = 1..Len(template) /\ Len(template) \in Nat
  BY ItemsAre
<1>2. T \in SUBSET (0..m) /\ T # {} /\ m \in Nat
  BY <1>1 DEF LineEnds
<1>3. LineStart = Max(T) + 1
  BY DEF LineStart
<1>. HIDE DEF m, T
<1>4. \E x \in T : \A y \in T : x >= y
  BY <1>2, GreatestNatural
<1>5. Max(T) \in T /\ \A y \in T : Max(T) >= y
  BY <1>4 DEF Max
<1>6. PICK x : x = Max(T)
  OBVIOUS
<1>7. x \in T /\ (\A y \in T : x >= y) /\ LineStart = x + 1
  BY <1>3, <1>5, <1>6
<1>8. m \in 1..Len(template)
  BY <1>1 DEF m
<1>9. x = 0 \/ (x \in LineEnds /\ x < m)
  BY <1>7 DEF T
<1>10. x \in Nat /\ x < m
  BY <1>2, <1>7, <1>8, <1>9
<1>11. \A k \in LineEnds : k < m => k \in T /\ k \in Nat
  BY <1>1 DEF T, LineEnds
<1>. QED
  BY <1>1, <1>7, <1>8, <1>9, <1>10, <1>11 DEF m

LEMMA EndIs ==
    ASSUME template \in Seq(Item), match \in Items
    PROVE  /\ LineEnd \in match..Len(template)
           /\ LineEnd = Len(template) \/ (LineEnd \in LineEnds /\ LineEnd > match)
           /\ \A k \in LineEnds : k > match => k >= LineEnd
<1>. DEFINE m == match
            T == {Len(template)} \cup {i \in LineEnds : i > m}
<1>1. Items = 1..Len(template) /\ Len(template) \in Nat
  BY ItemsAre
<1>2. T \in SUBSET Nat /\ T # {} /\ m \in Nat
  BY <1>1 DEF LineEnds
<1>3. LineEnd = Min(T)
  BY DEF LineEnd
<1>. HIDE DEF m, T
<1>4. \E x \in T : \A y \in T : x <= y
  BY <1>2, LeastNatural
<1>5. Min(T) \in T /\ \A y \in T : Min(T) <= y
  BY <1>4 DEF Min
<1>6. PICK x : x = Min(T)
  OBVIOUS
<1>7. x \in T /\ (\A y \in T : x <= y) /\ LineEnd = x
  BY <1>3, <1>5, <1>6
<1>8. m \in 1..Len(template)
  BY <1>1 DEF m
<1>9. x = Len(template) \/ (x \in LineEnds /\ x > m)
  BY <1>7 DEF T
<1>10. x \in m..Len(template)
  BY <1>1, <1>2, <1>7, <1>8, <1>9 DEF LineEnds
<1>11. \A k \in LineEnds : k > m => k \in T /\ k \in Nat
  BY <1>1 DEF T, LineEnds
<1>. QED
  BY <1>1, <1>7, <1>8, <1>9, <1>10, <1>11 DEF m

(* A newline that was there before the first removal is erased only with   *)
(* its line.                                                               *)
LEMMA NewlinesAre ==
    ASSUME Finds(match), NEW k \in Items, template[k].op = "newline"
    PROVE  k \in LineEnds \/ Line(template, k) \in Known[match - 1].removed
<1>. DEFINE m == match
<1>1. Items = 1..Len(template) /\ Len(template) \in Nat /\ m \in 1..Len(template) /\ k \in Nat
  BY ItemsAre DEF Finds
<1>. HIDE DEF m
<1>2. PICK n : n = m - 1
  OBVIOUS
<1>3. content[k] = Form(template, Known, n, k)
  BY <1>2 DEF Finds, Shows, m
<1>4. Known[n].end = Len(template) + 1
  BY <1>2 DEF Finds, m
<1>5. ~(k >= Known[n].end)
  BY <1>1, <1>4
<1>6. template[k].op \notin LineOperators \cup {"imply"} /\ template[k].op # "if"
  BY DEF LineOperators
<1>7. Line(template, k) \in Known[n].removed \/ content[k] = "written"
  BY <1>3, <1>5, <1>6 DEF Form
<1>. QED
  BY <1>2, <1>7 DEF LineEnds, m

LEMMA LineRemoved ==
    ASSUME Finds(match), NEW i \in Items
    PROVE  /\ Line(template, i) = Line(template, match) => i \in LineStart..LineEnd
           /\ i \in LineStart..LineEnd =>
                 \/ Line(template, i) = Line(template, match)
                 \/ Line(template, i) \in Known[match - 1].removed
<1>. DEFINE m == match
            l(k) == Line(template, k)
            gone == Known[match - 1].removed
<1>1. Items = 1..Len(template) /\ Len(template) \in Nat /\ m \in 1..Len(template)
  BY ItemsAre DEF Finds
<1>2. /\ LineStart \in 1..m
      /\ LineStart = 1 \/ LineStart - 1 \in LineEnds
      /\ \A k \in LineEnds : k < m => k < LineStart
  BY <1>1, StartIs DEF Finds
<1>3. /\ LineEnd \in m..Len(template)
      /\ LineEnd = Len(template) \/ (LineEnd \in LineEnds /\ LineEnd > m)
      /\ \A k \in LineEnds : k > m => k >= LineEnd
  BY <1>1, EndIs DEF Finds
<1>4. \A k \in LineEnds : k \in Items /\ template[k].op = "newline"
  BY DEF LineEnds
<1>5. l(m) \notin gone /\ template[m].op # "newline"
  BY DEF Finds, LineOperators
<1>6. \A k \in Items : template[k].op = "newline" => k \in LineEnds \/ l(k) \in gone
  BY NewlinesAre
<1>7. \A a, b \in 1..Len(template) : a <= b =>
         /\ l(a) \in Nat /\ l(b) \in Nat /\ l(a) <= l(b)
         /\ l(a) = l(b) <=> \A k \in a..(b - 1) : template[k].op # "newline"
  <2>. TAKE a, b \in 1..Len(template)
  <2>0. a \in Nat /\ b \in Nat
    OBVIOUS
  <2>1. a <= b =>
           /\ l(a) \in Nat /\ l(b) \in Nat /\ l(a) <= l(b)
           /\ l(a) = l(b) <=> \A k \in a..(b - 1) : 1 <= k => template[k].op # "newline"
    BY <2>0, LinesAre, Zenon
  <2>2. \A k \in a..(b - 1) : 1 <= k
    OBVIOUS
  <2>. HIDE DEF l
  <2>. QED
    BY <2>1, <2>2
<1>8. \A x \in gone : \E j \in 1..(m - 1) : x = l(j)
  <2>1. PICK n : n = m - 1
    OBVIOUS
  <2>2. n \in 0..Len(template)
    BY <1>1, <2>1
  <2>. QED
    BY <1>1, <2>1, <2>2, ReadingFacts DEF Known
<1>. HIDE DEF m, l, gone
<1>9. \A k \in 1..Len(template) : k >= m => l(k) \notin gone
  <2>. SUFFICES ASSUME NEW k \in 1..Len(template), k >= m, l(k) \in gone PROVE FALSE
    OBVIOUS
  <2>1. PICK j \in 1..(m - 1) : l(k) = l(j)
    BY <1>8
  <2>2. l(j) <= l(m) /\ l(m) <= l(k) /\ l(j) \in Nat /\ l(m) \in Nat
    BY <1>1, <1>7
  <2>3. l(k) = l(m)
    BY <2>1, <2>2
  <2>. QED
    BY <1>5, <2>3
<1>10. ASSUME l(i) = l(m) PROVE i \in LineStart..LineEnd
  <2>1. i >= LineStart
    <3>. SUFFICES ASSUME i < LineStart PROVE FALSE
      BY <1>1, <1>2
    <3>1. PICK k : k = LineStart - 1
      OBVIOUS
    <3>2. k \in LineEnds /\ k \in 1..Len(template) /\ template[k].op = "newline"
      BY <1>1, <1>2, <1>4, <3>1
    <3>3. i <= m /\ k \in i..(m - 1)
      BY <1>1, <1>2, <3>1, <3>2
    <3>. QED
      BY <1>1, <1>7, <1>10, <3>2, <3>3
  <2>2. i <= LineEnd
    <3>. SUFFICES ASSUME i > LineEnd PROVE FALSE
      BY <1>1, <1>3
    <3>1. LineEnd \in LineEnds /\ LineEnd > m
      BY <1>1, <1>3
    <3>2. template[LineEnd].op = "newline" /\ m <= i /\ LineEnd \in m..(i - 1)
      BY <1>1, <1>3, <1>4, <3>1
    <3>. QED
      BY <1>1, <1>7, <1>10, <3>2
  <2>. QED
    BY <1>1, <1>2, <1>3, <2>1, <2>2
<1>11. ASSUME i \in LineStart..LineEnd PROVE l(i) = l(m) \/ l(i) \in gone
  <2>. SUFFICES ASSUME l(i) # l(m) PROVE l(i) \in gone
    OBVIOUS
  <2>1. CASE i >= m
    <3>1. PICK k \in m..(i - 1) : template[k].op = "newline"
      BY <1>1, <1>7, <2>1
    <3>2. k \in Items /\ k >= m /\ k > m
      BY <1>1, <1>5, <3>1
    <3>3. k \in LineEnds
      BY <1>1, <1>6, <1>9, <3>1, <3>2
    <3>4. k >= LineEnd
      BY <1>3, <3>2, <3>3
    <3>. QED
      BY <1>1, <1>3, <1>11, <3>1, <3>4
  <2>2. CASE i < m
    <3>. DEFINE K == {k \in i..(m - 1) : template[k].op = "newline"}
    <3>1. K # {} /\ K \in SUBSET Nat
      BY <1>1, <1>7, <2>2
    <3>2. PICK k \in K : \A j \in K : k <= j
      BY <3>1, LeastNatural
    <3>3. k \in i..(m - 1) /\ template[k].op = "newline" /\ k \in 1..Len(template)
      BY <1>1, <3>2
    <3>4. \A j \in i..(k - 1) : template[j].op # "newline"
      <4>1. ASSUME NEW j \in i..(k - 1), template[j].op = "newline" PROVE FALSE
        <5>1. j \in K
          BY <1>1, <3>3, <4>1
        <5>. QED
          BY <3>2, <3>3, <5>1
      <4>. QED
        BY <4>1
    <3>. HIDE DEF K
    <3>5. l(i) = l(k)
      BY <1>1, <1>7, <3>3, <3>4
    <3>6. k \notin LineEnds
      BY <1>1, <1>2, <1>11, <3>3
    <3>. QED
      BY <1>1, <1>6, <3>3, <3>5, <3>6
  <2>. QED
    BY <1>1, <2>1, <2>2
<1>. QED
  BY <1>10, <1>11 DEF l, m, gone

-----------------------------------------------------------------------------
(* What an operator makes of the items is what its reading says.           *)

Formed(m) == content' = [i \in Items |-> Form(template, Known, m, i)]

LEMMA LineGoes ==
    ASSUME Finds(match), RemoveLine,
           Known[match].removed = Known[match - 1].removed \cup {Line(template, match)},
           Known[match].end = Known[match - 1].end,
           template[match].op \in LineOperators \cup {"imply"}
    PROVE  Formed(match)
<1>. DEFINE m == match
<1>1. Items = 1..Len(template) /\ Len(template) \in Nat /\ m \in Items
  BY ItemsAre DEF Finds
<1>2. content' = [i \in Items |-> IF i \in LineStart..LineEnd THEN "erased" ELSE content[i]]
  BY DEF RemoveLine, Erase
<1>3. ASSUME NEW i \in Items
      PROVE  Form(template, Known, m, i) =
                 IF i \in LineStart..LineEnd THEN "erased" ELSE content[i]
  <2>1. /\ Line(template, i) = Line(template, m) => i \in LineStart..LineEnd
        /\ i \in LineStart..LineEnd => Line(template, i) \in Known[m].removed
    BY LineRemoved
  <2>2. CASE i = m
    BY <2>1, <2>2, FormOfOperator
  <2>3. CASE i # m
    <3>1. PICK n : n = m - 1
      OBVIOUS
    <3>2. /\ ~(i >= Known[m].end)
          /\ Line(template, i) \in Known[m].removed
             => Line(template, i) = Line(template, m) \/ Line(template, i) \in Known[n].removed
      BY <1>1, <3>1 DEF Finds
    <3>3. Form(template, Known, m, i) =
              IF Line(template, i) \in Known[m].removed THEN "erased" ELSE content[i]
      BY <2>3, <3>2, FormOfOthers
    <3>4. Line(template, i) \in Known[n].removed => content[i] = "erased"
      BY <3>1 DEF Finds, Shows, Form
    <3>. HIDE DEF m
    <3>. QED
      BY <2>1, <3>2, <3>3, <3>4
  <2>. QED
    BY <2>2, <2>3
<1>. QED
  BY <1>2, <1>3 DEF Formed

LEMMA RemainderGoes ==
    ASSUME Finds(match), RemoveRemainder,
           Known[match].removed = Known[match - 1].removed, Known[match].end = match,
           template[match].op \in LineOperators \cup {"imply"}
    PROVE  Formed(match)
<1>. DEFINE m == match
<1>1. Items = 1..Len(template) /\ Len(template) \in Nat /\ m \in Items
  BY ItemsAre DEF Finds
<1>2. content' = [i \in Items |-> IF i \in m..Len(template) THEN "erased" ELSE content[i]]
  BY DEF RemoveRemainder, Erase
<1>3. ASSUME NEW i \in Items
      PROVE  Form(template, Known, m, i) =
                 IF i \in m..Len(template) THEN "erased" ELSE content[i]
  <2>1. i \in m..Len(template) <=> i >= Known[m].end
    BY <1>1
  <2>2. CASE i = m
    <3>1. m \in m..Len(template)
      BY <1>1
    <3>2. Form(template, Known, m, m) = "erased"
      BY FormOfOperator
    <3>. QED
      BY <2>2, <3>1, <3>2
  <2>3. CASE i # m
    <3>1. PICK n : n = m - 1
      OBVIOUS
    <3>2. Form(template, Known, m, i) =
              IF i >= Known[m].end \/ Line(template, i) \in Known[n].removed
              THEN "erased" ELSE content[i]
      BY <2>3, <3>1, FormOfOthers
    <3>3. Line(template, i) \in Known[n].removed => content[i] = "erased"
      BY <3>1 DEF Finds, Shows, Form
    <3>. HIDE DEF m
    <3>. QED
      BY <2>1, <3>2, <3>3
  <2>. QED
    BY <2>2, <2>3
<1>. QED
  BY <1>2, <1>3 DEF Formed

LEMMA OperatorGoes ==
    ASSUME Finds(match), NEW form,
           content' = [i \in Items |-> IF i = match THEN form ELSE content[i]],
           Known[match].removed = Known[match - 1].removed,
           Known[match].end = Known[match - 1].end,
           form = IF template[match].op \in LineOperators \cup {"imply"} THEN "erased"
                  ELSE IF TRUE \in Meaning(template[match].expr, features) THEN "yes" ELSE "no"
    PROVE  Formed(match)
<1>. DEFINE m == match
<1>1. Items = 1..Len(template) /\ Len(template) \in Nat /\ m \in Items
  BY ItemsAre DEF Finds
<1>2. \A i \in Items : ~(i >= Known[m].end)
  BY <1>1 DEF Finds
<1>3. ASSUME NEW i \in Items
      PROVE  Form(template, Known, m, i) = IF i = m THEN form ELSE content[i]
  <2>1. CASE i = m
    <3>1. Line(template, m) \notin Known[m].removed
      BY DEF Finds
    <3>. QED
      BY <1>1, <1>2, <2>1, <3>1, FormOfOperator
  <2>2. CASE i # m
    <3>1. PICK n : n = m - 1
      OBVIOUS
    <3>2. Form(template, Known, m, i) =
              IF Line(template, i) \in Known[n].removed THEN "erased" ELSE content[i]
      BY <1>2, <2>2, <3>1, FormOfOthers
    <3>3. Line(template, i) \in Known[n].removed => content[i] = "erased"
      BY <3>1 DEF Finds, Shows, Form
    <3>. QED
      BY <2>2, <3>2, <3>3
  <2>. QED
    BY <2>1, <2>2
<1>. QED
  BY <1>3 DEF Formed

LEMMA ReplaceEffect ==
    ASSUME Finds(match), value \in BOOLEAN,
           Meaning(template[match].expr, features) = {value}, Replace
    PROVE  Formed(match) /\ features' = Known[match].features /\ Known[match].wrong = FALSE
<1>. DEFINE m == match
            r == Known[m - 1]
            s == Known[m]
            op == template[m].op
<1>1. Turns(template, m, {value}, r, s) /\ features = r.features
      /\ op \in LineOperators \cup {"if", "imply"} /\ m \in Items
  BY ItemsAre DEF Finds, Shows
<1>2. /\ s.features = IF op = "imply" /\ TRUE \in {value}
                      THEN r.features \cup template[m].implied ELSE r.features
      /\ s.removed = IF Removes(op, {value}) THEN r.removed \cup {Line(template, m)} ELSE r.removed
      /\ s.end = IF Leaves(op, {value}) THEN m ELSE r.end
      /\ s.wrong = FALSE
  BY <1>1 DEF Turns
<1>3. (TRUE \in {value} <=> value = TRUE) /\ (FALSE \in {value} <=> value = FALSE)
  OBVIOUS
<1>4. features' = s.features
  BY <1>1, <1>2, <1>3 DEF Replace
<1>5. /\ Leaves(op, {value}) <=> (op = "continue" /\ value = FALSE) \/ (op = "stop" /\ value = TRUE)
      /\ Removes(op, {value}) <=>
            \/ op = "include" /\ value = FALSE
            \/ op = "exclude" /\ value = TRUE
            \/ op = "continue" /\ value = TRUE
            \/ op = "stop" /\ value = FALSE
            \/ op = "imply"
  BY <1>3 DEF Leaves, Removes
<1>6. CASE RemoveLine /\ op \in LineOperators \cup {"imply"} /\ Removes(op, {value})
           /\ ~Leaves(op, {value})
  <2>1. s.removed = r.removed \cup {Line(template, m)} /\ s.end = r.end
    BY <1>2, <1>6
  <2>. QED
    BY <1>2, <1>4, <1>6, <2>1, LineGoes
<1>7. CASE RemoveRemainder /\ op \in LineOperators /\ Leaves(op, {value}) /\ ~Removes(op, {value})
  <2>1. s.removed = r.removed /\ s.end = m
    BY <1>2, <1>7
  <2>. QED
    BY <1>2, <1>4, <1>7, <2>1, RemainderGoes
<1>8. CASE RemoveRange /\ op \in LineOperators /\ ~Leaves(op, {value}) /\ ~Removes(op, {value})
  <2>1. content' = [i \in Items |-> IF i = m THEN "erased" ELSE content[i]]
    BY <1>8 DEF RemoveRange, Erase
  <2>2. s.removed = r.removed /\ s.end = r.end
    BY <1>2, <1>8
  <2>3. "erased" = IF op \in LineOperators \cup {"imply"} THEN "erased"
                   ELSE IF TRUE \in Meaning(template[m].expr, features) THEN "yes" ELSE "no"
    BY <1>8
  <2>. QED
    BY <2>1, <2>2, <2>3, OperatorGoes, <1>2, <1>4
<1>9. CASE /\ op = "if" /\ content' = [content EXCEPT ![m] = IF value THEN "yes" ELSE "no"]
           /\ ~Leaves(op, {value}) /\ ~Removes(op, {value})
  <2>. DEFINE form == IF value THEN "yes" ELSE "no"
  <2>1. content' = [i \in Items |-> IF i = m THEN form ELSE content[i]]
    BY <1>1, <1>9 DEF Finds, Shows
  <2>2. s.removed = r.removed /\ s.end = r.end
    BY <1>2, <1>9
  <2>3. form = IF op \in LineOperators \cup {"imply"} THEN "erased"
               ELSE IF TRUE \in Meaning(template[m].expr, features) THEN "yes" ELSE "no"
    <3>1. op \notin LineOperators \cup {"imply"}
      BY <1>9 DEF LineOperators
    <3>. QED
      BY <1>3, <3>1
  <2>. HIDE DEF form
  <2>. QED
    BY <2>1, <2>2, <2>3, OperatorGoes, <1>2, <1>4
<1>. DEFINE Cases ==
         \/ RemoveLine /\ op \in LineOperators \cup {"imply"} /\ Removes(op, {value})
            /\ ~Leaves(op, {value})
         \/ RemoveRemainder /\ op \in LineOperators /\ Leaves(op, {value}) /\ ~Removes(op, {value})
         \/ RemoveRange /\ op \in LineOperators /\ ~Leaves(op, {value}) /\ ~Removes(op, {value})
         \/ /\ op = "if" /\ content' = [content EXCEPT ![m] = IF value THEN "yes" ELSE "no"]
            /\ ~Leaves(op, {value}) /\ ~Removes(op, {value})
<1>10. Cases
  <2>1. \/ op = "continue" /\ IF value THEN RemoveLine ELSE RemoveRemainder
        \/ op = "stop" /\ IF value THEN RemoveRemainder ELSE RemoveLine
        \/ op = "include" /\ IF value THEN RemoveRange ELSE RemoveLine
        \/ op = "exclude" /\ IF value THEN RemoveLine ELSE RemoveRange
        \/ op = "imply" /\ RemoveLine
        \/ op = "if" /\ content' = [content EXCEPT ![m] = IF value THEN "yes" ELSE "no"]
    BY DEF Replace
  <2>2. CASE value = TRUE
    BY <1>5, <2>1, <2>2 DEF LineOperators
  <2>3. CASE value = FALSE
    BY <1>5, <2>1, <2>3 DEF LineOperators
  <2>. QED
    BY <2>2, <2>3
<1>. QED
  BY <1>2, <1>4, <1>6, <1>7, <1>8, <1>9, <1>10

-----------------------------------------------------------------------------
(* What is left of the items has a type: the same for the function behind  *)
(* Shaken.                                                                 *)

ShakenFrom(form, K, n) ==
    IF n = 0 THEN <<>>
    ELSE IF form[n] = "erased" THEN K[n - 1]
    ELSE Append(K[n - 1], <<n, form[n]>>)

LEMMA ShakenIs ==
    ASSUME NEW t, Len(t) \in Nat, NEW form
    PROVE  \E K : /\ Shaken(t, form) = K[Len(t)]
                  /\ \A n \in 0..Len(t) : K[n] = ShakenFrom(form, K, n)
<1>. DEFINE B(F, i) == ShakenFrom(form, F, i)
            Good(n) == \E F : F = [i \in 0..Len(t) |-> F[i]] /\
                              \A i \in 0..Len(t) : i < n => F[i] = B(F, i)
            S == {n \in Nat : Good(n)}
<1>1. Good(0)
  <2>. DEFINE F == [i \in 0..Len(t) |-> 0]
  <2>1. F = [i \in 0..Len(t) |-> F[i]] /\ \A i \in 0..Len(t) : ~(i < 0)
    OBVIOUS
  <2>. QED
    BY <2>1
<1>2. ASSUME NEW n \in Nat, Good(n) PROVE Good(n + 1)
  <2>1. PICK F : \A i \in 0..Len(t) : i < n => F[i] = B(F, i)
    BY <1>2
  <2>. DEFINE G == [i \in 0..Len(t) |-> B(F, i)]
  <2>2. \A i \in 0..Len(t) : G[i] = B(F, i)
    OBVIOUS
  <2>3. G = [i \in 0..Len(t) |-> G[i]]
    OBVIOUS
  <2>. HIDE DEF G
  <2>4. ASSUME NEW i \in 0..Len(t), i < n + 1 PROVE G[i] = B(G, i)
    <3>1. i # 0 => i - 1 \in 0..Len(t) /\ i - 1 < n
      BY <2>4
    <3>2. i # 0 => G[i - 1] = F[i - 1]
      BY <2>1, <2>2, <3>1
    <3>3. B(F, i) = B(G, i)
      BY <3>2 DEF ShakenFrom
    <3>. QED
      BY <2>2, <3>3
  <2>. QED
    BY <2>3, <2>4
<1>3. Good(Len(t) + 1)
  <2>. HIDE DEF Good
  <2>1. 0 \in S /\ \A n \in Nat : n \in S => n + 1 \in S
    BY <1>1, <1>2
  <2>. HIDE DEF S
  <2>2. \A n \in Nat : n \in S
    BY <2>1, InductionOverNat
  <2>. QED
    BY <2>2 DEF S
<1>4. PICK F : F = [i \in 0..Len(t) |-> F[i]] /\ \A i \in 0..Len(t) : F[i] = B(F, i)
  <2>1. PICK F : F = [i \in 0..Len(t) |-> F[i]] /\
                 \A i \in 0..Len(t) : i < Len(t) + 1 => F[i] = B(F, i)
    BY <1>3
  <2>2. \A i \in 0..Len(t) : i < Len(t) + 1
    OBVIOUS
  <2>. QED
    BY <2>1, <2>2
<1>. DEFINE Q(W) == W = [i \in 0..Len(t) |-> B(W, i)]
            K == CHOOSE W : Q(W)
<1>5. Q(F)
  <2>1. [i \in 0..Len(t) |-> F[i]] = [i \in 0..Len(t) |-> B(F, i)]
    BY <1>4
  <2>. QED
    BY <1>4, <2>1
<1>6. Shaken(t, form) = K[Len(t)]
  BY DEF Shaken, ShakenFrom
<1>. HIDE DEF Q
<1>7. Q(K)
  BY <1>5
<1>. HIDE DEF K
<1>8. \A n \in 0..Len(t) : K[n] = ShakenFrom(form, K, n)
  BY <1>7 DEF Q
<1>. QED
  BY <1>6, <1>8

LEMMA ShakenTyped ==
    ASSUME NEW t, Len(t) \in Nat, NEW C, NEW form \in [1..Len(t) -> C]
    PROVE  Shaken(t, form) \in Seq((1..Len(t)) \X (C \ {"erased"}))
<1>. DEFINE T == Seq((1..Len(t)) \X (C \ {"erased"}))
<1>1. PICK K : /\ Shaken(t, form) = K[Len(t)]
               /\ \A n \in 0..Len(t) : K[n] = ShakenFrom(form, K, n)
  BY ShakenIs
<1>. DEFINE S == {n \in Nat : n <= Len(t) => K[n] \in T}
<1>2. 0 \in S
  <2>1. K[0] = <<>>
    <3>1. 0 \in 0..Len(t)
      OBVIOUS
    <3>2. K[0] = ShakenFrom(form, K, 0)
      BY <1>1, <3>1
    <3>. QED
      BY <3>2, Zenon DEF ShakenFrom
  <2>2. K[0] \in T
    BY <2>1
  <2>. QED
    BY <2>2
<1>3. ASSUME NEW n \in Nat, n \in S PROVE n + 1 \in S
  <2>. SUFFICES ASSUME n + 1 <= Len(t) PROVE K[n + 1] \in T
    OBVIOUS
  <2>1. n + 1 \in 1..Len(t) /\ n + 1 \in 0..Len(t) /\ n + 1 # 0 /\ (n + 1) - 1 = n
    OBVIOUS
  <2>2. K[n] \in T
    BY <1>3
  <2>3. K[n + 1] = IF form[n + 1] = "erased" THEN K[n] ELSE Append(K[n], <<n + 1, form[n + 1]>>)
    BY <1>1, <2>1 DEF ShakenFrom
  <2>4. CASE form[n + 1] = "erased"
    BY <2>2, <2>3, <2>4
  <2>5. CASE form[n + 1] # "erased"
    <3>1. <<n + 1, form[n + 1]>> \in (1..Len(t)) \X (C \ {"erased"})
      BY <2>1, <2>5
    <3>. QED
      BY <2>2, <2>3, <2>5, <3>1
  <2>. QED
    BY <2>4, <2>5
<1>. HIDE DEF S
<1>4. \A n \in Nat : n \in S
  BY <1>2, <1>3, InductionOverNat
<1>5. K[Len(t)] \in T
  BY <1>4 DEF S
<1>. QED
  BY <1>1, <1>5

-----------------------------------------------------------------------------
(* The types of the variables.                                             *)

TypesInv ==
    /\ requested \subseteq Features
    /\ content \in [Items -> {"written", "erased", "yes", "no"}]
    /\ output \in Seq(Items \X {"written", "yes", "no"})

LEMMA TypesInit == Init => TypesInv
BY DEF Init, TypesInv

LEMMA TypesStep == EInv /\ TypesInv /\ [Next]_vars => TypesInv'
<1>. SUFFICES ASSUME EInv, TypesInv, [Next]_vars PROVE TypesInv'
  OBVIOUS
<1>1. ASSUME unchangedInput, content' \in [Items -> {"written", "erased", "yes", "no"}],
             output' \in Seq(Items \X {"written", "yes", "no"})
      PROVE  TypesInv'
  BY <1>1 DEF TypesInv, unchangedInput, Items
<1>2. content \in [Items -> {"written", "erased", "yes", "no"}]
      /\ output \in Seq(Items \X {"written", "yes", "no"})
  BY DEF TypesInv
<1>3. \A S : Erase(S) => content' \in [Items -> {"written", "erased", "yes", "no"}]
  BY <1>2 DEF Erase
<1>4. CASE Match
  BY <1>1, <1>2, <1>4 DEF Match
<1>5. CASE Evaluate
  BY <1>1, <1>2, <1>5 DEF Evaluate
<1>6. CASE Replace
  <2>1. \/ RemoveLine \/ RemoveRemainder \/ RemoveRange
        \/ content' = [content EXCEPT ![match] = IF value THEN "yes" ELSE "no"]
    BY <1>6 DEF Replace
  <2>2. content' \in [Items -> {"written", "erased", "yes", "no"}]
    BY <1>2, <1>3, <2>1 DEF RemoveLine, RemoveRemainder, RemoveRange
  <2>3. unchangedInput /\ output' = output
    BY <1>6 DEF Replace
  <2>. QED
    BY <1>1, <1>2, <2>2, <2>3
<1>7. CASE Fail
  BY <1>1, <1>2, <1>7 DEF Fail
<1>8. CASE Shake
  <2>1. Items = 1..Len(template) /\ Len(template) \in Nat
    BY ItemsAre DEF EInv, TInv
  <2>2. {"written", "erased", "yes", "no"} \ {"erased"} = {"written", "yes", "no"}
    OBVIOUS
  <2>3. Shaken(template, content) \in Seq(Items \X {"written", "yes", "no"})
    BY <1>2, <2>1, <2>2, ShakenTyped
  <2>. QED
    BY <1>1, <1>2, <1>8, <2>3 DEF Shake
<1>9. CASE UNCHANGED vars
  BY <1>1, <1>2, <1>9 DEF vars, unchangedInput
<1>. QED
  BY <1>4, <1>5, <1>6, <1>7, <1>8, <1>9 DEF Next

-----------------------------------------------------------------------------
(* The template engine.                                                    *)

SearchInv ==
    /\ cursor \in 1..(Len(template) + 1)
    /\ phase \in {"searching", "evaluating", "generated", "NULL"}
    /\ phase # "generated" => output = <<>>
    /\ Regular(template) =>
          /\ phase \in {"searching", "evaluating"} => Shows(cursor - 1)
          /\ phase = "evaluating" =>
                expr = template[match].expr /\ enabled = features /\ errno # "idle"
          /\ Ended => Result = Meant(template, requested)

GInv == EInv /\ SearchInv /\ TypesInv

LEMMA SameKnown ==
    ASSUME unchangedInput
    PROVE  Known' = Known /\ Items' = Items /\ Len(template') = Len(template)
           /\ Regular(template') = Regular(template)
           /\ Meant(template', requested') = Meant(template, requested)
BY DEF unchangedInput, Known, Items

LEMMA ShowsStill ==
    ASSUME unchangedInput, UNCHANGED <<features, content, cursor>>, Shows(cursor - 1)
    PROVE  Shows(cursor - 1)'
BY SameKnown DEF Shows, unchangedInput

LEMMA ShowsNext ==
    ASSUME unchangedInput, NEW m \in Nat, cursor' = m + 1, Formed(m), features' = Known[m].features,
           Known[m].wrong = FALSE
    PROVE  Shows(cursor - 1)'
<1>1. cursor' - 1 = m
  OBVIOUS
<1>. QED
  BY <1>1, SameKnown DEF Shows, Formed, unchangedInput

LEMMA RegularIsPlain ==
    ASSUME template \in Seq(Item), Regular(template), NEW m \in Items, expr = template[m].expr
    PROVE  Plain(expr)
BY DEF Regular, Plain, Items

(* What an evaluation that has ended says of the expression.               *)
LEMMA Evaluated ==
    ASSUME EInv, SearchInv, Regular(template), phase = "evaluating"
    PROVE  /\ Finds(match) /\ match \in Items
           /\ value \in BOOLEAN
           /\ errno = "EOK" => Meaning(template[match].expr, features) = {value}
           /\ errno = "EINVAL" => Meaning(template[match].expr, features) = {}
<1>1. template \in Seq(Item) /\ Matches # {} /\ EvaluatorTypeOK /\ value \in BOOLEAN
  BY DEF EInv, TInv, EvaluatorTypeOK
<1>2. Finds(match) /\ match \in Items
  BY <1>1, Found, MatchIs DEF SearchInv
<1>3. expr = template[match].expr /\ enabled = features
  BY DEF SearchInv
<1>4. Plain(expr) /\ expr \in Seq(Tokens)
  BY <1>1, <1>2, <1>3, RegularIsPlain DEF EvaluatorTypeOK
<1>5. ASSUME errno = "EOK" PROVE Meaning(expr, enabled) = {value}
  <2>1. Meaning(expr, enabled) \subseteq {value} /\ WellFormed(expr)
    BY <1>4, <1>5 DEF EInv, ValueInv, ShapeInv
  <2>2. Meaning(expr, enabled) # {}
    BY <1>4, <2>1, MeansAnyway
  <2>. QED
    BY <2>1, <2>2
<1>6. ASSUME errno = "EINVAL" PROVE Meaning(expr, enabled) = {}
  BY <1>6 DEF EInv, ValueInv
<1>. QED
  BY <1>1, <1>2, <1>3, <1>5, <1>6

LEMMA SearchInit == Init => GInv
<1>. SUFFICES ASSUME Init PROVE GInv
  OBVIOUS
<1>1. EInv
  BY EvaluationInit
<1>2. template \in Seq(Item) /\ Len(template) \in Nat /\ Items = 1..Len(template)
  BY <1>1, ItemsAre DEF EInv, TInv
<1>3. cursor = 1 /\ phase = "searching" /\ output = <<>> /\ features = requested
      /\ content = [i \in Items |-> "written"]
  BY DEF Init
<1>4. Known[0] = Unread(template, requested)
  BY <1>2, ReadingIs DEF Known
<1>5. Known[0].features = requested /\ Known[0].removed = {} /\ Known[0].wrong = FALSE
      /\ Known[0].end = Len(template) + 1
  BY <1>4 DEF Unread
<1>6. \A i \in Items : Form(template, Known, 0, i) = "written"
  BY <1>2, <1>5, FormAhead
<1>7. Shows(0)
  BY <1>3, <1>5, <1>6 DEF Shows
<1>8. cursor - 1 = 0 /\ cursor \in 1..(Len(template) + 1)
  BY <1>2, <1>3
<1>9. ~Ended
  BY <1>3 DEF Ended
<1>. QED
  BY <1>1, <1>3, <1>7, <1>8, <1>9, TypesInit DEF GInv, SearchInv

LEMMA SearchStep == GInv /\ [Next]_vars => GInv'
<1>. SUFFICES ASSUME EInv, SearchInv, TypesInv, [Next]_vars PROVE SearchInv'
  BY EvaluationStep, TypesStep DEF GInv
<1>1. /\ template \in Seq(Item) /\ cursor \in 1..(Len(template) + 1) /\ EInv
      /\ Len(template) \in Nat /\ Items = 1..Len(template)
      /\ phase = "evaluating" => Matches # {}
  BY ItemsAre DEF EInv, TInv, SearchInv
<1>2. CASE Match
  <2>1. /\ unchangedInput /\ UNCHANGED <<features, content, cursor, output>>
        /\ phase = "searching" /\ phase' = "evaluating"
        /\ expr' = template[match].expr /\ enabled' = features /\ errno' = "running"
    BY <1>2 DEF Match, Begin
  <2>2. match' = match
    BY <2>1, SameMatches DEF match, unchangedInput
  <2>3. Regular(template) => Shows(cursor - 1)'
    BY <2>1, ShowsStill DEF SearchInv
  <2>4. ~Ended'
    BY <2>1 DEF Ended
  <2>. QED
    BY <2>1, <2>2, <2>3, <2>4, SameKnown DEF SearchInv, unchangedInput
<1>3. CASE Evaluate
  <2>1. /\ unchangedInput /\ UNCHANGED <<features, content, cursor, phase, output>>
        /\ phase = "evaluating" /\ expr' = expr /\ enabled' = enabled /\ errno' # "idle"
    BY <1>3, StepIs DEF Evaluate
  <2>2. match' = match
    BY <2>1, SameMatches DEF match, unchangedInput
  <2>3. Regular(template) => Shows(cursor - 1)'
    BY <2>1, ShowsStill DEF SearchInv
  <2>4. ~Ended'
    BY <2>1 DEF Ended
  <2>. QED
    BY <2>1, <2>2, <2>3, <2>4, SameKnown DEF SearchInv, unchangedInput
<1>4. CASE Replace
  <2>1. /\ unchangedInput /\ output' = output
        /\ phase = "evaluating" /\ phase' = "searching" /\ errno = "EOK" /\ cursor' = match + 1
    BY <1>4 DEF Replace, Resume
  <2>2. match \in 1..Len(template)
    BY <1>1, <2>1, MatchIs
  <2>3. cursor' \in 1..(Len(template') + 1)
    BY <1>1, <2>1, <2>2, SameKnown
  <2>4. ASSUME Regular(template) PROVE Shows(cursor - 1)'
    <3>1. /\ Finds(match) /\ value \in BOOLEAN
          /\ Meaning(template[match].expr, features) = {value}
      BY <2>1, <2>4, Evaluated
    <3>2. Formed(match) /\ features' = Known[match].features /\ Known[match].wrong = FALSE
      BY <1>4, <3>1, ReplaceEffect
    <3>3. PICK m \in Nat : m = match
      BY <1>1, <2>2
    <3>4. Formed(m) /\ features' = Known[m].features /\ Known[m].wrong = FALSE /\ cursor' = m + 1
      BY <2>1, <3>2, <3>3 DEF Formed
    <3>. QED
      BY <2>1, <3>4, ShowsNext
  <2>5. ~Ended'
    BY <2>1 DEF Ended
  <2>. QED
    BY <2>1, <2>3, <2>4, <2>5, SameKnown DEF SearchInv
<1>5. CASE Fail
  <2>1. /\ unchangedInput /\ UNCHANGED <<cursor, output>>
        /\ phase = "evaluating" /\ phase' = "NULL" /\ errno = "EINVAL"
    BY <1>5 DEF Fail
  <2>2. output' = <<>>
    BY <2>1 DEF SearchInv
  <2>3. ASSUME Regular(template) PROVE Result' = Meant(template, requested)
    <3>1. Finds(match) /\ match \in Items /\ Meaning(template[match].expr, features) = {}
      BY <2>1, <2>3, Evaluated
    <3>2. Known[match].wrong = TRUE
      BY <3>1 DEF Finds, Turns
    <3>3. PICK m : m = match
      OBVIOUS
    <3>4. m \in 0..Len(template) /\ Len(template) \in m..Len(template)
      BY <1>1, <3>1, <3>3
    <3>5. \A i : Passes(template, Known[m], i)
      BY <3>2, <3>3 DEF Passes
    <3>6. Known[Len(template)].wrong = TRUE
      BY <1>1, <3>2, <3>3, <3>4, <3>5, NothingRead DEF Known
    <3>. QED
      BY <2>1, <2>2, <3>6 DEF Result, Meant, Known
  <2>. QED
    BY <1>1, <2>1, <2>2, <2>3, SameKnown DEF SearchInv
<1>6. CASE Shake
  <2>1. /\ unchangedInput /\ cursor' = cursor
        /\ phase = "searching" /\ phase' = "generated" /\ Matches = {}
        /\ output' = Shaken(template, content)
    BY <1>6 DEF Shake
  <2>2. ASSUME Regular(template) PROVE Result' = Meant(template, requested)
    <3>1. Len(template) \in (cursor - 1)..Len(template)
      BY <1>1
    <3>2. Shows(Len(template))
      BY <1>1, <2>1, <2>2, <3>1, SearchedAll DEF SearchInv
    <3>3. \A i \in Items : content[i] = Form(template, Known, Len(template), i)
      BY <3>2 DEF Shows
    <3>4. content = [i \in DOMAIN template |-> Form(template, Known, Len(template), i)]
      BY <3>3 DEF Items, TypesInv
    <3>5. Meant(template, requested) =
             [phase |-> "generated",
              output |-> Shaken(template, [i \in DOMAIN template |->
                                              Form(template, Known, Len(template), i)])]
      BY <3>2 DEF Meant, Known, Shows
    <3>. QED
      BY <2>1, <3>4, <3>5 DEF Result
  <2>. QED
    BY <1>1, <2>1, <2>2, SameKnown DEF SearchInv
<1>7. CASE UNCHANGED vars
  <2>1. /\ unchangedInput /\ UNCHANGED <<features, content, cursor, phase, output, expr, enabled, errno>>
    BY <1>7 DEF vars, evaluator, unchangedInput
  <2>2. match' = match
    BY <2>1, SameMatches DEF match, unchangedInput
  <2>3. Shows(cursor - 1) => Shows(cursor - 1)'
    BY <2>1, ShowsStill
  <2>4. Result' = Result /\ Ended' = Ended
    BY <2>1 DEF Result, Ended
  <2>. QED
    BY <2>1, <2>2, <2>3, <2>4, SameKnown DEF SearchInv, unchangedInput
<1>. QED
  BY <1>2, <1>3, <1>4, <1>5, <1>6, <1>7 DEF Next

(* template_generate, which erases in place, also lines behind lines that  *)
(* are gone, generates what the template means read from the top, and      *)
(* nothing when it is wrong where it counts: for any template and any      *)
(* features.                                                               *)
THEOREM GeneratesTheMeaning == Spec => []GeneratesWhatIsMeant
<1>1. GInv => GeneratesWhatIsMeant
  BY DEF GInv, SearchInv, GeneratesWhatIsMeant
<1>. QED
  BY SearchInit, SearchStep, <1>1, PTL DEF Spec

-----------------------------------------------------------------------------
(* Features that no expression names.                                      *)

Agree(e, f, g) == \A i \in 1..Len(e) : e[i] \in Features => (e[i] \in f <=> e[i] \in g)

LEMMA BodiesAgree ==
    ASSUME NEW e \in Seq(Tokens), NEW f, NEW g, Agree(e, f, g), NEW V, NEW s \in Domain(e)
    PROVE  Body(e, f, V, s) = Body(e, g, V, s)
<1>1. PICK i \in 1..Len(e), j \in 1..Len(e) :
         s = <<<<i, j>>, "operand">> \/ s = <<<<i, j>>, "expression">>
  BY DomainIs
<1>2. CASE s = <<<<i, j>>, "operand">>
  <2>. DEFINE O(a, b) == IF a > b THEN {} ELSE V[<<<<a, b>>, "operand">>]
              E(a, b) == IF a > b THEN {} ELSE V[<<<<a, b>>, "expression">>]
              D == IF e[i] = "not" /\ i < j THEN Negations(O(i + 1, j))
                   ELSE IF e[i] = "(" /\ e[j] = ")" /\ i + 1 < j THEN E(i + 1, j - 1)
                   ELSE {}
  <2>1. \A h : Body(e, h, V, s) = IF i = j /\ e[i] \in Features THEN Truth(e[i] \in h) ELSE D
    BY <1>2 DEF Body, Truth, Negations
  <2>. HIDE DEF D
  <2>2. e[i] \in Features => Truth(e[i] \in f) = Truth(e[i] \in g)
    <3>. SUFFICES ASSUME e[i] \in Features PROVE Truth(e[i] \in f) = Truth(e[i] \in g)
      OBVIOUS
    <3>1. e[i] \in f <=> e[i] \in g
      BY DEF Agree
    <3>2. (e[i] \in f) = (e[i] \in g)
      BY <3>1
    <3>. QED
      BY <3>2
  <2>. QED
    BY <2>1, <2>2
<1>3. CASE s = <<<<i, j>>, "expression">>
  BY <1>3 DEF Body
<1>. QED
  BY <1>1, <1>2, <1>3

LEMMA MeansTheSame ==
    ASSUME NEW e \in Seq(Tokens), NEW f, NEW g, Agree(e, f, g)
    PROVE  Meaning(e, f) = Meaning(e, g)
<1>. DEFINE P(W) == W = [s \in Domain(e) |-> Body(e, f, W, s)]
            Q(W) == W = [s \in Domain(e) |-> Body(e, g, W, s)]
<1>1. Values(e, f) = CHOOSE W : P(W)
  BY DEF Values, Domain, Kinds, Body
<1>2. Values(e, g) = CHOOSE W : Q(W)
  BY DEF Values, Domain, Kinds, Body
<1>3. ASSUME NEW W PROVE P(W) <=> Q(W)
  <2>1. [s \in Domain(e) |-> Body(e, f, W, s)] = [s \in Domain(e) |-> Body(e, g, W, s)]
    BY BodiesAgree
  <2>. QED
    BY <2>1
<1>. HIDE DEF P, Q
<1>4. (CHOOSE W : P(W)) = (CHOOSE W : Q(W))
  BY <1>3
<1>. QED
  BY <1>1, <1>2, <1>4 DEF Meaning

(* L has the features that the expressions of t name.                      *)
Names(t, L) ==
    \A i \in 1..Len(t) : \A k \in 1..Len(t[i].expr) :
        t[i].expr[k] \in Features => t[i].expr[k] \in L

Alike(L, r, s) ==
    /\ \A x \in L : x \in r.features <=> x \in s.features
    /\ r.removed = s.removed /\ r.end = s.end
    /\ r.wrong = s.wrong

LEMMA AlikeMeans ==
    ASSUME NEW t \in Seq(Item), NEW L, Names(t, L), NEW i \in 1..Len(t), NEW r, NEW s,
           Alike(L, r, s)
    PROVE  Meaning(t[i].expr, r.features) = Meaning(t[i].expr, s.features)
<1>1. t[i].expr \in Seq(Tokens)
  <2>1. t[i] \in Item
    OBVIOUS
  <2>. QED
    BY <2>1 DEF Item
<1>2. Agree(t[i].expr, r.features, s.features)
  BY DEF Agree, Alike, Names
<1>. QED
  BY <1>1, <1>2, MeansTheSame

LEMMA ReadsAlike ==
    ASSUME NEW t \in Seq(Item), NEW L, Names(t, L), NEW f, NEW g,
           \A x \in L : x \in f <=> x \in g
    PROVE  \A i \in 0..Len(t) : Alike(L, Reading(t, f)[i], Reading(t, g)[i])
<1>. DEFINE R == Reading(t, f)
            Q == Reading(t, g)
            S == {n \in Nat : n <= Len(t) => Alike(L, R[n], Q[n])}
<1>0. /\ R[0] = Unread(t, f) /\ \A i \in 1..Len(t) : R[i] = Read(t, R[i - 1], i)
      /\ Q[0] = Unread(t, g) /\ \A i \in 1..Len(t) : Q[i] = Read(t, Q[i - 1], i)
      /\ Len(t) \in Nat
  BY ReadingIs
<1>. HIDE DEF R, Q
<1>1. Alike(L, R[0], Q[0])
  BY <1>0 DEF Unread, Alike
<1>2. ASSUME NEW n \in Nat, n + 1 <= Len(t), Alike(L, R[n], Q[n])
      PROVE  Alike(L, R[n + 1], Q[n + 1])
  <2>1. PICK i : i = n + 1
    OBVIOUS
  <2>2. PICK r, s, u, v : r = R[n] /\ s = Q[n] /\ u = R[i] /\ v = Q[i]
    OBVIOUS
  <2>3. i \in 1..Len(t) /\ i - 1 = n
    BY <1>0, <1>2, <2>1
  <2>4. u = Read(t, r, i) /\ v = Read(t, s, i) /\ Alike(L, r, s)
    BY <1>0, <1>2, <2>2, <2>3
  <2>5. Passes(t, r, i) <=> Passes(t, s, i)
    BY <2>4 DEF Passes, Alike
  <2>6. CASE Passes(t, r, i)
    <3>1. u = r /\ v = s
      BY <2>4, <2>5, <2>6, Passed
    <3>. QED
      BY <2>1, <2>2, <2>4, <3>1
  <2>7. CASE ~Passes(t, r, i)
    <3>1. PICK holds : holds = Meaning(t[i].expr, r.features)
      OBVIOUS
    <3>2. holds = Meaning(t[i].expr, s.features)
      BY <2>3, <2>4, <3>1, AlikeMeans
    <3>3. Turns(t, i, holds, r, u)
      BY <2>4, <2>7, <3>1, Taken, Zenon
    <3>4. Turns(t, i, holds, s, v)
      BY <2>4, <2>5, <2>7, <3>2, Taken, Zenon
    <3>5. u.removed = v.removed /\ u.end = v.end
      BY <2>4, <3>3, <3>4 DEF Turns, Alike
    <3>6. u.wrong = v.wrong
      BY <3>3, <3>4 DEF Turns
    <3>7. \A x \in L : x \in u.features <=> x \in v.features
      BY <2>4, <3>3, <3>4 DEF Turns, Alike
    <3>8. Alike(L, u, v)
      BY <3>5, <3>6, <3>7 DEF Alike
    <3>. QED
      BY <2>1, <2>2, <3>8
  <2>. QED
    BY <2>6, <2>7
<1>3. 0 \in S /\ \A n \in Nat : n \in S => n + 1 \in S
  BY <1>1, <1>2
<1>. HIDE DEF S
<1>4. \A n \in Nat : n \in S
  BY <1>3, InductionOverNat
<1>5. \A i \in 0..Len(t) : Alike(L, R[i], Q[i])
  BY <1>4 DEF S
<1>. QED
  BY <1>5 DEF R, Q

LEMMA MeantAlike ==
    ASSUME NEW t \in Seq(Item), NEW L, Names(t, L), NEW f, NEW g,
           \A x \in L : x \in f <=> x \in g
    PROVE  Meant(t, f) = Meant(t, g)
<1>. DEFINE R == Reading(t, f)
            Q == Reading(t, g)
            N == Len(t)
<1>1. N \in Nat /\ DOMAIN t = 1..N
  OBVIOUS
<1>2. \A i \in 0..N : Alike(L, R[i], Q[i])
  BY ReadsAlike
<1>. HIDE DEF R, Q, N
<1>3. Alike(L, R[N], Q[N])
  BY <1>1, <1>2
<1>4. ASSUME NEW i \in DOMAIN t PROVE Form(t, R, N, i) = Form(t, Q, N, i)
  <2>1. PICK j : j = i - 1
    OBVIOUS
  <2>2. j \in 0..N /\ i \in 1..Len(t)
    BY <1>1, <2>1 DEF N
  <2>3. Meaning(t[i].expr, R[j].features) = Meaning(t[i].expr, Q[j].features)
    BY <1>2, <2>2, AlikeMeans
  <2>. QED
    BY <1>3, <2>1, <2>3 DEF Form, Alike
<1>5. [i \in DOMAIN t |-> <<i, Form(t, R, N, i)>>] = [i \in DOMAIN t |-> <<i, Form(t, Q, N, i)>>]
  BY <1>4
<1>6. R[N].wrong = Q[N].wrong
  BY <1>3 DEF Alike
<1>. QED
  BY <1>5, <1>6 DEF Meant, R, Q, N

LEMMA ListedNames ==
    ASSUME template \in Seq(Item)
    PROVE  Names(template, Listed)
<1>. DEFINE T(i) == {template[i].expr[k] : k \in DOMAIN template[i].expr}
<1>1. Listed = Features \cap UNION {T(i) : i \in Items}
  BY DEF Listed
<1>2. ASSUME NEW i \in 1..Len(template), NEW k \in 1..Len(template[i].expr),
             template[i].expr[k] \in Features
      PROVE  template[i].expr[k] \in Listed
  <2>1. i \in Items /\ template[i] \in Item
    BY ItemsAre
  <2>2. k \in DOMAIN template[i].expr
    BY <2>1 DEF Item
  <2>3. template[i].expr[k] \in T(i)
    BY <2>2
  <2>. HIDE DEF T
  <2>4. template[i].expr[k] \in UNION {T(j) : j \in Items}
    BY <2>1, <2>3
  <2>. QED
    BY <1>1, <1>2, <2>4
<1>. QED
  BY <1>2 DEF Names

(* A feature that template_list_features does not find makes no difference *)
(* to what is generated, for any template and any features.                *)
THEOREM UnlistedDoNothing == Spec => []UnlistedMakeNoDifference
<1>1. GInv => UnlistedMakeNoDifference
  <2>. SUFFICES ASSUME GInv, Ended, Regular(template)
                PROVE  Result = Meant(template, requested \cap Listed)
    BY DEF UnlistedMakeNoDifference
  <2>1. template \in Seq(Item) /\ Result = Meant(template, requested)
    BY DEF GInv, EInv, TInv, SearchInv
  <2>2. PICK L : L = Listed
    OBVIOUS
  <2>3. Names(template, L)
    BY <2>1, <2>2, ListedNames
  <2>4. \A x \in L : x \in requested <=> x \in requested \cap L
    OBVIOUS
  <2>. QED
    BY <2>1, <2>2, <2>3, <2>4, MeantAlike
<1>. QED
  BY SearchInit, SearchStep, <1>1, PTL DEF Spec

-----------------------------------------------------------------------------
(* The variables keep their types, and the search never leaves the         *)
(* template.                                                               *)
THEOREM TemplateTyped == Spec => []TypeOK
<1>1. GInv => TypeOK
  BY DEF GInv, EInv, TInv, SearchInv, TypesInv, TypeOK
<1>. QED
  BY SearchInit, SearchStep, <1>1, PTL DEF Spec

=============================================================================
