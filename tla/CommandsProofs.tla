--------------------------- MODULE CommandsProofs ----------------------------
(***************************************************************************)
(* Proofs about Commands, for any number of processes, command lines,      *)
(* profiles, features, versions and failures, and for command lines and    *)
(* configurations of any length.                                           *)
(***************************************************************************)
EXTENDS Commands, TLAPS, SequenceTheorems, WellFoundedInduction

-----------------------------------------------------------------------------
(* Folds. A fold over a sequence is what its equation gives, step by step, *)
(* whatever the sequence; what holds at each step is shown by induction    *)
(* over the set of the steps at which it holds.                            *)

LEMMA LeastNatural ==
    ASSUME NEW T \in SUBSET Nat, T # {}
    PROVE  \E x \in T : \A y \in T : x <= y
<1>. DEFINE R == OpToRel(<, Nat)
<1>1. IsWellFoundedOn(R, Nat)
  BY NatLessThanWellFounded
<1>2. \A x, y \in Nat : x < y => <<x, y>> \in R
  BY DEF OpToRel
<1>. HIDE DEF R
<1>3. PICK x \in T : \A y \in T : ~(<<y, x>> \in R)
  BY <1>1, WFMin
<1>4. ASSUME NEW y \in T PROVE x <= y
  <2>1. x \in Nat /\ y \in Nat /\ ~(y < x)
    BY <1>2, <1>3
  <2>. QED
    BY <2>1
<1>. QED
  BY <1>4

LEMMA InductionOverNat ==
    ASSUME NEW S, 0 \in S, \A n \in Nat : n \in S => n + 1 \in S
    PROVE  \A n \in Nat : n \in S
<1>. DEFINE T == Nat \ S
<1>. SUFFICES ASSUME T # {} PROVE FALSE
  OBVIOUS
<1>1. PICK n \in T : \A m \in T : n <= m
  BY LeastNatural
<1>2. n \in Nat /\ n # 0
  BY <1>1
<1>3. n - 1 \in Nat /\ n - 1 \notin T /\ (n - 1) + 1 = n
  BY <1>1, <1>2
<1>. QED
  BY <1>1, <1>3

(* Up to n.                                                                *)
LEMMA InductionUpTo ==
    ASSUME NEW N \in Nat, NEW S, 0 \in S, \A n \in 1..N : n - 1 \in S => n \in S
    PROVE  \A n \in 0..N : n \in S
<1>. DEFINE T == {n \in Nat : n <= N => n \in S}
<1>1. 0 \in T
  OBVIOUS
<1>2. ASSUME NEW n \in Nat, n \in T PROVE n + 1 \in T
  <2>1. CASE n + 1 <= N
    <3>1. n \in S /\ n + 1 \in 1..N /\ (n + 1) - 1 = n
      BY <1>2, <2>1
    <3>2. n + 1 \in S
      BY <3>1
    <3>. QED
      BY <3>2
  <2>2. CASE ~(n + 1 <= N)
    BY <2>2
  <2>. QED
    BY <2>1, <2>2
<1>. HIDE DEF T
<1>3. \A n \in Nat : n \in T
  BY <1>1, <1>2, InductionOverNat
<1>. QED
  BY <1>3 DEF T

LEMMA MaxIs ==
    ASSUME NEW n \in Nat \ {0}, NEW s \in SUBSET (1..n), n \in s
    PROVE  Max(s) = n
<1>. DEFINE P(x) == x \in s /\ \A y \in s : x >= y
<1>1. P(n)
  OBVIOUS
<1>2. ASSUME NEW x, P(x) PROVE x = n
  <2>1. x \in 1..n /\ x >= n
    BY <1>2
  <2>. QED
    BY <2>1
<1>3. Max(s) = CHOOSE x \in s : \A y \in s : x >= y
  BY DEF Max
<1>4. \E x \in s : \A y \in s : x >= y
  BY <1>1
<1>5. Max(s) \in s /\ \A y \in s : Max(s) >= y
  BY <1>3, <1>4, Zenon
<1>. QED
  BY <1>2, <1>5

LEMMA MaxIn ==
    ASSUME NEW N \in Nat, NEW s \in SUBSET (1..N), s # {}
    PROVE  Max(s) \in s
<1>. DEFINE T == {N - x : x \in s}
<1>1. PICK d \in T : \A y \in T : d <= y
  <2>1. \A y \in T : y \in Nat
    OBVIOUS
  <2>2. \E x \in s : N - x \in T
    OBVIOUS
  <2>. HIDE DEF T
  <2>3. T \in SUBSET Nat /\ T # {}
    BY <2>1, <2>2
  <2>. QED
    BY <2>3, LeastNatural
<1>2. PICK x \in s : d = N - x
  BY <1>1
<1>3. ASSUME NEW y \in s PROVE y <= x
  <2>1. N - y \in T /\ y \in 1..N /\ x \in 1..N
    OBVIOUS
  <2>2. N - x <= N - y
    BY <1>1, <1>2, <2>1
  <2>. QED
    BY <2>1, <2>2
<1>4. Max(s) = CHOOSE a \in s : \A b \in s : a >= b
  BY DEF Max
<1>5. \E a \in s : \A b \in s : a >= b
  BY <1>3
<1>. QED
  BY <1>4, <1>5, Zenon

(* What FoldLeft makes of a sequence, with the function g for the operator:*)
(* it recurs over the positions not yet folded.                            *)
Folds(F, g, start, seq, n) ==
    /\ F[{}] = start
    /\ \A s \in SUBSET (1..n) : s # {} => F[s] = g[<<F[s \ {Max(s)}], seq[Max(s)]>>]

Foldable(A, g, start, seq, N) == \E F \in [SUBSET (1..N) -> A] : Folds(F, g, start, seq, N)

LEMMA FoldExists ==
    ASSUME NEW A, NEW start \in A, NEW T, NEW g \in [A \X T -> A], NEW N \in Nat,
           NEW seq, \A i \in 1..N : seq[i] \in T
    PROVE  Foldable(A, g, start, seq, N)
<1>. DEFINE Good(n) == \E F \in [SUBSET (1..n) -> A] : Folds(F, g, start, seq, n)
            S == {n \in Nat : n <= N => Good(n)}
<1>1. Good(0)
  <2>. DEFINE F == [s \in SUBSET (1..0) |-> start]
  <2>1. F \in [SUBSET (1..0) -> A] /\ F[{}] = start
    OBVIOUS
  <2>2. \A s \in SUBSET (1..0) : s = {}
    OBVIOUS
  <2>. HIDE DEF F
  <2>3. Folds(F, g, start, seq, 0)
    BY <2>1, <2>2 DEF Folds
  <2>. QED
    BY <2>1, <2>3
<1>2. ASSUME NEW n \in Nat, n + 1 <= N, Good(n) PROVE Good(n + 1)
  <2>1. PICK F \in [SUBSET (1..n) -> A] : Folds(F, g, start, seq, n)
    BY <1>2
  <2>. DEFINE x == seq[n + 1]
              G == [s \in SUBSET (1..(n + 1)) |->
                       IF n + 1 \in s THEN g[<<F[s \ {n + 1}], x>>] ELSE F[s]]
  <2>2. x \in T /\ n + 1 \in 1..N
    BY <1>2
  <2>3. ASSUME NEW s \in SUBSET (1..(n + 1))
        PROVE  /\ n + 1 \notin s => s \in SUBSET (1..n)
               /\ s \ {n + 1} \in SUBSET (1..n)
               /\ n + 1 \in s => Max(s) = n + 1
    <3>1. n + 1 \in s => Max(s) = n + 1
      BY MaxIs
    <3>2. \A i \in 1..(n + 1) : i # n + 1 => i \in 1..n
      OBVIOUS
    <3>. QED
      BY <3>1, <3>2
  <2>4. ASSUME NEW s \in SUBSET (1..(n + 1)) PROVE G[s] \in A
    <3>1. F[s \ {n + 1}] \in A /\ (n + 1 \notin s => F[s] \in A)
      BY <2>3
    <3>. QED
      BY <2>2, <3>1
  <2>5. G \in [SUBSET (1..(n + 1)) -> A]
    BY <2>4
  <2>6. /\ \A s \in SUBSET (1..(n + 1)) : n + 1 \in s => G[s] = g[<<F[s \ {n + 1}], seq[n + 1]>>]
        /\ \A s \in SUBSET (1..(n + 1)) : n + 1 \notin s => G[s] = F[s]
    OBVIOUS
  <2>. HIDE DEF G, x
  <2>7. G[{}] = start
    BY <2>1, <2>6 DEF Folds
  <2>8. ASSUME NEW s \in SUBSET (1..(n + 1)), s # {}
        PROVE  G[s] = g[<<G[s \ {Max(s)}], seq[Max(s)]>>]
    <3>1. CASE n + 1 \in s
      <4>1. n + 1 \notin s \ {n + 1} /\ s \ {n + 1} \in SUBSET (1..(n + 1))
        OBVIOUS
      <4>2. G[s \ {n + 1}] = F[s \ {n + 1}]
        BY <2>6, <4>1
      <4>. QED
        BY <2>3, <2>6, <3>1, <4>2
    <3>2. CASE n + 1 \notin s
      <4>1. s \in SUBSET (1..n)
        BY <2>3, <3>2
      <4>2. F[s] = g[<<F[s \ {Max(s)}], seq[Max(s)]>>]
        BY <2>1, <2>8, <4>1 DEF Folds
      <4>3. G[s] = F[s]
        BY <2>6, <3>2
      <4>4. G[s \ {Max(s)}] = F[s \ {Max(s)}]
        BY <2>6, <3>2
      <4>. QED
        BY <4>2, <4>3, <4>4
    <3>. QED
      BY <3>1, <3>2
  <2>9. Folds(G, g, start, seq, n + 1)
    BY <2>7, <2>8 DEF Folds
  <2>. QED
    BY <2>5, <2>9
<1>. HIDE DEF Good
<1>3. ASSUME NEW n \in 1..N, n - 1 \in S PROVE n \in S
  <2>1. n - 1 \in Nat /\ (n - 1) + 1 = n /\ n \in Nat /\ n <= N /\ n - 1 <= N
    OBVIOUS
  <2>2. Good(n - 1)
    BY <1>3, <2>1
  <2>. QED
    BY <1>2, <2>1, <2>2
<1>4. 0 \in S
  BY <1>1
<1>. HIDE DEF S
<1>5. \A n \in 0..N : n \in S
  BY <1>3, <1>4, InductionUpTo
<1>6. N \in S
  BY <1>5
<1>7. Good(N)
  BY <1>6 DEF S
<1>. QED
  BY <1>7 DEF Good, Foldable

(* The parts of a sequence that a fold goes through.                       *)
LEMMA PrefixIs ==
    ASSUME NEW N \in Nat, NEW n \in 1..N
    PROVE  /\ (1..n) \in SUBSET (1..N) /\ 1..n # {}
           /\ Max(1..n) = n /\ (1..n) \ {n} = 1..(n - 1)
<1>1. n \in Nat \ {0} /\ n \in 1..n
  OBVIOUS
<1>2. Max(1..n) = n
  BY <1>1, MaxIs
<1>3. (1..n) \ {n} = 1..(n - 1)
  OBVIOUS
<1>. QED
  BY <1>1, <1>2, <1>3

(* The operators that the model folds, each with the values it needs.      *)
PoptWord(table, s, w) ==
    LET Meanings == {entry[2] : entry \in {e \in table : e[1] = w}}
    IN  CASE s.errno # "EOK"                             -> s
          [] s.errno = "EOK" /\ s.pending                -> [s EXCEPT !.pending = FALSE]
          [] s.errno = "EOK" /\ ~s.pending
             /\ (s.rest \/ w = "-" \/ w \notin DashWords) -> [s EXCEPT !.free = Append(@, w)]
          [] OTHER ->
             CASE w = "--"         -> [s EXCEPT !.rest = TRUE]
               [] w \in HelpWords  -> [s EXCEPT !.errno = "help"]
               [] Meanings # {}    -> [s EXCEPT !.options = @ \cup Meanings,
                                                !.pending = "name" \in Meanings]
               [] OTHER            -> [s EXCEPT !.errno = "EINVAL"]

LoopWord(s, w) ==
    CASE s.skip          -> [s EXCEPT !.skip = FALSE]
      [] w = "--backup" /\ ~s.skip                        -> [s EXCEPT !.skip = TRUE]
      [] w \in DashWords \ {"--backup"} /\ ~s.skip        -> s
      [] w \notin DashWords /\ ~s.skip /\ ~s.profile      -> [s EXCEPT !.profile = TRUE]
      [] w \notin DashWords /\ ~s.skip /\ s.profile       ->
            [s EXCEPT !.features = AddValue(@, w, TRUE)]

StripWord(s, w) ==
    [rest  |-> s.rest \/ w = "--",
     words |-> IF ~s.rest /\ w \in LoggingWords THEN s.words ELSE Append(s.words, w)]

MoveValue(array, value, owner, stale, kept, i) ==
    IF array[i] = (IF owner # 0 /\ i > owner THEN stale ELSE value) THEN kept
    ELSE Append(kept, array[i])

KeepOther(values, kept, value) == IF value \in values THEN kept ELSE Append(kept, value)

Turn(k, s, w) ==
    CASE k[1] = "add"     -> AddValue(s, w, k[2])
      [] k[1] = "without" -> KeepOther(k[2], s, w)
      [] k[1] = "move"    -> MoveValue(k[2], k[3], k[4], k[5], s, w)
      [] k[1] = "strip"   -> StripWord(s, w)
      [] k[1] = "popt"    -> PoptWord(k[2], s, w)
      [] k[1] = "loop"    -> LoopWord(s, w)

FoldEquation(k, start, items, W) ==
    W = [s \in SUBSET DOMAIN items |->
            IF s = {} THEN start ELSE Turn(k, W[s \ {Max(s)}], items[Max(s)])]

Fold(k, start, items) == (CHOOSE W : FoldEquation(k, start, items, W))[DOMAIN items]

LEMMA AddAllFold ==
    ASSUME NEW to, NEW items, NEW unique
    PROVE  AddAll(to, items, unique) = Fold(<<"add", unique>>, to, items)
<1>. DEFINE k == <<"add", unique>>
            Q(W) == W = [s \in SUBSET DOMAIN items |->
                           IF s = {} THEN to
                           ELSE AddValue(W[s \ {Max(s)}], items[Max(s)], unique)]
<1>1. AddAll(to, items, unique) = (CHOOSE W : Q(W))[DOMAIN items]
  BY Zenon DEF AddAll, FoldLeft, MapThenFoldSet
<1>2. \A a, v : Turn(k, a, v) = AddValue(a, v, unique)
  BY DEF Turn
<1>. HIDE DEF k
<1>3. ASSUME NEW W PROVE Q(W) <=> FoldEquation(k, to, items, W)
  BY <1>2, Zenon DEF FoldEquation
<1>. HIDE DEF Q
<1>. QED
  BY <1>1, <1>3, Zenon DEF Fold, k

(* A fold, step by step: f[n] is what the first n elements come to.        *)
Stages(f, A, k, start, items) ==
    /\ f \in [0..Len(items) -> A]
    /\ f[0] = start /\ Fold(k, start, items) = f[Len(items)]
    /\ \A n \in 1..Len(items) : f[n] = Turn(k, f[n - 1], items[n])

LEMMA FoldIs ==
    ASSUME NEW A, NEW start \in A, NEW T, NEW items \in Seq(T), NEW k,
           \A a \in A, v \in T : Turn(k, a, v) \in A
    PROVE  \E f : Stages(f, A, k, start, items)
<1>. DEFINE N == Len(items)
            g == [x \in A \X T |-> Turn(k, x[1], x[2])]
            B(F, s) == IF s = {} THEN start ELSE Turn(k, F[s \ {Max(s)}], items[Max(s)])
            Q(F) == F = [s \in SUBSET (1..N) |-> B(F, s)]
<1>1. /\ N \in Nat /\ DOMAIN items = 1..N /\ \A i \in 1..N : items[i] \in T
      /\ \A n \in 1..N : n - 1 \in 0..N
  OBVIOUS
<1>2. \A a \in A, v \in T : Turn(k, a, v) \in A
  OBVIOUS
<1>3. /\ g \in [A \X T -> A]
      /\ \A a \in A, v \in T : g[<<a, v>>] = Turn(k, a, v)
  BY <1>2
<1>. HIDE DEF g, N
<1>4. PICK F \in [SUBSET (1..N) -> A] : Folds(F, g, start, items, N)
  <2>1. \A i \in 1..N : items[i] \in T
    BY <1>1
  <2>. QED
    <3>1. N \in Nat
      BY <1>1
    <3>2. g \in [A \X T -> A]
      BY <1>3
    <3>3. start \in A
      OBVIOUS
    <3>4. Foldable(A, g, start, items, N)
      BY <3>1, <3>2, <3>3, <2>1, FoldExists
    <3>. QED
      BY <3>4 DEF Foldable
<1>5. Q(F)
  <2>1. ASSUME NEW s \in SUBSET (1..N) PROVE F[s] = B(F, s)
    <3>1. CASE s = {}
      BY <1>4, <3>1 DEF Folds
    <3>2. CASE s # {}
      <4>1. F[s] = g[<<F[s \ {Max(s)}], items[Max(s)]>>]
        BY <1>4, <3>2 DEF Folds
      <4>2. Max(s) \in s
        BY <1>1, <3>2, MaxIn
      <4>3. F[s \ {Max(s)}] \in A /\ items[Max(s)] \in T
        BY <1>1, <1>4, <4>2
      <4>. QED
        BY <1>3, <3>2, <4>1, <4>3
    <3>. QED
      BY <3>1, <3>2
  <2>2. F = [s \in SUBSET (1..N) |-> F[s]]
    BY <1>4
  <2>. QED
    BY <2>1, <2>2
<1>6. Fold(k, start, items) = (CHOOSE W : Q(W))[1..N]
  BY <1>1, Zenon DEF Fold, FoldEquation
<1>. HIDE DEF Q
<1>7. PICK W : Q(W) /\ Fold(k, start, items) = W[1..N]
  BY <1>5, <1>6
<1>8. \A s \in SUBSET (1..N) : W[s] = B(W, s)
  BY <1>7 DEF Q
<1>. DEFINE f == [n \in 0..N |-> W[1..n]]
<1>9. f[0] = start /\ f[N] = W[1..N]
  <2>1. 1..0 = {}
    BY <1>1
  <2>2. f[0] = W[1..0]
    BY <1>1
  <2>3. W[{}] = start
    <3>1. {} \in SUBSET (1..N)
      OBVIOUS
    <3>2. W[{}] = B(W, {})
      BY <1>8, <3>1
    <3>. QED
      BY <3>2
  <2>4. f[N] = W[1..N]
    BY <1>1
  <2>. HIDE DEF f
  <2>. QED
    BY <2>1, <2>2, <2>3, <2>4
<1>10. ASSUME NEW n \in 1..N PROVE f[n] = Turn(k, f[n - 1], items[n])
  <2>1. f[n] = W[1..n] /\ f[n - 1] = W[1..(n - 1)]
    BY <1>1
  <2>. HIDE DEF f
  <2>2. B(W, 1..n) = Turn(k, W[1..(n - 1)], items[n])
    BY <1>1, PrefixIs
  <2>3. (1..n) \in SUBSET (1..N)
    BY <1>1, PrefixIs
  <2>4. W[1..n] = B(W, 1..n)
    BY <1>8, <2>3
  <2>. QED
    BY <2>1, <2>2, <2>4
<1>11. f = [n \in 0..N |-> f[n]]
  OBVIOUS
<1>. HIDE DEF f
<1>12. \A n \in 0..N : f[n] \in A
  <2>. DEFINE R == {n \in 0..N : f[n] \in A}
  <2>1. 0 \in R
    BY <1>1, <1>9
  <2>2. \A n \in 1..N : n - 1 \in R => n \in R
    <3>1. ASSUME NEW n \in 1..N, f[n - 1] \in A PROVE f[n] \in A
      <4>1. items[n] \in T
        BY <1>1
      <4>2. Turn(k, f[n - 1], items[n]) \in A
        BY <1>2, <3>1, <4>1
      <4>3. f[n] = Turn(k, f[n - 1], items[n])
        BY <1>10
      <4>. QED
        BY <4>2, <4>3
    <3>2. \A n \in 1..N : n \in 0..N
      BY <1>1
    <3>. QED
      BY <3>1, <3>2
  <2>. HIDE DEF R
  <2>3. \A n \in 0..N : n \in R
    BY <1>1, <2>1, <2>2, InductionUpTo
  <2>. QED
    BY <2>3 DEF R
<1>13. f \in [0..N -> A]
  BY <1>11, <1>12
<1>. QED
  BY <1>7, <1>9, <1>10, <1>13 DEF N, Stages

Closed(A, k, T) == \A a \in A, v \in T : Turn(k, a, v) \in A

LEMMA FoldEmpty ==
    ASSUME NEW A, NEW start \in A, NEW T, NEW k, Closed(A, k, T)
    PROVE  Fold(k, start, <<>>) = start
<1>1. <<>> \in Seq(T) /\ Len(<<>>) = 0
  OBVIOUS
<1>2. \A a \in A, v \in T : Turn(k, a, v) \in A
  BY DEF Closed
<1>3. PICK f : Stages(f, A, k, start, <<>>)
  BY <1>1, <1>2, FoldIs
<1>. QED
  BY <1>1, <1>3 DEF Stages

LEMMA FoldAppend ==
    ASSUME NEW A, NEW start \in A, NEW T, NEW items \in Seq(T), NEW k, Closed(A, k, T), NEW x \in T
    PROVE  /\ Fold(k, start, items) \in A
           /\ Fold(k, start, Append(items, x)) = Turn(k, Fold(k, start, items), x)
<1>. DEFINE more == Append(items, x)
            N == Len(items)
<1>1. /\ N \in Nat /\ more \in Seq(T) /\ Len(more) = N + 1 /\ more[N + 1] = x
      /\ \A n \in 1..N : more[n] = items[n]
  OBVIOUS
<1>. HIDE DEF more
<1>2. \A a \in A, v \in T : Turn(k, a, v) \in A
  BY DEF Closed
<1>3. PICK f : Stages(f, A, k, start, items)
  BY <1>2, FoldIs
<1>4. PICK h : Stages(h, A, k, start, more)
  BY <1>1, <1>2, FoldIs
<1>. DEFINE R == {n \in 0..N : f[n] = h[n]}
<1>5. /\ f \in [0..N -> A] /\ f[0] = start /\ Fold(k, start, items) = f[N]
      /\ \A n \in 1..N : f[n] = Turn(k, f[n - 1], items[n])
  BY <1>3 DEF Stages
<1>6. /\ h[0] = start /\ Fold(k, start, more) = h[N + 1]
      /\ \A n \in 1..(N + 1) : h[n] = Turn(k, h[n - 1], more[n])
  BY <1>1, <1>4 DEF Stages
<1>. HIDE DEF N
<1>7. 0 \in R
  BY <1>1, <1>5, <1>6
<1>8. ASSUME NEW n \in 1..N, n - 1 \in R PROVE n \in R
  <2>1. n \in 1..(N + 1) /\ n \in 0..N /\ f[n - 1] = h[n - 1] /\ items[n] = more[n]
    BY <1>1, <1>8
  <2>. QED
    BY <1>5, <1>6, <2>1
<1>. HIDE DEF R
<1>9. \A n \in 0..N : n \in R
  BY <1>1, <1>7, <1>8, InductionUpTo
<1>10. N \in R /\ N \in 0..N /\ N + 1 \in 1..(N + 1) /\ (N + 1) - 1 = N
  BY <1>1, <1>9
<1>11. f[N] = h[N] /\ h[N + 1] = Turn(k, h[N], more[N + 1]) /\ f[N] \in A
  BY <1>5, <1>6, <1>10 DEF R
<1>. QED
  BY <1>1, <1>5, <1>6, <1>11 DEF more

LEMMA SeqInduction ==
    ASSUME NEW S, NEW P, <<>> \in P, \A s \in Seq(S), x \in S : s \in P => Append(s, x) \in P
    PROVE  \A s \in Seq(S) : s \in P
<1>. SUFFICES ASSUME NEW s \in Seq(S) PROVE s \in P
  OBVIOUS
<1>. DEFINE N == Len(s)
            R == {n \in 0..N : SubSeq(s, 1, n) \in P}
<1>1. N \in Nat /\ 0 \in 0..N /\ SubSeq(s, 1, 0) = <<>> /\ SubSeq(s, 1, N) = s
  OBVIOUS
<1>2. ASSUME NEW n \in 1..N PROVE /\ SubSeq(s, 1, n - 1) \in Seq(S) /\ s[n] \in S
                                  /\ SubSeq(s, 1, n) = Append(SubSeq(s, 1, n - 1), s[n])
  OBVIOUS
<1>. HIDE DEF N
<1>3. 0 \in R
  BY <1>1
<1>4. ASSUME NEW n \in 1..N, n - 1 \in R PROVE n \in R
  <2>1. SubSeq(s, 1, n - 1) \in P /\ n \in 0..N
    BY <1>4
  <2>. QED
    BY <1>2, <2>1
<1>. HIDE DEF R
<1>5. \A n \in 0..N : n \in R
  BY <1>1, <1>3, <1>4, InductionUpTo
<1>6. N \in R
  BY <1>1, <1>5
<1>. QED
  BY <1>1, <1>6 DEF R

LEMMA WithoutFold ==
    ASSUME NEW array, NEW values
    PROVE  Without(array, values) = Fold(<<"without", values>>, <<>>, array)
<1>. DEFINE k == <<"without", values>>
            Q(W) == W = [s \in SUBSET DOMAIN array |->
                           IF s = {} THEN <<>>
                           ELSE KeepOther(values, W[s \ {Max(s)}], array[Max(s)])]
<1>1. Without(array, values) = (CHOOSE W : Q(W))[DOMAIN array]
  BY Zenon DEF Without, FoldLeft, MapThenFoldSet, KeepOther
<1>2. \A a, v : Turn(k, a, v) = KeepOther(values, a, v)
  BY DEF Turn
<1>. HIDE DEF k
<1>3. ASSUME NEW W PROVE Q(W) <=> FoldEquation(k, <<>>, array, W)
  BY <1>2, Zenon DEF FoldEquation
<1>. HIDE DEF Q
<1>. QED
  BY <1>1, <1>3, Zenon DEF Fold, k

LEMMA DelValueFold ==
    ASSUME NEW array, NEW value, NEW owner, NEW stale
    PROVE  DelValue(array, value, owner, stale)
              = Fold(<<"move", array, value, owner, stale>>, <<>>, [i \in DOMAIN array |-> i])
<1>. DEFINE k == <<"move", array, value, owner, stale>>
            items == [i \in DOMAIN array |-> i]
            Q(W) == W = [s \in SUBSET DOMAIN items |->
                           IF s = {} THEN <<>>
                           ELSE MoveValue(array, value, owner, stale, W[s \ {Max(s)}],
                                          items[Max(s)])]
<1>1. DelValue(array, value, owner, stale) = (CHOOSE W : Q(W))[DOMAIN items]
  BY Zenon DEF DelValue, FoldLeftDomain, FoldLeft, MapThenFoldSet, MoveValue
<1>2. \A a, v : Turn(k, a, v) = MoveValue(array, value, owner, stale, a, v)
  BY DEF Turn
<1>. HIDE DEF k, items
<1>3. ASSUME NEW W PROVE Q(W) <=> FoldEquation(k, <<>>, items, W)
  BY <1>2, Zenon DEF FoldEquation
<1>. HIDE DEF Q
<1>. QED
  BY <1>1, <1>3, Zenon DEF Fold, k, items

LEMMA StripLoggingFold ==
    ASSUME NEW words
    PROVE  StripLogging(words) = Fold(<<"strip">>, [rest |-> FALSE, words |-> <<>>], words).words
<1>. DEFINE k == <<"strip">>
            start == [rest |-> FALSE, words |-> <<>>]
            Q(W) == W = [s \in SUBSET DOMAIN words |->
                           IF s = {} THEN start
                           ELSE StripWord(W[s \ {Max(s)}], words[Max(s)])]
<1>1. StripLogging(words) = (CHOOSE W : Q(W))[DOMAIN words].words
  BY Zenon DEF StripLogging, FoldLeft, MapThenFoldSet, StripWord
<1>2. \A a, v : Turn(k, a, v) = StripWord(a, v)
  BY DEF Turn
<1>. HIDE DEF k, start
<1>3. ASSUME NEW W PROVE Q(W) <=> FoldEquation(k, start, words, W)
  BY <1>2, Zenon DEF FoldEquation
<1>. HIDE DEF Q
<1>. QED
  BY <1>1, <1>3, Zenon DEF Fold, k, start

PoptStart == [errno |-> "EOK", pending |-> FALSE, rest |-> FALSE, options |-> {}, free |-> <<>>]

PoptEnd(table, words) == Fold(<<"popt", table>>, PoptStart, words)

LEMMA PoptFold ==
    ASSUME NEW table, NEW words
    PROVE  Popt(table, words) = LET end == PoptEnd(table, words)
                                IN IF end.pending THEN [end EXCEPT !.errno = "EINVAL"] ELSE end
<1>. DEFINE k == <<"popt", table>>
            Q(W) == W = [s \in SUBSET DOMAIN words |->
                           IF s = {} THEN PoptStart
                           ELSE PoptWord(table, W[s \ {Max(s)}], words[Max(s)])]
            end == (CHOOSE W : Q(W))[DOMAIN words]
<1>1. Popt(table, words) = IF end.pending THEN [end EXCEPT !.errno = "EINVAL"] ELSE end
  BY Zenon DEF Popt, FoldLeft, MapThenFoldSet, PoptWord, PoptStart
<1>2. \A a, v : Turn(k, a, v) = PoptWord(table, a, v)
  BY DEF Turn
<1>. HIDE DEF k
<1>3. ASSUME NEW W PROVE Q(W) <=> FoldEquation(k, PoptStart, words, W)
  BY <1>2, Zenon DEF FoldEquation
<1>. HIDE DEF Q
<1>4. end = PoptEnd(table, words)
  BY <1>3, Zenon DEF Fold, k, PoptEnd
<1>. HIDE DEF end
<1>. QED
  BY <1>1, <1>4

LoopStart == [skip |-> FALSE, profile |-> FALSE, features |-> <<>>]
LoopEnd(words) == Fold(<<"loop">>, LoopStart, words)

LEMMA LoopFold ==
    ASSUME NEW words
    PROVE  LoopFeatures(words) = LoopEnd(words).features
<1>. DEFINE k == <<"loop">>
            Q(W) == W = [s \in SUBSET DOMAIN words |->
                           IF s = {} THEN LoopStart
                           ELSE LoopWord(W[s \ {Max(s)}], words[Max(s)])]
<1>1. LoopFeatures(words) = (CHOOSE W : Q(W))[DOMAIN words].features
  BY Zenon DEF LoopFeatures, FoldLeft, MapThenFoldSet, LoopWord, LoopStart
<1>2. \A a, v : Turn(k, a, v) = LoopWord(a, v)
  BY DEF Turn
<1>. HIDE DEF k
<1>3. ASSUME NEW W PROVE Q(W) <=> FoldEquation(k, LoopStart, words, W)
  BY <1>2, Zenon DEF FoldEquation
<1>. HIDE DEF Q
<1>. QED
  BY <1>1, <1>3, Zenon DEF Fold, k, LoopEnd

-----------------------------------------------------------------------------
(* Sequences that keep some words, or take each word once.                 *)

LEMMA WithoutIs ==
    ASSUME NEW S, NEW V, NEW items \in Seq(S)
    PROVE  /\ Without(<<>>, V) = <<>>
           /\ Without(items, V) \in Seq(S)
           /\ \A v \in S : Without(Append(items, v), V) = KeepOther(V, Without(items, V), v)
<1>. DEFINE k == <<"without", V>>
            e == <<>>
<1>1. e \in Seq(S) /\ \A a, v : Turn(k, a, v) = KeepOther(V, a, v)
  BY DEF Turn
<1>. HIDE DEF k, e
<1>2. Closed(Seq(S), k, S)
  <2>1. \A a \in Seq(S), v \in S : KeepOther(V, a, v) \in Seq(S)
    BY DEF KeepOther
  <2>. QED
    BY <1>1, <2>1 DEF Closed
<1>3. Fold(k, e, <<>>) = e
  BY <1>1, <1>2, FoldEmpty
<1>4. ASSUME NEW s \in Seq(S), NEW x \in S
      PROVE  /\ Fold(k, e, s) \in Seq(S)
             /\ Fold(k, e, Append(s, x)) = KeepOther(V, Fold(k, e, s), x)
  <2>1. e \in Seq(S)
    BY <1>1
  <2>2. /\ Fold(k, e, s) \in Seq(S)
        /\ Fold(k, e, Append(s, x)) = Turn(k, Fold(k, e, s), x)
    BY <1>2, <2>1, FoldAppend
  <2>. QED
    BY <1>1, <2>2
<1>5. ASSUME NEW s \in Seq(S) PROVE Fold(k, e, s) \in Seq(S)
  <2>1. CASE s = <<>>
    BY <1>1, <1>3, <2>1
  <2>2. CASE s # <<>>
    <3>1. s[1] \in S
      BY <2>2
    <3>. QED
      BY <1>4, <3>1
  <2>. QED
    BY <2>1, <2>2
<1>6. \A s : Without(s, V) = Fold(k, e, s)
  BY WithoutFold DEF k, e
<1>. QED
  BY <1>3, <1>4, <1>5, <1>6 DEF e

LEMMA WithoutStep ==
    ASSUME NEW S, NEW V, NEW items \in Seq(S), NEW v \in S
    PROVE  Without(Append(items, v), V) = KeepOther(V, Without(items, V), v)
BY WithoutIs

LEMMA AddAllIs ==
    ASSUME NEW S, NEW to \in Seq(S), NEW u, NEW items \in Seq(S)
    PROVE  /\ AddAll(to, <<>>, u) = to
           /\ AddAll(to, items, u) \in Seq(S)
           /\ \A v \in S : AddAll(to, Append(items, v), u) = AddValue(AddAll(to, items, u), v, u)
<1>. DEFINE k == <<"add", u>>
<1>1. \A a, v : Turn(k, a, v) = AddValue(a, v, u)
  BY DEF Turn
<1>. HIDE DEF k
<1>2. Closed(Seq(S), k, S)
  <2>1. \A a \in Seq(S), v \in S : AddValue(a, v, u) \in Seq(S)
    BY DEF AddValue
  <2>. QED
    BY <1>1, <2>1 DEF Closed
<1>3. Fold(k, to, <<>>) = to
  BY <1>2, FoldEmpty
<1>4. ASSUME NEW s \in Seq(S), NEW x \in S
      PROVE  /\ Fold(k, to, s) \in Seq(S)
             /\ Fold(k, to, Append(s, x)) = AddValue(Fold(k, to, s), x, u)
  BY <1>1, <1>2, FoldAppend
<1>5. ASSUME NEW s \in Seq(S) PROVE Fold(k, to, s) \in Seq(S)
  <2>1. CASE s = <<>>
    BY <1>1, <1>3, <2>1
  <2>2. CASE s # <<>>
    <3>1. s[1] \in S
      BY <2>2
    <3>. QED
      BY <1>4, <3>1
  <2>. QED
    BY <2>1, <2>2
<1>6. \A s : AddAll(to, s, u) = Fold(k, to, s)
  BY AddAllFold DEF k
<1>. QED
  BY <1>3, <1>4, <1>5, <1>6

LEMMA AddAllTyped ==
    ASSUME NEW S, NEW to \in Seq(S), NEW items \in Seq(S)
    PROVE  AddAll(to, items, TRUE) \in Seq(S) /\ AddAll(to, <<>>, TRUE) = to
<1>1. \A u : AddAll(to, items, u) \in Seq(S) /\ AddAll(to, <<>>, u) = to
  BY AddAllIs
<1>. QED
  BY <1>1, Zenon

LEMMA AddAllStep ==
    ASSUME NEW S, NEW to \in Seq(S), NEW items \in Seq(S), NEW v \in S
    PROVE  AddAll(to, Append(items, v), TRUE) = AddValue(AddAll(to, items, TRUE), v, TRUE)
<1>1. \A u : AddAll(to, Append(items, v), u) = AddValue(AddAll(to, items, u), v, u)
  BY AddAllIs
<1>. QED
  BY <1>1, Zenon

LEMMA ToSetIn ==
    ASSUME NEW S, NEW s \in Seq(S)
    PROVE  ToSet(s) \in SUBSET S /\ s \in Seq(ToSet(s))
<1>1. DOMAIN s = 1..Len(s) /\ Len(s) \in Nat
  OBVIOUS
<1>2. ToSet(s) \in SUBSET S
  BY DEF ToSet
<1>3. s \in Seq(ToSet(s))
  BY <1>1 DEF ToSet
<1>. QED
  BY <1>2, <1>3

LEMMA ContainsIs ==
    ASSUME NEW S, NEW s \in Seq(S), NEW x
    PROVE  Contains(s, x) <=> x \in ToSet(s)
<1>1. DOMAIN s = 1..Len(s) /\ Len(s) \in Nat
  OBVIOUS
<1>. QED
  BY <1>1 DEF Contains, ToSet

LEMMA ToSetAppend ==
    ASSUME NEW S, NEW s \in Seq(S), NEW x
    PROVE  ToSet(Append(s, x)) = ToSet(s) \cup {x}
<1>1. /\ DOMAIN s = 1..Len(s) /\ Len(s) \in Nat
      /\ DOMAIN Append(s, x) = 1..(Len(s) + 1) /\ Append(s, x)[Len(s) + 1] = x
      /\ \A i \in 1..Len(s) : Append(s, x)[i] = s[i]
  OBVIOUS
<1>. QED
  BY <1>1 DEF ToSet

LEMMA InjectiveAppend ==
    ASSUME NEW S, NEW s \in Seq(S), NEW x
    PROVE  IsInjective(Append(s, x)) <=> IsInjective(s) /\ x \notin ToSet(s)
<1>1. /\ DOMAIN s = 1..Len(s) /\ Len(s) \in Nat
      /\ DOMAIN Append(s, x) = 1..(Len(s) + 1) /\ Append(s, x)[Len(s) + 1] = x
      /\ \A i \in 1..Len(s) : Append(s, x)[i] = s[i]
  OBVIOUS
<1>. QED
  BY <1>1 DEF IsInjective, ToSet

LEMMA AddValueIs ==
    ASSUME NEW S, NEW s \in Seq(S), NEW x
    PROVE  /\ ToSet(AddValue(s, x, TRUE)) = ToSet(s) \cup {x}
           /\ IsInjective(s) => IsInjective(AddValue(s, x, TRUE))
<1>1. Contains(s, x) <=> x \in ToSet(s)
  BY ContainsIs
<1>2. /\ ToSet(Append(s, x)) = ToSet(s) \cup {x}
      /\ IsInjective(Append(s, x)) <=> IsInjective(s) /\ x \notin ToSet(s)
  BY ToSetAppend, InjectiveAppend
<1>. QED
  BY <1>1, <1>2 DEF AddValue, HasValue

LEMMA TailAppend ==
    ASSUME NEW S, NEW s \in Seq(S), NEW x \in S, s # <<>>
    PROVE  /\ Append(s, x) # <<>> /\ Head(Append(s, x)) = Head(s)
           /\ Tail(Append(s, x)) = Append(Tail(s), x) /\ Tail(s) \in Seq(S)
OBVIOUS

LEMMA EmptyIs == ToSet(<<>>) = {} /\ IsInjective(<<>>) /\ \A S : <<>> \in Seq(S)
BY DEF ToSet, IsInjective

(* What is added one by one, each once.                                    *)
LEMMA AddAllSet ==
    ASSUME NEW S, NEW to \in Seq(S), NEW items \in Seq(S), IsInjective(to)
    PROVE  /\ AddAll(to, items, TRUE) \in Seq(S)
           /\ ToSet(AddAll(to, items, TRUE)) = ToSet(to) \cup ToSet(items)
           /\ IsInjective(AddAll(to, items, TRUE))
<1>. DEFINE P == {s \in Seq(S) : /\ ToSet(AddAll(to, s, TRUE)) = ToSet(to) \cup ToSet(s)
                                 /\ IsInjective(AddAll(to, s, TRUE))}
<1>1. <<>> \in P
  BY AddAllTyped, EmptyIs
<1>2. ASSUME NEW s \in Seq(S), NEW x \in S, s \in P PROVE Append(s, x) \in P
  <2>1. AddAll(to, Append(s, x), TRUE) = AddValue(AddAll(to, s, TRUE), x, TRUE)
    BY AddAllStep
  <2>b. AddAll(to, s, TRUE) \in Seq(S)
    BY AddAllTyped
  <2>2. /\ ToSet(AddAll(to, s, TRUE)) = ToSet(to) \cup ToSet(s)
        /\ IsInjective(AddAll(to, s, TRUE))
    BY <1>2
  <2>a. Append(s, x) \in Seq(S)
    OBVIOUS
  <2>3. ToSet(Append(s, x)) = ToSet(s) \cup {x}
    BY ToSetAppend
  <2>4. /\ ToSet(AddValue(AddAll(to, s, TRUE), x, TRUE)) = ToSet(AddAll(to, s, TRUE)) \cup {x}
        /\ IsInjective(AddValue(AddAll(to, s, TRUE), x, TRUE))
    BY <2>b, <2>2, AddValueIs
  <2>. QED
    BY <2>a, <2>1, <2>2, <2>3, <2>4
<1>. HIDE DEF P
<1>3. items \in P
  BY <1>1, <1>2, SeqInduction
<1>. QED
  BY <1>3, AddAllTyped DEF P

(* A copy of an array without duplicates is the array.                     *)
LEMMA CopyIs ==
    ASSUME NEW S, NEW s \in Seq(S)
    PROVE  /\ Copy(s, TRUE) \in Seq(S) /\ ToSet(Copy(s, TRUE)) = ToSet(s)
           /\ IsInjective(Copy(s, TRUE))
           /\ IsInjective(s) => Copy(s, TRUE) = s
<1>. DEFINE P == {t \in Seq(S) : IsInjective(t) => Copy(t, TRUE) = t}
<1>1. <<>> \in P
  BY AddAllTyped, EmptyIs DEF Copy
<1>2. ASSUME NEW t \in Seq(S), NEW x \in S, t \in P PROVE Append(t, x) \in P
  <2>a. Append(t, x) \in Seq(S)
    OBVIOUS
  <2>. SUFFICES ASSUME IsInjective(Append(t, x)) PROVE Copy(Append(t, x), TRUE) = Append(t, x)
    BY <2>a
  <2>1. IsInjective(t) /\ ~Contains(t, x)
    BY InjectiveAppend, ContainsIs
  <2>2. Copy(Append(t, x), TRUE) = AddValue(Copy(t, TRUE), x, TRUE)
    <3>1. <<>> \in Seq(S)
      BY EmptyIs
    <3>. QED
      BY <3>1, AddAllStep DEF Copy
  <2>3. Copy(t, TRUE) = t
    BY <1>2, <2>1
  <2>. QED
    BY <2>1, <2>2, <2>3 DEF AddValue, HasValue
<1>. HIDE DEF P
<1>3. s \in P
  BY <1>1, <1>2, SeqInduction
<1>4. /\ Copy(s, TRUE) \in Seq(S) /\ ToSet(Copy(s, TRUE)) = ToSet(s)
      /\ IsInjective(Copy(s, TRUE))
  <2>1. <<>> \in Seq(S) /\ ToSet(<<>>) = {} /\ IsInjective(<<>>)
    BY EmptyIs
  <2>2. /\ AddAll(<<>>, s, TRUE) \in Seq(S)
        /\ ToSet(AddAll(<<>>, s, TRUE)) = ToSet(<<>>) \cup ToSet(s)
        /\ IsInjective(AddAll(<<>>, s, TRUE))
    BY <2>1, AddAllSet
  <2>. QED
    BY <2>1, <2>2 DEF Copy
<1>. QED
  BY <1>3, <1>4 DEF P

LEMMA WithoutSet ==
    ASSUME NEW S, NEW V, NEW items \in Seq(S)
    PROVE  /\ ToSet(Without(items, V)) = ToSet(items) \ V
           /\ ToSet(items) \cap V = {} => Without(items, V) = items
<1>. DEFINE P == {s \in Seq(S) : /\ ToSet(Without(s, V)) = ToSet(s) \ V
                                 /\ ToSet(s) \cap V = {} => Without(s, V) = s}
<1>1. <<>> \in P
  BY WithoutIs, EmptyIs
<1>2. ASSUME NEW s \in Seq(S), NEW x \in S, s \in P PROVE Append(s, x) \in P
  <2>1. Without(Append(s, x), V) = KeepOther(V, Without(s, V), x) /\ Without(s, V) \in Seq(S)
    BY WithoutIs
  <2>. HIDE DEF P
  <2>2. /\ ToSet(Without(s, V)) = ToSet(s) \ V
        /\ ToSet(s) \cap V = {} => Without(s, V) = s
    BY <1>2 DEF P
  <2>a. Append(s, x) \in Seq(S)
    OBVIOUS
  <2>3. ToSet(Append(s, x)) = ToSet(s) \cup {x}
    BY ToSetAppend
  <2>4. ToSet(Append(Without(s, V), x)) = ToSet(Without(s, V)) \cup {x}
    BY <2>1, ToSetAppend
  <2>. QED
    BY <2>a, <2>1, <2>2, <2>3, <2>4 DEF KeepOther, P
<1>. HIDE DEF P
<1>3. items \in P
  BY <1>1, <1>2, SeqInduction
<1>. QED
  BY <1>3 DEF P

LEMMA WithoutTail ==
    ASSUME NEW S, NEW V, NEW items \in Seq(S), items # <<>>, Head(items) \notin V
    PROVE  /\ Without(items, V) # <<>> /\ Head(Without(items, V)) = Head(items)
           /\ Tail(Without(items, V)) = Without(Tail(items), V)
<1>. DEFINE F(s) == /\ Without(s, V) # <<>> /\ Head(Without(s, V)) = Head(s)
                    /\ Tail(Without(s, V)) = Without(Tail(s), V)
            P == {s \in Seq(S) : s # <<>> /\ Head(s) \notin V => F(s)}
<1>1. <<>> \in P
  BY EmptyIs
<1>2. ASSUME NEW s \in Seq(S), NEW x \in S, s \in P PROVE Append(s, x) \in P
  <2>a. Append(s, x) \in Seq(S)
    OBVIOUS
  <2>. SUFFICES ASSUME Head(Append(s, x)) \notin V PROVE F(Append(s, x))
    BY <2>a
  <2>1. Without(Append(s, x), V) = KeepOther(V, Without(s, V), x) /\ Without(s, V) \in Seq(S)
    BY WithoutIs
  <2>. HIDE DEF P
  <2>2. CASE s = <<>>
    <3>1. Append(s, x) = <<x>> /\ Head(<<x>>) = x /\ Tail(<<x>>) = <<>> /\ <<x>> # <<>>
      BY <2>2
    <3>2. Without(s, V) = <<>> /\ Without(<<>>, V) = <<>>
      BY <2>2, WithoutIs
    <3>3. x \notin V
      BY <3>1
    <3>4. Without(Append(s, x), V) = <<x>>
      BY <2>1, <3>2, <3>3 DEF KeepOther
    <3>. QED
      BY <3>1, <3>2, <3>4
  <2>3. CASE s # <<>>
    <3>1. /\ Head(Append(s, x)) = Head(s) /\ Tail(Append(s, x)) = Append(Tail(s), x)
          /\ Tail(s) \in Seq(S)
      BY <2>3, TailAppend
    <3>2. F(s)
      BY <1>2, <2>3, <3>1 DEF P
    <3>3. Without(Append(Tail(s), x), V) = KeepOther(V, Without(Tail(s), V), x)
      <4>1. Tail(s) \in Seq(S)
        BY <3>1
      <4>. HIDE DEF P, F
      <4>. QED
        BY <4>1, WithoutStep
    <3>4. CASE x \in V
      BY <2>1, <3>1, <3>2, <3>3, <3>4 DEF KeepOther
    <3>5. CASE x \notin V
      <4>1. Without(Append(s, x), V) = Append(Without(s, V), x)
        BY <2>1, <3>5 DEF KeepOther
      <4>2. Without(Tail(Append(s, x)), V) = Append(Tail(Without(s, V)), x)
        BY <3>1, <3>2, <3>3, <3>5 DEF KeepOther
      <4>3. /\ Append(Without(s, V), x) # <<>>
            /\ Head(Append(Without(s, V), x)) = Head(Without(s, V))
            /\ Tail(Append(Without(s, V), x)) = Append(Tail(Without(s, V)), x)
        BY <2>1, <3>2, TailAppend
      <4>. QED
        BY <2>1, <3>1, <3>2, <4>1, <4>2, <4>3
    <3>. QED
      BY <3>4, <3>5
  <2>. QED
    BY <2>2, <2>3
<1>. HIDE DEF P
<1>3. items \in P
  BY <1>1, <1>2, SeqInduction
<1>. QED
  BY <1>3 DEF P

-----------------------------------------------------------------------------
(* The two readings of a select: popt, and the loop over the same words.   *)

(* Every "--backup" stands before every "--".                              *)
Orderly(words) ==
    \A i, j \in 1..Len(words) : i < j /\ words[i] = "--" => words[j] # "--backup"

LEMMA OrderlyIs ==
    ASSUME NEW S, NEW words \in Seq(S), ~BackupAfterEnd(words)
    PROVE  Orderly(words)
<1>. DEFINE I == {i \in 1..Len(words) : words[i] = "--"}
            ended == SelectInSeq(words, LAMBDA w : w = "--")
<1>. SUFFICES ASSUME NEW i \in 1..Len(words), NEW j \in 1..Len(words), i < j,
                     words[i] = "--", words[j] = "--backup"
              PROVE  FALSE
  BY DEF Orderly
<1>1. i \in I /\ I \in SUBSET Nat /\ \A k \in I : k \in 1..Len(words)
  OBVIOUS
<1>2. ended = IF I # {} THEN Min(I) ELSE 0
  BY Zenon DEF SelectInSeq
<1>. HIDE DEF I, ended
<1>3. Min(I) \in I /\ \A k \in I : Min(I) <= k
  <2>1. I # {}
    BY <1>1
  <2>2. \E x \in I : \A y \in I : x <= y
    BY <1>1, <2>1, LeastNatural
  <2>3. Min(I) = CHOOSE x \in I : \A y \in I : x <= y
    BY DEF Min
  <2>. QED
    BY <2>2, <2>3, Zenon
<1>4. ended \in 1..Len(words) /\ ended <= i /\ ended # 0
  <2>1. I # {}
    BY <1>1
  <2>2. ended = Min(I)
    BY <1>2, <2>1
  <2>3. ended \in I /\ ended <= i
    BY <1>1, <1>3, <2>2
  <2>. QED
    BY <1>1, <2>3
<1>. DEFINE part == SubSeq(words, ended, Len(words))
<1>5. Len(part) = Len(words) - ended + 1 /\ part[j - ended + 1] = words[j]
      /\ j - ended + 1 \in 1..Len(part)
  <2>1. j - ended + 1 \in 1..(Len(words) - ended + 1) /\ ended + (j - ended + 1) - 1 = j
    BY <1>4
  <2>. QED
    BY <1>4, <2>1
<1>. HIDE DEF part
<1>6. Contains(part, "--backup")
  BY <1>5 DEF Contains
<1>. QED
  BY <1>4, <1>6 DEF BackupAfterEnd, ended, part

LEMMA OrderlyAppend ==
    ASSUME NEW S, NEW words \in Seq(S), NEW w \in S
    PROVE  Orderly(Append(words, w)) <=>
              Orderly(words) /\ (w = "--backup" => "--" \notin ToSet(words))
<1>. DEFINE N == Len(words)
            more == Append(words, w)
<1>1. /\ N \in Nat /\ Len(more) = N + 1 /\ more[N + 1] = w /\ DOMAIN words = 1..N
      /\ \A i \in 1..N : more[i] = words[i]
  OBVIOUS
<1>. HIDE DEF N, more
<1>2. Orderly(more) => Orderly(words)
  <2>1. \A i \in 1..N : i \in 1..(N + 1)
    BY <1>1
  <2>. QED
    BY <1>1, <2>1 DEF Orderly, N
<1>3. Orderly(more) /\ w = "--backup" => "--" \notin ToSet(words)
  <2>1. \A i \in 1..N : i \in 1..(N + 1) /\ N + 1 \in 1..(N + 1) /\ i < N + 1
    BY <1>1
  <2>. QED
    BY <1>1, <2>1 DEF Orderly, ToSet
<1>4. ASSUME Orderly(words), w = "--backup" => "--" \notin ToSet(words) PROVE Orderly(more)
  <2>. SUFFICES ASSUME NEW i \in 1..(N + 1), NEW j \in 1..(N + 1), i < j, more[i] = "--"
                PROVE  more[j] # "--backup"
    BY <1>1 DEF Orderly
  <2>1. i \in 1..N /\ words[i] = "--"
    BY <1>1
  <2>2. CASE j = N + 1
    BY <1>1, <1>4, <2>1, <2>2 DEF ToSet
  <2>3. CASE j # N + 1
    <3>1. j \in 1..N
      BY <1>1, <2>3
    <3>. QED
      BY <1>1, <1>4, <2>1, <3>1 DEF Orderly, N
  <2>. QED
    BY <2>2, <2>3
<1>. QED
  BY <1>2, <1>3, <1>4 DEF more

LEMMA DashWordsAre ==
    {"-", "--", "--backup"} \subseteq DashWords
<1>1. "--backup" \in {entry[1] : entry \in OptionTable["select"]}
  <2>1. <<"--backup", "name">> \in OptionTable["select"] /\ <<"--backup", "name">>[1] = "--backup"
    BY DEF OptionTable, BackupWords
  <2>. QED
    BY <2>1
<1>2. "select" \in DOMAIN OptionTable
  BY DEF OptionTable
<1>. QED
  BY <1>1, <1>2 DEF DashWords

Meanings(table, w) == {entry[2] : entry \in {e \in table : e[1] = w}}

LEMMA NameIs ==
    ASSUME NEW w
    PROVE  "name" \in Meanings(OptionTable["select"], w) <=> w = "--backup"
<1>1. OptionTable["select"] = BackupWords \cup QuietWords \cup ForceWords
  BY DEF OptionTable
<1>2. \A e \in OptionTable["select"] : e[2] = "name" <=> e[1] = "--backup"
  BY <1>1 DEF BackupWords, QuietWords, ForceWords
<1>3. \E e \in OptionTable["select"] : e[2] = "name" /\ e[1] = "--backup"
  <2>1. <<"--backup", "name">> \in BackupWords
    BY DEF BackupWords
  <2>. QED
    BY <1>1, <2>1
<1>. QED
  BY <1>2, <1>3 DEF Meanings

-----------------------------------------------------------------------------
(* popt and the loop, word by word.                                        *)

PoptStates(table, S) ==
    [errno : {"EOK", "help", "EINVAL"}, pending : BOOLEAN, rest : BOOLEAN,
     options : SUBSET {entry[2] : entry \in table}, free : Seq(S)]

LoopStates(S) == [skip : BOOLEAN, profile : BOOLEAN, features : Seq(S)]

(* No option is spelled like the end of the options or a call for help.    *)
Plain(table) == \A w \in HelpWords \cup {"--"} : Meanings(table, w) = {}

LEMMA TablesArePlain == \A c \in DOMAIN OptionTable : Plain(OptionTable[c])
<1>1. \A c \in DOMAIN OptionTable :
         OptionTable[c] \in {BackupWords \cup QuietWords \cup ForceWords,
                            BackupWords \cup {<<"--upgrade", "upgrade">>},
                            BackupWords \cup QuietWords, BackupWords,
                            {<<"-r", "raw">>, <<"--raw", "raw">>}, PrintWords, {}}
  BY DEF OptionTable
<1>2. \A e \in BackupWords \cup QuietWords \cup ForceWords \cup PrintWords
             \cup {<<"--upgrade", "upgrade">>, <<"-r", "raw">>, <<"--raw", "raw">>} :
         e[1] \notin HelpWords \cup {"--"}
  BY DEF BackupWords, QuietWords, ForceWords, PrintWords, HelpWords
<1>3. ASSUME NEW c \in DOMAIN OptionTable, NEW e \in OptionTable[c]
      PROVE  e[1] \notin HelpWords \cup {"--"}
  <2>1. e \in BackupWords \cup QuietWords \cup ForceWords \cup PrintWords
              \cup {<<"--upgrade", "upgrade">>, <<"-r", "raw">>, <<"--raw", "raw">>}
    BY <1>1
  <2>. QED
    BY <1>2, <2>1
<1>. QED
  BY <1>3 DEF Plain, Meanings

(* One word, case by case.                                                 *)
PoptTurn(table, S, s, w, t) ==
    /\ t \in PoptStates(table, S)
    /\ s.errno # "EOK" => t = s
    /\ s.errno = "EOK" /\ s.pending => t = [s EXCEPT !.pending = FALSE]
    /\ s.errno = "EOK" /\ ~s.pending /\ (s.rest \/ w = "-" \/ w \notin DashWords)
         => t = [s EXCEPT !.free = Append(@, w)]
    /\ s.errno = "EOK" /\ ~s.pending /\ ~(s.rest \/ w = "-" \/ w \notin DashWords)
       /\ t.errno = "EOK"
         => \/ w = "--" /\ t = [s EXCEPT !.rest = TRUE]
            \/ /\ w # "--" /\ Meanings(table, w) # {} /\ w \notin HelpWords
               /\ t = [s EXCEPT !.options = @ \cup Meanings(table, w),
                                !.pending = "name" \in Meanings(table, w)]

LEMMA PoptWordIs ==
    ASSUME NEW table, Plain(table), NEW S, NEW s \in PoptStates(table, S), NEW w \in S,
           NEW t, t = PoptWord(table, s, w)
    PROVE  PoptTurn(table, S, s, w, t)
<1>. DEFINE M == Meanings(table, w)
            meant == [s EXCEPT !.options = @ \cup M, !.pending = "name" \in M]
            ended == [s EXCEPT !.rest = TRUE]
            help == [s EXCEPT !.errno = "help"]
            bad == [s EXCEPT !.errno = "EINVAL"]
<1>1. /\ s.errno \in {"EOK", "help", "EINVAL"} /\ s.pending \in BOOLEAN /\ s.rest \in BOOLEAN
      /\ s.options \in SUBSET {entry[2] : entry \in table} /\ s.free \in Seq(S)
  BY DEF PoptStates
<1>2. Append(s.free, w) \in Seq(S)
  BY <1>1
<1>3. M \in SUBSET {entry[2] : entry \in table}
  BY DEF Meanings
<1>4. t = CASE s.errno # "EOK"                             -> s
            [] s.errno = "EOK" /\ s.pending                -> [s EXCEPT !.pending = FALSE]
            [] s.errno = "EOK" /\ ~s.pending
               /\ (s.rest \/ w = "-" \/ w \notin DashWords) -> [s EXCEPT !.free = Append(@, w)]
            [] OTHER ->
               CASE w = "--"         -> ended
                 [] w \in HelpWords  -> help
                 [] M # {}           -> meant
                 [] OTHER            -> bad
  BY DEF PoptWord, Meanings
<1>5. /\ [s EXCEPT !.pending = FALSE] \in PoptStates(table, S)
      /\ ended \in PoptStates(table, S) /\ help \in PoptStates(table, S)
      /\ bad \in PoptStates(table, S)
  BY DEF PoptStates
<1>6. [s EXCEPT !.free = Append(@, w)] \in PoptStates(table, S)
  BY <1>2 DEF PoptStates
<1>. HIDE DEF M
<1>7. meant \in PoptStates(table, S)
  <2>1. s.options \cup M \in SUBSET {entry[2] : entry \in table} /\ ("name" \in M) \in BOOLEAN
    BY <1>1, <1>3
  <2>. QED
    BY <2>1 DEF PoptStates
<1>8. help.errno = "help" /\ bad.errno = "EINVAL"
  BY DEF PoptStates
<1>9. "--" \notin HelpWords /\ (w \in HelpWords \cup {"--"} => M = {})
  <2>1. w \in HelpWords \cup {"--"} => M = {}
    BY DEF Plain, M
  <2>. QED
    BY <2>1 DEF HelpWords
<1>. HIDE DEF meant, ended, help, bad
<1>. USE DEF PoptTurn
<1>10. CASE s.errno # "EOK"
  BY <1>4, <1>10
<1>11. CASE s.errno = "EOK" /\ s.pending
  BY <1>4, <1>5, <1>11
<1>12. CASE s.errno = "EOK" /\ ~s.pending /\ (s.rest \/ w = "-" \/ w \notin DashWords)
  BY <1>4, <1>6, <1>12
<1>13. CASE s.errno = "EOK" /\ ~s.pending /\ ~(s.rest \/ w = "-" \/ w \notin DashWords)
  <2>1. t = CASE w = "--"         -> ended
              [] w \in HelpWords  -> help
              [] M # {}           -> meant
              [] OTHER            -> bad
    BY <1>4, <1>13
  <2>2. /\ t \in PoptStates(table, S)
        /\ t.errno = "EOK" => \/ w = "--" /\ t = ended
                              \/ w # "--" /\ M # {} /\ w \notin HelpWords /\ t = meant
    <3>1. CASE w = "--"
      BY <1>5, <1>9, <2>1, <3>1
    <3>2. CASE w # "--" /\ w \in HelpWords
      BY <1>5, <1>8, <1>9, <2>1, <3>2
    <3>3. CASE w # "--" /\ w \notin HelpWords /\ M # {}
      BY <1>7, <2>1, <3>3
    <3>4. CASE w # "--" /\ w \notin HelpWords /\ M = {}
      BY <1>5, <1>8, <2>1, <3>4
    <3>. QED
      BY <3>1, <3>2, <3>3, <3>4
  <2>. QED
    BY <1>13, <2>2 DEF meant, M, ended
<1>. QED
  BY <1>1, <1>10, <1>11, <1>12, <1>13

LoopTurn(S, s, w, t) ==
    /\ t \in LoopStates(S)
    /\ s.skip => t = [s EXCEPT !.skip = FALSE]
    /\ ~s.skip /\ w = "--backup" => t = [s EXCEPT !.skip = TRUE]
    /\ ~s.skip /\ w \in DashWords \ {"--backup"} => t = s
    /\ ~s.skip /\ w \notin DashWords /\ ~s.profile => t = [s EXCEPT !.profile = TRUE]
    /\ ~s.skip /\ w \notin DashWords /\ s.profile
         => t = [s EXCEPT !.features = AddValue(@, w, TRUE)]

LEMMA LoopWordIs ==
    ASSUME NEW S, NEW s \in LoopStates(S), NEW w \in S, NEW t, t = LoopWord(s, w)
    PROVE  LoopTurn(S, s, w, t)
<1>1. s.skip \in BOOLEAN /\ s.profile \in BOOLEAN /\ s.features \in Seq(S) /\ "--backup" \in DashWords
  BY DashWordsAre DEF LoopStates
<1>2. AddValue(s.features, w, TRUE) \in Seq(S)
  BY <1>1 DEF AddValue
<1>3. /\ [s EXCEPT !.skip = FALSE] \in LoopStates(S)
      /\ [s EXCEPT !.skip = TRUE] \in LoopStates(S)
      /\ [s EXCEPT !.profile = TRUE] \in LoopStates(S)
  BY DEF LoopStates
<1>4. [s EXCEPT !.features = AddValue(@, w, TRUE)] \in LoopStates(S)
  BY <1>2 DEF LoopStates
<1>. USE DEF LoopTurn
<1>5. CASE s.skip
  BY <1>3, <1>5 DEF LoopWord
<1>6. CASE ~s.skip /\ w = "--backup"
  BY <1>1, <1>3, <1>6 DEF LoopWord
<1>7. CASE ~s.skip /\ w \in DashWords \ {"--backup"}
  BY <1>7 DEF LoopWord
<1>8. CASE ~s.skip /\ w \notin DashWords /\ ~s.profile
  BY <1>1, <1>3, <1>8 DEF LoopWord
<1>9. CASE ~s.skip /\ w \notin DashWords /\ s.profile
  BY <1>1, <1>4, <1>9 DEF LoopWord
<1>. QED
  BY <1>1, <1>5, <1>6, <1>7, <1>8, <1>9

(* What the two know after the same words.                                 *)
Agree(p, l, words) ==
    LET wanted == Without(p.free, DashWords)
    IN  /\ l.skip = p.pending
        /\ p.rest => "--" \in ToSet(words)
        /\ l.profile <=> wanted # <<>>
        /\ l.features = IF wanted = <<>> THEN <<>> ELSE Copy(Tail(wanted), TRUE)

SelectTable == OptionTable["select"]

LEMMA CopyAppend ==
    ASSUME NEW S, NEW s \in Seq(S), NEW x \in S
    PROVE  Copy(Append(s, x), TRUE) = AddValue(Copy(s, TRUE), x, TRUE) /\ Copy(<<>>, TRUE) = <<>>
<1>. DEFINE e == <<>>
<1>1. e \in Seq(S)
  BY EmptyIs
<1>. HIDE DEF e
<1>2. AddAll(e, Append(s, x), TRUE) = AddValue(AddAll(e, s, TRUE), x, TRUE)
  BY <1>1, AddAllStep
<1>3. AddAll(e, <<>>, TRUE) = e
  BY <1>1, AddAllTyped
<1>. QED
  BY <1>2, <1>3 DEF Copy, e

(* A free word of popt, which the loop takes unless it is an option.       *)
LEMMA FreeWordAgrees ==
    ASSUME NEW S, NEW p \in PoptStates(SelectTable, S), NEW l \in LoopStates(S),
           NEW s \in Seq(S), NEW w \in S,
           p.errno = "EOK", ~p.pending, p.rest \/ w = "-" \/ w \notin DashWords,
           w = "--backup" => "--" \notin ToSet(s), Agree(p, l, s)
    PROVE  Agree([p EXCEPT !.free = Append(@, w)], LoopWord(l, w), Append(s, w))
<1>. DEFINE t == LoopWord(l, w)
            q == [p EXCEPT !.free = Append(@, w)]
            wanted == Without(p.free, DashWords)
            more == Without(Append(p.free, w), DashWords)
<1>1. /\ p.free \in Seq(S) /\ q.free = Append(p.free, w) /\ q.rest = p.rest
      /\ q.pending = p.pending
  BY DEF PoptStates
<1>2. more = KeepOther(DashWords, wanted, w) /\ wanted \in Seq(S)
  BY <1>1, WithoutIs
<1>3. /\ l.skip = p.pending
      /\ p.rest => "--" \in ToSet(s)
      /\ l.profile <=> wanted # <<>>
      /\ l.features = IF wanted = <<>> THEN <<>> ELSE Copy(Tail(wanted), TRUE)
  BY DEF Agree
<1>4. w # "--backup" \/ w \notin DashWords
  BY <1>3
<1>5. ToSet(Append(s, w)) = ToSet(s) \cup {w}
  BY ToSetAppend
<1>6. {"-", "--", "--backup"} \subseteq DashWords
  BY DashWordsAre
<1>7. /\ w \in DashWords => t = l
      /\ w \notin DashWords /\ ~l.profile => t = [l EXCEPT !.profile = TRUE]
      /\ w \notin DashWords /\ l.profile => t = [l EXCEPT !.features = AddValue(@, w, TRUE)]
  <2>1. t = LoopWord(l, w)
    OBVIOUS
  <2>. HIDE DEF t
  <2>2. LoopTurn(S, l, w, t)
    BY <2>1, LoopWordIs
  <2>. QED
    BY <1>3, <1>4, <1>6, <2>2 DEF LoopTurn
<1>8. /\ t.skip = l.skip
      /\ t.profile <=> more # <<>>
      /\ t.features = IF more = <<>> THEN <<>> ELSE Copy(Tail(more), TRUE)
  <2>1. CASE w \in DashWords
    BY <1>2, <1>3, <1>7, <2>1 DEF KeepOther
  <2>2. CASE w \notin DashWords /\ ~l.profile
    <3>1. /\ t = [l EXCEPT !.profile = TRUE] /\ l.features = <<>> /\ wanted = <<>>
      BY <1>3, <1>7, <2>2
    <3>2. more = <<w>> /\ Tail(<<w>>) = <<>> /\ <<w>> # <<>>
      BY <1>2, <2>2, <3>1 DEF KeepOther
    <3>3. Copy(<<>>, TRUE) = <<>>
      BY <1>1, CopyAppend
    <3>. QED
      BY <3>1, <3>2, <3>3 DEF LoopStates
  <2>3. CASE w \notin DashWords /\ l.profile
    <3>1. /\ t = [l EXCEPT !.features = AddValue(@, w, TRUE)] /\ wanted # <<>>
          /\ l.features = Copy(Tail(wanted), TRUE)
      BY <1>3, <1>7, <2>3
    <3>2. more = Append(wanted, w)
      BY <1>2, <2>3 DEF KeepOther
    <3>3. more # <<>> /\ Tail(more) = Append(Tail(wanted), w) /\ Tail(wanted) \in Seq(S)
      BY <1>2, <3>1, <3>2, TailAppend
    <3>4. Copy(Tail(more), TRUE) = AddValue(Copy(Tail(wanted), TRUE), w, TRUE)
      BY <3>3, CopyAppend
    <3>5. t.features = AddValue(l.features, w, TRUE) /\ t.skip = l.skip /\ t.profile = l.profile
      BY <3>1 DEF LoopStates
    <3>. QED
      BY <2>3, <3>1, <3>3, <3>4, <3>5
  <2>. QED
    BY <2>1, <2>2, <2>3
<1>. HIDE DEF t, q, wanted, more
<1>9. q.free = Append(p.free, w) /\ more = Without(q.free, DashWords)
  BY <1>1 DEF more
<1>10. Agree(q, t, Append(s, w))
  BY <1>1, <1>3, <1>5, <1>8, <1>9 DEF Agree
<1>. QED
  BY <1>10 DEF q, t

(* A word that is no free word for popt.                                   *)
LEMMA OptionAgrees ==
    ASSUME NEW S, NEW p \in PoptStates(SelectTable, S), NEW l \in LoopStates(S),
           NEW s \in Seq(S), NEW w \in S, NEW q, q = PoptWord(SelectTable, p, w),
           p.errno = "EOK", q.errno = "EOK",
           p.pending \/ ~(p.rest \/ w = "-" \/ w \notin DashWords), Agree(p, l, s)
    PROVE  Agree(q, LoopWord(l, w), Append(s, w))
<1>. DEFINE t == LoopWord(l, w)
<1>1. Plain(SelectTable)
  <2>1. "select" \in DOMAIN OptionTable
    BY DEF OptionTable
  <2>. QED
    BY <2>1, TablesArePlain DEF SelectTable
<1>2. /\ p.pending => q = [p EXCEPT !.pending = FALSE]
      /\ ~p.pending => \/ w = "--" /\ q = [p EXCEPT !.rest = TRUE]
                       \/ /\ w # "--" /\ Meanings(SelectTable, w) # {} /\ w \notin HelpWords
                          /\ q = [p EXCEPT !.options = @ \cup Meanings(SelectTable, w),
                                           !.pending = "name" \in Meanings(SelectTable, w)]
  <2>1. PoptTurn(SelectTable, S, p, w, q)
    BY <1>1, PoptWordIs
  <2>2. CASE p.pending
    BY <2>1, <2>2 DEF PoptTurn
  <2>3. CASE ~p.pending
    BY <2>1, <2>3 DEF PoptTurn
  <2>. QED
    BY <2>2, <2>3
<1>3. /\ l.skip = p.pending
      /\ p.rest => "--" \in ToSet(s)
      /\ p.pending \in BOOLEAN
  BY DEF Agree, PoptStates
<1>4. {"-", "--", "--backup"} \subseteq DashWords
  BY DashWordsAre
<1>5. /\ l.skip => t = [l EXCEPT !.skip = FALSE]
      /\ ~l.skip /\ w = "--backup" => t = [l EXCEPT !.skip = TRUE]
      /\ ~l.skip /\ w \in DashWords \ {"--backup"} => t = l
  <2>. HIDE DEF t
  <2>1. t = LoopWord(l, w)
    BY DEF t
  <2>. QED
    <3>1. LoopTurn(S, l, w, t)
      BY <2>1, LoopWordIs
    <3>. QED
      BY <3>1 DEF LoopTurn
<1>6. "name" \in Meanings(SelectTable, w) <=> w = "--backup"
  BY NameIs DEF SelectTable
<1>7. ToSet(Append(s, w)) = ToSet(s) \cup {w}
  BY ToSetAppend
<1>8. /\ q.free = p.free
      /\ q.rest => p.rest \/ w = "--"
      /\ q.pending = IF p.pending THEN FALSE ELSE w = "--backup"
  <2>1. CASE p.pending
    BY <1>2, <2>1 DEF PoptStates
  <2>2. CASE ~p.pending /\ w = "--"
    BY <1>2, <2>2 DEF PoptStates
  <2>3. CASE ~p.pending /\ w # "--"
    <3>. DEFINE M == Meanings(SelectTable, w)
    <3>1. q = [p EXCEPT !.options = @ \cup M, !.pending = "name" \in M]
      BY <1>2, <2>3
    <3>. HIDE DEF M
    <3>2. q.free = p.free /\ q.rest = p.rest /\ q.pending = ("name" \in M)
      BY <3>1 DEF PoptStates
    <3>. QED
      BY <1>6, <2>3, <3>2 DEF M
  <2>. QED
    BY <2>1, <2>2, <2>3
<1>9. /\ t.skip = (IF p.pending THEN FALSE ELSE w = "--backup") /\ t.profile = l.profile
      /\ t.features = l.features
  <2>1. CASE l.skip
    BY <1>3, <1>5, <2>1 DEF LoopStates
  <2>2. CASE ~l.skip /\ w = "--backup"
    BY <1>3, <1>5, <2>2 DEF LoopStates
  <2>3. CASE ~l.skip /\ w # "--backup"
    <3>1. w \in DashWords /\ t = l /\ p.pending = FALSE
      BY <1>3, <1>5, <2>3
    <3>2. l.skip = FALSE
      BY <1>3, <3>1
    <3>. HIDE DEF t
    <3>. QED
      BY <2>3, <3>1, <3>2
  <2>. QED
    BY <2>1, <2>2, <2>3
<1>. HIDE DEF t
<1>10. Agree(q, t, Append(s, w))
  BY <1>3, <1>7, <1>8, <1>9 DEF Agree
<1>. QED
  BY <1>10 DEF t

LEMMA SelectIsPlain == Plain(SelectTable)
<1>1. "select" \in DOMAIN OptionTable
  BY DEF OptionTable
<1>. QED
  BY <1>1, TablesArePlain DEF SelectTable

(* The fold of popt, word by word.                                         *)
LEMMA PoptEndIs ==
    ASSUME NEW table, Plain(table), NEW S, NEW words \in Seq(S), NEW w \in S
    PROVE  /\ PoptEnd(table, <<>>) = PoptStart
           /\ PoptEnd(table, words) \in PoptStates(table, S)
           /\ PoptEnd(table, Append(words, w)) = PoptWord(table, PoptEnd(table, words), w)
<1>. DEFINE k == <<"popt", table>>
            A == PoptStates(table, S)
            start == PoptStart
<1>1. start \in A
  BY DEF PoptStart, PoptStates
<1>2. \A a, v : Turn(k, a, v) = PoptWord(table, a, v)
  BY DEF Turn
<1>. HIDE DEF k, A, start
<1>3. ASSUME NEW a \in A, NEW v \in S PROVE PoptWord(table, a, v) \in A
  <2>1. PoptTurn(table, S, a, v, PoptWord(table, a, v))
    BY PoptWordIs DEF A
  <2>. QED
    BY <2>1 DEF PoptTurn, A
<1>4. Closed(A, k, S)
  BY <1>2, <1>3 DEF Closed
<1>5. Fold(k, start, <<>>) = start
  BY <1>1, <1>4, FoldEmpty
<1>6. /\ Fold(k, start, words) \in A
      /\ Fold(k, start, Append(words, w)) = Turn(k, Fold(k, start, words), w)
  BY <1>1, <1>4, FoldAppend
<1>. QED
  BY <1>2, <1>5, <1>6 DEF PoptEnd, k, A, start

LEMMA LoopEndIs ==
    ASSUME NEW S, NEW words \in Seq(S), NEW w \in S
    PROVE  /\ LoopEnd(<<>>) = LoopStart
           /\ LoopEnd(words) \in LoopStates(S)
           /\ LoopEnd(Append(words, w)) = LoopWord(LoopEnd(words), w)
<1>. DEFINE k == <<"loop">>
            A == LoopStates(S)
            start == LoopStart
<1>1. start \in A
  BY DEF LoopStart, LoopStates
<1>2. \A a, v : Turn(k, a, v) = LoopWord(a, v)
  BY DEF Turn
<1>. HIDE DEF k, A, start
<1>3. ASSUME NEW a \in A, NEW v \in S PROVE LoopWord(a, v) \in A
  <2>1. LoopTurn(S, a, v, LoopWord(a, v))
    BY LoopWordIs DEF A
  <2>. QED
    BY <2>1 DEF LoopTurn, A
<1>4. Closed(A, k, S)
  BY <1>2, <1>3 DEF Closed
<1>5. Fold(k, start, <<>>) = start
  BY <1>1, <1>4, FoldEmpty
<1>6. /\ Fold(k, start, words) \in A
      /\ Fold(k, start, Append(words, w)) = Turn(k, Fold(k, start, words), w)
  BY <1>1, <1>4, FoldAppend
<1>. QED
  BY <1>2, <1>5, <1>6 DEF LoopEnd, k, A, start

(* popt and the loop agree after any words, as long as popt accepts them.  *)
ReadAlike(words) ==
    LET p == PoptEnd(SelectTable, words)
    IN  Orderly(words) /\ p.errno = "EOK" => Agree(p, LoopEnd(words), words)

LEMMA ReadAlikeStep ==
    ASSUME NEW S, NEW s \in Seq(S), NEW w \in S, ReadAlike(s)
    PROVE  ReadAlike(Append(s, w))
<1>. DEFINE p == PoptEnd(SelectTable, s)
            q == PoptEnd(SelectTable, Append(s, w))
            l == LoopEnd(s)
<1>. SUFFICES ASSUME Orderly(Append(s, w)), q.errno = "EOK"
              PROVE  Agree(q, LoopEnd(Append(s, w)), Append(s, w))
  BY DEF ReadAlike
<1>1. p \in PoptStates(SelectTable, S) /\ q = PoptWord(SelectTable, p, w)
  BY SelectIsPlain, PoptEndIs
<1>2. l \in LoopStates(S) /\ LoopEnd(Append(s, w)) = LoopWord(l, w)
  BY LoopEndIs
<1>3. Orderly(s) /\ (w = "--backup" => "--" \notin ToSet(s))
  BY OrderlyAppend
<1>. HIDE DEF p, q, l
<1>4. PoptTurn(SelectTable, S, p, w, q)
  BY <1>1, SelectIsPlain, PoptWordIs
<1>5. p.errno = "EOK"
  BY <1>4 DEF PoptTurn
<1>6. Agree(p, l, s)
  BY <1>3, <1>5 DEF ReadAlike, p, l
<1>7. CASE ~p.pending /\ (p.rest \/ w = "-" \/ w \notin DashWords)
  <2>1. q = [p EXCEPT !.free = Append(@, w)]
    BY <1>4, <1>5, <1>7 DEF PoptTurn
  <2>2. Agree([p EXCEPT !.free = Append(@, w)], LoopWord(l, w), Append(s, w))
    BY <1>1, <1>2, <1>3, <1>5, <1>6, <1>7, FreeWordAgrees
  <2>. QED
    BY <1>2, <2>1, <2>2
<1>8. CASE p.pending \/ ~(p.rest \/ w = "-" \/ w \notin DashWords)
  <2>1. Agree(q, LoopWord(l, w), Append(s, w))
    BY <1>1, <1>2, <1>5, <1>6, <1>8, OptionAgrees
  <2>. QED
    BY <1>2, <2>1
<1>. QED
  BY <1>7, <1>8

LEMMA ReadAlikeAlways ==
    ASSUME NEW S, NEW words \in Seq(S)
    PROVE  ReadAlike(words)
<1>. DEFINE P == {s \in Seq(S) : ReadAlike(s)}
<1>1. ReadAlike(<<>>)
  <2>. DEFINE e == "-"
  <2>1. <<>> \in Seq({e})
    BY EmptyIs
  <2>2. PoptEnd(SelectTable, <<>>) = PoptStart /\ LoopEnd(<<>>) = LoopStart
    BY <2>1, SelectIsPlain, PoptEndIs, LoopEndIs
  <2>3. Without(<<>>, DashWords) = <<>>
    BY <2>1, WithoutIs
  <2>4. Agree(PoptStart, LoopStart, <<>>)
    BY <2>3 DEF Agree, PoptStart, LoopStart
  <2>. QED
    BY <2>2, <2>4 DEF ReadAlike
<1>2. ASSUME NEW s \in Seq(S), NEW x \in S, s \in P PROVE Append(s, x) \in P
  <2>1. Append(s, x) \in Seq(S)
    OBVIOUS
  <2>2. ReadAlike(Append(s, x))
    BY <1>2, ReadAlikeStep
  <2>. QED
    BY <2>1, <2>2
<1>3. <<>> \in P
  BY <1>1, EmptyIs
<1>. HIDE DEF P
<1>4. words \in P
  BY <1>2, <1>3, SeqInduction
<1>. QED
  BY <1>4 DEF P

(* The two readings of one command line.                                   *)
LEMMA LoopReadsFeatures ==
    ASSUME NEW S, NEW words \in Seq(S), NEW popt, popt = Popt(OptionTable["select"], words),
           popt.errno = "EOK", popt.free # <<>>, Head(popt.free) \notin DashWords,
           Orderly(words)
    PROVE  LoopFeatures(words) = Copy(Without(Tail(popt.free), DashWords), TRUE)
<1>. DEFINE p == PoptEnd(SelectTable, words)
            l == LoopEnd(words)
            wanted == Without(p.free, DashWords)
<1>1. popt = IF p.pending THEN [p EXCEPT !.errno = "EINVAL"] ELSE p
  BY PoptFold DEF SelectTable
<1>2. p \in PoptStates(SelectTable, S)
  <2>1. words = <<>> \/ words[1] \in S
    OBVIOUS
  <2>2. CASE words = <<>>
    <3>1. <<>> \in Seq({"-"}) /\ "-" \in {"-"}
      BY EmptyIs
    <3>2. p = PoptStart
      BY <2>2, <3>1, SelectIsPlain, PoptEndIs
    <3>. QED
      BY <3>2 DEF PoptStart, PoptStates
  <2>3. CASE words # <<>>
    BY <2>1, <2>3, SelectIsPlain, PoptEndIs
  <2>. QED
    BY <2>2, <2>3
<1>4. ReadAlike(words)
  BY ReadAlikeAlways
<1>. HIDE DEF p, l
<1>5. popt = p /\ p.errno = "EOK"
  <2>1. p.pending => popt.errno = "EINVAL"
    BY <1>1, <1>2 DEF PoptStates
  <2>. QED
    BY <1>1, <2>1
<1>6. Agree(p, l, words)
  BY <1>4, <1>5 DEF ReadAlike, p, l
<1>7. p.free \in Seq(S) /\ p.free # <<>> /\ Head(p.free) \notin DashWords
  BY <1>2, <1>5 DEF PoptStates
<1>8. wanted # <<>> /\ Tail(wanted) = Without(Tail(p.free), DashWords)
  BY <1>7, WithoutTail
<1>9. l.features = Copy(Tail(wanted), TRUE)
  BY <1>6, <1>8 DEF Agree
<1>10. LoopFeatures(words) = l.features
  BY LoopFold DEF l
<1>. QED
  BY <1>5, <1>8, <1>9, <1>10

(* The loop of parse_profile_options, which looks at the words of a select *)
(* for itself, takes the features that popt leaves over, however many words*)
(* are typed and in which order, unless "--backup" follows "--".           *)
THEOREM ReadingsNeverDiffer == Spec => []ReadingsAgree
<1>1. ASSUME NEW words \in BoundedSeq(Vocabulary, MaxWords) PROVE words \in Seq(Vocabulary)
  <2>1. PICK n \in 0..MaxWords : words \in [1..n -> Vocabulary]
    BY DEF BoundedSeq, SeqOf
  <2>. QED
    BY <2>1
<1>2. ReadingsAgree
  <2>. SUFFICES ASSUME NEW words \in BoundedSeq(Vocabulary, MaxWords),
                       NEW popt, popt = Popt(OptionTable["select"], words),
                       popt.errno = "EOK", popt.free # <<>>,
                       Head(popt.free) \notin DashWords, ~BackupAfterEnd(words)
                PROVE  LoopFeatures(words) = Copy(Without(Tail(popt.free), DashWords), TRUE)
    BY DEF ReadingsAgree
  <2>1. words \in Seq(Vocabulary)
    BY <1>1
  <2>2. Orderly(words)
    BY <2>1, OrderlyIs
  <2>. QED
    BY <2>1, <2>2, LoopReadsFeatures
<1>. QED
  BY <1>2, PTL

-----------------------------------------------------------------------------
(* What commands hear in their words: typing of the tables, the arrays and *)
(* the configuration file.                                                 *)

(* The words without the logging options are some of the words.            *)
StripStates(S) == [rest : BOOLEAN, words : Seq(S)]
StripStart == [rest |-> FALSE, words |-> <<>>]
StripEnd(words) == Fold(<<"strip">>, StripStart, words)

LEMMA StripEndIs ==
    ASSUME NEW S, NEW words \in Seq(S), NEW w \in S
    PROVE  /\ StripEnd(<<>>) = StripStart
           /\ StripEnd(words) \in StripStates(S)
           /\ StripEnd(Append(words, w)) = StripWord(StripEnd(words), w)
<1>. DEFINE k == <<"strip">>
            A == StripStates(S)
            start == StripStart
<1>1. start \in A
  BY DEF StripStart, StripStates
<1>2. \A a, v : Turn(k, a, v) = StripWord(a, v)
  BY DEF Turn
<1>. HIDE DEF k, A, start
<1>3. ASSUME NEW a \in A, NEW v \in S PROVE StripWord(a, v) \in A
  <2>1. a.rest \in BOOLEAN /\ a.words \in Seq(S) /\ Append(a.words, v) \in Seq(S)
    BY DEF A, StripStates
  <2>. DEFINE r == a.rest \/ v = "--"
              ws == IF ~a.rest /\ v \in LoggingWords THEN a.words ELSE Append(a.words, v)
  <2>2. r \in BOOLEAN /\ ws \in Seq(S)
    BY <2>1
  <2>. HIDE DEF r, ws
  <2>3. StripWord(a, v) = [rest |-> r, words |-> ws]
    BY DEF StripWord, r, ws
  <2>. QED
    BY <2>2, <2>3 DEF A, StripStates
<1>4. Closed(A, k, S)
  BY <1>2, <1>3 DEF Closed
<1>5. Fold(k, start, <<>>) = start
  BY <1>1, <1>4, FoldEmpty
<1>6. /\ Fold(k, start, words) \in A
      /\ Fold(k, start, Append(words, w)) = Turn(k, Fold(k, start, words), w)
  BY <1>1, <1>4, FoldAppend
<1>. QED
  BY <1>2, <1>5, <1>6 DEF StripEnd, k, A, start

LEMMA StripIs ==
    ASSUME NEW S, NEW words \in Seq(S)
    PROVE  /\ StripLogging(words) \in Seq(S)
           /\ Orderly(words) => Orderly(StripLogging(words))
<1>. DEFINE Fine(s) == LET kept == StripEnd(s).words
                       IN  /\ kept \in Seq(S) /\ ToSet(kept) \subseteq ToSet(s)
                           /\ Orderly(s) => Orderly(kept)
            P == {s \in Seq(S) : Fine(s)}
<1>1. <<>> \in P
  <2>1. <<>> \in Seq({"-"}) /\ "-" \in {"-"}
    BY EmptyIs
  <2>2. StripEnd(<<>>).words = <<>>
    BY <2>1, StripEndIs DEF StripStart
  <2>3. Orderly(<<>>)
    BY DEF Orderly
  <2>. QED
    BY <2>2, <2>3, EmptyIs
<1>2. ASSUME NEW s \in Seq(S), NEW x \in S, s \in P PROVE Append(s, x) \in P
  <2>. DEFINE e == StripEnd(s)
              kept == e.words
              more == StripEnd(Append(s, x)).words
  <2>1. Append(s, x) \in Seq(S) /\ ToSet(Append(s, x)) = ToSet(s) \cup {x}
    BY ToSetAppend
  <2>2. e \in StripStates(S) /\ StripEnd(Append(s, x)) = StripWord(e, x)
    BY StripEndIs
  <2>3. kept \in Seq(S) /\ ToSet(kept) \subseteq ToSet(s)
    BY <1>2
  <2>4. Orderly(s) => Orderly(kept)
    BY <1>2
  <2>. HIDE DEF e, P
  <2>5. more = kept \/ more = Append(kept, x)
    BY <2>2 DEF StripWord
  <2>. HIDE DEF kept, more
  <2>6. ASSUME more = Append(kept, x) PROVE Fine(Append(s, x))
    <3>1. more \in Seq(S) /\ ToSet(more) = ToSet(kept) \cup {x}
      BY <2>3, <2>6, ToSetAppend
    <3>2. Orderly(Append(s, x)) => Orderly(s) /\ (x = "--backup" => "--" \notin ToSet(s))
      BY OrderlyAppend
    <3>3. Orderly(more) <=> Orderly(kept) /\ (x = "--backup" => "--" \notin ToSet(kept))
      BY <2>3, <2>6, OrderlyAppend
    <3>4. Orderly(Append(s, x)) => Orderly(more)
      BY <2>3, <2>4, <3>2, <3>3
    <3>. QED
      BY <2>1, <2>3, <3>1, <3>4 DEF more
  <2>7. ASSUME more = kept PROVE Fine(Append(s, x))
    <3>1. Orderly(Append(s, x)) => Orderly(s)
      BY OrderlyAppend
    <3>. QED
      BY <2>1, <2>3, <2>4, <2>7, <3>1 DEF more
  <2>. QED
    BY <2>1, <2>5, <2>6, <2>7 DEF P
<1>. HIDE DEF P
<1>3. words \in P
  BY <1>1, <1>2, SeqInduction
<1>4. StripLogging(words) = StripEnd(words).words
  BY StripLoggingFold DEF StripEnd, StripStart
<1>. QED
  BY <1>3, <1>4 DEF P

LEMMA PoptTyped ==
    ASSUME NEW table, Plain(table), NEW S, NEW words \in Seq(S)
    PROVE  /\ PoptEnd(table, words) \in PoptStates(table, S)
           /\ Popt(table, words).free \in Seq(S)
           /\ Popt(table, words).errno \in {"EOK", "help", "EINVAL"}
<1>. DEFINE p == PoptEnd(table, words)
<1>1. p \in PoptStates(table, S)
  <2>1. words = <<>> \/ words[1] \in S
    OBVIOUS
  <2>2. CASE words = <<>>
    <3>1. <<>> \in Seq({"-"}) /\ "-" \in {"-"}
      BY EmptyIs
    <3>2. p = PoptStart
      BY <2>2, <3>1, PoptEndIs
    <3>. QED
      BY <3>2 DEF PoptStart, PoptStates
  <2>3. CASE words # <<>>
    BY <2>1, <2>3, PoptEndIs
  <2>. QED
    BY <2>2, <2>3
<1>2. Popt(table, words) = IF p.pending THEN [p EXCEPT !.errno = "EINVAL"] ELSE p
  BY PoptFold
<1>. HIDE DEF p
<1>3. /\ p.free \in Seq(S) /\ p.errno \in {"EOK", "help", "EINVAL"}
      /\ [p EXCEPT !.errno = "EINVAL"].free = p.free
      /\ [p EXCEPT !.errno = "EINVAL"].errno = "EINVAL"
  BY <1>1 DEF PoptStates
<1>. QED
  BY <1>1, <1>2, <1>3 DEF p

(* The features that the loop takes are words, each once.                  *)
LEMMA LoopTyped ==
    ASSUME NEW S, NEW words \in Seq(S)
    PROVE  LoopFeatures(words) \in Seq(S) /\ IsInjective(LoopFeatures(words))
<1>. DEFINE Fine(s) == LET l == LoopEnd(s) IN l.features \in Seq(S) /\ IsInjective(l.features)
            P == {s \in Seq(S) : Fine(s)}
<1>1. <<>> \in P
  <2>1. <<>> \in Seq({"-"}) /\ "-" \in {"-"}
    BY EmptyIs
  <2>2. LoopEnd(<<>>).features = <<>>
    <3>1. LoopEnd(<<>>) = LoopStart
      BY <2>1, LoopEndIs
    <3>. QED
      BY <3>1 DEF LoopStart
  <2>. QED
    BY <2>2, EmptyIs
<1>2. ASSUME NEW s \in Seq(S), NEW x \in S, s \in P PROVE Append(s, x) \in P
  <2>. DEFINE l == LoopEnd(s)
              t == LoopEnd(Append(s, x))
  <2>1. Append(s, x) \in Seq(S)
    OBVIOUS
  <2>2. l \in LoopStates(S) /\ t = LoopWord(l, x)
    BY LoopEndIs
  <2>3. l.features \in Seq(S) /\ IsInjective(l.features)
    BY <1>2
  <2>4. "--backup" \in DashWords
    BY DashWordsAre
  <2>. HIDE DEF l, t, P
  <2>5. LoopTurn(S, l, x, t)
    BY <2>2, LoopWordIs
  <2>6. t \in LoopStates(S)
    BY <2>5 DEF LoopTurn
  <2>7. t.features = l.features \/ t.features = AddValue(l.features, x, TRUE)
    <3>1. CASE l.skip \/ x \in DashWords \/ ~l.profile
      <4>1. \/ t = l \/ t = [l EXCEPT !.skip = FALSE] \/ t = [l EXCEPT !.skip = TRUE]
            \/ t = [l EXCEPT !.profile = TRUE]
        BY <2>4, <2>5, <3>1 DEF LoopTurn
      <4>. QED
        BY <2>2, <4>1 DEF LoopStates
    <3>2. CASE ~(l.skip \/ x \in DashWords \/ ~l.profile)
      <4>1. t = [l EXCEPT !.features = AddValue(@, x, TRUE)]
        BY <2>5, <3>2 DEF LoopTurn
      <4>. QED
        BY <2>2, <4>1 DEF LoopStates
    <3>. QED
      BY <3>1, <3>2
  <2>8. IsInjective(t.features)
    BY <2>3, <2>7, AddValueIs
  <2>9. t.features \in Seq(S)
    BY <2>6 DEF LoopStates
  <2>. QED
    BY <2>1, <2>8, <2>9 DEF P, t
<1>. HIDE DEF P
<1>3. words \in P
  BY <1>1, <1>2, SeqInduction
<1>4. LoopFeatures(words) = LoopEnd(words).features
  BY LoopFold
<1>. QED
  BY <1>3, <1>4 DEF P

-----------------------------------------------------------------------------
(* The configuration file.                                                 *)

LEMMA ConfigReadIs ==
    ASSUME NEW S, NEW lines, lines = Absent \/ lines \in Seq(S), ConfigRead(lines).errno = "EOK"
    PROVE  LET config == ConfigRead(lines)
           IN  /\ lines # Absent /\ config.id \in S /\ config.features \in Seq(S)
               /\ IsInjective(config.features)
<1>1. lines # Absent /\ Explode(lines) # <<>>
  BY DEF ConfigRead
<1>. DEFINE words == Explode(lines)
            rest == Tail(words)
<1>2. words \in Seq(S)
  BY <1>1, WithoutIs DEF Explode
<1>. HIDE DEF words
<1>3. Head(words) \in S /\ rest \in Seq(S)
  BY <1>1, <1>2 DEF words
<1>. HIDE DEF rest
<1>4. Copy(rest, TRUE) \in Seq(S) /\ IsInjective(Copy(rest, TRUE))
  BY <1>3, CopyIs
<1>5. /\ ConfigRead(lines).id = Head(words)
      /\ ConfigRead(lines).features = Copy(rest, TRUE)
  BY <1>1 DEF ConfigRead, words, rest
<1>. QED
  BY <1>1, <1>3, <1>4, <1>5

LEMMA ConfigReadNothing ==
    ConfigRead(Absent).errno = "ENOENT" /\ ConfigRead(<<>>).errno = "ENOENT"
<1>1. Explode(<<>>) = <<>>
  <2>1. <<>> \in Seq({"-"})
    BY EmptyIs
  <2>. QED
    BY <2>1, WithoutIs DEF Explode
<1>. QED
  BY <1>1 DEF ConfigRead

LEMMA OneIs ==
    ASSUME NEW S, NEW x \in S
    PROVE  <<x>> \in Seq(S) /\ ToSet(<<x>>) = {x} /\ IsInjective(<<x>>)
BY DEF ToSet, IsInjective

LEMMA FirstIs ==
    ASSUME NEW S, NEW x \in S, NEW s \in Seq(S)
    PROVE  /\ <<x>> \o s \in Seq(S) /\ <<x>> \o s # <<>> /\ (<<x>> \o s)[1] = x
           /\ Head(<<x>> \o s) = x /\ Tail(<<x>> \o s) = s
OBVIOUS

LEMMA PairIs ==
    ASSUME NEW x, NEW y
    PROVE  <<x>> \o <<y>> = Append(<<x>>, y)
OBVIOUS

LEMMA ConfigWritten ==
    ASSUME NEW id \in Installed, NEW f \in Seq(Features), IsInjective(f)
    PROVE  LET c == ConfigWrite(id, f)
           IN  /\ c \in Lines /\ c # Absent /\ c # <<>> /\ c[1] = id
               /\ ToSet(Tail(c)) \ {""} = ToSet(f) /\ IsInjective(Tail(c))
               /\ ConfigRead(c) = [errno |-> "EOK", id |-> id, features |-> f]
<1>. DEFINE blank == ""
            S == Installed \cup Features \cup {blank}
            V == {blank, Comment}
            c == ConfigWrite(id, f)
<1>1. id \in S /\ blank \in S /\ Features \subseteq S /\ Installed \cup Features \subseteq S
  OBVIOUS
<1>2. (Installed \cup Features) \cap V = {} /\ blank \in V
  BY NamesAssumption
<1>3. c = <<id>> \o (IF f = <<>> THEN <<blank>> ELSE f)
  BY DEF ConfigWrite, Implode
<1>4. Explode(c) = Without(c, V)
  BY DEF Explode
<1>5. Lines = Seq(S)
  BY DEF Lines
<1>. HIDE DEF blank, S, V, c
<1>6. ToSet(f) \subseteq Features
  <2>1. ToSet(f) \in SUBSET Features
    BY ToSetIn
  <2>. QED
    BY <2>1
<1>7. /\ Explode(c) = <<id>> \o f /\ c \in Seq(S) /\ c[1] = id /\ c # <<>>
      /\ ToSet(Tail(c)) \ {blank} = ToSet(f) /\ IsInjective(Tail(c))
  <2>1. CASE f = <<>>
    <3>1. /\ <<blank>> \in Seq(S) /\ ToSet(<<blank>>) = {blank} /\ IsInjective(<<blank>>)
          /\ <<id>> \in Seq(S) /\ ToSet(<<id>>) = {id}
      BY <1>1, OneIs
    <3>2. c = <<id>> \o <<blank>>
      BY <1>3, <2>1
    <3>3. c \in Seq(S) /\ c # <<>> /\ c[1] = id /\ Tail(c) = <<blank>>
      BY <1>1, <3>1, <3>2, FirstIs
    <3>4. c = Append(<<id>>, blank)
      BY <3>2, PairIs
    <3>5. Without(<<id>>, V) = <<id>>
      <4>1. ToSet(<<id>>) \cap V = {}
        BY <1>2, <3>1
      <4>. QED
        BY <3>1, <4>1, WithoutSet
    <3>6. Without(Append(<<id>>, blank), V) = KeepOther(V, Without(<<id>>, V), blank)
      <4>1. \A s \in Seq(S) :
               Without(Append(s, blank), V) = KeepOther(V, Without(s, V), blank)
        BY <1>1, WithoutStep
      <4>. QED
        BY <3>1, <4>1, Zenon
    <3>7. Explode(c) = <<id>>
      BY <1>2, <1>4, <3>4, <3>5, <3>6 DEF KeepOther
    <3>8. <<id>> \o f = <<id>>
      BY <2>1
    <3>9. ToSet(f) = {}
      BY <2>1, EmptyIs
    <3>. QED
      BY <3>1, <3>3, <3>7, <3>8, <3>9
  <2>2. CASE f # <<>>
    <3>1. c = <<id>> \o f
      BY <1>3, <2>2
    <3>2. c \in Seq(Installed \cup Features) /\ c # <<>> /\ c[1] = id /\ Tail(c) = f
      <4>1. id \in Installed \cup Features /\ f \in Seq(Installed \cup Features)
        OBVIOUS
      <4>. QED
        BY <3>1, <4>1, FirstIs
    <3>3. Without(c, V) = c
      <4>1. ToSet(c) \in SUBSET (Installed \cup Features)
        BY <3>2, ToSetIn
      <4>2. ToSet(c) \cap V = {}
        BY <1>2, <4>1
      <4>. QED
        BY <3>2, <4>2, WithoutSet
    <3>4. blank \notin ToSet(f)
      BY <1>2, <1>6
    <3>5. c \in Seq(S)
      BY <1>1, <3>2
    <3>. QED
      BY <1>4, <3>1, <3>2, <3>3, <3>4, <3>5
  <2>. QED
    BY <2>1, <2>2
<1>8. c # Absent
  BY <1>5, <1>7, MarkersAssumption
<1>9. Head(<<id>> \o f) = id /\ Tail(<<id>> \o f) = f /\ <<id>> \o f # <<>>
  <2>1. id \in Installed \cup Features /\ f \in Seq(Installed \cup Features)
    OBVIOUS
  <2>. QED
    BY <2>1, FirstIs
<1>10. Copy(f, TRUE) = f
  BY CopyIs
<1>11. ConfigRead(c) = [errno |-> "EOK", id |-> id, features |-> f]
  BY <1>7, <1>8, <1>9, <1>10 DEF ConfigRead
<1>. QED
  BY <1>5, <1>7, <1>8, <1>11 DEF c, blank

LEMMA TypedWords ==
    /\ \A line \in CommandLines : line.words \in Seq(Typed)
    /\ Default = Absent \/ Default \in Seq(Typed)
<1>1. ASSUME NEW line \in CommandLines PROVE line.words \in Seq(Typed)
  <2>1. line.words \in Seq(STRING)
    BY LinesAssumption
  <2>2. line.words \in Seq(ToSet(line.words))
    BY <2>1, ToSetIn
  <2>3. ToSet(line.words) \subseteq Typed
    BY DEF Typed
  <2>. QED
    BY <2>2, <2>3
<1>2. ASSUME Default # Absent PROVE Default \in Seq(Typed)
  <2>1. Default \in Seq(STRING)
    BY <1>2, LinesAssumption
  <2>2. Default \in Seq(ToSet(Default))
    BY <2>1, ToSetIn
  <2>3. ToSet(Default) \subseteq Typed
    <3>1. Typed = (UNION {ToSet(line.words) : line \in CommandLines}) \cup ToSet(Default)
      BY <1>2 DEF Typed
    <3>. QED
      BY <3>1
  <2>. QED
    BY <2>2, <2>3
<1>. QED
  BY <1>1, <1>2

(* What select makes of a preset that there is.                            *)
LEMMA PresetIs ==
    ASSUME NEW id, NEW features, NEW preset, preset = ResolvePreset(id, features),
           preset.errno = "EOK"
    PROVE  /\ ConfigRead(Default).errno = "EOK"
           /\ preset.id = ConfigRead(Default).id
           /\ preset.features = AddAll(Copy(ConfigRead(Default).features, TRUE), features, TRUE)
<1>. DEFINE file == IF id = "@system-default" THEN Default ELSE Absent
            config == ConfigRead(file)
<1>1. config.errno = "EOK"
  BY DEF ResolvePreset
<1>2. file = Default
  BY <1>1, ConfigReadNothing
<1>3. config = [errno |-> "EOK", id |-> config.id, features |-> config.features]
  BY <1>1 DEF ConfigRead
<1>4. preset = [config EXCEPT !.features = AddAll(Copy(@, TRUE), features, TRUE)]
  BY <1>1 DEF ResolvePreset
<1>. HIDE DEF config, file
<1>5. preset.id = config.id /\ preset.features = AddAll(Copy(config.features, TRUE), features, TRUE)
  BY <1>3, <1>4
<1>. QED
  BY <1>1, <1>2, <1>5 DEF config

(* How a command that is to write has read its words.                      *)
Heard(line, given, popt) ==
    LET words == StripLogging(line.words)
        first == Head(popt.free)
    IN  /\ popt = Popt(OptionTable[line.name], words) /\ popt.errno = "EOK"
        /\ Free[line] = popt.free
        /\ given.options \in {popt.options, popt.options \cup {"preset"}}
        /\ line.name = "apply-changes" => given.features = <<>>
        /\ line.name \in {"enable-feature", "disable-feature"} =>
              popt.free # <<>> /\ given.id = first /\ given.features = <<>>
        /\ line.name = "select" =>
              /\ popt.free # <<>>
              /\ IF first \in PresetWords
                 THEN /\ ConfigRead(Default).errno = "EOK"
                      /\ given.id = ConfigRead(Default).id
                      /\ given.features = AddAll(Copy(ConfigRead(Default).features, TRUE),
                                                 LoopFeatures(words), TRUE)
                 ELSE given.id = first /\ given.features = LoopFeatures(words)

LEMMA RoutedIs ==
    ASSUME NEW line \in CommandLines, line.name \in NeedRoot, Routed[line].errno = "EOK"
    PROVE  /\ line.name = "opt-out" => Routed[line].features = <<>>
           /\ line.name # "opt-out" => \E popt : Heard(line, Routed[line], popt)
<1>. DEFINE given == Routed[line]
            words == StripLogging(line.words)
<1>1. given = Route(line)
  BY DEF Routed
<1>2. line.name \in {"select", "apply-changes", "enable-feature", "disable-feature", "opt-out"}
      /\ "select" \in DOMAIN OptionTable /\ "apply-changes" \in DOMAIN OptionTable
      /\ "enable-feature" \in DOMAIN OptionTable /\ "disable-feature" \in DOMAIN OptionTable
  BY DEF NeedRoot, OptionTable
<1>3. Refusal("EINVAL").errno = "EINVAL" /\ Refusal("EACCES").errno = "EACCES"
  BY DEF Refusal, Given
<1>4. line.name = "opt-out" => given.features = <<>>
  BY <1>1, <1>3 DEF Route, Deaf, Known, Given
<1>5. ASSUME line.name # "opt-out" PROVE \E popt : Heard(line, given, popt)
  <2>. DEFINE popt == Popt(OptionTable[line.name], words)
              first == IF popt.free = <<>> THEN Absent ELSE Head(popt.free)
              features == IF line.name \in TakesProfile THEN LoopFeatures(words) ELSE <<>>
              preset == ResolvePreset(first, features)
  <2>1. given = ReadWords(line.name, words)
    BY <1>1, <1>2, <1>3, <1>5 DEF Route, Deaf
  <2>2. given = IF popt.errno # "EOK" THEN Refusal(popt.errno)
        ELSE IF Len(popt.free) \notin FreeWords(line.name) THEN Refusal("EINVAL")
        ELSE IF line.name \in TakesProfile \cup {"list-features", "show"} /\ first \in PresetWords
             THEN IF preset.errno # "EOK" THEN Refusal(preset.errno)
                  ELSE Given("EOK", preset.id, preset.features, popt.options \cup {"preset"})
        ELSE Given("EOK", first, features, popt.options)
    BY <2>1 DEF ReadWords
  <2>3. Free[line] = popt.free
    BY <1>2, <1>5 DEF Free
  <2>4. \A errno : Refusal(errno).errno = errno
    BY DEF Refusal, Given
  <2>5. \A errno, id, fs, options : /\ Given(errno, id, fs, options).id = id
                                    /\ Given(errno, id, fs, options).features = fs
                                    /\ Given(errno, id, fs, options).options = options
    BY DEF Given
  <2>. HIDE DEF popt, first, features, preset, given
  <2>6. popt.errno = "EOK" /\ Len(popt.free) \in FreeWords(line.name)
    BY <2>2, <2>4 DEF given
  <2>7. line.name \in {"select", "enable-feature", "disable-feature"} => popt.free # <<>>
    <3>1. line.name \in {"select", "enable-feature", "disable-feature"} =>
             FreeWords(line.name) \in {Nat \ {0}, {1}}
      BY DEF FreeWords, TakesProfile
    <3>. QED
      BY <2>6, <3>1
  <2>8. CASE line.name # "select"
    <3>1. line.name \notin TakesProfile \cup {"list-features", "show"}
      BY <1>2, <1>5, <2>8 DEF TakesProfile
    <3>2. given.id = first /\ given.features = features /\ features = <<>>
          /\ given.options = popt.options
      BY <2>2, <2>5, <2>6, <3>1 DEF features
    <3>. QED
      BY <1>5, <2>3, <2>6, <2>7, <2>8, <3>2 DEF Heard, popt, first
  <2>9. CASE line.name = "select"
    <3>1. line.name \in TakesProfile /\ features = LoopFeatures(words) /\ first = Head(popt.free)
      BY <2>7, <2>9 DEF TakesProfile, features, first
    <3>2. CASE first \in PresetWords
      <4>1. preset.errno = "EOK" /\ given.id = preset.id /\ given.features = preset.features
            /\ given.options = popt.options \cup {"preset"}
        BY <2>2, <2>4, <2>5, <2>6, <3>1, <3>2 DEF given
      <4>2. /\ ConfigRead(Default).errno = "EOK"
            /\ preset.id = ConfigRead(Default).id
            /\ preset.features = AddAll(Copy(ConfigRead(Default).features, TRUE), features, TRUE)
        BY <4>1, PresetIs DEF preset
      <4>. QED
        BY <2>3, <2>6, <2>7, <2>9, <3>1, <3>2, <4>1, <4>2 DEF Heard, popt
    <3>3. CASE first \notin PresetWords
      <4>1. given.id = first /\ given.features = features /\ given.options = popt.options
        BY <2>2, <2>5, <2>6, <3>3
      <4>. QED
        BY <2>3, <2>6, <2>7, <2>9, <3>1, <3>3, <4>1 DEF Heard, popt
    <3>. QED
      BY <3>2, <3>3
  <2>. QED
    BY <2>8, <2>9
<1>. QED
  BY <1>4, <1>5

(* The features of a command, and the word of enable- and disable-feature. *)
LEMMA HeardTyped ==
    ASSUME NEW line \in CommandLines, line.name \in NeedRoot, Routed[line].errno = "EOK"
    PROVE  /\ Routed[line].features \in Seq(Features \cup Typed)
           /\ IsInjective(Routed[line].features)
           /\ line.name \in {"enable-feature", "disable-feature"} =>
                 Routed[line].id \in Typed /\ Routed[line].id = Head(Free[line])
<1>. DEFINE words == StripLogging(line.words)
            given == Routed[line]
            S == Features \cup Typed
<1>a. Typed \subseteq S
  OBVIOUS
<1>. HIDE DEF S
<1>1. words \in Seq(Typed)
  BY TypedWords, StripIs
<1>2. CASE line.name = "opt-out"
  <2>1. given.features = <<>>
    BY <1>2, RoutedIs
  <2>. QED
    BY <1>2, <2>1, EmptyIs DEF S
<1>3. CASE line.name # "opt-out"
  <2>1. PICK popt : Heard(line, given, popt)
    BY <1>3, RoutedIs
  <2>2. LoopFeatures(words) \in Seq(Typed) /\ IsInjective(LoopFeatures(words))
    BY <1>1, LoopTyped
  <2>. HIDE DEF words, given
  <2>3. popt.free \in Seq(Typed)
    <3>1. line.name \in DOMAIN OptionTable
      BY <1>3 DEF NeedRoot, OptionTable
    <3>2. Plain(OptionTable[line.name])
      BY <3>1, TablesArePlain
    <3>3. popt = Popt(OptionTable[line.name], words)
      BY <2>1 DEF Heard, words
    <3>. QED
      BY <1>1, <3>2, <3>3, PoptTyped
  <2>4. line.name \in {"enable-feature", "disable-feature"} =>
           given.id \in Typed /\ given.id = Head(Free[line])
    BY <2>1, <2>3 DEF Heard
  <2>5. given.features \in Seq(Typed) /\ IsInjective(given.features)
    <3>1. CASE line.name # "select"
      <4>1. given.features = <<>>
        BY <1>3, <2>1, <3>1 DEF Heard, NeedRoot
      <4>. QED
        BY <4>1, EmptyIs
    <3>2. CASE line.name = "select" /\ Head(popt.free) \notin PresetWords
      BY <2>1, <2>2, <3>2 DEF Heard, words
    <3>3. CASE line.name = "select" /\ Head(popt.free) \in PresetWords
      <4>. DEFINE default == ConfigRead(Default)
                  base == Copy(default.features, TRUE)
      <4>1. /\ default.errno = "EOK"
            /\ given.features = AddAll(base, LoopFeatures(words), TRUE)
        BY <2>1, <3>3 DEF Heard, words
      <4>2. default.features \in Seq(Typed)
        BY <4>1, TypedWords, ConfigReadIs
      <4>3. base \in Seq(Typed) /\ IsInjective(base)
        BY <4>2, CopyIs
      <4>. DEFINE loop == LoopFeatures(words)
      <4>. HIDE DEF base, default, loop
      <4>4. loop \in Seq(Typed)
        BY <2>2 DEF loop
      <4>5. AddAll(base, loop, TRUE) \in Seq(Typed) /\ IsInjective(AddAll(base, loop, TRUE))
        BY <4>3, <4>4, AddAllSet
      <4>. QED
        BY <4>1, <4>5 DEF loop
    <3>. QED
      BY <3>1, <3>2, <3>3
  <2>6. given.features \in Seq(S)
    BY <1>a, <2>5
  <2>. QED
    BY <2>4, <2>5, <2>6 DEF given, S
<1>. QED
  BY <1>2, <1>3

LEMMA PresetsAreProfiles == PresetWords \cap DashWords = {}
<1>1. \A c \in DOMAIN OptionTable :
         OptionTable[c] \in {BackupWords \cup QuietWords \cup ForceWords,
                            BackupWords \cup {<<"--upgrade", "upgrade">>},
                            BackupWords \cup QuietWords, BackupWords,
                            {<<"-r", "raw">>, <<"--raw", "raw">>}, PrintWords, {}}
  BY DEF OptionTable
<1>2. \A e \in BackupWords \cup QuietWords \cup ForceWords \cup PrintWords
             \cup {<<"--upgrade", "upgrade">>, <<"-r", "raw">>, <<"--raw", "raw">>} :
         e[1] \notin PresetWords
  BY DEF BackupWords, QuietWords, ForceWords, PrintWords, PresetWords
<1>3. ASSUME NEW c \in DOMAIN OptionTable, NEW e \in OptionTable[c]
      PROVE  e[1] \notin PresetWords
  <2>1. e \in BackupWords \cup QuietWords \cup ForceWords \cup PrintWords
              \cup {<<"--upgrade", "upgrade">>, <<"-r", "raw">>, <<"--raw", "raw">>}
    BY <1>1
  <2>. QED
    BY <1>2, <2>1
<1>4. PresetWords \cap (HelpWords \cup LoggingWords \cup {"-", "--", "--unknown"}) = {}
  BY DEF PresetWords, HelpWords, LoggingWords
<1>. QED
  BY <1>3, <1>4 DEF DashWords

(* The free words are words of the command line.                           *)
LEMMA HeardWords ==
    ASSUME NEW line \in CommandLines, line.name \in NeedRoot, line.name # "opt-out",
           NEW given, NEW popt, Heard(line, given, popt)
    PROVE  popt.free \in Seq(Typed) /\ Free[line] = popt.free
<1>1. StripLogging(line.words) \in Seq(Typed)
  BY TypedWords, StripIs
<1>2. line.name \in DOMAIN OptionTable
  BY DEF NeedRoot, OptionTable
<1>3. Plain(OptionTable[line.name])
  BY <1>2, TablesArePlain
<1>4. popt = Popt(OptionTable[line.name], StripLogging(line.words)) /\ Free[line] = popt.free
  BY DEF Heard
<1>. QED
  BY <1>1, <1>3, <1>4, PoptTyped

(* The profile and the features that select works on are those its user    *)
(* means.                                                                  *)
LEMMA SelectMeans ==
    ASSUME NEW line \in CommandLines, line.name = "select", Routed[line].errno = "EOK",
           ~BackupAfterEnd(line.words), Routed[line].id \in Installed
    PROVE  Meant(line) = [id |-> Routed[line].id, features |-> ToSet(Routed[line].features)]
<1>. DEFINE words == StripLogging(line.words)
            given == Routed[line]
            default == ConfigRead(Default)
            loop == LoopFeatures(words)
            told == ToSet(Tail(Free[line])) \ DashWords
<1>1. line.name \in NeedRoot /\ line.name # "opt-out"
  BY DEF NeedRoot
<1>2. PICK popt : Heard(line, given, popt)
  BY <1>1, RoutedIs
<1>3. words \in Seq(Typed) /\ Orderly(words)
  <2>1. line.words \in Seq(Typed)
    BY TypedWords
  <2>2. Orderly(line.words)
    BY <2>1, OrderlyIs
  <2>. QED
    BY <2>1, <2>2, StripIs
<1>4. /\ popt.free \in Seq(Typed) /\ popt.free # <<>> /\ Free[line] = popt.free
      /\ popt.errno = "EOK" /\ popt = Popt(OptionTable["select"], words)
  BY <1>1, <1>2, HeardWords DEF Heard
<1>. DEFINE first == Head(popt.free)
<1>5. Meant(line) = IF first \in PresetWords
                    THEN [id |-> default.id, features |-> ToSet(default.features) \cup told]
                    ELSE [id |-> first, features |-> told]
  BY <1>4 DEF Meant
<1>6. IF first \in PresetWords
      THEN /\ default.errno = "EOK" /\ given.id = default.id
           /\ given.features = AddAll(Copy(default.features, TRUE), loop, TRUE)
      ELSE given.id = first /\ given.features = loop
  BY <1>2 DEF Heard
<1>. HIDE DEF words, default, loop, told, given
<1>7. first \notin DashWords
  BY <1>6, PresetsAreProfiles, NamesAssumption DEF given
<1>8. ToSet(loop) = told /\ loop \in Seq(Typed)
  <2>1. loop = Copy(Without(Tail(popt.free), DashWords), TRUE)
    BY <1>3, <1>4, <1>7, LoopReadsFeatures DEF loop
  <2>. DEFINE rest == Tail(popt.free)
              kept == Without(rest, DashWords)
  <2>2. rest \in Seq(Typed)
    BY <1>4
  <2>. HIDE DEF rest
  <2>3. kept \in Seq(Typed) /\ ToSet(kept) = ToSet(rest) \ DashWords
    BY <2>2, WithoutIs, WithoutSet
  <2>. HIDE DEF kept
  <2>4. ToSet(Copy(kept, TRUE)) = ToSet(kept) /\ Copy(kept, TRUE) \in Seq(Typed)
    BY <2>3, CopyIs
  <2>. QED
    BY <1>4, <2>1, <2>3, <2>4 DEF kept, rest, told
<1>9. CASE first \in PresetWords
  <2>1. default.features \in Seq(Typed) /\ IsInjective(default.features)
    BY <1>6, <1>9, TypedWords, ConfigReadIs DEF default
  <2>. DEFINE base == Copy(default.features, TRUE)
  <2>2. base \in Seq(Typed) /\ IsInjective(base) /\ ToSet(base) = ToSet(default.features)
    BY <2>1, CopyIs
  <2>. HIDE DEF base
  <2>a. loop \in Seq(Typed) /\ base \in Seq(Typed) /\ IsInjective(base)
    BY <1>8, <2>2
  <2>3. /\ AddAll(base, loop, TRUE) \in Seq(Typed)
        /\ ToSet(AddAll(base, loop, TRUE)) = ToSet(base) \cup ToSet(loop)
        /\ IsInjective(AddAll(base, loop, TRUE))
    BY <2>a, AddAllSet
  <2>4. given.features = AddAll(base, loop, TRUE) /\ given.id = default.id
    BY <1>6, <1>9 DEF base
  <2>. QED
    BY <1>5, <1>8, <1>9, <2>2, <2>3, <2>4 DEF given
<1>10. CASE first \notin PresetWords
  BY <1>5, <1>6, <1>8, <1>10 DEF given
<1>. QED
  BY <1>9, <1>10

(* What a user means is a profile and features that can be named.          *)
LEMMA MeantTyped ==
    ASSUME NEW line \in CommandLines, line.name \in NeedRoot, Routed[line].errno = "EOK",
           asked \in Wishes, pkg \in Versions
    PROVE  Meant(line) \in Wishes
<1>1. Goals \cup {Absent, Unknown} = Wishes
  BY DEF Wishes
<1>2. CASE line.name = "opt-out"
  BY <1>1, <1>2 DEF Meant
<1>3. CASE line.name # "opt-out"
  <2>. DEFINE told == ToSet(Tail(Free[line])) \ DashWords
              first == Head(Free[line])
              default == ConfigRead(Default)
  <2>1. PICK popt : Heard(line, Routed[line], popt)
    BY <1>3, RoutedIs
  <2>2. popt.free \in Seq(Typed) /\ Free[line] = popt.free
    BY <1>3, <2>1, HeardWords
  <2>3. line.name \in {"select", "apply-changes", "enable-feature", "disable-feature"}
    BY <1>3 DEF NeedRoot
  <2>4. CASE line.name = "select"
    <3>1. popt.free # <<>>
      BY <2>1, <2>4 DEF Heard
    <3>2. first \in Typed /\ Tail(Free[line]) \in Seq(Typed)
      BY <2>2, <3>1
    <3>3. told \subseteq Typed
      <4>1. ToSet(Tail(Free[line])) \in SUBSET Typed
        BY <3>2, ToSetIn
      <4>. QED
        BY <4>1
    <3>4. first \in PresetWords => default.id \in Typed /\ ToSet(default.features) \subseteq Typed
      <4>. SUFFICES ASSUME first \in PresetWords
                    PROVE  default.id \in Typed /\ ToSet(default.features) \subseteq Typed
        OBVIOUS
      <4>1. default.errno = "EOK"
        BY <2>1, <2>2, <2>4 DEF Heard
      <4>2. default.id \in Typed /\ default.features \in Seq(Typed)
        BY <4>1, TypedWords, ConfigReadIs
      <4>3. ToSet(default.features) \in SUBSET Typed
        BY <4>2, ToSetIn
      <4>. QED
        BY <4>2, <4>3
    <3>5. Meant(line) = IF first \in PresetWords
                        THEN [id |-> default.id, features |-> ToSet(default.features) \cup told]
                        ELSE [id |-> first, features |-> told]
      BY <2>4 DEF Meant
    <3>. HIDE DEF told, first, default
    <3>6. Meant(line) \in Goals
      BY <3>2, <3>3, <3>4, <3>5 DEF Goals
    <3>. QED
      BY <1>1, <3>6
  <2>5. CASE line.name # "select"
    <3>1. CASE asked \in {Absent, Unknown}
      <4>1. Meant(line) = Unknown
        BY <2>3, <2>5, <3>1 DEF Meant
      <4>. QED
        BY <1>1, <4>1
    <3>2. CASE asked \notin {Absent, Unknown}
      <4>1. asked \in Goals
        BY <1>1, <3>2
      <4>2. /\ asked.features \in SUBSET (Features \cup Typed) /\ asked.id \in Installed \cup Typed
        BY <4>1 DEF Goals
      <4>3. ASSUME NEW fs \in SUBSET (Features \cup Typed)
            PROVE  [asked EXCEPT !.features = fs] \in Goals
        BY <4>1 DEF Goals
      <4>4. CASE line.name = "enable-feature"
        <5>1. first \in Typed
          BY <2>1, <2>2, <4>4 DEF Heard
        <5>2. Meant(line) = [asked EXCEPT !.features = asked.features \cup {first}]
          BY <3>2, <4>4 DEF Meant
        <5>. HIDE DEF first
        <5>3. asked.features \cup {first} \in SUBSET (Features \cup Typed)
          BY <4>2, <5>1
        <5>. QED
          BY <1>1, <4>3, <5>2, <5>3
      <4>5. CASE line.name = "disable-feature"
        <5>1. Meant(line) = [asked EXCEPT !.features = asked.features \ {first}]
          BY <3>2, <4>5 DEF Meant
        <5>. HIDE DEF first
        <5>2. asked.features \ {first} \in SUBSET (Features \cup Typed)
          BY <4>2
        <5>. QED
          BY <1>1, <4>3, <5>1, <5>2
      <4>6. CASE line.name = "apply-changes"
        <5>1. Meant(line) = [asked EXCEPT !.features = asked.features \cap Supported[pkg][asked.id]]
          BY <3>2, <4>6 DEF Meant
        <5>2. asked.features \cap Supported[pkg][asked.id] \in SUBSET (Features \cup Typed)
          BY <4>2
        <5>. QED
          BY <1>1, <4>3, <5>1, <5>2
      <4>. QED
        BY <2>3, <2>5, <4>4, <4>5, <4>6
    <3>. QED
      BY <3>1, <3>2
  <2>. QED
    BY <2>4, <2>5
<1>. QED
  BY <1>2, <1>3

-----------------------------------------------------------------------------
(* What string_array_del_value leaves of an array.                         *)

(* What the loop of string_array_del_value has kept of the first n strings.*)
KeptSoFar(array, value, m, t, n) ==
    /\ IsInjective(t) /\ ToSet(t) = {array[i] : i \in 1..n} \ {value}
    /\ n <= m => Len(t) = n
    /\ \A i \in 1..m : i <= n => i <= Len(t) /\ t[i] = array[i]

LEMMA KeptStep ==
    ASSUME NEW S, NEW array \in Seq(S), NEW value, IsInjective(array),
           NEW m \in 0..Len(array), \A i \in 1..m : array[i] # value,
           NEW n \in 1..Len(array), NEW t \in Seq(S), KeptSoFar(array, value, m, t, n - 1),
           NEW u, u = IF array[n] = value THEN t ELSE Append(t, array[n])
    PROVE  KeptSoFar(array, value, m, u, n)
<1>. DEFINE x == array[n]
            before == {array[i] : i \in 1..(n - 1)}
<1>1. /\ Len(array) \in Nat /\ DOMAIN array = 1..Len(array) /\ n - 1 \in Nat /\ x \in S
  OBVIOUS
<1>2. /\ IsInjective(t) /\ ToSet(t) = before \ {value}
      /\ n - 1 <= m => Len(t) = n - 1
      /\ \A i \in 1..m : i <= n - 1 => i <= Len(t) /\ t[i] = array[i]
  BY DEF KeptSoFar
<1>3. {array[i] : i \in 1..n} = before \cup {x}
  <2>1. 1..n = (1..(n - 1)) \cup {n}
    BY <1>1
  <2>. QED
    BY <2>1
<1>4. x \notin before
  BY <1>1 DEF IsInjective
<1>. HIDE DEF before
<1>5. CASE x = value
  <2>1. u = t /\ ~(n <= m)
    BY <1>1, <1>5
  <2>2. \A i \in 1..m : i <= n => i <= n - 1
    BY <1>1, <2>1
  <2>. QED
    BY <1>2, <1>3, <1>5, <2>1, <2>2 DEF KeptSoFar
<1>6. CASE x # value
  <2>1. u = Append(t, x)
    BY <1>6
  <2>. HIDE DEF x
  <2>2. /\ IsInjective(u) /\ ToSet(u) = ToSet(t) \cup {x}
    BY <1>2, <1>4, <2>1, ToSetAppend, InjectiveAppend
  <2>3. Len(t) \in Nat /\ Len(u) = Len(t) + 1 /\ u[Len(t) + 1] = x /\ \A i \in 1..Len(t) : u[i] = t[i]
    BY <1>1, <2>1
  <2>4. n <= m => Len(t) = n - 1 /\ Len(u) = n
    BY <1>1, <1>2, <2>3
  <2>5. ASSUME NEW i \in 1..m, i <= n PROVE i <= Len(u) /\ u[i] = array[i]
    <3>1. CASE i = n
      BY <1>1, <2>3, <2>4, <2>5, <3>1 DEF x
    <3>2. CASE i # n
      <4>1. i <= n - 1
        BY <1>1, <2>5, <3>2
      <4>2. i <= Len(t) /\ t[i] = array[i] /\ i \in 1..Len(t)
        BY <1>2, <2>3, <4>1
      <4>. QED
        BY <2>3, <4>2
    <3>. QED
      BY <3>1, <3>2
  <2>6. ToSet(u) = {array[i] : i \in 1..n} \ {value}
    BY <1>2, <1>3, <1>6, <2>2
  <2>. QED
    BY <2>2, <2>4, <2>5, <2>6 DEF KeptSoFar
<1>. QED
  BY <1>5, <1>6

(* A value that is freed where it stands, and nowhere else, is taken out,  *)
(* and what stands before it stays in its place.                           *)
LEMMA DelValueIs ==
    ASSUME NEW S, NEW array \in Seq(S), NEW value, NEW owner, NEW stale, IsInjective(array),
           \A i \in 1..Len(array) :
              array[i] = (IF owner # 0 /\ i > owner THEN stale ELSE value) <=> array[i] = value,
           NEW m \in 0..Len(array), \A i \in 1..m : array[i] # value
    PROVE  LET rest == DelValue(array, value, owner, stale)
           IN  /\ rest \in Seq(S) /\ IsInjective(rest) /\ ToSet(rest) = ToSet(array) \ {value}
               /\ \A i \in 1..m : i <= Len(rest) /\ rest[i] = array[i]
<1>. DEFINE k == <<"move", array, value, owner, stale>>
            items == [i \in DOMAIN array |-> i]
            N == Len(array)
            T == 1..N
            A == Seq(S)
            e == <<>>
            rest == DelValue(array, value, owner, stale)
<1>1. N \in Nat /\ DOMAIN array = 1..N /\ \A i \in 1..N : array[i] \in S
  OBVIOUS
<1>2. items \in Seq(T) /\ Len(items) = N /\ \A i \in 1..N : items[i] = i
  BY <1>1
<1>3. \A a, v : Turn(k, a, v) = MoveValue(array, value, owner, stale, a, v)
  BY DEF Turn
<1>4. ASSUME NEW t, NEW n \in 1..N
      PROVE  MoveValue(array, value, owner, stale, t, n)
                = IF array[n] = value THEN t ELSE Append(t, array[n])
  BY DEF MoveValue
<1>5. e \in A
  OBVIOUS
<1>6. rest = Fold(k, e, items)
  BY DelValueFold DEF k, e, items
<1>. HIDE DEF k, items, e, rest, T, A, N
<1>7. \A a \in A, v \in T : Turn(k, a, v) \in A
  <2>. SUFFICES ASSUME NEW a \in A, NEW v \in T PROVE Turn(k, a, v) \in A
    OBVIOUS
  <2>1. Turn(k, a, v) = IF array[v] = value THEN a ELSE Append(a, array[v])
    BY <1>3, <1>4 DEF T
  <2>2. array[v] \in S
    BY <1>1 DEF T
  <2>. QED
    BY <2>1, <2>2 DEF A
<1>8. PICK f : Stages(f, A, k, e, items)
  BY <1>2, <1>5, <1>7, FoldIs
<1>9. /\ f \in [0..N -> A] /\ f[0] = e /\ rest = f[N]
      /\ \A n \in 1..N : f[n] = Turn(k, f[n - 1], items[n])
  BY <1>2, <1>6, <1>8 DEF Stages
<1>. DEFINE R == {n \in 0..N : KeptSoFar(array, value, m, f[n], n)}
<1>10. 0 \in R
  <2>1. IsInjective(e) /\ ToSet(e) = {} /\ Len(e) = 0
    BY EmptyIs DEF e
  <2>2. {array[i] : i \in 1..0} = {} /\ \A i \in 1..m : ~(i <= 0)
    OBVIOUS
  <2>3. KeptSoFar(array, value, m, e, 0)
    BY <2>1, <2>2 DEF KeptSoFar
  <2>. QED
    BY <1>1, <1>9, <2>3
<1>11. ASSUME NEW n \in 1..N, n - 1 \in R PROVE n \in R
  <2>1. n - 1 \in 0..N /\ n \in 0..N
    BY <1>1
  <2>2. f[n - 1] \in Seq(S) /\ KeptSoFar(array, value, m, f[n - 1], n - 1)
    BY <1>9, <1>11, <2>1 DEF A
  <2>3. f[n] = Turn(k, f[n - 1], n)
    BY <1>2, <1>9
  <2>4. f[n] = IF array[n] = value THEN f[n - 1] ELSE Append(f[n - 1], array[n])
    <3>. DEFINE t == f[n - 1]
    <3>1. Turn(k, t, n) = MoveValue(array, value, owner, stale, t, n)
      BY <1>3
    <3>2. n \in 1..N
      OBVIOUS
    <3>. HIDE DEF t
    <3>3. MoveValue(array, value, owner, stale, t, n)
             = IF array[n] = value THEN t ELSE Append(t, array[n])
      BY <1>4, <3>2
    <3>4. Turn(k, t, n) = IF array[n] = value THEN t ELSE Append(t, array[n])
      BY <3>1, <3>3
    <3>. QED
      BY <2>3, <3>4 DEF t
  <2>. HIDE DEF R
  <2>5. KeptSoFar(array, value, m, f[n], n)
    <3>. DEFINE t == f[n - 1]
                u == f[n]
    <3>1. t \in Seq(S) /\ KeptSoFar(array, value, m, t, n - 1)
      BY <2>2
    <3>2. u = IF array[n] = value THEN t ELSE Append(t, array[n])
      BY <2>4
    <3>3. n \in 1..Len(array)
      BY DEF N
    <3>. HIDE DEF t, u
    <3>4. KeptSoFar(array, value, m, u, n)
      BY <3>1, <3>2, <3>3, KeptStep
    <3>. QED
      BY <3>4 DEF u
  <2>. QED
    BY <2>1, <2>5 DEF R
<1>. HIDE DEF R
<1>12. N \in R
  BY <1>1, <1>10, <1>11, InductionUpTo
<1>13. rest \in Seq(S) /\ KeptSoFar(array, value, m, rest, N)
  BY <1>1, <1>9, <1>12 DEF R, A
<1>14. ToSet(array) = {array[i] : i \in 1..N} /\ \A i \in 1..m : i <= N
  BY <1>1 DEF ToSet, N
<1>15. /\ rest \in Seq(S) /\ IsInjective(rest) /\ ToSet(rest) = ToSet(array) \ {value}
       /\ \A i \in 1..m : i <= Len(rest) /\ rest[i] = array[i]
  BY <1>13, <1>14 DEF KeptSoFar
<1>. QED
  BY <1>15 DEF rest

-----------------------------------------------------------------------------
(* Where a command is, what it saved, and where the name in /etc leads.    *)

USE DEF At, Goto

(* The places before the backup, from the backup to the end, of opt-out.   *)
Early  == {"current", "profile", "backup"}
Reading == {"enable", "disable", "apply", "trim", "activate", "generate"}
Writing == {"truncate", "record", "unlink", "symlink", "checksum"}
OptingOut == {"copy", "remove conf", "remove files"}

Savers == {"select", "apply-changes", "enable-feature", "disable-feature"}

Fields == {"line", "id", "features", "word", "options", "at", "version", "alone",
           "wrote", "meant", "before"}

(* A command that runs is where its name leads, and what it is to write is *)
(* known before it writes.                                                 *)
Placed(p) ==
    LET j == job[p] IN
    /\ DOMAIN j = Fields /\ j.alone \in BOOLEAN /\ j.wrote \in BOOLEAN
    /\ pc[p] = "current" => j.line.name = "enable-feature"
    /\ pc[p] = "profile" => j.line.name \in {"select", "enable-feature"}
    /\ pc[p] = "backup"  => j.line.name \in Savers
    /\ pc[p] \in OptingOut => j.line.name = "opt-out"
    /\ pc[p] = "generate" =>
          [id |-> j.id, features |-> ToSet(j.features), version |-> j.version] \in Rendered

CInv ==
    /\ pc \in [Procs -> Labels] /\ DOMAIN job = Procs
    /\ gen \in Rendered \cup {Absent} /\ name \in Rendered \cup {Own, Absent, Link}
    /\ pkg \in Versions /\ overlap \in BOOLEAN
    /\ \A p \in Procs : ~At(p, "idle") => Placed(p)

(* While no two commands have met, the one that runs finds the generated   *)
(* file that it has written, and the name that it has copied.              *)
DInv ==
    ~overlap =>
        /\ \A p, q \in Procs : ~At(p, "idle") /\ ~At(q, "idle") => p = q
        /\ ~(name = Link /\ gen = Absent)
        /\ \A p \in Procs :
              /\ pc[p] \in Writing => gen # Absent
              /\ pc[p] \in {"remove conf", "remove files"} => name # Link

(* A command that is alone finds the system as it was until it has made    *)
(* the backup, and has the backup from then on.                            *)
Safe(p) ==
    LET j == job[p] IN
    /\ \A q \in Procs \ {p} : At(q, "idle")
    /\ pc[p] \in Early => ~j.wrote /\ Snapshot = j.before
    /\ pc[p] \in Reading \cup Writing /\ AsksBackup(j.options) => saved = j.before

BInv == \A p \in Procs : ~At(p, "idle") /\ job[p].alone => Safe(p)

(* The options of a command are those of its words.                        *)
Told(p) ==
    LET j == job[p] IN
    /\ j.line \in CommandLines /\ Routed[j.line].errno = "EOK" /\ j.line.name \in NeedRoot
    /\ j.options = Routed[j.line].options

OInv == \A p \in Procs : ~At(p, "idle") => Told(p)

-----------------------------------------------------------------------------

LEMMA CallsAre ==
    /\ Calls["select"] = <<"profile", "backup", "activate">>
    /\ Calls["apply-changes"] = <<"backup", "apply">>
    /\ Calls["enable-feature"] = <<"current", "profile", "backup", "enable">>
    /\ Calls["disable-feature"] = <<"backup", "disable">>
    /\ Calls["opt-out"] = <<"copy">>
BY DEF Calls, Select, Apply, Enable, Disable, Uninstall, NeedRoot

(* What comes after the backup.                                            *)
Leads(command, label) ==
    \/ command = "select"          /\ label = "activate"
    \/ command = "apply-changes"   /\ label = "apply"
    \/ command = "enable-feature"  /\ label = "enable"
    \/ command = "disable-feature" /\ label = "disable"

LEMMA FollowingIs ==
    ASSUME NEW p \in Procs, pc \in [Procs -> Labels], Following(p)
    PROVE  /\ At(p, "profile") /\ job[p].line.name \in {"select", "enable-feature"}
                => pc' = [pc EXCEPT ![p] = "backup"]
           /\ At(p, "backup") /\ job[p].line.name \in Savers
                => \E label \in {"activate", "apply", "enable", "disable"} :
                       Leads(job[p].line.name, label) /\ pc' = [pc EXCEPT ![p] = label]
<1>1. ASSUME NEW calls, NEW n \in Nat, NEW label, calls = Calls[job[p].line.name],
             n \in 1..Len(calls), calls[n] = pc[p], calls[1 + n] = label,
             \A i \in 1..Len(calls) : calls[i] = pc[p] => i = n
      PROVE  pc' = [pc EXCEPT ![p] = label]
  <2>1. {i \in 1..Len(calls) : At(p, calls[i])} = {n}
    BY <1>1
  <2>2. Min({n}) = n
    BY <1>1 DEF Min
  <2>3. SelectInSeq(calls, LAMBDA call : At(p, call)) = n
    BY <1>1, <2>1, <2>2 DEF SelectInSeq
  <2>. QED
    BY <1>1, <2>3 DEF Following
<1>2. ASSUME At(p, "profile"), job[p].line.name = "select"
      PROVE  pc' = [pc EXCEPT ![p] = "backup"]
  <2>. DEFINE s == <<"profile", "backup", "activate">>
  <2>1. s = Calls[job[p].line.name]
    BY <1>2, CallsAre
  <2>2. /\ 1 \in 1..Len(s) /\ s[1] = pc[p] /\ s[1 + 1] = "backup"
        /\ \A i \in 1..Len(s) : s[i] = pc[p] => i = 1
    BY <1>2
  <2>. HIDE DEF s
  <2>. QED
    BY <1>1, <2>1, <2>2, SMTT(30)
<1>3. ASSUME At(p, "profile"), job[p].line.name = "enable-feature"
      PROVE  pc' = [pc EXCEPT ![p] = "backup"]
  <2>. DEFINE s == <<"current", "profile", "backup", "enable">>
  <2>1. s = Calls[job[p].line.name]
    BY <1>3, CallsAre
  <2>2. /\ 2 \in 1..Len(s) /\ s[2] = pc[p] /\ s[1 + 2] = "backup"
        /\ \A i \in 1..Len(s) : s[i] = pc[p] => i = 2
    BY <1>3
  <2>. HIDE DEF s
  <2>. QED
    BY <1>1, <2>1, <2>2, SMTT(30)
<1>4. ASSUME At(p, "backup"), job[p].line.name = "select"
      PROVE  pc' = [pc EXCEPT ![p] = "activate"]
  <2>. DEFINE s == <<"profile", "backup", "activate">>
  <2>1. s = Calls[job[p].line.name]
    BY <1>4, CallsAre
  <2>2. /\ 2 \in 1..Len(s) /\ s[2] = pc[p] /\ s[1 + 2] = "activate"
        /\ \A i \in 1..Len(s) : s[i] = pc[p] => i = 2
    BY <1>4
  <2>. HIDE DEF s
  <2>. QED
    BY <1>1, <2>1, <2>2, SMTT(30)
<1>5. ASSUME At(p, "backup"), job[p].line.name = "apply-changes"
      PROVE  pc' = [pc EXCEPT ![p] = "apply"]
  <2>. DEFINE s == <<"backup", "apply">>
  <2>1. s = Calls[job[p].line.name]
    BY <1>5, CallsAre
  <2>2. /\ 1 \in 1..Len(s) /\ s[1] = pc[p] /\ s[1 + 1] = "apply"
        /\ \A i \in 1..Len(s) : s[i] = pc[p] => i = 1
    BY <1>5
  <2>. HIDE DEF s
  <2>. QED
    BY <1>1, <2>1, <2>2, SMTT(30)
<1>6. ASSUME At(p, "backup"), job[p].line.name = "enable-feature"
      PROVE  pc' = [pc EXCEPT ![p] = "enable"]
  <2>. DEFINE s == <<"current", "profile", "backup", "enable">>
  <2>1. s = Calls[job[p].line.name]
    BY <1>6, CallsAre
  <2>2. /\ 3 \in 1..Len(s) /\ s[3] = pc[p] /\ s[1 + 3] = "enable"
        /\ \A i \in 1..Len(s) : s[i] = pc[p] => i = 3
    BY <1>6
  <2>. HIDE DEF s
  <2>. QED
    BY <1>1, <2>1, <2>2, SMTT(30)
<1>7. ASSUME At(p, "backup"), job[p].line.name = "disable-feature"
      PROVE  pc' = [pc EXCEPT ![p] = "disable"]
  <2>. DEFINE s == <<"backup", "disable">>
  <2>1. s = Calls[job[p].line.name]
    BY <1>7, CallsAre
  <2>2. /\ 1 \in 1..Len(s) /\ s[1] = pc[p] /\ s[1 + 1] = "disable"
        /\ \A i \in 1..Len(s) : s[i] = pc[p] => i = 1
    BY <1>7
  <2>. HIDE DEF s
  <2>. QED
    BY <1>1, <2>1, <2>2, SMTT(30)
<1>. QED
  BY <1>2, <1>3, <1>4, <1>5, <1>6, <1>7 DEF Savers, Leads
-----------------------------------------------------------------------------
(* What the steps make of a command.                                       *)

Moves(p) ==
    /\ pc' \in [Procs -> Labels] /\ DOMAIN job' = Procs
    /\ \A q \in Procs \ {p} : pc'[q] = pc[q] /\ job'[q] = job[q]

(* The same command goes on.                                               *)
Keeps(j, k) ==
    /\ DOMAIN k = Fields
    /\ k.line = j.line /\ k.options = j.options /\ k.alone = j.alone /\ k.before = j.before
    /\ k.meant = j.meant

LEMMA GoIs ==
    ASSUME CInv, NEW p \in Procs, NEW label \in Labels, NEW j, Go(p, label, j)
    PROVE  Moves(p) /\ pc'[p] = label /\ job'[p] = j
BY DEF CInv, Go, Moves

LEMMA EndIs ==
    ASSUME CInv, NEW p \in Procs, NEW errno, End(p, errno)
    PROVE  Moves(p) /\ pc'[p] = "idle"
BY DEF CInv, End, Moves, Labels

LEMMA WriteIs ==
    ASSUME CInv, NEW p \in Procs, ~At(p, "idle"), NEW label \in Labels, Write(p, label)
    PROVE  /\ Moves(p) /\ pc'[p] = label /\ Keeps(job[p], job'[p]) /\ job'[p].wrote \in BOOLEAN
<1>. DEFINE j == [job[p] EXCEPT !.wrote = @ \/ disk' # disk]
<1>1. DOMAIN job[p] = Fields
  BY DEF CInv, Placed
<1>2. Go(p, label, j)
  BY DEF Write
<1>3. Keeps(job[p], j) /\ j.wrote \in BOOLEAN
  BY <1>1 DEF Keeps, Fields
<1>. HIDE DEF j
<1>. QED
  BY <1>2, <1>3, GoIs

LEMMA UseIs ==
    ASSUME CInv, NEW p \in Procs, ~At(p, "idle"), NEW label \in Labels, NEW config, NEW features,
           Use(p, label, config, features)
    PROVE  /\ Moves(p) /\ pc'[p] = label /\ Keeps(job[p], job'[p])
           /\ job'[p].wrote = job[p].wrote
<1>. DEFINE j == [job[p] EXCEPT !.id = config.id, !.features = features, !.version = pkg]
<1>1. DOMAIN job[p] = Fields
  BY DEF CInv, Placed
<1>2. Go(p, label, j)
  BY DEF Use
<1>3. Keeps(job[p], j) /\ j.wrote = job[p].wrote
  BY <1>1 DEF Keeps, Fields
<1>. HIDE DEF j
<1>. QED
  BY <1>2, <1>3, GoIs

(* The calls that only read end the command or lead on towards the writes. *)
ReadsOn(p) ==
    \/ Current(p) \/ Profile(p) \/ FeatureEnable(p) \/ FeatureDisable(p) \/ ApplyChanges(p)
    \/ Trim(p) \/ Activate(p)

LEMMA ReadsOnIs ==
    ASSUME CInv, NEW p \in Procs, ReadsOn(p)
    PROVE  /\ UNCHANGED <<conf, gen, name, sum, saved, pkg, overlap>> /\ Moves(p)
           /\ ~At(p, "idle")
           /\ \/ pc'[p] = "idle"
              \/ /\ Keeps(job[p], job'[p]) /\ job'[p].wrote = job[p].wrote
                 /\ \/ pc[p] = "current" /\ pc'[p] = "profile"
                    \/ pc[p] = "profile" /\ pc'[p] = "backup"
                    \/ pc[p] \in Reading /\ pc'[p] \in Reading
                 /\ pc'[p] = "generate" =>
                       [id |-> job'[p].id, features |-> ToSet(job'[p].features),
                        version |-> job'[p].version] \in Rendered
<1>a. UNCHANGED <<conf, gen, name, sum, saved, pkg, overlap>> /\ ~At(p, "idle")
  BY DEF ReadsOn, Current, Profile, FeatureEnable, FeatureDisable, ApplyChanges, Trim, Activate,
         Reads, Frame, disk
<1>b. Placed(p) /\ DOMAIN job[p] = Fields /\ pc \in [Procs -> Labels] /\ DOMAIN job = Procs
  BY <1>a DEF CInv, Placed
<1>1. CASE Current(p)
  <2>1. CASE End(p, ConfigRead(conf).errno)
    BY <1>a, <2>1, EndIs
  <2>2. CASE Go(p, "profile", [job[p] EXCEPT !.id = ConfigRead(conf).id])
    <3>. DEFINE j == [job[p] EXCEPT !.id = ConfigRead(conf).id]
    <3>1. Keeps(job[p], j) /\ j.wrote = job[p].wrote
      BY <1>b DEF Keeps, Fields
    <3>. HIDE DEF j
    <3>2. Go(p, "profile", j)
      BY <2>2 DEF j
    <3>. QED
      BY <1>a, <1>1, <3>1, <3>2, GoIs DEF Current, Labels
  <2>. QED
    BY <1>1, <2>1, <2>2 DEF Current
<1>2. CASE Profile(p)
  <2>1. CASE End(p, LookUp(job[p].id))
    BY <1>a, <2>1, EndIs
  <2>2. CASE Following(p) /\ job' = job
    <3>1. pc' = [pc EXCEPT ![p] = "backup"]
      BY <1>b, <1>2, <2>2, FollowingIs DEF Profile, Placed
    <3>. QED
      BY <1>a, <1>b, <1>2, <2>2, <3>1 DEF Profile, Moves, Keeps, Labels
  <2>. QED
    BY <1>2, <2>1, <2>2 DEF Profile
<1>3. CASE FeatureEnable(p) \/ FeatureDisable(p) \/ ApplyChanges(p)
  <2>1. ASSUME NEW errno, End(p, errno) PROVE Moves(p) /\ pc'[p] = "idle"
    BY <2>1, EndIs
  <2>2. ASSUME NEW config, NEW features, NEW label \in {"activate", "trim"},
               Use(p, label, config, features)
        PROVE  Moves(p) /\ pc'[p] = label /\ Keeps(job[p], job'[p]) /\ job'[p].wrote = job[p].wrote
    BY <1>a, <2>2, UseIs DEF Labels
  <2>3. pc[p] \in Reading
    BY <1>3 DEF FeatureEnable, FeatureDisable, ApplyChanges, Reading
  <2>4. CASE FeatureEnable(p)
    BY <1>a, <2>1, <2>2, <2>3, <2>4 DEF FeatureEnable, Reading
  <2>5. CASE FeatureDisable(p)
    BY <1>a, <2>1, <2>2, <2>3, <2>5 DEF FeatureDisable, Reading
  <2>6. CASE ApplyChanges(p)
    BY <1>a, <2>1, <2>2, <2>3, <2>6 DEF ApplyChanges, Reading
  <2>. QED
    BY <1>3, <2>4, <2>5, <2>6
<1>4. CASE Trim(p)
  <2>1. CASE Go(p, "activate", job[p])
    BY <1>a, <1>b, <1>4, <2>1, GoIs DEF Trim, Labels, Reading, Keeps
  <2>2. ASSUME NEW j, Keeps(job[p], j), j.wrote = job[p].wrote, Go(p, "trim", j)
        PROVE  /\ Moves(p) /\ pc'[p] = "trim" /\ Keeps(job[p], job'[p])
               /\ job'[p].wrote = job[p].wrote
    BY <2>2, GoIs DEF Labels
  <2>3. ASSUME NEW v PROVE /\ Keeps(job[p], [job[p] EXCEPT !.at = v])
                           /\ [job[p] EXCEPT !.at = v].wrote = job[p].wrote
    BY <1>b DEF Keeps, Fields
  <2>4. ASSUME NEW v PROVE /\ Keeps(job[p], [job[p] EXCEPT !.features = v])
                           /\ [job[p] EXCEPT !.features = v].wrote = job[p].wrote
    BY <1>b DEF Keeps, Fields
  <2>5. CASE Go(p, "trim", [job[p] EXCEPT !.at = @ + 1])
    BY <1>a, <1>4, <2>2, <2>3, <2>5 DEF Trim, Reading
  <2>6. ASSUME NEW stale,
               Go(p, "trim", [job[p] EXCEPT !.features =
                                 DelValue(@, job[p].features[job[p].at], job[p].at, stale)])
        PROVE  /\ Moves(p) /\ pc'[p] = "trim" /\ Keeps(job[p], job'[p])
               /\ job'[p].wrote = job[p].wrote
    BY <2>2, <2>4, <2>6
  <2>7. CASE \E stale \in {job[p].features[job[p].at], Garbage} :
                Go(p, "trim", [job[p] EXCEPT !.features =
                                  DelValue(@, job[p].features[job[p].at], job[p].at, stale)])
    BY <1>a, <1>4, <2>6, <2>7 DEF Trim, Reading
  <2>. QED
    BY <1>4, <2>1, <2>5, <2>7 DEF Trim
<1>5. CASE Activate(p)
  <2>. DEFINE j == [job[p] EXCEPT !.version = pkg]
  <2>1. ASSUME NEW errno, End(p, errno) PROVE Moves(p) /\ pc'[p] = "idle"
    BY <2>1, EndIs
  <2>2. CASE job[p].id \in Installed /\ Check(job[p].id, job[p].features) /\ Go(p, "generate", j)
    <3>1. /\ Keeps(job[p], j) /\ j.wrote = job[p].wrote
          /\ j.id = job[p].id /\ j.features = job[p].features /\ j.version = pkg
      BY <1>b DEF Keeps, Fields
    <3>2. pkg \in Versions /\ Supported[pkg][job[p].id] \subseteq Features
      BY <2>2, SupportedAssumption DEF CInv
    <3>3. [id |-> j.id, features |-> ToSet(j.features), version |-> j.version] \in Rendered
      BY <2>2, <3>1, <3>2 DEF Check, Rendered
    <3>. HIDE DEF j
    <3>4. Moves(p) /\ pc'[p] = "generate" /\ job'[p] = j
      BY <2>2, GoIs DEF Labels
    <3>. QED
      BY <1>a, <1>5, <3>1, <3>3, <3>4 DEF Activate, Reading
  <2>3. \/ \E errno \in {"ENOENT", "EINVAL", "EEXIST"} : End(p, errno)
        \/ job[p].id \in Installed /\ Check(job[p].id, job[p].features) /\ Go(p, "generate", j)
    BY <1>5 DEF Activate
  <2>. QED
    BY <1>a, <2>1, <2>2, <2>3
<1>. QED
  BY <1>1, <1>2, <1>3, <1>4, <1>5 DEF ReadsOn

LEMMA BackupIs ==
    ASSUME CInv, NEW p \in Procs, Backup(p)
    PROVE  /\ UNCHANGED <<conf, gen, name, sum, pkg, overlap>> /\ Moves(p)
           /\ saved' = IF AsksBackup(job[p].options) THEN Snapshot ELSE saved
           /\ At(p, "backup") /\ job' = job
           /\ pc'[p] \in {"activate", "apply", "enable", "disable"}
           /\ Leads(job[p].line.name, pc'[p])
<1>1. /\ UNCHANGED <<conf, gen, name, sum, pkg, overlap>> /\ job' = job /\ At(p, "backup")
      /\ saved' = IF AsksBackup(job[p].options) THEN Snapshot ELSE saved
  BY DEF Backup, Frame, disk
<1>2. /\ pc \in [Procs -> Labels] /\ DOMAIN job = Procs /\ job[p].line.name \in Savers
  BY <1>1 DEF CInv, Placed
<1>3. \E label \in {"activate", "apply", "enable", "disable"} :
         Leads(job[p].line.name, label) /\ pc' = [pc EXCEPT ![p] = label]
  BY <1>1, <1>2, FollowingIs DEF Backup
<1>. QED
  BY <1>1, <1>2, <1>3 DEF Moves, Labels

(* What a write makes of the disk, and where the command goes on.          *)
Changes(p) ==
    \/ Generate(p) \/ Truncate(p) \/ Record(p) \/ Unlink(p) \/ Symlink(p) \/ KeepChecksum(p)
    \/ CopyName(p) \/ RemoveConf(p) \/ RemoveFiles(p)

LEMMA ChangesAre ==
    ASSUME CInv, NEW p \in Procs, Changes(p)
    PROVE  /\ UNCHANGED <<saved, pkg, overlap>> /\ Moves(p) /\ ~At(p, "idle")
           /\ pc[p] \in {"generate"} \cup Writing \cup OptingOut
           /\ \/ pc'[p] = "idle"
              \/ /\ Keeps(job[p], job'[p]) /\ job'[p].wrote \in BOOLEAN
                 /\ pc[p] \in {"generate"} \cup Writing => pc'[p] \in Writing
                 /\ pc[p] \in OptingOut => pc'[p] \in {"remove conf", "remove files"}
           /\ \/ gen' = gen
              \/ gen' \in Rendered
              \/ gen' = Absent /\ At(p, "remove files")
           /\ \/ name' = name
              \/ name' = Absent
              \/ name' = Link /\ At(p, "symlink")
              \/ name' = gen /\ gen # Absent
           /\ At(p, "generate") => gen' \in Rendered
           /\ At(p, "copy") /\ pc'[p] # "idle" => (IF name = Link THEN name' = gen /\ gen # Absent ELSE name' = name)
<1>a. UNCHANGED <<saved, pkg, overlap>> /\ ~At(p, "idle")
  BY DEF Changes, Generate, Truncate, Record, Unlink, Symlink, KeepChecksum, CopyName, RemoveConf,
         RemoveFiles, Writes, Frame
<1>w. ASSUME NEW label \in Labels, Write(p, label)
      PROVE  Moves(p) /\ pc'[p] = label /\ Keeps(job[p], job'[p]) /\ job'[p].wrote \in BOOLEAN
  BY <1>a, <1>w, WriteIs
<1>e. ASSUME NEW errno, End(p, errno) PROVE Moves(p) /\ pc'[p] = "idle"
  BY <1>e, EndIs
<1>1. CASE Generate(p)
  <2>1. [id |-> job[p].id, features |-> ToSet(job[p].features), version |-> job[p].version]
           \in Rendered
    BY <1>1 DEF CInv, Placed, Generate
  <2>. QED
    BY <1>a, <1>w, <1>1, <2>1 DEF Generate, Labels, Writing, OptingOut
<1>2. CASE Truncate(p) \/ Record(p) \/ Unlink(p)
  BY <1>a, <1>w, <1>2 DEF Truncate, Record, Unlink, Labels, Writing, OptingOut
<1>3. CASE Symlink(p)
  BY <1>a, <1>w, <1>e, <1>3 DEF Symlink, Labels, Writing, OptingOut, disk
<1>4. CASE KeepChecksum(p)
  BY <1>a, <1>e, <1>4 DEF KeepChecksum, Labels, Writing, OptingOut
<1>5. CASE CopyName(p)
  BY <1>a, <1>w, <1>e, <1>5 DEF CopyName, Live, Labels, Writing, OptingOut, disk
<1>6. CASE RemoveConf(p)
  BY <1>a, <1>w, <1>6 DEF RemoveConf, Labels, Writing, OptingOut
<1>7. CASE RemoveFiles(p)
  BY <1>a, <1>e, <1>7 DEF RemoveFiles, Labels, Writing, OptingOut
<1>. QED
  BY <1>1, <1>2, <1>3, <1>4, <1>5, <1>6, <1>7 DEF Changes

(* A failure or a crash ends the command; only authselect.conf may go.     *)
LEMMA StopsAre ==
    ASSUME CInv, NEW p \in Procs, Fail(p) \/ Crash(p)
    PROVE  /\ UNCHANGED <<gen, name, saved, pkg, overlap>> /\ Moves(p) /\ pc'[p] = "idle"
           /\ ~At(p, "idle")
<1>1. CASE Fail(p)
  BY <1>1, EndIs DEF Fail, Writes, Frame
<1>2. CASE Crash(p)
  BY <1>2 DEF Crash, Frame, disk, CInv, Moves, Labels
<1>. QED
  BY <1>1, <1>2

LEMMA BeginIs ==
    ASSUME CInv, NEW p \in Procs, Begin(p)
    PROVE  /\ UNCHANGED <<conf, gen, name, sum, saved, pkg>>
           /\ overlap' = (overlap \/ ~Quiet) /\ At(p, "idle")
           /\ pc' \in [Procs -> Labels] /\ DOMAIN job' = Procs
           /\ \A q \in Procs \ {p} :
                 /\ pc'[q] = pc[q]
                 /\ ~At(q, "idle") =>
                       /\ DOMAIN job'[q] = Fields /\ job'[q].alone = FALSE /\ job'[q].wrote = job[q].wrote
                       /\ job'[q].line = job[q].line /\ job'[q].id = job[q].id
                       /\ job'[q].options = job[q].options
                       /\ job'[q].features = job[q].features /\ job'[q].version = job[q].version
           /\ DOMAIN job'[p] = Fields /\ job'[p].alone = Quiet /\ job'[p].wrote = FALSE
           /\ job'[p].before = Snapshot
           /\ job'[p].line \in CommandLines /\ Routed[job'[p].line].errno = "EOK"
           /\ job'[p].options = Routed[job'[p].line].options
           /\ \/ pc'[p] = "current" /\ job'[p].line.name = "enable-feature"
              \/ pc'[p] = "profile" /\ job'[p].line.name = "select"
              \/ pc'[p] = "backup" /\ job'[p].line.name \in Savers
              \/ pc'[p] = "copy" /\ job'[p].line.name = "opt-out"
<1>. DEFINE Job(line, given) ==
       [line |-> line, id |-> given.id, features |-> given.features,
        word |-> given.id, options |-> given.options, at |-> 1, version |-> pkg,
        alone |-> Quiet, wrote |-> FALSE, meant |-> Meant(line), before |-> Snapshot]
<1>1. PICK line \in CommandLines :
         /\ line.name \in NeedRoot /\ Routed[line].errno = "EOK"
         /\ pc' = [pc EXCEPT ![p] = Head(Calls[line.name])]
         /\ job' = [Disturbed EXCEPT ![p] = Job(line, Routed[line])]
         /\ overlap' = (overlap \/ ~Quiet)
  BY Zenon DEF Begin
<1>2. UNCHANGED <<conf, gen, name, sum, saved, pkg>> /\ At(p, "idle")
  BY DEF Begin, disk
<1>3. job'[p] = Job(line, Routed[line]) /\ DOMAIN job' = Procs
      /\ \A q \in Procs \ {p} : job'[q] = Disturbed[q]
  BY <1>1 DEF Disturbed
<1>4. /\ DOMAIN Job(line, Routed[line]) = Fields
      /\ Job(line, Routed[line]).alone = Quiet /\ Job(line, Routed[line]).wrote = FALSE
      /\ Job(line, Routed[line]).before = Snapshot /\ Job(line, Routed[line]).line = line
      /\ Job(line, Routed[line]).options = Routed[line].options
  BY DEF Fields
<1>. HIDE DEF Job
<1>5. \/ Head(Calls[line.name]) = "current" /\ line.name = "enable-feature"
      \/ Head(Calls[line.name]) = "profile" /\ line.name = "select"
      \/ Head(Calls[line.name]) = "backup" /\ line.name \in Savers
      \/ Head(Calls[line.name]) = "copy" /\ line.name = "opt-out"
  <2>1. line.name \in {"select", "apply-changes", "enable-feature", "disable-feature", "opt-out"}
    BY <1>1 DEF NeedRoot
  <2>2. /\ Head(<<"profile", "backup", "activate">>) = "profile"
        /\ Head(<<"backup", "apply">>) = "backup"
        /\ Head(<<"current", "profile", "backup", "enable">>) = "current"
        /\ Head(<<"backup", "disable">>) = "backup" /\ Head(<<"copy">>) = "copy"
    OBVIOUS
  <2>. QED
    BY <2>1, <2>2, CallsAre DEF Savers
<1>6. /\ pc' \in [Procs -> Labels] /\ pc'[p] = Head(Calls[line.name])
      /\ \A q \in Procs \ {p} : pc'[q] = pc[q]
  BY <1>1, <1>5 DEF CInv, Labels
<1>7. ASSUME NEW q \in Procs \ {p}, ~At(q, "idle")
      PROVE  /\ DOMAIN job'[q] = Fields /\ job'[q].alone = FALSE /\ job'[q].wrote = job[q].wrote
             /\ job'[q].line = job[q].line /\ job'[q].id = job[q].id
             /\ job'[q].options = job[q].options
             /\ job'[q].features = job[q].features /\ job'[q].version = job[q].version
  <2>1. DOMAIN job[q] = Fields
    BY <1>7 DEF CInv, Placed
  <2>2. job'[q] = [job[q] EXCEPT !.alone = FALSE]
    BY <1>3, <1>7 DEF Disturbed
  <2>. QED
    BY <2>1, <2>2 DEF Fields
<1>. QED
  BY <1>1, <1>2, <1>3, <1>4, <1>5, <1>6, <1>7

-----------------------------------------------------------------------------
(* The invariants.                                                         *)

(* Every step is one of these.                                             *)
LEMMA NextIs ==
    ASSUME Next
    PROVE  \/ \E p \in Procs :
                 Begin(p) \/ ReadsOn(p) \/ Backup(p) \/ Changes(p) \/ Fail(p) \/ Crash(p)
           \/ /\ UNCHANGED <<conf, gen, name, sum, saved, overlap, pc, job>>
              /\ pkg' = pkg \/ (Quiet /\ pkg' \in Versions)
<1>1. Ask => UNCHANGED <<conf, gen, name, sum, saved, overlap, pc, job, pkg>>
  BY DEF Ask, Reads, Frame, disk
<1>2. PackageUpdate => /\ UNCHANGED <<conf, gen, name, sum, saved, overlap, pc, job>>
                       /\ Quiet /\ pkg' \in Versions
  BY DEF PackageUpdate, disk
<1>. QED
  BY <1>1, <1>2 DEF Next, Step, ReadsOn, Changes

LEMMA InitialIs ==
    ASSUME Initial[1] \in Installed, Configured(Initial[1], Tail(Initial))
    PROVE  gen \in Rendered /\ name = Link
<1>1. ToSet(Tail(Initial)) \subseteq Features
  BY InitialAssumption, ToSetIn
<1>. QED
  BY <1>1, VersionsAssumption DEF Configured, Rendered

LEMMA CInit == Init => CInv
<1>. SUFFICES ASSUME Init PROVE CInv
  OBVIOUS
<1>1. gen \in Rendered \cup {Absent} /\ name \in {Own, Link}
  <2>1. CASE Unconfigured
    BY <2>1 DEF Unconfigured
  <2>2. CASE Configured(Initial[1], Tail(Initial))
    BY <2>2, InitialAssumption, InitialIs
  <2>. QED
    BY <2>1, <2>2 DEF Init
<1>. QED
  BY <1>1, VersionsAssumption DEF Init, CInv, Labels

(* The command that moves is where it should be, and the others stay.      *)
LEMMA CFrame ==
    ASSUME CInv, NEW p \in Procs, Moves(p), pc'[p] = "idle" \/ Placed(p)',
           gen' \in Rendered \cup {Absent}, name' \in Rendered \cup {Own, Absent, Link},
           UNCHANGED <<pkg, overlap>>
    PROVE  CInv'
<1>1. ASSUME NEW q \in Procs, pc'[q] # "idle" PROVE Placed(q)'
  <2>1. CASE q = p
    BY <1>1, <2>1
  <2>2. CASE q # p
    BY <1>1, <2>2 DEF CInv, Moves, Placed
  <2>. QED
    BY <2>1, <2>2
<1>. QED
  BY <1>1 DEF CInv, Moves

LEMMA CNext == CInv /\ [Next]_vars => CInv'
<1>. SUFFICES ASSUME CInv, [Next]_vars PROVE CInv'
  OBVIOUS
<1>a. \A p \in Procs : ~At(p, "idle") => Placed(p)
  BY DEF CInv
<1>b. gen \in Rendered \cup {Absent} /\ name \in Rendered \cup {Own, Absent, Link}
  BY DEF CInv
<1>1. ASSUME NEW p \in Procs, Begin(p) PROVE CInv'
  <2>1. ASSUME NEW q \in Procs, pc'[q] # "idle" PROVE Placed(q)'
    <3>1. CASE q = p
      BY <1>1, <3>1, BeginIs DEF Placed, OptingOut, Savers, Quiet
    <3>2. CASE q # p
      <4>1. ~At(q, "idle") /\ Placed(q) /\ pc'[q] = pc[q]
        BY <1>1, <1>a, <2>1, <3>2, BeginIs
      <4>2. /\ DOMAIN job'[q] = Fields /\ job'[q].alone = FALSE /\ job'[q].wrote = job[q].wrote
            /\ job'[q].line = job[q].line /\ job'[q].id = job[q].id
            /\ job'[q].features = job[q].features /\ job'[q].version = job[q].version
        BY <1>1, <3>2, <4>1, BeginIs
      <4>. QED
        BY <4>1, <4>2 DEF Placed
    <3>. QED
      BY <3>1, <3>2
  <2>2. overlap' \in BOOLEAN
    BY <1>1, BeginIs DEF CInv, Quiet
  <2>. QED
    <3>1. /\ pc' \in [Procs -> Labels] /\ DOMAIN job' = Procs
          /\ UNCHANGED <<gen, name, pkg>>
      BY <1>1, BeginIs
    <3>. QED
      BY <2>1, <2>2, <3>1 DEF CInv
<1>2. ASSUME NEW p \in Procs, ReadsOn(p) PROVE CInv'
  <2>1. Placed(p)
    BY <1>2, <1>a, ReadsOnIs
  <2>2. pc'[p] = "idle" \/ Placed(p)'
    BY <1>2, <2>1, ReadsOnIs DEF Placed, Keeps, Reading, OptingOut, Savers
  <2>. QED
    BY <1>2, <1>b, <2>2, ReadsOnIs, CFrame
<1>3. ASSUME NEW p \in Procs, Backup(p) PROVE CInv'
  <2>1. Placed(p)
    BY <1>3, <1>a, BackupIs
  <2>2. Placed(p)'
    BY <1>3, <2>1, BackupIs DEF Placed, OptingOut
  <2>. QED
    BY <1>3, <1>b, <2>2, BackupIs, CFrame
<1>4. ASSUME NEW p \in Procs, Changes(p) PROVE CInv'
  <2>1. Placed(p)
    BY <1>4, <1>a, ChangesAre
  <2>2. pc'[p] = "idle" \/ Placed(p)'
    BY <1>4, <2>1, ChangesAre DEF Placed, Keeps, Writing, OptingOut
  <2>3. gen' \in Rendered \cup {Absent} /\ name' \in Rendered \cup {Own, Absent, Link}
    BY <1>4, <1>b, ChangesAre
  <2>. QED
    BY <1>4, <2>2, <2>3, ChangesAre, CFrame
<1>5. ASSUME NEW p \in Procs, Fail(p) \/ Crash(p) PROVE CInv'
  BY <1>5, <1>b, StopsAre, CFrame
<1>6. CASE UNCHANGED <<conf, gen, name, sum, saved, overlap, pc, job>> /\ pkg' \in Versions
  BY <1>6 DEF CInv, Placed
<1>7. CASE UNCHANGED vars
  BY <1>6, <1>7 DEF vars, disk, CInv
<1>. QED
  BY <1>1, <1>2, <1>3, <1>4, <1>5, <1>6, <1>7, NextIs DEF CInv

LEMMA DInit == Init => DInv
<1>. SUFFICES ASSUME Init PROVE DInv
  OBVIOUS
<1>1. ~(name = Link /\ gen = Absent)
  <2>1. CASE Unconfigured
    BY <2>1, MarkersAssumption DEF Unconfigured
  <2>2. CASE Configured(Initial[1], Tail(Initial))
    <3>1. gen \in Rendered
      BY <2>2, InitialAssumption, InitialIs
    <3>. QED
      BY <3>1, MarkersAssumption
  <2>. QED
    BY <2>1, <2>2 DEF Init
<1>. QED
  BY <1>1 DEF Init, DInv, Writing

(* The part of DInv about one command.                                     *)
Fits(p) ==
    /\ \A q \in Procs \ {p} : At(q, "idle")
    /\ pc[p] \in Writing => gen # Absent
    /\ pc[p] \in {"remove conf", "remove files"} => name # Link

LEMMA FitsIs ==
    ASSUME DInv, ~overlap, NEW p \in Procs, ~At(p, "idle")
    PROVE  Fits(p) /\ ~(name = Link /\ gen = Absent)
<1>1. \A q, r \in Procs : pc[q] # "idle" /\ pc[r] # "idle" => q = r
  BY DEF DInv
<1>2. \A q \in Procs \ {p} : pc[q] = "idle"
  BY <1>1
<1>3. /\ pc[p] \in Writing => gen # Absent
      /\ pc[p] \in {"remove conf", "remove files"} => name # Link
  BY DEF DInv
<1>4. ~(name = Link /\ gen = Absent)
  BY DEF DInv
<1>. QED
  BY <1>2, <1>3, <1>4 DEF Fits

LEMMA FittingIs ==
    ASSUME NEW p \in Procs, Fits(p)', ~(name' = Link /\ gen' = Absent)
    PROVE  DInv'
<1>1. ASSUME NEW q \in Procs, NEW r \in Procs, pc'[q] # "idle", pc'[r] # "idle" PROVE q = r
  BY <1>1 DEF Fits
<1>2. ASSUME NEW q \in Procs
      PROVE  /\ pc'[q] \in Writing => gen' # Absent
             /\ pc'[q] \in {"remove conf", "remove files"} => name' # Link
  BY DEF Fits, Writing
<1>. QED
  BY <1>1, <1>2 DEF DInv

LEMMA DNext == CInv /\ DInv /\ [Next]_vars => DInv'
<1>. SUFFICES ASSUME CInv, DInv, [Next]_vars, ~overlap' PROVE DInv'
  BY DEF DInv
<1>a. gen \in Rendered \cup {Absent} /\ Link \notin Rendered \cup {Own, Absent}
      /\ Absent \notin Rendered
  BY MarkersAssumption DEF CInv
<1>b. overlap \in BOOLEAN
  BY DEF CInv
<1>1. ASSUME NEW p \in Procs, Begin(p) PROVE DInv'
  <2>1. ~overlap /\ \A q \in Procs : pc[q] = "idle"
    BY <1>1, <1>b, BeginIs DEF Quiet
  <2>x. \A q \in Procs \ {p} : pc'[q] = pc[q]
    BY <1>1, BeginIs
  <2>2. \A q \in Procs \ {p} : pc'[q] = "idle"
    BY <2>1, <2>x
  <2>3. pc'[p] \in {"current", "profile", "backup", "copy"}
    BY <1>1, BeginIs
  <2>4. Fits(p)'
    BY <2>2, <2>3 DEF Fits, Writing
  <2>5. ~(name' = Link /\ gen' = Absent)
    <3>1. ~(name = Link /\ gen = Absent)
      BY <2>1 DEF DInv
    <3>. QED
      BY <1>1, <3>1, BeginIs
  <2>. QED
    BY <2>4, <2>5, FittingIs
<1>2. ASSUME NEW p \in Procs, ReadsOn(p) PROVE DInv'
  <2>1. ~overlap /\ ~At(p, "idle") /\ \A q \in Procs \ {p} : pc'[q] = pc[q]
    BY <1>2, ReadsOnIs DEF Moves
  <2>2. Fits(p) /\ ~(name = Link /\ gen = Absent)
    BY <2>1, FitsIs
  <2>3. pc'[p] \notin Writing \cup {"remove conf", "remove files"}
    BY <1>2, ReadsOnIs DEF Reading, Writing
  <2>4. Fits(p)'
    BY <2>1, <2>2, <2>3 DEF Fits
  <2>5. gen' = gen /\ name' = name
    BY <1>2, ReadsOnIs
  <2>. QED
    BY <2>2, <2>4, <2>5, FittingIs
<1>3. ASSUME NEW p \in Procs, Backup(p) PROVE DInv'
  <2>1. ~overlap /\ ~At(p, "idle") /\ \A q \in Procs \ {p} : pc'[q] = pc[q]
    BY <1>3, BackupIs DEF Moves
  <2>2. Fits(p) /\ ~(name = Link /\ gen = Absent)
    BY <2>1, FitsIs
  <2>3. pc'[p] \notin Writing \cup {"remove conf", "remove files"}
    BY <1>3, BackupIs DEF Writing
  <2>4. Fits(p)'
    BY <2>1, <2>2, <2>3 DEF Fits
  <2>5. gen' = gen /\ name' = name
    BY <1>3, BackupIs
  <2>. QED
    BY <2>2, <2>4, <2>5, FittingIs
<1>4. ASSUME NEW p \in Procs, Changes(p) PROVE DInv'
  <2>1. ~overlap /\ ~At(p, "idle") /\ \A q \in Procs \ {p} : pc'[q] = pc[q]
    BY <1>4, ChangesAre DEF Moves
  <2>2. Fits(p) /\ ~(name = Link /\ gen = Absent)
    BY <2>1, FitsIs
  <2>3. /\ pc[p] \in Writing => gen # Absent
        /\ pc[p] \in {"remove conf", "remove files"} => name # Link
    BY <2>2 DEF Fits
  <2>x. \A q \in Procs \ {p} : pc'[q] = "idle"
    BY <2>1, <2>2 DEF Fits
  <2>y. pc'[p] = "idle" => pc'[p] \notin Writing \cup {"remove conf", "remove files"}
    BY DEF Writing
  <2>4. CASE pc[p] \in {"generate"} \cup Writing
    <3>1. gen' \in Rendered /\ pc'[p] \notin {"remove conf", "remove files"}
      BY <1>4, <1>a, <2>3, <2>4, ChangesAre DEF Writing
    <3>2. Fits(p)'
      BY <1>a, <2>x, <3>1 DEF Fits
    <3>. QED
      BY <1>a, <3>1, <3>2, FittingIs
  <2>5. CASE pc[p] = "copy"
    <3>1. gen' = gen \/ gen' \in Rendered
      BY <1>4, <2>5, ChangesAre
    <3>2. ~(name' = Link /\ gen' = Absent)
      BY <1>4, <1>a, <2>2, <2>5, <3>1, ChangesAre
    <3>3. pc'[p] \notin Writing
      BY <1>4, <2>y, <2>5, ChangesAre DEF OptingOut, Writing
    <3>4. pc'[p] # "idle" => name' # Link
      BY <1>4, <1>a, <2>5, ChangesAre
    <3>5. Fits(p)'
      BY <2>x, <2>y, <3>3, <3>4 DEF Fits
    <3>. QED
      BY <3>2, <3>5, FittingIs
  <2>6. CASE pc[p] \in {"remove conf", "remove files"}
    <3>1. name' # Link
      BY <1>4, <1>a, <2>3, <2>6, ChangesAre
    <3>2. pc'[p] \notin Writing
      BY <1>4, <2>y, <2>6, ChangesAre DEF OptingOut, Writing
    <3>3. Fits(p)'
      BY <2>x, <3>1, <3>2 DEF Fits
    <3>. QED
      BY <3>1, <3>3, FittingIs
  <2>. QED
    BY <1>4, <2>4, <2>5, <2>6, ChangesAre DEF OptingOut
<1>5. ASSUME NEW p \in Procs, Fail(p) \/ Crash(p) PROVE DInv'
  <2>1. ~overlap /\ ~At(p, "idle") /\ pc'[p] = "idle" /\ \A q \in Procs \ {p} : pc'[q] = pc[q]
    BY <1>5, StopsAre DEF Moves
  <2>2. Fits(p) /\ ~(name = Link /\ gen = Absent)
    BY <2>1, FitsIs
  <2>3. Fits(p)'
    BY <2>1, <2>2 DEF Fits, Writing
  <2>4. gen' = gen /\ name' = name
    BY <1>5, StopsAre
  <2>. QED
    BY <2>2, <2>3, <2>4, FittingIs
<1>6. ASSUME UNCHANGED <<gen, name, overlap, pc>> PROVE DInv'
  BY <1>6 DEF DInv
<1>7. CASE UNCHANGED vars
  BY <1>6, <1>7 DEF vars, disk
<1>. QED
  BY <1>1, <1>2, <1>3, <1>4, <1>5, <1>6, <1>7, NextIs

(* The name in /etc links to a missing file only after two commands have   *)
(* met: no sequence of commands, whatever fails in it, leads there.        *)
THEOREM SequencesKeepTheLink == Spec => []DanglingNeedsOverlap
<1>1. CInv /\ DInv => DanglingNeedsOverlap
  BY DEF DInv, DanglingNeedsOverlap
<1>2. Init => CInv /\ DInv
  BY CInit, DInit
<1>3. (CInv /\ DInv) /\ [Next]_vars => (CInv /\ DInv)'
  BY CNext, DNext
<1>. QED
  BY <1>1, <1>2, <1>3, PTL DEF Spec

-----------------------------------------------------------------------------

(* Whoever moves, a command that stays as it is stays safe if it is alone. *)
LEMMA BFrame ==
    ASSUME CInv, BInv, NEW p \in Procs, ~At(p, "idle"), Moves(p),
           pc'[p] # "idle" => (job'[p].alone => job[p].alone),
           pc'[p] # "idle" /\ job[p].alone /\ Safe(p) =>
              /\ pc'[p] \in Early => ~job'[p].wrote /\ Snapshot' = job'[p].before
              /\ pc'[p] \in Reading \cup Writing /\ AsksBackup(job'[p].options) =>
                    saved' = job'[p].before
    PROVE  BInv'
<1>. SUFFICES ASSUME NEW q \in Procs, pc'[q] # "idle", job'[q].alone PROVE Safe(q)'
  BY DEF BInv
<1>1. CASE q = p
  <2>1. Safe(p)
    BY <1>1 DEF BInv
  <2>2. \A r \in Procs \ {p} : pc'[r] = "idle"
    BY <2>1 DEF Safe, Moves
  <2>. QED
    BY <1>1, <2>1, <2>2 DEF Safe, BInv
<1>2. CASE q # p
  <2>1. pc[q] # "idle" /\ job[q].alone
    BY <1>2 DEF Moves
  <2>2. Safe(q)
    BY <2>1 DEF BInv
  <2>. QED
    BY <1>2, <2>2 DEF Safe
<1>. QED
  BY <1>1, <1>2

LEMMA BNext == CInv /\ BInv /\ [Next]_vars => BInv'
<1>. SUFFICES ASSUME CInv, BInv, [Next]_vars PROVE BInv'
  OBVIOUS
<1>1. ASSUME NEW p \in Procs, Begin(p) PROVE BInv'
  <2>. SUFFICES ASSUME NEW q \in Procs, pc'[q] # "idle", job'[q].alone PROVE Safe(q)'
    BY DEF BInv
  <2>1. q = p
    <3>. SUFFICES ASSUME q # p PROVE FALSE
      OBVIOUS
    <3>1. pc'[q] = pc[q]
      BY <1>1, BeginIs
    <3>2. job'[q].alone = FALSE
      BY <1>1, <3>1, BeginIs
    <3>. QED
      BY <3>2
  <2>2. Quiet
    BY <1>1, <2>1, BeginIs
  <2>3. \A r \in Procs \ {p} : pc'[r] = pc[r]
    BY <1>1, BeginIs
  <2>4. \A r \in Procs \ {p} : pc'[r] = "idle"
    BY <2>2, <2>3 DEF Quiet
  <2>5. /\ job'[p].wrote = FALSE /\ job'[p].before = Snapshot
        /\ pc'[p] \in {"current", "profile", "backup", "copy"}
    BY <1>1, BeginIs
  <2>6. Snapshot' = Snapshot
    BY <1>1, BeginIs DEF Snapshot, Live
  <2>. QED
    BY <2>1, <2>4, <2>5, <2>6 DEF Safe, Reading, Writing
<1>2. ASSUME NEW p \in Procs, ReadsOn(p) PROVE BInv'
  <2>1. Snapshot' = Snapshot /\ saved' = saved /\ Moves(p) /\ ~At(p, "idle")
    BY <1>2, ReadsOnIs DEF Snapshot, Live
  <2>2. CASE pc'[p] # "idle"
    <3>1. /\ job'[p].alone = job[p].alone /\ job'[p].wrote = job[p].wrote
          /\ job'[p].before = job[p].before /\ job'[p].options = job[p].options
          /\ pc'[p] \in Early => pc[p] \in Early
          /\ pc'[p] \in Reading \cup Writing => pc[p] \in Reading
      BY <1>2, <2>2, ReadsOnIs DEF Keeps, Early, Reading, Writing
    <3>. QED
      BY <2>1, <3>1, BFrame DEF Safe
  <2>3. CASE pc'[p] = "idle"
    BY <2>1, <2>3, BFrame
  <2>. QED
    BY <2>2, <2>3
<1>3. ASSUME NEW p \in Procs, Backup(p) PROVE BInv'
  <2>1. /\ Moves(p) /\ At(p, "backup") /\ ~At(p, "idle") /\ job' = job
        /\ saved' = IF AsksBackup(job[p].options) THEN Snapshot ELSE saved
        /\ pc'[p] \notin Early
    BY <1>3, BackupIs DEF Early
  <2>2. job[p].alone /\ Safe(p) /\ AsksBackup(job[p].options) => saved' = job[p].before
    BY <2>1 DEF Safe, Early
  <2>. QED
    BY <2>1, <2>2, BFrame
<1>4. ASSUME NEW p \in Procs, Changes(p) PROVE BInv'
  <2>1. saved' = saved /\ Moves(p) /\ ~At(p, "idle")
    BY <1>4, ChangesAre
  <2>2. CASE pc'[p] # "idle"
    <3>1. /\ job'[p].alone = job[p].alone /\ job'[p].before = job[p].before
          /\ job'[p].options = job[p].options
          /\ pc'[p] \notin Early
          /\ pc'[p] \in Reading \cup Writing => pc[p] \in Reading \cup Writing
      BY <1>4, <2>2, ChangesAre DEF Keeps, Early, Reading, Writing, OptingOut
    <3>. QED
      BY <2>1, <3>1, BFrame DEF Safe
  <2>3. CASE pc'[p] = "idle"
    BY <2>1, <2>3, BFrame
  <2>. QED
    BY <2>2, <2>3
<1>5. ASSUME NEW p \in Procs, Fail(p) \/ Crash(p) PROVE BInv'
  BY <1>5, StopsAre, BFrame
<1>6. ASSUME UNCHANGED <<conf, gen, name, saved, pc, job>> PROVE BInv'
  BY <1>6 DEF BInv, Safe, Snapshot, Live
<1>7. CASE UNCHANGED vars
  BY <1>6, <1>7 DEF vars, disk
<1>. QED
  BY <1>1, <1>2, <1>3, <1>4, <1>5, <1>6, <1>7, NextIs

LEMMA ONext == CInv /\ OInv /\ [Next]_vars => OInv'
<1>. SUFFICES ASSUME CInv, OInv, [Next]_vars PROVE OInv'
  OBVIOUS
<1>a. ASSUME NEW p \in Procs, Moves(p), ~At(p, "idle"),
             pc'[p] = "idle" \/ (job'[p].line = job[p].line /\ job'[p].options = job[p].options)
      PROVE  OInv'
  BY <1>a DEF OInv, Told, Moves
<1>1. ASSUME NEW p \in Procs, Begin(p) PROVE OInv'
  <2>. SUFFICES ASSUME NEW q \in Procs, pc'[q] # "idle" PROVE Told(q)'
    BY DEF OInv
  <2>1. CASE q = p
    BY <1>1, <2>1, BeginIs DEF Told, Savers, NeedRoot
  <2>2. CASE q # p
    <3>1. pc[q] # "idle"
      BY <1>1, <2>2, BeginIs
    <3>2. job'[q].line = job[q].line /\ job'[q].options = job[q].options
      BY <1>1, <2>2, <3>1, BeginIs
    <3>. QED
      BY <3>1, <3>2 DEF OInv, Told
  <2>. QED
    BY <2>1, <2>2
<1>2. ASSUME NEW p \in Procs, ReadsOn(p) PROVE OInv'
  BY <1>2, <1>a, ReadsOnIs DEF Keeps
<1>3. ASSUME NEW p \in Procs, Backup(p) PROVE OInv'
  BY <1>3, <1>a, BackupIs
<1>4. ASSUME NEW p \in Procs, Changes(p) PROVE OInv'
  BY <1>4, <1>a, ChangesAre DEF Keeps
<1>5. ASSUME NEW p \in Procs, Fail(p) \/ Crash(p) PROVE OInv'
  BY <1>5, <1>a, StopsAre
<1>6. ASSUME UNCHANGED <<pc, job>> PROVE OInv'
  BY <1>6 DEF OInv, Told
<1>7. CASE UNCHANGED vars
  BY <1>6, <1>7 DEF vars
<1>. QED
  BY <1>1, <1>2, <1>3, <1>4, <1>5, <1>6, <1>7, NextIs

(* A command whose options ask for a backup, and that no other disturbs,   *)
(* has saved the system as it found it when it first writes.               *)
BackupFirst ==
    \A p \in Procs :
        ~At(p, "idle") /\ job[p].line.name # "opt-out" /\ AsksBackup(job[p].options)
        /\ job[p].alone /\ job[p].wrote
            => saved = job[p].before

LEMMA BackedUp == CInv /\ BInv => BackupFirst
<1>. SUFFICES ASSUME CInv, BInv, NEW p \in Procs, ~At(p, "idle"),
                     job[p].line.name # "opt-out", AsksBackup(job[p].options),
                     job[p].alone, job[p].wrote
              PROVE  saved = job[p].before
  BY DEF BackupFirst
<1>1. Placed(p) /\ pc[p] \in Labels
  BY DEF CInv
<1>2. Safe(p)
  BY DEF BInv
<1>3. pc[p] \notin OptingOut \cup Early
  BY <1>1, <1>2 DEF Placed, Safe
<1>4. pc[p] \in Reading \cup Writing
  BY <1>1, <1>3 DEF Labels, OptingOut, Early, Reading, Writing
<1>. QED
  BY <1>2, <1>4 DEF Safe

LEMMA BInit == Init => BInv /\ OInv
BY DEF Init, BInv, OInv

(* A command whose options ask for a backup, and that no other disturbs,   *)
(* writes nothing before the system as it was is saved (main.c:159, 219).  *)
THEOREM BackupComesFirst == Spec => []BackupFirst
<1>1. CInv /\ BInv => BackupFirst
  BY BackedUp
<1>2. Init => CInv /\ BInv
  BY CInit, BInit
<1>3. (CInv /\ BInv) /\ [Next]_vars => (CInv /\ BInv)'
  BY CNext, BNext
<1>. QED
  BY <1>1, <1>2, <1>3, PTL DEF Spec

(* If the words that demand a backup are heard, what the manual says of    *)
(* backups holds.                                                          *)
THEOREM DemandsAreMet == WordsAreHeard => (Spec => []ForcedIsSaved)
<1>. SUFFICES ASSUME WordsAreHeard PROVE Spec => []ForcedIsSaved
  OBVIOUS
<1>1. CInv /\ BInv /\ OInv => ForcedIsSaved
  <2>. SUFFICES ASSUME CInv, BInv, OInv, NEW p \in Procs, ~At(p, "idle"),
                       job[p].line.name # "opt-out", Demands(job[p].line.words),
                       job[p].alone, job[p].wrote
                PROVE  saved = job[p].before
    BY DEF ForcedIsSaved
  <2>1. BackupFirst
    BY BackedUp
  <2>2. Told(p)
    BY DEF OInv
  <2>3. AsksBackup(job[p].options)
    BY <2>2 DEF Told, WordsAreHeard
  <2>. QED
    BY <2>1, <2>3 DEF BackupFirst
<1>2. Init => CInv /\ BInv /\ OInv
  BY CInit, BInit
<1>3. (CInv /\ BInv /\ OInv) /\ [Next]_vars => (CInv /\ BInv /\ OInv)'
  BY CNext, BNext, ONext
<1>. QED
  BY <1>1, <1>2, <1>3, PTL DEF Spec

-----------------------------------------------------------------------------
(* What commands work on.                                                  *)

Distinct == {f \in Seq(Features) : IsInjective(f)}

(* Lines that a configuration may have: none, those of a file that is only *)
(* truncated, or what was written of a profile and its features.           *)
Config(c) ==
    c \in {Absent, <<>>} \/ \E id \in Installed, f \in Distinct : c = ConfigWrite(id, f)

(* What a command that runs works on comes from its words or from the disk:*)
(* j at its next call, with version v of the profiles installed.           *)
Does(label, j, v) ==
    /\ j.word = Routed[j.line].id
    /\ j.features \in Seq(Features \cup Typed) /\ IsInjective(j.features)
    /\ j.meant \in Wishes
    /\ j.at \in Nat \ {0} /\ (label \in Early \cup {"apply"} => j.at = 1)
    /\ label = "enable"  => j.line.name = "enable-feature"
    /\ label = "disable" => j.line.name = "disable-feature"
    /\ label \in {"apply", "trim"} => j.line.name = "apply-changes"
    /\ j.line.name = "select" /\ label \in {"profile", "backup", "activate"} =>
          j.id = Routed[j.line].id /\ j.features = Routed[j.line].features
    /\ label = "trim" =>
          /\ j.id \in Installed /\ j.version = v /\ j.features \in Seq(Features)
          /\ \A i \in 1..Len(j.features) : i < j.at => j.features[i] \in Supported[v][j.id]
    /\ label \in {"generate"} \cup Writing =>
          /\ j.id \in Installed /\ j.version = v
          /\ ToSet(j.features) \subseteq Supported[v][j.id]

Doing(p) == Does(pc[p], job[p], pkg)

TInv == \A p \in Procs : ~At(p, "idle") => Doing(p)

KInv ==
    /\ Config(conf)
    /\ saved # Absent => saved.live \in Contents /\ Config(saved.conf)
    /\ sum \in Versions \cup {Absent} /\ (sum \in Versions => sum <= pkg)
    /\ \A p \in Procs : At(p, "idle") => job[p] = NoJob
    /\ exit \in 0..6 \cup {Killed}
    /\ started \in 0..MaxCommands /\ faults \in 0..MaxFaults
    /\ asked \in Wishes

-----------------------------------------------------------------------------
(* What the steps do to the process that takes them.                       *)

(* The command goes on with j, or it is refused.                           *)
Passes(p, label, j) ==
    Moves(p) /\ pc'[p] = label /\ job'[p] = j /\ exit' = exit /\ asked' = asked

Halts(p) ==
    Moves(p) /\ pc'[p] = "idle" /\ job'[p] = NoJob /\ exit' \in 0..6 /\ asked' = asked

(* It ends, and may have succeeded.                                        *)
Ends(p) ==
    /\ Moves(p) /\ pc'[p] = "idle" /\ job'[p] = NoJob /\ exit' \in 0..6
    /\ \/ job[p].alone /\ asked' = job[p].meant
       \/ asked' = Unknown
       \/ disk' = disk /\ asked' = asked

LEMMA StatusIs ==
    ASSUME NEW errno
    PROVE  /\ ExitStatus(errno) \in 0..6
           /\ errno \notin {"EOK", "help"} => ExitStatus(errno) # 0
<1>1. CASE errno \in {"EOK", "help"}
  BY <1>1 DEF ExitStatus
<1>2. CASE errno \in {"ENOENT", "EBADF", "EEXIST", "EACCES", "ENODEV"}
  BY <1>2 DEF ExitStatus
<1>3. CASE errno \notin {"EOK", "help", "ENOENT", "EBADF", "EEXIST", "EACCES", "ENODEV"}
  BY <1>3 DEF ExitStatus
<1>. QED
  BY <1>1, <1>2, <1>3

LEMMA EndsIs ==
    ASSUME CInv, NEW p \in Procs, NEW errno, End(p, errno)
    PROVE  /\ Ends(p)
           /\ errno \notin {"EOK", "help"} /\ disk' = disk => Halts(p)
           /\ errno \notin {"EOK", "help"} => asked' = Unknown \/ (disk' = disk /\ asked' = asked)
<1>1. Moves(p) /\ pc'[p] = "idle" /\ job'[p] = NoJob
  BY EndIs DEF End, CInv
<1>2. exit' \in 0..6 /\ (errno \notin {"EOK", "help"} => exit' # 0)
  BY StatusIs DEF End
<1>3. asked' = IF exit' = 0 /\ job[p].alone THEN job[p].meant
               ELSE IF disk' # disk THEN Unknown ELSE asked
  BY DEF End
<1>4. Ends(p)
  BY <1>1, <1>2, <1>3 DEF Ends
<1>5. ASSUME errno \notin {"EOK", "help"}, disk' = disk PROVE Halts(p)
  BY <1>1, <1>2, <1>3, <1>5 DEF Halts
<1>. QED
  BY <1>2, <1>3, <1>4, <1>5

LEMMA PassesIs ==
    ASSUME CInv, NEW p \in Procs, NEW label \in Labels, NEW j, Go(p, label, j), asked' = asked
    PROVE  Passes(p, label, j)
BY GoIs DEF Passes, Go

(* A write.                                                                *)
Wrote(p, label) ==
    /\ Moves(p) /\ pc'[p] = label /\ exit' = exit
    /\ \E b \in BOOLEAN : job'[p] = [job[p] EXCEPT !.wrote = b]
    /\ asked' = Unknown \/ (disk' = disk /\ asked' = asked)

LEMMA WroteIs ==
    ASSUME CInv, NEW p \in Procs, ~At(p, "idle"), NEW label \in Labels, Write(p, label)
    PROVE  Wrote(p, label)
<1>. DEFINE b == job[p].wrote \/ disk' # disk
            j == [job[p] EXCEPT !.wrote = b]
<1>1. DOMAIN job[p] = Fields /\ job[p].wrote \in BOOLEAN
  BY DEF CInv, Placed
<1>2. b \in BOOLEAN
  BY <1>1
<1>3. Go(p, label, j) /\ (asked' = IF disk' # disk THEN Unknown ELSE asked)
  BY DEF Write
<1>4. \E c \in BOOLEAN : j = [job[p] EXCEPT !.wrote = c]
  BY <1>2
<1>. HIDE DEF j, b
<1>5. Moves(p) /\ pc'[p] = label /\ job'[p] = j /\ exit' = exit
  BY <1>3, GoIs DEF Go
<1>. QED
  BY <1>3, <1>4, <1>5 DEF Wrote

LEMMA ConfigErrno ==
    ASSUME NEW lines
    PROVE  ConfigRead(lines).errno \in {"EOK", "ENOENT"}
BY DEF ConfigRead

(* The lines of a configuration are read as they were written.             *)
LEMMA ConfigIs ==
    ASSUME NEW c, Config(c)
    PROVE  /\ c = Absent \/ c \in Lines
           /\ ConfigRead(c).errno = "EOK" =>
                 \E id \in Installed, f \in Distinct :
                    c = ConfigWrite(id, f) /\ ConfigRead(c).id = id /\ ConfigRead(c).features = f
<1>1. CASE c \in {Absent, <<>>}
  <2>1. <<>> \in Lines
    BY DEF Lines
  <2>2. ConfigRead(c).errno = "ENOENT"
    BY <1>1, ConfigReadNothing
  <2>. QED
    BY <1>1, <2>1, <2>2
<1>2. ASSUME NEW id \in Installed, NEW f \in Distinct, c = ConfigWrite(id, f)
      PROVE  c \in Lines /\ ConfigRead(c).id = id /\ ConfigRead(c).features = f
  <2>1. f \in Seq(Features) /\ IsInjective(f)
    BY DEF Distinct
  <2>2. c \in Lines /\ ConfigRead(c) = [errno |-> "EOK", id |-> id, features |-> f]
    BY <1>2, <2>1, ConfigWritten
  <2>. QED
    BY <2>2
<1>. QED
  BY <1>1, <1>2 DEF Config

LEMMA ReadsIs == Reads => UNCHANGED <<disk, conf, gen, name, sum, saved, started, faults, pkg, overlap>>
BY DEF Reads, NoFault, counters, Frame, disk

(* The calls that read, one by one.                                        *)
LEMMA CurrentIs ==
    ASSUME CInv, NEW p \in Procs, Current(p)
    PROVE  \/ Halts(p)
           \/ /\ ConfigRead(conf).errno = "EOK"
              /\ Passes(p, "profile", [job[p] EXCEPT !.id = ConfigRead(conf).id])
<1>1. disk' = disk
  BY ReadsIs DEF Current
<1>2. ConfigRead(conf).errno \notin {"EOK", "help"} \/ ConfigRead(conf).errno = "EOK"
  BY ConfigErrno
<1>3. CASE ConfigRead(conf).errno # "EOK" /\ End(p, ConfigRead(conf).errno)
  BY <1>1, <1>2, <1>3, EndsIs
<1>. DEFINE j == [job[p] EXCEPT !.id = ConfigRead(conf).id]
<1>4. CASE ConfigRead(conf).errno = "EOK" /\ Go(p, "profile", j) /\ UNCHANGED asked
  <2>1. "profile" \in Labels
    BY DEF Labels
  <2>. HIDE DEF j
  <2>2. Passes(p, "profile", j)
    BY <1>4, <2>1, PassesIs
  <2>. QED
    BY <1>4, <2>2 DEF j
<1>. QED
  BY <1>3, <1>4 DEF Current

LEMMA ProfileIs ==
    ASSUME CInv, NEW p \in Procs, Profile(p)
    PROVE  Halts(p) \/ (job[p].line.name \in Savers /\ Passes(p, "backup", job[p]))
<1>1. disk' = disk /\ ~At(p, "idle") /\ At(p, "profile")
  BY ReadsIs DEF Profile
<1>2. LookUp(job[p].id) \in {"ENOMEM", "EFAULT", "EOK"}
  BY DEF LookUp
<1>3. CASE LookUp(job[p].id) # "EOK" /\ End(p, LookUp(job[p].id))
  BY <1>1, <1>2, <1>3, EndsIs
<1>4. CASE Following(p) /\ UNCHANGED <<job, exit, asked>>
  <2>1. pc \in [Procs -> Labels] /\ job[p].line.name \in {"select", "enable-feature"}
        /\ DOMAIN job = Procs
    BY <1>1 DEF CInv, Placed
  <2>2. pc' = [pc EXCEPT ![p] = "backup"]
    BY <1>1, <1>4, <2>1, FollowingIs
  <2>. QED
    BY <1>4, <2>1, <2>2 DEF Passes, Moves, Labels, Savers
<1>. QED
  BY <1>3, <1>4 DEF Profile

LEMMA BackupPasses ==
    ASSUME CInv, NEW p \in Procs, Backup(p)
    PROVE  /\ Leads(job[p].line.name, pc'[p]) /\ Passes(p, pc'[p], job[p])
           /\ UNCHANGED <<disk, conf, gen, name, sum, started, faults, pkg, overlap>>
           /\ saved' = IF AsksBackup(job[p].options) THEN Snapshot ELSE saved
BY BackupIs DEF Backup, Passes, NoFault, counters, disk, Frame

LEMMA UsePasses ==
    ASSUME CInv, NEW p \in Procs, NEW label \in Labels, NEW config, NEW features,
           Use(p, label, config, features)
    PROVE  Passes(p, label,
                  [job[p] EXCEPT !.id = config.id, !.features = features, !.version = pkg])
<1>. DEFINE j == [job[p] EXCEPT !.id = config.id, !.features = features, !.version = pkg]
<1>1. Go(p, label, j) /\ asked' = asked
  BY DEF Use
<1>. HIDE DEF j
<1>2. Passes(p, label, j)
  BY <1>1, PassesIs
<1>. QED
  BY <1>2 DEF j

LEMMA FeatureEnableIs ==
    ASSUME CInv, NEW p \in Procs, FeatureEnable(p)
    PROVE  \/ Halts(p)
           \/ /\ ConfigRead(conf).errno = "EOK"
              /\ Passes(p, "activate",
                    [job[p] EXCEPT !.id = ConfigRead(conf).id,
                        !.features = AddValue(ConfigRead(conf).features, job[p].word, TRUE),
                        !.version = pkg])
<1>1. disk' = disk
  BY ReadsIs DEF FeatureEnable
<1>2. ConfigRead(conf).errno \notin {"EOK", "help"} \/ ConfigRead(conf).errno = "EOK"
  BY ConfigErrno
<1>3. CASE ConfigRead(conf).errno # "EOK" /\ End(p, ConfigRead(conf).errno)
  BY <1>1, <1>2, <1>3, EndsIs
<1>4. "activate" \in Labels
  BY DEF Labels
<1>. QED
  BY <1>3, <1>4, UsePasses DEF FeatureEnable

LEMMA FeatureDisableIs ==
    ASSUME CInv, NEW p \in Procs, FeatureDisable(p)
    PROVE  \/ Halts(p)
           \/ /\ ConfigRead(conf).errno = "EOK"
              /\ Passes(p, "activate",
                    [job[p] EXCEPT !.id = ConfigRead(conf).id,
                        !.features = DelValue(ConfigRead(conf).features, job[p].word, 0, Garbage),
                        !.version = pkg])
<1>1. disk' = disk
  BY ReadsIs DEF FeatureDisable
<1>2. ConfigRead(conf).errno \notin {"EOK", "help"} \/ ConfigRead(conf).errno = "EOK"
  BY ConfigErrno
<1>3. CASE ConfigRead(conf).errno # "EOK" /\ End(p, ConfigRead(conf).errno)
  BY <1>1, <1>2, <1>3, EndsIs
<1>4. "activate" \in Labels
  BY DEF Labels
<1>. QED
  BY <1>3, <1>4, UsePasses DEF FeatureDisable

LEMMA ApplyChangesIs ==
    ASSUME CInv, NEW p \in Procs, ApplyChanges(p)
    PROVE  \/ Halts(p)
           \/ ConfigRead(conf).errno = "EOK" /\ sum = pkg /\ Ends(p)
           \/ /\ ConfigRead(conf).errno = "EOK" /\ ConfigRead(conf).id \in Installed
              /\ Passes(p, "trim",
                    [job[p] EXCEPT !.id = ConfigRead(conf).id,
                        !.features = ConfigRead(conf).features, !.version = pkg])
<1>1. disk' = disk
  BY ReadsIs DEF ApplyChanges
<1>2. ConfigRead(conf).errno \notin {"EOK", "help"} \/ ConfigRead(conf).errno = "EOK"
  BY ConfigErrno
<1>3. CASE ConfigRead(conf).errno # "EOK" /\ End(p, ConfigRead(conf).errno)
  BY <1>1, <1>2, <1>3, EndsIs
<1>4. CASE End(p, "ENOENT")
  BY <1>1, <1>4, EndsIs
<1>5. CASE ConfigRead(conf).errno = "EOK" /\ sum = pkg /\ End(p, "EOK")
  BY <1>5, EndsIs
<1>6. "trim" \in Labels
  BY DEF Labels
<1>. QED
  BY <1>3, <1>4, <1>5, <1>6, UsePasses DEF ApplyChanges

LEMMA TrimIs ==
    ASSUME CInv, NEW p \in Procs, Trim(p)
    PROVE  LET j == job[p] IN
           \/ j.at > Len(j.features) /\ Passes(p, "activate", j)
           \/ /\ j.at <= Len(j.features)
              /\ j.features[j.at] \in Supported[j.version][j.id]
              /\ Passes(p, "trim", [j EXCEPT !.at = @ + 1])
           \/ /\ j.at <= Len(j.features)
              /\ j.features[j.at] \notin Supported[j.version][j.id]
              /\ \E stale \in {j.features[j.at], Garbage} :
                    Passes(p, "trim",
                       [j EXCEPT !.features = DelValue(@, j.features[j.at], j.at, stale)])
<1>1. "activate" \in Labels /\ "trim" \in Labels
  BY DEF Labels
<1>2. \A j : Go(p, "activate", j) /\ asked' = asked => Passes(p, "activate", j)
  BY <1>1, PassesIs
<1>3. \A j : Go(p, "trim", j) /\ asked' = asked => Passes(p, "trim", j)
  BY <1>1, PassesIs
<1>. QED
  BY <1>2, <1>3, Zenon DEF Trim

LEMMA ActivateIs ==
    ASSUME CInv, NEW p \in Procs, Activate(p)
    PROVE  \/ Halts(p)
           \/ /\ job[p].id \in Installed /\ Check(job[p].id, job[p].features)
              /\ Passes(p, "generate", [job[p] EXCEPT !.version = pkg])
<1>. DEFINE j == [job[p] EXCEPT !.version = pkg]
<1>1. disk' = disk
  BY ReadsIs DEF Activate
<1>2. \/ \E errno \in {"ENOENT", "EINVAL", "EEXIST"} : End(p, errno)
      \/ /\ job[p].id \in Installed /\ Check(job[p].id, job[p].features)
         /\ Go(p, "generate", j) /\ asked' = asked
  BY DEF Activate
<1>3. ASSUME NEW errno \in {"ENOENT", "EINVAL", "EEXIST"}, End(p, errno) PROVE Halts(p)
  BY <1>1, <1>3, EndsIs
<1>4. "generate" \in Labels
  BY DEF Labels
<1>. HIDE DEF j
<1>5. Go(p, "generate", j) /\ asked' = asked => Passes(p, "generate", j)
  BY <1>4, PassesIs
<1>6. \/ Halts(p)
      \/ /\ job[p].id \in Installed /\ Check(job[p].id, job[p].features)
         /\ Passes(p, "generate", j)
  BY <1>2, <1>3, <1>5
<1>. QED
  BY <1>6 DEF j

(* The writes lead on to each other.                                       *)
LEMMA WritesLead ==
    ASSUME CInv, NEW p \in Procs, Changes(p)
    PROVE  /\ UNCHANGED <<saved, pkg, overlap>> /\ ~At(p, "idle")
           /\ \/ Ends(p)
              \/ \E label \in Writing :
                    pc[p] \in {"generate"} \cup Writing /\ Wrote(p, label)
              \/ \E label \in OptingOut : pc[p] \in OptingOut /\ Wrote(p, label)
<1>a. UNCHANGED <<saved, pkg, overlap>> /\ ~At(p, "idle")
  BY ChangesAre
<1>w. ASSUME NEW label \in Labels, Write(p, label) PROVE Wrote(p, label)
  BY <1>a, <1>w, WroteIs
<1>e. ASSUME NEW errno, End(p, errno) PROVE Ends(p)
  BY <1>e, EndsIs
<1>1. CASE Generate(p) \/ Truncate(p) \/ Record(p) \/ Unlink(p)
  BY <1>a, <1>w, <1>1 DEF Generate, Truncate, Record, Unlink, Labels, Writing
<1>2. CASE Symlink(p)
  BY <1>a, <1>w, <1>e, <1>2 DEF Symlink, Labels, Writing
<1>3. CASE KeepChecksum(p) \/ RemoveFiles(p)
  BY <1>a, <1>e, <1>3 DEF KeepChecksum, RemoveFiles
<1>4. CASE CopyName(p)
  BY <1>a, <1>w, <1>e, <1>4 DEF CopyName, Labels, OptingOut
<1>5. CASE RemoveConf(p)
  BY <1>a, <1>w, <1>5 DEF RemoveConf, Labels, OptingOut
<1>. QED
  BY <1>1, <1>2, <1>3, <1>4, <1>5 DEF Changes

(* A command that is begun, and what becomes of the others.                *)
LEMMA BeginsIs ==
    ASSUME CInv, NEW p \in Procs, Begin(p)
    PROVE  /\ At(p, "idle") /\ UNCHANGED <<disk, conf, gen, name, sum, saved, pkg, faults, asked>>
           /\ exit' = 0 /\ started' = started + 1
           /\ started < IF Quiet THEN MaxCommands ELSE MaxBeside
           /\ pc' \in [Procs -> Labels]
           /\ \A q \in Procs \ {p} :
                 /\ pc'[q] = pc[q] /\ (At(q, "idle") => job'[q] = NoJob)
                 /\ ~At(q, "idle") => job'[q] = [job[q] EXCEPT !.alone = FALSE]
           /\ \E line \in CommandLines :
                 /\ line.name \in NeedRoot /\ Routed[line].errno = "EOK"
                 /\ \/ pc'[p] = "current" /\ line.name = "enable-feature"
                    \/ pc'[p] = "profile" /\ line.name = "select"
                    \/ pc'[p] = "backup" /\ line.name \in Savers \ {"select"}
                    \/ pc'[p] = "copy" /\ line.name = "opt-out"
                 /\ job'[p] =
                       [line |-> line, id |-> Routed[line].id, features |-> Routed[line].features,
                        word |-> Routed[line].id, options |-> Routed[line].options, at |-> 1,
                        version |-> pkg, alone |-> Quiet, wrote |-> FALSE,
                        meant |-> Meant(line), before |-> Snapshot]
<1>. DEFINE Job(line, given) ==
       [line |-> line, id |-> given.id, features |-> given.features,
        word |-> given.id, options |-> given.options, at |-> 1, version |-> pkg,
        alone |-> Quiet, wrote |-> FALSE, meant |-> Meant(line), before |-> Snapshot]
<1>1. PICK line \in CommandLines :
         /\ line.name \in NeedRoot /\ Routed[line].errno = "EOK"
         /\ pc' = [pc EXCEPT ![p] = Head(Calls[line.name])]
         /\ job' = [Disturbed EXCEPT ![p] = Job(line, Routed[line])]
         /\ overlap' = (overlap \/ ~Quiet)
  BY Zenon DEF Begin
<1>2. /\ UNCHANGED <<disk, conf, gen, name, sum, saved, pkg, faults, asked>> /\ At(p, "idle")
      /\ exit' = 0 /\ started' = started + 1
      /\ started < IF Quiet THEN MaxCommands ELSE MaxBeside
  BY DEF Begin, disk
<1>3. job'[p] = Job(line, Routed[line])
      /\ \A q \in Procs \ {p} : job'[q] = Disturbed[q]
  BY <1>1 DEF Disturbed
<1>. HIDE DEF Job
<1>4. \A q \in Procs \ {p} : /\ At(q, "idle") => job'[q] = NoJob
                             /\ ~At(q, "idle") => job'[q] = [job[q] EXCEPT !.alone = FALSE]
  BY <1>3 DEF Disturbed
<1>5. \/ Head(Calls[line.name]) = "current" /\ line.name = "enable-feature"
      \/ Head(Calls[line.name]) = "profile" /\ line.name = "select"
      \/ Head(Calls[line.name]) = "backup" /\ line.name \in Savers \ {"select"}
      \/ Head(Calls[line.name]) = "copy" /\ line.name = "opt-out"
  <2>1. line.name \in {"select", "apply-changes", "enable-feature", "disable-feature", "opt-out"}
    BY <1>1 DEF NeedRoot
  <2>2. /\ Head(<<"profile", "backup", "activate">>) = "profile"
        /\ Head(<<"backup", "apply">>) = "backup"
        /\ Head(<<"current", "profile", "backup", "enable">>) = "current"
        /\ Head(<<"backup", "disable">>) = "backup" /\ Head(<<"copy">>) = "copy"
    OBVIOUS
  <2>. QED
    BY <2>1, <2>2, CallsAre DEF Savers
<1>6. pc'[p] = Head(Calls[line.name]) /\ pc' \in [Procs -> Labels]
      /\ \A q \in Procs \ {p} : pc'[q] = pc[q]
  BY <1>1, <1>5 DEF CInv, Labels
<1>7. \/ pc'[p] = "current" /\ line.name = "enable-feature"
      \/ pc'[p] = "profile" /\ line.name = "select"
      \/ pc'[p] = "backup" /\ line.name \in Savers \ {"select"}
      \/ pc'[p] = "copy" /\ line.name = "opt-out"
  BY <1>5, <1>6
<1>8. \E l \in CommandLines :
         /\ l.name \in NeedRoot /\ Routed[l].errno = "EOK"
         /\ \/ pc'[p] = "current" /\ l.name = "enable-feature"
            \/ pc'[p] = "profile" /\ l.name = "select"
            \/ pc'[p] = "backup" /\ l.name \in Savers \ {"select"}
            \/ pc'[p] = "copy" /\ l.name = "opt-out"
         /\ job'[p] = Job(l, Routed[l])
  BY <1>1, <1>3, <1>7
<1>. USE DEF Job
<1>. QED
  BY <1>2, <1>4, <1>6, <1>8, Zenon

LEMMA TFrame ==
    ASSUME CInv, TInv, NEW p \in Procs, Moves(p), pkg' = pkg,
           pc'[p] = "idle" \/ Does(pc'[p], job'[p], pkg)
    PROVE  TInv'
<1>. SUFFICES ASSUME NEW q \in Procs, pc'[q] # "idle" PROVE Does(pc'[q], job'[q], pkg')
  BY DEF TInv, Doing
<1>1. CASE q = p
  BY <1>1
<1>2. CASE q # p
  <2>1. pc'[q] = pc[q] /\ job'[q] = job[q]
    BY <1>2 DEF Moves
  <2>2. Does(pc[q], job[q], pkg)
    BY <2>1 DEF TInv, Doing
  <2>. QED
    BY <2>1, <2>2
<1>. QED
  BY <1>1, <1>2

LEMMA TBegin ==
    ASSUME CInv, TInv, KInv, NEW p \in Procs, Begin(p)
    PROVE  TInv'
<1>. SUFFICES ASSUME NEW q \in Procs, pc'[q] # "idle" PROVE Does(pc'[q], job'[q], pkg)
  BY BeginsIs DEF TInv, Doing
<1>1. CASE q = p
  <2>1. PICK line \in CommandLines :
           /\ line.name \in NeedRoot /\ Routed[line].errno = "EOK"
           /\ \/ pc'[p] = "current" /\ line.name = "enable-feature"
              \/ pc'[p] = "profile" /\ line.name = "select"
              \/ pc'[p] = "backup" /\ line.name \in Savers \ {"select"}
              \/ pc'[p] = "copy" /\ line.name = "opt-out"
           /\ job'[p] =
                 [line |-> line, id |-> Routed[line].id, features |-> Routed[line].features,
                  word |-> Routed[line].id, options |-> Routed[line].options, at |-> 1,
                  version |-> pkg, alone |-> Quiet, wrote |-> FALSE,
                  meant |-> Meant(line), before |-> Snapshot]
    BY BeginsIs
  <2>2. Meant(line) \in Wishes
    BY <2>1, MeantTyped DEF KInv, CInv
  <2>3. Routed[line].features \in Seq(Features \cup Typed) /\ IsInjective(Routed[line].features)
    BY <2>1, HeardTyped
  <2>. DEFINE j == job'[p]
  <2>4. /\ j.line = line /\ j.id = Routed[line].id /\ j.features = Routed[line].features
        /\ j.word = Routed[line].id /\ j.at = 1 /\ j.meant = Meant(line)
    BY <2>1
  <2>. HIDE DEF j
  <2>5. Does(pc'[p], j, pkg)
    BY <2>1, <2>2, <2>3, <2>4 DEF Does, Early, Writing, Savers
  <2>. QED
    BY <1>1, <2>5 DEF j
<1>2. CASE q # p
  <2>1. /\ pc'[q] = pc[q] /\ pc[q] # "idle" /\ job'[q] = [job[q] EXCEPT !.alone = FALSE]
    BY <1>2, BeginsIs
  <2>2. Does(pc[q], job[q], pkg) /\ DOMAIN job[q] = Fields
    BY <2>1 DEF TInv, Doing, CInv, Placed
  <2>. DEFINE j == job[q]
              k == job'[q]
  <2>3. /\ k.line = j.line /\ k.id = j.id /\ k.features = j.features /\ k.word = j.word
        /\ k.at = j.at /\ k.meant = j.meant /\ k.version = j.version
    BY <2>1, <2>2 DEF Fields
  <2>. HIDE DEF j, k
  <2>4. Does(pc[q], j, pkg)
    BY <2>2 DEF j
  <2>5. Does(pc[q], k, pkg)
    BY <2>3, <2>4 DEF Does
  <2>. QED
    BY <2>1, <2>5 DEF k
<1>. QED
  BY <1>1, <1>2

(* The features of a configuration, when one is added or removed.          *)
LEMMA AddedIs ==
    ASSUME NEW f \in Distinct, NEW word \in Typed, NEW g, g = AddValue(f, word, TRUE)
    PROVE  /\ g \in Seq(Features \cup Typed) /\ IsInjective(g)
           /\ ToSet(g) = ToSet(f) \cup {word}
<1>1. f \in Seq(Features \cup Typed) /\ IsInjective(f)
  BY DEF Distinct
<1>2. ToSet(g) = ToSet(f) \cup {word} /\ IsInjective(g)
  BY <1>1, AddValueIs
<1>3. Append(f, word) \in Seq(Features \cup Typed)
  BY <1>1
<1>4. g \in Seq(Features \cup Typed)
  BY <1>1, <1>3 DEF AddValue
<1>. QED
  BY <1>2, <1>4

LEMMA RemovedIs ==
    ASSUME NEW f \in Distinct, NEW word, NEW g, g = DelValue(f, word, 0, Garbage)
    PROVE  g \in Distinct /\ ToSet(g) = ToSet(f) \ {word}
<1>1. f \in Seq(Features) /\ IsInjective(f)
  BY DEF Distinct
<1>2. 0 \in 0..Len(f) /\ \A i \in 1..0 : f[i] # word
  BY <1>1
<1>3. \A i \in 1..Len(f) : f[i] = (IF 0 # 0 /\ i > 0 THEN Garbage ELSE word) <=> f[i] = word
  OBVIOUS
<1>4. g \in Seq(Features) /\ IsInjective(g) /\ ToSet(g) = ToSet(f) \ {word}
  BY <1>1, <1>2, <1>3, DelValueIs
<1>. QED
  BY <1>4 DEF Distinct

(* The loop of apply-changes removes the feature it stands at, whatever the*)
(* memory holds that it has freed, and no other.                           *)
LEMMA TrimmedIs ==
    ASSUME NEW f \in Distinct, NEW at \in 1..Len(f), NEW stale \in {f[at], Garbage},
           NEW g, g = DelValue(f, f[at], at, stale)
    PROVE  /\ g \in Distinct /\ ToSet(g) = ToSet(f) \ {f[at]}
           /\ \A i \in 1..(at - 1) : i <= Len(g) /\ g[i] = f[i]
<1>1. f \in Seq(Features) /\ IsInjective(f) /\ Len(f) \in Nat /\ DOMAIN f = 1..Len(f)
      /\ \A i \in 1..Len(f) : f[i] \in Features
  BY DEF Distinct
<1>2. at - 1 \in 0..Len(f) /\ \A i \in 1..(at - 1) : f[i] # f[at]
  BY <1>1 DEF IsInjective
<1>3. ASSUME NEW i \in 1..Len(f)
      PROVE  f[i] = (IF at # 0 /\ i > at THEN stale ELSE f[at]) <=> f[i] = f[at]
  <2>1. CASE i > at
    <3>1. f[i] # f[at] /\ f[i] # Garbage
      BY <1>1, <2>1, MarkersAssumption DEF IsInjective
    <3>. QED
      BY <2>1, <3>1
  <2>2. CASE ~(i > at)
    BY <2>2
  <2>. QED
    BY <2>1, <2>2
<1>4. /\ g \in Seq(Features) /\ IsInjective(g) /\ ToSet(g) = ToSet(f) \ {f[at]}
      /\ \A i \in 1..(at - 1) : i <= Len(g) /\ g[i] = f[i]
  BY <1>1, <1>2, <1>3, DelValueIs
<1>. QED
  BY <1>4 DEF Distinct

LEMMA WordTyped ==
    ASSUME OInv, NEW p \in Procs, ~At(p, "idle"), Doing(p),
           job[p].line.name \in {"enable-feature", "disable-feature"}
    PROVE  job[p].word \in Typed /\ job[p].word = Head(Free[job[p].line])
<1>1. job[p].line \in CommandLines /\ Routed[job[p].line].errno = "EOK"
      /\ job[p].line.name \in NeedRoot /\ job[p].word = Routed[job[p].line].id
  BY DEF OInv, Told, Doing, Does
<1>. QED
  BY <1>1, HeardTyped

LEMMA HaltsIs ==
    ASSUME NEW p \in Procs, Halts(p) \/ Ends(p)
    PROVE  Moves(p) /\ pc'[p] = "idle"
BY DEF Halts, Ends

LEMMA DoesCurrent ==
    ASSUME CInv, TInv, NEW p \in Procs, Current(p)
    PROVE  pc'[p] = "idle" \/ Does(pc'[p], job'[p], pkg)
<1>1. Does("current", job[p], pkg) /\ DOMAIN job[p] = Fields
      /\ job[p].line.name = "enable-feature"
  BY DEF Current, TInv, Doing, CInv, Placed
<1>2. CASE Passes(p, "profile", [job[p] EXCEPT !.id = ConfigRead(conf).id])
  <2>. DEFINE j == job[p]
              k == job'[p]
  <2>1. /\ k.line = j.line /\ k.features = j.features /\ k.word = j.word
        /\ k.at = j.at /\ k.meant = j.meant
    BY <1>1, <1>2 DEF Fields, Passes
  <2>2. pc'[p] = "profile"
    BY <1>2 DEF Passes
  <2>. HIDE DEF k
  <2>3. Does("profile", k, pkg)
    BY <1>1, <2>1 DEF Does, Early, Writing
  <2>. QED
    BY <2>2, <2>3 DEF k
<1>. QED
  BY <1>2, CurrentIs, HaltsIs

LEMMA DoesProfile ==
    ASSUME CInv, TInv, NEW p \in Procs, Profile(p)
    PROVE  pc'[p] = "idle" \/ Does(pc'[p], job'[p], pkg)
<1>1. Does("profile", job[p], pkg)
  BY DEF Profile, TInv, Doing
<1>2. CASE Passes(p, "backup", job[p])
  <2>. DEFINE j == job[p]
  <2>1. pc'[p] = "backup" /\ job'[p] = j
    BY <1>2 DEF Passes
  <2>. HIDE DEF j
  <2>2. Does("backup", j, pkg)
    BY <1>1 DEF Does, Early, Writing, j
  <2>. QED
    BY <2>1, <2>2
<1>. QED
  BY <1>2, ProfileIs, HaltsIs

LEMMA DoesBackup ==
    ASSUME CInv, TInv, NEW p \in Procs, Backup(p)
    PROVE  Does(pc'[p], job'[p], pkg)
<1>1. Does("backup", job[p], pkg)
  BY DEF Backup, TInv, Doing
<1>2. Leads(job[p].line.name, pc'[p]) /\ job'[p] = job[p]
  BY BackupPasses DEF Passes
<1>. DEFINE j == job[p]
            label == pc'[p]
<1>3. Does("backup", j, pkg) /\ Leads(j.line.name, label)
  BY <1>1, <1>2
<1>. HIDE DEF j, label
<1>4. Does(label, j, pkg)
  BY <1>3 DEF Does, Leads, Early, Writing
<1>. QED
  BY <1>2, <1>4 DEF j, label

LEMMA DoesEnable ==
    ASSUME CInv, OInv, TInv, KInv, NEW p \in Procs, FeatureEnable(p)
    PROVE  pc'[p] = "idle" \/ Does(pc'[p], job'[p], pkg)
<1>1. /\ Doing(p) /\ Does("enable", job[p], pkg) /\ DOMAIN job[p] = Fields /\ ~At(p, "idle")
      /\ job[p].line.name = "enable-feature"
  BY DEF FeatureEnable, TInv, Doing, Does, CInv, Placed
<1>2. job[p].word \in Typed
  BY <1>1, WordTyped
<1>. DEFINE j == job[p]
            k == job'[p]
            config == ConfigRead(conf)
<1>3. ASSUME config.errno = "EOK",
             Passes(p, "activate",
                [j EXCEPT !.id = config.id,
                    !.features = AddValue(config.features, j.word, TRUE), !.version = pkg])
      PROVE  Does(pc'[p], k, pkg)
  <2>1. PICK f \in Distinct : config.features = f
    BY <1>3, ConfigIs DEF KInv
  <2>2. k = [j EXCEPT !.id = config.id, !.features = AddValue(f, j.word, TRUE), !.version = pkg]
        /\ pc'[p] = "activate"
    BY <1>3, <2>1 DEF Passes
  <2>. DEFINE g == AddValue(f, j.word, TRUE)
  <2>3. g \in Seq(Features \cup Typed) /\ IsInjective(g)
    BY <1>2, AddedIs
  <2>. HIDE DEF k, g, config
  <2>4. /\ k.features = g /\ k.line = j.line /\ k.word = j.word /\ k.meant = j.meant
        /\ k.at = j.at
    BY <1>1, <2>2 DEF g, Fields
  <2>5. Does("activate", k, pkg)
    BY <1>1, <2>3, <2>4 DEF Does, Early, Writing
  <2>. QED
    BY <2>2, <2>5
<1>. QED
  BY <1>3, FeatureEnableIs, HaltsIs

LEMMA DoesDisable ==
    ASSUME CInv, OInv, TInv, KInv, NEW p \in Procs, FeatureDisable(p)
    PROVE  pc'[p] = "idle" \/ Does(pc'[p], job'[p], pkg)
<1>1. /\ Does("disable", job[p], pkg) /\ DOMAIN job[p] = Fields
      /\ job[p].line.name = "disable-feature"
  BY DEF FeatureDisable, TInv, Doing, Does, CInv, Placed
<1>. DEFINE j == job[p]
            k == job'[p]
            config == ConfigRead(conf)
<1>3. ASSUME config.errno = "EOK",
             Passes(p, "activate",
                [j EXCEPT !.id = config.id,
                    !.features = DelValue(config.features, j.word, 0, Garbage), !.version = pkg])
      PROVE  Does(pc'[p], k, pkg)
  <2>1. PICK f \in Distinct : config.features = f
    BY <1>3, ConfigIs DEF KInv
  <2>2. k = [j EXCEPT !.id = config.id, !.features = DelValue(f, j.word, 0, Garbage),
                      !.version = pkg]
        /\ pc'[p] = "activate"
    BY <1>3, <2>1 DEF Passes
  <2>. DEFINE g == DelValue(f, j.word, 0, Garbage)
  <2>3. g \in Distinct
    BY RemovedIs
  <2>. HIDE DEF k, g, config
  <2>x. g \in Seq(Features \cup Typed) /\ IsInjective(g)
    BY <2>3 DEF Distinct
  <2>4. /\ k.features = g /\ k.line = j.line /\ k.word = j.word /\ k.meant = j.meant
        /\ k.at = j.at
    BY <1>1, <2>2 DEF g, Fields
  <2>5. Does("activate", k, pkg)
    BY <1>1, <2>x, <2>4 DEF Does, Early, Writing
  <2>. QED
    BY <2>2, <2>5
<1>. QED
  BY <1>3, FeatureDisableIs, HaltsIs

LEMMA DoesApply ==
    ASSUME CInv, TInv, KInv, NEW p \in Procs, ApplyChanges(p)
    PROVE  pc'[p] = "idle" \/ Does(pc'[p], job'[p], pkg)
<1>1. /\ Does("apply", job[p], pkg) /\ DOMAIN job[p] = Fields /\ job[p].at = 1
      /\ job[p].line.name = "apply-changes"
  BY DEF ApplyChanges, TInv, Doing, Does, CInv, Placed
<1>. DEFINE j == job[p]
            k == job'[p]
            config == ConfigRead(conf)
<1>3. ASSUME config.errno = "EOK", config.id \in Installed,
             Passes(p, "trim",
                [j EXCEPT !.id = config.id, !.features = config.features, !.version = pkg])
      PROVE  Does(pc'[p], k, pkg)
  <2>1. PICK f \in Distinct : config.features = f
    BY <1>3, ConfigIs DEF KInv
  <2>2. k = [j EXCEPT !.id = config.id, !.features = f, !.version = pkg] /\ pc'[p] = "trim"
    BY <1>3, <2>1 DEF Passes
  <2>3. f \in Seq(Features) /\ f \in Seq(Features \cup Typed) /\ IsInjective(f) /\ Len(f) \in Nat
    BY DEF Distinct
  <2>4. config.id \in Installed
    BY <1>3
  <2>. HIDE DEF k, config
  <2>5. /\ k.features = f /\ k.line = j.line /\ k.word = j.word /\ k.meant = j.meant
        /\ k.at = j.at /\ k.id = config.id /\ k.version = pkg
    BY <1>1, <2>2 DEF Fields
  <2>6. Does("trim", k, pkg)
    BY <1>1, <2>3, <2>4, <2>5 DEF Does, Early, Writing
  <2>. QED
    BY <2>2, <2>6
<1>. QED
  BY <1>3, ApplyChangesIs, HaltsIs

(* At the loop of apply-changes the features are those of a configuration. *)
LEMMA Trimming ==
    ASSUME CInv, TInv, NEW p \in Procs, At(p, "trim")
    PROVE  /\ Does("trim", job[p], pkg) /\ DOMAIN job[p] = Fields
           /\ job[p].line.name = "apply-changes"
           /\ job[p].features \in Distinct /\ Len(job[p].features) \in Nat
           /\ job[p].at \in Nat \ {0} /\ job[p].version = pkg /\ job[p].id \in Installed
           /\ Supported[pkg][job[p].id] \subseteq Features
           /\ \A i \in 1..Len(job[p].features) :
                 i < job[p].at => job[p].features[i] \in Supported[pkg][job[p].id]
<1>1. Does("trim", job[p], pkg) /\ DOMAIN job[p] = Fields /\ pkg \in Versions
  BY DEF TInv, Doing, CInv, Placed
<1>2. /\ job[p].line.name = "apply-changes" /\ job[p].features \in Seq(Features)
      /\ IsInjective(job[p].features)
      /\ job[p].at \in Nat \ {0} /\ job[p].version = pkg /\ job[p].id \in Installed
      /\ \A i \in 1..Len(job[p].features) :
                 i < job[p].at => job[p].features[i] \in Supported[pkg][job[p].id]
  BY <1>1 DEF Does
<1>3. Supported[pkg][job[p].id] \subseteq Features
  BY <1>1, <1>2, SupportedAssumption
<1>. QED
  BY <1>1, <1>2, <1>3 DEF Distinct

LEMMA DoesTrim ==
    ASSUME CInv, TInv, NEW p \in Procs, Trim(p)
    PROVE  Does(pc'[p], job'[p], pkg)
<1>. DEFINE j == job[p]
            k == job'[p]
            f == j.features
            S == Supported[pkg][j.id]
<1>1. /\ Does("trim", j, pkg) /\ DOMAIN j = Fields
      /\ j.line.name = "apply-changes" /\ f \in Distinct /\ Len(f) \in Nat
      /\ j.at \in Nat \ {0} /\ j.version = pkg /\ j.id \in Installed
      /\ \A i \in 1..Len(f) : i < j.at => f[i] \in S
  BY Trimming DEF Trim
<1>2. CASE Passes(p, "activate", j)
  <2>1. pc'[p] = "activate" /\ k = j
    BY <1>2 DEF Passes
  <2>. HIDE DEF j
  <2>2. Does("activate", j, pkg)
    BY <1>1 DEF Does, Early, Writing
  <2>. QED
    BY <2>1, <2>2
<1>3. CASE f[j.at] \in S /\ j.at <= Len(f) /\ Passes(p, "trim", [j EXCEPT !.at = @ + 1])
  <2>1. pc'[p] = "trim" /\ k = [j EXCEPT !.at = @ + 1]
    BY <1>3 DEF Passes
  <2>2. /\ k.line = j.line /\ k.word = j.word /\ k.meant = j.meant /\ k.at = j.at + 1
        /\ k.id = j.id /\ k.features = f /\ k.version = j.version
    BY <1>1, <2>1 DEF Fields
  <2>3. j.at + 1 \in Nat \ {0}
    BY <1>1
  <2>4. \A i \in 1..Len(f) : i < j.at + 1 => f[i] \in S
    BY <1>1, <1>3
  <2>. HIDE DEF k, j, S
  <2>5. Does("trim", k, pkg)
    BY <1>1, <2>2, <2>3, <2>4 DEF Does, Early, Writing, S
  <2>. QED
    BY <2>1, <2>5 DEF k
<1>4. ASSUME NEW stale \in {f[j.at], Garbage}, j.at <= Len(f),
             Passes(p, "trim", [j EXCEPT !.features = DelValue(@, f[j.at], j.at, stale)])
      PROVE  Does(pc'[p], k, pkg)
  <2>. DEFINE g == DelValue(f, f[j.at], j.at, stale)
  <2>1. pc'[p] = "trim" /\ k = [j EXCEPT !.features = g]
    BY <1>4 DEF Passes
  <2>2. /\ k.line = j.line /\ k.word = j.word /\ k.meant = j.meant /\ k.at = j.at
        /\ k.id = j.id /\ k.features = g /\ k.version = j.version
    BY <1>1, <2>1 DEF Fields
  <2>3. j.at \in 1..Len(f)
    BY <1>1, <1>4
  <2>4. g \in Distinct /\ \A i \in 1..(j.at - 1) : i <= Len(g) /\ g[i] = f[i]
    BY <1>1, <2>3, TrimmedIs
  <2>. HIDE DEF g, k
  <2>5. g \in Seq(Features) /\ g \in Seq(Features \cup Typed) /\ IsInjective(g)
        /\ Len(g) \in Nat
    BY <2>4 DEF Distinct
  <2>6. ASSUME NEW i \in 1..Len(g), i < j.at PROVE g[i] \in S
    <3>1. i \in 1..(j.at - 1) /\ i \in 1..Len(f)
      BY <1>1, <2>3, <2>5, <2>6
    <3>. QED
      BY <1>1, <2>4, <2>6, <3>1
  <2>. HIDE DEF j, S, f
  <2>7. Does("trim", k, pkg)
    BY <1>1, <2>2, <2>5, <2>6 DEF Does, Early, Writing, S
  <2>. QED
    BY <2>1, <2>7
<1>. QED
  BY <1>1, <1>2, <1>3, <1>4, TrimIs

LEMMA DoesActivate ==
    ASSUME CInv, TInv, NEW p \in Procs, Activate(p)
    PROVE  pc'[p] = "idle" \/ Does(pc'[p], job'[p], pkg)
<1>. DEFINE j == job[p]
            k == job'[p]
<1>1. Does("activate", j, pkg) /\ DOMAIN j = Fields
  BY DEF Activate, TInv, Doing, CInv, Placed
<1>2. CASE /\ j.id \in Installed /\ Check(j.id, j.features)
           /\ Passes(p, "generate", [j EXCEPT !.version = pkg])
  <2>1. pc'[p] = "generate" /\ k = [j EXCEPT !.version = pkg]
    BY <1>2 DEF Passes
  <2>2. /\ k.line = j.line /\ k.word = j.word /\ k.meant = j.meant /\ k.at = j.at
        /\ k.id = j.id /\ k.features = j.features /\ k.version = pkg
    BY <1>1, <2>1 DEF Fields
  <2>3. ToSet(j.features) \subseteq Supported[pkg][j.id]
    BY <1>2 DEF Check
  <2>. HIDE DEF j, k
  <2>4. Does("generate", k, pkg)
    BY <1>1, <1>2, <2>2, <2>3 DEF Does, Early, Writing
  <2>. QED
    BY <2>1, <2>4 DEF k
<1>. QED
  BY <1>2, ActivateIs, HaltsIs

LEMMA DoesWrite ==
    ASSUME CInv, TInv, NEW p \in Procs, Changes(p)
    PROVE  pc'[p] = "idle" \/ Does(pc'[p], job'[p], pkg)
<1>. DEFINE j == job[p]
            k == job'[p]
<1>1. Does(pc[p], j, pkg) /\ DOMAIN j = Fields
  BY WritesLead DEF TInv, Doing, CInv, Placed
<1>2. ASSUME NEW label, Wrote(p, label),
             \/ label \in Writing /\ pc[p] \in {"generate"} \cup Writing
             \/ label \in OptingOut /\ pc[p] \in OptingOut
      PROVE  Does(pc'[p], k, pkg)
  <2>1. PICK b \in BOOLEAN : k = [j EXCEPT !.wrote = b]
    BY <1>2 DEF Wrote
  <2>2. pc'[p] = label
    BY <1>2 DEF Wrote
  <2>3. /\ k.line = j.line /\ k.word = j.word /\ k.meant = j.meant /\ k.at = j.at
        /\ k.id = j.id /\ k.features = j.features /\ k.version = j.version
    BY <1>1, <2>1 DEF Fields
  <2>. HIDE DEF j, k
  <2>4. Does(label, k, pkg)
    BY <1>1, <1>2, <2>3 DEF Does, Early, Writing, OptingOut
  <2>. QED
    BY <2>2, <2>4
<1>. QED
  BY <1>2, WritesLead, HaltsIs

LEMMA TNext == CInv /\ OInv /\ TInv /\ KInv /\ [Next]_vars => TInv'
<1>. SUFFICES ASSUME CInv, OInv, TInv, KInv, [Next]_vars PROVE TInv'
  OBVIOUS
<1>1. ASSUME NEW p \in Procs, Begin(p) PROVE TInv'
  BY <1>1, TBegin
<1>2. ASSUME NEW p \in Procs, ReadsOn(p) PROVE TInv'
  <2>1. pc'[p] = "idle" \/ Does(pc'[p], job'[p], pkg)
    BY <1>2, DoesCurrent, DoesProfile, DoesEnable, DoesDisable, DoesApply, DoesTrim, DoesActivate
       DEF ReadsOn
  <2>. QED
    BY <1>2, <2>1, ReadsOnIs, TFrame
<1>3. ASSUME NEW p \in Procs, Backup(p) PROVE TInv'
  BY <1>3, DoesBackup, BackupIs, TFrame
<1>4. ASSUME NEW p \in Procs, Changes(p) PROVE TInv'
  BY <1>4, DoesWrite, ChangesAre, TFrame
<1>5. ASSUME NEW p \in Procs, Fail(p) \/ Crash(p) PROVE TInv'
  BY <1>5, StopsAre, TFrame
<1>6. CASE UNCHANGED <<pc, job>> /\ (pkg' = pkg \/ Quiet)
  BY <1>6 DEF TInv, Doing, Quiet
<1>7. CASE UNCHANGED vars
  BY <1>6, <1>7 DEF vars
<1>. QED
  BY <1>1, <1>2, <1>3, <1>4, <1>5, <1>6, <1>7, NextIs

Counted == started' = started /\ (faults' = faults \/ (faults < MaxFaults /\ faults' = faults + 1))

LEMMA CountedIs == NoFault \/ Fault => Counted
BY DEF NoFault, Fault, counters, Counted

(* The features that are written are those of an installed profile.        *)
LEMMA WritingIs ==
    ASSUME CInv, TInv, NEW p \in Procs, pc[p] \in {"generate"} \cup Writing
    PROVE  /\ job[p].id \in Installed /\ job[p].features \in Distinct
           /\ job[p].version = pkg /\ ToSet(job[p].features) \subseteq Supported[pkg][job[p].id]
<1>. DEFINE j == job[p]
            s == j.features
<1>1. /\ s \in Seq(Features \cup Typed) /\ IsInjective(s) /\ j.id \in Installed
      /\ j.version = pkg /\ ToSet(s) \subseteq Supported[pkg][j.id]
  BY DEF TInv, Doing, Does, Writing
<1>2. Supported[pkg][j.id] \subseteq Features
  BY <1>1, SupportedAssumption DEF CInv
<1>. HIDE DEF s, j
<1>3. s \in Seq(ToSet(s))
  BY <1>1, ToSetIn
<1>4. s \in Seq(Features)
  BY <1>1, <1>2, <1>3
<1>. QED
  BY <1>1, <1>4 DEF Distinct, s, j

LEMMA ChangesKeep ==
    ASSUME CInv, TInv, KInv, NEW p \in Procs, Changes(p)
    PROVE  Config(conf') /\ sum' \in {sum, pkg} /\ Counted
<1>1. Config(conf)
  BY DEF KInv
<1>2. CASE Generate(p) \/ Unlink(p) \/ CopyName(p) \/ Symlink(p)
  BY <1>1, <1>2, CountedIs DEF Generate, Unlink, CopyName, Symlink, disk
<1>3. CASE Truncate(p)
  BY <1>3, CountedIs DEF Truncate, Config
<1>4. CASE Record(p)
  <2>1. job[p].id \in Installed /\ job[p].features \in Distinct
    BY <1>4, WritingIs DEF Record, Writing
  <2>2. conf' = ConfigWrite(job[p].id, job[p].features) /\ sum' = sum /\ NoFault
    BY <1>4 DEF Record
  <2>. QED
    BY <2>1, <2>2, CountedIs DEF Config
<1>5. CASE RemoveConf(p)
  BY <1>5, CountedIs DEF RemoveConf, Config
<1>6. CASE KeepChecksum(p) \/ RemoveFiles(p)
  BY <1>1, <1>6, CountedIs DEF KeepChecksum, RemoveFiles
<1>. QED
  BY <1>2, <1>3, <1>4, <1>5, <1>6 DEF Changes

LEMMA ReadsLead ==
    ASSUME CInv, NEW p \in Procs, ReadsOn(p)
    PROVE  /\ UNCHANGED <<disk, conf, gen, name, sum, saved, started, faults, pkg, overlap>>
           /\ \/ Halts(p)
              \/ At(p, "apply") /\ sum = pkg /\ Ends(p)
              \/ \E label \in Labels \ {"idle"} : \E j : Passes(p, label, j)
<1>1. UNCHANGED <<disk, conf, gen, name, sum, saved, started, faults, pkg, overlap>>
  BY ReadsIs DEF ReadsOn, Current, Profile, FeatureEnable, FeatureDisable, ApplyChanges, Trim,
                 Activate
<1>2. {"profile", "backup", "activate", "trim", "generate"} \subseteq Labels \ {"idle"}
  BY DEF Labels
<1>. DEFINE L == {"profile", "backup", "activate", "trim", "generate"}
<1>3. \/ Halts(p) \/ (At(p, "apply") /\ sum = pkg /\ Ends(p))
      \/ \E label \in L : \E j : Passes(p, label, j)
  <2>1. Current(p) => Halts(p) \/ \E j : Passes(p, "profile", j)
    BY CurrentIs
  <2>2. Profile(p) => Halts(p) \/ \E j : Passes(p, "backup", j)
    BY ProfileIs
  <2>3. FeatureEnable(p) => Halts(p) \/ \E j : Passes(p, "activate", j)
    BY FeatureEnableIs
  <2>4. FeatureDisable(p) => Halts(p) \/ \E j : Passes(p, "activate", j)
    BY FeatureDisableIs
  <2>5. ApplyChanges(p) => \/ Halts(p) \/ (At(p, "apply") /\ sum = pkg /\ Ends(p))
                           \/ \E j : Passes(p, "trim", j)
    BY ApplyChangesIs DEF ApplyChanges
  <2>6. Trim(p) => (\E j : Passes(p, "activate", j)) \/ \E j : Passes(p, "trim", j)
    BY TrimIs
  <2>7. Activate(p) => Halts(p) \/ \E j : Passes(p, "generate", j)
    BY ActivateIs
  <2>. QED
    BY <2>1, <2>2, <2>3, <2>4, <2>5, <2>6, <2>7 DEF ReadsOn
<1>. QED
  BY <1>1, <1>2, <1>3

LEMMA SnapshotIs ==
    ASSUME CInv, KInv
    PROVE  Snapshot.live \in Contents /\ Config(Snapshot.conf)
<1>1. Live \in Contents
  BY DEF CInv, Live, Contents
<1>. QED
  BY <1>1 DEF Snapshot, KInv

(* The command that moves leaves things as they should be.                 *)
LEMMA KFrame ==
    ASSUME CInv, KInv, NEW p \in Procs, Moves(p), pc'[p] = "idle" => job'[p] = NoJob,
           exit' \in 0..6 \cup {Killed, exit}, pkg' = pkg, Config(conf'),
           saved' \in {saved, Snapshot}, sum' \in {sum, pkg}, Counted, asked' \in Wishes
    PROVE  KInv'
<1>1. saved' # Absent => saved'.live \in Contents /\ Config(saved'.conf)
  BY SnapshotIs DEF KInv
<1>2. sum' \in Versions \cup {Absent} /\ (sum' \in Versions => sum' <= pkg')
  BY VersionsAssumption DEF KInv, CInv
<1>3. \A q \in Procs : pc'[q] = "idle" => job'[q] = NoJob
  BY DEF KInv, Moves
<1>4. exit' \in 0..6 \cup {Killed}
  BY DEF KInv
<1>5. started' \in 0..MaxCommands /\ faults' \in 0..MaxFaults
  BY BoundsAssumption DEF KInv, Counted
<1>. QED
  BY <1>1, <1>2, <1>3, <1>4, <1>5 DEF KInv

LEMMA KInit == Init => KInv
<1>. SUFFICES ASSUME Init PROVE KInv
  OBVIOUS
<1>1. Config(conf) /\ sum \in {Absent, 0} /\ asked \in Wishes
  <2>1. CASE Unconfigured
    BY <2>1 DEF Unconfigured, Config, Wishes
  <2>2. CASE Configured(Initial[1], Tail(Initial))
    <3>. DEFINE f == Tail(Initial)
                id == Initial[1]
    <3>1. id \in Installed /\ f \in Distinct
      BY InitialAssumption DEF Distinct
    <3>2. ToSet(f) \subseteq Features
      BY InitialAssumption, ToSetIn
    <3>3. /\ conf = ConfigWrite(id, f) /\ sum = 0
          /\ asked = [id |-> id, features |-> ToSet(f)]
      BY <2>2 DEF Configured
    <3>. HIDE DEF f, id
    <3>. QED
      BY <3>1, <3>2, <3>3 DEF Config, Wishes, Goals
  <2>. QED
    BY <2>1, <2>2 DEF Init
<1>2. sum \in Versions \cup {Absent} /\ (sum \in Versions => sum <= pkg)
  BY <1>1, VersionsAssumption, MarkersAssumption DEF Init
<1>3. \A p \in Procs : job[p] = NoJob
  BY DEF Init
<1>4. started \in 0..MaxCommands /\ faults \in 0..MaxFaults /\ exit \in 0..6 /\ saved = Absent
  BY BoundsAssumption DEF Init
<1>. QED
  BY <1>1, <1>2, <1>3, <1>4 DEF KInv

LEMMA KNext == CInv /\ TInv /\ KInv /\ [Next]_vars => KInv'
<1>. SUFFICES ASSUME CInv, TInv, KInv, [Next]_vars PROVE KInv'
  OBVIOUS
<1>a. asked \in Wishes /\ Unknown \in Wishes /\ Config(conf)
  BY DEF KInv, Wishes
<1>b. \A p \in Procs : ~At(p, "idle") => job[p].meant \in Wishes
  BY DEF TInv, Doing, Does
<1>c. ASSUME NEW p \in Procs, ~At(p, "idle"), Halts(p) \/ Ends(p)
      PROVE  /\ Moves(p) /\ (pc'[p] = "idle" => job'[p] = NoJob) /\ asked' \in Wishes
             /\ exit' \in 0..6
  BY <1>a, <1>b, <1>c DEF Halts, Ends
<1>1. ASSUME NEW p \in Procs, Begin(p) PROVE KInv'
  <2>1. /\ UNCHANGED <<conf, sum, saved, pkg, faults, asked>> /\ exit' = 0
        /\ started' = started + 1 /\ started < IF Quiet THEN MaxCommands ELSE MaxBeside
        /\ pc'[p] # "idle"
        /\ \A q \in Procs \ {p} : pc'[q] = pc[q] /\ (At(q, "idle") => job'[q] = NoJob)
    BY <1>1, BeginsIs
  <2>2. started' \in 0..MaxCommands
    BY <2>1, BoundsAssumption DEF KInv
  <2>3. \A q \in Procs : pc'[q] = "idle" => job'[q] = NoJob
    BY <2>1
  <2>. QED
    BY <2>1, <2>2, <2>3 DEF KInv
<1>2. ASSUME NEW p \in Procs, ReadsOn(p) PROVE KInv'
  <2>1. /\ UNCHANGED <<disk, conf, gen, name, sum, saved, started, faults, pkg, overlap>>
        /\ Halts(p) \/ Ends(p) \/ \E label \in Labels \ {"idle"} : \E j : Passes(p, label, j)
    BY <1>2, ReadsLead
  <2>2. Config(conf') /\ Counted /\ ~At(p, "idle")
    BY <1>2, <1>a, <2>1, ReadsOnIs DEF Counted
  <2>3. CASE Halts(p) \/ Ends(p)
    BY <1>c, <2>1, <2>2, <2>3, KFrame
  <2>4. ASSUME NEW label \in Labels \ {"idle"}, NEW j, Passes(p, label, j) PROVE KInv'
    BY <1>a, <2>1, <2>2, <2>4, KFrame DEF Passes
  <2>. QED
    BY <2>1, <2>3, <2>4
<1>3. ASSUME NEW p \in Procs, Backup(p) PROVE KInv'
  <2>1. /\ Leads(job[p].line.name, pc'[p]) /\ Passes(p, pc'[p], job[p])
        /\ UNCHANGED <<conf, gen, name, sum, started, faults, pkg>>
        /\ saved' \in {saved, Snapshot}
    BY <1>3, BackupPasses
  <2>2. Config(conf') /\ Counted
    BY <1>a, <2>1 DEF Counted
  <2>3. pc'[p] # "idle"
    BY <2>1 DEF Leads
  <2>. QED
    BY <1>a, <2>1, <2>2, <2>3, KFrame DEF Passes
<1>4. ASSUME NEW p \in Procs, Changes(p) PROVE KInv'
  <2>1. Config(conf') /\ sum' \in {sum, pkg} /\ Counted
    BY <1>4, ChangesKeep
  <2>2. /\ UNCHANGED <<saved, pkg, overlap>> /\ ~At(p, "idle")
        /\ Ends(p) \/ \E label \in Writing \cup OptingOut : Wrote(p, label)
    BY <1>4, WritesLead
  <2>3. CASE Ends(p)
    BY <1>c, <2>1, <2>2, <2>3, KFrame
  <2>4. ASSUME NEW label \in Writing \cup OptingOut, Wrote(p, label) PROVE KInv'
    <3>1. label # "idle"
      BY DEF Writing, OptingOut
    <3>2. Moves(p) /\ pc'[p] # "idle" /\ exit' = exit /\ asked' \in Wishes
      BY <1>a, <2>4, <3>1 DEF Wrote
    <3>. QED
      BY <2>1, <2>2, <3>2, KFrame
  <2>. QED
    BY <2>2, <2>3, <2>4
<1>5. ASSUME NEW p \in Procs, Fail(p) PROVE KInv'
  <2>1. Ends(p) /\ ~At(p, "idle")
    BY <1>5, EndsIs, StopsAre DEF Fail
  <2>2. Config(conf') /\ sum' = sum /\ saved' = saved /\ pkg' = pkg /\ Counted
    BY <1>5, <1>a, CountedIs DEF Fail, Config, Writes, Frame
  <2>. QED
    BY <1>c, <2>1, <2>2, KFrame
<1>6. ASSUME NEW p \in Procs, Crash(p) PROVE KInv'
  <2>1. Moves(p) /\ job'[p] = NoJob /\ exit' = Killed
    BY <1>6, StopsAre DEF Crash, CInv
  <2>2. Config(conf') /\ sum' = sum /\ saved' = saved /\ pkg' = pkg /\ asked' = asked /\ Counted
    BY <1>6, <1>a, CountedIs DEF Crash, Frame, disk
  <2>. QED
    BY <1>a, <2>1, <2>2, KFrame
<1>7. CASE Ask
  <2>1. exit' \in 0..6 \cup {Killed}
    BY <1>7, StatusIs DEF Ask
  <2>2. UNCHANGED <<conf, saved, sum, pkg, pc, job, started, faults, asked>>
    BY <1>7, ReadsIs DEF Ask
  <2>. QED
    BY <2>1, <2>2 DEF KInv
<1>8. CASE PackageUpdate
  <2>1. pkg' = pkg + 1 /\ UNCHANGED <<conf, saved, sum, pc, job, exit, started, faults, asked>>
    BY <1>8 DEF PackageUpdate, disk, counters
  <2>2. sum \in Versions => sum <= pkg'
    BY <2>1, VersionsAssumption DEF KInv, CInv
  <2>. QED
    BY <2>1, <2>2 DEF KInv
<1>9. CASE UNCHANGED vars
  BY <1>9 DEF vars, disk, counters, KInv
<1>. QED
  BY <1>1, <1>2, <1>3, <1>4, <1>5, <1>6, <1>7, <1>8, <1>9 DEF Next, Step, ReadsOn, Changes

-----------------------------------------------------------------------------
(* The types.                                                              *)

LEMMA InvInit == Init => CInv /\ BInv /\ OInv /\ TInv /\ KInv
<1>1. Init => TInv
  BY DEF Init, TInv
<1>. QED
  BY <1>1, CInit, BInit, KInit

LEMMA InvNext ==
    CInv /\ BInv /\ OInv /\ TInv /\ KInv /\ [Next]_vars
        => (CInv /\ BInv /\ OInv /\ TInv /\ KInv)'
BY CNext, BNext, ONext, TNext, KNext

LEMMA Typing == CInv /\ OInv /\ TInv /\ KInv => TypeOK
<1>. SUFFICES ASSUME CInv, OInv, TInv, KInv PROVE TypeOK
  OBVIOUS
<1>1. conf = Absent \/ conf \in Lines
  BY ConfigIs DEF KInv
<1>2. gen \in Rendered \cup {Absent} /\ name \in Contents \cup {Link}
      /\ pc \in [Procs -> Labels] /\ pkg \in Versions /\ overlap \in BOOLEAN
  BY DEF CInv, Contents
<1>3. saved # Absent => saved.live \in Contents /\ (saved.conf = Absent \/ saved.conf \in Lines)
  BY ConfigIs DEF KInv
<1>4. ASSUME NEW p \in Procs, ~At(p, "idle")
      PROVE  /\ job[p].line \in CommandLines /\ job[p].features \in Seq(Features \cup Typed)
             /\ job[p].meant \in Wishes
  BY <1>4 DEF OInv, Told, TInv, Doing, Does
<1>5. /\ sum \in Versions \cup {Absent} /\ exit \in 0..6 \cup {Killed}
      /\ started \in 0..MaxCommands /\ faults \in 0..MaxFaults /\ asked \in Wishes
      /\ \A p \in Procs : At(p, "idle") => job[p] = NoJob
  BY DEF KInv
<1>. QED
  BY <1>1, <1>2, <1>3, <1>4, <1>5 DEF TypeOK

(* The variables keep their types, whatever the words of the commands: only*)
(* names of installed profiles and features of profiles get into           *)
(* authselect.conf (authselect.c:80, 87).                                  *)
THEOREM TypeCorrect == Spec => []TypeOK
<1>1. CInv /\ BInv /\ OInv /\ TInv /\ KInv => TypeOK
  BY Typing
<1>2. Init => CInv /\ BInv /\ OInv /\ TInv /\ KInv
  BY InvInit
<1>3. (CInv /\ BInv /\ OInv /\ TInv /\ KInv) /\ [Next]_vars
         => (CInv /\ BInv /\ OInv /\ TInv /\ KInv)'
  BY InvNext
<1>. QED
  BY <1>1, <1>2, <1>3, PTL DEF Spec

-----------------------------------------------------------------------------
(* The configuration is what was asked for.                                *)

(* The file that j generates, and the wish that it is to fulfil.           *)
Result(j)     == [id |-> j.id, features |-> ToSet(j.features)]
Output(j, v)  == [id |-> j.id, features |-> ToSet(j.features), version |-> v]

(* At each call of a command, what its user meant (want) is what remains to*)
(* be computed, then what is to be written, then what is there.            *)
Means(label, j, want, c, g, n, v) ==
    /\ label \in Early \cup {"enable", "disable", "apply"} => j.meant = want
    /\ label = "trim" =>
          j.meant = [id |-> j.id, features |-> ToSet(j.features) \cap Supported[v][j.id]]
    /\ label = "activate" /\ j.id \in Installed => j.meant = Result(j)
    /\ label \in {"generate"} \cup Writing => j.meant = Result(j)
    /\ label \in Writing => g = Output(j, v)
    /\ label \in {"unlink", "symlink", "checksum"} => c = ConfigWrite(j.id, j.features)
    /\ label = "checksum" => n = Link
    /\ label \in OptingOut => j.meant = Absent
    /\ label \in {"remove conf", "remove files"} => n # Link
    /\ label = "remove files" => c = Absent

Meaning(p) == Means(pc[p], job[p], Meant(job[p].line), conf, gen, name, pkg)

(* A command that is alone and knows what its user means.                  *)
Minds(p) == ~At(p, "idle") /\ job[p].alone /\ job[p].meant # Unknown

MInv == \A p \in Procs : Minds(p) => Meaning(p)

(* All that is on the disk is what was asked for.                          *)
Agreed(wish, c, g, n, s, v) ==
    /\ wish = Absent => c = Absent /\ n # Link
    /\ wish \notin {Absent, Unknown} =>
          /\ \E id \in Installed, f \in Distinct :
                wish = [id |-> id, features |-> ToSet(f)] /\ c = ConfigWrite(id, f)
          /\ g \in Rendered /\ g.id = wish.id /\ g.features = wish.features /\ n = Link
          /\ s = v => wish.features \subseteq Supported[v][wish.id]

AInv == Agreed(asked, conf, gen, name, sum, pkg)

LEMMA MeantStays ==
    ASSUME UNCHANGED <<asked, pkg>>
    PROVE  \A line \in CommandLines : Meant(line)' = Meant(line)
BY DEF Meant

LEMMA MFrame ==
    ASSUME CInv, BInv, MInv, NEW p \in Procs, ~At(p, "idle"), Moves(p),
           pc'[p] # "idle" => job'[p].alone = job[p].alone /\ job'[p].meant = job[p].meant,
           pc'[p] # "idle" /\ Minds(p) => Meaning(p)'
    PROVE  MInv'
<1>. SUFFICES ASSUME NEW q \in Procs, Minds(q)' PROVE Meaning(q)'
  BY DEF MInv
<1>1. CASE q = p
  BY <1>1 DEF Minds
<1>2. CASE q # p
  <2>1. pc[q] # "idle" /\ job[q].alone
    BY <1>2 DEF Minds, Moves
  <2>2. Safe(q)
    BY <2>1 DEF BInv
  <2>. QED
    BY <1>2, <2>2 DEF Safe
<1>. QED
  BY <1>1, <1>2

LEMMA MeansIs ==
    ASSUME MInv, NEW p \in Procs, Minds(p)
    PROVE  Means(pc[p], job[p], Meant(job[p].line), conf, gen, name, pkg)
BY DEF MInv, Meaning

(* What was asked for can be read from the disk.                           *)
LEMMA AskedIs ==
    ASSUME AInv, asked \notin {Absent, Unknown}
    PROVE  \E id \in Installed, f \in Distinct :
              /\ asked = [id |-> id, features |-> ToSet(f)] /\ conf = ConfigWrite(id, f)
              /\ ConfigRead(conf).id = id /\ ConfigRead(conf).features = f
              /\ ConfigRead(conf).errno = "EOK"
<1>1. PICK id \in Installed, f \in Distinct :
         asked = [id |-> id, features |-> ToSet(f)] /\ conf = ConfigWrite(id, f)
  BY DEF AInv, Agreed
<1>2. f \in Seq(Features) /\ IsInjective(f)
  BY DEF Distinct
<1>3. ConfigRead(conf) = [errno |-> "EOK", id |-> id, features |-> f]
  BY <1>1, <1>2, ConfigWritten
<1>4. ConfigRead(conf).id = id /\ ConfigRead(conf).features = f /\ ConfigRead(conf).errno = "EOK"
  BY <1>3
<1>. QED
  BY <1>1, <1>4

(* What the commands mean that change the configuration they find.         *)
LEMMA KnownIs ==
    ASSUME NEW line, Meant(line) # Unknown,
           line.name \in {"enable-feature", "disable-feature", "apply-changes"}
    PROVE  /\ asked \notin {Absent, Unknown}
           /\ line.name = "enable-feature" =>
                 Meant(line) = [asked EXCEPT !.features = @ \cup {Head(Free[line])}]
           /\ line.name = "disable-feature" =>
                 Meant(line) = [asked EXCEPT !.features = @ \ {Head(Free[line])}]
           /\ line.name = "apply-changes" =>
                 Meant(line) = [asked EXCEPT !.features = @ \cap Supported[pkg][asked.id]]
<1>. DEFINE known == asked \notin {Absent, Unknown}
<1>1. CASE line.name = "enable-feature"
  BY <1>1 DEF Meant
<1>2. CASE line.name = "disable-feature"
  BY <1>2 DEF Meant
<1>3. CASE line.name = "apply-changes"
  BY <1>3 DEF Meant
<1>. QED
  BY <1>1, <1>2, <1>3

(* The command after a call, for the disk as it finds it.                  *)
Going(p) == Means(pc'[p], job'[p], Meant(job[p].line), conf, gen, name, pkg)

LEMMA MeansCurrent ==
    ASSUME CInv, MInv, NEW p \in Procs, Current(p), Minds(p)
    PROVE  pc'[p] = "idle" \/ Going(p)
<1>. DEFINE j == job[p]
            k == job'[p]
            want == Meant(job[p].line)
<1>1. Means("current", j, want, conf, gen, name, pkg) /\ DOMAIN j = Fields
  BY MeansIs DEF Current, CInv, Placed, Minds
<1>2. CASE Passes(p, "profile", [j EXCEPT !.id = ConfigRead(conf).id])
  <2>1. k.meant = j.meant /\ pc'[p] = "profile"
    BY <1>1, <1>2 DEF Fields, Passes
  <2>. HIDE DEF j, k, want
  <2>2. Means("profile", k, want, conf, gen, name, pkg)
    BY <1>1, <2>1 DEF Means, Early, Writing, OptingOut
  <2>. QED
    BY <2>1, <2>2 DEF Going, k, want
<1>. QED
  BY <1>2, CurrentIs, HaltsIs

LEMMA MeansProfile ==
    ASSUME CInv, MInv, NEW p \in Procs, Profile(p), Minds(p)
    PROVE  pc'[p] = "idle" \/ Going(p)
<1>. DEFINE j == job[p]
            want == Meant(job[p].line)
<1>1. Means("profile", j, want, conf, gen, name, pkg)
  BY MeansIs DEF Profile
<1>2. CASE Passes(p, "backup", j)
  <2>1. job'[p] = j /\ pc'[p] = "backup"
    BY <1>2 DEF Passes
  <2>. HIDE DEF j, want
  <2>2. Means("backup", j, want, conf, gen, name, pkg)
    BY <1>1 DEF Means, Early, Writing, OptingOut
  <2>. QED
    BY <2>1, <2>2 DEF Going, want
<1>. QED
  BY <1>2, ProfileIs, HaltsIs

LEMMA MeansBackup ==
    ASSUME WordsAreMeant, CInv, OInv, TInv, MInv, NEW p \in Procs, Backup(p), Minds(p)
    PROVE  Going(p)
<1>. DEFINE j == job[p]
            line == job[p].line
            want == Meant(job[p].line)
            label == pc'[p]
<1>1. Means("backup", j, want, conf, gen, name, pkg) /\ Does("backup", j, pkg)
  BY MeansIs DEF Backup, TInv, Doing
<1>2. Leads(line.name, label) /\ job'[p] = j
  BY BackupPasses DEF Passes
<1>3. line \in CommandLines /\ Routed[line].errno = "EOK"
  BY DEF OInv, Told, Backup
<1>4. j.meant = want
  BY <1>1 DEF Means, Early
<1>5. ASSUME label = "activate", j.id \in Installed PROVE j.meant = Result(j)
  <2>1. line.name = "select"
    BY <1>2, <1>5 DEF Leads
  <2>2. j.id = Routed[line].id /\ j.features = Routed[line].features
    BY <1>1, <2>1 DEF Does
  <2>3. want = [id |-> Routed[line].id, features |-> ToSet(Routed[line].features)]
    BY <1>3, <1>5, <2>1, <2>2, SelectMeans DEF WordsAreMeant
  <2>. QED
    BY <1>4, <2>2, <2>3 DEF Result
<1>6. label \in {"activate", "apply", "enable", "disable"}
  BY <1>2 DEF Leads
<1>. HIDE DEF j, line, want, label
<1>7. Means(label, j, want, conf, gen, name, pkg)
  BY <1>4, <1>5, <1>6 DEF Means, Early, Writing, OptingOut
<1>. QED
  BY <1>2, <1>7 DEF Going, want, label

LEMMA MeansEnable ==
    ASSUME CInv, OInv, TInv, MInv, AInv, NEW p \in Procs, FeatureEnable(p), Minds(p)
    PROVE  pc'[p] = "idle" \/ Going(p)
<1>. DEFINE j == job[p]
            k == job'[p]
            config == ConfigRead(conf)
            want == Meant(job[p].line)
<1>1. /\ Means("enable", j, want, conf, gen, name, pkg) /\ DOMAIN j = Fields
      /\ j.line.name = "enable-feature" /\ Doing(p) /\ j.meant # Unknown
  BY MeansIs DEF FeatureEnable, CInv, Placed, Minds, TInv, Doing, Does
<1>2. j.meant = want
  BY <1>1 DEF Means
<1>3. j.word \in Typed /\ j.word = Head(Free[j.line])
  BY <1>1, WordTyped DEF Minds
<1>4. asked \notin {Absent, Unknown} /\ want = [asked EXCEPT !.features = @ \cup {j.word}]
  BY <1>1, <1>2, <1>3, KnownIs
<1>5. PICK id \in Installed, f \in Distinct :
         /\ asked = [id |-> id, features |-> ToSet(f)]
         /\ config.id = id /\ config.features = f
  BY <1>4, AskedIs
<1>6. CASE Passes(p, "activate",
              [j EXCEPT !.id = config.id,
                  !.features = AddValue(config.features, j.word, TRUE), !.version = pkg])
  <2>. DEFINE g == AddValue(f, j.word, TRUE)
  <2>1. k = [j EXCEPT !.id = id, !.features = g, !.version = pkg] /\ pc'[p] = "activate"
    BY <1>5, <1>6 DEF Passes
  <2>2. ToSet(g) = ToSet(f) \cup {j.word}
    BY <1>3, AddedIs
  <2>. HIDE DEF g, config
  <2>3. k.id = id /\ k.features = g /\ k.meant = j.meant
    BY <1>1, <2>1 DEF Fields
  <2>4. want = [id |-> id, features |-> ToSet(f) \cup {j.word}]
    BY <1>4, <1>5
  <2>. HIDE DEF j, k, want
  <2>5. k.meant = Result(k)
    BY <1>2, <2>2, <2>3, <2>4 DEF Result
  <2>6. Means("activate", k, want, conf, gen, name, pkg)
    BY <2>5 DEF Means, Early, Writing, OptingOut
  <2>. QED
    BY <2>1, <2>6 DEF Going, k, want
<1>. QED
  BY <1>6, FeatureEnableIs, HaltsIs

LEMMA MeansDisable ==
    ASSUME CInv, OInv, TInv, MInv, AInv, NEW p \in Procs, FeatureDisable(p), Minds(p)
    PROVE  pc'[p] = "idle" \/ Going(p)
<1>. DEFINE j == job[p]
            k == job'[p]
            config == ConfigRead(conf)
            want == Meant(job[p].line)
<1>1. /\ Means("disable", j, want, conf, gen, name, pkg) /\ DOMAIN j = Fields
      /\ j.line.name = "disable-feature" /\ Doing(p) /\ j.meant # Unknown
  BY MeansIs DEF FeatureDisable, CInv, Placed, Minds, TInv, Doing, Does
<1>2. j.meant = want
  BY <1>1 DEF Means
<1>3. j.word = Head(Free[j.line])
  BY <1>1, WordTyped DEF Minds
<1>4. asked \notin {Absent, Unknown} /\ want = [asked EXCEPT !.features = @ \ {j.word}]
  BY <1>1, <1>2, <1>3, KnownIs
<1>5. PICK id \in Installed, f \in Distinct :
         /\ asked = [id |-> id, features |-> ToSet(f)]
         /\ config.id = id /\ config.features = f
  BY <1>4, AskedIs
<1>6. CASE Passes(p, "activate",
              [j EXCEPT !.id = config.id,
                  !.features = DelValue(config.features, j.word, 0, Garbage), !.version = pkg])
  <2>. DEFINE g == DelValue(f, j.word, 0, Garbage)
  <2>1. k = [j EXCEPT !.id = id, !.features = g, !.version = pkg] /\ pc'[p] = "activate"
    BY <1>5, <1>6 DEF Passes
  <2>2. ToSet(g) = ToSet(f) \ {j.word}
    BY RemovedIs
  <2>. HIDE DEF g, config
  <2>3. k.id = id /\ k.features = g /\ k.meant = j.meant
    BY <1>1, <2>1 DEF Fields
  <2>4. want = [id |-> id, features |-> ToSet(f) \ {j.word}]
    BY <1>4, <1>5
  <2>. HIDE DEF j, k, want
  <2>5. k.meant = Result(k)
    BY <1>2, <2>2, <2>3, <2>4 DEF Result
  <2>6. Means("activate", k, want, conf, gen, name, pkg)
    BY <2>5 DEF Means, Early, Writing, OptingOut
  <2>. QED
    BY <2>1, <2>6 DEF Going, k, want
<1>. QED
  BY <1>6, FeatureDisableIs, HaltsIs

LEMMA MeansApply ==
    ASSUME CInv, TInv, MInv, AInv, NEW p \in Procs, ApplyChanges(p), Minds(p)
    PROVE  pc'[p] = "idle" \/ Going(p)
<1>. DEFINE j == job[p]
            k == job'[p]
            config == ConfigRead(conf)
            want == Meant(job[p].line)
<1>1. /\ Means("apply", j, want, conf, gen, name, pkg) /\ DOMAIN j = Fields
      /\ j.line.name = "apply-changes" /\ j.meant # Unknown
  BY MeansIs DEF ApplyChanges, CInv, Placed, Minds, TInv, Doing, Does
<1>2. j.meant = want
  BY <1>1 DEF Means
<1>3. /\ asked \notin {Absent, Unknown}
      /\ want = [asked EXCEPT !.features = @ \cap Supported[pkg][asked.id]]
  BY <1>1, <1>2, KnownIs
<1>4. PICK id \in Installed, f \in Distinct :
         /\ asked = [id |-> id, features |-> ToSet(f)]
         /\ config.id = id /\ config.features = f
  BY <1>3, AskedIs
<1>5. CASE Passes(p, "trim",
              [j EXCEPT !.id = config.id, !.features = config.features, !.version = pkg])
  <2>1. k = [j EXCEPT !.id = id, !.features = f, !.version = pkg] /\ pc'[p] = "trim"
    BY <1>4, <1>5 DEF Passes
  <2>. HIDE DEF config
  <2>2. k.id = id /\ k.features = f /\ k.meant = j.meant
    BY <1>1, <2>1 DEF Fields
  <2>3. want = [id |-> id, features |-> ToSet(f) \cap Supported[pkg][id]]
    BY <1>3, <1>4
  <2>. HIDE DEF j, k, want
  <2>4. Means("trim", k, want, conf, gen, name, pkg)
    BY <1>2, <2>2, <2>3 DEF Means, Early, Writing, OptingOut
  <2>. QED
    BY <2>1, <2>4 DEF Going, k, want
<1>. QED
  BY <1>5, ApplyChangesIs, HaltsIs

LEMMA MeansTrim ==
    ASSUME CInv, TInv, MInv, NEW p \in Procs, Trim(p), Minds(p)
    PROVE  Going(p)
<1>. DEFINE j == job[p]
            k == job'[p]
            f == j.features
            S == Supported[pkg][j.id]
            want == Meant(job[p].line)
<1>1. /\ DOMAIN j = Fields /\ f \in Distinct /\ Len(f) \in Nat
      /\ j.at \in Nat \ {0} /\ j.version = pkg /\ j.id \in Installed
      /\ \A i \in 1..Len(f) : i < j.at => f[i] \in S
  BY Trimming DEF Trim
<1>2. j.meant = [id |-> j.id, features |-> ToSet(f) \cap S]
  BY MeansIs DEF Trim, Means
<1>3. f \in Seq(Features) /\ DOMAIN f = 1..Len(f)
  BY <1>1 DEF Distinct
<1>4. CASE j.at > Len(f) /\ Passes(p, "activate", j)
  <2>1. pc'[p] = "activate" /\ k = j
    BY <1>4 DEF Passes
  <2>2. ToSet(f) \subseteq S
    BY <1>1, <1>3, <1>4 DEF ToSet
  <2>3. j.meant = Result(j)
    BY <1>2, <2>2 DEF Result
  <2>. HIDE DEF j, want
  <2>4. Means("activate", j, want, conf, gen, name, pkg)
    BY <2>3 DEF Means, Early, Writing, OptingOut
  <2>. QED
    BY <2>1, <2>4 DEF Going, want
<1>5. CASE f[j.at] \in S /\ j.at <= Len(f) /\ Passes(p, "trim", [j EXCEPT !.at = @ + 1])
  <2>1. pc'[p] = "trim" /\ k = [j EXCEPT !.at = @ + 1]
    BY <1>5 DEF Passes
  <2>2. k.meant = j.meant /\ k.id = j.id /\ k.features = f
    BY <1>1, <2>1 DEF Fields
  <2>. HIDE DEF k, want
  <2>3. Means("trim", k, want, conf, gen, name, pkg)
    BY <1>2, <2>2 DEF Means, Early, Writing, OptingOut
  <2>. QED
    BY <2>1, <2>3 DEF Going, k, want
<1>6. ASSUME NEW stale \in {f[j.at], Garbage}, j.at <= Len(f), f[j.at] \notin S,
             Passes(p, "trim", [j EXCEPT !.features = DelValue(@, f[j.at], j.at, stale)])
      PROVE  Going(p)
  <2>. DEFINE g == DelValue(f, f[j.at], j.at, stale)
  <2>1. pc'[p] = "trim" /\ k = [j EXCEPT !.features = g]
    BY <1>6 DEF Passes
  <2>2. k.meant = j.meant /\ k.id = j.id /\ k.features = g
    BY <1>1, <2>1 DEF Fields
  <2>3. j.at \in 1..Len(f)
    BY <1>1, <1>6
  <2>4. ToSet(g) = ToSet(f) \ {f[j.at]}
    <3>. DEFINE x == j.at
    <3>1. /\ f \in Distinct /\ x \in 1..Len(f) /\ stale \in {f[x], Garbage}
          /\ g = DelValue(f, f[x], x, stale)
      BY <1>1, <2>3
    <3>. HIDE DEF f, x, g
    <3>2. /\ g \in Distinct /\ ToSet(g) = ToSet(f) \ {f[x]}
          /\ \A i \in 1..(x - 1) : i <= Len(g) /\ g[i] = f[i]
      BY <3>1, TrimmedIs
    <3>. QED
      BY <3>2 DEF x
  <2>5. ToSet(g) \cap S = ToSet(f) \cap S
    BY <1>6, <2>4
  <2>. HIDE DEF g, k, want
  <2>6. k.meant = [id |-> k.id, features |-> ToSet(k.features) \cap Supported[pkg][k.id]]
    BY <1>2, <2>2, <2>5
  <2>7. Means("trim", k, want, conf, gen, name, pkg)
    BY <2>6 DEF Means, Early, Writing, OptingOut
  <2>. QED
    BY <2>1, <2>7 DEF Going, k, want
<1>. QED
  BY <1>1, <1>4, <1>5, <1>6, TrimIs

LEMMA MeansActivate ==
    ASSUME CInv, MInv, NEW p \in Procs, Activate(p), Minds(p)
    PROVE  pc'[p] = "idle" \/ Going(p)
<1>. DEFINE j == job[p]
            k == job'[p]
            want == Meant(job[p].line)
<1>1. Means("activate", j, want, conf, gen, name, pkg) /\ DOMAIN j = Fields
  BY MeansIs DEF Activate, CInv, Placed, Minds
<1>2. CASE j.id \in Installed /\ Passes(p, "generate", [j EXCEPT !.version = pkg])
  <2>1. pc'[p] = "generate" /\ k = [j EXCEPT !.version = pkg]
    BY <1>2 DEF Passes
  <2>2. k.meant = j.meant /\ k.id = j.id /\ k.features = j.features
    BY <1>1, <2>1 DEF Fields
  <2>3. j.meant = Result(j)
    BY <1>1, <1>2 DEF Means
  <2>. HIDE DEF j, k, want
  <2>4. k.meant = Result(k)
    BY <2>2, <2>3 DEF Result
  <2>5. Means("generate", k, want, conf, gen, name, pkg)
    BY <2>4 DEF Means, Early, Writing, OptingOut
  <2>. QED
    BY <2>1, <2>5 DEF Going, k, want
<1>. QED
  BY <1>2, ActivateIs, HaltsIs

(* What a write leaves of the job.                                         *)
LEMMA WroteKeeps ==
    ASSUME CInv, NEW p \in Procs, ~At(p, "idle"), NEW label, Wrote(p, label)
    PROVE  /\ pc'[p] = label /\ DOMAIN job'[p] = Fields
           /\ job'[p].id = job[p].id /\ job'[p].features = job[p].features
           /\ job'[p].meant = job[p].meant /\ job'[p].version = job[p].version
           /\ job'[p].alone = job[p].alone /\ job'[p].line = job[p].line
<1>1. DOMAIN job[p] = Fields
  BY DEF CInv, Placed
<1>2. PICK b \in BOOLEAN : job'[p] = [job[p] EXCEPT !.wrote = b]
  BY DEF Wrote
<1>. QED
  BY <1>1, <1>2 DEF Wrote, Fields

LEMMA MeansWrite ==
    ASSUME CInv, TInv, MInv, NEW p \in Procs, Changes(p), Minds(p), NEW want
    PROVE  pc'[p] = "idle" \/ Means(pc'[p], job'[p], want, conf', gen', name', pkg)
<1>. DEFINE j == job[p]
            k == job'[p]
<1>1. Means(pc[p], j, Meant(j.line), conf, gen, name, pkg) /\ ~At(p, "idle")
  BY MeansIs DEF Minds
<1>2. ASSUME NEW label \in Labels, Write(p, label)
      PROVE  /\ pc'[p] = label /\ k.id = j.id /\ k.features = j.features /\ k.meant = j.meant
             /\ Result(k) = Result(j) /\ Output(k, pkg) = Output(j, pkg)
  BY <1>1, <1>2, WroteIs, WroteKeeps DEF Result, Output
<1>3. ASSUME NEW errno, End(p, errno) PROVE pc'[p] = "idle"
  BY <1>3, EndIs
<1>4. CASE Generate(p)
  <2>1. j.version = pkg
    BY <1>4, WritingIs DEF Generate
  <2>2. gen' = Output(j, pkg)
    BY <1>4, <2>1 DEF Generate, Output
  <2>3. j.meant = Result(j)
    BY <1>1, <1>4 DEF Means, Generate
  <2>4. /\ pc'[p] = "truncate" /\ k.meant = j.meant
        /\ Result(k) = Result(j) /\ Output(k, pkg) = Output(j, pkg)
    BY <1>2, <1>4 DEF Generate, Labels
  <2>. HIDE DEF j, k
  <2>. QED
    BY <2>2, <2>3, <2>4 DEF Means, Early, Writing, OptingOut, k
<1>5. CASE pc[p] \in Writing
  <2>1. j.meant = Result(j) /\ gen = Output(j, pkg)
    BY <1>1, <1>5 DEF Means
  <2>2. CASE Truncate(p)
    <3>1. gen' = gen /\ pc'[p] = "record" /\ k.meant = j.meant
          /\ Result(k) = Result(j) /\ Output(k, pkg) = Output(j, pkg)
      BY <1>2, <2>2 DEF Truncate, Labels
    <3>. HIDE DEF j, k
    <3>. QED
      BY <2>1, <3>1 DEF Means, Early, Writing, OptingOut, k
  <2>3. CASE Record(p)
    <3>1. /\ gen' = gen /\ pc'[p] = "unlink" /\ k.meant = j.meant
          /\ Result(k) = Result(j) /\ Output(k, pkg) = Output(j, pkg)
          /\ conf' = ConfigWrite(j.id, j.features) /\ k.id = j.id /\ k.features = j.features
      BY <1>2, <2>3 DEF Record, Labels
    <3>. HIDE DEF j, k
    <3>. QED
      BY <2>1, <3>1 DEF Means, Early, Writing, OptingOut, k
  <2>4. CASE Unlink(p)
    <3>1. conf = ConfigWrite(j.id, j.features)
      BY <1>1, <2>4 DEF Means, Unlink
    <3>2. /\ gen' = gen /\ pc'[p] = "symlink" /\ k.meant = j.meant
          /\ Result(k) = Result(j) /\ Output(k, pkg) = Output(j, pkg)
          /\ conf' = conf /\ k.id = j.id /\ k.features = j.features
      BY <1>2, <2>4 DEF Unlink, Labels
    <3>. HIDE DEF j, k
    <3>. QED
      BY <2>1, <3>1, <3>2 DEF Means, Early, Writing, OptingOut, k
  <2>5. CASE Symlink(p)
    <3>1. conf = ConfigWrite(j.id, j.features)
      BY <1>1, <2>5 DEF Means, Symlink
    <3>2. CASE name' = Link /\ UNCHANGED <<conf, gen, sum>> /\ Write(p, "checksum")
      <4>1. /\ gen' = gen /\ pc'[p] = "checksum" /\ k.meant = j.meant
            /\ Result(k) = Result(j) /\ Output(k, pkg) = Output(j, pkg)
            /\ conf' = conf /\ k.id = j.id /\ k.features = j.features
        BY <1>2, <3>2 DEF Labels
      <4>. HIDE DEF j, k
      <4>. QED
        BY <2>1, <3>1, <3>2, <4>1 DEF Means, Early, Writing, OptingOut, k
    <3>. QED
      BY <1>3, <2>5, <3>2 DEF Symlink
  <2>6. CASE KeepChecksum(p)
    BY <1>3, <2>6 DEF KeepChecksum
  <2>. QED
    BY <1>5, <2>2, <2>3, <2>4, <2>5, <2>6
       DEF Changes, Generate, CopyName, RemoveConf, RemoveFiles, Writing
<1>6. CASE pc[p] \in OptingOut
  <2>1. j.meant = Absent
    BY <1>1, <1>6 DEF Means
  <2>2. CASE CopyName(p)
    <3>1. CASE (name = Link => gen # Absent) /\ name' = Live /\ Write(p, "remove conf")
      <4>1. name' # Link
        BY <3>1, MarkersAssumption DEF Live, CInv
      <4>2. pc'[p] = "remove conf" /\ k.meant = j.meant
        BY <1>2, <3>1 DEF Labels
      <4>. HIDE DEF j, k
      <4>. QED
        BY <2>1, <4>1, <4>2 DEF Means, Early, Writing, OptingOut, k
    <3>. QED
      BY <1>3, <2>2, <3>1 DEF CopyName
  <2>3. CASE RemoveConf(p)
    <3>1. name # Link
      BY <1>1, <2>3 DEF Means, RemoveConf
    <3>2. /\ name' = name /\ conf' = Absent /\ pc'[p] = "remove files" /\ k.meant = j.meant
      BY <1>2, <2>3 DEF RemoveConf, Labels
    <3>. HIDE DEF j, k
    <3>. QED
      BY <2>1, <3>1, <3>2 DEF Means, Early, Writing, OptingOut, k
  <2>4. CASE RemoveFiles(p)
    BY <1>3, <2>4 DEF RemoveFiles
  <2>. QED
    BY <1>6, <2>2, <2>3, <2>4
       DEF Changes, Generate, Truncate, Record, Unlink, Symlink, KeepChecksum, OptingOut
<1>. QED
  BY <1>4, <1>5, <1>6
     DEF Changes, Truncate, Record, Unlink, Symlink, KeepChecksum, CopyName, RemoveConf,
         RemoveFiles, Writing, OptingOut

LEMMA MBegin ==
    ASSUME CInv, OInv, NEW p \in Procs, Begin(p)
    PROVE  MInv'
<1>. SUFFICES ASSUME NEW q \in Procs, Minds(q)' PROVE Meaning(q)'
  BY DEF MInv
<1>1. q = p
  <2>. SUFFICES ASSUME q # p PROVE FALSE
    OBVIOUS
  <2>1. pc[q] # "idle" /\ job'[q] = [job[q] EXCEPT !.alone = FALSE]
    BY BeginsIs DEF Minds
  <2>2. DOMAIN job[q] = Fields
    BY <2>1 DEF CInv, Placed
  <2>. QED
    BY <2>1, <2>2 DEF Fields, Minds
<1>2. UNCHANGED <<asked, pkg>>
  BY BeginsIs
<1>a. PICK line \in CommandLines :
         /\ line.name \in NeedRoot /\ Routed[line].errno = "EOK"
         /\ \/ pc'[p] = "current" /\ line.name = "enable-feature"
            \/ pc'[p] = "profile" /\ line.name = "select"
            \/ pc'[p] = "backup" /\ line.name \in Savers \ {"select"}
            \/ pc'[p] = "copy" /\ line.name = "opt-out"
         /\ job'[p] =
               [line |-> line, id |-> Routed[line].id, features |-> Routed[line].features,
                word |-> Routed[line].id, options |-> Routed[line].options, at |-> 1,
                version |-> pkg, alone |-> Quiet, wrote |-> FALSE,
                meant |-> Meant(line), before |-> Snapshot]
  BY BeginsIs
<1>3. job'[p].line = line /\ job'[p].meant = Meant(line)
  BY <1>a
<1>4. Meant(job[p].line)' = job'[p].meant
  BY <1>2, <1>3, MeantStays
<1>5. line.name = "opt-out" => job'[p].meant = Absent
  BY <1>3 DEF Meant
<1>. DEFINE k == job'[p]
            label == pc'[p]
            want == Meant(job[p].line)'
<1>6. label \in {"current", "profile", "backup", "copy"} /\ k.meant = want
      /\ (label = "copy" => k.meant = Absent)
  BY <1>a, <1>3, <1>4, <1>5
<1>. HIDE DEF k, label, want
<1>7. Means(label, k, want, conf', gen', name', pkg')
  BY <1>6 DEF Means, Early, Writing, OptingOut
<1>. QED
  BY <1>1, <1>7 DEF Meaning, k, label, want

LEMMA MNext ==
    WordsAreMeant /\ CInv /\ BInv /\ OInv /\ TInv /\ KInv /\ AInv /\ MInv /\ [Next]_vars => MInv'
<1>. SUFFICES ASSUME WordsAreMeant, CInv, BInv, OInv, TInv, KInv, AInv, MInv, [Next]_vars
              PROVE  MInv'
  OBVIOUS
<1>1. ASSUME NEW p \in Procs, Begin(p) PROVE MInv'
  BY <1>1, MBegin
<1>2. ASSUME NEW p \in Procs, ~At(p, "idle"), Moves(p),
             UNCHANGED <<conf, gen, name, pkg, asked>>,
             Keeps(job[p], job'[p]), pc'[p] # "idle" /\ Minds(p) => Going(p)
      PROVE  MInv'
  <2>1. job'[p].alone = job[p].alone /\ job'[p].meant = job[p].meant /\ job'[p].line = job[p].line
    BY <1>2 DEF Keeps
  <2>2. job[p].line \in CommandLines
    BY <1>2 DEF OInv, Told
  <2>3. Meant(job[p].line)' = Meant(job[p].line)
    BY <1>2, <2>1, <2>2, MeantStays
  <2>4. pc'[p] # "idle" /\ Minds(p) => Meaning(p)'
    BY <1>2, <2>3 DEF Going, Meaning
  <2>. QED
    BY <1>2, <2>1, <2>4, MFrame
<1>3. ASSUME NEW p \in Procs, ~At(p, "idle"), Moves(p), pc'[p] = "idle" PROVE MInv'
  BY <1>3, MFrame
<1>4. ASSUME NEW p \in Procs, ReadsOn(p) PROVE MInv'
  <2>1. /\ ~At(p, "idle") /\ Moves(p) /\ UNCHANGED <<conf, gen, name, pkg>>
        /\ pc'[p] = "idle" \/ Keeps(job[p], job'[p])
    BY <1>4, ReadsOnIs
  <2>2. pc'[p] # "idle" => asked' = asked
    BY <1>4, ReadsLead DEF Passes, Halts, Ends
  <2>3. Minds(p) => pc'[p] = "idle" \/ Going(p)
    BY <1>4, MeansCurrent, MeansProfile, MeansEnable, MeansDisable, MeansApply, MeansTrim,
       MeansActivate DEF ReadsOn
  <2>. QED
    BY <1>2, <1>3, <2>1, <2>2, <2>3
<1>5. ASSUME NEW p \in Procs, Backup(p) PROVE MInv'
  <2>1. /\ Passes(p, pc'[p], job[p]) /\ UNCHANGED <<conf, gen, name, pkg>> /\ ~At(p, "idle")
    BY <1>5, BackupPasses, BackupIs
  <2>2. Minds(p) => Going(p)
    BY <1>5, MeansBackup
  <2>3. Keeps(job[p], job'[p])
    BY <2>1 DEF Passes, Keeps, CInv, Placed
  <2>. QED
    BY <1>2, <2>1, <2>2, <2>3 DEF Passes
<1>6. ASSUME NEW p \in Procs, Changes(p) PROVE MInv'
  <2>1. /\ ~At(p, "idle") /\ Moves(p) /\ pkg' = pkg
        /\ pc'[p] = "idle" \/ Keeps(job[p], job'[p])
    BY <1>6, ChangesAre
  <2>2. pc'[p] # "idle" /\ Minds(p) => Meaning(p)'
    <3>. DEFINE want == Meant(job[p].line)'
    <3>. SUFFICES ASSUME pc'[p] # "idle", Minds(p)
                  PROVE  Means(pc'[p], job'[p], want, conf', gen', name', pkg')
      BY DEF Meaning
    <3>. HIDE DEF want
    <3>. QED
      BY <1>6, <2>1, MeansWrite
  <2>. QED
    BY <2>1, <2>2, MFrame DEF Keeps
<1>7. ASSUME NEW p \in Procs, Fail(p) \/ Crash(p) PROVE MInv'
  BY <1>3, <1>7, StopsAre
<1>8. CASE UNCHANGED <<pc, job, conf, gen, name, pkg, asked>>
  <2>1. ASSUME NEW p \in Procs, Minds(p) PROVE Meant(job[p].line)' = Meant(job[p].line)
    BY <1>8, <2>1, MeantStays DEF OInv, Told, Minds
  <2>. SUFFICES ASSUME NEW p \in Procs, Minds(p)' PROVE Meaning(p)'
    BY DEF MInv
  <2>2. Minds(p) /\ Meaning(p)
    BY <1>8 DEF Minds, MInv
  <2>. QED
    BY <1>8, <2>1, <2>2 DEF Meaning
<1>9. CASE Ask
  BY <1>8, <1>9, ReadsIs DEF Ask
<1>10. CASE PackageUpdate
  BY <1>10 DEF PackageUpdate, Quiet, MInv, Minds
<1>11. CASE UNCHANGED vars
  BY <1>8, <1>11 DEF vars, disk
<1>. QED
  BY <1>1, <1>4, <1>5, <1>6, <1>7, <1>9, <1>10, <1>11 DEF Next, Step, ReadsOn, Changes

LEMMA AInit == Init => AInv
<1>. SUFFICES ASSUME Init PROVE AInv
  OBVIOUS
<1>1. CASE Unconfigured
  <2>1. conf = Absent /\ name = Own /\ asked = Absent
    BY <1>1 DEF Unconfigured
  <2>2. Own # Link
    BY MarkersAssumption
  <2>. QED
    BY <2>1, <2>2 DEF AInv, Agreed
<1>2. CASE Configured(Initial[1], Tail(Initial))
  <2>. DEFINE id == Initial[1]
              f  == Tail(Initial)
  <2>1. id \in Installed /\ f \in Distinct /\ ToSet(f) \subseteq Supported[0][id]
    BY InitialAssumption DEF Distinct
  <2>2. /\ conf = ConfigWrite(id, f) /\ asked = [id |-> id, features |-> ToSet(f)]
        /\ gen = [id |-> id, features |-> ToSet(f), version |-> 0] /\ name = Link
    BY <1>2 DEF Configured
  <2>3. gen \in Rendered /\ pkg = 0
    BY <1>2, InitialAssumption, InitialIs DEF Init
  <2>. HIDE DEF id, f
  <2>4. asked \in Goals
    <3>1. ToSet(f) \subseteq Features
      BY <2>1, SupportedAssumption, VersionsAssumption
    <3>. QED
      BY <2>1, <2>2, <3>1 DEF Goals
  <2>5. /\ gen.id = asked.id /\ gen.features = asked.features
        /\ asked.features \subseteq Supported[pkg][asked.id]
    BY <2>1, <2>2, <2>3
  <2>. QED
    BY <2>1, <2>2, <2>3, <2>4, <2>5, MarkersAssumption DEF AInv, Agreed
<1>. QED
  BY <1>1, <1>2 DEF Init

(* What is on the disk and what was asked for stay, or nothing is known.   *)
LEMMA AFrame ==
    ASSUME AInv, asked' = Unknown \/ UNCHANGED <<conf, gen, name, sum, pkg, asked>>
    PROVE  AInv'
<1>1. CASE asked' = Unknown
  <2>1. Unknown # Absent
    BY MarkersAssumption
  <2>. QED
    BY <1>1, <2>1 DEF AInv, Agreed
<1>2. CASE UNCHANGED <<conf, gen, name, sum, pkg, asked>>
  BY <1>2 DEF AInv
<1>. QED
  BY <1>1, <1>2

(* A command ends: what it meant is on the disk if it succeeded alone.     *)
LEMMA AEnds ==
    ASSUME CInv, AInv, NEW p \in Procs, ~At(p, "idle"), Ends(p), pkg' = pkg,
           Minds(p) => Agreed(job[p].meant, conf', gen', name', sum', pkg)
    PROVE  AInv'
<1>1. CASE asked' = Unknown \/ (disk' = disk /\ asked' = asked)
  BY <1>1, AFrame DEF disk
<1>2. CASE job[p].alone /\ asked' = job[p].meant
  <2>1. CASE job[p].meant = Unknown
    BY <1>2, <2>1, AFrame
  <2>2. CASE job[p].meant # Unknown
    BY <1>2, <2>2 DEF Minds, AInv
  <2>. QED
    BY <2>1, <2>2
<1>. QED
  BY <1>1, <1>2 DEF Ends

(* If nothing has changed since the last time, the features that are asked *)
(* for are those that the profile supports.                                *)
LEMMA ACurrent ==
    ASSUME CInv, TInv, MInv, AInv, NEW p \in Procs, At(p, "apply"), sum = pkg, Ends(p),
           UNCHANGED <<disk, conf, gen, name, sum, pkg>>
    PROVE  AInv'
<1>1. ASSUME Minds(p) PROVE job[p].meant = asked
  <2>. DEFINE want == Meant(job[p].line)
  <2>1. job[p].meant = want /\ want # Unknown /\ job[p].line.name = "apply-changes"
    BY <1>1, MeansIs DEF Means, Minds, TInv, Doing, Does
  <2>2. /\ asked \notin {Absent, Unknown}
        /\ want = [asked EXCEPT !.features = @ \cap Supported[pkg][asked.id]]
    BY <2>1, KnownIs
  <2>. HIDE DEF want
  <2>3. PICK id \in Installed, f \in Distinct : asked = [id |-> id, features |-> ToSet(f)]
    BY <2>2 DEF AInv, Agreed
  <2>4. asked.features \subseteq Supported[pkg][asked.id]
    BY <2>2 DEF AInv, Agreed
  <2>5. want = asked
    BY <2>2, <2>3, <2>4
  <2>. QED
    BY <2>1, <2>5
<1>2. Minds(p) => Agreed(job[p].meant, conf', gen', name', sum', pkg)
  BY <1>1 DEF AInv
<1>. QED
  BY <1>2, AEnds

LEMMA AChecksum ==
    ASSUME CInv, TInv, MInv, AInv, NEW p \in Procs, KeepChecksum(p)
    PROVE  AInv'
<1>. DEFINE j == job[p]
<1>1. Ends(p) /\ UNCHANGED <<conf, gen, name, pkg>> /\ At(p, "checksum")
  BY EndsIs DEF KeepChecksum, Writes, Frame
<1>2. /\ j.id \in Installed /\ j.features \in Distinct
      /\ ToSet(j.features) \subseteq Supported[pkg][j.id]
  BY <1>1, WritingIs DEF Writing
<1>3. ASSUME Minds(p) PROVE Agreed(j.meant, conf', gen', name', sum', pkg)
  <2>1. /\ j.meant = Result(j) /\ gen = Output(j, pkg) /\ conf = ConfigWrite(j.id, j.features)
        /\ name = Link
    BY <1>1, <1>3, MeansIs DEF Means, Writing
  <2>2. Supported[pkg][j.id] \subseteq Features /\ pkg \in Versions
    BY <1>2, SupportedAssumption DEF CInv
  <2>3. gen \in Rendered
    BY <1>2, <2>1, <2>2 DEF Output, Rendered
  <2>4. j.meant \in Goals
    BY <1>2, <2>1, <2>2 DEF Goals, Result
  <2>5. j.meant \notin {Absent, Unknown}
    BY <2>4, MarkersAssumption
  <2>. HIDE DEF j
  <2>6. /\ j.meant.id = j.id /\ j.meant.features = ToSet(j.features)
        /\ gen.id = j.id /\ gen.features = ToSet(j.features)
    BY <2>1 DEF Result, Output
  <2>7. \E id \in Installed, f \in Distinct :
           j.meant = [id |-> id, features |-> ToSet(f)] /\ conf' = ConfigWrite(id, f)
    BY <1>1, <1>2, <2>1 DEF Result
  <2>. QED
    BY <1>1, <1>2, <2>1, <2>3, <2>5, <2>6, <2>7 DEF Agreed
<1>. QED
  BY <1>1, <1>3, AEnds

LEMMA ARemoved ==
    ASSUME CInv, MInv, AInv, NEW p \in Procs, RemoveFiles(p)
    PROVE  AInv'
<1>1. Ends(p) /\ UNCHANGED <<conf, name, pkg>> /\ At(p, "remove files")
  BY EndsIs DEF RemoveFiles, Writes, Frame
<1>2. ASSUME Minds(p) PROVE Agreed(job[p].meant, conf', gen', name', sum', pkg)
  BY <1>1, <1>2, MeansIs DEF Means, OptingOut, Agreed
<1>. QED
  BY <1>1, <1>2, AEnds

LEMMA ANext == CInv /\ OInv /\ TInv /\ KInv /\ MInv /\ AInv /\ [Next]_vars => AInv'
<1>. SUFFICES ASSUME CInv, OInv, TInv, KInv, MInv, AInv, [Next]_vars PROVE AInv'
  OBVIOUS
<1>1. ASSUME NEW p \in Procs, Begin(p) PROVE AInv'
  BY <1>1, BeginsIs, AFrame
<1>2. ASSUME NEW p \in Procs, ReadsOn(p) PROVE AInv'
  <2>1. /\ UNCHANGED <<disk, conf, gen, name, sum, pkg>>
        /\ \/ Halts(p)
           \/ At(p, "apply") /\ sum = pkg /\ Ends(p)
           \/ \E label \in Labels \ {"idle"} : \E j : Passes(p, label, j)
    BY <1>2, ReadsLead
  <2>2. CASE At(p, "apply") /\ sum = pkg /\ Ends(p)
    BY <2>1, <2>2, ACurrent
  <2>3. CASE Halts(p) \/ \E label \in Labels \ {"idle"} : \E j : Passes(p, label, j)
    BY <2>1, <2>3, AFrame DEF Halts, Passes
  <2>. QED
    BY <2>1, <2>2, <2>3
<1>3. ASSUME NEW p \in Procs, Backup(p) PROVE AInv'
  BY <1>3, BackupPasses, AFrame DEF Passes
<1>4. ASSUME NEW p \in Procs, Changes(p) PROVE AInv'
  <2>1. pkg' = pkg /\ ~At(p, "idle")
    BY <1>4, WritesLead
  <2>2. ASSUME NEW label, Wrote(p, label) PROVE AInv'
    BY <2>1, <2>2, AFrame DEF Wrote, disk
  <2>3. ASSUME NEW errno \in {"EEXIST", "EPERM"}, End(p, errno), disk' = disk PROVE AInv'
    <3>1. asked' = asked
      BY <2>3, EndsIs DEF Halts
    <3>. QED
      BY <2>1, <2>3, <3>1, AFrame DEF disk
  <2>4. ASSUME NEW label \in Labels, Write(p, label) PROVE AInv'
    BY <2>1, <2>2, <2>4, WroteIs
  <2>5. CASE Generate(p) \/ Truncate(p) \/ Record(p) \/ Unlink(p) \/ RemoveConf(p)
    BY <2>4, <2>5 DEF Generate, Truncate, Record, Unlink, RemoveConf, Labels
  <2>6. CASE Symlink(p)
    BY <2>3, <2>4, <2>6 DEF Symlink, Labels
  <2>7. CASE CopyName(p)
    BY <2>3, <2>4, <2>7 DEF CopyName, Labels
  <2>. QED
    BY <1>4, <2>5, <2>6, <2>7, AChecksum, ARemoved DEF Changes
<1>5. ASSUME NEW p \in Procs, Fail(p) PROVE AInv'
  <2>1. End(p, "EIO") /\ pkg' = pkg
    BY <1>5 DEF Fail, Writes, Frame
  <2>2. asked' = Unknown \/ (disk' = disk /\ asked' = asked)
    BY <2>1, EndsIs
  <2>. QED
    BY <2>1, <2>2, AFrame DEF disk
<1>6. ASSUME NEW p \in Procs, Crash(p) PROVE AInv'
  BY <1>6, AFrame DEF Crash, Frame, disk
<1>7. CASE Ask
  BY <1>7, ReadsIs, AFrame DEF Ask
<1>8. CASE PackageUpdate
  <2>1. /\ pkg' = pkg + 1 /\ pkg' \in Versions /\ UNCHANGED <<conf, gen, name, sum, asked>>
    BY <1>8 DEF PackageUpdate, disk
  <2>2. sum' # pkg'
    BY <2>1, VersionsAssumption DEF KInv, CInv
  <2>. QED
    BY <2>1, <2>2 DEF AInv, Agreed
<1>9. CASE UNCHANGED vars
  BY <1>9, AFrame DEF vars, disk
<1>. QED
  BY <1>1, <1>2, <1>3, <1>4, <1>5, <1>6, <1>7, <1>8, <1>9 DEF Next, Step, ReadsOn, Changes

LEMMA AgreedIs == CInv /\ AInv => FeaturesAsAsked
<1>. SUFFICES ASSUME CInv, AInv, asked # Unknown
              PROVE  IF asked = Absent THEN ConfigRead(conf).errno = "ENOENT" /\ name # Link
        ELSE /\ conf[1] = asked.id /\ ToSet(Tail(conf)) \ {""} = asked.features
             /\ IsInjective(Tail(conf))
             /\ gen.id = asked.id /\ gen.features = asked.features
             /\ name = Link /\ CheckConfiguration = "EOK"
             /\ \A f \in Features :
                   IsFeatureEnabled(f) = IF f \in asked.features THEN "EOK" ELSE "ENOENT"
  BY DEF FeaturesAsAsked
<1>1. CASE asked = Absent
  BY <1>1, ConfigReadNothing DEF AInv, Agreed
<1>2. CASE asked # Absent
  <2>1. PICK id \in Installed, f \in Distinct :
           asked = [id |-> id, features |-> ToSet(f)] /\ conf = ConfigWrite(id, f)
    BY <1>2 DEF AInv, Agreed
  <2>2. f \in Seq(Features) /\ IsInjective(f)
    BY DEF Distinct
  <2>3. /\ conf[1] = id /\ ToSet(Tail(conf)) \ {""} = ToSet(f) /\ IsInjective(Tail(conf))
        /\ ConfigRead(conf) = [errno |-> "EOK", id |-> id, features |-> f]
    BY <2>1, <2>2, ConfigWritten
  <2>c. ConfigRead(conf).errno = "EOK" /\ ConfigRead(conf).id = id /\ ConfigRead(conf).features = f
    <3>. DEFINE c == ConfigRead(conf)
    <3>1. c = [errno |-> "EOK", id |-> id, features |-> f]
      BY <2>3
    <3>. HIDE DEF c
    <3>2. c.errno = "EOK" /\ c.id = id /\ c.features = f
      BY <3>1
    <3>. QED
      BY <3>2 DEF c
  <2>4. asked.id = id /\ asked.features = ToSet(f)
    BY <2>1
  <2>5. /\ gen \in Rendered /\ gen.id = asked.id /\ gen.features = asked.features /\ name = Link
    BY <1>2 DEF AInv, Agreed
  <2>6. CheckConfiguration = "EOK"
    <3>1. gen # Absent
      BY <2>5, MarkersAssumption
    <3>2. Validate = [errno |-> "EOK", valid |-> TRUE]
      BY <2>c, <2>5, <3>1, <2>4 DEF Validate
    <3>. QED
      BY <3>2 DEF CheckConfiguration
  <2>7. ASSUME NEW g \in Features
        PROVE  IsFeatureEnabled(g) = IF g \in asked.features THEN "EOK" ELSE "ENOENT"
    <3>1. HasValue(f, g) <=> g \in ToSet(f)
      BY <2>2, ContainsIs DEF HasValue
    <3>. QED
      BY <2>c, <2>4, <3>1 DEF IsFeatureEnabled
  <2>. QED
    BY <1>2, <2>3, <2>4, <2>5, <2>6, <2>7
<1>. QED
  BY <1>1, <1>2

(* The configuration is what the commands that succeeded add up to: no     *)
(* feature is lost, left over or doubled between the words, the array that *)
(* apply-changes deletes from (authselect.c:229), the file and the answers.*)
THEOREM NothingIsLost == WordsAreMeant => (Spec => []FeaturesAsAsked)
<1>. SUFFICES ASSUME WordsAreMeant PROVE Spec => []FeaturesAsAsked
  OBVIOUS
<1>. DEFINE I == CInv /\ BInv /\ OInv /\ TInv /\ KInv /\ MInv /\ AInv
<1>1. I => FeaturesAsAsked
  BY AgreedIs
<1>2. Init => I
  <2>1. Init => MInv
    BY DEF Init, MInv, Minds
  <2>. QED
    BY <2>1, InvInit, AInit
<1>3. I /\ [Next]_vars => I'
  BY InvNext, MNext, ANext
<1>. HIDE DEF I
<1>. QED
  BY <1>1, <1>2, <1>3, PTL DEF Spec

-----------------------------------------------------------------------------
(* Words that demand a backup become options, unless "--" is among them.   *)

LEMMA StripKeeps ==
    ASSUME NEW S, NEW words \in Seq(S), "--" \notin ToSet(words)
    PROVE  ToSet(StripLogging(words)) = ToSet(words) \ LoggingWords
<1>. DEFINE Fine(s) == "--" \notin ToSet(s) =>
                          /\ StripEnd(s).rest = FALSE
                          /\ ToSet(StripEnd(s).words) = ToSet(s) \ LoggingWords
            P == {s \in Seq(S) : Fine(s)}
<1>1. <<>> \in P
  <2>1. <<>> \in Seq({"-"}) /\ "-" \in {"-"}
    BY EmptyIs
  <2>2. StripEnd(<<>>).words = <<>> /\ StripEnd(<<>>).rest = FALSE
    BY <2>1, StripEndIs DEF StripStart
  <2>3. ToSet(<<>>) = {}
    BY DEF ToSet
  <2>. QED
    BY <2>2, <2>3, EmptyIs
<1>2. ASSUME NEW s \in Seq(S), NEW x \in S, s \in P PROVE Append(s, x) \in P
  <2>. DEFINE e == StripEnd(s)
              t == StripEnd(Append(s, x))
              u == Append(s, x)
  <2>1. u \in Seq(S) /\ ToSet(u) = ToSet(s) \cup {x}
    BY ToSetAppend
  <2>2. e \in StripStates(S) /\ t = StripWord(e, x)
    BY StripEndIs
  <2>3. "--" \notin ToSet(s) => e.rest = FALSE /\ ToSet(e.words) = ToSet(s) \ LoggingWords
    BY <1>2
  <2>4. e.words \in Seq(S)
    BY <2>2 DEF StripStates
  <2>. HIDE DEF e, P, t, u
  <2>5. ASSUME "--" \notin ToSet(u)
        PROVE  t.rest = FALSE /\ ToSet(t.words) = ToSet(u) \ LoggingWords
    <3>1. e.rest = FALSE /\ ToSet(e.words) = ToSet(s) \ LoggingWords /\ x # "--"
      BY <2>1, <2>3, <2>5
    <3>2. t.rest = FALSE /\ t.words = IF x \in LoggingWords THEN e.words ELSE Append(e.words, x)
      BY <2>2, <3>1 DEF StripWord
    <3>3. ToSet(Append(e.words, x)) = ToSet(e.words) \cup {x}
      BY <2>4, ToSetAppend
    <3>. QED
      BY <2>1, <3>1, <3>2, <3>3
  <2>6. Fine(u)
    BY <2>5 DEF t, u
  <2>. QED
    BY <2>1, <2>6 DEF P, u
<1>. HIDE DEF P
<1>3. words \in P
  BY <1>1, <1>2, SeqInduction
<1>4. StripLogging(words) = StripEnd(words).words
  BY StripLoggingFold DEF StripEnd, StripStart
<1>. QED
  BY <1>3, <1>4 DEF P

(* The options of a command that saves a backup if asked to.               *)
Saving(table) ==
    \A e \in table :
        /\ e[1] \in {"-b", "--backup", "--backup=before"} => e[2] \in {"backup", "name", "named"}
        /\ e[1] \in {"-f", "--force"} => e[2] = "force"
        /\ e[2] = "nobackup" => e[1] = "--nobackup"

LEMMA SaversSave == \A c \in Savers : Plain(OptionTable[c]) /\ Saving(OptionTable[c])
<1>. SUFFICES ASSUME NEW c \in Savers PROVE Plain(OptionTable[c]) /\ Saving(OptionTable[c])
  OBVIOUS
<1>1. c \in DOMAIN OptionTable
  BY DEF Savers, OptionTable
<1>2. OptionTable[c] \in {BackupWords \cup QuietWords \cup ForceWords,
                          BackupWords \cup {<<"--upgrade", "upgrade">>},
                          BackupWords \cup QuietWords, BackupWords}
  BY DEF Savers, OptionTable
<1>3. \A e \in BackupWords \cup QuietWords \cup ForceWords \cup {<<"--upgrade", "upgrade">>} :
        /\ e[1] \in {"-b", "--backup", "--backup=before"} => e[2] \in {"backup", "name", "named"}
        /\ e[1] \in {"-f", "--force"} => e[2] = "force"
        /\ e[2] = "nobackup" => e[1] = "--nobackup"
  BY DEF BackupWords, QuietWords, ForceWords
<1>4. OptionTable[c] \subseteq BackupWords \cup QuietWords \cup ForceWords
                                   \cup {<<"--upgrade", "upgrade">>}
  BY <1>2
<1>. QED
  BY <1>1, <1>3, <1>4, TablesArePlain DEF Saving

LEMMA DemandsAreOptions ==
    {"-b", "--backup", "--backup=before", "-f", "--force", "--nobackup"} \subseteq DashWords
<1>1. \A w \in {"-b", "--backup", "--backup=before", "-f", "--force", "--nobackup"} :
         \E e \in OptionTable["select"] : e[1] = w
  <2>1. OptionTable["select"] = BackupWords \cup QuietWords \cup ForceWords
    BY DEF OptionTable
  <2>2. <<"-b", "backup">> \in BackupWords /\ <<"--backup", "name">> \in BackupWords
        /\ <<"--backup=before", "named">> \in BackupWords
    BY DEF BackupWords
  <2>3. <<"-f", "force">> \in ForceWords /\ <<"--force", "force">> \in ForceWords
        /\ <<"--nobackup", "nobackup">> \in ForceWords
    BY DEF ForceWords
  <2>. QED
    BY <2>1, <2>2, <2>3
<1>2. "select" \in DOMAIN OptionTable
  BY DEF OptionTable
<1>. QED
  BY <1>1, <1>2 DEF DashWords

(* What popt has understood of the first words.                            *)
Understood(words, p) ==
    p.errno = "EOK" =>
        /\ p.rest = FALSE
        /\ p.pending => "name" \in p.options
        /\ ToSet(words) \cap {"-b", "--backup", "--backup=before"} # {}
             => p.options \cap {"backup", "name", "named"} # {}
        /\ ToSet(words) \cap {"-f", "--force"} # {} => p.options \cap {"force", "name"} # {}
        /\ "nobackup" \in p.options => "--nobackup" \in ToSet(words)

LEMMA UnderstoodOneMore ==
    ASSUME NEW table, Plain(table), Saving(table), NEW S, NEW s \in Seq(S), NEW w \in S,
           w # "--", NEW p \in PoptStates(table, S), Understood(s, p),
           NEW q, q = PoptWord(table, p, w), q.errno = "EOK"
    PROVE  Understood(Append(s, w), q)
<1>. DEFINE M == Meanings(table, w)
            more == ToSet(Append(s, w))
<1>1. PoptTurn(table, S, p, w, q)
  BY PoptWordIs
<1>2. more = ToSet(s) \cup {w}
  BY ToSetAppend
<1>3. p.pending \in BOOLEAN /\ p.rest \in BOOLEAN
  BY DEF PoptStates
<1>4. p.errno = "EOK"
  BY <1>1 DEF PoptTurn
<1>5. /\ p.rest = FALSE
      /\ p.pending => "name" \in p.options
      /\ ToSet(s) \cap {"-b", "--backup", "--backup=before"} # {}
           => p.options \cap {"backup", "name", "named"} # {}
      /\ ToSet(s) \cap {"-f", "--force"} # {} => p.options \cap {"force", "name"} # {}
      /\ "nobackup" \in p.options => "--nobackup" \in ToSet(s)
  BY <1>4 DEF Understood
<1>. HIDE DEF more
<1>6. CASE p.pending
  <2>1. q.rest = p.rest /\ q.pending = FALSE /\ q.options = p.options
    BY <1>1, <1>4, <1>6 DEF PoptTurn, PoptStates
  <2>. QED
    BY <1>2, <1>5, <1>6, <2>1 DEF Understood, more
<1>7. CASE ~p.pending /\ (w = "-" \/ w \notin DashWords)
  <2>1. q.rest = p.rest /\ q.pending = p.pending /\ q.options = p.options
    BY <1>1, <1>4, <1>7 DEF PoptTurn, PoptStates
  <2>2. w \notin {"-b", "--backup", "--backup=before", "-f", "--force"}
    BY <1>7, DemandsAreOptions
  <2>. QED
    BY <1>2, <1>5, <1>7, <2>1, <2>2 DEF Understood, more
<1>8. CASE ~p.pending /\ ~(w = "-" \/ w \notin DashWords)
  <2>1. M # {} /\ q = [p EXCEPT !.options = @ \cup M, !.pending = "name" \in M]
    BY <1>1, <1>4, <1>5, <1>8 DEF PoptTurn
  <2>2. /\ w \in {"-b", "--backup", "--backup=before"} => M \subseteq {"backup", "name", "named"}
        /\ w \in {"-f", "--force"} => M \subseteq {"force"}
        /\ "nobackup" \in M => w = "--nobackup"
    BY DEF Saving, Meanings
  <2>. HIDE DEF M
  <2>3. q.rest = p.rest /\ q.pending = ("name" \in M) /\ q.options = p.options \cup M
    BY <2>1 DEF PoptStates
  <2>4. w \in {"-b", "--backup", "--backup=before"}
          => q.options \cap {"backup", "name", "named"} # {}
    BY <2>1, <2>2, <2>3
  <2>5. w \in {"-f", "--force"} => q.options \cap {"force", "name"} # {}
    BY <2>1, <2>2, <2>3
  <2>6. "nobackup" \in q.options => "--nobackup" \in ToSet(s) \cup {w}
    BY <1>5, <2>2, <2>3
  <2>. QED
    BY <1>2, <1>5, <2>3, <2>4, <2>5, <2>6 DEF Understood, more
<1>. QED
  BY <1>3, <1>6, <1>7, <1>8

LEMMA UnderstoodAll ==
    ASSUME NEW table, Plain(table), Saving(table), NEW S, NEW words \in Seq(S),
           "--" \notin ToSet(words), NEW popt, popt = Popt(table, words), popt.errno = "EOK"
    PROVE  Understood(words, popt)
<1>. DEFINE Fine(s) == "--" \notin ToSet(s) => Understood(s, PoptEnd(table, s))
            P == {s \in Seq(S) : Fine(s)}
<1>1. <<>> \in P
  <2>1. <<>> \in Seq({"-"}) /\ "-" \in {"-"}
    BY EmptyIs
  <2>2. PoptEnd(table, <<>>) = PoptStart
    BY <2>1, PoptEndIs
  <2>3. ToSet(<<>>) = {}
    BY DEF ToSet
  <2>4. PoptStart.rest = FALSE /\ PoptStart.pending = FALSE /\ PoptStart.options = {}
    BY DEF PoptStart
  <2>5. Understood(<<>>, PoptStart)
    BY <2>3, <2>4 DEF Understood
  <2>. QED
    BY <2>2, <2>5, EmptyIs
<1>2. ASSUME NEW s \in Seq(S), NEW x \in S, s \in P PROVE Append(s, x) \in P
  <2>. DEFINE e == PoptEnd(table, s)
              t == PoptEnd(table, Append(s, x))
  <2>1. Append(s, x) \in Seq(S) /\ ToSet(Append(s, x)) = ToSet(s) \cup {x}
    BY ToSetAppend
  <2>2. e \in PoptStates(table, S) /\ t = PoptWord(table, e, x)
    BY PoptEndIs
  <2>3. "--" \notin ToSet(s) => Understood(s, e)
    BY <1>2
  <2>. HIDE DEF e, t, P
  <2>4. ASSUME "--" \notin ToSet(Append(s, x)) PROVE Understood(Append(s, x), t)
    <3>1. CASE t.errno # "EOK"
      BY <3>1 DEF Understood
    <3>2. CASE t.errno = "EOK"
      BY <2>1, <2>2, <2>3, <2>4, <3>2, UnderstoodOneMore
    <3>. QED
      BY <3>1, <3>2
  <2>5. Fine(Append(s, x))
    BY <2>4 DEF t
  <2>. QED
    BY <2>1, <2>5 DEF P
<1>. HIDE DEF P
<1>3. words \in P
  BY <1>1, <1>2, SeqInduction
<1>. DEFINE p == PoptEnd(table, words)
<1>4. Understood(words, p)
  BY <1>3 DEF P
<1>5. p \in PoptStates(table, S)
  <2>1. CASE words = <<>>
    <3>1. <<>> \in Seq({"-"}) /\ "-" \in {"-"}
      BY EmptyIs
    <3>2. p = PoptStart
      BY <2>1, <3>1, PoptEndIs
    <3>. QED
      BY <3>2 DEF PoptStart, PoptStates
  <2>2. CASE words # <<>>
    <3>1. words[1] \in S
      BY <2>2
    <3>. QED
      BY <3>1, PoptEndIs
  <2>. QED
    BY <2>1, <2>2
<1>6. popt = IF p.pending THEN [p EXCEPT !.errno = "EINVAL"] ELSE p
  BY PoptFold
<1>. HIDE DEF p
<1>7. popt = p
  <2>1. [p EXCEPT !.errno = "EINVAL"].errno = "EINVAL"
    BY <1>5 DEF PoptStates
  <2>. QED
    BY <1>6, <2>1
<1>. QED
  BY <1>4, <1>7

(* Unless "--" is among them, the words that demand a backup reach the     *)
(* command as options: a word that popt takes for the name of a backup     *)
(* follows one that demands it (main.c:192-194).                           *)
THEOREM HeardUnlessEnded ==
    (\A line \in CommandLines : "--" \notin ToSet(line.words)) => WordsAreHeard
<1>. SUFFICES ASSUME NEW line \in CommandLines, "--" \notin ToSet(line.words),
                     Routed[line].errno = "EOK", line.name \in NeedRoot \ {"opt-out"},
                     Demands(line.words)
              PROVE  AsksBackup(Routed[line].options)
  BY DEF WordsAreHeard
<1>. DEFINE words == StripLogging(line.words)
            options == Routed[line].options
<1>1. line.words \in Seq(STRING)
  BY LinesAssumption
<1>2. line.name \in Savers
  BY DEF NeedRoot, Savers
<1>3. PICK popt : Heard(line, Routed[line], popt)
  BY RoutedIs
<1>4. /\ popt = Popt(OptionTable[line.name], words) /\ popt.errno = "EOK"
      /\ options \in {popt.options, popt.options \cup {"preset"}}
  BY <1>3 DEF Heard
<1>5. words \in Seq(STRING) /\ ToSet(words) = ToSet(line.words) \ LoggingWords
  BY <1>1, StripIs, StripKeeps
<1>6. LoggingWords \cap {"-b", "--backup", "--backup=before", "-f", "--force", "--nobackup"} = {}
  BY DEF LoggingWords
<1>. HIDE DEF words
<1>7. Understood(words, popt)
  BY <1>2, <1>4, <1>5, SaversSave, UnderstoodAll
<1>8. \/ ToSet(words) \cap {"-b", "--backup", "--backup=before"} # {}
      \/ ToSet(words) \cap {"-f", "--force"} # {} /\ "--nobackup" \notin ToSet(words)
  BY <1>5, <1>6 DEF Demands
<1>9. \/ popt.options \cap {"backup", "name", "named"} # {}
      \/ "force" \in popt.options /\ "nobackup" \notin popt.options
  BY <1>4, <1>7, <1>8 DEF Understood
<1>. QED
  BY <1>4, <1>9 DEF AsksBackup

=============================================================================
