--------------------------- MODULE EvaluatorProofs ---------------------------
(***************************************************************************)
(* Proofs about Evaluator as Template drives it, for any features, any     *)
(* templates and expressions of any length.                                *)
(***************************************************************************)
EXTENDS Template, TLAPS, WellFoundedInduction

(* Induction over the naturals, in a form in which the provers can use it: *)
(* for a set of numbers that has been given a name.                        *)
LEMMA LeastNatural ==
    ASSUME NEW T \in SUBSET Nat, T # {}
    PROVE  \E x \in T : \A y \in T : x <= y
<1>. DEFINE R == OpToRel(<, Nat)
<1>1. IsWellFoundedOn(R, Nat)
  BY NatLessThanWellFounded
<1>2. \A x, y \in Nat : x < y => <<x, y>> \in R
  BY DEF OpToRel
<1>. HIDE DEF R
<1>3. PICK x \in T : \A y \in T : ~(<<y, x>> \in R)
  BY <1>1, WFMin
<1>4. ASSUME NEW y \in T PROVE x <= y
  <2>1. x \in Nat /\ y \in Nat /\ ~(y < x)
    BY <1>2, <1>3
  <2>. QED
    BY <2>1
<1>. QED
  BY <1>4

LEMMA InductionOverNat ==
    ASSUME NEW S, 0 \in S, \A n \in Nat : n \in S => n + 1 \in S
    PROVE  \A n \in Nat : n \in S
<1>. DEFINE T == Nat \ S
<1>. SUFFICES ASSUME T # {} PROVE FALSE
  OBVIOUS
<1>1. PICK n \in T : \A m \in T : n <= m
  BY LeastNatural
<1>2. n \in Nat /\ n # 0
  BY <1>1
<1>3. n - 1 \in Nat /\ n - 1 \notin T /\ (n - 1) + 1 = n
  BY <1>1, <1>2
<1>. QED
  BY <1>1, <1>3

-----------------------------------------------------------------------------
(* The reference definition, Values, is a recursive function.  It          *)
(* satisfies its equation: functions that do so for all parts smaller than *)
(* n exist for every n, and the equation is that of any of them.           *)

Kinds == {"expression", "operand"}
Domain(e) == Spans(e) \X Kinds

(* A part is determined by smaller ones.                                   *)
Size(e, s) == 2 * (Len(e) + s[1][2] - s[1][1]) + (IF s[2] = "expression" THEN 1 ELSE 0)

Body(e, f, V, s) ==
    LET i == s[1][1]
        j == s[1][2]
        Operand(a, b)    == IF a > b THEN {} ELSE V[<<<<a, b>>, "operand">>]
        Expression(a, b) == IF a > b THEN {} ELSE V[<<<<a, b>>, "expression">>]
    IN  IF s[2] = "operand"
        THEN IF i = j /\ e[i] \in Features THEN {e[i] \in f}
             ELSE IF e[i] = "not" /\ i < j THEN {~v : v \in Operand(i + 1, j)}
             ELSE IF e[i] = "(" /\ e[j] = ")" /\ i + 1 < j THEN Expression(i + 1, j - 1)
             ELSE {}
        ELSE Operand(i, j) \cup
             UNION {{IF e[k] = "and" THEN v /\ w ELSE v \/ w :
                        v \in Expression(i, k - 1), w \in Operand(k + 1, j)} :
                    k \in {k \in (i + 1)..(j - 1) : e[k] \in Operators}}

LEMMA SizeIs ==
    ASSUME NEW e \in Seq(Tokens), NEW i \in 1..Len(e), NEW j \in 1..Len(e)
    PROVE  /\ Size(e, <<<<i, j>>, "operand">>) = 2 * (Len(e) + j - i)
           /\ Size(e, <<<<i, j>>, "expression">>) = 2 * (Len(e) + j - i) + 1
           /\ <<<<i, j>>, "operand">> \in Domain(e) /\ <<<<i, j>>, "expression">> \in Domain(e)
           /\ 2 * (Len(e) + j - i) \in Nat
BY DEF Size, Domain, Spans, Kinds

LEMMA DomainIs ==
    ASSUME NEW e \in Seq(Tokens), NEW s \in Domain(e)
    PROVE  \E i, j \in 1..Len(e) : s = <<<<i, j>>, "operand">> \/ s = <<<<i, j>>, "expression">>
BY DEF Domain, Spans, Kinds

LEMMA BodyIsLocal ==
    ASSUME NEW e \in Seq(Tokens), NEW f, NEW V, NEW W, NEW s \in Domain(e),
           \A t \in Domain(e) : Size(e, t) < Size(e, s) => V[t] = W[t]
    PROVE  Body(e, f, V, s) = Body(e, f, W, s)
<1>. DEFINE O(F, a, b) == IF a > b THEN {} ELSE F[<<<<a, b>>, "operand">>]
            E(F, a, b) == IF a > b THEN {} ELSE F[<<<<a, b>>, "expression">>]
<1>0. PICK i \in 1..Len(e), j \in 1..Len(e) :
         s = <<<<i, j>>, "operand">> \/ s = <<<<i, j>>, "expression">>
  BY DomainIs
<1>1. CASE s = <<<<i, j>>, "operand">>
  <2>1. i < j => O(V, i + 1, j) = O(W, i + 1, j)
    <3>. SUFFICES ASSUME i < j PROVE V[<<<<i + 1, j>>, "operand">>] = W[<<<<i + 1, j>>, "operand">>]
      OBVIOUS
    <3>1. i + 1 \in 1..Len(e) /\ 2 * (Len(e) + j - (i + 1)) < 2 * (Len(e) + j - i)
      OBVIOUS
    <3>. DEFINE t == <<<<i + 1, j>>, "operand">>
    <3>2. Size(e, s) = 2 * (Len(e) + j - i)
      BY <1>1, SizeIs
    <3>3. t \in Domain(e) /\ Size(e, t) = 2 * (Len(e) + j - (i + 1))
      BY <3>1, SizeIs
    <3>. HIDE DEF t
    <3>4. V[t] = W[t]
      BY <3>1, <3>2, <3>3
    <3>. QED
      BY <3>4 DEF t
  <2>2. i + 1 < j => E(V, i + 1, j - 1) = E(W, i + 1, j - 1)
    <3>. SUFFICES ASSUME i + 1 < j
                  PROVE V[<<<<i + 1, j - 1>>, "expression">>] = W[<<<<i + 1, j - 1>>, "expression">>]
      OBVIOUS
    <3>1. i + 1 \in 1..Len(e) /\ j - 1 \in 1..Len(e)
          /\ 2 * (Len(e) + (j - 1) - (i + 1)) + 1 < 2 * (Len(e) + j - i)
      OBVIOUS
    <3>. DEFINE t == <<<<i + 1, j - 1>>, "expression">>
    <3>2. Size(e, s) = 2 * (Len(e) + j - i)
      BY <1>1, SizeIs
    <3>3. t \in Domain(e) /\ Size(e, t) = 2 * (Len(e) + (j - 1) - (i + 1)) + 1
      BY <3>1, SizeIs
    <3>. HIDE DEF t
    <3>4. V[t] = W[t]
      BY <3>1, <3>2, <3>3
    <3>. QED
      BY <3>4 DEF t
  <2>. HIDE DEF O, E
  <2>3. \A F : Body(e, f, F, s) =
               IF i = j /\ e[i] \in Features THEN {e[i] \in f}
               ELSE IF e[i] = "not" /\ i < j THEN {~v : v \in O(F, i + 1, j)}
               ELSE IF e[i] = "(" /\ e[j] = ")" /\ i + 1 < j THEN E(F, i + 1, j - 1)
               ELSE {}
    BY <1>1 DEF Body, O, E
  <2>. QED
    BY <2>1, <2>2, <2>3
<1>2. CASE s = <<<<i, j>>, "expression">>
  <2>1. O(V, i, j) = O(W, i, j)
    <3>1. 2 * (Len(e) + j - i) < 2 * (Len(e) + j - i) + 1
      OBVIOUS
    <3>. QED
      BY <1>2, <3>1, SizeIs
  <2>2. ASSUME NEW k \in (i + 1)..(j - 1)
        PROVE  E(V, i, k - 1) = E(W, i, k - 1) /\ O(V, k + 1, j) = O(W, k + 1, j)
    <3>1. /\ k - 1 \in 1..Len(e) /\ k + 1 \in 1..Len(e)
          /\ 2 * (Len(e) + (k - 1) - i) + 1 < 2 * (Len(e) + j - i) + 1
          /\ 2 * (Len(e) + j - (k + 1)) < 2 * (Len(e) + j - i) + 1
      OBVIOUS
    <3>. QED
      BY <1>2, <3>1, SizeIs
  <2>. HIDE DEF O, E
  <2>. DEFINE K == {k \in (i + 1)..(j - 1) : e[k] \in Operators}
              M(F, k) == {IF e[k] = "and" THEN v /\ w ELSE v \/ w :
                             v \in E(F, i, k - 1), w \in O(F, k + 1, j)}
  <2>3. \A k \in K : M(V, k) = M(W, k)
    BY <2>2
  <2>. HIDE DEF M
  <2>4. UNION {M(V, k) : k \in K} = UNION {M(W, k) : k \in K}
    BY <2>3
  <2>5. \A F : Body(e, f, F, s) = O(F, i, j) \cup UNION {M(F, k) : k \in K}
    BY <1>2 DEF Body, O, E, M
  <2>. QED
    BY <2>1, <2>4, <2>5
<1>. QED
  BY <1>0, <1>1, <1>2

(* The equation.                                                           *)
LEMMA ValuesAre ==
    ASSUME NEW e \in Seq(Tokens), NEW f
    PROVE  Values(e, f) = [s \in Domain(e) |-> Body(e, f, Values(e, f), s)]
<1>. DEFINE B(F, s) == Body(e, f, F, s)
            Good(n) == \E F : F = [s \in Domain(e) |-> F[s]] /\
                              \A s \in Domain(e) : Size(e, s) < n => F[s] = B(F, s)
            Bad == {n \in Nat : ~Good(n)}
<1>a. ASSUME NEW s \in Domain(e) PROVE Size(e, s) \in Nat /\ Size(e, s) < 4 * Len(e) + 2
  <2>1. PICK i \in 1..Len(e), j \in 1..Len(e) :
           s = <<<<i, j>>, "operand">> \/ s = <<<<i, j>>, "expression">>
    BY <1>a, DomainIs
  <2>2. Len(e) + j - i \in Nat /\ Len(e) + j - i <= 2 * Len(e)
    OBVIOUS
  <2>3. Size(e, s) = 2 * (Len(e) + j - i) \/ Size(e, s) = 2 * (Len(e) + j - i) + 1
    BY <2>1, SizeIs
  <2>. QED
    BY <2>2, <2>3
<1>1. Good(0)
  <2>. DEFINE F == [s \in Domain(e) |-> {}]
  <2>1. F = [s \in Domain(e) |-> F[s]] /\ \A s \in Domain(e) : ~(Size(e, s) < 0)
    BY <1>a
  <2>. QED
    BY <2>1
<1>2. ASSUME NEW n \in Nat, Good(n) PROVE Good(n + 1)
  <2>1. PICK F : \A s \in Domain(e) : Size(e, s) < n => F[s] = B(F, s)
    BY <1>2
  <2>. DEFINE G == [s \in Domain(e) |-> B(F, s)]
  <2>2. \A s \in Domain(e) : Size(e, s) < n => G[s] = F[s]
    BY <2>1
  <2>3. G = [s \in Domain(e) |-> G[s]] /\ \A s \in Domain(e) : G[s] = B(F, s)
    OBVIOUS
  <2>. HIDE DEF G
  <2>4. ASSUME NEW s \in Domain(e), Size(e, s) < n + 1 PROVE G[s] = B(G, s)
    <3>1. \A t \in Domain(e) : Size(e, t) < Size(e, s) => Size(e, t) < n
      BY <1>a, <2>4
    <3>2. B(F, s) = B(G, s)
      BY <2>2, <3>1, BodyIsLocal
    <3>. QED
      BY <2>3, <3>2
  <2>. QED
    BY <2>3, <2>4
<1>3. Bad = {}
  <2>. SUFFICES ASSUME Bad # {} PROVE FALSE
    OBVIOUS
  <2>1. PICK n \in Bad : \A m \in Bad : n <= m
    BY LeastNatural
  <2>. HIDE DEF Good
  <2>2. n # 0 /\ n \in Nat
    BY <1>1, <2>1
  <2>3. n - 1 \in Nat /\ ~(n - 1 \in Bad) /\ (n - 1) + 1 = n
    BY <2>1, <2>2
  <2>. QED
    BY <1>2, <2>1, <2>3
<1>4. PICK F : F = [s \in Domain(e) |-> F[s]] /\ \A s \in Domain(e) : F[s] = B(F, s)
  <2>1. Good(4 * Len(e) + 2)
    <3>. HIDE DEF Good
    <3>1. 4 * Len(e) + 2 \in Nat
      OBVIOUS
    <3>. QED
      BY <1>3, <3>1
  <2>. QED
    BY <1>a, <2>1
<1>. DEFINE Q(W) == W = [s \in Domain(e) |-> B(W, s)]
<1>5. Q(F)
  <2>1. [s \in Domain(e) |-> F[s]] = [s \in Domain(e) |-> B(F, s)]
    BY <1>4
  <2>. QED
    BY <1>4, <2>1
<1>6. Values(e, f) = CHOOSE W : Q(W)
  BY DEF Values, Domain, Kinds, Body
<1>. HIDE DEF Q
<1>7. Q(Values(e, f))
  BY <1>5, <1>6
<1>. QED
  BY <1>7 DEF Q

-----------------------------------------------------------------------------
(* The values of the parts of an expression.                               *)

Operand(e, f, i, j) ==
    IF i > j THEN {} ELSE Values(e, f)[<<<<i, j>>, "operand">>]
Expression(e, f, i, j) ==
    IF i > j THEN {} ELSE Values(e, f)[<<<<i, j>>, "expression">>]

Joined(op, v, w) == IF op = "and" THEN v /\ w ELSE v \/ w

Negations(S)  == {~v : v \in S}
Truth(p)      == {p}
JoinsOf(op, S, T) == {Joined(op, v, w) : v \in S, w \in T}

Joinings(e, f, i, j) ==
    UNION {JoinsOf(e[k], Expression(e, f, i, k - 1), Operand(e, f, k + 1, j)) :
               k \in {k \in (i + 1)..(j - 1) : e[k] \in Operators}}

LEMMA TokensDiffer ==
    /\ \A t \in Features : t \notin Operators /\ t # "not" /\ t # "(" /\ t # ")" /\ t # Odd
                         /\ t # Word /\ t # Quote
    /\ Odd \notin Operators /\ Odd # "not" /\ Odd # "(" /\ Odd # ")"
    /\ Word \notin Operators /\ Word # "not" /\ Word # "(" /\ Word # ")"
    /\ Quote \notin Operators /\ Quote # "not" /\ Quote # "(" /\ Quote # ")"
    /\ "not" \notin Operators /\ "(" \notin Operators /\ ")" \notin Operators
BY TokensAssumption DEF Operators

LEMMA PartsAre ==
    ASSUME NEW e \in Seq(Tokens), NEW f, NEW i \in 1..Len(e), NEW j \in 1..Len(e), i <= j
    PROVE  /\ Operand(e, f, i, j) =
                 IF i = j /\ e[i] \in Features THEN Truth(e[i] \in f)
                 ELSE IF e[i] = "not" /\ i < j THEN Negations(Operand(e, f, i + 1, j))
                 ELSE IF e[i] = "(" /\ e[j] = ")" /\ i + 1 < j
                      THEN Expression(e, f, i + 1, j - 1)
                 ELSE {}
           /\ Expression(e, f, i, j) =
                 Operand(e, f, i, j) \cup Joinings(e, f, i, j)
<1>. DEFINE V == Values(e, f)
            O(a, b) == IF a > b THEN {} ELSE V[<<<<a, b>>, "operand">>]
            E(a, b) == IF a > b THEN {} ELSE V[<<<<a, b>>, "expression">>]
            s == <<<<i, j>>, "operand">>
            t == <<<<i, j>>, "expression">>
<1>1. s \in Domain(e) /\ t \in Domain(e)
  BY SizeIs
<1>2. V[s] = Body(e, f, V, s) /\ V[t] = Body(e, f, V, t)
  <2>1. V = [r \in Domain(e) |-> Body(e, f, V, r)]
    BY ValuesAre
  <2>. HIDE DEF V
  <2>. QED
    BY <1>1, <2>1
<1>3. Body(e, f, V, s) =
                 IF i = j /\ e[i] \in Features THEN Truth(e[i] \in f)
                 ELSE IF e[i] = "not" /\ i < j THEN Negations(O(i + 1, j))
                 ELSE IF e[i] = "(" /\ e[j] = ")" /\ i + 1 < j THEN E(i + 1, j - 1)
                 ELSE {}
  BY DEF Body, Truth, Negations
<1>4. Body(e, f, V, t) =
                 O(i, j) \cup
                 UNION {JoinsOf(e[k], E(i, k - 1), O(k + 1, j)) :
                        k \in {k \in (i + 1)..(j - 1) : e[k] \in Operators}}
  BY DEF Body, JoinsOf, Joined
<1>5. \A a, b : O(a, b) = Operand(e, f, a, b) /\ E(a, b) = Expression(e, f, a, b)
  BY DEF Operand, Expression
<1>6. V[s] = Operand(e, f, i, j) /\ V[t] = Expression(e, f, i, j)
  BY DEF Operand, Expression
<1>. HIDE DEF V, O, E, s, t
<1>7. UNION {JoinsOf(e[k], E(i, k - 1), O(k + 1, j)) :
             k \in {k \in (i + 1)..(j - 1) : e[k] \in Operators}} = Joinings(e, f, i, j)
  BY <1>5 DEF Joinings
<1>. QED
  BY <1>2, <1>3, <1>4, <1>5, <1>6, <1>7

(* The rules of the grammar, one by one.                                   *)
LEMMA Rules ==
    ASSUME NEW e \in Seq(Tokens), NEW f, NEW i \in 1..Len(e), NEW j \in 1..Len(e), i <= j
    PROVE  /\ e[i] \in Features /\ i = j => Operand(e, f, i, j) = {e[i] \in f}
           /\ e[i] \in Features /\ i # j => Operand(e, f, i, j) = {}
           /\ e[i] = "not" =>
                 Operand(e, f, i, j) = {~v : v \in Operand(e, f, i + 1, j)}
           /\ e[i] = "(" /\ e[j] = ")" =>
                 Operand(e, f, i, j) = Expression(e, f, i + 1, j - 1)
           /\ e[i] = "(" /\ e[j] # ")" => Operand(e, f, i, j) = {}
           /\ e[i] \notin Features \cup {"not", "("} => Operand(e, f, i, j) = {}
<1>1. /\ e[i] \in Features => e[i] # "not" /\ e[i] # "("
      /\ "not" \notin Features /\ "(" \notin Features
  BY TokensDiffer
<1>2. i = j => Operand(e, f, i + 1, j) = {} /\ Expression(e, f, i + 1, j - 1) = {}
  BY DEF Operand, Expression
<1>3. ~(i + 1 < j) => Expression(e, f, i + 1, j - 1) = {}
  BY DEF Expression
<1>. DEFINE O == Operand(e, f, i, j)
            N == Negations(Operand(e, f, i + 1, j))
            E == Expression(e, f, i + 1, j - 1)
            F == Truth(e[i] \in f)
<1>4. i = j => N = {} /\ E = {}
  BY <1>2 DEF Negations
<1>5. ~(i + 1 < j) => E = {}
  BY <1>3
<1>6. O = IF i = j /\ e[i] \in Features THEN F
          ELSE IF e[i] = "not" /\ i < j THEN N
          ELSE IF e[i] = "(" /\ e[j] = ")" /\ i + 1 < j THEN E ELSE {}
  BY PartsAre
<1>. HIDE DEF O, N, E, F
<1>7. /\ e[i] \in Features /\ i = j => O = F
      /\ e[i] \in Features /\ i # j => O = {}
      /\ e[i] = "not" => O = N
      /\ e[i] = "(" /\ e[j] = ")" => O = E
      /\ e[i] = "(" /\ e[j] # ")" => O = {}
      /\ e[i] \notin Features \cup {"not", "("} => O = {}
  BY <1>1, <1>4, <1>5, <1>6
<1>. QED
  BY <1>7 DEF O, N, E, F, Negations, Truth

LEMMA ParenthesesAre ==
    ASSUME NEW e \in Seq(Tokens), NEW f, NEW i \in 1..Len(e), NEW j \in 1..Len(e),
           i <= j, e[i] = "(", e[j] = ")"
    PROVE  Operand(e, f, i, j) = Expression(e, f, i + 1, j - 1)
<1>. DEFINE O == Operand(e, f, i, j)
            N == Negations(Operand(e, f, i + 1, j))
            E == Expression(e, f, i + 1, j - 1)
            F == Truth(e[i] \in f)
<1>1. e[i] \notin Features /\ e[i] # "not"
  BY TokensDiffer
<1>2. O = IF i = j /\ e[i] \in Features THEN F
          ELSE IF e[i] = "not" /\ i < j THEN N
          ELSE IF e[i] = "(" /\ e[j] = ")" /\ i + 1 < j THEN E ELSE {}
  BY PartsAre
<1>3. ~(i + 1 < j) => E = {}
  BY DEF Expression
<1>. HIDE DEF O, N, E, F
<1>4. O = E
  BY <1>1, <1>2, <1>3
<1>. QED
  BY <1>4 DEF O, E

(* x joins the values of two parts.                                        *)
Joins(e, f, i, j, x) ==
    \E k \in (i + 1)..(j - 1) : \E v \in Expression(e, f, i, k - 1) :
       \E w \in Operand(e, f, k + 1, j) : e[k] \in Operators /\ x = Joined(e[k], v, w)

LEMMA JoiningsAre ==
    ASSUME NEW e \in Seq(Tokens), NEW f, NEW i \in 1..Len(e), NEW j \in 1..Len(e), NEW x
    PROVE  x \in Joinings(e, f, i, j) <=> Joins(e, f, i, j, x)
<1>. DEFINE K == {k \in (i + 1)..(j - 1) : e[k] \in Operators}
            M(k) == JoinsOf(e[k], Expression(e, f, i, k - 1),
                            Operand(e, f, k + 1, j))
<1>1. Joinings(e, f, i, j) = UNION {M(k) : k \in K}
  BY DEF Joinings
<1>2. \A k \in K : x \in M(k) <=>
         \E v \in Expression(e, f, i, k - 1) : \E w \in Operand(e, f, k + 1, j) :
            x = Joined(e[k], v, w)
  BY DEF JoinsOf
<1>. HIDE DEF M
<1>3. x \in Joinings(e, f, i, j) <=> \E k \in K : x \in M(k)
  BY <1>1
<1>. QED
  BY <1>2, <1>3 DEF Joins

LEMMA ExpressionCases ==
    ASSUME NEW e \in Seq(Tokens), NEW f, NEW i \in 1..Len(e), NEW j \in 1..Len(e),
           i <= j, NEW x
    PROVE  x \in Expression(e, f, i, j) <=>
               x \in Operand(e, f, i, j) \/ Joins(e, f, i, j, x)
<1>1. Expression(e, f, i, j) =
          Operand(e, f, i, j) \cup Joinings(e, f, i, j)
  BY PartsAre
<1>2. x \in Joinings(e, f, i, j) <=> Joins(e, f, i, j, x)
  BY JoiningsAre
<1>. QED
  BY <1>1, <1>2

LEMMA JoinIn ==
    ASSUME NEW e \in Seq(Tokens), NEW f, NEW i \in 1..Len(e), NEW j \in 1..Len(e),
           NEW k \in (i + 1)..(j - 1), e[k] \in Operators,
           NEW v \in Expression(e, f, i, k - 1), NEW w \in Operand(e, f, k + 1, j)
    PROVE  Joined(e[k], v, w) \in Expression(e, f, i, j)
<1>1. Joins(e, f, i, j, Joined(e[k], v, w))
  BY DEF Joins
<1>2. i <= j
  OBVIOUS
<1>. QED
  BY <1>1, <1>2, ExpressionCases

LEMMA JoinedIsBoolean == \A op : \A v, w \in BOOLEAN : Joined(op, v, w) \in BOOLEAN
BY Zenon DEF Joined

LEMMA MembershipIsBoolean == \A x, S : (x \in S) \in BOOLEAN
<1>. TAKE x, S
<1>1. CASE x \in S
  BY <1>1
<1>2. CASE x \notin S
  BY <1>2
<1>. QED
  BY <1>1, <1>2

LEMMA OutsideIsEmpty ==
    \A e, f, i, j : i > j => Operand(e, f, i, j) = {} /\ Expression(e, f, i, j) = {}
BY DEF Operand, Expression

(* What an operand is made of, and what an expression is made of, when all *)
(* their parts are of one kind.                                            *)
LEMMA OperandCases ==
    ASSUME NEW e \in Seq(Tokens), NEW f, NEW i \in 1..Len(e), NEW j \in 1..Len(e), i <= j
    PROVE  \/ i = j /\ e[i] \in Features /\ Operand(e, f, i, j) = {e[i] \in f}
           \/ i < j /\ e[i] = "not" /\ Operand(e, f, i, j) = Negations(Operand(e, f, i + 1, j))
           \/ /\ i + 1 < j /\ e[i] = "(" /\ e[j] = ")"
              /\ Operand(e, f, i, j) = Expression(e, f, i + 1, j - 1)
           \/ Operand(e, f, i, j) = {}
<1>. DEFINE O == Operand(e, f, i, j)
            N == Negations(Operand(e, f, i + 1, j))
            E == Expression(e, f, i + 1, j - 1)
            F == Truth(e[i] \in f)
<1>1. O = IF i = j /\ e[i] \in Features THEN F
          ELSE IF e[i] = "not" /\ i < j THEN N
          ELSE IF e[i] = "(" /\ e[j] = ")" /\ i + 1 < j THEN E ELSE {}
  BY PartsAre
<1>2. F = {e[i] \in f}
  BY DEF Truth
<1>. HIDE DEF O, N, E, F
<1>3. \/ i = j /\ e[i] \in Features /\ O = F
      \/ i < j /\ e[i] = "not" /\ O = N
      \/ i + 1 < j /\ e[i] = "(" /\ e[j] = ")" /\ O = E
      \/ O = {}
  BY <1>1
<1>. QED
  BY <1>2, <1>3 DEF O, N, E

LEMMA NegationsAre == \A S : /\ Negations(S) \subseteq BOOLEAN
                             /\ Negations(S) = {} <=> S = {}
<1>. TAKE S
<1>1. Negations(S) \subseteq BOOLEAN
  <2>1. \A v : (~v) \in BOOLEAN
    BY Zenon
  <2>. QED
    BY <2>1, Zenon DEF Negations
<1>2. ASSUME NEW v \in S PROVE Negations(S) # {}
  <2>1. (~v) \in Negations(S)
    BY <1>2 DEF Negations
  <2>. QED
    BY <2>1
<1>3. ASSUME S = {} PROVE Negations(S) = {}
  BY <1>3 DEF Negations
<1>. QED
  BY <1>1, <1>2, <1>3

(* Induction over the length of a part.                                    *)
LEMMA PartsAreBoolean ==
    ASSUME NEW e \in Seq(Tokens), NEW f
    PROVE  \A i, j \in 1..Len(e) : /\ Operand(e, f, i, j) \subseteq BOOLEAN
                                 /\ Expression(e, f, i, j) \subseteq BOOLEAN
<1>. DEFINE O(i, j) == Operand(e, f, i, j)
            E(i, j) == Expression(e, f, i, j)
            Good(i, j) == O(i, j) \subseteq BOOLEAN /\ E(i, j) \subseteq BOOLEAN
            S == {d \in Nat : \A i, j \in 1..Len(e) : j - i < d => Good(i, j)}
<1>0. \A i, j : i > j => O(i, j) = {} /\ E(i, j) = {}
  BY OutsideIsEmpty
<1>1. 0 \in S
  BY <1>0
<1>2. ASSUME NEW d \in Nat, d \in S PROVE d + 1 \in S
  <2>. SUFFICES ASSUME NEW i \in 1..Len(e), NEW j \in 1..Len(e), j - i < d + 1 PROVE Good(i, j)
    OBVIOUS
  <2>1. CASE i > j
    BY <1>0, <2>1
  <2>2. CASE i <= j
    <3>1. \A a, b \in 1..Len(e) : b - a < d => Good(a, b)
      BY <1>2
    <3>2. O(i, j) \subseteq BOOLEAN
      <4>1. CASE O(i, j) = {e[i] \in f}
        <5>1. (e[i] \in f) \in BOOLEAN
          BY MembershipIsBoolean
        <5>. HIDE DEF O
        <5>. QED
          BY <4>1, <5>1, Zenon
      <4>2. CASE O(i, j) = Negations(O(i + 1, j))
        BY <4>2, NegationsAre
      <4>3. CASE i + 1 < j /\ O(i, j) = E(i + 1, j - 1)
        <5>1. i + 1 \in 1..Len(e) /\ j - 1 \in 1..Len(e) /\ (j - 1) - (i + 1) < d
          BY <4>3
        <5>. HIDE DEF O, E
        <5>. QED
          BY <3>1, <4>3, <5>1
      <4>4. CASE O(i, j) = {}
        BY <4>4
      <4>. QED
        BY <2>2, <4>1, <4>2, <4>3, <4>4, OperandCases
    <3>3. ASSUME NEW x \in E(i, j) PROVE x \in BOOLEAN
      <4>1. CASE x \in O(i, j)
        BY <3>2, <4>1
      <4>2. CASE x \notin O(i, j)
        <5>j. Joins(e, f, i, j, x)
          BY <2>2, <3>3, <4>2, ExpressionCases
        <5>0. \E k \in (i + 1)..(j - 1) : \E v \in E(i, k - 1) : \E w \in O(k + 1, j) :
                 e[k] \in Operators /\ x = Joined(e[k], v, w)
          BY <5>j DEF Joins
        <5>. HIDE DEF O, E
        <5>1. PICK k \in (i + 1)..(j - 1) : \E v \in E(i, k - 1) : \E w \in O(k + 1, j) :
                 x = Joined(e[k], v, w)
          BY <5>0
        <5>2. PICK v \in E(i, k - 1), w \in O(k + 1, j) : x = Joined(e[k], v, w)
          BY <5>1
        <5>3. /\ k - 1 \in 1..Len(e) /\ (k - 1) - i < d
              /\ k + 1 \in 1..Len(e) /\ j - (k + 1) < d
          OBVIOUS
        <5>4. v \in BOOLEAN /\ w \in BOOLEAN
          BY <3>1, <5>3
        <5>5. Joined(e[k], v, w) \in BOOLEAN
          BY <5>4, JoinedIsBoolean, Zenon
        <5>6. x = Joined(e[k], v, w)
          BY <5>2
        <5>. HIDE DEF Good, S
        <5>. QED
          BY <5>5, <5>6, Zenon
      <4>. QED
        BY <4>1, <4>2
    <3>. QED
      BY <3>2, <3>3
  <2>. QED
    BY <2>1, <2>2
<1>. HIDE DEF S
<1>3. \A d \in Nat : d \in S
  BY <1>1, <1>2, InductionOverNat
<1>4. Len(e) \in S
  BY <1>3
<1>. QED
  BY <1>4 DEF S

(* Whether there are values does not depend on the features.               *)
LEMMA ShapesAgree ==
    ASSUME NEW e \in Seq(Tokens), NEW f, NEW g
    PROVE  \A i, j \in 1..Len(e) :
              /\ Operand(e, f, i, j) # {} => Operand(e, g, i, j) # {}
              /\ Expression(e, f, i, j) # {} => Expression(e, g, i, j) # {}
<1>. DEFINE O(h, i, j) == Operand(e, h, i, j)
            E(h, i, j) == Expression(e, h, i, j)
            Good(i, j) == /\ O(f, i, j) # {} => O(g, i, j) # {}
                          /\ E(f, i, j) # {} => E(g, i, j) # {}
            S == {d \in Nat : \A i, j \in 1..Len(e) : j - i < d => Good(i, j)}
<1>0. \A h, i, j : i > j => O(h, i, j) = {} /\ E(h, i, j) = {}
  BY OutsideIsEmpty
<1>1. 0 \in S
  BY <1>0
<1>2. ASSUME NEW d \in Nat, d \in S PROVE d + 1 \in S
  <2>. SUFFICES ASSUME NEW i \in 1..Len(e), NEW j \in 1..Len(e), j - i < d + 1
                PROVE  Good(i, j)
    OBVIOUS
  <2>1. CASE i > j
    BY <1>0, <2>1
  <2>2. CASE i <= j
    <3>1. \A a, b \in 1..Len(e) : b - a < d => Good(a, b)
      BY <1>2
    <3>2. ASSUME O(f, i, j) # {} PROVE O(g, i, j) # {}
      <4>1. CASE e[i] \in Features
        <5>1. i = j
          <6>1. e[i] # "not" /\ e[i] # "("
            BY <4>1, TokensDiffer
          <6>. QED
            BY <2>2, <3>2, <6>1, OperandCases
        <5>2. O(g, i, j) = {e[i] \in g}
          BY <4>1, <5>1, Rules
        <5>. HIDE DEF O
        <5>. QED
          BY <5>2
      <4>2. CASE e[i] \notin Features
        <5>1. \/ i < j /\ e[i] = "not" /\ O(f, i, j) = Negations(O(f, i + 1, j))
              \/ i + 1 < j /\ e[i] = "(" /\ e[j] = ")" /\ O(f, i, j) = E(f, i + 1, j - 1)
          BY <2>2, <3>2, <4>2, OperandCases
        <5>2. CASE i < j /\ e[i] = "not" /\ O(f, i, j) = Negations(O(f, i + 1, j))
          <6>1. O(g, i, j) = Negations(O(g, i + 1, j))
            <7>1. O(g, i, j) = {~v : v \in O(g, i + 1, j)}
              BY <2>2, <5>2, Rules
            <7>. QED
              BY <7>1 DEF Negations
          <6>2. i + 1 \in 1..Len(e) /\ j - (i + 1) < d
            BY <5>2
          <6>3. O(f, i + 1, j) # {} => O(g, i + 1, j) # {}
            BY <3>1, <6>2
          <6>. HIDE DEF O
          <6>. QED
            BY <3>2, <5>2, <6>1, <6>3, NegationsAre
        <5>3. CASE i + 1 < j /\ e[i] = "(" /\ e[j] = ")" /\ O(f, i, j) = E(f, i + 1, j - 1)
          <6>1. O(g, i, j) = E(g, i + 1, j - 1)
            BY <2>2, <5>3, ParenthesesAre
          <6>2. i + 1 \in 1..Len(e) /\ j - 1 \in 1..Len(e) /\ (j - 1) - (i + 1) < d
            BY <5>3
          <6>. HIDE DEF O, E
          <6>. QED
            BY <3>1, <3>2, <5>3, <6>1, <6>2
        <5>. HIDE DEF O, E
        <5>. QED
          BY <5>1, <5>2, <5>3
      <4>. QED
        BY <4>1, <4>2
    <3>3. ASSUME NEW x \in E(f, i, j) PROVE E(g, i, j) # {}
      <4>1. CASE x \in O(f, i, j)
        <5>1. \A y : y \in O(g, i, j) => y \in E(g, i, j)
          BY <2>2, ExpressionCases
        <5>. HIDE DEF O, E
        <5>. QED
          BY <3>2, <4>1, <5>1
      <4>2. CASE x \notin O(f, i, j)
        <5>j. Joins(e, f, i, j, x)
          BY <2>2, <3>3, <4>2, ExpressionCases
        <5>0. \E k \in (i + 1)..(j - 1) : \E v \in E(f, i, k - 1) : \E w \in O(f, k + 1, j) :
                 e[k] \in Operators /\ x = Joined(e[k], v, w)
          BY <5>j DEF Joins
        <5>a. \A k \in (i + 1)..(j - 1) : \A v \in E(g, i, k - 1) : \A w \in O(g, k + 1, j) :
                 e[k] \in Operators => Joined(e[k], v, w) \in E(g, i, j)
          BY <2>2, JoinIn
        <5>. HIDE DEF O, E
        <5>1. PICK k \in (i + 1)..(j - 1) : \E v \in E(f, i, k - 1) : \E w \in O(f, k + 1, j) :
                 e[k] \in Operators
          BY <5>0
        <5>2. PICK v \in E(f, i, k - 1), w \in O(f, k + 1, j) : e[k] \in Operators
          BY <5>1
        <5>3. /\ k - 1 \in 1..Len(e) /\ (k - 1) - i < d
              /\ k + 1 \in 1..Len(e) /\ j - (k + 1) < d
          OBVIOUS
        <5>4. E(g, i, k - 1) # {} /\ O(g, k + 1, j) # {}
          BY <3>1, <5>3
        <5>5. PICK y \in E(g, i, k - 1), z \in O(g, k + 1, j) : TRUE
          BY <5>4
        <5>. QED
          BY <5>2, <5>5, <5>a
      <4>. QED
        BY <4>1, <4>2
    <3>. HIDE DEF O, E
    <3>. QED
      BY <3>2, <3>3
  <2>. QED
    BY <2>1, <2>2
<1>. HIDE DEF S
<1>3. \A d \in Nat : d \in S
  BY <1>1, <1>2, InductionOverNat
<1>4. Len(e) \in S
  BY <1>3
<1>. QED
  BY <1>4 DEF S

-----------------------------------------------------------------------------
(* Reading from left to right: when what has been read up to a has the     *)
(* value r, the rest up to b can make it w.                                *)

Closed(e, f, b, w, T) ==
    \A r \in BOOLEAN, a \in Nat :
        <<r, a>> \in T =>
            \/ a = b + 1 /\ r = w
            \/ /\ a <= b /\ e[a] \in Operators
               /\ \E j \in (a + 1)..b : \E u \in Operand(e, f, a + 1, j) :
                     <<Joined(e[a], r, u), j + 1>> \in T

Completes(e, f, b, w, r, a) ==
    \E T \in SUBSET (BOOLEAN \X Nat) : <<r, a>> \in T /\ Closed(e, f, b, w, T)

LEMMA CompletesIs ==
    ASSUME NEW e, NEW f, NEW b, NEW w, NEW r \in BOOLEAN, NEW a \in Nat,
           Completes(e, f, b, w, r, a)
    PROVE  \/ a = b + 1 /\ r = w
           \/ /\ a <= b /\ e[a] \in Operators
              /\ \E j \in (a + 1)..b : \E u \in Operand(e, f, a + 1, j) :
                    Completes(e, f, b, w, Joined(e[a], r, u), j + 1)
<1>1. PICK T \in SUBSET (BOOLEAN \X Nat) : <<r, a>> \in T /\ Closed(e, f, b, w, T)
  BY DEF Completes
<1>2. \/ a = b + 1 /\ r = w
      \/ /\ a <= b /\ e[a] \in Operators
         /\ \E j \in (a + 1)..b : \E u \in Operand(e, f, a + 1, j) :
               <<Joined(e[a], r, u), j + 1>> \in T
  BY <1>1 DEF Closed
<1>. QED
  BY <1>1, <1>2 DEF Completes

LEMMA Completed ==
    ASSUME NEW e, NEW f, NEW b \in Nat, NEW w \in BOOLEAN
    PROVE  Completes(e, f, b, w, w, b + 1)
<1>. DEFINE T == {<<w, b + 1>>}
<1>1. T \in SUBSET (BOOLEAN \X Nat) /\ <<w, b + 1>> \in T
  OBVIOUS
<1>2. Closed(e, f, b, w, T)
  BY DEF Closed
<1>. QED
  BY <1>1, <1>2 DEF Completes

LEMMA CompletesLater ==
    ASSUME NEW e \in Seq(Tokens), NEW f, NEW r \in BOOLEAN, NEW a \in Nat,
           NEW k \in Nat, NEW b \in Nat, NEW v \in BOOLEAN, NEW u \in BOOLEAN,
           Completes(e, f, k - 1, v, r, a), k < b,
           e[k] \in Operators, u \in Operand(e, f, k + 1, b)
    PROVE  Completes(e, f, b, Joined(e[k], v, u), r, a)
<1>1. PICK T \in SUBSET (BOOLEAN \X Nat) : <<r, a>> \in T /\ Closed(e, f, k - 1, v, T)
  BY DEF Completes
<1>. DEFINE w == Joined(e[k], v, u)
            U == T \cup {<<w, b + 1>>}
<1>2. U \in SUBSET (BOOLEAN \X Nat) /\ <<r, a>> \in U
  <2>1. w \in BOOLEAN
    BY JoinedIsBoolean, Zenon
  <2>. HIDE DEF w
  <2>. QED
    BY <1>1, <2>1
<1>. DEFINE Goes(s, c) ==
                /\ c <= b /\ e[c] \in Operators
                /\ \E j \in (c + 1)..b : \E x \in Operand(e, f, c + 1, j) :
                      <<Joined(e[c], s, x), j + 1>> \in U
<1>3. ASSUME NEW s \in BOOLEAN, NEW c \in Nat, <<s, c>> \in U
      PROVE  (c = b + 1 /\ s = w) \/ Goes(s, c)
  <2>. HIDE DEF w
  <2>1. CASE <<s, c>> \notin T
    BY <1>3, <2>1
  <2>2. CASE <<s, c>> \in T
    <3>1. \/ c = k - 1 + 1 /\ s = v
          \/ /\ c <= k - 1 /\ e[c] \in Operators
             /\ \E j \in (c + 1)..(k - 1) : \E x \in Operand(e, f, c + 1, j) :
                   <<Joined(e[c], s, x), j + 1>> \in T
      BY <1>1, <2>2 DEF Closed
    <3>2. ASSUME c = k, s = v PROVE Goes(s, c)
      <4>1. c <= b /\ b \in (c + 1)..b /\ u \in Operand(e, f, c + 1, b) /\ e[c] \in Operators
        BY <3>2
      <4>2. <<Joined(e[c], s, u), b + 1>> \in U
        BY <3>2 DEF w
      <4>. HIDE DEF U
      <4>. QED
        BY <4>1, <4>2
    <3>3. ASSUME c <= k - 1, e[c] \in Operators,
                 \E j \in (c + 1)..(k - 1) : \E x \in Operand(e, f, c + 1, j) :
                     <<Joined(e[c], s, x), j + 1>> \in T
          PROVE  Goes(s, c)
      <4>1. PICK j \in (c + 1)..(k - 1) : \E x \in Operand(e, f, c + 1, j) :
                     <<Joined(e[c], s, x), j + 1>> \in T
        BY <3>3
      <4>2. j \in (c + 1)..b /\ c <= b
        BY <3>3
      <4>3. PICK x \in Operand(e, f, c + 1, j) : <<Joined(e[c], s, x), j + 1>> \in T
        BY <4>1
      <4>4. <<Joined(e[c], s, x), j + 1>> \in U
        BY <4>3
      <4>. HIDE DEF U
      <4>. QED
        BY <3>3, <4>2, <4>4
    <3>. HIDE DEF Goes
    <3>. QED
      BY <3>1, <3>2, <3>3
  <2>. QED
    BY <2>1, <2>2
<1>4. Closed(e, f, b, w, U)
  <2>. HIDE DEF w, U
  <2>. QED
    BY <1>3 DEF Closed
<1>. QED
  BY <1>2, <1>4 DEF Completes

(* Every value of an expression is that of its first operand, completed.   *)
LEMMA Splits ==
    ASSUME NEW e \in Seq(Tokens), NEW f, NEW a \in 1..Len(e)
    PROVE  \A b \in a..Len(e) : \A w \in Expression(e, f, a, b) :
              \E j \in a..b : \E u \in Operand(e, f, a, j) : Completes(e, f, b, w, u, j + 1)
<1>. DEFINE Good(b) == \A w \in Expression(e, f, a, b) :
              \E j \in a..b : \E u \in Operand(e, f, a, j) : Completes(e, f, b, w, u, j + 1)
            S == {d \in Nat : \A b \in a..Len(e) : b - a < d => Good(b)}
<1>1. 0 \in S
  <2>1. \A b \in a..Len(e) : ~(b - a < 0)
    OBVIOUS
  <2>. HIDE DEF Good
  <2>. QED
    BY <2>1
<1>2. ASSUME NEW d \in Nat, d \in S PROVE d + 1 \in S
  <2>. SUFFICES ASSUME NEW b \in a..Len(e), b - a < d + 1, NEW w \in Expression(e, f, a, b)
                PROVE  \E j \in a..b : \E u \in Operand(e, f, a, j) :
                          Completes(e, f, b, w, u, j + 1)
    OBVIOUS
  <2>0. b \in Nat /\ a \in Nat /\ a <= b /\ b \in 1..Len(e)
    OBVIOUS
  <2>1. \A c \in a..Len(e) : c - a < d => Good(c)
    BY <1>2
  <2>2. \A x, y \in 1..Len(e) : Operand(e, f, x, y) \subseteq BOOLEAN
                              /\ Expression(e, f, x, y) \subseteq BOOLEAN
    BY PartsAreBoolean
  <2>4. CASE w \in Operand(e, f, a, b)
    <3>1. w \in BOOLEAN /\ b \in a..b
      BY <2>0, <2>2, <2>4
    <3>2. Completes(e, f, b, w, w, b + 1)
      BY <2>0, <3>1, Completed
    <3>. QED
      BY <2>4, <3>1, <3>2
  <2>5. CASE w \notin Operand(e, f, a, b)
    <3>0. Joins(e, f, a, b, w)
      BY <2>0, <2>5, ExpressionCases
    <3>1. PICK k \in (a + 1)..(b - 1) : \E v \in Expression(e, f, a, k - 1) :
              \E u \in Operand(e, f, k + 1, b) : e[k] \in Operators /\ w = Joined(e[k], v, u)
      BY <3>0 DEF Joins
    <3>2. PICK v \in Expression(e, f, a, k - 1) :
              \E u \in Operand(e, f, k + 1, b) : e[k] \in Operators /\ w = Joined(e[k], v, u)
      BY <3>1
    <3>3. PICK u \in Operand(e, f, k + 1, b) : e[k] \in Operators /\ w = Joined(e[k], v, u)
      BY <3>2
    <3>4. /\ k - 1 \in a..Len(e) /\ (k - 1) - a < d /\ k \in Nat /\ k < b
          /\ k - 1 \in 1..Len(e) /\ k + 1 \in 1..Len(e)
      OBVIOUS
    <3>5. v \in BOOLEAN /\ u \in BOOLEAN
      BY <2>0, <2>2, <3>4
    <3>6. PICK j \in a..(k - 1) : \E x \in Operand(e, f, a, j) :
              Completes(e, f, k - 1, v, x, j + 1)
      BY <2>1, <3>4
    <3>7. PICK x \in Operand(e, f, a, j) : Completes(e, f, k - 1, v, x, j + 1)
      BY <3>6
    <3>8. j \in a..b /\ j \in 1..Len(e) /\ j + 1 \in Nat
      OBVIOUS
    <3>9. x \in BOOLEAN
      BY <2>2, <3>8
    <3>10. Completes(e, f, b, Joined(e[k], v, u), x, j + 1)
      BY <2>0, <3>3, <3>4, <3>5, <3>7, <3>8, <3>9, CompletesLater
    <3>. QED
      BY <3>3, <3>8, <3>10
  <2>. QED
    BY <2>4, <2>5
<1>. HIDE DEF S
<1>3. \A d \in Nat : d \in S
  BY <1>1, <1>2, InductionOverNat
<1>4. Len(e) \in S
  BY <1>3
<1>. QED
  BY <1>4 DEF S

-----------------------------------------------------------------------------
(* The calls.                                                              *)

States == {"begin", "feature", "closed", "operator", "not", "end", "invalid"}

Expecting == {"begin", "not", "operator"}
Having    == {"feature", "closed"}

LEMMA CallIs ==
    \A c : c \in Call <=>
       /\ c = [state |-> c.state, result |-> c.result, negation |-> c.negation,
               operator |-> c.operator]
       /\ c.state \in States /\ c.result \in BOOLEAN /\ c.negation \in BOOLEAN
       /\ c.operator \in Operators \cup {"none"}
BY DEF Call, States

(* What a call makes of an operand.                                        *)
Worth(c, v) ==
    IF c.operator \in Operators THEN Joined(c.operator, c.result, v # c.negation)
    ELSE v # c.negation

LEMMA StatesAre == {"begin", "feature", "closed", "operator", "not", "end"} \subseteq States
BY DEF States

LEMMA CombineIs ==
    ASSUME NEW c \in Call, NEW v \in BOOLEAN, NEW state \in States
    PROVE  /\ Combine(c, v, state) \in Call
           /\ Combine(c, v, state).state = state
           /\ Combine(c, v, state).result = Worth(c, v)
           /\ Combine(c, v, state).negation = FALSE
           /\ Combine(c, v, state).operator = c.operator
<1>. DEFINE x == Combine(c, v, state)
            w == v # c.negation
            r == CASE c.operator = "and" -> c.result /\ w
                   [] c.operator = "or"  -> c.result \/ w
                   [] OTHER              -> w
<1>1. c \in [state : States, result : BOOLEAN, negation : BOOLEAN,
             operator : Operators \cup {"none"}]
  BY DEF Call, States
<1>2. x = [c EXCEPT !.result = r, !.negation = FALSE, !.state = state]
  BY DEF Combine
<1>3. w \in BOOLEAN /\ c.result \in BOOLEAN
  BY <1>1
<1>4. r = Worth(c, v) /\ r \in BOOLEAN
  <2>1. c.operator \in {"and", "or", "none"} /\ "none" \notin Operators
    BY <1>1 DEF Operators
  <2>2. CASE c.operator = "and"
    BY <1>3, <2>2 DEF Worth, Joined, Operators
  <2>3. CASE c.operator = "or"
    BY <1>3, <2>3 DEF Worth, Joined, Operators
  <2>4. CASE c.operator = "none"
    BY <1>3, <2>1, <2>4 DEF Worth
  <2>. QED
    BY <2>1, <2>2, <2>3, <2>4
<1>. HIDE DEF r, x
<1>5. /\ x.state = state /\ x.result = r /\ x.negation = FALSE /\ x.operator = c.operator
      /\ x \in [state : States, result : BOOLEAN, negation : BOOLEAN,
                operator : Operators \cup {"none"}]
  BY <1>1, <1>2, <1>4
<1>. QED
  BY <1>4, <1>5 DEF x, Call, States

(* The three ways in which the calls change.                               *)
LEMMA Updated ==
    ASSUME NEW S, NEW s \in Seq(S), s # <<>>, NEW c \in S, NEW t, t = [s EXCEPT ![Len(s)] = c]
    PROVE  /\ t \in Seq(S) /\ Len(t) = Len(s) /\ t # <<>> /\ t[Len(t)] = c
           /\ \A d \in 1..(Len(s) - 1) : t[d] = s[d]
<1>1. Len(s) \in Nat /\ Len(s) > 0 /\ Len(s) \in 1..Len(s)
  OBVIOUS
<1>. QED
  BY <1>1

LEMMA Appended ==
    ASSUME NEW S, NEW s \in Seq(S), NEW c \in S
    PROVE  /\ Append(s, c) \in Seq(S) /\ Len(Append(s, c)) = Len(s) + 1 /\ Append(s, c) # <<>>
           /\ Append(s, c)[Len(s) + 1] = c
           /\ \A d \in 1..Len(s) : Append(s, c)[d] = s[d]
OBVIOUS

LEMMA Beginning ==
    ASSUME NEW S, NEW s \in Seq(S), NEW n \in Nat, n <= Len(s)
    PROVE  /\ SubSeq(s, 1, n) \in Seq(S) /\ Len(SubSeq(s, 1, n)) = n
           /\ \A d \in 1..n : SubSeq(s, 1, n)[d] = s[d]
<1>1. SubSeq(s, 1, n) \in Seq(S)
  OBVIOUS
<1>2. Len(SubSeq(s, 1, n)) = n
  OBVIOUS
<1>3. \A d \in 1..n : SubSeq(s, 1, n)[d] = s[d]
  OBVIOUS
<1>. QED
  BY <1>1, <1>2, <1>3

LEMMA Returned ==
    ASSUME NEW S, NEW s \in Seq(S), Len(s) > 1, NEW c \in S,
           NEW t, t = Append(SubSeq(s, 1, Len(s) - 2), c)
    PROVE  /\ t \in Seq(S) /\ Len(t) = Len(s) - 1 /\ t # <<>> /\ t[Len(t)] = c
           /\ \A d \in 1..(Len(s) - 2) : t[d] = s[d]
<1>. DEFINE r == SubSeq(s, 1, Len(s) - 2)
<1>1. Len(s) \in Nat /\ Len(s) - 2 \in Nat /\ 1..(Len(s) - 2) \subseteq 1..Len(s)
  OBVIOUS
<1>3. r \in Seq(S) /\ Len(r) = Len(s) - 2 /\ \A d \in 1..(Len(s) - 2) : r[d] = s[d]
  <2>1. Len(s) - 2 <= Len(s)
    BY <1>1
  <2>. QED
    BY <1>1, <2>1, Beginning
<1>. HIDE DEF r
<1>5. Len(Append(r, c)) = Len(r) + 1 /\ Append(r, c)[Len(r) + 1] = c /\ Append(r, c) \in Seq(S)
  BY <1>3, Appended
<1>6. \A d \in 1..Len(r) : Append(r, c)[d] = r[d]
  BY <1>3, Appended
<1>7. t = Append(r, c) /\ Append(r, c) # <<>>
  BY <1>3, Appended DEF r
<1>. QED
  BY <1>1, <1>3, <1>5, <1>6, <1>7

-----------------------------------------------------------------------------
(* The types.                                                              *)

LEMMA Inner ==
    ASSUME EvaluatorTypeOK
    PROVE  /\ call \in Call /\ call = calls[Len(calls)] /\ depth = Len(calls) - 1
           /\ Len(calls) \in Nat /\ Len(calls) > 0
           /\ \A d \in 1..Len(calls) : calls[d] \in Call
BY DEF EvaluatorTypeOK, call, depth

(* What becomes of the innermost call when a token is read.                *)
LEMMA Negated ==
    ASSUME NEW c \in Call, NEW x, x = [c EXCEPT !.negation = ~@, !.state = "not"]
    PROVE  /\ x \in Call /\ x.state = "not" /\ x.negation = ~c.negation
           /\ x.result = c.result /\ x.operator = c.operator
BY DEF Call

LEMMA Operated ==
    ASSUME NEW c \in Call, NEW op \in Operators, NEW x,
           x = [c EXCEPT !.operator = op, !.state = "operator"]
    PROVE  /\ x \in Call /\ x.state = "operator" /\ x.negation = c.negation
           /\ x.result = c.result /\ x.operator = op
BY DEF Call

LEMMA Moved ==
    ASSUME NEW c \in Call, NEW state \in States, NEW x, x = [c EXCEPT !.state = state]
    PROVE  x \in Call /\ x.state = state
BY DEF Call, States

LEMMA NewCallIs == NewCall \in Call /\ NewCall.state = "begin" /\ NewCall.negation = FALSE
                   /\ NewCall.operator = "none"
BY DEF NewCall, Call, States

LEMMA StateOfIs == \A t : StateOf(t) \in States
BY DEF StateOf, States

LEMMA TypeStep == EvaluatorTypeOK /\ Step => EvaluatorTypeOK'
<1>. SUFFICES ASSUME EvaluatorTypeOK, Step PROVE EvaluatorTypeOK'
  OBVIOUS
<1>0. /\ expr \in Seq(Tokens) /\ enabled \subseteq Features /\ pos \in 1..(Len(expr) + 1)
      /\ calls \in Seq(Call) /\ calls # <<>> /\ value \in BOOLEAN
      /\ errno \in {"idle", "running", "EOK", "EINVAL"}
  BY DEF EvaluatorTypeOK
<1>1. call \in Call /\ Len(calls) > 0
  BY Inner
<1>2. ASSUME Advance, ~AtEnd, calls' \in Seq(Call), calls' # <<>> PROVE EvaluatorTypeOK'
  <2>1. pos + 1 \in 1..(Len(expr) + 1)
    BY <1>0, <1>2 DEF AtEnd
  <2>. QED
    BY <1>0, <1>2, <2>1 DEF Advance, EvaluatorTypeOK
<1>3. ASSUME NEW c \in Call, Update(c) PROVE calls' \in Seq(Call) /\ calls' # <<>>
  BY <1>0, <1>3, Updated DEF Update
<1>4. ASSUME Refuse PROVE EvaluatorTypeOK'
  BY <1>0, <1>4 DEF Refuse, EvaluatorTypeOK
<1>5. "feature" \in States /\ "closed" \in States /\ "not" \in States /\ "end" \in States
  BY DEF States
<1>6. CASE Feature
  <2>1. PICK g \in Features : /\ Reads(g) /\ Update(Combine(call, g \in enabled, "feature"))
                              /\ Advance
    BY <1>6 DEF Feature
  <2>2. (g \in enabled) \in BOOLEAN
    BY MembershipIsBoolean
  <2>3. Combine(call, g \in enabled, "feature") \in Call
    BY <1>1, <1>5, <2>2, CombineIs
  <2>. QED
    BY <1>2, <1>3, <2>1, <2>3 DEF Reads
<1>7. CASE Not
  <2>1. [call EXCEPT !.negation = ~@, !.state = "not"] \in Call
    BY <1>1, Negated
  <2>. QED
    BY <1>2, <1>3, <1>7, <2>1 DEF Not, Reads
<1>8. CASE Operator
  <2>1. PICK op \in Operators : /\ Reads(op) /\ Advance
                                /\ Update([call EXCEPT !.operator = op, !.state = "operator"])
    BY <1>8 DEF Operator
  <2>2. [call EXCEPT !.operator = op, !.state = "operator"] \in Call
    BY <1>1, Operated
  <2>. QED
    BY <1>2, <1>3, <2>1, <2>2 DEF Reads
<1>9. CASE Open
  <2>1. calls' \in Seq(Call) /\ calls' # <<>>
    BY <1>0, <1>9, NewCallIs, Appended DEF Open
  <2>. QED
    BY <1>2, <1>9, <2>1 DEF Open, Reads
<1>10. CASE Close
  <2>1. Len(calls) > 1
    BY <1>0, <1>10 DEF Close, depth
  <2>2. calls[Len(calls) - 1] \in Call /\ call.result \in BOOLEAN
    BY <1>0, <1>1, <2>1, CallIs
  <2>3. Combine(calls[Len(calls) - 1], call.result, "closed") \in Call
    BY <1>5, <2>2, CombineIs
  <2>4. calls' = Append(SubSeq(calls, 1, Len(calls) - 2),
                        Combine(calls[Len(calls) - 1], call.result, "closed"))
    BY <1>10 DEF Close
  <2>5. calls' \in Seq(Call) /\ calls' # <<>>
    BY <1>0, <2>1, <2>3, <2>4, Returned
  <2>. QED
    BY <1>2, <1>10, <2>5 DEF Close, Reads
<1>11. CASE CloseEarly
  <2>1. [call EXCEPT !.state = "end"] \in Call
    BY <1>1, <1>5, Moved
  <2>. QED
    BY <1>2, <1>3, <1>11, <2>1 DEF CloseEarly, Reads
<1>12. CASE PassOver
  <2>1. [call EXCEPT !.state = StateOf(expr[pos])] \in Call
    BY <1>1, StateOfIs, Moved
  <2>. QED
    BY <1>2, <1>3, <1>12, <2>1 DEF PassOver
<1>13. CASE Unexpected
  BY <1>4, <1>13 DEF Unexpected
<1>14. CASE Finish
  <2>1. CASE Refuse
    BY <1>4, <2>1
  <2>2. CASE ~Refuse
    <3>1. errno' = "EOK" /\ value' = call.result /\ UNCHANGED <<expr, enabled, pos, calls>>
      BY <1>14, <2>2 DEF Finish
    <3>2. call.result \in BOOLEAN
      BY <1>1, CallIs
    <3>. QED
      BY <1>0, <3>1, <3>2 DEF EvaluatorTypeOK
  <2>. QED
    BY <2>1, <2>2
<1>. QED
  BY <1>6, <1>7, <1>8, <1>9, <1>10, <1>11, <1>12, <1>13, <1>14 DEF Step

-----------------------------------------------------------------------------
(* What an expression means is what it is evaluated to.  As long as the    *)
(* evaluation runs, every value of the expression is one that the calls    *)
(* can still come to: each call has an end, where its parenthesis is       *)
(* closed, and a value it returns there.                                   *)

(* The call c, going on at p, can return w behind b.                       *)
Ready(e, f, c, p, b, w) ==
    \/ /\ c.state \in Expecting
       /\ \E j \in p..b : \E u \in Operand(e, f, p, j) :
             Completes(e, f, b, w, Worth(c, u), j + 1)
    \/ /\ c.state \in Having /\ c.negation = FALSE
       /\ Completes(e, f, b, w, c.result, p)

(* The call at d, once the next one has returned v at p.                   *)
Waiting(e, f, c, v, p, b, w) ==
    p < b /\ e[p + 1] = ")" /\ Completes(e, f, b, w, Worth(c, v), p + 2)

Chain(e, f, s, p, w, ends, values) ==
    /\ ends \in [1..Len(s) -> 0..Len(e)] /\ values \in [1..Len(s) -> BOOLEAN]
    /\ ends[1] = Len(e) /\ values[1] = w
    /\ \A d \in 1..(Len(s) - 1) :
          Waiting(e, f, s[d], values[d + 1], ends[d + 1], ends[d], values[d])
    /\ Ready(e, f, s[Len(s)], p, ends[Len(s)], values[Len(s)])

Promised(e, f, s, p, w) == \E ends, values : Chain(e, f, s, p, w, ends, values)

(* Where an operand is expected there is one.                              *)
LEMMA BeforeOperand ==
    ASSUME NEW e \in Seq(Tokens), NEW f, NEW c \in Call, NEW p \in Nat \ {0},
           NEW b \in 0..Len(e), NEW w \in BOOLEAN,
           Ready(e, f, c, p, b, w), c.state \in Expecting
    PROVE  /\ p \in 1..Len(e)
           /\ \E j \in p..b : \E u \in BOOLEAN :
                 /\ Completes(e, f, b, w, Worth(c, u), j + 1)
                 /\ \/ e[p] \in Features /\ j = p /\ u = (e[p] \in f)
                    \/ e[p] = "not" /\ p < j /\ \E v \in Operand(e, f, p + 1, j) : u = ~v
                    \/ e[p] = "(" /\ p + 1 < j /\ e[j] = ")" /\ u \in Expression(e, f, p + 1, j - 1)
<1>1. c.state \notin Having
  BY DEF Expecting, Having
<1>2. PICK j \in p..b : \E u \in Operand(e, f, p, j) : Completes(e, f, b, w, Worth(c, u), j + 1)
  BY <1>1 DEF Ready
<1>3. PICK u \in Operand(e, f, p, j) : Completes(e, f, b, w, Worth(c, u), j + 1)
  BY <1>2
<1>4. p \in 1..Len(e) /\ j \in 1..Len(e) /\ p <= j
  OBVIOUS
<1>5. u \in BOOLEAN
  BY <1>4, PartsAreBoolean
<1>6. \/ e[p] \in Features /\ j = p /\ u = (e[p] \in f)
      \/ e[p] = "not" /\ p < j /\ \E v \in Operand(e, f, p + 1, j) : u = ~v
      \/ e[p] = "(" /\ p + 1 < j /\ e[j] = ")" /\ u \in Expression(e, f, p + 1, j - 1)
  <2>1. CASE p = j /\ e[p] \in Features /\ Operand(e, f, p, j) = {e[p] \in f}
    BY <1>3, <2>1, Zenon
  <2>2. CASE p < j /\ e[p] = "not" /\ Operand(e, f, p, j) = Negations(Operand(e, f, p + 1, j))
    <3>1. u \in Negations(Operand(e, f, p + 1, j))
      BY <1>3, <2>2
    <3>2. \E v \in Operand(e, f, p + 1, j) : u = ~v
      BY <3>1, Zenon DEF Negations
    <3>. QED
      BY <2>2, <3>2
  <2>3. CASE /\ p + 1 < j /\ e[p] = "(" /\ e[j] = ")"
             /\ Operand(e, f, p, j) = Expression(e, f, p + 1, j - 1)
    BY <1>3, <2>3
  <2>4. CASE Operand(e, f, p, j) = {}
    BY <1>3, <2>4
  <2>. QED
    BY <1>4, <2>1, <2>2, <2>3, <2>4, OperandCases
<1>. QED
  BY <1>3, <1>4, <1>5, <1>6

LEMMA OneOrMore ==
    ASSUME NEW S, NEW s \in Seq(S), s # <<>>
    PROVE  Len(s) = 1 \/ Len(s) > 1
<1>1. Len(s) \in Nat /\ Len(s) > 0
  OBVIOUS
<1>2. \A n \in Nat : n > 0 => n = 1 \/ n > 1
  OBVIOUS
<1>. QED
  BY <1>1, <1>2, Zenon

(* Behind an operand comes the end of the call or another operand.         *)
LEMMA AfterOperand ==
    ASSUME NEW e \in Seq(Tokens), NEW f, NEW s \in Seq(Call), s # <<>>, NEW p \in Nat \ {0},
           NEW w \in BOOLEAN, NEW ends, NEW values, Chain(e, f, s, p, w, ends, values),
           s[Len(s)].state \in Having
    PROVE  LET c == s[Len(s)]
               b == ends[Len(s)] IN
           \/ Len(s) = 1 /\ p = Len(e) + 1 /\ c.result = w
           \/ /\ Len(s) > 1 /\ p = b + 1 /\ p \in 1..Len(e) /\ e[p] = ")"
              /\ c.result = values[Len(s)]
           \/ /\ p \in 1..Len(e) /\ e[p] \in Operators /\ c.negation = FALSE
              /\ \E j \in (p + 1)..b : \E u \in Operand(e, f, p + 1, j) :
                    Completes(e, f, b, values[Len(s)], Joined(e[p], c.result, u), j + 1)
<1>. DEFINE c == s[Len(s)]
            b == ends[Len(s)]
            v == values[Len(s)]
<1>0. Len(s) = 1 \/ Len(s) > 1
  BY OneOrMore
<1>1. Len(s) \in Nat /\ Len(s) > 0 /\ c \in Call
  OBVIOUS
<1>2. b \in 0..Len(e) /\ c.result \in BOOLEAN
  BY <1>1, CallIs DEF Chain
<1>3. c.negation = FALSE /\ Completes(e, f, b, v, c.result, p)
  <2>1. c.state \notin Expecting
    BY DEF Expecting, Having
  <2>2. Ready(e, f, c, p, b, v)
    BY DEF Chain
  <2>. HIDE DEF c, b, v
  <2>. QED
    BY <2>1, <2>2 DEF Ready
<1>4. CASE p = b + 1 /\ c.result = v
  <2>1. CASE Len(s) = 1
    <3>1. b = Len(e) /\ v = w
      BY <2>1 DEF Chain
    <3>. QED
      BY <1>4, <2>1, <3>1
  <2>2. CASE Len(s) > 1
    <3>1. Waiting(e, f, s[Len(s) - 1], values[Len(s) - 1 + 1], ends[Len(s) - 1 + 1],
                  ends[Len(s) - 1], values[Len(s) - 1])
      <4>1. Len(s) - 1 \in 1..(Len(s) - 1)
        BY <1>1, <2>2
      <4>. QED
        BY <4>1 DEF Chain
    <3>2. Len(s) - 1 + 1 = Len(s) /\ Len(s) - 1 \in 1..Len(s)
      BY <1>1, <2>2
    <3>3. b < ends[Len(s) - 1] /\ e[b + 1] = ")"
      BY <3>1, <3>2 DEF Waiting
    <3>4. ends[Len(s) - 1] \in 0..Len(e)
      BY <3>2 DEF Chain
    <3>. QED
      BY <1>2, <1>4, <2>2, <3>3, <3>4
  <2>. QED
    BY <1>0, <2>1, <2>2
<1>5. CASE p <= b /\ e[p] \in Operators /\
           \E j \in (p + 1)..b : \E u \in Operand(e, f, p + 1, j) :
              Completes(e, f, b, v, Joined(e[p], c.result, u), j + 1)
  <2>1. p \in 1..Len(e)
    BY <1>2, <1>5
  <2>. QED
    BY <1>3, <1>5, <2>1
<1>6. \/ p = b + 1 /\ c.result = v
      \/ p <= b /\ e[p] \in Operators /\
           \E j \in (p + 1)..b : \E u \in Operand(e, f, p + 1, j) :
              Completes(e, f, b, v, Joined(e[p], c.result, u), j + 1)
  <2>. HIDE DEF b, v, c
  <2>. QED
    BY <1>2, <1>3, CompletesIs
<1>. QED
  BY <1>4, <1>5, <1>6

LEMMA WorthNegated ==
    ASSUME NEW c \in Call, NEW d \in Call, NEW v \in BOOLEAN,
           d.negation = ~c.negation, d.result = c.result, d.operator = c.operator
    PROVE  Worth(d, v) = Worth(c, ~v)
<1>. DEFINE x == v # d.negation
            y == (~v) # c.negation
<1>1. c.negation \in BOOLEAN
  BY CallIs
<1>2. x = y
  BY <1>1
<1>3. Worth(d, v) = (IF c.operator \in Operators THEN Joined(c.operator, c.result, x) ELSE x)
  BY DEF Worth
<1>4. Worth(c, ~v) = (IF c.operator \in Operators THEN Joined(c.operator, c.result, y) ELSE y)
  BY DEF Worth
<1>. HIDE DEF x, y
<1>. QED
  BY <1>2, <1>3, <1>4

LEMMA WorthJoined ==
    ASSUME NEW c \in Call, NEW v \in BOOLEAN, c.negation = FALSE, c.operator \in Operators
    PROVE  Worth(c, v) = Joined(c.operator, c.result, v)
<1>1. (v # FALSE) = v
  OBVIOUS
<1>. QED
  BY <1>1 DEF Worth

LEMMA WorthAlone == \A v \in BOOLEAN : Worth(NewCall, v) = v
<1>1. \A v \in BOOLEAN : (v # FALSE) = v
  OBVIOUS
<1>2. NewCall.negation = FALSE /\ NewCall.operator \notin Operators
  BY NewCallIs DEF Operators
<1>. QED
  BY <1>1, <1>2 DEF Worth

(* The innermost call goes on.                                             *)
LEMMA ChainStays ==
    ASSUME NEW e, NEW f, NEW s, NEW t, NEW p, NEW q, NEW w, NEW ends, NEW values,
           Chain(e, f, s, p, w, ends, values), Len(s) \in Nat, Len(t) = Len(s),
           \A d \in 1..(Len(s) - 1) : t[d] = s[d],
           Ready(e, f, t[Len(t)], q, ends[Len(s)], values[Len(s)])
    PROVE  Promised(e, f, t, q, w)
<1>1. Chain(e, f, t, q, w, ends, values)
  BY DEF Chain
<1>. QED
  BY <1>1 DEF Promised

(* A parenthesis is opened.                                                *)
LEMMA ChainGrows ==
    ASSUME NEW e \in Seq(Tokens), NEW f, NEW s \in Seq(Call), s # <<>>, NEW p, NEW q, NEW w,
           NEW ends, NEW values, Chain(e, f, s, p, w, ends, values),
           NEW b \in 0..Len(e), NEW v \in BOOLEAN,
           Waiting(e, f, s[Len(s)], v, b, ends[Len(s)], values[Len(s)]),
           Ready(e, f, NewCall, q, b, v)
    PROVE  Promised(e, f, Append(s, NewCall), q, w)
<1>. DEFINE t == Append(s, NewCall)
            n == Len(s)
            E == [d \in 1..(n + 1) |-> IF d = n + 1 THEN b ELSE ends[d]]
            V == [d \in 1..(n + 1) |-> IF d = n + 1 THEN v ELSE values[d]]
<1>1. n \in Nat /\ n > 0
  OBVIOUS
<1>2. Len(t) = n + 1 /\ t[n + 1] = NewCall /\ \A d \in 1..n : t[d] = s[d]
  BY NewCallIs, Appended
<1>3. /\ ends \in [1..n -> 0..Len(e)] /\ values \in [1..n -> BOOLEAN]
      /\ ends[1] = Len(e) /\ values[1] = w
      /\ \A d \in 1..(n - 1) : Waiting(e, f, s[d], values[d + 1], ends[d + 1], ends[d], values[d])
  BY DEF Chain
<1>4. Waiting(e, f, s[n], v, b, ends[n], values[n])
  OBVIOUS
<1>. HIDE DEF t, n
<1>5. E \in [1..(n + 1) -> 0..Len(e)] /\ V \in [1..(n + 1) -> BOOLEAN]
  BY <1>1, <1>3
<1>6. E[1] = Len(e) /\ V[1] = w /\ E[n + 1] = b /\ V[n + 1] = v
  BY <1>1, <1>3
<1>7. \A d \in 1..n : E[d] = ends[d] /\ V[d] = values[d]
  BY <1>1
<1>. HIDE DEF E, V
<1>8. ASSUME NEW d \in 1..(n + 1 - 1)
      PROVE  Waiting(e, f, t[d], V[d + 1], E[d + 1], E[d], V[d])
  <2>1. CASE d = n
    BY <1>1, <1>2, <1>4, <1>6, <1>7, <2>1
  <2>2. CASE d # n
    <3>1. d \in 1..(n - 1) /\ d \in 1..n /\ d + 1 \in 1..n
      BY <1>1, <2>2
    <3>. QED
      BY <1>2, <1>3, <1>7, <3>1
  <2>. QED
    BY <2>1, <2>2
<1>9. Chain(e, f, t, q, w, E, V)
  <2>1. Ready(e, f, t[n + 1], q, E[n + 1], V[n + 1])
    BY <1>2, <1>6
  <2>. QED
    <3>1. Len(t) - 1 = n + 1 - 1
      BY <1>1, <1>2
    <3>. QED
      BY <1>2, <1>5, <1>6, <1>8, <2>1, <3>1 DEF Chain
<1>. QED
  BY <1>9 DEF Promised, t

(* A parenthesis is closed.                                                *)
LEMMA ChainShrinks ==
    ASSUME NEW e \in Seq(Tokens), NEW f, NEW s \in Seq(Call), Len(s) > 1, NEW p, NEW q, NEW w,
           NEW ends, NEW values, Chain(e, f, s, p, w, ends, values),
           NEW t, Len(t) = Len(s) - 1, \A d \in 1..(Len(s) - 2) : t[d] = s[d],
           Ready(e, f, t[Len(t)], q, ends[Len(s) - 1], values[Len(s) - 1])
    PROVE  Promised(e, f, t, q, w)
<1>. DEFINE n == Len(s) - 1
            E == [d \in 1..n |-> ends[d]]
            V == [d \in 1..n |-> values[d]]
<1>1. n \in Nat /\ n > 0 /\ Len(s) = n + 1 /\ Len(s) - 2 = n - 1
  OBVIOUS
<1>2. Len(t) = n /\ \A d \in 1..(n - 1) : t[d] = s[d]
  BY <1>1
<1>3. /\ ends \in [1..(n + 1) -> 0..Len(e)] /\ values \in [1..(n + 1) -> BOOLEAN]
      /\ ends[1] = Len(e) /\ values[1] = w
      /\ \A d \in 1..(n + 1 - 1) :
            Waiting(e, f, s[d], values[d + 1], ends[d + 1], ends[d], values[d])
  BY <1>1 DEF Chain
<1>4. Ready(e, f, t[n], q, ends[n], values[n])
  BY <1>2
<1>. HIDE DEF n
<1>5. E \in [1..n -> 0..Len(e)] /\ V \in [1..n -> BOOLEAN]
  BY <1>1, <1>3
<1>6. \A d \in 1..n : E[d] = ends[d] /\ V[d] = values[d]
  OBVIOUS
<1>. HIDE DEF E, V
<1>7. ASSUME NEW d \in 1..(n - 1)
      PROVE  Waiting(e, f, t[d], V[d + 1], E[d + 1], E[d], V[d])
  <2>1. d \in 1..n /\ d + 1 \in 1..n /\ d \in 1..(n + 1 - 1)
    BY <1>1
  <2>. QED
    BY <1>2, <1>3, <1>6, <2>1
<1>8. E[1] = Len(e) /\ V[1] = w /\ Ready(e, f, t[n], q, E[n], V[n])
  BY <1>1, <1>2, <1>3, <1>4, <1>6
<1>9. Chain(e, f, t, q, w, E, V)
  BY <1>2, <1>5, <1>7, <1>8 DEF Chain
<1>. QED
  BY <1>9 DEF Promised

LEMMA PromiseStep ==
    ASSUME EvaluatorTypeOK, errno = "running", Step, NEW w \in BOOLEAN,
           Promised(expr, enabled, calls, pos, w)
    PROVE  \/ errno' = "running" /\ Promised(expr, enabled, calls', pos', w)
           \/ errno' = "EOK" /\ value' = w
<1>. DEFINE e == expr
            f == enabled
            L == Len(calls)
<1>1. PICK ends, values : Chain(e, f, calls, pos, w, ends, values)
  BY DEF Promised
<1>. DEFINE b == ends[L]
            v == values[L]
<1>2. /\ e \in Seq(Tokens) /\ pos \in Nat \ {0} /\ calls \in Seq(Call) /\ calls # <<>>
      /\ Len(e) \in Nat
  BY DEF EvaluatorTypeOK
<1>3. call \in Call /\ call = calls[L] /\ depth = L - 1 /\ L \in Nat /\ L > 0
  BY Inner
<1>4. b \in 0..Len(e) /\ v \in BOOLEAN
  BY <1>1, <1>3 DEF Chain
<1>5. Ready(e, f, call, pos, b, v)
  BY <1>1, <1>3 DEF Chain
<1>6. call.state \in Expecting \/ call.state \in Having
  BY <1>5 DEF Ready
<1>7. /\ ExpectsOperand <=> call.state \in Expecting
      /\ HasOperand <=> call.state \in Having
      /\ ~(call.state \in Expecting /\ call.state \in Having)
  BY DEF ExpectsOperand, HasOperand, Expecting, Having
<1>8. AtEnd <=> (pos \in 1..Len(e) => e[pos] = Odd)
  BY <1>2 DEF AtEnd
<1>9. \A c \in Call : Update(c) /\ Ready(e, f, c, pos + 1, b, v) /\ pos' = pos + 1
         => Promised(e, f, calls', pos', w)
  <2>. SUFFICES ASSUME NEW c \in Call, Update(c), Ready(e, f, c, pos + 1, b, v), pos' = pos + 1
                PROVE  Promised(e, f, calls', pos', w)
    OBVIOUS
  <2>1. /\ Len(calls') = L /\ calls'[Len(calls')] = c
        /\ \A d \in 1..(L - 1) : calls'[d] = calls[d]
    BY <1>2, Updated DEF Update
  <2>. HIDE DEF e, f, b, v
  <2>2. Ready(e, f, calls'[Len(calls')], pos', b, v)
    BY <2>1
  <2>. QED
    BY <1>1, <1>3, <2>1, <2>2, ChainStays DEF b, v
<1>10. ASSUME call.state \in Expecting
       PROVE  /\ pos \in 1..Len(e)
              /\ \E j \in pos..b : \E u \in BOOLEAN :
                    /\ Completes(e, f, b, v, Worth(call, u), j + 1)
                    /\ \/ e[pos] \in Features /\ j = pos /\ u = (e[pos] \in f)
                       \/ e[pos] = "not" /\ pos < j /\ \E x \in Operand(e, f, pos + 1, j) : u = ~x
                       \/ /\ e[pos] = "(" /\ pos + 1 < j /\ e[j] = ")"
                          /\ u \in Expression(e, f, pos + 1, j - 1)
  <2>. HIDE DEF e, f, b, v
  <2>. QED
    BY <1>2, <1>3, <1>4, <1>5, <1>10, BeforeOperand
<1>. DEFINE Onwards == \E j \in (pos + 1)..b : \E u \in Operand(e, f, pos + 1, j) :
                          Completes(e, f, b, v, Joined(e[pos], call.result, u), j + 1)
<1>11. ASSUME call.state \in Having
       PROVE  \/ L = 1 /\ pos = Len(e) + 1 /\ call.result = w
              \/ L > 1 /\ pos = b + 1 /\ pos \in 1..Len(e) /\ e[pos] = ")" /\ call.result = v
              \/ pos \in 1..Len(e) /\ e[pos] \in Operators /\ call.negation = FALSE /\ Onwards
  <2>1. calls[Len(calls)].state \in Having
    BY <1>3, <1>11
  <2>. HIDE DEF e, f
  <2>2. LET c == calls[Len(calls)]
            B == ends[Len(calls)] IN
           \/ Len(calls) = 1 /\ pos = Len(e) + 1 /\ c.result = w
           \/ /\ Len(calls) > 1 /\ pos = B + 1 /\ pos \in 1..Len(e) /\ e[pos] = ")"
              /\ c.result = values[Len(calls)]
           \/ /\ pos \in 1..Len(e) /\ e[pos] \in Operators /\ c.negation = FALSE
              /\ \E j \in (pos + 1)..B : \E u \in Operand(e, f, pos + 1, j) :
                    Completes(e, f, B, values[Len(calls)], Joined(e[pos], c.result, u), j + 1)
    BY <1>1, <1>2, <2>1, AfterOperand
  <2>. QED
    BY <1>3, <2>2
<1>12. ASSUME call.state \in Expecting
       PROVE  e[pos] \in Features \/ e[pos] = "not" \/ e[pos] = "("
  BY <1>10, <1>12
<1>. HIDE DEF e, f, b, v, L, Onwards
<1>13. ASSUME call.state \in Having, pos \in 1..Len(e)
       PROVE  (e[pos] = ")" /\ L > 1) \/ e[pos] \in Operators
  <2>1. \/ L = 1 /\ pos = Len(e) + 1 /\ call.result = w
        \/ L > 1 /\ pos = b + 1 /\ pos \in 1..Len(e) /\ e[pos] = ")" /\ call.result = v
        \/ pos \in 1..Len(e) /\ e[pos] \in Operators /\ call.negation = FALSE /\ Onwards
    BY <1>11, <1>13, Zenon
  <2>2. ~(pos = Len(e) + 1)
    BY <1>2, <1>13
  <2>. QED
    BY <2>1, <2>2
<1>14. Step => Feature \/ Not \/ Operator \/ Open \/ Close
               \/ CloseEarly \/ PassOver \/ Unexpected \/ Finish
  BY DEF Step
<1>15. CASE Feature
  <2>1. PICK g \in Features : /\ Reads(g) /\ ExpectsOperand /\ Advance
                              /\ Update(Combine(call, g \in enabled, "feature"))
    BY <1>15 DEF Feature
  <2>2. call.state \in Expecting /\ e[pos] = g
    BY <1>7, <2>1 DEF Reads, e
  <2>3. e[pos] # "not" /\ e[pos] # "("
    BY <2>2, TokensDiffer
  <2>4. PICK j \in pos..b : \E u \in BOOLEAN :
           Completes(e, f, b, v, Worth(call, u), j + 1) /\ j = pos /\ u = (e[pos] \in f)
    BY <1>10, <2>2, <2>3
  <2>5. PICK u \in BOOLEAN : u = (g \in f)
    BY MembershipIsBoolean
  <2>a. PICK c : c = Combine(call, u, "feature")
    OBVIOUS
  <2>6. Completes(e, f, b, v, Worth(call, u), pos + 1)
    BY <2>2, <2>4, <2>5
  <2>7. c \in Call /\ c.state = "feature" /\ c.result = Worth(call, u) /\ c.negation = FALSE
    <3>1. call \in Call /\ "feature" \in States
      BY <1>3, StatesAre
    <3>. QED
      BY <3>1, <2>a, CombineIs
  <2>8. Update(c)
    BY <2>1, <2>5, <2>a DEF f
  <2>9. Ready(e, f, c, pos + 1, b, v)
    BY <2>6, <2>7 DEF Ready, Having
  <2>. QED
    BY <1>9, <2>1, <2>7, <2>8, <2>9 DEF Advance, e, f
<1>16. CASE Not
  <2>1. call.state \in Expecting /\ e[pos] = "not" /\ Advance
    BY <1>7, <1>16 DEF Not, Reads, e
  <2>2. e[pos] \notin Features /\ e[pos] # "("
    BY <2>1, TokensDiffer
  <2>3. PICK j \in pos..b : \E u \in BOOLEAN :
           /\ Completes(e, f, b, v, Worth(call, u), j + 1) /\ pos < j
           /\ \E x \in Operand(e, f, pos + 1, j) : u = ~x
    BY <1>10, <2>1, <2>2
  <2>4. PICK x \in Operand(e, f, pos + 1, j) :
           Completes(e, f, b, v, Worth(call, ~x), j + 1) /\ pos < j
    BY <2>3
  <2>5. x \in BOOLEAN
    <3>1. pos + 1 \in 1..Len(e) /\ j \in 1..Len(e)
      BY <1>2, <1>4, <2>4
    <3>. QED
      BY <1>2, <3>1, PartsAreBoolean
  <2>a. PICK c : c = [call EXCEPT !.negation = ~@, !.state = "not"]
    OBVIOUS
  <2>6. /\ c \in Call /\ c.state = "not" /\ c.negation = ~call.negation
        /\ c.result = call.result /\ c.operator = call.operator
    <3>1. call \in Call
      BY <1>3
    <3>. QED
      BY <2>a, <3>1, Negated
  <2>7. Update(c)
    BY <1>16, <2>a DEF Not
  <2>8. Worth(c, x) = Worth(call, ~x)
    BY <1>3, <2>5, <2>6, WorthNegated
  <2>9. j \in (pos + 1)..b /\ Completes(e, f, b, v, Worth(c, x), j + 1)
    BY <1>2, <1>4, <2>4, <2>8
  <2>10. Ready(e, f, c, pos + 1, b, v)
    BY <2>6, <2>9 DEF Ready, Expecting
  <2>. QED
    BY <1>9, <2>1, <2>6, <2>7, <2>10 DEF Advance, e, f
<1>17. CASE Operator
  <2>1. PICK op \in Operators : /\ Reads(op) /\ HasOperand /\ Advance
                                /\ Update([call EXCEPT !.operator = op, !.state = "operator"])
    BY <1>17 DEF Operator
  <2>2. call.state \in Having /\ e[pos] = op /\ pos \in 1..Len(e)
    BY <1>2, <1>7, <1>8, <2>1 DEF Reads, e
  <2>3. e[pos] # ")"
    BY <2>2, TokensDiffer
  <2>4. call.negation = FALSE /\ Onwards
    <3>1. \/ L = 1 /\ pos = Len(e) + 1 /\ call.result = w
          \/ L > 1 /\ pos = b + 1 /\ pos \in 1..Len(e) /\ e[pos] = ")" /\ call.result = v
          \/ pos \in 1..Len(e) /\ e[pos] \in Operators /\ call.negation = FALSE /\ Onwards
      BY <1>11, <2>2, Zenon
    <3>2. ~(pos = Len(e) + 1)
      BY <1>2, <2>2
    <3>. QED
      BY <2>3, <3>1, <3>2
  <2>5. PICK j \in (pos + 1)..b : \E u \in Operand(e, f, pos + 1, j) :
              Completes(e, f, b, v, Joined(e[pos], call.result, u), j + 1)
    BY <2>4 DEF Onwards
  <2>6. PICK u \in Operand(e, f, pos + 1, j) :
              Completes(e, f, b, v, Joined(e[pos], call.result, u), j + 1)
    BY <2>5
  <2>7. u \in BOOLEAN
    <3>1. pos + 1 \in 1..Len(e) /\ j \in 1..Len(e)
      BY <1>2, <1>4
    <3>. QED
      BY <1>2, <3>1, PartsAreBoolean
  <2>a. PICK c : c = [call EXCEPT !.operator = op, !.state = "operator"]
    OBVIOUS
  <2>8. /\ c \in Call /\ c.state = "operator" /\ c.negation = FALSE
        /\ c.result = call.result /\ c.operator = op
    <3>1. call \in Call
      BY <1>3
    <3>2. /\ c \in Call /\ c.state = "operator" /\ c.negation = call.negation
          /\ c.result = call.result /\ c.operator = op
      BY <2>a, <3>1 DEF Call
    <3>. QED
      BY <2>4, <3>2
  <2>9. Update(c)
    BY <2>1, <2>a
  <2>10. Worth(c, u) = Joined(e[pos], call.result, u)
    BY <2>2, <2>7, <2>8, WorthJoined
  <2>11. Ready(e, f, c, pos + 1, b, v)
    BY <2>6, <2>8, <2>10 DEF Ready, Expecting
  <2>. QED
    BY <1>9, <2>1, <2>8, <2>9, <2>11 DEF Advance, e, f
<1>18. CASE Open
  <2>1. call.state \in Expecting /\ e[pos] = "(" /\ Advance /\ calls' = Append(calls, NewCall)
    BY <1>7, <1>18 DEF Open, Reads, e
  <2>2. e[pos] \notin Features /\ e[pos] # "not"
    BY <2>1, TokensDiffer
  <2>3. PICK j \in pos..b : \E u \in BOOLEAN :
           /\ Completes(e, f, b, v, Worth(call, u), j + 1)
           /\ pos + 1 < j /\ e[j] = ")" /\ u \in Expression(e, f, pos + 1, j - 1)
    BY <1>10, <2>1, <2>2
  <2>4. PICK u \in BOOLEAN :
           /\ Completes(e, f, b, v, Worth(call, u), j + 1)
           /\ pos + 1 < j /\ e[j] = ")" /\ u \in Expression(e, f, pos + 1, j - 1)
    BY <2>3
  <2>5. /\ pos + 1 \in 1..Len(e) /\ j - 1 \in (pos + 1)..Len(e) /\ j - 1 \in 0..Len(e)
        /\ j - 1 < b /\ j - 1 + 1 = j /\ j - 1 + 2 = j + 1
    BY <1>2, <1>4, <2>4
  <2>6. PICK k \in (pos + 1)..(j - 1) : \E x \in Operand(e, f, pos + 1, k) :
           Completes(e, f, j - 1, u, x, k + 1)
    BY <1>2, <2>4, <2>5, Splits
  <2>7. PICK x \in Operand(e, f, pos + 1, k) : Completes(e, f, j - 1, u, x, k + 1)
    BY <2>6
  <2>8. x \in BOOLEAN
    <3>1. k \in 1..Len(e)
      BY <1>2, <2>5
    <3>. QED
      BY <1>2, <2>5, <3>1, PartsAreBoolean
  <2>9. Ready(e, f, NewCall, pos + 1, j - 1, u)
    <3>1. Worth(NewCall, x) = x
      BY <2>8, WorthAlone
    <3>. QED
      BY <2>7, <3>1, NewCallIs DEF Ready, Expecting
  <2>10. Waiting(e, f, call, u, j - 1, b, v)
    BY <2>4, <2>5 DEF Waiting
  <2>11. Promised(e, f, calls', pos + 1, w)
    BY <1>1, <1>2, <1>3, <2>1, <2>5, <2>9, <2>10, ChainGrows DEF b, v, L
  <2>. QED
    BY <2>1, <2>11 DEF Advance, e, f
<1>19. CASE Close
  <2>1. /\ call.state \in Having /\ e[pos] = ")" /\ Advance /\ L > 1 /\ pos \in 1..Len(e)
        /\ calls' = Append(SubSeq(calls, 1, Len(calls) - 2),
                           Combine(calls[Len(calls) - 1], call.result, "closed"))
    BY <1>2, <1>3, <1>7, <1>8, <1>19 DEF Close, Reads, e, L
  <2>2. e[pos] \notin Operators
    BY <2>1, TokensDiffer
  <2>3. pos = b + 1 /\ call.result = v
    <3>1. \/ L = 1 /\ pos = Len(e) + 1 /\ call.result = w
          \/ L > 1 /\ pos = b + 1 /\ pos \in 1..Len(e) /\ e[pos] = ")" /\ call.result = v
          \/ pos \in 1..Len(e) /\ e[pos] \in Operators /\ call.negation = FALSE /\ Onwards
      BY <1>11, <2>1, Zenon
    <3>2. ~(pos = Len(e) + 1)
      BY <1>2, <2>1
    <3>. QED
      BY <2>2, <3>1, <3>2
  <2>a. PICK outer : outer = calls[L - 1]
    OBVIOUS
  <2>b. PICK c : c = Combine(outer, v, "closed")
    OBVIOUS
  <2>4. outer \in Call /\ L - 1 \in 1..(L - 1) /\ L - 1 \in 1..L /\ L - 1 + 1 = L
    BY <1>2, <1>3, <2>1, <2>a DEF L
  <2>5. c \in Call /\ c.state = "closed" /\ c.result = Worth(outer, v) /\ c.negation = FALSE
    <3>1. v \in BOOLEAN /\ outer \in Call /\ "closed" \in States
      BY <1>4, <2>4, StatesAre
    <3>. QED
      BY <3>1, <2>b, CombineIs
  <2>6. Waiting(e, f, outer, v, b, ends[L - 1], values[L - 1])
    BY <1>1, <2>4, <2>a DEF Chain, b, v, L
  <2>7. calls' = Append(SubSeq(calls, 1, Len(calls) - 2), c)
    BY <2>1, <2>3, <2>a, <2>b DEF L
  <2>8. Ready(e, f, c, pos + 1, ends[L - 1], values[L - 1])
    <3>1. b + 2 = pos + 1
      BY <1>4, <2>3
    <3>. QED
      BY <2>5, <2>6, <3>1 DEF Waiting, Ready, Having
  <2>9. /\ Len(calls') = L - 1 /\ calls'[Len(calls')] = c
        /\ \A d \in 1..(L - 2) : calls'[d] = calls[d]
    <3>1. Len(calls) > 1 /\ c \in Call
      BY <2>1, <2>5 DEF L
    <3>2. PICK t : t = calls'
      OBVIOUS
    <3>3. /\ Len(t) = Len(calls) - 1 /\ t[Len(t)] = c
          /\ \A d \in 1..(Len(calls) - 2) : t[d] = calls[d]
      <4>0. Len(calls) - 2 \in Nat
        BY <1>3, <3>1 DEF L
      <4>1. PICK n \in Nat : n = Len(calls) - 2
        BY <4>0
      <4>2. PICK r : r = SubSeq(calls, 1, n)
        OBVIOUS
      <4>3. r \in Seq(Call) /\ Len(r) = n /\ \A d \in 1..n : r[d] = calls[d]
        BY <1>2, <4>1, <4>2, Beginning
      <4>4. t = Append(r, c)
        BY <2>7, <3>2, <4>1, <4>2
      <4>5. Len(t) = n + 1 /\ t[n + 1] = c /\ \A d \in 1..n : t[d] = r[d]
        BY <3>1, <4>3, <4>4, Appended
      <4>. QED
        BY <1>2, <4>1, <4>3, <4>5
    <3>. QED
      BY <3>2, <3>3 DEF L
  <2>10. Promised(e, f, calls', pos + 1, w)
    BY <1>1, <1>2, <2>1, <2>8, <2>9, ChainShrinks DEF L
  <2>. QED
    BY <2>1, <2>10 DEF Advance, e, f
<1>20. CASE CloseEarly
  <2>1. call.state \in Expecting /\ e[pos] = ")"
    BY <1>20 DEF CloseEarly, Reads, Expecting, e
  <2>. QED
    BY <1>12, <2>1, TokensDiffer
<1>21. CASE PassOver
  <2>1. call.state = "end"
    BY <1>21 DEF PassOver
  <2>. QED
    BY <1>6, <2>1 DEF Expecting, Having
<1>22. CASE Unexpected
  <2>1. /\ pos \in 1..Len(e)
        /\ \/ e[pos] = Quote
           \/ call.state = "invalid"
           \/ ExpectsOperand /\ e[pos] \in Operators \cup {Word}
           \/ ExpectsOperand /\ e[pos] = ")"
           \/ HasOperand /\ e[pos] \notin Operators \cup {")"}
           \/ HasOperand /\ e[pos] = ")" /\ L = 1
    <3>1. depth = 0 => L = 1
      BY <1>3
    <3>. QED
      BY <1>8, <1>22, <3>1 DEF Unexpected, e
  <2>2. call.state # "invalid"
    BY <1>6 DEF Expecting, Having
  <2>3. CASE call.state \in Expecting
    BY <1>7, <1>12, <2>1, <2>2, <2>3, TokensDiffer
  <2>4. CASE call.state \in Having
    BY <1>3, <1>7, <1>13, <2>1, <2>2, <2>4, TokensDiffer
  <2>. QED
    BY <1>6, <2>3, <2>4
<1>23. CASE Finish
  <2>1. CASE call.state \in Expecting
    <3>1. pos \in 1..Len(e) /\ e[pos] # Odd
      BY <1>10, <1>12, <2>1, TokensDiffer
    <3>. QED
      BY <1>8, <1>23, <3>1 DEF Finish
  <2>2. CASE call.state \in Having
    <3>1. pos \notin 1..Len(e)
      <4>1. ASSUME pos \in 1..Len(e) PROVE e[pos] # Odd
        BY <1>13, <2>2, <4>1, TokensDiffer
      <4>. QED
        BY <1>8, <1>23, <4>1 DEF Finish
    <3>2. L = 1 /\ call.result = w
      BY <1>11, <2>2, <3>1
    <3>3. depth = 0 /\ ~ExpectsOperand
      BY <1>3, <1>7, <2>2, <3>2
    <3>4. errno' = "EOK" /\ value' = call.result
      BY <1>23, <3>3 DEF Finish
    <3>. QED
      BY <3>2, <3>4
  <2>. QED
    BY <1>6, <2>1, <2>2
<1>. QED
  BY <1>14, <1>15, <1>16, <1>17, <1>18, <1>19, <1>20, <1>21, <1>22, <1>23

-----------------------------------------------------------------------------
(* What is accepted is an expression.  Each call has a start, and what is  *)
(* behind it is an expression once an operand follows where one is         *)
(* expected.                                                               *)

Plain(e) ==
    \A i \in DOMAIN e :
        e[i] # Odd /\ (e[i] = ")" /\ i > 1 => e[i - 1] \notin Operators \cup {"not"})

Shaped(e, i, j) == Expression(e, {}, i, j) # {}

(* An operand from p on makes an expression of what begins at a.           *)
Begun(e, a, p) == \A j \in p..Len(e) : Operand(e, {}, p, j) # {} => Shaped(e, a, j)

Reached(e, c, a, p) ==
    \/ /\ c.state \in Expecting /\ Begun(e, a, p)
       /\ c.state # "begin" => p > 1 /\ e[p - 1] \in Operators \cup {"not"}
    \/ c.state \in Having /\ p > a /\ Shaped(e, a, p - 1)

LEMMA ReachedBehind ==
    ASSUME NEW e, NEW c, NEW a \in Nat, NEW p \in Nat, c.state \in Having, a <= p, Shaped(e, a, p)
    PROVE  Reached(e, c, a, p + 1)
<1>1. p + 1 > a
  OBVIOUS
<1>2. PICK q : q = p + 1 - 1
  OBVIOUS
<1>3. q = p
  BY <1>2
<1>4. Shaped(e, a, q)
  BY <1>3
<1>. QED
  BY <1>1, <1>2, <1>4 DEF Reached

Opened(e, a, b) == a < b /\ e[b - 1] = "(" /\ Begun(e, a, b - 1)

Trail(e, s, p, starts) ==
    /\ starts \in [1..Len(s) -> Nat \ {0}] /\ starts[1] = 1
    /\ \A d \in 1..Len(s) : starts[d] <= p
    /\ \A d \in 1..(Len(s) - 1) : Opened(e, starts[d], starts[d + 1])
    /\ Reached(e, s[Len(s)], starts[Len(s)], p)

Followed(e, s, p) == \E starts : Trail(e, s, p, starts)

LEMMA ShapesAre ==
    ASSUME NEW e \in Seq(Tokens), NEW i \in 1..Len(e), NEW j \in i..Len(e)
    PROVE  /\ e[i] \in Features => Operand(e, {}, i, i) # {}
           /\ e[i] = "not" /\ i < j /\ Operand(e, {}, i + 1, j) # {} => Operand(e, {}, i, j) # {}
           /\ e[i] = "(" /\ e[j] = ")" /\ Shaped(e, i + 1, j - 1) => Operand(e, {}, i, j) # {}
           /\ Operand(e, {}, i, j) # {} => Shaped(e, i, j)
           /\ \A k \in (i + 1)..(j - 1) :
                 e[k] \in Operators /\ Shaped(e, i, k - 1) /\ Operand(e, {}, k + 1, j) # {}
                 => Shaped(e, i, j)
<1>0. j \in 1..Len(e) /\ i <= j
  OBVIOUS
<1>1. ASSUME e[i] \in Features PROVE Operand(e, {}, i, i) # {}
  <2>0. PICK z : z = {}
    OBVIOUS
  <2>1. Operand(e, z, i, i) = {e[i] \in z}
    BY <1>1, Rules
  <2>2. Operand(e, z, i, i) # {}
    BY <2>1
  <2>. QED
    BY <2>0, <2>2
<1>2. ASSUME e[i] = "not", i < j, Operand(e, {}, i + 1, j) # {} PROVE Operand(e, {}, i, j) # {}
  <2>0. PICK z : z = {}
    OBVIOUS
  <2>1. Operand(e, z, i, j) = {~v : v \in Operand(e, z, i + 1, j)}
    <3>1. e[i] = "not"
      BY <1>2
    <3>. QED
      BY <1>0, <3>1, Rules
  <2>2. Operand(e, {}, i, j) = Negations(Operand(e, {}, i + 1, j))
    BY <2>0, <2>1 DEF Negations
  <2>. QED
    BY <1>2, <2>2, NegationsAre
<1>3. ASSUME e[i] = "(", e[j] = ")", Shaped(e, i + 1, j - 1) PROVE Operand(e, {}, i, j) # {}
  BY <1>0, <1>3, ParenthesesAre DEF Shaped
<1>4. ASSUME Operand(e, {}, i, j) # {} PROVE Shaped(e, i, j)
  <2>1. PICK u : u \in Operand(e, {}, i, j)
    BY <1>4
  <2>2. u \in Expression(e, {}, i, j)
    BY <1>0, <2>1, ExpressionCases
  <2>. QED
    BY <2>2 DEF Shaped
<1>5. ASSUME NEW k \in (i + 1)..(j - 1), e[k] \in Operators, Shaped(e, i, k - 1),
             Operand(e, {}, k + 1, j) # {}
      PROVE  Shaped(e, i, j)
  <2>1. PICK v \in Expression(e, {}, i, k - 1), u \in Operand(e, {}, k + 1, j) : TRUE
    BY <1>5 DEF Shaped
  <2>2. Joined(e[k], v, u) \in Expression(e, {}, i, j)
    BY <1>0, <1>5, <2>1, JoinIn
  <2>. QED
    BY <2>2 DEF Shaped
<1>. QED
  BY <1>1, <1>2, <1>3, <1>4, <1>5

(* The innermost call goes on.                                             *)
LEMMA TrailStays ==
    ASSUME NEW e, NEW s, NEW t, NEW p \in Nat, NEW starts, Trail(e, s, p, starts),
           Len(s) \in Nat, Len(t) = Len(s), Reached(e, t[Len(s)], starts[Len(s)], p + 1)
    PROVE  Followed(e, t, p + 1)
<1>1. \A d \in 1..Len(s) : starts[d] <= p + 1
  BY DEF Trail
<1>2. Trail(e, t, p + 1, starts)
  BY <1>1 DEF Trail
<1>. QED
  BY <1>2 DEF Followed

(* A parenthesis is opened.                                                *)
LEMMA TrailGrows ==
    ASSUME NEW e \in Seq(Tokens), NEW s \in Seq(Call), s # <<>>, NEW p \in Nat \ {0},
           NEW starts, Trail(e, s, p, starts), e[p] = "(", Begun(e, starts[Len(s)], p)
    PROVE  Followed(e, Append(s, NewCall), p + 1)
<1>. DEFINE t == Append(s, NewCall)
            n == Len(s)
            T == [d \in 1..(n + 1) |-> IF d = n + 1 THEN p + 1 ELSE starts[d]]
<1>1. n \in Nat /\ n > 0
  OBVIOUS
<1>2. Len(t) = n + 1 /\ t[n + 1] = NewCall
  BY NewCallIs, Appended
<1>3. /\ starts \in [1..n -> Nat \ {0}] /\ starts[1] = 1 /\ \A d \in 1..n : starts[d] <= p
      /\ \A d \in 1..(n - 1) : Opened(e, starts[d], starts[d + 1])
  BY DEF Trail
<1>4. Begun(e, starts[n], p)
  OBVIOUS
<1>. HIDE DEF t, n
<1>5. T \in [1..(n + 1) -> Nat \ {0}] /\ T[1] = 1 /\ T[n + 1] = p + 1
      /\ \A d \in 1..n : T[d] = starts[d]
  BY <1>1, <1>3
<1>. HIDE DEF T
<1>6. \A d \in 1..(n + 1) : T[d] <= p + 1
  <2>1. \A d \in 1..n : T[d] <= p + 1
    BY <1>3, <1>5
  <2>2. \A d \in 1..(n + 1) : d = n + 1 \/ d \in 1..n
    BY <1>1
  <2>. QED
    BY <1>5, <2>1, <2>2
<1>7. ASSUME NEW d \in 1..(n + 1 - 1) PROVE Opened(e, T[d], T[d + 1])
  <2>1. CASE d = n
    <3>1. Opened(e, starts[n], p + 1)
      <4>1. starts[n] < p + 1 /\ p + 1 - 1 = p
        BY <1>1, <1>3
      <4>. QED
        BY <1>4, <4>1 DEF Opened
    <3>. QED
      BY <1>1, <1>5, <2>1, <3>1
  <2>2. CASE d # n
    <3>1. d \in 1..(n - 1) /\ d \in 1..n /\ d + 1 \in 1..n
      BY <1>1, <2>2
    <3>. QED
      BY <1>3, <1>5, <3>1
  <2>. QED
    BY <2>1, <2>2
<1>8. Reached(e, NewCall, p + 1, p + 1)
  <2>1. ASSUME NEW j \in (p + 1)..Len(e), Operand(e, {}, p + 1, j) # {}
        PROVE  Shaped(e, p + 1, j)
    <3>1. p + 1 \in 1..Len(e)
      BY <2>1
    <3>. QED
      BY <2>1, <3>1, ShapesAre
  <2>. QED
    BY <2>1, NewCallIs DEF Reached, Begun, Expecting
<1>9. Trail(e, t, p + 1, T)
  BY <1>1, <1>2, <1>5, <1>6, <1>7, <1>8 DEF Trail
<1>. QED
  BY <1>9 DEF Followed, t

(* A parenthesis is closed.                                                *)
LEMMA TrailShrinks ==
    ASSUME NEW e, NEW s, Len(s) \in Nat, Len(s) > 1, NEW p \in Nat, NEW starts,
           Trail(e, s, p, starts), NEW t, Len(t) = Len(s) - 1,
           Reached(e, t[Len(t)], starts[Len(s) - 1], p + 1)
    PROVE  Followed(e, t, p + 1)
<1>. DEFINE n == Len(s) - 1
            T == [d \in 1..n |-> starts[d]]
<1>1. n \in Nat /\ n > 0 /\ Len(s) = n + 1 /\ Len(t) = n
  OBVIOUS
<1>2. /\ starts \in [1..(n + 1) -> Nat \ {0}] /\ starts[1] = 1
      /\ \A d \in 1..(n + 1) : starts[d] <= p
      /\ \A d \in 1..(n + 1 - 1) : Opened(e, starts[d], starts[d + 1])
  BY <1>1 DEF Trail
<1>3. Reached(e, t[n], starts[n], p + 1)
  BY <1>1
<1>. HIDE DEF n
<1>4. T \in [1..n -> Nat \ {0}] /\ \A d \in 1..n : T[d] = starts[d]
  BY <1>1, <1>2
<1>. HIDE DEF T
<1>5. T[1] = 1 /\ (\A d \in 1..n : T[d] <= p + 1) /\ Reached(e, t[n], T[n], p + 1)
  BY <1>1, <1>2, <1>3, <1>4
<1>6. ASSUME NEW d \in 1..(n - 1) PROVE Opened(e, T[d], T[d + 1])
  <2>1. d \in 1..n /\ d + 1 \in 1..n /\ d \in 1..(n + 1 - 1)
    BY <1>1
  <2>. QED
    BY <1>2, <1>4, <2>1
<1>7. Trail(e, t, p + 1, T)
  BY <1>1, <1>4, <1>5, <1>6 DEF Trail
<1>. QED
  BY <1>7 DEF Followed

LEMMA FollowStep ==
    ASSUME EvaluatorTypeOK, errno = "running", Step, Plain(expr), Followed(expr, calls, pos)
    PROVE  \/ errno' = "running" /\ Followed(expr, calls', pos')
           \/ errno' = "EOK" /\ Shaped(expr, 1, Len(expr))
           \/ errno' = "EINVAL"
<1>. DEFINE e == expr
            L == Len(calls)
<1>1. PICK starts : Trail(e, calls, pos, starts)
  BY DEF Followed
<1>. DEFINE a == starts[L]
<1>2. /\ e \in Seq(Tokens) /\ pos \in Nat \ {0} /\ calls \in Seq(Call) /\ calls # <<>>
      /\ Len(e) \in Nat /\ pos \in 1..(Len(e) + 1)
  BY DEF EvaluatorTypeOK
<1>3. call \in Call /\ call = calls[L] /\ depth = L - 1 /\ L \in Nat /\ L > 0
  BY Inner
<1>4. a \in Nat \ {0} /\ a <= pos
  BY <1>1, <1>3 DEF Trail
<1>5. Reached(e, call, a, pos)
  BY <1>1, <1>3 DEF Trail
<1>6. call.state \in Expecting \/ call.state \in Having
  BY <1>5 DEF Reached
<1>7. /\ ExpectsOperand <=> call.state \in Expecting
      /\ HasOperand <=> call.state \in Having
      /\ ~(call.state \in Expecting /\ call.state \in Having)
  BY DEF ExpectsOperand, HasOperand, Expecting, Having
<1>8. AtEnd <=> (pos \in 1..Len(e) => e[pos] = Odd)
  BY <1>2 DEF AtEnd
<1>9. ASSUME call.state \in Expecting
      PROVE  /\ Begun(e, a, pos)
             /\ call.state # "begin" => pos > 1 /\ e[pos - 1] \in Operators \cup {"not"}
  BY <1>5, <1>7, <1>9 DEF Reached
<1>10. ASSUME call.state \in Having PROVE pos > a /\ Shaped(e, a, pos - 1)
  BY <1>5, <1>7, <1>10 DEF Reached
<1>11. \A i \in 1..Len(e) : e[i] # Odd /\ (e[i] = ")" /\ i > 1 => e[i - 1] \notin Operators \cup {"not"})
  <2>1. DOMAIN expr = 1..Len(expr)
    BY <1>2
  <2>. QED
    BY <2>1 DEF Plain
<1>. HIDE DEF e, a, L
<1>12. \A c \in Call : Update(c) /\ Reached(e, c, a, pos + 1) /\ Advance
          => errno' = "running" /\ Followed(expr, calls', pos')
  <2>. SUFFICES ASSUME NEW c \in Call, Update(c), Reached(e, c, a, pos + 1), Advance
                PROVE  errno' = "running" /\ Followed(expr, calls', pos')
    OBVIOUS
  <2>1. Len(calls') = L /\ calls'[Len(calls')] = c
    BY <1>2, Updated DEF Update, L
  <2>2. Reached(e, calls'[Len(calls)], starts[Len(calls)], pos + 1)
    BY <2>1 DEF L, a
  <2>3. Followed(e, calls', pos + 1)
    BY <1>1, <1>2, <1>3, <2>1, <2>2, TrailStays DEF L
  <2>. QED
    BY <2>3 DEF Advance, e
<1>14. Step => Feature \/ Not \/ Operator \/ Open \/ Close
               \/ CloseEarly \/ PassOver \/ Unexpected \/ Finish
  BY DEF Step
<1>15. CASE Feature
  <2>1. PICK g \in Features : /\ Reads(g) /\ ExpectsOperand /\ Advance
                              /\ Update(Combine(call, g \in enabled, "feature"))
    BY <1>15 DEF Feature
  <2>2. call.state \in Expecting /\ e[pos] = g /\ pos \in 1..Len(e)
    BY <1>7, <1>8, <2>1 DEF Reads, e
  <2>3. PICK u \in BOOLEAN : u = (g \in enabled)
    BY MembershipIsBoolean
  <2>4. PICK c : c = Combine(call, u, "feature")
    OBVIOUS
  <2>5. c \in Call /\ c.state = "feature"
    <3>1. call \in Call /\ "feature" \in States
      BY <1>3, StatesAre
    <3>. QED
      BY <2>4, <3>1, CombineIs
  <2>6. Shaped(e, a, pos)
    <3>1. Operand(e, {}, pos, pos) # {} /\ pos \in pos..Len(e)
      BY <1>2, <2>2, ShapesAre
    <3>. QED
      BY <1>9, <2>2, <3>1 DEF Begun
  <2>7. Reached(e, c, a, pos + 1)
    <3>1. c.state \in Having /\ pos \in Nat
      BY <1>2, <2>5 DEF Having
    <3>. QED
      BY <1>4, <2>6, <3>1, ReachedBehind
  <2>8. Update(c)
    BY <2>1, <2>3, <2>4
  <2>. QED
    BY <1>12, <2>1, <2>5, <2>7, <2>8
<1>16. CASE Not
  <2>1. /\ call.state \in Expecting /\ e[pos] = "not" /\ Advance /\ pos \in 1..Len(e)
    BY <1>7, <1>8, <1>16 DEF Not, Reads, e
  <2>2. PICK c : c = [call EXCEPT !.negation = ~@, !.state = "not"]
    OBVIOUS
  <2>3. c \in Call /\ c.state = "not"
    BY <1>3, <2>2 DEF Call
  <2>4. Begun(e, a, pos + 1)
    <3>1. ASSUME NEW j \in (pos + 1)..Len(e), Operand(e, {}, pos + 1, j) # {}
          PROVE  Shaped(e, a, j)
      <4>1. j \in pos..Len(e) /\ pos < j
        BY <1>2
      <4>2. Operand(e, {}, pos, j) # {}
        BY <1>2, <2>1, <3>1, <4>1, ShapesAre
      <4>. QED
        BY <1>9, <2>1, <4>1, <4>2 DEF Begun
    <3>. QED
      BY <3>1 DEF Begun
  <2>5. Reached(e, c, a, pos + 1)
    <3>1. pos + 1 > 1 /\ pos + 1 - 1 = pos
      BY <1>2
    <3>. QED
      BY <2>1, <2>3, <2>4, <3>1 DEF Reached, Expecting
  <2>6. Update(c)
    BY <1>16, <2>2 DEF Not
  <2>. QED
    BY <1>12, <2>1, <2>3, <2>5, <2>6
<1>17. CASE Operator
  <2>1. PICK op \in Operators : /\ Reads(op) /\ HasOperand /\ Advance
                                /\ Update([call EXCEPT !.operator = op, !.state = "operator"])
    BY <1>17 DEF Operator
  <2>2. call.state \in Having /\ e[pos] \in Operators /\ pos \in 1..Len(e)
    BY <1>7, <1>8, <2>1 DEF Reads, e
  <2>3. PICK c : c = [call EXCEPT !.operator = op, !.state = "operator"]
    OBVIOUS
  <2>4. c \in Call /\ c.state = "operator"
    BY <1>3, <2>3 DEF Call
  <2>5. Begun(e, a, pos + 1)
    <3>1. ASSUME NEW j \in (pos + 1)..Len(e), Operand(e, {}, pos + 1, j) # {}
          PROVE  Shaped(e, a, j)
      <4>1. a \in 1..Len(e) /\ j \in a..Len(e) /\ a < pos /\ pos <= j /\ Shaped(e, a, pos - 1)
        BY <1>2, <1>4, <1>10, <2>2
      <4>2. CASE pos < j
        <5>1. pos \in (a + 1)..(j - 1)
          BY <1>2, <1>4, <4>1, <4>2
        <5>. QED
          BY <1>2, <2>2, <3>1, <4>1, <5>1, ShapesAre
      <4>3. CASE pos = j
        BY <1>2, <3>1, <4>3
      <4>. QED
        BY <1>2, <4>1, <4>2, <4>3
    <3>. QED
      BY <3>1 DEF Begun
  <2>6. Reached(e, c, a, pos + 1)
    <3>1. pos + 1 > 1 /\ pos + 1 - 1 = pos
      BY <1>2
    <3>. QED
      BY <2>2, <2>4, <2>5, <3>1 DEF Reached, Expecting
  <2>7. Update(c)
    BY <2>1, <2>3
  <2>. QED
    BY <1>12, <2>1, <2>4, <2>6, <2>7
<1>18. CASE Open
  <2>1. call.state \in Expecting /\ e[pos] = "(" /\ Advance /\ calls' = Append(calls, NewCall)
    BY <1>7, <1>18 DEF Open, Reads, e
  <2>2. Begun(e, starts[Len(calls)], pos)
    BY <1>9, <2>1 DEF a, L
  <2>3. Followed(e, calls', pos + 1)
    BY <1>1, <1>2, <2>1, <2>2, TrailGrows
  <2>. QED
    BY <2>1, <2>3 DEF Advance, e
<1>19. CASE Close
  <2>1. /\ call.state \in Having /\ e[pos] = ")" /\ Advance /\ L > 1 /\ pos \in 1..Len(e)
        /\ calls' = Append(SubSeq(calls, 1, Len(calls) - 2),
                           Combine(calls[Len(calls) - 1], call.result, "closed"))
    BY <1>2, <1>3, <1>7, <1>8, <1>19 DEF Close, Reads, e, L
  <2>2. PICK outer : outer = calls[Len(calls) - 1]
    OBVIOUS
  <2>3. PICK c : c = Combine(outer, call.result, "closed")
    OBVIOUS
  <2>4. outer \in Call /\ L - 1 \in 1..(L - 1) /\ L - 1 \in 1..L /\ L - 1 + 1 = L
    BY <1>2, <1>3, <2>1, <2>2 DEF L
  <2>5. c \in Call /\ c.state = "closed"
    <3>1. call.result \in BOOLEAN /\ outer \in Call /\ "closed" \in States
      BY <1>3, <2>4, StatesAre, CallIs
    <3>. QED
      BY <2>3, <3>1, CombineIs
  <2>6. Len(calls') = L - 1 /\ calls'[Len(calls')] = c
    <3>1. L - 2 \in Nat
      BY <1>3, <2>1
    <3>2. PICK n \in Nat : n = L - 2
      BY <3>1
    <3>3. PICK r : r = SubSeq(calls, 1, n)
      OBVIOUS
    <3>4. r \in Seq(Call) /\ Len(r) = n
      BY <1>2, <1>3, <3>2, <3>3, Beginning DEF L
    <3>5. calls' = Append(r, c)
      BY <2>1, <2>2, <2>3, <3>2, <3>3 DEF L
    <3>6. Len(calls') = n + 1 /\ calls'[n + 1] = c
      BY <2>5, <3>4, <3>5, Appended
    <3>. QED
      BY <1>3, <3>2, <3>6
  <2>7. Opened(e, starts[L - 1], a)
    <3>1. Opened(e, starts[L - 1], starts[L - 1 + 1])
      BY <1>1, <2>4 DEF Trail, L
    <3>. QED
      BY <2>4, <3>1 DEF a
  <2>8. starts[L - 1] \in Nat \ {0}
    BY <1>1, <2>4 DEF Trail, L
  <2>9. Shaped(e, starts[L - 1], pos)
    <3>1. /\ a - 1 \in 1..Len(e) /\ pos \in (a - 1)..Len(e) /\ e[a - 1] = "("
          /\ a - 1 + 1 = a /\ starts[L - 1] < a /\ Begun(e, starts[L - 1], a - 1)
          /\ Shaped(e, a, pos - 1)
      BY <1>2, <1>4, <1>10, <2>1, <2>7, <2>8 DEF Opened
    <3>2. Operand(e, {}, a - 1, pos) # {}
      <4>1. Shaped(e, a - 1 + 1, pos - 1)
        BY <3>1
      <4>. QED
        BY <1>2, <2>1, <3>1, <4>1, ShapesAre
    <3>. QED
      BY <3>1, <3>2 DEF Begun
  <2>10. Reached(e, c, starts[L - 1], pos + 1)
    <3>1. starts[L - 1] <= pos /\ starts[L - 1] \in Nat /\ pos \in Nat
      BY <1>2, <1>4, <2>7, <2>8 DEF Opened
    <3>2. c.state \in Having
      BY <2>5 DEF Having
    <3>. QED
      BY <2>9, <3>1, <3>2, ReachedBehind
  <2>11. Followed(e, calls', pos + 1)
    BY <1>1, <1>2, <1>3, <2>1, <2>6, <2>10, TrailShrinks DEF L
  <2>. QED
    BY <2>1, <2>11 DEF Advance, e
<1>20. CASE CloseEarly
  <2>1. /\ call.state \in Expecting /\ call.state # "begin" /\ e[pos] = ")" /\ pos \in 1..Len(e)
    BY <1>8, <1>20 DEF CloseEarly, Reads, Expecting, e
  <2>. QED
    BY <1>9, <1>11, <2>1
<1>21. CASE PassOver
  <2>1. call.state = "end"
    BY <1>21 DEF PassOver
  <2>. QED
    BY <1>6, <2>1 DEF Expecting, Having
<1>22. CASE Unexpected
  BY <1>22 DEF Unexpected, Refuse
<1>23. CASE Finish
  <2>1. CASE errno' = "EINVAL"
    BY <2>1
  <2>2. CASE errno' # "EINVAL"
    <3>1. errno' = "EOK" /\ depth = 0 /\ ~ExpectsOperand /\ AtEnd
      <4>1. depth \in Nat
        BY <1>3
      <4>. QED
        BY <1>23, <2>2, <4>1 DEF Finish, Refuse
    <3>2. pos = Len(e) + 1 /\ L = 1 /\ call.state \in Having
      BY <1>2, <1>3, <1>6, <1>7, <1>8, <1>11, <3>1
    <3>3. a = 1
      BY <1>1, <3>2 DEF Trail, a, L
    <3>4. Shaped(e, 1, pos - 1) /\ pos - 1 = Len(e)
      BY <1>2, <1>10, <3>2, <3>3
    <3>. QED
      BY <3>1, <3>4 DEF e
  <2>. QED
    BY <2>1, <2>2
<1>. QED
  BY <1>14, <1>15, <1>16, <1>17, <1>18, <1>19, <1>20, <1>21, <1>22, <1>23

-----------------------------------------------------------------------------
(* The template engine runs the evaluator.                                 *)

TInv ==
    /\ EvaluatorTypeOK
    /\ template \in Seq(Item) /\ features \subseteq Features
    /\ phase = "evaluating" => Matches # {}

(* Every value of the expression is the one that it is evaluated to.       *)
ValueInv ==
    /\ errno = "running" =>
          \A w \in Meaning(expr, enabled) : Promised(expr, enabled, calls, pos, w)
    /\ errno = "EOK" => Meaning(expr, enabled) \subseteq {value}
    /\ errno = "EINVAL" => Meaning(expr, enabled) = {}

ShapeInv ==
    Plain(expr) => /\ errno = "running" => Followed(expr, calls, pos)
                   /\ errno = "EOK" => WellFormed(expr)

EInv == TInv /\ ValueInv /\ ShapeInv

LEMMA MeaningIs ==
    ASSUME NEW e \in Seq(Tokens), NEW f
    PROVE  /\ Meaning(e, f) \subseteq BOOLEAN
           /\ e = <<>> => Meaning(e, f) = {}
           /\ e # <<>> => 1 \in 1..Len(e) /\ Len(e) \in 1..Len(e)
                          /\ Meaning(e, f) = Expression(e, f, 1, Len(e))
<1>1. CASE e = <<>>
  BY <1>1 DEF Meaning
<1>2. CASE e # <<>>
  <2>1. 1 \in 1..Len(e) /\ Len(e) \in 1..Len(e) /\ ~(1 > Len(e))
    BY <1>2
  <2>2. Meaning(e, f) = Expression(e, f, 1, Len(e))
    BY <1>2, <2>1 DEF Meaning, Expression
  <2>3. Expression(e, f, 1, Len(e)) \subseteq BOOLEAN
    BY <2>1, PartsAreBoolean
  <2>. QED
    BY <1>2, <2>1, <2>2, <2>3
<1>. QED
  BY <1>1, <1>2

(* An expression has a meaning whatever is enabled, or never.              *)
LEMMA MeansAnyway ==
    ASSUME NEW e \in Seq(Tokens), NEW f, WellFormed(e)
    PROVE  Meaning(e, f) # {}
<1>1. PICK z : z = {}
  OBVIOUS
<1>2. Meaning(e, z) # {}
  BY <1>1 DEF WellFormed
<1>3. e # <<>>
  BY <1>2, MeaningIs
<1>4. /\ 1 \in 1..Len(e) /\ Len(e) \in 1..Len(e)
      /\ Meaning(e, f) = Expression(e, f, 1, Len(e))
      /\ Meaning(e, z) = Expression(e, z, 1, Len(e))
  BY <1>3, MeaningIs
<1>5. Expression(e, z, 1, Len(e)) # {} => Expression(e, f, 1, Len(e)) # {}
  BY <1>4, ShapesAgree
<1>. QED
  BY <1>2, <1>4, <1>5

(* The evaluation begins with one call, at the first token.                *)
LEMMA PromisedAtFirst ==
    ASSUME NEW e \in Seq(Tokens), NEW f, NEW w \in Meaning(e, f)
    PROVE  Promised(e, f, <<NewCall>>, 1, w)
<1>1. /\ e # <<>> /\ w \in BOOLEAN /\ 1 \in 1..Len(e) /\ Len(e) \in 1..Len(e)
      /\ w \in Expression(e, f, 1, Len(e)) /\ Len(e) \in 0..Len(e)
  BY MeaningIs
<1>2. PICK j \in 1..Len(e) : \E u \in Operand(e, f, 1, j) :
         Completes(e, f, Len(e), w, u, j + 1)
  BY <1>1, Splits
<1>3. PICK u \in Operand(e, f, 1, j) : Completes(e, f, Len(e), w, u, j + 1)
  BY <1>2
<1>4. u \in BOOLEAN
  BY <1>1, PartsAreBoolean
<1>5. Worth(NewCall, u) = u
  BY <1>4, WorthAlone
<1>6. Ready(e, f, NewCall, 1, Len(e), w)
  BY <1>3, <1>5, NewCallIs DEF Ready, Expecting
<1>. DEFINE s == <<NewCall>>
            ends == [d \in 1..1 |-> Len(e)]
            values == [d \in 1..1 |-> w]
<1>7. Len(s) = 1 /\ s[1] = NewCall
  OBVIOUS
<1>8. /\ ends \in [1..1 -> 0..Len(e)] /\ values \in [1..1 -> BOOLEAN]
      /\ ends[1] = Len(e) /\ values[1] = w
  BY <1>1
<1>. HIDE DEF s, ends, values
<1>9. Chain(e, f, s, 1, w, ends, values)
  BY <1>6, <1>7, <1>8 DEF Chain
<1>. QED
  BY <1>9 DEF Promised, s

LEMMA FollowedAtFirst ==
    ASSUME NEW e \in Seq(Tokens)
    PROVE  Followed(e, <<NewCall>>, 1)
<1>1. Begun(e, 1, 1)
  <2>1. ASSUME NEW j \in 1..Len(e), Operand(e, {}, 1, j) # {} PROVE Shaped(e, 1, j)
    <3>1. 1 \in 1..Len(e)
      OBVIOUS
    <3>. QED
      BY <2>1, <3>1, ShapesAre
  <2>. QED
    BY <2>1 DEF Begun
<1>2. Reached(e, NewCall, 1, 1)
  BY <1>1, NewCallIs DEF Reached, Expecting
<1>. DEFINE s == <<NewCall>>
            starts == [d \in 1..1 |-> 1]
<1>3. Len(s) = 1 /\ s[1] = NewCall
  OBVIOUS
<1>4. starts \in [1..1 -> Nat \ {0}] /\ starts[1] = 1
  OBVIOUS
<1>. HIDE DEF s, starts
<1>5. Trail(e, s, 1, starts)
  BY <1>2, <1>3, <1>4 DEF Trail
<1>. QED
  BY <1>5 DEF Followed, s

LEMMA StepIs ==
    ASSUME Step
    PROVE  errno = "running" /\ expr' = expr /\ enabled' = enabled
           /\ errno' \in {"running", "EOK", "EINVAL"}
BY DEF Step, Feature, Not, Operator, Open, Close, CloseEarly, PassOver, Unexpected, Finish,
       Reads, Advance, Refuse

LEMMA MatchIs ==
    ASSUME template \in Seq(Item), Matches # {}
    PROVE  match \in Items /\ template[match] \in Item
<1>1. Matches \in SUBSET Nat /\ Matches \subseteq Items
  BY DEF Matches, Items
<1>2. \E x \in Matches : \A y \in Matches : x <= y
  BY <1>1, LeastNatural
<1>3. match \in Matches
  BY <1>2 DEF match, Min
<1>. QED
  BY <1>1, <1>3 DEF Items

LEMMA OneCall == <<NewCall>> \in Seq(Call) /\ <<NewCall>> # <<>>
BY NewCallIs

LEMMA SameMatches == UNCHANGED <<template, content, cursor>> => Matches' = Matches
BY DEF Matches, Items

LEMMA EvaluationInit == Init => EInv
<1>. SUFFICES ASSUME Init PROVE EInv
  OBVIOUS
<1>1. template \in Seq(Item) /\ features \subseteq Features
  BY TemplatesAssumption DEF Init
<1>2. EvaluatorTypeOK
  <2>1. <<NewCall>> \in Seq(Call) /\ <<NewCall>> # <<>>
    BY OneCall
  <2>2. /\ expr = <<>> /\ enabled = {} /\ pos = 1 /\ calls = <<NewCall>>
        /\ errno = "idle" /\ value = FALSE
    BY DEF Init, Idle
  <2>3. expr \in Seq(Tokens) /\ Len(expr) = 0
    BY <2>2
  <2>4. pos \in 1..(Len(expr) + 1)
    BY <2>2, <2>3
  <2>5. enabled \subseteq Features /\ value \in BOOLEAN
        /\ errno \in {"idle", "running", "EOK", "EINVAL"}
    BY <2>2
  <2>6. calls \in Seq(Call) /\ calls # <<>>
    BY <2>1, <2>2
  <2>. QED
    BY <2>3, <2>4, <2>5, <2>6 DEF EvaluatorTypeOK
<1>3. errno = "idle" /\ phase = "searching"
  BY DEF Init, Idle
<1>. QED
  BY <1>1, <1>2, <1>3 DEF EInv, TInv, ValueInv, ShapeInv

LEMMA EvaluationStep == EInv /\ [Next]_vars => EInv'
<1>. SUFFICES ASSUME EInv, [Next]_vars PROVE EInv'
  OBVIOUS
<1>0. EvaluatorTypeOK /\ template \in Seq(Item) /\ features \subseteq Features
      /\ (phase = "evaluating" => Matches # {})
  BY DEF EInv, TInv
<1>1. ASSUME UNCHANGED evaluator PROVE EvaluatorTypeOK' /\ ValueInv' /\ ShapeInv'
  BY <1>1 DEF EInv, TInv, EvaluatorTypeOK, ValueInv, ShapeInv, evaluator
<1>2. CASE Match
  <2>1. expr' \in Seq(Tokens) /\ enabled' = features /\ pos' = 1 /\ calls' = <<NewCall>>
        /\ errno' = "running" /\ value' = FALSE
    <3>1. template[match] \in Item
      BY <1>0, <1>2, MatchIs DEF Match
    <3>2. template[match].expr \in Seq(Tokens)
      BY <3>1 DEF Item
    <3>. QED
      BY <1>2, <3>2 DEF Match, Begin
  <2>2. EvaluatorTypeOK'
    <3>1. calls' \in Seq(Call) /\ calls' # <<>>
      BY <2>1, OneCall
    <3>2. pos' \in 1..(Len(expr') + 1)
      BY <2>1
    <3>3. errno' \in {"idle", "running", "EOK", "EINVAL"} /\ value' \in BOOLEAN
      BY <2>1
    <3>. QED
      BY <1>0, <2>1, <3>1, <3>2, <3>3 DEF EvaluatorTypeOK
  <2>3. ValueInv'
    BY <2>1, PromisedAtFirst DEF ValueInv
  <2>4. ShapeInv'
    BY <2>1, FollowedAtFirst DEF ShapeInv
  <2>5. TInv'
    BY <1>0, <1>2, <2>2, SameMatches DEF TInv, Match, unchangedInput
  <2>. QED
    BY <2>3, <2>4, <2>5 DEF EInv
<1>3. CASE Evaluate
  <2>1. Step
    BY <1>3 DEF Evaluate
  <2>2. errno = "running" /\ expr' = expr /\ enabled' = enabled
        /\ errno' \in {"running", "EOK", "EINVAL"}
    BY <2>1, StepIs
  <2>3. TInv'
    BY <1>0, <1>3, <2>1, TypeStep, SameMatches DEF TInv, Evaluate, unchangedInput
  <2>4. ASSUME NEW w \in Meaning(expr, enabled)
        PROVE  \/ errno' = "running" /\ Promised(expr, enabled, calls', pos', w)
               \/ errno' = "EOK" /\ value' = w
    <3>1. expr \in Seq(Tokens)
      BY <1>0 DEF EvaluatorTypeOK
    <3>2. w \in BOOLEAN
      BY <3>1, MeaningIs
    <3>3. Promised(expr, enabled, calls, pos, w)
      BY <2>2 DEF EInv, ValueInv
    <3>. QED
      BY <1>0, <2>1, <2>2, <3>2, <3>3, PromiseStep
  <2>5. ValueInv'
    BY <2>2, <2>4 DEF ValueInv
  <2>6. ShapeInv'
    <3>. SUFFICES ASSUME Plain(expr)
                  PROVE  /\ errno' = "running" => Followed(expr, calls', pos')
                         /\ errno' = "EOK" => WellFormed(expr)
      BY <2>2 DEF ShapeInv
    <3>1. Followed(expr, calls, pos)
      BY <2>2 DEF EInv, ShapeInv
    <3>2. \/ errno' = "running" /\ Followed(expr, calls', pos')
          \/ errno' = "EOK" /\ Shaped(expr, 1, Len(expr))
          \/ errno' = "EINVAL"
      BY <1>0, <2>1, <2>2, <3>1, FollowStep
    <3>3. Shaped(expr, 1, Len(expr)) => WellFormed(expr)
      <4>1. expr \in Seq(Tokens)
        BY <1>0 DEF EvaluatorTypeOK
      <4>2. expr = <<>> => Expression(expr, {}, 1, Len(expr)) = {}
        BY OutsideIsEmpty
      <4>. QED
        BY <4>1, <4>2, MeaningIs DEF Shaped, WellFormed
    <3>. QED
      BY <3>2, <3>3
  <2>. QED
    BY <2>3, <2>5, <2>6 DEF EInv
<1>4. CASE Replace
  <2>1. features' \subseteq Features
    <3>1. features' = features \/ features' = features \cup template[match].implied
      BY <1>4 DEF Replace
    <3>2. template[match] \in Item
      BY <1>0, <1>4, MatchIs DEF Replace
    <3>. QED
      BY <1>0, <3>1, <3>2 DEF Item
  <2>. QED
    BY <1>0, <1>1, <1>4, <2>1 DEF Replace, EInv, TInv, unchangedInput
<1>5. CASE Fail
  BY <1>0, <1>1, <1>5 DEF Fail, EInv, TInv, unchangedInput
<1>6. CASE Shake
  BY <1>0, <1>1, <1>6 DEF Shake, EInv, TInv, unchangedInput
<1>7. CASE UNCHANGED vars
  BY <1>0, <1>1, <1>7, SameMatches DEF vars, EInv, TInv
<1>. QED
  BY <1>2, <1>3, <1>4, <1>5, <1>6, <1>7 DEF Next

(* The evaluator's variables keep their types, and template_match_replace  *)
(* is only called for an operator that was found.                          *)
THEOREM EvaluatorTyped == Spec => [](EvaluatorTypeOK /\ (phase = "evaluating" => Matches # {}))
<1>1. EInv => EvaluatorTypeOK /\ (phase = "evaluating" => Matches # {})
  BY DEF EInv, TInv
<1>. QED
  BY EvaluationInit, EvaluationStep, <1>1, PTL DEF Spec

(* evaluator_state_machine gives every expression, however long and        *)
(* however nested, the value that its grammar gives it, and never refuses  *)
(* one.                                                                    *)
THEOREM EvaluatorIsRight == Spec => []EvaluatesWellFormed
<1>1. EInv => EvaluatesWellFormed
  <2>. SUFFICES ASSUME EInv, errno \in {"EOK", "EINVAL"}, WellFormed(expr)
                PROVE  errno = "EOK" /\ Meaning(expr, enabled) = {value}
    BY DEF EvaluatesWellFormed
  <2>1. expr \in Seq(Tokens)
    BY DEF EInv, TInv, EvaluatorTypeOK
  <2>2. Meaning(expr, enabled) # {}
    BY <2>1, MeansAnyway
  <2>3. errno = "EOK"
    BY <2>2 DEF EInv, ValueInv
  <2>4. Meaning(expr, enabled) \subseteq {value}
    BY <2>3 DEF EInv, ValueInv
  <2>. QED
    BY <2>2, <2>3, <2>4
<1>. QED
  BY EvaluationInit, EvaluationStep, <1>1, PTL DEF Spec

(* What evaluator_state_machine accepts is an expression, but for a part   *)
(* before a character that no token begins with, and a parenthesis closed  *)
(* where an operand is missing.                                            *)
THEOREM MalformedIsRefused == Spec => []MalformedRefused
<1>1. EInv => MalformedRefused
  BY DEF EInv, ShapeInv, Plain, MalformedRefused
<1>. QED
  BY EvaluationInit, EvaluationStep, <1>1, PTL DEF Spec

=============================================================================
