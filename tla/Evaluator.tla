------------------------------ MODULE Evaluator ------------------------------
(***************************************************************************)
(* The evaluator of feature expressions (src/src/lib/util/evaluator.c), a  *)
(* state machine that reads an expression token by token and calls itself  *)
(* for what is in parentheses; the calls are a stack here.                 *)
(*                                                                         *)
(* An expression is a sequence of tokens: a parenthesis, an operator, or a *)
(* feature.  Of what else a template can contain there are Word (letters   *)
(* that are no operator), Odd (a character no token begins with) and Quote *)
(* (a quotation mark without its partner).                                 *)
(***************************************************************************)
EXTENDS Naturals, Sequences

CONSTANTS
    Features,         \* features: tokens in quotation marks
    Word, Odd, Quote  \* tokens that are no part of an expression

Operators == {"and", "or"}
Tokens    == Features \cup Operators \cup {"not", "(", ")", Word, Odd, Quote}

ASSUME TokensAssumption ==
    /\ Features \cap (Operators \cup {"not", "(", ")", Word, Odd, Quote}) = {}
    /\ {Word, Odd, Quote} \cap (Operators \cup {"not", "(", ")"}) = {}

VARIABLES
    expr,     \* the expression
    enabled,  \* the features that are enabled
    pos,      \* index of the next token
    calls,    \* the active calls of evaluator_state_machine, innermost last
    errno,    \* "idle", "running", "EOK" or "EINVAL"
    value     \* the result

evaluator == <<expr, enabled, pos, calls, errno, value>>

(* The variables of evaluator_state_machine.                               *)
Call == [state : {"begin", "feature", "closed", "operator", "not", "end", "invalid"},
         result : BOOLEAN, negation : BOOLEAN, operator : Operators \cup {"none"}]

NewCall == [state |-> "begin", result |-> FALSE, negation |-> FALSE, operator |-> "none"]

(* The state a token leads to, were it valid where it stands.              *)
StateOf(token) ==
    CASE token \in Features  -> "feature"
      [] token \in Operators -> "operator"
      [] token = "not"       -> "not"
      [] token = "("         -> "closed"
      [] token = ")"         -> "end"
      [] OTHER               -> "invalid"

Idle ==
    /\ expr = <<>> /\ enabled = {} /\ pos = 1
    /\ calls = <<NewCall>> /\ errno = "idle" /\ value = FALSE

Begin(e, features) ==
    /\ expr' = e
    /\ enabled' = features
    /\ pos' = 1
    /\ calls' = <<NewCall>>
    /\ errno' = "running"
    /\ value' = FALSE

-----------------------------------------------------------------------------

depth == Len(calls) - 1
call  == calls[Len(calls)]

(* A character that begins no token is read as an empty one, again and     *)
(* again: it ends the expression.                                          *)
AtEnd == pos \in DOMAIN expr => expr[pos] = Odd

Reads(token) == errno = "running" /\ ~AtEnd /\ expr[pos] = token

Advance == pos' = pos + 1 /\ UNCHANGED <<expr, enabled, errno, value>>

Update(c) == calls' = [calls EXCEPT ![Len(calls)] = c]

Refuse ==
    /\ errno' = "EINVAL"
    /\ UNCHANGED <<expr, enabled, pos, calls, value>>

(* The operand, negated if a "not" precedes it, joins what came before.    *)
Combine(c, operand, state) ==
    LET v == operand # c.negation IN
    [c EXCEPT !.result = CASE c.operator = "and" -> @ /\ v
                           [] c.operator = "or"  -> @ \/ v
                           [] OTHER              -> v,
              !.negation = FALSE,
              !.state = state]

ExpectsOperand == call.state \in {"begin", "not", "operator"}
HasOperand     == call.state \in {"feature", "closed"}

(* Broken variants, to show that the properties notice; they are no part   *)
(* of the specification.  A second "not" does not undo the first.          *)
BrokenNot ==
    /\ Reads("not") /\ ExpectsOperand
    /\ Update([call EXCEPT !.negation = TRUE, !.state = "not"])
    /\ Advance

Feature ==
    \E f \in Features :
        /\ Reads(f) /\ ExpectsOperand
        /\ Update(Combine(call, f \in enabled, "feature"))
        /\ Advance

Not ==
    /\ Reads("not") /\ ExpectsOperand
    /\ Update([call EXCEPT !.negation = ~@, !.state = "not"])
    /\ Advance

Operator ==
    \E op \in Operators :
        /\ Reads(op) /\ HasOperand
        /\ Update([call EXCEPT !.operator = op, !.state = "operator"])
        /\ Advance

Open ==
    /\ Reads("(") /\ ExpectsOperand
    /\ calls' = Append(calls, NewCall)
    /\ Advance

(* The inner call returns, and the outer one goes on with its result.      *)
Close ==
    /\ Reads(")") /\ HasOperand /\ depth > 0
    /\ LET outer == calls[Len(calls) - 1] IN
       calls' = Append(SubSeq(calls, 1, Len(calls) - 2),
                       Combine(outer, call.result, "closed"))
    /\ Advance

(* After an operator or a "not" a parenthesis is accepted but does not end *)
(* the call.                                                               *)
CloseEarly ==
    /\ Reads(")") /\ call.state \in {"operator", "not"} /\ depth > 0
    /\ Update([call EXCEPT !.state = "end"])
    /\ Advance

(* The call goes on in a state in which every token is passed over.        *)
PassOver ==
    /\ errno = "running" /\ ~AtEnd /\ expr[pos] # Quote
    /\ call.state = "end"
    /\ Update([call EXCEPT !.state = StateOf(expr[pos])])
    /\ Advance

Unexpected ==
    /\ errno = "running" /\ ~AtEnd
    /\ \/ expr[pos] = Quote
       \/ call.state = "invalid"
       \/ ExpectsOperand /\ expr[pos] \in Operators \cup {Word}
       \/ ExpectsOperand /\ expr[pos] = ")" /\ (depth = 0 \/ call.state = "begin")
       \/ HasOperand /\ expr[pos] \notin Operators \cup {")"}
       \/ HasOperand /\ expr[pos] = ")" /\ depth = 0
    /\ Refuse

(* A missing parenthesis is not noticed.                                   *)
BrokenFinish ==
    /\ errno = "running" /\ AtEnd
    /\ IF ExpectsOperand
       THEN Refuse
       ELSE /\ errno' = "EOK"
            /\ value' = call.result
            /\ UNCHANGED <<expr, enabled, pos, calls>>

Finish ==
    /\ errno = "running" /\ AtEnd
    /\ IF depth > 0 \/ ExpectsOperand
       THEN Refuse
       ELSE /\ errno' = "EOK"
            /\ value' = call.result
            /\ UNCHANGED <<expr, enabled, pos, calls>>

Step ==
    \/ Feature \/ Not \/ Operator \/ Open \/ Close
    \/ CloseEarly \/ PassOver \/ Unexpected \/ Finish

-----------------------------------------------------------------------------

(* What an expression means: the values of the part from i to j, none if   *)
(* it is no expression.  "not" binds tighter than the other operators,     *)
(* which group to the left, "and" no tighter than "or".                    *)
Spans(e) == (1..Len(e)) \X (1..Len(e))

Values(e, features) ==
    LET Value[s \in Spans(e) \X {"expression", "operand"}] ==
            LET i == s[1][1]
                j == s[1][2]
                Operand(a, b)    == IF a > b THEN {} ELSE Value[<<<<a, b>>, "operand">>]
                Expression(a, b) == IF a > b THEN {} ELSE Value[<<<<a, b>>, "expression">>]
            IN  IF s[2] = "operand"
                THEN IF i = j /\ e[i] \in Features THEN {e[i] \in features}
                     ELSE IF e[i] = "not" /\ i < j THEN {~v : v \in Operand(i + 1, j)}
                     ELSE IF e[i] = "(" /\ e[j] = ")" /\ i + 1 < j THEN Expression(i + 1, j - 1)
                     ELSE {}
                ELSE Operand(i, j) \cup
                     UNION {{IF e[k] = "and" THEN v /\ w ELSE v \/ w :
                                v \in Expression(i, k - 1), w \in Operand(k + 1, j)} :
                            k \in {k \in (i + 1)..(j - 1) : e[k] \in Operators}}
    IN  Value

Meaning(e, features) ==
    IF e = <<>> THEN {} ELSE Values(e, features)[<<<<1, Len(e)>>, "expression">>]

WellFormed(e) == Meaning(e, {}) # {}

(* The types of the variables.                                             *)
EvaluatorTypeOK ==
    /\ expr \in Seq(Tokens)
    /\ enabled \subseteq Features
    /\ pos \in 1..(Len(expr) + 1)
    /\ calls \in Seq(Call) /\ calls # <<>>
    /\ errno \in {"idle", "running", "EOK", "EINVAL"}
    /\ value \in BOOLEAN

(* A well-formed expression, with parentheses and any number of "not", is  *)
(* accepted and has its meaning as value.                                  *)
EvaluatesWellFormed ==
    errno \in {"EOK", "EINVAL"} /\ WellFormed(expr)
    => errno = "EOK" /\ Meaning(expr, enabled) = {value}

(* What is accepted without being an expression is known: a part that      *)
(* precedes a character no token begins with, and a parenthesis closed     *)
(* where an operand is missing.  All else is refused.                      *)
MalformedRefused ==
    errno = "EOK" /\ ~WellFormed(expr)
    => \E i \in DOMAIN expr :
          \/ expr[i] = Odd
          \/ expr[i] = ")" /\ i > 1 /\ expr[i - 1] \in Operators \cup {"not"}

=============================================================================
