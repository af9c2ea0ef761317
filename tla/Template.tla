------------------------------- MODULE Template -------------------------------
(***************************************************************************)
(* The template engine (src/src/lib/util/template.c): operators in braces  *)
(* are searched for from the beginning to the end of a template, and each  *)
(* is carried out on the text in place, by writing zero bytes over what it *)
(* removes; at last the text is shaken together.                           *)
(*                                                                         *)
(* A template is a sequence of items: a piece of text, the end of a line,  *)
(* or an operator with its expression.  The bytes of an item are not told  *)
(* apart: it is as it was written, erased, or (for "if") replaced by one   *)
(* of its two values.                                                      *)
(***************************************************************************)
EXTENDS Evaluator, FiniteSetsExt

CONSTANT Templates  \* the templates to generate from

LineOperators == {"continue", "stop", "include", "exclude"}

Item == [op : {"text", "newline"} \cup LineOperators \cup {"if", "imply"},
         expr : Seq(Tokens), implied : SUBSET Features]

ASSUME TemplatesAssumption == Templates \subseteq Seq(Item)

VARIABLES
    template,   \* the template
    requested,  \* the features given to template_generate
    features,   \* the copy of them that "imply" adds to
    content,    \* what has become of each item
    cursor,     \* the item at match_string
    phase,      \* "searching", "evaluating", "generated" or "NULL"
    output      \* the items generated, in their final form

vars == <<template, requested, features, content, cursor, phase, output, evaluator>>

unchangedInput == UNCHANGED <<template, requested>>

Items == DOMAIN template

Init ==
    /\ template \in Templates
    /\ requested \in SUBSET Features
    /\ features = requested
    /\ content = [i \in Items |-> "written"]
    /\ cursor = 1
    /\ phase = "searching"
    /\ output = <<>>
    /\ Idle

-----------------------------------------------------------------------------

(* The operators regexec can still find.  Nothing behind match_string is   *)
(* erased but what directly follows it, which the loop skips.              *)
Matches ==
    {i \in Items : i >= cursor /\ content[i] = "written"
                   /\ template[i].op \notin {"text", "newline"}}

match == Min(Matches)

Erase(S) == content' = [i \in Items |-> IF i \in S THEN "erased" ELSE content[i]]

(* string_remove_line looks for the beginning of the line byte by byte:    *)
(* behind the nearest end of a line that has not been erased.              *)
LineEnds  == {i \in Items : template[i].op = "newline" /\ content[i] = "written"}
LineStart == Max({0} \cup {i \in LineEnds : i < match}) + 1
LineEnd   == Min({Len(template)} \cup {i \in LineEnds : i > match})

(* Broken variants: only what follows the operator is removed ...          *)
BrokenRemoveLine == Erase(match..LineEnd)

(* ... and the search goes on one item too far.                            *)
BrokenResume == cursor' = match + 2

RemoveLine == Erase(LineStart..LineEnd)
RemoveRange == Erase({match})
RemoveRemainder == Erase(match..Len(template))

Resume == cursor' = match + 1

(* An operator is found, and evaluate() called with its expression.        *)
Match ==
    /\ phase = "searching" /\ Matches # {}
    /\ Begin(template[match].expr, features)
    /\ phase' = "evaluating"
    /\ UNCHANGED <<features, content, cursor, output>> /\ unchangedInput

Evaluate ==
    /\ phase = "evaluating"
    /\ Step
    /\ UNCHANGED <<features, content, cursor, phase, output>> /\ unchangedInput

(* template_match_replace carries out the operator.                        *)
Replace ==
    /\ phase = "evaluating" /\ errno = "EOK"
    /\ LET item == template[match] IN
       /\ \/ /\ item.op = "continue"
             /\ IF value THEN RemoveLine ELSE RemoveRemainder
          \/ /\ item.op = "stop"
             /\ IF value THEN RemoveRemainder ELSE RemoveLine
          \/ /\ item.op = "include"
             /\ IF value THEN RemoveRange ELSE RemoveLine
          \/ /\ item.op = "exclude"
             /\ IF value THEN RemoveLine ELSE RemoveRange
          \/ /\ item.op = "imply"
             /\ RemoveLine
          \/ /\ item.op = "if"
             /\ content' = [content EXCEPT ![match] = IF value THEN "yes" ELSE "no"]
       /\ features' = IF item.op = "imply" /\ value THEN features \cup item.implied
                      ELSE features
    /\ Resume
    /\ phase' = "searching"
    /\ UNCHANGED <<output, evaluator>> /\ unchangedInput

(* template_generate returns NULL.                                         *)
Fail ==
    /\ phase = "evaluating" /\ errno = "EINVAL"
    /\ phase' = "NULL"
    /\ UNCHANGED <<features, content, cursor, output, evaluator>> /\ unchangedInput

(* What is left of the items of t, each with its form, from left to right. *)
Shaken(t, form) ==
    LET Kept[n \in 0..Len(t)] ==
            IF n = 0 THEN <<>>
            ELSE IF form[n] = "erased" THEN Kept[n - 1]
            ELSE Append(Kept[n - 1], <<n, form[n]>>)
    IN  Kept[Len(t)]

Shake ==
    /\ phase = "searching" /\ Matches = {}
    /\ phase' = "generated"
    /\ output' = Shaken(template, content)
    /\ UNCHANGED <<features, content, cursor, evaluator>> /\ unchangedInput

Next == Match \/ Evaluate \/ Replace \/ Fail \/ Shake

Spec == Init /\ [][Next]_vars

(* template_list_features: every feature that an expression names.  A      *)
(* broken variant only looks at the first token.                           *)
BrokenListed ==
    {template[i].expr[1] : i \in {i \in Items : template[i].expr # <<>>}} \cap Features

Listed ==
    Features \cap UNION {{template[i].expr[k] : k \in DOMAIN template[i].expr} : i \in Items}

-----------------------------------------------------------------------------
(* What a template t means, read item by item as authselect-profiles(5)    *)
(* has it.                                                                 *)

Line(t, i) == Cardinality({j \in 1..(i - 1) : t[j].op = "newline"})

(* What an operator does whose expression has the values "holds".          *)
Leaves(op, holds) ==
    \/ op = "continue" /\ FALSE \in holds
    \/ op = "stop" /\ TRUE \in holds

Removes(op, holds) ==
    \/ op = "include" /\ FALSE \in holds
    \/ op = "exclude" /\ TRUE \in holds
    \/ op \in {"continue", "stop", "imply"} /\ ~Leaves(op, holds)

(* What is known when the first i items have been read: the features,      *)
(* which lines are removed, where the template ends, whether it is wrong.  *)
Unread(t, start) ==
    [features |-> start, removed |-> {}, end |-> Len(t) + 1, wrong |-> FALSE]

Read(t, r, i) ==
    LET item == t[i]
        holds == Meaning(item.expr, r.features)
    IN  IF \/ item.op \in {"text", "newline"}
           \/ r.wrong \/ r.end <= Len(t) \/ Line(t, i) \in r.removed
        THEN r
        ELSE [features |-> IF item.op = "imply" /\ TRUE \in holds
                           THEN r.features \cup item.implied ELSE r.features,
              removed |-> IF Removes(item.op, holds)
                          THEN r.removed \cup {Line(t, i)} ELSE r.removed,
              end |-> IF Leaves(item.op, holds) THEN i ELSE r.end,
              wrong |-> holds = {}]

Reading(t, start) ==
    LET R[i \in 0..Len(t)] == IF i = 0 THEN Unread(t, start) ELSE Read(t, R[i - 1], i)
    IN  R

(* What has become of item i when the first n items have been read as R    *)
(* says.                                                                   *)
Form(t, R, n, i) ==
    IF \/ i >= R[n].end \/ Line(t, i) \in R[n].removed
       \/ i <= n /\ t[i].op \in LineOperators \cup {"imply"}
    THEN "erased"
    ELSE IF i <= n /\ t[i].op = "if"
    THEN IF TRUE \in Meaning(t[i].expr, R[i - 1].features) THEN "yes" ELSE "no"
    ELSE "written"

Meant(t, start) ==
    LET R == Reading(t, start)
        wrong == R[Len(t)].wrong
    IN  [phase  |-> IF wrong THEN "NULL" ELSE "generated",
         output |-> IF wrong THEN <<>>
                    ELSE Shaken(t, [i \in DOMAIN t |-> Form(t, R, Len(t), i)])]

Ended  == phase \in {"generated", "NULL"}
Result == [phase |-> phase, output |-> output]

(* The templates whose expressions are expressions or are refused.         *)
Regular(t) ==
    \A i \in DOMAIN t : \A k \in DOMAIN t[i].expr :
        /\ t[i].expr[k] # Odd
        /\ t[i].expr[k] = ")" /\ k > 1 => t[i].expr[k - 1] \notin Operators \cup {"not"}

(* The types of the variables.                                             *)
TypeOK ==
    /\ EvaluatorTypeOK
    /\ template \in Seq(Item)
    /\ requested \subseteq Features
    /\ features \subseteq Features
    /\ content \in [Items -> {"written", "erased", "yes", "no"}]
    /\ cursor \in 1..(Len(template) + 1)
    /\ phase \in {"searching", "evaluating", "generated", "NULL"}
    /\ output \in Seq(Items \X {"written", "yes", "no"})

(* Erasing in place, also of lines behind lines that are gone already, and *)
(* of lines in which something was replaced, generates what the template   *)
(* means, and a template that is wrong where it counts generates nothing.  *)
GeneratesWhatIsMeant == Ended /\ Regular(template) => Result = Meant(template, requested)

(* Features that template_list_features does not find make no difference:  *)
(* authselect refuses them as unknown.                                     *)
UnlistedMakeNoDifference ==
    Ended /\ Regular(template) => Result = Meant(template, requested \cap Listed)

=============================================================================
