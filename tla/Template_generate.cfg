\* Templates of one operator with every expression of up to four tokens and
\* many well-formed ones of up to nine, all arrangements of three items, and
\* templates of three lines, with every subset of two features.
CONSTANTS
    f = f
    g = g
    Features <- MCFeatures
    Word = Word
    Odd = Odd
    Quote = Quote
    Templates <- MCTemplates
SPECIFICATION Spec
CHECK_DEADLOCK FALSE
INVARIANTS
    TypeOK
    EvaluatesWellFormed
    MalformedRefused
    GeneratesWhatIsMeant
    UnlistedMakeNoDifference
