SPECIFICATION FairSpec
CONSTANTS
    c1 = c1
    c2 = c2
    none = none
    Clients = {c1, c2}
    NoQuestion = none
    Numbers <- MCNumbers
    Qualifiers <- MCQualifiers
    NumberColumns <- MCNumberColumns
    TextColumns <- MCTextColumns
    Wheres <- MCWheres
    Tables <- MCTables
    Statements <- MCStatements
    Sent <- MCSent
    MaxSent <- MCMaxSent
    MaxStarts = 2
INVARIANTS ExecutesWhatIsMeant OrderlyUseSurvives OneAnswerAfterStop
PROPERTIES StopReturns AnsweredOrCutOff
CHECK_DEADLOCK FALSE
