SPECIFICATION Spec

CONSTANTS
    MaxConn = 2
    MaxElements = 3
    OutForms = {"custom", "available", "directed"}
    InForms = {"request", "available"}
    WillSend = {"presence"}
    WillReceive = {"iq"}
    Responders = {d1, d2}

INVARIANTS
    OneFate
    ReceiptConserved
    ReceiptTrueUnasked
    SentInOrder
    OneAnswer

PROPERTIES
    DeliversInOrder

SYMMETRY Symmetry

\* The bounds end every behaviour.
CHECK_DEADLOCK FALSE
