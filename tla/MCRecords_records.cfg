CONSTANTS
    Values = {"on", "off"}
    Messages <- Published
    Cmds = {c1}
    NoCmd = NoCmd
    Names = {"id", "given", "own"}
    IdName = "id"
    NoName = NoName
    NoRecord = NoRecord
    CreditSecs = 1
    BusRoom = 3
    MaxInputs = 3
    Target = "on"
    Duration = 1
SPECIFICATION HomeSpec
INVARIANTS RecordAsPublished RemovedStaysAway ChoiceKept
PROPERTIES AnswerCredited DeferredFires
