CONSTANTS
    Alerts = {a1}
    People = {p1}
    Nobody = Nobody
    NoAlert = NoAlert
    Unseen = Unseen
    SortChoices <- AnySort
    HoldMins = 1
    ActiveMins = 1
    MailRoom = 1
    MaxChanges = 3
    MaxAcks = 2
    MaxFaults = 1
SPECIFICATION AlertSpec
INVARIANTS OncePerAlert AcksAgree
PROPERTIES AcksShown LongAlertFires ListConverges ListedIsAnnounced
CHECK_DEADLOCK FALSE
