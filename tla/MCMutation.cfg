SPECIFICATION FairSpec
CONSTANTS
    c1 = c1
    c2 = c2
    Callers <- MCCallers
    Ops <- MCOps
    Requests <- MCRequests
    Rows <- MCRows
    Tickets <- MCTickets
    ThisStore = "s"
    MaxRunning = 2
    MaxCrashes = 1
    SharedClones = FALSE
    NoReceipt = NoReceipt
    NoCaller = NoCaller
    NoTicket = NoTicket
INVARIANTS
    EffectsMatchReceipts
    CommittedIsReceipt
    NoncommitIsKnown
PROPERTIES
    ReceiptsPermanent
    CallsReturn
    ImplementsAtMostOnce
