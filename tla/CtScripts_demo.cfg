SPECIFICATION Spec
CONSTANTS
    None = None
    Tries = 2
    ReceiptTries = 2
    Vks = 2
    DepositAmount = 2
    TransferAmount = 1
    MaxStarts = 4
    MaxGifts = 1
CHECK_DEADLOCK FALSE
INVARIANT DemoKeyOpens
