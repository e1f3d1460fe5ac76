SPECIFICATION Spec
CONSTANTS
    None = None
    Tries = 2
    ReceiptTries = 2
    Vks = 2
    DepositAmount = 2
    TransferAmount = 1
    MaxStarts = 5
    MaxGifts = 1
ACTION_CONSTRAINT EarlyWriters
CHECK_DEADLOCK FALSE
INVARIANTS
    KeysOnFile
    RecordReady
    TransferOnce
    VerifiesAtRest
    ReadersAgree
    ReceiptOpens
PROPERTIES
    SecretsKept
