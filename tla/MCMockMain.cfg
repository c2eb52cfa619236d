SPECIFICATION Spec
CONSTANTS
    Objects = {mcu}
    Mcu = mcu
    Devices = {1}
    Wire <- OwnWire
    Byte = {0, 1, 9, 10, 18, 32, 129, 255}
    BaudRates = {9600, 115200}
    Formats = {"8N1"}
    DefaultBaud = 115200
    BufferSize = 4
    Nobody = Nobody
    ParamBytes = 1
    CompletionPrefix <- NoPrefix
    Results = {255}
    CommandLines <- Lines
    Stoi <- Numbers
    McuBaud = 9600
    McuFormat = "8N1"
    Incoming = {9, 32, 129}
    MaxIncoming = 2
    MaxSignals = 2
    MaxErrors = 1
INVARIANTS
    MockTypeOK
    NeverAborted
    NoUseAfterDisconnect
    ReleasedAtExit
    FinalIsFinal
PROPERTY
    EndsWhenAsked
