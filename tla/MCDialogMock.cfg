SPECIFICATION DialogSafety
CONSTANTS
    Objects = {host, mcu}
    Host = host
    Mcu = mcu
    Devices = {0, 1}
    McuDevice = 1
    Wire <- CrossedWire
    Byte <- AllBytes
    BaudRates = {115200}
    DefaultBaud = 115200
    McuBaud = 115200
    Formats = {"8N1"}
    BufferSize = 16
    Nobody = Nobody
    ParamBytes = 1
    MaxPolls = 2
    MaxRequests = 3
    CompletionPrefix <- NoPrefix
    Results = {255}
    Requests <- TalkRequests
    Timely = TRUE
    Pluggable = {}
INVARIANT RunIsReported
