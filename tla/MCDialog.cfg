SPECIFICATION DialogSpec
CONSTANTS
    Objects = {host, mcu}
    Host = host
    Mcu = mcu
    Devices = {0, 1}
    McuDevice = 1
    Wire <- CrossedWire
    Byte <- AllBytes
    BaudRates = {115200}
    DefaultBaud = 115200
    McuBaud = 115200
    Formats = {"8N1"}
    BufferSize = 40
    Nobody = Nobody
    ParamBytes = 1
    MaxPolls = 3
    MaxRequests = 6
    CompletionPrefix <- OneByte
    Results = {5, 255}
    Requests <- TimelyRequests
    Timely = TRUE
    Pluggable = {1}
INVARIANTS
    DialogTypeOK
    TrueVerdict
    
    VersionIsFirmwares
    OnlyValidMotors

    
