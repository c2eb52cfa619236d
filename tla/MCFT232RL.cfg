SPECIFICATION CallsSpec
CONSTANTS
    Objects = {host, mcu}
    Devices = {0, 1}
    Wire <- CrossedWire
    Byte = {0}
    BaudRates = {9600, 115200}
    Formats = {"8N1"}
    DefaultBaud = 115200
    BufferSize = 2
    Nobody = Nobody
    Timeout = 2
    Pollers = {host}
INVARIANTS
    CallsTypeOK
    NoLeakedHandle
    BaudInStep
    CountIsThere
PROPERTIES
    DeadUntilDisconnect
    DrainEnds
    ImplementsLocked
