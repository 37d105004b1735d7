\* No deadlock check: when the connection has ended, everything may stop.
CONSTANTS
    MaxConnects = 2
    MaxEvents = 2
    Peers <- Servers
    Updates <- Drawn
    Others <- Besides
    Printable = {"a"}
    Special = {"Shift", "Control"}
    Buttons = {1, 2}
    MaxList = 2
    Cells = {1, 2, 3}
    Colours = {"red"}
    MaxQueue = 3
    MaxFrames = 2
    MaxWidth = 3
    MaxHeight = 3
    MaxMove = 2
    Logo <- SmallLogo
SPECIFICATION Spec
INVARIANTS InStep ServerHears NothingForgotten EveryKeyIsReleased QueuedInOrder AlwaysScanned BlankIsAskedFor
CHECK_DEADLOCK FALSE
