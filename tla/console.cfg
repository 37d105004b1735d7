\* One session with frames of up to 3 bytes, so that an early frame can be
\* longer, shorter or as long as the one before it; and two sessions on two
\* workers, where two hosts number a display alike and the web server's own
\* host has a display too.
CONSTANTS
    MaxFrame = 3
    MaxTyped = 6
    MaxProduced = 3
    s1 = s1  s2 = s2  w1 = w1  w2 = w2
    here = here  h1 = h1  h2 = h2  p1 = p1  p2 = p2
    Sessions = {s1, s2}
    Workers = {w1, w2}
    Hosts = {here, h1, h2}
    Here = here
    Ports = {p1, p2}
    Consoles <- Clashing
    NoOne = NoOne
SPECIFICATION ConsoleSpec
INVARIANTS DirectBytesInOrder BrowserIsTold ReachesOwnHost
PROPERTIES ImplementsPipe EndedStreamCloses CutConnectionsEnd WorkersComeBack
\* Every session may be over.
CHECK_DEADLOCK FALSE
