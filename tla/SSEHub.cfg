\* The live loop and a request that publish at once, a reader and a client that may be
\* stuck.
CONSTANTS
    Client = {reader, slow}
    Publisher = {liveLoop, request}
    Ticking = {liveLoop}
    Stream = "stream"
    Stuck = {slow}
    Buffer = 2
    MaxVersion = 3
SPECIFICATION Spec
INVARIANTS
    NoSendOnClosed
    BackAtMostOnce
PROPERTIES
    SettlesOnLast
