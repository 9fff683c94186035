SPECIFICATION Spec
CONSTANTS
    Types <- AllTypes
    Messages <- MCMessages
    UnknownFields <- MCUnknownFields
    MaxCut = 24
INVARIANT RoundTrip
INVARIANT BufferIsExact
INVARIANT CutIsNotMisread
INVARIANT UnknownIsKept
CHECK_DEADLOCK FALSE
