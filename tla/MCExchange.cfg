\* Bodies of up to two messages; streams of up to three text frames in chunks
\* of up to two frames.
SPECIFICATION FairSpec
CONSTANTS
    a = a
    b = b
    c = c
    Words = {a, b, c}
    Image = Image
    NewLine = NewLine
    Unset = Unset
    Roles = {"system", "assistant", "tool", "developer"}
    Contents <- MCContents
    Limits <- MCLimits
    Defaults <- MCDefaults
    MaxMessages = 2
    U32 = 4
    Fallback = 1
    Fresh = 2
    Cached = 1
    Written = 3
    PerDelta = 2
    DeltaChars = 6
    ChannelCap = 2
    MaxFrameBuffer = 4
    MaxChunk = 2
    MaxText = 3
INVARIANTS
    ExchangeTypeOK
    ConversationArrives
    AnswerReturned
    BilledAsDelivered
    BufferBounded
    ReadBackSame
PROPERTIES
    ImplementsContract
    StreamEnds
