\* Byte streams of up to nine bytes in reads of up to four, and calls of Notify.
SPECIFICATION Spec
CONSTANTS
    g = g
    b = b
    Newline = Newline
    Byte <- MCByte
    Accepted <- MCAccepted
    MaxFrame = 3
    MaxRead = 4
    MaxBytes = 9
    Widths = {1, 3, 4}
    NotifyCalls <- MCNotifyCalls
    FallbackSource <- MCFallback
    FallbackTitle <- MCFallback
    MaxSource = 4
    MaxTitle = 5
    MaxBody = 6
    MaxKey = 4
    MaxLabel = 5
    MaxActions = 2
    Missing = Missing
INVARIANTS CutsByLine BufferBounded NormalizedIsPublishable TruncatesOnlyWhatMust
CHECK_DEADLOCK FALSE
