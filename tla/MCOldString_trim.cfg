CONSTANTS
    CutStrings <- ToCut
    QuoteStrings <- ToQuote
    CutLengths = {0, 1, 3, 5}
SPECIFICATION OsSpec
CHECK_DEADLOCK FALSE
INVARIANT SameAsTrimLen
