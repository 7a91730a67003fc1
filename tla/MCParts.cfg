CONSTANTS
    Word = 128
    Buffers <- SomeBuffers
    Lengths = {0, 16, 17, 112}
    StringLengths = {0, 16}
    Words <- SomeWords
    MaxArgc = 3
    ShortOpts <- SomeShort
    LongOpts <- SomeLong
    NULL = NULL
    Prefix <- SomePrefix
    Texts <- SomeTexts
    TextLengths = {0, 1, 2, 3, 4}
    OutLengths = {0, 1, 2, 5, 6, 7, 11, 13}
    QueNodes = {n1, n2, n3}
    QueData = {d1, d2}
    QueCapacities = {1, 2}
    Nil = Nil
    MaxVal = 7
    StackSizes = {0, 1, 3}
    Printers = {t1, t2}
    Nobody = Nobody
    Lines = 2
    TryNum = 1
    MaxTime = 1
    TtTests <- OldSuite
    TtArgcs = {1, 2, 256, 257}
    TtPipes = {1, 4}
    Garbage = Garbage
    CutStrings <- ToCut
    QuoteStrings <- ToQuote
    CutLengths = {0, 1, 3, 5}
SPECIFICATION Spec
CHECK_DEADLOCK FALSE
INVARIANTS
    BlocksAreApart
    RefusesOnlyWhenFull
    EachWordOnce
    AnswersAreRight
    FaultIsAtTheEnd
    TrimIsExact
    TrimStaysInside
    HtmlIsLongestPrefix
    StackIsLifo
    LinesAreWhole
    StampsAreInOrder
    TeatestGreenIsEarned
    TeatestReportIsTruthful
    OldCutsAreExact
    QuotesDecode
PROPERTIES
    QueImplementsFifo
    PrintFinishes
    TeatestFinishes
