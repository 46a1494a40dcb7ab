CONSTANTS
    NUL = NUL
    Char <- MCChar
    Word = 4096
    Formats <- MCFormats
    Bufs = {0, 100, 2040}
    Sizes = {0, 1, 4, 9, 1500}
    BufSize = 4
    MaxWidth = 999
    IntWord = 2048
    ShortWord = 16
    IntArgs = {0, 3, 2046}
    LongLongArgs = {2048, 2060}
    CharArgs = {"c", NUL}
    StringArgs <- MCStrings
SPECIFICATION Spec
INVARIANTS StaysInBounds TruncatesOutput ReadsBack PadsOneSide
PROPERTIES FillsField FormatEnds
