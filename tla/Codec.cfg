SPECIFICATION CodecSpec
CONSTANTS
    plain = plain
    coloured = coloured
    Cols = 4
    Chars = {" ", "x"}
    Space = " "
    Styles = {plain, coloured}
    Default = plain
    Codes <- MCCodes
    Places <- MCPlaces
INVARIANTS RowRestored InputRead
