SPECIFICATION FairSpec
CONSTANTS
    Decks = {d1, d2, d3, d4}
    DeckLength = 2
    Ended = {d2}
    Unreadable = {d3}
    MaxDecks = 4
    Columns = 2
    Blank = Blank
    Eoi = Eoi
    NoDeck = NoDeck
    NoLine = NoLine
INVARIANTS
    JobsAreEnded
PROPERTIES
    TraySpec
    DecksAreRead
    OperatorIsServed
