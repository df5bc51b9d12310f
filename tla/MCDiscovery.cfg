SPECIFICATION SettledSpec
CONSTANTS
    Daemons = {d1, d2, d3}
    MaxStarts = 2
    MaxCrashes = 1
    MaxLost = 1
    Aging = {d1, d2, d3}
    MaxAnnouncing = 1
SYMMETRY Symmetry
INVARIANTS TypeOK RecordsAreGenuine AnswersLackNobody UnansweredIsKnown
