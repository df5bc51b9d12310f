SPECIFICATION RestartedSpec
CONSTANTS
    Daemons = {d1, d2, d3}
    MaxStarts = 2
    MaxCrashes = 0
    MaxLost = 2
    Aging = {d1}
    MaxAnnouncing = 1
PROPERTIES FindEachOther CurrentAgain
