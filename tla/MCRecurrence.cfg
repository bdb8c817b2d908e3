SPECIFICATION Spec
CONSTANTS
    Minute = 2
    DayLength = 4
    Long = 3
    Short = 2
    Starts <- MCStarts
    Patterns <- MCPatterns
    ExPatterns <- MCExPatterns
    Durations <- MCDurations
    Instants <- MCInstants
    Untils <- MCUntils
    Clock <- MCClock
    Asked <- MCAsked
    Horizon = 40
    Limit = 8
    Loops = 6
    LastDue = 16
    MaxChanges = 2
INVARIANTS TypeOK CacheIsCurrent AnswersAgree
PROPERTIES DueIsCurrent SearchEnds
