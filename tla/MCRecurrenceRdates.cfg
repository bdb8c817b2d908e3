\* A to-do that recurs every second day, and on one more day given as an RDATE.
SPECIFICATION Spec
CONSTANTS
    Minute = 2
    DayLength = 4
    Long = 3
    Short = 2
    Starts = {10}
    Patterns <- MCDaily
    ExPatterns = {}
    Durations <- MCForEver
    Instants = {13}
    Untils = {}
    Clock = {11}
    Asked = {}
    Horizon = 40
    Limit = 8
    Loops = 6
    LastDue = 16
    MaxChanges = 1
PROPERTY RdatesFallDue
