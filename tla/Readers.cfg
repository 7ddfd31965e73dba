SPECIFICATION MCSpec
CONSTANTS
    Limit = 4
    MaxBody = 6
    Radix = 3
    Digits = 2
    StrLimit = 3
    MaxInteger = 2000
    Statuses = {101, 200, 299, 300, 400, 401, 429, 499, 500, 599, 600, 999}
INVARIANTS
    EventsMatch
    IntegersSurvive
    OutcomeTold
