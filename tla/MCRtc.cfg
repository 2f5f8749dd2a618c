\* One start per end of a month over 77 years, three seconds each.
CONSTANTS
    Starts <- MCStarts
    MaxSeconds = 3
SPECIFICATION Spec
INVARIANTS
    CalendarIsDate
    StampSound
