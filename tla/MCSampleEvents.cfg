\* One key that hits a thread anywhere; a temperature above its first limit, and
\* humidities on both sides of the limit the user may set.
SPECIFICATION FairSpec
CONSTANTS
    TEMS = {40}
    HUMS = {40, 60}
    LIMITS = {50}
    MaxKeys = 1
    MaxBypass = 7
INVARIANT AlarmNotStarved
PROPERTIES
    RequestAnswered
    HumidAlarm
