\* One press of + or - anywhere; KEY0 and WK_UP as often as one likes; one of the
\* keys hits lcd_show.
CONSTANTS
    MaxPresses = 1
    MaxDelays = 1
SPECIFICATION Spec
INVARIANT MenuSettled
PROPERTIES
    OnlyShownApplied
    ChangeApplied
