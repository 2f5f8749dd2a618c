-------------------------------- MODULE MCRtc --------------------------------
EXTENDS Rtc
\* Two seconds before midnight on the days around each end of a month, and
\* before each kind of carry within a day, from the year of the first power-up
\* to the last that RTC_Set accepts.
MCYears  == 2022 .. 2099
MCDays   == {RTC_Set(y, m, 1, 0, 0, 0)[1] - d : y \in MCYears \ {2022},
                                               m \in 1 .. 12, d \in 1 .. 2}
MCCarry  == {RTC_Set(2024, 2, 28, 13, 5, 7), RTC_Set(2031, 5, 9, 9, 59, 58),
             RTC_Set(2048, 12, 31, 11, 59, 58), RTC_Set(2060, 7, 4, 8, 7, 58)}
MCStarts == {<<d, 86398>> : d \in MCDays} \cup MCCarry
=============================================================================
