\* One row, a week and a half.  Three sessions are to be kept.
CONSTANTS
    Rows = {"r"}
    Weekdays <- Week
    Open <- WeekLessHoliday
    Start = 5
    MaxDay = 12
    MonthLen = 3
    Intraday = 2
    Keep = 3
    RetentionDays = 4
    Back = 1
    Ahead = 1
SPECIFICATION Spec
PROPERTIES KeepsItsSessions
CHECK_DEADLOCK FALSE
