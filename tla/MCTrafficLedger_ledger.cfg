SPECIFICATION Spec
CONSTANTS
    LastDay = 3
    FirstDayOf <- MCFirstDayOf
    RetentionDays <- MCRetentionDays
    RetentionMonths <- MCRetentionMonths
    MaxTraffic = 2
    MaxChanges = 1
    None = None
INVARIANT TypeOK
INVARIANT Balanced
INVARIANT RecentDaysKept
INVARIANT MonthComplete
PROPERTY MonthNeverShrinks
