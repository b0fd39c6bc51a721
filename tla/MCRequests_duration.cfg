\* A user whose ~/.ws_user.conf holds nothing but his address.
SPECIFICATION Spec
CONSTANTS
    a1 = a1
    a2 = a2
    Limit = 3
    MaxExtensions = 1
    DurationDefault = 1
    ReminderDefault = 0
    Files <- OnlyOld
    Days <- AnyDays
    Reminders = {0, 1}
    Addresses = {a1, a2}
    Stray <- AnyInt
    Local = Local
    Illegal = Illegal
    Broken = Broken
    None = None
PROPERTY DefaultDuration
