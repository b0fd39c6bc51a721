\* A user with any kind of ~/.ws_user.conf; lives of three days at most.
SPECIFICATION FairSpec
CONSTANTS
    a1 = a1
    a2 = a2
    Limit = 3
    MaxExtensions = 1
    DurationDefault = 1
    ReminderDefault = 0
    Files <- AnyFile
    Days <- AnyDays
    Reminders = {0, 1}
    Addresses = {a1, a2}
    Stray <- AnyInt
    Local = Local
    Illegal = Illegal
    Broken = Broken
    None = None
INVARIANTS
    RequestTypeOK
    LifeBounded
PROPERTIES
    ReminderSent
    ReminderKept
    EventuallyExpires
