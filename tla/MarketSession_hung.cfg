CONSTANTS
    u = u
    w1 = w1
    w2 = w2
    w3 = w3
    Workers = {w1, w2, w3}
    JobCapacity = 5
    DayLength = 8
    Timetable <- Weekday
    Lead <- WeekdayLead
    Grace = 1
    Subscribers = {}
    MaxStuck = 3
SYMMETRY Interchangeable
SPECIFICATION Spec
INVARIANT BooksAreOfToday
PROPERTY AnnouncedOnce
