CONSTANTS
    start = start
    enact = enact
    step = step
    stop = stop
    update = update
    load = load
    note = note
    None = None
    Events <- MCEvents
    Order <- MCOrder
    Post <- MCPost
    Metrics <- MCMetrics
    StartEvent <- start
    StopEvent <- stop
    DrivingEvent <- enact
    Arity <- MCArity
    Faulty = {}
    Triggers <- AutoTriggers
    Condition <- ConditionOf
    MaxTriggers <- AutoMax
    Timetable <- AutoTimetable
    Alarms <- NoAlarms
    MaxManual <- AutoManual
    MaxStops = 2
SPECIFICATION Spec
INVARIANT IdleAtTheEnd
CHECK_DEADLOCK FALSE
