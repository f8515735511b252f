CONSTANTS
    start = start
    enact = enact
    step = step
    stop = stop
    update = update
    load = load
    note = note
    None = None
    Events <- ManualEvents
    Order <- ManualOrder
    Post <- ManualPost
    Metrics <- ManualPost
    StartEvent <- start
    StopEvent <- stop
    DrivingEvent <- enact
    Arity <- ManualArity
    Faulty = {update}
    Triggers <- ManualTriggers
    Condition <- ConditionOf
    MaxTriggers <- AutoMax
    Timetable <- NoTimetable
    Alarms <- StopAlarm
    MaxManual <- ManualCalls
    MaxStops = 1
SPECIFICATION FairSpec
INVARIANTS
    EveryTriggerRunsOnce
    ReportsLabelled
    StepsBeforeStop
PROPERTIES
    StepsRun
CHECK_DEADLOCK FALSE
