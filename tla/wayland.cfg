SPECIFICATION MCSpec
CONSTANTS
    a = a
    b = b
    t1 = t1
    t2 = t2
    w1 = w1
    w2 = w2
    None = None
    Key <- TwoKeys
    Repeats <- TwoKeys
    Thread <- TwoSlots
    Timer <- TwoSlots
    Output <- TwoOutputs
    Answers <- AllAnswers
    Rates <- RatesUsed
    Delay = 500
    Unit = 250
    MaxTicks = 2
INVARIANTS TypeOK OneRepeat AppKeysReleased IndicatorWillHide NoStaleList SurfaceShowsState
PROPERTIES RepeatStops
CHECK_DEADLOCK FALSE
