\* A chain of three timers; steps shorter than, as long as and longer than a
\* period.
CONSTANTS
    Modulus = 3
    Prescalers = {1, 2}
    LastTimer = 2
    Reloads = {1}
    ControlValues <- MCControls
    StepCycles = {1, 4}
SPECIFICATION Spec
INVARIANTS TypeOK ClosedFormIsLoop TimerKeepsTime OverflowsOnTime CascadeCountsOverflows
