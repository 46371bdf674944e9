CONSTANTS
    Conns = {c1}
    TickRange = 32
    Slack = 1
SPECIFICATION ClockSpec
INVARIANTS
    SilentGone
    PingDooms
PROPERTY
    GracePeriod
