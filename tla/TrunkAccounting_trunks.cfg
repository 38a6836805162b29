SPECIFICATION FairSpec
CONSTANTS
    Calls = {c1, c2}
    Limits <- Lowered
    First <- Two
    Billed = c1
    Cost = 2
    Pids = {p1, p2}
    None = None
    MaxEdits = 1
INVARIANTS TypeOK TrunksAddUp EntriesAnswered NeverOvercharged
PROPERTIES NeverAboveTwoWay EndedCallsLeave
CHECK_DEADLOCK FALSE
