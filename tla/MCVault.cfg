SPECIFICATION Spec
CONSTANTS
    Order <- MCOrder
    Sites = {"bank.example", "mail.example"}
    Initially <- MCInitially
    Computers = {"desk", "laptop"}
    Calls <- MCCalls
    Honest = {TRUE, FALSE}
    PageSize = 1
    MAX_ITEMS = 2
    MaxCalls <- MCHowMany
    MaxEdits = 1
    MaxForgets = 1
INVARIANTS
    PagesAgree
    SnapshotFollowsWrites
    CopiedIsWhatWasClicked
CHECK_DEADLOCK FALSE
