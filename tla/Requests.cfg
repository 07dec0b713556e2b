SPECIFICATION Spec
CONSTANTS
    c1 = c1 c2 = c2
    m1 = m1 m2 = m2 m3 = m3 m4 = m4 m5 = m5
    Toolkits = {"local", "gmail", "googlecalendar"}
    MaxItems = 3
    MaxTold = 2
    Dues <- MCDues
    Calls <- MCCalls
    NoDue = NoDue
    Units = 8
    Minute = 4
    MaxRangeDays = 10
    Clock <- MCClock
    OffsetBefore <- MCBefore
    OffsetAfter <- MCAfter
    Change <- MCChange
    Contact = "home"
    Dates <- MCDates
    Times <- MCTimes
    Mailbox <- MCMailbox
    Unreadable <- MCUnreadable
    MaxSearchResults = 2
    Recipients = {"ana", "rui"}
    Invalid = "invalid"
    MaxDrafts = 2
    MaxMailFaults = 2
SYMMETRY Symmetry
CONSTRAINT OneRequest
INVARIANTS
    PositionsHold
    ClosedAsTold
    WindowIsWhatWasAsked
    CreatedIsWhatWasAsked
    SearchMissesNothing
    ProposalsAreDrafted
CHECK_DEADLOCK FALSE
